------------------------------ MODULE ShmQueue ------------------------------
(***************************************************************************)
(* The circular queue in shared memory of interprocess/shmq.c: one process *)
(* pushes, one process pops, and nothing but the two volatile offsets head *)
(* and tail orders them.  A step is one access to the shared memory, so    *)
(* every interleaving of a running push with a running pop is explored.    *)
(* Either process may die between two steps and be restarted; the shared   *)
(* memory survives it.                                                     *)
(*                                                                         *)
(* Stores are taken to become visible in program order, as on the x86      *)
(* machines this library is built for: the code has no barrier.            *)
(*                                                                         *)
(* A definition with an underscore in its name is a faulty variant of the  *)
(* one that follows it; none is used by the specification.                 *)
(***************************************************************************)
EXTENDS Integers, Sequences

CONSTANTS
  HDR,          (* sizeof(shm_cq_t): the offset of the first block         *)
  BLK,          (* sizeof(shm_block_t): the length word before the data    *)
  CqSize,       (* cq_size given to shm_cq_create                          *)
  DataMax,      (* data_max_sz given to shm_cq_create                      *)
  CqMax,        (* shm_cq_max_sz                                           *)
  Word,         (* 2^32: one more than the largest uint32_t                *)
  Tries,        (* how often the wait loops look at head (10 in the code)  *)
  Lengths,      (* lengths of the messages pushed                          *)
  MaxMsgs,      (* bound: messages pushed in a behaviour                   *)
  MaxCrashes    (* bound: deaths of either process in a behaviour          *)

\* The asserts of shm_cq_create and shm_cq_push, and what is true of the
\* constants of shmq.c: two queue sizes and a header fit in 32 bits.
ASSUME ShmAssumption ==
  /\ HDR \in Nat \ {0} /\ BLK \in Nat \ {0} /\ Word \in Nat
  /\ CqSize \in Nat /\ DataMax \in Nat /\ CqMax \in Nat
  /\ CqSize < CqMax /\ CqSize >= DataMax + BLK
  /\ 2 * CqMax + HDR <= Word
  /\ Tries \in Nat \ {0} /\ MaxMsgs \in Nat /\ MaxCrashes \in Nat
  /\ Lengths \subseteq 1..DataMax

ShmSize == CqSize + HDR
ElemMax == DataMax + BLK
Pad     == Word - 1             \* 0xFFFFFFFF
Junk    == Word                 \* a word that is not what anybody stored there
Offsets == HDR..(ShmSize - 1)
None    == [id |-> 0, len |-> 0]

VARIABLES
  head, tail,   (* the two shared offsets                                  *)
  word,         (* word[o]: the length read at offset o                    *)
  byte,         (* byte[o]: the message whose data byte is at o, or 0      *)
  pcP,          (* where the producer is in shm_cq_push                    *)
  elemLen,      (* elem_len, the length of the block being pushed          *)
  cnt,          (* looks taken by the wait loop it is in                   *)
  pcC,          (* where the consumer is in shm_cq_pop                     *)
  cur,          (* cur_mb, the block whose data the consumer may read, or 0 *)
  got,          (* the length shm_cq_pop returned with it                  *)
  crashes,      (* deaths so far                                           *)
  \* History: how many messages were pushed and popped, and for each message
  \* where its block is and how long it is; pos[pushed + 1] is where the next
  \* one goes.  top is the offset the last wrap of tail left, split the first
  \* message placed after it.
  pushed, popped, pos, len, top, split

mem   == <<word, byte>>
prod  == <<pcP, elemLen, cnt>>
cons  == <<pcC, cur, got>>
ghost == <<pushed, popped, pos, len, top, split>>
vars  == <<head, tail, mem, prod, cons, crashes, ghost>>

ProducerAt == {"idle", "align_wait", "pad", "wrap", "push_wait", "len", "copy", "commit"}
ConsumerAt == {"idle", "empty1", "align", "pad", "unwrap", "empty2", "assert",
               "advance", "return", "aborted"}

Msgs == 1..MaxMsgs

---------------------------------------------------------------------------
(* Stores into the mapping.  A store to one byte of a word destroys the word. *)

StoreWord(o, v) ==
  /\ word' = [a \in Offsets |-> IF a = o THEN v
                                ELSE IF o - BLK < a /\ a < o + BLK THEN Junk
                                ELSE word[a]]
  /\ byte' = [a \in Offsets |-> IF o <= a /\ a < o + BLK THEN 0 ELSE byte[a]]

StoreData(o, l, m) ==
  /\ word' = [a \in Offsets |-> IF o - BLK < a /\ a < o + l THEN Junk ELSE word[a]]
  /\ byte' = [a \in Offsets |-> IF o <= a /\ a < o + l THEN m ELSE byte[a]]

\* The word at offset o, junk outside the mapping.
Load(o) == IF HDR <= o /\ o + BLK <= ShmSize THEN word[o] ELSE Junk

\* The queue as shm_cq_create leaves it in a region that ftruncate zeroed.
Init ==
  /\ head = HDR /\ tail = HDR
  /\ word = [o \in Offsets |-> 0]
  /\ byte = [o \in Offsets |-> 0]
  /\ pcP = "idle" /\ elemLen = 0 /\ cnt = 0
  /\ pcC = "idle" /\ cur = 0 /\ got = 0
  /\ crashes = 0
  /\ pushed = 0 /\ popped = 0 /\ top = HDR /\ split = 1
  /\ pos = [n \in 1..(MaxMsgs + 1) |-> HDR]
  /\ len = [n \in Msgs |-> 0]

---------------------------------------------------------------------------
(* The producer. *)

Surplus_NoHeader == ShmSize - tail + BLK
Surplus == ShmSize - tail

\* The tests of the two wait loops; the sum is taken in uint32_t.
AlignReady_AtStart == head <= tail
AlignReady == head > HDR /\ head <= tail

PushReady_NoSlack == head <= tail \/ head >= (tail + elemLen) % Word
PushReady_Strict  == head < tail \/ head >= (tail + elemLen + ElemMax) % Word
PushReady  == head <= tail \/ head >= (tail + elemLen + ElemMax) % Word

\* shm_cq_push is called: does the block fit behind tail?
PushCall ==
  /\ pcP = "idle"
  /\ pushed < MaxMsgs
  /\ \E l \in Lengths :
       /\ elemLen' = l + BLK
       /\ pcP' = IF Surplus >= l + BLK THEN "push_wait" ELSE "align_wait"
  /\ cnt' = 0
  /\ UNCHANGED <<head, tail, mem, cons, crashes, ghost>>

AlignWaitDone ==
  /\ pcP = "align_wait"
  /\ AlignReady
  /\ pcP' = IF Surplus >= BLK THEN "pad" ELSE "wrap"
  /\ cnt' = 0
  /\ UNCHANGED <<head, tail, mem, elemLen, cons, crashes, ghost>>

\* The region behind tail is marked as unused.
WritePad ==
  /\ pcP = "pad"
  /\ StoreWord(tail, Pad)
  /\ pcP' = "wrap"
  /\ UNCHANGED <<head, tail, elemLen, cnt, cons, crashes, ghost>>

WrapTail ==
  /\ pcP = "wrap"
  /\ tail' = HDR
  /\ pcP' = "push_wait"
  /\ top' = tail
  /\ split' = pushed + 1
  /\ pos' = [pos EXCEPT ![pushed + 1] = HDR]
  /\ UNCHANGED <<head, mem, elemLen, cnt, cons, crashes, pushed, popped, len>>

PushWaitDone ==
  /\ pcP = "push_wait"
  /\ PushReady
  /\ pcP' = "len"
  /\ cnt' = 0
  /\ UNCHANGED <<head, tail, mem, elemLen, cons, crashes, ghost>>

\* A look that fails and is not the last one: usleep and look again.
WaitOn ==
  /\ \/ pcP = "align_wait" /\ ~AlignReady
     \/ pcP = "push_wait" /\ ~PushReady
  /\ cnt + 1 < Tries
  /\ cnt' = cnt + 1
  /\ UNCHANGED <<head, tail, mem, pcP, elemLen, cons, crashes, ghost>>

\* The last look fails: shm_cq_push returns -1.  A wrap of tail stays.
PushFails ==
  /\ \/ pcP = "align_wait" /\ ~AlignReady
     \/ pcP = "push_wait" /\ ~PushReady
  /\ cnt + 1 >= Tries
  /\ pcP' = "idle" /\ elemLen' = 0 /\ cnt' = 0
  /\ UNCHANGED <<head, tail, mem, cons, crashes, ghost>>

WriteLen_DataLen ==
  /\ pcP = "len"
  /\ StoreWord(tail, elemLen - BLK)
  /\ pcP' = "copy"
  /\ UNCHANGED <<head, tail, elemLen, cnt, cons, crashes, ghost>>

WriteLen ==
  /\ pcP = "len"
  /\ StoreWord(tail, elemLen)
  /\ pcP' = "copy"
  /\ UNCHANGED <<head, tail, elemLen, cnt, cons, crashes, ghost>>

CopyData ==
  /\ pcP = "copy"
  /\ StoreData(tail + BLK, elemLen - BLK, pushed + 1)
  /\ pcP' = "commit"
  /\ UNCHANGED <<head, tail, elemLen, cnt, cons, crashes, ghost>>

\* tail += elem_len publishes the message; shm_cq_push returns 0.
Commit ==
  /\ pcP = "commit"
  /\ tail' = tail + elemLen
  /\ pushed' = pushed + 1
  /\ len' = [len EXCEPT ![pushed + 1] = elemLen]
  /\ pos' = [pos EXCEPT ![pushed + 2] = tail + elemLen]
  /\ pcP' = "idle" /\ elemLen' = 0
  /\ UNCHANGED <<head, mem, cnt, cons, crashes, popped, top, split>>

---------------------------------------------------------------------------
(* The consumer.  head is its own; every look at tail is a step. *)

\* shm_cq_pop is called: the caller is done with the buffer of the last call.
PopCall ==
  /\ pcC = "idle"
  /\ pcC' = "empty1"
  /\ cur' = 0 /\ got' = 0
  /\ UNCHANGED <<head, tail, mem, prod, crashes, ghost>>

TestEmpty_HeadPast ==
  /\ \/ pcC = "empty1" /\ pcC' = IF head >= tail THEN "idle" ELSE "align"
     \/ pcC = "empty2" /\ pcC' = IF head >= tail THEN "idle" ELSE "assert"
  /\ UNCHANGED <<head, tail, mem, prod, cur, got, crashes, ghost>>

\* The two tests head == tail; 0 is returned when they hold.
TestEmpty ==
  /\ \/ pcC = "empty1" /\ pcC' = IF head = tail THEN "idle" ELSE "align"
     \/ pcC = "empty2" /\ pcC' = IF head = tail THEN "idle" ELSE "assert"
  /\ UNCHANGED <<head, tail, mem, prod, cur, got, crashes, ghost>>

\* shm_cq_align_head looks at tail, then at the word at head, then moves head.
AlignHead ==
  /\ pcC = "align"
  /\ pcC' = IF head < tail THEN "empty2" ELSE "pad"
  /\ UNCHANGED <<head, tail, mem, prod, cur, got, crashes, ghost>>

ReadPad ==
  /\ pcC = "pad"
  /\ pcC' = IF ShmSize - head < BLK \/ Load(head) = Pad THEN "unwrap" ELSE "empty2"
  /\ UNCHANGED <<head, tail, mem, prod, cur, got, crashes, ghost>>

UnwrapHead ==
  /\ pcC = "unwrap"
  /\ head' = HDR
  /\ pcC' = "empty2"
  /\ UNCHANGED <<tail, mem, prod, cur, got, crashes, ghost>>

\* assert(cur_mb->len <= q->elem_max_sz): the process dies when it fails.
AssertLen ==
  /\ pcC = "assert"
  /\ pcC' = IF Load(head) <= ElemMax THEN "advance" ELSE "aborted"
  /\ UNCHANGED <<head, tail, mem, prod, cur, got, crashes, ghost>>

\* *data = cur_mb->data; head += cur_mb->len: the message has left the queue.
Advance ==
  /\ pcC = "advance"
  /\ cur' = head
  /\ head' = (head + Load(head)) % Word
  /\ popped' = popped + 1
  /\ pcC' = "return"
  /\ UNCHANGED <<tail, mem, prod, got, crashes, pushed, pos, len, top, split>>

Return_WholeBlock ==
  /\ pcC = "return"
  /\ got' = Load(cur) % Word
  /\ pcC' = "idle"
  /\ UNCHANGED <<head, tail, mem, prod, cur, crashes, ghost>>

\* The length returned is read again, from a block head has already passed.
Return ==
  /\ pcC = "return"
  /\ got' = (Load(cur) - BLK) % Word
  /\ pcC' = "idle"
  /\ UNCHANGED <<head, tail, mem, prod, cur, crashes, ghost>>

---------------------------------------------------------------------------
(* Deaths.  The process is restarted and finds the queue as it was left. *)

ProducerDies ==
  /\ pcP # "idle"
  /\ crashes < MaxCrashes
  /\ crashes' = crashes + 1
  /\ pcP' = "idle" /\ elemLen' = 0 /\ cnt' = 0
  /\ UNCHANGED <<head, tail, mem, cons, ghost>>

ConsumerDies ==
  /\ pcC # "aborted"
  /\ pcC # "idle" \/ cur # 0
  /\ crashes < MaxCrashes
  /\ crashes' = crashes + 1
  /\ pcC' = "idle" /\ cur' = 0 /\ got' = 0
  /\ UNCHANGED <<head, tail, mem, prod, ghost>>

Producer ==
  \/ PushCall \/ AlignWaitDone \/ WritePad \/ WrapTail \/ PushWaitDone
  \/ WaitOn \/ PushFails \/ WriteLen \/ CopyData \/ Commit

Consumer ==
  \/ PopCall \/ TestEmpty \/ AlignHead \/ ReadPad \/ UnwrapHead
  \/ AssertLen \/ Advance \/ Return

Next == Producer \/ Consumer \/ ProducerDies \/ ConsumerDies

Spec == Init /\ [][Next]_vars

\* The processes of shmq_push.c and shmq_pop.c: one pushes until it is taken,
\* the other pops for ever; the scheduler runs both.
FairSpec == Spec /\ WF_vars(Producer) /\ WF_vars(Consumer)

---------------------------------------------------------------------------
(* Properties. *)

\* Each variable keeps its type; a length is an elem_len of shm_cq_push or 0.
TypeOK ==
  /\ head \in HDR..ShmSize /\ tail \in HDR..ShmSize
  /\ word \in [Offsets -> 0..Word]
  /\ byte \in [Offsets -> 0..MaxMsgs]
  /\ pcP \in ProducerAt /\ elemLen \in 0..ElemMax /\ cnt \in 0..(Tries - 1)
  /\ pcC \in ConsumerAt /\ cur \in {0} \cup Offsets /\ got \in 0..DataMax
  /\ crashes \in 0..MaxCrashes
  /\ pushed \in 0..MaxMsgs /\ popped \in 0..pushed
  /\ pos \in [1..(MaxMsgs + 1) -> HDR..ShmSize]
  /\ len \in [Msgs -> 0..ElemMax]
  /\ top \in HDR..ShmSize /\ split \in 1..(MaxMsgs + 1)

End(n) == pos[n] + len[n]

\* Message n is in the memory as it was pushed: its length, all its bytes.
Stored(n) ==
  /\ word[pos[n]] = len[n]
  /\ \A o \in (pos[n] + BLK)..(End(n) - 1) : byte[o] = n

\* The buffer shm_cq_pop handed out is the message that was pushed, whole, and
\* the length it returned is its length, until the consumer pops again: the
\* elem_max_sz that shm_cq_push_wait adds keeps the producer out of it.
HeldIntact ==
  cur # 0 =>
    /\ popped > 0 /\ cur = pos[popped]
    /\ Stored(popped)
    /\ pcC = "idle" => got = len[popped] - BLK

\* No message that waits in the queue is overwritten, neither by a block nor by
\* the padding word of shm_cq_align_tail.
UnreadIntact == \A n \in (popped + 1)..pushed : Stored(n)

\* shm_cq_push writes nothing outside the mapping, shm_cq_pop never finds a length
\* the assertion of line 137 refuses, and the sum of shm_cq_push_wait fits in a
\* uint32_t for every queue shm_cq_create accepts.
InBounds ==
  /\ pcP = "pad" => tail + BLK <= ShmSize
  /\ pcP \in {"len", "copy", "commit"} => tail + elemLen <= ShmSize
  /\ pcC # "aborted"
  /\ pcP = "push_wait" => tail + elemLen + ElemMax < Word

\* Together: whatever the interleaving and wherever either side dies, every
\* message is whole from its push to the end of its use, and no access leaves the
\* region (shm_cq_push, shm_cq_pop).
QueueSound == TypeOK /\ HeldIntact /\ UnreadIntact /\ InBounds

\* A pop that returns 0 saw an empty queue: at the test that answered it there
\* was no message pushed and not popped.
EmptyMeansEmpty ==
  [][(pcC \in {"empty1", "empty2"} /\ pcC' = "idle" /\ crashes' = crashes)
       => popped = pushed]_vars

\* The queue as the memory holds it: the blocks at the places of the messages.
MessageAt(p) ==
  [ id  |-> IF \A o \in (p + BLK)..(p + Load(p) - 1) :
                 o \in Offsets /\ byte[o] = byte[p + BLK]
            THEN byte[p + BLK] ELSE 0,
    len |-> Load(p) - BLK ]

QueueInMemory == [i \in 1..(pushed - popped) |-> MessageAt(pos[popped + i])]

LentInMemory == IF cur = 0 THEN None ELSE MessageAt(cur)

Fifo == INSTANCE ShmFifo WITH
  queue <- QueueInMemory, lent <- LentInMemory, sent <- pushed

\* The memory and the two offsets implement the queue of ShmFifo.
ImplementsFifo == Fifo!Spec

\* Whatever the lengths and wherever a process died, the producer that keeps
\* pushing gets every message in, and the consumer that keeps popping gets every
\* message out.
AllDelivered == \A n \in Msgs : <>(popped >= n)
=============================================================================
