--------------------------- MODULE ShmQueueProofs ---------------------------
(***************************************************************************)
(* The inductive invariant of ShmQueue and the proofs that rest on it; and *)
(* those of its lock (SemLock) and of the making of the region (ShmqRegion)*)
(* on the bench MCShmQueue.                                                *)
(***************************************************************************)
EXTENDS MCShmQueue, FiniteSetTheorems, SequenceTheorems, TLAPS

First == popped + 1
Free  == pushed + 1

\* Where the blocks are when tail has not wrapped past head: one after the
\* other from head to tail.
Flat ==
  head <= tail =>
    /\ pos[First] = head
    /\ \A n \in First..pushed : pos[n + 1] = End(n)
    /\ \A m, n \in First..Free : m < n => End(m) <= pos[n]

\* And when it has: the messages before split from head to top, where the
\* padding begins, the others from the start of the region to tail.
Folded ==
  tail < head =>
    /\ split \in First..Free
    /\ pos[split] = HDR
    /\ head <= top
    /\ First = split => head = top
    /\ First < split => pos[First] = head /\ End(split - 1) = top
    /\ \A n \in First..pushed : n + 1 # split => pos[n + 1] = End(n)
    /\ \A m, n \in First..Free : m < n /\ (n < split \/ split <= m) => End(m) <= pos[n]
    /\ \A n \in First..pushed : n < split => head <= pos[n] /\ End(n) <= top
    /\ ShmSize - top < BLK \/ word[top] = Pad

Blocks ==
  /\ pos[Free] = tail
  /\ \A n \in First..pushed :
       BLK < len[n] /\ len[n] <= ElemMax /\ HDR <= pos[n] /\ End(n) <= ShmSize

\* The block the consumer may be looking at ends where head is.
Lent ==
  cur # 0 =>
    /\ pcC \in {"idle", "return"}
    /\ popped > 0 /\ cur = pos[popped] /\ End(popped) = head
    /\ BLK < len[popped] /\ len[popped] <= ElemMax
    /\ Stored(popped)
    /\ pcC = "idle" => got = len[popped] - BLK

\* What the producer knows at each point of shm_cq_push.
Pushing ==
  /\ pcP # "idle" => BLK < elemLen /\ elemLen <= ElemMax /\ pushed < MaxMsgs
  /\ pcP # "idle" => elemLen - BLK \in Lengths
  /\ pcP \in {"align_wait", "pad", "wrap"} => Surplus < elemLen
  /\ pcP \in {"pad", "wrap"} => HDR < head /\ head <= tail
  /\ pcP = "pad" => Surplus >= BLK
  /\ pcP = "wrap" => Surplus < BLK \/ word[tail] = Pad
  /\ pcP \in {"push_wait", "len", "copy", "commit"} => Surplus >= elemLen
  /\ pcP \in {"len", "copy", "commit"} /\ tail < head => head >= tail + elemLen + ElemMax
  /\ pcP \in {"copy", "commit"} => word[tail] = elemLen
  /\ pcP = "commit" => \A o \in (tail + BLK)..(tail + elemLen - 1) : byte[o] = pushed + 1

\* What the consumer knows at each point of shm_cq_pop.
Popping ==
  /\ pcC \in {"align", "pad"} => First <= pushed \/ tail < head
  /\ pcC = "pad" => tail < head
  /\ pcC = "unwrap" => tail < head /\ First = split
  /\ pcC = "empty2" => /\ tail < head => First < split
                       /\ First > pushed => head = HDR
  /\ pcC \in {"assert", "advance"} => First <= pushed /\ (tail < head => First < split)
  /\ pcC = "return" => cur # 0
  /\ pcC # "aborted"

IInv ==
  /\ TypeOK /\ Flat /\ Folded /\ Blocks
  /\ UnreadIntact /\ Lent /\ Pushing /\ Popping

---------------------------------------------------------------------------
(* Lemmas. *)

USE DEF ShmSize, ElemMax, Pad, Junk, Offsets, Msgs, End, First, Free, Surplus

\* What the asserts of shm_cq_create say of the sizes.
LEMMA Sizes ==
  /\ HDR \in Nat /\ HDR > 0 /\ BLK \in Nat /\ BLK > 0
  /\ CqSize \in Nat /\ DataMax \in Nat /\ Word \in Nat /\ MaxMsgs \in Nat
  /\ Tries \in Nat /\ Tries > 0 /\ MaxCrashes \in Nat
  /\ ElemMax \in Nat /\ ShmSize \in Nat /\ HDR + ElemMax <= ShmSize
  /\ ShmSize + ElemMax < Word
  /\ \A l \in Lengths : l \in Nat /\ 0 < l /\ l <= DataMax
BY ShmAssumption

\* The numbers among the variables.
LEMMA Types ==
  ASSUME TypeOK
  PROVE  /\ head \in Nat /\ tail \in Nat /\ head >= HDR /\ tail >= HDR
         /\ head <= ShmSize /\ tail <= ShmSize
         /\ pushed \in Nat /\ popped \in Nat /\ popped <= pushed /\ pushed <= MaxMsgs
         /\ elemLen \in Nat /\ cur \in Nat /\ top \in Nat /\ split \in Nat
         /\ \A n \in 1..(MaxMsgs + 1) : pos[n] \in Nat
         /\ \A n \in Msgs : len[n] \in Nat
BY Sizes DEF TypeOK

\* A uint32_t sum that does not wrap.
LEMMA SmallMod == ASSUME NEW a \in Nat, NEW b \in Nat, a < b PROVE a % b = a
OBVIOUS

\* Steps that move neither offset and store nothing keep every block in place.
LEMMA SameBlocks ==
  ASSUME Flat, Folded, Blocks, UnreadIntact, UNCHANGED <<head, tail, mem, ghost>>
  PROVE  Flat' /\ Folded' /\ Blocks' /\ UnreadIntact'
BY DEF Flat, Folded, Blocks, UnreadIntact, Stored, mem, ghost

\* The queue of shm_cq_create satisfies the invariant.
LEMMA InitIInv == Init => IInv
<1>1. SUFFICES ASSUME Init PROVE IInv
  OBVIOUS
<1>2. TypeOK
  BY <1>1, Sizes DEF Init, TypeOK, ProducerAt, ConsumerAt
<1>3. Flat /\ Folded /\ Blocks /\ UnreadIntact
  BY <1>1, Sizes DEF Init, Flat, Folded, Blocks, UnreadIntact
<1>4. Lent /\ Pushing /\ Popping
  BY <1>1 DEF Init, Lent, Pushing, Popping
<1> QED
  BY <1>2, <1>3, <1>4 DEF IInv

\* What is read after a store.
LEMMA AfterStoreWord ==
  ASSUME NEW o, NEW v, StoreWord(o, v), NEW a \in Offsets
  PROVE  /\ a = o => word'[a] = v
         /\ a # o /\ ~(o - BLK < a /\ a < o + BLK) => word'[a] = word[a]
         /\ ~(o <= a /\ a < o + BLK) => byte'[a] = byte[a]
BY DEF StoreWord

LEMMA AfterStoreData ==
  ASSUME NEW o, NEW l, NEW m, StoreData(o, l, m), NEW a \in Offsets
  PROVE  /\ ~(o - BLK < a /\ a < o + l) => word'[a] = word[a]
         /\ ~(o <= a /\ a < o + l) => byte'[a] = byte[a]
         /\ o <= a /\ a < o + l => byte'[a] = m
BY DEF StoreData

\* A store outside a block leaves the message in it as it is.
LEMMA StoreWordKeeps ==
  ASSUME TypeOK, NEW n \in Msgs, HDR <= pos[n], End(n) <= ShmSize, BLK < len[n],
         Stored(n), NEW o \in Nat, NEW v, StoreWord(o, v), UNCHANGED <<pos, len>>,
         End(n) <= o \/ o + BLK <= pos[n]
  PROVE  Stored(n)'
<1>1. pos[n] \in Nat /\ len[n] \in Nat /\ BLK \in Nat
  BY Types, Sizes
<1>2. word'[pos[n]] = word[pos[n]]
  <2>1. pos[n] \in Offsets /\ ~(o - BLK < pos[n] /\ pos[n] < o + BLK)
    BY <1>1, Sizes
  <2>2. pos[n] # o
    BY <1>1, Sizes
  <2> QED
    BY <2>1, <2>2, AfterStoreWord
<1>3. \A a \in (pos[n] + BLK)..(pos[n] + len[n] - 1) : byte'[a] = byte[a]
  <2> SUFFICES ASSUME NEW a \in (pos[n] + BLK)..(pos[n] + len[n] - 1)
               PROVE  byte'[a] = byte[a]
    OBVIOUS
  <2>1. a \in Offsets /\ ~(o <= a /\ a < o + BLK)
    BY <1>1, Sizes
  <2> QED
    BY <2>1, AfterStoreWord
<1> QED
  BY <1>1, <1>2, <1>3 DEF Stored

LEMMA StoreDataKeeps ==
  ASSUME TypeOK, NEW n \in Msgs, HDR <= pos[n], End(n) <= ShmSize, BLK < len[n],
         Stored(n), NEW o \in Nat, NEW l \in Nat, NEW m, StoreData(o, l, m),
         UNCHANGED <<pos, len>>, End(n) <= o \/ o + l <= pos[n]
  PROVE  Stored(n)'
<1>1. pos[n] \in Nat /\ len[n] \in Nat /\ BLK \in Nat
  BY Types, Sizes
<1>2. word'[pos[n]] = word[pos[n]]
  <2>1. pos[n] \in Offsets /\ ~(o - BLK < pos[n] /\ pos[n] < o + l)
    BY <1>1, Sizes
  <2> QED
    BY <2>1, AfterStoreData
<1>3. \A a \in (pos[n] + BLK)..(pos[n] + len[n] - 1) : byte'[a] = byte[a]
  <2> SUFFICES ASSUME NEW a \in (pos[n] + BLK)..(pos[n] + len[n] - 1)
               PROVE  byte'[a] = byte[a]
    OBVIOUS
  <2>1. a \in Offsets /\ ~(o <= a /\ a < o + l)
    BY <1>1, Sizes
  <2> QED
    BY <2>1, AfterStoreData
<1> QED
  BY <1>1, <1>2, <1>3 DEF Stored

\* The region shm_cq_push is about to write holds no message that waits, not the
\* message the consumer looks at, and not the padding word.
LEMMA WindowFree ==
  ASSUME IInv, pcP \in {"pad", "len", "copy"}
  PROVE  /\ tail + elemLen <= ShmSize \/ pcP = "pad"
         /\ \A n \in First..pushed : End(n) <= tail \/ (tail + elemLen <= pos[n] /\ pcP # "pad")
         /\ cur # 0 => End(popped) <= tail \/ (tail + elemLen <= pos[popped] /\ pcP # "pad")
         /\ tail < head => tail + elemLen <= top /\ pcP # "pad"
<1> USE Sizes DEF IInv, Pushing
<1>1. TypeOK
  OBVIOUS
<1> USE Types
<1>4. tail + elemLen <= ShmSize \/ pcP = "pad"
  BY <1>1
<1>2. CASE head <= tail
  <2>1. \A n \in First..pushed : End(n) <= tail
    <3> SUFFICES ASSUME NEW n \in First..pushed PROVE End(n) <= tail
      OBVIOUS
    <3>1. n \in First..Free /\ Free \in First..Free /\ n < Free
      BY <1>1
    <3> QED
      BY <1>2, <3>1 DEF Flat, Blocks
  <2>2. cur # 0 => End(popped) <= tail
    BY <1>2 DEF Lent
  <2> QED
    BY <1>1, <1>2, <1>4, <2>1, <2>2
<1>3. CASE tail < head
  <2>1. pcP # "pad" /\ tail + elemLen + ElemMax <= head
    BY <1>1, <1>3
  <2>2. \A n \in First..pushed : End(n) <= tail \/ tail + elemLen <= pos[n]
    <3> SUFFICES ASSUME NEW n \in First..pushed
                 PROVE  End(n) <= tail \/ tail + elemLen <= pos[n]
      OBVIOUS
    <3>1. n \in First..Free /\ Free \in First..Free /\ n < Free /\ pos[n] \in Nat
      BY <1>1
    <3>2. CASE n < split
      BY <1>1, <1>3, <2>1, <3>1, <3>2 DEF Folded
    <3>3. CASE split <= n
      BY <1>3, <3>1, <3>3 DEF Folded, Blocks
    <3> QED
      BY <1>3, <3>2, <3>3 DEF Folded
  <2>3. cur # 0 => tail + elemLen <= pos[popped]
    BY <1>1, <2>1 DEF Lent
  <2>4. tail + elemLen <= top
    BY <1>1, <1>3, <2>1 DEF Folded
  <2> QED
    BY <1>4, <2>1, <2>2, <2>3, <2>4
<1> QED
  BY <1>1, <1>2, <1>3

\* What one side knows survives a step of the other that moves no offset.
LEMMA SameConsumer ==
  ASSUME Lent, Popping, UNCHANGED <<head, tail, mem, cons, ghost>>
  PROVE  Lent' /\ Popping'
BY DEF Lent, Popping, Stored, mem, cons, ghost

LEMMA SameProducer ==
  ASSUME Pushing, UNCHANGED <<head, tail, mem, prod, ghost>>
  PROVE  Pushing'
BY DEF Pushing, mem, prod, ghost

---------------------------------------------------------------------------
(* The steps of the producer. *)

\* Calls, tests and failures: only prod changes.
LEMMA ProducerLooks ==
  ASSUME IInv, PushCall \/ AlignWaitDone \/ PushWaitDone \/ WaitOn \/ PushFails \/ ProducerDies
  PROVE  IInv'
<1>1. UNCHANGED <<head, tail, mem, cons, ghost>>
  BY DEF PushCall, AlignWaitDone, PushWaitDone, WaitOn, PushFails, ProducerDies
<1>2. Flat' /\ Folded' /\ Blocks' /\ UnreadIntact'
  BY <1>1, SameBlocks DEF IInv
<1>3. Lent' /\ Popping'
  BY <1>1, SameConsumer DEF IInv
<1>4. TypeOK /\ Pushing
  BY DEF IInv
<1>6. ASSUME pcP' \in ProducerAt, elemLen' \in 0..ElemMax, cnt' \in 0..(Tries - 1),
             crashes' \in 0..MaxCrashes
      PROVE  TypeOK'
  BY <1>1, <1>4, <1>6 DEF TypeOK, mem, cons, ghost
<1>7. crashes \in 0..MaxCrashes /\ elemLen \in 0..ElemMax /\ cnt \in 0..(Tries - 1)
  BY <1>4 DEF TypeOK
<1>5. TypeOK' /\ Pushing'
  <2>1. CASE PushCall
    <3> PICK l \in Lengths : /\ elemLen' = l + BLK
                             /\ pcP' = IF Surplus >= l + BLK THEN "push_wait" ELSE "align_wait"
      BY <2>1 DEF PushCall
    <3>1. BLK < elemLen' /\ elemLen' <= ElemMax /\ elemLen' \in Nat
      BY Sizes
    <3>5. pcP' \in ProducerAt /\ cnt' \in 0..(Tries - 1) /\ elemLen' \in 0..ElemMax
      BY <2>1, <3>1, Sizes DEF PushCall, ProducerAt
    <3>2. TypeOK'
      BY <1>6, <1>7, <2>1, <3>5 DEF PushCall
    <3>3. tail' = tail /\ pushed' = pushed /\ pushed < MaxMsgs /\ tail \in Nat
      BY <1>1, <1>4, <2>1, Types DEF PushCall, ghost
    <3>4. Pushing'
      BY <3>1, <3>3, Sizes DEF Pushing
    <3> QED
      BY <3>2, <3>4
  <2>2. CASE AlignWaitDone
    <3>7. pcP' \in ProducerAt /\ cnt' \in 0..(Tries - 1)
      BY <2>2, Sizes DEF AlignWaitDone, ProducerAt
    <3>1. TypeOK'
      BY <1>6, <1>7, <2>2, <3>7 DEF AlignWaitDone
    <3>2. Pushing'
      BY <1>4, <2>2, Sizes, Types DEF AlignWaitDone, AlignReady, Pushing, mem, cons, ghost
    <3> QED
      BY <3>1, <3>2
  <2>3. CASE PushWaitDone
    <3>7. pcP' \in ProducerAt /\ cnt' \in 0..(Tries - 1)
      BY <2>3, Sizes DEF PushWaitDone, ProducerAt
    <3>1. TypeOK'
      BY <1>6, <1>7, <2>3, <3>7 DEF PushWaitDone
    <3>2. tail + elemLen + ElemMax < Word
      BY <1>4, <2>3, Sizes, Types DEF PushWaitDone, Pushing
    <3>3. (tail + elemLen + ElemMax) % Word = tail + elemLen + ElemMax
      <4>1. tail + elemLen + ElemMax \in Nat
        BY <1>4, Sizes, Types
      <4> QED
        BY <3>2, <4>1, Sizes, SmallMod
    <3>5. head <= tail \/ head >= tail + elemLen + ElemMax
      BY <2>3, <3>3 DEF PushWaitDone, PushReady
    <3>6. pcP = "push_wait" /\ pcP' = "len" /\ UNCHANGED <<head, tail, elemLen, pushed>>
      BY <2>3 DEF PushWaitDone, ghost
    <3>4. Pushing'
      BY <1>4, <3>5, <3>6, Types DEF Pushing
    <3> QED
      BY <3>1, <3>4
  <2>4. CASE WaitOn
    <3>7. pcP \in ProducerAt /\ cnt' \in 0..(Tries - 1)
      BY <1>4, <1>7, <2>4, Sizes DEF WaitOn, TypeOK
    <3>1. TypeOK'
      BY <1>6, <1>7, <2>4, <3>7 DEF WaitOn
    <3>2. Pushing'
      BY <1>4, <2>4 DEF WaitOn, Pushing, mem, ghost
    <3> QED
      BY <3>1, <3>2
  <2>5. CASE PushFails \/ ProducerDies
    <3>3. crashes' \in 0..MaxCrashes
      BY <1>4, <2>5, Sizes DEF PushFails, ProducerDies, TypeOK
    <3>4. pcP' \in ProducerAt /\ elemLen' \in 0..ElemMax /\ cnt' \in 0..(Tries - 1)
      BY <2>5, Sizes DEF PushFails, ProducerDies, ProducerAt
    <3>1. TypeOK'
      BY <1>6, <3>3, <3>4
    <3>2. Pushing'
      BY <2>5 DEF PushFails, ProducerDies, Pushing
    <3> QED
      BY <3>1, <3>2
  <2> QED
    BY <2>1, <2>2, <2>3, <2>4, <2>5
<1> QED
  BY <1>2, <1>3, <1>5 DEF IInv

---------------------------------------------------------------------------
(* The steps of the consumer. *)

\* When a message waits and head is not at the padding, its block is at head.
LEMMA AtHead ==
  ASSUME IInv, First <= pushed, tail < head => First < split
  PROVE  /\ First \in Msgs /\ First \in First..pushed
         /\ pos[First] = head /\ Load(head) = len[First] /\ Stored(First)
         /\ BLK < len[First] /\ len[First] <= ElemMax /\ End(First) <= ShmSize
<1>1. TypeOK
  BY DEF IInv
<1>2. First \in Msgs /\ First \in First..pushed
  BY <1>1, Types, Sizes
<1>3. pos[First] = head
  BY <1>1, Types DEF IInv, Flat, Folded
<1>4. Stored(First) /\ BLK < len[First] /\ len[First] <= ElemMax /\ End(First) <= ShmSize
  BY <1>2 DEF IInv, Blocks, UnreadIntact
<1>5. len[First] \in Nat /\ HDR <= head
  BY <1>1, <1>2, Types
<1>6. Load(head) = len[First]
  BY <1>1, <1>3, <1>4, <1>5, Sizes, Types DEF Load, Stored
<1> QED
  BY <1>2, <1>3, <1>4, <1>6

\* Tests, reads and failures: only cons changes.
LEMMA ConsumerLooks ==
  ASSUME IInv, PopCall \/ TestEmpty \/ AlignHead \/ ReadPad \/ AssertLen \/ Return \/ ConsumerDies
  PROVE  IInv'
<1>1. UNCHANGED <<head, tail, mem, prod, ghost>>
  BY DEF PopCall, TestEmpty, AlignHead, ReadPad, AssertLen, Return, ConsumerDies
<1>2. Flat' /\ Folded' /\ Blocks' /\ UnreadIntact'
  BY <1>1, SameBlocks DEF IInv
<1>3. Pushing'
  BY <1>1, SameProducer DEF IInv
<1>4. TypeOK /\ Lent /\ Popping /\ Flat /\ Folded /\ Blocks
  BY DEF IInv
<1>5. UNCHANGED <<head, tail, word, byte, pcP, elemLen, cnt, pushed, popped, pos, len, top, split>>
  BY <1>1 DEF mem, prod, ghost
<1>6. ASSUME pcC' \in ConsumerAt, cur' \in {0} \cup Offsets, got' \in 0..DataMax,
             crashes' \in 0..MaxCrashes
      PROVE  TypeOK'
  BY <1>4, <1>5, <1>6 DEF TypeOK
<1>7. CASE PopCall \/ ConsumerDies
  <2>1. pcC' \in {"idle", "empty1"} /\ cur' = 0 /\ got' = 0
    BY <1>7 DEF PopCall, ConsumerDies
  <2>2. crashes' \in 0..MaxCrashes
    BY <1>4, <1>7, Sizes DEF PopCall, ConsumerDies, TypeOK
  <2>3. TypeOK'
    BY <1>6, <2>1, <2>2, Sizes DEF ConsumerAt
  <2>4. Lent' /\ Popping'
    BY <2>1 DEF Lent, Popping
  <2> QED
    BY <1>2, <1>3, <2>3, <2>4 DEF IInv
<1>8. CASE Return
  <2>1. pcC = "return" /\ pcC' = "idle" /\ cur' = cur /\ crashes' = crashes
    BY <1>8 DEF Return
  <2>2. cur # 0 /\ popped > 0 /\ cur = pos[popped] /\ End(popped) = head /\ Stored(popped)
        /\ BLK < len[popped] /\ len[popped] <= ElemMax
    BY <1>4, <2>1 DEF Lent, Popping
  <2>3. popped \in Msgs /\ len[popped] \in Nat /\ pos[popped] \in Nat /\ HDR <= pos[popped]
    BY <1>4, <2>2, Types, Sizes DEF TypeOK
  <2>4. Load(cur) = len[popped]
    BY <1>4, <2>2, <2>3, Types, Sizes DEF Load, Stored
  <2>5. got' = len[popped] - BLK /\ got' \in 0..DataMax
    <3>1. len[popped] - BLK \in Nat /\ len[popped] - BLK < Word /\ len[popped] - BLK <= DataMax
      BY <2>2, <2>3, Sizes
    <3> QED
      BY <1>8, <2>4, <3>1, SmallMod, Sizes DEF Return
  <2>6. TypeOK'
    BY <1>4, <1>6, <2>1, <2>5 DEF TypeOK, ConsumerAt
  <2>7. Lent' /\ Popping'
    BY <1>4, <1>5, <2>1, <2>2, <2>5 DEF Lent, Popping, Stored
  <2> QED
    BY <1>2, <1>3, <2>6, <2>7 DEF IInv
<1>9. CASE TestEmpty \/ AlignHead \/ ReadPad \/ AssertLen
  <2>1. cur' = cur /\ got' = got /\ crashes' = crashes /\ cur = 0
    BY <1>4, <1>9 DEF TestEmpty, AlignHead, ReadPad, AssertLen, Lent
  <2>2. Lent'
    BY <2>1 DEF Lent
  <2>3. First \in First..Free /\ Free \in First..Free /\ First >= 1
        /\ (First > pushed => First = Free)
    BY <1>4, Types
  <2>4. Popping'
    <3>1. CASE TestEmpty
      <4>1. head # tail => First <= pushed \/ tail < head
        BY <1>4, <2>3, Types DEF Flat, Blocks
      <4>2. pcC = "empty2" /\ head # tail => First <= pushed
        BY <1>4, <4>1, Types DEF Popping
      <4> QED
        BY <1>4, <1>5, <3>1, <4>1, <4>2 DEF TestEmpty, Popping
    <3>2. CASE AlignHead
      <4>1. First <= pushed /\ head <= tail => head < tail
        BY <1>4, <2>3, Types, Sizes DEF Flat, Blocks
      <4> QED
        BY <1>4, <1>5, <3>2, <4>1, Types DEF AlignHead, Popping
    <3>3. CASE ReadPad
      <4>1. tail < head /\ split \in First..Free
        BY <1>4, <3>3 DEF ReadPad, Popping, Folded
      <4>2. First < split => ~(ShmSize - head < BLK \/ Load(head) = Pad)
        <5>1. SUFFICES ASSUME First < split PROVE ~(ShmSize - head < BLK \/ Load(head) = Pad)
          OBVIOUS
        <5>2. First <= pushed
          BY <1>4, <4>1, <5>1, Types
        <5> QED
          BY <1>4, <5>1, <5>2, AtHead, Types, Sizes
      <4>3. First = split => ShmSize - head < BLK \/ Load(head) = Pad
        BY <1>4, <4>1, Types, Sizes DEF Folded, Load
      <4> QED
        BY <1>4, <1>5, <3>3, <4>1, <4>2, <4>3, Types DEF ReadPad, Popping
    <3>4. CASE AssertLen
      <4>1. First <= pushed /\ (tail < head => First < split)
        BY <1>4, <3>4 DEF AssertLen, Popping
      <4>2. Load(head) <= ElemMax
        BY <4>1, AtHead
      <4> QED
        BY <1>5, <3>4, <4>1, <4>2 DEF AssertLen, Popping
    <3> QED
      BY <1>9, <3>1, <3>2, <3>3, <3>4
  <2>5. pcC' \in ConsumerAt
    BY <1>9 DEF TestEmpty, AlignHead, ReadPad, AssertLen, ConsumerAt
  <2>6. TypeOK'
    BY <1>4, <1>6, <2>1, <2>5 DEF TypeOK
  <2> QED
    BY <1>2, <1>3, <2>2, <2>4, <2>6 DEF IInv
<1> QED
  BY <1>7, <1>8, <1>9

\* head leaves the padding for the start of the region: the blocks are flat again.
LEMMA UnwrapHeadStep == ASSUME IInv, UnwrapHead PROVE IInv'
<1>1. TypeOK /\ Flat /\ Folded /\ Blocks /\ UnreadIntact /\ Lent /\ Pushing /\ Popping
  BY DEF IInv
<1>2. /\ head' = HDR /\ pcC = "unwrap" /\ pcC' = "empty2"
      /\ UNCHANGED <<tail, word, byte, pcP, elemLen, cnt, cur, got, crashes,
                     pushed, popped, pos, len, top, split>>
  BY DEF UnwrapHead, mem, prod, ghost
<1>3. tail < head /\ First = split /\ cur = 0
  BY <1>1, <1>2 DEF Popping, Lent
<1>4. TypeOK'
  <2>1. head' \in HDR..ShmSize /\ pcC' \in ConsumerAt
    BY <1>2, Sizes DEF ConsumerAt
  <2> QED
    BY <1>1, <1>2, <2>1 DEF TypeOK
<1>5. Flat'
  <2>1. pos[First] = HDR
    BY <1>1, <1>3 DEF Folded
  <2>2. \A n \in First..pushed : pos[n + 1] = End(n)
    BY <1>1, <1>3, Types DEF Folded
  <2>3. \A m, n \in First..Free : m < n => End(m) <= pos[n]
    BY <1>1, <1>3, Types DEF Folded
  <2> QED
    BY <1>2, <2>1, <2>2, <2>3 DEF Flat
<1>6. Folded' /\ Blocks' /\ UnreadIntact' /\ Lent'
  BY <1>1, <1>2, <1>3, Types, Sizes DEF Folded, Blocks, UnreadIntact, Stored, Lent
<1>7. Pushing' /\ Popping'
  BY <1>1, <1>2, <1>3, Types, Sizes DEF Pushing, Popping
<1> QED
  BY <1>4, <1>5, <1>6, <1>7 DEF IInv

\* head passes a block, which the consumer keeps.
LEMMA AdvanceStep == ASSUME IInv, Advance PROVE IInv'
<1>1. TypeOK /\ Flat /\ Folded /\ Blocks /\ UnreadIntact /\ Lent /\ Pushing /\ Popping
  BY DEF IInv
<1>2. /\ pcC = "advance" /\ pcC' = "return" /\ cur' = head /\ popped' = popped + 1
      /\ UNCHANGED <<tail, word, byte, pcP, elemLen, cnt, got, crashes,
                     pushed, pos, len, top, split>>
  BY DEF Advance, mem, prod
<1>3. First <= pushed /\ (tail < head => First < split)
  BY <1>1, <1>2 DEF Popping
<1>4. /\ First \in Msgs /\ First \in First..pushed /\ pos[First] = head /\ Stored(First)
      /\ Load(head) = len[First] /\ BLK < len[First] /\ len[First] <= ElemMax
      /\ head + len[First] <= ShmSize /\ len[First] \in Nat
  BY <1>1, <1>3, AtHead, Types
<1>5. head' = head + len[First]
  <2>1. head + len[First] \in Nat /\ Word \in Nat /\ head + len[First] < Word
    BY <1>1, <1>4, Types, Sizes
  <2>2. (head + len[First]) % Word = head + len[First]
    BY <2>1, SmallMod
  <2> QED
    BY <1>4, <2>2 DEF Advance
<1>6. TypeOK'
  <2>1. head' \in HDR..ShmSize /\ cur' \in Offsets /\ popped' \in 0..pushed
    BY <1>1, <1>2, <1>3, <1>4, <1>5, Types, Sizes
  <2> QED
    BY <1>1, <1>2, <2>1 DEF TypeOK, ConsumerAt
<1>7. Lent'
  BY <1>1, <1>2, <1>4, <1>5, Types, Sizes DEF Lent, Stored
<1>8. UnreadIntact' /\ Blocks'
  BY <1>1, <1>2, Types DEF UnreadIntact, Blocks, Stored
<1>9. CASE head <= tail
  <2>1. pos[First + 1] = head' /\ head' <= tail
    BY <1>1, <1>3, <1>4, <1>5, <1>9, Types DEF Flat, Blocks
  <2>2. Flat'
    BY <1>1, <1>2, <1>9, <2>1, Types DEF Flat
  <2>5. head' \in Nat /\ tail' = tail /\ tail \in Nat /\ ~(tail' < head')
    BY <1>1, <1>2, <1>4, <1>5, <2>1, Types
  <2>3. Folded'
    BY <2>5 DEF Folded
  <2>4. Pushing' /\ Popping'
    BY <1>1, <1>2, <1>4, <1>5, <2>1, Types, Sizes DEF Pushing, Popping
  <2> QED
    BY <1>6, <1>7, <1>8, <2>2, <2>3, <2>4 DEF IInv
<1>10. CASE tail < head
  <2>1. First < split /\ split \in First..Free /\ tail < head'
    BY <1>1, <1>3, <1>4, <1>5, <1>10, Types, Sizes DEF Folded
  <2>2. head' <= top /\ pos[split] = HDR
    BY <1>1, <1>4, <1>5, <1>10, <2>1 DEF Folded
  <2>3. First + 1 = split => head' = top
    BY <1>1, <1>4, <1>5, <1>10, <2>1, Types DEF Folded
  <2>4. First + 1 < split => pos[First + 1] = head' /\ End(split - 1) = top
    BY <1>1, <1>4, <1>5, <1>10, <2>1, Types DEF Folded
  <2>5. \A n \in (First + 1)..pushed : n < split => head' <= pos[n] /\ End(n) <= top
    BY <1>1, <1>4, <1>5, <1>10, <2>1, Types DEF Folded
  <2>6. Folded'
    BY <1>1, <1>2, <1>10, <2>1, <2>2, <2>3, <2>4, <2>5, Types DEF Folded
  <2>9. head' \in Nat /\ tail' = tail /\ tail \in Nat /\ ~(head' <= tail')
    BY <1>1, <1>2, <1>4, <1>5, <2>1, Types
  <2>7. Flat'
    BY <2>9 DEF Flat
  <2>8. Pushing' /\ Popping'
    BY <1>1, <1>2, <1>4, <1>5, <1>10, Types, Sizes DEF Pushing, Popping
  <2> QED
    BY <1>6, <1>7, <1>8, <2>6, <2>7, <2>8 DEF IInv
<1> QED
  BY <1>1, <1>9, <1>10, Types

---------------------------------------------------------------------------
(* The stores of the producer, and the two steps that move tail. *)

\* A store by shm_cq_push keeps everything but what the producer knows.
LEMMA StoreStep ==
  ASSUME IInv, pcP \in {"pad", "len", "copy"}, pcP' \in ProducerAt,
         UNCHANGED <<head, tail, elemLen, cnt, cons, crashes, ghost>>,
         \/ StoreWord(tail, Pad) /\ pcP = "pad"
         \/ StoreWord(tail, elemLen) /\ pcP = "len"
         \/ StoreData(tail + BLK, elemLen - BLK, pushed + 1) /\ pcP = "copy"
  PROVE  TypeOK' /\ Flat' /\ Folded' /\ Blocks' /\ UnreadIntact' /\ Lent' /\ Popping'
<1>1. TypeOK /\ Flat /\ Folded /\ Blocks /\ UnreadIntact /\ Lent /\ Pushing /\ Popping
  BY DEF IInv
<1>2. UNCHANGED <<head, tail, elemLen, cnt, pcC, cur, got, crashes,
                  pushed, popped, pos, len, top, split>>
  BY DEF cons, ghost
<1>3. BLK < elemLen /\ elemLen <= ElemMax /\ pushed < MaxMsgs
  BY <1>1 DEF Pushing
<1>4. /\ \A n \in First..pushed : End(n) <= tail \/ (tail + elemLen <= pos[n] /\ pcP # "pad")
      /\ cur # 0 => End(popped) <= tail \/ (tail + elemLen <= pos[popped] /\ pcP # "pad")
      /\ tail < head => tail + elemLen <= top /\ pcP # "pad"
  BY WindowFree
<1>5. TypeOK'
  <2>3. elemLen \in 0..Word /\ Pad \in 0..Word /\ Junk \in 0..Word
        /\ pushed + 1 \in 0..MaxMsgs /\ 0 \in 0..MaxMsgs
    BY <1>1, <1>3, Types, Sizes
  <2>4. word \in [Offsets -> 0..Word] /\ byte \in [Offsets -> 0..MaxMsgs]
    BY <1>1 DEF TypeOK
  <2>1. word' \in [Offsets -> 0..Word]
    BY ONLY <2>3, <2>4, \/ StoreWord(tail, Pad) \/ StoreWord(tail, elemLen)
                        \/ StoreData(tail + BLK, elemLen - BLK, pushed + 1)
    DEF StoreWord, StoreData
  <2>2. byte' \in [Offsets -> 0..MaxMsgs]
    BY ONLY <2>3, <2>4, \/ StoreWord(tail, Pad) \/ StoreWord(tail, elemLen)
                        \/ StoreData(tail + BLK, elemLen - BLK, pushed + 1)
    DEF StoreWord, StoreData
  <2> QED
    BY <1>1, <1>2, <2>1, <2>2 DEF TypeOK
<1>6. Flat' /\ Blocks'
  BY <1>1, <1>2 DEF Flat, Blocks
<1>7. ASSUME NEW n \in Msgs, HDR <= pos[n], End(n) <= ShmSize, BLK < len[n], Stored(n),
             End(n) <= tail \/ (tail + elemLen <= pos[n] /\ pcP # "pad")
      PROVE  Stored(n)'
  <2>1. tail \in Nat /\ elemLen - BLK \in Nat /\ tail + BLK \in Nat /\ pos[n] \in Nat
        /\ len[n] \in Nat /\ BLK \in Nat /\ elemLen \in Nat
    BY <1>1, <1>3, Types, Sizes
  <2>2. UNCHANGED <<pos, len>>
    BY <1>2
  <2>3. CASE StoreWord(tail, Pad) /\ pcP = "pad"
    BY <1>1, <1>7, <2>1, <2>2, <2>3, StoreWordKeeps
  <2>4. CASE StoreWord(tail, elemLen) /\ pcP = "len"
    <3>1. End(n) <= tail \/ tail + BLK <= pos[n]
      BY <1>3, <1>7, <2>1
    <3> QED
      BY <1>1, <1>7, <2>1, <2>2, <2>4, <3>1, StoreWordKeeps
  <2>5. CASE StoreData(tail + BLK, elemLen - BLK, pushed + 1) /\ pcP = "copy"
    <3>1. End(n) <= tail + BLK \/ (tail + BLK) + (elemLen - BLK) <= pos[n]
      BY <1>3, <1>7, <2>1
    <3> QED
      BY <1>1, <1>7, <2>1, <2>2, <2>5, <3>1, StoreDataKeeps
  <2> QED
    BY <2>3, <2>4, <2>5
<1>8. UnreadIntact'
  <2> SUFFICES ASSUME NEW n \in First..pushed PROVE Stored(n)'
    BY <1>2 DEF UnreadIntact
  <2>1. n \in Msgs
    BY <1>1, Types, Sizes
  <2> QED
    BY <1>1, <1>4, <1>7, <2>1 DEF Blocks, UnreadIntact
<1>9. Lent'
  <2>1. cur # 0 => Stored(popped)'
    <3> SUFFICES ASSUME cur # 0 PROVE Stored(popped)'
      OBVIOUS
    <3> PICK p \in Msgs : p = popped
      BY <1>1, Types, Sizes DEF Lent
    <3>1. HDR <= pos[p] /\ End(p) <= ShmSize /\ BLK < len[p] /\ Stored(p)
      BY <1>1, Types, Sizes DEF Lent, TypeOK, Stored
    <3>2. End(p) <= tail \/ (tail + elemLen <= pos[p] /\ pcP # "pad")
      BY <1>4
    <3>3. Stored(p)'
      BY <1>7, <3>1, <3>2
    <3> QED
      BY <1>2, <3>3 DEF Stored
  <2> QED
    BY <1>1, <1>2, <2>1 DEF Lent, Stored
<1>10. Folded'
  <2>1. tail < head => ShmSize - top < BLK \/ word'[top] = Pad
    <3> SUFFICES ASSUME tail < head, ~(ShmSize - top < BLK) PROVE word'[top] = Pad
      BY <1>1, Types, Sizes
    <3>1. word[top] = Pad /\ top \in Offsets /\ tail + elemLen <= top /\ pcP # "pad"
      BY <1>1, <1>4, Types, Sizes DEF Folded, TypeOK
    <3>4. /\ top # tail /\ ~(tail - BLK < top /\ top < tail + BLK)
          /\ ~(tail + BLK - BLK < top /\ top < tail + BLK + (elemLen - BLK))
      BY <1>1, <1>3, <3>1, Types, Sizes
    <3>2. CASE StoreWord(tail, elemLen)
      BY <3>1, <3>2, <3>4, AfterStoreWord
    <3>3. CASE StoreData(tail + BLK, elemLen - BLK, pushed + 1)
      BY <1>1, <3>1, <3>3, <3>4, AfterStoreData, Types, Sizes
    <3> QED
      BY <3>1, <3>2, <3>3
  <2> QED
    BY <1>1, <1>2, <2>1 DEF Folded
<1>11. Popping'
  BY <1>1, <1>2 DEF Popping
<1> QED
  BY <1>5, <1>6, <1>8, <1>9, <1>10, <1>11

LEMMA WritePadStep == ASSUME IInv, WritePad PROVE IInv'
<1>1. TypeOK /\ Pushing
  BY DEF IInv
<1>2. TypeOK' /\ Flat' /\ Folded' /\ Blocks' /\ UnreadIntact' /\ Lent' /\ Popping'
  BY StoreStep DEF WritePad, ProducerAt
<1>3. word'[tail] = Pad
  <2>1. tail \in Offsets
    BY <1>1, Types, Sizes DEF WritePad, Pushing
  <2> QED
    BY <2>1, AfterStoreWord DEF WritePad
<1>4. Pushing'
  BY <1>1, <1>3 DEF WritePad, Pushing, ghost
<1> QED
  BY <1>2, <1>4 DEF IInv

LEMMA WriteLenStep == ASSUME IInv, WriteLen PROVE IInv'
<1>1. TypeOK /\ Pushing
  BY DEF IInv
<1>2. TypeOK' /\ Flat' /\ Folded' /\ Blocks' /\ UnreadIntact' /\ Lent' /\ Popping'
  BY StoreStep DEF WriteLen, ProducerAt
<1>3. word'[tail] = elemLen
  <2>1. tail \in Offsets
    BY <1>1, Types, Sizes DEF WriteLen, Pushing
  <2> QED
    BY <2>1, AfterStoreWord DEF WriteLen
<1>4. Pushing'
  BY <1>1, <1>3 DEF WriteLen, Pushing, ghost
<1> QED
  BY <1>2, <1>4 DEF IInv

LEMMA CopyDataStep == ASSUME IInv, CopyData PROVE IInv'
<1>1. TypeOK /\ Pushing
  BY DEF IInv
<1>2. TypeOK' /\ Flat' /\ Folded' /\ Blocks' /\ UnreadIntact' /\ Lent' /\ Popping'
  BY StoreStep DEF CopyData, ProducerAt
<1>3. word'[tail] = elemLen
  <2>1. tail \in Offsets /\ ~(tail + BLK - BLK < tail) /\ word[tail] = elemLen
    BY <1>1, Types, Sizes DEF CopyData, Pushing
  <2> QED
    BY <1>1, <2>1, AfterStoreData, Types, Sizes DEF CopyData
<1>4. \A o \in (tail + BLK)..(tail + elemLen - 1) : byte'[o] = pushed + 1
  <2>1. BLK < elemLen /\ tail + elemLen <= ShmSize
    BY <1>1, Types, Sizes DEF CopyData, Pushing
  <2> SUFFICES ASSUME NEW o \in (tail + BLK)..(tail + elemLen - 1)
               PROVE  byte'[o] = pushed + 1
    OBVIOUS
  <2>2. o \in Offsets /\ tail + BLK <= o /\ o < tail + BLK + (elemLen - BLK)
    BY <1>1, <2>1, Types, Sizes
  <2> QED
    BY <2>2, AfterStoreData DEF CopyData
<1>5. Pushing'
  BY <1>1, <1>3, <1>4 DEF CopyData, Pushing, ghost
<1> QED
  BY <1>2, <1>5 DEF IInv

\* tail leaves the end of the region: the blocks are folded around it.
LEMMA WrapTailStep == ASSUME IInv, WrapTail PROVE IInv'
<1>1. TypeOK /\ Flat /\ Blocks /\ UnreadIntact /\ Lent /\ Pushing /\ Popping
  BY DEF IInv
<1>2. /\ pcP = "wrap" /\ pcP' = "push_wait" /\ tail' = HDR /\ top' = tail
      /\ split' = pushed + 1 /\ pos' = [pos EXCEPT ![pushed + 1] = HDR]
      /\ UNCHANGED <<head, word, byte, elemLen, cnt, pcC, cur, got, crashes,
                     pushed, popped, len>>
  BY DEF WrapTail, mem, cons
<1>3. HDR < head /\ head <= tail /\ (Surplus < BLK \/ word[tail] = Pad)
      /\ elemLen <= ElemMax /\ pushed < MaxMsgs
  BY <1>1, <1>2 DEF Pushing
<1>4. TypeOK'
  <2>1. tail' \in HDR..ShmSize /\ top' \in HDR..ShmSize /\ split' \in 1..(MaxMsgs + 1)
    BY <1>1, <1>2, <1>3, Types, Sizes
  <2>2. pos' \in [1..(MaxMsgs + 1) -> HDR..ShmSize]
    BY <1>1, <1>2, <1>3, <2>1, Types, Sizes DEF TypeOK
  <2>3. pcP' \in ProducerAt
    BY <1>2 DEF ProducerAt
  <2> QED
    BY <1>1, <1>2, <2>1, <2>2, <2>3 DEF TypeOK
<1>5. pos'[pushed + 1] = HDR /\ \A n \in 1..pushed : pos'[n] = pos[n]
  BY <1>1, <1>2, Types, Sizes DEF TypeOK
<1>6. Flat'
  <2>1. ~(head' <= tail')
    BY <1>1, <1>2, <1>3, Types, Sizes
  <2> QED
    BY <2>1 DEF Flat
<1>7. Blocks' /\ UnreadIntact' /\ Lent'
  BY <1>1, <1>2, <1>5, Types, Sizes DEF Blocks, UnreadIntact, Lent, Stored
<1>8. Folded'
  <2>1. pos[First] = head /\ pos[Free] = tail
    BY <1>1, <1>3 DEF Flat, Blocks
  <2>2. \A n \in First..pushed : End(n) <= tail /\ head <= pos[n]
    <3> SUFFICES ASSUME NEW n \in First..pushed PROVE End(n) <= tail /\ head <= pos[n]
      OBVIOUS
    <3>1. n \in First..Free /\ Free \in First..Free /\ First \in First..Free /\ n < Free
      BY <1>1, Types
    <3>2. pos[n] \in Nat /\ pos[First] \in Nat /\ len[First] \in Nat
      BY <1>1, Types, Sizes
    <3> QED
      BY <1>1, <1>3, <2>1, <3>1, <3>2, Types DEF Flat
  <2>3. First < split' => (End(split - 1))' = top'
    <3> SUFFICES ASSUME First < split' PROVE pos'[split' - 1] + len'[split' - 1] = top'
      OBVIOUS
    <3>1. split' - 1 = pushed /\ pushed \in First..pushed /\ pushed \in 1..pushed
      BY <1>1, <1>2, Types
    <3>2. pos[pushed + 1] = pos[pushed] + len[pushed]
      BY <1>1, <1>3, <3>1 DEF Flat
    <3> QED
      BY <1>2, <1>5, <2>1, <3>1, <3>2
  <2>4. \A n \in First..pushed : n + 1 # split' => pos'[n + 1] = End(n)'
    BY <1>1, <1>2, <1>3, <1>5, Types DEF Flat
  <2>5. \A m, n \in First..Free : m < n /\ (n < split' \/ split' <= m) => End(m)' <= pos'[n]
    BY <1>1, <1>2, <1>3, <1>5, Types DEF Flat
  <2>6. \A n \in First..pushed : n < split' => head' <= pos'[n] /\ End(n)' <= top'
    BY <1>1, <1>2, <1>5, <2>2, Types
  <2>7. /\ split' \in First'..Free' /\ pos'[split'] = HDR /\ head' <= top'
        /\ First' = split' => head' = top'
        /\ First' < split' => pos'[First'] = head'
        /\ ShmSize - top' < BLK \/ word'[top'] = Pad
    BY <1>1, <1>2, <1>3, <1>5, <2>1, Types
  <2>8. UNCHANGED <<First, Free, pushed>>
    BY <1>2
  <2> QED
    BY <2>3, <2>4, <2>5, <2>6, <2>7, <2>8 DEF Folded
<1>9. Pushing' /\ Popping'
  BY <1>1, <1>2, <1>3, Types, Sizes DEF Pushing, Popping
<1> QED
  BY <1>4, <1>6, <1>7, <1>8, <1>9 DEF IInv

\* tail passes the new block, which the queue now holds.
LEMMA CommitStep == ASSUME IInv, Commit PROVE IInv'
<1>1. TypeOK /\ Flat /\ Folded /\ Blocks /\ UnreadIntact /\ Lent /\ Pushing /\ Popping
  BY DEF IInv
<1>2. /\ pcP = "commit" /\ pcP' = "idle" /\ elemLen' = 0 /\ tail' = tail + elemLen
      /\ pushed' = pushed + 1 /\ len' = [len EXCEPT ![pushed + 1] = elemLen]
      /\ pos' = [pos EXCEPT ![pushed + 2] = tail + elemLen]
      /\ UNCHANGED <<head, word, byte, cnt, pcC, cur, got, crashes, popped, top, split>>
  BY DEF Commit, mem, cons
<1>3. /\ BLK < elemLen /\ elemLen <= ElemMax /\ pushed < MaxMsgs
      /\ tail + elemLen <= ShmSize
      /\ tail < head => tail + elemLen + ElemMax <= head
      /\ word[tail] = elemLen
      /\ \A o \in (tail + BLK)..(tail + elemLen - 1) : byte[o] = pushed + 1
  BY <1>1, <1>2, Types, Sizes DEF Pushing
<1>4. TypeOK'
  <2>1. tail' \in HDR..ShmSize /\ pushed' \in 0..MaxMsgs /\ popped \in 0..pushed'
        /\ elemLen \in 0..ElemMax /\ elemLen' \in 0..ElemMax
    BY <1>1, <1>2, <1>3, Types, Sizes
  <2>2. pos' \in [1..(MaxMsgs + 1) -> HDR..ShmSize] /\ len' \in [Msgs -> 0..ElemMax]
    BY <1>1, <1>2, <2>1 DEF TypeOK
  <2>3. pcP' \in ProducerAt
    BY <1>2 DEF ProducerAt
  <2> QED
    BY <1>1, <1>2, <2>1, <2>2, <2>3 DEF TypeOK
<1>5. /\ pos'[pushed + 2] = tail + elemLen /\ \A n \in 1..Free : pos'[n] = pos[n]
      /\ len'[pushed + 1] = elemLen /\ \A n \in 1..pushed : len'[n] = len[n]
      /\ pos[Free] = tail
  <2>1. pos \in [1..(MaxMsgs + 1) -> HDR..ShmSize] /\ len \in [Msgs -> 0..ElemMax]
    BY <1>1 DEF TypeOK
  <2>2. /\ pushed + 1 \in Msgs /\ Free \in 1..MaxMsgs
        /\ \A n \in 1..Free : n \in 1..(MaxMsgs + 1) /\ n # pushed + 2
        /\ \A n \in 1..pushed : n \in Msgs /\ n # pushed + 1
    BY <1>1, <1>3, Types, Sizes
  <2>3. pushed + 2 \in 1..(MaxMsgs + 1)
    BY <1>1, <1>3, Types, Sizes
  <2> QED
    BY <1>1, <1>2, <2>1, <2>2, <2>3 DEF Blocks
<1>6. \A n \in First..pushed : pos'[n] = pos[n] /\ len'[n] = len[n] /\ n \in 1..pushed
  BY <1>1, <1>5, Types
<1>7. Blocks'
  BY <1>1, <1>2, <1>3, <1>5, <1>6, Types, Sizes DEF Blocks
<1>8. UnreadIntact'
  BY <1>1, <1>2, <1>3, <1>5, <1>6, Types DEF UnreadIntact, Stored
<1>9. Lent'
  BY <1>1, <1>2, <1>5, Types DEF Lent, Stored
<1>10. Flat'
  <2> SUFFICES ASSUME head <= tail + elemLen PROVE Flat'
    BY <1>2 DEF Flat
  <2>1. head <= tail
    BY <1>1, <1>3, Types, Sizes
  <2>2. pos'[First] = head
    BY <1>1, <1>5, <2>1, Types DEF Flat
  <2>3. \A n \in First..(pushed + 1) : pos'[n + 1] = pos'[n] + len'[n]
    BY <1>1, <1>3, <1>5, <2>1, Types DEF Flat
  <2>4. \A m, n \in First..Free : m < n => End(m) <= pos[n]
    BY <1>1, <2>1 DEF Flat
  <2>5. \A m, n \in First..(pushed + 2) : m < n => pos'[m] + len'[m] <= pos'[n]
    <3> SUFFICES ASSUME NEW m \in First..(pushed + 2), NEW n \in First..(pushed + 2), m < n
                 PROVE  pos'[m] + len'[m] <= pos'[n]
      OBVIOUS
    <3>1. CASE n <= Free
      BY <1>1, <1>5, <2>4, <3>1, Types
    <3>2. CASE n = pushed + 2 /\ m = Free
      BY <1>1, <1>3, <1>5, <3>2, Types, Sizes
    <3>3. CASE n = pushed + 2 /\ m < Free
      <4>1. End(m) <= pos[Free] /\ pos'[m] = pos[m] /\ len'[m] = len[m]
        BY <1>1, <1>5, <2>4, <3>3, Types
      <4>2. pos[m] \in Nat /\ len[m] \in Nat
        BY <1>1, <1>3, <3>3, Types, Sizes
      <4> QED
        BY <1>1, <1>3, <1>5, <3>3, <4>1, <4>2, Types, Sizes
    <3> QED
      BY <1>1, <3>1, <3>2, <3>3, Types
  <2>6. First' = First /\ pushed' = pushed + 1 /\ Free' = pushed + 2
    BY <1>1, <1>2, Types
  <2> QED
    BY <1>2, <2>2, <2>3, <2>5, <2>6 DEF Flat
<1>11. Folded'
  <2> SUFFICES ASSUME tail + elemLen < head PROVE Folded'
    BY <1>2 DEF Folded
  <2>1. tail < head
    BY <1>1, <1>3, Types, Sizes
  <2>2. /\ split \in First..Free /\ pos'[split] = HDR /\ head <= top
        /\ First = split => head = top
        /\ First < split => pos'[First] = head /\ pos'[split - 1] + len'[split - 1] = top
        /\ ShmSize - top < BLK \/ word[top] = Pad
    BY <1>1, <1>5, <2>1, Types DEF Folded
  <2>3. \A n \in First..(pushed + 1) : n + 1 # split => pos'[n + 1] = pos'[n] + len'[n]
    BY <1>1, <1>3, <1>5, <2>1, Types DEF Folded
  <2>4. \A m, n \in First..Free : m < n /\ (n < split \/ split <= m) => End(m) <= pos[n]
    BY <1>1, <2>1 DEF Folded
  <2>5. \A m, n \in First..(pushed + 2) :
           m < n /\ (n < split \/ split <= m) => pos'[m] + len'[m] <= pos'[n]
    <3> SUFFICES ASSUME NEW m \in First..(pushed + 2), NEW n \in First..(pushed + 2),
                        m < n, n < split \/ split <= m
                 PROVE  pos'[m] + len'[m] <= pos'[n]
      OBVIOUS
    <3>1. CASE n <= Free
      BY <1>1, <1>5, <2>4, <3>1, Types
    <3>2. CASE n = pushed + 2 /\ m = Free
      BY <1>1, <1>3, <1>5, <3>2, Types, Sizes
    <3>3. CASE n = pushed + 2 /\ m < Free
      <4>1. split <= m
        BY <1>1, <2>2, <3>3, Types
      <4>2. End(m) <= pos[Free] /\ pos'[m] = pos[m] /\ len'[m] = len[m]
        BY <1>1, <1>5, <2>4, <3>3, <4>1, Types
      <4>3. pos[m] \in Nat /\ len[m] \in Nat
        BY <1>1, <1>3, <3>3, Types, Sizes
      <4> QED
        BY <1>1, <1>3, <1>5, <3>3, <4>2, <4>3, Types, Sizes
    <3> QED
      BY <1>1, <3>1, <3>2, <3>3, Types
  <2>6. \A n \in First..(pushed + 1) : n < split => head <= pos'[n] /\ pos'[n] + len'[n] <= top
    BY <1>1, <1>5, <2>1, <2>2, Types DEF Folded
  <2> QED
    BY <1>2, <2>2, <2>3, <2>5, <2>6, Types, <1>1 DEF Folded
<1>12. Pushing' /\ Popping'
  BY <1>1, <1>2, <1>3, Types, Sizes DEF Pushing, Popping
<1> QED
  BY <1>4, <1>7, <1>8, <1>9, <1>10, <1>11, <1>12 DEF IInv

---------------------------------------------------------------------------
(* The theorems. *)

\* Every reachable state satisfies the inductive invariant.
THEOREM Invariance == Spec => []IInv
<1>1. IInv /\ [Next]_vars => IInv'
  <2> SUFFICES ASSUME IInv, [Next]_vars PROVE IInv'
    OBVIOUS
  <2>1. CASE Next
    BY <2>1, ProducerLooks, ConsumerLooks, UnwrapHeadStep, AdvanceStep, WritePadStep,
       WrapTailStep, WriteLenStep, CopyDataStep, CommitStep
    DEF Next, Producer, Consumer
  <2>2. CASE UNCHANGED vars
    <3>1. UNCHANGED <<head, tail, mem, cons, ghost>> /\ UNCHANGED <<pcP, elemLen, cnt, crashes>>
      BY <2>2 DEF vars, prod
    <3>2. TypeOK'
      BY <3>1 DEF IInv, TypeOK, mem, cons, ghost
    <3> QED
      BY <3>1, <3>2, SameBlocks, SameConsumer, SameProducer DEF IInv, prod
  <2> QED
    BY <2>1, <2>2
<1> QED
  BY <1>1, InitIInv, PTL DEF Spec

\* The buffer a pop handed out is whole until the next pop, for every queue
\* size, message length and interleaving.
THEOREM HeldIntactAlways == Spec => []HeldIntact
<1>1. IInv => HeldIntact
  BY DEF IInv, Lent, HeldIntact
<1> QED
  BY <1>1, Invariance, PTL

\* No message is overwritten while it waits.
THEOREM UnreadIntactAlways == Spec => []UnreadIntact
<1>1. IInv => UnreadIntact
  BY DEF IInv
<1> QED
  BY <1>1, Invariance, PTL

\* No store of shm_cq_push leaves the mapping, no assertion of shm_cq_pop fails,
\* and the sum of shm_cq_push_wait fits in 32 bits for every size the assert of
\* shm_cq_create lets through.
THEOREM InBoundsAlways == Spec => []InBounds
<1>1. ASSUME IInv  PROVE InBounds
  <2>1. /\ pcP = "pad" => tail + BLK <= ShmSize
        /\ pcP \in {"len", "copy", "commit"} => tail + elemLen <= ShmSize
        /\ pcC # "aborted"
    BY <1>1, Types, Sizes DEF IInv, Pushing, Popping
  <2>2. pcP = "push_wait" => tail + elemLen + ElemMax < Word
    BY <1>1, Types, Sizes DEF IInv, Pushing
  <2> QED
    BY <2>1, <2>2 DEF InBounds
<1> QED
  BY <1>1, Invariance, PTL

\* Every variable keeps its type.
THEOREM TypeCorrect == Spec => []TypeOK
<1>1. IInv => TypeOK
  BY DEF IInv
<1> QED
  BY <1>1, Invariance, PTL

\* A pop answers 0 only when it looked at an empty queue.
THEOREM EmptyIsEmpty == Spec => EmptyMeansEmpty
<1>1. ASSUME IInv, [Next]_vars,
             pcC \in {"empty1", "empty2"}, pcC' = "idle", crashes' = crashes
      PROVE  popped = pushed
  <2>4. ~ConsumerDies
    BY <1>1, Sizes DEF ConsumerDies, IInv, TypeOK
  <2>5. pcC' # pcC
    BY <1>1
  <2>6. TestEmpty
    BY <1>1, <2>4, <2>5 DEF Next, Producer, Consumer, PushCall, AlignWaitDone, WritePad,
       WrapTail, PushWaitDone, WaitOn, PushFails, WriteLen, CopyData, Commit, PopCall,
       AlignHead, ReadPad, UnwrapHead, AssertLen, Advance, Return, ProducerDies, cons, vars
  <2>1. head = tail
    BY <1>1, <2>6 DEF TestEmpty
  <2>2. TypeOK /\ Flat /\ Blocks
    BY <1>1 DEF IInv
  <2>3. ASSUME First <= pushed PROVE FALSE
    <3>1. First \in First..Free /\ Free \in First..Free /\ First < Free /\ First \in First..pushed
      BY <2>2, <2>3, Types
    <3>2. pos[First] = head /\ End(First) <= pos[Free] /\ pos[Free] = tail /\ BLK < len[First]
      BY <2>1, <2>2, <3>1, Types DEF Flat, Blocks
    <3>3. len[First] \in Nat
      BY <2>2, <2>3, Types, Sizes
    <3> QED
      BY <2>1, <2>2, <3>2, <3>3, Types, Sizes
  <2> QED
    BY <2>2, <2>3, Types
<1>2. IInv /\ [Next]_vars =>
        [(pcC \in {"empty1", "empty2"} /\ pcC' = "idle" /\ crashes' = crashes)
           => popped = pushed]_vars
  BY <1>1
<1> QED
  BY <1>2, Invariance, PTL DEF Spec, EmptyMeansEmpty

---------------------------------------------------------------------------
(* The refinement. *)

Pushed(n) == [id |-> n, len |-> len[n] - BLK]

AbsQueue == [i \in 1..(pushed - popped) |-> Pushed(popped + i)]
AbsLent  == IF cur = 0 THEN None ELSE Pushed(popped)

MemoryHolds == QueueInMemory = AbsQueue /\ LentInMemory = AbsLent

\* What is read at the place of a stored message is the message.
LEMMA Reading ==
  ASSUME TypeOK, NEW n \in Msgs, Stored(n), HDR <= pos[n], End(n) <= ShmSize, BLK < len[n]
  PROVE  MessageAt(pos[n]) = Pushed(n)
<1>1. pos[n] \in Nat /\ len[n] \in Nat
  BY Types, Sizes
<1>2. Load(pos[n]) = len[n]
  BY <1>1, Sizes DEF Load, Stored
<1>3. \A o \in (pos[n] + BLK)..(pos[n] + len[n] - 1) : o \in Offsets /\ byte[o] = n
  BY <1>1, Sizes DEF Stored
<1>4. pos[n] + BLK \in (pos[n] + BLK)..(pos[n] + len[n] - 1)
  BY <1>1, Sizes
<1> QED
  BY <1>2, <1>3, <1>4 DEF MessageAt, Pushed

LEMMA MemoryHoldsQueue == IInv => QueueInMemory = AbsQueue /\ LentInMemory = AbsLent
<1> SUFFICES ASSUME IInv PROVE QueueInMemory = AbsQueue /\ LentInMemory = AbsLent
  OBVIOUS
<1>1. TypeOK /\ Blocks /\ UnreadIntact /\ Lent
  BY DEF IInv
<1>2. ASSUME NEW i \in 1..(pushed - popped)
      PROVE  MessageAt(pos[popped + i]) = Pushed(popped + i)
  <2> PICK n \in First..pushed : n = popped + i
    BY <1>1, Types
  <2>1. n \in Msgs
    BY <1>1, Types, Sizes
  <2> QED
    BY <1>1, <2>1, Reading, Sizes, Types DEF Blocks, UnreadIntact
<1>3. cur # 0 => MessageAt(cur) = Pushed(popped)
  <2> SUFFICES ASSUME cur # 0 PROVE MessageAt(pos[popped]) = Pushed(popped)
    BY <1>1 DEF Lent
  <2> PICK n \in Msgs : n = popped
    BY <1>1, Types, Sizes DEF Lent
  <2>1. Stored(n) /\ HDR <= pos[n] /\ End(n) <= ShmSize /\ BLK < len[n]
    BY <1>1, Types, Sizes DEF Lent, TypeOK
  <2>2. MessageAt(pos[n]) = Pushed(n)
    BY <1>1, <2>1, Reading
  <2> QED
    BY <2>2
<1> QED
  BY <1>2, <1>3 DEF QueueInMemory, LentInMemory, AbsQueue, AbsLent

LEMMA MemoryHoldsQueueNext ==
  IInv' => QueueInMemory' = AbsQueue' /\ LentInMemory' = AbsLent'
<1>1. IInv => MemoryHolds
  BY MemoryHoldsQueue DEF MemoryHolds
<1>2. (IInv => MemoryHolds)'
  BY <1>1, PTL
<1> QED
  BY <1>2 DEF MemoryHolds

LEMMA InitFifo == Init => Fifo!Init
<1> SUFFICES ASSUME Init PROVE Fifo!Init
  OBVIOUS
<1>1. QueueInMemory = << >>
  BY DEF Init, QueueInMemory
<1>2. LentInMemory = None /\ pushed = 0
  BY DEF Init, LentInMemory
<1> QED
  BY <1>1, <1>2 DEF Fifo!Init

\* A function on 1..m + 1 that extends one on 1..m is that sequence with one more.
LEMMA AppendIs ==
  ASSUME NEW m \in Nat, NEW q, NEW r, NEW e,
         q = [i \in 1..m |-> q[i]], r = [i \in 1..(m + 1) |-> r[i]],
         r[m + 1] = e, \A i \in 1..m : r[i] = q[i]
  PROVE  r = Append(q, e)
<1> DEFINE S == {q[i] : i \in 1..m} \cup {e}
<1>1. (\A i \in 1..m : q[i] \in S) /\ e \in S
  OBVIOUS
<1> HIDE DEF S
<1>2. \A i \in 1..(m + 1) : r[i] \in S
  <2> TAKE i \in 1..(m + 1)
  <2>1. CASE i = m + 1
    BY <1>1, <2>1
  <2>2. CASE i \in 1..m
    BY <1>1, <2>2
  <2> QED
    BY <2>1, <2>2
<1>3. q \in [1..m -> S] /\ q \in Seq(S) /\ Len(q) = m
  <2>1. q \in [1..m -> S]
    BY <1>1
  <2> QED
    BY ONLY <2>1, m \in Nat
<1>4. r \in [1..(m + 1) -> S] /\ r \in Seq(S) /\ Len(r) = m + 1
  BY <1>2
<1>5. /\ Append(q, e) \in Seq(S) /\ Len(Append(q, e)) = m + 1
      /\ Append(q, e)[m + 1] = e
  BY <1>1, <1>3, AppendProperties
<1>6. \A i \in 1..m : Append(q, e)[i] = q[i]
  <2>1. \A i \in 1..Len(q) : Append(q, e)[i] = q[i]
    BY ONLY <1>1, <1>3, AppendProperties
  <2> QED
    BY <1>3, <2>1
<1>7. \A i \in 1..(m + 1) : Append(q, e)[i] = r[i]
  <2> TAKE i \in 1..(m + 1)
  <2>1. CASE i = m + 1
    BY <1>5, <2>1
  <2>2. CASE i \in 1..m
    BY <1>6, <2>2
  <2> QED
    BY <2>1, <2>2
<1> QED
  BY <1>4, <1>5, <1>7, SeqEqual

\* And one that is shorter by its first element is its tail.
LEMMA TailIs ==
  ASSUME NEW m \in Nat, m > 0, NEW q, NEW r,
         q = [i \in 1..m |-> q[i]], r = [i \in 1..(m - 1) |-> r[i]],
         \A i \in 1..(m - 1) : r[i] = q[i + 1]
  PROVE  r = Tail(q) /\ Head(q) = q[1] /\ q # << >>
<1> DEFINE S == {q[i] : i \in 1..m}
<1>1. \A i \in 1..m : q[i] \in S
  OBVIOUS
<1> HIDE DEF S
<1>2. q \in Seq(S) /\ Len(q) = m /\ q # << >>
  BY <1>1
<1>3. r \in Seq(S) /\ Len(r) = m - 1
  BY <1>1
<1>4. /\ Tail(q) \in Seq(S) /\ Len(Tail(q)) = m - 1 /\ Head(q) = q[1]
      /\ \A i \in 1..Len(Tail(q)) : Tail(q)[i] = q[i + 1]
  BY <1>2, HeadTailProperties
<1>5. r = Tail(q)
  BY <1>3, <1>4, SeqEqual
<1> QED
  BY <1>2, <1>4, <1>5

\* A push that succeeds puts one message at the end.
LEMMA CommitPuts == ASSUME IInv, IInv', Commit PROVE Fifo!Put
<1>1. /\ pushed' = pushed + 1 /\ len' = [len EXCEPT ![pushed + 1] = elemLen]
      /\ UNCHANGED <<cur, popped>>
  BY DEF Commit, cons
<1>2. TypeOK /\ elemLen - BLK \in Lengths /\ pushed < MaxMsgs /\ Lent
  BY DEF IInv, Pushing, Commit
<1>3. len'[pushed + 1] = elemLen /\ \A n \in 1..pushed : len'[n] = len[n]
  BY <1>1, <1>2, Types, Sizes DEF TypeOK
<1>4. AbsQueue' = Append(AbsQueue, Fifo!Message(pushed + 1, elemLen - BLK))
  <2>1. pushed - popped \in Nat /\ popped + ((pushed - popped) + 1) = pushed + 1
        /\ pushed' - popped' = (pushed - popped) + 1
    BY <1>1, <1>2, Types
  <2>2. \A i \in 1..(pushed - popped) : AbsQueue'[i] = AbsQueue[i]
    <3> TAKE i \in 1..(pushed - popped)
    <3>1. popped + i \in 1..pushed /\ i \in 1..(pushed' - popped')
      BY <1>2, <2>1, Types
    <3> QED
      BY <1>1, <1>3, <3>1 DEF AbsQueue, Pushed
  <2>3. AbsQueue'[(pushed - popped) + 1] = Fifo!Message(pushed + 1, elemLen - BLK)
    <3>1. (pushed - popped) + 1 \in 1..(pushed' - popped')
      BY <2>1
    <3> QED
      BY <1>1, <1>3, <2>1, <3>1 DEF AbsQueue, Pushed, Fifo!Message
  <2>4. /\ AbsQueue = [i \in 1..(pushed - popped) |-> AbsQueue[i]]
        /\ AbsQueue' = [i \in 1..((pushed - popped) + 1) |-> AbsQueue'[i]]
    BY <2>1 DEF AbsQueue
  <2> QED
    BY <2>1, <2>2, <2>3, <2>4, AppendIs
<1>6. AbsLent' = AbsLent
  BY <1>1, <1>2, <1>3, Types DEF AbsLent, Pushed, Lent
<1> QED
  BY <1>1, <1>2, <1>4, <1>6, MemoryHoldsQueue, MemoryHoldsQueueNext DEF Fifo!Put

\* A pop that finds a message takes the oldest one.
LEMMA AdvanceGets == ASSUME IInv, IInv', Advance PROVE Fifo!Get
<1>1. /\ popped' = popped + 1 /\ cur' = head /\ UNCHANGED <<pushed, len>> /\ pcC = "advance"
  BY DEF Advance
<1>2. TypeOK /\ First <= pushed /\ cur = 0
  BY <1>1 DEF IInv, Popping, Lent
<1>3. pushed - popped \in Nat /\ pushed - popped > 0
      /\ pushed' - popped' = (pushed - popped) - 1
  BY <1>1, <1>2, Types
<1>4. \A i \in 1..((pushed - popped) - 1) : AbsQueue'[i] = AbsQueue[i + 1]
  <2> TAKE i \in 1..((pushed - popped) - 1)
  <2>1. i \in 1..(pushed' - popped') /\ i + 1 \in 1..(pushed - popped)
        /\ popped' + i = popped + (i + 1)
    BY <1>1, <1>2, <1>3, Types
  <2> QED
    BY <1>1, <2>1 DEF AbsQueue, Pushed
<1>5. /\ AbsQueue = [i \in 1..(pushed - popped) |-> AbsQueue[i]]
      /\ AbsQueue' = [i \in 1..((pushed - popped) - 1) |-> AbsQueue'[i]]
  BY <1>3 DEF AbsQueue
<1>6. AbsQueue' = Tail(AbsQueue) /\ Head(AbsQueue) = AbsQueue[1] /\ AbsQueue # << >>
  BY <1>3, <1>4, <1>5, TailIs
<1>7. AbsQueue[1] = Pushed(popped + 1)
  BY <1>3 DEF AbsQueue
<1>8. cur' # 0
  BY <1>1, <1>2, Types, Sizes
<1>9. AbsLent' = AbsQueue[1]
  BY <1>1, <1>7, <1>8 DEF AbsLent, Pushed
<1>10. AbsLent = None
  BY <1>2 DEF AbsLent
<1> QED
  BY <1>1, <1>6, <1>9, <1>10, MemoryHoldsQueue, MemoryHoldsQueueNext DEF Fifo!Get

\* A step that moves none of the counters and keeps the buffer is invisible.
LEMMA Invisible ==
  ASSUME IInv, IInv', UNCHANGED <<pushed, popped, len, cur>>
  PROVE  UNCHANGED <<QueueInMemory, LentInMemory, pushed>>
<1>1. AbsQueue' = AbsQueue /\ AbsLent' = AbsLent
  BY DEF AbsQueue, AbsLent, Pushed
<1> QED
  BY <1>1, MemoryHoldsQueue, MemoryHoldsQueueNext

\* The end of a use of the buffer gives it back, or there was none.
LEMMA GivesBack ==
  ASSUME IInv, IInv', UNCHANGED <<pushed, popped, len>>, cur' = 0, cur # 0
  PROVE  Fifo!GiveBack
<1>1. TypeOK /\ Lent
  BY DEF IInv
<1>2. AbsQueue' = AbsQueue /\ AbsLent' = None
  BY DEF AbsQueue, AbsLent, Pushed
<1>3. AbsLent # None
  BY <1>1, Types DEF AbsLent, Pushed, None, Lent
<1> QED
  BY <1>2, <1>3, MemoryHoldsQueue, MemoryHoldsQueueNext DEF Fifo!GiveBack

\* The memory, the two offsets and every interleaving of shm_cq_push with
\* shm_cq_pop, deaths included, implement the queue of ShmFifo.
THEOREM Refinement == Spec => ImplementsFifo
<1>1. ASSUME IInv, IInv', [Next]_vars PROVE [Fifo!Next]_(Fifo!fifo)
  <2>1. CASE Commit
    BY <1>1, <2>1, CommitPuts DEF Fifo!Next
  <2>2. CASE Advance
    BY <1>1, <2>2, AdvanceGets DEF Fifo!Next
  <2>3. CASE PopCall \/ ConsumerDies
    <3>1. UNCHANGED <<pushed, popped, len>> /\ cur' = 0
      BY <2>3 DEF PopCall, ConsumerDies, ghost
    <3> QED
      BY <1>1, <3>1, GivesBack, Invisible DEF Fifo!Next, Fifo!fifo
  <2>4. CASE ~(Commit \/ Advance \/ PopCall \/ ConsumerDies)
    <3>1. UNCHANGED <<pushed, popped, len, cur>>
      BY <1>1, <2>4 DEF Next, Producer, Consumer, PushCall, AlignWaitDone, WritePad, WrapTail,
         PushWaitDone, WaitOn, PushFails, WriteLen, CopyData, TestEmpty, AlignHead, ReadPad,
         UnwrapHead, AssertLen, Return, ProducerDies, cons, ghost, vars
    <3> QED
      BY <1>1, <3>1, Invisible DEF Fifo!fifo
  <2> QED
    BY <2>1, <2>2, <2>3, <2>4
<1>2. IInv /\ IInv' /\ [Next]_vars => [Fifo!Next]_(Fifo!fifo)
  BY <1>1
<1> QED
  BY <1>2, InitFifo, Invariance, PTL DEF Spec, ImplementsFifo, Fifo!Spec


\* Every message is whole from its push to the end of its use, and no access leaves
\* the region.
THEOREM QueueSoundAlways == Spec => []QueueSound
<1>1. TypeOK /\ HeldIntact /\ UnreadIntact /\ InBounds => QueueSound
  BY DEF QueueSound
<1> QED
  BY <1>1, TypeCorrect, HeldIntactAlways, UnreadIntactAlways, InBoundsAlways, PTL

---------------------------------------------------------------------------
(* The lock of interprocess/lock.c. *)

LockPlaces == {"off", "made", "out", "wants", "in"}

\* Before a value is set nobody is past the making of the lock, and there is
\* nothing to undo.
NotYetSet ==
  /\ value \in {-1, 0} /\ undo = [p \in Procs |-> 0]
  /\ \A p \in Procs : place[p] \in {"off", "made"} /\ (value = -1 => place[p] = "off")

\* What the system would add for a process is what it took from the value.
Given == value = 1 /\ Sem!Holders = {} /\ undo = [p \in Procs |-> 0]
Taken(h) == value = 0 /\ Sem!Holders = {h} /\ undo = [p \in Procs |-> IF p = h THEN 1 ELSE 0]

LockInv ==
  /\ place \in [Procs -> LockPlaces] /\ reset \in BOOLEAN
  /\ reset \/ NotYetSet \/ Given \/ \E h \in Procs : Taken(h)

LEMMA LockInit == Sem!Init => LockInv
  BY DEF Sem!Init, LockInv, LockPlaces, NotYetSet

\* Every step of a process leaves the lock taken by one or by none.
LEMMA LockStep ==
  ASSUME LockInv, Sem!Next
  PROVE  LockInv'
<1>1. PICK p \in Procs : Sem!Get(p) \/ Sem!SetVal(p) \/ Sem!Want(p) \/ Sem!Lock(p)
                           \/ Sem!Unlock(p) \/ Sem!Dies(p)
  BY DEF Sem!Next
<1>2. place' \in [Procs -> LockPlaces] /\ reset' \in BOOLEAN /\ (reset => reset')
  <2>1. ASSUME NEW at1 \in LockPlaces, place' = [place EXCEPT ![p] = at1]
        PROVE  place' \in [Procs -> LockPlaces]
    BY <2>1 DEF LockInv
  <2>2. place' \in [Procs -> LockPlaces]
    BY <1>1, <2>1 DEF Sem!Get, Sem!SetVal, Sem!Want, Sem!Lock, Sem!Unlock, Sem!Dies, LockPlaces
  <2>3. (Sem!Holders # {}) \in BOOLEAN
    OBVIOUS
  <2>4. CASE Sem!SetVal(p)
    BY <2>2, <2>3, <2>4, Zenon DEF LockInv, Sem!SetVal
  <2>5. CASE ~Sem!SetVal(p)
    <3>1. reset' = reset
      BY <1>1, <2>5 DEF Sem!Get, Sem!Want, Sem!Lock, Sem!Unlock, Sem!Dies
    <3> QED BY <2>2, <3>1 DEF LockInv
  <2> QED
    BY <2>4, <2>5
<1>3. CASE reset
  BY <1>2, <1>3 DEF LockInv
<1>4. CASE ~reset /\ NotYetSet
  <2>1. Sem!Get(p) \/ Sem!SetVal(p) \/ Sem!Dies(p)
    BY <1>1, <1>4 DEF NotYetSet, Sem!Want, Sem!Lock, Sem!Unlock
  <2>2. CASE Sem!Get(p) \/ Sem!Dies(p)
    <3>1. value' \in {-1, 0} /\ undo' = [q \in Procs |-> 0]
      BY <1>4, <2>2 DEF NotYetSet, Sem!Get, Sem!Dies
    <3>2. \A q \in Procs : place'[q] \in {"off", "made"} /\ (value' = -1 => place'[q] = "off")
      BY <1>4, <2>2 DEF NotYetSet, Sem!Get, Sem!Dies, LockInv
    <3> QED
      BY <1>2, <3>1, <3>2 DEF LockInv, NotYetSet
  <2>3. CASE Sem!SetVal(p)
    <3>1. Sem!Holders' = {}
      BY <1>4, <2>3 DEF NotYetSet, Sem!SetVal, Sem!Holders, LockInv
    <3> QED
      BY <1>2, <2>3, <3>1 DEF LockInv, Given, Sem!SetVal
  <2> QED
    BY <2>1, <2>2, <2>3
<1>5. CASE ~reset /\ Given
  <2>1. CASE Sem!Lock(p)
    <3>1. Sem!Holders' = {p}
      BY <1>5, <2>1 DEF Given, Sem!Lock, Sem!Holders, LockInv
    <3>2. value' = 0 /\ undo' = [q \in Procs |-> IF q = p THEN 1 ELSE 0]
      BY <1>5, <2>1 DEF Given, Sem!Lock, Sem!Undo
    <3> QED
      BY <1>2, <3>1, <3>2 DEF LockInv, Taken
  <2>2. CASE ~Sem!Lock(p)
    <3>1. ~Sem!Unlock(p)
      BY <1>5 DEF Given, Sem!Unlock, Sem!Holders
    <3>2. Sem!Holders' = {}
      BY <1>1, <1>5, <2>2, <3>1 DEF Given, Sem!Holders, LockInv, Sem!Get, Sem!SetVal, Sem!Want, Sem!Dies
    <3>3. value' = 1 /\ undo' = [q \in Procs |-> 0]
      BY <1>1, <1>5, <2>2, <3>1 DEF Given, Sem!Get, Sem!SetVal, Sem!Want, Sem!Dies
    <3> QED
      BY <1>2, <3>2, <3>3 DEF LockInv, Given
  <2> QED
    BY <2>1, <2>2
<1>6. ASSUME ~reset, NEW h \in Procs, Taken(h) PROVE LockInv'
  <2>1. CASE Sem!Unlock(p) \/ (p = h /\ Sem!Dies(p))
    <3>1. p = h /\ value' = 1
      BY <1>6, <2>1 DEF Taken, Sem!Unlock, Sem!Dies, Sem!Holders
    <3>2. Sem!Holders' = {}
      BY <1>6, <2>1, <3>1 DEF Taken, Sem!Unlock, Sem!Dies, Sem!Holders, LockInv
    <3>3. undo' = [q \in Procs |-> 0]
      BY <1>6, <2>1, <3>1 DEF Taken, Sem!Unlock, Sem!Dies, Sem!Undo
    <3> QED
      BY <1>2, <3>1, <3>2, <3>3 DEF LockInv, Given
  <2>2. CASE Sem!SetVal(p)
    <3>1. reset'
      BY <1>6, <2>2 DEF Taken, Sem!SetVal
    <3> QED
      BY <1>2, <3>1 DEF LockInv
  <2>3. CASE Sem!Get(p) \/ Sem!Want(p) \/ (p # h /\ Sem!Dies(p))
    <3>1. value' = 0 /\ undo' = undo
      BY <1>6, <2>3 DEF Taken, Sem!Get, Sem!Want, Sem!Dies
    <3>2. Sem!Holders' = {h}
      BY <1>6, <2>3 DEF Taken, Sem!Get, Sem!Want, Sem!Dies, Sem!Holders, LockInv
    <3> QED
      BY <1>2, <1>6, <3>1, <3>2 DEF LockInv, Taken
  <2>4. ~Sem!Lock(p)
    BY <1>6 DEF Taken, Sem!Lock
  <2> QED
    BY <1>1, <2>1, <2>2, <2>3, <2>4
<1> QED
  BY <1>3, <1>4, <1>5, <1>6 DEF LockInv

LEMMA LockInvariant == LockInv /\ [Sem!Next]_(lock) => LockInv'
<1>1. ASSUME LockInv, UNCHANGED lock PROVE LockInv'
  BY <1>1 DEF lock, LockInv, NotYetSet, Given, Taken, Sem!Holders
<1> QED
  BY <1>1, LockStep

LEMMA SameCount == ASSUME NEW S PROVE Sem!Cardinality(S) = Cardinality(S)
  BY Zenon DEF Sem!Cardinality, Cardinality

LEMMA OneIsIn == LockInv => Sem!Exclusive
<1>1. ASSUME ~reset, LockInv PROVE Sem!Exclusive
  <2>1. CASE NotYetSet
    BY <2>1 DEF NotYetSet, Sem!Exclusive, Sem!Holders
  <2>2. CASE Given
    <3>1. Cardinality(Sem!Holders) = 0
      BY <2>2, FS_EmptySet DEF Given
    <3>2. value + Cardinality(Sem!Holders) = 1
      BY <2>2, <3>1 DEF Given
    <3> QED BY <3>2, SameCount, Zenon DEF Sem!Exclusive
  <2>3. ASSUME NEW h \in Procs, Taken(h) PROVE Sem!Exclusive
    <3>1. Cardinality(Sem!Holders) = 1
      BY <2>3, FS_Singleton DEF Taken
    <3>2. value + Cardinality(Sem!Holders) = 1
      BY <2>3, <3>1 DEF Taken
    <3> QED BY <3>2, SameCount, Zenon DEF Sem!Exclusive
  <2> QED
    BY <1>1, <2>1, <2>2, <2>3 DEF LockInv
<1> QED
  BY <1>1 DEF Sem!Exclusive

\* sem_lock and sem_unlock: whatever the processes do and wherever they die, one at
\* a time is in and the lock is free when none is, until a process sets the value
\* while another is in.
THEOREM ExclusiveAlways == Sem!Spec => []Sem!Exclusive
<1>1. LockInv /\ [Sem!Next]_(Sem!vars) => LockInv'
  BY LockInvariant DEF lock, Sem!vars
<1> QED
  BY <1>1, LockInit, OneIsIn, PTL DEF Sem!Spec

---------------------------------------------------------------------------
(* The making of the region, shm_cq_create and shm_cq_attach. *)

RegionPlaces == {"idle", "created", "sized", "store", "has", "opened", "length", "dead"}

Making(p) == at[p] \in {"created", "sized", "store"}

RegionTypes ==
  /\ name \in Regions \cup {0} /\ sized \subseteq Regions
  /\ stored \in [Regions -> SUBSET Region!Fields]
  /\ at \in [Users -> RegionPlaces] /\ of \in [Users -> Regions \cup {0}]
  /\ maps \in [Users -> SUBSET Regions] /\ early \subseteq Users
  /\ \A p \in Users : at[p] # "idle" => of[p] \in Regions

\* An object has fields only once it has its size, and shm_size only after both
\* ends.
StoredInOrder ==
  \A r \in Regions :
    /\ stored[r] # {} => r \in sized
    /\ Region!Size \in stored[r] => Region!Ends \subseteq stored[r]

\* What a process has done before the call it is at.
Reached ==
  \A p \in Users :
    /\ at[p] \in {"sized", "store", "length", "has"} => of[p] \in sized
    /\ at[p] \in {"store", "has"} => of[p] \in maps[p]
    /\ at[p] \in {"length", "has"} => Region!Size \in stored[of[p]]
    /\ at[p] = "has" /\ p \notin early => stored[of[p]] = Region!Fields

\* O_EXCL: an object has one maker.
OneMaker == \A p, q \in Users : Making(p) /\ Making(q) /\ of[p] = of[q] => p = q

RegionInv == RegionTypes /\ StoredInOrder /\ Reached /\ OneMaker

LEMMA RegionInit == Region!Init => RegionInv
  BY DEF Region!Init, Region!None, RegionInv, RegionTypes, RegionPlaces, StoredInOrder, Reached,
    OneMaker, Making, Region!Size

\* A step of p alone, to place a, with object o and mappings m.
Moves(p, a, o, m) ==
  /\ at' = [at EXCEPT ![p] = a] /\ of' = [of EXCEPT ![p] = o] /\ maps' = [maps EXCEPT ![p] = m]
  /\ stored' = stored /\ sized \subseteq sized' /\ early \subseteq early' \cup {p}

StepTyped(a, o, m) ==
  /\ a \in RegionPlaces /\ o \in Regions \cup {0} /\ m \subseteq Regions /\ (a # "idle" => o \in Regions)
  /\ name' \in Regions \cup {0} /\ sized' \subseteq Regions /\ early' \subseteq Users

\* Where Reached and OneMaker let p stand after the step.
MayStand(p, a, o, m) ==
  /\ a \in {"created", "sized", "store"} =>
       \/ Making(p) /\ o = of[p]
       \/ \A q \in Users : of[q] # o
  /\ a \in {"sized", "store", "length", "has"} => o \in sized'
  /\ a \in {"store", "has"} => o \in m
  /\ a \in {"length", "has"} => Region!Size \in stored[o]
  /\ a = "has" /\ p \notin early' => stored[o] = Region!Fields

LEMMA RegionMoves ==
  ASSUME RegionInv, NEW p \in Users, NEW a, NEW o, NEW m,
         Moves(p, a, o, m), StepTyped(a, o, m), MayStand(p, a, o, m)
  PROVE  RegionInv'
<1>1. RegionTypes'
  BY DEF RegionInv, RegionTypes, Moves, StepTyped
<1>2. StoredInOrder'
  BY DEF RegionInv, StoredInOrder, Moves
<1>3. ASSUME NEW q \in Users, q # p
      PROVE  at'[q] = at[q] /\ of'[q] = of[q] /\ maps'[q] = maps[q] /\ (q \in early => q \in early')
  BY <1>3 DEF RegionInv, RegionTypes, Moves
<1>4. at'[p] = a /\ of'[p] = o /\ maps'[p] = m
  BY DEF RegionInv, RegionTypes, Moves
<1>5. Reached'
  BY <1>3, <1>4 DEF RegionInv, Reached, Moves, MayStand
<1>6. OneMaker'
  BY <1>3, <1>4 DEF RegionInv, OneMaker, Making, MayStand
<1> QED
  BY <1>1, <1>2, <1>5, <1>6 DEF RegionInv

LEMMA RegionStep ==
  ASSUME RegionInv, Region!Next, RegionAssumption
  PROVE  RegionInv'
<1> PICK p \in Users :
      \/ \E r \in Regions : Region!CreateOpen(p, r)
      \/ Region!Truncate(p) \/ Region!CreateMap(p) \/ Region!CreateFails(p) \/ Region!Store(p)
      \/ Region!AttachOpen(p) \/ Region!ReadSize(p) \/ Region!AttachMap(p) \/ Region!AttachFails(p)
      \/ Region!Detach(p) \/ Region!Destroy(p) \/ Region!Dies(p)
  BY DEF Region!Next
<1> USE DEF Region!None
<1>t. /\ RegionTypes /\ at[p] \in RegionPlaces /\ of[p] \in Regions \cup {0} /\ maps[p] \subseteq Regions
      /\ at[p] # "idle" => of[p] \in Regions
      /\ at = [at EXCEPT ![p] = at[p]] /\ of = [of EXCEPT ![p] = of[p]] /\ maps = [maps EXCEPT ![p] = maps[p]]
  BY DEF RegionInv, RegionTypes
<1>r. /\ at[p] \in {"sized", "store", "length", "has"} => of[p] \in sized
      /\ at[p] \in {"store", "has"} => of[p] \in maps[p]
      /\ at[p] \in {"length", "has"} => Region!Size \in stored[of[p]]
      /\ at[p] = "has" /\ p \notin early => stored[of[p]] = Region!Fields
  BY DEF RegionInv, Reached
<1>1. ASSUME NEW r \in Regions, Region!CreateOpen(p, r) PROVE RegionInv'
  <2>1. \A q \in Users : of[q] # r
    BY <1>1 DEF Region!CreateOpen, Region!Fresh, Region!Used
  <2>2. Moves(p, "created", r, maps[p]) /\ StepTyped("created", r, maps[p]) /\ MayStand(p, "created", r, maps[p])
    <3>1. Moves(p, "created", r, maps[p])
      BY <1>t, <1>1 DEF Region!CreateOpen, Moves, Region!To
    <3>2. StepTyped("created", r, maps[p])
      BY <1>t, <1>1 DEF Region!CreateOpen, StepTyped, RegionPlaces, RegionTypes
    <3>3. MayStand(p, "created", r, maps[p])
      BY <2>1 DEF MayStand
    <3> QED BY <3>1, <3>2, <3>3
  <2> QED
    BY <2>2, RegionMoves
<1>2. CASE Region!Truncate(p)
  <2>1. Moves(p, "sized", of[p], maps[p])
    BY <1>t, <1>2 DEF Region!Truncate, Moves, Region!To
  <2>2. StepTyped("sized", of[p], maps[p])
    BY <1>t, <1>2 DEF Region!Truncate, StepTyped, RegionPlaces, RegionTypes
  <2>3. MayStand(p, "sized", of[p], maps[p])
    BY <1>r, <1>2 DEF Region!Truncate, MayStand, Making
  <2> QED
    BY <2>1, <2>2, <2>3, RegionMoves
<1>3. CASE Region!CreateMap(p)
  <2>1. Moves(p, "store", of[p], maps[p] \cup {of[p]})
    BY <1>t, <1>3 DEF Region!CreateMap, Moves, Region!To
  <2>2. StepTyped("store", of[p], maps[p] \cup {of[p]})
    BY <1>t, <1>3 DEF Region!CreateMap, StepTyped, RegionPlaces, RegionTypes
  <2>3. MayStand(p, "store", of[p], maps[p] \cup {of[p]})
    BY <1>r, <1>3 DEF Region!CreateMap, MayStand, Making
  <2> QED
    BY <2>1, <2>2, <2>3, RegionMoves
<1>4. CASE Region!CreateFails(p)
  <2>1. Moves(p, "idle", 0, maps[p])
    BY <1>t, <1>4 DEF Region!CreateFails, Moves, Region!To, Region!Back
  <2>2. StepTyped("idle", 0, maps[p])
    BY <1>t, <1>4 DEF Region!CreateFails, StepTyped, RegionPlaces, RegionTypes
  <2>3. MayStand(p, "idle", 0, maps[p])
    BY <1>r, <1>4 DEF Region!CreateFails, MayStand, Making
  <2> QED
    BY <2>1, <2>2, <2>3, RegionMoves
<1>5. CASE Region!AttachOpen(p)
  <2>1. Moves(p, "opened", name, maps[p])
    BY <1>t, <1>5 DEF Region!AttachOpen, Moves, Region!To
  <2>2. StepTyped("opened", name, maps[p])
    BY <1>t, <1>5 DEF Region!AttachOpen, StepTyped, RegionPlaces, RegionTypes
  <2>3. MayStand(p, "opened", name, maps[p])
    BY <1>r, <1>5 DEF Region!AttachOpen, MayStand, Making
  <2> QED
    BY <2>1, <2>2, <2>3, RegionMoves
<1>6. CASE Region!AttachMap(p)
  <2>1. Moves(p, "has", of[p], maps[p] \cup {of[p]})
    BY <1>t, <1>6 DEF Region!AttachMap, Moves, Region!To
  <2>2. StepTyped("has", of[p], maps[p] \cup {of[p]})
    BY <1>t, <1>6 DEF Region!AttachMap, StepTyped, RegionPlaces, RegionTypes
  <2>3. MayStand(p, "has", of[p], maps[p] \cup {of[p]})
    BY <1>r, <1>6 DEF Region!AttachMap, MayStand, Making
  <2> QED
    BY <2>1, <2>2, <2>3, RegionMoves
<1>7. CASE Region!AttachFails(p)
  <2>1. Moves(p, "idle", 0, maps[p])
    BY <1>t, <1>7 DEF Region!AttachFails, Moves, Region!To, Region!Back
  <2>2. StepTyped("idle", 0, maps[p])
    BY <1>t, <1>7 DEF Region!AttachFails, StepTyped, RegionPlaces, RegionTypes
  <2>3. MayStand(p, "idle", 0, maps[p])
    BY <1>r, <1>7 DEF Region!AttachFails, MayStand, Making
  <2> QED
    BY <2>1, <2>2, <2>3, RegionMoves
<1>8. CASE Region!Detach(p)
  <2>1. Moves(p, "idle", 0, maps[p] \ {of[p]})
    BY <1>t, <1>8 DEF Region!Detach, Moves, Region!To, Region!Back, Region!Gone
  <2>2. StepTyped("idle", 0, maps[p] \ {of[p]})
    BY <1>t, <1>8 DEF Region!Detach, StepTyped, RegionPlaces, RegionTypes, Region!Gone
  <2>3. MayStand(p, "idle", 0, maps[p] \ {of[p]})
    BY <1>r, <1>8 DEF Region!Detach, MayStand, Making, Region!Gone
  <2> QED
    BY <2>1, <2>2, <2>3, RegionMoves
<1>9. CASE Region!Dies(p)
  <2>1. Moves(p, "idle", 0, {})
    BY <1>t, <1>9 DEF Region!Dies, Moves, Region!To, Region!Back
  <2>2. StepTyped("idle", 0, {})
    BY <1>t, <1>9 DEF Region!Dies, StepTyped, RegionPlaces, RegionTypes
  <2>3. MayStand(p, "idle", 0, {})
    BY <1>r, <1>9 DEF Region!Dies, MayStand, Making
  <2> QED
    BY <2>1, <2>2, <2>3, RegionMoves
<1>10. CASE Region!ReadSize(p) /\ of[p] \notin sized
  <2>1. Moves(p, "dead", of[p], maps[p])
    BY <1>t, <1>10 DEF Region!ReadSize, Moves, Region!To, Region!Back
  <2>2. StepTyped("dead", of[p], maps[p])
    BY <1>t, <1>10 DEF Region!ReadSize, StepTyped, RegionPlaces, RegionTypes
  <2>3. MayStand(p, "dead", of[p], maps[p])
    BY <1>r, <1>10 DEF Region!ReadSize, MayStand, Making
  <2> QED
    BY <2>1, <2>2, <2>3, RegionMoves
<1>11. CASE Region!ReadSize(p) /\ of[p] \in sized /\ Region!Size \in stored[of[p]]
  <2>1. Moves(p, "length", of[p], maps[p])
    BY <1>t, <1>11 DEF Region!ReadSize, Moves, Region!To, Region!Back
  <2>2. StepTyped("length", of[p], maps[p])
    BY <1>t, <1>11 DEF Region!ReadSize, StepTyped, RegionPlaces, RegionTypes
  <2>3. MayStand(p, "length", of[p], maps[p])
    BY <1>r, <1>11 DEF Region!ReadSize, MayStand, Making
  <2> QED
    BY <2>1, <2>2, <2>3, RegionMoves
<1>12. CASE Region!ReadSize(p) /\ of[p] \in sized /\ Region!Size \notin stored[of[p]]
  <2>1. Moves(p, "idle", 0, maps[p])
    BY <1>t, <1>12 DEF Region!ReadSize, Moves, Region!To, Region!Back
  <2>2. StepTyped("idle", 0, maps[p])
    BY <1>t, <1>12 DEF Region!ReadSize, StepTyped, RegionPlaces, RegionTypes
  <2>3. MayStand(p, "idle", 0, maps[p])
    BY <1>r, <1>12 DEF Region!ReadSize, MayStand, Making
  <2> QED
    BY <2>1, <2>2, <2>3, RegionMoves
<1>13. CASE Region!Destroy(p) /\ "name" \in stored[of[p]] /\ name # 0
  <2>1. Moves(p, "idle", 0, maps[p] \ {of[p]})
    BY <1>t, <1>13 DEF Region!Destroy, Moves, Region!To, Region!Back, Region!Gone
  <2>2. StepTyped("idle", 0, maps[p] \ {of[p]})
    BY <1>t, <1>13 DEF Region!Destroy, StepTyped, RegionPlaces, RegionTypes, Region!Gone
  <2>3. MayStand(p, "idle", 0, maps[p] \ {of[p]})
    BY <1>r, <1>13 DEF Region!Destroy, MayStand, Making, Region!Gone
  <2> QED
    BY <2>1, <2>2, <2>3, RegionMoves
<1>14. CASE Region!Destroy(p) /\ ~("name" \in stored[of[p]] /\ name # 0)
  <2>1. Moves(p, "idle", 0, maps[p])
    BY <1>t, <1>14 DEF Region!Destroy, Moves, Region!To, Region!Back, Region!Gone
  <2>2. StepTyped("idle", 0, maps[p])
    BY <1>t, <1>14 DEF Region!Destroy, StepTyped, RegionPlaces, RegionTypes, Region!Gone
  <2>3. MayStand(p, "idle", 0, maps[p])
    BY <1>r, <1>14 DEF Region!Destroy, MayStand, Making, Region!Gone
  <2> QED
    BY <2>1, <2>2, <2>3, RegionMoves
<1>15. CASE Region!Store(p)
  <2> DEFINE r == of[p]
  <2>1. PICK f \in Region!Order(stored[r]) :
          /\ stored' = [stored EXCEPT ![r] = @ \cup {f}]
          /\ IF stored[r] \cup {f} = Region!Fields THEN Region!To(p, "has") ELSE UNCHANGED at
    BY <1>15 DEF Region!Store
  <2>2. at[p] = "store" /\ UNCHANGED <<name, sized, of, maps, fails, early>>
    BY <1>15 DEF Region!Store
  <2>3. r \in Regions /\ r \in sized /\ r \in maps[p]
    BY <1>t, <1>r, <2>2
  <2>4. f \in Region!Fields /\ (f = Region!Size => Region!Ends \subseteq stored[r])
    BY <2>1 DEF Region!Order, Region!Fields, Region!Ends, Region!Rest, Region!Size
  <2> HIDE DEF r
  <2>5. /\ stored' \in [Regions -> SUBSET Region!Fields]
        /\ stored'[r] = stored[r] \cup {f} /\ \A s \in Regions : s # r => stored'[s] = stored[s]
    BY <1>t, <2>1, <2>3, <2>4 DEF RegionTypes
  <2>6. /\ at' \in [Users -> RegionPlaces] /\ at'[p] \in {"store", "has"}
        /\ at'[p] = "has" => stored'[r] = Region!Fields
        /\ \A q \in Users : q # p => at'[q] = at[q]
    BY <1>t, <2>1, <2>2, <2>5 DEF RegionTypes, RegionPlaces, Region!To
  <2>7. RegionTypes'
    BY <1>t, <2>2, <2>3, <2>5, <2>6 DEF RegionTypes, r
  <2>8. StoredInOrder'
    BY <2>2, <2>3, <2>4, <2>5 DEF RegionInv, StoredInOrder
  <2>9. Reached'
    <3>1. at'[p] \in {"store", "has"} /\ of'[p] = r
      BY <2>2, <2>6 DEF r
    <3>2. at'[p] = "has" => Region!Size \in stored'[r] /\ stored'[r] = Region!Fields
      BY <2>6 DEF Region!Fields
    <3>3. ASSUME NEW q \in Users, q # p
          PROVE  /\ at'[q] \in {"length", "has"} => Region!Size \in stored'[of[q]]
                 /\ at'[q] = "has" /\ q \notin early => stored'[of[q]] = Region!Fields
      <4>1. CASE of[q] = r
        BY <2>4, <2>5, <2>6, <3>3, <4>1 DEF RegionInv, Reached
      <4>2. CASE of[q] # r /\ at[q] # "idle"
        BY <1>t, <2>5, <2>6, <3>3, <4>2 DEF RegionInv, Reached, RegionTypes
      <4> QED
        BY <2>6, <3>3, <4>1, <4>2
    <3> QED
      BY <2>2, <2>3, <2>6, <3>1, <3>2, <3>3 DEF RegionInv, Reached
  <2>10. OneMaker'
    BY <2>2, <2>6 DEF RegionInv, OneMaker, Making
  <2> QED
    BY <2>7, <2>8, <2>9, <2>10 DEF RegionInv
<1> QED
  BY <1>1, <1>2, <1>3, <1>4, <1>5, <1>6, <1>7, <1>8, <1>9, <1>10, <1>11, <1>12, <1>13, <1>14, <1>15

LEMMA RegionInvariant == RegionAssumption /\ RegionInv /\ [Region!Next]_region => RegionInv'
<1>1. ASSUME RegionInv, UNCHANGED region PROVE RegionInv'
  BY <1>1 DEF region, RegionInv, RegionTypes, StoredInOrder, Reached, OneMaker, Making
<1> QED
  BY <1>1, RegionStep

LEMMA WholeForAll == RegionInv => Region!RegionSound
  BY DEF RegionInv, RegionTypes, StoredInOrder, Reached, OneMaker, Making, Region!RegionSound,
    Region!Fields

\* shm_cq_create and shm_cq_attach: however the calls of the processes fall, and
\* wherever one fails or a process dies, who has the queue has it whole.
THEOREM RegionSoundAlways == Region!Spec => []Region!RegionSound
<1>1. RegionInv /\ [Region!Next]_(Region!vars) => RegionInv'
  BY RegionInvariant, RegionAssumption DEF region, Region!vars
<1> QED
  BY <1>1, RegionInit, WholeForAll, PTL DEF Region!Spec

---------------------------------------------------------------------------
\* The two on the bench, with the queue beside them: each part is its own model.
THEOREM SharedSoundAlways == MCSpec => []MCSharedSound
<1> DEFINE SharedInv == (part = "region" => RegionInv) /\ (part = "lock" => LockInv)
<1>1. MCInit => SharedInv
  BY RegionInit, LockInit DEF MCInit
<1>2. ASSUME SharedInv, [MCNext]_<<vars, region, lock, part>> PROVE SharedInv'
  <2>1. part' = part /\ (part = "region" => [Region!Next]_region) /\ (part = "lock" => [Sem!Next]_lock)
    BY <1>2 DEF MCNext, QueueStep
  <2> QED
    BY <1>2, <2>1, RegionInvariant, RegionAssumption, LockInvariant
<1>3. SharedInv => MCSharedSound
  BY WholeForAll, OneIsIn DEF MCSharedSound
<1>4. SharedInv /\ [MCNext]_<<vars, region, lock, part>> => SharedInv'
  BY <1>2
<1> HIDE DEF SharedInv
<1> QED
  BY <1>1, <1>3, <1>4, PTL DEF MCSpec
=============================================================================
