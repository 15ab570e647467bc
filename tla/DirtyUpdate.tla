---------------------------- MODULE DirtyUpdate -----------------------------
(***************************************************************************)
(* The update of the dirty words in tm_dirty.c: a process that called      *)
(* tm_dirty_daemon_with_named_mmap fetches the dictionary from a server,   *)
(* block by block, keeps it in a file and loads it into the one of two     *)
(* automata in shared memory that is not in use, then switches to it.      *)
(* Meanwhile its threads, and processes attached to the memory, check      *)
(* texts.                                                                  *)
(*                                                                         *)
(* A digest stands for what it is the digest of: the md5 of a file is its  *)
(* sequence of blocks.                                                     *)
(* A definition with an underscore in its name is a faulty variant of the  *)
(* one that follows it; none is used by the specification.                 *)
(***************************************************************************)
EXTENDS Integers, Sequences

CONSTANTS
  Versions,    (* dictionaries the server may hold                         *)
  Size,        (* the number of blocks of each; an empty one has none      *)
  Threads,     (* threads of the daemon's process that check               *)
  Attached,    (* processes that called attach_to_dirty_shm                *)
  NoFile, Zero, Torn, Blank, Idle,
  MaxChanges, MaxFails, MaxCrashes

Block      == {b \in Versions \X Nat : b[2] \in 1..Size[b[1]]}
Content(v) == [i \in 1..Size[v] |-> <<v, i>>]
Whole      == {Content(v) : v \in {v \in Versions : Size[v] > 0}}

\* A check that runs: the flag it read, what it found there, and whether it
\* began after a load.
Check == [flag : {0, 1}, saw : {Blank, Torn} \cup Seq(Block), ready : BOOLEAN]

ASSUME UpdateAssumption ==
  /\ Size \in [Versions -> Nat]
  /\ Threads \cap Attached = {}
  /\ {NoFile, Zero, Torn, Blank} \cap Seq(Block) = {}
  /\ Idle \notin Check
  /\ NoFile # Zero /\ Torn # Blank /\ NoFile \notin {Torn, Blank}
  /\ MaxChanges \in Nat /\ MaxFails \in Nat /\ MaxCrashes \in Nat

Checkers == Threads \cup Attached

VARIABLES
  srv,        (* the dictionary of the server                              *)
  dat, new,   (* tm_dirty_local_dirty_file_path, and the same with .new    *)
  localMd5,   (* local_md5_dgst                                            *)
  md5Exist,   (* local_md5_exist                                           *)
  servrMd5,   (* servr_md5_dgst, or Zero while it is not recorded          *)
  pc, mode,   (* where the daemon is, and what for                         *)
  mem, flag,  (* the two automata; the flag of the first handle            *)
  ready,      (* since the flag was set to 0 a dictionary was loaded       *)
  loadFailed, (* the last call of tm_dirty_load_new failed                 *)
  check,      (* the checks that run                                       *)
  left        (* what the bounds still allow                               *)

net  == <<localMd5, md5Exist, servrMd5>>
shm  == <<mem, flag, ready, loadFailed>>
vars == <<srv, dat, new, localMd5, md5Exist, servrMd5, pc, mode, mem, flag, ready,
          loadFailed, check, left>>

Init ==
  /\ srv \in Versions
  /\ dat \in {NoFile} \cup Whole /\ new = NoFile
  /\ localMd5 = Zero /\ md5Exist = FALSE /\ servrMd5 = Zero
  /\ pc = "down" /\ mode = "none"
  /\ mem = [t \in {0, 1} |-> Blank] /\ flag = 0 /\ ready = FALSE /\ loadFailed = FALSE
  /\ check = [c \in Checkers |-> Idle]
  /\ left = [changes |-> MaxChanges, fails |-> MaxFails, crashes |-> MaxCrashes]

Spend(what) == left[what] > 0 /\ left' = [left EXCEPT ![what] = @ - 1]

---------------------------------------------------------------------------
(* tm_dirty_daemon_with_named_mmap. *)

\* It takes longer to start a process than to check a text.
Start ==
  /\ pc = "down" /\ \A c \in Checkers : check[c] = Idle
  /\ flag' = 0 /\ ready' = FALSE /\ loadFailed' = FALSE
  /\ localMd5' = Zero /\ md5Exist' = FALSE /\ servrMd5' = Zero
  /\ mode' = "first" /\ pc' = "look"
  /\ UNCHANGED <<srv, dat, new, mem, check, left>>

\* The first load ends the start of the daemon; where it failed, the local file
\* is loaded if it was there.  The thread ignores what a load returns.
Returns(ok) ==
  \/ /\ ok \/ mode = "thread"
     /\ pc' = "sleep" /\ mode' = "thread"
  \/ /\ ~ok /\ mode = "first" /\ md5Exist
     /\ pc' = "open" /\ mode' = "fallback"
  \/ /\ ~ok /\ mode # "thread" /\ (mode = "first" => ~md5Exist)
     /\ pc' = "down" /\ UNCHANGED mode

\* The thread wakes when it slept for an update cycle, which is at least ten
\* seconds: no check that read the flag before the last switch still runs.
Wake ==
  /\ pc = "sleep"
  /\ \A c \in Checkers : check[c] # Idle => check[c].flag = flag
  /\ pc' = "look"
  /\ UNCHANGED <<srv, dat, new, net, mode, shm, check, left>>

---------------------------------------------------------------------------
(* tm_dirty_load_from_server. *)

LookLocal ==
  /\ pc = "look"
  /\ IF dat = NoFile THEN localMd5' = Zero /\ UNCHANGED md5Exist
     ELSE IF md5Exist THEN UNCHANGED <<localMd5, md5Exist>>
     ELSE localMd5' = dat /\ md5Exist' = TRUE
  /\ servrMd5' = Zero /\ pc' = "compare"
  /\ UNCHANGED <<srv, dat, new, mode, shm, check, left>>

UpToDate ==
  /\ pc = "compare" /\ localMd5 = Content(srv)
  /\ Returns(FALSE)
  /\ UNCHANGED <<srv, dat, new, net, shm, check, left>>

Request ==
  /\ pc = "compare" /\ localMd5 # Content(srv)
  /\ pc' = "receive"
  /\ UNCHANGED <<srv, dat, new, net, mode, shm, check, left>>

\* The number of the next block; the first one opens the new file and records
\* the digest and the length of the whole.
First == servrMd5 = Zero
Number == IF First THEN 1 ELSE Len(new) + 1

ReceiveNothing ==
  /\ pc = "receive" /\ Size[srv] = 0
  /\ Returns(TRUE)
  /\ UNCHANGED <<srv, dat, new, net, shm, check, left>>

LengthDiffers ==
  /\ pc = "receive" /\ Size[srv] # 0 /\ ~First /\ Len(servrMd5) # Size[srv]
  /\ Returns(FALSE)
  /\ UNCHANGED <<srv, dat, new, net, shm, check, left>>

Endable_Never(i) == FALSE

Endable(i) == i = Size[srv]

Receive ==
  /\ pc = "receive" /\ Size[srv] # 0 /\ (~First => Len(servrMd5) = Size[srv])
  /\ new' = IF First THEN << <<srv, 1>> >> ELSE Append(new, <<srv, Number>>)
  /\ servrMd5' = IF First THEN Content(srv) ELSE servrMd5
  /\ pc' = IF Endable(Number) THEN "verify" ELSE "receive"
  /\ UNCHANGED <<srv, dat, localMd5, md5Exist, mode, shm, check, left>>

Verify_Unchecked ==
  /\ pc = "verify"
  /\ localMd5' = new
  /\ pc' = "remove" /\ UNCHANGED mode
  /\ UNCHANGED <<srv, dat, new, md5Exist, servrMd5, shm, check, left>>

Verify_MarksServer ==
  /\ pc = "verify"
  /\ localMd5' = servrMd5
  /\ IF new = servrMd5 THEN pc' = "remove" /\ UNCHANGED mode ELSE Returns(FALSE)
  /\ UNCHANGED <<srv, dat, new, md5Exist, servrMd5, shm, check, left>>

Verify ==
  /\ pc = "verify"
  /\ localMd5' = new
  /\ IF new = servrMd5 THEN pc' = "remove" /\ UNCHANGED mode ELSE Returns(FALSE)
  /\ UNCHANGED <<srv, dat, new, md5Exist, servrMd5, shm, check, left>>

Remove ==
  /\ pc = "remove"
  /\ dat' = NoFile /\ pc' = "rename"
  /\ UNCHANGED <<srv, new, net, mode, shm, check, left>>

\* What rename returns is not looked at.
Rename ==
  /\ pc = "rename"
  /\ \/ dat' = new /\ new' = NoFile /\ UNCHANGED left
     \/ Spend("fails") /\ UNCHANGED <<dat, new>>
  /\ pc' = "open"
  /\ UNCHANGED <<srv, net, mode, shm, check>>

---------------------------------------------------------------------------
(* tm_dirty_load_new. *)

UpdateFlag_InUse == flag
UpdateFlag == 1 - flag

Open ==
  /\ pc = "open" /\ dat # NoFile
  /\ mem' = [mem EXCEPT ![UpdateFlag] = Torn]
  /\ pc' = "compile"
  /\ UNCHANGED <<srv, dat, new, net, mode, flag, ready, loadFailed, check, left>>

OpenMissing ==
  /\ pc = "open" /\ dat = NoFile
  /\ loadFailed' = TRUE
  /\ Returns(FALSE)
  /\ UNCHANGED <<srv, dat, new, net, mem, flag, ready, check, left>>

Compile ==
  /\ pc = "compile"
  /\ mem' = [mem EXCEPT ![UpdateFlag] = dat]
  /\ pc' = "switch"
  /\ UNCHANGED <<srv, dat, new, net, mode, flag, ready, loadFailed, check, left>>

Switch_OtherHandle ==
  /\ pc = "switch"
  /\ flag' = flag /\ ready' = TRUE /\ loadFailed' = FALSE
  /\ Returns(TRUE)
  /\ UNCHANGED <<srv, dat, new, net, mem, check, left>>

Switch ==
  /\ pc = "switch"
  /\ flag' = UpdateFlag /\ ready' = TRUE /\ loadFailed' = FALSE
  /\ Returns(TRUE)
  /\ UNCHANGED <<srv, dat, new, net, mem, check, left>>

\* An error that makes the function return -1 where it stands: a digest or a
\* file that cannot be made, a connection refused, lost or timed out, a packet
\* that makes no sense; a dictionary that cannot be opened or compiled.
GoesWrong ==
  /\ pc \in {"look", "compare", "receive", "verify", "open", "compile"}
  /\ Spend("fails")
  /\ loadFailed' = (loadFailed \/ pc \in {"open", "compile"})
  /\ Returns(FALSE)
  /\ UNCHANGED <<srv, dat, new, net, mem, flag, ready, check>>

---------------------------------------------------------------------------
(* common_routine and the checks. *)

\* An attached process needs the memory to be there, a thread needs daemon_called.
CheckBegins(c) ==
  /\ check[c] = Idle
  /\ IF c \in Attached THEN mode # "none" ELSE mode = "thread" /\ pc # "down"
  /\ check' = [check EXCEPT ![c] = [flag |-> flag, saw |-> mem[flag], ready |-> ready]]
  /\ UNCHANGED <<srv, dat, new, net, pc, mode, shm, left>>

CheckEnds(c) ==
  /\ check[c] # Idle
  /\ check' = [check EXCEPT ![c] = Idle]
  /\ UNCHANGED <<srv, dat, new, net, pc, mode, shm, left>>

---------------------------------------------------------------------------
(* The world around. *)

\* The server's dictionary is replaced, between two blocks of a transfer too.
ServerChanges(v) ==
  /\ v # srv /\ Spend("changes")
  /\ srv' = v
  /\ UNCHANGED <<dat, new, net, pc, mode, shm, check>>

\* The daemon's process dies; its files and the named memory stay.
Crash ==
  /\ pc # "down" /\ Spend("crashes")
  /\ pc' = "down"
  /\ check' = [c \in Checkers |-> IF c \in Threads THEN Idle ELSE check[c]]
  /\ UNCHANGED <<srv, dat, new, net, mode, shm>>

Daemon ==
  \/ LookLocal \/ UpToDate \/ Request \/ ReceiveNothing \/ LengthDiffers \/ Receive
  \/ Verify \/ Remove \/ Rename \/ Open \/ OpenMissing \/ Compile \/ Switch \/ Wake

Next ==
  \/ Start \/ Daemon \/ GoesWrong \/ Crash
  \/ \E c \in Checkers : CheckBegins(c) \/ CheckEnds(c)
  \/ \E v \in Versions : ServerChanges(v)

Spec == Init /\ [][Next]_vars

\* The thread runs on and its sleeps end, and so does each check.
FairSpec ==
  /\ Spec /\ WF_vars(Daemon)
  /\ \A c \in Checkers : WF_vars(CheckEnds(c))

---------------------------------------------------------------------------
(* Properties. *)

TypeOK ==
  /\ srv \in Versions
  /\ dat \in {NoFile} \cup Seq(Block) /\ new \in {NoFile} \cup Seq(Block)
  /\ localMd5 \in {Zero} \cup Seq(Block) /\ md5Exist \in BOOLEAN
  /\ servrMd5 \in {Zero} \cup Whole
  /\ mode \in {"none", "first", "fallback", "thread"}
  /\ pc \in {"down", "look", "compare", "receive", "verify", "remove", "rename", "open",
             "compile", "switch", "sleep"}
  /\ mem \in [{0, 1} -> {Blank, Torn} \cup Seq(Block)] /\ flag \in {0, 1}
  /\ ready \in BOOLEAN /\ loadFailed \in BOOLEAN
  /\ check \in [Checkers -> {Idle} \cup Check]
  /\ left \in [changes : 0..MaxChanges, fails : 0..MaxFails, crashes : 0..MaxCrashes]

\* The local file is a dictionary of the server, whole, whatever is lost, changed
\* or dies on the way (tm_dirty_load_from_server).
LocalWhole == dat # NoFile => dat \in Whole

\* A check walks one dictionary, whole, to its end, however the daemon loads
\* others meanwhile, dies and starts (the two handles and their flag); checks
\* that begin between a start and the first load that succeeds are excepted.
CheckWhole ==
  \A c \in Checkers :
    check[c] # Idle /\ check[c].ready => mem[check[c].flag] = check[c].saw /\ check[c].saw \in Whole

\* While the thread sleeps, the dictionary in use is the one in the file, unless
\* the load that would have made it so failed.
MemoryFollowsFile == pc = "sleep" /\ ready /\ ~loadFailed => mem[flag] = dat

\* Together: the file, the automaton in use and what the checks walk are whole
\* dictionaries and the same one when nothing is under way (tm_dirty.c:275, :842).
UpdateSound == TypeOK /\ LocalWhole /\ CheckWhole /\ MemoryFollowsFile

\* A daemon that stays up comes to use the server's dictionary: nothing that went
\* wrong with a transfer is taken for done (local_md5_dgst).  Excepted are an empty
\* dictionary, a load that failed, and the local file that the first load leaves
\* unread when the server's dictionary is empty at that time.
CatchesUp ==
  <>[](pc # "down") =>
    <>[](mem[flag] = Content(srv) \/ Size[srv] = 0 \/ loadFailed \/ (~ready /\ dat = Content(srv)))
=============================================================================
