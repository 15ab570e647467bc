------------------------------ MODULE CfgMmap ------------------------------
(***************************************************************************)
(* A configuration in a mapped file (tm_shm.c): one process loads it with  *)
(* a callback of its own, blocks of meta_size bytes at a time, into a      *)
(* mapping of twice mem_size; others map the file and read the first half. *)
(* An update loads the second half and copies it over the first block by   *)
(* block.                                                                  *)
(*                                                                         *)
(* A definition with an underscore in its name is a faulty variant of the  *)
(* one that follows it; none is used by the specification.                 *)
(***************************************************************************)
EXTENDS Integers, Sequences

CONSTANTS
  Counts,           (* numbers of blocks, mem_size / meta_size             *)
  Readers,
  Zero, Junk,       (* what a new file holds, what lies after the mapping  *)
  MaxLoads          (* configurations 1, 2, ...                            *)

VARIABLES
  n,                (* blocks                                              *)
  file,             (* "none", "empty" until ftruncate, "sized"            *)
  mem,              (* the 2n blocks of the file                           *)
  owner,            (* where the loading process is                        *)
  version,          (* the configuration on disk                           *)
  reader,           (* where each reader is, and the blocks it has read    *)
  \* History.
  cur,              (* the configuration last taken into use               *)
  overrun,          (* something past the mapping was touched              *)
  disturbed         (* readers a copy or a first load came between         *)

vars == <<n, file, mem, owner, version, reader, cur, overrun, disturbed>>

Init ==
  /\ n \in Counts
  /\ file = "none" /\ mem = [i \in 1..2*n |-> Zero]
  /\ owner = [pc |-> "down"] /\ version = 1
  /\ reader = [r \in Readers |-> [pc |-> "off"]]
  /\ cur = Zero /\ overrun = FALSE /\ disturbed = {}

Disturb == disturbed' = disturbed \cup {r \in Readers : reader[r].pc = "reads"}

\* Somebody edits the configuration file.
Edit ==
  /\ version < MaxLoads /\ version' = version + 1
  /\ UNCHANGED <<n, file, mem, owner, reader, cur, overrun, disturbed>>

---------------------------------------------------------------------------
(* init_cfg_on_mmap *)

Open ==
  /\ owner.pc = "down"
  /\ file' = IF file = "none" THEN "empty" ELSE file
  /\ owner' = [pc |-> "truncate"]
  /\ UNCHANGED <<n, mem, version, reader, cur, overrun, disturbed>>

Truncate ==
  /\ owner.pc = "truncate"
  /\ file' = "sized"
  /\ owner' = [pc |-> "first", next |-> 1, v |-> version]
  /\ UNCHANGED <<n, mem, version, reader, cur, overrun, disturbed>>

\* The callback writes the blocks of the half it is given.
FirstLoad ==
  /\ owner.pc = "first" /\ owner.next <= n
  /\ mem' = [mem EXCEPT ![owner.next] = owner.v]
  /\ owner' = [owner EXCEPT !.next = @ + 1]
  /\ cur' = Zero /\ Disturb
  /\ UNCHANGED <<n, file, version, reader, overrun>>

FirstLoaded ==
  /\ owner.pc = "first" /\ owner.next = n + 1
  /\ owner' = [pc |-> "up"] /\ cur' = owner.v
  /\ UNCHANGED <<n, file, mem, version, reader, overrun, disturbed>>

\* The callback fails, the process stops or unmaps the configuration: what is in
\* the file stays.
Down ==
  /\ owner.pc # "down"
  /\ owner' = [pc |-> "down"]
  /\ cur' = IF owner.pc = "up" \/ owner.pc = "load" THEN cur ELSE Zero
  /\ UNCHANGED <<n, file, mem, version, reader, overrun, disturbed>>

---------------------------------------------------------------------------
(* update_cfg_on_mmap *)

Update ==
  /\ owner.pc = "up"
  /\ owner' = [pc |-> "load", next |-> 1, v |-> version]
  /\ UNCHANGED <<n, file, mem, version, reader, cur, overrun, disturbed>>

Half_Live == 0

Half == n

Load ==
  /\ owner.pc = "load" /\ owner.next <= n
  /\ mem' = [mem EXCEPT ![Half + owner.next] = owner.v]
  /\ owner' = [owner EXCEPT !.next = @ + 1]
  /\ UNCHANGED <<n, file, version, reader, cur, overrun, disturbed>>

LoadFails ==
  /\ owner.pc = "load"
  /\ owner' = [pc |-> "up"]
  /\ UNCHANGED <<n, file, mem, version, reader, cur, overrun, disturbed>>

Loaded ==
  /\ owner.pc = "load" /\ owner.next = n + 1
  /\ owner' = [pc |-> "copy", next |-> 1, v |-> owner.v]
  /\ UNCHANGED <<n, file, mem, version, reader, cur, overrun, disturbed>>

Copy ==
  /\ owner.pc = "copy" /\ owner.next < n
  /\ mem' = [mem EXCEPT ![owner.next] = mem[n + owner.next]]
  /\ owner' = [owner EXCEPT !.next = @ + 1]
  /\ Disturb
  /\ UNCHANGED <<n, file, version, reader, cur, overrun>>

\* The last block is copied with the size of all the others.
LastLength_Zero == 0

LastLength == n - 1

CopyLast ==
  /\ owner.pc = "copy" /\ owner.next = n
  /\ mem' = [i \in 1..2*n |-> IF i \notin n..(n + LastLength - 1) THEN mem[i]
                              ELSE IF i + n <= 2*n THEN mem[i + n] ELSE Junk]
  /\ overrun' = (overrun \/ n + LastLength - 1 + n > 2*n)
  /\ owner' = [pc |-> "up"]
  /\ cur' = IF n = 1 THEN cur ELSE owner.v
  /\ Disturb
  /\ UNCHANGED <<n, file, version, reader>>

---------------------------------------------------------------------------
(* attach_cfg_to_mmap, reading, detach_cfg_from_mmap.  The descriptor is     *)
(* read-only, so that its ftruncate does nothing.                            *)

Attach(r) ==
  /\ reader[r].pc = "off" /\ file # "none"
  /\ reader' = [reader EXCEPT ![r] = [pc |-> "reads", got |-> <<>>, loaded |-> cur # Zero]]
  /\ disturbed' = IF owner.pc \in {"copy", "first"} THEN disturbed \cup {r} ELSE disturbed \ {r}
  /\ UNCHANGED <<n, file, mem, owner, version, cur, overrun>>

\* A block of a file that has no size yet cannot be read: the signal SIGBUS.
Read(r) ==
  /\ reader[r].pc = "reads" /\ Len(reader[r].got) < n
  /\ reader' = IF file = "sized" THEN [reader EXCEPT ![r].got = Append(@, mem[Len(@) + 1])]
               ELSE [reader EXCEPT ![r] = [pc |-> "bus"]]
  /\ UNCHANGED <<n, file, mem, owner, version, cur, overrun, disturbed>>

Detach(r) ==
  /\ reader[r].pc # "off"
  /\ reader' = [reader EXCEPT ![r] = [pc |-> "off"]]
  /\ disturbed' = disturbed \ {r}
  /\ UNCHANGED <<n, file, mem, owner, version, cur, overrun>>

Owner ==
  \/ Open \/ Truncate \/ FirstLoad \/ FirstLoaded \/ Down
  \/ Update \/ Load \/ LoadFails \/ Loaded \/ Copy \/ CopyLast

Next == Edit \/ Owner \/ \E r \in Readers : Attach(r) \/ Read(r) \/ Detach(r)

Spec == Init /\ [][Next]_vars

---------------------------------------------------------------------------
\* What is in use is whole: all blocks of the configuration last taken into use,
\* whatever was loaded since without being copied, or failed half way; while an
\* update copies, a new part followed by an old part.  The memory past the
\* mapping is touched only with more than two blocks, for which the length of the
\* last block is wrong; with one block no update is ever taken into use.
InUse ==
  /\ overrun => n > 2
  /\ owner.pc \in {"up", "load"} => \A i \in 1..n : mem[i] = cur
  /\ owner.pc = "copy" =>
       \A i \in 1..n : mem[i] = IF i < owner.next THEN owner.v ELSE cur

\* A reader no copy and no first load came between reads one configuration; only
\* one that mapped the file before it ever had its size meets the signal.
ReadsWhole ==
  \A r \in Readers :
    /\ reader[r].pc = "reads" /\ r \notin disturbed /\ reader[r].loaded =>
         \A i, j \in DOMAIN reader[r].got : reader[r].got[i] = reader[r].got[j]
    /\ reader[r].pc = "bus" => ~(cur # Zero /\ file # "sized")

\* Together: what is in use is whole, and so is what an undisturbed reader reads
\* (update_cfg_on_mmap).
MappingRight == InUse /\ ReadsWhole
=============================================================================
