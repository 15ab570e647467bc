---------------------------- MODULE RotatingLog ----------------------------
(***************************************************************************)
(* The log files of log.c: write_log and, under the mutex that             *)
(* enable_multi_thread turns on, shift_fd and open_fd, which close a file  *)
(* that is full or of another day and open the next.  With max files the   *)
(* sequence numbers go round and the file that had a number before is      *)
(* removed; without, they count up; with an interval, files are named by   *)
(* their period.  A record has length 1.                                   *)
(*                                                                         *)
(* A definition with an underscore in its name is a faulty variant of the  *)
(* one that follows it; none is used by the specification.                 *)
(***************************************************************************)
EXTENDS Integers, FiniteSets, FiniteSetsExt

CONSTANTS
  Threads,    (* threads of the program                                    *)
  Levels,     (* log levels that are written                               *)
  LogSize,    (* log_size, in records                                      *)
  Configs,    (* limits of files a program may ask for; 0: no rotation     *)
  Intervals,  (* periods, in days, it may ask for; 0: files by size        *)
  MaxDay,     (* bound: days of the run                                    *)
  PerDay,     (* bound: calls of write_log in one day                      *)
  MaxFails,   (* bound: calls of open that fail                            *)
  MaxRestarts (* bound: ends of the program and calls of log_init after it *)

Nobody == "nobody"

ASSUME LogAssumption ==
  /\ IsFiniteSet(Levels) /\ Nobody \notin Threads /\ Threads # {}
  /\ LogSize \in Nat \ {0} /\ Configs \subseteq Nat /\ Intervals \subseteq Nat
  /\ MaxDay \in Nat \ {0} /\ PerDay \in Nat /\ MaxFails \in Nat /\ MaxRestarts \in Nat

NoFd   == [fd |-> "-1"]       (* opfd is -1                                *)
Closed == [fd |-> "closed"]   (* opfd still names a descriptor now closed  *)
NotYet == [fd |-> "none"]     (* before the first record                   *)

VARIABLES
  config, interval,   (* config_max_log_files, g_logtime_interval          *)
  today,              (* the day of the clock; the run begins with day 1   *)
  disk,               (* the files in log_dir: name -> length              *)
  seq, opfd, day,     (* fds_info: next number, descriptor, day it is of,  *)
  count,              (*   cur_day_seq_count                               *)
  maxFiles,           (* max_log_files                                     *)
  mutex,              (* who holds g_shift_fd_mutex                        *)
  pc, lvl, tm,        (* each thread: place in write_log, level, its day   *)
  \* History: the descriptors open for log files, where the last record was
  \* written and on which day its call began; the bounded events so far.
  descriptors, last, calls, fails, restarts

setup  == <<config, interval>>
info   == <<seq, opfd, day, count, maxFiles>>
thread == <<pc, lvl, tm>>
bounds == <<fails, restarts>>
vars   == <<setup, today, disk, info, mutex, thread, descriptors, last, calls, bounds>>

File(l, d, n) == [lvl |-> l, date |-> d, seq |-> n]
Names(l) == {f \in DOMAIN disk : f.lvl = l}

\* get_log_time
Period(d) == IF interval = 0 THEN 0 ELSE d \div interval

\* log_file_path: with an interval the period of the clock, not of tm.
Path(l, d) ==
  IF interval # 0 THEN File(l, Period(today), 0) ELSE File(l, d, seq[l])

\* get_log_seq_recycle: from the file whose name is the greatest.
SeqRecycle(l) ==
  LET date   == Max({f.date : f \in Names(l)})
      newest == Max({f.seq : f \in {g \in Names(l) : g.date = date}})
  IN IF Names(l) = {} THEN 0
     ELSE (IF date = today THEN newest ELSE newest + 1) % config

\* get_log_seq_nonrecycle: the last number in use, counting from 0.
SeqNonrecycle_Unguarded(l) ==
  Min({n \in 0..Cardinality(Names(l)) : File(l, today, n) \notin DOMAIN disk}) - 1

SeqNonrecycle(l) ==
  LET free == Min({n \in 0..Cardinality(Names(l)) : File(l, today, n) \notin DOMAIN disk})
  IN IF free = 0 THEN 0 ELSE free - 1

InitialSeq(l) ==
  IF interval # 0 THEN Period(today)
  ELSE IF config # 0 THEN SeqRecycle(l) ELSE SeqNonrecycle(l)

\* log_init, or log_init_t, in an empty directory.
Init ==
  /\ config \in Configs /\ interval \in Intervals /\ 0 \in {config, interval}
  /\ today = 1 /\ disk = [f \in {} |-> 0]
  /\ seq = [l \in Levels |-> Period(1)] /\ opfd = [l \in Levels |-> NoFd]
  /\ day = [l \in Levels |-> 0] /\ count = [l \in Levels |-> 0]
  /\ maxFiles = config /\ mutex = Nobody
  /\ pc = [t \in Threads |-> "idle"]
  /\ lvl \in [Threads -> Levels] /\ tm = [t \in Threads |-> 1]
  /\ descriptors = 0 /\ last = [made |-> 1, in |-> NotYet]
  /\ calls = 0 /\ fails = 0 /\ restarts = 0

At(t, step) == pc[t] = step
Goto(t, step) == pc' = [pc EXCEPT ![t] = step]

---------------------------------------------------------------------------
(* write_log. *)

\* The level is written to files; the call keeps the day it began on.
Call(t) ==
  /\ At(t, "idle") /\ calls < PerDay
  /\ calls' = calls + 1
  /\ \E l \in Levels : lvl' = [lvl EXCEPT ![t] = l]
  /\ tm' = [tm EXCEPT ![t] = today]
  /\ Goto(t, "lock")
  /\ UNCHANGED <<setup, today, disk, info, mutex, descriptors, last, bounds>>

Lock_Never(t) ==
  /\ At(t, "lock") /\ mutex' = t
  /\ Goto(t, "check")
  /\ UNCHANGED <<setup, today, disk, info, lvl, tm, descriptors, last, calls, bounds>>

Lock(t) ==
  /\ At(t, "lock") /\ mutex = Nobody /\ mutex' = t
  /\ Goto(t, "check")
  /\ UNCHANGED <<setup, today, disk, info, lvl, tm, descriptors, last, calls, bounds>>

\* rm_files_by_seqno: another file of the level with the same number, if any.
Removable(f) == {g \in Names(f.lvl) : g.seq = f.seq /\ g # f}
Removals(f) == IF Removable(f) = {} THEN {{}} ELSE {{g} : g \in Removable(f)}

Without(files, gone) == [f \in DOMAIN files \ gone |-> files[f]]
Touched(files, f) ==
  [g \in DOMAIN files \cup {f} |-> IF g \in DOMAIN files THEN files[g] ELSE 0]

\* open_fd.  A level that uses up its numbers in one day ends the rotation of
\* all levels until the first file of a new day.
OpenFd(l, d) ==
  LET f        == Path(l, d)
      newDay   == day[l] # d
      limit    == IF newDay THEN config ELSE maxFiles
      nth      == IF newDay THEN 1 ELSE count[l] + 1
      overflow == limit # 0 /\ nth > limit
  IN /\ opfd' = [opfd EXCEPT ![l] = f]
     /\ day' = [day EXCEPT ![l] = d]
     /\ count' = [count EXCEPT ![l] = nth]
     /\ maxFiles' = IF overflow THEN 0 ELSE limit
     /\ seq' = IF overflow THEN [seq EXCEPT ![l] = limit] ELSE seq
     /\ \E gone \in (IF maxFiles' = 0 THEN {{}} ELSE Removals(f)) :
          disk' = Touched(Without(disk, gone), f)
     /\ descriptors' = descriptors + 1
     /\ UNCHANGED fails

OpenFails(l) ==
  /\ fails < MaxFails /\ fails' = fails + 1
  /\ opfd' = [opfd EXCEPT ![l] = NoFd]
  /\ UNCHANGED <<disk, seq, day, count, maxFiles, descriptors>>

GiveUp(t) ==
  /\ OpenFails(lvl[t])
  /\ mutex' = Nobody /\ Goto(t, "idle")
  /\ UNCHANGED <<setup, today, lvl, tm, last, calls, restarts>>

\* shift_fd, no file open yet.
OpenFirst(t) ==
  /\ At(t, "check") /\ opfd[lvl[t]] = NoFd
  /\ OpenFd(lvl[t], tm[t])
  /\ UNCHANGED <<setup, today, mutex, thread, last, calls, restarts>>

OpenFirstFails(t) ==
  /\ At(t, "check") /\ opfd[lvl[t]] = NoFd
  /\ GiveUp(t)

\* shift_fd, may the open file be used on?
\* lseek to the end; -1 for a descriptor that is closed.
Length(f) == IF f \in DOMAIN disk THEN disk[f] ELSE -1

Usable_BySize(l, d) == Length(opfd[l]) < LogSize

Usable(l, d) ==
  IF interval # 0 THEN seq[l] = Period(today)
  ELSE Length(opfd[l]) < LogSize /\ day[l] = d

KeepFile(t) ==
  /\ At(t, "check") /\ opfd[lvl[t]] # NoFd
  /\ Usable(lvl[t], tm[t])
  /\ mutex' = Nobody /\ Goto(t, "write")
  /\ UNCHANGED <<setup, today, disk, info, lvl, tm, descriptors, last, calls, bounds>>

\* The number of the next file.
NextSeq_KeepsCounting(l, d) ==
  IF interval # 0 THEN Period(today)
  ELSE IF maxFiles # 0 THEN seq[l] + 1
  ELSE IF day[l] # d THEN 0 ELSE seq[l] + 1

NextSeq_FromZero(l, d) ==
  IF interval # 0 THEN Period(today)
  ELSE IF maxFiles # 0 THEN (IF day[l] # d THEN 0 ELSE (seq[l] + 1) % maxFiles)
  ELSE IF day[l] # d THEN 0 ELSE seq[l] + 1

NextSeq_DaySwapped(l, d) ==
  IF interval # 0 THEN Period(today)
  ELSE IF maxFiles # 0 THEN (seq[l] + 1) % maxFiles
  ELSE IF day[l] = d THEN 0 ELSE seq[l] + 1

NextSeq(l, d) ==
  IF interval # 0 THEN Period(today)
  ELSE IF maxFiles # 0 THEN (seq[l] + 1) % maxFiles
  ELSE IF day[l] # d THEN 0 ELSE seq[l] + 1

\* The old file is closed; opfd keeps its value until the next one is open.
CloseFile(t) ==
  LET l == lvl[t] IN
  /\ At(t, "check") /\ opfd[l] # NoFd
  /\ ~Usable(l, tm[t])
  /\ descriptors' = descriptors - 1
  /\ opfd' = [opfd EXCEPT ![l] = Closed]
  /\ seq' = [seq EXCEPT ![l] = NextSeq(l, tm[t])]
  /\ Goto(t, "open")
  /\ UNCHANGED <<setup, today, disk, day, count, maxFiles, mutex, lvl, tm, last, calls, bounds>>

OpenNext(t) ==
  /\ At(t, "open")
  /\ OpenFd(lvl[t], tm[t])
  /\ mutex' = Nobody /\ Goto(t, "write")
  /\ UNCHANGED <<setup, today, lvl, tm, last, calls, restarts>>

OpenNextFails(t) ==
  /\ At(t, "open")
  /\ GiveUp(t)

\* write, to whatever opfd is by now, and after the mutex was released.
Write(t) ==
  LET f == opfd[lvl[t]] IN
  /\ At(t, "write")
  /\ last' = [made |-> tm[t], in |-> f]
  /\ disk' = IF f \in {NoFd, Closed} THEN disk ELSE [disk EXCEPT ![f] = @ + 1]
  /\ Goto(t, "idle")
  /\ UNCHANGED <<setup, today, info, mutex, lvl, tm, descriptors, calls, bounds>>

---------------------------------------------------------------------------

Midnight ==
  /\ today < MaxDay /\ today' = today + 1
  /\ calls' = 0
  /\ UNCHANGED <<setup, disk, info, mutex, thread, descriptors, last, bounds>>

\* The program ends, in the middle of anything, and is started again.
Restart ==
  /\ restarts < MaxRestarts /\ restarts' = restarts + 1
  /\ opfd' = [l \in Levels |-> NoFd] /\ seq' = [l \in Levels |-> InitialSeq(l)]
  /\ day' = [l \in Levels |-> 0] /\ count' = [l \in Levels |-> 0]
  /\ maxFiles' = config /\ mutex' = Nobody
  /\ pc' = [t \in Threads |-> "idle"]
  /\ descriptors' = 0
  /\ UNCHANGED <<setup, today, disk, lvl, tm, last, calls, fails>>

\* The bounds are reached and every call has returned.
Over ==
  /\ today = MaxDay /\ calls = PerDay /\ \A t \in Threads : At(t, "idle")
  /\ UNCHANGED vars

Step(t) ==
  \/ Call(t) \/ Lock(t) \/ OpenFirst(t) \/ OpenFirstFails(t) \/ KeepFile(t)
  \/ CloseFile(t) \/ OpenNext(t) \/ OpenNextFails(t) \/ Write(t)

Next == (\E t \in Threads : Step(t)) \/ Midnight \/ Restart \/ Over

Spec == Init /\ [][Next]_vars

---------------------------------------------------------------------------
(* Properties. *)

InFile(record) == record.in \notin {NotYet, NoFd, Closed}

TypeOK ==
  /\ today \in 1..MaxDay /\ DOMAIN disk \subseteq [lvl : Levels, date : Nat, seq : Nat]
  /\ \A f \in DOMAIN disk : disk[f] \in Nat
  /\ seq \in [Levels -> Nat] /\ count \in [Levels -> Nat]
  /\ opfd \in [Levels -> [lvl : Levels, date : Nat, seq : Nat] \cup {NoFd, Closed}]
  /\ day \in [Levels -> 0..MaxDay] /\ maxFiles \in {0, config}
  /\ mutex \in Threads \cup {Nobody}
  /\ pc \in [Threads -> {"idle", "lock", "check", "open", "write"}]
  /\ lvl \in [Threads -> Levels] /\ tm \in [Threads -> 1..MaxDay]
  /\ descriptors \in Nat

\* The program has one thread.
Alone == \A s, t \in DOMAIN pc : s = t

\* log_old.h:97: rotation keeps at most maxfiles files of each level, as long
\* as no day needs more than that, over midnights, restarts and failed opens.
FilesBounded ==
  config # 0 /\ PerDay <= LogSize * config =>
    \A l \in Levels : Cardinality(Names(l)) <= config

\* rm_files_by_seqno finds the oldest file under the next number, also after
\* numbers were spent on opens that failed, while the program runs and no day
\* needs more files than the limit: no file that stays is of an earlier day.
OldestGoes ==
  \A f \in DOMAIN disk \ DOMAIN disk' :
    \A g \in DOMAIN disk' : g.lvl = f.lvl => g.date >= f.date

RemovesOldest == restarts = 0 /\ PerDay <= LogSize * config => OldestGoes

\* A record is in the file of the day, or of the period, it was made in, though
\* the clock may pass midnight between any two steps of its call.
InItsDay ==
  InFile(last) =>
    IF interval = 0 THEN last.in.date = last.made
    ELSE last.in.date \in Period(last.made)..Period(today)

\* Without rotation the files of a day, taken by their names, hold its records
\* in the order they were written, also when the program was started again
\* once: get_log_seq_nonrecycle finds the number it stopped at.
InOrder ==
  /\ config = 0 /\ fails = 0 /\ restarts <= 1
  /\ InFile(last) /\ InFile(last')
  /\ last'.in.lvl = last.in.lvl /\ last'.in.date = last.in.date
  => last'.in.seq >= last.in.seq

\* write_log (log.c:315) in a program with one thread: the files are few, each
\* holds the records of its day or period, and those that go and those that come
\* go and come in the order of the days.
FilesRight == Alone => TypeOK /\ FilesBounded /\ InItsDay
FilesFollow == [][Alone => RemovesOldest /\ InOrder]_vars

\* shift_fd neither leaks a descriptor nor closes one twice, whichever threads
\* find the file full or the day over at the same time, and if open fails.
OneDescriptor ==
  descriptors = Cardinality({l \in DOMAIN opfd : opfd[l] \notin {NoFd, Closed}})

\* A record whose shift_fd succeeded is written to a file (log_old.h:137).
NothingLost == last.in \notin {NoFd, Closed}
=============================================================================
