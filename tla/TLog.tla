------------------------------- MODULE TLog --------------------------------
(***************************************************************************)
(* The log files of tlog.c: write_to_logger, which one thread calls, with  *)
(* shift_logger_file, which opens a file for each time slice, for each day *)
(* and whenever max_one_size is reached, under a limit of files a day; and *)
(* the rest the logger takes when the disk is full.                        *)
(*                                                                         *)
(* Time is counted in ticks, sizes in bytes, of which max_one_size is a    *)
(* number; what a write puts into a file and what file_len counts of it    *)
(* are kept apart.                                                         *)
(* A definition with an underscore in its name is a faulty variant of the  *)
(* one that follows it; none is used by the specification.                 *)
(***************************************************************************)
EXTENDS Integers, FiniteSets, FiniteSetsExt

CONSTANTS
  Levels,     (* log levels that are written                               *)
  DailyMaxes, (* values of daily_max_files a program may ask for; 0: none  *)
  Slices,     (* values of time_slice_secs it may ask for; 0: none         *)
  MaxOne,     (* max_one_size, in bytes                                    *)
  Lens,       (* lengths of records                                        *)
  BufSize,    (* TLOG_BUF_SIZE: a longer record is cut to it               *)
  HeadLen,    (* length of the head of a file                              *)
  Stops,      (* values of stop_if_diskfull it may ask for                 *)
  DayLen,     (* ticks of a day                                            *)
  Rest,       (* CHECK_DISKFULL_DUR                                        *)
  MaxTicks,   (* bound: ticks of the run                                   *)
  PerTick,    (* bound: calls of write_to_logger in a tick                 *)
  MaxFails,   (* bound: calls of mkdir, stat, open or write that fail      *)
  MaxRestarts (* bound: ends of the program and calls of init_logger       *)

ASSUME TLogAssumption ==
  /\ DailyMaxes \subseteq Nat /\ Slices \subseteq Nat /\ Stops \subseteq BOOLEAN
  /\ BufSize \in Nat /\ Lens \subseteq 1..BufSize /\ HeadLen \in Nat
  /\ MaxOne \in Nat \ {0} /\ DayLen \in Nat \ {0} /\ Rest \in Nat \ {0}
  /\ {MaxTicks, PerTick, MaxFails, MaxRestarts} \subseteq Nat

NoFile == [name |-> "-1"]

VARIABLES
  dailyMax, slice, stop,   (* ctrl_cfg                                     *)
  now,                     (* the clock                                    *)
  disk, full,              (* the files: name -> size; is the disk full    *)
  logfile,                 (* logger->logfile[]                            *)
  status, lastCheck,       (* logger->status, last_check_diskfull_time     *)
  \* History: the file of the last record of each level; the files each level
  \* created today, counted under a limit; when the last two writes found the
  \* disk full, kept with stop_if_diskfull; the bounded events so far.
  last, created, foundFull, calls, fails, restarts

cfg  == <<dailyMax, slice, stop>>
vars == <<cfg, now, disk, full, logfile, status, lastCheck,
          last, created, foundFull, calls, fails, restarts>>

Start == DayLen * Rest    (* the run begins at a midnight long after 0     *)
Day(t) == t \div DayLen

\* init_logger: the structure is cleared.
Fresh == [fd |-> NoFile, dailySeq |-> 0, sliceSeq |-> 0, yday |-> 0, fileLen |-> 0]

Init ==
  /\ dailyMax \in DailyMaxes /\ slice \in Slices /\ stop \in Stops
  /\ now = Start /\ disk = [f \in {} |-> 0] /\ full = FALSE
  /\ logfile = [l \in Levels |-> Fresh]
  /\ status = "writing" /\ lastCheck = 0
  /\ last = [l \in Levels |-> NoFile]
  /\ created = [l \in Levels |-> 0] /\ foundFull = <<0, 0>>
  /\ calls = 0 /\ fails = 0 /\ restarts = 0

---------------------------------------------------------------------------
(* shift_logger_file. *)

Sliced(lf) == slice # 0 /\ now \div slice # lf.sliceSeq

\* is_need_shift_file: the limit of the day is tested before all else.
NeedShift_OneMore(lf) ==
  /\ ~(dailyMax # 0 /\ lf.dailySeq > dailyMax)
  /\ lf.fd = NoFile \/ Sliced(lf) \/ lf.fileLen >= MaxOne \/ lf.yday # Day(now)

NeedShift_NoDay(lf) ==
  /\ ~(dailyMax # 0 /\ lf.dailySeq >= dailyMax)
  /\ lf.fd = NoFile \/ Sliced(lf) \/ lf.fileLen >= MaxOne

NeedShift(lf) ==
  /\ ~(dailyMax # 0 /\ lf.dailySeq >= dailyMax)
  /\ lf.fd = NoFile \/ Sliced(lf) \/ lf.fileLen >= MaxOne \/ lf.yday # Day(now)

\* init_logfile, after the old file was closed.
Cleared(lf) ==
  [fd       |-> NoFile,
   dailySeq |-> IF lf.yday # Day(now) THEN 0 ELSE lf.dailySeq,
   sliceSeq |-> IF slice # 0 THEN now \div slice ELSE lf.sliceSeq,
   yday     |-> Day(now),
   fileLen  |-> 0]

\* The name: the directory of the day, the time the slice began, a number.
Name(l, at, no) == [lvl |-> l, day |-> Day(now), at |-> at % DayLen, no |-> no]
Existing(l, at) == {f \in DOMAIN disk : f.lvl = l /\ f.day = Day(now) /\ f.at = at % DayLen}

\* get_time_slice_no: the first number whose file is missing or has room.
SliceNo_Counted(l, at) == logfile[l].dailySeq

SliceNo_Last(l, at) == IF Existing(l, at) = {} THEN 0 ELSE Cardinality(Existing(l, at)) - 1

SliceNo_First(l, at) == 0

SliceNo(l, at) ==
  Min({no \in 0..Cardinality(Existing(l, at)) :
         Name(l, at, no) \in DOMAIN disk => disk[Name(l, at, no)] < MaxOne})

\* gen_timestring
NewName(l) ==
  IF slice = 0 THEN Name(l, now, 0)
  ELSE LET at == (now \div slice) * slice IN Name(l, at, SliceNo(l, at))

Size(f) == IF f \in DOMAIN disk THEN disk[f] ELSE 0

\* create_new_logfile, when mkdir, stat and open succeed: the file is made or
\* opened to append, and a head is written to it that file_len does not count.
\* Nothing looks at how that write went: head bytes of it reach the file.
CreateNewLogfile(l, head) ==
  LET f == NewName(l)  lf == Cleared(logfile[l])
  IN [files |-> [g \in DOMAIN disk \cup {f} |-> Size(g) + (IF g = f THEN head ELSE 0)],
      lf    |-> [lf EXCEPT !.fd = f, !.dailySeq = @ + 1]]

---------------------------------------------------------------------------
(* write_to_logger. *)

Called ==
  /\ calls < PerTick /\ calls' = calls + 1
  /\ UNCHANGED <<cfg, now, full, restarts>>

\* The logger rests.  When it has rested long enough the next call will write.
Resume_Unstamped ==
  IF now - lastCheck >= Rest
  THEN status' = "writing" /\ UNCHANGED lastCheck
  ELSE UNCHANGED <<status, lastCheck>>

Resume ==
  IF now - lastCheck >= Rest
  THEN status' = "writing" /\ lastCheck' = now
  ELSE UNCHANGED <<status, lastCheck>>

CallWhileStopped ==
  /\ status = "stop" /\ Called /\ Resume
  /\ UNCHANGED <<disk, logfile, last, created, foundFull, fails>>

\* mkdir fails, and the old file stays open; or stat or open fails after it was
\* closed.  The record is not written.
ShiftFails(l) ==
  /\ status = "writing" /\ Called
  /\ NeedShift(logfile[l])
  /\ fails < MaxFails /\ fails' = fails + 1
  /\ logfile' \in {logfile, [logfile EXCEPT ![l] = Cleared(@)]}
  /\ UNCHANGED <<disk, status, lastCheck, last, created, foundFull>>

\* shift_logger_file succeeds: the files, and the level's entry.
Shifted(l, head) ==
  IF NeedShift(logfile[l]) THEN CreateNewLogfile(l, head)
  ELSE [files |-> disk, lf |-> logfile[l]]

Count(l) ==
  created' = IF dailyMax # 0 /\ NeedShift(logfile[l]) THEN [created EXCEPT ![l] = @ + 1] ELSE created

\* The write of a record: put bytes reach the file, counted are added to file_len.
Put(l, head, put, counted) ==
  LET s == Shifted(l, head) IN
  /\ Count(l)
  /\ disk' = [f \in DOMAIN s.files |-> s.files[f] + (IF f = s.lf.fd THEN put ELSE 0)]
  /\ logfile' = [logfile EXCEPT ![l] = [s.lf EXCEPT !.fileLen = @ + counted]]

Write(l, len) ==
  /\ status = "writing" /\ Called
  /\ ~full
  /\ \/ Put(l, HeadLen, len, len) /\ UNCHANGED fails
     \/ Put(l, 0, len, len) /\ fails < MaxFails /\ fails' = fails + 1
  /\ last' = [last EXCEPT ![l] = logfile'[l].fd]
  /\ UNCHANGED <<status, lastCheck, foundFull>>

\* write returns ENOSPC; there may have been room for a head.
DiskFull(l, len) ==
  /\ status = "writing" /\ Called
  /\ full
  /\ \E head \in {0, HeadLen} :
       IF stop
       THEN /\ Put(l, head, 0, 0)
            /\ status' = "stop" /\ foundFull' = <<foundFull[2], now>>
       ELSE Put(l, head, 0, len) /\ UNCHANGED <<status, foundFull>>
  /\ UNCHANGED <<lastCheck, last, fails>>

\* write fails otherwise, or takes a part: the length is counted as if it had not.
WriteFails(l, len) ==
  /\ status = "writing" /\ Called
  /\ fails < MaxFails /\ fails' = fails + 1
  /\ \E head \in {0, HeadLen}, put \in 0..(len - 1) : Put(l, head, put, len)
  /\ UNCHANGED <<status, lastCheck, last, foundFull>>

---------------------------------------------------------------------------

Tick ==
  /\ now < Start + MaxTicks /\ now' = now + 1
  /\ calls' = 0
  /\ created' = IF Day(now') # Day(now) THEN [l \in Levels |-> 0] ELSE created
  /\ UNCHANGED <<cfg, disk, full, logfile, status, lastCheck, last, foundFull, fails, restarts>>

DiskFillsOrFrees ==
  /\ full' = ~full
  /\ UNCHANGED <<cfg, now, disk, logfile, status, lastCheck, last, created, foundFull,
                 calls, fails, restarts>>

Restart ==
  /\ restarts < MaxRestarts /\ restarts' = restarts + 1
  /\ logfile' = [l \in Levels |-> Fresh]
  /\ status' = "writing" /\ lastCheck' = 0
  /\ created' = [l \in Levels |-> 0] /\ foundFull' = <<0, 0>>
  /\ UNCHANGED <<cfg, now, disk, full, last, calls, fails>>

WriteToLogger(l) ==
  \/ CallWhileStopped \/ ShiftFails(l)
  \/ \E len \in Lens : Write(l, len) \/ DiskFull(l, len) \/ WriteFails(l, len)

Next == (\E l \in Levels : WriteToLogger(l)) \/ Tick \/ DiskFillsOrFrees \/ Restart

Spec == Init /\ [][Next]_vars

---------------------------------------------------------------------------
(* Properties. *)

FileName == [lvl : Levels, day : Nat, at : 0..DayLen - 1, no : Nat]

TypeOK ==
  /\ dailyMax \in DailyMaxes /\ slice \in Slices /\ stop \in Stops
  /\ now \in Start..Start + MaxTicks
  /\ DOMAIN disk \subseteq FileName /\ \A f \in DOMAIN disk : disk[f] \in Nat
  /\ full \in BOOLEAN /\ status \in {"writing", "stop"} /\ lastCheck \in 0..now
  /\ logfile \in [Levels -> [fd : FileName \cup {NoFile}, dailySeq : Nat,
                             sliceSeq : Nat, yday : Nat, fileLen : Nat]]

\* Each record is written to an open file, which is that of the day and of the
\* time slice it was made in (is_need_shift_file), whatever failed before and
\* wherever a slice lies across midnight: as long as the level has files of its
\* limit left.  daily_seq is only taken back by a shift, which it forbids when it
\* has reached the limit: from then on records of later days and slices stay in
\* one file, until a restart.
InItsSlice ==
  [][\A l \in Levels :
       /\ dailyMax = 0 \/ logfile[l].dailySeq < dailyMax
       /\ \E len \in Lens : Write(l, len)
       => /\ last'[l] # NoFile
          /\ last'[l].day = Day(now)
          /\ slice # 0 => last'[l].at = ((now \div slice) * slice) % DayLen]_vars

\* With time slices a file ends below twice max_one_size and a head and a record:
\* it is opened only with room, also after a failure or a restart; then a head is
\* written that is not counted, and records until those of this opening reach
\* max_one_size, which the last of them may do by its length.
SizeBounded ==
  dailyMax = 0 /\ slice # 0 =>
    \A f \in DOMAIN disk : disk[f] <= 2 * (MaxOne - 1) + HeadLen + BufSize

\* The files of a slice, taken by their numbers, hold its records in the order
\* they were made, through failures, a full disk and restarts.
InOrder ==
  [][\A l \in Levels :
       /\ NoFile \notin {last[l], last'[l]}
       /\ last'[l].day = last[l].day /\ last'[l].at = last[l].at
       => last'[l].no >= last[l].no]_vars

\* A program creates no more than daily_max_files files of a level in a day.
FilesPerDay == dailyMax # 0 => \A l \in Levels : created[l] <= dailyMax

\* Together: files are neither too large nor too many, and the records lie in
\* them by day, by slice and in order (write_to_logger).
FilesSound == TypeOK /\ SizeBounded /\ FilesPerDay
RecordsPlaced == InItsSlice /\ InOrder

\* With stop_if_diskfull a full disk is tried at most twice in any
\* CHECK_DISKFULL_DUR: once when it is found full, once when writing resumes.
RestsWhenFull ==
  [][stop /\ (\E l \in Levels, len \in Lens : DiskFull(l, len)) => now - foundFull[1] >= Rest]_vars
=============================================================================
