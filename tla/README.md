# A verification development of libtaomee

libtaomee is a C library of building blocks for long-running server processes
on Linux: queues, segments and counters in shared memory, timers on intrusive
lists, two generations of logging, locks, a dirty-word filter, configuration,
helpers for sockets, and a copy of Lua 5.1 that reads configuration and scripts.
This directory holds TLA+ models of the parts whose correctness depends on the
order in which several actors act, on long histories of calls, or on algorithms
that are hard to test, with the TLC configurations that check them and TLAPS
proofs of the most important results.

Contents: 1. Inventory. 2. Plan. 3. The models. 4. The runs. 5. The proofs.
6. What was seen on the way. 7. What is not modelled.

## 1. Inventory

| Component (source) | State | Operations |
|---|---|---|
| Shared-memory queue (`interprocess/shmq.c`, `.h`; programs `shmq_push.c`, `shmq_pop.c`) | header `head`, `tail`, `shm_size`, `elem_max_sz`; blocks of a length word and data; a name and mappings | `shm_cq_create`, `_attach`, `_detach`, `_destroy`, `shm_cq_push`, `shm_cq_pop` |
| Semaphore and file locks (`interprocess/lock.c`, `filelock.h`) | one System V semaphore for each key, what SEM_UNDO remembers; `fcntl` ranges | `sem_init`, `sem_lock`, `sem_unlock`; `filelock_lock` |
| Second timers (`timer.c`, `timer.h`, on `list.h`) | 5 lists `vec[i]` with a cached minimum, the clients' sprite lists, the callback table `tcfs`, the clock `now` | `setup_timer`, `destroy_timer`, `add_event`, `add_event_ex`, `mod_expire_time`, `REMOVE_TIMER`, `remove_timers`, `handle_timer`, `register_timer_callback`, `unregister_timers_callback`, `refresh_timers_callback`, `renew_now` |
| Microsecond timers (same files) | one list, `mtcfs` | `add_micro_event(_ex)`, `remove_micro_timer(s)`, `scan_microseconds_timer` |
| Attribute counters (`attr_api/attr_api.c`, `hash_table.c`, `api_util.c`) | rows of nodes in shared memory | `update_attr`, `get_attr`, `get_self_attr`, `get_attr_shm`, `hash_table_init`, `hash_table_lookup_node(_ex)`, `hash_table_walk`, `hash_table_get_node`, `check_attr_key_matchable` |
| System V segments (`attr_api/shm.c`; `tm_shm/tm_shm.c` from line 146) | segments by key, the address a process has one attached at | `get_shm`, `create_shm(_init)`, `update_shm_attach`, `get_shm_info`; `tm_shm_create(_init)`, `tm_shm_create_new(_init)`, `tm_shm_update_attach` |
| Mapped configuration (`tm_shm/tm_shm.c` up to line 145) | a file mapping of metadata and blocks | `init_cfg_on_mmap`, `update_cfg_on_mmap`, `attach_cfg_to_mmap`, `detach_…`, `destroy_…` |
| Rotating log (`log.c`, `log.h`, `log_old.h`) | for each level descriptor, number, day and count; `max_log_files`; the files | `log_init`, `log_init_t`, `log_fini`, `write_log` with `shift_fd`, `open_fd`, `rm_files_by_seqno`; `enable_multi_thread`, `set_log_dest` |
| tlog files (`tlog/tlog.c`, `fileutils.c`, `tlog_decl.h`, `tlog_macros.h`) | the logger, for each level a file with its numbers and dates; the files | `init_logger_ctrl_cfg`, `init_logger`, `write_to_logger` with `is_need_shift_file`, `shift_logger_file`, `create_new_logfile` |
| tlog UDP sink (`tlog/netutils.c`, packets of `tools/ctrl_tlog.c`) | sink address, rate limit, table of traced users, two sockets | `udp_sink_server`, `proc_logger_pkg`, `do_set_trace_addr`, `do_set_trace_uid`, `do_set_rate_limit`, `sendlog_to_udp_sink`, `is_traced_uid` |
| Dirty words (`tm_dirty/tm_dirty.c`, `acsm.c`, `utf8_punc.c`) | two Aho-Corasick automata and the flag that tells which is in use, the local file, the list of servers | `tm_dirty_load_new`, `tm_dirty_load_from_server`, `tm_dirty_check`, `_replace`, `_check_where`, `tm_dirty_daemon(_with_named_mmap)`, the update thread |
| Sockets (`inet/*`) | descriptors | `safe_tcp_recv`, `safe_tcp_recv_n`, `safe_tcp_send_n`, connect, accept, listen, multicast |
| Configuration file parser (`conf_parser/config.c`) | a chained hash of pairs, the position of a dump | `config_init`, `config_exit`, `config_append_file`, `config_get_*`, `config_dump_*` |
| Lua: compiler (`lparser.c`, `lcode.c`), checker (`ldebug.c`), machine (`lvm.c`, `ldo.c`, `lfunc.c`) | functions being compiled; stack, calls, upvalues | `luaY_parser`; `luaG_checkcode`; `luaV_execute`, `luaD_precall`, `luaD_poscall`, `luaD_pcall` |
| Lua: chunks (`ldump.c`, `lundump.c`, `lzio.c`) | a stream and what is read of it | `luaU_dump`, `luaU_undump`, `luaZ_read` |
| Lua: collector (`lgc.c`, with `lstring.c`, `lfunc.c`, `lstate.c`) | the color of each object, the lists of a collection | `luaC_step`, `luaC_fullgc`, barriers, `luaC_separateudata`, `luaC_callGCTMs`, `lua_close` |
| Lua: tables (`ltable.c`) | array, nodes, the free node | `luaH_get`, `luaH_set`, `luaH_next`, `luaH_getn`, `luaH_resizearray` |
| Lua: strings, arrays, references (`lstrlib.c`, `ltablib.c`, `lauxlib.c`) | captures; a buffer; a table of references | `find`, `match`, `gmatch`, `gsub`, `sub`, `byte`; `sort`, `insert`, `remove`; `luaL_Buffer`; `luaL_ref`, `luaL_unref` |
| Lua: coroutines (`ldo.c`, `lbaselib.c`) | a stack, calls and a status for each thread | `create`, `wrap`, `resume`, `yield`, `status`, `pcall`, `error` |
| Lua: scanner, C interface, other libraries | | conversions around the above |
| Atomic operations (`atomic.h`), lists, bits, numbers, time, encryption | none of their own | single instructions and pure functions |
| Project glue, debugging, generated `doc/` | | |

What makes each correct, and what makes that hard:

- **Shared-memory queue.** One process pushes, another pops, and there is no
  lock: nothing but the order of loads and stores of `head` and `tail` keeps
  them apart. Messages must come out in order, once, whole, and stay whole
  while the consumer reads the buffer it was handed, which the code keeps only
  by leaving `elem_max_sz` bytes free. Hard: every interleaving of a push with a
  pop, the wrap with its padding word, remainders too short for that word,
  32-bit sums, a process that dies between two stores, and one that attaches
  between the calls by which another makes the region.
- **Locks.** One holder; a process that dies gives the lock back. Hard: the
  system undoes on its own, and every process that starts sets the semaphore.
- **Second timers.** A timer is called in the second it is due, once, and never
  after it was removed. Hard: callbacks add, remove and move timers of the very
  list being walked; a list is skipped on the word of a minimum nobody
  lowers or raises exactly; the clock skips seconds; callbacks are unloaded and
  come back at other addresses. **Microsecond timers**: the same of one list,
  whose timers are freed only by the walk.
- **Attribute counters.** A counter has one node and no report is counted
  twice. Hard: processes remember a free node while they look at the others,
  and both take it; counters are read, added to and written back without a lock;
  a process may die having written half a node.
- **Segments.** Whoever gets a segment gets it filled; no attachment is leaked
  or stale. Hard: finding, creating, attaching and filling are separate calls of
  the system, and an administrator removes segments in between.
- **Mapped configuration.** What is in use is whole whatever loads fail. Hard:
  a copy in blocks with a length computed apart, readers that map at any time.
- **Rotating log.** Each record is in the file of its day, in order; the number
  of files is bounded and the oldest go first. Hard: midnight between any two
  steps, several threads that find a file full together, `open` that fails
  after the old file was closed, numbers that are worked out again from the
  names in the directory after a restart.
- **tlog files.** Each record is in the file of its slice and day; sizes and
  numbers of files are bounded; a full disk is left alone for a while. Hard: a
  slice that lies across midnight, limits that suppress the test that would
  reset them, lengths that count what was not written.
- **UDP sink.** Settings that were asked for are taken over, the rate limit is
  kept, a trace lasts as long as granted. Hard: two threads share the
  settings, flags and half-written addresses without a lock.
- **Dirty words.** The automaton finds what a plain search for each word finds,
  in the text, in its letters alone and in the rest of it; the replacement stars
  words and nothing else. Hard: words that begin, end or lie within one another,
  failure states looked up while arrows are still being filled in, a replacement
  that goes back over what it already starred and over bytes that stand for
  full-width signs. Before that, the lines of the file are read with steps back,
  and a server is chosen from a list that begins at the last that answered.
- **Update of the dirty words.** A check walks one whole dictionary to its end; the
  local file is a whole dictionary whatever was lost on the way; the memory
  follows the file and the file the server. Hard: the server changes between two
  blocks, any step of a transfer or a load fails, the daemon dies anywhere and
  starts again on what is left, and processes it does not know of go on checking.
- **Sockets.** The count returned tells a full transfer from a short one; what a
  function took it gives back wherever it fails. Hard: interruptions, time
  outs, the end of the stream half-way, seven calls that may each fail.
- **Configuration files.** A file that is read again means what it says, and a
  dump in the meantime leaves nothing out. Hard: a line that says what holds
  already ends the reading; the dump keeps a pointer into lists that grow.
- **Lua's compiler and machine.** A program does what its text means. Hard: code
  for conditions is jumps whose targets are chained through the code and merged,
  registers are taken and freed as in a stack, closures share variables that are
  on the stack now and elsewhere later, errors unwind through C.
- **Lua's chunks.** A function that is dumped and loaded is the same, and a
  damaged stream is never taken for one.
- **Lua's collector.** Nothing in use is freed, and all else is, sometime. Hard:
  it runs in small steps between any two actions of the program, with two
  barriers, weak tables, finalizers that revive, and upvalues that are neither
  on the stack nor off it.
- **Lua's tables, patterns, sorts, buffers, references, coroutines.** Each has a
  simple meaning and a clever implementation: chained scatter with moves,
  backtracking over captures changed in place, quicksort on a user's order,
  a text kept in pieces on the stack, a free list inside a table, threads whose
  state is read off their stacks.

How they interact. The queue and the attribute table share memory between
processes and call nothing else of the library, except that the table's segment
comes from `shm.c`. The timer calls back into its user, and the user calls the
timer from inside the callback. tlog has a thread that changes the address,
the limit and the users the writing thread consults; it would be started if
`use_net_ctrl` were set where `init_logger` reads it, and no program here
brings that about. The dirty filter starts a
thread that rebuilds automata the checking threads use; it reports through
`inet`. The parts of Lua call one another: the compiler hands functions to the
machine, both make objects the collector knows, and coroutines are machines.
Everything else is called by one thread at a time.

`PROJECT.json` lists under `hazards` what is hard to test, each at its line,
with the properties below that would catch it.

## 2. Plan

The modules, in the order of importance and of the work. A module names its
constants with their assumptions, has one action for each access to shared
state or each handler, and states invariants as conjunctions of named parts, so
that it can be proved about as well as checked; only modules that no proof
reaches declare recursive operators (the Lua ones).

| | Modules | Of | State of the work |
|---|---|---|---|
| 1 | `ShmFifo`, `ShmQueue`, `ShmQueueProofs` | `shm_cq_push`, `shm_cq_pop`, deaths; the abstract queue it implements | done; safety and refinement proved |
| 2 | `Timer`, `TimerProofs` | second timers with callbacks and reload | done, proved |
| 3 | `AttrTable`, `AttrTableProofs` | `update_attr`, `get_self_attr` on the hash table, with a collector | done; every property proved |
| 4 | `RotatingLog`, `RotatingLogProofs` | `log.c` | done; every property proved |
| 5 | `TLog`, `TLogProofs` | files of `tlog.c` | done; every property proved |
| 6 | `Acsm` | the automaton of the dirty words, search and replacement | done |
| 7 | `DirtyUpdate`, `DirtyUpdateProofs` | `tm_dirty.c`: the two automata, the flag, the files and the thread that reloads them | done; safety proved |
| 8 | `UdpSink`, `UdpSinkProofs`, `Sockets` | the network | done; every property proved |
| 9 | `Segments`, `SegmentsProofs`, `CfgMmap`, `Config` | shared memory and configuration | done; proved but for `Config` |
| 10 | `MicroTimer`, `ShmqRegion`, `SemLock`, `DirtyDaemon` | what was missing of 1, 2 and 7 | done; safety proved |
| 11 | `LuaCode`, `LuaParser`, `LuaVM`, `LuaChunk`; `LuaPrograms` | Lua from tokens to effects, and the meaning it is compared with | done |
| 12 | `LuaGC`, `LuaTable`, `LuaMatch`, `LuaLib`, `LuaCoroutine`, `Coroutines` | the memory, the libraries and the coroutines of Lua | done |
| 13 | proofs | section 5 | done as far as the prover reaches |

A module `MC…` is a bench: it EXTENDS the model its run is about, and where
small models go with it, INSTANCEs those. A variable `part`, chosen in the
initial state, says which of the models of a bench is looked at; the variables
of the others then stay as they are, so the run is the union of the state spaces
and not their product.

A small model that a bench INSTANCEs is proved about in the proof module of that
bench, which EXTENDS the bench: there the theorem is stated of the model by itself,
and of the bench in the words of the run. The constants of the small model are
constants of the bench, with a named assumption.
## 3. The models

A definition whose name has an underscore (`Surplus_NoHeader`) is a faulty
variant of the one that follows it. No specification uses one; they record what
each property is sensitive to, and `PROJECT.json` pairs them under `mutants`. A
property that a run checks may gather several named parts; `QueueSound`, for
one, is `HeldIntact`, `UnreadIntact`, `InBounds` and the types together.
`PROJECT.json`, under `map`, gives the lines each definition stands for.

### ShmFifo and ShmQueue

`ShmFifo` is a queue of numbered messages and the one buffer that is lent to the
consumer: `Put`, `Get`, `GiveBack`.

`ShmQueue` has the two offsets `head` and `tail`, and the mapping as two
functions of the offset: `word[o]`, what a load of the length word at `o` would
give, and `byte[o]`, which message's data byte is there. A store through
`StoreWord` or `StoreData` spoils every word it overlaps (`Junk`) and every
data byte (0), so an overwritten message is seen whatever the bytes are. A step
is one access to the shared memory:

| Code | Actions |
|---|---|
| `shm_cq_push`, lines 145-161 | `PushCall`, `WriteLen`, `CopyData`, `Commit` |
| `shm_cq_align_tail`, `shm_cq_tail_align_wait` | `AlignWaitDone`, `WritePad`, `WrapTail` |
| `shm_cq_push_wait` | `PushWaitDone` |
| both wait loops, and return -1 | `WaitOn`, `PushFails` |
| `shm_cq_pop`, lines 121-143 | `PopCall`, `TestEmpty` (both tests), `AssertLen`, `Advance`, `Return` |
| `shm_cq_align_head` | `AlignHead`, `ReadPad`, `UnwrapHead` |
| a process dies and is started again | `ProducerDies`, `ConsumerDies` |

`Advance` reads the length at `head` and stores `head` in one step: the store is
the only shared effect. The sum of `shm_cq_push_wait` and of `Advance` is taken
modulo `Word` (2^32). History variables (`pushed`, `popped`, `pos`, `len`,
`top`, `split`) say where each message lies; no action's guard reads them except
the bound `MaxMsgs`. The refinement mapping reads the *memory*: the abstract
queue is what the blocks at those places contain (`QueueInMemory`), so a
corrupted block breaks it.

A push may be refused although every message was popped: `shm_cq_push` returns
-1, 队列满了 in `shmq.h:100`, whenever there is no room *in one piece*, and the room
in front of the head is only found when `head` has moved off the start of the
region. `AllDelivered` shows that a producer that tries again gets through all
the same.

`ShmqRegion` is the making of the region: `shm_open`, `ftruncate`, `mmap`, the
stores of the header field by field, and the same of an attach, for three
processes any of which may fail at a call or die. `RegionSound` says that who
has the queue has it whole; a process that attaches between the first and the
last store is `early` and excepted where the code has nothing to tell it by, and
one that maps a region without a size meets the signal SIGBUS (`pc` "dead").

### SemLock

The semaphore of `lock.c` with what SEM_UNDO remembers for each process; `Dies`
undoes as the system does. `Exclusive` excepts the runs in which a process
starts while another is in, because `sem_init` sets the value to 1 and so lets
a second one in (`lock.c:20`); the history variable `reset` tells them.

### Timer

`vec[i]` and `sprite[h]` are sequences of timers; the pointers of `list.h` are
positions in them. `Keep` and `Less` take members of a sequence as the `SelectSeq`
of the standard modules does, without its recursion, which the prover cannot
follow. `handle_timer` is split where it calls out: `HandleTimer`
renews the clock and starts the walk of `vec[0]`; at each timer one of
`VisitRemoved` (its function is NULL: freed), `VisitEarly`, `CallTimer`; while
`pc = "callback"` the client's actions are enabled and `CallbackReturns` ends
the callback with either result; `NextList` then does `scan_timer_list` for, or
skips, each farther list. `next` is the entry `list_for_each_safe` saved before
the callback: that the walk stays right although it was saved earlier is what
`CursorSafe` and `OnTime` say. A client's call is one action, from its own code
or from a callback: `Add` (`add_event`, `add_event_ex`, with both flags),
`ModExpireTime`, `RemoveTimer`, `RemoveTimers`, `DestroyTimer`, the three
operations on callbacks, `RenewNow`.

The spans of the lists are `2^(i + Shift)` seconds; the code has five lists and
`Shift` 2, the runs have two or three lists and `Shift` 0, so that a timer goes
through all lists in few seconds.

Assumed: the clock does not run backwards; `handle_timer` is called by one
thread and not from a callback; a callback does not move the timer it is called
for (`timer.h:201`), nor, where `ModNext` is FALSE, the timer the walk visits
next (`timer.h:201` forbids only the former, see section 6); callbacks are unloaded only between calls of
`handle_timer`, and all types in use are registered again before
`refresh_timers_callback` is called. The reload run uses `add_event_ex`
only: a timer of `add_event` has `func_indx` 0, and `refresh_timers_callback`
makes its function what `tcfs[0]` holds, NULL, so it is dropped at the next
visit (`timer.c:322`).

`MicroTimer` is the one list of microsecond timers, in the order of the calls,
with `scan_microseconds_timer` split in the same way (`VisitRemoved`,
`VisitEarly`, `CallMicro`, `CallReturns`). `due` remembers which timers the walk
has to call, `removed` which it may not.

### AttrTable

`node` is the table: key, attribute and value of each node. A key is an
attribute of a process, as `update_attr` makes it from the attribute and the
process id; `Short` gives the short key that chooses the column, so that keys
collide or not as the configuration says. A step is one access to shared memory:
each row the lookup looks at (`Lookup`), and then `WriteKey`, `WriteAttr`,
`ZeroVal`, `ReadVal`, `WriteVal` or `SetVal`. `TakeFree` is the decision to use
the free node met first. `get_self_attr` is `GetCall`, a `GetLookup` for each row
and `GetAnswers`. A process may die at any point (`Dies`) and start
again with an empty stack.

The program that collects the counters (`push` in the comments) is not in the
repository. Of it the model has `hash_table_walk` and
`check_attr_key_matchable`, which are, and that it clears a node which that
check refuses, which `attr_api.c:113` says; its definitions are marked external.

A key is modelled as the pair it is made from. `make_attr_key` keeps 16 bits of
the process id (`api_util.c:11`): two processes whose ids differ by 65536 would
share a key and with it a counter, which the model assumes away.

### RotatingLog

`disk` maps file names (level, date or period, number) to lengths;
`seq`, `opfd`, `day`, `count` are `fds_info`, `maxFiles` is `max_log_files`.
`Configs` and `Intervals` are what a program may ask of `log_init` or
`log_init_t`; one pair is chosen in `Init`. A call of `write_log` is: `Call`
(reads the clock), `Lock`, then `OpenFirst`, `KeepFile`, or `CloseFile` with
`OpenNext` (or a failure) under the mutex, and `Write` after its release.
`Midnight` may fall between any two. `Restart` is the end of the program at any
point and `log_init` on the files it left, whose numbers are worked out by
`SeqRecycle` (`get_log_seq_recycle`) or `SeqNonrecycle`.
`descriptors` counts `open` less `close`.

Assumed: with two threads the mutex is on (`enable_multi_thread`), as
`log_old.h:137` asks; a record has length 1, the numbers do not reach
`MAX_LOG_CNT`. With `Threads` of one thread the mutex changes nothing, so the
one-thread runs stand for programs that never turned it on too.

### TLog

`logfile[l]` is the `logfile_t` of a level, `disk` the files: their name is the
day's directory, the time in the name and the slice number. One call of
`write_to_logger` is one action, because one thread calls it and nothing else
writes what it reads; what can go wrong inside is a choice of the action: a
shift that fails before or after the old file was closed (`ShiftFails`), a write
that fails (`WriteFails`), a disk found full (`DiskFull`), a logger that rests
(`CallWhileStopped`). `Tick` moves the clock, `Restart` is `init_logger` anew.

Time is in ticks, sizes in bytes. `CreateNewLogfile` makes a file or opens one
again to append, and writes a head of `HeadLen` bytes to it that `file_len` does
not count; whether that write succeeds nobody looks at. `Put` adds to the file
what `write` took and to `file_len` what the code counts, which differ when a
write fails or takes a part. A file opened again starts with a `file_len` of 0
whatever its size (`get_time_slice_no` looks at the size on disk, `NeedShift` at
`file_len`). The slice number's limit `MAX_SLICE_NO` is not reached.

### Acsm

`words` is the dictionary, `table` the state table; a `longest` of 0 is the
code's -1. `Compile` is `acsmCompile` up to the first part of `Build_DFA`, and
each round of the loop of `Build_DFA` is one `BuildState`, so `Fallback` reads a
table whose states are partly finished, as the code does. `Init` leaves the
table as new memory or as an earlier dictionary left it, because `acsmCompile`
clears only the states that it counts and never a failure state.

A text is a sequence of signs. A narrow sign is one byte. A wide one is the
three bytes of a full-width letter, digit or punctuation, which `string_filter`
makes one byte and `string_replace` makes the byte and two `-`. `Digits` are 1
to 9: the code counts 0 as punctuation. `Pass` is one of the three loops of
`acsm_pattern_replace`; they differ in what they feed to the automaton, what
they count on the way back, and what they star. `Search` is
`acsm_get_first_dirty_word`; `acsmSearch` gives the same answer without the word.

Left out: the cut of a word at `MAX_KEYWORD_LEN`, the refusal of texts longer
than `MAX_STR_BUFFER`, more than 65536 open tags, bytes that are not UTF-8, and
the mapping to upper case, of which each letter stands for both of its cases.

`WordsStarred` promises stars only for words in narrow signs: when the replacement
goes back over a full-width letter that an earlier word starred, it counts the
stars of its three bytes as three letters. With the words b and aba, the text
a, full-width b, a keeps its first a.

### DirtyUpdate

`dat` and `new` are the local file and the one beside it while it is fetched,
as sequences of blocks; a digest is the sequence it is the digest of. The
daemon's steps are those of `tm_dirty_load_from_server` (`LookLocal` to
`Rename`) and of `tm_dirty_load_new` (`Open`, `Compile`, `Switch`); `GoesWrong`
is each place where they return -1 for something outside; `Returns` is what
their caller makes of the result: the start of the daemon (`mode` "first", then
"fallback" to the local file) or the thread. `mem` holds what each automaton
was built from: `Blank` memory, a dictionary, or `Torn` while it is written and
after a load that failed.

`Crash` may come anywhere, and `Start` finds the files and the named memory as they
were. The memory of `tm_dirty_daemon` (no name) dies with the process, so its
starts are all like the first one. A check is `CheckBegins`, which reads the
flag (`common_routine`), and `CheckEnds`. An attached process is one that has the
file of the memory and can check at any time from then on.

Assumed: an update cycle, of at least ten seconds (`tm_dirty.c:657`), is longer
than a check, and so is a start; the server, which is not in the repository,
sends its dictionary block by block with its digest and length, and the length 0
for an empty one; a digest tells dictionaries apart.

Stated with an exception: between a start and the first load that succeeds the
flag is 0 whatever the first automaton holds, so an attached process may check
with an older dictionary than before, and with a torn one if the daemon died
while it wrote that one (`tm_dirty.c:806`); the checks that begin then are left
out of `CheckWhole`. A load that fails after the file was renamed is not tried
again until the server's dictionary changes (`tm_dirty.c:562`), which
`MemoryFollowsFile` and `CatchesUp` except. A death between `remove` and `rename`
leaves no local file, only the new one, which the next transfer overwrites
(`tm_dirty.c:558`).

`DirtyDaemon` is two machines. The first is how `tm_dirty_load_new` reads a
line: blanks skipped with a look at a character and a step back, then the rest
up to the newline; its definition `Meant` says which words a file means. The
second is the servers: the list that `tm_dirty_daemon` reads from its parameter, the choice of a server, which begins
at the last that answered, and the warning at every fourth failure in a row.

### UdpSink

The logging thread (`Writer`) and the thread of `udp_sink_server` (`Server`)
share `udp_sink` without a lock, so a step is one access: the address is written
as host, port and flag (`IpWritten`, `PortWritten`, `AddrFlagged`) and taken over
as flag, port, host, flag (`TestChanged` to `ClearChanged`). `lost` remembers a
request that fell between the writer's last look and its clearing of the flag.
The packets are those of `tools/ctrl_tlog.c`. Time is `clock` (`time(NULL)`, used
by the server) and `now` (`logger->now`, which the writer sets), as in the code.

### Sockets

The first half is `safe_tcp_send_n` and `safe_tcp_recv(_n)` at the two ends of a
connection that moves any number of bytes at a call, interrupts, times out,
ends or breaks. Bytes are numbered. `StreamIntact` excepts the bytes that were
received before the stream ended inside a `safe_tcp_recv_n`: it returns 0 and
they are in the buffer, counted by nobody (`tcp.c:96`).

The second half is the functions that make sockets, one action for each, which
follows that function's own lines: `pc` names the next call of the system or the
next statement of its clean-up, `fd` and `err` are its variables. Any call may
fail, and `close`, `freeaddrinfo` and a message may change `errno`. Where the
functions differ they differ here: `create_passive_endpoint` and
`create_mcast_socket` free their list on both ways out of `ret`, the former goes
to its end without saving `errno` when `socket` fails, `safe_tcp_accept` and
`safe_tcp_connect` close at a place of their own, `listen` has its `err` set by
hand. `open` and `addrs` are what the process holds, `kept` what was returned to
it and not yet closed. `ReturnsClean` says that on every return `open` is `kept`
and `addrs` is 0, and that `errno` tells of the failed call unless the pair of
function and call is in `Unguarded`, the list of those no line protects.

### Segments, CfgMmap, Config

`Segments`: each call of the system is one step. `Get` is the row of calls that
`get_shm`, `tm_shm_create_init` and `tm_shm_create_new_init` share, `CreateShm` is
`create_shm_init`, `Update` the two functions that attach again. `Remove` is the
administrator's `ipcrm`, `Exit` the end of a process anywhere. Of the history,
`unfilled` are the segments whose maker failed or ended before it filled them
(`GivesUp`), `seen` what the key named while an update ran.

`CfgMmap`: one process loads with a callback that may fail in the middle,
into the second half of the mapping, and copies it over the first block by
block; readers map the file and read block after block. The length of the last
block is what the code says, `mem_size - meta_size` bytes (`tm_shm.c:100`):
`MappingRight` says what is whole all the same, and when memory past the mapping
is touched (more than two blocks). With one block nothing is ever copied.

`Config`: lists of pairs by hash; a line is split as `str_split` does, characters
standing for themselves because blanks and separators decide. `LoadedRight`
compares with what the lines mean, including the failure of a file that repeats
what holds (`config.c:151`); `DumpWhole` is about a dump between reloads.

### Lua: LuaCode, LuaParser, LuaVM, LuaChunk

`LuaCode` is the code generator: a function under construction is a record `f`
(FuncState and Proto), an expression a record `e` (expdesc), and each C function
is an operator from them to them. Jumps that wait for a target are chained
through their own offset, as in the code. `LuaParser` is the parser, one operator
for each rule, on a sequence of tokens; `LuaVM` the machine, one action for each instruction or group of
them that differs in an operator, with calls, returns, errors and upvalues.
`ChunkOf(g)` is a constant operator that gives the compiled program number `g`;
the bench substitutes the parser of a text for it, `MeaningOf` the meaning of its
tree. (They are constants so that TLC computes each once.)

`LuaPrograms` defines what a program means on its syntax tree, with cells for
variables and without registers, jumps or stacks, and lists the
programs: every shape of condition in every place that reads one, and a program
for each statement and its special cases. `RunsAsMeant` compares the two.

`LuaChunk` is `ldump.c`, `lundump.c` and `lzio.c` on streams of bytes that know
what value they are a part of, so that a value read from the wrong bytes is
seen, and the symbolic execution of `ldebug.c` that judges what was loaded.

Left out: metatables, floating point (numbers are integers), hooks, line
information, the moving of the stack, and the messages of errors. Strings are
ordered as in the C locale (`l_strcmp` asks `strcoll`).

### Lua: LuaGC, LuaTable, LuaMatch, LuaLib, LuaCoroutine

`LuaGC` has the colors, the gray lists, the two whites, upvalues open and
closed, strings, weak tables and finalizers. `Collect` is one `singlestep`, and
the pace is left open: a step may come between any two actions of the program.
A shape gives each run its objects and the actions (`ops`) its program takes.
`HeapSound`: nothing in use is freed, the tricolor invariant holds while marking,
and the assertions of `lgc.c` and `lfunc.c` hold. `CollectsRight`: a full
collection keeps exactly what is reachable, and every finalizer runs once.

`LuaTable` is the array, the nodes and their chains; `Collect` turns keys of
cleared nodes into dead ones, as the collector may at any time. `TableIs`
compares with the set of keys that were stored.

`LuaMatch` is `match` with its captures; a pattern is built item by item, and
`MatchIs` compares the matcher, which reads the text of the pattern, with all
the ways the items could take characters, the best of which is defined apart.

`LuaLib` is `auxsort` on every short array and every relation as its order,
`tinsert` and `tremove`, the buffer that keeps its text in pieces on the stack,
and `luaL_ref` with its free list.

`LuaCoroutine` is `lua_resume`, `lua_yield` and the coroutine library on threads
with a status byte, a list of calls and a stack, from which `luaB_costatus` and
`lua_resume` read whether one may be resumed. `Coroutines` is the abstract
specification: control is one stack of marks. `ActsAsMeant` says that every
step of the former is a step of the latter under the mapping given there.

## 4. The runs

| Run | Configuration | Question | Properties |
|---|---|---|---|
| `shmq_queue` | `MCShmQueue.cfg` | Does a queue in a region of a few bytes keep every message through every interleaving and a death? Is the region made whole by three processes? Does the lock admit one? | `QueueSound`, `MCSharedSound`, `EmptyMeansEmpty`, `ImplementsFifo`; under fairness `MCAllDelivered`, `MCGetsIn` |
| `timers` | `MCTimer.cfg` | Is each timer called in its second, once, while callbacks change the lists? The same of the microsecond timers | `ListsSound`, `OnTime`, `MCMicroSound` |
| `timer_reload` | `MCTimerReload.cfg` | Do timers survive a reload of their callbacks, and does the walk end? | `HeldIsLive`, `OnlyHeldCalled`; under fairness `ScanEnds` |
| `attr_table` | `MCAttrTable.cfg` | Do two processes, their deaths and a collector keep counters apart and counts right? | `CountsRight`, `WalkMeetsAll` |
| `log` | `MCRotatingLog.cfg` | Do threads leak descriptors? Are files bounded, in order and of their day? | `OneDescriptor`, `FilesRight`, `FilesFollow` |
| `tlog_files` | `MCTLog.cfg` | The same of tlog, with slices, limits and a full disk | `FilesSound`, `RecordsPlaced`, `RestsWhenFull` |
| `dirty_words` | `MCAcsm.cfg` | Is the automaton the one the words define, and do search and replacement do what they promise? | `AutomatonIs`, `SearchFinds`, `WordsStarred` |
| `dirty_update` | `MCDirtyUpdate.cfg` | Is a dictionary in use always whole, and is the new one reached? Are the lines of a file read right, and is a server found? | `UpdateSound`, `MCDictionaryFound`; under fairness `CatchesUp` |
| `network` | `MCNetwork.cfg` | Are settings taken over and limits kept between two threads without a lock? Is a stream counted right, and what was taken given back? | `SettingsTaken`, `SinkBounded`, `MCStreamIntact`, `MCReturnsClean` |
| `shared_memory` | `MCSharedMemory.cfg` | Are segments attached and filled right, a mapped configuration whole, a reread configuration true? | `SegmentsRight`, `MCMappingRight`, `MCConfigRight` |
| `lua_code` | `MCLuaCode.cfg` | Does compiled code do what the program means, pass the checker and survive a dump? | `RunsAsMeant`, `CheckerAccepts`, `TopIsRight`, `ChunksLoad` |
| `lua_runtime` | `MCLuaRuntime.cfg` | Collector, tables, patterns, sorts, buffers, references, coroutines | `MCMemoryRight`, `MCLibraryRight`, `MCCoroutines` |

Properties that gather others: `QueueSound` (types, `HeldIntact`,
`UnreadIntact`, `InBounds`), `MCSharedSound` (`RegionSound`, `Exclusive`),
`CountsRight` (types, `KeyUnique`, `NeverOvercounts`, `ExactUnlessShared`,
`MissesOnlyMissing`), `FilesRight` and `FilesFollow` (types, `FilesBounded`,
`InItsDay`; `RemovesOldest`, `InOrder`; both of programs with one thread), `FilesSound` (types, `SizeBounded`,
`FilesPerDay`), `RecordsPlaced` (`InItsSlice`, `InOrder`), `UpdateSound` (types,
`LocalWhole`, `CheckWhole`, `MemoryFollowsFile`), `MCMemoryRight` (`HeapSound`,
`CollectsRight`, `TableIs`, `BufferKeepsText`, `RefsHold`), `MCLibraryRight`
(`MatchIs`, `SortIs`, `ShiftsRight`). The modules say what each part is about.

**Why the bounds are enough.** *Queue*: 6 bytes hold one or two blocks of 3 or 4
bytes, and every remainder behind `tail` occurs: a block more, exactly a
block, room for the padding word, 1 byte, none. Six messages go round the region
more than twice, and a death may fall at any step of any round.
`Word` is 15, the least the assumption admits for these sizes, so a sum that
could overflow would. The region has three users and two incarnations, so that one
creates it, one attaches meanwhile and one destroys it, with one failed call.
*Lock*: two processes and four starts, so that each dies once inside.
*Timer*: the delays put a timer into the nearest list and
into the farthest, from which it comes back through each list between; three
timers are the one called, the one saved as next and one that a callback adds,
moves or removes before, between or after; the clock goes to 4 and skips
seconds. *Attributes*: two keys share their
node in the first row and two do not, a table can be full, and a node can become
free in a nearer row while its key is in a farther one. *Rotating log*: two
threads and two levels over a midnight for the descriptors (`Pair` of the bench);
one thread for the files, over four days: with limit 3 and up to 6 records a day
of two records a file, the numbers go round within a day and over days; a day can
need just as many files as the limit and never more, which `log_old.h:91` asks. *tlog*: the slice of 3 ticks in days of 4 lies across
midnight at a different place each day; a rest of 3 ticks can begin and end in
the run; with a limit of 3 bytes, a head of 1 and records of 2, a file can be
opened again just below the limit, and grows to just the bound of `SizeBounded`. *Dirty words*: the six words are each other's beginnings, ends and
inner parts, one is too many for the states and one line holds no word; the
texts are all sequences of three signs, and all of four of the words' letters
and of tags, so that words overlap, adjoin, are split by punctuation and by
other letters, and are spelled with full-width signs. *The update*: files are all
sequences of up to five of a letter, a comment sign, a blank, a tab and a newline. Two
dictionaries of one length can be mixed in a transfer, one of another length is
refused by its length, the empty one ends a transfer without a file; three
loads in a row use both automata twice.
*Network*: two hosts and two ports, so that an address can be torn between them;
one user more than the table has slots; the limit 0, which is refused, the
default 2 and 3, with sends of 1 and 2; a packet can fall between any two accesses of the writer. A stream
of 1 or 3 bytes over a connection that holds 2 is cut in every way. The functions
that make sockets are called up to three times in a row, in every order and with any
of their calls failing, so that what one leaves in `errno` meets the next.
*Segments*: two clients, two sizes and two identities: what a client has attached
can be the segment, a removed one, or one of another size. *Mapping*: with one block
nothing is copied, with two the copy is right, with three it goes past the end;
three loads are a good one, a bad one and one after the bad one. *Configuration*:
keys that collide and keys that do not, lines with every mixture of blank,
separator, comment, empty and too long values, and up to three of them, read
twice.
*Lua code*: the programs are chosen by shape, not by size: each statement,
operator and expression in each of the places that treat it apart (a value, a
condition, an argument, the last of a list, a tail call). The limits are small so
that constants above `MaxIndexRK` and lists above `FieldsPerFlush` occur in short
programs. `ChunksLoad` looks at functions of at most 60 instructions; the parts
of a dump grow with its length, its kinds of value do not.
*Lua runtime*: seven shapes of heap, each with what one special case of the
collector needs, and `MaxMoves` 3 actions of the program, each before, between
and after any steps of a collection; five keys in an array of at most 2 and nodes that
collide, move and run out; patterns of up to 4 of 12 items; arrays of up to 5
values of 3 ranks with each proper order, up to 4 with each improper relation;
two coroutines and three calls open at a time, which can resume each other and
themselves.

**Bounds by name**: `MaxMsgs`, `MaxCrashes`, `MaxFails`, `MaxStarts`,
`MaxValue`; `MaxJump`, `MaxTime`, `MaxAdds`; `MaxCalls`, `MaxDeaths`; `MaxDay`,
`PerDay`, `MaxRestarts`; `MaxTicks`, `PerTick`; `MaxPatterns` and `MaxState`,
which are the code's own limits; `MaxUpdates`; `MaxChanges`; `MaxPackets`,
`MaxSends`, `MaxBytes`; `MaxLoads`; `MaxSteps`, `StackSize`, `MaxLevels`,
`MaxVars` (the last three stand for the code's); `MaxMoves`, `MaxItems`,
`MaxLen`, `MaxLoose`, `MaxRounds`, `MaxText`, `MaxRefs`. `MaxVal`, `MaxCaptures`,
`MaxUpvalues`, `MaxArgC`, `MaxJump` of Lua, `MaxIndexRK` and `FieldsPerFlush` are small values of
the code's own constants.

**Deadlock.** `Over` is a step that changes nothing when the bounds of a module
are reached and no call runs; with it deadlock is checked (the bench of the update has such a step for
its two small models). It is not in the benches
`MCAcsm`, `MCLuaRuntime`, `MCNetwork`, `MCSharedMemory` and `MCShmQueue`, some of
whose parts really stop: a function that was computed, a connection that ended, a
process that met SIGBUS, clients that used up their calls.

**Symmetry.** The addresses of timers in `timers`, hosts and ports in `network`,
clients in `shared_memory`: no formula orders them, and these runs check no
liveness.

**Fairness.** `shmq_queue`: weak fairness of each process. `shmq_push.c`
pushes until a message is taken and `shmq_pop.c` pops for ever, and the system
schedules both; a death is never fair, and `MaxCrashes` bounds them. Weak
fairness of the whole process suffices: it says a process that can go on goes
on, not which way. The lock needs strong fairness of `Lock`, since others may take it
in between: the system wakes the waiters of a semaphore in their order.
`Timer!FairSpec`: weak fairness of `Walk`, that is,
`handle_timer` runs on once called and a callback returns; nothing says that it
is called. `MCSpec` of the update's bench, as `DirtyUpdate!FairSpec`: the thread runs on, its sleeps end, and so do
the checks; a failure, a death, a change on the server and the start of the
daemon are never fair.

**Memory order.** Stores become visible in program order. The library is built
for x86, and the queue's code has no barrier; on machines that reorder stores
the copy and the store of `tail` (`shmq.c:156`, `158`) could be seen in the other
order, which is outside the model.

## 5. The proofs

A theorem holds for every value of the constants that satisfies the assumption
of its module; a run shows the same formula on a small instance. For each model
there is an invariant (`IInv`; for the small models `LockInv`, `RegionInv`,
`MmapInv`, `StreamInv`, `EndsInv`, `MicroInv`, `LinesInv`, `ServersInv`), and three
facts: the initial states satisfy it, every step keeps it, it implies the
properties. The safety properties are corollaries. The invariants were first checked by TLC on the
instance of their runs, but for those that say that a number or a sequence
exists (`Accounted` of `AttrTableProofs`). A property `MC…`, which gathers what a
bench checks of its parts, is a theorem of the bench's own specification
(`Bench…Always`).

### ShmQueueProofs

Assumption: `ShmAssumption`, the asserts of `shm_cq_create` on the sizes, with a
`Word` that twice the greatest size they let through does not exceed.
`HeldIntact`, `UnreadIntact` and `InBounds` are not inductive: whether the next
store overwrites a message depends on where all blocks lie. `IInv` adds

* `Flat` and `Folded`: where the waiting messages lie, one after the other from
  `head` to `tail`, or from `head` to the padding and then from the start;
* `Blocks` and `Lent`: each block has the length its word says, and the one the
  consumer holds ends where `head` is;
* `Pushing` and `Popping`: what each process has found out at each of its
  steps of `shm_cq_push` and `shm_cq_pop`, which no step of the other makes
  false: a pop only adds to the room, a push only to the messages.

| Theorem | For every size of region and message |
|---|---|
| `HeldIntactAlways`, `UnreadIntactAlways` | no byte of a message is overwritten before its consumer has asked for the next |
| `InBoundsAlways` | the stores stay in the mapping, the assertion of `shm_cq_pop` holds, the 32-bit sum does not wrap |
| `EmptyIsEmpty` | a pop answers 0 only if the queue was empty when it looked |
| `TypeCorrect` | `TypeOK` |
| `QueueSoundAlways` | the first three and the types together, as the run checks them |
| `Refinement` | `Spec => ImplementsFifo`: a step is a step of `ShmFifo` or leaves its variables alone |

`Refinement` maps the messages in memory to the sequence of `ShmFifo`; the store
of `tail` is the push and the store of `head` is the pop, so a process that dies
before its store has done nothing.

*The lock and the region*, from `RegionAssumption` (0 is the identity of no
region). `ExclusiveAlways`: at most one process holds the lock, for any number of processes,
and one that dies gives it back, as long as none starts while another is in (`reset`,
section 6). `LockInv` says that the semaphore is not set yet (`NotYetSet`), free (`Given`),
or taken by one holder, and that what the system would undo for a process is just what it
took (`Taken`). `RegionSoundAlways`: who has a queue has it at its full length, with
its fields stored. `RegionInv` says in which order fields and size of an object are stored
(`StoredInOrder`), what each process has done before the call it is at (`Reached`), and that
an object has one maker (`OneMaker`). `SharedSoundAlways` is both, as the run checks them.

### RotatingLogProofs

Assumption: `LogAssumption`. The first part is about any number of threads. `IInv` says that who is inside `SHIFT_FD_LOCK`
holds the mutex (`Excluded`), that a level names a closed descriptor exactly
while its thread goes on to open the next file (`ClosedMeansOpening`), and that
the descriptors in use are counted (`Counted`). Hence `OneDescriptorAlways`: no
number of threads leaks a descriptor or closes one twice, failed opens and
restarts included. What the mutex does not cover is the write after it (section 6).
`TypesAlways` adds the types, also of the numbers that `get_log_seq_recycle` and
`get_log_seq_nonrecycle` work out from the directory (`RecycleIs`, `NonrecycleIs`).

The second part, `FilesRightAlways`, is about a program of one thread (`Only`), of
any levels, limits and lengths. `Dated` relates the day or period of a file in use
to that of its level and of the record: `InItsDay`. `FilesBounded` holds because
the files of a level all have different numbers below the limit (`OwnNumbers`),
and since opening one removes the other of the same number, only two things
could break that: a number above the limit, or the end of the rotation,
which `open_fd` declares when a level opens more files in a day than the limit. `Rounds`
says why neither happens. The files of the day have numbers that follow each other
in the round, from some `a` on, and all but the last are full (`Filled`), so the calls of the day
are at least as many as the records in them; the next number is one of these or the
one after (`NextIs`), also after a restart, which may take up any file of the
day, and after a failed open, which does not advance it again; and the files counted
since are not more than the numbers passed. A round that is used up would
hold as many records as the day has calls, with one more to come.

The third part, `FilesFollowAlways`, says in which order files go and come.
`Ring`: from the number that is opened next on (`Upcoming`), round the numbers, the
files are of later and later days, so the one `open_fd` removes is the oldest.
A failed open leaves that number as it is; a restart does not, which is why
`RemovesOldest` speaks of the time before one. `Gapless`: without rotation the
numbers of a day have no gap before a restart, so the search of
`get_log_seq_nonrecycle` ends where the day ended; `NotBack`: no number below that
of the last record of the day is in use or comes next. `Dated`, `Kept` and
`Ordered` were checked by TLC on the run's instance and on one with two levels
and two restarts.

### TLogProofs

Assumption: `TLogAssumption`. All that the run `tlog_files` checks is
proved (`FilesSoundAlways` and `RecordsPlacedAlways` gather the named parts), for any slice (those that do not divide a day too), any limits and any
number of failures, full disks and restarts. `IInv` relates the file a level has
open, the files on the disk and the history:

* `Opened`: an open file exists and is of the day and slice the logger
  remembers; `InItsSliceAlways` follows, since `is_need_shift_file` compares
  just these with the clock as long as files of the daily limit are left;
* `Ordered`: every file of a slice before that of the last record, and before
  the one that is open, is full. What is full stays full, so
  `get_time_slice_no` never goes back: `InOrderAlways`;
* `Sized`: an open file is at most `max_one_size` - 1 and a head longer than
  `file_len`, because it was opened with room, and `file_len` is below
  `max_one_size` whenever a record is put: `SizeBoundedAlways`, in bytes, for any
  lengths of head and records, partial writes included;
* `Limited`: the files created today are among those `daily_seq` counts:
  `FilesPerDayAlways`;
* `Resting`: the check that ended the last rest lies after the full disk that
  began it: `RestsWhenFullAlways`.

The lemma `SliceNoIs` states what `get_time_slice_no` returns. Its search ends
because there are more numbers than files (the pigeonhole principle of
`FiniteSetTheorems`); that a set of numbers has a least element (`MinIs`) is
taken from the well-foundedness of strict inclusion between finite sets.

### DirtyUpdateProofs

Assumption: `UpdateAssumption`: the dictionaries have sizes, threads and attached
processes differ, the marks for "no file" and the like are not dictionaries. The
four parts of `UpdateSound` are proved, and together as `UpdateSoundAlways`, for any
set of dictionaries, any number of checkers and any bounds. `IInv` adds

* `Fetching`: what was received is an incomplete sequence of blocks until it is
  verified, and only a sequence equal to the announced dictionary gets to the
  `remove` and `rename` of the files; hence `LocalWholeAlways`;
* `Loading`: the automaton that is about to be switched to holds the file, and
  the one in use holds a whole dictionary, the one of the file unless a load
  failed; hence `MemoryFollowsFileAlways`;
* `OnFlag`: while the daemon is awake, each check that runs is on the automaton
  in use. `Open` and `Compile` write the other one, so none of them is torn:
  `CheckWholeAlways`. The invariant rests on the guards of `Wake` and `Start`,
  which say that a check is over before an update cycle (ten seconds at least)
  or the start of a process is; nothing in the code waits for the checks.

`BenchUpdateAlways` says it of the bench, whose steps are those of an update or
leave it alone (`BenchIsUpdate`).

*The lines of the file*, from `DaemonAssumption` (a file is a sequence of signs; an
address is legal or is not). `LinesReadAlways`: a file of any length that ends with a
newline is read in no more rounds than it has characters and one, and gives the words
it means, up to the first for which there is no room. `LinesInv` says where the reading
stands (`Margin`: behind the blanks of a line's beginning, never inside a word), that
each word taken is the one that begins at the place of its rank among the words (`Rank`), and that all
up to here were taken. What a comment or the rest of a line holds begins no word
(`RestOfLine`); the word `getline` and the cut at a tab give is the one that begins
where the line was entered (`WordIs`). Without the last newline the claim is false
(section 6), and `Ended` says so.

*The servers*: `ServerFoundAlways`, for any lists, legal or not, and any servers that
come and go. `ServersInv` says that the list in use was read to its end, that each address
tried in this choice did not listen all through it, and how the counter of failures
and the warnings make up the failures in a row. That `valid` tries from any beginning meet every
address is the lemma `AllTried`, which needs a fact about remainders (`ModIs`).
`BenchDictionaryAlways` gathers both, as the run checks them.

### AttrTableProofs

Assumption: `AttrAssumption`: as many moduli as rows, none greater than the row is
long, and nothing of how keys collide. All that the run `attr_table` checks is
proved. `IInv` says

* `Placed`: a key is only in a node of its own column, which it took;
* `Called`: who looks for a free node has seen that none of the rows behind it
  holds its key, and who is about to write the key that no node does. Nobody but
  the process itself writes its keys, so no step of another, nor a node that the
  collector frees behind it, makes that false: `KeysAreUnique`, `MissesAreTrue`;
* `LoneExact`: in each step of a call, how the value of a node which one key
  alone took and the count of its reports differ, the steps a death can fall
  between included: `LoneCountsAreExact`;
* `Accounted`: each unit in the table is worth a call of its own. Two processes
  that add to one node can lose a unit and never make one, since each wrote what
  it had read and one more: `NothingOvercounted`. What the returned calls are
  worth to a node is chosen by the proof (`w`), step by step;
* `Walked`: the walk has met what lies before it: `WalkIsComplete`.

`CountsAreRight` gathers them as the run checks them.

### SegmentsProofs

Assumption: `SegAssumption`: finitely many clients, identifiers that are numbers
and given in turn. `SegmentsRight` is proved for any clients, sizes, failures,
removals and deaths. `AttachmentsKept` is not inductive: `IInv` adds that a
segment that is gone is as none was (`Alive`), what each call has found out
(`InCall`: who fills or gives back an attachment has one, and who fills a
segment made it or asked for it), and that a segment nobody filled has a maker who is on the
way or gave up (`Made`). The count of a segment is the cardinality of two sets,
its managers and the calls under way: each action adds one client to one of them
or takes one away (`Counted`), the update that changes segments both.

*The mapped configuration*, from `MmapAssumption` (a mapping has at least one
block). `MappingRightAlways`, for any numbers of blocks, any readers, and loads that
fail half way: what is in use is whole, and so is what a reader reads that no copy came
between. `MmapInv` adds what the second half holds while it is loaded and
copied (`HalfLoaded`), that a configuration in use is in a file that has its size (`Used`), and
that what an undisturbed reader has read is still there (`ReadIsThere`).
`BenchMappingAlways` says it of the bench. `MCConfigRight` stays with TLC.

### UdpSinkProofs

Assumption: `UdpAssumption`: numbers where the code has numbers, a lower limit
above 0 (`MIN_RATE_LIMIT`), no user 0 (a free slot), and a mark for "half written"
that is no address. All that the run `network` checks of the sink is proved.
`IInv` says

* `Written` and `Taken`: which parts of the address asked for last the server has
  stored and the logger has copied, at each step of either. They are what makes
  `SettingsTaken` hold although neither waits for the other: a logger that copied
  a half finds the flag raised again, unless it cleared it after the server
  raised it, which is the race the history variable `lost` names;
* `Limited`: the limit asked for last waits in `chg_limit` or is in force;
* `Rated`: what left in this second and the tokens left do not exceed the limit
  together, and the second the bucket was filled for is not ahead of the clock:
  `RateBounded`;
* `Traced`: each slot is free, of a granted trace, or the one being written, which
  was over when it was chosen: `TracesKept`.

*The sockets*, from `StreamAssumption` (the lengths are numbers). `StreamIntactAlways`,
for any lengths and any room, interruptions, time outs and ends: what was received,
what the end of the stream dropped, the buffer and the wire are together the bytes
sent, each once and in order; `StreamInv` adds the shape of both calls under way, which the
counts they return need. `ReturnsCleanAlways`, for each of the
functions that make sockets, wherever it fails: `EndsInv` says for each label of
each function what the process holds beside what was returned to it (a
descriptor, a list, both, none), whether `err` is set just when a call failed, and
where `errno` or the saved `err` still tells of that call. `OnTheWay`, `NoSocket`,
`CleaningUp` and `Returning` are its parts; the proof takes one function, and
in it one statement, at a time. Both
hold of the bench (`BenchStreamAlways`, `BenchReturnsAlways`).

### TimerProofs

Assumptions: `TimerAssumption`, and `SpanAssumption`, which says that powers of two are
positive numbers: the prover knows no fact about powers, and TLC evaluates it in
each run. All safety properties that the runs `timers` and `timer_reload` check of the second
timers are proved, for any timers, lists, spans and delays.
`ListsSoundAlways` and `OnTimeAlways` assume `~ModNext`: a callback that moves
the timer the walk visits next does break both (section 6). `IInv` says

* `Apart` and `Owned`: each allocated timer is once in one list, and the clients'
  lists hold allocated timers only;
* `Walking`: the timer the walk stands at and the one it saved are different
  and in the list it walks, which holds in a callback because a removal
  leaves the timer linked (`Forget`) and only the walk frees;
* `MinBelow`: a farther list's cached minimum is not above the time of any of
  its timers, so a list that is skipped holds nothing near, though the minimum may
  be that of a timer that has left;
* `Passed`: the timers the walk has left behind in `vec[0]` are settled, that is
  called, set or removed in this second or not yet due. Since callbacks add at the
  end of lists, what stands before the next timer stood there before;
* `Far`: a list that was looked at holds nothing for this second or the next, so
  that after a tick of the clock nothing due is outside `vec[0]`.

`OnlyHeldCalledAlways` rests on a smaller invariant, `CInv`, which asks nothing
of the lists and holds with `ModNext` too: a timer nobody holds has neither
function nor type (`Dropped`). `HeldIsLiveAlways` assumes `~PlainAdd`, as a
reload keeps only timers with a type (section 6), and adds that whatever is held
has a type and the callback registered for it (`Live`).

Much of the module is about `Keep`, concatenation and `Min`; the lemma `KeepIs`
(what is kept, and in which order) rests on cardinalities, not on induction.

*The microsecond timers*, from `MicroAssumption` (times are numbers):
`MicroSoundAlways`, and `BenchMicroAlways` of the bench, for any timers, owners and
delays. `MicroInv` says that the list holds each allocated timer once
(`MicroLinked`), that the walk stands at a place of it, with the timers it has yet to
call at that place or behind it and none of them if there is no next (`Stands`), since callbacks
add at the end and only the walk unlinks, and that what a client removed has no function
(`MicroHeld`).

### What is only model-checked

* Liveness (`MCAllDelivered`, `MCGetsIn`, `ScanEnds`, `CatchesUp`) is out of the
  prover's reach.
* `Acsm` and `Config`: algorithms over texts, tables and lists, whose correctness for
  every input is an induction over data, which the prover cannot do. (What
  `DirtyDaemon` reads is proved, because its definitions say which place of the file is
  meant and do not compute it.)
* The Lua modules declare recursive operators (trees, chains, backtracking), of
  which the prover can say nothing; `LuaGC` and `LuaCoroutine` are judged by
  reachability and nesting, which are inductions as well.

## 6. What was seen on the way

Places where the code does something its text, or a reader, would not expect. The
properties of section 4 hold because they say so: each names the case and
excepts it, or the case is outside the inputs of the run.

*Queue and locks.* A full-looking queue may be empty (section 3). A process that
attaches while another creates maps a region without a size or without a header
(`shmq.c:87`). `sem_init` sets the semaphore anew (`lock.c:20`).

*Timers.* A callback that moves the timer the walk visits next
(`mod_expire_time`, or `add_event` with `timer_replace_timer`) makes the walk
go on from that timer's new place: it skips timers that are due, or strays
into another list, whose end it does not meet (`timer.c:143`). `timer.h:201`
forbids a callback only its own timer. With `ModNext` TRUE the model shows it. A
timer of `add_event` is dropped by `refresh_timers_callback` (section 3).

*Attributes.* Two processes that took the same free node can leave it with a key and
an attribute that match and a count that is neither's, although
`attr_api.c:113` says the collector finds such nodes. `make_attr_key` keeps 16
bits of the process id (`api_util.c:11`).

*Rotating log.* `write_log` uses the descriptor after the mutex was released
(`log.c:363`); another thread may have closed it and not opened the next, although
`log_old.h:137` asks threads only to turn the mutex on. `NothingLost` states what
fails. `max_log_files` is one variable of all levels (`log.c:230`): a level that
uses its files up in a day ends the rotation of all, and the files numbered above
the limit on that day are never removed, as no later file has their numbers. After a restart the number
that comes next is worked out from the greatest name, which is not the newest
file if numbers went round on the last day, and rotation removes a newer file
and keeps an older one (`log.c:187`).

*tlog.* Once a level has opened as many files as it may in a day, nothing is shifted
any more, not on the next day either, because the limit is tested before the
date that would reset it (`tlog.c:252`); `InItsSlice` speaks of the time before
that. With time slices a file can pass twice `max_one_size`: it is opened again one
byte below the limit with a length of 0, gets a head that is not counted, and
records of which the last begins below the limit. `SizeBounded` states how far
it can go, and the run reaches that size. The writer clears `addr_changed` after it took the address
over, and a request that came in between is lost (`netutils.c:371`). No program of
the repository sets `use_net_ctrl` where it is read, so the server thread is
never started.

*Dirty words.* A word may keep its first letters when the replacement goes back
over a full-width letter it starred before (section 3). A digit word that is
split by other letters is found but not starred, because `acsm_pattern_replace`
leaves digits out of its third pass and `acsmSearch` does not. A dictionary whose
last line is blanks alone is read for ever; one without a last newline loses its
last letter (`tm_dirty.c:871`). `tm_dirty_word_count` is stale in an attached process,
which refreshes only the handle 0 (`tm_dirty.c:934`). A daemon whose first request
is answered with an empty dictionary leaves its local file unread, and if the
server later has just that dictionary, for good (`CatchesUp` excepts it). The
request for the dictionary sends the server's digest, which is still in the
buffer, where `tm_dirty.c:114` says the client's own.

*Shared memory and configuration.* The last block is copied with the length
`mem_size - meta_size` (`tm_shm.c:100`): past the mapping with more than two blocks,
not at all with one. A line that says what holds already ends the reading of a
file (`config.c:151`).

*Sockets.* `safe_tcp_recv_n` drops the count of the bytes before the end of the
stream (`tcp.c:96`). `errno` may tell of another call than the one that failed, or of
none: `create_passive_endpoint` frees its list over the failure of `socket`
(`tcp.c:188`), `safe_tcp_connect` closes over that of `connect` (`tcp.c:278`) and
sets nothing for an address that is none (`tcp.c:263`), and
`tlog_create_mcast_socket` writes its message first. The other functions save it;
`Unguarded` lists these pairs. `mcast_leave_source_group` leaves at interface 0 whatever
interface was named at the join; `mcast_get_if` fails for IPv4 without setting
`errno`.

*Lua.* Three kinds of program are compiled to something else than they mean, and
are listed under `Faulty` in `LuaPrograms`, outside the run: a jump that is always
taken joins a list with others (`lcode.c:562`), so that `c and c or (true or
false)` gives nil; a function that assigns nil to a parameter first returns the
argument (`lcode.c:38`); `-nil` is folded instead of being an error
(`lcode.c:690`). `string.byte` takes an end before the start of a string for its last
character (`lstrlib.c:112`). `resume_error` cuts the stack of the thread it refuses to
resume, and with it the only reference to a thread that one waits for
(`ldo.c:407`). A barrier may meet a userdata that waits for its finalizer, which
breaks an assertion and nothing else (`lgc.c:660`). `table.sort` with an order that
contradicts itself can move an element one place behind the end; `table.remove`
at a position behind the end moves nil into the array.

## 7. What is not modelled, and why

- Reordered stores, and what a program does after it used a freed timer:
  undefined by the machine or the language.
- What decides only *whether* a record reaches the file part of `write_log` or
  `write_to_logger` (destination, level, terminal, syslog), and how it is
  formatted; the programs that read and control tlog files.
- `filelock.h` and `atomic.h`: one call of the system, one instruction each.
- Socket options, multicast getters and setters, address look-ups: one call of the
  system with conversions around it.
- The reports of the dirty filter to a statistics server and `tm_dirty_free`: called
  when nothing else runs.
- Bit operations, DES, hashes, random numbers, time formatting: pure functions; their
  difficulty is in tables, which a test vector settles better.
- Lua: the scanner's characters, the C interface's conversions, metatables, floating
  point, hooks and debugging, line information, the libraries of numbers, files
  and the system, `string.format`. What they share with the modelled parts (the look-ahead, the objects, the stack) is
  modelled there. Of `luaL_ref`, the
  reference to nil, which is a constant.
- Project glue, debugging aids, generated documentation.
