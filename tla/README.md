# A specification of hg

`hg` is a collection of C and C++ code for embedded Linux devices: a small base
library (`src/base`), device services that pass audio and timers between threads
(`src/aout_queue`, `src/util_file`), loggers, a shared-memory packet ring, firmware
packers, and samples. This directory holds TLA+ modules of the parts in which threads
or processes meet, files are at stake or an algorithm is easy to get wrong, TLC
configurations that check them, and TLAPS proofs about them.
`PROJECT.json` maps every definition to the lines it models.

## 1. The system

### Components

| component | code | state | operations | hard behaviour |
|---|---|---|---|---|
| SyncEvent | `base/thread.cc` 37-105, `base/unix/thread.h` 69-105 | `_signaled`, `_consumer`, `_manual_reset`, mutex, condition variable | `signal`, `reset`, `wait`, `wait(ms)` | waves of waiters, timeouts that race with a signal, spurious wakeups |
| LevelLogger | `base/log.cc`, `base/log.h`, `base/fastream.h` | the buffer `*_fs`, `_stop`, `_log_event`, `_log_mutex`, the log thread's own buffer, `_file` | `push`, `push_fatal_log`, `stop` (= `log::close`), the thread loop, the handlers of signals and failures | swap of buffers, overflow, close by several threads at once, signal handlers, files that cannot be opened |
| TaskSched | `base/thread.cc` 107-260, `base/thread.h` | `_tasks`, `_tmp`, `_stop`, `_ev`, carried-over time | `run_in`, `run_every`, `run_daily`, `stop`, the loop | slow callbacks, tasks added by callbacks, deletion while walking, stop |
| voice queue | `aout_queue/src/aout_queue.c` 22-114, `main.c` | `head`, `tail`, the slots, `inited`, mutex, condition variable | create, destroy, enqueue, dequeue | blocked consumers, a slot handed out by pointer, teardown under a consumer |
| file queue | `aout_queue/src/aout_queue.c` 116-198 | the same again | the same; dequeue copies the item | the same, without the slot |
| aout status | `aout_queue/src/aout_queue.c` 200-252 | two times of last data | set, get | an `int` of milliseconds since boot |
| timeout task | `util_file/src/util_timeout_task.c` | `running`, `update`, lists `pending`, `living`, `removing`, one info per task | init, deinit, add, remove, checker thread, worker threads | ids are heap addresses, detached workers free their own info, flags read without the lock, an init without it |
| SharedBuffer | `hv_test/shared_buff.cpp` | a ring in System V shared memory, an offset and a semaphore shared by processes; a read index per reader | attach, detach, put, get | a reader that is lapped, processes that die and come back |
| gh_log | `gh_log/src/gh_log.c`, `inc/gh_log.h` | list of categories with their levels, a log and a trace setting, one lock | first message, set | tests and reads outside the lock |
| log files and stamp | `base/log.cc` 57-65, 181-325 | the files `path`, `path.1`, ..., `_file`, the broken-down time | `open_log_file`, `write`, `rotate`, `LogTime::update` | a crash between two renames, deleted files, a clock that is set |
| util_log | `util_file/src/util_log.c` | a System V message queue, its id twice per process, a writer thread, one file a day | `init_log`, `open_msg`, `mylog1`, `recv_msg` | a queue that outlives its processes and is removed under others |
| LruMap | `base/lru_map.h` | key list, index of iterators, map of values, capacity | insert, find, erase, clear, swap | the structures stay in step |
| fastring, fastream, str, path | `base/fastring.*`, `fastream.h`, `str.cc`, `path.cc` | a reference-counted block | copy, move, growth; `match`, `rfind`, `replace`, `split`, `strip`, `clean`, `base` | blocks shared by threads, edits in place |
| flag | `base/flag.cc` | the table of flags | arguments, config lines, `mkconf` | quotes, comments, lines that go on |
| fs | `base/unix/fs.cc` | the file system | `mkdir -p`, rename, open, ... | a parent that is missing |
| firmware packers | `zw_encpack/main.cc`, `zw_encpack_hisi/main.cc`, `zw_decpack/main.cc` | a header with offsets, the images behind it | pack, unpack | a layout computed twice, slots filled by kind and read by number |
| number formatting | `base/fast.*` | a cache per thread | digits by tables | none over time |
| Thread, Mutex, thread_ptr | `base/unix/thread.h` | a pthread | start, join, detach | none of their own |
| os, time, random, unitest, stack_trace | `base/` | none | system calls, start-up | none of their own |
| socket samples, DES, exercises | `client_server`, `zw_test_des`, `iniopt`, `leetcode_region`, ... | none | command-line tools | none (sequential) |

`src/base_his` is a second copy of `src/base`; `src/include`, `src/libhv_test/include`,
`src/logp/include` and `src/lib` are third-party code.

### How they interact

* The logger owns a SyncEvent with one waiter (its thread); application threads
  call `signal` from `push`, and `stop` calls it once more.
* TaskSched owns a SyncEvent as the alarm of its loop; only `stop` signals it.
  Callbacks run on its thread and may add tasks.
* `stack_trace` calls the logger's `on_failure` on SIGSEGV and the like; the
  handlers of SIGINT, SIGTERM and SIGQUIT call `log::close` on the thread they hit.
* `main.c` of the aout queue is one producer and one consumer thread; the
  consumer works on the slot that `aout_dequeue` points at.
* The logger's `write` opens, moves on and closes the log files; the log thread counts the
  time stamp on, and `push` copies it into every line.
* The file queue is a second ring, whose reader refreshes the aout status.
* All users of `util_log` share one kernel queue by its key; whoever calls `init_log`
  removes it and makes it anew.
* `fast.cc` keeps an LruMap per thread; flags, paths and the log use fastring.
* The unpacker runs on the device, long after the packer, on a file that may be cut short.
* Clients of the timer talk to its checker thread only through the lists and the flag
  `update`; the checker starts and cancels worker threads, and workers put themselves
  on the removing list.

### What makes each part correct

* SyncEvent: no wakeup is lost; the threads of a wave do not lower the event under
  each other; an auto-reset event lets one wave through per signal.
* LevelLogger: lines come out in order, each at most once; missing lines are marked;
  what was pushed before the close is written by it; close returns.
* TaskSched: no task is lost or counted twice; each runs in the first pass that begins when it is
  due; time is not counted down twice; stop returns.
* Queue: first in, first out; the consumer's slot is stable; a waiting consumer is
  served.
* Timer: the lists hold no freed memory, whatever the workers free without the lock; a removal reaches its own task; requests
  are handled; every worker ends; deinit returns.
* SharedBuffer: the reader gets whole packets in order; nobody waits for a dead process.
* gh_log: no category keeps the level of an old setting; the list of categories stays whole.
* LruMap: it is a bounded map that gives up the key not used for longest.
* Log files: a crash, a deletion or a full set of files costs the oldest lines at most,
  never the order. The stamp is that of the last look at the clock.
* util_log: texts come out once and in order; who opened the queue last can log.
* Aout status: 1 for a second after data, else 0.
* Strings: a block is freed with its last share. The functions return what a plain
  definition of them says; flags written by `mkconf` are read back.
* Packers: every image is where the header says, and comes out whole.

`PROJECT.json` lists the hazards, each at the line where it bites, with the
properties that would catch it.

## 2. The modules

| module | what it is |
|---|---|
| `SyncEvent` | the event, for a set of waiters, some with timeouts |
| `LogPipe` | what `log.h` promises: a pipe of numbered lines with marks for dropped ones |
| `LevelLogger` | the logger; INSTANCEs `SyncEvent` for `_log_event` and `LogPipe` as its abstraction; `MCLevelLogger` |
| `LevelLoggerProofs` | theorems about it, the refinement of `LogPipe` among them |
| `BoundedFifo` | what a user of a queue relies on |
| `AoutQueue` | the ring with its consumers; INSTANCEs `BoundedFifo` |
| `TimeoutTask` | the timer: clients, checker, workers, heap; `MCTimeoutTask` |
| `WaitingProofs` | theorems about the event and the timer |
| `TaskSched` | the scheduler with time in units; `MCTaskSched` |
| `TaskSchedProofs` | theorems about it |
| `SharedBuffer` | the ring, its semaphore and the kernel's undo |
| `SharedBufferProofs` | theorems about it |
| `GhLog` | categories, settings and the lock |
| `MCThreads` | the event, the queue, the ring and the categories in one state space |
| `LogFiles` | the rotation of the log files, rename by rename |
| `LogTime` | the time stamp of the log |
| `UtilLog` | the logger over a kernel queue |
| `LogProofs` | theorems about the three modules above and about `GhLog` |
| `AoutSpeech` | the file queue and the aout status; EXTENDS `AoutQueue` |
| `AoutProofs` | theorems about both rings, the refinement of `BoundedFifo` and the status |
| `LruCache` | what a user of LruMap relies on |
| `LruMap` | the map with its list and index; INSTANCEs `LruCache` |
| `FastString` | the counted blocks of fastring |
| `Str` | strings as sequences of characters, and split |
| `Text` | match, rfind, clean, base, `mkdir -p`, the cut of a full log buffer, each beside what it should return |
| `Flags` | arguments, config lines, and what `mkconf` writes, likewise |
| `TextProofs` | theorems about `Text` and `Flags` |
| `Firmware` | both packers and the unpacker |
| `PartsProofs` | theorems about `Firmware`, `FastString` and `LruMap`, the refinement of `LruCache` among them |
| `MCParts` | `LogFiles` and the modules below it, but for the proofs, in one state space |

Definitions named `X_something` just before `X` are `X` with a bug that someone could
have made (a dropped guard, a missing reset, a swapped order). No specification uses
them: each is there so that a run can be repeated with it in the place of `X`, and the
property named for it in `PROJECT.json` then fails. They show that the properties look
at the code.

### Atomicity

What a thread does under one lock, between taking and releasing it, is one step,
because nobody else sees its parts. It is several steps where others can: `push` is two
(a signal handler may run while the lock is held), the checker's round and deinit of
the timer are one per statement that a worker, which works without the lock, can tell apart,
`stop` is one step per call that it makes.
Flags that are read without a lock (`_stop`, `running`, `cancel`) are read in a step of
their own. `pthread_cond_wait` is three steps: give up the mutex and block, be released,
come back with the mutex; so another thread can come in between.

### SyncEvent

`signaled` and `consumer` are the members of the class. `where[t]` is where thread t is
inside `wait`: `out`, `blocked` on the condition variable, `woken` or `expired` but
without the mutex yet, or `aborted` by a failed assert. `Signal` (broadcast on a rising
edge only), `Reset`, `WaitFast` (the event is up), `WaitBlock`, `Expire` (timeout),
`WakeSpuriously`, `WaitReturn` (`--_consumer`, assert, common exit `Leave`) and
`WaitTimeout` (which returns before the common exit) are its code. The history variable
`disturbed` says that a reset or a spurious wakeup has hit a released thread. The
Windows variant (`base/win`) is left out.

### LevelLogger

`PushBegin` and `PushEnd` are `push`, with `DropOld` for the overflow and `AppendLine`
for the growth of the stream (the event is signalled when the buffer is more than half
full, and its capacity grows, so capacities matter). `LogLoop` to `LogWrite` are the
thread's loop, `Close...` the parts of `stop`, `Interrupt` the signal handler on
whatever thread it hits, `OpenFatal` and `Abort` the fatal log and `on_failure`. A file that
cannot be opened loses the lines of that write (`lost`).

Lines are numbers of one length: dropping the older half is modelled on lines here and on
characters in `Text`. File names and levels are left out; rotation, which opens another
file of the same kind, is one choice in `Write` and a module of its own (`LogFiles`), and so
is the stamp (`LogTime`).

The event is the module `SyncEvent` with spurious wakeups (`LogWakeSpuriously`). One that comes
back to a lowered event fails `assert(_signaled)` of the timed wait (`thread.cc` 100), and SIGABRT is one
of the failures the log catches: `on_failure` calls `close` on the log thread, whose `signal` then
waits for the mutex that the failed wait still holds (`LogAssert`). From then on nothing that signals
comes to an end, so this too is an exception of the liveness properties (`Stuck`). `EventSound`
says that nothing but a spurious wakeup can fail the assert.

A handler that interrupts `push` with the lock held is modelled; it can block for ever,
which is the exception `Stuck` of `CloseReturns` and `LinesSettle`. A handler may also run
on the log thread, between any two of its steps: it joins its own thread, which
`pthread_join` refuses (`Joined`), and goes on; the lines that thread has in hand then go
with the process, so `ImplementsPipe` counts them as lost from there on. Left out are a
handler that interrupts `SyncEvent::signal`, the swap under the lock or a write halfway. The macro `FLOG`
(`log.h` 123) names a constructor that does not exist and `DLOG` has a stray `:`, so fatal
lines reach the logger through `FatalLogSaver` (`log.h` 61-77) only.

### AoutQueue

`head`, `tail`, `slot` and `inited` are the code's. `doing[c]` says whether consumer c is
idle, blocked, woken, or using the slot it was given (`held`, `got`). `SignalNotEmpty` is
`pthread_cond_signal`: it wakes one blocked consumer. `Done` is the end of the consumer's
work in `main.c`. `Destroy` frees the slots and leaves `head` and `tail`. The size is a constant, so that a
queue that comes back smaller, with `head` out of its range, is not covered. The code neither wakes nor waits
for consumers there; with `Orderly` the module assumes that the client destroys the queue
only while no consumer is in a call or works on a slot (`main.c` never gets to its call of
destroy). That no freed slot is read (`DequeueSound`) then rests on the test of `inited`,
because `head # tail` outlives the slots. A return from `pthread_cond_wait` without a signal, which POSIX allows, is left
out: its effect is that of the stolen wakeup in `aout_two_consumers`.
The file queue is the same ring with other names; its dequeue copies the item. It is in
`AoutSpeech`.

### TimeoutTask

An id is the address of the task's info (`Addr`); `Block` is the info together with the
locals of its worker, and the worker's place `at`. `number` tells the tasks apart that
one address holds in turn. `AddBegin`/`AddInsert` and `RemoveBegin`/`RemoveInsert`
split a call where the lock is taken. `TaskInit`, `InitRunning` and `InitStart` are the unlocked
stores of init: the lists, `running`, and then `update`. `Deinit` takes the lock, `DeinitCancel` and
`DeinitUnlink` alternate for the tasks that live, `DeinitFree` gives the rest and the lock back,
`DeinitJoin` waits for the checker. `CheckTop`, `CheckPromote`, `CheckCancel`, `CheckUnlink` and
`CheckDone` are the checker's round; `WorkerWake`, `WorkerCall` and `WorkerPost` are a worker, with
`Checked` for the second look at `cancel`. Intervals are not modelled: a worker wakes at any time. A
client passes an id to remove at most once.

Between `cancel = true` and `LIST_REMOVE` (150-151, 221-222) the worker may see `cancel`, free its info and
end, and an add may be given the block. `cut` holds the task in that window. To unlink a freed block is
undefined: `Unlink` goes on as if the links were still there, or ends the program (`broken`); when
the block has been given away, its links are the zeroes of `calloc`, and only the second is left.
What the properties leave open, because the code does:

* a *stray* task: its `add` looked at `running` before deinit and linked the task after
  it. Nobody can cancel its worker until the timer is started again and the id removed;
  if the lists are emptied by the next `init`, it is never started at all, or never ends;
* a *late* entry: a removal posted when its task is on no list any more, by a client or
  by the worker itself after a concurrent removal (line 102). If the address is used
  again before the checker looks, it cancels the new task;
* a callback that was about to run still runs after deinit has returned;
* a *missed* request: an add or remove that comes between the two stores of init to `running` and
  `update` (209-210) is told to nobody, and waits for the next one;
* the unlinking of a block that is gone, as above.

Left out: an init that initialises the lock again (207) while a client that began its call in the
last life of the timer is inside it. That is undefined too, and of a kind that no step of the
timer could describe.

### TaskSched

Time passes in units, `Sec` of them in a second, while the thread waits or is in a
callback. `PassBegin` takes over the new tasks (`TakeOver`) and splits the carried time
into seconds and a rest (`Carry`); `Visit` counts a task down; `CallTick` and `CallEnd` are the
callback, after which a task is counted up again (`Again`) or deleted by swapping the last
one in (`Delete`); `PassEnd` adds the time the pass took. The histories `want`, `age`,
`first` and `visits` compare the countdown with the time that really went by. A wait ends exactly at
its deadline here; the event of the scheduler has no spurious wakeups, which would end the program at
the assert as the first finding says.

`PeriodKept` measures from the beginning of one pass that calls a task to the beginning of the next
that does. The calls themselves can be nearer: with a period of two seconds a task that is called one
second into a pass, behind a slow callback, can be called again one second later, at the beginning of the
next pass. `thread.h` 28 ("run f() every @sec seconds") does not say which of the two it means. `stop`
called from a callback, and the fact that the thread member is declared before the
vectors it uses, are left out.

### SharedBuffer

`mem` holds the segments, the removed ones too, since a consumer may still have one attached;
`shm` and `sem` are what the two keys lead to, `val` and `adj` the semaphore and what the
kernel undoes when a process ends. `AttachMem` and `AttachSem` are the halves of `shmAttach`,
`DetachSem` and `DetachMem` those of the producer's `shmDetach`. put is `Call`, `Enter`
(`sem_p`), `Fill` twice (`bzero` and `memcpy`), `Advance`, `Release` (`sem_v`); get is `Call`,
`Enter`, `Look`, `Copy`, `Release`. `Crash` may hit any process at any step. Packets are
numbered by put; 0 is a slot without a whole packet. `Unset` is the offset of a zeroed
segment, which points before the first packet. What the module shows apart from its
properties, because the code leaves it open:

* a consumer that the producer laps loses whole rounds without notice;
* a producer that comes back to the old segment sets the offset to the first packet, and a
  consumer that stands elsewhere reads on through what the earlier producer left (`sound`);
* its `SETVAL` lets it in beside a consumer that is inside, and that consumer's `sem_v` then
  raises the semaphore to 2 for good (`raced`);
* a producer that dies between the two removals of its destructor leaves a segment that is
  used with two semaphores in turn; a consumer that is inside under the old one is not kept
  apart from the next producer (`raced` too).

One producer is modelled, as `nlog.cpp` has; two would share the write offset under the
semaphore but reset it under each other.

### GhLog

`Message` is the macro's test of the level, `Test` the look at `cat->next`, `Link` the
locked part of `aml_ipc_log_msg`, `aml_ipc_trace_log` and `stop_scope_timer__`, which is
the same in all three. `Set` is the parser together with the read of the old list of nodes,
`Replace` and `Refresh` the locked part of `get_setting_from_string`, one step per turn of
its loop. `doubled` and `freedTwice` record the two races the code has: two threads that
both find `cat->next` null link the category twice, and two settings of one kind that read
the same old list free it twice. After the latter nothing is said of the program, and
`ListIntact` says nothing after the former. Two more
things are not in the state: a second thread that finds the category linked prints its
message although every setting may refuse it (line 139 is for the first one only), and the
macro of the scope timers lacks a parenthesis (`gh_log.h` 79) and increments `sc_level_`
where the library defines `sc_level__`, so it cannot be used.

### LogFiles and LogTime

`Rotate` is the look of `open_log_file` at the size and the search for a free place;
`RemoveLast`, one `MoveOn` per rename and `OpenFile` follow, and `ProcessDies` and
`DeleteFile` may come between any two of them. `WriteFile` is `write` with `rotate()`. A file
is the sequence of its writes; an empty one is not told from none. `dropped` and `gone` say
how writes left. With one file only (`Num` 1) rotation removes it. `LogTime` keeps date and
hour as one number, since `update` formats anew when an hour ends. A zone that changes
its offset within an hour is left out.

### UtilLog

`OpenGet`, `OpenRemove` and `OpenAgain` are the three system calls of `open_msg`, which other
processes may fall between; `sid` and `rid` are its two copies of the queue's id; each
`init_log` starts one more writer, which takes a text (`Receive`) and writes it to the file of
the day (`Write`). `InitLog` removes old files. `crowd` and `died` say when the code promises
nothing: two writers on one queue (so `OrderKept` does not judge a second `init_log`), a log call inside
`open_msg`, a death in there (`LatestCanLog`). The
level filter, the names of the files and their list on disk are left out.

### AoutSpeech

The ring of `AoutQueue` under the names of the second half of the file, together with the
status: `Refresh` notes the milliseconds since boot cut to an int, `Status` compares the
difference. The int has `2 * Half` values. An overflow of the difference is undefined, so
`Deltas` has both outcomes. The docs give the status a second of data (`aout_queue/docs/project.md`
80). `StatusNeedsData` says so, and is violated when the last data is half the range of the int ago.
`StatusFresh` says what holds until then. Both leave out the first second after boot: the times
begin with 0, which the code cannot tell from data at boot.

### LruMap and LruCache

`kv`, `kl` and `ki` are `_kv`, `_kl` and `_ki`; an iterator stays valid while its node
lives, so `ki` is a set of keys. `LruCache` orders the keys by their last use, as a
relation. Copies of a map would share iterators; nothing in the repository makes one.

### FastString

A handle points to a block with a count. Growth of a shared block is three steps, as in
`_Reserve`: look at the count, give the share back, copy. `raced` marks that another thread
gave its share back in between: then the block may be gone before it is copied, or left
over. `SharesSound` is about runs without it, and so does not judge that window. Characters are left out.

### Text and Flags

State is what some user has typed; the functions are operators, each beside a definition of
what it should return (`Globs`, `Places`, `Canonical`, `Between`, ...). A loop that edits
in place is a recursion over its turns (`CleanTurn`). Where the code does not do what the
repository says, there is a property that says what the repository does, with a run that violates it
(`MatchGlobs`, `MkdirMakesAll`), and the property of the passing run says exactly how far it goes:
`SearchRight` has the lower and the upper bound of what match takes (`Globs`, and `OneMore` for a
pattern that ends in several stars), `DirsRight` the paths that `mkdir -p` makes whole.
What `mkconf` writes is cut into lines and stripped of all four kinds of white space as
`parse_config` does. `ConfigReadBack` is about values without line ends, since the others are written as
several lines; of these not all come back (`Tame`): not those with comment signs outside of
quotes, both kinds of quotes, double spaces, or white space or a backslash at the end. Left out
are the conversion of values, the order in which `flag::init` reads its sources (a config
file overrides the command line), and the last line of a full log buffer when it covers
half of it, where `strchr` finds nothing and the outcome is undefined.

### Firmware

`Look` is `parse_imageinfo_byfile` for one kind, `WriteHeader` and `WriteImage` the output,
`ReadHeader` and `Extract` the unpacker; `hisi` says which packer. Bytes are left out, lengths
and offsets are not. A header of more than one unit shifts every image (`HeaderFits`). The
unpacker files entries by kind and reads them by number, so that it misses a kind above
the number of images and may read slots nobody filled; an image that was cut short is read
for ever. The file is cut at one place at most, on its way; it does not change while it is read.

## 3. The runs

| run | expects | bounds | shows |
|---|---|---|---|
| `threads` | pass | see below; 527,568 states | the twelve properties of the four components below |
| `event_assert` | violation of `AssertHolds` | four waiters, two with timeouts, two resetters, no spurious wakeups | a `reset` between the broadcast and the waiter's return makes `assert(_signaled)` fail |
| `logger` | pass | two application threads, four lines, a buffer of three, a first capacity of two, spurious wakeups | the logger implements `LogPipe`; marks; close; termination |
| `logger_close` | violation of `CloseWritesAll` | two closers, two lines | the second caller of `close` returns before the lines are written |
| `aout_two_consumers` | violation of `DequeueTakesQueued` | three slots, two consumers | the woken consumer takes from an empty queue |
| `aout_status` | violation of `StatusNeedsData` | an int of eight values, data counts for two | the status is 1 again when the data is old enough |
| `timeout_task` | pass | two addresses, two tasks, two inits, an owner and a caller | lists, removals, ends and the return of deinit |
| `task_sched` | pass | one task of each kind, two units to a second, a day of two seconds, callbacks of up to three units | countdown, lateness, the distance of passes, the return of stop |
| `task_sched_early` | violation of `FirstRunNotEarly` | two one-time tasks, callbacks of up to five units | a new task is counted down by time that passed before it was added |
| `text_match` | violation of `MatchGlobs` | texts and patterns of four characters together | a pattern that ends in two stars |
| `text_mkdir` | violation of `MkdirMakesAll` | texts of up to three characters | a rooted path whose first directory is missing |
| `parts` | pass | see `parts.cfg`; 620,400 states | the eleven properties of the nine parts below |

`threads` holds four components that never meet: the first state chooses one (`part`), the others
stand still, and since nobody has begun a call in them no fairness obliges them. Its properties:
`NoLostWakeup`, `WaveKeepsSignal`, `WaveConsumesSignal` (the event), `DequeueSound`, `ImplementsFifo`,
`NonemptyIsServed` (the speech queue, with one consumer), `EmptyMeansWholeRounds`, `GetsInOrder`, `PutReturns`
(the shared ring), `LevelsCurrent`, `ListIntact`, `SetReturns` (the log categories). In the
run all four keep the bounds named below.

`parts` holds nine state machines that never meet, to spare as many runs: the first state
chooses one (`part`), the others stand still. Its properties: `Unpacked` (firmware),
`ImplementsLru` (LruMap), `SharesSound` (strings), `OrderKept` and `LatestCanLog` (util_log),
`TextRight` (string functions: `SearchRight` for match and rfind, `PathsRight` for clean and base,
`BufferRight` for the cut of a full log buffer, `DirsRight` for `mkdir -p`), `StatusFresh` (aout),
`FilesInOrder` and `LastWritesKept` (log files), `StampRight` (stamp), `FlagsRight` (flags:
`QuotesRight`, `ConfigReadBack` and `ArgsRight`).

Why the bounds are enough to be interesting:

* Event: four waiters, two with timeouts, two resetters, one of which waits itself, and
  spurious wakeups. Two threads are needed for a wave, a third to come late and a fourth to time
  out beside it; `signal` and `reset` are not bounded.
* Logger: with a buffer of three and a capacity of two, four lines give a line below the
  half that only the timeout writes, a rising half, and an overflow that keeps a line, with
  the log thread at every point. One thread closes of its own accord while the other may
  be hit by a signal and die, and so may the log thread be hit: all three reasons for
  `stop` meet, and a spurious wakeup may add the fourth. An overflow on top of a mark takes a buffer of two and five lines; that
  instance passes too (870,221 states), but takes too long to be repeated each time.
* Queue: one consumer, three items, one of them too long. Four slots hold up to three items, so the ring is empty, full, and wraps round
  with every count.
* Timer: two addresses and two tasks make an address free and used again, and two
  tasks that live side by side; two inits let workers and entries of the first life
  meet the second. The caller is a thread other than the owner.
* Scheduler: a callback of three half seconds makes the carried time cross a second with a
  rest, and three kinds of tasks make the deletion swap another task in. A day of two
  seconds keeps the daily delay and its turn over midnight.
* Ring: one consumer. Four packets go twice round two slots, so a consumer can be lapped by one round
  and by part of a second one; two segments let it sit on a removed one. Deaths and returns
  are not bounded.
* Categories: two threads, two categories and the default, two settings, levels 0 and 1. Two threads can link the same category or one category each, so that the ring
  of a double linking holds one or two of them; two settings can be of one kind or both, and
  overlap with every step of a first message.

* Firmware: all 127 sets of images with short and with long, odd and even sizes, names that
  make the header just fit and just not. LruMap: three keys, capacities of one, two and the
  default of three, so that each evicts. Strings: two threads share three handles and
  blocks. util_log: two processes, three inits, four queues: one can be removed and made
  between any two steps of the other. Files: three of two writes each, nine writes: all
  files are full and moved on twice. Stamp: every time within two seconds of a minute's
  or an hour's turn, two hours. Status: an int of eight values, which turns at 4 ms; data
  counts 2 ms. Text: all texts of up to eight of four characters, and texts with patterns
  of six together; flags: six characters of five alphabets.

No state constraint is used; the bounds stand in the guards (`MaxLines`, `MaxTasks`,
`MaxInits`, `MaxBusy`, `MaxPut`, `MaxMade`, `MaxSet`, `MaxQueues`, `MaxTexts`, `MaxDay`, `MaxText`,
`MaxBoth`, `MaxClock`, `MaxWrites`, `MaxTyped`). Deadlock is not checked where a system may come to rest: when
nobody calls any more, the process is dead, or the bound is used up.

### Findings

1. `wait` does not look at `_signaled` again after `pthread_cond_wait`
   (`base/thread.cc` 61): with a concurrent `reset` the assert fails (`event_assert`). Two
   theorems say that this and spurious wakeups are the only causes. `_log_event` is never reset
   under a waiter, so that for the logger only spurious wakeups are left (`EventSoundHolds`); what follows
   from one is told under LevelLogger above.
2. `log::close` says "Write all buffered logs to destination and stop the logging thread"
   (`log.h` 19). A second caller returns at once, possibly before that
   (`logger_close`); with a fatal log as the second caller, its `_file` can even be
   swapped under the log thread (the exception in `LogLinesInLogFile`). The handler of a
   signal that the kernel delivers to the log thread does not keep that line of `log.h`
   either: `stop` joins the thread it runs on, `pthread_join` fails at once
   (`base/unix/thread.h` 155), and the lines in that thread's own buffer are lost (the
   exception in `StopperWritesAll`).
3. `aout_dequeue` and its copy test for an empty queue with `if`
   (`aout_queue.c` 105): with two consumers, one gets a slot that is not queued and
   `head` passes `tail` (`aout_two_consumers`). The one consumer of `main.c` is safe,
   which is proved.
4. Seconds carried over from slow callbacks are counted down from tasks that were added
   during them (`base/thread.cc` 201): "run f() once @sec seconds later" comes early
   (`task_sched_early`).
5. `fastring.h` 269 says "* matches everything", and a star matches the empty string elsewhere; but
   at the end of the text `_Match` allows for one star only (`fastring.cc` 222), so `a**` does not
   match `a` (`text_match`).
6. `mkdir(path, true)` is said to be `mkdir -p` (`fs.h` 20), and the log directory "will be created if not
   exists" (`log.cc` 15). The parent of the first directory of a rooted path is taken to be the
   empty string (`fs.cc` 43-48), which cannot be made: if `/a` is missing, nothing of `/a/b` is made
   (`text_mkdir`).
7. A status ends after "1s无对讲数据", a second without data (`aout_queue/docs/project.md` 80). The
   comparison of two ints of milliseconds (`aout_queue.c` 236) makes it 1 again after 2^31 ms without data,
   or after boot, for as long again (`aout_status`).

### Fairness

* Threads that can run do so in the end: weak fairness of each thread's steps (log
  thread, scheduler thread, checker, each worker, the rest of a call that has begun).
  Weak fairness is enough for the locks in these modules: a thread holds one for a bounded
  number of steps. In `TimeoutTask` the checker and deinit hold theirs over several steps,
  and requests that keep the checker busy are bounded, as each id is removed once.
* Callbacks return (`WorkerCall`, `CallEnd`), the time-outs of `wait(ms)` fire
  (`LogExpire`, `WaitEnd`), and no wakeup has to be spurious. In `TaskSched` time goes by as a step of the thread.
* Strong fairness stands in two places. A process that waits for the semaphore gets it in its
  turn (`Enter`): the kernel queues the waiters of a semaphore. A thread of `GhLog` gets the
  mutex although others come back to it again and again, which pthread does not promise in so many
  words; with the bound on settings weak fairness would do as well.
* Nobody is obliged to call, to attach or to die: no fairness on pushes, adds, removes, enqueues, closes,
  stops or signals.

## 4. The proofs

Every safety property that the passing runs check is proved for all values of the constants,
and so are the three refinements. Where a statement has a condition it is named below.

| theorem | says |
|---|---|
| `EventInvariant`, `EventConsumersCounted`, `EventNoLostWakeup`, `EventWaveKeepsSignal` | the event's invariants, for every finite set of waiters, with or without manual reset and spurious wakeups |
| `EventWaveConsumesSignal` | the action property: one signal, one wave |
| `LoggerInvariant`, `EventSoundHolds`, `StopperWrites`, `LogLinesStay` | who stops the logger leaves nothing behind that was pushed before, the event's asserts hold for it while no wakeup is spurious, log lines stay out of the fatal file |
| `LoggerIsPipe` | the logger implements `LogPipe`: lines in order, each at most once, marks where some are missing |
| `SchedInvariant`, `CountedOnceHolds`, `OnTimeHolds`, `PeriodKeptHolds` | no task is lost, counted twice or late by a pass, and the passes that call a periodic one are more than its period less a second apart |
| `QueueTypeCorrect` | indices stay in the ring, for every size and any number of consumers |
| `QueueSafeWithOneConsumer` | with one consumer: a woken dequeue finds an item, its slot is stable, freed slots are not read |
| `QueueIsFifo` | with one consumer the ring implements `BoundedFifo` |
| `StatusStaysFresh` | after the first second, and until half the range of the int has gone by without data, the status is right as the int turns, for every width of it; of the file queue it says nothing |
| `TimerInvariant`, `TimerTypeCorrect`, `TimerListsSound`, `TimerTimelyRemove`, `TimerOverIsFinal` | the timer's lists, removals and last calls, for every heap, set of clients, number of tasks and restarts, with the windows of cancel and unlink and of init |
| `BufferInvariant`, `GetsInOrderHolds`, `EmptyMeansWholeRoundsHolds` | readers of the shared ring get newer and newer packets, and find it empty a whole number of rounds behind, for every size and any deaths |
| `CatInvariant`, `LevelsStayCurrent`, `ListStaysIntact` | linked categories have the current levels, on a broken list too; an unbroken one leads to all of them |
| `FilesInvariant`, `FilesStayInOrder`, `FilesKeepLastWrites` | no write is in two files, the files are in order, what is dropped is the oldest, and as many of the last writes stay as all files but one hold: for any number and size of files and crashes between renames |
| `TimeInvariant`, `TimeStampRight` | the stamp counted on is the one formatted anew, for every clock |
| `OpenInvariant`, `LastOpenerLogs` | `open_msg` of any number of processes leaves the last one with a queue that exists |
| `OrderInvariant`, `OrderIsKept` | texts come out once and in the order of their process, through removed queues, restarts and midnight |
| `StringInvariant`, `SharesStaySound` | a block is freed with its last share, whatever threads copy, move and grow |
| `LruInvariant`, `LruIsCache` | LruMap implements `LruCache` |
| `SearchCorrect` | match takes nothing that no cut of the text takes, and all that one takes whose pattern, if it ends in several stars, has one character more to match; rfind finds the last place; for all texts and patterns of any length over any characters |
| `PathsCorrect` | clean returns the canonical path and never writes where it has not read, base returns the last name, for paths of any length |
| `BufferCorrect` | a full log buffer of any size is cut behind a whole line, into less than half, without overlap |
| `DirsCorrect` | mkdir with every parent makes a path that clean returned if it is not rooted or its first directory is there, and says of none that it is made which is not, for paths of any length |
| `TextCorrect` | the four above, which are all of `TextRight` |
| `QuotesCorrect`, `ArgsCorrect` | a comment sign or = is found where it is not quoted, and an argument sets what its name says, for lines of any length |
| `ConfigCorrect` | what mkconf writes for a string flag without line ends in its value is one line for that flag again, with the same value if that is tame, for values of any length and over any characters |
| `FlagsCorrect` | the three above, which are all of `FlagsRight` |
| `FirmwareInvariant`, `OffsetsAreRight`, `ImagesComeOut` | the layout computed beforehand is that of the file, and the unpacker takes out whole what it looks for, for all sizes and any alignment |

They assume only what the modules state about their constants (`EventAssumption`,
`LoggerAssumption`, `SchedAssumption`, `QueueAssumption`, `SpeechAssumption`, `TimerAssumption`,
`BufferAssumption`, `LogAssumption`, `FilesAssumption`, `TimesAssumption`, `UtilLogAssumption`,
`StringAssumption`, `LruAssumption`, `FirmwareAssumption`, `TextAssumption`, `FlagsAssumption`), which TLC evaluates in the runs. The
theorems about the voice queue with a single consumer and an orderly destroy say so in their
statements. `StringAssumption` says that the handles are finitely many, since a count
is a number. TLC was asked about an inductive invariant first wherever it can evaluate it.

* `EventInv` is the conjunction of the type, the count and the two statements about
  blocked and woken threads. They need each other: the last of a wave recognises itself
  by the count, and `signal` may skip its broadcast because nobody is blocked. Lemmas
  about the cardinality of the counted threads carry the count through each step.
* `LoggerInv` says who can be inside `stop` and what it knows of the log thread (`Stops`),
  where lines are besides the buffer (`Buffered`), who may have opened the fatal file
  (`Fatal`), and that a released log thread finds its event up (`Waking`). In the refinement
  the pipe's lines are those of the log thread's buffer and then of the shared one. The swap is a
  stutter, a write to a file that cannot be opened the pipe's loss, an overflow its drop. Lemmas about the
  ends of sequences say that dropping the older half of a buffer drops from the pipe what the mark says.
* `SchedInv` ties a task's age to what it was counted down by and what it has still to be
  counted down by in this pass (`InTime`): a task on the list is at most that old, and a
  repeated one more than that less a second. The other parts say which list a task is on
  (`NotTwice`), how far the pass is (`InPass`), and that less than a second is carried
  (`Carried`). `OnTime` and `PeriodKept` come from the two
  halves of `InTime`, after a pass and at a call.
* `RingInv` adds to the types that a slot in use is the one before `head` and that a
  blocked consumer means an empty queue. `NextSlot` being injective makes the free slot
  that `enqueue` keeps the one in use. For the refinement the queue is read off the ring
  from `head` to `tail`; lemmas say what an element more at the end and one less at
  the front are there. `SpeechInv` notes the full times beside the cut ones.
* `TimerInv` adds five facts to the two properties. `CutOwn`: a task that is cancelled and not yet
  unlinked is the only one, it is so only while the checker or deinit has the lock, and the worker in its
  block, if there is one, is its own; so outside the lock `ListsSound` has no exception. `AddsOwn`: a task between the two
  steps of its add is on no list and has no worker. `AddsApart`: two adds do not
  share an address. `WorkersNumbered`: a worker's block is not free. `ShutDown`: after
  deinit only strays are on the lists. Without `AddsOwn` and `AddsApart` an add could link a
  block that is in use; without the last one a task dropped by the next init could be an
  ordinary one. There is one lemma per action with one step per conjunct.
* `OverIsFinal` needs `OverStopped`: a task that is over is not valid any more, which is
  what a worker looks at before it calls.
* `BufferInv` describes a segment by its *era*: the packet it began after and how many were put
  since (`Era`). A slot other than the next one to be written holds a packet at least as new
  as the round says, and a consumer stands at some packet of the era (`Follows`). Removed
  segments have an era too, that does not go on. `Exclusive` says
  when the semaphore excludes; with `raced` it does not, and only `Era` is left.
* `CatInv` describes the list by sets that are closed under `next`, not by walking it: a
  second linking makes a closed set without the end (`OnRing`), which the refresh never leaves,
  so that it keeps the lock. A refresh has done every category outside of any closed set that
  holds the one it stands at (`Refreshed`).
* `FilesInv` adds to the order that the place a file is moved to is vacant (`Vacant`) and that
  no file is open meanwhile (`Idle`). Without the first a rename would drop a file that is
  not the oldest. That the search finds a place at all is a lemma (`FreePlaceFound`).
* `AgeInv` counts the writes that came after one in file i: as many as fill the files below it
  (`Deep`), less one file if a crash has left a place free. There is never more than one such
  place below a file (`OneHole`), and a file that is removed has none below it.
* `TimeInv` is `StampRight` itself; the work is in the arithmetic: a time and its hour,
  minute and second determine each other (`LocalWhole`, `LocalUnique`).
* `OpenInv` says that the last one's queue exists or somebody else is about to open a new
  one, who will then be last (`LatestServed`).
* `OrderInv` follows a life of a process, from one `init_log` to the next: all its texts go
  to one queue (`OneHome`), which has one writer (`OneWriter`). So those in the files are older
  than the one in the writer's hand, which is older than those on the queue (`FiledFirst`,
  `HandFirst`, `QueueRises`), and no two writers have texts of one life.
* `StrInv` adds to the counts that a growth which found its block shared finds it so until it has
  given its share back (`StillShared`); `Growing` says that the thread then works on a handle of its own.
* `LruInv` says that list, index and values have the same keys, each once in the list
  (`InStep`). The order of the cache is the order of places in the list (`Behind`), and lemmas
  say what moving a key to the front and dropping the last one do to it.
* `FwInv` ties the noted offsets to one another (`Noted`), the end of the file to the next
  offset (`Placed`) and the slots to the entries (`Taken`). That no kind is noted twice
  follows from a fact about surjections (`AskedOnce`).

* `TextProofs` is about recursive functions. The provers cannot instantiate the library's induction
  theorems, so the module has its own, about sets instead of predicates: a set of numbers that holds
  each number whose smaller ones it holds is all of `Nat` (`AllNumbers`, from the least element of a
  set, which comes from the well-foundedness of <). `RecursiveFunction` says that a definition
  which looks at points of a lower rank only (`LooksDown`) defines a function; with it each
  `f[x \in S] == ...` is unfolded once, and what it computes for every input is an induction.
* For rfind the invariant is that no place is behind the one it looks at (a shift by the table
  skips none, `RfindRight`); for match, what a state of the recursion decides of the rest of both
  strings (`MatchRight`). `QuotesCorrect` goes over the marks: while sub is looked for, what is
  open is told by the number of marks in front (`Odd`), and the search goes on behind a pair.
* `PathsCorrect` follows the loop of clean turn by turn (`CleanAt`): what is written are the names
  the path leads through so far, joined; `dotdot` is the length of those that `..` cannot take
  back (`Fits`), so that "something is left to take back" is "the last name is not `..`"
  (`CleanLonger`); and there is room for a slash, since names were read with one
  between them (`CleanRoom`). Each turn reads on, so after as many turns as there are characters
  all is read (`TurnRight`).

* `DirsCorrect` is an induction on the length of the part of the path that mkdir is called with
  (`MkdirRight`). The calls stop at the places where a name ends (`Stop`). In a path that
  clean returned, each stop is one name behind the one before (`Neat`, `StopNames`), and what a call
  leaves behind is the names up to its stop (`MkdirSays`). The only call that can fail is the one
  for the first name of a rooted path, whose parent is the empty path (`MkdirAtRoot`).
* `ConfigCorrect` follows a value through what is done to its line one after the other. Each
  line begins with `f =` (`Starts`), and neither halving blanks, stripping, nor a cut at a comment sign
  changes that, since what is searched for stands behind it (`LineStarts`, `GetlineStarts`, `ParseIs`).
  That a value comes back whole is by cases of how it is written. With a quotation mark in it, format_str puts
  the other mark around it, so that the outer mark is open to the end of the line and a single
  comment sign in it is not found (`QuotedComments`), and these marks are all that is taken off (`QuotedBare`).
  Without one it has no comment sign and no blank at an end, and nothing is taken off.

Only model-checked: no invariant and no action property is left to TLC alone. What remains is all
liveness (`NonemptyIsServed`, `CloseReturns`, `LinesSettle`, `RequestsHandled`, `WorkersEnd`,
`DeinitReturns`, `TaskRuns`, `StopReturns`, `PutReturns`, `SetReturns`), which is out of the prover's reach, as
is `ENABLED`; and the seven runs that find a violation, which are counterexamples.

## 5. The plan

Done, in this order: `SyncEvent` (everything in `base` waits on it), the aout queue, the
logger on top of the event, the timer, the scheduler, the shared-memory ring, the log
categories; then the file queue with the status, log files and stamp, util_log, LruMap,
strings, text functions, flags, and the firmware; proofs for all of these.

Next, the most important first:

1. Proofs of what the runs do not state yet: that two callers of `close` are the only way to
   break "write all buffered logs", that `NoLostWakeup` of the logger's instance of the event follows
   from `EventInv`.
2. `stop()` called from a callback of the scheduler, and the start of its thread before its
   vectors are made: both are undefined behaviour, which the module could only flag.
3. The level filter of `util_log` and the float cache of `fast.cc` as a user of `LruMap`.

## 6. What is not modelled, and why

* The digits of numbers (`fast`), conversions of values, formatting: arithmetic on bytes
  without states.
* `os`, `time`, `random`, `unitest`, the stack trace, `util_file`: wrappers of system calls, or
  sequential code.
* DES and base64: bit-level algorithms without control. Exercises and the unfinished tools
  `zw_rootfs_decpack` and `prv_decpack`: no decisions to check.
* `client_server`, `libhv_test`, `demo`: samples in lockstep over a socket.
* Third-party headers (`json.hpp` twice and the rest of `hv`) and `base_his`, which is `base`
  once more. They are about four fifths of the lines in `src/`, so the mapped lines are a
  small share of the whole however much of the program's own code is modelled.
* Allocation failure, `pthread` errors and thread creation that fails: the code does not
  handle them.
