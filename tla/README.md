# TLA+ models of the IRAF virtual operating system

IRAF is an environment for astronomical data reduction. Its programs are
written against a virtual operating system (VOS, `sys/`), which a small kernel
(`unix/os`) binds to the host, and are run by a command language (CL,
`pkg/ecl`) that keeps the programs connected as child processes. This project
models the parts of the VOS and the CL whose correctness depends on long
sequences of calls, on several processes, or on something failing half way. The
applications (`pkg/images`, `noao` and the others), the numerical libraries
and third-party code are left out.

## Inventory

| Component | State | Operations | What is hard | What makes it correct |
|---|---|---|---|---|
| FIO binary file buffer (`sys/fio`, `lib/fio.h`) | one buffer per descriptor, i/o pointers `iop`, `itop`, `otop`, its file offset, the size FIO believes in | `open`, `getc`, `read`, `putc`, `write`, `seek`, `flush`, `close`, `F_CANCEL` | pointers that mean something else in each phase, faults that write one page and read another, device errors in between | a program sees a flat array of characters; what it wrote can be flushed; the size never lags behind the device |
| FIO pushback (`ungetc.x`, `unread.x`, `filbuf.x`) | a second buffer per descriptor: data from below, a stack of saved pointers from above | `ungetc`, `ungetline`, `unread`, `fcanpb` | input pushed back in the middle of input pushed back, seeks in between, a full buffer | the reader sees the last block pushed back first, then the file where it was interrupted |
| FIO streams, text, asynchronous i/o | requests pending on a channel | `getline`, `aread`, `await`, ... | two descriptors on a channel | not modelled |
| Advisory lock (`sys/fio/osfnlock.x`) | three null files beside the locked one | lock, unlock, time left, make and remove the lock files | any number of processes, deaths between two host calls, a clock of whole seconds | exclusion, recovery from dead owners, an owner that lost the lock stops |
| VFN mapping files (`sys/fio/vfnmap.x`) | a map of file names in a locked file | open, add, delete, close with rollback | the lock may be lost while the map is changed | one writer; planned beyond the critical section |
| CL process cache (`pkg/ecl/prcache.c`) | slots, a list from the one used last to the one to go first, process numbers, the task stack | connect, disconnect, lock, flush, prune, resize, broadcast | processes that die unseen, executables that are linked again, tasks that call tasks, errors that unwind | no process lost or shared, locks hold, tasks run current code |
| CL background jobs (`pkg/ecl/bkg.c`, `modes.c`, `sys/etc/pro*dpr.x`, `unix/os/prwait.c`) | the job table, the detached processes of the VOS, the process table of the kernel, two files per job | spawn, poll, wait, kill, query and response | three tables that learn of the end of a job at different times; numbers, pids and files used again | the tables agree, no running job is forgotten, a query is answered to who asked, a wait returns |
| IPC (`sys/etc/main.x`, `prpsio.x`, `maideh.x`, `unix/os/zfiopr.c`; `onint`, `killtask`, `oneof`, `clerror` of `pkg/ecl`) | two pipes, what the CL waits for, the state of the IRAF Main, the redirection of the pseudofiles | run a task, transfer, ask for a parameter, `bye`, `ERROR`, interrupt, restart | the interrupt reaches two processes that talk to each other, at different places of the conversation | each message is taken by whom it is for; nobody waits for who waits for him; the user gets out |
| Kernel interface (`sys/ki`) | channels, nodes, one stream per server | remote kernel calls | lost connections, reconnection | planned |
| FMIO (`sys/fmio`) | page table, its index, file table, page maps; a header and pages on disk | open, extend, delete, sync, close of subfiles | the table that says who owns a page lies in pages itself; a crash | each page has one owner, the table fits its index, what was synced is found again |
| FMIO file cache (`fmfcache.x`, used by `sys/qpoe`) | slots with a reference count, an age and a descriptor; lfiles locked out | get, return, lock out, unlock, retire | opens that fail after a close, users that never return, the same lfile opened beside the cache | who holds a descriptor can use it; the oldest idle one goes |
| Error stack, exit handlers, environment (`sys/etc`) | nested handlers, redefinitions | `iferr`, `onerror`, `envmark`, `envfree` | an error inside a handler | planned |
| everything else | | | formatting, numeric code, drivers | not modelled; the reasons are in `PROJECT.json` |

How they interact: the CL runs a task by asking the process cache for a
process, which is spawned by the VOS and spoken to over FIO streams. Every file
a program or the CL opens goes through FIO; a file whose name had to be mangled
is found through a VFN mapping file, which several processes update under the
advisory lock. A connected process talks to the CL through its standard streams,
which are messages on the two pipes, and a background job is a CL of its own
that leaves its questions in files. QPOE keeps its event lists in the lfiles of
FMIO, through the file cache, with a FIO buffer for each. `PROJECT.json` lists, at
the line where each bites, what in this code is hard to test (`hazards`) and the
properties that cover it.

## Modules

### FlatFile, FioBuffer, MCFioBuffer, FioBufferProofs

`FlatFile` is the abstract specification: a file is its contents and a position,
and nothing is promised once an error has been reported.

`FioBuffer` is one descriptor on a random access binary file. Its variables are
those of `lib/fio.h`: `boffset`, `iop`, `itop`, `otop`, the memory of the buffer,
`filsize`, and the device's file `disk`. Pointers are kept relative to `bufptr`.
A call of the program (`GetC`, `Read`, `PutC`, `Write`) is followed by the steps
the code makes: `FMkBfs` (allocate the buffer), `FilBuf` and `FlsBuf` (fill it
for reading, open it for writing), `CopyOut` and `CopyIn`. `FFault` is the file
fault: write the page if it is modified, then read, clear or simply take the
new one. `Seek`, `SeekEOF`, `Flush`, `Close` and `Cancel` are the other calls.
The device may fail to read, fail to write, or write part of the request, as the
constant `Faults` says. The device driver transfers synchronously, so nothing
interleaves with a call.

`MCFioBuffer` holds the refinement mapping: the contents a program sees are the
device's with the valid part of the buffer laid over them, the position is
`LNOTE`. `IsFlatFile` is the abstract specification as a property.

### OsfnLock, OsfnLockProofs

`OsfnLock` is `osfnlock.x` as `vfnmap.x` uses it. The lock is set by deleting
`lockfile`; `timelock2` carries its age; whoever deletes `timelock1` may break
an old lock. Every host call is a step of its own, `ZFMKCP` is two (its `stat` and
its `creat`), processes interleave, a process in `Mortal` may die between any two
steps, and `Init` allows any leftover of the lock files. Times are ages in whole
seconds, counted up to `FILELOCK_PERIOD`. With `Removes`, an update may empty
the mapping file, which deletes it with its lock files.

### PrCache, MCPrCache, PrCacheProofs

`PrCache` is `prcache.c` together with the part of the task stack that decides
when its procedures are called: `callnewtask` and `oneof` of `exec.c`,
`cl_error` and `taskunwind`, the builtins `package`, `flprcache`, `prcache`,
and the parameter `szprcache`. The CL is one thread, so each of its operations
is an action; a procedure of `prcache.c` is an operator from a cache to a cache,
and the actions compose them in the order of the calls. The linked list is a
sequence of slots, and a search from its head or tail is the least or greatest
position that fits (`FromHead`, `FromTail`). What the loops of `taskunwind` do to
the cache is one `Disconnect` of the set of processes above the task that remains:
each call frees the one slot of its process, after a check that the first call has
already made. Between two operations a
child may die (`Crash`), which the CL finds out only when it writes to it
(`Broadcast`, `Answer`, or the startup message of `Connect`), or an
executable may be linked again (`Relink`). `MCPrCache` adds the symmetry of the
executables.

### PushbackFile, FioPushback, MCFioPushback, FioPushbackProofs

`PushbackFile` is the abstract specification: a file and a stack of blocks in
front of it. `FioPushback` extends `FioBuffer` with the pushback buffer; its
actions are those of `FioBuffer` that see no data pushed back, and the ones that
`ungetc`, `ungetline`, `unread` and `filbuf` add. The buffer's address may be
below or above the file buffer's, since `fcanpb` and `filbuf` compare pointers.
`MCFioPushback` is the refinement mapping.

### BkgJobs, BkgJobsProofs

The CL and its jobs are processes that interleave; the CL's state says where it
is in `bkg_wait`, `bkg_kill` or the handling of a query. `UpdatedJobs` is
`bkg_update`, which nearly every operation calls first, with `PR_WAIT` under it:
it reaps whoever has exited, also another than the one it waits for, and records
that in the kernel's table. A job begins with a copy of the tables of the CL
(`kin` are the pids it takes for those of its own jobs). The files of a query are named by the
job number and hold, in the model, the process they are about.

### LightFiles, Fmio, MCFmio, FmioProofs

`LightFiles` is the abstract datafile: files as the program sees them and as a
crash would leave them. `Fmio` has the page table and its index in core, the
header and the pages on disk. `fm_sync` is two steps, the header and then the
pages of the table, and a crash may come before, after or, with `CrashInSync`,
between them; a writing error may stop a transfer. Sizes are counted in pages
and a page map is the set of pages of an lfile, in order. `MCFmio` maps both
sides; `IsLightFiles` is the abstract specification as a property. `LightFiles` says
of a write that does not fail that it is complete, and of one that fails (`Faults`)
which of its pages it wrote.

### FmFcache, MCFmFcache, FmFcacheProofs

One process, so a call is a step. The cache is a function from slots to
descriptors with a count and an age; what FIO has open is kept beside it, so that
a descriptor which the cache gave out and something else closed is seen.
`Program` says what clients do besides getting and returning: open a parameter
with `qp_popen` beside the cache, purge, lock out. `Faults` lets opens and closes fail
and clients forget to return (`qp_read` between `fm_getfd` and `fm_retfd`). An
`fm_getfd` that fails after it has closed a file spoils the cache (`spoiled`).

### TaskIpc, TaskIpcProofs

One task after the other in a connected process, and the CL that runs them. `cl`
says what the CL is doing: reading commands from the task, at the terminal for
it, asking the user for a parameter, popping it after `bye`, waiting for its
`ERROR` in `killtask`. `at` and `state` are the process: the IRAF Main
waiting for a command, the task at work or waiting for an answer, the moment between
`bye` and `IDLE`, the restart after an error or a signal. `up` and `down` are the
pipes; `up` is bounded and a process that finds it full waits. An interrupt from
the keyboard reaches the CL at once (`InterruptTask`, `InterruptBye`), is passed on
as `sig`, and arrives at the process at any later step but before a read
returns, as the system would interrupt the read. Messages carry the task they come
from or are meant for, which the code does not see, so that one that reaches
another task is told apart. `struck` remembers whether a signal has hit one of
the moments that the code leaves open, and the properties name the moments
they except.

## Runs

| Run | Instance | What it shows |
|---|---|---|
| `fio_rw` | pages of 3 chars, two values, offsets to 4, transfers to 3, writes may fail | A read-write descriptor implements `FlatFile` until the first error; a short read means end of file; a modified buffer can be flushed; an error leaves none that cannot |
| `fio_wild` | a WRITE_ONLY descriptor, pages of 2, failed and short writes, seeks to 0 and past the end, `F_CANCEL` at any time | Pointers stay in the buffer, the size never lags behind the device |
| `fio_short_write` | the device writes part of a buffer | Violation: accepted characters are lost without an error |
| `fio_pushback` | read-only, pages of 2, a pushback buffer of 4, frames of 1, reads may fail | `PushbackFile` is implemented; the stack and the data never meet |
| `osfn_lock` | two processes, one mortal, periods of 2 seconds and 2 attempts, creation and deletion of the file | Exclusion unless a held lock was given away, a superseded owner stops, waiters get out |
| `osfn_writers` | two immortal processes | Violation: two processes write the map, without a second having passed |
| `prcache` | two executables, two slots, three pids, stack of three tasks, one unburied child, any number of relinks | No process lost, slots and tasks agree, tasks start in the current executable, locks hold, the process used last is evicted last |
| `bkg_jobs` | three job numbers, two detached processes, two pids, no look for a response succeeds by patience | The tables agree, no running job is lost, its files are about its present query, `bkg_wait` returns; no deadlock |
| `fmio` | two lfiles, two entries per page, an index of two, transfers of two pages, writes may fail, crashes before and after a sync | `LightFiles` is implemented; the table fits its index, the maps are those of the table, what is on disk can be opened again |
| `fmio_tail` | malloc leaves anything in the table read back | Violation: a page of the table belongs to an lfile after a close and an open |
| `fm_fcache` | two slots, three lfiles, two users, four descriptors, all faults, one leak | Held descriptors stay open on their lfile, owners are distinct, counts are users, locked lfiles stay out, the oldest idle file goes |
| `task_ipc` | three tasks, pipes of two messages, four interrupts, hung after three | No standoff, quiet after an interrupt, the CL and the process in step, the interrupt brings the user back |

The violations are described in `PROJECT.json` (`findings`), each with the
comment of the code that it contradicts. Every property of a passing run also has
a mutant, a plausible slip in the code (marked `mutant` in the modules), under
which it fails.

### Bounds

* FIO: what matters is where a position falls with respect to a page, to the end
  of file and to the valid part of the buffer. Two or three chars per page and
  offsets up to the third page give every combination, with transfers as long as a
  page or longer. Two values of a character tell old data from new.
* Pushback: a buffer of four with frames of one holds two nested blocks and runs
  out, and a block can be pushed back before, within and at the end of a page.
  `PushUnread` FALSE keeps blocks from being pushed back after a seek (below).
* Lock: two processes are enough for each pairwise race of the protocol; the
  proofs are for any number. Periods of two seconds have a fresh, an aging and
  an expired lock. `MaxDelay` 3 lets a waiter go through a full round and then
  run out. `delay` and ages are capped where the code no longer tells values
  apart.
* Process cache: with two slots every connection beyond the second evicts, and
  with a stack of three two tasks run in processes at once, under a script or an
  interactive cl. Three pids: one is always spare, so nothing keeps a slot that is
  still connected from being filled. `MaxPno` 2 leaves room for a package mark and
  a process after it. `MaxLost` 1: one child at a time has died and is not closed
  yet. `CHECK_DEADLOCK` is off because these bounds end some behaviours.
* Background jobs: one number more than processes, so a number is used again
  while another job runs, and two pids, so that they are, too. `MaxWaits` 0 leaves
  the two outcomes of a look for a response, there or timed out.
* FMIO: `PtiLen` is `PerPage`, within `PtiLen <= PerPage + 1`, which the default
  configuration satisfies (256 entries of an index for 256 in a page); beyond it see
  below. Four pages fill the datafile, so growth meets the limit of the index.
  `CHECK_DEADLOCK` is off: the same holds when a full datafile is only read.
* File cache: three lfiles for two slots. `MaxRef`, `MaxLocked`, `MaxLeaks` bound
  the counts; a leaked descriptor stays `Adrift`. `GoesOn` FALSE ends a
  behaviour whose cache is spoiled, since nothing holds from then on (below).
* IPC: three tasks, so that what one leaves behind can reach the second and be
  noticed by the third. Two messages fill a pipe while the CL is at the terminal.
  `MaxInterrupts` is 5 in the code; 3 lets the fourth interrupt follow a task
  that was given up. Deadlock is not checked because the last task ends.

### Fairness

* `Fairness` of `OsfnLock` asks that the clock ticks and that a process that is
  alive and in the middle of an operation takes its next step (weak fairness of
  each `Step(p)`): the code never blocks in a host call and the host schedules
  it. Nothing is asked of `Start` or `Die`.
* `BkgJobs`: what a job does next happens (`WF` of its steps), a task ends one day
  although it may ask first, again and again (`SF` of `Exit`), and `bkg_wait`
  polls every `WAIT_PERIOD` seconds (`WF` of `Poll`). Nothing is asked of the user.
* `TaskIpc`: the CL goes on when it has something to do, a signal sent is delivered
  and the Main goes on with its restart (`WF` of `CLStep` and `MainStep`). Nothing is
  asked of the user, nor of the task, which may compute, or write, for ever:
  `Returns` is about getting out of just that.

### Assumptions about the environment

* `ResizeBusy` is FALSE in the process cache run: `szprcache` is not set while a
  task runs in a process. With TRUE `pr_setcache` calls `pr_initcache`, which
  forgets the active slot, and `NoOrphans` fails; no comment in the code promises
  otherwise. The theorems about the cache assume `ResizeBusy = FALSE` by name.
* A pid may be used again as soon as its process has been closed.
* An executable that is linked again gets a later time than the processes
  connected to it before (`relinked` stands for that comparison).
* `pr_pconnect` reads the time of the executable and spawns it in one step.
* The header of a datafile is written in one piece, and failed writes of `fm_sync`
  are not modelled.
* A directive and its block, or the count and the characters of an answer, are
  one message of `TaskIpc`; an interrupt does not come between the two.

## Proofs

TLAPS checks the following for every value of the constants.

* `TypeCorrect` (`FioBufferProofs`): `TypeOK` is inductive as it stands. One
  lemma per exit of `FFAULT` and per procedure.
* `BufferCanBeWritten` and `SizeIsSound`: a modified buffer lies on a page that
  the device accepts, and FIO's size covers the device, for a program that seeks
  within the file, does not cancel, and a device that does not fail to read
  (`Careful`; each condition is needed, see below). Neither is inductive: a fault
  lands where the position says, so the position must lie within the file, and the
  file ends where the buffer or the device does. `Placed` adds this: a descriptor
  without buffer has no valid data (`Owned`), `otop` is 0, `itop` or the whole
  buffer (`Tops`), a new buffer is untouched until its first fault (`Fresh`), any
  other lies on a page (`OnPage`), and the position is within the file (`InFile`).
  `PlacedInvariant` proves it inductive with `TypeOK`.
* `ImplementsFlatFile` (`FioBufferProofs`): `FioBuffer` implements `FlatFile`, for a
  careful program on a descriptor it may read and a device that writes all of a
  request or reports an error (`Steadfast`; a WRITE_ONLY descriptor clears pages
  that hold data, and a short write loses characters, which is the run
  `fio_short_write`). Beside `Placed` the invariant is `Faithful`, until the first
  error: FIO's size is not beyond the file the program sees; the valid part of a
  buffer that is not modified is what the device holds (`Synced`), which is why
  dropping it in a fault changes nothing; and the valid part covers all the device
  has of the page (`Covers`), which is why a pointer between `itop` and the end of
  the buffer can be opened for writing without reading, unless the page was not
  read because the WRITE that wants it replaces it (`Replacing`). Each operation
  has a lemma that maps it to a step of `FlatFile`.
* `ShortReadsEndTheFile`: an action property of every program and device, from
  `RestBuffered`: a READ that has settled for less has all the rest of the file in the
  buffer, and nothing intervenes before it is copied.
* `ErrorsDoNotRepeat`: an action property of a careful program that may read and
  write. A refusal for lack of permission leaves what was written before in the
  buffer, and is no i/o error.
* `PushbackTypeCorrect` (`FioPushbackProofs`): the pushback buffer, for any sizes of
  the two buffers and of a frame. `PbTypeOK` compares neighbouring blocks, but
  `filbuf` may drop several at once and go on with any block that is half read, so
  the invariant (`Stacked`) orders every two of them; the room for the next block is
  counted with its frame, hence the frames stay above the data (`PushStacked`). That
  there is a last block with something unread follows from the well-foundedness of
  proper inclusion of finite sets (`Largest`). The steps of `FioBuffer` keep its
  types by the lemma of `TypeCorrect` (`StepType`); a file buffer exists under every
  block.
* `LockTypeCorrect`, `LockExcludes` (`OsfnLockProofs`): the lock protocol, for
  any number of processes and any periods. `ExclusiveUnlessForced` is inductive
  relative to `TypeOK`; the lemmas sort the steps into those that let nobody in,
  the one that takes the lockfile, those that give it back and those that force
  it.
* `SupersededStopsAlways`: an action property, from the invariant `SameAge` (a
  remembered time that is still that of `timelock2` has its age).
* `NeverTruncated`, `MapsAreThePageTable`, `TypeCorrect` (`FmioProofs`): the page
  table always fits its index. The pages of the table itself are added at a sync,
  when it is too late to refuse, so the argument is a reserve (`Reserved`): an
  lfile grows only while the entries of all pages of the index, less one for each
  such page, exceed what is in use; the pages that a sync adds use up the reserve
  and no more. The invariant adds the types, that the header holds a table that
  was in core (`HeaderOK`), that a closed datafile is idle and `MapsAgree`.
* `RecoverableAfterCrash`: what is on disk can be opened, wherever the process
  ended, when no crash comes between the two writes of a sync and
  `PtiLen <= PerPage + 1`. Both are needed (see below): the sync rewrites the table
  from the page of the entry that was last written, and this includes the pages that
  the same sync has added only if the index is that short. The invariant says that
  each page of the index has been written, or is one the sync under way will write
  (`Written`, `Stale`).
* `TableIsOwned`: no page of the table is ever given to an lfile, under the same
  conditions and when memory is zero where `fm_open` reads the table (`Garbage`;
  without it the property fails, which is the run `fmio_tail`). The invariant
  (`DInv`) relates the table in core to the pages on disk row by row, up to the last
  entry written (`Copied`), and what a closed datafile holds to its index
  (`Kept`).
* `ImplementsLightFiles`: `Fmio` implements `LightFiles`, under the conditions of
  `TableIsOwned`: an lfile holds what was written to it, whatever others grow in
  between, and a datafile that is opened again holds what the last sync saved. The
  last part of the invariant (`SInv`) is about files: the file table in the header
  is that of the core unless `FM_DHMODIFIED` is set (`Filed`), entries that are on
  no page of the table are the table's own (`Beyond`), and no lfile is longer than
  its pages, in core or on disk (`Sized`). With `DInv` it follows that the table a
  crash leaves is a prefix of the table in core (`SavedIsListed`, `ListedIsPrefix`),
  so that the pages of an lfile on disk are the first of those it has in core, and
  the l-th page is the same page in both (`NthOfPrefix`; that there is one l-th page
  follows from the injection of the pages into their ranks, `RankOrders`).
* `DescriptorsStayOpen`, `SlotsAreOwners`, `UsersAreCounted`, `LocksOut`,
  `TypeCorrect` (`FmFcacheProofs`): the file cache. A descriptor that FIO gives out
  was closed, so nobody has it; a slot is emptied only when its count, at least
  its users, is that of the cache alone; an lfile is in one slot even of a spoiled
  cache (`Distinct`). The rest of the invariant (`Sound`) holds until the cache
  is spoiled.
* `LeastRecentlyUsedGoes`: an action property, that `fm_getfd` gives up the
  oldest of the idle files. What the search of the slots finds is a slot that no
  other precedes; that there is one follows from the well-foundedness of proper
  inclusion of finite sets (`Least`), which stands in for induction.
* `NeverStandoff`, `OutputStops`, `TypeCorrect` (`TaskIpcProofs`): IPC. A process
  that will say nothing more before a command has `bye` or `ERROR` as the last
  message in its pipe, if it has any (`LastIsEnd`), and whoever is at work is
  EXECUTING, so that its restart will say `ERROR` (`WorkingExecutes`). The CL goes
  on waiting after each message that is neither, so taking one cannot empty the
  pipe of a silent process: while the CL waits, something is on its way
  (`Attended`). `OutputStops` needs only that an interrupted task is disconnected
  (`CutOff`).
* `KeepsInStep`: with "flpr", and while no signal has hit a moment without
  protection, the pipes are empty at the prompt and nobody takes a message of
  another task. The invariant is a disjunction of the phases of a conversation
  (`Over`, `Start`, `Work`, `Ending`, and after an interrupt `Doomed`, `Failing`,
  `Killing`), each of which says what may lie in both pipes; every step leads from a
  phase to a phase.
* `TablesStayTogether`, `JobsAreKept`, `AnswersAreOwn`, `TypeCorrect`
  (`BkgJobsProofs`): background jobs, for any number of jobs, slots and pids. The
  tables agree because `bkg_update` takes what is done out of all of them at once,
  and a job that runs is found by the number its files have (`OwnJobs`). That the
  files are its own needs what a job and the CL can be doing meanwhile: a query that
  is there is one its job waits for (`Asking`), and while the CL types one, the job
  that asked it only looks for the response (`Typing`).

* `TypeCorrect`, `ProcessesAreKept`, `ProcessesAreOwned`, `TasksStartCurrent`,
  `LocksAreKept`, `RecentIsKept` (`PrCacheProofs`): the process cache, for any
  number of slots, pids, executables and values of `szprcache` and any depth of the
  stack, with `ResizeBusy = FALSE`. `NoOrphans` is not inductive: whether a slot may
  be taken depends on its flags, and those are right only because they agree with
  the stack. The invariant `IInv` joins three parts. `Good` is about the cache
  alone: the list has every slot of the current size once, or is empty; no two slots
  have the same process; a slot that is empty is not busy; a process that is not
  closed is in a slot under the name of its executable. `Stack` is about the tasks:
  no two run in one process. `Owns` relates them: the processes of the tasks are not
  known to be dead and their slots are active, and an active slot whose process is
  not known to be dead belongs to a task. Each operator of `PrCache` has a lemma that
  says what it keeps of `Good` and `Owns`, and of `Held`, the processes that are
  locked and up; the actions follow the order of their calls. The action properties
  are proved from `IInv` and what a step of `Run` does; `KeepsRecent` also needs
  `Recent`: the slot used last is the head of the list while its process is
  connected, so that the search from the tail meets it after every other slot. The
  loop of `pr_setcache` is a recursive function; that it is defined, and keeps what
  `Good` says, follows from the least number of steps after which it would not
  (`Least`, from the well-foundedness of the subsets of an interval).

The assumptions are the `ASSUME`s of the modules (positive sizes and periods,
distinct cell values), which TLC evaluates on every run.

Only model-checked: the liveness properties `Recovers`, `WaitReturns` and `Returns`,
and the refinement `IsPushbackFile`. Of `FioBuffer`, `TypeOK` is
proved for every value of the constants, and checked on a WRITE_ONLY descriptor;
`FlushCanPlace` and `SizeCoversDisk` are proved for a careful program in every
mode. For a program that is not careful, `SizeCoversDisk` is only model-checked,
and on the WRITE_ONLY descriptor of `fio_wild`.

## Read, but not checked

These disagreements between code and comments, and defects without a comment,
were met while modelling. Those marked with a model show up in it under other
constants or as a property that no run lists.

IPC

* `main.x:280` says that no ERROR is sent by an idle process, since the CL "will
  mistakenly think" that the next task has aborted. The property `NotBlamed` fails:
  task 1 has sent `bye` and is not yet IDLE (`main.x:427` to `430`; signals are
  blocked until the write returns) when an interrupt arrives; the CL reads `bye`
  and goes to the prompt; the process restarts, still EXECUTING, and sends
  `ERROR`; the CL runs task 2, reads that ERROR and aborts it (`TaskIpc`, one
  interrupt). With "flpr" (the default) the process is flushed then, which ends it
  there.
* An interrupt that finds a request for input unread makes the CL answer it from
  stream 0, which fails; `killtask` signals again, and of the two ERRORs one is
  left for the next task (`prpsio.x:392`; `TaskIpc`, "unread").
* `exec.c:1388`, "Not certain there isn't some case where this could cause deadlock": an
  interrupt between the `bye` that was read and the pop of the task makes
  `killtask` wait for a process that is idle and says nothing (`TaskIpc`, "popping").
* `zfiopr.c:304` calls the reading of a record a critical section "to prevent
  corruption of the IPC protocol when an interrupt occurs", but the header of the
  record is read before the signals are blocked (`:269` to `:307`).
* An interrupt between a directive and its block, on either side, leaves the other
  one out of step. The stack of `pr_psio` holds one frame (`prpsio.x:11`) and a
  second push is not tested for. A task that ignores interrupts holds `killtask` for ever. An
  interrupt between `pr_connect` and the push of the task leaves its slot active.

FIO

* `F_CANCEL` and then a write in the first page modifies a buffer that belongs to no
  page (`fseti.x:149`; comment `:127`; `FioBuffer`, `Fset = {"cancel"}`).
* After a failed first read the buffer is at offset 0, where a write is accepted
  that can never be flushed (`fmkbfs.x:51`; comment `fwatio.x:40`; `FioBuffer`,
  `Faults = {"read"}`).
* After a seek, pushed back data makes `filbuf` copy from a pointer that is outside
  the buffer (`filbuf.x:62`; `unread.x:7`; `FioPushback`, `PushUnread`).
* A seek past the end on a WRITE_ONLY descriptor makes the gap of memory that was
  never set. `flush.x:57` tests a status that nothing has set; `filbuf.x:91` counts
  validated characters that `getc` never adds to; `ungetc.x:62` tests the overflow
  of the pushback buffer after it has moved the pointers; the state of a channel
  is shared by the descriptors reopened on it (`awriteb.x:29`).

Lock and mapping files

* The FILEWAIT_PERIOD loop of `osfn_lock` makes its attempts without sleeping
  (`osfnlock.x:50` and `:116`).
* "The lock is guaranteed to remain in place for at least FILELOCK_PERIOD
  seconds" (`osfnlock.x:30`), but until `setlock_` has dated it a lock is as old
  as the previous `timelock2` (`:132`).
* `osfn_lock` compares the status of `ZFACSS`, which is YES or NO, with ERR
  (`osfnlock.x:84`), so a process that waits for a file that has been deleted
  tries for ever. `Recovers` excludes it.
* The rollback in `vfnclose` (`vfnmap.x:547` to `561`) uses a map that has been
  freed.

CL

* A process connected after a package was loaded may have a number that is not
  above its mark, since `pr_pno` starts again at 1 (`prcache.c:494`; doc `:498`;
  `NewerThanMarks` of `PrCache`).
* `pr_pno` is an int that slots keep as a short; the executable may be linked
  between its spawning and the reading of its time (`prcache.c:245`); an
  interrupt between the spawn and the filling of the slot leaves a pid under the
  name and time of another (`prcache.c:242`); `pr_pnametopid` compares names of empty
  slots too (`prcache.c:544`); `pr_setcache` while a task runs (`prcache.c:337`).
* A job that is killed kills the jobs of the CL it was copied from, not those "WE may
  have started" (`bkg.c:415`, `:427`; `AbortKillsOwn` of `BkgJobs`). The query
  file that the CL deletes after its response (`modes.c:850`, `:853`) may be that of
  the next query: the job reads the response as soon as it is renamed
  (`DeletesAnswered`).
* The circular search of `bkg_spawn` leaves one slot out (`bkg.c:138`), which does no harm:
  its error "no more background job slots" cannot occur, as there are more numbers
  (32) than processes (10).

FMIO

* With `PtiLen >= PerPage + 2`, which `fm_seti` allows (`sys/qpoe/qpbind.x:30`), a page of the page
  table may never be written (`fmsync.x:133`, `:162`), and the datafile is
  truncated when it is opened (`Fmio`).
* A crash after the header and before the pages of the table (`fmsync.x:107` to
  `155`) loses more than what was "written since the last sync" (README of
  `sys/fmio`, 148; `Fmio`, `CrashInSync`). A write that fails there is posted, but the header counts as
  written.
* `fm_getfd` closes a file before it knows whether another can be opened: users
  of the slot keep a descriptor that is closed (`fmfcache.x:93`; doc `:30`;
  `OpenWhileHeld` of `FmFcache`, `GoesOn`).
* `qp_popen` unlocks the lfile before it opens it, so the cache may have it too
  (`qppopen.x:57`; doc `qppclose.x:5`; `OpenedOnce`).
* The search of `fm_getfd` may give up an idle file though a later slot is free
  (`fmfcache.x:128`). A READ_ONLY open of a deleted lfile truncates it
  (`fmlfopen.x:70`), NEW_FILE clears LOCKOUT, and `fmlfcopy.x:45` sets flags without
  marking the header.

## Not modelled

Of the modelled components: text and stream files and direct `aread` and `awrite`
on a descriptor; writing, notes and overflow while data is pushed back; host file
locking, which this configuration turns off; the names in a mapping file;
`pr_listcache` (prints only), `pr_unlock` (never called), the shutdown of the CL
and the batch CL; READ_ONLY datafiles, the copies and `fm_rebuild` of FMIO, its
text files, sizes within a page and failing writes in `fm_sync`; startup, shutdown
and OS escapes of a connected process, its STDERR and graphics streams, requests
passed from one process to another, scripts between the CL and a task, `iferr`, and
the panic of a third error within a restart.

The components that are not modelled at all are listed in `PROJECT.json` with the
reason. Most of the repository's lines are applications, parsers, formatting and
numeric code, which no state model tells apart; what the project covers is the
part whose errors come from order, failure and concurrency.

## Plan

Done: FIO's buffer and pushback, the advisory lock, the process cache, background
jobs, FMIO and its file cache, IPC, each with its properties, the invariants and
action properties all proved, and of the three refinements those of `FlatFile` and
`LightFiles`.

What would come next: `VfnMap`, the contents of the mapping file under
`OsfnLock`, with the rollback as its refinement question; `FioAsync`, two
descriptors on one channel; `ErrStack`, `Environ` and `KiServer`; and a theorem
that `FioPushback` implements `PushbackFile`.
