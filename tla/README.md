# A TLA+ model of the IOC core of EPICS base

The repository is an EPICS distribution: three releases of EPICS base, the
support modules used with them (asyn, autosave, busy, calc, ipac, seq, sscan),
the motor record and three IOC applications. This project models the newest
release, `base-7.0.6.1`, and of that the part every IOC runs: the threads of
the process database and the queues between them. All paths below that start
with `ioc/` are in `src/base-7.0.6.1/modules/database/src/`, those that start
with `libcom/` in `src/base-7.0.6.1/modules/libcom/src/`.

1. [The system](#1-the-system)
2. [Modules](#2-modules)
3. [How the models correspond to the code](#3-how-the-models-correspond-to-the-code)
4. [Runs](#4-runs)
5. [Fairness](#5-fairness)
6. [Proofs](#6-proofs)
7. [Where the code and its documentation disagree](#7-where-the-code-and-its-documentation-disagree)
8. [What is not modelled](#8-what-is-not-modelled)
9. [Plan](#9-plan)

Run a model with `tlc -workers 2 -config DbEventRing.cfg DbEventMonitor` (the
module of each configuration is in section 4), check a proof module with
`tlapm DbEventProofs.tla`.


## 1. The system

An IOC holds a database of records. *Scan threads* process records, processing
posts *events* to subscribers, and links between records, callbacks and
Channel Access carry values from one to the next. Each part is a small C
library with a lock or two and a thread of its own.

    scan threads ---- process ----> record ---- db_post_events ----> event queues
       ^   ^                          |                                    |
       |   |                          | callbackRequest                    | event task
    onceQ  scan lists                 v                                    v
       ^                        callback rings ----> callback threads   CA server, QSRV,
       |                                                  |             local CA links
       +-- scanOnce <---- dbCa, dbNotify, drivers <-------+

### 1.1 Components that are modelled

**Database event facility** (`ioc/db/dbEvent.c`)

- State: for each client an `event_user` with a chain of `event_que` rings
  (slots, `putix`, `getix`, `quota`, `nDuplicates`, `nCanceled`), the
  subscriptions `evSubscrip` that share them (`npend`, `pLastLog`,
  `callBackInProgress`, `enabled`), the flags `flowCtrlMode`, `extra_labor`,
  `pendexit`, `pSuicideEvent`, and two binary semaphores.
- Operations: `db_add_event`, `db_cancel_event`, `db_event_enable` and
  `_disable`, `db_post_events`, `db_post_single_event`, `event_task` with
  `event_read`, flow control on and off, extra labor post and flush,
  `db_close_events`.
- Interactions: records post with their scan lock held; the event task calls
  the user with no lock held; the user may call back into the facility.
- What is hard: many threads and four kinds of lock; counters kept by hand in
  four functions; a signal only for the entry that finds the ring empty; a
  cancel that waits for a callback in progress, or must not when it is made by
  that callback.
- Correct when: the last value posted is delivered, in order, each at most
  once; no sleeping task beside a deliverable entry; no use of a freed
  subscription; cancel and close return, and are quiet afterwards.

**Callback threads** (`ioc/db/callback.c`)

- State: for each priority a ring of pointers, a binary event, the flags
  `queueOverflow` and `shutdown`, the number of threads; one `startStopEvent`.
- Operations: `callbackRequest`, `callbackRequestDelayed`,
  `callbackCancelDelayed`, the worker `callbackTask`, `callbackInit`,
  `callbackStop`, `callbackCleanup`.
- Interactions: requested by device support, timers, `dbScan` and `dbNotify`;
  started and stopped by `iocInit.c`.
- What is hard: several workers share one binary event; the overflow flag is
  written without the lock of the ring; workers are started and stopped by
  counting.
- Correct when: an accepted request is run; no worker sleeps while a request
  waits; `callbackStop` returns and leaves no worker.

**Rings** (`libcom/ring/epicsRingPointer.h`, `libcom/ring/epicsRingBytes.c`)

- State: an array, two indices, a high water mark, optionally a spin lock.
- Operations: put or push, get or pop, flush, the measures, reset of the mark.
- Interactions: `callback.c` uses the first, `onceQ` of `dbScan.c` the second,
  both with the lock; drivers use them without.
- What is hard: without a lock only the order of loads and stores protects the
  data; wrapping indices; blocks that wrap.
- Correct when: the ring is a queue for the threads that share it.

**Scan lists** (`ioc/db/dbScan.c`, `libcom/ellLib/ellLib.c`)

- State: for each period, event or interrupt source a list ordered by `PHAS`
  with a lock and a flag `modified`; in each record a pointer to its list.
- Operations: `scanList`, `scanAdd`, `scanDelete`, the writes of `SCAN`,
  `PHAS`, `EVNT` and `PRIO` by `dbPut`.
- What is hard: `scanList` holds the lock of the list only between records;
  what it remembers of the list is stale when it comes back.
- Correct when: the lists hold the records whose fields name them, in order;
  a scan processes the records that stay, once, in order.

**Scan threads** (`ioc/db/dbScan.c`)

- State: `scanCtl` and one control word per period, one event per period,
  `onceQ` with its event, `startStopEvent`.
- Operations: `scanOnce`, `onceTask`, `periodicTask`, `scanInit`, `scanRun`,
  `scanPause`, `scanStop`, `scanCleanup`.
- What is hard: one event tells of the start and the end of every thread; the
  order to end travels through a queue that may be full.
- Correct when: a request taken is served; `scanStop` ends with all threads.

**CA links** (`ioc/db/dbCa.c`)

- State: for each link a `caLink` with a reference count, the actions asked for
  (`link_action`), what is known of its channel and the buffers of its input and
  output; one work list with one event; a control word.
- Operations: adding and removing a link, `dbCaGetLink` and `dbCaPutLinkCallback`
  by its record, the callbacks of the CA client library (connection, event, put
  complete, attributes, access rights), `dbCaTask`, the scan of a CP link with
  `scanLinkOnce` and `scanComplete`, `dbCaSync`, run, pause and shutdown.
- Interactions: records set and read links with their scan lock held; `dbCaTask`
  talks to the CA client library, whose callbacks change links and ask `dbScan.c`
  for scans.
- What is hard: a structure is shared by its record, `dbCaTask`, the library and the
  queue of scans, each of which may be last; a channel comes back with another type
  while work for the earlier one is under way.
- Correct when: a structure is freed once, by the last that refers to it; a record that
  waits for a put has one callback coming; no news of a CP link goes unscanned; an
  input that is connected is monitored.

**Put notify** (`ioc/db/dbNotify.c`, with `dbAccess.c`, `dbDbLink.c`, `recGbl.c`)

- State: for each request a state, a list of records it waits for and a `notifyPvt`
  from a free list; in each record its owner (`ppn`) and the requests that wait for
  it; `PACT`, `PUTF` and `RPRO`.
- Operations: `dbProcessNotify`, `dbNotifyCancel`, the callback `notifyCallback`,
  `dbNotifyAdd` and `dbNotifyCompletion` from record processing.
- Interactions: clients are `rsrv`, QSRV and device support; the callback runs in a
  callback thread; records complete from driver threads and process one another.
- What is hard: seven states and three lists that say who has a record; restart,
  completion and cancel race; a record found busy is owed a processing.
- Correct when: a request is answered once or canceled; the answer comes after the
  records processed for it have completed; every call returns.

**Lock sets** (`ioc/db/dbLock.c`)

- State: in each record a pointer to its lock set under a spin lock; in each lock
  set a mutex, a reference count and its records; a free list; a global count of
  changes; in each `dbLocker` the references it has found.
- Operations: `dbScanLock`, `dbScanUnlock`, `dbScanLockMany`, `dbScanUnlockMany`,
  `dbLockSetMerge`, `dbLockSetSplit`, from puts to link fields and when the database
  is loaded.
- Interactions: every thread that processes or writes records goes through it.
- What is hard: a thread waits for the mutex of a lock set that its record leaves
  meanwhile; lockers take several mutexes and try again; references are counted
  after records have moved.
- Correct when: a thread that has locked a record has all that links connect with it,
  alone; nobody waits for ever; a lock set is reused only when nobody refers to it.

**Puts with a reply of the Channel Access server** (`ioc/rsrv/camessage.c`, `caservertask.c`)

- State: for each client its channels, each with at most one `rsrv_put_notify` (`busy`,
  `onExtraLaborQueue`, the message, what `asTrapWriteAfter` needs), the queue of replies
  `putNotifyQue` and the binary event `blockSem`; of the event facility the request for
  extra labor.
- Operations: `write_notify_action` with its time out, `write_notify_done_callback`,
  `write_notify_reply`, `clear_channel_reply`, `destroy_tcp_client`, `rsrvFreePutNotify`.
- Interactions: the TCP thread calls `dbProcessNotify` and `dbNotifyCancel`; a callback
  thread queues what is done and posts extra labor; the event task sends the replies.
- What is hard: three threads, one structure for all puts of a channel; a put that waits
  for the one before it, for a minute; a channel that is cleared, or a client that goes,
  while a record, a callback or the event task still has its put.
- Correct when: each put is answered once, with success only if its own record has
  completed; nothing is answered after its channel is cleared; the TCP thread comes back.

**Thread pool** (`libcom/pool/threadPool.c`, `poolJob.c`)

- State: a list of jobs to run and one of idle jobs (`owned`); flags of each job
  (`queued`, `running`, `freewhendone`); four counters of workers; events for workers,
  observers and the end; the options `pauseadd`, `pauserun`, `freezeopt`, `shutdown`.
- Operations: `epicsJobQueue`, `epicsJobUnqueue`, `epicsJobDestroy`, `workerMain`,
  `epicsThreadPoolControl`, `epicsThreadPoolWait`, `epicsThreadPoolDestroy`.
- Interactions: drivers and support modules queue jobs; a job's function may queue,
  unqueue or destroy jobs, its own included.
- What is hard: all workers share one binary event and all observers another; who is to
  be woken is counted by hand; a worker that is busy may take the job for which another
  one was woken; threads may fail to be created.
- Correct when: counters, lists and flags agree; no job waits beside workers that sleep;
  waits and the destruction return; no worker uses a pool that was freed.

**Timer queue** (`libcom/timer/timer.cpp`, `timerQueue.cpp`, `timerQueueActive.cpp`)

- State: a list of timers in the order of their expiry; in each a state (limbo, pending,
  active) and whom to notify; the timer that expires (`pExpireTmr`) and whether it was
  canceled (`cancelPending`); events for the thread, for cancels and for the end.
- Operations: `start`, `cancel` and destruction of a timer, by any thread and by
  `expire()` itself; `process`; the thread of the queue, `run`, and its end.
- Interactions: `callback.c` (delayed requests), `rsrv`, the CA client and asyn.
- What is hard: `expire()` runs with no lock held; a cancel waits for it, unless it is the
  one who calls; threads that cancel share one event; the thread of the queue decides how
  long it sleeps before it does.
- Correct when: the list is in order; the thread does not oversleep; the run of
  `expire()` that a cancel found is over when it returns; timers that are due expire.

**pvAccess subscriptions** (`modules/pvAccess/src/`: `client/monitor.cpp`, `client/clientMonitor.cpp`,
`server/responseHandlers.cpp`, `server/sharedstate_pv.cpp`, `remoteClient/clientContextImpl.cpp`)

- State: the server's queue `MonitorFIFO` (elements empty, in use, returned; `flowCount`, flags),
  its requester (`_window_open`, `_window_closed`, `_unlisten`) in the queue of the transport, the
  client's queue `MonitorStrategyQueue` (free and waiting elements, the overrun element,
  `m_releasedCount`), the state of the channel's requests, what the user was told and holds.
- Operations: `post`, `tryPost`, `finish`, `notify`, `poll`, `release`, `start`, `stop`,
  `reportRemoteQueueStatus` of the queue; `send` and `ack` of the requester; `init`, `response`,
  `unlisten`, `poll`, `release`, `send`, `start` of the client; the connection's loss and renewal.
- Interactions: providers (QSRV, `SharedPV`, gateways) post from any thread; the server's transport sends
  and receives in two threads; the client's receive thread and its user share a queue.
- What is hard: each side counts the other's free elements from messages; the last free element
  on each side takes all values for which there is no room; four threads tell each other,
  once, that there is something to do.
- Correct when: no element is lost; values come in order and say when others were
  skipped; the window neither overruns the client nor closes for good; the newest value and the end come.

### 1.2 Components that are not modelled yet

| Component | Code | State, operations and hazard |
|---|---|---|
| rest of the CA server | `ioc/rsrv/` | access rights on channels, searches, beacons, the buffers of circuits |
| Access security | `libcom/as/` | rule tables; calls back into the server under its own lock |
| Watchdog, error log | `libcom/taskwd/`, `libcom/error/` | error log: double buffer and flush |
| IOC life cycle | `ioc/misc/iocInit.c` | the order of start and shutdown (in part in `Callback` and `ScanTasks`) |
| Channels, filters, static database, records | `ioc/db/dbChannel.c`, `ioc/dbStatic/`, `std/` | sequential: parsing, tables, one routine per record type |
| rest of pvAccess | `modules/pvAccess/` | get, put, RPC and process requests, search, beacons, the codec |
| CA client, pvData, QSRV, pcas | `modules/{ca,pvData,pvDatabase,pva2pva,pcas,...}` | protocol stacks of their own |
| asyn, autosave, seq, busy, calc, sscan, motor, iocTops | `src/support`, `src/motor`, `src/iocTops` | drivers and applications around base |

`PROJECT.json` lists all of them with the reason for leaving each out.


## 2. Modules

| Module | What it is |
|---|---|
| `DbEvent` | event facility of one client |
| `Monitor` | abstract: what a subscription promises |
| `DbEventMonitor` | refinement of `Monitor` by `DbEvent` |
| `MCDbEvent` | instances for TLC |
| `DbEventProofs` | theorems about `DbEvent`: types, rings, wakeups, the life of a subscription, counts; it implements `Monitor` |
| `Callback`, `MCCallback`, `CallbackProofs` | callback threads, instances, theorems |
| `Fifo` | abstract: what a ring promises the threads that share it |
| `RingPointer` | ring of pointers with its refinement of `Fifo` |
| `RingBytes` | ring of bytes with its refinement of `Fifo` |
| `MCRings`, `RingsProofs` | instances of both rings, theorems about them |
| `ScanList`, `MCScanList`, `ScanListProofs` | scan lists, instances, theorems |
| `ScanTasks` | threads of `dbScan.c` |
| `DbCa`, `MCDbCa`, `DbCaProofs` | CA links, instances, theorems |
| `Notify` | abstract: what `dbNotify.h` promises a client |
| `DbNotify`, `DbNotifyProofs` | put notify and record processing with its refinement of `Notify`, theorems |
| `Stream` | abstract: what a pvAccess subscription promises its user |
| `PvaMonitor` | a pvAccess subscription from end to end with its refinement of `Stream` |
| `MCRequests` | instances of `DbNotify` and `PvaMonitor` |
| `WriteNotify`, `WriteNotifyProofs` | puts with a reply of a CA client, composed with `Notify`; theorem |
| `MCServer` | instances of `DbEvent` and `WriteNotify`: what a client of the server waits for |
| `RecordLocks` | abstract: what locking promises the threads that process records (theorem in `ScanListProofs`) |
| `DbLock`, `MCDbLock` | lock sets with their refinement of `RecordLocks`, instances |
| `ThreadPool` | thread pools of libCom |
| `TimerQueue` | timer queues of libCom |
| `MCTasks`, `TasksProofs` | instances of `ScanTasks`, `ThreadPool` and `TimerQueue`, theorems about the three |

`Callback` takes push and pop as one step each. `RingPointer` with
`locked = TRUE` shows that they may be: its calls take effect at one moment, in
the order of the lock. In the same way `ScanTasks` takes put and get on `onceQ`
as one step on the strength of `RingBytes` (run without the lock, where
copies do overlap; the lock only removes interleavings).
`ScanList` and `DbNotify` hold lock sets for the length of a step or of a process
chain as `RecordLocks` promises, which `DbLock` implements. `DbCa` and `DbNotify`
take the queue of `scanOnce` as a sequence, as `ScanTasks` does, and `DbNotify`
takes callbacks as `Callback` promises them: run once if accepted, in any thread.
`WriteNotify` is composed with `Notify`: its calls of put notify and the callbacks it gets are
steps of an instance of `Notify`, which `DbNotify` is proved to implement. `Monitor`,
`Fifo` and `RecordLocks` are the interfaces for modules to come.

Definitions whose comment begins with "mutant" are plausible mistakes in the
code; no specification uses them. Each property is known to fail when the one
named in `PROJECT.json` takes the place of the correct definition.


## 3. How the models correspond to the code

A step of a model is a section of code that other threads can see only as a
whole: run under one lock, or a single access to shared state. `map` in
`PROJECT.json` names the lines of each definition. Names are those of the
source where TLA+ allows it.

### 3.1 DbEvent

*State.* The fields of `struct event_que`, `evSubscrip` and `event_user` are
variables of the same names, indexed by queue or cell. `pc`, `op`, `arg`,
`walk` are the place of an API thread in its operation, `tpc`, `tq`, `tev`,
`tlog` those of the event task, `ppc` and `todo` those of a record that posts.
`last` and `got` observe what was last queued for and given to a subscription.

*Actions.* `PostBegin`, `PostNext`, `PostSignal` are `db_post_events`, one turn
of the loop at a time; `PostSingle` is `db_post_single_event`; both queue with
`QueueLog`, whose two cases are the branches of `db_queue_event_log`. `AddBegin`
and `AddWalk` are `db_add_event`, `Enable` and `Disable` the calls of the same
name, `CancelBegin` or `CallbackCancel`, `CancelPurge`, `CancelWait` and
`CancelRecheck` are `db_cancel_event`. `FlowCtrl`, `PostLabor` and `Close...` are
flow control, extra labor and the end of a client: only the thread that closes waits for the
event task, and other threads may post labor until it is gone; what their own later use of a
freed client would do is not a step of `DbEvent`. `Task...` is `event_task` with `event_read`.

*Threads.* A client of the event facility is several threads: `rsrv` adds and
cancels from the TCP thread and enables, disables and posts from the access
security thread (`camessage.c`, `casAccessRightsCB`); QSRV shares one event
user between all threads of its server (`pdb.cpp`). `Calls` says which thread
calls what.

*Locks.* The locks are not variables: a lock is held across steps only where
the code keeps it while other threads may move, and the predicates `QueLocked`,
`RecLocked`, `ScanLocked`, `EvUserLocked` say where. A failed assertion
(`SlotTaken`) suspends its thread with the locks it holds, which is what
`assert` does in EPICS.

*Abstractions.* A field log is the value it copied. Which event classes and
filters let a subscription through is any subset of the monitor list. The
purge loop and its `event_remove` calls run under one lock and are one step.

### 3.2 Callback

Each worker goes through `start, loop, check, wait, pop, more, trigger, clear,
run, exit`, a shared access at each. A caller pushes and then signals, or sets
`queueOverflow`, in steps of its own: `CallerPush`, `CallerSignal`,
`CallerFull`. `Expire` is the timer's callback: it drops the request when it is
refused, as the code does. `Init...`, `Stop...` and `Cleanup` are the three calls of
`iocInit.c`. `Cleanup` happens with no request and no timer in progress, which
`iocShutdown` arranges for and `callbackCleanup` does not check. Statistics are
left out.

### 3.3 RingPointer and RingBytes

Every load and store of the shared fields is a step, in program order. The
indices and the slots are `volatile`; the model takes that to keep the order of
one thread's stores for the others, which is what the code relies on for its
lock-free use. With the lock the steps from call to return are the same but
cannot interleave. `RingBytes` copies byte by byte.
`epicsRingBytesPut` reads `nextGet` once (`oldGet`) and so does `get` with
`nextPut`; the sizes are computed from these.

### 3.4 ScanList

A list is the sequence of its records. `stale` is what `node.next` of a deleted
element still points to: the code follows it when it believes that the list is
unmodified. `StartScan`, `Process`, `Processed` and `Step` are `scanList`;
`BeginNested` and `BeginPut` are `dbPut` of a scan field up to `scanDelete`,
from within record processing or from `dbPutField`, and `EndChange` is the rest
with `scanAdd`. The lock of a list is held within one step; lock sets
(`LockSet`) are held across steps. The field `scan` stands for `SCAN`, `EVNT`,
`PRIO` and the list that the device support's `get_ioint_info` answers.
`steady`, `left`, `back` and `seen` observe one scan.

### 3.5 ScanTasks

`main` is the thread that runs `iocInit` and `iocShutdown`, as often as it likes
in one process. `RequestOnce` and `SignalOnce` are `scanOnceCallback`, by a
finite set of callers that may call again and again; `WaitOnce`, `GetOnce`,
`ProcessOnce` are `onceTask`; `Loop`, `WaitPeriod` and the rest `periodicTask`.
Time is not modelled: a period may end at any moment.

### 3.6 DbCa

One link of one record, as it is set, removed and set again: `ca[p]` is the `p`-th
`caLink` it gets, `chan[p]` the library's channel of it. A step is a section under
`caLink.lock`, with the section under `workListLock` inside it for `addAction`, or
what `dbCaTask` does between two such sections. `user` is the thread that sets, removes
and processes the record, with the record's lock; `task` is `dbCaTask`, whose
`TaskTake` copies `link_action` before it serves the bits in the order of the code,
`TaskListEmpty` finds the list empty under `workListLock`, and `TaskCtl` reads `dbCaCtl` after it;
`cb` is the library's thread, which runs one callback at a time and is waited for by
`ca_clear_channel`; `scan` serves `scanOnce`. `RemovePause` is the sleep of `addAction`
while too many removals are outstanding. A failed `assert` ends the behaviour
(`asserted`).

The channel's native type and element count are one member of `Shapes`, access rights a
subset of read and write. Left out: alarm severities and their writes, `dbCaGetAttributes`
and the callbacks of other link types, error events, statistics, the end of the
CA context.

### 3.7 DbNotify

The records form a chain: record `r` processes `r + 1` through its forward link, and a
link may be removed, which splits the lock set (`cut`). A thread that processes has
the lock set of its chain, and each section under the global lock is a step:
`dbProcessNotify`, `dbNotifyCancel`, `notifyCallback` with `processNotifyCommon`,
`dbNotifyAdd` and `dbNotifyCompletion`. `Elsewhere` stands for scans and puts by
others, `Work` for a callback, device or scan thread. `kind` is the type of request, whether a
put processes is any value, an asynchronous record stays busy until its device
completes. `cause` and `owed` observe for which request a record was made busy, and
that a put has found it busy. `refused` counts callbacks a full queue refused; the
code does not look.

### 3.8 DbLock

Jobs of a thread are `dbScanLock` of one record, a `dbLocker` of several (used again,
or with a record locked inside it), or a put to a link field. `dbLockGetRef` reads the
lock set under the record's spin lock, `dbScanLock` waits for the mutex and looks
again. `Update...` are `dbLockUpdateRefs`, a reference at a time, `Acquire` the loop of
`dbScanLockMany` with its restart when `recomputeCnt` has changed. `dbRemoveLink`,
`MoveRecord`, `SplitCounts`, `dbAddLink`, `MergeCounts` are `dbPutFieldLink`: records move
one at a time, as other threads can see them; `PutFails` is each of its exits.
`dbDbInitLink` loads the database, before other threads. Mutexes are counted
(`owner`, `depth`) as EPICS mutexes are. The address order of lock sets is taken
as the order of their allocation; the list of records of a lock set is derived
from `plockSet`. `dbLockCleanupRecords` runs alone at the end and is left out.

### 3.9 WriteNotify

A step is a section under `putNotifyLock`, a call of put notify, or a call of the event
facility's extra labor. `tcp` is the TCP thread: `Put...` are `write_notify_action`, with
`PutWake` and `PutTimeout` the two ends of its wait; `Cancel` and `CancelEnd` are
`dbNotifyCancel` for whoever calls it (`tcp.then` says where it goes on); `ClearChannel`,
`DestroyChannel`, `Free`, `Freed` are `clear_channel_reply` and `destroyAllChannels`, which
call `rsrvFreePutNotify`; `Disconnect`, `Flush` and `Close` are `destroy_tcp_client`. `done[c]` is the
place in `write_notify_done_callback`, `event` the event task in `write_notify_reply`.
`log` observes what has become of each put. A channel leaves `chanList` when its removal
begins, not at its end: for puts only the TCP thread looks at it.

`phase` and `canceling` are those of `Notify`; `Complete` is its `Done`, at any moment after
the put was asked for, or never for records that hang. A put to a link field calls back
from `dbProcessNotify` itself. `notifyOK` stands for every status but a cancel: the status of the
put itself is data. A freed structure has its fields reset, so that a use of it is seen by
`NoUseAfterFree`. The reply's header always finds room in the buffer (it
is flushed when full). Left out: puts that are refused before anything changes (type, access
rights, memory), a channel claimed again after it was cleared, and access rights replies.

### 3.10 ThreadPool

A step is a section under `pool->guard`, the wait for an event, or a signal given after the
guard was released. `worker[w]` is the place of a worker: created (`new`), waiting, woken, in a
job's function, leaving, gone. `WorkerBack`, `WorkerServes`, `WorkerLeaves` are the ways from
`:50` of `poolJob.c` to the next release of the guard, `WorkerNext` that from the end of a job's
function; between them `JobCalls` is what the function does. `Wake` says what
`epicsJobQueue` and `epicsThreadPoolControl` do to the counters, with as many new workers as
`epicsThreadCreate` provides. The guard is held from one wait to the next, so the moment in which a
woken worker counts as awake is seen by nobody. `failed` says that a `CHECKCOUNT` has failed: its
thread stops there with the guard, and so does everybody else.

### 3.11 TimerQueue

A step is a section under the mutex of the queue, or one outside of it: what `expire()` calls,
the clock, the sleep. The quantum is two ticks of the clock and `process` takes a timer as due half
a quantum early, as the code does. `clock` moves at any moment, so what a thread has read of it is
stale by any amount; it ends at `MaxClock`, and timers set beyond it never expire. `thread` is
`timerQueueActive::run`: it reads the list in `process`, and sleeps in a step of its own.
`Start`, `Cancel` and `Release` are calls by any thread, `ExpireCalls` those of `expire()` on its
own or another timer, `ProcessAfter` the rest of `process` after it with the restart it asked for.
Release of the queue happens with no other call under way.

### 3.12 PvaMonitor

A value is its number; a structure has one field, so that a value that takes the place of another
overruns it. `fifo` is the provider's queue: lists whose elements differ only in number are counted.
`Post` is `SharedPV::post` and `TryPost` what a provider with a `Source` does; what follows outside the
mutex, `notify()`, is the step `notify` of the same thread. `SendPoll`, `SendElement` and `SendNone` are
`send()` of the requester, which is in the transport's queue `sends` times; `ServerStart`, `ServerStop`,
`ack` and `AckReport` are `handleResponse`. `Response` and `Unlisten` are the client's `response()` and
`unlisten()` up to the end of the mutex, `ResponseEvent` and `ResponseUnlisten` the calls of the user
after it, `InitResponse` a subscription that is made, with the user's `monitorConnect()`, which starts
it unless the user is done. The user polls until `poll()` is false whenever it was told. `start()` while the client's queue
has values drops them, as the code does. `Lose` is a lost connection: the server's side goes, with
what was under way, and the client's channel connects again, to a PV whose type may have changed.

Left out: the data of values and the bits that say which fields changed, closing a subscription, errors
of the provider, a client in a pipeline whose `ackAny` exceeds the server's queue (it stalls,
section 7).


## 4. Runs

Bounds are CONSTANTS of the configurations. In every passing run each property
fails under its mutant, so the bounds are large enough for the case to happen.

| Run | Module | Instance | Shows |
|---|---|---|---|
| `DbEventRing` | `DbEventMonitor` | 2 subscriptions, one ring of 6 slots, one client with 3 calls of add, cancel and flow control, callbacks that cancel their own, 2 posts | the ring, room for each, no lost value, refinement of `Monitor` |
| `DbEventThreads` | `MCDbEvent` | two API threads: add, cancel, close; grant, revoke, labor. Rings that hold one subscription, so the second allocates a queue. Values posted by reference | accounting over queues, no use after free, quiet close, no lost wakeup |
| `Server` | `MCServer` | subscriptions: 1 with add, flow control, cancel, close and labor; or puts, 3 cases: one client with 2 channels and 3 puts, one of whose records hangs or is put to through a link field, or one channel with 3 puts; cleared or not, connected or not | delivery, return of cancel and close; one true answer for each put, none after its channel, queue and callbacks agree, the TCP thread comes back and puts are answered |
| `CallbackThreads` | `MCCallback` | 1 priority, queue of 2, 2 workers, a requester and the timer with 3 requests each, 2 starts | no idle worker, quiet stop, acceptance means running, stop returns |
| `CallbackFull` | `MCCallback` | 1 worker, queue of 1, 2 requesters | *violation*: section 7 |
| `Rings` | `MCRings` | pointers: 3 slots, two threads on each side, locked; or bytes: 3 and 2 of slop, blocks of 1 to 3 put and fetched by 1 or 3, a thread on each side, no lock | each is a queue |
| `ScanList` | `MCScanList` | 3 records of 2 phases, 2 lists, one scan, one writer, 2 lock sets | lists intact, in order and named by the fields; scans stay, miss nothing and keep the order |
| `Tasks` | `MCTasks` | scan threads: 2 periods, queue of 2, 2 callers, any number of starts; or pools, 5 cases: up to 3 workers, 2 jobs, 2 clients, with jobs that hang, pauses, waits with and without a time out, threads that cannot be created, destruction; or timers, 3 cases: 2 timers, 2 threads, restarts, cancels and destruction by `expire()`, the end of the queue | scan threads: handshake, no lost request, service, end; pools: counters, lists, flags and events agree, jobs are run, waits end; timers: order, no oversleeping, quiet cancels, expiry |
| `PoolDestroy` | `MCTasks` | the same | *violation*: section 7 |
| `DbCa` | `MCDbCa` | 8 links: inputs, CP inputs, outputs with and without callback; removed and set again, connection lost once or twice, with another type, with fewer rights, a full scan queue | references, work list and buffers agree, no use after free (`Consistent`); one put callback; no lost scan and inputs monitored (`LinkValues`); removed links freed, unless left behind at shutdown |
| `Requests` | `MCRequests` | put notify, 6 cases: 2 clients on a chain of 2 or 3 records, some asynchronous, busy, disabled or cut off, restarts, cancels, a refused callback, 2 workers; or a subscription, 9 cases: queues of 1 to 3 elements, a window of 2 or 3 or none, 2 to 4 values, a restart, an end, a lost connection, a Source that heeds the queue or does not | put notify: who owns what, done means done, refinement of `Notify`, requests and waits end, owed processings happen; subscription: elements, window and queues agree, refinement of `Stream`, the newest value and the end are seen |
| `DbLock` | `MCDbLock` | 6 cases: 3 threads, 3 records, up to 6 lock sets, lockers of 2 records used once or twice, up to 3 puts to link fields | counts and free list agree and lock sets are the connected records (`Consistent`), refinement of `RecordLocks`, everybody ends |

`Consistent` (of `ScanTasks`, `DbCa`, `DbNotify`, `DbLock`), `PutsConsistent`,
`PoolConsistent`, `TimersConsistent`, `MonitorConsistent` (that of `PvaMonitor`) and `Inv` (of `ScanList`) are the conjunctions of the parts named above them in the modules, the type invariant
first: what the variables of the module say of each other.

`MCRings`, `MCServer`, `MCTasks` and `MCRequests` check several modules in one run: each behaviour is one of a
single module, chosen at the start, and the variables of the others stay as they begin. This says no
more and no less than runs of their own.

Why these bounds are enough for the questions asked:

- *Two subscriptions* are needed for one to fill the ring of the other, for
  duplicates beside firsts and for a cancel in the middle of another's entries.
  The quota admits one subscription less than a ring has room for, so a ring
  of six slots with two entries each (`EVENTSPERQUE = 3`) is the smallest with
  two. The code has 36 and 4; every safety property of `DbEvent` is proved for
  every size.
- *Two posts* beside the first value give a duplicate, a replacement and a
  wrapped index; `putix` and `getix` go round the ring in the run.
- *Two queues* are the least for a search, and for the event task to pass from
  one to the next with flow control on.
- *Two workers* are the least for the shared event to go to the wrong one; two
  starts, for what a first run leaves behind.
- *Three records* are the least for a current record with both neighbours, which
  is all `scanList` remembers. The state constraint `PhasesOnFirst` keeps `PHAS`
  at one value for records that are off the list that is scanned; they come
  back with any phase, and the order of lists is proved without the constraint.
- *A ring of two or three elements* has every relation of the two indices.
- *Two caLink structures* are the least for a link set again while the earlier one
  still has references; one suffices for what comes of lost connections. With
  three, removals outstanding reach the limit again, which ends in the deadlock of
  section 7. Each instance varies one or two of type, rights, losses and removal;
  all at once are too many states, and the cases differ in the code they reach.
- *A chain of three* has a record in the middle that is reached through one
  request and starts another; two requests are the least for a restart.
- *Three records, three threads* are the least for a lock set to be split from one and
  merged with another while a third thread waits; each case of `MCDbLock` is a
  different shape of links.
- *Three puts* of one channel are the least for a put that waits behind one that waits; *two
  channels* for a signal of `blockSem` that is another channel's, and for a client with
  one channel destroyed and one not.
- *Two workers, two jobs, two clients* are the least for a worker that takes the job another
  was woken for, and for an observer that wakes another; *three workers* for a signal that is
  passed along to one and due to another. The cases of `MCTasks` differ in the operations.
- *Two timers, two threads* are the least for a timer put before another while the thread goes to
  sleep, and for two cancels that share the event; *two runs* for a cancel that must tell one
  run of a timer from the next.
- *Queues of one to three elements, a window of two or three*: one element in the server's queue makes
  every second value take another's place; two in the client's are the least (one that
  the user has, one that collects). Four values fill both queues and the connection; one lost
  connection leaves elements and marks of the first in the second. A user restarts or loses
  the connection in instances with few values: the properties of both together add states and no case.
- In `DbEventRing`, `DbEventThreads` and `ScanList` the cells, or the two records
  of one lock set, are interchangeable, so symmetry is sound; none of these
  runs checks a liveness property.

Deadlock is not checked in the `DbEvent`, `Callback`, `DbCa`, `Requests`, `DbLock`, `Server` and `Tasks` runs:
their threads make a bounded number of calls and the system then rests. That
they do not wait for each other is what `CallbacksServed`, `EventsServed`, `LinkFreed`, `RequestsEnd`,
`AllEnd`, `PutsEnd`, `ScansServed`, `PoolServes`, `TimersServed` and `MonitorServed` say. The other models run for
ever and are checked for deadlock.

`Monitor` is refined for channels that queue a copy of the value (`RefRecs = {}`);
by reference a callback reads whatever the record holds then, and the run
`DbEventThreads` checks the rest of the properties for that case.


## 5. Fairness

Only runs with liveness properties use a fair specification, and no client,
operator or driver ever has to do anything.

- `DbEvent`: `WF(TaskStep)` since a thread that can run does (callbacks return),
  `WF(PostStep(r))` for the same reason, and `SF(ThreadStep(t))`: a step of an API
  thread waits for mutexes that the event task takes again and again, and
  a thread that keeps finding an EPICS mutex free in the end gets it.
- `Callback`: weak fairness of each worker, each request under way, and of the
  start and stop sequences; not of `InitBegin`, `StopBegin` or of requests.
- `ScanTasks`: weak fairness of each thread; the IOC need not be stopped.
- `DbCa`: weak fairness of `dbCaTask`, of the thread that serves scans, of the
  library's callbacks once they have begun, of a removal under way and of `dbCaRun`
  (the IOC is started). The server need not connect or answer.
- `DbNotify`: weak fairness of a thread that is at work, of devices (a record that
  started completes), of callback threads, and of a client whose signal has
  come. `RequestsEnd` has its exceptions in the formula: a callback that was refused,
  a link that was removed.
- `DbLock`: weak fairness of each thread. `Cases` give it a finite list of jobs, so a
  mutex is contended for finitely often and strong fairness is not needed.
- `WriteNotify`: weak fairness of the TCP thread while it is at work, of the event task and
  of callbacks; a minute passes; records complete, but for those of `hangs`. The client
  need not put, clear or disconnect.
- `ThreadPool`: weak fairness of workers, of the return of the functions of jobs except those of
  `hangs`, and of clients that wait or destroy the pool. No client has to call. Several workers
  that wait for one event compete for it, and weak fairness is all that is assumed of who gets it.
- `TimerQueue`: time passes, the queue's thread goes on, `expire()` returns, threads in a call go on.
- `PvaMonitor`: every thread that has something to do goes on, a connection that was lost is made again, the
  user who was told polls, the provider posts. The user need not stop or start again.
  `AllEnd`, `LinkFreed` and `MonitorServed` have the form `[]<>P` of a thing that happens again and again; what
  they ask for stays once it has come, so it comes and stays.
- `ScanList` and the rings have no liveness property. A scan need not end: records
  that write each other's scan fields can keep one going (section 7).


## 6. Proofs

TLAPS proves the following for every value of the constants under the ASSUMEs
of the modules, which ask only for what the code does: positive sizes and
distinct names. TLC has checked each of these formulas, strengthenings included,
as an invariant before; what is proved for every value and follows from another
property of a run (`Measures`, `MarkCovers`, `ListIntact`, most type invariants) has no run
of its own.

**DbEventProofs.**

- `TypeCorrect`: `Spec => []TypeOK`, one step for each of the 33 actions.
- `RingIntactHolds`: the entries of a ring are one run of slots from `getix` to
  `putix`. Four lemmas about `OneRun` say what an append, a removal and a
  purge do to it; only `PostNext`, `PostSingle`, `CancelPurge`, `TaskSkip` and
  `TaskTake` touch the slots. The append needs the assertion of the code
  (`~SlotTaken`): where it fails the thread is suspended; that it never fails is
  `RoomForEachHolds`, below.
- `PurgeComplete`: the loop of `db_cancel_event`, which stops at the first empty
  slot, has then removed every entry of the subscription.
- `NoLostWakeupHolds`: no queue is left with something to deliver while the task
  sleeps and no signal is on its way. The inductive invariant is `TypeOK`,
  `RingIntact`, `QueuesUsed` and `NoLostWakeup`. `RingIntact` gives `EmptyRing`: an
  empty slot at `getix` means that `ringSpace` is the whole ring, so an entry
  that does not signal was put behind another one. `QueuesUsed` (the task's round
  begins with the first queue, and queues beyond `nque` are empty) is needed
  for the moment the task goes to sleep after the last queue. Under flow
  control the argument is that an entry behind another one of its own never
  becomes a duplicate, and switching it off signals.
- `NoUseAfterFreeHolds`, `CloseIsQuietHolds`: the life of a subscription. The
  invariant `LifeInv` says who has which cell: `CellsOK` (a subscription in use is an
  allocated cell, and only such are on monitor lists), `ListsOK` (what a record has still
  to post to stays on its list), `SlotsOK` (the entries of a ring are of subscriptions in use,
  assigned to it), `HeldOK` (what a thread knows of its subscription at each place of
  an operation), `ExclusiveOK` (no two threads work on one subscription, but a change of access
  rights may come to one that is being added), `CallbackOK` (the subscription in a callback is
  marked, so that a cancel waits for it, unless the callback itself has canceled it) and
  `CloseOK` (once the task is to exit every subscription has been canceled). The
  hypothesis is `CallbackCancels # "any"`: a callback cancels nothing, or only the subscription
  it is called for. With `"any"` the property is false of the code (`dbEvent.c:620`, section 7).

*Counts.* `CountInv = PendOK /\ CountOK /\ QuotaOK /\ NewestOK`: `npend`
is the number of slots a subscription has in its ring and `pLastLog` the newest of them;
`nCanceled` and `nDuplicates` are the numbers of placeholders and of entries that are not the
newest of their subscription, the latter at most `EVENTQUESIZE - EVENTSPERQUE`; the quota of a queue
leaves one share of its ring free; the newest value is in the newest entry, on the way to its
callback, or seen. `AccountingHolds` and `NewestDeliveredHolds` read off it. `RoomForEachHolds`
puts the numbers together: were a ring without a placeholder full for a subscription with no entry in it,
at least `EVENTSPERQUE` entries would be the newest of their subscriptions, which are members of the
queue and other than this one; but the quota admits at most `EVENTSPERQUE - 2` such members.
The sets of slots are counted with the library's theorems on finite sets, without induction.
Hypothesis: as for `LifeInv`.

*Refinement.* `ImplementsMonitorHolds` is the complete refinement
`Spec => ImplementsMonitor`. What waits for a subscription is the sequence of the values in its
slots by age (`Place`, `Nth`, `Listed` of `DbEventMonitor`); lemmas say what an append, a
replacement, the removal of the oldest and a purge make of it. Each step of `DbEvent`
is then one step of `Monitor` for one subscription, or a stutter. Hypotheses: as for `LifeInv`,
and `RefRecs = {}`: channels queue copies of values (section 4).

**CallbackProofs.** `Inv = TypeOK /\ LifeCycle /\ NoIdleWorker`. `LifeCycle` says
which workers exist in each phase of start and stop and that `threadsRunning`
counts them, up to the one just started. `CallbackTypes`, `NoIdleWorkerHolds`
and `QuietAfterStopHolds` follow, for any number of priorities and workers.

**RingsProofs.** *Pointers.* `RInv = TypeOK /\ Exclusive /\ Stable`. `Exclusive`: one
thread at a time on each side, by the lock or by assumption. `Stable`: what a
thread has tested stays true while it goes on, because the other side only makes
room, or only adds. `RingImplementsFifo` is the complete refinement
`Spec => Fifo!Spec`: each step is a step of the queue or a stutter.
`MeasuresHold` and `MarkCoversHolds` use the same invariant.

*Bytes.* `BlocksImplementFifo`, the same for the ring of bytes, whose put and get copy
one byte at a time. `BInv` has `BlockExclusive` and, for each side, what it relies on: a block that is put
has room for all of it and the bytes copied so far are in the slots from `nextPut` on
(`PutStable`); a get has copied the first bytes stored, and as many as it will take are there
(`GetStable`). Neither side writes a slot the other reads, since the slots less than a turn from
`nextGet` are all different (`AtApart`). The measures of the code are proved to say what they are for: `FreeBytes` is
the room, and `Fetched(n)` the smaller of `n` and what is stored, wrapped or not (`BlockUsed`).
The theorem is about the instance of `RingBytes` in `MCRings`. Hypothesis: `RingAssumption`, which `MCRings` assumes of it.

**ScanListProofs.** `Inv = TypeOK /\ ListIntact /\ FieldsName /\ LocksHeld /\
OffList /\ CursorSet`: the record a thread is changing is locked by it and on no
list, and a scan under way has a record. `StaysOnListHolds` assumes `OneScanner`,
no two scans of one list, and adds `CursorFresh`: while the flag `modified` is
clear the record the scan has come to is still on its list. Without the
assumption the theorem is false: TLC finds two scans of one list that break it (section 7).
`InPhaseOrderHolds` and `NothingSkippedHolds` (same assumption) need `HistoryOK`: as long as no
record that left has come back, each of `pse`, `prev` and `next` has left the list, or parts it: the records
that stayed and stand before it are those the scan has processed. Deleting another element, or
inserting one, does not change what stands before an element (`BeforeRemoved`,
`BeforeInserted`), so that the three remembered places stay right, and whichever of them is still on
the list leads to the next record that has not been processed.

*Lock sets.* `ScanList` gives each lock set at most one owner. `LocksKeepApart`: as `RecordLocks` lets
threads lock, unlock and change links, no two threads have one record and each has what links
connect with the records it locked. The argument is that a link changes in the hands of a
thread that has both ends, so that no other set of records is opened by it. With the
refinement TLC checks (`ImplementsRecordLocks`) this is what a thread that processes
records can rely on.

**DbCaProofs.** `LinksConsistent`, `CallbackOnce` and `ValuesArrive`, for any number of structures, any
types, rights and connections lost. They need one invariant together, `CaInv`: with the parts of the properties
that are inductive as they stand, the following. No step of the code sees all
who use a structure, so most of it says who may.
`Linked` gives each structure an owner (`Owned`): the link, `CA_CLEAR_CHANNEL` among its actions, or the thread that
removes it; with no owner only `dbCaTask` is left, and after it nobody. `Listed` is `OnListOnce`
with the converse, that without actions a structure is not on the work list, and with the wait of
`dbCaSync`; `Removes` is what `removesOutstanding` counts. `InHand` is about what `dbCaTask` and the scan
thread have taken from a queue: it has an owner while its actions are served; a structure about to be freed
has no reference, no owner and no scan request, and only one of the two threads frees it. From
these follow `RefsCounted` and `NoUseAfterFree`.
`Channeled` is about the library: a channel is created once, exists until its structure is freed, and a
callback under way is for a channel that exists. `Scans` adds to `OneScan` that a link that counts no
scan has no request even if one was refused, which is what `scanLinkOnce` relies on.
`Buffered` says that the buffer of each write in hand, and of each subscription made or asked for, is
there as long as the channel has had one type, so that the assertions hold; with more
types they fail (section 7). `Answering`: while the record is busy its callback is kept by one structure or called by
one of three threads, never both. `Monitored` is `InputMonitored` without its condition that the channel
is settled: what a link reads is subscribed to, about to be, or its flags will ask for it when the
connection is known.
The number of times a structure is in a queue is a cardinality of positions; lemmas say
what an append and the removal of the head make of it, so that no sum needs unfolding.
Hypothesis: `CaAssumption`. It asks for finitely many types and for a limit of scans that is more than 1
(`dbCa.c:764` has 5): with a limit of 1 the scan of news that come during a scan would be dropped.

**TasksProofs**, which is about the constants `MCTasks` assumes for its instances.

*Scan threads.* `ConsistentHolds`, for any number of periods and callers and any size of
`onceQ`. Strengthening: `Stage` gives the places of all threads for each place of the thread that
starts and stops them, and whom `startStopEvent` is from; `NoExitYet`: the entry that ends
`onceTask` is in the queue only when `scanStop` has put it there; `Woken` is `NoLostOnce` from the
moment the queue is there.

*Thread pools.* `PoolConsistentHolds`, for any clients, jobs and sizes of the pool, with threads that
cannot be created or can. The invariant is `PoolInv`. `Counted`: each counter is the number of workers at the places it stands for, and
before the shutdown the first `threadsRunning` workers exist and no other, so that
the one `createPoolThread` adds was not counted; that no more are counted as woken than sleep holds unless a
`CHECKCOUNT` has failed. `Observed`: `observerCount` is the number of clients that wait. `Placed`: the run queue is
the jobs queued and not running, each once, each running job is with one worker, and a freed one is nowhere.
`Manned`: a pool with jobs in its queue has a worker, without which `NoneStranded` would say
nothing. `Ending` is the order of destruction: nothing is added once the options are frozen, all is idle
before the shutdown, and the last worker and the client that frees the pool agree that nobody
is left. Counting is by the library's theorems on finite sets, one worker changing its place at a time.

*Timers.* `TimersConsistentHolds`, for any number of timers and threads. The invariant `TInv` says that the list is the
pending timers, each once and in the order of their times, and that a timer is active exactly while
it expires and has not been canceled (`ListOK`); that what is to expire was asked for
(`RunsOK`); that a destroyed timer, or one whose destructor waits, stays in limbo (`FreedOK`); and that
the run a waiting cancel has found stays canceled until it is over, so that it is over when
the waiter goes on to signal (`ClientOK`). `NoneOverslept` is inductive with these: a timer put first on
the list sets `rescheduleEvent`, and taking one off only moves the first time later. Lemmas about
`RemoveAt` and `InsertAt` say what they leave of the order. `ExitOK` is for the end of the queue: its
thread has left when the destructor goes on. Hypothesis: `TimerQueueAssumption`, which asks for
constants of the right kind, and which `MCTasks` assumes of its instance.

**WriteNotifyProofs.** `PutsConsistentHolds`, for any channels, puts and records that hang. The invariant `PInv` follows
each put through the hands it passes. `InHand`: what the TCP thread is at, and that a
structure is that of a channel on the list or of the one it frees. `Requested`: a request
that may still call back is that of a put its channel is busy with, and `dbNotifyCancel` has ended it
where the TCP thread goes on to answer or free. `Busy`: the last put of a busy channel is in the
history, without a reply, and not in the hands of the event task. `Marked`: a mark
`onExtraLaborQueue` without a busy channel, as `PutRecheck` leaves it, is about to be cleared: before
the next request its callback would take it for a second call. `Sending`: the reply in the hands of the event task is of a completed put, on a
channel that is on the list or that the TCP thread still waits to clear. `NoneForgotten`, `Trapped`, `Queued`
and `Served` are the parts of the property with what they need of each other. Lemmas about
sequences say what `ellDelete`, `ellGet` and `ellAdd` make of a queue without duplicates. Hypothesis:
`WriteNotifyAssumption`, constants of the right kind. The steps of `dbNotify` are those of `Notify`, which
`DbNotify` is proved to implement.

**DbNotifyProofs.** `RequestsConsistent`, `DoneHolds` and `RequestsPromised`, for any number of clients and
threads and every chain of records. They need one invariant together, `NotifyInv`. Of the properties it has
`OwnersAgree`, `OneCallback` and `PvtsReturned`, which say too little of the threads. `Places`: what a thread has to do with
a request, and that one thread at most calls `doneCallback` for it. `Locks`: a thread at work has
every record from where it began to where it is, and no other thread is in that lock set. `Life` takes
a request from `dbProcessNotify` to the end of its callback or cancel: when it has its notifyPvt, who waits with which
flag, and which signal it will get. `Lists` adds to `OwnersAgree` that a record is once on a waitList,
that a request restarts with its own record alone, and that one that has been canceled owns nothing. `Putf` is
`PutfEnds` with the thread about to process the record. These hold though links are removed.
`Chain` is for a chain that is whole, where one thread at a time processes: what a thread read of a record's owner
is still so (`HoldsOwner`); a record that completes at once is busy or owned only while a thread
is at it or past it (`SyncFree`), so that only records that complete later are waited for (`AsyncOnly`); the record
that a request left busy is one it owns (`CausesOwned`), and a thread at work for a request
owns, for it, all the records it will come back to (`PathOwned`). `DoneMeansDone` follows from `CausesOwned`, and
`AssertsHold`, which is for whole chains as well, from `HoldsOwner`, `Life` and `OneCallback`.
Every step has a lemma; a step that calls `processNotifyCommon` or `restartCheck`
has one for each outcome, shared by the actions that call them. How often something is in
a list is a cardinality of positions (`Times`), and `ThoseTimes` says what selecting from a list (`Those`)
leaves of it; `restartCheck` of several records at once is reduced to "each heir once" by `HeirsTimes`.
For the refinement (`RequestsPromised`) each action is one of `Notify` for its client, or changes neither
who calls whom nor what has been served (`Quiet`). Hypothesis: `NotifyAssumption`: finitely many clients and
threads, a chain of records, and cases of the right kind.

Left to TLC:

- every liveness property: fairness and ENABLED are out of the prover's reach;
- `DbLock`: its invariant would say that the reference count of a lock set is the number of references in
  the local variables of all threads, several in one thread: a sum over threads that the prover cannot
  unfold without induction;
- `PvaMonitor`: what is acknowledged is a fold over the messages under way and what was received is
  selected from another sequence by a recursive definition: induction over data again.

No module uses RECURSIVE operators.


## 7. Where the code and its documentation disagree

Shown by a run, and listed under `findings`:

- `CallbackFull`: `queueOverflow` is set after the push has failed. When the workers
  have emptied the ring in between, nobody clears it, and the priority refuses
  every later request.
- `PoolDestroy`: a worker that leaves releases the guard and then signals `workerWakeup` for the
  next one (`poolJob.c:113`). When that event is already set the next one leaves without
  it, and says that it is the last; `epicsThreadPoolDestroy` frees the pool while the
  first has yet to signal.

Found by TLC with other constants or a stronger property (its name in
parentheses), without a run of their own:

- `dbEvent.c:625` (`CancelReturns` with two threads that cancel): `pflush_sem` is one
  binary semaphore per event user. Two threads that cancel different
  subscriptions while both have a callback in progress may take each other's
  signal; one then waits for ever.
- `dbScan.c:1008` (`StaysOnList` with two scanners of one list): `modified` belongs to
  the list, not to the scan. Two threads that scan one list clear it for each
  other, and one goes on from an element that is no longer on it.
- `dbScan.c:172` (`StopJoins` with a queue of one): `scanStop` does not look at the
  result of `scanOnce`. With the queue full at that moment `onceTask` is never told
  to end, though `iocInit.c:720` says that threads are joined.
- `dbCa.c:136` (`NoneForgotten`): `addAction` reads whether the link is on the work list,
  then may sleep with the lock released; if `dbCaTask` serves the earlier action
  meanwhile, the removal is put on no list and is forgotten.
- `dbCa.c:1120`, `:911` (`NoAssertFails` of `DbCa`): the assertions that the buffers
  exist fail when a channel comes back with another type between an action and
  its service.
- `dbCa.c:1118` (`PutAnswered`): a put with a callback is dropped when the channel
  has disconnected since, or when the library refuses it; its record then stays
  busy. The comment at `:116` says that the callback is called exactly once.
- `dbCa.c:1082` (`CallbackCalled` with `AsyncShutdown`): `dbCaTask` finds its list empty, unlocks it and then
  reads `dbCaCtl`. A removal and `dbCaShutdown` may come in between (`iocInit.c:716`, `:729` make these calls one
  after the other); the task then ends with the removal on its list, the structure is never freed and the
  callback of a put never called, of which the comment at `:126` says that it will be, exactly once.
  `LinkFreed` excepts such a structure (`LeftBehind`).
- `dbCa.c:143` (`RemoveReturns` with `Async3`): a thread that removes a link sleeps with
  its record locked until `dbCaTask` has cleared channels; `dbCaTask` may be waiting
  in `ca_clear_channel` for a callback that wants the record.
- `dbNotify.c:447`, `:479` (`NoAssertFails` with `Splits`): `ppn` is read before the global
  lock is taken. A cancel in another lock set may give the request back in
  between, which the comment at `:80` excludes.
- `dbLock.c:65` (`IdsBounded`): the comment says that with the free list there are
  never more lock sets than records and one. A lock set that a waiting thread
  still refers to is not on the free list, and the first id is 2.
- `camessage.c:1631` (`NoneFreedInUse`): "if any possibility that the put notify is outstanding
  then cancel it" looks at `busy`, which the event task clears while `doneCallback`, or
  `callDone` after it, may still run; the structure is then freed under it.
- `caservertask.c:1212` (`ClientInUse`): `destroy_tcp_client` waits for extra labor, not for
  callbacks: one that has queued its put may post labor to a client that is gone.
- `dbNotify.c:393` (`FailureTrue`): a cancel marks the request canceled before it looks whether it
  is done. A put that completes just then, and whose reply the event task sends, is told to the
  client as failed (`camessage.c:1412`).
- `poolJob.c:72` (`PausedIsQuiet`): `epicsThreadPool.h:85` says that with the option off workers
  are prevented from running jobs. A worker that is at work looks at `pauserun` only
  when it next sleeps, and goes on to the jobs in the queue.
- `poolJob.c:278`, `:294` (`failed`, with `fails`): when a worker cannot be created and others exist,
  one more is counted as woken than sleep, and the assertion of `CHECKCOUNT` stops the thread
  with the guard held.
- `monitor.cpp:489` (`PipelineServed` with `Windowed`): in a pipeline and with `post()`, a value that waits while
  the window is closed gets no event when an acknowledgement opens it: without a `Source`
  `reportRemoteQueueStatus` returns before `notify()`. `documentation/release_notes.dox:127` of pvAccess says
  "PVA Server now handles pipeline=true automatically for all ChannelProviders."
- `clientContextImpl.cpp:1979` (`AllReceived` with `Finished`): the user is told of the end at once when
  `m_monitorQueue` is empty, though the overrun element waits; its value is never seen. `client/pva/client.h:142`
  says of `complete()` "true if all events received.", `clientContextImpl.cpp:2321` "unlisten will be called
  when all the elements in the queue gets processed".
- `clientContextImpl.cpp:2090` (`StructuresMatch` with `Retyped`): `init()` leaves the overrun element of the
  connection before, and `start()` puts it among the free elements. With another type the
  assertion at `:1956` fails at a later response.

Met while reading and modelling:

- `dbEvent.c:823`: the assertion that a slot is available can fail: canceled entries
  keep their slots, and the quota test counts those of one moment only.
  `RoomForEach` therefore has the condition that none is canceled.
- `dbEvent.c:620`: `pSuicideEvent` is set by every cancel from the event task, also
  of another subscription than the one whose callback runs, although `:93` calls
  it the event that is deleting itself. A callback that cancels another's leaves the mark
  set, and a later callback of a reused cell is taken for a suicide
  (`CallbackCancels = "any"`; the runs use "own").
- `dbEvent.c:559`: `event_remove` nulls the field log of a canceled entry without
  freeing it, as its comment (`:551`) says; nothing frees the log later.
- `callback.c:238`, `:271`, `:384`: requests accepted but not popped are dropped by
  `callbackStop`; the timer queue is released after the rings; the timer's callback
  ignores a refusal.
- `epicsRingBytes.c:247`: the reset of the high water mark subtracts the wrong way
  round for a ring that is not empty (`epicsRingBytes.h:126` promises the current
  usage).
- `dbScan.c:1015`: a record that leaves its list and comes back while it is being
  processed takes the scan to its new place; records in between are skipped
  or processed again. `InPhaseOrder` and `NothingSkipped` have the condition that
  none came back. Records that write each other's scan fields can keep a scan going.
- `dbCa.c:759`: `scanLinkOnce` counts a scan that was refused, which its comment at
  `:766` does not allow for; after one overflow the link is never scanned again.
- `dbCa.c:1176`: a subscription that is tried while the channel is lost is not tried
  again; a link that comes back with another type is subscribed again only when its record
  reads it; a put that completes late answers the put after it. `:108` says that
  `dbCaTask` locks no record, which the callback of a put does. `dbca_chan_count` is
  changed by two threads without a lock (`:182`).
- `dbNotify.h` says that a client may issue a new request from its callback: it would
  wait for the callback it is in (`dbNotify.c:367`), as would a cancel. It also says that a
  process request processes the record: the branch of `processRequest` does
  not (`:241`).
- `dbNotify.c:169`, `:466`, `:470`: results of `callbackRequest` are ignored; a full queue
  loses a restart or an answer. A cancel and a new request that both wait for one
  callback wait for ever (`:184`): the model's clients do one thing at a time.
- `dbDbLink.c:25`, `recGbl.c:286`: a record found busy by a put is processed again, but
  with `PUTF` clear, so that put notifies do not wait for it; whether `scanOnce` took the
  request is not looked at.
- `poolJob.c:302`: a job that is unqueued while the pool is paused empties the queue without a
  signal to observers: `epicsThreadPoolWait` does not return until something else happens.
- `timer.cpp:141`: a cancel waits only for the run of `expire()` that it finds active. A
  second cancel, or one after `expire()` has canceled or started its own timer, returns at once while
  it runs.
- `timer.cpp:78`, `:145`: whether the timer is the first of the list is asked after it
  was removed, so it never is, and the thread is not woken where this was meant.
- `timerQueue.cpp:170`: half a quantum is taken off twice of the expiry of a timer that is started
  while it expires; a restart delay of half a quantum or less would keep `process` going for ever. `delays` are longer.
- `dbScan.c:344`: when `get_ioint_info` fails while a record is taken off its I/O Intr list, the
  record stays there and `scanAdd` links its element into a second list. Device support is taken to
  answer both calls alike.
- `monitor.cpp:202`: `finish()` of an empty queue before `start()` tells nobody, then or later
  (`providers.dox:308` of pvAccess has no such condition).
- `clientContextImpl.cpp:2082`: `start()` after `stop()` drops the elements that wait; in a pipeline their releases are
  never acknowledged and the window shrinks. `:2209` tests `m_ackAny <= m_queueSize` where the
  `size` just read is meant. After a reconnect the overrun and the element the user holds are added to the new
  free elements.
- `monitor.cpp:77`: the server's queue is cut to `maxCount`, 4 by default; where the client's `ackAny`, half its `queueSize`
  by default, is larger, fewer elements are out than an acknowledgement waits for, and the stream stalls. `:489` also asks for two empty elements before a
  `Source` is told of room.
- `devAiSoftCallback.c:175` calls `dbProcessNotify` with its own record locked, so a thread
  may have two lock sets without a `dbLocker`.


## 8. What is not modelled

Besides the components of 1.2:

- data: values, time stamps, event classes, field log contents, priorities of
  threads, and therefore priority inversion;
- memory exhaustion, except for cells and queues (`db_add_event` fails when no
  queue can be allocated);
- `db_start_events` (the event task is taken to run), reports and statistics;
- the timing of `periodicTask` and its overrun messages;
- failing device support: `get_ioint_info` answers alike for the same fields;
- weak memory order beyond `volatile` (section 3.3);
- drivers that still use `IOSCANPVT` after `scanCleanup`: nothing in the code waits
  for them;
- in `DbCa` several links that share `dbCaTask` at once: one link after the other has
  the steps in which structures meet, on the work list and in the queue of scans;
- in `ThreadPool` `epicsJobMove`, pools shared by `epicsThreadPoolGetShared`, reports; in `TimerQueue`
  passive queues, the sharing of queues by several users, `show`;
- in `DbNotify` record networks other than chains, and in `DbLock` a record locked
  outside the lock sets of a `dbLocker` the thread has.


## 9. Plan

In order of importance; each module comes with its runs, and the passing runs of
new modules take the places of violation runs where there are too many.

1. `DbEvent` with `Monitor`: done. All its safety properties and the refinement are proved.
2. `Callback`, `RingPointer`, `Fifo`: done and proved, but for liveness.
3. `RingBytes`: done and proved.
4. `ScanList`, `ScanTasks`: checked, and all their safety properties proved.
5. `DbCa`, `DbNotify` with `Notify`, `DbLock` with `RecordLocks`: checked; the safety of `DbCa` and
   `DbNotify` proved. To be proved: `FreedExactly` of `DbLock`, with what a locker's references and mutexes
   are at each step as strengthening.
6. `WriteNotify`, puts with a reply over `Notify`: done; its safety is proved.
7. Networks of links in place of chains for `DbNotify`, and as the body of
   `ScanList`'s `Process`.
8. Channels and I/O interrupt lists of `dbScan.c` with device support that fails.
9. `rsrv`: subscriptions and access rights of a client, composed with `Monitor`.
10. libCom: `ThreadPool` and `TimerQueue` checked and proved, but for liveness. Then `TimerQueue` in place of `Callback`'s `Expire`, and the error
    log.
11. Around base: asynManager's port queue, autosave's files, the sequencer's
    completion of puts.
