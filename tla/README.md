# HiPeRT Generator Tool: specifications, model checking and proofs

HiPeRT Generator Tool reads task graphs (DAGs), builds a model of them and
generates a C program that runs each DAG as a periodic real-time task on
pthreads.  This directory holds TLA+ specifications of that program, of the
`ptask` library it is linked to and of the tool's own front ends, TLC
configurations that check them, and TLAPS proofs about them.  Paths below are
relative to the repository root, which is `src/` in `PROJECT.json`.

## 1. The system

```
 DOT files --SwtGui / hgGUI--> XMLGenerator --> DagSet model --modelToCode/*.egl--> C program
 Amalthea --frontend/amalthea--> response times                        |
                                                                       v
   main -> ptask tasks (one per DAG) -> node threads, wait_finish thread
             |                            |
    ptask.c, rtmode.c, pbarrier.c,     _hgr.c, _hgr_computation.c,
    ptime.c, tstat.c                   hgr_common.c
```

| Component | State | Operations | What is hard |
|---|---|---|---|
| Generated DAG task (`modelToCode/task.egl`, `runtime/src/config/pthread_runtime/_hgr.c`, `runtime/src/_hgr_computation.c`) | one mutex per edge, `lock_start`, `var_condition`, `premMutex`, node threads | loop of the periodic task, node threads, `wait_finish` | mutexes locked and unlocked by different threads, an unprotected counter, a busy wait |
| Generated main (`main.egl`) | task index | create tasks, join, destroy | joins one task only |
| ptask: descriptor pool (`runtime/lib/ptask/ptask.c`) | `first_free`, `_tp[i].free`, `_tp_mutex` | `allocate_tp`, `release_tp`, `__create_internal`, exit handler | a read before the lock, failures half-way |
| ptask: activation | `state`, `_tsem`, `at`, `dl`, `offset` | `ptask_activate[_at]`, `ptask_wait_for_activation`, `ptask_wait_for_period` | state written outside the mutex, semaphores that survive reuse |
| Mode manager (`rtmode.c`) | mode table, `curr_mode`, request queue, `maxsem` | `rtmode_changemode`, `mode_manager`, `maxsem_post/wait` | lost requests, unbounded indices, posts that count for the wrong change |
| Barrier and semaphore (`pbarrier.c`) | `arrived`, `reference`, `nsignals`, `narrived` | `pbarrier_wait`, `gsem_wait`, `gsem_post` | `if` around a condition wait, a read after the unlock |
| Time (`ptime.c`), statistics (`tstat.c`) | `tspec_t0`, `measures` | conversions, sums, comparisons, average and worst case | carries, negative differences, reuse of an entry |
| Node data (`hgr_common.c`) | chunk sizes, index tables | `hgr_load_*_node`, generators | cache size 0, table entries out of range |
| DOT front end (`frontend/rtdot`) | `dags`, `nodes`, `edges` | `Parse` and what it calls | lists kept between calls, failures half-way |
| Windows (`SwtGui.java`, `hgGUI.java`) | file lists, controls | add, clear, choose, generate | a parser that outlives its click, controls out of step |
| Response times (`frontend/amalthea/Core.java`) | cores, tasks, runnables | fixed points | termination, the interference terms at boundaries |
| bostan-gomp runtime, DAG editor, back ends, templates, configuration, vendored code | | | see section 6 |

What makes each one correct:

* **Generated DAG task.** A node computes after its predecessors; a job is
  reported complete only when it is; no thread or signal of one job reaches the
  next; memory phases exclude each other; every job ends.
* **Descriptor pool.** One owner per descriptor; the free list holds exactly the
  free descriptors; a refusal means that the pool is used up.
* **Activation.** An accepted activation starts a job; deadline and release of a
  job belong together and stay while it runs.
* **Modes.** No request is lost; a mode's new tasks start after its old ones have
  stopped.  **Barrier, semaphore.** Nobody passes before the last thread has
  arrived, and everybody passes then.
* **Time, statistics, node data, response times.** The function computed is the
  one intended, over all the inputs the callers can supply.
* **Front end.** A back end gets the DAGs, and the settings, that the window shows.

`PROJECT.json` lists every component with its status, and every hazard of the
code with the line where it bites and the properties that cover it.

## 2. Modules

| Module | Contents |
|---|---|
| `DagJob` | abstract specification: a periodic job of a DAG; nodes start after their predecessors are done, once each, and the job completes when all are |
| `DagTask` | the generated program, for any DAG set: three kinds of thread; its properties and inductive invariant |
| `DagFifo` | `DagTask` under SCHED_FIFO with PARTITIONED placement |
| `PtaskPool` | the descriptor pool, task creation, membership in modes |
| `PtaskPoolMain` | the pool as the generated main uses it |
| `PtaskActivation` | activation and periodic execution of the tasks of a descriptor |
| `RtMode` | mode manager and the tasks of its modes, on `Gsem` |
| `Rendezvous`, `PBarrier` | abstract and detailed barrier |
| `Gsem` | generalised semaphore |
| `Timespec`, `TimeLaws` | time arithmetic; what its callers rely on |
| `Tstat` | execution time statistics, on `Timespec` |
| `NodeData` | data of a PREM or SPARSE node, and the jobs that walk over it |
| `XmlGenerator` | the DOT front end |
| `SwtGui`, `HgGui` | the two windows, each on `XmlGenerator` |
| `ResponseTime` | the analysis of one core, and the schedule it is compared with |
| `DagTaskProofs`, `DagFifoProofs` | theorems about the generated program |
| `PtaskPoolProofs`, `SyncProofs` (`PBarrier`, `Gsem`, `RtMode`), `TimeProofs` (with `Tstat` and `PtaskActivation`), `LibraryProofs` (`MCLibrary`) | theorems about the library |
| `SequentialProofs`, `ResponseTimeProofs` | theorems about `NodeData` and the two windows; about the response times |
| `MCDagTask`, `MCDagFifo`, `MCPtaskPool`, `MCLibrary`, `MCSequential` | instances for TLC |

`MCLibrary` and `MCSequential` hold several components that do not touch each
other's variables; a variable `part` says which of them a behavior is about.
A definition whose name ends in `_<Bug>` is a wrong variant of the definition
after it.  It is used nowhere; `PROJECT.json` names, for every property, the
variant that the property rejects.

### DagTask

| Variable | In the code |
|---|---|
| `mpc`, `todo` | program counter of the periodic task (task.egl 103-130) and what its unrolled loop has still to visit |
| `spinner` | the thread that `finish_work` creates for `wait_finish` |
| `npc`, `passed` | program counter of a node thread (task.egl 137-190), the edges its unrolled loop has visited |
| `chunk` | `num_copies` in `hgr_PREM_compute_node` |
| `reg` | the value of `var_condition` loaded by `var_condition++` |
| `edgeLock`, `lockStart`, `premOwner` | the mutexes: not initialised (`none`), `locked`, `open`; owner of `premMutex` |
| `varCondition` | `var_condition_<dag>` |

An action is one thread's code up to the next access to shared state.  The
increment of `var_condition` is a load and a store (the makefile compiles with
-O0 and the variable is volatile, not atomic).  `CreateDependency` and
`DestroyDependency` handle all mutexes of a DAG in one step: no other thread of
that DAG exists then, which is the property `ThreadsJoined`.  A node that is not
PREM has one computation without shared state.  POSIX leaves an unlock by a
thread other than the owner undefined for a default mutex; the model takes what
the pthread library of the build does (the mutex becomes free), and
`NoDoubleUnlock` shows that no mutex is unlocked while it is free.

The model assumes a DAG set as the metamodel describes it: edges join nodes of
one DAG and have mutexes of their own.  It does not assume that the graph has no
cycle; the instances on which liveness and `NoWaitCycle` are checked have none.  All threads are
created successfully; failure of `pthread_create` is a listed hazard.

`Job == INSTANCE DagJob WITH ...` maps a job to the time from the creation of its
threads to the end of `finish_work`, a node to *started* when its thread is past
its in-edges and *done* when it is past its computation.  A node may start before
`start()` opens `lock_start`, because the result of its `pthread_mutex_trylock` is
ignored; the abstract job allows it.

### DagFifo

`__create_internal` gives the periodic task one processor and one priority under
the policy of `hgr_init`; node and `wait_finish` threads are created with a NULL
attribute and inherit both.  `ready` is the set of threads that are not blocked
and `ahead` the order in which they have become so, the run queue of the policy.
A thread may take a `DagTask` step only while no thread of its processor has a
higher priority and none of its own priority is ahead of it.  Blocking removes a
thread, waking or creating it puts it behind all others, preemption leaves it where
it is.  When one step wakes several threads they enter in any order (`Ranks`).
Scheduling itself is the operating system's, marked external in the map.

### PtaskPool

| Variable | In the code |
|---|---|
| `firstFree`, `free` | `first_free`, `_tp[i].free` with `_TP_BUSY` and `_TP_NOMORE` |
| `pc`, `x`, `modesLeft` | a thread inside `__create_internal`: where it is, its index, the modes it has still to register |
| `threads` | how many threads run as task `i` (more than one would be an error) |
| `modeTasks` | the task lists of the modes |

`ReadHead` is the read of `first_free` outside the mutex, `TakeDescriptor` and
`FindTaken` the critical section.  A critical section is one step: everything
else that touches the list is under `_tp_mutex`, and the one read that is not
sees the same values before and after.  The error paths (a mode that refuses the
task, `pthread_create`) are `RefuseMode` and `ThreadFails`.  The fields that
`__create_internal` fills in belong to the owner of the descriptor and are left
out; that there is one owner is `ExclusiveOwner`.

`FreeList` is the smallest set with the head and, with a descriptor, the one it
links to.  `PtaskPoolMain` is `PtaskPool` with a history variable, `sole`, the only
thread that has called so far: `main` of the generated program creates all tasks,
and their bodies never return.

### PtaskActivation

| Variable | In the code |
|---|---|
| `state`, `offset`, `dl`, `at` | the fields of `_tp[i]` |
| `tsem` | `_tsem[i]`, which `ptask_init` alone sets to 0 |
| `step` | where the task's thread is: `suspend` before line 325, `wait` in `sem_wait`, `awake` between it and the mutex, `offset` in the sleep for an offset, `job`, `sleep` until `at` |
| `body` | whether the body calls `ptask_wait_for_period` or `ptask_wait_for_activation` between jobs |
| `release`, `activated` | what `dl` was computed from; whether the present task has been activated (both for properties only) |

What is done under the mutex of a descriptor is one action; the assignment of
`TASK_SUSPENDED` (325), the semaphore operation and the two sleeps are actions of
their own, so an activation may come between any two of them.  A descriptor
serves one task after the other (`Create`, `Return`).

### RtMode

`manager` is where the manager's loop (rtmode.c 55-76) is; `toblock` and `towake`
are its local lists; `queue` and `head` the requests; `heard` the tasks whose time
is in `maxsem.max`; the other fields of `maxsem_t` are those of `Gsem`, whose
`WaitBlocks`, `WaitPasses` and `GsemPost` the manager and the tasks use.
`QueueRequest` and `ActivateManager` are the two lines of `rtmode_changemode`, with
`asking` between them: the queue is written under no lock, so the manager may take
the request before it is activated for it.  There is one requester.  The manager is
still `TASK_SUSPENDED` between its `sem_wait` and its mutex (`awake`), and an
activation is accepted there.

`rtmode_taskfind` reads `curr_mode` without a lock in its first test, in every test
of its loop and in every comparison; each of these reads is a step (`EndJob`,
`TestLoop`, `Compare`), `slot` is the `i` of its loop, and a mode that changes
between two of them is compared from there on.  A task holds its own mutex from
before the lookup until after the post, so that `ptask_activate` waits for it
(`HoldsMutex`).  A place that is not in use in the list of the mode found there has
an open content.

Three variables that never change distinguish deployments: `spaced`, changes that
wait until all is settled; `oneProcessor`, a manager (priority 99) that shares its
processor with all tasks and so runs before them; `spurious`, a `pthread_cond_wait`
in `maxsem_wait` that may return unsignalled (`ReturnsEarly`; the code does not
test again).  What is said of changes of mode depends on two conditions, which the
code does not enforce:

* no spurious return of the manager's wait: otherwise the new tasks start beside
  the old ones, and posts are left over (the properties say `~spurious`; `ModeInv`
  keeps types, the counting of the semaphore and that of the requests);
* `SamePlace`: a task of several modes has the same index in the lists of all of
  them.  Otherwise its lookup may miss it across a change (`library_shared`).  With
  `SamePlace` a lookup is never past a task of the current mode, whenever that has
  become the current one (`LookupInv`).  The instance of `library` satisfies it,
  the proofs suppose it.

### Barrier and semaphore

`PBarrier` has one action for each part of `pbarrier_wait` under the mutex, and
one, `ReturnReference`, for the read after the unlock.  With `Spurious` a blocked
thread may wake unsignalled.  `ImplementsRendezvous` maps a thread's calls to
those of `Rendezvous`, when as many threads use the barrier as it counts.  `Gsem`
is the semaphore of one waiter with any number of posters.

### Time and statistics

`Timespec` holds the functions of `ptime.c` and the period accessors of `ptask.c`
as operators, with C's truncating division and the narrowing to `int`; `Billion`
and the conversion table are constants.  Its last section says what a result has
to be (`SumExact`, `RoundTrip`, ...), and `TimeLaws` asks for it: two times and one
unit after the other.  `Tstat` follows one entry of `measures` through the jobs of
one task after another and uses those operators.  `jobs`, `elapsed` and `worst`
are history: what the present task really ran, to compare the entry with.
`tstat_init` does not reset the worst case, so `StatisticsExact` claims that it is
the task's own only for the first task of a descriptor, and no less than the task's
own for later ones; a `tstat_init` that reset it would satisfy the property too.

### NodeData

`LoadPrem` and `LoadSparse` are `hgr_load_PREM_node` and `hgr_load_SPARSE_node`
with the size functions and the table generators they call; `BeginJob`,
`CopyChunk` and `ReadElement` are the compute functions.  A division by a cache
size of 0 and a `dec/jnz` loop on 0 have no next state.  `moved`, `copied` and
`spent` record what the present job has done.

`NodeDataExact` is about amounts: `memcpy` takes the sizes of all chunks, but begins
every copy at the start of the data (_hgr_computation.c 32), so bytes behind the
first chunk are never copied, and a job copies as many bytes as the node has, not
each of them.  `C_SIZE*(num_copies-1)` is a product of int (hgr_common.c 79);
`Narrow` is what -O0 makes of it, and `FitsInt` the sizes for which it is right, up
to about 2 GB.  `NodeDataExact` claims nothing of the copies of larger nodes.
Indices of random nodes are not bounded by it either (see the list after the findings).

### XmlGenerator, SwtGui, HgGui

A file stands for its name, its nodes and edges and its period line; reading it
succeeds, finds no file (which is only reported) or throws at a malformed line.
`Parse(old, packed)` is the whole of `Parse`: it appends a DAG object per file to
the parser's list, fills in the object at the file's index, and writes the model.
The loop is given in closed form: `ReadInto` is the set of files that have been read
into an object, and the last of them has set its name (`Object`).
`SwtGui` keeps one parser for the life of the window; `HgGui` makes one for every
click, and calls its back end only if the last file dialog was not cancelled
(`noFiles`).  An action is one handler on the display thread, with the refresh of the
controls at its end where the code has one.

### ResponseTime

`Settle` is the shape of every `do ... while (new > old)` loop of `Core.java`;
`PreemptiveResponse`, `BusyPeriod`, `JobStart`, `JobFinish` and `JobFinishDM` are
the functions around it.  An action analyses one task.  The reference, `Ends`,
computes the schedule itself, unit by unit; it takes from the code only the
blocking time it starts behind and the number of jobs to look at, so an error in
either is out of its reach.  Times are whole numbers and the arithmetic is exact;
the code computes in doubles.
`ResponseTimesExact` has a part for each type of task: a preemptive one that meets
its deadline, like those above it, and a cooperative one that does so, or whatever
it misses if the priorities are rate-monotonic.

## 3. Runs

| Run | Instance | Shows |
|---|---|---|
| `dag_set` | two PREM DAGs: an edge a -> b with b created first, and two independent nodes with 2 and 0 chunks; 189,000 states | order, completion, joins, mutex discipline (`MutexUse`) and exclusion over unboundedly many jobs; no circle of waiting threads (`NoWaitCycle`) |
| `dag_diamond` | PREM diamond, the sink created before its second predecessor, nodes with 0, 1 and 2 chunks, fair | `IInv`, `ImplementsJob`, `NodesTerminate`, `CompletesUnlessLostUpdate` |
| `dag_lost_update` (violation) | two independent nodes | a job that never ends: `JobCompletes` |
| `fifo_order` | PREM fork in topological order and two sparse nodes of lower priority on one processor | jobs end, no update is lost, no node waits |
| `fifo_wakeup` (violation) | nodes 4 and 5 of `examples/psocrates_dag2.dot` | a woken node starves behind `wait_finish` |
| `pool` | 3 descriptors, 2 creating threads, tasks that return, modes that refuse | one owner, the inductive invariant `MainInv`; `MainKeepsListExact` and `MainRefusedOnlyWhenFull` for the behaviors with one creator and no return |
| `pool_leak` (violation) | main and a task that returns | a descriptor lost from the list |
| `library` | the parts of `MCLibrary`, see below; 173,000 states | barrier, semaphore, modes, activation, statistics, time |
| `library_lost` (violation) | the same | a mode request that is left in the queue: `AllFinished` |
| `library_deferred` (violation) | the same | a task that takes its predecessor's activation: `WaitsForActivation` |
| `library_shared` (violation) | spaced changes on one processor, with lists [i1, i2] and [i2, i3] | a task of both modes that is found in neither: `OldTasksBlocked` |
| `sequential` | the parts of `MCSequential`, see below; 134,000 states | front end and windows, node data, response times |

**Parts of `library`.**  Three threads at a barrier for three, three rounds
(`OwnReference`, `ImplementsRendezvous`, `BarrierCallsReturn`), and three at a
barrier for two with spurious wake-ups (`SpuriousWakeUpsHarmless`).  A semaphore
with waits for 0 to 5 and posts that are late, early or too many
(`WaitsForAll`, `EnoughPostsUnblock`), and one with spurious wake-ups.  Three
tasks in two modes that share one of them, at the same place, three requests, spaced
or overlapping, on one processor or several, with spurious returns of the manager on
one (`LibraryInv`) and without (`OldTasksBlocked`, `SleepsForAll`,
`ChangeComplete`, `ChangeEnds`).  A descriptor used by one task after another,
periodic or not, with offsets shorter and longer than the period
(`JobNotBeforeRelease`, `JobKeepsDeadline`, `AcceptedStarts`).  Statistics of two
tasks of three jobs (`StatisticsExact`).  All pairs of times
(`ArithmeticExact`, `ConversionsExact`).  `LibraryInv` joins the inductive
invariants of barrier, semaphore, modes, activation and statistics.

**Parts of `sequential`.**  Each window with four files, of which one is missing
and one malformed (`ModelOfFiles`, `NewParserFollowsSettings`,
`HgFollowsSettings`).  A node of every size, unit, cache, element size and
stride (`NodeDataExact`).  Every core of up to three tasks, in any order of
periods (`ResponseTimesExact`, `AnalysisEnds`).

**Bounds.**  The models of the DAG task and the pool have no cut-off counter:
their state spaces are finite by themselves.  The DAG instances have fork, join,
a target created before its source, nodes without edges, PREM and sparse DAGs,
several DAGs that share `premMutex`, and 0 to 2 chunks: the cases in which the
templates' loops differ.  Two nodes are enough for a lost update and two DAGs for
contention on `premMutex`.  With three descriptors the free list has a head, a
middle and an end; two creators are enough for a stale index.

Elsewhere the bounds are constants.  `Rounds` = 3: a thread can be in the round
after that of a thread on its way out, and once more.  `MaxPosts` = 10: twice the
largest wait.  `MaxRequests` = 3: one change in progress, one queued, one
behind.  When changes may overlap the modes of `Overlapping` are requested, not
"no mode" (-1), which spaced changes have too.  `MaxListed` = 2: both lists are full.
`Horizon` = 6 of activation: two periods and the longest offset;
`MaxPending` = 2 posts.  Three seconds of eight nanoseconds with units of 8, 4
and 1, and an `int` of 32 values, have every carry, borrow and truncation that
the real numbers have.  `MaxDags` and `MaxReady` = 2 files, `MaxParsed` = 3 DAG
objects: a parser that has one too many.  `Kilo` = 2 stands for 1024, with units B
and KB: sizes below, at and above a cache of two or four bytes.  `IntMax` = 7: the
product that the code computes in int overflows for the largest node only.  MB and GB
differ in the factor and are not exercised.  `RandMax` is that of the C library.
Cores have up to three tasks with periods 5 and 7; an iteration beyond `Horizon`
= 70, twice the common period, is taken to be endless.  In these instances no later
job of a busy period responds later than the first, so the maximum over the
jobs is compared, but not decided by a later job.  The theorems hold for every
value of the constants.

**Deadlock.**  `fifo_order` and the pool runs check it.  The other runs of the DAG
task do not, because a lost increment stops a DAG for good, nor do `library` and
`sequential`, whose users may stop asking, and whose bounds stop them.

**Fairness.**  `DagTask!FairSpec` has weak fairness for every thread: with
time-sharing, or enough processors, a thread that can continue does.
`LockEdge` needs no more, since an edge mutex has one waiter.  `premMutex` may
have several: weak fairness is enough there because each of the finitely many
other nodes takes it only `Copies` times per job, and the next job cannot begin
while a node of the DAG waits.  Another DAG may come back again and again, so
`NodesTerminate` is checked on one DAG.  `FifoSpec` has strong fairness for the
running thread: a thread that gets the processor again and again makes progress,
that is, the task set is feasible.  `fifo_order` needs it for the DAG of lower
priority.

In `library`, a thread inside `pbarrier_wait` continues, and enters its next call
until it has made `Rounds` of them: every user comes as often as the others, which
a rendezvous presupposes.  A woken waiter of the semaphore continues; waiting,
posting and requesting a mode are up to the user and are not fair.
The manager has the highest priority and is weakly fair.  Its tasks are strongly
fair: with one processor the manager's turns disable them again and again, and a
schedulable task set means that they run in the end.  Time advances and a task
that can continue does.  In `sequential` the loop over the tasks of a core goes on
by itself; a window waits for its user, without fairness.

### Findings

1. **Lost increment** (`dag_lost_update`; task.egl 158, 187, 70).  Two
   `var_condition++` overlap, the counter stays short, `wait_finish` spins for
   ever.  `CompletesUnlessLostUpdate` shows that nothing else keeps a job from
   ending under fair scheduling.
2. **Starvation behind `wait_finish`** (`fifo_wakeup`; task.egl 70, _hgr.c 171).
   Under SCHED_FIFO bound to processors, a node that has blocked is queued behind
   the busy wait for it.  The same happens to a node that has blocked on
   `premMutex`.
3. **`first_free` read before the lock** (`pool_leak`; ptask.c 67).  A descriptor
   leaves the free list for good.  With two creators a task may also be refused
   while descriptors are free.  The generated main, with one creator and tasks
   that never return, meets neither (`MainKeepsListExact`,
   `MainRefusedOnlyWhenFull`).
4. **Lost mode request** (`library_lost`; rtmode.c 109).  `rtmode_changemode`
   ignores that `ptask_activate` refuses a manager that is still switching; the
   request stays in the queue and each later one is served one change late.  A
   manager with spaced changes handles all of them (`ChangeComplete`).
5. **Activation of the task before** (`library_deferred`; ptask.c 326, 170).
   `_tsem[i]` is not reset when its descriptor is reused, so a DEFERRED task may
   start at once.
6. **Task found in neither mode** (`library_shared`; rtmode.c 120-121).  A task of
   two modes, at different places in their lists, looks itself up while the manager
   switches from one to the other: it is compared with other tasks of both lists,
   posts and suspends.  The manager takes its post for that of a task that leaves
   and still runs, activates the new tasks, and never activates the shared one again.

Other behaviours that the models show and that have no run of their own:

* A spurious wake-up, or more users than `nthreads`, lets a thread through the
  barrier early, and `gsem_wait` returns early likewise, since both test with
  `if`.  `SpuriousWakeUpsHarmless` says what still holds then.
* `maxsem_wait` overwrites `max` with the present time, so on several processors
  a task that has posted before is not waited for until the end of its period;
  hence the condition of `SleepsForAll`.
* `tspec_from_rel` adds nanoseconds without a carry and `tspec_to_rel` divides a
  negative difference of nanoseconds by itself; `ConversionsExact` states what
  remains exact.  Results go through an `int` in the period accessors.
* An unsignalled return of the manager's `pthread_cond_wait` (rtmode.c 153) ends its
  wait for the tasks that leave.
* `tstat_init` keeps the worst case of the task that used the descriptor before,
  although `ptask_get_wcet` "returns the task wcet" (tstat.h 26).
* A random index may lie behind the data: the divisor `RAND_MAX/(size+1)` is rounded
  down, so that the quotient reaches `size` (hgr_common.c 91-95, task.egl 44).
* Above 2 GB the last chunk of a PREM node has the wrong size (hgr_common.c 79).
* In `hgGUI` a cancelled file dialog leaves `files` null, and Generate then throws
  before the back end is called, although DAGs are ready (hgGUI.java 966, 1034).
* A second click on Generate in `SwtGui` appends to the parser's list and writes
  the settings, and perhaps a period, of the first (XMLGenerator.java 180-184);
  hence `NewParserFollowsSettings` speaks of a new parser.  Generate stays enabled
  after Clear and then throws.
* `busy_period` takes the period of the task under analysis for every task
  (Core.java 149), and can iterate for ever for a core whose priorities are not
  rate-monotonic; hence the conditions of `AnalysisEnds` and `CooperativeExact`.
  Of a cooperative task that is found to meet its deadline it leads the analysis to
  the first job only (`FirstJobOnlyHolds`), although a later one may respond later:
  with a runnable of 3 every 6 above runnables of 2 and 2 every 8, the first job of
  the lower task ends after 7, which is its response time, and the second 9 after its
  release.

## 4. Proofs

All theorems hold for every value of the constants that satisfies the named
assumption of the component's module (`DagAssumption`, `FifoAssumption`,
`PoolAssumption`, `MainAssumption`, `ActivationAssumption`, `ModeAssumption`,
`BarrierAssumption`, `GsemAssumption`, `TimeAssumption`, `LawsAssumption`,
`StatAssumption`, `DataAssumption`, `AnalysisAssumption`) and, where a theorem
states one, its hypothesis.  These assumptions give the constants their types; TLC
evaluates them on every run.

Where an argument goes by induction on numbers, it is put as one about least
members: a set of naturals that is not empty has a least (`LeastNatural`, from the
library's theorem about well-founded orders), so a claim that fails somewhere fails
at a number before which it holds.

**DagTask.**  `Invariance` shows `Spec => []IInv`.  The properties are not
inductive by themselves: `Precedence`, for instance, says nothing of mutexes.
`IInv` adds, for each edge, that its mutex is open exactly between the source's
signal and the target's lock (`SignalInv`), for each DAG, which threads exist in
which part of the task's loop (`PhaseInv`), that loops start afresh
(`CursorInv`), that neither the counter nor a loaded value exceeds the number of
nodes that have counted themselves (`CountInv`), that the owner of `premMutex` is
the node that copies (`PremInv`), and that `lock_start` is open before the joins
(`GateInv`).  `CountInv` is the heart of `MeasuredJobComplete`: a racy increment
can only lose counts.  Each part has a lemma of its own with one step per action.
From `IInv` follow `TypeCorrect`, `PrecedenceHolds`, `MeasuredJobHolds`,
`ThreadsJoinedHolds`, `MutexUseHolds` (with its parts `DestroyStateHolds` and
`NoDoubleUnlockHolds`) and `PremExclusionHolds`.  `NoWaitCycleHolds` supposes that
the edges form no cycle, given as a rank that grows along them: of the nodes of a
job that have not exited, one of least rank has no predecessor that it still waits
for (`WaitsForSource`), so it can go on, or waits for `premMutex`, whose owner
can.  `Refinement` shows that every step of the program is a
step of `DagJob` or leaves it unchanged: `Spec => ImplementsJob`.

**DagFifo.**  A step is one of `DagTask`, so `IInv` and the refinement carry over
(`FifoRefinement`).  `FifoInvariance` adds that the list has every node thread that
can go on and orders its members (`ReadyInv`), and that a node between load and
store is still the foremost of its level and holds the exact count (`ExactInv`):
whoever wakes up meanwhile goes behind it, and another level's threads never touch
its DAG's counter.  `NoLostUpdateHolds` follows, for any DAGs, processors and
priorities.  `NodesNeverWaitHolds` has two hypotheses.  `Topological`: nodes are
created in an order in which edges point forward; `fifo_wakeup` is what happens
otherwise.  `PremTogether`: the PREM DAGs share processor and priority; with two
levels a node may be preempted inside its memory phase, or run beside one on
another processor, another node then waits for `premMutex` and returns behind a
node that depends on it.  Its invariant, `OrderInv`, says that a node that has
begun stays the foremost of its level, that no node copies while another wants to,
and that a node that has not begun is behind those it depends on.

**PtaskPool.**  `ExclusiveOwnerHolds` and `TypeCorrect` follow from
`Invariance`.  The strengthening is `BusyInv`, a descriptor is BUSY exactly while
a creator or a thread owns it, and `IndexInv`.  Nothing is assumed of the stale
index beyond its range, so the proof shows that the test at ptask.c 71 alone
makes ownership exclusive.

**PtaskPoolMain.**  `MainListHolds` and `MainRefusalHolds` are about a list of any
length.  `MainInvariance` says, as long as one thread has called, that the list
holds exactly the free descriptors, that no two link to the same one and none to
the head (`ListInv`), and that the index read before the lock is still the head
(`SoleInv`).  The list is the smallest closed set, so what a step does to it is
shown by exhibiting closed sets: taking the head off leaves the old list without it
closed, and putting a descriptor in front leaves the old list with it closed.
`MainRefusalHolds` needs that a list with members has its head among the
descriptors.

**PtaskActivation.**  `ActivationInv` relates `state` to the place of the thread
(`StateInv`), bounds a release in the future by the offset that the task will
still wait for (`OffsetInv`), and ties `dl` and `at` to one release
(`ReleaseInv`).  `JobNotBeforeReleaseHolds` needs `OffsetInv`: a second activation
may come while a task is on its way out of `sem_wait`.  `JobKeepsDeadlineHolds`
needs `StateInv`, since `ptask_activate` sees nothing but `state`.

**Gsem and RtMode.**  `GsemInvariance`, and from it `WaitsForAllHolds` without
spurious wake-ups and `BlockedHolds` with them.  `ModeInvariance` shows `ModeInv`.
Its part for a manager that is woken only when signalled: a lookup has not passed
the place of a task of the current mode (`LookupInv`); every task is on or off,
those that are on belong to the current mode or are waited for, and at most the
tasks that leave and are off have posted (`ChangeInv`); on one processor, exactly
those whose period end was heard (`PriorityInv`); with spaced changes, all is settled when one begins
(`SpacedInv`).  `ChangeInv` is the heart of `OldTasksBlockedHolds`: when `gsem_wait`
returns, as many tasks have posted as leave, and only they can have.
`SleepsForAllHolds` needs `PriorityInv` and `ChangeCompleteHolds` `SpacedInv`.  The
hypotheses are `SamePlace`, for `LookupInv`, and `CreatedNow = {}`: the tasks of
modes are DEFERRED, the default (ptask.h 123).  A task created NOW ends its first
job before there is a mode, and its post then counts for a later change.

**PBarrier.**  `BarrierInvariance` shows `BarrierInv` for a barrier whose users are as
many as it counts and whose threads are not woken unsignalled: `arrived` is the
number of blocked threads, threads on their way out belong to the round just
ended, and no thread is more than one round ahead.  The argument is a count of a
finite set: when the last thread arrives, the blocked ones are all the others.
`OwnReferenceHolds` and `RendezvousRefinement`, the implementation of `Rendezvous`, follow.
`CountingHolds` needs neither condition: an instant is taken once in every
`nthreads` arrivals.

**Library.**  `LibraryInvariance` and `SpuriousWakeUpsHold` are about `MCLibrary`
itself, with any constants: `Steps` says that a step of the whole is one of each
component or leaves it alone, the semaphore being moved by the mode manager too,
so the step lemmas of the components apply.  For the barrier and the semaphore
that are woken spuriously they are those of an instance of `SyncProofs`, of which
the counters alone are inductive.

**Time and statistics.**  `ArithmeticHolds` and `ConversionsHold` rest on one lemma
about division (`DivUnique`: quotient and remainder are determined) and one about C's
truncation (`TruncatingDivision`), and on `Mul[u] * Div[u] = Billion`.  `SumsExact`,
`DeltasExact`, `ComparisonsExact`, `RoundTripHolds`, `RelativeHolds` and
`PeriodHolds` are their parts.  `StatInvariance` says that the two clock readings of
an entry are the time now and the time before the recorded jobs; `StatisticsHold`
adds that the average, divided in two steps, loses nothing.  Of the worst case they
show that it is the task's own for the first task of a descriptor, and an upper
bound for later ones.

**NodeData.**  `DataInvariance` says that a job has copied, read and spent what its
steps so far account for; `ChunkSizes`, `RoundUpBounds` and `NarrowBounds` are the
lemmas that say how chunks add up, and when.  `NodeDataHolds` follows.

**Windows.**  Because `Parse` finds the object of the k-th file at index k, its name
comes from that file alone (`ObjectOfFile`), whatever the list held before:
`SwtModelHolds`.  Settings are read from the object itself, which is the right one
only if the list was empty: `SwtSettingsHold` for a new parser and `HgModelHolds`,
with no condition, for the window that makes one for each click.

**ResponseTime.**  `PreemptiveExactHolds` compares two recursive computations, for
a core of any number of tasks of both types; its hypothesis is that every task has
runnables and every runnable takes time.  `SettleLeast`: the loop of the code finds
the least fixed point, because what it iterates is monotonic.  `TickCases` and
`BalanceStep` say what one unit of the schedule does to the work above the task and
to its own, and `ReleasedStep` what is released at it.  In `ScheduleFinds`, up to the
fixed point, the work done is the time that has passed, since the task always has work left; it
cannot be through earlier, because that instant would be a smaller fixed point.
`AnalysisInv` carries this over to the analysis: an answer is that of the first
iteration unless a deadline is missed, and `MissNoBetter` shows that the second
iteration, which answers a miss, finds no less, so that the task is known to miss
by its answer.

`CooperativeExactHolds` follows a job of a cooperative task through the same
schedule, behind the longest runnable below it.  `BalanceStep` is the invariant of
one unit: what has been executed of the blocking, of the tasks above and of the task
itself adds up to the time, unless the processor is idle.  `NeverIdle`: it is not
while a job of the busy period is unfinished, since the busy period would be over at
the next release; this is where later jobs need rate-monotonic priorities, because
`busy_period` counts the tasks above with a longer period than their own.  So the
runnable cannot start before the first fixed point, and starts there with nothing
left above (`JobBegins`); from then on only preemptive tasks get in its way, and it
ends at the second fixed point (`JobEnds`).  Without a missed deadline there is no
later job (`OneJob`).  `ResponseTimesExactHolds` joins both types.  On the run's
instance the cooperative part also holds without its condition; beyond it that would
take a comparison of different busy periods, and is not claimed.

**Only model-checked.**  Liveness (`NodesTerminate`, `CompletesUnlessLostUpdate`,
`JobCompletes`, `BarrierCallsReturn`, `EnoughPostsUnblock`, `AcceptedStarts`,
`ChangeEnds`, `AnalysisEnds`) is beyond the prover.  The violations are runs by
nature.  Every invariant that a passing run checks is also a theorem.

To repeat: `tlc -workers 2 -config DagTaskSet.cfg MCDagTask`, and likewise for
the other configurations; `tlapm DagTaskProofs.tla`, and likewise for the other
proof modules.

## 5. Plan

What is left, in the order of its importance.

| Module | Theorem |
|---|---|
| `SyncProofs`, `TimeProofs` | an abstract specification of a task that is activated, with the mode manager's tasks and the descriptor's thread as its refinements |
| `DagFifoProofs` | how many nodes may wait when the PREM DAGs do not share a level, instead of none |

## 6. Not modelled

* **Vendored code**: lmbench (the runtime takes one measurement from it, the
  frequency of the processor), graphviz and the Java libraries.  They are the
  bulk of the repository's lines, and their behaviour is not this project's.
* **bostan-gomp runtime**: unfinished.  The window announces the back end as not
  implemented (SwtGui.java 333), the present templates call functions with
  parameters that it does not have, its dependency and period calls are empty, and
  what orders the nodes is in binary libraries.
* **`hgr*.egl`**: an older copy of the runtime as templates, from which main.egl
  generates nothing.
* **XMLModifier**: no caller; the button for it has no listener.
* **Amalthea's `main.java`**: XPath queries on a file and printed tables, without
  state.
* **Windows**: layout, pictures of DAGs, dialogs, the configuration panel.  The
  post-operation of `hgGUI` gets the files that were loaded last instead of the
  ready list; only a native library has one.
* **pmutex.c**: three calls of pthread; the protocols are the operating system's.
* **Text**: formatting of what the templates write, and the text of a line of a
  DOT file.  An attribute that is the last on its line is read as absent; the
  model's files stand for what has been read.
* **Undefined behaviour**: what lies behind the end of the mode manager's queue
  (rtmode.c 108), a division by a cache size of 0, and a join of a thread that
  could not be created.  Each is a listed hazard.
* Shell commands, /proc, logging, clock readings.
