------------------------------- MODULE RtMode -------------------------------
(***************************************************************************)
(* The mode manager of the ptask library (rtmode.c) and the periodic tasks *)
(* that belong to modes (ptask.c 284-296, 321-338, 471-494).  The manager  *)
(* is a task of its own: it waits for an activation, takes a request from  *)
(* the queue, waits until every task that leaves has posted to its maxsem, *)
(* sleeps until their periods end, and activates the tasks that join.      *)
(*                                                                         *)
(* maxsem_t is the generalised semaphore of Gsem with, in addition, the    *)
(* maximum of the posted times.  What happens under one mutex is one step, *)
(* except that g->curr_mode is read under none: every read of it is a step *)
(* of its own.  One thread requests modes, one request at a time.          *)
(***************************************************************************)
EXTENDS Gsem, Integers, Sequences, FiniteSets

CONSTANTS
  ModeTask,      \* the tasks that belong to modes
  Modes,         \* g->modes: the list of tasks of each mode
  MaxListed,     \* RTMODE_MAX_TASKS
  CreatedNow,    \* the tasks created with act_flag NOW
  Spacings,      \* values of spaced to consider
  Placements,    \* values of oneProcessor to consider
  Returns,       \* values of spurious to consider
  Overlapping,   \* the modes to request when changes may overlap
  MaxRequests    \* requests, a bound

None == -1

(* A list has room for MaxListed tasks (tasklist_add) and names none twice: a *)
(* task is created with different modes in its mode_list.                     *)

ASSUME ModeAssumption ==
  /\ IsFiniteSet(ModeTask)
  /\ DOMAIN Modes \subseteq Nat
  /\ MaxListed \in Nat
  /\ \A m \in DOMAIN Modes :
       /\ Modes[m] \in Seq(ModeTask) /\ Len(Modes[m]) <= MaxListed
       /\ \A k, l \in DOMAIN Modes[m] : Modes[m][k] = Modes[m][l] => k = l
  /\ CreatedNow \subseteq ModeTask
  /\ Spacings \subseteq BOOLEAN /\ Placements \subseteq BOOLEAN /\ Returns \subseteq BOOLEAN
  /\ Overlapping \subseteq DOMAIN Modes \cup {None}
  /\ MaxRequests \in Nat

(* A task of several modes has the same index in the lists of all of them.     *)
(* What is said below of changes of mode needs this: see TestLoop and Compare. *)
SamePlace ==
  \A m, n \in DOMAIN Modes : \A k \in DOMAIN Modes[m], l \in DOMAIN Modes[n] :
    Modes[m][k] = Modes[n][l] => k = l

VARIABLES
  spaced,              \* whether a mode is requested only when all is settled
  oneProcessor,        \* whether the manager, of priority 99, shares one with all tasks
  spurious,            \* whether pthread_cond_wait may return unsignalled
  currMode,            \* g->curr_mode
  queue, head,         \* g->queue from tail to head; g->head
  asking,              \* whether rtmode_changemode has queued and not activated yet
  manager,             \* where the manager is
  managerPosts,        \* _tsem[g->manager_id]
  toblock, towake,     \* its local lists
  heard,               \* the tasks whose time is in g->manager.max
  taskAt,              \* where a task is
  slot,                \* its i in rtmode_taskfind, from 1; 1 elsewhere
  taskPosts            \* _tsem of a task

managerVars == <<currMode, queue, manager, managerPosts, toblock, towake, gsemVars, heard>>
deployment == <<spaced, oneProcessor, spurious>>
requestVars == <<head, asking>>
modeTaskVars == <<taskAt, slot, taskPosts>>
modeVars == <<deployment, managerVars, requestVars, modeTaskVars>>

Listed(m) == IF m = None THEN <<>> ELSE Modes[m]
TasksOf(m) == {Listed(m)[k] : k \in DOMAIN Listed(m)}

(* rtmode_init; the tasks have been created and added to their modes. *)
ModeInit ==
  /\ spaced \in Spacings /\ oneProcessor \in Placements /\ spurious \in Returns
  /\ currMode = None
  /\ queue = <<>> /\ head = 0 /\ asking = FALSE
  /\ manager = "start"
  /\ managerPosts = 0
  /\ toblock = {} /\ towake = {}
  /\ GsemInit /\ heard = {}
  /\ taskAt = [i \in ModeTask |-> IF i \in CreatedNow THEN "job" ELSE "suspend"]
  /\ slot = [i \in ModeTask |-> 1]
  /\ taskPosts = [i \in ModeTask |-> 0]

-----------------------------------------------------------------------------
(* rtmode_changemode puts the request into the queue under no mutex; then      *)
(* ptask_activate posts only if the manager is suspended, which it is until    *)
(* it has the mutex again after sem_wait.  The result is ignored.              *)
ManagerSuspended_Inverted == manager \notin {"wait", "awake"}
ManagerSuspended == manager \in {"wait", "awake"}

HoldsMutex(i) == taskAt[i] \in {"test", "compare", "leave"}
Runs(i) == taskPosts[i] = 0 /\ taskAt[i] \in {"job", "test", "compare", "sleep"}
Waits(i) == taskPosts[i] = 0 /\ taskAt[i] = "wait"

Settled ==
  /\ manager = "wait" /\ managerPosts = 0
  /\ \A i \in ModeTask : IF i \in TasksOf(currMode) THEN Runs(i) ELSE Waits(i)

ManagerBlocked ==
  \/ manager = "wait" /\ managerPosts = 0
  \/ manager = "maxsem" /\ waiter = "blocked"
  \/ manager = "sleep"
  \/ manager = "activate" /\ \E i \in towake : HoldsMutex(i)

(* On one processor nothing else runs while the manager can. *)
MayRun == oneProcessor => ManagerBlocked

Requestable == IF spaced THEN DOMAIN Modes \cup {None} ELSE Overlapping

QueueRequest(m) ==
  /\ MayRun
  /\ ~asking /\ asking' = TRUE
  /\ spaced => Settled
  /\ head < MaxRequests
  /\ queue' = Append(queue, m)
  /\ head' = head + 1
  /\ UNCHANGED <<currMode, manager, managerPosts, toblock, towake, gsemVars, heard, modeTaskVars>>

ActivateManager ==
  /\ MayRun
  /\ asking /\ asking' = FALSE
  /\ managerPosts' = IF ManagerSuspended THEN managerPosts + 1 ELSE managerPosts
  /\ UNCHANGED <<currMode, queue, manager, toblock, towake, gsemVars, heard, head, modeTaskVars>>

-----------------------------------------------------------------------------
(* mode_manager *)
Suspends ==
  /\ manager = "start"
  /\ manager' = "wait"
  /\ UNCHANGED <<currMode, queue, managerPosts, toblock, towake, gsemVars, heard,
                 requestVars, modeTaskVars>>

(* sem_wait returns; the manager is still TASK_SUSPENDED. *)
ManagerActivated ==
  /\ manager = "wait"
  /\ managerPosts > 0
  /\ managerPosts' = managerPosts - 1
  /\ manager' = "awake"
  /\ UNCHANGED <<currMode, queue, toblock, towake, gsemVars, heard, requestVars, modeTaskVars>>

ManagerActive ==
  /\ manager = "awake"
  /\ manager' = "active"
  /\ UNCHANGED <<currMode, queue, managerPosts, toblock, towake, gsemVars, heard,
                 requestVars, modeTaskVars>>

(* tlist_sub, and its result when there is no other mode. *)
Leaving_All(old, new) == TasksOf(old)
Leaving(old, new) == TasksOf(old) \ TasksOf(new)

Joining_All(old, new) == TasksOf(new)
Joining(old, new) == TasksOf(new) \ TasksOf(old)

BeginChange ==
  /\ manager = "active"
  /\ LET new == Head(queue) IN
     /\ toblock' = Leaving(currMode, new)
     /\ towake' = Joining(currMode, new)
     /\ currMode' = new
  /\ queue' = Tail(queue)
  /\ manager' = IF toblock' = {} THEN "activate" ELSE "maxsem"
  /\ UNCHANGED <<managerPosts, gsemVars, heard, requestVars, modeTaskVars>>

(* maxsem_wait: the maximum starts from the present instant. *)
AmountToWait_OneLess == Cardinality(toblock) - 1
AmountToWait == Cardinality(toblock)

WaitForLeaving ==
  /\ manager = "maxsem"
  /\ heard' = {}
  /\ \/ WaitBlocks(AmountToWait) /\ UNCHANGED manager
     \/ WaitPasses(AmountToWait) /\ manager' = "sleep"
  /\ UNCHANGED <<currMode, queue, managerPosts, toblock, towake, requestVars, modeTaskVars>>

AllHaveLeft ==
  /\ manager = "maxsem"
  /\ WaiterWakes
  /\ manager' = "sleep"
  /\ UNCHANGED <<currMode, queue, managerPosts, toblock, towake, heard, requestVars, modeTaskVars>>

(* maxsem_wait does not test again: an unsignalled return of its              *)
(* pthread_cond_wait ends the wait.                                           *)
ReturnsEarly ==
  /\ spurious
  /\ manager = "maxsem" /\ waiter = "blocked"
  /\ Reset
  /\ waiter' = "out" /\ manager' = "sleep"
  /\ UNCHANGED <<currMode, queue, managerPosts, toblock, towake, owed, heard,
                 requestVars, modeTaskVars>>

(* clock_nanosleep *)
WakesUp ==
  /\ manager = "sleep"
  /\ manager' = "activate"
  /\ UNCHANGED <<currMode, queue, managerPosts, toblock, towake, gsemVars, heard,
                 requestVars, modeTaskVars>>

(* ptask_activate, whose result is ignored; it takes the mutex that            *)
(* ptask_wait_for_period holds from before the lookup until after the post.    *)
TaskSuspended(i) == taskAt[i] \in {"wait", "awake"}

ActivateTask(i) ==
  /\ manager = "activate"
  /\ i \in towake /\ ~HoldsMutex(i)
  /\ towake' = towake \ {i}
  /\ taskPosts' = [taskPosts EXCEPT ![i] = IF TaskSuspended(i) THEN @ + 1 ELSE @]
  /\ UNCHANGED <<currMode, queue, manager, managerPosts, toblock, gsemVars, heard, requestVars, taskAt, slot>>

AllActivated ==
  /\ manager = "activate"
  /\ towake = {}
  /\ manager' = "start"
  /\ UNCHANGED <<currMode, queue, managerPosts, toblock, towake, gsemVars, heard,
                 requestVars, modeTaskVars>>

ManagerStep ==
  \/ Suspends \/ ManagerActivated \/ ManagerActive \/ BeginChange \/ WaitForLeaving
  \/ AllHaveLeft \/ ReturnsEarly \/ WakesUp \/ AllActivated
  \/ \E i \in ModeTask : ActivateTask(i)

-----------------------------------------------------------------------------
(* A task's job ends with ptask_wait_for_period.  rtmode_taskfind reads         *)
(* curr_mode in its first test, in every test of its loop and in every        *)
(* comparison, so that it may look at the lists of several modes.  A mode of  *)
(* -1 found in the loop, and a place that is not in use in the list of the    *)
(* mode found there, are reads whose result is open.                          *)
Goes(i, s) == taskAt' = [taskAt EXCEPT ![i] = s]
Looks(i, k) == slot' = [slot EXCEPT ![i] = k]
TaskMovesOnly == UNCHANGED <<managerVars, requestVars, taskPosts>>

EndJob(i) ==
  /\ MayRun
  /\ taskAt[i] = "job"
  /\ Goes(i, IF currMode = None THEN "leave" ELSE "test")
  /\ Looks(i, 1) /\ TaskMovesOnly

(* i < g->modes[g->curr_mode].ntasks *)
TestLoop(i) ==
  /\ MayRun
  /\ taskAt[i] = "test"
  /\ \/ /\ slot[i] <= MaxListed
        /\ currMode # None => slot[i] \in DOMAIN Modes[currMode]
        /\ Goes(i, "compare") /\ UNCHANGED slot
     \/ /\ currMode # None => slot[i] \notin DOMAIN Modes[currMode]
        /\ Goes(i, "leave") /\ Looks(i, 1)
  /\ TaskMovesOnly

(* tid == g->modes[g->curr_mode].task_list[i] *)
Compare(i) ==
  /\ MayRun
  /\ taskAt[i] = "compare"
  /\ LET inUse == slot[i] \in DOMAIN Listed(currMode) IN
     \/ /\ inUse => Listed(currMode)[slot[i]] = i
        /\ Goes(i, "sleep") /\ Looks(i, 1)
     \/ /\ inUse => Listed(currMode)[slot[i]] # i
        /\ Goes(i, "test") /\ Looks(i, slot[i] + 1)
  /\ TaskMovesOnly

(* maxsem_post *)
LeaveMode_NoPost(i) == UNCHANGED <<gsemVars, heard>>
LeaveMode(i) ==
  /\ GsemPost
  /\ heard' = heard \cup {i}

Leaves(i) ==
  /\ MayRun
  /\ taskAt[i] = "leave"
  /\ LeaveMode(i)
  /\ Goes(i, "suspend")
  /\ UNCHANGED <<currMode, queue, manager, managerPosts, toblock, towake, requestVars, slot, taskPosts>>

(* clock_nanosleep until the next period *)
NextPeriod(i) ==
  /\ MayRun
  /\ taskAt[i] = "sleep"
  /\ Goes(i, "job")
  /\ UNCHANGED slot /\ TaskMovesOnly

(* ptask_wait_for_activation: TASK_SUSPENDED is assigned at its beginning. *)
SuspendTask(i) ==
  /\ MayRun
  /\ taskAt[i] = "suspend"
  /\ Goes(i, "wait")
  /\ UNCHANGED slot /\ TaskMovesOnly

TaskActivated(i) ==
  /\ MayRun
  /\ taskAt[i] = "wait"
  /\ taskPosts[i] > 0
  /\ taskPosts' = [taskPosts EXCEPT ![i] = @ - 1]
  /\ Goes(i, "awake")
  /\ UNCHANGED <<managerVars, requestVars, slot>>

TaskActive(i) ==
  /\ MayRun
  /\ taskAt[i] = "awake"
  /\ Goes(i, "job")
  /\ UNCHANGED slot /\ TaskMovesOnly

ModeTaskStep(i) ==
  \/ EndJob(i) \/ TestLoop(i) \/ Compare(i) \/ Leaves(i) \/ NextPeriod(i)
  \/ SuspendTask(i) \/ TaskActivated(i) \/ TaskActive(i)

ModeNext ==
  \/ \E m \in Requestable : QueueRequest(m) /\ UNCHANGED deployment
  \/ ActivateManager /\ UNCHANGED deployment
  \/ ManagerStep /\ UNCHANGED deployment
  \/ \E i \in ModeTask : ModeTaskStep(i) /\ UNCHANGED deployment

ModeSpec == ModeInit /\ [][ModeNext]_modeVars

(* The manager has the highest priority; the jobs end and the task set is     *)
(* schedulable.                                                               *)
FairModeSpec ==
  /\ ModeSpec
  /\ WF_modeVars(ManagerStep /\ UNCHANGED deployment)
  /\ \A i \in ModeTask : SF_modeVars(ModeTaskStep(i) /\ UNCHANGED deployment)

-----------------------------------------------------------------------------
ModeTypeOK ==
  /\ spaced \in BOOLEAN /\ oneProcessor \in BOOLEAN /\ spurious \in BOOLEAN
  /\ currMode \in DOMAIN Modes \cup {None}
  /\ queue \in Seq(DOMAIN Modes \cup {None}) /\ head \in Nat /\ asking \in BOOLEAN
  /\ manager \in {"start", "wait", "awake", "active", "maxsem", "sleep", "activate"}
  /\ managerPosts \in Nat
  /\ toblock \subseteq ModeTask /\ towake \subseteq ModeTask /\ heard \subseteq ModeTask
  /\ GsemTypeOK
  /\ taskAt \in [ModeTask -> {"job", "test", "compare", "leave", "sleep", "suspend", "wait", "awake"}]
  /\ slot \in [ModeTask -> 1..MaxListed + 1]
  /\ \A i \in ModeTask : taskAt[i] = "compare" => slot[i] <= MaxListed
  /\ taskPosts \in [ModeTask -> Nat]

(* Every activation of the manager is for a request in the queue. *)
RequestsInv ==
  managerPosts + (IF manager \in {"awake", "active"} THEN 1 ELSE 0) + (IF asking THEN 1 ELSE 0)
    <= Len(queue)

(* Where a task of the current mode and where one of no mode may be: a task   *)
(* is on when an activation has reached it, off until one does.               *)
On(i) ==
  \/ taskPosts[i] = 1 /\ taskAt[i] = "wait"
  \/ taskPosts[i] = 0 /\ taskAt[i] \in {"awake", "job", "test", "compare", "leave", "sleep"}
Off(i) == taskPosts[i] = 0 /\ taskAt[i] \in {"suspend", "wait"}

Changing == manager \in {"maxsem", "sleep", "activate"}

(* The tasks that may be on: those that the manager need not activate and     *)
(* those it waits for.                                                        *)
MayBeOn ==
  (IF Changing THEN TasksOf(currMode) \ towake ELSE TasksOf(currMode))
    \cup (IF manager = "maxsem" THEN toblock ELSE {})

(* A lookup is not past the place of a task of the current mode, whenever     *)
(* that has become the current one.                                           *)
LookupInv ==
  \A k \in DOMAIN Listed(currMode) : LET i == Listed(currMode)[k] IN
    /\ taskAt[i] # "leave"
    /\ taskAt[i] \in {"test", "compare"} => slot[i] <= k

(* The inductive invariant of any deployment: the lists of a change are those *)
(* of tlist_sub while it lasts, and only tasks that leave have posted.        *)
ChangeInv ==
  /\ Changing => (toblock \cap TasksOf(currMode) = {} /\ towake \subseteq TasksOf(currMode))
  /\ \A i \in ModeTask : Off(i) \/ (On(i) /\ i \in MayBeOn)
  /\ IF manager = "maxsem"
     THEN toblock # {} /\ narrived <= Cardinality({i \in toblock : Off(i)})
     ELSE narrived = 0 /\ waiter = "out"
  /\ waiter # "out" => owed = Cardinality(toblock)
  /\ manager \in {"sleep", "activate"} => \A i \in toblock : Off(i)

(* What one processor adds: nobody posts before the manager waits. *)
PriorityInv == oneProcessor =>
  /\ manager = "maxsem" =>
       IF waiter = "out" THEN narrived = 0
       ELSE heard \subseteq {i \in toblock : Off(i)} /\ narrived = Cardinality(heard)
  /\ manager \in {"sleep", "activate"} => toblock \subseteq heard

(* What separate changes add: everything is settled when one begins. *)
SpacedInv == spaced =>
  /\ IF queue # <<>>
     THEN /\ Len(queue) = 1
          /\ manager \in {"wait", "awake", "active"}
          /\ managerPosts = IF manager # "wait" \/ asking THEN 0 ELSE 1
          /\ asking => manager = "wait"
          /\ \A i \in ModeTask : IF i \in TasksOf(currMode) THEN Runs(i) ELSE Waits(i)
     ELSE managerPosts = 0 /\ ~asking /\ manager \notin {"awake", "active"}
  /\ manager = "maxsem" => \A i \in ModeTask \ toblock :
       IF i \in TasksOf(currMode) \ towake THEN Runs(i) ELSE Waits(i)
  /\ manager \in {"sleep", "activate"} => \A i \in TasksOf(currMode) :
       IF i \in towake THEN Waits(i) ELSE On(i)
  /\ manager \in {"start", "wait"} => \A i \in TasksOf(currMode) : On(i)

(* Without spurious returns, and with SamePlace. *)
ModeInv ==
  /\ ModeTypeOK /\ GsemInv /\ RequestsInv
  /\ ~spurious => LookupInv /\ ChangeInv /\ PriorityInv /\ SpacedInv

(* "all old tasks are now blocked" (rtmode.c 71) when the new ones are        *)
(* activated: none of the tasks that leave is in a job (rtmode.c 64-73),      *)
(* also when a change is requested in the middle of another, unless           *)
(* pthread_cond_wait has returned unsignalled (rtmode.c 153).  It needs       *)
(* SamePlace: otherwise a task of both modes that looks itself up across the  *)
(* switch may find itself in neither (rtmode.c 120-121), and its post stands  *)
(* for that of a task that still runs.                                        *)
OldTasksBlocked ==
  ~spurious /\ manager \in {"sleep", "activate"} =>
    \A i \in toblock : taskAt[i] \in {"suspend", "wait"}

(* The manager sleeps until the periods of all tasks that have left are over  *)
(* (rtmode.c 67-68, 141-142, 150), provided that it runs before them, that it *)
(* is woken only when signalled, and SamePlace.                               *)
SleepsForAll ==
  ~spurious /\ oneProcessor /\ manager \in {"sleep", "activate"} => toblock \subseteq heard

(* "all finished! we can sleep again" (rtmode.c 74): a manager that waits and *)
(* will not be activated has handled every request.                           *)
AllFinished == manager = "wait" /\ managerPosts = 0 /\ ~asking => queue = <<>>

(* When changes do not overlap, a manager that waits has handled every        *)
(* request, activated every task of the current mode and stopped the others,  *)
(* and no post is left over for the next change (rtmode.c 64-74, 108-109,     *)
(* 144, 154): with SamePlace and without spurious returns.                    *)
ChangeComplete == ~spurious /\ spaced /\ manager = "wait" =>
  /\ AllFinished
  /\ narrived = 0
  /\ \A i \in ModeTask :
       IF i \in TasksOf(currMode)
       THEN taskPosts[i] > 0 \/ taskAt[i] \in {"awake", "job", "test", "compare", "sleep"}
       ELSE taskPosts[i] = 0 /\ taskAt[i] \in {"suspend", "wait"}

(* A change that has begun ends with the tasks of its mode, and no others,    *)
(* running (rtmode.c 64-73, ptask.c 290-296): with SamePlace and without      *)
(* spurious returns.                                                          *)
ChangeEnds == ~spurious /\ spaced /\ manager = "active" ~> Settled
=============================================================================
