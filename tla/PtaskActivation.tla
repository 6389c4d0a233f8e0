--------------------------- MODULE PtaskActivation ---------------------------
(***************************************************************************)
(* Activation and periodic execution of ptask tasks (ptask.c 126-151,      *)
(* 284-338, 460-520), for tasks without modes.  A task waits on its own    *)
(* semaphore _tsem[i] for explicit activations and sleeps until at for     *)
(* periodic ones.  What happens under the mutex of a descriptor is one     *)
(* step; the assignment of TASK_SUSPENDED, the semaphore and the sleeps    *)
(* are outside it.                                                         *)
(*                                                                         *)
(* A descriptor serves one task after another.  Time is an integer,        *)
(* counted from the reference that ptask_activate_at adds offsets to; it   *)
(* stops at Horizon.                                                       *)
(***************************************************************************)
EXTENDS Integers

CONSTANTS
  Task,         \* task descriptors
  Period,       \* period of a task
  RelDeadline,  \* its relative deadline
  Offsets,      \* the offsets given to ptask_activate_at
  Horizon,      \* the last instant, a bound
  MaxPending    \* posts on a semaphore at a time, a bound

ASSUME ActivationAssumption ==
  /\ Period \in [Task -> Nat \ {0}]
  /\ RelDeadline \in [Task -> Nat]
  /\ Offsets \subseteq Nat \ {0}
  /\ Horizon \in Nat
  /\ MaxPending \in Nat

VARIABLES
  now,      \* CLOCK_MONOTONIC
  body,     \* what the task's body does between jobs
  state,    \* _tp[i].state
  tsem,     \* _tsem[i]
  offset,   \* _tp[i].offset, 0 for tspec_zero
  dl, at,   \* _tp[i].dl, _tp[i].at
  step,     \* where the task's thread is
  release,  \* the instant that dl was computed from
  activated \* an activation was accepted since the task was created

taskVars == <<body, state, tsem, offset, dl, at, step, release, activated>>
activationVars == <<now, taskVars>>

Bodies == {"periodic", "aperiodic"}
Flags == {"NOW", "DEFERRED"}

ActivationInit ==
  /\ now = 0
  /\ body \in [Task -> Bodies]
  /\ state = [i \in Task |-> "SUSPENDED"]
  /\ tsem = [i \in Task |-> 0]
  /\ offset = [i \in Task |-> 0]
  /\ dl = [i \in Task |-> 0]
  /\ at = [i \in Task |-> 0]
  /\ step = [i \in Task |-> "free"]
  /\ release = [i \in Task |-> 0]
  /\ activated = [i \in Task |-> FALSE]

(* dl and at are computed from the same instant. *)
ReleaseAt(i, t) ==
  /\ dl' = [dl EXCEPT ![i] = t + RelDeadline[i]]
  /\ at' = [at EXCEPT ![i] = t + Period[i]]
  /\ release' = [release EXCEPT ![i] = t]

Goto(i, s) == step' = [step EXCEPT ![i] = s]
SetState(i, s) == state' = [state EXCEPT ![i] = s]

(* __create_internal on a free descriptor: the semaphore is not touched. *)
Create(i, b, flag) ==
  /\ step[i] = "free"
  /\ body' = [body EXCEPT ![i] = b]
  /\ SetState(i, "ACTIVE")
  /\ offset' = [offset EXCEPT ![i] = 0]
  /\ activated' = [activated EXCEPT ![i] = FALSE]
  /\ Goto(i, IF flag = "NOW" THEN "now" ELSE "suspend")
  /\ UNCHANGED <<tsem, dl, at, release>>

(* ptask_std_body starts a task that was created NOW. *)
StartNow(i) ==
  /\ step[i] = "now"
  /\ ReleaseAt(i, now)
  /\ Goto(i, "job")
  /\ UNCHANGED <<body, state, tsem, offset, activated>>

(* ptask_wait_for_activation: state, semaphore, then the part under the mutex. *)
PostsKept_Drained(i) == 0
PostsKept(i) == tsem[i]

Suspend(i) ==
  /\ step[i] = "suspend"
  /\ SetState(i, "SUSPENDED")
  /\ tsem' = [tsem EXCEPT ![i] = PostsKept(i)]
  /\ Goto(i, "wait")
  /\ UNCHANGED <<body, offset, dl, at, release, activated>>

TakePost(i) ==
  /\ step[i] = "wait"
  /\ tsem[i] > 0
  /\ tsem' = [tsem EXCEPT ![i] = @ - 1]
  /\ Goto(i, "awake")
  /\ UNCHANGED <<body, state, offset, dl, at, release, activated>>

WaitsForOffset_Never(i) == FALSE
WaitsForOffset(i) == offset[i] # 0

BecomeActive(i) ==
  /\ step[i] = "awake"
  /\ SetState(i, "ACTIVE")
  /\ Goto(i, IF WaitsForOffset(i) THEN "offset" ELSE "job")
  /\ UNCHANGED <<body, tsem, offset, dl, at, release, activated>>

EndOffset(i) ==
  /\ step[i] = "offset"
  /\ now >= offset[i]
  /\ offset' = [offset EXCEPT ![i] = 0]
  /\ Goto(i, "job")
  /\ UNCHANGED <<body, state, tsem, dl, at, release, activated>>

(* The body calls ptask_wait_for_activation or ptask_wait_for_period, or it    *)
(* returns.                                                                   *)
WaitAgain(i) ==
  /\ step[i] = "job"
  /\ body[i] = "aperiodic"
  /\ Goto(i, "suspend")
  /\ UNCHANGED <<body, state, tsem, offset, dl, at, release, activated>>

SleepUntilPeriod(i) ==
  /\ step[i] = "job"
  /\ body[i] = "periodic"
  /\ SetState(i, "WFP")
  /\ Goto(i, "sleep")
  /\ UNCHANGED <<body, tsem, offset, dl, at, release, activated>>

EndPeriod(i) ==
  /\ step[i] = "sleep"
  /\ now >= at[i]
  /\ SetState(i, "ACTIVE")
  /\ ReleaseAt(i, at[i])
  /\ Goto(i, "job")
  /\ UNCHANGED <<body, tsem, offset, activated>>

Return(i) ==
  /\ step[i] = "job"
  /\ Goto(i, "free")
  /\ UNCHANGED <<body, state, tsem, offset, dl, at, release, activated>>

(* ptask_activate and ptask_activate_at refuse a task that is not suspended;   *)
(* they are called for tasks that exist.                                      *)
Accepts_NotWhileActive(i) == state[i] # "ACTIVE"
Accepts(i) == state[i] \notin {"ACTIVE", "WFP"}

Accept(i) ==
  /\ step[i] # "free"
  /\ Accepts(i)
  /\ tsem[i] < MaxPending
  /\ tsem' = [tsem EXCEPT ![i] = @ + 1]
  /\ activated' = [activated EXCEPT ![i] = TRUE]
  /\ UNCHANGED <<body, state, step>>

Activate(i) ==
  /\ Accept(i)
  /\ ReleaseAt(i, now)
  /\ UNCHANGED offset

ActivateAt(i, off) ==
  /\ Accept(i)
  /\ ReleaseAt(i, off)
  /\ offset' = [offset EXCEPT ![i] = off]

Tick ==
  /\ now < Horizon
  /\ now' = now + 1
  /\ UNCHANGED taskVars

TaskStep(i) ==
  \/ StartNow(i) \/ Suspend(i) \/ TakePost(i) \/ BecomeActive(i)
  \/ EndOffset(i) \/ WaitAgain(i) \/ SleepUntilPeriod(i) \/ EndPeriod(i)

Others(i) ==
  \/ \E b \in Bodies, f \in Flags : Create(i, b, f)
  \/ Return(i)
  \/ Activate(i)
  \/ \E off \in Offsets : ActivateAt(i, off)

ActivationNext ==
  \/ Tick
  \/ \E i \in Task : (TaskStep(i) \/ Others(i)) /\ UNCHANGED now

ActivationSpec == ActivationInit /\ [][ActivationNext]_activationVars

(* Time passes and a task that can continue does. *)
FairActivationSpec ==
  /\ ActivationSpec
  /\ WF_activationVars(Tick)
  /\ \A i \in Task : WF_activationVars(TaskStep(i) /\ UNCHANGED now)

-----------------------------------------------------------------------------
Step == {"free", "now", "suspend", "wait", "awake", "offset", "job", "sleep"}

ActivationTypeOK ==
  /\ now \in Nat
  /\ body \in [Task -> Bodies]
  /\ state \in [Task -> {"SUSPENDED", "ACTIVE", "WFP"}]
  /\ tsem \in [Task -> Nat]
  /\ offset \in [Task -> Nat]
  /\ dl \in [Task -> Nat] /\ at \in [Task -> Nat] /\ release \in [Task -> Nat]
  /\ step \in [Task -> Step]
  /\ activated \in [Task -> BOOLEAN]

Started == {"offset", "job", "sleep"}

KeepsDeadline == \A i \in Task :
  /\ step[i] \in Started
  /\ step'[i] \in Started
  /\ ~(step[i] = "sleep" /\ step'[i] = "job")
  => dl'[i] = dl[i] /\ at'[i] = at[i]

(* No activation reaches a task whose job runs, waits for its offset or sleeps *)
(* until its period: its deadline and next activation stay those of the job   *)
(* (ptask.c 478, 505), although state is written outside the mutex at 325.    *)
JobKeepsDeadline == [][KeepsDeadline]_activationVars

(* A job never starts before the instant from which its deadline is computed, *)
(* whichever activations and offsets were accepted while the task waited, and *)
(* dl and at belong to one instant (ptask.c 299-310, 329-335, 482-488).       *)
JobNotBeforeRelease == \A i \in Task :
  step[i] \in {"job", "sleep"} =>
    /\ release[i] <= now
    /\ dl[i] = release[i] + RelDeadline[i]
    /\ at[i] = release[i] + Period[i]

(* An accepted activation of an aperiodic task is not lost: unless the body   *)
(* returns, a later wait takes it (ptask.c 325-328, 491).                     *)
AcceptedStarts == \A i \in Task :
  tsem[i] > 0 /\ body[i] = "aperiodic" /\ step[i] # "free" ~> step[i] \in {"awake", "free"}

(* A task created DEFERRED "waits for the first activation" (ptask.c 123): no *)
(* wait of a task ends before the task itself has been activated (ptask.c     *)
(* 137-138, 326).                                                             *)
WaitsForActivation == \A i \in Task : step[i] = "awake" => activated[i]

-----------------------------------------------------------------------------
(* state tells ptask_activate whether the task waits: TASK_SUSPENDED from the  *)
(* assignment at 325 until 328, TASK_WFP exactly during the sleep.            *)
StateInv == \A i \in Task :
  /\ step[i] \in {"wait", "awake"} => state[i] = "SUSPENDED"
  /\ step[i] \in {"now", "suspend", "offset", "job"} => state[i] = "ACTIVE"
  /\ step[i] = "sleep" => state[i] = "WFP"

(* Only a task that waits may have been released for a later instant, and     *)
(* then it has an offset that is as late.                                     *)
OffsetInv == \A i \in Task :
  \/ release[i] <= now
  \/ step[i] \in {"wait", "awake", "offset"} /\ release[i] <= offset[i]

(* dl, at and the release belong together from the first activation on. *)
ReleaseInv == \A i \in Task :
  (tsem[i] > 0 \/ step[i] \in {"awake", "offset", "job", "sleep"}) =>
    /\ dl[i] = release[i] + RelDeadline[i]
    /\ at[i] = release[i] + Period[i]

(* The inductive invariant. *)
ActivationInv == ActivationTypeOK /\ StateInv /\ OffsetInv /\ ReleaseInv
=============================================================================
