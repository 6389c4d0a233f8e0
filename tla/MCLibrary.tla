----------------------------- MODULE MCLibrary -----------------------------
(***************************************************************************)
(* Small instances of the ptask library for the model checker: the         *)
(* barrier, the generalised semaphore, the mode manager with three tasks   *)
(* in two modes that overlap, the activation of tasks, their statistics,   *)
(* and the time arithmetic.  part says which one a behavior is about; the  *)
(* semaphore's variables are those of the manager too.                     *)
(*                                                                         *)
(* Loose is a barrier for two with three users whose threads wake up       *)
(* spuriously, Woken a semaphore whose waiter does.  Times are tried in    *)
(* all pairs up to three seconds of eight nanoseconds, with units of 8, 4  *)
(* and 1 of them and an int of 32 values: a step chooses another unit.     *)
(***************************************************************************)
EXTENDS PBarrier, RtMode, Tstat, PtaskActivation, TimeLaws, TLC

CONSTANTS sec, milli, nano, i1, i2, i3

MCMul == (sec :> 1) @@ (milli :> 2) @@ (nano :> 8)
MCDiv == (sec :> 8) @@ (milli :> 4) @@ (nano :> 1)
MCPeriod == i1 :> 2
MCDeadline == i1 :> 3
MCModes == (0 :> <<i1, i2>>) @@ (1 :> <<i3, i2>>)
MCShiftedModes == (0 :> <<i1, i2>>) @@ (1 :> <<i2, i3>>)

VARIABLES
  part,
  l_arrived, l_reference, l_place, l_calls, l_joined, l_got, l_arrivals,
  w_nsignals, w_narrived, w_waiter, w_owed

Loose == INSTANCE PBarrier WITH
  NThreads <- 2, Spurious <- TRUE,
  arrived <- l_arrived, reference <- l_reference, place <- l_place,
  calls <- l_calls, joined <- l_joined, got <- l_got, arrivals <- l_arrivals

Woken == INSTANCE Gsem WITH
  SpuriousWait <- TRUE,
  nsignals <- w_nsignals, narrived <- w_narrived, waiter <- w_waiter, owed <- w_owed

looseVars == <<l_arrived, l_reference, l_place, l_calls, l_joined, l_got, l_arrivals>>
wokenVars == <<w_nsignals, w_narrived, w_waiter, w_owed>>
ownModeVars ==
  <<deployment, currMode, queue, manager, managerPosts, toblock, towake, heard,
    requestVars, modeTaskVars>>
vars ==
  <<part, barrierVars, looseVars, gsemVars, wokenVars, tstatVars, activationVars,
    ownModeVars, lawVars>>

MCLongs == -20..20
MCPeriods == 0..15

Init ==
  /\ part \in {"barrier", "loose", "gsem", "woken", "modes", "tstat", "activation", "time"}
  /\ BarrierInit /\ Loose!BarrierInit
  /\ ModeInit /\ Woken!GsemInit
  /\ TstatInit
  /\ ActivationInit
  /\ part # "activation" => body[i1] = "periodic"
  /\ part # "modes" => spaced /\ oneProcessor /\ ~spurious
  /\ spurious => spaced /\ oneProcessor
  /\ LawsInit
  /\ part # "time" => one = Ts(0, 0) /\ other = Ts(0, 0)

Barrier(A) ==
  part = "barrier" /\ A
  /\ UNCHANGED <<part, looseVars, gsemVars, wokenVars, tstatVars, activationVars, ownModeVars,
                 lawVars>>
LooseBarrier(A) ==
  part = "loose" /\ A
  /\ UNCHANGED <<part, barrierVars, gsemVars, wokenVars, tstatVars, activationVars, ownModeVars,
                 lawVars>>
Semaphore(A) ==
  part = "gsem" /\ A
  /\ UNCHANGED <<part, barrierVars, looseVars, wokenVars, tstatVars, activationVars, ownModeVars,
                 lawVars>>
WokenSemaphore(A) ==
  part = "woken" /\ A
  /\ UNCHANGED <<part, barrierVars, looseVars, gsemVars, tstatVars, activationVars, ownModeVars,
                 lawVars>>
ModeManager(A) ==
  part = "modes" /\ A
  /\ UNCHANGED <<part, barrierVars, looseVars, wokenVars, tstatVars, activationVars, lawVars>>
Statistics(A) ==
  part = "tstat" /\ A
  /\ UNCHANGED <<part, barrierVars, looseVars, gsemVars, wokenVars, activationVars, ownModeVars,
                 lawVars>>
Activation(A) ==
  part = "activation" /\ A
  /\ UNCHANGED <<part, barrierVars, looseVars, gsemVars, wokenVars, tstatVars, ownModeVars, lawVars>>

Arithmetic(A) ==
  part = "time" /\ A
  /\ UNCHANGED <<part, barrierVars, looseVars, gsemVars, wokenVars, tstatVars, activationVars,
                 ownModeVars>>

Next ==
  \/ Barrier(BarrierNext) \/ LooseBarrier(Loose!BarrierNext)
  \/ Semaphore(GsemNext) \/ WokenSemaphore(Woken!GsemNext)
  \/ ModeManager(ModeNext)
  \/ Statistics(TstatNext)
  \/ Activation(ActivationNext)
  \/ Arithmetic(AskUnit)

Spec ==
  /\ Init /\ [][Next]_vars
  /\ \A t \in Thread : WF_barrierVars(Barrier(CallStep(t)))
  /\ WF_gsemVars(Semaphore(WaiterWakes)) /\ WF_wokenVars(WokenSemaphore(Woken!WaiterWakes))
  /\ WF_modeVars(ModeManager(ManagerStep /\ UNCHANGED deployment))
  /\ \A i \in ModeTask : SF_modeVars(ModeManager(ModeTaskStep(i) /\ UNCHANGED deployment))
  /\ WF_activationVars(Activation(Tick))
  /\ \A i \in Task : WF_activationVars(Activation(TaskStep(i) /\ UNCHANGED now))

(* No wake-up of the barrier is lost: when every thread comes equally often,  *)
(* every call returns (pbarrier.c 24, 25).                                    *)
BarrierCallsReturn == part = "barrier" => EveryCallReturns

(* The inductive invariants of the five components, type correctness included; *)
(* those of the semaphore hold for its use by the mode manager too.           *)
LibraryInv ==
  /\ BarrierInv /\ GsemInv /\ ActivationInv /\ StatInv
  /\ part = "modes" => ModeInv

(* What a spurious return of pthread_cond_wait does not break: an instant is  *)
(* taken once in every two arrivals, whoever arrives (pbarrier.c 19, 25), and *)
(* a waiter is never left blocked with enough posts (pbarrier.c 46-47, 57).   *)
SpuriousWakeUpsHarmless == Loose!EveryNthArrival /\ Woken!BlockedOnlyWhileShort

=============================================================================
