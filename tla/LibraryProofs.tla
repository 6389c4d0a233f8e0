--------------------------- MODULE LibraryProofs ---------------------------
(***************************************************************************)
(* Proofs about MCLibrary: the invariants of the library's components hold *)
(* side by side, for any values of their constants.  A step belongs to one *)
(* component and leaves the variables of the others alone.  The hypotheses *)
(* are those of SyncProofs; the two further instances, which are woken     *)
(* spuriously, need none.                                                  *)
(***************************************************************************)
EXTENDS MCLibrary, SyncProofs, TimeProofs

(* The lemmas of SyncProofs for the two instances. *)
LooseProofs == INSTANCE SyncProofs WITH
  NThreads <- 2, Spurious <- TRUE,
  arrived <- l_arrived, reference <- l_reference, place <- l_place,
  calls <- l_calls, joined <- l_joined, got <- l_got, arrivals <- l_arrivals

WokenProofs == INSTANCE SyncProofs WITH
  SpuriousWait <- TRUE,
  nsignals <- w_nsignals, narrived <- w_narrived, waiter <- w_waiter, owed <- w_owed

(* What those modules assume of their constants. *)
LEMMA LooseAssumptions ==
  LooseProofs!IsFiniteSet(Thread) /\ LooseProofs!IsFiniteSet(ModeTask) /\ LooseProofs!None = None
BY BarrierAssumption, ModeAssumption DEF IsFiniteSet, LooseProofs!IsFiniteSet, None, LooseProofs!None

LEMMA WokenAssumptions ==
  WokenProofs!IsFiniteSet(Thread) /\ WokenProofs!IsFiniteSet(ModeTask) /\ WokenProofs!None = None
BY BarrierAssumption, ModeAssumption DEF IsFiniteSet, WokenProofs!IsFiniteSet, None, WokenProofs!None

LEMMA LooseInitInv == Loose!BarrierInit => Loose!CountingInv
BY BarrierAssumption
   DEF Loose!BarrierInit, Loose!CountingInv, Loose!BarrierTypeOK, Loose!EveryNthArrival

LEMMA LooseStepInv ==
  Loose!CountingInv /\ [Loose!BarrierNext]_looseVars => Loose!CountingInv'
<1>1. Loose!BarrierNext <=> LooseProofs!BarrierNext
  BY DEF Loose!BarrierNext, Loose!CallStep, Loose!ArriveEarly, Loose!ArriveLast, Loose!LeaveWait,
         Loose!SpuriousLeave, Loose!ReturnReference, Loose!EnterBarrier, Loose!MustWait,
         Loose!Notified, Loose!ArrivedAfterLast,
         LooseProofs!BarrierNext, LooseProofs!CallStep, LooseProofs!ArriveEarly,
         LooseProofs!ArriveLast, LooseProofs!LeaveWait, LooseProofs!SpuriousLeave,
         LooseProofs!ReturnReference, LooseProofs!EnterBarrier, LooseProofs!MustWait,
         LooseProofs!Notified, LooseProofs!ArrivedAfterLast
<1>2. LooseProofs!CountingInv /\ [LooseProofs!BarrierNext]_looseVars => LooseProofs!CountingInv'
  BY BarrierAssumption, GsemAssumption, ModeAssumption, LooseAssumptions, LooseProofs!CountingStep
     DEF LooseProofs!barrierVars, looseVars
<1>3. (Loose!CountingInv <=> LooseProofs!CountingInv)
      /\ (Loose!CountingInv' <=> LooseProofs!CountingInv')
  BY DEF Loose!CountingInv, Loose!BarrierTypeOK, Loose!EveryNthArrival,
         LooseProofs!CountingInv, LooseProofs!BarrierTypeOK, LooseProofs!EveryNthArrival
<1> QED
  BY <1>1, <1>2, <1>3

(* For the semaphore the inductive invariant is that of the lemma. *)
LEMMA WokenInitInv == Woken!GsemInit => WokenProofs!WaitingInv
BY DEF Woken!GsemInit, WokenProofs!WaitingInv, WokenProofs!GsemTypeOK,
       WokenProofs!BlockedOnlyWhileShort

LEMMA WokenStepInv ==
  WokenProofs!WaitingInv /\ [Woken!GsemNext]_wokenVars => WokenProofs!WaitingInv'
<1>1. Woken!GsemNext <=> WokenProofs!GsemNext
  BY DEF Woken!GsemNext, Woken!WaitBlocks, Woken!WaitPasses, Woken!WaiterWakes,
         Woken!WaiterWakesSpuriously, Woken!GsemPost, Woken!Reset, Woken!Signals,
         WokenProofs!GsemNext, WokenProofs!WaitBlocks, WokenProofs!WaitPasses,
         WokenProofs!WaiterWakes, WokenProofs!WaiterWakesSpuriously, WokenProofs!GsemPost,
         WokenProofs!Reset, WokenProofs!Signals
<1>2. WokenProofs!WaitingInv /\ [WokenProofs!GsemNext]_wokenVars => WokenProofs!WaitingInv'
  BY BarrierAssumption, GsemAssumption, ModeAssumption, WokenAssumptions, WokenProofs!WaitingStep
     DEF WokenProofs!gsemVars, wokenVars
<1> QED
  BY <1>1, <1>2

-----------------------------------------------------------------------------
(* A step of the whole is a step of each component or leaves it alone.  Only  *)
(* the mode manager moves the semaphore too.                                  *)
LEMMA Steps ==
  ASSUME [Next]_vars
  PROVE  /\ [BarrierNext]_barrierVars /\ [Loose!BarrierNext]_looseVars
         /\ [Woken!GsemNext]_wokenVars
         /\ [TstatNext]_tstatVars /\ [ActivationNext]_activationVars
         /\ UNCHANGED part
         /\ IF part = "modes" THEN [ModeNext]_modeVars ELSE [GsemNext]_gsemVars
<1> DEFINE Result ==
      /\ [BarrierNext]_barrierVars /\ [Loose!BarrierNext]_looseVars
      /\ [Woken!GsemNext]_wokenVars
      /\ [TstatNext]_tstatVars /\ [ActivationNext]_activationVars
      /\ UNCHANGED part
      /\ IF part = "modes" THEN [ModeNext]_modeVars ELSE [GsemNext]_gsemVars
<1>1. CASE UNCHANGED vars
  BY <1>1 DEF vars, modeVars, ownModeVars, managerVars, deployment, gsemVars
<1>2. CASE ModeManager(ModeNext)
  BY <1>2 DEF ModeManager
<1>3. CASE Semaphore(GsemNext)
  BY <1>3 DEF Semaphore
<1>4. CASE Barrier(BarrierNext) \/ LooseBarrier(Loose!BarrierNext) \/ WokenSemaphore(Woken!GsemNext)
           \/ Statistics(TstatNext) \/ Activation(ActivationNext) \/ Arithmetic(AskUnit)
  BY <1>4 DEF Barrier, LooseBarrier, WokenSemaphore, Statistics, Activation, Arithmetic
<1> QED
  BY <1>1, <1>2, <1>3, <1>4 DEF Next

(* The invariants of the components hold side by side (pbarrier.c 15-60,      *)
(* ptask.c 126-151, 284-338, 460-520, tstat.c 14-55, rtmode.c 40-159).        *)
THEOREM LibraryInvariance ==
  ASSUME ExactUse, ~SpuriousWait, CreatedNow = {}, SamePlace
  PROVE  Spec => []LibraryInv
<1>1. Init => LibraryInv
  BY BarrierInitInv, GsemInitInv, ActivationInitInv, StatInitInv, ModeInitInv
     DEF Init, ModeInit, LibraryInv
<1>2. LibraryInv /\ [Next]_vars => LibraryInv'
  <2> SUFFICES ASSUME LibraryInv, [Next]_vars PROVE LibraryInv'
    OBVIOUS
  <2>1. BarrierInv' /\ ActivationInv' /\ StatInv'
    BY Steps, BarrierStepInv, ActivationStepInv, StatStep DEF LibraryInv
  <2>2. CASE part = "modes"
    <3>1. ModeInv'
      BY <2>2, Steps, ModeStepInv DEF LibraryInv
    <3> QED
      BY <2>1, <3>1 DEF LibraryInv, ModeInv
  <2>3. CASE part # "modes"
    <3>1. GsemInv' /\ part' # "modes"
      BY <2>3, Steps, GsemStepInv DEF LibraryInv
    <3> QED
      BY <2>1, <3>1 DEF LibraryInv
  <2> QED
    BY <2>2, <2>3
<1> QED
  BY <1>1, <1>2, PTL DEF Spec

(* Spurious returns of pthread_cond_wait leave the instants of the barrier    *)
(* counted and no waiter blocked with enough posts, whoever uses the barrier  *)
(* and however often (pbarrier.c 19, 25, 46-47, 57).                          *)
THEOREM SpuriousWakeUpsHold == Spec => []SpuriousWakeUpsHarmless
<1> DEFINE Inv == Loose!CountingInv /\ WokenProofs!WaitingInv
<1>1. Init => Inv
  BY LooseInitInv, WokenInitInv DEF Init
<1>2. Inv /\ [Next]_vars => Inv'
  BY Steps, LooseStepInv, WokenStepInv
<1>3. Inv => SpuriousWakeUpsHarmless
  BY DEF SpuriousWakeUpsHarmless, Loose!CountingInv, WokenProofs!WaitingInv,
         WokenProofs!BlockedOnlyWhileShort, Woken!BlockedOnlyWhileShort
<1> QED
  BY <1>1, <1>2, <1>3, PTL DEF Spec
=============================================================================
