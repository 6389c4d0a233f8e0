----------------------------- MODULE SyncProofs -----------------------------
(***************************************************************************)
(* Proofs about what synchronises tasks in the ptask library.              *)
(*                                                                         *)
(* PBarrier is used as pbarrier.h 19-28 says, by exactly nthreads threads, *)
(* on a system whose pthread_cond_wait returns only when it is signalled;  *)
(* what holds otherwise is said too.  Gsem is for any number of posts.     *)
(* RtMode, which uses it, is for any modes, any number of tasks and of     *)
(* mode changes, on one processor or several.  The tasks of modes are      *)
(* created DEFERRED, the default (ptask.h 123): one that is created NOW    *)
(* may post before the first mode begins, and its post counts for a later  *)
(* change.  They are at the same place in the lists of all their modes     *)
(* (SamePlace): otherwise a lookup across a change may miss its task.      *)
(* What is proved of changes holds without spurious returns of the         *)
(* manager, as the properties say.                                         *)
(***************************************************************************)
EXTENDS PBarrier, RtMode, FiniteSetTheorems, TLAPS

(* The use for which the theorems hold. *)
ExactUse == Cardinality(Thread) = NThreads /\ ~Spurious

LEMMA BlockedFinite == IsFiniteSet(Blocked)
BY FS_Subset, BarrierAssumption DEF Blocked

LEMMA BarrierInitInv == BarrierInit => BarrierInv
<1>1. SUFFICES ASSUME BarrierInit PROVE BarrierInv
  OBVIOUS
<1>2. Blocked = {}
  BY <1>1 DEF BarrierInit, Blocked
<1>3. Cardinality(Blocked) = 0
  BY <1>2, FS_EmptySet
<1> QED
  BY <1>1, <1>3, BarrierAssumption DEF BarrierInit, BarrierInv, BarrierTypeOK, ArrivedInv, RoundInv, OwnReference

(* One thread more than before is blocked. *)
LEMMA ArriveEarlyInv ==
  ASSUME BarrierInv, NEW t \in Thread, ArriveEarly(t)
  PROVE  BarrierInv'
<1> USE BarrierAssumption DEF BarrierInv
<1>1. BarrierTypeOK'
  BY DEF ArriveEarly, EnterBarrier, BarrierTypeOK
<1>2. t \notin Blocked /\ Blocked' = Blocked \cup {t}
  BY DEF ArriveEarly, EnterBarrier, Blocked, BarrierTypeOK
<1>3. Cardinality(Blocked') = Cardinality(Blocked) + 1
  BY <1>2, BlockedFinite, FS_AddElement
<1>4. ArrivedInv'
  BY <1>3 DEF ArriveEarly, MustWait, ArrivedInv
<1>5. \A u \in Thread :
        /\ place'[u] = IF u = t THEN "blocked" ELSE place[u]
        /\ calls'[u] = IF u = t THEN calls[u] + 1 ELSE calls[u]
        /\ joined'[u] = IF u = t THEN reference ELSE joined[u]
        /\ got'[u] = got[u]
  BY DEF ArriveEarly, EnterBarrier, BarrierTypeOK
<1>6. reference' = reference /\ place[t] = "out"
  BY DEF ArriveEarly, EnterBarrier
<1>7. RoundInv'
  BY <1>5, <1>6 DEF RoundInv, BarrierTypeOK
<1>8. OwnReference'
  BY <1>5, <1>6 DEF OwnReference, BarrierTypeOK
<1> QED
  BY <1>1, <1>4, <1>7, <1>8

(* The last thread finds every other one blocked. *)
LEMMA LastArrival ==
  ASSUME ExactUse, BarrierInv, NEW t \in Thread, ArriveLast(t)
  PROVE  Thread \ {t} = Blocked
<1> USE BarrierAssumption
<1>1. t \notin Blocked /\ Blocked \subseteq Thread \ {t}
  BY DEF ArriveLast, EnterBarrier, Blocked
<1>2. Cardinality(Thread \ {t}) = NThreads - 1 /\ IsFiniteSet(Thread \ {t})
  BY FS_RemoveElement DEF ExactUse
<1>3. arrived + 1 >= NThreads /\ arrived = Cardinality(Blocked) /\ arrived \in Nat
  BY DEF ArriveLast, MustWait, BarrierInv, ArrivedInv, BarrierTypeOK
<1>4. Cardinality(Blocked) <= Cardinality(Thread \ {t})
  BY <1>1, <1>2, FS_Subset
<1>5. Cardinality(Blocked) = Cardinality(Thread \ {t})
  BY <1>2, <1>3, <1>4
<1> QED
  BY <1>1, <1>2, <1>5, FS_Subset

LEMMA ArriveLastInv ==
  ASSUME ExactUse, BarrierInv, NEW t \in Thread, ArriveLast(t)
  PROVE  BarrierInv'
<1> USE BarrierAssumption DEF BarrierInv
<1>1. BarrierTypeOK'
  BY DEF ArriveLast, EnterBarrier, BarrierTypeOK, Notified, ArrivedAfterLast
<1>2. \A u \in Thread \ {t} : place[u] = "blocked"
  BY LastArrival DEF Blocked
<1>3. \A u \in Thread :
        /\ place'[u] = IF u = t THEN "unlocked" ELSE "woken"
        /\ calls'[u] = IF u = t THEN calls[u] + 1 ELSE calls[u]
        /\ joined'[u] = IF u = t THEN reference ELSE joined[u]
  BY <1>2 DEF ArriveLast, EnterBarrier, BarrierTypeOK, Notified
<1>4. reference' = reference + 1 /\ place[t] = "out"
  BY DEF ArriveLast, EnterBarrier
<1>5. Blocked' = {}
  BY <1>3 DEF Blocked
<1>6. ArrivedInv'
  BY <1>5, FS_EmptySet DEF ArrivedInv, ArriveLast, ArrivedAfterLast
<1>7. RoundInv'
  BY <1>2, <1>3, <1>4 DEF RoundInv, BarrierTypeOK
<1>8. OwnReference'
  BY <1>3 DEF OwnReference
<1> QED
  BY <1>1, <1>6, <1>7, <1>8

(* Leaving changes neither the set of blocked threads nor the reference. *)
LEMMA LeavingInv ==
  ASSUME BarrierInv, NEW t \in Thread, LeaveWait(t) \/ ReturnReference(t)
  PROVE  BarrierInv'
<1> USE BarrierAssumption DEF BarrierInv
<1>1. BarrierTypeOK'
  BY DEF LeaveWait, ReturnReference, BarrierTypeOK
<1>2. PICK to \in {"unlocked", "out"} :
        /\ \A u \in Thread : place'[u] = IF u = t THEN to ELSE place[u]
        /\ \A u \in Thread : got'[u] = IF u = t /\ to = "out" THEN reference ELSE got[u]
  BY DEF LeaveWait, ReturnReference, BarrierTypeOK
<1>3. place[t] \in {"woken", "unlocked"} /\ UNCHANGED <<arrived, reference, calls, joined>>
  BY DEF LeaveWait, ReturnReference
<1>4. Blocked' = Blocked
  BY <1>2, <1>3 DEF Blocked
<1>5. ArrivedInv'
  BY <1>3, <1>4 DEF ArrivedInv
<1>6. RoundInv'
  BY <1>2, <1>3 DEF RoundInv
<1>7. OwnReference'
  BY <1>2, <1>3 DEF OwnReference, RoundInv
<1> QED
  BY <1>1, <1>5, <1>6, <1>7

LEMMA BarrierStepInv ==
  ASSUME ExactUse, BarrierInv, [BarrierNext]_barrierVars
  PROVE  BarrierInv'
<1>1. CASE UNCHANGED barrierVars
  BY <1>1 DEF barrierVars, BarrierInv, BarrierTypeOK, ArrivedInv, Blocked, RoundInv, OwnReference
<1>2. CASE BarrierNext
  <2>1. PICK t \in Thread : CallStep(t) \/ SpuriousLeave(t)
    BY <1>2 DEF BarrierNext
  <2> QED
    BY <2>1, ArriveEarlyInv, ArriveLastInv, LeavingInv DEF CallStep, SpuriousLeave, ExactUse
<1> QED
  BY <1>1, <1>2

(* The inductive invariant of a barrier in exact use: the blocked threads are  *)
(* counted, and threads on their way out belong to the round just ended       *)
(* (pbarrier.c 15-39).                                                        *)
THEOREM BarrierInvariance == ASSUME ExactUse PROVE BarrierSpec => []BarrierInv
<1>1. BarrierInit => BarrierInv
  BY BarrierInitInv
<1>2. BarrierInv /\ [BarrierNext]_barrierVars => BarrierInv'
  BY BarrierStepInv
<1> QED
  BY <1>1, <1>2, PTL DEF BarrierSpec

(* For any number of threads and calls, every call returns the instant of its *)
(* own round, although it reads it outside the mutex (pbarrier.c 32, 35).     *)
THEOREM OwnReferenceHolds == ASSUME ExactUse PROVE BarrierSpec => []OwnReference
<1>1. BarrierInv => OwnReference
  BY DEF BarrierInv
<1> QED
  BY <1>1, BarrierInvariance, PTL

-----------------------------------------------------------------------------
(* What holds for any number of users and with spurious wake-ups. *)
LEMMA CountingInit == BarrierInit => CountingInv
BY BarrierAssumption DEF BarrierInit, CountingInv, BarrierTypeOK, EveryNthArrival

LEMMA CountingStep == CountingInv /\ [BarrierNext]_barrierVars => CountingInv'
<1> SUFFICES ASSUME CountingInv, [BarrierNext]_barrierVars PROVE CountingInv'
  OBVIOUS
<1> USE BarrierAssumption DEF CountingInv
<1>1. CASE UNCHANGED barrierVars
  BY <1>1 DEF barrierVars, BarrierTypeOK, EveryNthArrival
<1>2. ASSUME NEW t \in Thread, ArriveEarly(t) PROVE CountingInv'
  <2>1. BarrierTypeOK'
    BY <1>2 DEF ArriveEarly, EnterBarrier, BarrierTypeOK
  <2>2. EveryNthArrival'
    BY <1>2 DEF ArriveEarly, EnterBarrier, MustWait, BarrierTypeOK, EveryNthArrival
  <2> QED
    BY <2>1, <2>2
<1>3. ASSUME NEW t \in Thread, ArriveLast(t) PROVE CountingInv'
  <2>1. BarrierTypeOK'
    BY <1>3 DEF ArriveLast, EnterBarrier, Notified, ArrivedAfterLast, BarrierTypeOK
  <2>2. arrived + 1 = NThreads /\ arrivals' = arrivals + 1 /\ reference' = reference + 1 /\ arrived' = 0
    BY <1>3 DEF ArriveLast, EnterBarrier, MustWait, ArrivedAfterLast, BarrierTypeOK, EveryNthArrival
  <2>3. NThreads * (reference + 1) = NThreads * reference + NThreads
    BY DEF BarrierTypeOK
  <2> QED
    BY <2>1, <2>2, <2>3 DEF EveryNthArrival, BarrierTypeOK
<1>4. ASSUME NEW t \in Thread, LeaveWait(t) \/ SpuriousLeave(t) \/ ReturnReference(t)
      PROVE  CountingInv'
  <2>1. BarrierTypeOK'
    BY <1>4 DEF LeaveWait, SpuriousLeave, ReturnReference, BarrierTypeOK
  <2>2. EveryNthArrival'
    BY <1>4 DEF LeaveWait, SpuriousLeave, ReturnReference, EveryNthArrival
  <2> QED
    BY <2>1, <2>2
<1> QED
  BY <1>1, <1>2, <1>3, <1>4 DEF BarrierNext, CallStep

(* For any number of users and with spurious wake-ups, the counter never      *)
(* reaches nthreads, and each time it would, one instant is taken             *)
(* (pbarrier.c 19, 25).                                                       *)
THEOREM CountingHolds == BarrierSpec => []EveryNthArrival
<1>1. BarrierInit => CountingInv
  BY CountingInit
<1>2. CountingInv /\ [BarrierNext]_barrierVars => CountingInv'
  BY CountingStep
<1>3. CountingInv => EveryNthArrival
  BY DEF CountingInv
<1> QED
  BY <1>1, <1>2, <1>3, PTL DEF BarrierSpec

-----------------------------------------------------------------------------
(* The call of a thread returns in the step from "unlocked" to "out". *)
LEMMA ReturnIsLeave ==
  ASSUME BarrierInv, NEW t \in Thread, ReturnReference(t)
  PROVE  Ideal!Leave(t)
<1> DEFINE left == [u \in Thread |-> IF place[u] = "out" THEN calls[u] ELSE calls[u] - 1]
<1>1. place[t] = "unlocked" /\ calls' = calls /\ place' = [place EXCEPT ![t] = "out"]
  BY DEF ReturnReference
<1>2. \A u \in Thread : calls[t] <= calls[u] /\ calls[u] \in Nat
  BY <1>1 DEF BarrierInv, BarrierTypeOK, RoundInv
<1>3. left[t] = calls[t] - 1
  BY <1>1
<1>4. \A u \in Thread : left'[u] = IF u = t THEN left[u] + 1 ELSE left[u]
  <2>1. left'[t] = calls[t]
    BY <1>1 DEF BarrierInv, BarrierTypeOK
  <2>2. \A u \in Thread : u # t => left'[u] = left[u]
    BY <1>1 DEF BarrierInv, BarrierTypeOK
  <2> QED
    BY <1>2, <1>3, <2>1, <2>2
<1>5. left' = [left EXCEPT ![t] = @ + 1] /\ left[t] < calls[t]
  <2>1. left = [u \in Thread |-> left[u]] /\ left' = [u \in Thread |-> left'[u]]
    OBVIOUS
  <2> HIDE DEF left
  <2> QED
    BY <1>2, <1>3, <1>4, <2>1
<1> QED
  BY <1>1, <1>2, <1>5 DEF Ideal!Leave

LEMMA EnterIsEnter ==
  ASSUME BarrierInv, NEW t \in Thread, ArriveEarly(t) \/ ArriveLast(t)
  PROVE  Ideal!Enter(t)
<1> DEFINE left == [u \in Thread |-> IF place[u] = "out" THEN calls[u] ELSE calls[u] - 1]
<1>1. place[t] = "out" /\ calls' = [calls EXCEPT ![t] = @ + 1]
  BY DEF ArriveEarly, ArriveLast, EnterBarrier
<1>2. \A u \in Thread : calls[u] \in Nat /\ (u # t => calls'[u] = calls[u]) /\ calls'[t] = calls[t] + 1
  BY <1>1 DEF BarrierInv, BarrierTypeOK
<1>3. place'[t] # "out" /\ \A u \in Thread : u # t => (place'[u] = "out" <=> place[u] = "out")
  BY DEF ArriveEarly, ArriveLast, Notified, BarrierInv, BarrierTypeOK
<1>4. left' = left
  BY <1>1, <1>2, <1>3
<1> QED
  BY <1>1, <1>4 DEF Ideal!Enter

(* The barrier implements the abstract rendezvous: no call returns before     *)
(* every thread has made it (pbarrier.c 15-39, pbarrier.h 26).                *)
THEOREM RendezvousRefinement == ASSUME ExactUse PROVE BarrierSpec => ImplementsRendezvous
<1>1. BarrierInit => Ideal!Init
  BY DEF BarrierInit, Ideal!Init
<1>2. BarrierInv /\ [BarrierNext]_barrierVars => [Ideal!Next]_Ideal!vars
  <2> SUFFICES ASSUME BarrierInv, [BarrierNext]_barrierVars
               PROVE  Ideal!Next \/ UNCHANGED Ideal!vars
    OBVIOUS
  <2>1. CASE UNCHANGED barrierVars
    BY <2>1 DEF barrierVars, Ideal!vars
  <2>2. ASSUME NEW t \in Thread, CallStep(t)
        PROVE  Ideal!Next \/ UNCHANGED Ideal!vars
    <3>1. CASE ArriveEarly(t) \/ ArriveLast(t)
      BY <3>1, EnterIsEnter DEF Ideal!Next
    <3>2. CASE ReturnReference(t)
      BY <3>2, ReturnIsLeave DEF Ideal!Next
    <3>3. CASE LeaveWait(t)
      <4>1. calls' = calls /\ \A u \in Thread : place'[u] = "out" <=> place[u] = "out"
        BY <3>3 DEF LeaveWait, BarrierInv, BarrierTypeOK
      <4> QED
        BY <4>1 DEF Ideal!vars
    <3> QED
      BY <2>2, <3>1, <3>2, <3>3 DEF CallStep
  <2> QED
    BY <2>1, <2>2 DEF BarrierNext, SpuriousLeave, ExactUse
<1> QED
  BY <1>1, <1>2, BarrierInvariance, PTL DEF BarrierSpec, ImplementsRendezvous, Ideal!Spec

-----------------------------------------------------------------------------
(* The semaphore. *)

LEMMA GsemInitInv == GsemInit => GsemInv
BY DEF GsemInit, GsemInv, GsemTypeOK, BlockedOnlyWhileShort, WaitsForAll

LEMMA WaitInv ==
  ASSUME GsemInv, NEW n \in Nat, WaitBlocks(n) \/ WaitPasses(n)
  PROVE  GsemInv'
<1> USE DEF GsemInv, GsemTypeOK, BlockedOnlyWhileShort, WaitsForAll
<1>1. CASE WaitBlocks(n)
  BY <1>1 DEF WaitBlocks
<1>2. CASE WaitPasses(n)
  BY <1>2 DEF WaitPasses, Reset
<1> QED
  BY <1>1, <1>2

LEMMA WakeUpInv ==
  ASSUME GsemInv, WaiterWakes
  PROVE  GsemInv'
BY DEF GsemInv, GsemTypeOK, BlockedOnlyWhileShort, WaitsForAll, WaiterWakes, Reset

(* The post that makes the number of posts reach nsignals is the one that      *)
(* wakes the waiter, because posts come one at a time.                        *)
LEMMA PostInv ==
  ASSUME GsemInv, GsemPost
  PROVE  GsemInv'
<1> USE DEF GsemInv, GsemTypeOK, BlockedOnlyWhileShort, WaitsForAll, GsemPost, Signals
<1>1. CASE waiter = "blocked"
  BY <1>1
<1>2. CASE waiter # "blocked"
  BY <1>2
<1> QED
  BY <1>1, <1>2

LEMMA GsemStepInv ==
  ASSUME ~SpuriousWait, GsemInv, [GsemNext]_gsemVars
  PROVE  GsemInv'
<1>1. CASE UNCHANGED gsemVars
  BY <1>1 DEF gsemVars, GsemInv, GsemTypeOK, BlockedOnlyWhileShort, WaitsForAll
<1>2. CASE GsemNext
  BY <1>2, WaitInv, WakeUpInv, PostInv, GsemAssumption DEF GsemNext, WaiterWakesSpuriously
<1> QED
  BY <1>1, <1>2

(* The counters agree with where the waiter is (pbarrier.c 42-60). *)
THEOREM GsemInvariance == ASSUME ~SpuriousWait PROVE GsemSpec => []GsemInv
<1>1. GsemInit => GsemInv
  BY GsemInitInv
<1>2. GsemInv /\ [GsemNext]_gsemVars => GsemInv'
  BY GsemStepInv
<1> QED
  BY <1>1, <1>2, PTL DEF GsemSpec

(* A wait for n returns only after n posts (pbarrier.c 46-47, pbarrier.h 33). *)
THEOREM WaitsForAllHolds == ASSUME ~SpuriousWait PROVE GsemSpec => []WaitsForAll
<1>1. GsemInv => WaitsForAll
  BY DEF GsemInv
<1> QED
  BY <1>1, GsemInvariance, PTL

(* What is inductive also with spurious wake-ups, which may leave nsignals     *)
(* behind but not for a waiter that is blocked.                               *)
WaitingInv == GsemTypeOK /\ BlockedOnlyWhileShort /\ (waiter = "blocked" => nsignals = owed)

LEMMA WaitingInit == GsemInit => WaitingInv
BY DEF GsemInit, GsemTypeOK, BlockedOnlyWhileShort, WaitingInv

LEMMA WaitingStep == WaitingInv /\ [GsemNext]_gsemVars => WaitingInv'
<1> SUFFICES ASSUME WaitingInv, [GsemNext]_gsemVars PROVE WaitingInv'
  OBVIOUS
<1> USE GsemAssumption DEF GsemTypeOK, BlockedOnlyWhileShort, WaitingInv
<1>1. ASSUME NEW n \in Amounts, WaitBlocks(n) \/ WaitPasses(n) PROVE WaitingInv'
  BY <1>1 DEF WaitBlocks, WaitPasses, Reset
<1>2. CASE WaiterWakes \/ WaiterWakesSpuriously
  BY <1>2 DEF WaiterWakes, WaiterWakesSpuriously, Reset
<1>3. CASE GsemPost
  BY <1>3 DEF GsemPost, Signals
<1>4. CASE UNCHANGED gsemVars
  BY <1>4 DEF gsemVars
<1> QED
  BY <1>1, <1>2, <1>3, <1>4 DEF GsemNext

(* Whatever wakes the waiter, it is never left blocked with enough posts: the *)
(* test for equality cannot miss its moment (pbarrier.c 57).                  *)
THEOREM BlockedHolds == GsemSpec => []BlockedOnlyWhileShort
<1>1. GsemInit => WaitingInv
  BY WaitingInit
<1>2. WaitingInv /\ [GsemNext]_gsemVars => WaitingInv'
  BY WaitingStep
<1>3. WaitingInv => BlockedOnlyWhileShort
  BY DEF WaitingInv
<1> QED
  BY <1>1, <1>2, <1>3, PTL DEF GsemSpec

-----------------------------------------------------------------------------
LEMMA FiniteTasks ==
  ASSUME NEW S \in SUBSET ModeTask
  PROVE  IsFiniteSet(S) /\ Cardinality(S) \in Nat
BY FS_Subset, FS_CardinalityType, ModeAssumption

LEMMA ModesOfTasks ==
  ASSUME NEW m \in DOMAIN Modes \cup {None}
  PROVE  /\ TasksOf(m) \in SUBSET ModeTask
         /\ \A k \in DOMAIN Listed(m) : k \in 1..MaxListed /\ Listed(m)[k] \in TasksOf(m)
         /\ m # None => m \in DOMAIN Modes /\ Listed(m) = Modes[m]
<1>1. CASE m = None
  BY <1>1 DEF TasksOf, Listed
<1>2. CASE m # None
  <2>1. m \in DOMAIN Modes /\ Listed(m) = Modes[m] /\ Modes[m] \in Seq(ModeTask)
    BY <1>2, ModeAssumption DEF Listed
  <2>2. DOMAIN Modes[m] = 1..Len(Modes[m]) /\ Len(Modes[m]) \in Nat /\ Len(Modes[m]) <= MaxListed
        /\ MaxListed \in Nat
    BY <2>1, ModeAssumption
  <2>3. \A k \in DOMAIN Modes[m] : Modes[m][k] \in ModeTask /\ k \in 1..MaxListed
    BY <2>1, <2>2
  <2> QED
    BY <1>2, <2>1, <2>3 DEF TasksOf
<1> QED
  BY <1>1, <1>2

(* The requests are modes, or none. *)
LEMMA RequestIsMode == Requestable \subseteq DOMAIN Modes \cup {None}
BY ModeAssumption DEF Requestable

LEMMA ModeInitInv == ASSUME CreatedNow = {} PROVE ModeInit => ModeInv
<1> SUFFICES ASSUME ModeInit PROVE ModeInv
  OBVIOUS
<1>1. ModeTypeOK
  <2>1. MaxListed \in Nat /\ 1 \in 1..MaxListed + 1
    BY ModeAssumption
  <2>2. taskAt = [i \in ModeTask |-> "suspend"] /\ slot = [i \in ModeTask |-> 1]
        /\ taskPosts = [i \in ModeTask |-> 0]
    BY DEF ModeInit
  <2>3. spaced \in BOOLEAN /\ oneProcessor \in BOOLEAN /\ spurious \in BOOLEAN
    BY ModeAssumption DEF ModeInit
  <2>4. /\ taskAt \in [ModeTask -> {"job", "test", "compare", "leave", "sleep", "suspend", "wait", "awake"}]
        /\ slot \in [ModeTask -> 1..MaxListed + 1]
        /\ \A i \in ModeTask : taskAt[i] = "compare" => slot[i] <= MaxListed
        /\ taskPosts \in [ModeTask -> Nat]
    BY <2>1, <2>2
  <2>5. /\ currMode \in DOMAIN Modes \cup {None}
        /\ queue \in Seq(DOMAIN Modes \cup {None}) /\ head \in Nat
        /\ manager = "start" /\ managerPosts \in Nat
        /\ toblock = {} /\ towake = {} /\ heard = {} /\ GsemTypeOK
    BY DEF ModeInit, GsemInit, GsemTypeOK
  <2>6. asking \in BOOLEAN
    BY Zenon DEF ModeInit
  <2> QED
    BY <2>3, <2>4, <2>5, <2>6 DEF ModeTypeOK
<1>2. GsemInv
  BY GsemInitInv DEF ModeInit
<1>3. ChangeInv
  BY ModeAssumption DEF ModeInit, GsemInit, ChangeInv, Changing, Off
<1>4. PriorityInv /\ SpacedInv /\ LookupInv /\ RequestsInv
  BY DEF ModeInit, PriorityInv, SpacedInv, LookupInv, RequestsInv, TasksOf, Listed
<1> QED
  BY <1>1, <1>2, <1>3, <1>4 DEF ModeInv

-----------------------------------------------------------------------------
(* Every step keeps the types. *)
TaskStates == {"job", "test", "compare", "leave", "sleep", "suspend", "wait", "awake"}

LEMMA TaskTypeStep ==
  ASSUME ModeTypeOK, NEW i \in ModeTask, ModeTaskStep(i), UNCHANGED deployment
  PROVE  ModeTypeOK'
<1> USE DEF ModeTypeOK
<1>1. MaxListed \in Nat
  BY ModeAssumption
<1>2. PICK p \in TaskStates : Goes(i, p)
  BY DEF ModeTaskStep, EndJob, TestLoop, Compare, Leaves, NextPeriod, SuspendTask, TaskActivated,
         TaskActive, TaskStates
<1>3. taskAt' \in [ModeTask -> TaskStates]
      /\ \A j \in ModeTask : taskAt'[j] = IF j = i THEN p ELSE taskAt[j]
  BY <1>2 DEF Goes, TaskStates
<1>4. \A j \in ModeTask : slot[j] \in 1..MaxListed + 1
  OBVIOUS
<1>5. slot' \in [ModeTask -> 1..MaxListed + 1]
      /\ \A j \in ModeTask : taskAt'[j] = "compare" => slot'[j] <= MaxListed
  <2>1. CASE TestLoop(i)
    <3>1. CASE Goes(i, "compare") /\ UNCHANGED slot /\ slot[i] <= MaxListed
      BY <3>1 DEF Goes
    <3>2. CASE Goes(i, "leave") /\ Looks(i, 1)
      BY <1>1, <1>4, <3>2 DEF Goes, Looks
    <3> QED
      BY <2>1, <3>1, <3>2 DEF TestLoop
  <2>2. CASE Compare(i)
    <3>1. slot[i] <= MaxListed
      BY <2>2 DEF Compare
    <3>2. CASE Goes(i, "sleep") /\ Looks(i, 1)
      BY <1>1, <1>4, <3>2 DEF Goes, Looks
    <3>3. CASE Goes(i, "test") /\ Looks(i, slot[i] + 1)
      BY <1>1, <1>4, <3>1, <3>3 DEF Goes, Looks
    <3> QED
      BY <2>2, <3>2, <3>3 DEF Compare
  <2>3. CASE ~TestLoop(i) /\ ~Compare(i)
    <3>1. \/ UNCHANGED slot
          \/ Looks(i, 1)
      BY <2>3 DEF ModeTaskStep, EndJob, Leaves, NextPeriod, SuspendTask, TaskActivated, TaskActive
    <3>3. slot' \in [ModeTask -> 1..MaxListed + 1] /\ \A j \in ModeTask \ {i} : slot'[j] = slot[j]
      BY <1>1, <1>4, <3>1 DEF Looks
    <3>2. taskAt'[i] # "compare"
      BY <1>2, <1>3, <2>3 DEF ModeTaskStep, EndJob, Leaves, NextPeriod, SuspendTask, TaskActivated,
                              TaskActive, Goes
    <3> QED
      BY <1>3, <3>2, <3>3
  <2> QED
    BY <2>1, <2>2, <2>3
<1>6. heard' \in SUBSET ModeTask /\ GsemTypeOK'
  BY DEF ModeTaskStep, EndJob, TestLoop, Compare, Leaves, NextPeriod, SuspendTask, TaskActivated,
         TaskActive, TaskMovesOnly, managerVars, LeaveMode, GsemPost, gsemVars, GsemTypeOK
<1>7. taskPosts' \in [ModeTask -> Nat]
  BY DEF ModeTaskStep, EndJob, TestLoop, Compare, Leaves, NextPeriod, SuspendTask, TaskActivated,
         TaskActive, TaskMovesOnly
<1>8. UNCHANGED <<currMode, queue, manager, managerPosts, toblock, towake, requestVars>>
  BY DEF ModeTaskStep, EndJob, TestLoop, Compare, Leaves, NextPeriod, SuspendTask, TaskActivated,
         TaskActive, TaskMovesOnly, managerVars
<1> QED
  BY <1>3, <1>5, <1>6, <1>7, <1>8 DEF deployment, requestVars, TaskStates

LEMMA ModeTypeStep ==
  ASSUME ModeTypeOK, RequestsInv, ModeNext
  PROVE  ModeTypeOK'
<1> USE DEF ModeTypeOK
<1>1. ASSUME NEW m \in Requestable, QueueRequest(m), UNCHANGED deployment PROVE ModeTypeOK'
  BY <1>1, RequestIsMode DEF QueueRequest, deployment, gsemVars, modeTaskVars, GsemTypeOK
<1>2. ASSUME ActivateManager, UNCHANGED deployment PROVE ModeTypeOK'
  <2>1. managerPosts' \in Nat
    BY <1>2 DEF ActivateManager
  <2>3. asking' \in BOOLEAN
    BY <1>2, Zenon DEF ActivateManager
  <2>2. UNCHANGED <<spaced, oneProcessor, spurious, currMode, queue, manager, toblock, towake, heard, head,
                    nsignals, narrived, waiter, owed, taskAt, slot, taskPosts>>
    BY <1>2 DEF ActivateManager, deployment, gsemVars, modeTaskVars
  <2> QED
    BY <2>1, <2>2, <2>3 DEF GsemTypeOK
<1>3. ASSUME ManagerStep, UNCHANGED deployment PROVE ModeTypeOK'
  <2> USE DEF deployment, requestVars, modeTaskVars
  <2>1. CASE Suspends \/ ManagerActivated \/ ManagerActive \/ WakesUp \/ AllActivated
    BY <1>3, <2>1 DEF Suspends, ManagerActivated, ManagerActive, WakesUp, AllActivated, gsemVars, GsemTypeOK
  <2>2. CASE BeginChange
    <3>1. Len(queue) > 0
      BY <2>2 DEF BeginChange, RequestsInv
    <3>2. Head(queue) \in DOMAIN Modes \cup {None} /\ Tail(queue) \in Seq(DOMAIN Modes \cup {None})
      BY <3>1
    <3>3. toblock' \in SUBSET ModeTask /\ towake' \in SUBSET ModeTask
      BY <2>2, <3>2, ModesOfTasks DEF BeginChange, Leaving, Joining
    <3> QED
      BY <1>3, <2>2, <3>2, <3>3 DEF BeginChange, gsemVars, GsemTypeOK
  <2>3. CASE WaitForLeaving \/ AllHaveLeft \/ ReturnsEarly
    BY <1>3, <2>3, FiniteTasks DEF WaitForLeaving, AllHaveLeft, ReturnsEarly, WaitBlocks, WaitPasses,
                              WaiterWakes, Reset, AmountToWait, GsemTypeOK
  <2>4. ASSUME NEW i \in ModeTask, ActivateTask(i) PROVE ModeTypeOK'
    BY <1>3, <2>4 DEF ActivateTask, gsemVars, GsemTypeOK
  <2> QED
    BY <1>3, <2>1, <2>2, <2>3, <2>4 DEF ManagerStep
<1>4. ASSUME NEW i \in ModeTask, ModeTaskStep(i), UNCHANGED deployment PROVE ModeTypeOK'
  BY <1>4, TaskTypeStep
<1> QED
  BY <1>1, <1>2, <1>3, <1>4 DEF ModeNext

(* The manager takes a request for every post. *)
LEMMA RequestsStep ==
  ASSUME ModeTypeOK, RequestsInv, ModeNext
  PROVE  RequestsInv'
<1> USE DEF RequestsInv
<1>1. queue \in Seq(DOMAIN Modes \cup {None}) /\ Len(queue) \in Nat /\ managerPosts \in Nat
      /\ asking \in BOOLEAN
  BY DEF ModeTypeOK
<1>2. ASSUME NEW m \in Requestable, QueueRequest(m) PROVE RequestsInv'
  <2>1. Len(queue') = Len(queue) + 1
    BY <1>1, <1>2, RequestIsMode DEF QueueRequest
  <2> QED
    BY <1>1, <1>2, <2>1 DEF QueueRequest
<1>3. ASSUME ActivateManager PROVE RequestsInv'
  BY <1>1, <1>3 DEF ActivateManager
<1>4. ASSUME BeginChange PROVE RequestsInv'
  <2>1. Len(queue) > 0
    BY <1>1, <1>4 DEF BeginChange
  <2>2. Len(queue') = Len(queue) - 1
    BY <1>1, <1>4, <2>1 DEF BeginChange
  <2> QED
    BY <1>1, <1>4, <2>2 DEF BeginChange, requestVars
<1>5. ASSUME Suspends \/ ManagerActivated \/ ManagerActive \/ WaitForLeaving \/ AllHaveLeft
             \/ ReturnsEarly \/ WakesUp \/ AllActivated \/ \E i \in ModeTask : ActivateTask(i)
      PROVE  RequestsInv'
  BY <1>1, <1>5 DEF Suspends, ManagerActivated, ManagerActive, WaitForLeaving, AllHaveLeft, ReturnsEarly,
                    WakesUp, AllActivated, ActivateTask, requestVars
<1>6. ASSUME NEW i \in ModeTask, ModeTaskStep(i) PROVE RequestsInv'
  BY <1>6 DEF ModeTaskStep, EndJob, TestLoop, Compare, Leaves, NextPeriod, SuspendTask, TaskActivated,
              TaskActive, TaskMovesOnly, managerVars, requestVars
<1> QED
  BY <1>2, <1>3, <1>4, <1>5, <1>6 DEF ModeNext, ManagerStep

(* The manager and the tasks use the semaphore as Gsem describes it; a wait    *)
(* that is ended early leaves it as one that ends.                            *)
LEMMA SemaphoreStep ==
  ASSUME ModeTypeOK, GsemInv, ModeNext
  PROVE  GsemInv'
<1>1. CASE UNCHANGED gsemVars
  BY <1>1 DEF gsemVars, GsemInv, GsemTypeOK, BlockedOnlyWhileShort, WaitsForAll
<1>2. CASE GsemPost
  BY <1>2, PostInv
<1>3. CASE WaiterWakes
  BY <1>3, WakeUpInv
<1>4. ASSUME WaitBlocks(AmountToWait) \/ WaitPasses(AmountToWait) PROVE GsemInv'
  <2>1. AmountToWait \in Nat
    BY FiniteTasks DEF AmountToWait, ModeTypeOK
  <2> QED
    BY <1>4, <2>1, WaitInv
<1>5. CASE ReturnsEarly
  BY <1>5 DEF ReturnsEarly, Reset, GsemInv, GsemTypeOK, BlockedOnlyWhileShort, WaitsForAll
<1>6. UNCHANGED gsemVars \/ GsemPost \/ WaiterWakes \/ WaitBlocks(AmountToWait) \/ WaitPasses(AmountToWait)
      \/ ReturnsEarly
  BY DEF ModeNext, QueueRequest, ActivateManager, ManagerStep, Suspends, ManagerActivated, ManagerActive,
         BeginChange, WaitForLeaving, AllHaveLeft, WakesUp, AllActivated, ActivateTask, ModeTaskStep,
         EndJob, TestLoop, Compare, Leaves, LeaveMode, NextPeriod, SuspendTask, TaskActivated, TaskActive,
         TaskMovesOnly, managerVars
<1> QED
  BY <1>1, <1>2, <1>3, <1>4, <1>5, <1>6

-----------------------------------------------------------------------------
(* What is shown from here on is about systems without spurious returns, for  *)
(* which ModeInv gives all its parts.                                         *)
LEMMA LookupSame ==
  ASSUME LookupInv, UNCHANGED <<currMode, taskAt, slot>>
  PROVE  LookupInv'
BY DEF LookupInv, Listed

(* A step of a task that leaves it on or off, and the others alone. *)
LEMMA TaskMoves ==
  ASSUME ModeInv, ~spurious, NEW i \in ModeTask, UNCHANGED <<managerVars, requestVars, deployment>>,
         \A j \in ModeTask \ {i} : taskAt'[j] = taskAt[j] /\ taskPosts'[j] = taskPosts[j],
         On(i) => On(i)', Off(i) <=> Off(i)', Waits(i) => Waits(i)',
         i \in TasksOf(currMode) => (Runs(i) => Runs(i)')
  PROVE  ChangeInv' /\ PriorityInv' /\ SpacedInv'
<1> USE DEF managerVars, requestVars, gsemVars, deployment
<1>1. \A j \in ModeTask : /\ On(j) => On(j)'
                          /\ Off(j) <=> Off(j)'
                          /\ j \in TasksOf(currMode) => (Runs(j) => Runs(j)')
                          /\ Waits(j) => Waits(j)'
  BY DEF On, Off, Runs, Waits
<1>2. TasksOf(currMode) \subseteq ModeTask /\ toblock \subseteq ModeTask
  BY ModesOfTasks DEF ModeInv, ModeTypeOK
<1>3. {j \in toblock : Off(j)}' = {j \in toblock : Off(j)}
  BY <1>1, <1>2
<1>4. UNCHANGED <<Changing, MayBeOn, TasksOf(currMode)>>
  BY DEF Changing, MayBeOn, TasksOf, Listed
<1>5. ChangeInv'
  BY <1>1, <1>2, <1>3, <1>4 DEF ModeInv, ChangeInv
<1>6. PriorityInv'
  BY <1>3 DEF ModeInv, PriorityInv
<1>7. SpacedInv'
  BY <1>1, <1>2, <1>4 DEF ModeInv, SpacedInv
<1> QED
  BY <1>5, <1>6, <1>7

(* Only a task that the manager waits for can find that it is in no mode: its *)
(* post is counted, and it is off from then on.                               *)
LEMMA TaskLeaves ==
  ASSUME ModeInv, ~spurious, NEW i \in ModeTask, Leaves(i), UNCHANGED deployment
  PROVE  LookupInv' /\ ChangeInv' /\ PriorityInv' /\ SpacedInv'
<1> USE DEF ModeInv, requestVars
<1>0. MayRun /\ taskAt[i] = "leave"
      /\ UNCHANGED <<currMode, queue, manager, managerPosts, toblock, towake, head, asking, taskPosts, slot,
                     deployment>>
  BY DEF Leaves
<1>1. On(i) /\ ~Off(i) /\ i \in MayBeOn
  BY <1>0 DEF ChangeInv, On, Off
<1>2. i \notin TasksOf(currMode)
  BY <1>0 DEF LookupInv, TasksOf
<1>3. i \in toblock /\ manager = "maxsem" /\ Changing
  BY <1>1, <1>2 DEF MayBeOn, Changing
<1>4. /\ Off(i)' /\ ~Off(i) /\ taskAt'[i] = "suspend"
      /\ \A j \in ModeTask \ {i} : UNCHANGED <<taskAt[j], On(j), Off(j), Runs(j), Waits(j)>>
  BY <1>0, <1>1 DEF Leaves, Goes, On, Off, Runs, Waits, ModeTypeOK
<1>5. TasksOf(currMode) \subseteq ModeTask /\ toblock \subseteq ModeTask
  BY ModesOfTasks DEF ModeTypeOK
<1> DEFINE Left == {j \in toblock : Off(j)}
<1>6. Left' = Left \cup {i} /\ i \notin Left
  BY <1>0, <1>3, <1>4, <1>5
<1>7. IsFiniteSet(Left) /\ Cardinality(Left) \in Nat /\ Cardinality(Left') = Cardinality(Left) + 1
  <2>1. Left \in SUBSET ModeTask
    BY <1>5
  <2> QED
    BY <1>6, <2>1, FiniteTasks, FS_AddElement
<1>8. UNCHANGED <<Changing, MayBeOn, TasksOf(currMode)>>
  BY <1>0 DEF Changing, MayBeOn, TasksOf, Listed
<1>9. narrived' = narrived + 1 /\ narrived \in Nat /\ heard' = heard \cup {i} /\ owed' = owed
  BY DEF Leaves, LeaveMode, GsemPost, ModeTypeOK, GsemTypeOK
<1>10. waiter' = "out" <=> waiter = "out"
  BY DEF Leaves, LeaveMode, GsemPost
<1>11. ChangeInv'
  <2>1. narrived' <= Cardinality(Left')
    BY <1>3, <1>7, <1>9 DEF ChangeInv
  <2>2. \A j \in ModeTask : Off(j)' \/ (On(j)' /\ j \in MayBeOn')
    BY <1>4, <1>8 DEF ChangeInv
  <2> QED
    BY <1>0, <1>3, <1>8, <1>9, <1>10, <2>1, <2>2 DEF ChangeInv
<1>12. PriorityInv'
  <2> SUFFICES ASSUME oneProcessor PROVE PriorityInv'
    BY <1>0 DEF PriorityInv, deployment
  <2>1. waiter = "blocked" /\ waiter' # "out"
    BY <1>0, <1>3, <1>10 DEF MayRun, ManagerBlocked
  <2>2. heard \subseteq Left /\ narrived = Cardinality(heard)
    BY <1>3, <2>1 DEF PriorityInv
  <2>3. Cardinality(heard') = Cardinality(heard) + 1
    BY <1>6, <1>9, <2>2, FiniteTasks, FS_AddElement DEF ModeTypeOK
  <2>4. heard' \subseteq Left'
    BY <1>6, <1>9, <2>2
  <2> QED
    BY <1>0, <1>3, <1>9, <2>1, <2>2, <2>3, <2>4 DEF PriorityInv
<1>13. SpacedInv'
  BY <1>0, <1>3, <1>4, <1>5, <1>8 DEF SpacedInv, deployment
<1>14. LookupInv'
  <2>1. Listed(currMode') = Listed(currMode)
    BY <1>0
  <2>2. \A k \in DOMAIN Listed(currMode) : Listed(currMode)[k] \in TasksOf(currMode)
    BY ModesOfTasks DEF ModeTypeOK
  <2> QED
    BY <1>0, <1>2, <1>4, <1>5, <2>1, <2>2 DEF LookupInv
<1> QED
  BY <1>11, <1>12, <1>13, <1>14

(* The lookup does not pass the place of a task of the current mode. *)
LEMMA LookupStep ==
  ASSUME ModeInv, ~spurious, NEW i \in ModeTask, ModeTaskStep(i), ~Leaves(i)
  PROVE  /\ LookupInv'
         /\ i \in TasksOf(currMode) => taskAt'[i] # "leave"
<1> USE DEF ModeInv
<1>1. UNCHANGED currMode /\ taskAt \in [ModeTask -> TaskStates] /\ slot \in [ModeTask -> 1..MaxListed + 1]
      /\ MaxListed \in Nat
  BY ModeAssumption DEF ModeTaskStep, EndJob, TestLoop, Compare, NextPeriod, SuspendTask, TaskActivated,
         TaskActive, TaskMovesOnly, managerVars, ModeTypeOK, TaskStates
<1>2. \A j \in ModeTask \ {i} : taskAt'[j] = taskAt[j] /\ slot'[j] = slot[j]
  BY <1>1 DEF ModeTaskStep, EndJob, TestLoop, Compare, NextPeriod, SuspendTask, TaskActivated,
         TaskActive, Goes, Looks
<1>3. ASSUME NEW k \in DOMAIN Listed(currMode), Listed(currMode)[k] = i
      PROVE  taskAt'[i] # "leave" /\ (taskAt'[i] \in {"test", "compare"} => slot'[i] <= k)
  <2>1. currMode # None /\ Listed(currMode) = Modes[currMode] /\ k \in 1..MaxListed
    BY <1>3, ModesOfTasks DEF ModeTypeOK, Listed
  <2>2. taskAt[i] \in {"test", "compare"} => slot[i] <= k
    BY <1>3 DEF LookupInv
  <2>3. taskAt[i] \in {"test", "compare"} => slot[i] \in DOMAIN Modes[currMode]
    <3>1. Modes[currMode] \in Seq(ModeTask)
      BY <2>1, ModeAssumption DEF ModeTypeOK
    <3>2. DOMAIN Modes[currMode] = 1..Len(Modes[currMode]) /\ Len(Modes[currMode]) \in Nat
      BY <3>1
    <3> QED
      BY <1>1, <1>3, <2>1, <2>2, <3>2
  <2>4. CASE EndJob(i)
    <3>1. slot'[i] = 1 /\ taskAt'[i] = "test"
      BY <1>1, <2>1, <2>4 DEF EndJob, Goes, Looks
    <3> QED
      BY <2>1, <3>1
  <2>5. CASE TestLoop(i)
    BY <1>1, <2>1, <2>2, <2>3, <2>5 DEF TestLoop, Goes, Looks
  <2>6. CASE Compare(i)
    <3>1. CASE Goes(i, "sleep")
      BY <1>1, <3>1 DEF Goes
    <3>2. CASE Modes[currMode][slot[i]] # i /\ Goes(i, "test") /\ Looks(i, slot[i] + 1)
      <4>1. slot[i] # k /\ slot[i] <= k /\ slot[i] \in Nat /\ k \in Nat
        BY <1>1, <1>3, <2>1, <2>2, <2>6, <3>2 DEF Compare
      <4>2. slot[i] + 1 <= k
        BY <4>1
      <4>3. taskAt'[i] = "test" /\ slot'[i] = slot[i] + 1
        BY <1>1, <3>2 DEF Goes, Looks
      <4> QED
        BY <4>2, <4>3
    <3> QED
      BY <2>1, <2>3, <2>6, <3>1, <3>2 DEF Compare
  <2>7. CASE NextPeriod(i) \/ SuspendTask(i) \/ TaskActivated(i) \/ TaskActive(i)
    BY <1>1, <2>7 DEF NextPeriod, SuspendTask, TaskActivated, TaskActive, Goes
  <2> QED
    BY <2>4, <2>5, <2>6, <2>7 DEF ModeTaskStep
<1>4. LookupInv'
  <2> SUFFICES ASSUME NEW k \in DOMAIN Listed(currMode)
               PROVE  LET j == Listed(currMode)[k] IN
                        /\ taskAt'[j] # "leave"
                        /\ taskAt'[j] \in {"test", "compare"} => slot'[j] <= k
    BY <1>1 DEF LookupInv
  <2>1. Listed(currMode)[k] \in ModeTask
    BY ModesOfTasks DEF ModeTypeOK
  <2> QED
    BY <1>2, <1>3, <2>1 DEF LookupInv
<1> QED
  BY <1>3, <1>4 DEF TasksOf

LEMMA TaskStepInv ==
  ASSUME ModeInv, ~spurious, NEW i \in ModeTask, ModeTaskStep(i), UNCHANGED deployment
  PROVE  LookupInv' /\ ChangeInv' /\ PriorityInv' /\ SpacedInv'
<1> DEFINE Result == ChangeInv' /\ PriorityInv' /\ SpacedInv'
           Same == UNCHANGED <<managerVars, requestVars, deployment>>
<1>1. On(i) \/ Off(i)
  BY DEF ModeInv, ChangeInv
<1>2. taskAt \in [ModeTask -> TaskStates] /\ taskPosts \in [ModeTask -> Nat]
  BY DEF ModeInv, ModeTypeOK, TaskStates
<1>3. ASSUME Same, UNCHANGED taskPosts, ~Leaves(i),
             NEW p \in {"test", "compare", "leave", "sleep", "job"}, Goes(i, p),
             taskAt[i] \in {"job", "test", "compare", "sleep", "awake"}
      PROVE  Result
  <2>1. \A j \in ModeTask \ {i} : taskAt'[j] = taskAt[j] /\ taskPosts'[j] = taskPosts[j]
    BY <1>2, <1>3 DEF Goes
  <2>2. On(i)' /\ ~Off(i) /\ ~Off(i)' /\ ~Waits(i) /\ (taskAt'[i] # "leave" => Runs(i)')
    BY <1>1, <1>2, <1>3 DEF On, Off, Runs, Waits, Goes
  <2>3. i \in TasksOf(currMode) => taskAt'[i] # "leave"
    BY <1>3, LookupStep
  <2> QED
    BY <1>3, <2>1, <2>2, <2>3, TaskMoves
<1>4. CASE Leaves(i)
  BY <1>4, TaskLeaves
<1>5. ASSUME ~Leaves(i), EndJob(i) \/ TestLoop(i) \/ Compare(i) \/ NextPeriod(i) \/ TaskActive(i)
      PROVE  Result
  <2>1. Same /\ UNCHANGED taskPosts
    BY <1>5 DEF EndJob, TestLoop, Compare, NextPeriod, TaskActive, TaskMovesOnly
  <2>2. taskAt[i] \in {"job", "test", "compare", "sleep", "awake"}
    BY <1>5 DEF EndJob, TestLoop, Compare, NextPeriod, TaskActive
  <2>3. PICK p \in {"test", "compare", "leave", "sleep", "job"} : Goes(i, p)
    BY <1>5 DEF EndJob, TestLoop, Compare, NextPeriod, TaskActive
  <2> QED
    BY <1>3, <1>5, <2>1, <2>2, <2>3
<1>6. ASSUME SuspendTask(i) PROVE Result
  <2>1. \A j \in ModeTask \ {i} : taskAt'[j] = taskAt[j] /\ taskPosts'[j] = taskPosts[j]
    BY <1>2, <1>6 DEF SuspendTask, TaskMovesOnly, Goes
  <2>2. ~On(i) /\ Off(i)' /\ ~Runs(i) /\ ~Waits(i)
    BY <1>1, <1>2, <1>6 DEF SuspendTask, TaskMovesOnly, Goes, On, Off, Runs, Waits
  <2> QED
    BY <1>1, <1>6, <2>1, <2>2, TaskMoves DEF SuspendTask, TaskMovesOnly
<1>7. ASSUME TaskActivated(i) PROVE Result
  <2>1. \A j \in ModeTask \ {i} : taskAt'[j] = taskAt[j] /\ taskPosts'[j] = taskPosts[j]
    BY <1>2, <1>7 DEF TaskActivated, Goes
  <2>2. On(i)' /\ ~Off(i) /\ ~Off(i)' /\ ~Runs(i) /\ ~Waits(i)
    BY <1>1, <1>2, <1>7 DEF TaskActivated, Goes, On, Off, Runs, Waits
  <2> QED
    BY <1>7, <2>1, <2>2, TaskMoves DEF TaskActivated
<1>8. CASE ~Leaves(i)
  <2>1. LookupInv'
    BY <1>8, LookupStep
  <2> QED
    BY <1>5, <1>6, <1>7, <1>8, <2>1 DEF ModeTaskStep
<1> QED
  BY <1>4, <1>8

-----------------------------------------------------------------------------
(* The steps of the manager leave the tasks where they are, except that it    *)
(* activates one.                                                             *)
LEMMA QueueRequestInv ==
  ASSUME ModeInv, ~spurious, NEW m \in Requestable, QueueRequest(m), UNCHANGED deployment
  PROVE  LookupInv' /\ ChangeInv' /\ PriorityInv' /\ SpacedInv'
<1> USE DEF ModeInv, ModeTypeOK, GsemTypeOK, QueueRequest, gsemVars, deployment, modeTaskVars, Changing,
            MayBeOn, TasksOf, Listed, On, Off, Runs, Waits
<1>1. LookupInv'
  BY LookupSame
<1>2. ChangeInv'
  BY DEF ChangeInv
<1>3. PriorityInv'
  BY DEF PriorityInv
<1>4. spaced => queue = <<>>
  BY DEF SpacedInv, Settled
<1>5. SpacedInv'
  <2> SUFFICES ASSUME spaced PROVE SpacedInv'
    BY DEF SpacedInv
  <2>1. queue' # <<>> /\ Len(queue') = 1
    BY <1>4
  <2>2. Settled /\ manager = "wait" /\ managerPosts = 0
    BY DEF Settled
  <2> QED
    BY <2>1, <2>2 DEF SpacedInv, Settled
<1> QED
  BY <1>1, <1>2, <1>3, <1>5

LEMMA ActivateManagerInv ==
  ASSUME ModeInv, ~spurious, ActivateManager, UNCHANGED deployment
  PROVE  LookupInv' /\ ChangeInv' /\ PriorityInv' /\ SpacedInv'
<1> USE DEF ModeInv, ModeTypeOK, GsemTypeOK, ActivateManager, gsemVars, deployment, modeTaskVars, Changing,
            MayBeOn, TasksOf, Listed, On, Off, Runs, Waits
<1>1. LookupInv'
  BY LookupSame
<1>2. ChangeInv'
  BY DEF ChangeInv
<1>3. PriorityInv'
  BY DEF PriorityInv
<1>4. SpacedInv'
  BY DEF SpacedInv, ManagerSuspended
<1> QED
  BY <1>1, <1>2, <1>3, <1>4

(* A task of both modes keeps its place; one that only the new mode has is    *)
(* off, and looks nothing up.                                                 *)
LEMMA BeginChangeInv ==
  ASSUME SamePlace, ModeInv, ~spurious, BeginChange, UNCHANGED deployment
  PROVE  LookupInv' /\ ChangeInv' /\ PriorityInv' /\ SpacedInv'
<1> USE DEF ModeInv, BeginChange, gsemVars, deployment, modeTaskVars, requestVars, Changing
<1>1. queue \in Seq(DOMAIN Modes \cup {None}) /\ Len(queue) > 0 /\ managerPosts \in Nat
  BY DEF RequestsInv, ModeTypeOK
<1>2. PICK new \in DOMAIN Modes \cup {None} :
        /\ toblock' = TasksOf(currMode) \ TasksOf(new)
        /\ towake' = TasksOf(new) \ TasksOf(currMode)
        /\ currMode' = new
  BY <1>1 DEF Leaving, Joining
<1>3. TasksOf(currMode)' = TasksOf(new) /\ TasksOf(new) \subseteq ModeTask /\ TasksOf(currMode) \subseteq ModeTask
  <2>1. TasksOf(new) \subseteq ModeTask /\ TasksOf(currMode) \subseteq ModeTask
    BY ModesOfTasks DEF ModeTypeOK
  <2>2. TasksOf(currMode)' = TasksOf(new)
    BY <1>2 DEF TasksOf, Listed
  <2> QED
    BY <2>1, <2>2
<1>4. \A j \in ModeTask : UNCHANGED <<On(j), Off(j), Runs(j), Waits(j)>>
  BY DEF On, Off, Runs, Waits
<1>5. MayBeOn = TasksOf(currMode) /\ MayBeOn' = TasksOf(currMode)
  BY <1>2, <1>3 DEF MayBeOn
<1>7. narrived = 0 /\ waiter = "out"
  BY DEF ChangeInv
<1>8. ChangeInv'
  <2>1. \A j \in ModeTask : Off(j)' \/ (On(j)' /\ j \in MayBeOn')
    BY <1>4, <1>5 DEF ChangeInv
  <2>2. Cardinality({j \in toblock : Off(j)}') \in Nat
    BY <1>2, <1>3, FiniteTasks
  <2> QED
    <3>1. CASE toblock' = {}
      BY <1>2, <1>3, <1>7, <2>1, <3>1 DEF ChangeInv
    <3>2. CASE toblock' # {}
      BY <1>2, <1>3, <1>7, <2>1, <2>2, <3>2 DEF ChangeInv
    <3> QED
      BY <3>1, <3>2
<1>9. PriorityInv'
  BY <1>7 DEF PriorityInv
<1>10. SpacedInv'
  <2> SUFFICES ASSUME spaced PROVE SpacedInv'
    BY DEF SpacedInv
  <2>1. Len(queue) = 1 /\ managerPosts = 0 /\ ~asking
        /\ \A j \in ModeTask : IF j \in TasksOf(currMode) THEN Runs(j) ELSE Waits(j)
    BY <1>1 DEF SpacedInv
  <2>2. queue' = <<>>
    BY <1>1, <2>1
  <2>3. \A j \in ModeTask : Runs(j) => On(j)
    BY DEF Runs, On
  <2> QED
    BY <1>2, <1>3, <1>4, <2>1, <2>2, <2>3 DEF SpacedInv
<1>11. LookupInv'
  <2> SUFFICES ASSUME NEW k \in DOMAIN Listed(new), NEW i \in ModeTask, i = Listed(new)[k]
               PROVE  taskAt[i] # "leave" /\ (taskAt[i] \in {"test", "compare"} => slot[i] <= k)
    BY <1>2, ModesOfTasks DEF LookupInv
  <2>1. CASE i \in TasksOf(currMode)
    <3>1. PICK l \in DOMAIN Listed(currMode) : Listed(currMode)[l] = i
      BY <2>1 DEF TasksOf
    <3>2. new \in DOMAIN Modes /\ Listed(new) = Modes[new]
          /\ currMode \in DOMAIN Modes /\ Listed(currMode) = Modes[currMode]
      BY <3>1, ModesOfTasks DEF Listed, ModeTypeOK
    <3>3. k = l
      BY <3>1, <3>2 DEF SamePlace
    <3> QED
      BY <3>1, <3>3 DEF LookupInv
  <2>2. CASE i \notin TasksOf(currMode)
    <3>1. Off(i)
      BY <1>5, <2>2 DEF ChangeInv
    <3> QED
      BY <3>1 DEF Off
  <2> QED
    BY <2>1, <2>2
<1> QED
  BY <1>8, <1>9, <1>10, <1>11

(* Once as many posts have arrived as tasks leave, every one of them is off:  *)
(* each has posted at most once.                                              *)
LEMMA EnoughPosts ==
  ASSUME ModeInv, ~spurious, manager = "maxsem", narrived >= Cardinality(toblock)
  PROVE  \A j \in toblock : Off(j)
<1> DEFINE Left == {j \in toblock : Off(j)}
<1>1. toblock \in SUBSET ModeTask /\ Left \subseteq toblock /\ IsFiniteSet(toblock)
  BY FiniteTasks DEF ModeInv, ModeTypeOK
<1>2. narrived <= Cardinality(Left) /\ narrived \in Nat
  BY DEF ModeInv, ChangeInv, ModeTypeOK, GsemTypeOK
<1>3. Cardinality(Left) <= Cardinality(toblock) /\ Cardinality(Left) \in Nat /\ Cardinality(toblock) \in Nat
  BY <1>1, FiniteTasks, FS_Subset
<1>4. Cardinality(Left) = Cardinality(toblock)
  BY <1>2, <1>3
<1>5. Left = toblock
  BY <1>1, <1>4, FS_Subset
<1> QED
  BY <1>5

LEMMA WaitForLeavingInv ==
  ASSUME ModeInv, ~spurious, WaitForLeaving, UNCHANGED deployment
  PROVE  LookupInv' /\ ChangeInv' /\ PriorityInv' /\ SpacedInv'
<1> USE DEF ModeInv, WaitForLeaving, AmountToWait, deployment, modeTaskVars, requestVars, Changing
<1>0. LookupInv'
  BY LookupSame
<1>1. \A j \in ModeTask : UNCHANGED <<On(j), Off(j), Runs(j), Waits(j)>>
  BY DEF On, Off, Runs, Waits
<1>2. toblock \in SUBSET ModeTask /\ TasksOf(currMode) \in SUBSET ModeTask /\ UNCHANGED TasksOf(currMode)
  BY ModesOfTasks DEF ModeTypeOK, TasksOf, Listed
<1>3. {j \in toblock : Off(j)}' = {j \in toblock : Off(j)}
  BY <1>1, <1>2
<1>4. Cardinality(toblock) \in Nat \ {0}
  BY <1>2, FiniteTasks, FS_EmptySet DEF ChangeInv
<1>5. CASE WaitBlocks(AmountToWait) /\ UNCHANGED manager
  <2>1. ChangeInv'
    <3>1. \A j \in ModeTask : Off(j)' \/ (On(j)' /\ j \in MayBeOn')
      BY <1>1, <1>2, <1>5 DEF ChangeInv, MayBeOn
    <3>2. waiter' # "out" => owed' = Cardinality(toblock')
      BY <1>5 DEF WaitBlocks
    <3>3. narrived' = narrived /\ manager' = "maxsem"
      BY <1>5 DEF WaitBlocks
    <3> QED
      BY <1>2, <1>3, <3>1, <3>2, <3>3 DEF ChangeInv
  <2>2. PriorityInv'
    <3>1. oneProcessor => (heard' = {} /\ Cardinality({}) = 0 /\ narrived' = 0)
      BY <1>5, FS_EmptySet DEF WaitBlocks, PriorityInv
    <3> QED
      BY <1>5, <3>1 DEF WaitBlocks, PriorityInv
  <2>3. SpacedInv'
    <3>1. manager' = "maxsem" /\ UNCHANGED <<queue, asking, managerPosts>>
      BY <1>5
    <3> QED
      BY <1>1, <1>2, <3>1 DEF SpacedInv
  <2> QED
    BY <1>0, <2>1, <2>2, <2>3
<1>6. CASE WaitPasses(AmountToWait) /\ manager' = "sleep"
  <2>1. (\A j \in toblock : Off(j)) /\ toblock \cap TasksOf(currMode) = {} /\ towake \subseteq TasksOf(currMode)
    BY <1>6, EnoughPosts DEF WaitPasses, ChangeInv
  <2>2. MayBeOn' = TasksOf(currMode) \ towake /\ MayBeOn = (TasksOf(currMode) \ towake) \cup toblock
    BY <1>2, <1>6 DEF MayBeOn
  <2>3. \A j \in ModeTask : Off(j) \/ (On(j) /\ j \in TasksOf(currMode) \ towake)
    BY <2>1, <2>2 DEF ChangeInv
  <2>4. ChangeInv'
    BY <1>1, <1>2, <1>6, <2>1, <2>2, <2>3 DEF WaitPasses, Reset, ChangeInv
  <2>5. PriorityInv'
    BY <1>4, <1>6 DEF WaitPasses, PriorityInv
  <2>6. SpacedInv'
    <3>1. \A j \in ModeTask : Runs(j) => On(j)
      BY DEF Runs, On
    <3> QED
      BY <1>1, <1>2, <1>6, <2>1, <3>1 DEF SpacedInv
  <2> QED
    BY <1>0, <2>4, <2>5, <2>6
<1> QED
  BY <1>0, <1>5, <1>6

LEMMA AllHaveLeftInv ==
  ASSUME ModeInv, ~spurious, AllHaveLeft, UNCHANGED deployment
  PROVE  LookupInv' /\ ChangeInv' /\ PriorityInv' /\ SpacedInv'
<1> USE DEF ModeInv, AllHaveLeft, WaiterWakes, Reset, deployment, modeTaskVars, requestVars, Changing
<1>0. LookupInv'
  BY LookupSame
<1>1. \A j \in ModeTask : UNCHANGED <<On(j), Off(j), Runs(j), Waits(j)>>
  BY DEF On, Off, Runs, Waits
<1>2. toblock \in SUBSET ModeTask /\ TasksOf(currMode) \in SUBSET ModeTask /\ UNCHANGED TasksOf(currMode)
  BY ModesOfTasks DEF ModeTypeOK, TasksOf, Listed
<1>3. narrived >= Cardinality(toblock) /\ narrived \in Nat
  BY DEF ChangeInv, GsemInv, WaitsForAll, GsemTypeOK
<1>4. (\A j \in toblock : Off(j)) /\ toblock \cap TasksOf(currMode) = {} /\ towake \subseteq TasksOf(currMode)
  BY <1>3, EnoughPosts DEF ChangeInv
<1>5. MayBeOn' = TasksOf(currMode) \ towake /\ MayBeOn = (TasksOf(currMode) \ towake) \cup toblock
  BY <1>2 DEF MayBeOn
<1>6. \A j \in ModeTask : Off(j) \/ (On(j) /\ j \in TasksOf(currMode) \ towake)
  BY <1>4, <1>5 DEF ChangeInv
<1>7. ChangeInv'
  BY <1>1, <1>2, <1>4, <1>5, <1>6 DEF ChangeInv
<1>8. PriorityInv'
  <2> SUFFICES ASSUME oneProcessor PROVE toblock \subseteq heard
    BY DEF PriorityInv
  <2>1. heard \subseteq toblock /\ narrived = Cardinality(heard)
    BY DEF PriorityInv
  <2>2. Cardinality(heard) <= Cardinality(toblock) /\ IsFiniteSet(toblock) /\ Cardinality(toblock) \in Nat
    BY <1>2, <2>1, FiniteTasks, FS_Subset
  <2>3. heard = toblock
    BY <1>3, <2>1, <2>2, FS_Subset
  <2> QED
    BY <2>3
<1>9. SpacedInv'
  <2>1. \A j \in ModeTask : Runs(j) => On(j)
    BY DEF Runs, On
  <2> QED
    BY <1>1, <1>2, <1>4, <2>1 DEF SpacedInv
<1> QED
  BY <1>0, <1>7, <1>8, <1>9

LEMMA ActivateTaskInv ==
  ASSUME ModeInv, ~spurious, NEW i \in ModeTask, ActivateTask(i), UNCHANGED deployment
  PROVE  LookupInv' /\ ChangeInv' /\ PriorityInv' /\ SpacedInv'
<1> USE DEF ModeInv, ActivateTask, gsemVars, deployment, requestVars, Changing
<1>0. LookupInv'
  BY LookupSame
<1>1. taskPosts \in [ModeTask -> Nat] /\ TasksOf(currMode) \in SUBSET ModeTask /\ UNCHANGED TasksOf(currMode)
      /\ toblock \subseteq ModeTask
  BY ModesOfTasks DEF ModeTypeOK, TasksOf, Listed
<1>2. \A j \in ModeTask \ {i} : UNCHANGED <<On(j), Off(j), Runs(j), Waits(j)>>
  BY <1>1 DEF On, Off, Runs, Waits
<1>3. i \in TasksOf(currMode) /\ i \notin toblock /\ towake \subseteq TasksOf(currMode)
      /\ toblock \cap TasksOf(currMode) = {}
  BY DEF ChangeInv
<1>4. Off(i) /\ i \notin MayBeOn
  BY <1>3 DEF ChangeInv, MayBeOn, On, Off
<1>5. (Off(i)' \/ On(i)') /\ (Waits(i) => On(i)')
  BY <1>1, <1>4 DEF On, Off, Waits, TaskSuspended
<1>6. MayBeOn' = MayBeOn \cup {i}
  BY <1>3 DEF MayBeOn
<1>7. ChangeInv'
  BY <1>1, <1>2, <1>3, <1>5, <1>6 DEF ChangeInv
<1>8. PriorityInv'
  BY DEF PriorityInv
<1>9. SpacedInv'
  BY <1>1, <1>2, <1>3, <1>5 DEF SpacedInv
<1> QED
  BY <1>0, <1>7, <1>8, <1>9

(* The steps that only move the manager. *)
LEMMA ManagerMovesInv ==
  ASSUME ModeInv, ~spurious, UNCHANGED deployment,
         Suspends \/ ManagerActivated \/ ManagerActive \/ WakesUp \/ AllActivated
  PROVE  LookupInv' /\ ChangeInv' /\ PriorityInv' /\ SpacedInv'
<1> USE DEF ModeInv, gsemVars, deployment, requestVars, modeTaskVars, Changing
<1>1. UNCHANGED <<currMode, queue, toblock, towake, gsemVars, heard, head, asking, modeTaskVars>>
  BY DEF Suspends, ManagerActivated, ManagerActive, WakesUp, AllActivated
<1>2. \A j \in ModeTask : UNCHANGED <<On(j), Off(j), Runs(j), Waits(j)>>
  BY <1>1 DEF On, Off, Runs, Waits
<1>3. TasksOf(currMode) \in SUBSET ModeTask /\ UNCHANGED TasksOf(currMode) /\ toblock \subseteq ModeTask
  BY <1>1, ModesOfTasks DEF ModeTypeOK, TasksOf, Listed
<1>4. MayBeOn' = MayBeOn
  BY <1>1, <1>3 DEF MayBeOn, Suspends, ManagerActivated, ManagerActive, WakesUp, AllActivated
<1>5. ChangeInv'
  BY <1>1, <1>2, <1>3, <1>4
     DEF ChangeInv, Suspends, ManagerActivated, ManagerActive, WakesUp, AllActivated
<1>6. PriorityInv'
  BY <1>1 DEF PriorityInv, Suspends, ManagerActivated, ManagerActive, WakesUp, AllActivated
<1>7. SpacedInv'
  <2>1. CASE Suspends \/ WakesUp \/ AllActivated
    BY <1>1, <1>2, <1>3, <2>1 DEF SpacedInv, Suspends, WakesUp, AllActivated
  <2>2. CASE ManagerActivated \/ ManagerActive
    BY <1>1, <1>2, <1>3, <2>2 DEF SpacedInv, ManagerActivated, ManagerActive, ModeTypeOK
  <2> QED
    BY <2>1, <2>2
<1>8. LookupInv'
  BY <1>1, LookupSame
<1> QED
  BY <1>5, <1>6, <1>7, <1>8

-----------------------------------------------------------------------------
LEMMA ModeStepInv ==
  ASSUME SamePlace, ModeInv, [ModeNext]_modeVars
  PROVE  ModeInv'
<1>1. CASE UNCHANGED modeVars
  BY <1>1 DEF modeVars, deployment, managerVars, requestVars, modeTaskVars, gsemVars, ModeInv, ModeTypeOK,
    GsemInv, GsemTypeOK, BlockedOnlyWhileShort, WaitsForAll, RequestsInv, LookupInv, ChangeInv, PriorityInv,
    SpacedInv, Changing, MayBeOn, TasksOf, Listed, On, Off, Runs, Waits
<1>2. CASE ModeNext
  <2> DEFINE Result == LookupInv' /\ ChangeInv' /\ PriorityInv' /\ SpacedInv'
  <2>1. ModeTypeOK' /\ GsemInv' /\ RequestsInv'
    BY <1>2, ModeTypeStep, SemaphoreStep, RequestsStep DEF ModeInv
  <2>2. UNCHANGED deployment
    BY <1>2 DEF ModeNext
  <2>3. ASSUME ~spurious, NEW m \in Requestable, QueueRequest(m) PROVE Result
    BY <2>2, <2>3, QueueRequestInv
  <2>4. ASSUME ~spurious, ActivateManager PROVE Result
    BY <2>2, <2>4, ActivateManagerInv
  <2>5. ASSUME ~spurious, ManagerStep PROVE Result
    <3>1. ~ReturnsEarly
      BY <2>5 DEF ReturnsEarly
    <3> QED
      BY <2>2, <2>5, <3>1, BeginChangeInv, WaitForLeavingInv, AllHaveLeftInv, ActivateTaskInv, ManagerMovesInv
         DEF ManagerStep
  <2>6. ASSUME ~spurious, NEW i \in ModeTask, ModeTaskStep(i) PROVE Result
    BY <2>2, <2>6, TaskStepInv
  <2>7. ~spurious => Result
    BY <1>2, <2>3, <2>4, <2>5, <2>6 DEF ModeNext
  <2> QED
    BY <2>1, <2>2, <2>7 DEF ModeInv, deployment
<1> QED
  BY <1>1, <1>2

(* Where the manager is agrees with where the tasks are, how many have posted *)
(* and what is in the queue (rtmode.c 40-76, 106-125, 136-159).  A task of    *)
(* several modes has to be at the same place of their lists: otherwise its    *)
(* lookup may miss it.                                                        *)
THEOREM ModeInvariance == ASSUME CreatedNow = {}, SamePlace PROVE ModeSpec => []ModeInv
<1>1. ModeInit => ModeInv
  BY ModeInitInv
<1>2. ModeInv /\ [ModeNext]_modeVars => ModeInv'
  BY ModeStepInv
<1> QED
  BY <1>1, <1>2, PTL DEF ModeSpec

(* "all old tasks are now blocked" (rtmode.c 71) when the new ones are        *)
(* activated, however many changes overlap (rtmode.c 64-73), if shared tasks  *)
(* keep their place and no wait returns unsignalled.                          *)
THEOREM OldTasksBlockedHolds ==
  ASSUME CreatedNow = {}, SamePlace PROVE ModeSpec => []OldTasksBlocked
<1>1. ModeInv => OldTasksBlocked
  BY DEF ModeInv, ChangeInv, OldTasksBlocked, Off
<1> QED
  BY <1>1, ModeInvariance, PTL

(* On one processor the manager sleeps until the periods of all tasks that    *)
(* have left are over: it resets the maximum before any of them posts         *)
(* (rtmode.c 67-68, 141-142, 150), under the same conditions.                 *)
THEOREM SleepsForAllHolds ==
  ASSUME CreatedNow = {}, SamePlace PROVE ModeSpec => []SleepsForAll
<1>1. ModeInv => SleepsForAll
  BY DEF ModeInv, PriorityInv, SleepsForAll
<1> QED
  BY <1>1, ModeInvariance, PTL

(* A manager that waits after separate changes has handled every request,     *)
(* activated the tasks of the current mode and stopped the others             *)
(* (rtmode.c 64-74, 108-109, 144, 154), under the same conditions.            *)
THEOREM ChangeCompleteHolds ==
  ASSUME CreatedNow = {}, SamePlace PROVE ModeSpec => []ChangeComplete
<1>1. ModeInv => ChangeComplete
  <2> SUFFICES ASSUME ModeInv, ~spurious, spaced, manager = "wait" PROVE ChangeComplete
    BY DEF ChangeComplete
  <2> USE DEF ModeInv
  <2>1. AllFinished
    BY DEF AllFinished, SpacedInv
  <2>2. narrived = 0 /\ \A i \in ModeTask : Off(i) \/ (On(i) /\ i \in TasksOf(currMode))
    BY DEF ChangeInv, MayBeOn, Changing
  <2>3. \A i \in TasksOf(currMode) : On(i) /\ taskAt[i] # "leave"
    BY DEF SpacedInv, LookupInv, TasksOf
  <2>4. \A i \in ModeTask :
          IF i \in TasksOf(currMode)
          THEN taskPosts[i] > 0 \/ taskAt[i] \in {"awake", "job", "test", "compare", "sleep"}
          ELSE taskPosts[i] = 0 /\ taskAt[i] \in {"suspend", "wait"}
    BY <2>2, <2>3 DEF On, Off
  <2> QED
    BY <2>1, <2>2, <2>4 DEF ChangeComplete
<1> QED
  BY <1>1, ModeInvariance, PTL
=============================================================================
