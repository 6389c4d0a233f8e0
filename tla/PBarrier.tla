------------------------------ MODULE PBarrier ------------------------------
(***************************************************************************)
(* The timed barrier of the ptask library (pbarrier.c 5-39).  The mutex    *)
(* protects every access except the last one: the value that the call      *)
(* returns, or from which it computes its wake-up time, is read from       *)
(* pb->reference after the unlock.  A part of the function under the mutex *)
(* is one step.                                                            *)
(*                                                                         *)
(* The clock is CLOCK_MONOTONIC; the k-th instant at which a last thread   *)
(* arrives is the number k, and 0 is the reference that pbarrier_init      *)
(* leaves unset.  The offset only delays the return.                       *)
(***************************************************************************)
EXTENDS Naturals, FiniteSets

CONSTANTS
  Thread,    \* the threads that use the barrier
  NThreads,  \* pb->nthreads
  Rounds,    \* how often each of them calls pbarrier_wait
  Spurious   \* whether pthread_cond_wait may return unsignalled

ASSUME BarrierAssumption ==
  /\ IsFiniteSet(Thread)
  /\ NThreads \in Nat \ {0}
  /\ Rounds \in Nat
  /\ Spurious \in BOOLEAN

VARIABLES
  arrived,     \* pb->arrived
  reference,   \* pb->reference
  place,          \* where a thread is in pbarrier_wait
  calls,       \* how often a thread has called it
  joined,      \* the reference when it did so last
  got,         \* what its last call returned
  arrivals     \* how many calls of all threads have arrived

barrierVars == <<arrived, reference, place, calls, joined, got, arrivals>>

-----------------------------------------------------------------------------
BarrierInit ==
  /\ arrived = 0
  /\ reference = 0
  /\ place = [t \in Thread |-> "out"]
  /\ calls = [t \in Thread |-> 0]
  /\ joined = [t \in Thread |-> 0]
  /\ got = [t \in Thread |-> 0]
  /\ arrivals = 0

MustWait_OneShort == arrived + 1 < NThreads - 1
MustWait == arrived + 1 < NThreads

ArrivedAfterLast_Kept == arrived + 1
ArrivedAfterLast == 0

(* pthread_cond_broadcast, and pthread_cond_signal in its wrong variant: the   *)
(* waiting threads that become ready to lock the mutex again.                 *)
Notified_OneOnly ==
  LET blocked == {t \in Thread : place[t] = "blocked"}
  IN  IF blocked = {} THEN {} ELSE {CHOOSE t \in blocked : TRUE}
Notified == {t \in Thread : place[t] = "blocked"}

EnterBarrier(t) ==
  /\ place[t] = "out"
  /\ calls[t] < Rounds
  /\ calls' = [calls EXCEPT ![t] = @ + 1]
  /\ joined' = [joined EXCEPT ![t] = reference]
  /\ arrivals' = arrivals + 1
  /\ UNCHANGED got

(* ++arrived and pthread_cond_wait *)
ArriveEarly(t) ==
  /\ EnterBarrier(t)
  /\ MustWait
  /\ arrived' = arrived + 1
  /\ place' = [place EXCEPT ![t] = "blocked"]
  /\ UNCHANGED reference

(* ++arrived, clock_gettime, broadcast, arrived = 0, unlock *)
ArriveLast(t) ==
  /\ EnterBarrier(t)
  /\ ~MustWait
  /\ reference' = reference + 1
  /\ place' = [u \in Thread |-> IF u = t THEN "unlocked"
                             ELSE IF u \in Notified THEN "woken" ELSE place[u]]
  /\ arrived' = ArrivedAfterLast

(* pthread_cond_wait returns with the mutex, which is unlocked again. *)
LeaveWait(t) ==
  /\ place[t] = "woken"
  /\ place' = [place EXCEPT ![t] = "unlocked"]
  /\ UNCHANGED <<arrived, reference, calls, joined, got, arrivals>>

SpuriousLeave(t) ==
  /\ Spurious
  /\ place[t] = "blocked"
  /\ place' = [place EXCEPT ![t] = "woken"]
  /\ UNCHANGED <<arrived, reference, calls, joined, got, arrivals>>

ReturnReference(t) ==
  /\ place[t] = "unlocked"
  /\ got' = [got EXCEPT ![t] = reference]
  /\ place' = [place EXCEPT ![t] = "out"]
  /\ UNCHANGED <<arrived, reference, calls, joined, arrivals>>

CallStep(t) == ArriveEarly(t) \/ ArriveLast(t) \/ LeaveWait(t) \/ ReturnReference(t)

BarrierNext == \E t \in Thread : CallStep(t) \/ SpuriousLeave(t)

BarrierSpec == BarrierInit /\ [][BarrierNext]_barrierVars

(* Every user comes to the barrier as often as the others, and a thread that  *)
(* is not blocked goes on.                                                    *)
FairBarrierSpec == BarrierSpec /\ \A t \in Thread : WF_barrierVars(CallStep(t))

-----------------------------------------------------------------------------
BarrierTypeOK ==
  /\ arrived \in Nat
  /\ reference \in Nat
  /\ place \in [Thread -> {"out", "blocked", "woken", "unlocked"}]
  /\ calls \in [Thread -> Nat]
  /\ joined \in [Thread -> Nat]
  /\ got \in [Thread -> Nat]
  /\ arrivals \in Nat

(* Although pb->reference is read after the unlock (pbarrier.c 32, 35), a call *)
(* returns the instant at which the last thread of its own round arrived: no  *)
(* later round can end before every thread of this one has read it.           *)
OwnReference == \A t \in Thread :
  place[t] = "out" /\ calls[t] > 0 => got[t] = joined[t] + 1

(* "The calling threads waits until the last of the nthreads arrives"         *)
(* (pbarrier.h 26): no call returns before every thread has made it           *)
(* (pbarrier.c 20-27).                                                        *)
Ideal == INSTANCE Rendezvous WITH
  entered <- calls,
  left <- [t \in Thread |-> IF place[t] = "out" THEN calls[t] ELSE calls[t] - 1]

ImplementsRendezvous == Ideal!Spec

(* An instant is taken once in every NThreads arrivals, whoever arrives and    *)
(* whatever wakes a thread too early (pbarrier.c 19, 25).                     *)
EveryNthArrival ==
  arrivals = NThreads * reference + arrived /\ arrived < NThreads

(* No wake-up is lost: when every thread comes Rounds times, every call       *)
(* returns (pbarrier.c 24, 25).                                               *)
EveryCallReturns == <>[](\A t \in Thread : place[t] = "out" /\ calls[t] = Rounds)

-----------------------------------------------------------------------------
Blocked == {t \in Thread : place[t] = "blocked"}

(* The number of blocked threads is counted exactly. *)
ArrivedInv == arrived = Cardinality(Blocked) /\ arrived < NThreads

(* A thread on its way out belongs to the round that has just ended, a blocked *)
(* one to the round that has begun.                                           *)
RoundInv == \A t \in Thread :
  /\ place[t] = "blocked" => joined[t] = reference /\ calls[t] = reference + 1
  /\ place[t] \in {"woken", "unlocked"} => joined[t] + 1 = reference /\ calls[t] = reference
  /\ place[t] = "out" => calls[t] = reference

(* The inductive invariant for any users and any wake-ups. *)
CountingInv == BarrierTypeOK /\ EveryNthArrival

(* The inductive invariant for a barrier with exactly NThreads users and no    *)
(* spurious wake-ups.                                                         *)
BarrierInv == BarrierTypeOK /\ ArrivedInv /\ RoundInv /\ OwnReference
=============================================================================
