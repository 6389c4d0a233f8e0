----------------------------- MODULE Rendezvous -----------------------------
(***************************************************************************)
(* What pbarrier_wait promises (pbarrier.h 25-28): a thread leaves its     *)
(* k-th call only when every thread has entered its own k-th call.         *)
(***************************************************************************)
EXTENDS Naturals

CONSTANTS Thread

VARIABLES
  entered,   \* how many calls a thread has begun
  left       \* how many of them have returned

vars == <<entered, left>>

Init ==
  /\ entered = [t \in Thread |-> 0]
  /\ left = [t \in Thread |-> 0]

Enter(t) ==
  /\ entered[t] = left[t]
  /\ entered' = [entered EXCEPT ![t] = @ + 1]
  /\ UNCHANGED left

Leave(t) ==
  /\ left[t] < entered[t]
  /\ \A u \in Thread : entered[t] <= entered[u]
  /\ left' = [left EXCEPT ![t] = @ + 1]
  /\ UNCHANGED entered

Next == \E t \in Thread : Enter(t) \/ Leave(t)

Spec == Init /\ [][Next]_vars
=============================================================================
