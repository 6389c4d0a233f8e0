-------------------------------- MODULE Gsem --------------------------------
(***************************************************************************)
(* The generalised semaphore of the ptask library (pbarrier.c 42-68): one  *)
(* thread waits for a number of posts.  maxsem_t (rtmode.c 128-159) is the *)
(* same with the maximum of the posted times.  Everything happens under    *)
(* the semaphore's mutex, which pthread_cond_wait gives up.                *)
(***************************************************************************)
EXTENDS Naturals

CONSTANTS
  Amounts,    \* the numbers of posts that the waiting task waits for
  MaxPosts,   \* posts that may be ahead, a bound
  SpuriousWait    \* whether pthread_cond_wait may return unsignalled

ASSUME GsemAssumption ==
  /\ Amounts \subseteq Nat
  /\ MaxPosts \in Nat
  /\ SpuriousWait \in BOOLEAN

VARIABLES
  nsignals, narrived,  \* the fields of gsem_t
  waiter,              \* the waiting task: out, blocked or woken
  owed                 \* what its current call waits for

gsemVars == <<nsignals, narrived, waiter, owed>>

GsemInit ==
  /\ nsignals = 0
  /\ narrived = 0
  /\ waiter = "out"
  /\ owed = 0

(* The rest of gsem_wait, once enough posts have arrived or the condition     *)
(* variable has been signalled.                                               *)
Reset_KeepsTarget == narrived' = 0 /\ nsignals' = nsignals
Reset == narrived' = 0 /\ nsignals' = 0

WaitBlocks(n) ==
  /\ waiter = "out"
  /\ narrived < n
  /\ nsignals' = n
  /\ owed' = n
  /\ waiter' = "blocked"
  /\ UNCHANGED narrived

WaitPasses(n) ==
  /\ waiter = "out"
  /\ narrived >= n
  /\ Reset
  /\ UNCHANGED <<waiter, owed>>

WaiterWakes ==
  /\ waiter = "woken"
  /\ Reset
  /\ waiter' = "out"
  /\ UNCHANGED owed

WaiterWakesSpuriously ==
  /\ SpuriousWait
  /\ waiter = "blocked"
  /\ waiter' = "woken"
  /\ UNCHANGED <<nsignals, narrived, owed>>

Signals_OneEarly == nsignals = narrived + 2
Signals_BeforeCounting == nsignals = narrived
Signals == nsignals = narrived + 1

GsemPost ==
  /\ narrived' = narrived + 1
  /\ waiter' = IF waiter = "blocked" /\ Signals THEN "woken" ELSE waiter
  /\ UNCHANGED <<nsignals, owed>>

GsemNext ==
  \/ \E n \in Amounts : WaitBlocks(n) \/ WaitPasses(n)
  \/ WaiterWakes \/ WaiterWakesSpuriously
  \/ narrived < MaxPosts /\ GsemPost

GsemSpec == GsemInit /\ [][GsemNext]_gsemVars

(* A signalled waiter locks the mutex again and returns. *)
FairGsemSpec == GsemSpec /\ WF_gsemVars(WaiterWakes)

-----------------------------------------------------------------------------
GsemTypeOK ==
  /\ nsignals \in Nat
  /\ narrived \in Nat
  /\ waiter \in {"out", "blocked", "woken"}
  /\ owed \in Nat

(* "Wait for n signals before unblocking the waiting task" (pbarrier.h 33):   *)
(* a wait for n returns only after n posts (pbarrier.c 46-47).                *)
WaitsForAll == waiter = "woken" => narrived >= owed

(* The test for equality in gsem_post never misses the moment: a task is      *)
(* blocked only while too few posts have arrived (pbarrier.c 57).             *)
BlockedOnlyWhileShort == waiter = "blocked" => narrived < owed

(* A wait with enough posts returns (pbarrier.c 57-58).                       *)
EnoughPostsUnblock == waiter # "out" /\ narrived >= owed ~> waiter = "out"

(* The inductive invariant without spurious wake-ups. *)
GsemInv ==
  /\ GsemTypeOK
  /\ BlockedOnlyWhileShort
  /\ WaitsForAll
  /\ nsignals = IF waiter = "out" THEN 0 ELSE owed
=============================================================================
