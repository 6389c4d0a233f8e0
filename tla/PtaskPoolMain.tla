---------------------------- MODULE PtaskPoolMain ----------------------------
(***************************************************************************)
(* How a generated program uses the pool of PtaskPool: main alone creates  *)
(* tasks (main.egl), and their bodies never return (task.egl).  The        *)
(* history variable sole is nobody before the first call, then the thread  *)
(* that calls, and many for good once another thread has called too or a   *)
(* task has returned.                                                      *)
(***************************************************************************)
EXTENDS PtaskPool

CONSTANTS nobody, many

ASSUME MainAssumption == nobody # many /\ nobody \notin Creator /\ many \notin Creator

VARIABLE sole

MainInit == Init /\ sole = nobody

MainNext ==
  \/ \E c \in Creator : Create(c) /\ sole' = IF sole \in {nobody, c} THEN c ELSE many
  \/ \E i \in Desc : Exit(i) /\ sole' = many

MainSpec == MainInit /\ [][MainNext]_<<vars, sole>>

(* For the generated main, the list holds exactly the free descriptors,       *)
(* whatever fails (ptask.c 59-63, 77, 93-102).                                *)
MainKeepsListExact == sole # many => FreeListExact

(* For the generated main, a task is refused only when every descriptor is in *)
(* use (ptask.c 60-61, 67-74).                                                *)
MainRefusedOnlyWhenFull ==
  [][sole' # many => RefusesOnlyWhenFull]_<<vars, sole>>

-----------------------------------------------------------------------------
(* The list is one: nothing links to its head, and no two descriptors link to *)
(* the same one.                                                              *)
ListInv ==
  /\ FreeListExact
  /\ \A i \in Desc : free[i] \in Desc => free[i] # firstFree
  /\ \A i, j \in Desc : free[i] \in Desc /\ free[i] = free[j] => i = j

(* Only the sole creator is inside a call, and its index is not stale. *)
SoleInv == \A c \in Creator :
  /\ c # sole => pc[c] = "idle"
  /\ pc[c] = "take" => x[c] = firstFree

(* The inductive invariant. *)
MainInv ==
  /\ IInv
  /\ sole \in Creator \cup {nobody, many}
  /\ sole # many => ListInv /\ SoleInv
=============================================================================
