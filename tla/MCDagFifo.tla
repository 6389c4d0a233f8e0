----------------------------- MODULE MCDagFifo -----------------------------
(***************************************************************************)
(* DAG sets bound to processors, for the model checker.                    *)
(***************************************************************************)
EXTENDS DagFifo, TLC

CONSTANTS d1, d2, a, b, c, x, y, p1

E(s, t, p) == [src |-> s, trg |-> t, pos |-> p]

(* One processor: a PREM fork a -> b, a -> c created in topological order,   *)
(* and two independent sparse nodes x, y of lower priority.                   *)
OrderNodes == {a, b, c, x, y}
OrderEdges == {E(a, b, 1), E(a, c, 2)}
OrderDagOf == (a :> d1) @@ (b :> d1) @@ (c :> d1) @@ (x :> d2) @@ (y :> d2)
OrderPos == (a :> 1) @@ (b :> 2) @@ (c :> 3) @@ (x :> 1) @@ (y :> 2)
OrderCopies == [n \in OrderNodes |-> 1]
OrderCpu == (d1 :> p1) @@ (d2 :> p1)
OrderPrio == (d1 :> 2) @@ (d2 :> 1)

(* Nodes 4 and 5 of examples/psocrates_dag2.dot: the edge 5 -> 4 enters a     *)
(* node that is created first.                                                *)
WakeNodes == {a, b}
WakeEdges == {E(b, a, 1)}
WakeDagOf == [n \in WakeNodes |-> d1]
WakePos == (a :> 4) @@ (b :> 5)
WakeCopies == [n \in WakeNodes |-> 0]
WakeCpu == d1 :> p1
WakePrio == d1 :> 60
=============================================================================
