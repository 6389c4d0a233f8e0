----------------------------- MODULE MCDagTask -----------------------------
(***************************************************************************)
(* Small DAG sets for the model checker.  Nodes and DAGs are model values. *)
(***************************************************************************)
EXTENDS DagTask, TLC

CONSTANTS d1, d2, a, b, c, d, x, y

E(s, t, p) == [src |-> s, trg |-> t, pos |-> p]

(* One PREM DAG: a diamond, its sink listed before its second branch. *)
DiamondNodes == {a, b, c, d}
DiamondEdges == {E(a, b, 1), E(a, c, 2), E(b, d, 3), E(c, d, 4)}
DiamondDagOf == [n \in DiamondNodes |-> d1]
DiamondPos == (a :> 1) @@ (b :> 2) @@ (d :> 3) @@ (c :> 4)
DiamondCopies == (a :> 1) @@ (b :> 2) @@ (c :> 1) @@ (d :> 0)

(* Two PREM DAGs: an edge a -> b, its target listed first, and two           *)
(* independent nodes x, y.                                                    *)
SetNodes == {a, b, x, y}
SetEdges == {E(a, b, 1)}
SetDagOf == (a :> d1) @@ (b :> d1) @@ (x :> d2) @@ (y :> d2)
SetPos == (a :> 2) @@ (b :> 1) @@ (x :> 1) @@ (y :> 2)
SetCopies == (a :> 1) @@ (b :> 1) @@ (x :> 2) @@ (y :> 0)

(* One sparse DAG of two independent nodes. *)
TwinNodes == {a, b}
TwinEdges == {}
TwinDagOf == [n \in TwinNodes |-> d1]
TwinPos == (a :> 1) @@ (b :> 2)
TwinCopies == [n \in TwinNodes |-> 0]
=============================================================================
