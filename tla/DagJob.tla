------------------------------- MODULE DagJob -------------------------------
(***************************************************************************)
(* What the generated program promises for each DAG: a periodic parallel   *)
(* task.  A job of the DAG is released, its nodes compute once each in an  *)
(* order the edges allow, and the job completes when all of them have; the *)
(* next job is released only after that.                                   *)
(***************************************************************************)
CONSTANTS Dag, Node, DagOf, Dep   \* Dep: the pairs <<source, target>> of the edges

VARIABLES
  active,    \* the DAGs with a job in progress
  started,   \* the nodes that have begun to compute in that job
  done       \* the nodes that have computed in that job

vars == <<active, started, done>>

NodesOf(d) == {n \in Node : DagOf[n] = d}

Init == active = {} /\ started = {} /\ done = {}

Release(d) ==
  /\ d \notin active
  /\ active' = active \cup {d}
  /\ UNCHANGED <<started, done>>

StartNode(n) ==
  /\ DagOf[n] \in active
  /\ n \notin started
  /\ \A m \in Node : <<m, n>> \in Dep => m \in done
  /\ started' = started \cup {n}
  /\ UNCHANGED <<active, done>>

FinishNode(n) ==
  /\ n \in started \ done
  /\ done' = done \cup {n}
  /\ UNCHANGED <<active, started>>

Complete(d) ==
  /\ d \in active
  /\ NodesOf(d) \subseteq done
  /\ active' = active \ {d}
  /\ started' = started \ NodesOf(d)
  /\ done' = done \ NodesOf(d)

Next ==
  \/ \E d \in Dag : Release(d) \/ Complete(d)
  \/ \E n \in Node : StartNode(n) \/ FinishNode(n)

Spec == Init /\ [][Next]_vars
=============================================================================
