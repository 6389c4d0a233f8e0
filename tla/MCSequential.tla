---------------------------- MODULE MCSequential ----------------------------
(***************************************************************************)
(* The parts of the project that run on one thread, in small instances:    *)
(* the two windows with the DOT front end, the data of a node, and the     *)
(* response-time analysis.  part says which one a behavior is about; the   *)
(* variables of the others keep their first values.                        *)
(***************************************************************************)
EXTENDS SwtGui, HgGui, NodeData, ResponseTime, TLC

CONSTANTS f1, f2, f3, f4

MCContents == (f1 :> "good") @@ (f2 :> "good") @@ (f3 :> "missing") @@ (f4 :> "malformed")
MCChoices ==
  {[mem |-> mem, step |-> "int", pattern |-> "sequential", stride |-> 2, sched |-> "SCHED_FIFO"] :
     mem \in {"sparse", "prem"}}
MCTasks ==
  {[runnables |-> rs, period |-> p, type |-> type] :
     rs \in {<<1>>, <<3>>, <<1, 2>>}, p \in {5, 7}, type \in {"preemptive", "cooperative"}}

VARIABLE part

vars == <<part, generatorVars, windowVars, hgVars, dataVars, analysisVars>>

Init ==
  /\ part \in {"swt", "hg", "data", "analysis"}
  /\ GeneratorInit
  /\ SwtInit
  /\ HgInit
  /\ part # "hg" => controls = CHOOSE s \in HgChoices : TRUE
  /\ DataInit
  /\ AnalysisInit

Swt == part = "swt" /\ SwtNext /\ UNCHANGED <<part, hgVars, dataVars, analysisVars>>
Hg == part = "hg" /\ HgNext /\ UNCHANGED <<part, windowVars, dataVars, analysisVars>>
Data ==
  /\ part = "data" /\ DataNext
  /\ UNCHANGED <<part, generatorVars, windowVars, hgVars, analysisVars>>
Analysis ==
  /\ part = "analysis" /\ AnalysisNext
  /\ UNCHANGED <<part, generatorVars, windowVars, hgVars, dataVars>>

Next == Swt \/ Hg \/ Data \/ Analysis

(* The loop over the tasks of a core goes on by itself; everything else waits *)
(* for a user.                                                                *)
Spec == Init /\ [][Next]_vars /\ WF_analysisVars(next > 0 /\ Analysis)
=============================================================================
