-------------------------------- MODULE HgGui --------------------------------
(***************************************************************************)
(* The first window of the tool (hgGUI.java).  Its user loads files, gives *)
(* each the memory accesses that the controls show, which puts it into the *)
(* list of ready DAGs, and generates code for that list.  Every click on   *)
(* Generate makes an XMLGenerator of its own.                              *)
(***************************************************************************)
EXTENDS XmlGenerator

CONSTANTS
  HgChoices,  \* the settings that the user tries
  MaxReady    \* ready DAGs, a bound

ASSUME ReadyAssumption ==
  /\ \A s \in HgChoices : DOMAIN s = {"mem", "step", "pattern", "stride", "sched"}
  /\ MaxReady \in Nat

VARIABLES
  loaded,    \* lstDagLoaded
  ready,     \* lstReadyDAG: a file with its memory accesses, joined into one string
  controls,  \* the radio buttons and combo boxes
  noFiles    \* whether files, what the last dialog returned, is null

hgVars == <<loaded, ready, controls, noFiles>>

HgInit ==
  /\ loaded = {} /\ ready = <<>>
  /\ controls \in HgChoices
  /\ noFiles = TRUE

(* refreshDAGFiles replaces the loaded files; the ready ones stay. *)
LoadDags(files) ==
  /\ loaded' = files
  /\ noFiles' = FALSE
  /\ UNCHANGED <<ready, controls>>

(* A dialog that is closed without files sets files to null. *)
CancelDialog ==
  /\ noFiles' = TRUE
  /\ UNCHANGED <<loaded, ready, controls>>

Choose(s) ==
  /\ controls' = s
  /\ UNCHANGED <<loaded, ready, noFiles>>

Element(f) ==
  [path |-> f, mem |-> controls.mem, step |-> controls.step, pattern |-> controls.pattern,
   stride |-> controls.stride]

ApplyMemAccess(f) ==
  /\ f \in loaded
  /\ Len(ready) < MaxReady
  /\ ready' = Append(ready, Element(f))
  /\ UNCHANGED <<loaded, controls, noFiles>>

HgCalcStep(item) ==
  CASE item = "char" -> 1 [] item = "int" -> 4 [] item = "double" -> 8
    [] item = "long double" -> 16 [] OTHER -> 0

HgStride(e) == IF e.mem = "sparse" /\ e.pattern = "sequential" THEN e.stride ELSE 0

HgPackDags ==
  [k \in DOMAIN ready |->
    Dag(ready[k].path, ready[k].mem, HgCalcStep(ready[k].step), HgStride(ready[k]),
        controls.sched)]

ParserOf_Kept == parsed
ParserOf == <<>>

(* The loop over files throws when they are null, before the back end runs. *)
HgGenerateCode ==
  /\ ready # <<>>
  /\ Parse(ParserOf, HgPackDags)
  /\ generated' = (Throws(HgPackDags) = {} /\ ~noFiles)
  /\ UNCHANGED hgVars

HgNext ==
  \/ /\ \/ \E files \in SUBSET File : files # {} /\ LoadDags(files)
        \/ CancelDialog
        \/ \E s \in HgChoices : Choose(s)
        \/ \E f \in File : ApplyMemAccess(f)
     /\ UNCHANGED generatorVars
  \/ HgGenerateCode

HgSpec == GeneratorInit /\ HgInit /\ [][HgNext]_<<generatorVars, hgVars>>

-----------------------------------------------------------------------------
(* This window makes a parser for every click, so the model of its ready DAGs  *)
(* always follows the controls and has the periods of its own files           *)
(* (hgGUI.java 1011-1050).                                                    *)
HgFollowsSettings == ready # <<>> => FollowsSettings

(* The inductive invariant: what was ready at the last click has its model. *)
Elements ==
  {[path |-> f, mem |-> s.mem, step |-> s.step, pattern |-> s.pattern, stride |-> s.stride] :
     f \in File, s \in HgChoices}

HgInv ==
  /\ controls \in HgChoices /\ ready \in Seq(Elements)
  /\ ModelOfFiles /\ FollowsSettings
=============================================================================
