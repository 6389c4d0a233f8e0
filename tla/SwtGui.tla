------------------------------- MODULE SwtGui -------------------------------
(***************************************************************************)
(* The window of the tool (SwtGui.java): a list of DAG files, the controls *)
(* that describe the memory accesses, and the Generate button.  Handlers   *)
(* run one at a time on the display thread.  The window has one            *)
(* XMLGenerator for its whole life.                                        *)
(***************************************************************************)
EXTENDS XmlGenerator

CONSTANTS
  SwtChoices, \* the settings that the user tries
  MaxDags,    \* files in the list, a bound
  MaxParsed   \* DAG objects in the parser, a bound

ASSUME WindowAssumption ==
  /\ \A s \in SwtChoices : DOMAIN s = {"mem", "step", "pattern", "stride", "sched"}
  /\ MaxDags \in Nat /\ MaxParsed \in Nat

VARIABLES
  dags,            \* the files of the table
  settings,        \* what the radio buttons and combo boxes show
  patternEnabled,  \* grpPattern
  generateEnabled  \* btnGenerate

windowVars == <<dags, settings, patternEnabled, generateEnabled>>

Sparse == settings.mem = "sparse"

SwtInit ==
  /\ dags = <<>>
  /\ settings = [mem |-> "sparse", step |-> "char", pattern |-> "sequential", stride |-> 1,
                 sched |-> "SCHED_FIFO"]
  /\ patternEnabled = TRUE
  /\ generateEnabled = FALSE

EnableGUIComponents ==
  /\ patternEnabled' = (settings'.mem = "sparse")
  /\ generateEnabled' = (dags' # <<>>)

(* Closing the dialog without a file also ends with enableGUIComponents. *)
AddDags(files) ==
  /\ Len(dags) + Len(files) <= MaxDags
  /\ dags' = dags \o files
  /\ UNCHANGED settings
  /\ EnableGUIComponents

(* Clear and the delete column refresh the table only. *)
ClearDags ==
  /\ dags' = <<>>
  /\ UNCHANGED <<settings, patternEnabled, generateEnabled>>

DeleteDag(k) ==
  /\ dags' = RemoveAt(dags, k)
  /\ UNCHANGED <<settings, patternEnabled, generateEnabled>>

(* The radio buttons and the back end combo have a handler; the others are    *)
(* read by packDags.                                                          *)
Select(s) ==
  /\ settings' = s
  /\ UNCHANGED dags
  /\ IF s.mem # settings.mem THEN EnableGUIComponents
     ELSE UNCHANGED <<patternEnabled, generateEnabled>>

SelectBackend ==
  /\ UNCHANGED <<dags, settings>>
  /\ EnableGUIComponents

CalcStep(item) ==
  CASE item = "char" -> 1 [] item = "int" -> 4 [] item = "double" -> 8
    [] item = "long double" -> 16 [] OTHER -> 0

(* 0 is random access. *)
Stride(s) == IF s.mem = "sparse" /\ s.pattern = "sequential" THEN s.stride ELSE 0

PackDags ==
  [k \in DOMAIN dags |->
    Dag(dags[k], settings.mem, CalcStep(settings.step), Stride(settings), settings.sched)]

(* dags.get(0) throws on an empty list; a model is parsed and the back end    *)
(* runs, unless Parse throws, which nothing here catches.                     *)
GenerateCode ==
  /\ generateEnabled
  /\ dags # <<>>
  /\ Len(parsed) + Len(dags) <= MaxParsed
  /\ Parse(parsed, PackDags)
  /\ generated' = (Throws(PackDags) = {})
  /\ UNCHANGED windowVars

SwtNext ==
  \/ /\ \/ AddDags(<<>>) \/ \E f \in File : AddDags(<<f>>)
        \/ ClearDags
        \/ \E k \in DOMAIN dags : DeleteDag(k)
        \/ \E s \in SwtChoices : Select(s)
        \/ SelectBackend
     /\ UNCHANGED generatorVars
  \/ GenerateCode

SwtSpec == GeneratorInit /\ SwtInit /\ [][SwtNext]_<<generatorVars, windowVars>>

-----------------------------------------------------------------------------
(* The inductive invariant. *)
SwtInv == dags \in Seq(File) /\ ModelOfFiles /\ NewParserFollowsSettings
=============================================================================
