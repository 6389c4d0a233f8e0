---------------------------- MODULE XmlGenerator ----------------------------
(***************************************************************************)
(* The DOT front end (XMLGenerator.java, DAG.java).  Parse reads DOT files *)
(* and writes the DagSet model that the templates read.  An XMLGenerator   *)
(* keeps the DAG objects of all its calls of Parse in one list, and finds  *)
(* the object of a file by the file's index in the present call.           *)
(*                                                                         *)
(* A file stands for its name, its nodes and edges and its period line.    *)
(***************************************************************************)
EXTENDS Naturals, SequencesExt

CONSTANTS
  File,        \* DOT files
  Contents,    \* what reading a file meets: good, missing, malformed (a bad node line)
  WithPeriod,  \* the files with a period line, which comes before the nodes
  NoFile       \* no file

ASSUME FileAssumption ==
  /\ Contents \in [File -> {"good", "missing", "malformed"}]
  /\ WithPeriod \subseteq File
  /\ NoFile \notin File

VARIABLES
  parsed,     \* dags, the DAG objects of the parser
  model,      \* the model file
  asked,      \* the DAG objects of the last call
  first,      \* it was the first call of its parser
  generated   \* the back end got the model of the last call

generatorVars == <<parsed, model, asked, first, generated>>

(* A DAG object as its constructors leave it: setDagName and setPeriod come    *)
(* with the file.                                                             *)
Dag(path, mem, step, stride, sched) ==
  [path |-> path, mem |-> mem, step |-> step, stride |-> stride, sched |-> sched,
   name |-> NoFile, period |-> NoFile]

NoModel == [sched |-> "", dags |-> <<>>, closed |-> FALSE]

GeneratorInit ==
  /\ parsed = <<>> /\ model = NoModel
  /\ asked = <<>> /\ first = TRUE /\ generated = FALSE

(* The DAGs whose line makes Parse throw, and how far it comes. *)
Throws(packed) == {k \in DOMAIN packed : Contents[packed[k].path] = "malformed"}
Reached(packed) == IF Throws(packed) = {} THEN Len(packed) ELSE Min(Throws(packed))
Written(packed) == IF Throws(packed) = {} THEN Len(packed) ELSE Reached(packed) - 1

(* The files whose nodes and edges are in the lists after the k-th file. *)
GoodFiles(ds) == {d.path : d \in {e \in Range(ds) : Contents[e.path] = "good"}}
ListsAt_NotCleared(packed, k) == GoodFiles(SubSeq(packed, 1, k))
ListsAt(packed, k) == GoodFiles(<<packed[k]>>)

(* dags.get(index), for the k-th file *)
IndexOf_NotCounted(k) == 1
IndexOf(k) == k

(* The files up to the k-th that readDOTFile has read into the i-th object; a  *)
(* missing one is only reported.                                              *)
ReadInto(packed, i, k) ==
  {j \in 1..k : IndexOf(j) = i /\ Contents[packed[j].path] # "missing"}

(* The i-th object d after the k-th file: each file sets the name, and those   *)
(* with a period line the period.                                             *)
Object(d, packed, i, k) ==
  LET named == ReadInto(packed, i, k)
      timed == {j \in named : packed[j].path \in WithPeriod}
  IN  [path |-> d.path, mem |-> d.mem, step |-> d.step, stride |-> d.stride, sched |-> d.sched,
       name |-> IF named = {} THEN d.name ELSE packed[Max(named)].path,
       period |-> IF timed = {} THEN d.period ELSE packed[Max(timed)].path]

Parse(old, packed) ==
  LET added == old \o SubSeq(packed, 1, Reached(packed))
      Entry(k) ==
        LET d == Object(added[IndexOf(k)], packed, IndexOf(k), k) IN
        [name |-> d.name, period |-> d.period, mem |-> d.mem, step |-> d.step,
         stride |-> d.stride, nodes |-> ListsAt(packed, k)]
  IN  /\ parsed' = [i \in DOMAIN added |-> Object(added[i], packed, i, Reached(packed))]
      /\ model' = [sched |-> packed[1].sched,
                   dags |-> [k \in 1..Written(packed) |-> Entry(k)],
                   closed |-> Throws(packed) = {}]
      /\ asked' = packed
      /\ first' = (old = <<>>)

-----------------------------------------------------------------------------
Readable(k) == Contents[asked[k].path] = "good"

(* A back end gets a model only when it is complete: one DAG for every file of *)
(* the window, in its order, with the name, the nodes and the edges of its    *)
(* file and no other, whatever the parser has read before and whichever       *)
(* earlier call has failed (XMLGenerator.java 174-190).                       *)
ModelOfFiles == generated =>
  /\ model.closed /\ Len(model.dags) = Len(asked)
  /\ model.sched = asked[1].sched
  /\ \A k \in DOMAIN asked :
       IF Readable(k)
       THEN model.dags[k].name = asked[k].path /\ model.dags[k].nodes = {asked[k].path}
       ELSE model.dags[k].nodes = {}

(* The settings of the window, and the period of the file itself, are in the  *)
(* model (XMLGenerator.java 141-147, DAG.java 21-40).                         *)
FollowsSettings == \A k \in DOMAIN asked :
  k \in DOMAIN model.dags =>
    /\ \A field \in {"mem", "step", "stride"} : model.dags[k][field] = asked[k][field]
    /\ model.dags[k].period \in {asked[k].path, NoFile}

(* They are after the first call of a parser.  A later call adds its DAGs     *)
(* behind those of the calls before and still counts from the first, so the   *)
(* model then has the settings, and maybe a period, of an earlier call        *)
(* (XMLGenerator.java 174-190).                                               *)
NewParserFollowsSettings == first => FollowsSettings
=============================================================================
