------------------------------ MODULE DagFifo ------------------------------
(***************************************************************************)
(* The generated program under SCHED_FIFO with PARTITIONED placement, the  *)
(* first scheduling policy the tool offers.  __create_internal binds the   *)
(* periodic task of a DAG to one processor with one fixed priority; its    *)
(* node and wait_finish threads are created with a NULL attribute and so   *)
(* inherit policy, priority and processor.                                 *)
(*                                                                         *)
(* The steps are those of DagTask.  A thread takes one only while it is    *)
(* the running thread of its processor: of the ready threads of highest    *)
(* priority, the one that has been ready longest.  A thread that blocks    *)
(* leaves the ready list, a thread that is woken or created enters it at   *)
(* the tail, a thread that is preempted keeps its place.  The list is a    *)
(* set and the order of its members.  wait_finish never blocks: while it   *)
(* spins it holds its processor.                                           *)
(***************************************************************************)
EXTENDS DagTask

CONSTANTS
  Cpu,      \* the processors
  CpuOf,    \* tpars.processor of a DAG
  PrioOf    \* tpars.priority of a DAG

ASSUME FifoAssumption ==
  /\ CpuOf \in [Dag -> Cpu]
  /\ PrioOf \in [Dag -> Nat]

VARIABLES
  ready,   \* the threads that are not blocked
  ahead    \* the pairs of them of which the first has been ready longer

fifoVars == <<vars, ready, ahead>>

Thread == ({"task", "finish"} \X Dag) \cup ({"node"} \X Node)

(* The DAG whose policy, priority and processor a thread has. *)
DagOfThread(t) == IF t[1] = "node" THEN DagOf[t[2]] ELSE t[2]

(* GLOBAL placement with processors to spare, the wrong variant of the next    *)
(* definition that NoLostUpdate is tested on.                                 *)
CpuOfThread_NotInherited(t) == t
CpuOfThread(t) == CpuOf[DagOfThread(t)]
PrioOfThread(t) == PrioOf[DagOfThread(t)]

-----------------------------------------------------------------------------
(* The calls that block: pthread_join, pthread_mutex_lock, clock_nanosleep. *)

TaskBlocked(d) ==
  \/ mpc[d] = "wait"
  \/ mpc[d] = "joinFinish" /\ spinner[d] # "returned"
  \/ mpc[d] = "join" /\ \E n \in todo[d] : FirstNode(n, todo[d]) /\ npc[n] # "exited"

NodeBlocked(n) ==
  \/ npc[n] \in {"gone", "exited"}
  \/ npc[n] = "lock" /\ \E e \in Edge : FirstEdge(e, InEdges(n) \ passed[n]) /\ ~Signalled(e)
  \/ npc[n] = "mem" /\ ChunkLeft(n) /\ ~PremFree

Runnable(t) ==
  CASE t[1] = "task"   -> ~TaskBlocked(t[2])
    [] t[1] = "finish" -> spinner[t[2]] = "spinning"
    [] t[1] = "node"   -> ~NodeBlocked(t[2])

Runs(t) ==
  /\ t \in ready
  /\ \A u \in ready : CpuOfThread(u) = CpuOfThread(t) =>
       /\ PrioOfThread(u) <= PrioOfThread(t)
       /\ <<u, t>> \in ahead => PrioOfThread(u) < PrioOfThread(t)

(* The threads a step blocks leave the list, those it makes ready join it, in  *)
(* any order.                                                                  *)
Ranks(S) == {f \in [S -> 1..Cardinality(S)] : \A t, u \in S : f[t] = f[u] => t = u}

Requeue ==
  /\ ready' = {t \in ready : Runnable(t)'} \cup {t \in Thread : ~Runnable(t) /\ Runnable(t)'}
  /\ \E rank \in Ranks(ready' \ ready) :
       ahead' = {p \in ready' \X ready' :
                  \/ p \in ahead
                  \/ p[2] \notin ready /\ (p[1] \in ready \/ rank[p[1]] < rank[p[2]])}

-----------------------------------------------------------------------------
FifoInit == Init /\ ready = {} /\ ahead = {}

(* hgr_task_creator, from a main thread outside the real-time class. *)
CreateTask(d) ==
  /\ mpc[d] = "reset"
  /\ <<"task", d>> \notin ready
  /\ ready' = ready \cup {<<"task", d>>}
  /\ ahead' = ahead \cup (ready \X {<<"task", d>>})
  /\ UNCHANGED vars

(* The timer of clock_nanosleep wakes the task. *)
PeriodExpires(d) == WaitForPeriod(d) /\ Requeue

ThreadStep(t) ==
  /\ Runs(t)
  /\ \/ t[1] = "task" /\ Task(t[2])
     \/ t[1] = "finish" /\ WaitFinish(t[2])
     \/ t[1] = "node" /\ NodeThread(t[2])
  /\ Requeue

FifoNext ==
  \/ \E d \in Dag : CreateTask(d) \/ PeriodExpires(d)
  \/ \E t \in Thread : ThreadStep(t)

(* A processor executes its running thread.  Strong fairness, because a task  *)
(* of higher priority may preempt again and again: the task set is feasible,  *)
(* its periods leave time for every priority.                                 *)
FifoSpec ==
  /\ FifoInit
  /\ [][FifoNext]_fifoVars
  /\ \A t \in Thread : SF_fifoVars(ThreadStep(t))

-----------------------------------------------------------------------------
(* Threads of one DAG never preempt each other: no increment of var_condition *)
(* is lost, and wait_finish sees the full count when all nodes are through    *)
(* (task.egl 158, 187).                                                       *)
NoLostUpdate == \A d \in Dag : mpc[d] \in {"finish", "joinFinish"} => ~LostUpdate(d)

(* With the nodes created in topological order no node ever waits for an edge: *)
(* each runs to its end before the next one starts (task.egl 107-110).         *)
NodesNeverWait == \A n \in Node : npc[n] = "lock" => ~NodeBlocked(n)

-----------------------------------------------------------------------------
(* The inductive invariants behind the two. *)

SameLevel(t, u) == CpuOfThread(t) = CpuOfThread(u) /\ PrioOfThread(t) = PrioOfThread(u)

(* Of the threads of its priority on its processor, t has been ready longest.  *)
Foremost(t) == \A u \in ready : u # t /\ SameLevel(t, u) => <<t, u>> \in ahead

(* The list has every node thread that can go on, and orders its members.      *)
ReadyInv ==
  /\ ready \subseteq {t \in Thread : Runnable(t)}
  /\ \A n \in Node : ~NodeBlocked(n) => <<"node", n>> \in ready
  /\ ahead \subseteq ready \X ready
  /\ \A t, u \in ready : t # u => (<<t, u>> \in ahead <=> <<u, t>> \notin ahead)

(* A node between the load and the store of its increment is still the one     *)
(* that runs of its DAG, so it stores the count it has loaded, plus one.       *)
ExactInv ==
  /\ \A n \in Node : npc[n] = "store" =>
       Foremost(<<"node", n>>) /\ reg[n] = varCondition[DagOf[n]]
  /\ \A d \in Dag : Measured(d) => varCondition[d] = Cardinality(Counted(d))

FifoInv == IInv /\ ReadyInv /\ ExactInv

(* What NodesNeverWait needs of the deployment.                                *)
Topological == \A e \in Edge : NodePos[e.src] < NodePos[e.trg]
PremTogether == \A d, e \in Prem : CpuOf[d] = CpuOf[e] /\ PrioOf[d] = PrioOf[e]

Begun(n) == npc[n] \notin {"gone", "try", "exited"}

(* A node that has begun stays the foremost; no node copies while another      *)
(* wants to; a node that has not begun is behind the nodes it depends on.      *)
BegunInv == \A n \in Node : Begun(n) => <<"node", n>> \in ready /\ Foremost(<<"node", n>>)

CopyInv == \A n \in Node :
  /\ npc[n] \in {"mem", "copy"} => DagOf[n] \in Prem
  /\ npc[n] = "mem" => premOwner = NoNode

BehindInv == \A e \in Edge : npc[e.trg] # "gone" =>
  \/ Past(e.src)
  \/ npc[e.trg] = "try" /\ <<<<"node", e.src>>, <<"node", e.trg>>>> \in ahead

OrderInv == BegunInv /\ CopyInv /\ BehindInv
=============================================================================
