------------------------------ MODULE DagTask ------------------------------
(***************************************************************************)
(* The C program that task.egl generates for every DAG of a DagSet, with   *)
(* the pthread runtime it is linked to.  Three kinds of thread run:        *)
(*                                                                         *)
(*   - the periodic task of a DAG (task.egl 94-131): it rebuilds the edge  *)
(*     mutexes, creates one thread per node, waits for the job to finish,  *)
(*     joins the threads, destroys the mutexes and sleeps to the period;   *)
(*   - the node threads (task.egl 137-190): lock every in-edge, compute,   *)
(*     unlock every out-edge, increment var_condition, exit;               *)
(*   - the wait_finish thread (task.egl 69-73): spins on var_condition.    *)
(*                                                                         *)
(* An edge mutex is created locked by the task, unlocked by the source     *)
(* node and locked by the target node, three different threads: with the   *)
(* default mutex type it works as a binary semaphore.  premMutex is one    *)
(* mutex for the memory phases of every PREM node of every DAG.  The       *)
(* increment of var_condition is a load and a store (Makefile: -O0; the    *)
(* variable is volatile, not atomic).                                      *)
(***************************************************************************)
EXTENDS Naturals, FiniteSets

CONSTANTS
  Dag,       \* the DAGs of the set (DagSet.dagCollection)
  Node,      \* the nodes of all of them
  NoNode,    \* premMutex has no owner
  Edge,      \* the edges: records with fields src, trg and pos
  DagOf,     \* the DAG of a node
  NodePos,   \* the position of a node in dag.node
  Prem,      \* the DAGs whose mem_type is "prem"; the others are "sparse"
  Copies     \* num_copies of a PREM node, the chunks of its data

ASSUME DagAssumption ==
  /\ IsFiniteSet(Node)
  /\ NoNode \notin Node
  /\ Edge \subseteq [src : Node, trg : Node, pos : Nat]
  /\ DagOf \in [Node -> Dag]
  /\ \A e \in Edge : DagOf[e.src] = DagOf[e.trg]
  /\ NodePos \in [Node -> Nat]
  /\ Prem \subseteq Dag
  /\ Copies \in [Node -> Nat]

VARIABLES
  mpc,          \* where the periodic task of a DAG is in its loop
  todo,         \* the nodes the task's current loop has still to visit
  spinner,      \* the wait_finish thread of a DAG
  npc,          \* where a node thread is
  passed,       \* the edges the node's current loop has already visited
  chunk,        \* num_copies, the chunks left to copy
  reg,          \* the value of var_condition a node has loaded
  edgeLock,     \* the mutex of an edge
  lockStart,    \* lock_start of a DAG
  premOwner,    \* the node that holds premMutex
  varCondition  \* var_condition of a DAG

taskVars == <<mpc, todo, spinner>>
nodeVars == <<npc, passed, chunk, reg>>
lockVars == <<edgeLock, lockStart, premOwner>>
vars == <<taskVars, nodeVars, lockVars, varCondition>>

NodesOf(d) == {n \in Node : DagOf[n] = d}
EdgesOf(d) == {e \in Edge : DagOf[e.src] = d}
InEdges(n)  == {e \in Edge : e.trg = n}
OutEdges(n) == {e \in Edge : e.src = n}

(* The templates unroll their loops in the order of the model file.  A name    *)
(* that ends in _<Bug> is a wrong variant, which the properties are tested on. *)
FirstNode_Backwards(n, S) == n \in S /\ \A m \in S : NodePos[n] >= NodePos[m]
FirstNode(n, S) == n \in S /\ \A m \in S : NodePos[n] <= NodePos[m]
FirstEdge(e, S) == e \in S /\ \A f \in S : e.pos <= f.pos

TaskPC == {"reset", "create", "spawn", "finish", "joinFinish", "unlock", "join", "wait"}
NodePC == {"gone", "try", "lock", "mem", "copy", "exec", "unlock", "store", "exit", "exited"}
LockState == {"none", "locked", "open"}

(* The conditions and values the statements below share. *)
NodeCount_MinusOne(d) == Cardinality(NodesOf(d)) - 1
NodeCount_PlusOne(d) == Cardinality(NodesOf(d)) + 1
NodeCount(d) == Cardinality(NodesOf(d))

LoopDone_Skipped(d) == TRUE
LoopDone(d) == todo[d] = {}

InitialLock_NotTaken == "open"
InitialLock == "locked"

Unlocked_Forgotten == "locked"
Unlocked == "open"

Signalled_TryOnly(e) == TRUE
Signalled(e) == edgeLock[e] = "open"

InEdgesLocked_Any(n) == InEdges(n) = {} \/ passed[n] # {}
InEdgesLocked(n) == InEdges(n) \subseteq passed[n]

ChunkLeft_TestedLate(n) == chunk[n] >= 0
ChunkLeft(n) == chunk[n] > 0

PremFree_NotChecked == TRUE
PremFree == premOwner = NoNode

Init ==
  /\ mpc = [d \in Dag |-> "reset"]
  /\ todo = [d \in Dag |-> {}]
  /\ spinner = [d \in Dag |-> "none"]
  /\ npc = [n \in Node |-> "gone"]
  /\ passed = [n \in Node |-> {}]
  /\ chunk = [n \in Node |-> 0]
  /\ reg = [n \in Node |-> 0]
  /\ edgeLock = [e \in Edge |-> "none"]
  /\ lockStart = [d \in Dag |-> "none"]
  /\ premOwner = NoNode
  /\ varCondition = [d \in Dag |-> 0]

-----------------------------------------------------------------------------
(* The periodic task of a DAG. *)

ResetCounter(d) ==
  /\ mpc[d] = "reset"
  /\ varCondition' = [varCondition EXCEPT ![d] = 0]
  /\ mpc' = [mpc EXCEPT ![d] = "create"]
  /\ UNCHANGED <<todo, spinner, nodeVars, lockVars>>

(* Every mutex is initialised and locked at once by the task itself. *)
CreateDependency(d) ==
  /\ mpc[d] = "create"
  /\ edgeLock' = [e \in Edge |-> IF e \in EdgesOf(d) THEN InitialLock ELSE edgeLock[e]]
  /\ lockStart' = [lockStart EXCEPT ![d] = "locked"]
  /\ todo' = [todo EXCEPT ![d] = NodesOf(d)]
  /\ mpc' = [mpc EXCEPT ![d] = "spawn"]
  /\ UNCHANGED <<spinner, nodeVars, premOwner, varCondition>>

CreateThread(d, n) ==
  /\ mpc[d] = "spawn"
  /\ FirstNode(n, todo[d])
  /\ npc' = [npc EXCEPT ![n] = "try"]
  /\ todo' = [todo EXCEPT ![d] = @ \ {n}]
  /\ UNCHANGED <<mpc, spinner, passed, chunk, reg, lockVars, varCondition>>

Start(d) ==
  /\ mpc[d] = "spawn"
  /\ LoopDone(d)
  /\ lockStart' = [lockStart EXCEPT ![d] = "open"]
  /\ mpc' = [mpc EXCEPT ![d] = "finish"]
  /\ UNCHANGED <<todo, spinner, nodeVars, edgeLock, premOwner, varCondition>>

SpawnWaitFinish(d) ==
  /\ mpc[d] = "finish"
  /\ spinner' = [spinner EXCEPT ![d] = "spinning"]
  /\ mpc' = [mpc EXCEPT ![d] = "joinFinish"]
  /\ UNCHANGED <<todo, nodeVars, lockVars, varCondition>>

JoinFinish(d) ==
  /\ mpc[d] = "joinFinish"
  /\ spinner[d] = "returned"
  /\ spinner' = [spinner EXCEPT ![d] = "none"]
  /\ mpc' = [mpc EXCEPT ![d] = "unlock"]
  /\ UNCHANGED <<todo, nodeVars, lockVars, varCondition>>

ReleaseLockStart(d) ==
  /\ mpc[d] = "unlock"
  /\ lockStart' = [lockStart EXCEPT ![d] = Unlocked]
  /\ todo' = [todo EXCEPT ![d] = NodesOf(d)]
  /\ mpc' = [mpc EXCEPT ![d] = "join"]
  /\ UNCHANGED <<spinner, nodeVars, edgeLock, premOwner, varCondition>>

JoinThread(d, n) ==
  /\ mpc[d] = "join"
  /\ FirstNode(n, todo[d])
  /\ npc[n] = "exited"
  /\ npc' = [npc EXCEPT ![n] = "gone"]
  /\ todo' = [todo EXCEPT ![d] = @ \ {n}]
  /\ UNCHANGED <<mpc, spinner, passed, chunk, reg, lockVars, varCondition>>

DestroyDependency(d) ==
  /\ mpc[d] = "join"
  /\ LoopDone(d)
  /\ edgeLock' = [e \in Edge |-> IF e \in EdgesOf(d) THEN "none" ELSE edgeLock[e]]
  /\ lockStart' = [lockStart EXCEPT ![d] = "none"]
  /\ mpc' = [mpc EXCEPT ![d] = "wait"]
  /\ UNCHANGED <<todo, spinner, nodeVars, premOwner, varCondition>>

WaitForPeriod(d) ==
  /\ mpc[d] = "wait"
  /\ mpc' = [mpc EXCEPT ![d] = "reset"]
  /\ UNCHANGED <<todo, spinner, nodeVars, lockVars, varCondition>>

-----------------------------------------------------------------------------
(* The wait_finish thread: returns on the first read that sees all nodes counted. *)

WaitFinish(d) ==
  /\ spinner[d] = "spinning"
  /\ varCondition[d] = NodeCount(d)
  /\ spinner' = [spinner EXCEPT ![d] = "returned"]
  /\ UNCHANGED <<mpc, todo, nodeVars, lockVars, varCondition>>

-----------------------------------------------------------------------------
(* A node thread. *)

(* The result of the trylock is ignored: the node goes on in both cases. *)
TryLockStart(n) ==
  /\ npc[n] = "try"
  /\ lockStart' = IF lockStart[DagOf[n]] = "open"
                  THEN [lockStart EXCEPT ![DagOf[n]] = "locked"]
                  ELSE lockStart
  /\ npc' = [npc EXCEPT ![n] = "lock"]
  /\ UNCHANGED <<taskVars, passed, chunk, reg, edgeLock, premOwner, varCondition>>

LockEdge(n, e) ==
  /\ npc[n] = "lock"
  /\ FirstEdge(e, InEdges(n) \ passed[n])
  /\ Signalled(e)
  /\ edgeLock' = [edgeLock EXCEPT ![e] = "locked"]
  /\ passed' = [passed EXCEPT ![n] = @ \cup {e}]
  /\ UNCHANGED <<taskVars, npc, chunk, reg, lockStart, premOwner, varCondition>>

(* hgr_PREM_compute_node reads num_copies; a sparse node just computes. *)
BeginCompute(n) ==
  /\ npc[n] = "lock"
  /\ InEdgesLocked(n)
  /\ passed' = [passed EXCEPT ![n] = {}]
  /\ IF DagOf[n] \in Prem
     THEN /\ npc' = [npc EXCEPT ![n] = "mem"]
          /\ chunk' = [chunk EXCEPT ![n] = Copies[n]]
     ELSE /\ npc' = [npc EXCEPT ![n] = "exec"]
          /\ UNCHANGED chunk
  /\ UNCHANGED <<taskVars, reg, lockVars, varCondition>>

(* while (num_copies--): take premMutex for the memcpy of the next chunk. *)
LockPrem(n) ==
  /\ npc[n] = "mem"
  /\ ChunkLeft(n)
  /\ PremFree
  /\ premOwner' = n
  /\ chunk' = [chunk EXCEPT ![n] = @ - 1]
  /\ npc' = [npc EXCEPT ![n] = "copy"]
  /\ UNCHANGED <<taskVars, passed, reg, edgeLock, lockStart, varCondition>>

UnlockPrem(n) ==
  /\ npc[n] = "copy"
  /\ premOwner' = NoNode
  /\ npc' = [npc EXCEPT ![n] = "exec"]
  /\ UNCHANGED <<taskVars, passed, chunk, reg, edgeLock, lockStart, varCondition>>

(* The execution phase of one chunk ends; a sparse node has only one. *)
NextChunk(n) ==
  /\ npc[n] = "exec"
  /\ DagOf[n] \in Prem
  /\ npc' = [npc EXCEPT ![n] = "mem"]
  /\ UNCHANGED <<taskVars, passed, chunk, reg, lockVars, varCondition>>

EndCompute(n) ==
  /\ IF DagOf[n] \in Prem THEN npc[n] = "mem" /\ ~ChunkLeft(n) ELSE npc[n] = "exec"
  /\ npc' = [npc EXCEPT ![n] = "unlock"]
  /\ UNCHANGED <<taskVars, passed, chunk, reg, lockVars, varCondition>>

UnlockEdge(n, e) ==
  /\ npc[n] = "unlock"
  /\ FirstEdge(e, OutEdges(n) \ passed[n])
  /\ edgeLock' = [edgeLock EXCEPT ![e] = Unlocked]
  /\ passed' = [passed EXCEPT ![n] = @ \cup {e}]
  /\ UNCHANGED <<taskVars, npc, chunk, reg, lockStart, premOwner, varCondition>>

(* var_condition++ *)
LoadCounter(n) ==
  /\ npc[n] = "unlock"
  /\ OutEdges(n) \subseteq passed[n]
  /\ reg' = [reg EXCEPT ![n] = varCondition[DagOf[n]]]
  /\ passed' = [passed EXCEPT ![n] = {}]
  /\ npc' = [npc EXCEPT ![n] = "store"]
  /\ UNCHANGED <<taskVars, chunk, lockVars, varCondition>>

StoreCounter(n) ==
  /\ npc[n] = "store"
  /\ varCondition' = [varCondition EXCEPT ![DagOf[n]] = reg[n] + 1]
  /\ reg' = [reg EXCEPT ![n] = 0]
  /\ npc' = [npc EXCEPT ![n] = "exit"]
  /\ UNCHANGED <<taskVars, passed, chunk, lockVars>>

ExitThread(n) ==
  /\ npc[n] = "exit"
  /\ npc' = [npc EXCEPT ![n] = "exited"]
  /\ UNCHANGED <<taskVars, passed, chunk, reg, lockVars, varCondition>>

-----------------------------------------------------------------------------
Task(d) ==
  \/ ResetCounter(d) \/ CreateDependency(d) \/ Start(d)
  \/ \E n \in Node : CreateThread(d, n) \/ JoinThread(d, n)
  \/ SpawnWaitFinish(d) \/ JoinFinish(d) \/ ReleaseLockStart(d)
  \/ DestroyDependency(d) \/ WaitForPeriod(d)

NodeThread(n) ==
  \/ TryLockStart(n) \/ BeginCompute(n) \/ EndCompute(n)
  \/ \E e \in Edge : LockEdge(n, e) \/ UnlockEdge(n, e)
  \/ LockPrem(n) \/ UnlockPrem(n) \/ NextChunk(n)
  \/ LoadCounter(n) \/ StoreCounter(n) \/ ExitThread(n)

Next ==
  \/ \E d \in Dag : Task(d) \/ WaitFinish(d)
  \/ \E n \in Node : NodeThread(n)

Spec == Init /\ [][Next]_vars

(* Every thread has a processor of its own in the end: global scheduling or  *)
(* time sharing.  See DagFifo for SCHED_FIFO on one processor.               *)
Fairness ==
  /\ \A d \in Dag : WF_vars(Task(d)) /\ WF_vars(WaitFinish(d))
  /\ \A n \in Node : WF_vars(NodeThread(n))

FairSpec == Spec /\ Fairness

-----------------------------------------------------------------------------
TypeOK ==
  /\ mpc \in [Dag -> TaskPC]
  /\ todo \in [Dag -> SUBSET Node]
  /\ spinner \in [Dag -> {"none", "spinning", "returned"}]
  /\ npc \in [Node -> NodePC]
  /\ passed \in [Node -> SUBSET Edge]
  /\ chunk \in [Node -> Nat]
  /\ reg \in [Node -> Nat]
  /\ edgeLock \in [Edge -> LockState]
  /\ lockStart \in [Dag -> LockState]
  /\ premOwner \in Node \cup {NoNode}
  /\ varCondition \in [Dag -> Nat]

Computing == {"mem", "copy", "exec"}
Computed == {"unlock", "store", "exit", "exited"}

(* The job's threads exist, from their creation to their join. *)
InJob(d) == mpc[d] \in {"spawn", "finish", "joinFinish", "unlock", "join"}
(* From the release of the job, the creation of its threads, to the completion  *)
(* that wait_finish reports.  (The clock is first read after the creation: the   *)
(* time that is printed leaves out what nodes have computed by then.)            *)
Measured(d) == mpc[d] \in {"spawn", "finish", "joinFinish"}

(* The node has counted itself; a joined thread stays so until the task leaves its join loop. *)
Past(n) == npc[n] \in {"exit", "exited"} \/ (npc[n] = "gone" /\ mpc[DagOf[n]] = "join")

(* A node computes only after every node it depends on has computed, in this  *)
(* job: what the edge mutexes of task.egl 144-156 are for.                    *)
Precedence ==
  \A e \in Edge :
    npc[e.trg] \in Computing \cup Computed => npc[e.src] \in Computed \/ Past(e.src)

(* When wait_finish has returned and the task prints the execution time of    *)
(* the job, every node has computed and is exiting: the racy counter may lag    *)
(* behind the nodes but never runs ahead of them (task.egl 70, 158).          *)
MeasuredJobComplete ==
  \A d \in Dag : mpc[d] \in {"unlock", "join"} \/ spinner[d] = "returned" =>
    \A n \in NodesOf(d) : npc[n] \in {"exit", "exited", "gone"}

(* While the task sleeps, resets var_condition or rebuilds the mutexes, no    *)
(* thread of the previous job is left to use them (task.egl 104-105, 122-129).*)
ThreadsJoined ==
  \A d \in Dag : ~InJob(d) => \A n \in NodesOf(d) : npc[n] = "gone"

(* When the mutexes of a job are destroyed, lock_start is unlocked whatever   *)
(* the late trylocks did (what the second release, task.egl 120, is for), and *)
(* every edge mutex has been handed over once and is locked by its target.    *)
DestroyState ==
  \A d \in Dag : mpc[d] = "join" /\ todo[d] = {} =>
    /\ lockStart[d] = "open"
    /\ \A e \in EdgesOf(d) : edgeLock[e] = "locked"

(* A node unlocks an edge mutex only while it is locked: no signal is given   *)
(* twice, none is swallowed by an unlocked mutex (task.egl 151-156).          *)
NoDoubleUnlock ==
  \A n \in Node : npc[n] = "unlock" =>
    \A e \in OutEdges(n) \ passed[n] : edgeLock[e] = "locked"

(* PREM: one memory phase at a time over all the DAGs (_hgr_computation.c     *)
(* 31-33).                                                                    *)
PremExclusion ==
  \A m, n \in Node : npc[m] = "copy" /\ npc[n] = "copy" => m = n

(* Every mutex is used as its owner-less type allows: handed over once a job,  *)
(* unlocked while locked and destroyed in the state the next job expects.      *)
MutexUse == DestroyState /\ NoDoubleUnlock

CanGoOn(n) ==
  /\ npc[n] \notin {"gone", "exited"}
  /\ npc[n] = "lock" =>
       \/ InEdgesLocked(n)
       \/ \E e \in Edge : FirstEdge(e, InEdges(n) \ passed[n]) /\ Signalled(e)
  /\ npc[n] = "mem" => ~ChunkLeft(n) \/ PremFree

(* Once the threads of a job exist, one of those that have not exited can go  *)
(* on, or waits for the memory phase of a node that can: the nodes never wait  *)
(* for each other in a circle, through edges of their DAG and the premMutex    *)
(* of all (task.egl 144-156, _hgr_computation.c 31-33).                       *)
NoWaitCycle ==
  \A d \in Dag : mpc[d] \in {"finish", "joinFinish", "unlock", "join"} =>
    LET left == {n \in NodesOf(d) : npc[n] \notin {"gone", "exited"}}
    IN  left # {} =>
          \E n \in left : \/ CanGoOn(n)
                          \/ npc[n] = "mem" /\ \E m \in Node : premOwner = m /\ CanGoOn(m)

(* The abstract job in the state of the generated program: a job is active    *)
(* until wait_finish returns, and its nodes are where their threads are.      *)
JobActive == {d \in Dag : Measured(d)}
JobStarted == {n \in Node : Measured(DagOf[n]) /\ npc[n] \in Computing \cup Computed}
JobDone == {n \in Node : Measured(DagOf[n]) /\ npc[n] \in Computed}

Job == INSTANCE DagJob WITH
  Dep <- {<<e.src, e.trg>> : e \in Edge},
  active <- JobActive, started <- JobStarted, done <- JobDone

(* Every job is released, runs its nodes once each in precedence order and    *)
(* completes when all have computed: task.egl 103-130.                        *)
ImplementsJob == Job!Spec

(* Every node thread that is created runs to its exit: no cycle of waits      *)
(* between edge mutexes and premMutex (task.egl 141-161).                     *)
NodesTerminate == \A n \in Node : npc[n] = "try" ~> npc[n] = "exited"

(* Two increments of var_condition have overlapped: all nodes are through but *)
(* the counter is short of their number.                                      *)
LostUpdate(d) ==
  /\ \A n \in NodesOf(d) : npc[n] \in {"exit", "exited"}
  /\ varCondition[d] < Cardinality(NodesOf(d))

(* A job that waits for its end reaches it, unless an increment was lost: no  *)
(* other interleaving of the threads makes wait_finish spin for ever.         *)
CompletesUnlessLostUpdate ==
  \A d \in Dag : mpc[d] = "joinFinish" ~> (mpc[d] = "unlock" \/ LostUpdate(d))

(* Every job that waits for its end reaches it: the loop of task.egl 70 ends. *)
JobCompletes == \A d \in Dag : mpc[d] = "joinFinish" ~> mpc[d] = "unlock"
-----------------------------------------------------------------------------
(* The inductive invariant behind the safety properties. *)

(* Which threads exist in which part of the task's loop. *)
PhaseInv == \A d \in Dag :
  /\ todo[d] \subseteq NodesOf(d)
  /\ spinner[d] # "none" => mpc[d] = "joinFinish"
  /\ mpc[d] = "spawn" => \A n \in NodesOf(d) : npc[n] = "gone" <=> n \in todo[d]
  /\ mpc[d] \in {"finish", "joinFinish", "unlock"} => \A n \in NodesOf(d) : npc[n] # "gone"
  /\ mpc[d] = "join" => \A n \in NodesOf(d) : npc[n] = "gone" <=> n \notin todo[d]

(* A thread's loop over its edges starts afresh for locking and for unlocking. *)
CursorInv == \A n \in Node : npc[n] \notin {"lock", "unlock"} => passed[n] = {}

(* The signal of an edge: given by the source, then taken by the target; the   *)
(* mutex is open exactly in between.                                           *)
Given(e) ==
  \/ npc[e.src] = "unlock" /\ e \in passed[e.src]
  \/ npc[e.src] = "store"
  \/ Past(e.src)
Taken(e) ==
  \/ npc[e.trg] = "lock" /\ e \in passed[e.trg]
  \/ npc[e.trg] \in Computing \cup Computed
  \/ Past(e.trg)
SignalInv == \A e \in Edge :
  /\ Taken(e) => Given(e)
  /\ InJob(DagOf[e.src]) => (edgeLock[e] = "open" <=> Given(e) /\ ~Taken(e))
  /\ InJob(DagOf[e.src]) => edgeLock[e] # "none"

(* Neither the counter nor a value on its way to the counter exceeds the       *)
(* number of nodes that have counted themselves in this job.                   *)
Counted(d) == {n \in NodesOf(d) : npc[n] \in {"exit", "exited"}}
CountInv == \A d \in Dag :
  /\ mpc[d] = "create" => varCondition[d] = 0
  /\ Measured(d) => varCondition[d] <= Cardinality(Counted(d))
  /\ Measured(d) =>
       \A n \in NodesOf(d) : npc[n] = "store" => reg[n] <= Cardinality(Counted(d))

PremInv == \A n \in Node : npc[n] = "copy" <=> premOwner = n

GateInv == \A d \in Dag : mpc[d] = "join" => lockStart[d] = "open"

(* The whole of it: what the proofs show to hold initially and to be preserved *)
(* by every step.  It ties the mutexes, the counter and the premMutex owner to *)
(* the program counters of all the threads (task.egl 94-190).                  *)
IInv ==
  /\ TypeOK /\ PhaseInv /\ ThreadsJoined /\ CursorInv /\ SignalInv
  /\ CountInv /\ MeasuredJobComplete /\ PremInv /\ GateInv
=============================================================================
