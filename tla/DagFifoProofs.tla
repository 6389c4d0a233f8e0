--------------------------- MODULE DagFifoProofs ---------------------------
(***************************************************************************)
(* Proofs about DagFifo, for any DAGs, processors and priorities.  Every   *)
(* step of DagFifo is one of DagTask, so its invariant holds here; what    *)
(* the scheduler adds is that a thread which has not blocked since it      *)
(* began is the foremost of its level, and that only the foremost runs.    *)
(***************************************************************************)
EXTENDS DagFifo, DagTaskProofs

USE DEF vars, taskVars, nodeVars, lockVars

LEMMA ThreadType ==
  /\ \A t \in Thread : DagOfThread(t) \in Dag /\ PrioOfThread(t) \in Nat
  /\ \A n \in Node : <<"node", n>> \in Thread /\ DagOfThread(<<"node", n>>) = DagOf[n]
  /\ \A d \in Dag : /\ <<"task", d>> \in Thread /\ DagOfThread(<<"task", d>>) = d
                    /\ <<"finish", d>> \in Thread /\ DagOfThread(<<"finish", d>>) = d
BY DagAssumption, FifoAssumption DEF Thread, DagOfThread, PrioOfThread

(* The threads of a DAG have its processor and its priority. *)
LEMMA DagLevel ==
  ASSUME NEW t \in Thread, NEW u \in Thread, DagOfThread(t) = DagOfThread(u)
  PROVE  SameLevel(t, u)
BY DEF SameLevel, CpuOfThread, PrioOfThread

LEMMA UnchangedRunnable == UNCHANGED vars => \A t \in Thread : Runnable(t)' <=> Runnable(t)
BY DEF Runnable, TaskBlocked, NodeBlocked, FirstNode, FirstEdge, InEdges, Signalled, ChunkLeft, PremFree

LEMMA RunnableNode == \A n \in Node : Runnable(<<"node", n>>) <=> ~NodeBlocked(n)
BY DEF Runnable

LEMMA RunnableNodeNext == \A n \in Node : Runnable(<<"node", n>>)' <=> ~NodeBlocked(n)'
BY DEF Runnable

(* The running thread is the foremost of its level. *)
LEMMA RunnerForemost ==
  ASSUME ReadyInv, NEW t \in Thread, Runs(t)
  PROVE  t \in ready /\ Foremost(t)
<1>1. t \in ready
  BY DEF Runs
<1>2. ASSUME NEW u \in ready, u # t, SameLevel(t, u) PROVE <<t, u>> \in ahead
  <2>1. u \in Thread /\ PrioOfThread(u) = PrioOfThread(t) /\ PrioOfThread(t) \in Nat
    BY <1>2, ThreadType DEF ReadyInv, SameLevel
  <2>2. <<u, t>> \notin ahead
    BY <1>2, <2>1 DEF Runs, SameLevel
  <2> QED
    BY <1>1, <1>2, <2>2 DEF ReadyInv
<1>3. Foremost(t)
  BY <1>2, Zenon DEF Foremost
<1> QED
  BY <1>1, <1>3

(* No other thread of its level runs while a thread is the foremost. *)
LEMMA OthersWait ==
  ASSUME ReadyInv, NEW t \in Thread, Runs(t), NEW u \in ready, Foremost(u), SameLevel(u, t)
  PROVE  t = u
<1> SUFFICES ASSUME t # u PROVE FALSE
  OBVIOUS
<1>1. t \in ready
  BY DEF Runs
<1>2. <<u, t>> \in ahead
  BY <1>1 DEF Foremost
<1>3. PrioOfThread(u) = PrioOfThread(t) /\ PrioOfThread(t) \in Nat
  BY ThreadType DEF SameLevel
<1> QED
  BY <1>2, <1>3 DEF Runs, SameLevel

-----------------------------------------------------------------------------
(* What a step does to the list. *)
Kept ==
  /\ \A t \in ready \cap ready' : Foremost(t) => Foremost(t)'
  /\ \A p \in ahead : p[1] \in ready' /\ p[2] \in ready' => p \in ahead'
  /\ \A t \in ready \cap ready', u \in ready' \ ready : <<t, u>> \in ahead'

LEMMA RequeueStep ==
  ASSUME ReadyInv, Requeue
  PROVE  ReadyInv' /\ Kept
<1> DEFINE woken == ready' \ ready
<1>1. ready' = {t \in ready : Runnable(t)'} \cup {t \in Thread : ~Runnable(t) /\ Runnable(t)'}
  BY DEF Requeue
<1>2. PICK rank \in Ranks(woken) :
        ahead' = {p \in ready' \X ready' :
                   \/ p \in ahead
                   \/ p[2] \notin ready /\ (p[1] \in ready \/ rank[p[1]] < rank[p[2]])}
  BY DEF Requeue
<1>3. ready \subseteq Thread
  BY DEF ReadyInv
<1>4. ready' \subseteq {t \in Thread : Runnable(t)'}
  BY <1>1, <1>3
<1>5. \A n \in Node : ~NodeBlocked(n)' => <<"node", n>> \in ready'
  BY <1>1, RunnableNode, RunnableNodeNext, ThreadType DEF ReadyInv
<1>6. \A t \in ready \cap ready', u \in ready' \ ready : <<t, u>> \in ahead' /\ <<u, t>> \notin ahead'
  BY <1>2 DEF ReadyInv
<1>7. \A t, u \in ready \cap ready' : <<t, u>> \in ahead' <=> <<t, u>> \in ahead
  BY <1>2
<1>8. \A t, u \in woken : t # u => (<<t, u>> \in ahead' <=> <<u, t>> \notin ahead')
  <2> SUFFICES ASSUME NEW t \in woken, NEW u \in woken, t # u
               PROVE  <<t, u>> \in ahead' <=> <<u, t>> \notin ahead'
    OBVIOUS
  <2>1. rank[t] # rank[u] /\ rank[t] \in Int /\ rank[u] \in Int
    BY <1>2 DEF Ranks
  <2>2. <<t, u>> \notin ahead /\ <<u, t>> \notin ahead /\ t \notin ready /\ u \notin ready
    BY DEF ReadyInv
  <2>3. <<t, u>> \in ahead' <=> rank[t] < rank[u]
    BY <1>2, <2>2
  <2>4. <<u, t>> \in ahead' <=> rank[u] < rank[t]
    BY <1>2, <2>2
  <2> QED
    BY <2>1, <2>3, <2>4
<1>9. \A t, u \in ready' : t # u => (<<t, u>> \in ahead' <=> <<u, t>> \notin ahead')
  BY <1>6, <1>7, <1>8 DEF ReadyInv
<1>10. ahead' \subseteq ready' \X ready'
  BY <1>2
<1>11. ReadyInv'
  BY <1>4, <1>5, <1>9, <1>10 DEF ReadyInv
<1>12. \A t \in ready \cap ready' : Foremost(t) => Foremost(t)'
  BY <1>6, <1>7 DEF Foremost, SameLevel
<1>13. \A p \in ahead : p[1] \in ready' /\ p[2] \in ready' => p \in ahead'
  BY <1>2 DEF ReadyInv
<1> QED
  BY <1>6, <1>11, <1>12, <1>13 DEF Kept

LEMMA CreateTaskStep ==
  ASSUME ReadyInv, NEW d \in Dag, CreateTask(d)
  PROVE  ReadyInv' /\ Kept
<1> DEFINE t == <<"task", d>>
<1>1. UNCHANGED vars /\ mpc[d] = "reset" /\ t \notin ready
      /\ ready' = ready \cup {t} /\ ahead' = ahead \cup (ready \X {t})
  BY DEF CreateTask
<1>2. \A u \in Thread : Runnable(u)' <=> Runnable(u)
  BY <1>1, UnchangedRunnable
<1>3. t \in Thread /\ Runnable(t)
  BY <1>1, ThreadType DEF Runnable, TaskBlocked
<1>4. ready' \subseteq {u \in Thread : Runnable(u)'}
  BY <1>1, <1>2, <1>3 DEF ReadyInv
<1>5. \A n \in Node : ~NodeBlocked(n)' => <<"node", n>> \in ready'
  BY <1>1, <1>2, RunnableNode, RunnableNodeNext, ThreadType DEF ReadyInv
<1>6. ahead' \subseteq ready' \X ready'
  BY <1>1 DEF ReadyInv
<1>7. \A u, v \in ready' : u # v => (<<u, v>> \in ahead' <=> <<v, u>> \notin ahead')
  BY <1>1 DEF ReadyInv
<1>8. \A u, v \in ready : <<u, v>> \in ahead' <=> <<u, v>> \in ahead
  BY <1>1
<1>9. Kept
  BY <1>1, <1>8 DEF Kept, Foremost, SameLevel
<1> QED
  BY <1>4, <1>5, <1>6, <1>7, <1>9 DEF ReadyInv

-----------------------------------------------------------------------------
(* What the steps of DagTask change, one thread at a time. *)
LEMMA TaskFrame ==
  ASSUME TypeOK, PhaseInv, NEW d \in Dag, Task(d)
  PROVE  /\ UNCHANGED <<passed, chunk, reg, premOwner>>
         /\ \A n \in Node :
              \/ npc'[n] = npc[n]
              \/ npc[n] = "gone" /\ npc'[n] = "try" /\ DagOf[n] = d /\ mpc[d] = "spawn"
              \/ npc[n] = "exited" /\ npc'[n] = "gone" /\ DagOf[n] = d /\ mpc[d] = "join"
         /\ \A c \in Dag \ {d} : mpc'[c] = mpc[c] /\ varCondition'[c] = varCondition[c]
         /\ varCondition'[d] = varCondition[d] \/ mpc[d] = "reset"
         /\ mpc'[d] \in {"spawn", "finish", "joinFinish"} =>
              mpc[d] \in {"create", "spawn", "finish", "joinFinish"}
<1> USE DEF TypeOK
<1>1. CASE ResetCounter(d)
  BY <1>1 DEF ResetCounter
<1>2. CASE CreateDependency(d) \/ Start(d) \/ SpawnWaitFinish(d) \/ JoinFinish(d) \/ ReleaseLockStart(d)
           \/ DestroyDependency(d) \/ WaitForPeriod(d)
  BY <1>2 DEF CreateDependency, Start, SpawnWaitFinish, JoinFinish, ReleaseLockStart, DestroyDependency,
              WaitForPeriod
<1>3. ASSUME NEW n \in Node, CreateThread(d, n) \/ JoinThread(d, n)
      PROVE  /\ UNCHANGED <<mpc, passed, chunk, reg, premOwner, varCondition>>
             /\ n \in todo[d] /\ DagOf[n] = d
             /\ \A m \in Node \ {n} : npc'[m] = npc[m]
             /\ \/ npc[n] = "gone" /\ npc'[n] = "try" /\ mpc[d] = "spawn"
                \/ npc[n] = "exited" /\ npc'[n] = "gone" /\ mpc[d] = "join"
  BY <1>3 DEF CreateThread, JoinThread, FirstNode, PhaseInv, NodesOf
<1> QED
  BY <1>1, <1>2, <1>3 DEF Task

LEMMA NodeFrame ==
  ASSUME TypeOK, NEW n \in Node, NodeThread(n)
  PROVE  /\ UNCHANGED taskVars
         /\ \A m \in Node \ {n} :
              npc'[m] = npc[m] /\ passed'[m] = passed[m] /\ chunk'[m] = chunk[m] /\ reg'[m] = reg[m]
         /\ npc[n] \notin {"gone", "exited"} /\ npc'[n] \notin {"gone", "try"}
         /\ npc'[n] = "exited" => npc[n] = "exit"
<1> USE DEF TypeOK, NodePC
<1>1. CASE TryLockStart(n) \/ BeginCompute(n) \/ EndCompute(n)
  BY <1>1 DEF TryLockStart, BeginCompute, EndCompute
<1>2. ASSUME NEW e \in Edge, LockEdge(n, e) \/ UnlockEdge(n, e)
      PROVE  UNCHANGED <<taskVars, npc, chunk, reg>> /\ npc[n] \in {"lock", "unlock"}
             /\ \A m \in Node \ {n} : passed'[m] = passed[m]
  BY <1>2 DEF LockEdge, UnlockEdge
<1>3. CASE LockPrem(n) \/ UnlockPrem(n) \/ NextChunk(n)
  BY <1>3 DEF LockPrem, UnlockPrem, NextChunk
<1>4. CASE LoadCounter(n) \/ StoreCounter(n) \/ ExitThread(n)
  BY <1>4 DEF LoadCounter, StoreCounter, ExitThread
<1> QED
  BY <1>1, <1>2, <1>3, <1>4 DEF NodeThread

(* var_condition is loaded once, and stored one larger. *)
LEMMA NodeCounts ==
  ASSUME TypeOK, NEW n \in Node, NodeThread(n)
  PROVE  \/ /\ npc[n] = "store" /\ npc'[n] = "exit"
            /\ varCondition' = [varCondition EXCEPT ![DagOf[n]] = reg[n] + 1]
         \/ /\ npc[n] # "store" /\ varCondition' = varCondition
            /\ npc[n] \in {"exit", "exited"} <=> npc'[n] \in {"exit", "exited"}
            /\ npc'[n] = "store" => reg'[n] = varCondition[DagOf[n]]
<1> USE DEF TypeOK, NodePC
<1>1. CASE TryLockStart(n) \/ BeginCompute(n) \/ EndCompute(n)
  BY <1>1 DEF TryLockStart, BeginCompute, EndCompute
<1>2. ASSUME NEW e \in Edge, LockEdge(n, e) \/ UnlockEdge(n, e)
      PROVE  UNCHANGED <<npc, varCondition>> /\ npc[n] \in {"lock", "unlock"}
  BY <1>2 DEF LockEdge, UnlockEdge
<1>3. CASE LockPrem(n) \/ UnlockPrem(n) \/ NextChunk(n)
  BY <1>3 DEF LockPrem, UnlockPrem, NextChunk
<1>4. CASE LoadCounter(n) \/ StoreCounter(n) \/ ExitThread(n)
  BY <1>4 DEF LoadCounter, StoreCounter, ExitThread
<1> QED
  BY <1>1, <1>2, <1>3, <1>4 DEF NodeThread

-----------------------------------------------------------------------------
LEMMA FifoStep == FifoNext => [Next]_vars
BY DEF FifoNext, CreateTask, PeriodExpires, ThreadStep, Thread, Next, Task

LEMMA ListStep ==
  ASSUME ReadyInv, FifoNext
  PROVE  ReadyInv' /\ Kept
<1>1. CASE Requeue
  BY <1>1, RequeueStep
<1>2. CASE \E d \in Dag : CreateTask(d)
  BY <1>2, CreateTaskStep
<1> QED
  BY <1>1, <1>2 DEF FifoNext, PeriodExpires, ThreadStep

(* While a node stores, no other thread of its DAG takes a step. *)
LEMMA StoreAlone ==
  ASSUME IInv, ReadyInv, ExactInv, NEW n \in Node, npc[n] = "store", NEW t \in Thread, Runs(t),
         DagOfThread(t) = DagOf[n]
  PROVE  t = <<"node", n>>
<1>1. <<"node", n>> \in ready /\ Foremost(<<"node", n>>)
  BY DEF ReadyInv, ExactInv, NodeBlocked
<1>2. SameLevel(<<"node", n>>, t)
  BY DagLevel, ThreadType
<1> QED
  BY <1>1, <1>2, OthersWait

(* The counter of a DAG whose nodes do not move. *)
LEMMA CountedUnchanged ==
  ASSUME TypeOK, NEW d \in Dag,
         \A n \in NodesOf(d) : npc[n] \in {"exit", "exited"} <=> npc'[n] \in {"exit", "exited"}
  PROVE  Counted(d)' = Counted(d)
BY DEF Counted, NodesOf

LEMMA StoreStep ==
  ASSUME IInv, ReadyInv, ExactInv, NEW n \in Node, NodeThread(n), Runs(<<"node", n>>), npc[n] = "store"
  PROVE  Measured(DagOf[n])' => varCondition'[DagOf[n]] = Cardinality(Counted(DagOf[n])')
<1> DEFINE d == DagOf[n]
<1>1. d \in Dag /\ n \in NodesOf(d) /\ n \notin Counted(d) /\ TypeOK
  BY NodeType DEF IInv, Counted, NodesOf
<1>2. varCondition' = [varCondition EXCEPT ![d] = reg[n] + 1] /\ npc'[n] = "exit"
      /\ UNCHANGED mpc /\ \A m \in Node \ {n} : npc'[m] = npc[m]
  BY <1>1, NodeCounts, NodeFrame
<1>3. Counted(d)' = Counted(d) \cup {n}
  BY <1>1, <1>2 DEF Counted, NodesOf
<1>4. Cardinality(Counted(d)') = Cardinality(Counted(d)) + 1
  BY <1>1, <1>3, CountedFinite, FS_AddElement
<1>5. varCondition'[d] = varCondition[d] + 1
  BY <1>1, <1>2 DEF ExactInv, TypeOK
<1>6. Measured(d)' => Measured(d)
  BY <1>2 DEF Measured
<1> QED
  BY <1>1, <1>4, <1>5, <1>6 DEF ExactInv

LEMMA ExactStep ==
  ASSUME IInv, ReadyInv, ExactInv, FifoNext
  PROVE  ExactInv'
<1> USE DEF IInv
<1>1. IInv' /\ ReadyInv' /\ Kept
  BY FifoStep, IInvStep, ListStep
<1>2. ASSUME NEW n \in Node, npc'[n] = "store"
      PROVE  <<"node", n>> \in ready'
  BY <1>1, <1>2 DEF ReadyInv, NodeBlocked
<1>3. CASE \E d \in Dag : CreateTask(d)
  <2>1. UNCHANGED vars
    BY <1>3 DEF CreateTask
  <2>2. \A n \in Node : npc[n] = "store" => Foremost(<<"node", n>>)'
    BY <1>1, <1>2, <2>1 DEF Kept, ExactInv, ReadyInv, NodeBlocked
  <2> QED
    BY <2>1, <2>2 DEF ExactInv, Measured, Counted, NodesOf
<1>4. ASSUME NEW d \in Dag, Task(d), WaitForPeriod(d) \/ Runs(<<"task", d>>)
      PROVE  ExactInv'
  <2>1. UNCHANGED reg /\ \A n \in Node : npc'[n] = "store" <=> npc[n] = "store"
    BY <1>4, TaskFrame
  <2>2. ASSUME NEW n \in Node, npc[n] = "store"
        PROVE  Foremost(<<"node", n>>)' /\ reg'[n] = varCondition'[DagOf[n]]
    <3>1. Foremost(<<"node", n>>)'
      BY <1>1, <1>2, <2>1, <2>2 DEF Kept, ExactInv, ReadyInv, NodeBlocked
    <3>2. mpc[DagOf[n]] # "reset" /\ DagOf[n] \in Dag
      BY <2>2, NodeType DEF ThreadsJoined, NodesOf, InJob
    <3>3. varCondition'[DagOf[n]] = varCondition[DagOf[n]]
      BY <1>4, <3>2, TaskFrame
    <3> QED
      BY <2>1, <2>2, <3>1, <3>3 DEF ExactInv
  <2>3. ASSUME NEW c \in Dag, Measured(c)'
        PROVE  varCondition'[c] = Cardinality(Counted(c)')
    <3>1. mpc[c] \in {"create", "spawn", "finish", "joinFinish"}
      BY <1>4, <2>3, TaskFrame DEF Measured
    <3>2. Counted(c)' = Counted(c)
      <4>1. \A n \in NodesOf(c) : npc[n] \in {"exit", "exited"} <=> npc'[n] \in {"exit", "exited"}
        BY <1>4, <3>1, TaskFrame DEF NodesOf
      <4> QED
        BY <4>1, CountedUnchanged
    <3>3. varCondition'[c] = varCondition[c]
      BY <1>4, <3>1, TaskFrame
    <3>4. varCondition[c] = Cardinality(Counted(c))
      <4>1. CASE mpc[c] = "create"
        <5>1. Counted(c) = {}
          BY <4>1 DEF ThreadsJoined, InJob, Counted
        <5> QED
          BY <4>1, <5>1, FS_EmptySet DEF CountInv
      <4>2. CASE mpc[c] # "create"
        BY <3>1, <4>2 DEF ExactInv, Measured
      <4> QED
        BY <4>1, <4>2
    <3> QED
      BY <3>2, <3>3, <3>4
  <2> QED
    BY <2>1, <2>2, <2>3 DEF ExactInv
<1>5. ASSUME NEW d \in Dag, WaitFinish(d)
      PROVE  ExactInv'
  <2>1. UNCHANGED <<mpc, npc, reg, varCondition>>
    BY <1>5 DEF WaitFinish
  <2>2. \A n \in Node : npc[n] = "store" => Foremost(<<"node", n>>)'
    BY <1>1, <1>2, <2>1 DEF Kept, ExactInv, ReadyInv, NodeBlocked
  <2> QED
    BY <2>1, <2>2 DEF ExactInv, Measured, Counted, NodesOf
<1>6. ASSUME NEW n \in Node, NodeThread(n), Runs(<<"node", n>>)
      PROVE  ExactInv'
  <2>1. DagOf[n] \in Dag /\ <<"node", n>> \in Thread /\ DagOfThread(<<"node", n>>) = DagOf[n]
    BY NodeType, ThreadType
  <2>2. UNCHANGED mpc /\ \A m \in Node \ {n} : npc'[m] = npc[m] /\ reg'[m] = reg[m]
    BY <1>6, NodeFrame
  <2>3. ASSUME NEW m \in Node, npc'[m] = "store"
        PROVE  Foremost(<<"node", m>>)' /\ reg'[m] = varCondition'[DagOf[m]]
    <3>1. CASE m = n
      <4>1. <<"node", n>> \in ready /\ Foremost(<<"node", n>>)
        BY <1>6, <2>1, RunnerForemost
      <4>2. reg'[n] = varCondition'[DagOf[n]]
        BY <1>6, <2>3, <3>1, NodeCounts
      <4> QED
        BY <1>1, <1>2, <2>3, <3>1, <4>1, <4>2 DEF Kept
    <3>2. CASE m # n
      <4>1. npc[m] = "store" /\ reg'[m] = reg[m]
        BY <2>2, <2>3, <3>2
      <4>2. DagOf[m] # DagOf[n]
        BY <1>6, <2>1, <3>2, <4>1, StoreAlone
      <4>3. varCondition'[DagOf[m]] = varCondition[DagOf[m]]
        BY <1>6, <4>2, NodeCounts, NodeType DEF TypeOK
      <4> QED
        BY <1>1, <1>2, <2>3, <4>1, <4>3 DEF Kept, ExactInv, ReadyInv, NodeBlocked
    <3> QED
      BY <3>1, <3>2
  <2>4. ASSUME NEW c \in Dag, Measured(c)'
        PROVE  varCondition'[c] = Cardinality(Counted(c)')
    <3>1. Measured(c)
      BY <2>2, <2>4 DEF Measured
    <3>2. CASE c = DagOf[n] /\ npc[n] = "store"
      BY <1>6, <2>4, <3>2, StoreStep
    <3>3. CASE ~(c = DagOf[n] /\ npc[n] = "store")
      <4>1. varCondition'[c] = varCondition[c]
        BY <1>6, <3>3, NodeCounts DEF TypeOK
      <4>2. \A m \in NodesOf(c) : npc[m] \in {"exit", "exited"} <=> npc'[m] \in {"exit", "exited"}
        BY <1>6, <2>2, <3>3, NodeCounts DEF NodesOf
      <4> QED
        BY <3>1, <4>1, <4>2, CountedUnchanged DEF ExactInv
    <3> QED
      BY <3>2, <3>3
  <2> QED
    BY <2>3, <2>4 DEF ExactInv
<1>7. ASSUME NEW t \in Thread, ThreadStep(t)
      PROVE  ExactInv'
  BY <1>4, <1>5, <1>6, <1>7 DEF ThreadStep, Thread
<1>8. ASSUME NEW d \in Dag, PeriodExpires(d)
      PROVE  ExactInv'
  BY <1>4, <1>8 DEF PeriodExpires, Task
<1> QED
  BY <1>3, <1>7, <1>8 DEF FifoNext

-----------------------------------------------------------------------------
(* Every thread that can go on is in the list, which orders them; a node that *)
(* is about to store its increment is the foremost of its DAG, and the count  *)
(* is exact (task.egl 94-190; ptask.c 193-262 for the one processor).         *)
THEOREM FifoInvariance == FifoSpec => []FifoInv
<1>1. FifoInit => FifoInv
  <2> SUFFICES ASSUME FifoInit PROVE FifoInv
    OBVIOUS
  <2>1. IInv
    BY IInvInit DEF FifoInit
  <2>2. ReadyInv
    BY DEF FifoInit, Init, ReadyInv, NodeBlocked
  <2>3. ExactInv
    BY DEF FifoInit, Init, ExactInv, Measured
  <2> QED
    BY <2>1, <2>2, <2>3 DEF FifoInv
<1>2. FifoInv /\ [FifoNext]_fifoVars => FifoInv'
  <2> SUFFICES ASSUME FifoInv, [FifoNext]_fifoVars PROVE FifoInv'
    OBVIOUS
  <2>1. CASE FifoNext
    BY <2>1, FifoStep, IInvStep, ListStep, ExactStep DEF FifoInv
  <2>2. CASE UNCHANGED fifoVars
    <3>1. IInv'
      BY <2>2, IInvStep DEF FifoInv, fifoVars
    <3>2. ReadyInv'
      <4>1. \A t \in Thread : Runnable(t)' <=> Runnable(t)
        BY <2>2, UnchangedRunnable DEF fifoVars
      <4> QED
        BY <2>2, <4>1, RunnableNode, RunnableNodeNext, ThreadType DEF FifoInv, fifoVars, ReadyInv
    <3>3. ExactInv'
      BY <2>2 DEF FifoInv, fifoVars, ExactInv, Foremost, Measured, Counted, NodesOf
    <3> QED
      BY <3>1, <3>2, <3>3 DEF FifoInv
  <2> QED
    BY <2>1, <2>2
<1> QED
  BY <1>1, <1>2, PTL DEF FifoSpec

(* On processors bound to DAGs no increment of var_condition is lost, for any *)
(* DAGs, priorities and periods: wait_finish sees the full count when all     *)
(* nodes are through (task.egl 70, 158, 187).                                 *)
THEOREM NoLostUpdateHolds == FifoSpec => []NoLostUpdate
<1>1. FifoInv => NoLostUpdate
  <2> SUFFICES ASSUME FifoInv, NEW d \in Dag, mpc[d] \in {"finish", "joinFinish"}, LostUpdate(d)
               PROVE  FALSE
    BY DEF NoLostUpdate
  <2>1. Counted(d) = NodesOf(d)
    BY DEF LostUpdate, Counted
  <2>2. varCondition[d] = Cardinality(NodesOf(d)) /\ varCondition[d] \in Nat
    BY <2>1 DEF FifoInv, ExactInv, Measured, IInv, TypeOK
  <2> QED
    BY <2>2 DEF LostUpdate
<1> QED
  BY <1>1, FifoInvariance, PTL

-----------------------------------------------------------------------------
(* Why a node moves. *)
LEMMA Moves ==
  ASSUME IInv, FifoNext
  PROVE  /\ \A n \in Node :
              \/ npc'[n] = npc[n]
              \/ NodeThread(n) /\ Runs(<<"node", n>>)
              \/ /\ npc[n] = "gone" /\ npc'[n] = "try"
                 /\ mpc[DagOf[n]] = "spawn" /\ FirstNode(n, todo[DagOf[n]])
              \/ npc[n] = "exited" /\ npc'[n] = "gone" /\ mpc'[DagOf[n]] = "join"
         /\ \A d \in Dag : mpc[d] = "join" => mpc'[d] \in {"join", "wait"}
<1> DEFINE Moved(n) == \/ npc'[n] = npc[n]
                       \/ NodeThread(n) /\ Runs(<<"node", n>>)
                       \/ /\ npc[n] = "gone" /\ npc'[n] = "try"
                          /\ mpc[DagOf[n]] = "spawn" /\ FirstNode(n, todo[DagOf[n]])
                       \/ npc[n] = "exited" /\ npc'[n] = "gone" /\ mpc'[DagOf[n]] = "join"
           Stays == \A d \in Dag : mpc[d] = "join" => mpc'[d] \in {"join", "wait"}
<1> USE DEF IInv
<1>1. ASSUME NEW d \in Dag, CreateTask(d) PROVE (\A n \in Node : Moved(n)) /\ Stays
  BY <1>1 DEF CreateTask
<1>2. ASSUME NEW d \in Dag, Task(d) PROVE (\A n \in Node : Moved(n)) /\ Stays
  <2>1. CASE ResetCounter(d) \/ CreateDependency(d) \/ Start(d) \/ SpawnWaitFinish(d) \/ JoinFinish(d)
             \/ ReleaseLockStart(d) \/ DestroyDependency(d) \/ WaitForPeriod(d)
    BY <2>1 DEF ResetCounter, CreateDependency, Start, SpawnWaitFinish, JoinFinish, ReleaseLockStart,
                DestroyDependency, WaitForPeriod, TypeOK
  <2>2. ASSUME NEW n \in Node, CreateThread(d, n) PROVE (\A m \in Node : Moved(m)) /\ Stays
    <3>1. npc[n] = "gone" /\ DagOf[n] = d
      BY <2>2, NewThread DEF TypeOK
    <3> QED
      BY <2>2, <3>1 DEF CreateThread, TypeOK
  <2>3. ASSUME NEW n \in Node, JoinThread(d, n) PROVE (\A m \in Node : Moved(m)) /\ Stays
    <3>1. DagOf[n] = d
      BY <2>3 DEF JoinThread, FirstNode, PhaseInv, NodesOf
    <3> QED
      BY <2>3, <3>1 DEF JoinThread, TypeOK
  <2> QED
    BY <1>2, <2>1, <2>2, <2>3 DEF Task
<1>3. ASSUME NEW d \in Dag, WaitFinish(d) PROVE (\A n \in Node : Moved(n)) /\ Stays
  BY <1>3 DEF WaitFinish
<1>4. ASSUME NEW n \in Node, NodeThread(n), Runs(<<"node", n>>) PROVE (\A m \in Node : Moved(m)) /\ Stays
  BY <1>4, NodeFrame
<1> HIDE DEF Moved, Stays
<1>5. ASSUME NEW t \in Thread, ThreadStep(t) PROVE (\A n \in Node : Moved(n)) /\ Stays
  BY <1>2, <1>3, <1>4, <1>5 DEF ThreadStep, Thread
<1>6. ASSUME NEW d \in Dag, PeriodExpires(d) PROVE (\A n \in Node : Moved(n)) /\ Stays
  BY <1>2, <1>6 DEF PeriodExpires, Task
<1>7. (\A n \in Node : Moved(n)) /\ Stays
  BY <1>1, <1>5, <1>6 DEF FifoNext
<1> QED
  BY <1>7 DEF Moved, Stays

(* When what a node depends on is past, the node is not blocked. *)
SourcesPast == \A e \in Edge : npc[e.trg] \notin {"gone", "try"} => Past(e.src)
NoneBlocked == \A n \in Node : npc[n] \notin {"gone", "exited"} => ~NodeBlocked(n)

LEMMA NeverBlocked == IInv /\ CopyInv /\ SourcesPast => NoneBlocked
<1> SUFFICES ASSUME IInv, CopyInv, SourcesPast, NEW n \in Node, npc[n] \notin {"gone", "exited"}
             PROVE  ~NodeBlocked(n)
  BY DEF NoneBlocked
<1> USE DEF IInv
<1>1. ASSUME NEW e \in Edge, npc[n] = "lock", FirstEdge(e, InEdges(n) \ passed[n])
      PROVE  Signalled(e)
  <2>1. e.trg = n /\ e \notin passed[n] /\ e.src \in Node /\ DagOf[e.src] = DagOf[n]
    BY <1>1, EdgeType DEF FirstEdge, InEdges
  <2>2. Given(e) /\ ~Taken(e)
    BY <1>1, <2>1 DEF SourcesPast, Given, Taken, Past, Computing, Computed
  <2>3. InJob(DagOf[e.src])
    BY <1>1, <2>1, LiveNode
  <2> QED
    BY <2>2, <2>3 DEF SignalInv, Signalled
<1>2. npc[n] = "mem" => PremFree
  BY DEF CopyInv, PremFree
<1> QED
  BY <1>1, <1>2 DEF NodeBlocked

LEMMA NeverBlockedNext == IInv' /\ CopyInv' /\ SourcesPast' => NoneBlocked'
BY NeverBlocked, PTL

LEMMA BehindPast == BehindInv => SourcesPast
BY DEF BehindInv, SourcesPast

(* A node that another of its level is ahead of does not run. *)
LEMMA BehindWaits ==
  ASSUME ReadyInv, NEW e \in Edge, <<<<"node", e.src>>, <<"node", e.trg>>>> \in ahead
  PROVE  ~Runs(<<"node", e.trg>>)
<1> DEFINE s == <<"node", e.src>>  t == <<"node", e.trg>>
<1>1. s \in Thread /\ t \in Thread /\ DagOfThread(s) = DagOfThread(t) /\ s \in ready
  BY EdgeType, ThreadType DEF ReadyInv
<1>2. CpuOfThread(s) = CpuOfThread(t) /\ PrioOfThread(s) = PrioOfThread(t) /\ PrioOfThread(t) \in Nat
  BY <1>1, ThreadType DEF CpuOfThread, PrioOfThread
<1> QED
  BY <1>1, <1>2 DEF Runs

(* What is past remains so while the job lasts. *)
LEMMA PastStays ==
  ASSUME IInv, FifoNext, NEW n \in Node, Past(n), InJob(DagOf[n])'
  PROVE  Past(n)'
<1>1. DagOf[n] \in Dag
  BY NodeType
<1>2. CASE npc[n] \in {"exit", "exited"}
  <2>1. CASE NodeThread(n)
    BY <1>2, <2>1, NodeCounts DEF Past, IInv
  <2>2. CASE ~NodeThread(n)
    BY <1>2, <2>2, Moves DEF Past
  <2> QED
    BY <2>1, <2>2
<1>3. CASE npc[n] = "gone" /\ mpc[DagOf[n]] = "join"
  <2>1. mpc'[DagOf[n]] = "join"
    BY <1>1, <1>3, Moves DEF InJob
  <2>2. npc'[n] = "gone"
    BY <1>3, Moves, NodeFrame DEF IInv
  <2> QED
    BY <2>1, <2>2 DEF Past
<1> QED
  BY <1>2, <1>3 DEF Past

(* A node gets past its edges only when what it depends on is past. *)
LEMMA SourcesStep ==
  ASSUME IInv, ReadyInv, BehindInv, FifoNext, IInv'
  PROVE  SourcesPast'
<1> SUFFICES ASSUME NEW e \in Edge, npc'[e.trg] \notin {"gone", "try"}
             PROVE  Past(e.src)'
  BY DEF SourcesPast
<1> DEFINE t == <<"node", e.trg>>
<1>1. e.src \in Node /\ e.trg \in Node /\ DagOf[e.src] = DagOf[e.trg]
  BY EdgeType
<1>2. InJob(DagOf[e.src])'
  BY <1>1, NodeType DEF IInv, ThreadsJoined, NodesOf
<1>3. npc[e.trg] # "gone"
  BY <1>1, Moves, NodeFrame DEF IInv
<1>4. npc[e.trg] = "try" => Runs(t)
  BY <1>1, Moves
<1>5. Past(e.src)
  BY <1>3, <1>4, BehindWaits DEF BehindInv
<1> QED
  BY <1>1, <1>2, <1>5, PastStays

(* Of the nodes of a level at most one has begun. *)
LEMMA OneBegun ==
  ASSUME ReadyInv, BegunInv, NEW m \in Node, NEW n \in Node, Begun(m), Begun(n),
         SameLevel(<<"node", m>>, <<"node", n>>)
  PROVE  m = n
<1> DEFINE u == <<"node", m>>  v == <<"node", n>>
<1>1. u \in ready /\ v \in ready /\ Foremost(u) /\ Foremost(v) /\ SameLevel(v, u)
  BY DEF BegunInv, SameLevel
<1>2. u # v => <<u, v>> \in ahead /\ <<v, u>> \in ahead
  BY <1>1 DEF Foremost
<1> QED
  BY <1>1, <1>2 DEF ReadyInv

LEMMA CopyMoves ==
  ASSUME IInv, FifoNext, CopyInv, NEW n \in Node, npc'[n] \in {"mem", "copy"}
  PROVE  DagOf[n] \in Prem /\ Begun(n)
<1> USE DEF IInv, TypeOK, Begun
<1>1. CASE npc'[n] = npc[n]
  BY <1>1 DEF CopyInv
<1>2. CASE NodeThread(n)
  <2>1. CASE TryLockStart(n) \/ BeginCompute(n) \/ EndCompute(n)
    BY <2>1 DEF TryLockStart, BeginCompute, EndCompute
  <2>2. ASSUME NEW e \in Edge, LockEdge(n, e) \/ UnlockEdge(n, e)
        PROVE  FALSE
    BY <2>2 DEF LockEdge, UnlockEdge
  <2>3. CASE LockPrem(n) \/ UnlockPrem(n) \/ NextChunk(n)
    BY <2>3 DEF LockPrem, UnlockPrem, NextChunk, CopyInv
  <2>4. CASE LoadCounter(n) \/ StoreCounter(n) \/ ExitThread(n)
    BY <2>4 DEF LoadCounter, StoreCounter, ExitThread
  <2> QED
    BY <1>2, <2>1, <2>2, <2>3, <2>4 DEF NodeThread
<1> QED
  BY <1>1, <1>2, Moves

LEMMA CopyStep ==
  ASSUME IInv, ReadyInv, BegunInv, CopyInv, FifoNext, IInv', PremTogether
  PROVE  CopyInv'
<1>1. \A n \in Node : npc'[n] \in {"mem", "copy"} => DagOf[n] \in Prem
  BY CopyMoves
<1>2. ASSUME NEW n \in Node, npc'[n] = "mem", premOwner' # NoNode
      PROVE  FALSE
  <2>1. PICK m \in Node : premOwner' = m /\ npc'[m] = "copy"
    BY <1>2 DEF IInv, TypeOK, PremInv
  <2>2. DagOf[m] \in Prem /\ Begun(m) /\ DagOf[n] \in Prem /\ Begun(n)
    BY <1>2, <2>1, CopyMoves
  <2>3. SameLevel(<<"node", m>>, <<"node", n>>)
    BY <2>2, ThreadType DEF PremTogether, SameLevel, CpuOfThread, PrioOfThread
  <2> QED
    BY <1>2, <2>1, <2>2, <2>3, OneBegun
<1> QED
  BY <1>1, <1>2 DEF CopyInv

LEMMA BegunStep ==
  ASSUME IInv, ReadyInv, BegunInv, FifoNext, ReadyInv', Kept, NoneBlocked'
  PROVE  BegunInv'
<1> SUFFICES ASSUME NEW n \in Node, Begun(n)'
             PROVE  <<"node", n>> \in ready' /\ Foremost(<<"node", n>>)'
  BY DEF BegunInv
<1> DEFINE t == <<"node", n>>
<1>1. t \in ready'
  BY DEF Begun, NoneBlocked, ReadyInv
<1>2. t \in ready /\ Foremost(t)
  <2>1. CASE Begun(n)
    BY <2>1 DEF BegunInv
  <2>2. CASE Runs(t)
    BY <2>2, ThreadType, RunnerForemost
  <2> QED
    BY <2>1, <2>2, Moves DEF Begun
<1> QED
  BY <1>1, <1>2 DEF Kept

(* A node that is ready leaves the list only when it is past. *)
LEMMA ReadyNode ==
  ASSUME IInv, FifoNext, ReadyInv', NoneBlocked', NEW n \in Node, ~NodeBlocked(n)
  PROVE  <<"node", n>> \in ready' \/ Past(n)'
<1>1. npc[n] \notin {"gone", "exited"}
  BY DEF NodeBlocked
<1>2. npc'[n] # "gone"
  BY <1>1, Moves, NodeFrame DEF IInv
<1>3. CASE npc'[n] = "exited"
  BY <1>3 DEF Past
<1>4. CASE npc'[n] # "exited"
  BY <1>2, <1>4 DEF NoneBlocked, ReadyInv
<1> QED
  BY <1>3, <1>4

LEMMA BehindStep ==
  ASSUME IInv, ReadyInv, OrderInv, FifoNext, IInv', ReadyInv', Kept, SourcesPast', NoneBlocked',
         Topological
  PROVE  BehindInv'
<1> SUFFICES ASSUME NEW e \in Edge, npc'[e.trg] # "gone", ~Past(e.src)'
             PROVE  npc'[e.trg] = "try" /\ <<<<"node", e.src>>, <<"node", e.trg>>>> \in ahead'
  BY DEF BehindInv
<1> DEFINE s == <<"node", e.src>>  t == <<"node", e.trg>>  d == DagOf[e.trg]
<1>1. e.src \in Node /\ e.trg \in Node /\ DagOf[e.src] = d /\ d \in Dag
  BY EdgeType, NodeType
<1>2. npc'[e.trg] = "try"
  BY DEF SourcesPast
<1>3. t \in ready'
  BY <1>1, <1>2 DEF NoneBlocked, ReadyInv
<1>4. InJob(d)'
  BY <1>1 DEF IInv, ThreadsJoined, NodesOf
<1>5. ~Past(e.src)
  BY <1>1, <1>4, PastStays
<1>6. CASE npc[e.trg] = "try"
  <2>1. <<s, t>> \in ahead
    BY <1>5, <1>6 DEF OrderInv, BehindInv
  <2>2. s \in ready /\ ~NodeBlocked(e.src)
    BY <1>1, <2>1, RunnableNode DEF ReadyInv
  <2>3. s \in ready'
    BY <1>1, <2>2, ReadyNode
  <2> QED
    BY <1>2, <1>3, <2>1, <2>3 DEF Kept
<1>7. CASE npc[e.trg] # "try"
  <2>1. npc[e.trg] = "gone" /\ mpc[d] = "spawn" /\ FirstNode(e.trg, todo[d])
    BY <1>1, <1>2, <1>7, Moves, NodeFrame DEF IInv
  <2>2. e.src \notin todo[d]
    BY <1>1, <2>1, DagAssumption DEF FirstNode, Topological
  <2>3. npc[e.src] \notin {"gone", "exited"}
    BY <1>1, <1>5, <2>1, <2>2 DEF IInv, PhaseInv, NodesOf, Past
  <2>4. ~NodeBlocked(e.src)
    BY <1>1, <2>3, NeverBlocked, BehindPast DEF OrderInv, NoneBlocked
  <2>5. s \in ready /\ s \in ready'
    BY <1>1, <2>4, ReadyNode DEF ReadyInv
  <2>6. t \notin ready
    BY <1>1, <2>1, RunnableNode DEF ReadyInv, NodeBlocked
  <2> QED
    BY <1>2, <1>3, <2>5, <2>6 DEF Kept
<1> QED
  BY <1>6, <1>7

LEMMA OrderStep ==
  ASSUME IInv, ReadyInv, OrderInv, FifoNext, Topological, PremTogether
  PROVE  OrderInv'
<1>1. IInv' /\ ReadyInv' /\ Kept
  BY FifoStep, IInvStep, ListStep
<1>2. SourcesPast' /\ CopyInv'
  BY <1>1, SourcesStep, CopyStep DEF OrderInv
<1>3. NoneBlocked'
  BY <1>1, <1>2, NeverBlockedNext
<1> QED
  BY <1>1, <1>2, <1>3, BegunStep, BehindStep DEF OrderInv

(* A node that has begun stays the foremost of its level, and a node that has *)
(* not begun is behind all it depends on (task.egl 107-110, 141-161).         *)
THEOREM OrderInvariance ==
  ASSUME Topological, PremTogether
  PROVE  FifoSpec => []OrderInv
<1>1. FifoInit => OrderInv
  BY EdgeType DEF FifoInit, Init, OrderInv, BegunInv, Begun, CopyInv, BehindInv
<1>2. FifoInv /\ OrderInv /\ [FifoNext]_fifoVars => OrderInv'
  <2> SUFFICES ASSUME FifoInv, OrderInv, [FifoNext]_fifoVars PROVE OrderInv'
    OBVIOUS
  <2>1. CASE FifoNext
    BY <2>1, OrderStep DEF FifoInv
  <2>2. CASE UNCHANGED fifoVars
    BY <2>2 DEF fifoVars, OrderInv, BegunInv, Begun, Foremost, CopyInv, BehindInv, Past
  <2> QED
    BY <2>1, <2>2
<1> QED
  BY <1>1, <1>2, FifoInvariance, PTL DEF FifoSpec

(* Nodes created in topological order never wait for an edge, for any DAGs    *)
(* and priorities, when the DAGs that share premMutex are on one level        *)
(* (task.egl 107-110, 144-146).                                               *)
THEOREM NodesNeverWaitHolds ==
  ASSUME Topological, PremTogether
  PROVE  FifoSpec => []NodesNeverWait
<1>1. FifoInv /\ OrderInv => NodesNeverWait
  <2> SUFFICES ASSUME FifoInv, OrderInv PROVE NodesNeverWait
    OBVIOUS
  <2>1. NoneBlocked
    BY NeverBlocked, BehindPast DEF FifoInv, OrderInv
  <2> QED
    BY <2>1 DEF NoneBlocked, NodesNeverWait
<1> QED
  BY <1>1, FifoInvariance, OrderInvariance, PTL

-----------------------------------------------------------------------------
(* The scheduler only restricts the program: under it every job still         *)
(* implements the abstract job (task.egl 103-130).                            *)
THEOREM FifoRefinement == FifoSpec => ImplementsJob
<1>1. FifoInit => Init
  BY DEF FifoInit
<1>2. [FifoNext]_fifoVars => [Next]_vars
  BY FifoStep DEF fifoVars
<1>3. FifoSpec => Spec
  BY <1>1, <1>2, PTL DEF FifoSpec, Spec
<1> QED
  BY <1>3, Refinement
=============================================================================
