--------------------------- MODULE DagTaskProofs ---------------------------
(***************************************************************************)
(* Proofs about DagTask, for any set of DAGs with finitely many nodes, any *)
(* edges inside the DAGs (cycles included: they only keep nodes waiting),  *)
(* any positions and any number of chunks.  Each conjunct of the inductive *)
(* invariant IInv has a lemma that says every step preserves it, with one  *)
(* step per action.                                                        *)
(***************************************************************************)
EXTENDS DagTask, TLAPS, FiniteSetTheorems, WellFoundedInduction

USE DEF vars, taskVars, nodeVars, lockVars

(* What the assumption on the constants says of one node and of one edge. *)
LEMMA NodeType == \A n \in Node : DagOf[n] \in Dag /\ Copies[n] \in Nat /\ n # NoNode
BY DagAssumption
LEMMA EdgeType ==
  \A e \in Edge : e.src \in Node /\ e.trg \in Node /\ DagOf[e.src] = DagOf[e.trg]
BY DagAssumption

(* The nodes that have counted themselves are finitely many, at most all. *)
LEMMA CountedFinite ==
  ASSUME NEW d \in Dag
  PROVE  /\ IsFiniteSet(NodesOf(d)) /\ IsFiniteSet(Counted(d))
         /\ Cardinality(NodesOf(d)) \in Nat /\ Cardinality(Counted(d)) \in Nat
         /\ Counted(d) \subseteq NodesOf(d)
<1>1. NodesOf(d) \subseteq Node /\ Counted(d) \subseteq NodesOf(d)
  BY DEF NodesOf, Counted
<1>2. IsFiniteSet(NodesOf(d))
  BY <1>1, FS_Subset, DagAssumption
<1>3. IsFiniteSet(Counted(d))
  BY <1>1, <1>2, FS_Subset
<1> QED
  BY <1>1, <1>2, <1>3, FS_CardinalityType

(* Every step keeps every variable in its type. *)
LEMMA TypeStep == ASSUME TypeOK, [Next]_vars PROVE TypeOK'
<1> USE DEF TypeOK, TaskPC, NodePC, LockState
<1>1. ASSUME NEW dd \in Dag, ResetCounter(dd)
      PROVE  TypeOK'
  BY <1>1, NodeType DEF ResetCounter
<1>2. ASSUME NEW dd \in Dag, CreateDependency(dd)
      PROVE  TypeOK'
  BY <1>2, NodeType DEF CreateDependency, InitialLock, EdgesOf, NodesOf
<1>3. ASSUME NEW dd \in Dag, NEW nn \in Node, CreateThread(dd, nn)
      PROVE  TypeOK'
  BY <1>3, NodeType DEF CreateThread, FirstNode
<1>4. ASSUME NEW dd \in Dag, Start(dd)
      PROVE  TypeOK'
  BY <1>4, NodeType DEF Start, LoopDone, Unlocked
<1>5. ASSUME NEW dd \in Dag, SpawnWaitFinish(dd)
      PROVE  TypeOK'
  BY <1>5, NodeType DEF SpawnWaitFinish
<1>6. ASSUME NEW dd \in Dag, JoinFinish(dd)
      PROVE  TypeOK'
  BY <1>6, NodeType DEF JoinFinish
<1>7. ASSUME NEW dd \in Dag, ReleaseLockStart(dd)
      PROVE  TypeOK'
  BY <1>7, NodeType DEF ReleaseLockStart, Unlocked, NodesOf
<1>8. ASSUME NEW dd \in Dag, NEW nn \in Node, JoinThread(dd, nn)
      PROVE  TypeOK'
  BY <1>8, NodeType DEF JoinThread, FirstNode
<1>9. ASSUME NEW dd \in Dag, DestroyDependency(dd)
      PROVE  TypeOK'
  BY <1>9, NodeType DEF DestroyDependency, LoopDone, EdgesOf
<1>10. ASSUME NEW dd \in Dag, WaitForPeriod(dd)
       PROVE  TypeOK'
  BY <1>10, NodeType DEF WaitForPeriod
<1>11. ASSUME NEW dd \in Dag, WaitFinish(dd)
       PROVE  TypeOK'
  BY <1>11, NodeType DEF WaitFinish, NodeCount
<1>12. ASSUME NEW nn \in Node, TryLockStart(nn)
       PROVE  TypeOK'
  BY <1>12, NodeType DEF TryLockStart
<1>13. ASSUME NEW nn \in Node, NEW ee \in Edge, LockEdge(nn, ee)
       PROVE  TypeOK'
  BY <1>13, NodeType DEF LockEdge, FirstEdge, Signalled, InEdges
<1>14. ASSUME NEW nn \in Node, BeginCompute(nn)
       PROVE  TypeOK'
  <2>1. CASE DagOf[nn] \in Prem
    BY <1>14, <2>1, NodeType DEF BeginCompute
  <2>2. CASE DagOf[nn] \notin Prem
    BY <1>14, <2>2 DEF BeginCompute
  <2> QED
    BY <2>1, <2>2
<1>15. ASSUME NEW nn \in Node, LockPrem(nn)
       PROVE  TypeOK'
  BY <1>15, NodeType DEF LockPrem, ChunkLeft, PremFree
<1>16. ASSUME NEW nn \in Node, UnlockPrem(nn)
       PROVE  TypeOK'
  BY <1>16, NodeType DEF UnlockPrem
<1>17. ASSUME NEW nn \in Node, NextChunk(nn)
       PROVE  TypeOK'
  BY <1>17, NodeType DEF NextChunk
<1>18. ASSUME NEW nn \in Node, EndCompute(nn)
       PROVE  TypeOK'
  BY <1>18, NodeType DEF EndCompute, ChunkLeft
<1>19. ASSUME NEW nn \in Node, NEW ee \in Edge, UnlockEdge(nn, ee)
       PROVE  TypeOK'
  BY <1>19, NodeType DEF UnlockEdge, FirstEdge, Unlocked, OutEdges
<1>20. ASSUME NEW nn \in Node, LoadCounter(nn)
       PROVE  TypeOK'
  BY <1>20, NodeType DEF LoadCounter, OutEdges
<1>21. ASSUME NEW nn \in Node, StoreCounter(nn)
       PROVE  TypeOK'
  BY <1>21, NodeType DEF StoreCounter
<1>22. ASSUME NEW nn \in Node, ExitThread(nn)
       PROVE  TypeOK'
  BY <1>22, NodeType DEF ExitThread
<1>23. CASE UNCHANGED vars
  BY <1>23
<1> HIDE DEF TypeOK, TaskPC, NodePC, LockState
<1> QED
  BY <1>1, <1>2, <1>3, <1>4, <1>5, <1>6, <1>7, <1>8, <1>9, <1>10, <1>11, <1>12, <1>13, <1>14, <1>15, <1>16, <1>17, <1>18, <1>19, <1>20, <1>21, <1>22, <1>23
  DEF Next, Task, NodeThread

(* Types hold in every reachable state of the generated program. *)
THEOREM TypeCorrect == Spec => []TypeOK
<1>1. Init => TypeOK
  BY DEF Init, TypeOK, TaskPC, NodePC, LockState
<1> QED
  BY <1>1, TypeStep, PTL DEF Spec

(* The threads that exist match the task's loop, and its joins empty the set. *)
LEMMA PhaseStep ==
  ASSUME TypeOK, PhaseInv, ThreadsJoined, MeasuredJobComplete, [Next]_vars
  PROVE  PhaseInv' /\ ThreadsJoined'
<1> USE DEF TypeOK, TaskPC, NodePC, PhaseInv, ThreadsJoined, InJob, NodesOf
<1>1. ASSUME NEW dd \in Dag, ResetCounter(dd)
      PROVE  PhaseInv' /\ ThreadsJoined'
  BY <1>1, NodeType DEF ResetCounter
<1>2. ASSUME NEW dd \in Dag, CreateDependency(dd)
      PROVE  PhaseInv' /\ ThreadsJoined'
  BY <1>2, NodeType DEF CreateDependency, InitialLock, EdgesOf, NodesOf
<1>3. ASSUME NEW dd \in Dag, NEW nn \in Node, CreateThread(dd, nn)
      PROVE  PhaseInv' /\ ThreadsJoined'
  BY <1>3, NodeType DEF CreateThread, FirstNode
<1>4. ASSUME NEW dd \in Dag, Start(dd)
      PROVE  PhaseInv' /\ ThreadsJoined'
  BY <1>4, NodeType DEF Start, LoopDone, Unlocked
<1>5. ASSUME NEW dd \in Dag, SpawnWaitFinish(dd)
      PROVE  PhaseInv' /\ ThreadsJoined'
  BY <1>5, NodeType DEF SpawnWaitFinish
<1>6. ASSUME NEW dd \in Dag, JoinFinish(dd)
      PROVE  PhaseInv' /\ ThreadsJoined'
  BY <1>6, NodeType DEF JoinFinish
<1>7. ASSUME NEW dd \in Dag, ReleaseLockStart(dd)
      PROVE  PhaseInv' /\ ThreadsJoined'
  BY <1>7, NodeType DEF ReleaseLockStart, Unlocked, NodesOf
<1>8. ASSUME NEW dd \in Dag, NEW nn \in Node, JoinThread(dd, nn)
      PROVE  PhaseInv' /\ ThreadsJoined'
  BY <1>8, NodeType DEF JoinThread, FirstNode
<1>9. ASSUME NEW dd \in Dag, DestroyDependency(dd)
      PROVE  PhaseInv' /\ ThreadsJoined'
  BY <1>9, NodeType DEF DestroyDependency, LoopDone, EdgesOf
<1>10. ASSUME NEW dd \in Dag, WaitForPeriod(dd)
       PROVE  PhaseInv' /\ ThreadsJoined'
  BY <1>10, NodeType DEF WaitForPeriod
<1>11. ASSUME NEW dd \in Dag, WaitFinish(dd)
       PROVE  PhaseInv' /\ ThreadsJoined'
  BY <1>11, NodeType DEF WaitFinish, NodeCount
<1>12. ASSUME NEW nn \in Node, TryLockStart(nn)
       PROVE  PhaseInv' /\ ThreadsJoined'
  BY <1>12, NodeType DEF TryLockStart
<1>13. ASSUME NEW nn \in Node, NEW ee \in Edge, LockEdge(nn, ee)
       PROVE  PhaseInv' /\ ThreadsJoined'
  BY <1>13, NodeType DEF LockEdge, FirstEdge, Signalled, InEdges
<1>14. ASSUME NEW nn \in Node, BeginCompute(nn)
       PROVE  PhaseInv' /\ ThreadsJoined'
  BY <1>14, NodeType DEF BeginCompute, InEdgesLocked, InEdges
<1>15. ASSUME NEW nn \in Node, LockPrem(nn)
       PROVE  PhaseInv' /\ ThreadsJoined'
  BY <1>15, NodeType DEF LockPrem, ChunkLeft, PremFree
<1>16. ASSUME NEW nn \in Node, UnlockPrem(nn)
       PROVE  PhaseInv' /\ ThreadsJoined'
  BY <1>16, NodeType DEF UnlockPrem
<1>17. ASSUME NEW nn \in Node, NextChunk(nn)
       PROVE  PhaseInv' /\ ThreadsJoined'
  BY <1>17, NodeType DEF NextChunk
<1>18. ASSUME NEW nn \in Node, EndCompute(nn)
       PROVE  PhaseInv' /\ ThreadsJoined'
  BY <1>18, NodeType DEF EndCompute, ChunkLeft
<1>19. ASSUME NEW nn \in Node, NEW ee \in Edge, UnlockEdge(nn, ee)
       PROVE  PhaseInv' /\ ThreadsJoined'
  BY <1>19, NodeType DEF UnlockEdge, FirstEdge, Unlocked, OutEdges
<1>20. ASSUME NEW nn \in Node, LoadCounter(nn)
       PROVE  PhaseInv' /\ ThreadsJoined'
  BY <1>20, NodeType DEF LoadCounter, OutEdges
<1>21. ASSUME NEW nn \in Node, StoreCounter(nn)
       PROVE  PhaseInv' /\ ThreadsJoined'
  BY <1>21, NodeType DEF StoreCounter
<1>22. ASSUME NEW nn \in Node, ExitThread(nn)
       PROVE  PhaseInv' /\ ThreadsJoined'
  BY <1>22, NodeType DEF ExitThread
<1>23. CASE UNCHANGED vars
  BY <1>23
<1> HIDE DEF TypeOK, TaskPC, NodePC, PhaseInv, ThreadsJoined, InJob, NodesOf
<1> QED
  BY <1>1, <1>2, <1>3, <1>4, <1>5, <1>6, <1>7, <1>8, <1>9, <1>10, <1>11, <1>12, <1>13, <1>14, <1>15, <1>16, <1>17, <1>18, <1>19, <1>20, <1>21, <1>22, <1>23
  DEF Next, Task, NodeThread

(* A thread is created only where none is left. *)
LEMMA NewThread ==
  ASSUME PhaseInv, NEW d \in Dag, NEW n \in Node, CreateThread(d, n)
  PROVE  npc[n] = "gone" /\ n \in NodesOf(d) /\ DagOf[n] = d
BY DEF PhaseInv, CreateThread, FirstNode, NodesOf

(* Outside its two loops over edges a thread has no cursor. *)
LEMMA CursorStep == ASSUME TypeOK, PhaseInv, CursorInv, [Next]_vars PROVE CursorInv'
<1> USE DEF TypeOK, CursorInv
<1>1. ASSUME NEW dd \in Dag, ResetCounter(dd)
      PROVE  CursorInv'
  BY <1>1 DEF ResetCounter
<1>2. ASSUME NEW dd \in Dag, CreateDependency(dd)
      PROVE  CursorInv'
  BY <1>2 DEF CreateDependency, InitialLock, EdgesOf, NodesOf
<1>3. ASSUME NEW dd \in Dag, NEW nn \in Node, CreateThread(dd, nn)
      PROVE  CursorInv'
  <2>1. npc[nn] = "gone" /\ nn \in NodesOf(dd) /\ DagOf[nn] = dd
    BY <1>3, NewThread
  <2> QED
    BY <1>3, <2>1 DEF CreateThread
<1>4. ASSUME NEW dd \in Dag, Start(dd)
      PROVE  CursorInv'
  BY <1>4 DEF Start, LoopDone, Unlocked
<1>5. ASSUME NEW dd \in Dag, SpawnWaitFinish(dd)
      PROVE  CursorInv'
  BY <1>5 DEF SpawnWaitFinish
<1>6. ASSUME NEW dd \in Dag, JoinFinish(dd)
      PROVE  CursorInv'
  BY <1>6 DEF JoinFinish
<1>7. ASSUME NEW dd \in Dag, ReleaseLockStart(dd)
      PROVE  CursorInv'
  BY <1>7 DEF ReleaseLockStart, Unlocked, NodesOf
<1>8. ASSUME NEW dd \in Dag, NEW nn \in Node, JoinThread(dd, nn)
      PROVE  CursorInv'
  BY <1>8 DEF JoinThread, FirstNode
<1>9. ASSUME NEW dd \in Dag, DestroyDependency(dd)
      PROVE  CursorInv'
  BY <1>9 DEF DestroyDependency, LoopDone, EdgesOf
<1>10. ASSUME NEW dd \in Dag, WaitForPeriod(dd)
       PROVE  CursorInv'
  BY <1>10 DEF WaitForPeriod
<1>11. ASSUME NEW dd \in Dag, WaitFinish(dd)
       PROVE  CursorInv'
  BY <1>11 DEF WaitFinish, NodeCount
<1>12. ASSUME NEW nn \in Node, TryLockStart(nn)
       PROVE  CursorInv'
  BY <1>12 DEF TryLockStart
<1>13. ASSUME NEW nn \in Node, NEW ee \in Edge, LockEdge(nn, ee)
       PROVE  CursorInv'
  BY <1>13 DEF LockEdge, FirstEdge, Signalled, InEdges
<1>14. ASSUME NEW nn \in Node, BeginCompute(nn)
       PROVE  CursorInv'
  BY <1>14 DEF BeginCompute, InEdgesLocked, InEdges
<1>15. ASSUME NEW nn \in Node, LockPrem(nn)
       PROVE  CursorInv'
  BY <1>15 DEF LockPrem, ChunkLeft, PremFree
<1>16. ASSUME NEW nn \in Node, UnlockPrem(nn)
       PROVE  CursorInv'
  BY <1>16 DEF UnlockPrem
<1>17. ASSUME NEW nn \in Node, NextChunk(nn)
       PROVE  CursorInv'
  BY <1>17 DEF NextChunk
<1>18. ASSUME NEW nn \in Node, EndCompute(nn)
       PROVE  CursorInv'
  BY <1>18 DEF EndCompute, ChunkLeft
<1>19. ASSUME NEW nn \in Node, NEW ee \in Edge, UnlockEdge(nn, ee)
       PROVE  CursorInv'
  BY <1>19 DEF UnlockEdge, FirstEdge, Unlocked, OutEdges
<1>20. ASSUME NEW nn \in Node, LoadCounter(nn)
       PROVE  CursorInv'
  BY <1>20 DEF LoadCounter, OutEdges
<1>21. ASSUME NEW nn \in Node, StoreCounter(nn)
       PROVE  CursorInv'
  BY <1>21 DEF StoreCounter
<1>22. ASSUME NEW nn \in Node, ExitThread(nn)
       PROVE  CursorInv'
  BY <1>22 DEF ExitThread
<1>23. CASE UNCHANGED vars
  BY <1>23
<1> HIDE DEF TypeOK, CursorInv
<1> QED
  BY <1>1, <1>2, <1>3, <1>4, <1>5, <1>6, <1>7, <1>8, <1>9, <1>10, <1>11, <1>12, <1>13, <1>14, <1>15, <1>16, <1>17, <1>18, <1>19, <1>20, <1>21, <1>22, <1>23
  DEF Next, Task, NodeThread

(* premMutex has an owner exactly while a thread is in its memory phase. *)
LEMMA PremStep == ASSUME TypeOK, PhaseInv, PremInv, [Next]_vars PROVE PremInv'
<1> USE DEF TypeOK, PremInv
<1>1. ASSUME NEW dd \in Dag, ResetCounter(dd)
      PROVE  PremInv'
  BY <1>1, NodeType DEF ResetCounter
<1>2. ASSUME NEW dd \in Dag, CreateDependency(dd)
      PROVE  PremInv'
  BY <1>2, NodeType DEF CreateDependency, InitialLock, EdgesOf, NodesOf
<1>3. ASSUME NEW dd \in Dag, NEW nn \in Node, CreateThread(dd, nn)
      PROVE  PremInv'
  <2>1. npc[nn] = "gone" /\ nn \in NodesOf(dd) /\ DagOf[nn] = dd
    BY <1>3, NewThread
  <2> QED
    BY <1>3, <2>1 DEF CreateThread
<1>4. ASSUME NEW dd \in Dag, Start(dd)
      PROVE  PremInv'
  BY <1>4, NodeType DEF Start, LoopDone, Unlocked
<1>5. ASSUME NEW dd \in Dag, SpawnWaitFinish(dd)
      PROVE  PremInv'
  BY <1>5, NodeType DEF SpawnWaitFinish
<1>6. ASSUME NEW dd \in Dag, JoinFinish(dd)
      PROVE  PremInv'
  BY <1>6, NodeType DEF JoinFinish
<1>7. ASSUME NEW dd \in Dag, ReleaseLockStart(dd)
      PROVE  PremInv'
  BY <1>7, NodeType DEF ReleaseLockStart, Unlocked, NodesOf
<1>8. ASSUME NEW dd \in Dag, NEW nn \in Node, JoinThread(dd, nn)
      PROVE  PremInv'
  BY <1>8, NodeType DEF JoinThread, FirstNode
<1>9. ASSUME NEW dd \in Dag, DestroyDependency(dd)
      PROVE  PremInv'
  BY <1>9, NodeType DEF DestroyDependency, LoopDone, EdgesOf
<1>10. ASSUME NEW dd \in Dag, WaitForPeriod(dd)
       PROVE  PremInv'
  BY <1>10, NodeType DEF WaitForPeriod
<1>11. ASSUME NEW dd \in Dag, WaitFinish(dd)
       PROVE  PremInv'
  BY <1>11, NodeType DEF WaitFinish, NodeCount
<1>12. ASSUME NEW nn \in Node, TryLockStart(nn)
       PROVE  PremInv'
  BY <1>12, NodeType DEF TryLockStart
<1>13. ASSUME NEW nn \in Node, NEW ee \in Edge, LockEdge(nn, ee)
       PROVE  PremInv'
  BY <1>13, NodeType DEF LockEdge, FirstEdge, Signalled, InEdges
<1>14. ASSUME NEW nn \in Node, BeginCompute(nn)
       PROVE  PremInv'
  BY <1>14, NodeType DEF BeginCompute, InEdgesLocked, InEdges
<1>15. ASSUME NEW nn \in Node, LockPrem(nn)
       PROVE  PremInv'
  BY <1>15, NodeType DEF LockPrem, ChunkLeft, PremFree
<1>16. ASSUME NEW nn \in Node, UnlockPrem(nn)
       PROVE  PremInv'
  BY <1>16, NodeType DEF UnlockPrem
<1>17. ASSUME NEW nn \in Node, NextChunk(nn)
       PROVE  PremInv'
  BY <1>17, NodeType DEF NextChunk
<1>18. ASSUME NEW nn \in Node, EndCompute(nn)
       PROVE  PremInv'
  BY <1>18, NodeType DEF EndCompute, ChunkLeft
<1>19. ASSUME NEW nn \in Node, NEW ee \in Edge, UnlockEdge(nn, ee)
       PROVE  PremInv'
  BY <1>19, NodeType DEF UnlockEdge, FirstEdge, Unlocked, OutEdges
<1>20. ASSUME NEW nn \in Node, LoadCounter(nn)
       PROVE  PremInv'
  BY <1>20, NodeType DEF LoadCounter, OutEdges
<1>21. ASSUME NEW nn \in Node, StoreCounter(nn)
       PROVE  PremInv'
  BY <1>21, NodeType DEF StoreCounter
<1>22. ASSUME NEW nn \in Node, ExitThread(nn)
       PROVE  PremInv'
  BY <1>22, NodeType DEF ExitThread
<1>23. CASE UNCHANGED vars
  BY <1>23
<1> HIDE DEF TypeOK, PremInv
<1> QED
  BY <1>1, <1>2, <1>3, <1>4, <1>5, <1>6, <1>7, <1>8, <1>9, <1>10, <1>11, <1>12, <1>13, <1>14, <1>15, <1>16, <1>17, <1>18, <1>19, <1>20, <1>21, <1>22, <1>23
  DEF Next, Task, NodeThread

(* A late trylock cannot take lock_start after its second release. *)
LEMMA GateStep ==
  ASSUME TypeOK, MeasuredJobComplete, GateInv, [Next]_vars
  PROVE  GateInv'
<1> USE DEF TypeOK, GateInv, MeasuredJobComplete, NodesOf
<1>1. ASSUME NEW dd \in Dag, ResetCounter(dd)
      PROVE  GateInv'
  BY <1>1, NodeType DEF ResetCounter
<1>2. ASSUME NEW dd \in Dag, CreateDependency(dd)
      PROVE  GateInv'
  BY <1>2, NodeType DEF CreateDependency, InitialLock, EdgesOf, NodesOf
<1>3. ASSUME NEW dd \in Dag, NEW nn \in Node, CreateThread(dd, nn)
      PROVE  GateInv'
  BY <1>3, NodeType DEF CreateThread, FirstNode
<1>4. ASSUME NEW dd \in Dag, Start(dd)
      PROVE  GateInv'
  BY <1>4, NodeType DEF Start, LoopDone, Unlocked
<1>5. ASSUME NEW dd \in Dag, SpawnWaitFinish(dd)
      PROVE  GateInv'
  BY <1>5, NodeType DEF SpawnWaitFinish
<1>6. ASSUME NEW dd \in Dag, JoinFinish(dd)
      PROVE  GateInv'
  BY <1>6, NodeType DEF JoinFinish
<1>7. ASSUME NEW dd \in Dag, ReleaseLockStart(dd)
      PROVE  GateInv'
  BY <1>7, NodeType DEF ReleaseLockStart, Unlocked, NodesOf
<1>8. ASSUME NEW dd \in Dag, NEW nn \in Node, JoinThread(dd, nn)
      PROVE  GateInv'
  BY <1>8, NodeType DEF JoinThread, FirstNode
<1>9. ASSUME NEW dd \in Dag, DestroyDependency(dd)
      PROVE  GateInv'
  BY <1>9, NodeType DEF DestroyDependency, LoopDone, EdgesOf
<1>10. ASSUME NEW dd \in Dag, WaitForPeriod(dd)
       PROVE  GateInv'
  BY <1>10, NodeType DEF WaitForPeriod
<1>11. ASSUME NEW dd \in Dag, WaitFinish(dd)
       PROVE  GateInv'
  BY <1>11, NodeType DEF WaitFinish, NodeCount
<1>12. ASSUME NEW nn \in Node, TryLockStart(nn)
       PROVE  GateInv'
  BY <1>12, NodeType DEF TryLockStart
<1>13. ASSUME NEW nn \in Node, NEW ee \in Edge, LockEdge(nn, ee)
       PROVE  GateInv'
  BY <1>13, NodeType DEF LockEdge, FirstEdge, Signalled, InEdges
<1>14. ASSUME NEW nn \in Node, BeginCompute(nn)
       PROVE  GateInv'
  BY <1>14, NodeType DEF BeginCompute, InEdgesLocked, InEdges
<1>15. ASSUME NEW nn \in Node, LockPrem(nn)
       PROVE  GateInv'
  BY <1>15, NodeType DEF LockPrem, ChunkLeft, PremFree
<1>16. ASSUME NEW nn \in Node, UnlockPrem(nn)
       PROVE  GateInv'
  BY <1>16, NodeType DEF UnlockPrem
<1>17. ASSUME NEW nn \in Node, NextChunk(nn)
       PROVE  GateInv'
  BY <1>17, NodeType DEF NextChunk
<1>18. ASSUME NEW nn \in Node, EndCompute(nn)
       PROVE  GateInv'
  BY <1>18, NodeType DEF EndCompute, ChunkLeft
<1>19. ASSUME NEW nn \in Node, NEW ee \in Edge, UnlockEdge(nn, ee)
       PROVE  GateInv'
  BY <1>19, NodeType DEF UnlockEdge, FirstEdge, Unlocked, OutEdges
<1>20. ASSUME NEW nn \in Node, LoadCounter(nn)
       PROVE  GateInv'
  BY <1>20, NodeType DEF LoadCounter, OutEdges
<1>21. ASSUME NEW nn \in Node, StoreCounter(nn)
       PROVE  GateInv'
  BY <1>21, NodeType DEF StoreCounter
<1>22. ASSUME NEW nn \in Node, ExitThread(nn)
       PROVE  GateInv'
  BY <1>22, NodeType DEF ExitThread
<1>23. CASE UNCHANGED vars
  BY <1>23
<1> HIDE DEF TypeOK, GateInv, MeasuredJobComplete, NodesOf
<1> QED
  BY <1>1, <1>2, <1>3, <1>4, <1>5, <1>6, <1>7, <1>8, <1>9, <1>10, <1>11, <1>12, <1>13, <1>14, <1>15, <1>16, <1>17, <1>18, <1>19, <1>20, <1>21, <1>22, <1>23
  DEF Next, Task, NodeThread

(* An edge mutex is open exactly between the signal of its source and the     *)
(* lock by its target.                                                        *)
LEMMA SignalStep ==
  ASSUME TypeOK, PhaseInv, ThreadsJoined, CursorInv, MeasuredJobComplete, SignalInv, [Next]_vars
  PROVE  SignalInv'
<1> USE DEF TypeOK, SignalInv, Given, Taken, Past, Computing, Computed, InJob
<1>1. ASSUME NEW dd \in Dag, ResetCounter(dd)
      PROVE  SignalInv'
  BY <1>1, EdgeType, NodeType DEF ResetCounter, ThreadsJoined, NodesOf
<1>2. ASSUME NEW dd \in Dag, CreateDependency(dd)
      PROVE  SignalInv'
  BY <1>2, EdgeType, NodeType DEF CreateDependency, InitialLock, EdgesOf, NodesOf, ThreadsJoined
<1>3. ASSUME NEW dd \in Dag, NEW nn \in Node, CreateThread(dd, nn)
      PROVE  SignalInv'
  <2>1. npc[nn] = "gone" /\ nn \in NodesOf(dd) /\ DagOf[nn] = dd
    BY <1>3, NewThread
  <2> QED
    BY <1>3, <2>1, EdgeType DEF CreateThread
<1>4. ASSUME NEW dd \in Dag, Start(dd)
      PROVE  SignalInv'
  BY <1>4, EdgeType DEF Start, LoopDone, Unlocked
<1>5. ASSUME NEW dd \in Dag, SpawnWaitFinish(dd)
      PROVE  SignalInv'
  BY <1>5, EdgeType DEF SpawnWaitFinish
<1>6. ASSUME NEW dd \in Dag, JoinFinish(dd)
      PROVE  SignalInv'
  BY <1>6, EdgeType DEF JoinFinish
<1>7. ASSUME NEW dd \in Dag, ReleaseLockStart(dd)
      PROVE  SignalInv'
  BY <1>7, EdgeType, NodeType DEF ReleaseLockStart, PhaseInv, NodesOf
<1>8. ASSUME NEW dd \in Dag, NEW nn \in Node, JoinThread(dd, nn)
      PROVE  SignalInv'
  BY <1>8, EdgeType, NodeType DEF JoinThread, FirstNode, PhaseInv, NodesOf
<1>9. ASSUME NEW dd \in Dag, DestroyDependency(dd)
      PROVE  SignalInv'
  BY <1>9, EdgeType, NodeType DEF DestroyDependency, LoopDone, EdgesOf, PhaseInv, NodesOf
<1>10. ASSUME NEW dd \in Dag, WaitForPeriod(dd)
       PROVE  SignalInv'
  BY <1>10, EdgeType, NodeType DEF WaitForPeriod, ThreadsJoined, NodesOf
<1>11. ASSUME NEW dd \in Dag, WaitFinish(dd)
       PROVE  SignalInv'
  BY <1>11, EdgeType DEF WaitFinish, NodeCount
<1>12. ASSUME NEW nn \in Node, TryLockStart(nn)
       PROVE  SignalInv'
  <2>1. /\ npc[nn] = "try" /\ npc' = [npc EXCEPT ![nn] = "lock"]
        /\ passed[nn] = {} /\ UNCHANGED <<mpc, passed, edgeLock>>
    BY <1>12 DEF TryLockStart, CursorInv
  <2> QED
    BY <2>1, EdgeType
<1>13. ASSUME NEW nn \in Node, NEW ee \in Edge, LockEdge(nn, ee)
       PROVE  SignalInv'
  <2>1. /\ npc[nn] = "lock" /\ ee.trg = nn /\ ee \notin passed[nn]
        /\ edgeLock[ee] = "open" /\ edgeLock' = [edgeLock EXCEPT ![ee] = "locked"]
        /\ passed' = [passed EXCEPT ![nn] = @ \cup {ee}] /\ UNCHANGED <<mpc, npc>>
    BY <1>13 DEF LockEdge, FirstEdge, Signalled, InEdges
  <2>2. nn \in NodesOf(DagOf[nn]) /\ InJob(DagOf[nn]) /\ DagOf[nn] \in Dag
    BY <2>1, NodeType DEF ThreadsJoined, NodesOf
  <2>3. \A e \in Edge : Given(e)' <=> Given(e)
    BY <2>1, EdgeType
  <2>4. \A e \in Edge : Taken(e)' <=> Taken(e) \/ e = ee
    BY <2>1, EdgeType
  <2>5. Given(ee)
    BY <2>1, <2>2, EdgeType
  <2> QED
    BY <2>1, <2>3, <2>4, <2>5
<1>14. ASSUME NEW nn \in Node, BeginCompute(nn)
       PROVE  SignalInv'
  BY <1>14, EdgeType DEF BeginCompute, InEdgesLocked, InEdges
<1>15. ASSUME NEW nn \in Node, LockPrem(nn)
       PROVE  SignalInv'
  BY <1>15, EdgeType DEF LockPrem, ChunkLeft, PremFree
<1>16. ASSUME NEW nn \in Node, UnlockPrem(nn)
       PROVE  SignalInv'
  BY <1>16, EdgeType DEF UnlockPrem
<1>17. ASSUME NEW nn \in Node, NextChunk(nn)
       PROVE  SignalInv'
  BY <1>17, EdgeType DEF NextChunk
<1>18. ASSUME NEW nn \in Node, EndCompute(nn)
       PROVE  SignalInv'
  BY <1>18, EdgeType DEF EndCompute, ChunkLeft, CursorInv
<1>19. ASSUME NEW nn \in Node, NEW ee \in Edge, UnlockEdge(nn, ee)
       PROVE  SignalInv'
  BY <1>19, EdgeType DEF UnlockEdge, FirstEdge, Unlocked, OutEdges
<1>20. ASSUME NEW nn \in Node, LoadCounter(nn)
       PROVE  SignalInv'
  BY <1>20, EdgeType DEF LoadCounter, OutEdges
<1>21. ASSUME NEW nn \in Node, StoreCounter(nn)
       PROVE  SignalInv'
  BY <1>21, EdgeType DEF StoreCounter
<1>22. ASSUME NEW nn \in Node, ExitThread(nn)
       PROVE  SignalInv'
  BY <1>22, EdgeType DEF ExitThread
<1>23. CASE UNCHANGED vars
  BY <1>23
<1> HIDE DEF TypeOK, SignalInv, Given, Taken, Past, Computing, Computed, InJob
<1> QED
  BY <1>1, <1>2, <1>3, <1>4, <1>5, <1>6, <1>7, <1>8, <1>9, <1>10, <1>11, <1>12, <1>13, <1>14, <1>15, <1>16, <1>17, <1>18, <1>19, <1>20, <1>21, <1>22, <1>23
  DEF Next, Task, NodeThread

(* The counter never runs ahead of the nodes that counted themselves. *)
LEMMA CountStep ==
  ASSUME TypeOK, PhaseInv, ThreadsJoined, CountInv, [Next]_vars
  PROVE  CountInv'
<1> USE DEF TypeOK, CountInv
<1>1. ASSUME NEW dd \in Dag, ResetCounter(dd)
      PROVE  CountInv'
  <2>1. \A d \in Dag : Measured(d)' => Counted(d)' = Counted(d)
    BY <1>1 DEF ResetCounter, Counted, Measured, NodesOf
  <2> QED
    BY <1>1, <2>1, CountedFinite, NodeType DEF ResetCounter, Measured
<1>2. ASSUME NEW dd \in Dag, CreateDependency(dd)
      PROVE  CountInv'
  <2>1. \A d \in Dag : Counted(d)' = Counted(d)
    BY <1>2 DEF CreateDependency, Counted, NodesOf
  <2>2. \A n \in NodesOf(dd) : npc'[n] = "gone"
    BY <1>2 DEF CreateDependency, ThreadsJoined, InJob
  <2>3. \A d \in Dag \ {dd} : Measured(d)' = Measured(d)
    BY <1>2 DEF CreateDependency, Measured
  <2>4. varCondition'[dd] = 0 /\ mpc'[dd] = "spawn"
    BY <1>2 DEF CreateDependency
  <2>5. UNCHANGED <<npc, reg>> /\ varCondition' = varCondition
    BY <1>2 DEF CreateDependency
  <2>6. \A d \in Dag \ {dd} : mpc'[d] = mpc[d]
    BY <1>2 DEF CreateDependency
  <2>7. \A d \in Dag : mpc'[d] = "create" => varCondition'[d] = 0
    BY <2>4, <2>5, <2>6
  <2>8. \A d \in Dag : Measured(d)' =>
          /\ varCondition'[d] <= Cardinality(Counted(d)')
          /\ \A n \in NodesOf(d) : npc'[n] = "store" => reg'[n] <= Cardinality(Counted(d)')
    BY <2>1, <2>2, <2>3, <2>4, <2>5, CountedFinite
  <2> QED
    BY <2>7, <2>8 DEF NodesOf
<1>3. ASSUME NEW dd \in Dag, NEW nn \in Node, CreateThread(dd, nn)
      PROVE  CountInv'
  <2>1. npc[nn] = "gone" /\ nn \in NodesOf(dd) /\ DagOf[nn] = dd
    BY <1>3, NewThread
  <2>2. \A d \in Dag : Measured(d)' => Counted(d)' = Counted(d)
    BY <1>3, <2>1 DEF CreateThread, Counted, Measured, NodesOf
  <2> QED
    BY <1>3, <2>1, <2>2, CountedFinite, NodeType DEF CreateThread, Measured, NodesOf
<1>4. ASSUME NEW dd \in Dag, Start(dd)
      PROVE  CountInv'
  <2>1. \A d \in Dag : Measured(d)' => Counted(d)' = Counted(d)
    BY <1>4 DEF Start, LoopDone, Unlocked, Counted, Measured, NodesOf
  <2> QED
    BY <1>4, <2>1, CountedFinite, NodeType DEF Start, LoopDone, Unlocked, Measured
<1>5. ASSUME NEW dd \in Dag, SpawnWaitFinish(dd)
      PROVE  CountInv'
  <2>1. \A d \in Dag : Measured(d)' => Counted(d)' = Counted(d)
    BY <1>5 DEF SpawnWaitFinish, Counted, Measured, NodesOf
  <2> QED
    BY <1>5, <2>1, CountedFinite, NodeType DEF SpawnWaitFinish, Measured
<1>6. ASSUME NEW dd \in Dag, JoinFinish(dd)
      PROVE  CountInv'
  <2>1. \A d \in Dag : Measured(d)' => Counted(d)' = Counted(d)
    BY <1>6 DEF JoinFinish, Counted, Measured, NodesOf
  <2> QED
    BY <1>6, <2>1, CountedFinite, NodeType DEF JoinFinish, Measured
<1>7. ASSUME NEW dd \in Dag, ReleaseLockStart(dd)
      PROVE  CountInv'
  <2>1. \A d \in Dag : Measured(d)' => Counted(d)' = Counted(d)
    BY <1>7 DEF ReleaseLockStart, Unlocked, Counted, Measured, NodesOf
  <2> QED
    BY <1>7, <2>1, CountedFinite, NodeType DEF ReleaseLockStart, Unlocked, Measured
<1>8. ASSUME NEW dd \in Dag, NEW nn \in Node, JoinThread(dd, nn)
      PROVE  CountInv'
  <2>1. \A d \in Dag : Measured(d)' => Counted(d)' = Counted(d)
    BY <1>8 DEF JoinThread, FirstNode, Counted, Measured, NodesOf, PhaseInv
  <2> QED
    BY <1>8, <2>1, CountedFinite DEF JoinThread, FirstNode, Measured
<1>9. ASSUME NEW dd \in Dag, DestroyDependency(dd)
      PROVE  CountInv'
  <2>1. \A d \in Dag : Measured(d)' => Counted(d)' = Counted(d)
    BY <1>9 DEF DestroyDependency, LoopDone, EdgesOf, Counted, Measured, NodesOf
  <2> QED
    BY <1>9, <2>1, CountedFinite, NodeType DEF DestroyDependency, LoopDone, EdgesOf, Measured
<1>10. ASSUME NEW dd \in Dag, WaitForPeriod(dd)
       PROVE  CountInv'
  <2>1. \A d \in Dag : Measured(d)' => Counted(d)' = Counted(d)
    BY <1>10 DEF WaitForPeriod, Counted, Measured, NodesOf
  <2> QED
    BY <1>10, <2>1, CountedFinite, NodeType DEF WaitForPeriod, Measured
<1>11. ASSUME NEW dd \in Dag, WaitFinish(dd)
       PROVE  CountInv'
  <2>1. \A d \in Dag : Measured(d)' => Counted(d)' = Counted(d)
    BY <1>11 DEF WaitFinish, NodeCount, Counted, Measured, NodesOf
  <2> QED
    BY <1>11, <2>1, CountedFinite, NodeType DEF WaitFinish, NodeCount, Measured
<1>12. ASSUME NEW nn \in Node, TryLockStart(nn)
       PROVE  CountInv'
  <2>1. \A d \in Dag : Measured(d)' => Counted(d)' = Counted(d)
    BY <1>12 DEF TryLockStart, Counted, Measured, NodesOf
  <2> QED
    BY <1>12, <2>1, CountedFinite, NodeType DEF TryLockStart, Measured
<1>13. ASSUME NEW nn \in Node, NEW ee \in Edge, LockEdge(nn, ee)
       PROVE  CountInv'
  <2>1. \A d \in Dag : Measured(d)' => Counted(d)' = Counted(d)
    BY <1>13 DEF LockEdge, FirstEdge, Signalled, InEdges, Counted, Measured, NodesOf
  <2> QED
    BY <1>13, <2>1, CountedFinite, NodeType DEF LockEdge, FirstEdge, Signalled, InEdges, Measured
<1>14. ASSUME NEW nn \in Node, BeginCompute(nn)
       PROVE  CountInv'
  <2>1. /\ npc[nn] = "lock" /\ npc'[nn] # "store" /\ npc'[nn] \notin {"exit", "exited"}
        /\ \A n \in Node \ {nn} : npc'[n] = npc[n]
        /\ UNCHANGED <<mpc, reg, varCondition>>
    BY <1>14 DEF BeginCompute
  <2>2. \A d \in Dag : Counted(d)' = Counted(d)
    BY <2>1 DEF Counted, NodesOf
  <2> QED
    BY <2>1, <2>2, CountedFinite DEF Measured, NodesOf
<1>15. ASSUME NEW nn \in Node, LockPrem(nn)
       PROVE  CountInv'
  <2>1. \A d \in Dag : Measured(d)' => Counted(d)' = Counted(d)
    BY <1>15 DEF LockPrem, ChunkLeft, PremFree, Counted, Measured, NodesOf
  <2> QED
    BY <1>15, <2>1, CountedFinite, NodeType DEF LockPrem, ChunkLeft, PremFree, Measured
<1>16. ASSUME NEW nn \in Node, UnlockPrem(nn)
       PROVE  CountInv'
  <2>1. \A d \in Dag : Measured(d)' => Counted(d)' = Counted(d)
    BY <1>16 DEF UnlockPrem, Counted, Measured, NodesOf
  <2> QED
    BY <1>16, <2>1, CountedFinite, NodeType DEF UnlockPrem, Measured
<1>17. ASSUME NEW nn \in Node, NextChunk(nn)
       PROVE  CountInv'
  <2>1. \A d \in Dag : Measured(d)' => Counted(d)' = Counted(d)
    BY <1>17 DEF NextChunk, Counted, Measured, NodesOf
  <2> QED
    BY <1>17, <2>1, CountedFinite, NodeType DEF NextChunk, Measured
<1>18. ASSUME NEW nn \in Node, EndCompute(nn)
       PROVE  CountInv'
  <2>1. \A d \in Dag : Measured(d)' => Counted(d)' = Counted(d)
    BY <1>18 DEF EndCompute, ChunkLeft, Counted, Measured, NodesOf
  <2> QED
    BY <1>18, <2>1, CountedFinite, NodeType DEF EndCompute, ChunkLeft, Measured
<1>19. ASSUME NEW nn \in Node, NEW ee \in Edge, UnlockEdge(nn, ee)
       PROVE  CountInv'
  <2>1. \A d \in Dag : Measured(d)' => Counted(d)' = Counted(d)
    BY <1>19 DEF UnlockEdge, FirstEdge, Unlocked, OutEdges, Counted, Measured, NodesOf
  <2> QED
    BY <1>19, <2>1, CountedFinite, NodeType DEF UnlockEdge, FirstEdge, Unlocked, OutEdges, Measured
<1>20. ASSUME NEW nn \in Node, LoadCounter(nn)
       PROVE  CountInv'
  <2>1. \A d \in Dag : Measured(d)' => Counted(d)' = Counted(d)
    BY <1>20 DEF LoadCounter, OutEdges, Counted, Measured, NodesOf
  <2> QED
    BY <1>20, <2>1, CountedFinite, NodeType DEF LoadCounter, OutEdges, Measured, NodesOf
<1>21. ASSUME NEW nn \in Node, StoreCounter(nn)
       PROVE  CountInv'
  <2>1. /\ mpc' = mpc /\ varCondition' = [varCondition EXCEPT ![DagOf[nn]] = reg[nn] + 1]
        /\ npc[nn] = "store" /\ npc' = [npc EXCEPT ![nn] = "exit"]
        /\ reg' = [reg EXCEPT ![nn] = 0]
    BY <1>21 DEF StoreCounter
  <2>2. \A d \in Dag : Counted(d)' = IF d = DagOf[nn] THEN Counted(d) \cup {nn} ELSE Counted(d)
    BY <2>1, NodeType DEF NodesOf, Counted
  <2>3. \A d \in Dag : Cardinality(Counted(d) \cup {nn}) = Cardinality(Counted(d)) + 1
    BY <2>1, CountedFinite, FS_AddElement DEF Counted
  <2>4. \A d \in Dag : Cardinality(Counted(d)') =
                         IF d = DagOf[nn] THEN Cardinality(Counted(d)) + 1 ELSE Cardinality(Counted(d))
    BY <2>2, <2>3
  <2>5. ASSUME NEW d \in Dag, Measured(d)
        PROVE  /\ varCondition'[d] <= Cardinality(Counted(d)')
               /\ \A n \in NodesOf(d) : npc'[n] = "store" => reg'[n] <= Cardinality(Counted(d)')
    <3>1. /\ varCondition[d] <= Cardinality(Counted(d))
          /\ \A n \in NodesOf(d) : npc[n] = "store" => reg[n] <= Cardinality(Counted(d))
          /\ Cardinality(Counted(d)) \in Nat
      BY <2>5, CountedFinite
    <3>2. CASE d = DagOf[nn]
      <4>1. Cardinality(Counted(d)') = Cardinality(Counted(d)) + 1 /\ nn \in NodesOf(d)
        BY <2>4, <3>2 DEF NodesOf
      <4>2. reg[nn] <= Cardinality(Counted(d)) /\ varCondition'[d] = reg[nn] + 1
        BY <2>1, <3>1, <3>2, <4>1
      <4> QED
        BY <2>1, <3>1, <4>1, <4>2 DEF NodesOf
    <3>3. CASE d # DagOf[nn]
      <4>1. Cardinality(Counted(d)') = Cardinality(Counted(d)) /\ nn \notin NodesOf(d)
        BY <2>4, <3>3 DEF NodesOf
      <4> QED
        BY <2>1, <3>1, <3>3, <4>1 DEF NodesOf
    <3> QED
      BY <3>2, <3>3
  <2>6. mpc[DagOf[nn]] # "create"
    BY <2>1, NodeType DEF ThreadsJoined, InJob, NodesOf
  <2> QED
    BY <2>1, <2>5, <2>6 DEF Measured, NodesOf
<1>22. ASSUME NEW nn \in Node, ExitThread(nn)
       PROVE  CountInv'
  <2>1. \A d \in Dag : Measured(d)' => Counted(d)' = Counted(d)
    BY <1>22 DEF ExitThread, Counted, Measured, NodesOf
  <2> QED
    BY <1>22, <2>1, CountedFinite, NodeType DEF ExitThread, Measured
<1>23. CASE UNCHANGED vars
  BY <1>23 DEF Measured, Counted, NodesOf
<1> HIDE DEF TypeOK, CountInv
<1> QED
  BY <1>1, <1>2, <1>3, <1>4, <1>5, <1>6, <1>7, <1>8, <1>9, <1>10, <1>11, <1>12, <1>13, <1>14, <1>15, <1>16, <1>17, <1>18, <1>19, <1>20, <1>21, <1>22, <1>23
  DEF Next, Task, NodeThread

(* wait_finish returns only when every node has counted itself. *)
LEMMA MeasuredStep ==
  ASSUME TypeOK, PhaseInv, CountInv, MeasuredJobComplete, [Next]_vars
  PROVE  MeasuredJobComplete'
<1> USE DEF TypeOK, MeasuredJobComplete
<1>1. ASSUME NEW dd \in Dag, ResetCounter(dd)
      PROVE  MeasuredJobComplete'
  BY <1>1 DEF ResetCounter, NodesOf, PhaseInv
<1>2. ASSUME NEW dd \in Dag, CreateDependency(dd)
      PROVE  MeasuredJobComplete'
  BY <1>2 DEF CreateDependency, InitialLock, EdgesOf, NodesOf, PhaseInv
<1>3. ASSUME NEW dd \in Dag, NEW nn \in Node, CreateThread(dd, nn)
      PROVE  MeasuredJobComplete'
  <2>1. npc[nn] = "gone" /\ nn \in NodesOf(dd) /\ DagOf[nn] = dd
    BY <1>3, NewThread
  <2> QED
    BY <1>3, <2>1 DEF CreateThread, PhaseInv, NodesOf
<1>4. ASSUME NEW dd \in Dag, Start(dd)
      PROVE  MeasuredJobComplete'
  BY <1>4 DEF Start, LoopDone, Unlocked, NodesOf, PhaseInv
<1>5. ASSUME NEW dd \in Dag, SpawnWaitFinish(dd)
      PROVE  MeasuredJobComplete'
  BY <1>5 DEF SpawnWaitFinish, NodesOf, PhaseInv
<1>6. ASSUME NEW dd \in Dag, JoinFinish(dd)
      PROVE  MeasuredJobComplete'
  BY <1>6 DEF JoinFinish, NodesOf, PhaseInv
<1>7. ASSUME NEW dd \in Dag, ReleaseLockStart(dd)
      PROVE  MeasuredJobComplete'
  BY <1>7 DEF ReleaseLockStart, Unlocked, NodesOf, PhaseInv
<1>8. ASSUME NEW dd \in Dag, NEW nn \in Node, JoinThread(dd, nn)
      PROVE  MeasuredJobComplete'
  BY <1>8 DEF JoinThread, FirstNode, NodesOf, PhaseInv
<1>9. ASSUME NEW dd \in Dag, DestroyDependency(dd)
      PROVE  MeasuredJobComplete'
  BY <1>9 DEF DestroyDependency, LoopDone, EdgesOf, NodesOf, PhaseInv
<1>10. ASSUME NEW dd \in Dag, WaitForPeriod(dd)
       PROVE  MeasuredJobComplete'
  BY <1>10 DEF WaitForPeriod, NodesOf, PhaseInv
<1>11. ASSUME NEW dd \in Dag, WaitFinish(dd)
       PROVE  MeasuredJobComplete'
  <2>1. mpc[dd] = "joinFinish" /\ Cardinality(NodesOf(dd)) <= Cardinality(Counted(dd))
    BY <1>11 DEF WaitFinish, NodeCount, PhaseInv, CountInv, Measured
  <2>2. /\ IsFiniteSet(NodesOf(dd)) /\ Counted(dd) \in SUBSET NodesOf(dd)
        /\ Cardinality(NodesOf(dd)) \in Nat /\ Cardinality(Counted(dd)) \in Nat
    BY CountedFinite
  <2>3. /\ Cardinality(Counted(dd)) <= Cardinality(NodesOf(dd))
        /\ Cardinality(NodesOf(dd)) = Cardinality(Counted(dd)) => NodesOf(dd) = Counted(dd)
    BY <2>2, FS_Subset
  <2>4. Counted(dd) = NodesOf(dd)
    BY <2>1, <2>2, <2>3
  <2> QED
    BY <1>11, <2>4 DEF WaitFinish, Counted, NodesOf
<1>12. ASSUME NEW nn \in Node, TryLockStart(nn)
       PROVE  MeasuredJobComplete'
  BY <1>12, NodeType DEF TryLockStart, NodesOf
<1>13. ASSUME NEW nn \in Node, NEW ee \in Edge, LockEdge(nn, ee)
       PROVE  MeasuredJobComplete'
  BY <1>13, NodeType DEF LockEdge, FirstEdge, Signalled, InEdges, NodesOf
<1>14. ASSUME NEW nn \in Node, BeginCompute(nn)
       PROVE  MeasuredJobComplete'
  BY <1>14, NodeType DEF BeginCompute, InEdgesLocked, InEdges, NodesOf
<1>15. ASSUME NEW nn \in Node, LockPrem(nn)
       PROVE  MeasuredJobComplete'
  BY <1>15, NodeType DEF LockPrem, ChunkLeft, PremFree, NodesOf
<1>16. ASSUME NEW nn \in Node, UnlockPrem(nn)
       PROVE  MeasuredJobComplete'
  BY <1>16, NodeType DEF UnlockPrem, NodesOf
<1>17. ASSUME NEW nn \in Node, NextChunk(nn)
       PROVE  MeasuredJobComplete'
  BY <1>17, NodeType DEF NextChunk, NodesOf
<1>18. ASSUME NEW nn \in Node, EndCompute(nn)
       PROVE  MeasuredJobComplete'
  BY <1>18, NodeType DEF EndCompute, ChunkLeft, NodesOf
<1>19. ASSUME NEW nn \in Node, NEW ee \in Edge, UnlockEdge(nn, ee)
       PROVE  MeasuredJobComplete'
  BY <1>19, NodeType DEF UnlockEdge, FirstEdge, Unlocked, OutEdges, NodesOf
<1>20. ASSUME NEW nn \in Node, LoadCounter(nn)
       PROVE  MeasuredJobComplete'
  BY <1>20, NodeType DEF LoadCounter, OutEdges, NodesOf
<1>21. ASSUME NEW nn \in Node, StoreCounter(nn)
       PROVE  MeasuredJobComplete'
  BY <1>21, NodeType DEF StoreCounter, NodesOf
<1>22. ASSUME NEW nn \in Node, ExitThread(nn)
       PROVE  MeasuredJobComplete'
  BY <1>22, NodeType DEF ExitThread, NodesOf
<1>23. CASE UNCHANGED vars
  BY <1>23 DEF NodesOf
<1> HIDE DEF TypeOK, MeasuredJobComplete
<1> QED
  BY <1>1, <1>2, <1>3, <1>4, <1>5, <1>6, <1>7, <1>8, <1>9, <1>10, <1>11, <1>12, <1>13, <1>14, <1>15, <1>16, <1>17, <1>18, <1>19, <1>20, <1>21, <1>22, <1>23
  DEF Next, Task, NodeThread

LEMMA IInvInit == Init => IInv
<1> SUFFICES ASSUME Init PROVE IInv
  OBVIOUS
<1>1. TypeOK
  BY DEF Init, TypeOK, TaskPC, NodePC, LockState
<1>2. PhaseInv /\ ThreadsJoined /\ CursorInv /\ PremInv /\ GateInv /\ MeasuredJobComplete
  BY NodeType DEF Init, PhaseInv, ThreadsJoined, CursorInv, PremInv, GateInv,
                  MeasuredJobComplete, InJob, NodesOf
<1>3. SignalInv
  BY EdgeType, NodeType DEF Init, SignalInv, Given, Taken, Past, InJob, Computing, Computed
<1>4. CountInv
  BY DEF Init, CountInv, Measured
<1> QED
  BY <1>1, <1>2, <1>3, <1>4 DEF IInv

LEMMA IInvStep == IInv /\ [Next]_vars => IInv'
BY TypeStep, PhaseStep, CursorStep, SignalStep, CountStep, MeasuredStep, PremStep, GateStep
DEF IInv

(* IInv is an inductive invariant of the generated program. *)
THEOREM Invariance == Spec => []IInv
BY IInvInit, IInvStep, PTL DEF Spec

-----------------------------------------------------------------------------
(* What the invariant implies. *)

(* A thread that exists has a job: its task is between creation and join. *)
LEMMA LiveNode ==
  ASSUME IInv, NEW n \in Node, npc[n] # "gone"
  PROVE  InJob(DagOf[n]) /\ DagOf[n] \in Dag
BY NodeType DEF IInv, ThreadsJoined, NodesOf

LEMMA IInvPrecedence == IInv => Precedence
BY DEF IInv, SignalInv, Given, Taken, Precedence, Computed

LEMMA IInvDestroyState == IInv => DestroyState
<1> SUFFICES ASSUME IInv, NEW d \in Dag, mpc[d] = "join", todo[d] = {}
             PROVE  lockStart[d] = "open" /\ \A e \in EdgesOf(d) : edgeLock[e] = "locked"
  BY DEF DestroyState
<1>1. lockStart[d] = "open"
  BY DEF IInv, GateInv
<1>2. ASSUME NEW e \in EdgesOf(d) PROVE edgeLock[e] = "locked"
  <2>1. e \in Edge /\ DagOf[e.src] = d /\ DagOf[e.trg] = d /\ e.trg \in Node
    BY EdgeType DEF EdgesOf
  <2>2. npc[e.trg] = "gone"
    BY <2>1 DEF IInv, PhaseInv, NodesOf
  <2>3. Taken(e) /\ InJob(DagOf[e.src])
    BY <2>1, <2>2 DEF Taken, Past, InJob
  <2> QED
    BY <2>1, <2>3 DEF IInv, SignalInv, TypeOK, LockState
<1> QED
  BY <1>1, <1>2

LEMMA IInvNoDoubleUnlock == IInv => NoDoubleUnlock
<1> SUFFICES ASSUME IInv, NEW n \in Node, npc[n] = "unlock", NEW e \in OutEdges(n) \ passed[n]
             PROVE  edgeLock[e] = "locked"
  BY DEF NoDoubleUnlock
<1>1. e \in Edge /\ e.src = n /\ ~Given(e)
  BY DEF OutEdges, Given, Past
<1>2. InJob(DagOf[e.src])
  BY <1>1, LiveNode
<1> QED
  BY <1>1, <1>2 DEF IInv, SignalInv, TypeOK, LockState

LEMMA IInvPremExclusion == IInv => PremExclusion
BY DEF IInv, PremInv, PremExclusion

(* A node computes only after all the nodes it depends on, in every job.      *)
THEOREM PrecedenceHolds == Spec => []Precedence
BY Invariance, IInvPrecedence, PTL

(* When the task stops its clock, every node has computed.                    *)
THEOREM MeasuredJobHolds == Spec => []MeasuredJobComplete
<1>1. IInv => MeasuredJobComplete
  BY DEF IInv
<1> QED
  BY <1>1, Invariance, PTL

(* No thread of a job is left when its mutexes are rebuilt.                   *)
THEOREM ThreadsJoinedHolds == Spec => []ThreadsJoined
<1>1. IInv => ThreadsJoined
  BY DEF IInv
<1> QED
  BY <1>1, Invariance, PTL

(* Mutexes are destroyed with every signal delivered and the gate open.       *)
THEOREM DestroyStateHolds == Spec => []DestroyState
BY Invariance, IInvDestroyState, PTL

(* No edge mutex is unlocked while it is open.                                *)
THEOREM NoDoubleUnlockHolds == Spec => []NoDoubleUnlock
BY Invariance, IInvNoDoubleUnlock, PTL

(* One memory phase at a time, over all the DAGs.                             *)
THEOREM PremExclusionHolds == Spec => []PremExclusion
BY Invariance, IInvPremExclusion, PTL

(* Both of them: every mutex is used as its type allows.                      *)
THEOREM MutexUseHolds == Spec => []MutexUse
<1>1. DestroyState /\ NoDoubleUnlock => MutexUse
  BY DEF MutexUse
<1> QED
  BY <1>1, DestroyStateHolds, NoDoubleUnlockHolds, PTL

-----------------------------------------------------------------------------
(* Waiting.  Edges of a DAG that has no cycle lead from lower to higher ranks. *)

(* Every set of naturals has a least member: the library's theorem about       *)
(* minimal members, for the order of the naturals.                             *)
LEMMA LeastNatural ==
  ASSUME NEW T \in SUBSET Nat, T # {}
  PROVE  \E m \in T : \A k \in T : m <= k
<1>1. PICK R : IsWellFoundedOn(R, Nat) /\ \A x, y \in Nat : y < x => <<y, x>> \in R
  <2>1. \A x, y \in Nat : y < x => <<y, x>> \in OpToRel(<, Nat)
    BY DEF OpToRel
  <2> QED
    BY <2>1, NatLessThanWellFounded
<1>2. PICK m \in T : \A y \in T : ~(<<y, m>> \in R)
  BY <1>1, WFMin
<1>3. \A k \in T : ~(k < m)
  BY <1>1, <1>2, Zenon
<1>4. \A k \in T : m <= k
  BY <1>3
<1> QED
  BY <1>4

(* A node that waits for an edge waits for the first one it has not locked, and *)
(* the source of that edge has not signalled.                                  *)
LEMMA WaitsForSource ==
  ASSUME IInv, NEW n \in Node, npc[n] = "lock", ~CanGoOn(n)
  PROVE  \E e \in InEdges(n) : ~Given(e)
<1>1. InEdges(n) \ passed[n] # {}
  BY DEF CanGoOn, InEdgesLocked
<1> DEFINE Positions == {e.pos : e \in InEdges(n) \ passed[n]}
<1>2. Positions \in SUBSET Nat /\ Positions # {}
  BY <1>1, DagAssumption DEF InEdges
<1> HIDE DEF Positions
<1>3. PICK p \in Positions : \A q \in Positions : p <= q
  BY <1>2, LeastNatural
<1> USE DEF Positions
<1>4. PICK e \in InEdges(n) \ passed[n] : \A f \in InEdges(n) \ passed[n] : e.pos <= f.pos
  BY <1>3
<1>5. e \in Edge /\ e.trg = n /\ edgeLock[e] # "open"
  BY <1>4 DEF CanGoOn, FirstEdge, Signalled, InEdges
<1>6. InJob(DagOf[e.src])
  BY <1>5, LiveNode, EdgeType
<1>7. ~Taken(e)
  BY <1>4, <1>5 DEF Taken, Past, Computing, Computed
<1>8. ~Given(e)
  BY <1>5, <1>6, <1>7 DEF IInv, SignalInv
<1> QED
  BY <1>4, <1>8

(* The node of least rank that has not exited waits for no edge: the nodes it  *)
(* depends on have signalled.  If it waits for premMutex, its owner copies.     *)
LEMMA IInvNoWaitCycle ==
  ASSUME NEW rank \in [Node -> Nat], \A e \in Edge : rank[e.src] < rank[e.trg], IInv
  PROVE  NoWaitCycle
<1> DEFINE left(d) == {n \in NodesOf(d) : npc[n] \notin {"gone", "exited"}}
<1> SUFFICES ASSUME NEW d \in Dag, mpc[d] \in {"finish", "joinFinish", "unlock", "join"},
                    left(d) # {}
             PROVE  \E n \in left(d) :
                      \/ CanGoOn(n)
                      \/ npc[n] = "mem" /\ \E m \in Node : premOwner = m /\ CanGoOn(m)
  BY DEF NoWaitCycle
<1>1. PICK n \in left(d) : \A m \in left(d) : rank[n] <= rank[m]
  <2> DEFINE Ranks == {rank[m] : m \in left(d)}
  <2>1. Ranks \in SUBSET Nat /\ Ranks # {}
    BY DEF NodesOf
  <2> HIDE DEF Ranks
  <2>2. PICK r \in Ranks : \A q \in Ranks : r <= q
    BY <2>1, LeastNatural
  <2> QED
    BY <2>2 DEF Ranks
<1>2. n \in Node /\ DagOf[n] = d
  BY DEF NodesOf
<1>3. CASE npc[n] = "lock"
  <2>1. ASSUME NEW e \in InEdges(n) PROVE Given(e)
    <3>1. e \in Edge /\ e.trg = n /\ e.src \in Node /\ DagOf[e.src] = d
      BY <1>2, EdgeType DEF InEdges
    <3>2. rank[e.src] < rank[n] /\ rank[e.src] \in Nat /\ rank[n] \in Nat
      BY <1>2, <3>1
    <3>3. e.src \notin left(d)
      BY <1>1, <3>2
    <3>4. npc[e.src] \in {"gone", "exited"} /\ e.src \in NodesOf(d)
      BY <3>1, <3>3 DEF NodesOf
    <3>5. npc[e.src] = "gone" => mpc[d] = "join"
      BY <3>4 DEF IInv, PhaseInv
    <3> QED
      BY <3>1, <3>4, <3>5 DEF Given, Past
  <2> QED
    BY <1>2, <1>3, <2>1, WaitsForSource
<1>4. CASE npc[n] = "mem" /\ ~CanGoOn(n)
  <2>1. premOwner \in Node /\ npc[premOwner] = "copy"
    BY <1>4 DEF CanGoOn, PremFree, IInv, TypeOK, PremInv
  <2>2. CanGoOn(premOwner)
    BY <2>1 DEF CanGoOn
  <2> QED
    BY <1>4, <2>1, <2>2
<1>5. CASE npc[n] \notin {"lock", "mem"}
  BY <1>5 DEF CanGoOn
<1> QED
  BY <1>3, <1>4, <1>5

(* In DAGs without cycles nodes never wait for each other in a circle.         *)
THEOREM NoWaitCycleHolds ==
  ASSUME NEW rank \in [Node -> Nat], \A e \in Edge : rank[e.src] < rank[e.trg]
  PROVE  Spec => []NoWaitCycle
<1>1. IInv => NoWaitCycle
  BY IInvNoWaitCycle
<1> QED
  BY <1>1, Invariance, PTL

-----------------------------------------------------------------------------
(* The refinement: every step is a step of the abstract job or a stutter. *)

LEMMA JobInit == Init => Job!Init
BY NodeType DEF Init, Job!Init, JobActive, JobStarted, JobDone, Measured

LEMMA JobStep == ASSUME IInv, IInv', [Next]_vars PROVE [Job!Next]_Job!vars
<1> DEFINE Stutter == UNCHANGED <<JobActive, JobStarted, JobDone>>
<1> USE DEF JobActive, JobStarted, JobDone, Measured, Computing, Computed
<1>1. ASSUME NEW dd \in Dag, ResetCounter(dd)
      PROVE  Stutter
  BY <1>1, NodeType DEF ResetCounter, IInv, TypeOK
<1>2. ASSUME NEW dd \in Dag, CreateDependency(dd)
      PROVE  Job!Next
  <2>1. \A n \in NodesOf(dd) : npc[n] = "gone"
    BY <1>2 DEF CreateDependency, IInv, ThreadsJoined, InJob
  <2>2. Job!Release(dd)
    BY <1>2, <2>1, NodeType DEF CreateDependency, IInv, TypeOK, NodesOf, Job!Release
  <2> QED
    BY <2>2 DEF Job!Next
<1>3. ASSUME NEW dd \in Dag, NEW nn \in Node, CreateThread(dd, nn)
      PROVE  Stutter
  <2>1. npc[nn] = "gone"
    BY <1>3, NewThread DEF IInv
  <2> QED
    BY <1>3, <2>1 DEF CreateThread, IInv, TypeOK
<1>4. ASSUME NEW dd \in Dag, Start(dd)
      PROVE  Stutter
  BY <1>4, NodeType DEF Start, LoopDone, Unlocked, IInv, TypeOK
<1>5. ASSUME NEW dd \in Dag, SpawnWaitFinish(dd)
      PROVE  Stutter
  BY <1>5, NodeType DEF SpawnWaitFinish, IInv, TypeOK
<1>6. ASSUME NEW dd \in Dag, JoinFinish(dd)
      PROVE  Job!Next
  <2>1. \A n \in NodesOf(dd) : npc[n] \in {"exit", "exited"}
    BY <1>6 DEF JoinFinish, IInv, MeasuredJobComplete, PhaseInv
  <2>2. Job!Complete(dd)
    BY <1>6, <2>1, NodeType DEF JoinFinish, IInv, TypeOK, NodesOf, Job!Complete, Job!NodesOf
  <2> QED
    BY <2>2 DEF Job!Next
<1>7. ASSUME NEW dd \in Dag, ReleaseLockStart(dd)
      PROVE  Stutter
  BY <1>7, NodeType DEF ReleaseLockStart, Unlocked, NodesOf, IInv, TypeOK
<1>8. ASSUME NEW dd \in Dag, NEW nn \in Node, JoinThread(dd, nn)
      PROVE  Stutter
  BY <1>8, NodeType DEF JoinThread, FirstNode, IInv, TypeOK, PhaseInv, NodesOf
<1>9. ASSUME NEW dd \in Dag, DestroyDependency(dd)
      PROVE  Stutter
  BY <1>9, NodeType DEF DestroyDependency, LoopDone, EdgesOf, IInv, TypeOK
<1>10. ASSUME NEW dd \in Dag, WaitForPeriod(dd)
       PROVE  Stutter
  BY <1>10, NodeType DEF WaitForPeriod, IInv, TypeOK
<1>11. ASSUME NEW dd \in Dag, WaitFinish(dd)
       PROVE  Stutter
  BY <1>11, NodeType DEF WaitFinish, NodeCount, IInv, TypeOK
<1>12. ASSUME NEW nn \in Node, TryLockStart(nn)
       PROVE  Stutter
  BY <1>12, NodeType DEF TryLockStart, IInv, TypeOK
<1>13. ASSUME NEW nn \in Node, NEW ee \in Edge, LockEdge(nn, ee)
       PROVE  Stutter
  BY <1>13, NodeType DEF LockEdge, FirstEdge, Signalled, InEdges, IInv, TypeOK
<1>14. ASSUME NEW nn \in Node, BeginCompute(nn)
       PROVE  Job!Next
  <2>1. /\ npc[nn] = "lock" /\ npc'[nn] \in {"mem", "exec"} /\ UNCHANGED mpc
        /\ \A n \in Node \ {nn} : npc'[n] = npc[n]
    BY <1>14 DEF BeginCompute, IInv, TypeOK
  <2>2. Measured(DagOf[nn]) /\ DagOf[nn] \in Dag
    BY <2>1, LiveNode DEF IInv, MeasuredJobComplete, NodesOf, InJob
  <2>3. ASSUME NEW m \in Node, <<m, nn>> \in {<<e.src, e.trg>> : e \in Edge}
        PROVE  npc[m] \in Computed /\ DagOf[m] = DagOf[nn]
    <3>1. PICK e \in Edge : e.src = m /\ e.trg = nn
      BY <2>3
    <3>2. Taken(e)
      BY <1>14, <3>1 DEF BeginCompute, InEdgesLocked, InEdges, Taken
    <3>3. Given(e)
      BY <3>2 DEF IInv, SignalInv
    <3> QED
      BY <3>1, <3>3, <2>2, EdgeType DEF Given, Past
  <2>4. Job!StartNode(nn)
    <3>1. DagOf[nn] \in JobActive /\ nn \notin JobStarted
      BY <2>1, <2>2
    <3>2. \A m \in Node : <<m, nn>> \in {<<e.src, e.trg>> : e \in Edge} => m \in JobDone
      BY <2>2, <2>3
    <3>3. JobStarted' = JobStarted \cup {nn}
      BY <2>1, <2>2
    <3>4. JobActive' = JobActive /\ JobDone' = JobDone
      BY <2>1
    <3> QED
      BY <3>1, <3>2, <3>3, <3>4 DEF Job!StartNode
  <2> QED
    BY <2>4 DEF Job!Next
<1>15. ASSUME NEW nn \in Node, LockPrem(nn)
       PROVE  Stutter
  BY <1>15, NodeType DEF LockPrem, ChunkLeft, PremFree, IInv, TypeOK
<1>16. ASSUME NEW nn \in Node, UnlockPrem(nn)
       PROVE  Stutter
  BY <1>16, NodeType DEF UnlockPrem, IInv, TypeOK
<1>17. ASSUME NEW nn \in Node, NextChunk(nn)
       PROVE  Stutter
  BY <1>17, NodeType DEF NextChunk, IInv, TypeOK
<1>18. ASSUME NEW nn \in Node, EndCompute(nn)
       PROVE  Job!Next
  <2>1. /\ npc[nn] \in {"mem", "exec"} /\ npc'[nn] = "unlock" /\ UNCHANGED mpc
        /\ \A n \in Node \ {nn} : npc'[n] = npc[n]
    BY <1>18 DEF EndCompute, ChunkLeft, IInv, TypeOK
  <2>2. Measured(DagOf[nn])
    BY <2>1, LiveNode DEF IInv, MeasuredJobComplete, NodesOf, InJob
  <2>3. nn \in JobStarted \ JobDone
    BY <2>1, <2>2
  <2>4. JobDone' = JobDone \cup {nn}
    BY <2>1, <2>2
  <2>5. JobActive' = JobActive /\ JobStarted' = JobStarted
    BY <2>1
  <2> QED
    BY <2>3, <2>4, <2>5 DEF Job!Next, Job!FinishNode
<1>19. ASSUME NEW nn \in Node, NEW ee \in Edge, UnlockEdge(nn, ee)
       PROVE  Stutter
  BY <1>19, NodeType DEF UnlockEdge, FirstEdge, Unlocked, OutEdges, IInv, TypeOK
<1>20. ASSUME NEW nn \in Node, LoadCounter(nn)
       PROVE  Stutter
  BY <1>20, NodeType DEF LoadCounter, OutEdges, IInv, TypeOK
<1>21. ASSUME NEW nn \in Node, StoreCounter(nn)
       PROVE  Stutter
  BY <1>21, NodeType DEF StoreCounter, IInv, TypeOK
<1>22. ASSUME NEW nn \in Node, ExitThread(nn)
       PROVE  Stutter
  BY <1>22, NodeType DEF ExitThread, IInv, TypeOK
<1>23. CASE UNCHANGED vars
  <2>1. Stutter
    BY <1>23
  <2> QED
    BY <2>1 DEF Job!vars
<1> HIDE DEF JobActive, JobStarted, JobDone, Measured, Computing, Computed
<1> QED
  BY <1>1, <1>2, <1>3, <1>4, <1>5, <1>6, <1>7, <1>8, <1>9, <1>10, <1>11, <1>12, <1>13, <1>14, <1>15, <1>16, <1>17, <1>18, <1>19, <1>20, <1>21, <1>22, <1>23
  DEF Next, Task, NodeThread, Job!vars

(* The generated program implements the periodic parallel task: each job runs *)
(* its nodes once each, in precedence order, and completes after all of them. *)
THEOREM Refinement == Spec => ImplementsJob
<1>1. IInv /\ IInv' /\ [Next]_vars => [Job!Next]_Job!vars
  BY JobStep
<1> QED
  BY <1>1, JobInit, Invariance, PTL DEF Spec, ImplementsJob, Job!Spec

=============================================================================
