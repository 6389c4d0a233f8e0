-------------------------- MODULE PtaskPoolProofs --------------------------
(***************************************************************************)
(* Every task has a descriptor of its own, for any size of the pool and    *)
(* any number of creating threads; and the free list is exact as long as   *)
(* one thread creates and no task returns.                                 *)
(*                                                                         *)
(* The first argument is BusyInv: a descriptor is BUSY exactly while       *)
(* somebody owns it.  A creator takes a descriptor only after it has seen, *)
(* in the mutex, that it is not BUSY, so a stale index never gives away an *)
(* owned one.  The second is ListInv: the links form one list, which a     *)
(* call that nobody interrupts changes at its head.                        *)
(***************************************************************************)
EXTENDS PtaskPoolMain, WellFoundedInduction, TLAPS

(* The three parts of a descriptor's state are told apart by their values.     *)
LEMMA BusyIsNoLink == Busy \notin Link /\ NoMore \notin Desc /\ Desc \subseteq Int
BY PoolAssumption DEF Busy, NoMore, Link, Desc

(* Init: nobody owns anything and the list is linked in order (ptask.c 169-175). *)
LEMMA InitInv == Init => IInv
<1> SUFFICES ASSUME Init PROVE IInv
  OBVIOUS
<1>1. TypeOK
  <2>1. 0 \in Desc /\ \A i \in Desc : InitialLink(i) \in Link
    BY PoolAssumption DEF Desc, Link, InitialLink, NoMore
  <2>2. free \in [Desc -> Link \cup {Busy}]
    BY <2>1 DEF Init
  <2>3. modesLeft \in [Creator -> Seq(Nat)] /\ modeTasks \in [Mode -> Seq(Desc)]
    BY DEF Init
  <2> QED BY <2>1, <2>2, <2>3 DEF Init, TypeOK, Link
<1>2. IndexInv
  BY DEF Init, IndexInv
<1>3. BusyInv
  <2> SUFFICES ASSUME NEW i \in Desc PROVE free[i] # Busy /\ threads[i] = 0
    BY DEF BusyInv, Owns, Init
  <2>1. InitialLink(i) # Busy
    BY PoolAssumption DEF Desc, InitialLink, NoMore, Busy
  <2> QED BY <2>1 DEF Init
<1>4. ExclusiveOwner
  BY DEF Init, ExclusiveOwner, Owns
<1> QED BY <1>1, <1>2, <1>3, <1>4 DEF IInv

(* Every value stays in its range: in particular first_free never becomes the  *)
(* BUSY mark, as it would if a taken descriptor were unlinked (ptask.c 71-76). *)
LEMMA TypeStep == IInv /\ [Next]_vars => TypeOK'
<1> SUFFICES ASSUME IInv, [Next]_vars PROVE TypeOK'
  OBVIOUS
<1> USE DEF IInv, TypeOK
<1>1. ASSUME NEW c \in Creator, NEW list \in ModeLists, ReadHead(c, list) PROVE TypeOK'
  <2>1. list \in Seq(Nat)
    BY PoolAssumption
  <2> QED BY <1>1, <2>1 DEF ReadHead
<1>2. ASSUME NEW c \in Creator, TakeDescriptor(c) PROVE TypeOK'
  <2>1. x[c] \in Desc /\ free[x[c]] \in Link
    BY <1>2 DEF TakeDescriptor, Taken, IndexInv
  <2> QED BY <1>2, <2>1 DEF TakeDescriptor
<1>3. ASSUME NEW c \in Creator, FindTaken(c) PROVE TypeOK'
  BY <1>3 DEF FindTaken
<1>4. ASSUME NEW c \in Creator, ReturnRefused(c) PROVE TypeOK'
  BY <1>4 DEF ReturnRefused, Link
<1>5. ASSUME NEW c \in Creator, AddMode(c) PROVE TypeOK'
  <2>1. x[c] \in Desc
    BY <1>5 DEF AddMode, IndexInv
  <2>2. modesLeft[c] \in Seq(Nat) /\ modesLeft[c] # <<>>
    BY <1>5 DEF AddMode
  <2>3. Tail(modesLeft[c]) \in Seq(Nat)
    BY <2>2
  <2>4. \A m \in Mode : Append(modeTasks[m], x[c]) \in Seq(Desc)
    BY <2>1
  <2>5. modesLeft' \in [Creator -> Seq(Nat)]
    BY <1>5, <2>3 DEF AddMode
  <2>6. modeTasks' \in [Mode -> Seq(Desc)]
    BY <1>5, <2>4 DEF AddMode
  <2> QED BY <1>5, <2>5, <2>6 DEF AddMode
<1>6. ASSUME NEW c \in Creator, RefuseMode(c) PROVE TypeOK'
  <2>1. x[c] \in Desc
    BY <1>6 DEF RefuseMode, IndexInv
  <2> QED BY <1>6, <2>1 DEF RefuseMode, Release, LinkOnRelease, Link
<1>7. ASSUME NEW c \in Creator, CreateThread(c) PROVE TypeOK'
  <2>1. x[c] \in Desc
    BY <1>7 DEF CreateThread, IndexInv
  <2> QED BY <1>7, <2>1 DEF CreateThread, Link
<1>8. ASSUME NEW c \in Creator, ThreadFails(c) PROVE TypeOK'
  <2>1. x[c] \in Desc
    BY <1>8 DEF ThreadFails, IndexInv
  <2> QED BY <1>8, <2>1 DEF ThreadFails, Release, LinkOnRelease, Link
<1>9. ASSUME NEW i \in Desc, Exit(i) PROVE TypeOK'
  BY <1>9 DEF Exit, Release, LinkOnRelease, Link
<1>10. CASE UNCHANGED vars
  BY <1>10 DEF vars
<1> QED BY <1>1, <1>2, <1>3, <1>4, <1>5, <1>6, <1>7, <1>8, <1>9, <1>10 DEF Next, Create

(* A step that leaves ownership and the marks alone keeps what relates them.   *)
LEMMA SameOwners ==
  ASSUME IInv, UNCHANGED <<free, threads>>,
         \A c \in Creator, i \in Desc : Owns(c, i)' <=> Owns(c, i)
  PROVE  BusyInv' /\ ExclusiveOwner'
BY DEF IInv, BusyInv, ExclusiveOwner

(* A step that gives a free descriptor to a creator (ptask.c 70-76).           *)
LEMMA TakeStep ==
  ASSUME IInv, NEW c \in Creator, TakeDescriptor(c)
  PROVE  BusyInv' /\ ExclusiveOwner'
<1> DEFINE k == x[c]
<1>1. k \in Desc /\ free[k] # Busy
  BY DEF TakeDescriptor, Taken, IInv, IndexInv
<1>2. threads[k] = 0 /\ \A b \in Creator : ~Owns(b, k)
  BY <1>1 DEF IInv, BusyInv, TypeOK
<1>3. \A b \in Creator, i \in Desc : Owns(b, i)' <=> (Owns(b, i) \/ (b = c /\ i = k))
  BY DEF TakeDescriptor, Owns, IInv, TypeOK
<1>4. \A i \in Desc : free'[i] = IF i = k THEN Busy ELSE free[i]
  BY <1>1 DEF TakeDescriptor, IInv, TypeOK
<1>5. threads' = threads
  BY DEF TakeDescriptor
<1>6. BusyInv'
  <2> SUFFICES ASSUME NEW i \in Desc
               PROVE  free'[i] = Busy <=> (threads'[i] > 0 \/ \E b \in Creator : Owns(b, i)')
    BY DEF BusyInv
  <2> HIDE DEF k
  <2>1. CASE i = k
    BY <2>1, <1>3, <1>4
  <2>2. CASE i # k
    BY <2>2, <1>3, <1>4, <1>5 DEF IInv, BusyInv
  <2> QED BY <2>1, <2>2
<1>7. ExclusiveOwner'
  <2> HIDE DEF k
  <2> SUFFICES ASSUME NEW i \in Desc
               PROVE  /\ threads'[i] <= 1
                      /\ \A b \in Creator : Owns(b, i)' => threads'[i] = 0
                      /\ \A a, b \in Creator : Owns(a, i)' /\ Owns(b, i)' => a = b
    BY DEF ExclusiveOwner
  <2>1. CASE i = k
    BY <2>1, <1>2, <1>3, <1>5
  <2>2. CASE i # k
    BY <2>2, <1>3, <1>5 DEF IInv, ExclusiveOwner
  <2> QED BY <2>1, <2>2
<1> QED BY <1>6, <1>7

(* A creator that owns a descriptor gives it back (ptask.c 224, 255).          *)
LEMMA GiveBackStep ==
  ASSUME IInv, NEW c \in Creator, pc[c] = "modes", Release(x[c]),
         pc' = [pc EXCEPT ![c] = "idle"], x' = [x EXCEPT ![c] = NoMore], threads' = threads
  PROVE  BusyInv' /\ ExclusiveOwner'
<1> DEFINE k == x[c]
<1>1. k \in Desc /\ Owns(c, k)
  BY DEF IInv, IndexInv, Owns
<1>2. threads[k] = 0 /\ \A b \in Creator : Owns(b, k) => b = c
  BY <1>1 DEF IInv, ExclusiveOwner
<1>3. \A b \in Creator, i \in Desc : Owns(b, i)' <=> (Owns(b, i) /\ b # c)
  BY DEF Owns, IInv, TypeOK
<1>4. \A i \in Desc : free'[i] = IF i = k THEN firstFree ELSE free[i]
  BY <1>1 DEF Release, LinkOnRelease, IInv, TypeOK
<1>5. firstFree # Busy
  BY BusyIsNoLink DEF IInv, TypeOK
<1>6. \A b \in Creator, i \in Desc : Owns(b, i) /\ i # k => b # c
  BY DEF Owns
<1> HIDE DEF k
<1>7. BusyInv'
  <2> SUFFICES ASSUME NEW i \in Desc
               PROVE  free'[i] = Busy <=> (threads'[i] > 0 \/ \E b \in Creator : Owns(b, i)')
    BY DEF BusyInv
  <2>1. CASE i = k
    BY <2>1, <1>2, <1>3, <1>4, <1>5
  <2>2. CASE i # k
    BY <2>2, <1>3, <1>4, <1>6 DEF IInv, BusyInv
  <2> QED BY <2>1, <2>2
<1>8. ExclusiveOwner'
  BY <1>3 DEF IInv, ExclusiveOwner
<1> QED BY <1>7, <1>8

(* A descriptor passes from its creator to the thread it starts (ptask.c 246). *)
LEMMA ThreadStep ==
  ASSUME IInv, NEW c \in Creator, CreateThread(c)
  PROVE  BusyInv' /\ ExclusiveOwner'
<1> DEFINE k == x[c]
<1>1. k \in Desc /\ Owns(c, k)
  BY DEF CreateThread, IInv, IndexInv, Owns
<1>2. threads[k] = 0 /\ \A b \in Creator : Owns(b, k) => b = c
  BY <1>1 DEF IInv, ExclusiveOwner
<1>3. \A b \in Creator, i \in Desc : Owns(b, i)' <=> (Owns(b, i) /\ b # c)
  BY DEF CreateThread, Owns, IInv, TypeOK
<1>4. \A i \in Desc : threads'[i] = IF i = k THEN threads[i] + 1 ELSE threads[i]
  BY <1>1 DEF CreateThread, IInv, TypeOK
<1>5. free' = free /\ free[k] = Busy
  BY <1>1 DEF CreateThread, IInv, BusyInv
<1>6. \A b \in Creator, i \in Desc : Owns(b, i) /\ i # k => b # c
  BY DEF Owns
<1> HIDE DEF k
<1>7. BusyInv'
  <2> SUFFICES ASSUME NEW i \in Desc
               PROVE  free'[i] = Busy <=> (threads'[i] > 0 \/ \E b \in Creator : Owns(b, i)')
    BY DEF BusyInv
  <2>1. CASE i = k
    BY <2>1, <1>2, <1>4, <1>5
  <2>2. CASE i # k
    BY <2>2, <1>3, <1>4, <1>5, <1>6 DEF IInv, BusyInv
  <2> QED BY <2>1, <2>2
<1>8. ExclusiveOwner'
  <2> SUFFICES ASSUME NEW i \in Desc
               PROVE  /\ threads'[i] <= 1
                      /\ \A b \in Creator : Owns(b, i)' => threads'[i] = 0
                      /\ \A a, b \in Creator : Owns(a, i)' /\ Owns(b, i)' => a = b
    BY DEF ExclusiveOwner
  <2>1. CASE i = k
    BY <2>1, <1>2, <1>3, <1>4
  <2>2. CASE i # k
    BY <2>2, <1>3, <1>4 DEF IInv, ExclusiveOwner
  <2> QED BY <2>1, <2>2
<1> QED BY <1>7, <1>8

(* A thread that ends leaves its descriptor without an owner (ptask.c 115-118). *)
LEMMA ExitStep ==
  ASSUME IInv, NEW k \in Desc, Exit(k)
  PROVE  BusyInv' /\ ExclusiveOwner'
<1>1. threads[k] = 1 /\ \A b \in Creator : ~Owns(b, k)
  BY DEF Exit, IInv, ExclusiveOwner, TypeOK
<1>2. \A b \in Creator, i \in Desc : Owns(b, i)' <=> Owns(b, i)
  BY DEF Exit, Owns
<1>3. \A i \in Desc : threads'[i] = IF i = k THEN 0 ELSE threads[i]
  BY <1>1 DEF Exit, IInv, TypeOK
<1>4. \A i \in Desc : free'[i] = IF i = k THEN firstFree ELSE free[i]
  BY DEF Exit, Release, LinkOnRelease, IInv, TypeOK
<1>5. firstFree # Busy
  BY BusyIsNoLink DEF IInv, TypeOK
<1>6. BusyInv'
  <2> SUFFICES ASSUME NEW i \in Desc
               PROVE  free'[i] = Busy <=> (threads'[i] > 0 \/ \E b \in Creator : Owns(b, i)')
    BY DEF BusyInv
  <2>1. CASE i = k
    BY <2>1, <1>1, <1>2, <1>3, <1>4, <1>5
  <2>2. CASE i # k
    BY <2>2, <1>2, <1>3, <1>4 DEF IInv, BusyInv
  <2> QED BY <2>1, <2>2
<1>7. ExclusiveOwner'
  BY <1>2, <1>3 DEF IInv, ExclusiveOwner
<1> QED BY <1>6, <1>7

(* Every step keeps IndexInv, the marks and the ownership.                     *)
LEMMA OwnerStep == IInv /\ [Next]_vars => IndexInv' /\ BusyInv' /\ ExclusiveOwner'
<1> SUFFICES ASSUME IInv, [Next]_vars PROVE IndexInv' /\ BusyInv' /\ ExclusiveOwner'
  OBVIOUS
<1>1. IndexInv'
  <2> SUFFICES ASSUME NEW c \in Creator, pc'[c] \in {"take", "modes"} PROVE x'[c] \in Desc
    BY DEF IndexInv
  <2> USE DEF IInv, TypeOK, IndexInv
  <2>1. ASSUME NEW b \in Creator, NEW list \in ModeLists, ReadHead(b, list) PROVE x'[c] \in Desc
    BY <2>1 DEF ReadHead, Link
  <2>2. ASSUME NEW b \in Creator, TakeDescriptor(b) PROVE x'[c] \in Desc
    BY <2>2 DEF TakeDescriptor
  <2>3. ASSUME NEW b \in Creator, FindTaken(b) PROVE x'[c] \in Desc
    BY <2>3 DEF FindTaken
  <2>4. ASSUME NEW b \in Creator, ReturnRefused(b) PROVE x'[c] \in Desc
    BY <2>4 DEF ReturnRefused
  <2>5. ASSUME NEW b \in Creator, AddMode(b) PROVE x'[c] \in Desc
    BY <2>5 DEF AddMode
  <2>6. ASSUME NEW b \in Creator, RefuseMode(b) PROVE x'[c] \in Desc
    BY <2>6 DEF RefuseMode
  <2>7. ASSUME NEW b \in Creator, CreateThread(b) PROVE x'[c] \in Desc
    BY <2>7 DEF CreateThread
  <2>8. ASSUME NEW b \in Creator, ThreadFails(b) PROVE x'[c] \in Desc
    BY <2>8 DEF ThreadFails
  <2>9. ASSUME NEW i \in Desc, Exit(i) PROVE x'[c] \in Desc
    BY <2>9 DEF Exit
  <2>10. CASE UNCHANGED vars
    BY <2>10 DEF vars
  <2> QED
    BY <2>1, <2>2, <2>3, <2>4, <2>5, <2>6, <2>7, <2>8, <2>9, <2>10 DEF Next, Create
<1>2. BusyInv' /\ ExclusiveOwner'
  <2>1. ASSUME NEW c \in Creator, NEW list \in ModeLists, ReadHead(c, list)
        PROVE  BusyInv' /\ ExclusiveOwner'
    BY <2>1, SameOwners DEF ReadHead, Owns, IInv, TypeOK
  <2>2. ASSUME NEW c \in Creator, TakeDescriptor(c) PROVE BusyInv' /\ ExclusiveOwner'
    BY <2>2, TakeStep
  <2>3. ASSUME NEW c \in Creator, FindTaken(c) PROVE BusyInv' /\ ExclusiveOwner'
    BY <2>3, SameOwners DEF FindTaken, Owns, IInv, TypeOK
  <2>4. ASSUME NEW c \in Creator, ReturnRefused(c) PROVE BusyInv' /\ ExclusiveOwner'
    BY <2>4, SameOwners DEF ReturnRefused, Owns, IInv, TypeOK
  <2>5. ASSUME NEW c \in Creator, AddMode(c) PROVE BusyInv' /\ ExclusiveOwner'
    BY <2>5, SameOwners DEF AddMode, Owns
  <2>6. ASSUME NEW c \in Creator, RefuseMode(c) PROVE BusyInv' /\ ExclusiveOwner'
    BY <2>6, GiveBackStep DEF RefuseMode
  <2>7. ASSUME NEW c \in Creator, CreateThread(c) PROVE BusyInv' /\ ExclusiveOwner'
    BY <2>7, ThreadStep
  <2>8. ASSUME NEW c \in Creator, ThreadFails(c) PROVE BusyInv' /\ ExclusiveOwner'
    BY <2>8, GiveBackStep DEF ThreadFails
  <2>9. ASSUME NEW i \in Desc, Exit(i) PROVE BusyInv' /\ ExclusiveOwner'
    BY <2>9, ExitStep
  <2>10. CASE UNCHANGED vars
    BY <2>10, SameOwners DEF vars, Owns
  <2> QED
    BY <2>1, <2>2, <2>3, <2>4, <2>5, <2>6, <2>7, <2>8, <2>9, <2>10 DEF Next, Create
<1> QED BY <1>1, <1>2

(* The inductive invariant holds in every reachable state (ptask.c 59-258).    *)
THEOREM Invariance == Spec => []IInv
<1>1. IInv /\ [Next]_vars => IInv'
  BY TypeStep, OwnerStep DEF IInv
<1> QED BY InitInv, <1>1, PTL DEF Spec

(* The descriptors and the list never leave their types (ptask.c 65-102).      *)
THEOREM TypeCorrect == Spec => []TypeOK
<1>1. IInv => TypeOK
  BY DEF IInv
<1> QED BY Invariance, <1>1, PTL

(* No two tasks ever share a descriptor, however many threads create tasks and *)
(* however stale the index is that allocate_tp read (ptask.c 67-76).           *)
THEOREM ExclusiveOwnerHolds == Spec => []ExclusiveOwner
<1>1. IInv => ExclusiveOwner
  BY DEF IInv
<1> QED BY Invariance, <1>1, PTL

-----------------------------------------------------------------------------
(* The free list.  It shrinks and grows at its head only, so what has to be    *)
(* shown of a step is that the sets closed under the links change by the head. *)

(* A set of natural numbers has a smallest member.                             *)
LEMMA Smallest ==
  ASSUME NEW S \in SUBSET Nat, S # {}
  PROVE  \E m \in S : \A n \in S : m <= n
<1> DEFINE Less == {p \in Nat \X Nat : p[1] < p[2]}
<1>1. IsWellFoundedOn(Less, Nat)
  BY NatLessThanWellFounded DEF OpToRel
<1>2. PICK m \in S : \A n \in S : ~(<<n, m>> \in Less)
  <2> HIDE DEF Less
  <2> QED BY <1>1, WFMin
<1>3. ASSUME NEW n \in S PROVE m <= n
  <2>1. n \in Nat /\ m \in Nat /\ <<n, m>> \notin Less
    BY <1>2
  <2> QED BY <2>1
<1> QED BY <1>3

(* The list is itself closed, and contained in every closed set.               *)
LEMMA ListIsClosed == Closed(FreeList) /\ FreeList \subseteq Desc
<1>1. FreeList \subseteq Desc
  BY DEF FreeList
<1>2. ASSUME NEW d \in Desc, d = firstFree \/ \E i \in FreeList : d = free[i]
      PROVE  d \in FreeList
  <2> SUFFICES ASSUME NEW S \in SUBSET Desc, Closed(S) PROVE d \in S
    BY DEF FreeList
  <2>1. FreeList \subseteq S
    BY DEF FreeList
  <2> QED BY <1>2, <2>1 DEF Closed
<1> QED BY <1>1, <1>2 DEF Closed

LEMMA ListIsSmallest == ASSUME NEW S \in SUBSET Desc, Closed(S) PROVE FreeList \subseteq S
BY DEF FreeList

(* ptask_init links all descriptors (ptask.c 169-175).                         *)
LEMMA ListInit == ASSUME Init PROVE ListInv
<1>1. firstFree = 0 /\ 0 \in Desc /\ Desc \subseteq Nat
  BY PoolAssumption DEF Init, Desc
<1>2. \A i \in Desc : free[i] = IF i = MaxTasks - 1 THEN NoMore ELSE i + 1
  BY DEF Init, InitialLink
<1>3. \A i \in Desc : free[i] # Busy
  BY <1>2, PoolAssumption DEF Desc, Busy, NoMore
<1>4. ASSUME NEW S \in SUBSET Desc, Closed(S) PROVE Desc \subseteq S
  <2> SUFFICES ASSUME Desc \ S # {} PROVE FALSE
    OBVIOUS
  <2>1. PICK m \in Desc \ S : \A n \in Desc \ S : m <= n
    BY <1>1, Smallest
  <2>2. m # 0
    BY <1>1, <1>4, <2>1 DEF Closed
  <2>3. m - 1 \in Desc /\ m - 1 # MaxTasks - 1 /\ ~(m <= m - 1)
    BY <2>1, <2>2, PoolAssumption DEF Desc
  <2>4. m - 1 \in S /\ free[m - 1] = m
    BY <1>2, <2>1, <2>3 DEF Desc
  <2> QED BY <1>4, <2>1, <2>4 DEF Closed
<1>5. FreeList = Desc
  BY <1>4 DEF FreeList
<1>6. FreeListExact
  BY <1>3, <1>5 DEF FreeListExact
<1>7. \A i \in Desc : free[i] \in Desc => free[i] # firstFree
  BY <1>1, <1>2, PoolAssumption DEF Desc, NoMore
<1>8. \A i, j \in Desc : free[i] \in Desc /\ free[i] = free[j] => i = j
  BY <1>2, PoolAssumption DEF Desc, NoMore
<1> QED BY <1>6, <1>7, <1>8 DEF ListInv

(* The links of free descriptors lead to free descriptors.                     *)
LEMMA LinksToFree ==
  ASSUME ListInv, TypeOK
  PROVE  /\ \A i \in Desc : free[i] \in Desc => free[free[i]] # Busy
         /\ firstFree \in Desc => free[firstFree] # Busy
<1>1. Closed(FreeList)
  BY ListIsClosed
<1>2. ASSUME NEW i \in Desc, free[i] \in Desc PROVE free[free[i]] # Busy
  <2>1. i \in FreeList
    BY <1>2, BusyIsNoLink DEF ListInv, FreeListExact, Link
  <2>2. free[i] \in FreeList
    BY <1>1, <1>2, <2>1 DEF Closed
  <2> QED BY <2>2 DEF ListInv, FreeListExact
<1>3. ASSUME firstFree \in Desc PROVE free[firstFree] # Busy
  <2>1. firstFree \in FreeList
    BY <1>1, <1>3 DEF Closed
  <2> QED BY <2>1 DEF ListInv, FreeListExact
<1> QED BY <1>2, <1>3

(* allocate_tp with the present head: the list loses its head (ptask.c 75-77). *)
LEMMA ListTake ==
  ASSUME ListInv, TypeOK, NEW h \in Desc, h = firstFree,
         firstFree' = free[h], free' = [free EXCEPT ![h] = Busy]
  PROVE  ListInv'
<1>1. \A i \in Desc : free'[i] = IF i = h THEN Busy ELSE free[i]
  BY DEF TypeOK
<1>2. Busy \notin Desc
  BY BusyIsNoLink DEF Link
<1>3. Closed(FreeList) /\ FreeList \subseteq Desc /\ h \in FreeList
  BY ListIsClosed DEF Closed
<1>4. \A i \in Desc : free[i] \in Desc => free[i] # h
  BY DEF ListInv
<1> PICK L \in SUBSET Desc : L = FreeList
  BY <1>3
<1>5. Closed(L \ {h})'
  BY <1>1, <1>2, <1>3, <1>4 DEF Closed
<1>6. ASSUME NEW S \in SUBSET Desc, Closed(S)' PROVE FreeList \subseteq S \cup {h}
  <2>1. Closed(S \cup {h})
    BY <1>1, <1>2, <1>6 DEF Closed
  <2> QED BY <2>1, ListIsSmallest
<1>7. FreeList' = L \ {h}
  <2>1. FreeList' \subseteq L \ {h}
    <3>1. L \ {h} \in SUBSET Desc
      OBVIOUS
    <3> QED BY <1>5, <3>1 DEF FreeList
  <2>2. ASSUME NEW d \in L \ {h} PROVE d \in FreeList'
    <3>1. \A S \in SUBSET Desc : Closed(S)' => d \in S
      BY <1>6
    <3> QED BY <3>1 DEF FreeList
  <2> QED BY <2>1, <2>2
<1>8. FreeListExact'
  BY <1>1, <1>3, <1>7 DEF ListInv, FreeListExact
<1>9. (\A i \in Desc : free[i] \in Desc => free[i] # firstFree)'
  BY <1>1, <1>2, <1>4 DEF ListInv
<1>10. (\A i, j \in Desc : free[i] \in Desc /\ free[i] = free[j] => i = j)'
  BY <1>1, <1>2 DEF ListInv
<1> QED BY <1>8, <1>9, <1>10 DEF ListInv

(* release_tp of a descriptor in use: it becomes the head (ptask.c 97-98).     *)
LEMMA ListRelease ==
  ASSUME ListInv, TypeOK, NEW r \in Desc, free[r] = Busy, Release(r)
  PROVE  ListInv'
<1>1. firstFree' = r /\ \A i \in Desc : free'[i] = IF i = r THEN firstFree ELSE free[i]
  BY DEF TypeOK, Release, LinkOnRelease
<1>2. Busy \notin Desc
  BY BusyIsNoLink DEF Link
<1>3. Closed(FreeList) /\ FreeList \subseteq Desc /\ r \notin FreeList
  BY ListIsClosed DEF ListInv, FreeListExact
<1>4. firstFree # r /\ \A i \in Desc : free[i] # r
  BY LinksToFree
<1> PICK L \in SUBSET Desc : L = FreeList
  BY <1>3
<1>5. Closed(L \cup {r})'
  BY <1>1, <1>3 DEF Closed
<1>6. ASSUME NEW S \in SUBSET Desc, Closed(S)' PROVE FreeList \cup {r} \subseteq S
  <2>1. r \in S
    BY <1>1, <1>6 DEF Closed
  <2>2. Closed(S)
    BY <1>1, <1>2, <1>6, <2>1 DEF Closed
  <2> QED BY <2>1, <2>2, ListIsSmallest
<1>7. FreeList' = L \cup {r}
  <2>1. FreeList' \subseteq L \cup {r}
    <3>1. L \cup {r} \in SUBSET Desc
      OBVIOUS
    <3> QED BY <1>5, <3>1 DEF FreeList
  <2>2. ASSUME NEW d \in L \cup {r} PROVE d \in FreeList'
    <3>1. \A S \in SUBSET Desc : Closed(S)' => d \in S
      BY <1>6
    <3> QED BY <3>1 DEF FreeList
  <2> QED BY <2>1, <2>2
<1>8. firstFree # Busy
  BY BusyIsNoLink DEF TypeOK
<1>9. FreeListExact'
  BY <1>1, <1>7, <1>8 DEF ListInv, FreeListExact
<1>10. (\A i \in Desc : free[i] \in Desc => free[i] # firstFree)'
  BY <1>1, <1>4
<1>11. (\A i, j \in Desc : free[i] \in Desc /\ free[i] = free[j] => i = j)'
  BY <1>1 DEF ListInv
<1> QED BY <1>9, <1>10, <1>11 DEF ListInv

(* A step that leaves the list alone.                                          *)
LEMMA ListSame == ASSUME ListInv, UNCHANGED <<firstFree, free>> PROVE ListInv'
BY DEF ListInv, FreeListExact, FreeList, Closed

(* A call of the sole creator keeps the list, and its index stays the head     *)
(* until it is taken (ptask.c 65-102, 186-258).                                *)
LEMMA SoleStep ==
  ASSUME IInv, ListInv, SoleInv, NEW c \in Creator, Create(c), sole \in {nobody, c}, sole' = c
  PROVE  ListInv' /\ SoleInv'
<1> USE DEF IInv, TypeOK
<1>1. \A b \in Creator : b # c => pc[b] = "idle"
  BY MainAssumption DEF SoleInv
<1>2. pc[c] = "take" => x[c] = firstFree
  BY DEF SoleInv
<1>3. ASSUME NEW i \in Desc, Owns(c, i) PROVE free[i] = Busy
  BY <1>3 DEF BusyInv
<1>4. ASSUME pc'[c] = "take" => x'[c] = firstFree', \A b \in Creator \ {c} : pc'[b] = pc[b]
      PROVE  SoleInv'
  BY <1>1, <1>4 DEF SoleInv
<1>5. ASSUME NEW list \in ModeLists, ReadHead(c, list) PROVE ListInv' /\ SoleInv'
  BY <1>4, <1>5, ListSame DEF ReadHead
<1>6. ASSUME TakeDescriptor(c) PROVE ListInv' /\ SoleInv'
  <2>1. x[c] \in Desc /\ x[c] = firstFree
    BY <1>2, <1>6 DEF TakeDescriptor, IndexInv
  <2>2. ListInv'
    BY <1>6, <2>1, ListTake DEF TakeDescriptor
  <2> QED BY <1>4, <1>6, <2>2 DEF TakeDescriptor
<1>7. ASSUME FindTaken(c) PROVE ListInv' /\ SoleInv'
  BY <1>4, <1>7, ListSame DEF FindTaken
<1>8. ASSUME ReturnRefused(c) PROVE ListInv' /\ SoleInv'
  BY <1>4, <1>8, ListSame DEF ReturnRefused
<1>9. ASSUME AddMode(c) PROVE ListInv' /\ SoleInv'
  BY <1>4, <1>9, ListSame DEF AddMode
<1>10. ASSUME pc[c] = "modes", Release(x[c]), pc' = [pc EXCEPT ![c] = "idle"]
       PROVE  ListInv' /\ SoleInv'
  <2>1. x[c] \in Desc /\ free[x[c]] = Busy
    BY <1>3, <1>10 DEF IndexInv, Owns
  <2>2. ListInv'
    BY <1>10, <2>1, ListRelease
  <2> QED BY <1>4, <1>10, <2>2
<1>11. ASSUME RefuseMode(c) PROVE ListInv' /\ SoleInv'
  BY <1>10, <1>11 DEF RefuseMode
<1>12. ASSUME ThreadFails(c) PROVE ListInv' /\ SoleInv'
  BY <1>10, <1>12 DEF ThreadFails
<1>13. ASSUME CreateThread(c) PROVE ListInv' /\ SoleInv'
  BY <1>4, <1>13, ListSame DEF CreateThread
<1> QED BY <1>5, <1>6, <1>7, <1>8, <1>9, <1>11, <1>12, <1>13 DEF Create

(* The inductive invariant of the pool as the generated main uses it           *)
(* (ptask.c 59-258, main.egl).                                                 *)
LEMMA MainInitInv == MainInit => MainInv
BY InitInv, ListInit DEF MainInit, MainInv, SoleInv, Init

(* Every step keeps it; a second caller or a task that returns ends the use    *)
(* that it is about.                                                          *)
LEMMA MainStep == MainInv /\ [MainNext]_<<vars, sole>> => MainInv'
<1> SUFFICES ASSUME MainInv, [MainNext]_<<vars, sole>> PROVE MainInv'
  OBVIOUS
<1>1. MainNext => Next
  BY DEF MainNext, Next
<1>2. IInv'
  BY <1>1, TypeStep, OwnerStep DEF MainInv, IInv
<1>3. ASSUME NEW c \in Creator, Create(c), sole' = IF sole \in {nobody, c} THEN c ELSE many
      PROVE  MainInv'
  <2>1. CASE sole \in {nobody, c}
    <3>1. sole # many /\ sole' = c
      BY <1>3, <2>1, MainAssumption
    <3> QED BY <1>2, <1>3, <2>1, <3>1, SoleStep DEF MainInv
  <2>2. CASE sole \notin {nobody, c}
    BY <1>2, <1>3, <2>2 DEF MainInv
  <2> QED BY <2>1, <2>2
<1>4. ASSUME NEW i \in Desc, sole' = many PROVE MainInv'
  BY <1>2, <1>4 DEF MainInv
<1>5. CASE UNCHANGED <<vars, sole>>
  BY <1>2, <1>5, ListSame DEF MainInv, SoleInv, vars
<1> QED BY <1>3, <1>4, <1>5 DEF MainNext

(* The list is one and exact, and the caller's index is its head, in every     *)
(* state of a program that uses the pool as the generated main does            *)
(* (ptask.c 59-258).                                                           *)
THEOREM MainInvariance == MainSpec => []MainInv
BY MainInitInv, MainStep, PTL DEF MainSpec

(* As long as one thread creates tasks and none returns, the list holds        *)
(* exactly the free descriptors (ptask.c 59-63, 77, 93-102).                   *)
THEOREM MainListHolds == MainSpec => []MainKeepsListExact
<1>1. MainInv => MainKeepsListExact
  BY DEF MainInv, MainKeepsListExact, ListInv
<1> QED BY MainInvariance, <1>1, PTL

(* In that use a task is refused only when the pool is used up                 *)
(* (ptask.c 60-61, 67-74).                                                     *)
THEOREM MainRefusalHolds == MainSpec => MainRefusedOnlyWhenFull
<1>1. ASSUME MainInv, [MainNext]_<<vars, sole>>, sole' # many
      PROVE  RefusesOnlyWhenFull
  <2> SUFFICES ASSUME NEW c \in Creator, pc[c] # "refused", pc'[c] = "refused"
               PROVE  \A i \in Desc : free[i] = Busy
    BY DEF RefusesOnlyWhenFull
  <2> USE DEF MainInv, IInv, TypeOK
  <2>1. PICK b \in Creator : Create(b) /\ sole' = IF sole \in {nobody, b} THEN b ELSE many
    BY <1>1 DEF MainNext, vars
  <2>2. b = c
    BY <1>1, <2>1 DEF Create, ReadHead, TakeDescriptor, FindTaken, ReturnRefused, AddMode,
                      RefuseMode, CreateThread, ThreadFails
  <2>3. sole # many
    BY <1>1, <2>1, MainAssumption
  <2>4. ListInv /\ SoleInv
    BY <1>1, <2>3
  <2>5. \/ firstFree = NoMore
        \/ pc[c] = "take" /\ free[x[c]] = Busy
    BY <1>1, <2>1, <2>2 DEF Create, ReadHead, TakeDescriptor, FindTaken, Taken, ReturnRefused,
                            AddMode, RefuseMode, CreateThread, ThreadFails
  <2>6. firstFree = NoMore
    <3>1. CASE pc[c] = "take" /\ free[x[c]] = Busy
      <4>1. x[c] \in Desc /\ x[c] = firstFree
        BY <1>1, <2>4, <3>1 DEF SoleInv, IndexInv
      <4> QED BY <1>1, <2>4, <3>1, <4>1, LinksToFree
    <3> QED BY <2>5, <3>1
  <2>7. FreeList \subseteq {}
    <3>1. {} \in SUBSET Desc /\ Closed({})
      BY <2>6, BusyIsNoLink DEF Closed
    <3> QED BY <3>1, ListIsSmallest
  <2> QED BY <2>4, <2>7 DEF ListInv, FreeListExact
<1>2. MainInv /\ [MainNext]_<<vars, sole>> => [sole' # many => RefusesOnlyWhenFull]_<<vars, sole>>
  BY <1>1
<1> QED BY MainInvariance, <1>2, PTL DEF MainSpec, MainRefusedOnlyWhenFull
=============================================================================
