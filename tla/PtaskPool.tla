----------------------------- MODULE PtaskPool -----------------------------
(***************************************************************************)
(* The task descriptors of the ptask library and the creation of tasks     *)
(* (ptask.c 59-258).  The free descriptors are linked in a list through    *)
(* their field free; first_free is its head.  Any thread may create tasks, *)
(* and a task whose body returns releases its own descriptor.              *)
(*                                                                         *)
(* allocate_tp reads first_free before it locks _tp_mutex.  Everything     *)
(* else it and release_tp do is inside the mutex, so each critical section *)
(* is one step.                                                            *)
(***************************************************************************)
EXTENDS Integers, Sequences, FiniteSets

CONSTANTS
  MaxTasks,      \* MAX_TASKS
  Creator,       \* the threads that call ptask_create_param
  BodyReturns,   \* whether a task body may return, as no generated one does
  NModes,        \* nmodes of the rtmode_t that tasks are created with
  MaxModeTasks,  \* RTMODE_MAX_TASKS
  ModeLists      \* the mode lists a task is created with, <<>> for modes = NULL

ASSUME PoolAssumption ==
  /\ MaxTasks \in Nat \ {0}
  /\ BodyReturns \in BOOLEAN
  /\ NModes \in Nat
  /\ MaxModeTasks \in Nat
  /\ ModeLists \subseteq Seq(Nat)

Busy == -2      \* _TP_BUSY
NoMore == -1    \* _TP_NOMORE
Desc == 0..(MaxTasks - 1)
Link == Desc \cup {NoMore}
Mode == 0..(NModes - 1)

VARIABLES
  firstFree,   \* first_free
  free,        \* _tp[i].free
  pc,          \* where a creator is in __create_internal
  x,           \* its local x, then i
  modesLeft,   \* the entries of tp->mode_list it has still to add
  threads,     \* the number of threads that run as task i
  modeTasks    \* task_list of every mode

vars == <<firstFree, free, pc, x, modesLeft, threads, modeTasks>>

(* A name that ends in _<Bug> is a wrong variant of the definition after it,  *)
(* which the properties are tested against.                                   *)
InitialLink_EndsEarly(i) == IF i + 2 >= MaxTasks THEN NoMore ELSE i + 1
InitialLink(i) == IF i = MaxTasks - 1 THEN NoMore ELSE i + 1

Taken_NotChecked(i) == FALSE
Taken(i) == free[i] = Busy

LinkOnRelease_Dropped == NoMore
LinkOnRelease == firstFree

Init ==
  /\ firstFree = 0
  /\ free = [i \in Desc |-> InitialLink(i)]
  /\ pc = [c \in Creator |-> "idle"]
  /\ x = [c \in Creator |-> NoMore]
  /\ modesLeft = [c \in Creator |-> <<>>]
  /\ threads = [i \in Desc |-> 0]
  /\ modeTasks = [m \in Mode |-> <<>>]

Release(i) ==
  /\ free' = [free EXCEPT ![i] = LinkOnRelease]
  /\ firstFree' = i

(* A call begins with the unprotected read of first_free. *)
ReadHead(c, list) ==
  /\ pc[c] = "idle"
  /\ x' = [x EXCEPT ![c] = firstFree]
  /\ IF firstFree = NoMore
     THEN /\ pc' = [pc EXCEPT ![c] = "refused"]
          /\ UNCHANGED modesLeft
     ELSE /\ pc' = [pc EXCEPT ![c] = "take"]
          /\ modesLeft' = [modesLeft EXCEPT ![c] = list]
  /\ UNCHANGED <<firstFree, free, threads, modeTasks>>

TakeDescriptor(c) ==
  /\ pc[c] = "take"
  /\ ~Taken(x[c])
  /\ firstFree' = free[x[c]]
  /\ free' = [free EXCEPT ![x[c]] = Busy]
  /\ pc' = [pc EXCEPT ![c] = "modes"]
  /\ UNCHANGED <<x, modesLeft, threads, modeTasks>>

FindTaken(c) ==
  /\ pc[c] = "take"
  /\ Taken(x[c])
  /\ pc' = [pc EXCEPT ![c] = "refused"]
  /\ modesLeft' = [modesLeft EXCEPT ![c] = <<>>]
  /\ UNCHANGED <<firstFree, free, x, threads, modeTasks>>

(* allocate_tp returned -1 and so does __create_internal. *)
ReturnRefused(c) ==
  /\ pc[c] = "refused"
  /\ pc' = [pc EXCEPT ![c] = "idle"]
  /\ x' = [x EXCEPT ![c] = NoMore]
  /\ UNCHANGED <<firstFree, free, modesLeft, threads, modeTasks>>

(* rtmode_addtask accepts the mode: it exists and its list has room. *)
ModeAccepts(m) == m < NModes /\ Len(modeTasks[m]) # MaxModeTasks

AddMode(c) ==
  /\ pc[c] = "modes"
  /\ modesLeft[c] # <<>>
  /\ LET m == Head(modesLeft[c]) IN
       /\ ModeAccepts(m)
       /\ modeTasks' = [modeTasks EXCEPT ![m] = Append(@, x[c])]
  /\ modesLeft' = [modesLeft EXCEPT ![c] = Tail(@)]
  /\ UNCHANGED <<firstFree, free, pc, x, threads>>

(* The descriptor goes back to the list; the modes it was added to keep it. *)
RefuseMode(c) ==
  /\ pc[c] = "modes"
  /\ modesLeft[c] # <<>>
  /\ ~ModeAccepts(Head(modesLeft[c]))
  /\ Release(x[c])
  /\ pc' = [pc EXCEPT ![c] = "idle"]
  /\ x' = [x EXCEPT ![c] = NoMore]
  /\ modesLeft' = [modesLeft EXCEPT ![c] = <<>>]
  /\ UNCHANGED <<threads, modeTasks>>

CreateThread(c) ==
  /\ pc[c] = "modes"
  /\ modesLeft[c] = <<>>
  /\ threads' = [threads EXCEPT ![x[c]] = @ + 1]
  /\ pc' = [pc EXCEPT ![c] = "idle"]
  /\ x' = [x EXCEPT ![c] = NoMore]
  /\ UNCHANGED <<firstFree, free, modesLeft, modeTasks>>

(* pthread_create returns an error. *)
ThreadFails(c) ==
  /\ pc[c] = "modes"
  /\ modesLeft[c] = <<>>
  /\ Release(x[c])
  /\ pc' = [pc EXCEPT ![c] = "idle"]
  /\ x' = [x EXCEPT ![c] = NoMore]
  /\ UNCHANGED <<modesLeft, threads, modeTasks>>

(* The body of task i returns and ptask_exit_handler runs. *)
Exit(i) ==
  /\ BodyReturns
  /\ threads[i] > 0
  /\ threads' = [threads EXCEPT ![i] = @ - 1]
  /\ Release(i)
  /\ UNCHANGED <<pc, x, modesLeft, modeTasks>>

Create(c) ==
  \/ \E list \in ModeLists : ReadHead(c, list)
  \/ TakeDescriptor(c) \/ FindTaken(c) \/ ReturnRefused(c)
  \/ AddMode(c) \/ RefuseMode(c)
  \/ CreateThread(c) \/ ThreadFails(c)

Next ==
  \/ \E c \in Creator : Create(c)
  \/ \E i \in Desc : Exit(i)

Spec == Init /\ [][Next]_vars

-----------------------------------------------------------------------------
TypeOK ==
  /\ firstFree \in Link
  /\ free \in [Desc -> Link \cup {Busy}]
  /\ pc \in [Creator -> {"idle", "take", "refused", "modes"}]
  /\ x \in [Creator -> Link]
  /\ modesLeft \in [Creator -> Seq(Nat)]
  /\ threads \in [Desc -> Nat]
  /\ modeTasks \in [Mode -> Seq(Desc)]

Owns(c, i) == pc[c] = "modes" /\ x[c] = i

(* A descriptor belongs to one task at a time, from allocate_tp to release_tp: *)
(* not to two creators, not to two threads, not to a creator that rewrites it  *)
(* while a task runs on it.  The BUSY test under the mutex (ptask.c 71) is     *)
(* what the stale x relies on.                                                 *)
ExclusiveOwner ==
  \A i \in Desc :
    /\ threads[i] <= 1
    /\ \A c \in Creator : Owns(c, i) => threads[i] = 0
    /\ \A b, c \in Creator : Owns(b, i) /\ Owns(c, i) => b = c

(* The descriptors in the list: the smallest set with first_free and with the  *)
(* successor of each of its members.                                          *)
Closed(S) == ({firstFree} \cup {free[i] : i \in S}) \cap Desc \subseteq S

FreeList == {i \in Desc : \A S \in SUBSET Desc : Closed(S) => i \in S}

(* The list holds exactly the free descriptors: none is lost and none in use  *)
(* is offered again (ptask.c 59-63).                                          *)
FreeListExact == FreeList = {i \in Desc : free[i] # Busy}

(* allocate_tp refuses a task only when every descriptor is in use (ptask.c   *)
(* 60-61).                                                                    *)
RefusesOnlyWhenFull == \A c \in Creator :
  pc[c] # "refused" /\ pc'[c] = "refused" => \A i \in Desc : free[i] = Busy

-----------------------------------------------------------------------------
(* A descriptor is marked busy exactly while a creator or a thread has it, and *)
(* a creator that is about to take one holds a real index.                     *)
BusyInv == \A i \in Desc :
  free[i] = Busy <=> (threads[i] > 0 \/ \E c \in Creator : Owns(c, i))

IndexInv == \A c \in Creator : pc[c] \in {"take", "modes"} => x[c] \in Desc

(* The inductive invariant: ownership follows the BUSY marks, whatever stale   *)
(* index a creator has read (ptask.c 65-102).                                  *)
IInv == TypeOK /\ IndexInv /\ BusyInv /\ ExclusiveOwner
=============================================================================
