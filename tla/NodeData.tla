------------------------------ MODULE NodeData ------------------------------
(***************************************************************************)
(* The data of one node and how the node walks over it (hgr_common.c and   *)
(* _hgr_computation.c; the exclusion between nodes is in DagTask).         *)
(* PRE_LOAD builds the node once, then every job runs the compute          *)
(* function: a PREM node copies its data in chunks of the cache, a SPARSE  *)
(* node reads it element by element through a table of indices.            *)
(*                                                                         *)
(* Cycles are those of the frequency, so wcet * 1000 * 1000 * FREQUENCY is *)
(* one number.                                                             *)
(***************************************************************************)
EXTENDS Integers, Sequences

CONSTANTS
  Kilo,        \* 1024 in the code
  IntMax,      \* INT_MAX
  Units,       \* the units of the DAGs
  Sizes,       \* mem_access of the DAGs
  Cycles,      \* cycles of the nodes
  Levels,      \* what the caches report, in Kilo; 0 is a level that is not there
  Granularity, \* sizes of an element
  Strides,     \* strides; 0 is random access
  RandMax,     \* RAND_MAX
  Rands        \* values that rand() returns

ASSUME DataAssumption ==
  /\ Units \subseteq {"B", "KB", "MB", "GB"}
  /\ Kilo \in Nat \ {0} /\ IntMax \in Nat /\ RandMax \in Nat /\ Rands \subseteq 0..RandMax
  /\ Sizes \subseteq Nat /\ Cycles \subseteq Nat /\ Levels \subseteq Nat
  /\ Granularity \subseteq Nat \ {0} /\ Strides \subseteq Nat

VARIABLES
  node,     \* the node, as loaded
  left,     \* chunks or elements left in this job
  moved,    \* the job's copies as <<number, begin, size>>, or its reads as <<number, index>>
  copied,   \* the bytes of those copies
  spent     \* iterations of the execution phases of the job

dataVars == <<node, left, moved, copied, spent>>

NoNode == [kind |-> "none"]

RoundUp_Down(a, b) == a \div b
RoundUp(a, b) == IF a % b # 0 THEN (a \div b) + 1 ELSE a \div b

CalcDataSize(size, unit) ==
  CASE unit = "KB" -> size * Kilo
    [] unit = "MB" -> size * Kilo * Kilo
    [] unit = "GB" -> size * Kilo * Kilo * Kilo
    [] OTHER -> size

(* The last level that the machine has. *)
CacheSize(L1, L2, L3) ==
  Kilo * (IF L3 # 0 THEN L3 ELSE IF L2 # 0 THEN L2 ELSE L1)

(* What a product of int leaves of a number (makefile.egl builds with -O0). *)
Narrow(x) == ((x + IntMax + 1) % (2 * (IntMax + 1))) - (IntMax + 1)

(* data_size_pointer: C_SIZE * (num_copies - 1) is a product of int. *)
Chunks(bytes, cache) ==
  LET n == RoundUp(bytes, cache) IN
  [i \in 1..n |-> IF i < n THEN cache ELSE bytes - Narrow(cache * (n - 1))]

PremNode(bytes, cache, cycles) ==
  LET n == RoundUp(bytes, cache) IN
  [kind |-> "prem", bytes |-> bytes, cache |-> cache, chunks |-> Chunks(bytes, cache),
   budget |-> cycles, perCycle |-> IF n <= 1 THEN cycles ELSE cycles \div n]

RandomIndex(rand, bytes) == rand \div (RandMax \div (bytes + 1))

StrideIndex(i, stride, bytes) == (i * stride) % bytes

(* The table has an entry for every byte, but an index of elements. *)
Tables(bytes, stride) ==
  IF stride = 0
  THEN {[i \in 0..(bytes - 1) |-> RandomIndex(r[i], bytes)] : r \in [0..(bytes - 1) -> Rands]}
  ELSE {[i \in 0..(bytes - 1) |-> StrideIndex(i, stride, bytes)]}

(* Four cycles belong to the loop; beta is rounded up. *)
SparseNode(bytes, granularity, stride, table, cycles) ==
  LET phi == bytes \div granularity IN
  [kind |-> "sparse", bytes |-> bytes, phi |-> phi, stride |-> stride, table |-> table,
   budget |-> cycles - 4, perCycle |-> RoundUp(cycles - 4, phi)]

DataInit == node = NoNode /\ left = 0 /\ moved = {} /\ copied = 0 /\ spent = 0

(* A size of 0 writes the first entry of an empty array, a cache of 0 divides *)
(* by it: both are undefined, and no node exists after them.  The cache and   *)
(* the number of chunks are ints.                                             *)
LoadPrem(size, unit, cycles, L1, L2, L3) ==
  /\ node = NoNode
  /\ size > 0 /\ CacheSize(L1, L2, L3) \in 1..IntMax
  /\ RoundUp(CalcDataSize(size, unit), CacheSize(L1, L2, L3)) <= IntMax
  /\ node' = PremNode(CalcDataSize(size, unit), CacheSize(L1, L2, L3), cycles)
  /\ UNCHANGED <<left, moved, copied, spent>>

(* ceil of a negative or infinite number is undefined as an unsigned long, as  *)
(* is the division by the divisor 0 of a random node of RAND_MAX bytes.       *)
LoadSparse(size, unit, granularity, stride, cycles) ==
  LET bytes == CalcDataSize(size, unit) IN
  /\ node = NoNode
  /\ bytes >= granularity /\ cycles >= 4
  /\ stride = 0 => bytes < RandMax
  /\ \E table \in Tables(bytes, stride) :
       node' = SparseNode(bytes, granularity, stride, table, cycles)
  /\ UNCHANGED <<left, moved, copied, spent>>

(* A job of the node begins: the buffer is new, the data are the same. *)
BeginJob ==
  /\ node # NoNode /\ left = 0
  /\ left' = (IF node.kind = "prem" THEN Len(node.chunks) ELSE node.phi)
  /\ moved' = {} /\ copied' = 0 /\ spent' = 0
  /\ UNCHANGED node

(* dec; jnz begins with dec: it would run almost for ever for 0. *)
ExecutionPhase == node.perCycle > 0 /\ spent' = spent + node.perCycle

(* memcpy takes the next size, but always the start of the data. *)
CopyChunk ==
  LET k == Len(node.chunks) - left + 1 IN
  /\ node.kind = "prem" /\ left > 0
  /\ moved' = moved \cup {<<k, 0, node.chunks[k]>>}
  /\ copied' = copied + node.chunks[k]
  /\ ExecutionPhase
  /\ left' = left - 1
  /\ UNCHANGED node

ReadElement ==
  LET k == node.phi - left IN
  /\ node.kind = "sparse" /\ left > 0
  /\ moved' = moved \cup {<<k, node.table[k]>>}
  /\ ExecutionPhase
  /\ left' = left - 1
  /\ UNCHANGED <<node, copied>>

DataNext ==
  \/ \E size \in Sizes, unit \in Units, cycles \in Cycles :
       \/ \E L1, L2, L3 \in Levels : LoadPrem(size, unit, cycles, L1, L2, L3)
       \/ \E g \in Granularity, stride \in Strides : LoadSparse(size, unit, g, stride, cycles)
  \/ BeginJob
  \/ CopyChunk
  \/ ReadElement

DataSpec == DataInit /\ [][DataNext]_dataVars

-----------------------------------------------------------------------------
JobDone == node # NoNode /\ left = 0 /\ moved # {}

(* Otherwise the size of the last chunk is wrong (hgr_common.c 79). *)
FitsInt == node.cache * (Len(node.chunks) - 1) <= IntMax

(* Every copy fits into the cache and lies in the data and in the buffer,     *)
(* which has their size, and the sizes of a job's copies add up to the bytes  *)
(* of the node, if the product of line 79 does not overflow (hgr_common.c     *)
(* 69-81, _hgr_computation.c 26-43).  Which bytes are copied is another       *)
(* matter: every copy begins at the start, and what lies behind the first     *)
(* chunk is never moved.                                                      *)
PremData == node.kind = "prem" /\ FitsInt =>
  /\ \A m \in moved : 0 < m[3] /\ m[3] <= node.cache /\ m[2] + m[3] <= node.bytes
  /\ copied <= node.bytes
  /\ JobDone => copied = node.bytes

(* A strided node reads no element behind its data, and as many as it has.    *)
SparseData == node.kind = "sparse" =>
  /\ node.stride # 0 => \A m \in moved : m[2] < node.bytes
  /\ JobDone => {m[1] : m \in moved} = 0..(node.phi - 1)

(* The execution phases of a PREM job take at most the cycles of the node and *)
(* lose less than one for each chunk; those of a SPARSE job take at least the *)
(* cycles, and at most one too many for each element.                         *)
BudgetKept == JobDone =>
  IF node.kind = "prem"
  THEN spent <= node.budget /\ node.budget < spent + Len(node.chunks)
  ELSE node.budget <= spent /\ spent < node.budget + node.phi

(* The amounts are right: a job copies, or reads, as much as its node has, in *)
(* steps that stay inside the data, the buffer and the cycles (hgr_common.c   *)
(* 23-112, _hgr_computation.c 26-43, 110-132).  What is random is left out,   *)
(* since a random index may lie behind the data (hgr_common.c 91-95).         *)
NodeDataExact == PremData /\ SparseData /\ BudgetKept

-----------------------------------------------------------------------------
(* The inductive invariant: a loaded node keeps the relation between its       *)
(* sizes, and a job has done as many of its equal steps as are not left.      *)
Steps == IF node.kind = "prem" THEN Len(node.chunks) ELSE node.phi

Begun == left > 0 \/ moved # {}

PremInv == node.kind = "prem" =>
  /\ node.bytes \in Nat \ {0} /\ node.cache \in Nat \ {0}
  /\ node.chunks = Chunks(node.bytes, node.cache)
  /\ Steps * node.perCycle <= node.budget /\ node.budget < Steps * node.perCycle + Steps
  /\ left > 0 => copied = node.cache * (Steps - left)
  /\ FitsInt =>
       /\ \A m \in moved : 0 < m[3] /\ m[3] <= node.cache /\ m[2] + m[3] <= node.bytes
       /\ Begun /\ left = 0 => copied = node.bytes

SparseInv == node.kind = "sparse" =>
  /\ node.bytes \in Nat /\ node.phi <= node.bytes
  /\ node.budget <= Steps * node.perCycle /\ Steps * node.perCycle < node.budget + Steps
  /\ node.stride # 0 => \A k \in 0..(node.bytes - 1) : node.table[k] < node.bytes
  /\ node.stride # 0 => \A m \in moved : m[2] < node.bytes
  /\ Begun => {m[1] : m \in moved} = 0..(Steps - left - 1)

DataInv ==
  /\ left \in Nat /\ copied \in Nat /\ spent \in Nat
  /\ node = NoNode => ~Begun
  /\ ~Begun => copied = 0
  /\ node # NoNode =>
       /\ node.kind \in {"prem", "sparse"}
       /\ Steps \in Nat \ {0} /\ left <= Steps
       /\ node.budget \in Nat /\ node.perCycle \in Nat
       /\ Begun => spent = (Steps - left) * node.perCycle
       /\ PremInv /\ SparseInv
=============================================================================
