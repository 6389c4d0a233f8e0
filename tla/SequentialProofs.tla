-------------------------- MODULE SequentialProofs --------------------------
(***************************************************************************)
(* Proofs about the parts of the project that run on one thread: the data  *)
(* of a node, for any sizes, caches, elements and strides, and the windows *)
(* with the DOT front end, for any files and settings.                     *)
(***************************************************************************)
EXTENDS SwtGui, HgGui, NodeData, SequenceTheorems, WellFoundedInduction, TLAPS

(* Multiplication by a natural number keeps the order. *)
LEMMA ProductMonotonic ==
  ASSUME NEW i \in Int, NEW j \in Int, NEW k \in Nat, i <= j
  PROVE  i * k <= j * k
<1>1. (j - i) * k >= 0
  BY SMT
<1> QED
  BY <1>1, SMT

LEMMA Remainder ==
  ASSUME NEW m \in Nat, NEW k \in Nat \ {0}
  PROVE  /\ m \div k \in Nat /\ m % k \in 0..(k - 1)
         /\ m = (m \div k) * k + (m % k)
BY SMT

(* The quotient rounded up is the least number of parts that suffice. *)
LEMMA RoundUpBounds ==
  ASSUME NEW m \in Nat, NEW k \in Nat \ {0}
  PROVE  /\ RoundUp(m, k) \in Nat
         /\ m <= RoundUp(m, k) * k /\ RoundUp(m, k) * k < m + k
         /\ m > 0 => RoundUp(m, k) > 0
<1> DEFINE q == m \div k  r == m % k
<1>1. q \in Nat /\ r \in 0..(k - 1) /\ m = q * k + r
  BY Remainder
<1>2. CASE r = 0
  <2>1. RoundUp(m, k) = q
    BY <1>2 DEF RoundUp
  <2> HIDE DEF q, r
  <2>2. q = 0 => m = 0
    BY <1>1, <1>2
  <2> QED
    BY <1>1, <1>2, <2>1, <2>2
<1>3. CASE r # 0
  <2>1. RoundUp(m, k) = q + 1
    BY <1>3 DEF RoundUp
  <2> HIDE DEF q, r
  <2>2. (q + 1) * k = q * k + k
    BY <1>1
  <2> QED
    BY <1>1, <1>3, <2>1, <2>2
<1> QED
  BY <1>2, <1>3

-----------------------------------------------------------------------------
(* An int keeps what fits in it, and makes nothing greater. *)
LEMMA NarrowBounds ==
  ASSUME NEW x \in Nat
  PROVE  /\ Narrow(x) \in Int /\ Narrow(x) <= x
         /\ x <= IntMax => Narrow(x) = x
<1> DEFINE h == IntMax + 1  y == x + h  q == y \div (2 * h)  r == y % (2 * h)
<1>1. h \in Nat \ {0} /\ IntMax = h - 1 /\ y \in Nat /\ 2 * h \in Nat \ {0}
  BY DataAssumption
<1>2. Narrow(x) = r - h
  <2>1. y = x + IntMax + 1
    BY DataAssumption
  <2> QED
    BY <2>1 DEF Narrow
<1>3. q \in Nat /\ r \in 0..(2 * h - 1) /\ y = q * (2 * h) + r
  <2> DEFINE k == 2 * h
  <2>1. k \in Nat \ {0} /\ q = y \div k /\ r = y % k
    BY <1>1
  <2> HIDE DEF k, q, r
  <2>2. q \in Nat /\ r \in 0..(k - 1) /\ y = q * k + r
    <3> HIDE DEF y
    <3> QED
      BY <1>1, <2>1, Remainder
  <2> QED
    BY <2>2 DEF k
<1>4. y = x + h
  OBVIOUS
<1> HIDE DEF h, y, q, r
<1>5. q * (2 * h) \in Nat /\ (q # 0 => 2 * h <= q * (2 * h))
  BY <1>1, <1>3
<1> QED
  BY <1>1, <1>2, <1>3, <1>4, <1>5

LEMMA ChunksLength ==
  ASSUME NEW bytes \in Nat \ {0}, NEW cache \in Nat \ {0}
  PROVE  /\ Len(Chunks(bytes, cache)) = RoundUp(bytes, cache)
         /\ RoundUp(bytes, cache) \in Nat \ {0}
<1> DEFINE n == RoundUp(bytes, cache)
           c == [i \in 1..n |-> IF i < n THEN cache ELSE bytes - Narrow(cache * (n - 1))]
<1>1. n \in Nat \ {0}
  BY RoundUpBounds
<1>2. c = Chunks(bytes, cache)
  BY DEF Chunks
<1> HIDE DEF n
<1>3. c \in Seq(Int)
  <2>1. cache * (n - 1) \in Nat /\ Narrow(cache * (n - 1)) \in Int
    <3>1. cache * (n - 1) \in Nat
      BY <1>1
    <3> QED
      BY <3>1, NarrowBounds
  <2>2. c \in [1..n -> Int]
    BY <2>1
  <2> QED
    BY <1>1, <2>2, SeqDef
<1>4. DOMAIN c = 1..Len(c) /\ Len(c) \in Nat
  BY <1>3, LenProperties
<1>5. DOMAIN c = 1..n
  OBVIOUS
<1>6. Len(c) = n
  <2> DEFINE l == Len(c)
  <2>1. 1..l = 1..n /\ l \in Nat
    BY <1>4, <1>5
  <2> HIDE DEF l
  <2>2. n \in 1..l
    BY <1>1, <2>1
  <2>3. l \in 1..n
    BY <2>1, <2>2
  <2> QED
    BY <1>1, <2>1, <2>2, <2>3 DEF l
<1> QED
  BY <1>1, <1>2, <1>6 DEF n

(* Every chunk but the last fills the cache, and the last is what is left if  *)
(* the chunks before it are counted in an int.                                *)
LEMMA ChunkSizes ==
  ASSUME NEW bytes \in Nat \ {0}, NEW cache \in Nat \ {0},
         NEW n, n = RoundUp(bytes, cache), NEW k \in 1..n
  PROVE  /\ Chunks(bytes, cache)[k] \in Nat \ {0}
         /\ k < n => Chunks(bytes, cache)[k] = cache
         /\ cache * (n - 1) <= IntMax =>
              /\ Chunks(bytes, cache)[k] = IF k < n THEN cache ELSE bytes - cache * (n - 1)
              /\ Chunks(bytes, cache)[k] <= cache /\ Chunks(bytes, cache)[k] <= bytes
<1> DEFINE p == cache * (n - 1)  w == Narrow(p)  c == Chunks(bytes, cache)[k]
<1>1. c = IF k < n THEN cache ELSE bytes - w
  BY DEF Chunks
<1>2. n \in Nat \ {0} /\ bytes <= n * cache /\ n * cache < bytes + cache /\ n * cache \in Nat
  <2>1. n \in Nat /\ bytes <= n * cache /\ n * cache < bytes + cache /\ (bytes > 0 => n > 0)
    BY RoundUpBounds
  <2> QED
    BY <2>1
<1>3. p = n * cache - cache /\ p \in Nat /\ (n > 1 => cache <= p)
  <2>1. p = n * cache - cache /\ p \in Nat
    BY <1>2
  <2>2. n > 1 => 1 * cache <= (n - 1) * cache
    BY <1>2, ProductMonotonic
  <2> QED
    BY <1>2, <2>1, <2>2
<1>4. w \in Int /\ w <= p /\ (p <= IntMax => w = p)
  BY <1>3, NarrowBounds
<1>5. k \in Int /\ 1 <= k /\ k <= n
  BY <1>2
<1> HIDE DEF p, w, c
<1>6. 0 < p - w + (bytes - p) /\ p < bytes /\ bytes - p <= cache
  BY <1>2, <1>3, <1>4
<1>7. c \in Nat \ {0} /\ (k < n => c = cache)
  BY <1>1, <1>3, <1>4, <1>6
<1>8. p <= IntMax => c = (IF k < n THEN cache ELSE bytes - p) /\ c <= cache /\ c <= bytes
  <2> SUFFICES ASSUME p <= IntMax
               PROVE  c = (IF k < n THEN cache ELSE bytes - p) /\ c <= cache /\ c <= bytes
    OBVIOUS
  <2>1. c = IF k < n THEN cache ELSE bytes - p
    BY <1>1, <1>4
  <2>2. k < n => n > 1
    BY <1>2, <1>5
  <2>3. c <= cache /\ c <= bytes
    BY <1>3, <1>6, <2>1, <2>2
  <2> QED
    BY <2>1, <2>3
<1> QED
  BY <1>7, <1>8 DEF p, c

LEMMA DataSize ==
  ASSUME NEW size \in Nat, NEW memUnit
  PROVE  /\ CalcDataSize(size, memUnit) \in Nat
         /\ size > 0 => CalcDataSize(size, memUnit) > 0
<1> USE DataAssumption
<1>1. /\ size * Kilo \in Nat /\ size * Kilo * Kilo \in Nat /\ size * Kilo * Kilo * Kilo \in Nat
      /\ size > 0 => size * Kilo > 0
  BY SMT
<1>2. size > 0 => size * Kilo * Kilo > 0
  BY <1>1, SMT
<1>3. size > 0 => size * Kilo * Kilo * Kilo > 0
  <2> DEFINE kk == size * Kilo * Kilo
  <2>1. kk \in Nat /\ (size > 0 => kk > 0)
    BY <1>1, <1>2
  <2> HIDE DEF kk
  <2>2. size > 0 => kk * Kilo > 0
    BY <2>1
  <2> QED
    BY <2>2 DEF kk
<1> QED
  BY <1>1, <1>2, <1>3 DEF CalcDataSize

-----------------------------------------------------------------------------
LEMMA LoadPremInv ==
  ASSUME DataInv, NEW size \in Sizes, NEW memUnit \in Units, NEW cycles \in Cycles,
         NEW L1 \in Levels, NEW L2 \in Levels, NEW L3 \in Levels,
         LoadPrem(size, memUnit, cycles, L1, L2, L3)
  PROVE  DataInv'
<1> DEFINE bytes == CalcDataSize(size, memUnit)  cache == CacheSize(L1, L2, L3)
           n == RoundUp(bytes, cache)
<1>1. bytes \in Nat \ {0} /\ cache \in Nat \ {0} /\ cycles \in Nat
  <2>1. size \in Nat /\ size > 0 /\ cycles \in Nat
    BY DataAssumption DEF LoadPrem
  <2>2. cache \in Nat /\ cache > 0
    BY DataAssumption DEF LoadPrem, CacheSize
  <2> QED
    BY <2>1, <2>2, DataSize
<1>2. node' = PremNode(bytes, cache, cycles) /\ node = NoNode /\ ~Begun
      /\ UNCHANGED <<left, moved, copied, spent>>
  BY DEF LoadPrem, DataInv
<1> HIDE DEF bytes, cache
<1>3. n \in Nat \ {0} /\ Len(Chunks(bytes, cache)) = n
  BY <1>1, ChunksLength
<1>4. /\ node'.kind = "prem" /\ node'.bytes = bytes /\ node'.cache = cache
      /\ node'.chunks = Chunks(bytes, cache) /\ node'.budget = cycles
      /\ node'.perCycle = IF n <= 1 THEN cycles ELSE cycles \div n
  BY <1>2 DEF PremNode
<1> HIDE DEF n
<1>5. Steps' = n
  BY <1>3, <1>4 DEF Steps
<1>6. /\ node'.perCycle \in Nat
      /\ n * node'.perCycle <= cycles /\ cycles < n * node'.perCycle + n
  <2>1. CASE n = 1
    BY <1>1, <1>4, <2>1
  <2>2. CASE n > 1
    <3> DEFINE q == cycles \div n  r == cycles % n
    <3>1. q \in Nat /\ r \in 0..(n - 1) /\ cycles = q * n + r
      BY <1>1, <1>3, Remainder
    <3>2. node'.perCycle = q
      BY <1>3, <1>4, <2>2
    <3> HIDE DEF q, r
    <3> QED
      BY <1>1, <1>3, <3>1, <3>2
  <2> QED
    BY <1>3, <2>1, <2>2
<1>7. left' = 0 /\ moved' = {} /\ copied' = 0 /\ spent' \in Nat /\ ~Begun'
  BY <1>2 DEF DataInv, Begun
<1>8. node' # NoNode
  BY <1>4 DEF NoNode
<1>9. PremInv'
  BY <1>1, <1>4, <1>5, <1>6, <1>7 DEF PremInv
<1>10. SparseInv'
  BY <1>4 DEF SparseInv
<1> QED
  BY <1>1, <1>3, <1>4, <1>5, <1>6, <1>7, <1>8, <1>9, <1>10 DEF DataInv

LEMMA LoadSparseInv ==
  ASSUME DataInv, NEW size \in Sizes, NEW memUnit \in Units, NEW cycles \in Cycles,
         NEW g \in Granularity, NEW stride \in Strides,
         LoadSparse(size, memUnit, g, stride, cycles)
  PROVE  DataInv'
<1> DEFINE bytes == CalcDataSize(size, memUnit)  phi == bytes \div g  beta == RoundUp(cycles - 4, phi)
<1>1. bytes \in Nat /\ cycles - 4 \in Nat /\ g \in Nat \ {0} /\ bytes >= g /\ stride \in Nat
  <2>1. size \in Nat /\ cycles \in Nat /\ g \in Nat \ {0} /\ stride \in Nat
    BY DataAssumption
  <2>2. bytes >= g /\ cycles >= 4
    BY DEF LoadSparse
  <2> QED
    BY <2>1, <2>2, DataSize
<1>2. PICK table \in Tables(bytes, stride) :
        node' = SparseNode(bytes, g, stride, table, cycles)
  BY DEF LoadSparse
<1>3. node = NoNode /\ ~Begun /\ UNCHANGED <<left, moved, copied, spent>>
  BY DEF LoadSparse, DataInv
<1> HIDE DEF bytes
<1>4. phi \in Nat \ {0} /\ phi <= bytes
  <2> DEFINE r == bytes % g
  <2>1. phi \in Nat /\ r \in 0..(g - 1) /\ bytes = phi * g + r
    BY <1>1, Remainder
  <2> HIDE DEF phi, r
  <2>2. phi # 0
    BY <1>1, <2>1
  <2>3. phi * 1 <= phi * g
    BY <1>1, <2>1, ProductMonotonic
  <2> QED
    BY <1>1, <2>1, <2>2, <2>3
<1>5. /\ node'.kind = "sparse" /\ node'.bytes = bytes /\ node'.phi = phi /\ node'.stride = stride
      /\ node'.table = table /\ node'.budget = cycles - 4 /\ node'.perCycle = beta
  BY <1>2 DEF SparseNode
<1> HIDE DEF phi
<1>6. beta \in Nat /\ cycles - 4 <= phi * beta /\ phi * beta < cycles - 4 + phi
  <2>1. beta \in Nat /\ cycles - 4 <= beta * phi /\ beta * phi < (cycles - 4) + phi
    BY <1>1, <1>4, RoundUpBounds
  <2> HIDE DEF beta
  <2>2. beta * phi = phi * beta
    BY <1>4, <2>1
  <2> QED
    BY <1>1, <1>4, <2>1, <2>2
<1> HIDE DEF beta
<1>7. Steps' = phi
  BY <1>5 DEF Steps
<1>8. stride # 0 => \A k \in 0..(bytes - 1) : table[k] < bytes
  <2> SUFFICES ASSUME stride # 0, NEW k \in 0..(bytes - 1) PROVE table[k] < bytes
    OBVIOUS
  <2>1. table[k] = (k * stride) % bytes
    BY <1>2 DEF Tables, StrideIndex
  <2>2. k * stride \in Nat /\ bytes \in Nat \ {0}
    BY <1>1
  <2>3. (k * stride) % bytes \in 0..(bytes - 1)
    BY <2>2, Remainder
  <2> QED
    BY <1>1, <2>1, <2>3
<1>9. left' = 0 /\ moved' = {} /\ copied' = 0 /\ spent' \in Nat /\ ~Begun'
  BY <1>3 DEF DataInv, Begun
<1>10. node' # NoNode
  BY <1>5 DEF NoNode
<1>11. PremInv'
  BY <1>5 DEF PremInv
<1>12. SparseInv'
  BY <1>1, <1>4, <1>5, <1>6, <1>7, <1>8, <1>9 DEF SparseInv
<1> QED
  BY <1>1, <1>4, <1>5, <1>6, <1>7, <1>9, <1>10, <1>11, <1>12 DEF DataInv

LEMMA BeginJobInv == ASSUME DataInv, BeginJob PROVE DataInv'
<1>1. node' = node /\ copied' = 0 /\ spent' = 0 /\ moved' = {} /\ left' = Steps /\ node # NoNode
  BY DEF BeginJob, DataInv, Steps
<1>2. Steps' = Steps /\ Steps \in Nat \ {0} /\ node.perCycle \in Nat
  BY <1>1 DEF DataInv, Steps
<1>3. (Steps' - left') * node.perCycle = 0
  BY <1>1, <1>2
<1>4. PremInv'
  <2> SUFFICES ASSUME node.kind = "prem" PROVE PremInv'
    BY <1>1 DEF PremInv
  <2>1. node.cache * (Steps' - left') = 0
    BY <1>1, <1>2 DEF DataInv, PremInv
  <2> QED
    BY <1>1, <1>2, <2>1 DEF DataInv, PremInv
<1>5. SparseInv'
  BY <1>1, <1>2 DEF DataInv, SparseInv
<1> QED
  BY <1>1, <1>2, <1>3, <1>4, <1>5 DEF DataInv

(* One step of a job less is left, and one more is done. *)
LEMMA OneStep ==
  ASSUME DataInv, node # NoNode, left > 0, node' = node, left' = left - 1, moved' # {},
         spent' = spent + node.perCycle
  PROVE  /\ left' \in Nat /\ spent' \in Nat /\ left' <= Steps' /\ Steps' = Steps
         /\ spent' = (Steps' - left') * node.perCycle
<1>1. Begun /\ Steps' = Steps
  BY DEF Begun, Steps
<1>2. left \in Nat /\ Steps \in Nat /\ left <= Steps /\ node.perCycle \in Nat
      /\ spent = (Steps - left) * node.perCycle
  BY <1>1 DEF DataInv
<1>3. (Steps - (left - 1)) * node.perCycle = (Steps - left) * node.perCycle + node.perCycle
  BY <1>2
<1>4. spent \in Nat
  BY DEF DataInv
<1> QED
  BY <1>1, <1>2, <1>3, <1>4

LEMMA CopyChunkInv == ASSUME DataInv, CopyChunk PROVE DataInv'
<1> DEFINE n == Steps  k == n - left + 1  c == node.chunks[k]
<1>1. /\ node' = node /\ left > 0 /\ left' = left - 1 /\ node.kind = "prem" /\ node # NoNode
      /\ moved' = moved \cup {<<k, 0, c>>} /\ copied' = copied + c /\ spent' = spent + node.perCycle
  BY DEF CopyChunk, ExecutionPhase, Steps, NoNode
<1>2. /\ left' \in Nat /\ spent' \in Nat /\ left' <= n /\ Steps' = n
      /\ spent' = (n - left') * node.perCycle
  BY <1>1, OneStep
<1>3. /\ n \in Nat \ {0} /\ left \in Nat /\ left <= n
      /\ node.bytes \in Nat \ {0} /\ node.cache \in Nat \ {0}
      /\ node.chunks = Chunks(node.bytes, node.cache)
      /\ copied = node.cache * (n - left) /\ PremInv
  BY <1>1 DEF DataInv, PremInv, Begun
<1>4. n = RoundUp(node.bytes, node.cache)
  BY <1>1, <1>3, ChunksLength DEF Steps
<1> HIDE DEF n
<1>5. k \in 1..n
  BY <1>1, <1>3
<1> DEFINE fits == node.cache * (n - 1) <= IntMax
<1>6. /\ c \in Nat \ {0} /\ (k < n => c = node.cache)
      /\ fits =>
           /\ c = IF k < n THEN node.cache ELSE node.bytes - node.cache * (n - 1)
           /\ c <= node.cache /\ c <= node.bytes
  <2>1. \A j \in 1..n :
          /\ node.chunks[j] \in Nat \ {0} /\ (j < n => node.chunks[j] = node.cache)
          /\ fits =>
               /\ node.chunks[j] = IF j < n THEN node.cache ELSE node.bytes - node.cache * (n - 1)
               /\ node.chunks[j] <= node.cache /\ node.chunks[j] <= node.bytes
    BY <1>3, <1>4, ChunkSizes
  <2> HIDE DEF k, fits
  <2> QED
    BY <1>5, <2>1
<1>7. (FitsInt <=> fits) /\ (FitsInt' <=> fits)
  BY <1>1, <1>2 DEF FitsInt, Steps, n
<1> HIDE DEF c, fits
<1>8. /\ left' > 0 => copied' = node.cache * (n - left')
      /\ fits /\ left' = 0 => copied' = node.bytes
  <2>1. node.cache * (n - 1) \in Int /\ node.cache * (n - left) \in Int
    BY <1>3
  <2>2. CASE left = 1
    BY <1>1, <1>3, <1>6, <2>1, <2>2
  <2>3. CASE left > 1
    <3>1. node.cache * (n - (left - 1)) = node.cache * (n - left) + node.cache
      BY <1>3
    <3>2. k < n
      BY <1>3, <2>3
    <3> QED
      BY <1>1, <1>3, <1>6, <2>1, <2>3, <3>1, <3>2
  <2> QED
    BY <1>1, <1>3, <2>2, <2>3
<1>9. copied' \in Nat
  BY <1>1, <1>6 DEF DataInv
<1>10. fits => \A m \in moved' : 0 < m[3] /\ m[3] <= node.cache /\ m[2] + m[3] <= node.bytes
  <2> SUFFICES ASSUME fits, NEW m \in moved'
               PROVE  0 < m[3] /\ m[3] <= node.cache /\ m[2] + m[3] <= node.bytes
    OBVIOUS
  <2>1. CASE m \in moved
    BY <1>1, <1>3, <1>7, <2>1 DEF PremInv
  <2>2. CASE m = <<k, 0, c>>
    <3>1. m[2] = 0 /\ m[3] = c
      BY <2>2
    <3> QED
      BY <1>6, <3>1
  <2> QED
    BY <1>1, <2>1, <2>2
<1>11. PremInv'
  BY <1>1, <1>2, <1>3, <1>7, <1>8, <1>10 DEF PremInv, n
<1>12. SparseInv'
  BY <1>1 DEF SparseInv
<1>13. Begun'
  BY <1>1 DEF Begun
<1> QED
  BY <1>1, <1>2, <1>3, <1>9, <1>11, <1>12, <1>13 DEF DataInv, n

LEMMA ReadElementInv == ASSUME DataInv, ReadElement PROVE DataInv'
<1> DEFINE k == Steps - left  e == node.table[k]
<1>1. /\ node' = node /\ left > 0 /\ left' = left - 1 /\ node.kind = "sparse" /\ node # NoNode
      /\ moved' = moved \cup {<<k, e>>} /\ copied' = copied /\ spent' = spent + node.perCycle
  BY DEF ReadElement, ExecutionPhase, Steps, NoNode
<1>2. /\ left' \in Nat /\ spent' \in Nat /\ left' <= Steps /\ Steps' = Steps
      /\ spent' = (Steps - left') * node.perCycle
  BY <1>1, OneStep
<1>3. /\ Steps \in Nat \ {0} /\ left \in Nat /\ left <= Steps
      /\ {m[1] : m \in moved} = 0..(Steps - left - 1) /\ SparseInv
      /\ node.bytes \in Nat /\ Steps <= node.bytes
  BY <1>1 DEF DataInv, SparseInv, Begun, Steps
<1>4. k \in 0..(node.bytes - 1)
  BY <1>1, <1>3
<1>5. node.stride # 0 => \A m \in moved' : m[2] < node.bytes
  BY <1>1, <1>3, <1>4 DEF SparseInv
<1>6. {m[1] : m \in moved'} = 0..(Steps - left' - 1)
  <2>1. {m[1] : m \in moved'} = {m[1] : m \in moved} \cup {k}
    <3>1. <<k, e>>[1] = k
      OBVIOUS
    <3> HIDE DEF k, e
    <3> DEFINE pair == <<k, e>>
    <3>2. moved' = moved \cup {pair} /\ pair[1] = k
      BY <1>1, <3>1
    <3> HIDE DEF pair
    <3> QED
      BY <3>2
  <2>2. 0..(Steps - left' - 1) = 0..(Steps - left - 1) \cup {k}
    BY <1>1, <1>3
  <2> QED
    BY <1>3, <2>1, <2>2
<1> HIDE DEF k, e
<1>7. SparseInv'
  BY <1>1, <1>2, <1>3, <1>5, <1>6 DEF SparseInv
<1>8. PremInv'
  BY <1>1 DEF PremInv
<1>9. Begun'
  BY <1>1 DEF Begun
<1> QED
  BY <1>1, <1>2, <1>3, <1>7, <1>8, <1>9 DEF DataInv

(* The inductive invariant of a node's data: what is moved and spent is that   *)
(* of the steps done (hgr_common.c 23-112, _hgr_computation.c 26-43, 110-132). *)
THEOREM DataInvariance == DataSpec => []DataInv
<1>1. DataInit => DataInv
  BY DEF DataInit, DataInv, NoNode, Begun
<1>2. DataInv /\ [DataNext]_dataVars => DataInv'
  <2> SUFFICES ASSUME DataInv, [DataNext]_dataVars PROVE DataInv'
    OBVIOUS
  <2>1. CASE UNCHANGED dataVars
    BY <2>1 DEF dataVars, DataInv, Begun, Steps, PremInv, SparseInv, FitsInt
  <2>2. CASE DataNext
    BY <2>2, LoadPremInv, LoadSparseInv, BeginJobInv, CopyChunkInv, ReadElementInv DEF DataNext
  <2> QED
    BY <2>1, <2>2
<1> QED
  BY <1>1, <1>2, PTL DEF DataSpec

(* A job copies or reads as much as its node has, within the data and its     *)
(* buffer, and keeps to its cycles up to one for each step, for every stride, *)
(* every cache and every size whose chunks are counted in an int              *)
(* (hgr_common.c 23-112, _hgr_computation.c 26-43, 110-132).                   *)
THEOREM NodeDataHolds == DataSpec => []NodeDataExact
<1>1. DataInv => NodeDataExact
  <2> SUFFICES ASSUME DataInv PROVE NodeDataExact
    OBVIOUS
  <2>1. node.kind \in {"prem", "sparse"} => node # NoNode
    BY DEF NoNode
  <2>2. PremData
    <3> SUFFICES ASSUME node.kind = "prem" PROVE PremData
      BY DEF PremData
    <3>1. /\ PremInv /\ Steps \in Nat \ {0} /\ left \in Nat /\ left <= Steps
          /\ node.bytes \in Nat \ {0} /\ node.cache \in Nat \ {0}
      BY <2>1 DEF DataInv, PremInv
    <3>2. Steps = RoundUp(node.bytes, node.cache)
      BY <3>1, ChunksLength DEF PremInv, Steps
    <3>3. left > 0 => node.cache * (Steps - left) <= node.bytes
      <4>1. Steps * node.cache < node.bytes + node.cache
        BY <3>1, <3>2, RoundUpBounds
      <4>2. left > 0 => (Steps - left) * node.cache <= (Steps - 1) * node.cache
        BY <3>1, ProductMonotonic
      <4>3. (Steps - 1) * node.cache = Steps * node.cache - node.cache
            /\ (Steps - left) * node.cache = node.cache * (Steps - left)
        BY <3>1
      <4>4. Steps * node.cache \in Int /\ (Steps - left) * node.cache \in Int
        BY <3>1
      <4> QED
        BY <3>1, <4>1, <4>2, <4>3, <4>4
    <3>4. ~Begun => copied <= node.bytes
      BY <3>1 DEF DataInv
    <3> QED
      BY <3>1, <3>3, <3>4 DEF PremData, PremInv, JobDone, Begun
  <2>3. SparseData
    BY <2>1 DEF SparseData, DataInv, SparseInv, JobDone, Begun, Steps
  <2>4. BudgetKept
    <3> SUFFICES ASSUME JobDone PROVE BudgetKept
      BY DEF BudgetKept
    <3>1. Begun /\ left = 0 /\ node # NoNode
      BY DEF JobDone, Begun
    <3>2. spent = Steps * node.perCycle /\ node.kind \in {"prem", "sparse"} /\ PremInv /\ SparseInv
          /\ Steps \in Nat /\ node.budget \in Nat /\ node.perCycle \in Nat
      BY <3>1 DEF DataInv
    <3>3. Steps * node.perCycle \in Nat
      BY <3>2
    <3> QED
      BY <3>2, <3>3 DEF BudgetKept, PremInv, SparseInv, Steps
  <2> QED
    BY <2>2, <2>3, <2>4 DEF NodeDataExact
<1> QED
  BY <1>1, DataInvariance, PTL

-----------------------------------------------------------------------------
(* A set of indices has a least one. *)
LEMMA LeastIndex ==
  ASSUME NEW M \in SUBSET Nat, M # {}
  PROVE  Min(M) \in M /\ \A m \in M : Min(M) <= m
<1> DEFINE Less == {p \in Nat \X Nat : p[1] < p[2]}
<1>1. IsWellFoundedOn(Less, Nat)
  BY NatLessThanWellFounded DEF OpToRel
<1>2. PICK m \in M : \A y \in M : ~(<<y, m>> \in Less)
  <2> HIDE DEF Less
  <2> QED
    BY <1>1, WFMin
<1>3. \A y \in M : m <= y
  <2> SUFFICES ASSUME NEW y \in M, y < m PROVE FALSE
    OBVIOUS
  <2>1. <<y, m>> \in Less
    OBVIOUS
  <2> QED
    BY <1>2, <2>1
<1> QED
  BY <1>3 DEF Min

(* Parse comes to a file at least, and not behind the last one. *)
LEMMA HowFar ==
  ASSUME NEW S, NEW packed \in Seq(S)
  PROVE  /\ Reached(packed) \in 0..Len(packed)
         /\ Written(packed) \in 0..Reached(packed)
         /\ Throws(packed) = {} => Written(packed) = Len(packed)
<1>1. Len(packed) \in Nat /\ DOMAIN packed = 1..Len(packed)
  BY LenProperties
<1>2. CASE Throws(packed) = {}
  BY <1>1, <1>2 DEF Reached, Written
<1>3. CASE Throws(packed) # {}
  <2>1. Throws(packed) \subseteq 1..Len(packed)
    BY <1>1 DEF Throws
  <2>2. Min(Throws(packed)) \in 1..Len(packed)
    BY <1>3, <2>1, LeastIndex, <1>1
  <2> QED
    BY <1>1, <1>3, <2>2 DEF Reached, Written
<1> QED
  BY <1>2, <1>3

LEMMA MaxOfOne == ASSUME NEW k \in Nat PROVE Max({k}) = k
BY DEF Max

(* The k-th object gets its name from the k-th file alone. *)
LEMMA ObjectOfFile ==
  ASSUME NEW d, NEW packed, NEW k \in Nat \ {0}
  PROVE  /\ Contents[packed[k].path] # "missing" => Object(d, packed, k, k).name = packed[k].path
         /\ Object(d, packed, k, k).period \in {packed[k].path, d.period}
         /\ \A field \in {"mem", "step", "stride"} : Object(d, packed, k, k)[field] = d[field]
<1> DEFINE named == ReadInto(packed, k, k)
           timed == {j \in named : packed[j].path \in WithPeriod}
<1>1. named = IF Contents[packed[k].path] # "missing" THEN {k} ELSE {}
  BY DEF ReadInto, IndexOf
<1>2. timed = {} \/ timed = {k}
  BY <1>1
<1>3. Max({k}) = k
  BY MaxOfOne
<1>4. /\ Object(d, packed, k, k).name = IF named = {} THEN d.name ELSE packed[Max(named)].path
      /\ Object(d, packed, k, k).period = IF timed = {} THEN d.period ELSE packed[Max(timed)].path
      /\ \A field \in {"mem", "step", "stride"} : Object(d, packed, k, k)[field] = d[field]
  BY DEF Object
<1> HIDE DEF named, timed
<1> QED
  BY <1>1, <1>2, <1>3, <1>4

(* The lists hold the nodes and edges of the k-th file alone. *)
LEMMA ListsOfFile ==
  ASSUME NEW packed, NEW k
  PROVE  ListsAt(packed, k) = IF Contents[packed[k].path] = "good" THEN {packed[k].path} ELSE {}
<1>1. Range(<<packed[k]>>) = {packed[k]}
  BY DEF Range
<1> QED
  BY <1>1 DEF ListsAt, GoodFiles

(* What is in the model after Parse. *)
LEMMA ModelDags ==
  ASSUME NEW S, NEW packed \in Seq(S), NEW old, Parse(old, packed)
  PROVE  LET added == old \o SubSeq(packed, 1, Reached(packed)) IN
         /\ DOMAIN model'.dags = 1..Written(packed) /\ Len(model'.dags) = Written(packed)
         /\ \A k \in 1..Written(packed) :
              LET d == Object(added[k], packed, k, k) IN
              /\ model'.dags[k].name = d.name /\ model'.dags[k].period = d.period
              /\ model'.dags[k].mem = d.mem /\ model'.dags[k].step = d.step
              /\ model'.dags[k].stride = d.stride
              /\ model'.dags[k].nodes = ListsAt(packed, k)
<1> DEFINE added == old \o SubSeq(packed, 1, Reached(packed))
           Entry(k) ==
             LET d == Object(added[k], packed, k, k) IN
             [name |-> d.name, period |-> d.period, mem |-> d.mem, step |-> d.step,
              stride |-> d.stride, nodes |-> ListsAt(packed, k)]
           n == Written(packed)
           ds == [k \in 1..n |-> Entry(k)]
<1>1. model'.dags = ds
  BY DEF Parse, IndexOf
<1>2. n \in Nat
  BY HowFar, LenProperties
<1> HIDE DEF n, Entry
<1>3. ds \in Seq({Entry(k) : k \in 1..n})
  BY <1>2, SeqDef
<1>4. DOMAIN ds = 1..n /\ Len(ds) = n
  <2>1. DOMAIN ds = 1..Len(ds) /\ Len(ds) \in Nat
    BY <1>3, LenProperties
  <2>2. DOMAIN ds = 1..n
    OBVIOUS
  <2> DEFINE l == Len(ds)
  <2>3. 1..l = 1..n /\ l \in Nat
    BY <2>1, <2>2
  <2> HIDE DEF l
  <2>4. l = n
    <3>1. n > 0 => n \in 1..l
      BY <1>2, <2>3
    <3>2. l > 0 => l \in 1..n
      BY <1>2, <2>3
    <3> QED
      BY <1>2, <2>3, <3>1, <3>2
  <2> QED
    BY <2>2, <2>4 DEF l
<1>5. \A k \in 1..n : ds[k] = Entry(k)
  OBVIOUS
<1> HIDE DEF ds
<1>6. ASSUME NEW k \in 1..n
      PROVE  LET d == Object(added[k], packed, k, k) IN
             /\ ds[k].name = d.name /\ ds[k].period = d.period
             /\ ds[k].mem = d.mem /\ ds[k].step = d.step
             /\ ds[k].stride = d.stride
             /\ ds[k].nodes = ListsAt(packed, k)
  <2>1. ds[k] = Entry(k)
    BY <1>5
  <2> HIDE DEF added
  <2> QED
    BY <2>1 DEF Entry
<1> QED
  BY <1>1, <1>4, <1>6 DEF n

(* Whatever the parser has read before, the model has one DAG for each file. *)
LEMMA ParseModelOfFiles ==
  ASSUME NEW S, NEW packed \in Seq(S), NEW old, Parse(old, packed),
         generated' => Throws(packed) = {}
  PROVE  ModelOfFiles'
<1> SUFFICES ASSUME generated' PROVE ModelOfFiles'
  BY DEF ModelOfFiles
<1>1. /\ asked' = packed /\ model'.sched = packed[1].sched
      /\ model'.closed = (Throws(packed) = {}) /\ Throws(packed) = {}
  BY DEF Parse
<1>2. Throws(packed) = {} /\ Written(packed) = Len(packed) /\ Len(packed) \in Nat
      /\ DOMAIN packed = 1..Len(packed)
  BY <1>1, HowFar, LenProperties
<1>3. Len(model'.dags) = Len(packed)
  BY <1>2, ModelDags
<1>4. ASSUME NEW k \in DOMAIN packed
      PROVE  IF Contents[packed[k].path] = "good"
             THEN model'.dags[k].name = packed[k].path /\ model'.dags[k].nodes = {packed[k].path}
             ELSE model'.dags[k].nodes = {}
  <2> DEFINE d == Object((old \o SubSeq(packed, 1, Reached(packed)))[k], packed, k, k)
  <2>1. k \in Nat \ {0} /\ k \in 1..Written(packed)
    BY <1>2
  <2>2. model'.dags[k].name = d.name /\ model'.dags[k].nodes = ListsAt(packed, k)
    BY <2>1, ModelDags, ZenonT(60)
  <2>3. Contents[packed[k].path] = "good" => d.name = packed[k].path
    BY <2>1, ObjectOfFile
  <2> HIDE DEF d
  <2> QED
    BY <2>2, <2>3, ListsOfFile
<1> QED
  BY <1>1, <1>2, <1>3, <1>4 DEF ModelOfFiles, Readable

(* A new parser finds its own objects at their indices. *)
LEMMA ParseFollowsSettings ==
  ASSUME NEW S, NEW packed \in Seq(S), Parse(<<>>, packed),
         \A k \in DOMAIN packed : packed[k].period = NoFile
  PROVE  FollowsSettings'
<1> DEFINE r == Reached(packed)  mine == SubSeq(packed, 1, r)
<1>1. r \in 0..Len(packed) /\ Written(packed) \in 0..r
      /\ Len(packed) \in Nat /\ DOMAIN packed = 1..Len(packed)
  BY HowFar, LenProperties
<1> HIDE DEF r
<1>2. mine \in Seq(S) /\ \A k \in 1..r : mine[k] = packed[k]
  <2>1. \A i \in 1..r : packed[i] \in S
    BY <1>1, ElementOfSeq
  <2> QED
    BY <1>1, <2>1, SubSeqProperties
<1>3. <<>> \o mine = mine
  BY <1>2, ConcatEmptySeq
<1>4. asked' = packed
  BY DEF Parse
<1>5. ASSUME NEW k \in DOMAIN packed, k \in DOMAIN model'.dags
      PROVE  /\ \A field \in {"mem", "step", "stride"} : model'.dags[k][field] = packed[k][field]
             /\ model'.dags[k].period \in {packed[k].path, NoFile}
  <2> DEFINE d == Object(mine[k], packed, k, k)
  <2>1. k \in 1..Written(packed) /\ k \in Nat \ {0} /\ k \in 1..r
    BY <1>1, <1>5, ModelDags
  <2>2. /\ model'.dags[k].period = d.period /\ model'.dags[k].mem = d.mem
        /\ model'.dags[k].step = d.step /\ model'.dags[k].stride = d.stride
    <3> DEFINE e == Object((<<>> \o mine)[k], packed, k, k)
    <3>1. /\ model'.dags[k].period = e.period /\ model'.dags[k].mem = e.mem
          /\ model'.dags[k].step = e.step /\ model'.dags[k].stride = e.stride
      BY <2>1, ModelDags, ZenonT(60) DEF r
    <3>2. e = d
      BY <1>3
    <3> HIDE DEF e, d
    <3> QED
      BY <3>1, <3>2
  <2>3. mine[k] = packed[k] /\ packed[k].period = NoFile
    BY <1>2, <2>1
  <2>4. /\ d.period \in {packed[k].path, NoFile}
        /\ d.mem = packed[k].mem /\ d.step = packed[k].step /\ d.stride = packed[k].stride
    <3> HIDE DEF mine
    <3>1. /\ d.period \in {packed[k].path, mine[k].period}
          /\ \A field \in {"mem", "step", "stride"} : d[field] = mine[k][field]
      BY <2>1, ObjectOfFile
    <3> HIDE DEF d
    <3> QED
      BY <2>3, <3>1
  <2> HIDE DEF d, mine
  <2> QED
    BY <2>2, <2>4
<1> QED
  BY <1>4, <1>5 DEF FollowsSettings

(* What PackDags makes of a list is a list. *)
LEMMA PackedSequence ==
  ASSUME NEW T, NEW list \in Seq(T), NEW packed, packed = [k \in DOMAIN list |-> packed[k]]
  PROVE  packed \in Seq({packed[k] : k \in DOMAIN list}) /\ DOMAIN packed = DOMAIN list
<1> DEFINE n == Len(list)  S == {packed[k] : k \in DOMAIN list}
<1>1. n \in Nat /\ DOMAIN list = 1..n
  BY LenProperties
<1> HIDE DEF n
<1>2. packed \in [1..n -> S]
  <2>1. \A k \in 1..n : packed[k] \in S
    BY <1>1
  <2>2. packed = [k \in 1..n |-> packed[k]]
    BY <1>1
  <2> HIDE DEF S
  <2> QED
    BY <2>1, <2>2
<1> HIDE DEF S
<1>3. packed \in Seq(S)
  BY <1>1, <1>2, SeqDef
<1> QED
  BY <1>3 DEF S

LEMMA NoModelYet == GeneratorInit => ModelOfFiles /\ FollowsSettings
BY DEF GeneratorInit, ModelOfFiles, FollowsSettings

(* A step of a window that does not parse changes nothing of the generator. *)
LEMMA GeneratorKept ==
  ASSUME UNCHANGED generatorVars
  PROVE  /\ ModelOfFiles' = ModelOfFiles /\ FollowsSettings' = FollowsSettings
         /\ first' = first
BY DEF generatorVars, ModelOfFiles, FollowsSettings, Readable

-----------------------------------------------------------------------------
LEMMA SwtStep == SwtInv /\ [SwtNext]_<<generatorVars, windowVars>> => SwtInv'
<1> SUFFICES ASSUME SwtInv, [SwtNext]_<<generatorVars, windowVars>> PROVE SwtInv'
  OBVIOUS
<1>1. CASE UNCHANGED <<generatorVars, windowVars>>
  BY <1>1, GeneratorKept DEF SwtInv, windowVars, NewParserFollowsSettings
<1>2. CASE GenerateCode
  <2>1. Parse(parsed, PackDags) /\ dags' = dags /\ (generated' => Throws(PackDags) = {})
    BY <1>2 DEF GenerateCode, windowVars
  <2>2. PICK S : PackDags \in Seq(S)
    <3>1. PackDags = [k \in DOMAIN dags |-> PackDags[k]]
      BY DEF PackDags
    <3> QED
      BY <3>1, PackedSequence DEF SwtInv
  <2>3. ModelOfFiles'
    BY <2>1, <2>2, ParseModelOfFiles
  <2>4. ASSUME first' PROVE FollowsSettings'
    <3>1. Parse(<<>>, PackDags)
      BY <2>1, <2>4 DEF Parse
    <3>2. \A k \in DOMAIN PackDags : PackDags[k].period = NoFile
      BY DEF PackDags, Dag
    <3> QED
      BY <2>2, <3>1, <3>2, ParseFollowsSettings
  <2> QED
    BY <2>1, <2>3, <2>4 DEF SwtInv, NewParserFollowsSettings
<1>3. ASSUME UNCHANGED generatorVars, dags' \in Seq(File)
      PROVE  SwtInv'
  BY <1>3, GeneratorKept DEF SwtInv, NewParserFollowsSettings
<1>4. CASE AddDags(<<>>) /\ UNCHANGED generatorVars
  BY <1>3, <1>4, ConcatEmptySeq DEF AddDags, SwtInv
<1>5. ASSUME NEW f \in File, AddDags(<<f>>), UNCHANGED generatorVars PROVE SwtInv'
  <2>1. <<f>> \in Seq(File)
    OBVIOUS
  <2> QED
    BY <1>3, <1>5, <2>1, ConcatProperties DEF AddDags, SwtInv
<1>6. CASE ClearDags /\ UNCHANGED generatorVars
  BY <1>3, <1>6 DEF ClearDags, SwtInv
<1>7. ASSUME NEW k \in DOMAIN dags, DeleteDag(k), UNCHANGED generatorVars PROVE SwtInv'
  <2>1. /\ dags \in Seq(File) /\ Len(dags) \in Nat /\ DOMAIN dags = 1..Len(dags)
        /\ k \in 1..Len(dags)
    BY <1>7, LenProperties DEF SwtInv
  <2>2. \A i \in 1..Len(dags) : dags[i] \in File
    BY <2>1, ElementOfSeq
  <2>3. SubSeq(dags, 1, k - 1) \in Seq(File)
    BY <2>1, <2>2, SubSeqProperties
  <2>4. SubSeq(dags, k + 1, Len(dags)) \in Seq(File)
    BY <2>1, <2>2, SubSeqProperties
  <2> QED
    BY <1>3, <1>7, <2>3, <2>4, ConcatProperties DEF DeleteDag, RemoveAt
<1>8. ASSUME NEW s \in SwtChoices, Select(s), UNCHANGED generatorVars PROVE SwtInv'
  BY <1>3, <1>8 DEF Select, SwtInv
<1>9. CASE SelectBackend /\ UNCHANGED generatorVars
  BY <1>3, <1>9 DEF SelectBackend, SwtInv
<1> QED
  BY <1>1, <1>2, <1>4, <1>5, <1>6, <1>7, <1>8, <1>9 DEF SwtNext

LEMMA SwtInvariance == SwtSpec => []SwtInv
<1>1. GeneratorInit /\ SwtInit => SwtInv
  BY NoModelYet DEF SwtInit, SwtInv, NewParserFollowsSettings
<1> QED
  BY <1>1, SwtStep, PTL DEF SwtSpec

(* In the window that keeps its parser, for any files, settings and sequence   *)
(* of clicks, a back end gets one DAG for each file of the window             *)
(* (XMLGenerator.java 174-190, SwtGui.java 738-772).                          *)
THEOREM SwtModelHolds == SwtSpec => []ModelOfFiles
<1>1. SwtInv => ModelOfFiles
  BY DEF SwtInv
<1> QED
  BY <1>1, SwtInvariance, PTL

(* The settings in the model are those of the window while its parser is new   *)
(* (XMLGenerator.java 174-190).                                               *)
THEOREM SwtSettingsHold == SwtSpec => []NewParserFollowsSettings
<1>1. SwtInv => NewParserFollowsSettings
  BY DEF SwtInv
<1> QED
  BY <1>1, SwtInvariance, PTL

-----------------------------------------------------------------------------
LEMMA HgStep == HgInv /\ [HgNext]_<<generatorVars, hgVars>> => HgInv'
<1> SUFFICES ASSUME HgInv, [HgNext]_<<generatorVars, hgVars>> PROVE HgInv'
  OBVIOUS
<1>1. CASE UNCHANGED <<generatorVars, hgVars>>
  BY <1>1, GeneratorKept DEF HgInv, hgVars
<1>2. CASE HgGenerateCode
  <2>1. Parse(<<>>, HgPackDags) /\ UNCHANGED hgVars
        /\ (generated' => Throws(HgPackDags) = {})
    BY <1>2 DEF HgGenerateCode, ParserOf
  <2>2. PICK S : HgPackDags \in Seq(S)
    <3>1. HgPackDags = [k \in DOMAIN ready |-> HgPackDags[k]]
      BY DEF HgPackDags
    <3> QED
      BY <3>1, PackedSequence DEF HgInv
  <2>3. \A k \in DOMAIN HgPackDags : HgPackDags[k].period = NoFile
    BY DEF HgPackDags, Dag
  <2>4. ModelOfFiles' /\ FollowsSettings'
    BY <2>1, <2>2, <2>3, ParseModelOfFiles, ParseFollowsSettings
  <2> QED
    BY <2>1, <2>4 DEF HgInv, hgVars
<1>3. CASE (\E files \in SUBSET File : LoadDags(files)) /\ UNCHANGED generatorVars
  BY <1>3, GeneratorKept DEF HgInv, LoadDags
<1>4. ASSUME NEW s \in HgChoices, Choose(s), UNCHANGED generatorVars PROVE HgInv'
  BY <1>4, GeneratorKept DEF HgInv, Choose
<1>5. ASSUME NEW f \in File, ApplyMemAccess(f), UNCHANGED generatorVars PROVE HgInv'
  <2>1. Element(f) \in Elements
    BY DEF Element, Elements, HgInv
  <2>2. ready' \in Seq(Elements)
    BY <1>5, <2>1 DEF ApplyMemAccess, HgInv
  <2> QED
    BY <1>5, <2>2, GeneratorKept DEF HgInv, ApplyMemAccess
<1>6. CASE CancelDialog /\ UNCHANGED generatorVars
  BY <1>6, GeneratorKept DEF HgInv, CancelDialog
<1> QED
  BY <1>1, <1>2, <1>3, <1>4, <1>5, <1>6 DEF HgNext

(* In the window that makes a parser for each click, both hold at every click  *)
(* (hgGUI.java 1011-1050).                                                    *)
THEOREM HgModelHolds == HgSpec => [](ModelOfFiles /\ HgFollowsSettings)
<1>1. GeneratorInit /\ HgInit => HgInv
  BY NoModelYet DEF HgInit, HgInv
<1>2. HgInv => ModelOfFiles /\ HgFollowsSettings
  BY DEF HgInv, HgFollowsSettings
<1> QED
  BY <1>1, <1>2, HgStep, PTL DEF HgSpec
=============================================================================
