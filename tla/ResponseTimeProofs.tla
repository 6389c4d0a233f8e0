------------------------- MODULE ResponseTimeProofs -------------------------
(***************************************************************************)
(* The analysis is exact, for a core of any number of tasks, preemptive or *)
(* cooperative, with any periods and execution times.                      *)
(*                                                                         *)
(* The iteration of Settle finds the least fixed point, since what it      *)
(* iterates is monotonic (SettleLeast); released work grows from one unit  *)
(* to the next by what is released at it (ReleasedStep).                   *)
(*                                                                         *)
(* A preemptive task: the schedule is busy with it and the tasks above it  *)
(* up to the fixed point, and the unit that it waits for ends exactly      *)
(* there (ScheduleFinds).  The other analysis, which a miss leads to,      *)
(* finds no less than the first one (MissNoBetter), so its answers belong  *)
(* to tasks that miss.                                                     *)
(*                                                                         *)
(* A cooperative task: until a job of its busy period is through, the      *)
(* processor is not idle (NeverIdle), so the runnable starts at the first  *)
(* fixed point (JobBegins); from then on only preemptive tasks get in its  *)
(* way, and it ends at the second one (JobEnds).  For jobs after the first *)
(* this takes rate-monotonic priorities, since the busy period counts the  *)
(* tasks above with the period of the task itself; a task that meets its   *)
(* deadline has no job after the first (OneJob).                           *)
(***************************************************************************)
EXTENDS ResponseTime, SequenceTheorems, WellFoundedInduction, TLAPS

(* Every set of naturals has a least member: the library's theorem about       *)
(* minimal members, for the order of the naturals.  Induction over data is     *)
(* done with it: of the arguments for which a claim fails there is no least.    *)
LEMMA LeastNatural ==
  ASSUME NEW S \in SUBSET Nat, S # {}
  PROVE  \E m \in S : \A k \in S : m <= k
<1>1. PICK R : IsWellFoundedOn(R, Nat) /\ \A x, y \in Nat : y < x => <<y, x>> \in R
  <2>1. \A x, y \in Nat : y < x => <<y, x>> \in OpToRel(<, Nat)
    BY DEF OpToRel
  <2> QED
    BY <2>1, NatLessThanWellFounded
<1>2. PICK m \in S : \A y \in S : ~(<<y, m>> \in R)
  BY <1>1, WFMin
<1>3. \A k \in S : ~(k < m)
  BY <1>1, <1>2, Zenon
<1>4. \A k \in S : m <= k
  BY <1>3
<1> QED
  BY <1>4

(* Induction, for a claim given by the set of the numbers it holds for. *)
LEMMA Induction ==
  ASSUME NEW S, 0 \in S, \A i \in Nat : i \in S => i + 1 \in S
  PROVE  \A i \in Nat : i \in S
<1> SUFFICES ASSUME Nat \ S # {} PROVE FALSE
  OBVIOUS
<1>1. PICK m \in Nat \ S : \A k \in Nat \ S : m <= k
  BY LeastNatural
<1>2. m # 0 /\ m - 1 \in Nat /\ m - 1 \in S
  BY <1>1
<1> QED
  BY <1>1, <1>2

-----------------------------------------------------------------------------
(* Sums. *)

LEMMA Tuple ==
  ASSUME NEW n \in Nat, NEW s \in [1..n -> Nat]
  PROVE  s \in Seq(Nat) /\ Len(s) = n /\ DOMAIN s = 1..n
BY SeqDef, LenProperties

(* The sums of the first members of a sequence. *)
Partial(s, n) == {g \in [0..n -> Int] : g[0] = 0 /\ \A i \in 1..n : g[i] = g[i - 1] + s[i]}

LEMMA PartialStep ==
  ASSUME NEW n \in Nat, NEW s \in [1..n -> Int], NEW g \in Partial(s, n), NEW k \in Nat, k + 1 <= n
  PROVE  /\ g[k + 1] = g[k] + s[k + 1]
         /\ g[k] \in Int /\ g[k + 1] \in Int /\ s[k + 1] \in Int
<1>1. k + 1 \in 1..n /\ k \in 0..n /\ k + 1 \in 0..n /\ (k + 1) - 1 = k
  OBVIOUS
<1>2. g \in [0..n -> Int] /\ \A i \in 1..n : g[i] = g[i - 1] + s[i]
  BY DEF Partial
<1> QED
  BY <1>1, <1>2

LEMMA PartialSums ==
  ASSUME NEW n \in Nat, NEW s \in [1..n -> Int]
  PROVE  \E g \in Partial(s, n) : Sum(s) = g[n]
<1> DEFINE Has == {k \in Nat : k <= n => Partial(s, k) # {}}
<1>1. 0 \in Has
  <2>1. [i \in 0..0 |-> 0] \in Partial(s, 0)
    BY DEF Partial
  <2> QED
    BY <2>1
<1>2. ASSUME NEW k \in Nat, k \in Has PROVE k + 1 \in Has
  <2> SUFFICES ASSUME k + 1 <= n PROVE Partial(s, k + 1) # {}
    OBVIOUS
  <2>1. PICK g : g \in Partial(s, k)
    BY <1>2
  <2> DEFINE h == [i \in 0..(k + 1) |-> IF i = k + 1 THEN g[k] + s[k + 1] ELSE g[i]]
  <2>2. g \in [0..k -> Int] /\ g[0] = 0 /\ \A i \in 1..k : g[i] = g[i - 1] + s[i]
    BY <2>1 DEF Partial
  <2>3. g[k] \in Int /\ s[k + 1] \in Int
    BY <2>2
  <2>4. h \in [0..(k + 1) -> Int] /\ h[0] = 0
    BY <2>2, <2>3
  <2>5. ASSUME NEW i \in 1..(k + 1) PROVE h[i] = h[i - 1] + s[i]
    <3>1. CASE i = k + 1
      BY <3>1, <2>3
    <3>2. CASE i \in 1..k
      BY <3>2, <2>2
    <3> QED
      BY <3>1, <3>2
  <2> QED
    BY <2>4, <2>5 DEF Partial
<1> HIDE DEF Has
<1>3. n \in Has
  BY <1>1, <1>2, Induction
<1>4. PICK g : g \in Partial(s, n)
  BY <1>3 DEF Has
<1>5. g = [i \in 0..n |-> IF i = 0 THEN 0 ELSE g[i - 1] + s[i]]
  BY <1>4 DEF Partial
<1>6. Len(s) = n
  BY Tuple
<1> DEFINE total == CHOOSE t : t = [i \in 0..Len(s) |-> IF i = 0 THEN 0 ELSE t[i - 1] + s[i]]
<1>7. total = [i \in 0..n |-> IF i = 0 THEN 0 ELSE total[i - 1] + s[i]]
  BY <1>5, <1>6
<1>8. Sum(s) = total[n]
  BY <1>6 DEF Sum
<1> HIDE DEF total
<1>9. total \in Partial(s, n)
  <2> DEFINE Typed == {k \in Nat : k <= n => total[k] \in Int}
  <2>1. 0 \in Typed
    BY <1>7
  <2>2. ASSUME NEW k \in Nat, k \in Typed PROVE k + 1 \in Typed
    BY <1>7, <2>2
  <2> HIDE DEF Typed
  <2>3. \A k \in Nat : k \in Typed
    BY <2>1, <2>2, Induction
  <2>4. \A k \in 0..n : total[k] \in Int
    BY <2>3 DEF Typed
  <2> QED
    BY <1>7, <2>4 DEF Partial
<1> QED
  BY <1>8, <1>9

LEMMA SumInt ==
  ASSUME NEW n \in Nat, NEW s \in [1..n -> Int]
  PROVE  Sum(s) \in Int
BY PartialSums DEF Partial

(* The sums of naturals grow. *)
LEMMA PartialGrows ==
  ASSUME NEW n \in Nat, NEW s \in [1..n -> Nat], NEW g \in Partial(s, n)
  PROVE  \A j \in 0..n : g[j] \in Nat /\ \A i \in 0..j : g[i] <= g[j]
<1> DEFINE Grows == {j \in Nat : j <= n => g[j] \in Nat /\ \A i \in 0..j : g[i] <= g[j]}
<1>1. 0 \in Grows
  BY DEF Partial
<1>2. ASSUME NEW j \in Nat, j \in Grows PROVE j + 1 \in Grows
  <2> SUFFICES ASSUME j + 1 <= n
               PROVE  g[j + 1] \in Nat /\ \A i \in 0..(j + 1) : g[i] <= g[j + 1]
    OBVIOUS
  <2>1. s \in [1..n -> Int] /\ s[j + 1] \in Nat
    OBVIOUS
  <2>2. g[j + 1] = g[j] + s[j + 1]
    BY <2>1, PartialStep
  <2>3. g[j] \in Nat /\ \A i \in 0..j : g[i] <= g[j] /\ g[i] \in Int
    BY <1>2 DEF Partial
  <2>4. \A i \in 0..(j + 1) : i \in 0..j \/ i = j + 1
    OBVIOUS
  <2> QED
    BY <2>1, <2>2, <2>3, <2>4
<1> HIDE DEF Grows
<1>3. \A j \in Nat : j \in Grows
  BY <1>1, <1>2, Induction
<1> QED
  BY <1>3 DEF Grows

LEMMA SumType ==
  ASSUME NEW n \in Nat, NEW s \in [1..n -> Nat]
  PROVE  Sum(s) \in Nat
<1>1. s \in [1..n -> Int]
  OBVIOUS
<1> QED
  BY <1>1, PartialSums, PartialGrows

(* Sums of sequences of the same length add up. *)
LEMMA SumAddInt ==
  ASSUME NEW n \in Nat, NEW s \in [1..n -> Int], NEW t \in [1..n -> Int], NEW u \in [1..n -> Int],
         \A i \in 1..n : u[i] = s[i] + t[i]
  PROVE  Sum(u) = Sum(s) + Sum(t)
<1>1. PICK f \in Partial(s, n) : Sum(s) = f[n]
  BY PartialSums
<1>2. PICK g \in Partial(t, n) : Sum(t) = g[n]
  BY PartialSums
<1>3. PICK h \in Partial(u, n) : Sum(u) = h[n]
  BY PartialSums
<1> DEFINE Equal == {k \in Nat : k <= n => h[k] = f[k] + g[k]}
<1>4. 0 \in Equal
  BY DEF Partial
<1>5. ASSUME NEW k \in Nat, k \in Equal PROVE k + 1 \in Equal
  <2> SUFFICES ASSUME k + 1 <= n PROVE h[k + 1] = f[k + 1] + g[k + 1]
    OBVIOUS
  <2>1. h[k] = f[k] + g[k] /\ u[k + 1] = s[k + 1] + t[k + 1]
    BY <1>5
  <2>2. f[k + 1] = f[k] + s[k + 1] /\ f[k] \in Int /\ s[k + 1] \in Int
    BY PartialStep
  <2>3. g[k + 1] = g[k] + t[k + 1] /\ g[k] \in Int /\ t[k + 1] \in Int
    BY PartialStep
  <2>4. h[k + 1] = h[k] + u[k + 1]
    BY PartialStep
  <2> DEFINE fk == f[k]  gk == g[k]  sk == s[k + 1]  tk == t[k + 1]
  <2>5. /\ fk \in Int /\ gk \in Int /\ sk \in Int /\ tk \in Int
        /\ f[k + 1] = fk + sk /\ g[k + 1] = gk + tk /\ h[k + 1] = (fk + gk) + (sk + tk)
    BY <2>1, <2>2, <2>3, <2>4, Zenon
  <2> HIDE DEF fk, gk, sk, tk
  <2>6. (fk + gk) + (sk + tk) = (fk + sk) + (gk + tk)
    BY <2>5
  <2> QED
    BY <2>5, <2>6, Zenon
<1> HIDE DEF Equal
<1>6. n \in Equal
  BY <1>4, <1>5, Induction
<1> QED
  BY <1>1, <1>2, <1>3, <1>6 DEF Equal

Adds(u, s, t, n) ==
  /\ s \in [1..n -> Int] /\ t \in [1..n -> Int] /\ u \in [1..n -> Int]
  /\ \A i \in 1..n : u[i] = s[i] + t[i]

LEMMA AddsUp ==
  ASSUME NEW n \in Nat, NEW s, NEW t, NEW u, Adds(u, s, t, n)
  PROVE  Sum(u) = Sum(s) + Sum(t)
<1>1. /\ s \in [1..n -> Int] /\ t \in [1..n -> Int] /\ u \in [1..n -> Int]
      /\ \A i \in 1..n : u[i] = s[i] + t[i]
  BY DEF Adds
<1> QED
  BY <1>1, SumAddInt

LEMMA SumAdd ==
  ASSUME NEW n \in Nat, NEW s \in [1..n -> Nat], NEW t \in [1..n -> Nat], NEW u \in [1..n -> Nat],
         \A i \in 1..n : u[i] = s[i] + t[i]
  PROVE  Sum(u) = Sum(s) + Sum(t)
<1>1. s \in [1..n -> Int] /\ t \in [1..n -> Int] /\ u \in [1..n -> Int]
  OBVIOUS
<1> QED
  BY <1>1, SumAddInt

LEMMA SumMonotonic ==
  ASSUME NEW n \in Nat, NEW s \in [1..n -> Nat], NEW t \in [1..n -> Nat],
         \A i \in 1..n : s[i] <= t[i]
  PROVE  Sum(s) <= Sum(t)
<1> DEFINE d == [i \in 1..n |-> t[i] - s[i]]
<1>1. d \in [1..n -> Nat] /\ \A i \in 1..n : t[i] = s[i] + d[i]
  OBVIOUS
<1> HIDE DEF d
<1>2. Sum(t) = Sum(s) + Sum(d)
  BY <1>1, SumAdd
<1>3. Sum(s) \in Nat /\ Sum(d) \in Nat
  BY <1>1, SumType
<1> QED
  BY <1>2, <1>3

LEMMA SumZero ==
  ASSUME NEW n \in Nat, NEW s \in [1..n -> Nat], \A i \in 1..n : s[i] = 0
  PROVE  Sum(s) = 0
<1>1. Sum(s) = Sum(s) + Sum(s)
  BY SumAdd
<1> QED
  BY <1>1, SumType

(* Taking one from a member takes one from the sum. *)
LEMMA SumTake ==
  ASSUME NEW n \in Nat, NEW s \in [1..n -> Nat], NEW j \in 1..n, s[j] > 0
  PROVE  Sum([s EXCEPT ![j] = @ - 1]) = Sum(s) - 1
<1> DEFINE t == [s EXCEPT ![j] = @ - 1]
<1>1. /\ t \in [1..n -> Nat] /\ \A i \in 1..n : t[i] = IF i = j THEN s[i] - 1 ELSE s[i]
      /\ t \in [1..n -> Int] /\ s \in [1..n -> Int]
  OBVIOUS
<1> HIDE DEF t
<1>2. PICK f \in Partial(s, n) : Sum(s) = f[n]
  BY <1>1, PartialSums
<1>3. PICK g \in Partial(t, n) : Sum(t) = g[n]
  BY <1>1, PartialSums
<1> DEFINE Equal == {k \in Nat : k <= n => g[k] = IF k < j THEN f[k] ELSE f[k] - 1}
<1>4. 0 \in Equal
  BY DEF Partial
<1>5. ASSUME NEW k \in Nat, k \in Equal PROVE k + 1 \in Equal
  <2> SUFFICES ASSUME k + 1 <= n
               PROVE  g[k + 1] = IF k + 1 < j THEN f[k + 1] ELSE f[k + 1] - 1
    OBVIOUS
  <2>1. f[k + 1] = f[k] + s[k + 1] /\ f[k] \in Int /\ s[k + 1] \in Int
    BY <1>1, PartialStep
  <2>2. g[k + 1] = g[k] + t[k + 1]
    BY <1>1, <1>3, PartialStep
  <2>3. g[k] = IF k < j THEN f[k] ELSE f[k] - 1
    BY <1>5
  <2>4. t[k + 1] = IF k + 1 = j THEN s[k + 1] - 1 ELSE s[k + 1]
    BY <1>1
  <2>5. CASE k + 1 < j
    BY <2>1, <2>2, <2>3, <2>4, <2>5
  <2>6. CASE k + 1 = j
    BY <2>1, <2>2, <2>3, <2>4, <2>6
  <2>7. CASE k + 1 > j
    <3>1. ~(k < j) /\ k + 1 # j /\ ~(k + 1 < j)
      BY <2>7
    <3>2. g[k] = f[k] - 1 /\ t[k + 1] = s[k + 1]
      BY <2>3, <2>4, <3>1
    <3> QED
      BY <2>1, <2>2, <3>1, <3>2
  <2> QED
    BY <2>5, <2>6, <2>7
<1> HIDE DEF Equal
<1>6. n \in Equal
  BY <1>4, <1>5, Induction
<1> QED
  BY <1>2, <1>3, <1>6 DEF Equal, t

(* The sums of the prefixes of a sequence are its partial sums. *)
LEMMA PrefixSums ==
  ASSUME NEW n \in Nat, NEW s \in [1..n -> Nat]
  PROVE  \E g \in Partial(s, n) : /\ Sum(s) = g[n]
                                 /\ \A r \in 1..n : Sum(SubSeq(s, 1, r)) = g[r]
<1>1. s \in [1..n -> Int]
  OBVIOUS
<1>2. PICK g \in Partial(s, n) : Sum(s) = g[n]
  BY <1>1, PartialSums
<1>3. ASSUME NEW r \in 1..n PROVE Sum(SubSeq(s, 1, r)) = g[r]
  <2> DEFINE p == SubSeq(s, 1, r)
  <2>1. p \in [1..r -> Int] /\ r \in Nat /\ \A i \in 1..r : p[i] = s[i]
    <3>1. s \in Seq(Int) /\ Len(s) = n
      BY <1>1, SeqDef, LenProperties
    <3>2. p \in Seq(Int) /\ Len(p) = r /\ \A i \in 1..r : p[i] = s[i]
      BY <3>1, SubSeqProperties
    <3> QED
      BY <3>2, LenProperties
  <2> HIDE DEF p
  <2>2. PICK h \in Partial(p, r) : Sum(p) = h[r]
    BY <2>1, PartialSums
  <2> DEFINE Equal == {k \in Nat : k <= r => h[k] = g[k]}
  <2>3. 0 \in Equal
    BY DEF Partial
  <2>4. ASSUME NEW k \in Nat, k \in Equal PROVE k + 1 \in Equal
    <3> SUFFICES ASSUME k + 1 <= r PROVE h[k + 1] = g[k + 1]
      OBVIOUS
    <3>1. h[k + 1] = h[k] + p[k + 1]
      BY <2>1, PartialStep
    <3>2. g[k + 1] = g[k] + s[k + 1]
      <4>1. k + 1 <= n
        BY <2>1
      <4> QED
        BY <1>1, <4>1, PartialStep
    <3> QED
      BY <2>1, <2>4, <3>1, <3>2
  <2> HIDE DEF Equal
  <2>5. r \in Equal
    BY <2>1, <2>3, <2>4, Induction
  <2> QED
    BY <2>2, <2>5 DEF Equal, p
<1> QED
  BY <1>2, <1>3

LEMMA MemberBelowSum ==
  ASSUME NEW n \in Nat, NEW s \in [1..n -> Nat], NEW r \in 1..n
  PROVE  s[r] <= Sum(s) /\ Sum(s) \in Nat
<1>1. s \in [1..n -> Int] /\ r - 1 \in Nat /\ (r - 1) + 1 = r /\ s[r] \in Nat
  OBVIOUS
<1>2. PICK g \in Partial(s, n) : Sum(s) = g[n]
  BY <1>1, PartialSums
<1>3. g[r] = g[r - 1] + s[r]
  BY DEF Partial
<1>4. r - 1 \in 0..n /\ r \in 0..n /\ n \in 0..n /\ r \in 0..n
  OBVIOUS
<1>5. g[r - 1] \in Nat /\ g[n] \in Nat /\ g[r] <= g[n]
  BY <1>4, PartialGrows
<1> QED
  BY <1>1, <1>2, <1>3, <1>5

-----------------------------------------------------------------------------
(* Fixed points. *)

Turn(F, f, old) == IF old < f[old] /\ f[old] <= Horizon THEN F[f[old]] ELSE f[old]

LEMMA HorizonType == Horizon \in Nat
BY AnalysisAssumption

(* The loop of Settle is defined: it ends for values from Horizon downwards. *)
LEMMA LoopExists ==
  ASSUME NEW f \in [Nat -> Int]
  PROVE  \E F \in [Nat -> Int] : \A old \in Nat : F[old] = Turn(F, f, old)
<1> DEFINE Right(F, k) == \A old \in Nat : old + k >= Horizon => F[old] = Turn(F, f, old)
           Has == {k \in Nat : \E F \in [Nat -> Int] : Right(F, k)}
<1> USE HorizonType
<1>1. 0 \in Has
  <2>1. \A old \in Nat : old >= Horizon => f[old] = Turn(f, f, old)
    BY DEF Turn
  <2>2. Right(f, 0)
    BY <2>1
  <2> QED
    BY <2>2
<1>2. ASSUME NEW k \in Nat, k \in Has PROVE k + 1 \in Has
  <2>1. PICK F \in [Nat -> Int] : Right(F, k)
    BY <1>2
  <2> DEFINE G == [x \in Nat |-> IF x + k + 1 = Horizon THEN Turn(F, f, x) ELSE F[x]]
  <2>2. \A x \in Nat : f[x] \in Int /\ Turn(F, f, x) \in Int
    BY DEF Turn
  <2>3. /\ G \in [Nat -> Int]
        /\ \A x \in Nat : x + k + 1 >= Horizon => G[x] = Turn(F, f, x)
        /\ \A x \in Nat : x + k >= Horizon => G[x] = F[x]
    BY <2>1, <2>2
  <2> HIDE DEF G
  <2>4. \A x \in Nat : x + k + 1 >= Horizon => Turn(G, f, x) = Turn(F, f, x)
    BY <2>2, <2>3 DEF Turn
  <2>5. Right(G, k + 1)
    BY <2>3, <2>4
  <2> QED
    BY <2>3, <2>5
<1> HIDE DEF Has
<1>3. Horizon \in Has
  BY <1>1, <1>2, Induction
<1> QED
  BY <1>3 DEF Has

LEMMA Loop ==
  ASSUME NEW f \in [Nat -> Int], NEW init \in Nat
  PROVE  \E F : Settle(f, init) = F[init] /\ \A old \in Nat : F[old] = Turn(F, f, old)
<1>1. PICK F \in [Nat -> Int] : \A old \in Nat : F[old] = Turn(F, f, old)
  BY LoopExists
<1> DEFINE Is(G) == G = [old \in Nat |->
                           IF old < f[old] /\ f[old] <= Horizon THEN G[f[old]] ELSE f[old]]
           last == CHOOSE G : Is(G)
<1>2. Is(F)
  BY <1>1 DEF Turn
<1>3. Is(last)
  BY <1>2
<1>4. Settle(f, init) = last[init]
  BY DEF Settle
<1> HIDE DEF last
<1>5. \A old \in Nat : last[old] = Turn(last, f, old)
  BY <1>3 DEF Turn
<1> QED
  BY <1>4, <1>5

(* For a monotonic f that does not lead below init, Settle finds its least     *)
(* fixed point from init on, unless that is beyond the horizon.                *)
LEMMA SettleLeast ==
  ASSUME NEW f \in [Nat -> Int], NEW init \in Nat, f[init] >= init,
         \A x, y \in Nat : x <= y => f[x] <= f[y]
  PROVE  /\ Settle(f, init) \in Nat /\ Settle(f, init) >= init
         /\ Settle(f, init) <= Horizon =>
              /\ f[Settle(f, init)] = Settle(f, init)
              /\ \A x \in Nat : init <= x /\ x < Settle(f, init) => x < f[x]
<1> USE HorizonType
<1>1. PICK F : Settle(f, init) = F[init] /\ \A old \in Nat : F[old] = Turn(F, f, old)
  BY Loop
<1> DEFINE Below(x) == \A y \in Nat : init <= y /\ y < x => y < f[y]
           Good(x) == /\ x \in Nat /\ x >= init
                      /\ x <= Horizon => f[x] = x /\ Below(x)
           Reached(old) == init <= old /\ old <= f[old] /\ Below(old)
           Done == {k \in Nat : \A old \in Nat : Reached(old) /\ old + k >= Horizon => Good(F[old])}
<1>2. ASSUME NEW old \in Nat, Reached(old), ~(old < f[old] /\ f[old] <= Horizon)
      PROVE  Good(F[old])
  <2>1. F[old] = f[old] /\ f[old] \in Nat
    BY <1>1, <1>2 DEF Turn
  <2>2. Good(f[old])
    <3>1. CASE f[old] = old
      BY <1>2, <3>1
    <3>2. CASE f[old] > Horizon
      BY <1>2, <2>1, <3>2
    <3> QED
      BY <1>2, <2>1, <3>1, <3>2
  <2> QED
    BY <2>1, <2>2
<1>3. 0 \in Done
  <2>1. ASSUME NEW old \in Nat, old >= Horizon PROVE ~(old < f[old] /\ f[old] <= Horizon)
    BY <2>1
  <2> QED
    BY <1>2, <2>1
<1>4. ASSUME NEW k \in Nat, k \in Done PROVE k + 1 \in Done
  <2> SUFFICES ASSUME NEW old \in Nat, Reached(old), old + k + 1 >= Horizon
               PROVE  Good(F[old])
    OBVIOUS
  <2>1. CASE old < f[old] /\ f[old] <= Horizon
    <3>1. f[old] \in Nat /\ f[old] <= f[f[old]] /\ F[old] = F[f[old]]
      BY <1>1, <2>1 DEF Turn
    <3>2. ASSUME NEW y \in Nat, init <= y, y < f[old] PROVE y < f[y]
      <4>1. CASE y < old
        BY <3>2, <4>1
      <4>2. CASE old <= y
        <5>1. f[old] <= f[y] /\ f[y] \in Nat
          BY <4>2
        <5> QED
          BY <3>1, <3>2, <5>1
      <4> QED
        BY <4>1, <4>2
    <3>3. Reached(f[old])
      BY <2>1, <3>1, <3>2
    <3>4. f[old] + k >= Horizon
      BY <2>1, <3>1
    <3>5. Good(F[f[old]])
      BY <1>4, <3>1, <3>3, <3>4
    <3> QED
      BY <3>1, <3>5
  <2>2. CASE ~(old < f[old] /\ f[old] <= Horizon)
    BY <1>2, <2>2
  <2> QED
    BY <2>1, <2>2
<1>5. \A k \in Nat : k \in Done
  <2> HIDE DEF Done
  <2> QED
    BY <1>3, <1>4, Induction
<1>6. Reached(init)
  OBVIOUS
<1>7. Good(F[init])
  <2>1. Horizon \in Done
    <3> HIDE DEF Done
    <3> QED
      BY <1>5
  <2>2. init + Horizon >= Horizon
    OBVIOUS
  <2> QED
    BY <1>6, <2>1, <2>2
<1> QED
  BY <1>1, <1>7

-----------------------------------------------------------------------------
(* Releases. *)

(* Multiplication by a natural number keeps the order. *)
LEMMA ProductMonotonic ==
  ASSUME NEW i \in Int, NEW j \in Int, NEW k \in Nat, i <= j
  PROVE  i * k <= j * k
<1>1. (j - i) * k >= 0
  BY SMT
<1> QED
  BY <1>1, SMT

LEMMA CeilStep ==
  ASSUME NEW x \in Nat, NEW p \in Nat \ {0}
  PROVE  /\ MyCeil(x, p) \in Nat /\ MyCeil(0, p) = 0
         /\ MyCeil(x + 1, p) = MyCeil(x, p) + (IF x % p = 0 THEN 1 ELSE 0)
<1> DEFINE q == x \div p  r == x % p
<1>1. q \in Nat /\ r \in 0..(p - 1) /\ x = q * p + r
  BY SMT
<1>2. MyCeil(0, p) = 0
  BY SMT DEF MyCeil
<1>3. MyCeil(x + 1, p) = q + 1
  BY <1>1, SMT DEF MyCeil
<1>4. MyCeil(x, p) = IF r = 0 THEN q ELSE q + 1
  BY <1>1, SMT DEF MyCeil
<1> QED
  BY <1>1, <1>2, <1>3, <1>4

LEMMA CeilMonotonic ==
  ASSUME NEW x \in Nat, NEW y \in Nat, x <= y, NEW p \in Nat \ {0}
  PROVE  MyCeil(x, p) <= MyCeil(y, p)
<1> DEFINE Below == {k \in Nat : MyCeil(x, p) <= MyCeil(x + k, p)}
<1>1. 0 \in Below
  BY CeilStep
<1>2. ASSUME NEW k \in Nat, k \in Below PROVE k + 1 \in Below
  <2>1. x + k \in Nat /\ x + (k + 1) = (x + k) + 1
    OBVIOUS
  <2>2. /\ MyCeil(x + k, p) \in Nat
        /\ MyCeil((x + k) + 1, p) = MyCeil(x + k, p) + (IF (x + k) % p = 0 THEN 1 ELSE 0)
    BY <2>1, CeilStep
  <2>3. MyCeil(x, p) \in Nat /\ MyCeil(x, p) <= MyCeil(x + k, p)
    BY <1>2, CeilStep
  <2>4. MyCeil(x, p) <= MyCeil((x + k) + 1, p)
    BY <2>2, <2>3
  <2> QED
    BY <2>1, <2>4
<1> HIDE DEF Below
<1>3. y - x \in Below
  BY <1>1, <1>2, Induction
<1> QED
  BY <1>3 DEF Below

LEMMA CeilPositive ==
  ASSUME NEW x \in Nat, NEW p \in Nat \ {0}
  PROVE  MyCeil(x + 1, p) \in Nat /\ MyCeil(x + 1, p) >= 1
<1>1. MyCeil(0, p) = 0 /\ MyCeil(0 + 1, p) = MyCeil(0, p) + (IF 0 % p = 0 THEN 1 ELSE 0)
  BY CeilStep
<1>2. 0 % p = 0
  OBVIOUS
<1>3. MyCeil(1, p) = 1
  BY <1>1, <1>2
<1>4. MyCeil(1, p) <= MyCeil(x + 1, p)
  BY CeilMonotonic
<1>5. MyCeil(x + 1, p) \in Nat
  BY CeilStep
<1> QED
  BY <1>3, <1>4, <1>5

LEMMA TaskFacts ==
  ASSUME tasks \in Seq(TaskChoices), NEW i \in 1..Len(tasks)
  PROVE  /\ i \in Nat /\ T(i) \in Nat \ {0} /\ C(i) \in Nat
         /\ Len(tasks[i].runnables) \in Nat
         /\ tasks[i].runnables \in [1..Len(tasks[i].runnables) -> Nat]
<1>1. tasks[i] \in TaskChoices
  BY ElementOfSeq
<1>2. tasks[i].runnables \in Seq(Nat) /\ T(i) \in Nat \ {0}
  BY <1>1, AnalysisAssumption DEF T
<1>3. /\ Len(tasks[i].runnables) \in Nat
      /\ tasks[i].runnables \in [1..Len(tasks[i].runnables) -> Nat]
  BY <1>2, LenProperties
<1>4. C(i) \in Nat
  BY <1>3, SumType DEF C
<1> QED
  BY <1>2, <1>3, <1>4

(* The work of the tasks above z, or of those in P, that is released before an *)
(* instant and at it.                                                          *)
Above(z) == 1..(z - 1)
Preempting(z) == {i \in 1..(z - 1) : tasks[i].type = "preemptive"}
ReleasedJobs(P, z, x) == [i \in 1..(z - 1) |-> IF i \in P THEN MyCeil(x, T(i)) * C(i) ELSE 0]
ReleasesAt(P, z, x) == [i \in 1..(z - 1) |-> IF i \in P /\ x % T(i) = 0 THEN C(i) ELSE 0]
Released(P, z, x) == Sum(ReleasedJobs(P, z, x))
ReleasedAt(P, z, x) == Sum(ReleasesAt(P, z, x))

LEMMA ReleasedType ==
  ASSUME tasks \in Seq(TaskChoices), NEW z \in 1..Len(tasks), NEW P, NEW x \in Nat
  PROVE  /\ z - 1 \in Nat
         /\ ReleasedJobs(P, z, x) \in [1..(z - 1) -> Nat] /\ Released(P, z, x) \in Nat
         /\ ReleasesAt(P, z, x) \in [1..(z - 1) -> Nat] /\ ReleasedAt(P, z, x) \in Nat
<1>1. ASSUME NEW i \in 1..(z - 1) PROVE MyCeil(x, T(i)) * C(i) \in Nat /\ C(i) \in Nat
  <2>1. T(i) \in Nat \ {0} /\ C(i) \in Nat
    BY TaskFacts
  <2>2. MyCeil(x, T(i)) \in Nat
    BY <2>1, CeilStep
  <2> QED
    BY <2>1, <2>2
<1>2. ReleasedJobs(P, z, x) \in [1..(z - 1) -> Nat]
  BY <1>1 DEF ReleasedJobs
<1>3. ReleasesAt(P, z, x) \in [1..(z - 1) -> Nat]
  BY <1>1 DEF ReleasesAt
<1>4. z - 1 \in Nat
  OBVIOUS
<1> QED
  BY <1>2, <1>3, <1>4, SumType DEF Released, ReleasedAt

(* The interference of the analyses is the work released above z. *)
LEMMA InterferenceReleased ==
  ASSUME NEW z, NEW x
  PROVE  Interference([i \in 1..(z - 1) |-> MyCeil(x, T(i))]) = Released(Above(z), z, x)
<1> DEFINE jobs == [i \in 1..(z - 1) |-> MyCeil(x, T(i))]
<1>1. [i \in DOMAIN jobs |-> jobs[i] * C(i)] = ReleasedJobs(Above(z), z, x)
  BY DEF ReleasedJobs, Above
<1> QED
  BY <1>1 DEF Interference, Released

LEMMA ReleasedMonotonic ==
  ASSUME tasks \in Seq(TaskChoices), NEW z \in 1..Len(tasks), NEW P,
         NEW x \in Nat, NEW y \in Nat, x <= y
  PROVE  Released(P, z, x) <= Released(P, z, y)
<1>1. ASSUME NEW i \in 1..(z - 1) PROVE ReleasedJobs(P, z, x)[i] <= ReleasedJobs(P, z, y)[i]
  <2>1. T(i) \in Nat \ {0} /\ C(i) \in Nat
    BY TaskFacts
  <2>2. MyCeil(x, T(i)) \in Nat /\ MyCeil(y, T(i)) \in Nat /\ MyCeil(x, T(i)) <= MyCeil(y, T(i))
    BY <2>1, CeilStep, CeilMonotonic
  <2>3. MyCeil(x, T(i)) * C(i) <= MyCeil(y, T(i)) * C(i)
    BY <2>1, <2>2, ProductMonotonic
  <2> QED
    BY <2>3 DEF ReleasedJobs
<1> QED
  BY <1>1, ReleasedType, SumMonotonic DEF Released

LEMMA ReleasedZero ==
  ASSUME tasks \in Seq(TaskChoices), NEW z \in 1..Len(tasks), NEW P
  PROVE  Released(P, z, 0) = 0
<1>1. ASSUME NEW i \in 1..(z - 1) PROVE ReleasedJobs(P, z, 0)[i] = 0
  <2>1. T(i) \in Nat \ {0} /\ C(i) \in Nat
    BY TaskFacts
  <2>2. MyCeil(0, T(i)) = 0
    BY <2>1, CeilStep
  <2>3. 0 * C(i) = 0
    BY <2>1
  <2> QED
    BY <2>2, <2>3 DEF ReleasedJobs
<1> QED
  BY <1>1, ReleasedType, SumZero DEF Released

(* A task's jobs up to an instant and the one released at it. *)
LEMMA JobsStep ==
  ASSUME tasks \in Seq(TaskChoices), NEW i \in 1..Len(tasks), NEW x \in Nat
  PROVE  /\ MyCeil(x, T(i)) * C(i) \in Nat /\ MyCeil(0, T(i)) * C(i) = 0
         /\ MyCeil(x + 1, T(i)) * C(i)
              = MyCeil(x, T(i)) * C(i) + (IF x % T(i) = 0 THEN C(i) ELSE 0)
<1> DEFINE n == MyCeil(x, T(i))
           c == C(i)
<1>1. T(i) \in Nat \ {0} /\ c \in Nat
  BY TaskFacts
<1>2. /\ n \in Nat /\ MyCeil(0, T(i)) = 0
      /\ MyCeil(x + 1, T(i)) = n + (IF x % T(i) = 0 THEN 1 ELSE 0)
  BY <1>1, CeilStep
<1> HIDE DEF n, c
<1>3. n * c \in Nat /\ 0 * c = 0 /\ (n + 1) * c = n * c + c /\ (n + 0) * c = n * c + 0
  BY <1>1, <1>2
<1>4. CASE x % T(i) = 0
  <2>1. MyCeil(x + 1, T(i)) = n + 1
    BY <1>2, <1>4
  <2> QED
    BY <1>2, <1>3, <1>4, <2>1, Zenon DEF n, c
<1>5. CASE ~(x % T(i) = 0)
  <2>1. MyCeil(x + 1, T(i)) = n + 0
    BY <1>2, <1>5
  <2> QED
    BY <1>2, <1>3, <1>5, <2>1, Zenon DEF n, c
<1> QED
  BY <1>4, <1>5

LEMMA ReleasedStep ==
  ASSUME tasks \in Seq(TaskChoices), NEW z \in 1..Len(tasks), NEW P, NEW x \in Nat
  PROVE  Released(P, z, x + 1) = Released(P, z, x) + ReleasedAt(P, z, x)
<1> DEFINE now == ReleasesAt(P, z, x)
           before == ReleasedJobs(P, z, x)
           after == ReleasedJobs(P, z, x + 1)
<1>1. /\ z - 1 \in Nat /\ now \in [1..(z - 1) -> Nat]
      /\ before \in [1..(z - 1) -> Nat] /\ after \in [1..(z - 1) -> Nat]
  BY ReleasedType
<1>2. ASSUME NEW i \in 1..(z - 1) PROVE after[i] = before[i] + now[i]
  <2>1. i \in 1..Len(tasks)
    OBVIOUS
  <2>2. /\ MyCeil(x, T(i)) * C(i) \in Nat
        /\ MyCeil(x + 1, T(i)) * C(i)
             = MyCeil(x, T(i)) * C(i) + (IF x % T(i) = 0 THEN C(i) ELSE 0)
    BY <2>1, JobsStep
  <2> QED
    BY <2>2 DEF ReleasedJobs, ReleasesAt
<1> HIDE DEF now, before, after
<1>3. Sum(after) = Sum(before) + Sum(now)
  BY <1>1, <1>2, SumAdd
<1> QED
  BY <1>3 DEF now, before, after, Released, ReleasedAt

-----------------------------------------------------------------------------
(* What the iteration finds for a preemptive task. *)

LEMMA AccumFacts ==
  ASSUME tasks \in Seq(TaskChoices), NEW z \in 1..Len(tasks), NEW r \in Runnables(z)
  PROVE  /\ Accum(z, r) \in Nat /\ r \in 1..Len(tasks[z].runnables)
         /\ tasks[z].runnables[r] <= Accum(z, r) /\ Accum(z, r) <= C(z)
<1> DEFINE s == tasks[z].runnables
<1>1. Len(s) \in Nat /\ s \in [1..Len(s) -> Nat] /\ r \in 1..Len(s)
  BY TaskFacts DEF Runnables
<1> HIDE DEF s
<1>2. PICK g \in Partial(s, Len(s)) : Sum(s) = g[Len(s)] /\ Sum(SubSeq(s, 1, r)) = g[r]
  BY <1>1, PrefixSums
<1>3. s \in [1..Len(s) -> Int] /\ r - 1 \in Nat /\ (r - 1) + 1 = r /\ s[r] \in Nat
  BY <1>1
<1>4. g[r] = g[r - 1] + s[r]
  BY <1>1 DEF Partial
<1>5. r - 1 \in 0..Len(s) /\ r \in 0..Len(s) /\ Len(s) \in 0..Len(s)
  BY <1>1
<1>6. g[r - 1] \in Nat /\ g[r] \in Nat /\ r \in 0..Len(s) /\ g[r] <= g[Len(s)]
  BY <1>1, <1>5, PartialGrows
<1>7. s[r] <= g[r]
  BY <1>3, <1>4, <1>6
<1> QED
  BY <1>1, <1>2, <1>6, <1>7 DEF Accum, C, s

(* Runnables end in their order. *)
LEMMA AccumOrder ==
  ASSUME tasks \in Seq(TaskChoices), NEW z \in 1..Len(tasks), NEW r \in Runnables(z)
  PROVE  /\ \A q \in Runnables(z) : /\ q < r => Accum(z, q) <= Accum(z, r) - tasks[z].runnables[r]
                                    /\ q >= r => Accum(z, q) >= Accum(z, r)
         /\ \/ Accum(z, r) = tasks[z].runnables[r]
            \/ \E q \in Runnables(z) : Accum(z, q) = Accum(z, r) - tasks[z].runnables[r]
         /\ \E q \in Runnables(z) : Accum(z, q) = C(z)
<1> DEFINE s == tasks[z].runnables
           n == Len(s)
<1>1. n \in Nat /\ s \in [1..n -> Nat] /\ r \in 1..n /\ Runnables(z) = 1..n
  BY TaskFacts DEF Runnables
<1> HIDE DEF s, n
<1>2. PICK g \in Partial(s, n) : Sum(s) = g[n] /\ \A q \in 1..n : Sum(SubSeq(s, 1, q)) = g[q]
  BY <1>1, PrefixSums
<1>3. C(z) = g[n] /\ \A q \in 1..n : Accum(z, q) = g[q]
  BY <1>2 DEF C, Accum, s
<1>4. g[r] = g[r - 1] + s[r] /\ s[r] \in Nat /\ r - 1 \in Nat
  <2>1. r - 1 \in Nat /\ s[r] \in Nat
    BY <1>1
  <2> QED
    BY <1>1, <2>1 DEF Partial
<1>5. \A j \in 0..n : g[j] \in Nat /\ \A i \in 0..j : g[i] <= g[j]
  BY <1>1, PartialGrows
<1>6. g[r] - s[r] = g[r - 1] /\ g[r - 1] \in Nat
  <2>1. r - 1 \in 0..n
    BY <1>1
  <2>2. g[r - 1] \in Nat
    BY <1>5, <2>1
  <2> QED
    BY <1>4, <2>2
<1>7. ASSUME NEW q \in 1..n
      PROVE  /\ q < r => g[q] <= g[r - 1]
             /\ q >= r => g[q] >= g[r]
  <2>1. CASE q < r
    <3>1. r - 1 \in 0..n /\ q \in 0..(r - 1) /\ ~(q >= r)
      BY <1>1, <2>1
    <3> QED
      BY <1>5, <3>1
  <2>2. CASE q >= r
    <3>1. q \in 0..n /\ r \in 0..q
      BY <1>1, <2>2
    <3>2. g[r] <= g[q] /\ g[q] \in Nat
      BY <1>5, <3>1
    <3>3. ~(q < r)
      BY <1>1, <2>2
    <3>4. g[r] \in Nat
      BY <1>1, <1>5
    <3> QED
      BY <3>2, <3>3, <3>4
  <2> QED
    BY <1>1, <2>1, <2>2
<1>8. g[r] = s[r] \/ \E q \in 1..n : g[q] = g[r] - s[r]
  <2>1. CASE r = 1
    <3>1. g[0] = 0 /\ r - 1 = 0
      BY <2>1 DEF Partial
    <3> QED
      BY <1>4, <3>1
  <2>2. CASE r # 1
    <3>1. r - 1 \in 1..n
      BY <1>1, <2>2
    <3> QED
      BY <1>6, <3>1
  <2> QED
    BY <2>1, <2>2
<1>9. n \in 1..n
  BY <1>1
<1> QED
  BY <1>1, <1>3, <1>6, <1>7, <1>8, <1>9 DEF s

(* The iteration from some work that z has ahead of it, for any work that is   *)
(* released up to an instant.                                                  *)
LEMMA FixedPoint ==
  ASSUME NEW g \in [Nat -> Nat], \A x, y \in Nat : x <= y => g[x] <= g[y], NEW init \in Nat,
         NEW f, f = [x \in Nat |-> init + g[x]]
  PROVE  /\ Settle(f, init) \in Nat /\ Settle(f, init) >= init
         /\ Settle(f, init) <= Horizon =>
              /\ Settle(f, init) = init + g[Settle(f, init)]
              /\ \A x \in Nat : x < Settle(f, init) => x < init + g[x]
<1> DEFINE R == Settle(f, init)
<1>1. \A x \in Nat : f[x] = init + g[x] /\ g[x] \in Nat
  OBVIOUS
<1>2. f \in [Nat -> Int]
  <2>1. \A x \in Nat : init + g[x] \in Int
    BY <1>1
  <2> QED
    BY <2>1
<1>3. \A x, y \in Nat : x <= y => f[x] <= f[y]
  BY <1>1
<1>4. f[init] >= init
  BY <1>1
<1>5. /\ R \in Nat /\ R >= init
      /\ R <= Horizon => f[R] = R /\ \A x \in Nat : init <= x /\ x < R => x < f[x]
  BY <1>2, <1>3, <1>4, SettleLeast
<1> HIDE DEF R
<1>6. ASSUME R <= Horizon, NEW x \in Nat, x < R PROVE x < init + g[x]
  <2>1. CASE x < init
    BY <1>1, <2>1
  <2>2. CASE init <= x
    BY <1>1, <1>5, <1>6, <2>2
  <2> QED
    BY <2>1, <2>2
<1>7. R <= Horizon => R = init + g[R]
  BY <1>1, <1>5
<1> QED
  BY <1>5, <1>6, <1>7 DEF R

(* The iteration of a preemptive task, from any work that z has ahead of it.   *)
LEMMA ReleasedFixedPoint ==
  ASSUME tasks \in Seq(TaskChoices), NEW z \in 1..Len(tasks), NEW init \in Nat
  PROVE  LET R == Settle([x \in Nat |-> init + Released(Above(z), z, x)], init)
         IN  /\ R \in Nat
             /\ R <= Horizon => /\ R = init + Released(Above(z), z, R)
                                /\ \A x \in Nat : x < R => x < init + Released(Above(z), z, x)
<1> DEFINE g == [x \in Nat |-> Released(Above(z), z, x)]
           f == [x \in Nat |-> init + Released(Above(z), z, x)]
           R == Settle(f, init)
<1>1. g \in [Nat -> Nat] /\ \A x \in Nat : g[x] = Released(Above(z), z, x)
  BY ReleasedType
<1>2. \A x, y \in Nat : x <= y => g[x] <= g[y]
  BY ReleasedMonotonic
<1>3. f = [x \in Nat |-> init + g[x]]
  OBVIOUS
<1> HIDE DEF f, g
<1>4. /\ R \in Nat
      /\ R <= Horizon => R = init + g[R] /\ \A x \in Nat : x < R => x < init + g[x]
  BY <1>1, <1>2, <1>3, FixedPoint
<1> HIDE DEF R
<1> QED
  BY <1>1, <1>4 DEF R, f

LEMMA ResponseLeast ==
  ASSUME tasks \in Seq(TaskChoices), NEW z \in 1..Len(tasks), NEW r \in Runnables(z)
  PROVE  LET R == PreemptiveResponse(z, r)
         IN  /\ R \in Nat
             /\ R <= Horizon =>
                  /\ R = Accum(z, r) + Released(Above(z), z, R)
                  /\ \A x \in Nat : x < R => x < Accum(z, r) + Released(Above(z), z, x)
<1>1. PreemptiveResponse(z, r)
        = Settle([x \in Nat |-> Accum(z, r) + Released(Above(z), z, x)], Accum(z, r))
  BY InterferenceReleased DEF PreemptiveResponse
<1>2. Accum(z, r) \in Nat
  BY AccumFacts
<1> QED
  BY <1>1, <1>2, ReleasedFixedPoint

-----------------------------------------------------------------------------
(* One unit of the schedule. *)

Situation(z) == [ready : [1..z -> Nat], block : Nat, ends : Seq(Nat)]

Awake(z, s, t) == [i \in 1..z |-> s.ready[i] + (IF t % T(i) = 0 THEN C(i) ELSE 0)]

(* The work that is ready above z, or that of the tasks in P. *)
Ready(P, z, ready) == Sum([i \in 1..(z - 1) |-> IF i \in P THEN ready[i] ELSE 0])

LEMMA ReadyType ==
  ASSUME NEW z \in Nat \ {0}, NEW P, NEW ready \in [1..z -> Nat]
  PROVE  Ready(P, z, ready) \in Nat
<1>1. [i \in 1..(z - 1) |-> IF i \in P THEN ready[i] ELSE 0] \in [1..(z - 1) -> Nat] /\ z - 1 \in Nat
  OBVIOUS
<1> QED
  BY <1>1, SumType DEF Ready

LEMMA ReadyZero ==
  ASSUME NEW z \in Nat \ {0}, NEW P, NEW ready \in [1..z -> Nat],
         \A i \in 1..(z - 1) : i \in P => ready[i] = 0
  PROVE  Ready(P, z, ready) = 0
<1> DEFINE work == [i \in 1..(z - 1) |-> IF i \in P THEN ready[i] ELSE 0]
<1>1. work \in [1..(z - 1) -> Nat] /\ z - 1 \in Nat /\ \A i \in 1..(z - 1) : work[i] = 0
  OBVIOUS
<1> HIDE DEF work
<1>2. Sum(work) = 0
  BY <1>1, SumZero
<1> QED
  BY <1>2 DEF Ready, work

(* A unit of a task above z. *)
LEMMA ReadyTake ==
  ASSUME NEW z \in Nat \ {0}, NEW P, NEW ready \in [1..z -> Nat], NEW j \in 1..(z - 1),
         NEW new \in [1..z -> Nat], ready[j] = new[j] + 1,
         \A i \in 1..(z - 1) : i # j => new[i] = ready[i]
  PROVE  /\ j \in P => Ready(P, z, new) = Ready(P, z, ready) - 1
         /\ j \notin P => Ready(P, z, new) = Ready(P, z, ready)
<1> DEFINE before == [i \in 1..(z - 1) |-> IF i \in P THEN ready[i] ELSE 0]
           after == [i \in 1..(z - 1) |-> IF i \in P THEN new[i] ELSE 0]
<1>1. before \in [1..(z - 1) -> Nat] /\ z - 1 \in Nat
  OBVIOUS
<1>2. (j \in P => Sum(after) = Sum(before) - 1) /\ (j \notin P => Sum(after) = Sum(before))
  <2>1. CASE j \in P
    <3>1. after = [before EXCEPT ![j] = @ - 1]
      <4>1. \A i \in 1..(z - 1) : after[i] = IF i = j THEN before[i] - 1 ELSE before[i]
        BY <2>1
      <4>2. DOMAIN after = 1..(z - 1) /\ after = [i \in 1..(z - 1) |-> after[i]]
        OBVIOUS
      <4> HIDE DEF before, after
      <4> QED
        BY <1>1, <4>1, <4>2
    <3>2. before[j] > 0
      BY <2>1
    <3> HIDE DEF before, after
    <3> QED
      BY <1>1, <2>1, <3>1, <3>2, SumTake
  <2>2. CASE j \notin P
    <3>1. after = before
      BY <2>2
    <3>2. Sum(before) \in Nat
      BY <1>1, SumType
    <3> HIDE DEF before, after
    <3> QED
      BY <2>2, <3>1, <3>2
  <2> QED
    BY <2>1, <2>2
<1> QED
  BY <1>2 DEF Ready

LEMMA AwakeFacts ==
  ASSUME tasks \in Seq(TaskChoices), NEW z \in 1..Len(tasks), NEW s \in Situation(z), NEW t \in Nat
  PROVE  /\ Awake(z, s, t) \in [1..z -> Nat]
         /\ Awake(z, s, t)[z] = s.ready[z] + (IF t % T(z) = 0 THEN C(z) ELSE 0)
         /\ \A P : Ready(P, z, Awake(z, s, t)) = Ready(P, z, s.ready) + ReleasedAt(P, z, t)
<1>1. s.ready \in [1..z -> Nat]
  BY DEF Situation
<1>2. \A i \in 1..z : C(i) \in Nat
  BY TaskFacts
<1>3. Awake(z, s, t) \in [1..z -> Nat]
  BY <1>1, <1>2 DEF Awake
<1>4. ASSUME NEW P PROVE Ready(P, z, Awake(z, s, t)) = Ready(P, z, s.ready) + ReleasedAt(P, z, t)
  <2> DEFINE old == [i \in 1..(z - 1) |-> IF i \in P THEN s.ready[i] ELSE 0]
             rel == ReleasesAt(P, z, t)
             new == [i \in 1..(z - 1) |-> IF i \in P THEN Awake(z, s, t)[i] ELSE 0]
  <2>1. old \in [1..(z - 1) -> Nat] /\ new \in [1..(z - 1) -> Nat]
    BY <1>1, <1>3
  <2>2. rel \in [1..(z - 1) -> Nat] /\ z - 1 \in Nat
    BY ReleasedType
  <2>3. \A i \in 1..(z - 1) : new[i] = old[i] + rel[i]
    BY DEF Awake, ReleasesAt
  <2> HIDE DEF old, rel, new
  <2>4. Sum(new) = Sum(old) + Sum(rel)
    BY <2>1, <2>2, <2>3, SumAdd
  <2> QED
    BY <2>4 DEF Ready, ReleasedAt, old, rel, new
<1>5. Awake(z, s, t)[z] = s.ready[z] + (IF t % T(z) = 0 THEN C(z) ELSE 0)
  BY DEF Awake
<1> QED
  BY <1>3, <1>4, <1>5

Middle(z, s) == MidRunnable(z, Len(s.ends))

(* From s to n the processor executes the runnable that blocks z, a task above *)
(* z, or z, or it is idle.                                                     *)
Serves(z, s, t, ready, n) ==
  \/ /\ s.block > 0
     /\ n = [s EXCEPT !.block = @ - 1, !.ready = ready]
  \/ /\ s.block = 0
     /\ \E j \in 1..(z - 1) :
          /\ ready[j] > 0
          /\ Middle(z, s) => j \in Preempting(z)
          /\ n = [s EXCEPT !.ready = [ready EXCEPT ![j] = @ - 1], !.ends = s.ends]
  \/ /\ s.block = 0
     /\ \A i \in 1..(z - 1) : ready[i] = 0 \/ (Middle(z, s) /\ i \notin Preempting(z))
     /\ \/ ready[z] = 0 /\ n = [s EXCEPT !.ready = ready]
        \/ /\ ready[z] > 0
           /\ n = [s EXCEPT !.ready = [ready EXCEPT ![z] = @ - 1], !.ends = Append(s.ends, t + 1)]

LEMMA TickCases ==
  ASSUME tasks \in Seq(TaskChoices), NEW z \in 1..Len(tasks), NEW s \in Situation(z), NEW t \in Nat
  PROVE  Serves(z, s, t, Awake(z, s, t), Tick(z, s, t))
<1> DEFINE ready == Awake(z, s, t)
<1>1. ready \in [1..z -> Nat]
  BY AwakeFacts
<1> DEFINE urgent == {i \in 1..(z - 1) : /\ ready[i] > 0
                                         /\ MidRunnable(z, Len(s.ends)) => tasks[i].type = "preemptive"}
           runs == IF urgent # {} THEN CHOOSE i \in urgent : \A j \in urgent : i <= j ELSE z
<1>2. urgent = {i \in 1..(z - 1) : ready[i] > 0 /\ (Middle(z, s) => i \in Preempting(z))}
  BY DEF Middle, Preempting
<1>3. Tick(z, s, t) = IF s.block > 0 THEN [s EXCEPT !.block = @ - 1, !.ready = ready]
                      ELSE IF ready[runs] = 0 THEN [s EXCEPT !.ready = ready]
                      ELSE [s EXCEPT !.ready = [ready EXCEPT ![runs] = @ - 1],
                                     !.ends = IF runs = z THEN Append(@, t + 1) ELSE @]
  BY Zenon DEF Tick, Awake
<1>4. s.block \in Nat
  BY DEF Situation
<1> HIDE DEF ready
<1>5. CASE s.block > 0
  BY <1>3, <1>5, Zenon DEF ready, Serves
<1>6. CASE s.block = 0 /\ urgent # {}
  <2>1. urgent \in SUBSET Nat
    OBVIOUS
  <2>2. \E i \in urgent : \A j \in urgent : i <= j
    <3> HIDE DEF urgent
    <3> QED
      BY <1>6, <2>1, LeastNatural
  <2>3. runs \in urgent
    <3> HIDE DEF urgent
    <3> QED
      BY <1>6, <2>2
  <2> HIDE DEF runs
  <2>4. runs \in 1..(z - 1) /\ ready[runs] > 0 /\ runs # z /\ (Middle(z, s) => runs \in Preempting(z))
    BY <1>2, <2>3
  <2>5. ~(s.block > 0) /\ ready[runs] # 0
    BY <1>6, <2>4
  <2>6. Tick(z, s, t) = [s EXCEPT !.ready = [ready EXCEPT ![runs] = @ - 1], !.ends = s.ends]
    BY <1>3, <2>4, <2>5, Zenon
  <2> QED
    BY <1>6, <2>4, <2>6, Zenon DEF ready, Serves
<1>7. CASE s.block = 0 /\ urgent = {}
  <2>1. \A i \in 1..(z - 1) : ready[i] = 0 \/ (Middle(z, s) /\ i \notin Preempting(z))
    BY <1>1, <1>2, <1>7
  <2>2. runs = z /\ ready[z] \in Nat /\ ~(s.block > 0)
    BY <1>1, <1>7
  <2>3. Tick(z, s, t) = IF ready[z] = 0 THEN [s EXCEPT !.ready = ready]
                        ELSE [s EXCEPT !.ready = [ready EXCEPT ![z] = @ - 1],
                                       !.ends = Append(s.ends, t + 1)]
    BY <1>3, <2>2
  <2>4. CASE ready[z] = 0
    BY <1>7, <2>1, <2>3, <2>4, Zenon DEF ready, Serves
  <2>5. CASE ready[z] # 0
    <3>1. ready[z] > 0
      BY <2>2, <2>5
    <3> QED
      BY <1>7, <2>1, <2>3, <2>5, <3>1, Zenon DEF ready, Serves
  <2> QED
    BY <2>4, <2>5
<1> QED
  BY <1>4, <1>5, <1>6, <1>7

(* What the processor has done up to t, if it has not been idle: it has        *)
(* executed what has gone from the blocking and from the work released above z *)
(* and for z.                                                                  *)
Balance(z, b, s, t) ==
  /\ s \in Situation(z)
  /\ s.ready[z] + Len(s.ends) = MyCeil(t, T(z)) * C(z)
  /\ s.block + Ready(Above(z), z, s.ready) + t = b + Released(Above(z), z, t) + Len(s.ends)

(* An instant at which nothing is left to execute. *)
Idle(z, b, s, t) ==
  /\ s.block = 0 /\ ~Middle(z, s)
  /\ Len(s.ends) = MyCeil(t + 1, T(z)) * C(z)
  /\ t = b + Released(Above(z), z, t + 1) + Len(s.ends)

(* The unit is one of the blocking, or of a task above z. *)
OtherServed(z, b, s, t, n) ==
  /\ Balance(z, b, n, t + 1) /\ n.ends = s.ends
  /\ s.block = 0 => n.block = 0
  /\ s.block = 0 /\ Middle(z, s) =>
       Ready(Preempting(z), z, n.ready) + 1
         = Ready(Preempting(z), z, s.ready) + ReleasedAt(Preempting(z), z, t)

(* The unit is one of z. *)
OwnServed(z, b, s, t, n) ==
  /\ Balance(z, b, n, t + 1) /\ n.ends = Append(s.ends, t + 1)
  /\ s.block = 0 /\ n.block = 0
  /\ Ready(Preempting(z), z, s.ready) + ReleasedAt(Preempting(z), z, t) = 0
  /\ Ready(Preempting(z), z, n.ready) = 0
  /\ Middle(z, s) \/ Ready(Above(z), z, n.ready) = 0

(* Division is unique. *)
LEMMA Division ==
  ASSUME NEW c \in Nat \ {0}, NEW q \in Int, NEW x \in Int, NEW m \in 0..(c - 1), x = q * c + m
  PROVE  x % c = m /\ x \div c = q
<1> DEFINE p == x \div c
           l == x % c
<1>1. p \in Int /\ l \in 0..(c - 1) /\ x = p * c + l
  BY SMT
<1> HIDE DEF p, l
<1>2. (q - p) * c = l - m
  BY <1>1, SMT
<1> DEFINE d == q - p
<1>3. d \in Int /\ d * c = l - m
  BY <1>1, <1>2
<1> HIDE DEF d
<1>4. ~(d >= 1)
  <2> SUFFICES ASSUME d >= 1 PROVE FALSE
    OBVIOUS
  <2>1. 1 * c <= d * c
    BY <1>3, ProductMonotonic
  <2> QED
    BY <1>1, <1>3, <2>1
<1>5. ~(d <= -1)
  <2> SUFFICES ASSUME d <= -1 PROVE FALSE
    OBVIOUS
  <2>1. d * c <= (-1) * c
    BY <1>3, ProductMonotonic
  <2>2. (-1) * c = -c
    OBVIOUS
  <2> QED
    BY <1>1, <1>3, <2>1, <2>2
<1>6. d = 0
  BY <1>3, <1>4, <1>5
<1>7. l = m /\ p = q
  <2>1. d * c = 0
    BY <1>6
  <2> QED
    BY <1>1, <1>3, <1>6, <2>1 DEF d
<1> QED
  BY <1>7 DEF l, p

LEMMA BalanceStep ==
  ASSUME tasks \in Seq(TaskChoices), NEW z \in 1..Len(tasks), C(z) > 0, NEW r \in Runnables(z),
         NEW b \in Nat, NEW t \in Nat, NEW s, Balance(z, b, s, t)
  PROVE  \/ OtherServed(z, b, s, t, Tick(z, s, t))
         \/ OwnServed(z, b, s, t, Tick(z, s, t))
         \/ Idle(z, b, s, t)
<1> DEFINE n == Tick(z, s, t)
           ready == Awake(z, s, t)
           own == ready[z]
           high == Ready(Above(z), z, ready)
           urgent == Ready(Preempting(z), z, ready)
           done == Len(s.ends)
           jobs == MyCeil(t + 1, T(z)) * C(z)
           rel == Released(Above(z), z, t + 1)
<1>1. s \in Situation(z) /\ s.block \in Nat /\ s.ends \in Seq(Nat) /\ done \in Nat
  <2>1. s \in Situation(z)
    BY DEF Balance
  <2> QED
    BY <2>1 DEF Situation
<1>2. z \in Nat \ {0} /\ C(z) \in Nat
  BY TaskFacts
<1>3. ready \in [1..z -> Nat] /\ high \in Nat /\ urgent \in Nat
  <2>1. ready \in [1..z -> Nat]
    BY <1>1, AwakeFacts
  <2> HIDE DEF ready
  <2> QED
    BY <1>2, <2>1, ReadyType
<1>4. own \in Nat
  BY <1>2, <1>3
<1>5. own + done = jobs
  <2>1. s.ready[z] + done = MyCeil(t, T(z)) * C(z) /\ s.ready[z] \in Nat
    BY <1>1, <1>2 DEF Balance, Situation
  <2>2. own = s.ready[z] + (IF t % T(z) = 0 THEN C(z) ELSE 0)
    BY <1>1, AwakeFacts
  <2>3. MyCeil(t + 1, T(z)) * C(z) = MyCeil(t, T(z)) * C(z) + (IF t % T(z) = 0 THEN C(z) ELSE 0)
        /\ MyCeil(t, T(z)) * C(z) \in Nat
    BY JobsStep
  <2> DEFINE left == s.ready[z]
             before == MyCeil(t, T(z)) * C(z)
             plus == IF t % T(z) = 0 THEN C(z) ELSE 0
  <2>4. left \in Nat /\ before \in Nat /\ plus \in Nat
        /\ left + done = before /\ own = left + plus /\ jobs = before + plus
    BY <1>2, <2>1, <2>2, <2>3
  <2> HIDE DEF left, before, plus, done, own, jobs
  <2> QED
    BY <1>1, <2>4
<1>6. s.block + high + t = b + rel + done /\ rel \in Nat
  <2>1. s.block + Ready(Above(z), z, s.ready) + t = b + Released(Above(z), z, t) + done
    BY DEF Balance
  <2>2. high = Ready(Above(z), z, s.ready) + ReleasedAt(Above(z), z, t)
    BY <1>1, AwakeFacts
  <2>3. rel = Released(Above(z), z, t) + ReleasedAt(Above(z), z, t)
    BY ReleasedStep
  <2>4. /\ Released(Above(z), z, t) \in Nat /\ ReleasedAt(Above(z), z, t) \in Nat
        /\ Ready(Above(z), z, s.ready) \in Nat
    <3>1. s.ready \in [1..z -> Nat]
      BY <1>1 DEF Situation
    <3> QED
      BY <1>2, <3>1, ReleasedType, ReadyType
  <2> DEFINE old == Ready(Above(z), z, s.ready)
             before == Released(Above(z), z, t)
             plus == ReleasedAt(Above(z), z, t)
             blk == s.block
  <2>5. blk + old + t = b + before + done /\ high = old + plus /\ rel = before + plus
        /\ old \in Nat /\ before \in Nat /\ plus \in Nat /\ blk \in Nat /\ done \in Nat
    BY <1>1, <2>1, <2>2, <2>3, <2>4
  <2> HIDE DEF old, before, plus, done, high, rel, blk
  <2>6. blk + high + t = b + rel + done /\ rel \in Nat
    BY <2>5
  <2> QED
    BY <2>6 DEF blk
<1>7. urgent = Ready(Preempting(z), z, s.ready) + ReleasedAt(Preempting(z), z, t)
  BY <1>1, AwakeFacts
<1>8. Serves(z, s, t, ready, n)
  BY <1>1, TickCases
<1> HIDE DEF n, ready, jobs, rel
<1>9. CASE s.block > 0 /\ n = [s EXCEPT !.block = @ - 1, !.ready = ready]
  <2>1. n \in Situation(z) /\ n.block = s.block - 1 /\ n.ready = ready /\ n.ends = s.ends
    <3>1. s.block - 1 \in Nat
      BY <1>1, <1>9
    <3> QED
      BY <1>1, <1>3, <1>9, <3>1 DEF Situation
  <2>2. Balance(z, b, n, t + 1)
    <3>1. n.ready[z] + Len(n.ends) = jobs
      BY <1>5, <2>1
    <3>2. n.block + high + (t + 1) = b + rel + Len(n.ends)
      <4> DEFINE blk == s.block
      <4>1. Len(n.ends) = done /\ n.block = blk - 1
        BY <2>1
      <4>2. blk \in Nat /\ high \in Nat /\ rel \in Nat /\ done \in Nat /\ blk + high + t = b + rel + done
        BY <1>1, <1>3, <1>6
      <4> HIDE DEF high, done, blk
      <4>3. (blk - 1) + high + (t + 1) = b + rel + done
        BY <4>2
      <4> QED
        BY <4>1, <4>3
    <3> QED
      BY <2>1, <3>1, <3>2 DEF Balance, jobs, rel
  <2>3. OtherServed(z, b, s, t, n)
    BY <1>1, <1>9, <2>1, <2>2 DEF OtherServed
  <2> QED
    BY <2>3 DEF n
<1>10. ASSUME s.block = 0, NEW j \in 1..(z - 1), ready[j] > 0,
              Middle(z, s) => j \in Preempting(z),
              n = [s EXCEPT !.ready = [ready EXCEPT ![j] = @ - 1], !.ends = s.ends]
       PROVE  OtherServed(z, b, s, t, n)
  <2> DEFINE new == [ready EXCEPT ![j] = @ - 1]
  <2>1. new \in [1..z -> Nat] /\ new[z] = own
    BY <1>2, <1>3, <1>10
  <2>2. /\ Ready(Above(z), z, new) = high - 1
        /\ Middle(z, s) => Ready(Preempting(z), z, new) = urgent - 1
    <3>1. \A P : j \in P => Ready(P, z, new) = Ready(P, z, ready) - 1
      <4>1. ready[j] = new[j] + 1 /\ \A i \in 1..(z - 1) : i # j => new[i] = ready[i]
        BY <1>2, <1>3, <1>10
      <4> HIDE DEF new
      <4> QED
        BY <1>2, <1>3, <2>1, <4>1, ReadyTake
    <3>2. j \in Above(z)
      BY DEF Above
    <3> QED
      BY <1>10, <3>1, <3>2
  <2> HIDE DEF new
  <2>3. n = [s EXCEPT !.ready = new, !.ends = s.ends]
    BY <1>10 DEF new
  <2>4. n \in Situation(z) /\ n.block = 0 /\ n.ready = new /\ n.ends = s.ends
    BY <1>1, <1>10, <2>1, <2>3 DEF Situation
  <2>5. Balance(z, b, n, t + 1)
    <3>1. n.ready[z] + Len(n.ends) = jobs
      BY <1>5, <2>1, <2>4
    <3>2. n.block + Ready(Above(z), z, n.ready) + (t + 1) = b + rel + Len(n.ends)
      <4>1. Len(n.ends) = done /\ n.block = 0 /\ Ready(Above(z), z, n.ready) = high - 1
        BY <2>2, <2>4
      <4> DEFINE nb == n.block
                 nh == Ready(Above(z), z, n.ready)
                 nd == Len(n.ends)
      <4>2. s.block = 0 /\ nb = 0 /\ nh = high - 1 /\ nd = done
        BY <1>10, <4>1
      <4> HIDE DEF high, done, nb, nh, nd
      <4>3. nb + nh + (t + 1) = b + rel + nd
        BY <1>1, <1>3, <1>6, <4>2
      <4> QED
        BY <4>3 DEF nb, nh, nd
    <3> QED
      BY <2>4, <3>1, <3>2 DEF Balance, jobs, rel
  <2>6. Middle(z, s) => Ready(Preempting(z), z, n.ready) + 1 = urgent
    <3> HIDE DEF urgent
    <3>1. Middle(z, s) => Ready(Preempting(z), z, n.ready) = urgent - 1
      BY <2>2, <2>4
    <3> QED
      BY <1>3, <3>1
  <2> QED
    BY <1>7, <2>4, <2>5, <2>6 DEF OtherServed
<1>11. ASSUME s.block = 0,
              \A i \in 1..(z - 1) : ready[i] = 0 \/ (Middle(z, s) /\ i \notin Preempting(z)),
              \/ ready[z] = 0
              \/ /\ ready[z] > 0
                 /\ n = [s EXCEPT !.ready = [ready EXCEPT ![z] = @ - 1],
                                  !.ends = Append(s.ends, t + 1)]
       PROVE  OwnServed(z, b, s, t, n) \/ Idle(z, b, s, t)
  <2>1. urgent = 0 /\ (~Middle(z, s) => high = 0)
    <3>1. \A i \in 1..(z - 1) : i \in Preempting(z) => ready[i] = 0
      BY <1>11
    <3>2. ~Middle(z, s) => \A i \in 1..(z - 1) : i \in Above(z) => ready[i] = 0
      BY <1>11
    <3> QED
      BY <1>2, <1>3, <3>1, <3>2, ReadyZero
  <2>2. CASE ready[z] = 0
    <3>1. done = MyCeil(t + 1, T(z)) * C(z)
      BY <1>1, <1>5, <2>2 DEF jobs
    <3>2. ~Middle(z, s)
      <4>1. PICK q \in Runnables(z) : Accum(z, q) = C(z)
        BY AccumOrder
      <4>2. MyCeil(t + 1, T(z)) \in Nat
        <5>1. T(z) \in Nat \ {0} /\ t + 1 \in Nat
          BY TaskFacts
        <5> QED
          BY <5>1, CeilStep
      <4>3. C(z) \in Nat \ {0}
        BY <1>2
      <4>4. done % C(z) = 0
        <5> DEFINE i == MyCeil(t + 1, T(z))
                   c == C(z)
        <5>1. done = i * c /\ i \in Nat /\ c \in Nat \ {0}
          BY <3>1, <4>2, <4>3
        <5> HIDE DEF i, c, done
        <5>2. done = i * c + 0 /\ 0 \in 0..(c - 1) /\ i \in Int /\ done \in Int
          BY <1>1, <5>1
        <5>3. done % c = 0
          BY <5>1, <5>2, Division
        <5> QED
          BY <5>3 DEF c
      <4>5. Accum(z, q) % C(z) = 0
        <5> DEFINE c == C(z)
        <5> HIDE DEF c
        <5>1. c \in Nat \ {0}
          BY <4>3 DEF c
        <5>2. c % c = 0
          BY <5>1
        <5> QED
          BY <4>1, <5>2 DEF c
      <4> QED
        BY <4>1, <4>4, <4>5 DEF Middle, MidRunnable, Runnables
    <3>3. t = b + rel + done
      <4>1. high = 0
        BY <2>1, <3>2
      <4> HIDE DEF high, done
      <4> QED
        BY <1>1, <1>6, <1>11, <4>1
    <3> QED
      BY <1>11, <3>1, <3>2, <3>3 DEF Idle, rel
  <2>3. ASSUME ready[z] > 0,
               n = [s EXCEPT !.ready = [ready EXCEPT ![z] = @ - 1], !.ends = Append(s.ends, t + 1)]
        PROVE  OwnServed(z, b, s, t, n)
    <3> DEFINE new == [ready EXCEPT ![z] = @ - 1]
    <3>1. new \in [1..z -> Nat] /\ new[z] = own - 1 /\ \A i \in 1..(z - 1) : new[i] = ready[i]
      BY <1>2, <1>3, <2>3
    <3>2. \A P : Ready(P, z, new) = Ready(P, z, ready)
      BY <3>1 DEF Ready
    <3> HIDE DEF new
    <3>3. n = [s EXCEPT !.ready = new, !.ends = Append(s.ends, t + 1)]
      BY <2>3 DEF new
    <3>4. Append(s.ends, t + 1) \in Seq(Nat) /\ Len(Append(s.ends, t + 1)) = done + 1
      BY <1>1
    <3>5. /\ n \in Situation(z) /\ n.block = 0 /\ n.ready = new
          /\ n.ends = Append(s.ends, t + 1) /\ Len(n.ends) = done + 1
      BY <1>1, <1>11, <3>1, <3>3, <3>4 DEF Situation
    <3>6. Balance(z, b, n, t + 1)
      <4>1. n.ready[z] + Len(n.ends) = jobs
        <5>1. n.ready[z] = own - 1 /\ Len(n.ends) = done + 1
          BY <3>1, <3>5
        <5> HIDE DEF own, done
        <5>2. (own - 1) + (done + 1) = own + done
          BY <1>1, <1>4
        <5> QED
          BY <1>5, <5>1, <5>2
      <4>2. n.block + Ready(Above(z), z, n.ready) + (t + 1) = b + rel + Len(n.ends)
        <5>1. Len(n.ends) = done + 1 /\ n.block = 0 /\ Ready(Above(z), z, n.ready) = high
          BY <3>2, <3>5
        <5> DEFINE nb == n.block
                   nh == Ready(Above(z), z, n.ready)
                   nd == Len(n.ends)
        <5>2. s.block = 0 /\ nb = 0 /\ nh = high /\ nd = done + 1
          BY <1>11, <5>1
        <5> HIDE DEF high, done, nb, nh, nd
        <5>3. nb + nh + (t + 1) = b + rel + nd
          BY <1>1, <1>3, <1>6, <5>2
        <5> QED
          BY <5>3 DEF nb, nh, nd
      <4> QED
        BY <3>5, <4>1, <4>2 DEF Balance, jobs, rel
    <3> QED
      BY <1>7, <1>11, <2>1, <3>2, <3>5, <3>6 DEF OwnServed
  <2> QED
    BY <1>11, <2>2, <2>3
<1> HIDE DEF own, high, urgent, done
<1>12. OtherServed(z, b, s, t, n) \/ OwnServed(z, b, s, t, n) \/ Idle(z, b, s, t)
  BY <1>8, <1>9, <1>10, <1>11, Zenon DEF Serves, n
<1> QED
  BY <1>12 DEF n

-----------------------------------------------------------------------------
(* The schedule. *)

Start(z, b) == [ready |-> [i \in 1..z |-> 0], block |-> b, ends |-> <<>>]

(* g is the schedule of z and the tasks above it behind b units. *)
Runs(g, z, b) == g[0] = Start(z, b) /\ \A t \in 0..(Horizon - 1) : g[t + 1] = Tick(z, g[t], t)

LEMMA Schedule ==
  ASSUME NEW z \in Nat, NEW b \in Nat
  PROVE  \E g : Ends(z, b, Horizon) = g[Horizon].ends /\ Runs(g, z, b)
<1> DEFINE Is(g, n) == g = [t \in 0..n |-> IF t = 0 THEN Start(z, b) ELSE Tick(z, g[t - 1], t - 1)]
           Has == {n \in Nat : \E g : Is(g, n)}
<1>1. 0 \in Has
  <2>1. Is([t \in 0..0 |-> Start(z, b)], 0)
    OBVIOUS
  <2> QED
    BY <2>1
<1>2. ASSUME NEW n \in Nat, n \in Has PROVE n + 1 \in Has
  <2>1. PICK g : Is(g, n)
    BY <1>2
  <2> DEFINE h == [t \in 0..(n + 1) |-> IF t = n + 1 THEN Tick(z, g[n], n) ELSE g[t]]
  <2>2. ASSUME NEW t \in 0..(n + 1)
        PROVE  h[t] = IF t = 0 THEN Start(z, b) ELSE Tick(z, h[t - 1], t - 1)
    <3>1. CASE t = n + 1
      <4>1. h[n + 1] = Tick(z, g[n], n) /\ h[n] = g[n] /\ (n + 1) - 1 = n /\ n + 1 # 0
        OBVIOUS
      <4> QED
        BY <3>1, <4>1
    <3>2. CASE t \in 0..n
      <4>1. g[t] = IF t = 0 THEN Start(z, b) ELSE Tick(z, g[t - 1], t - 1)
        BY <2>1, <3>2
      <4>2. h[t] = g[t] /\ (t # 0 => h[t - 1] = g[t - 1])
        BY <3>2
      <4> QED
        BY <4>1, <4>2
    <3> QED
      BY <3>1, <3>2
  <2>3. Is(h, n + 1)
    BY <2>2
  <2> HIDE DEF h
  <2>4. \E k : Is(k, n + 1)
    BY <2>3
  <2> HIDE DEF Is
  <2> QED
    BY <2>4
<1>3. Horizon \in Has
  <2> HIDE DEF Has
  <2> QED
    BY <1>1, <1>2, HorizonType, Induction
<1> DEFINE run == CHOOSE g : Is(g, Horizon)
<1>4. Is(run, Horizon)
  BY <1>3
<1>5. Ends(z, b, Horizon) = run[Horizon].ends
  BY DEF Ends, Start
<1> HIDE DEF run
<1>6. run[0] = Start(z, b)
  BY <1>4, HorizonType
<1>7. ASSUME NEW t \in 0..(Horizon - 1) PROVE run[t + 1] = Tick(z, run[t], t)
  <2>1. t + 1 \in 0..Horizon /\ t + 1 # 0 /\ (t + 1) - 1 = t
    BY HorizonType
  <2> QED
    BY <1>4, <2>1
<1> QED
  BY <1>5, <1>6, <1>7 DEF Runs

LEMMA StartBalance ==
  ASSUME tasks \in Seq(TaskChoices), NEW z \in 1..Len(tasks), NEW b \in Nat
  PROVE  Balance(z, b, Start(z, b), 0) /\ Len(Start(z, b).ends) = 0
<1> DEFINE s == Start(z, b)
<1>1. /\ s \in Situation(z) /\ s.ends = <<>> /\ s.block = b /\ Len(s.ends) = 0
      /\ s.ready \in [1..z -> Nat] /\ \A i \in 1..z : s.ready[i] = 0
  BY DEF Start, Situation
<1> HIDE DEF s
<1>2. z \in Nat \ {0} /\ z \in 1..z
  OBVIOUS
<1>3. Ready(Above(z), z, s.ready) = 0
  BY <1>1, <1>2, ReadyZero
<1>4. Released(Above(z), z, 0) = 0 /\ MyCeil(0, T(z)) * C(z) = 0
  BY ReleasedZero, JobsStep
<1>5. Balance(z, b, s, 0)
  BY <1>1, <1>2, <1>3, <1>4 DEF Balance
<1> QED
  BY <1>1, <1>5 DEF s

(* Whatever a unit of the schedule does, the ends that are known stay. *)
LEMMA TickKeeps ==
  ASSUME tasks \in Seq(TaskChoices), NEW z \in 1..Len(tasks), NEW s \in Situation(z), NEW t \in Nat
  PROVE  Tick(z, s, t) \in Situation(z) /\ Tick(z, s, t).ends \in {s.ends, Append(s.ends, t + 1)}
<1> DEFINE n == Tick(z, s, t)
           ready == Awake(z, s, t)
<1>1. ready \in [1..z -> Nat] /\ Serves(z, s, t, ready, n)
  BY AwakeFacts, TickCases
<1> HIDE DEF n, ready
<1>2. s.block \in Nat /\ s.ends \in Seq(Nat) /\ Append(s.ends, t + 1) \in Seq(Nat) /\ z \in 1..z
  BY DEF Situation
<1>3. CASE s.block > 0 /\ n = [s EXCEPT !.block = @ - 1, !.ready = ready]
  <2>1. s.block - 1 \in Nat
    BY <1>2, <1>3
  <2>2. n \in Situation(z) /\ n.ends = s.ends
    BY <1>1, <1>2, <1>3, <2>1 DEF Situation
  <2> QED
    BY <2>2 DEF n
<1>4. ASSUME NEW j \in 1..(z - 1), ready[j] > 0,
             n = [s EXCEPT !.ready = [ready EXCEPT ![j] = @ - 1], !.ends = s.ends]
      PROVE  n \in Situation(z) /\ n.ends = s.ends
  <2> DEFINE new == [ready EXCEPT ![j] = @ - 1]
  <2>1. new \in [1..z -> Nat]
    BY <1>1, <1>4
  <2> HIDE DEF new
  <2>2. n = [s EXCEPT !.ready = new, !.ends = s.ends]
    BY <1>4 DEF new
  <2> QED
    BY <1>2, <2>1, <2>2 DEF Situation
<1>5. ASSUME n = [s EXCEPT !.ready = ready]
      PROVE  n \in Situation(z) /\ n.ends = s.ends
  BY <1>1, <1>2, <1>5 DEF Situation
<1>6. ASSUME ready[z] > 0,
             n = [s EXCEPT !.ready = [ready EXCEPT ![z] = @ - 1], !.ends = Append(s.ends, t + 1)]
      PROVE  n \in Situation(z) /\ n.ends = Append(s.ends, t + 1)
  <2> DEFINE new == [ready EXCEPT ![z] = @ - 1]
  <2>1. new \in [1..z -> Nat]
    BY <1>1, <1>2, <1>6
  <2> HIDE DEF new
  <2>2. n = [s EXCEPT !.ready = new, !.ends = Append(s.ends, t + 1)]
    BY <1>6 DEF new
  <2> QED
    BY <1>2, <2>1, <2>2 DEF Situation
<1>7. n \in Situation(z) /\ n.ends \in {s.ends, Append(s.ends, t + 1)}
  BY <1>1, <1>3, <1>4, <1>5, <1>6 DEF Serves, n
<1> QED
  BY <1>7 DEF n

LEMMA EndsKept ==
  ASSUME tasks \in Seq(TaskChoices), NEW z \in 1..Len(tasks), NEW b, NEW g, Runs(g, z, b),
         NEW x \in 0..Horizon, g[x] \in Situation(z), NEW a \in 1..Len(g[x].ends)
  PROVE  g[Horizon].ends[a] = g[x].ends[a]
<1> USE HorizonType
<1> DEFINE e == g[x].ends[a]
           Late == {k \in Nat : x + k <= Horizon =>
                      /\ g[x + k] \in Situation(z)
                      /\ a \in 1..Len(g[x + k].ends) /\ g[x + k].ends[a] = e}
<1>1. x \in Nat /\ x + 0 = x
  OBVIOUS
<1>2. 0 \in Late
  BY <1>1
<1> HIDE DEF e
<1>3. ASSUME NEW k \in Nat, k \in Late PROVE k + 1 \in Late
  <2> SUFFICES ASSUME x + (k + 1) <= Horizon
               PROVE  /\ g[x + (k + 1)] \in Situation(z)
                      /\ a \in 1..Len(g[x + (k + 1)].ends) /\ g[x + (k + 1)].ends[a] = e
    OBVIOUS
  <2> DEFINE s == g[x + k]
             n == Tick(z, s, x + k)
  <2>1. g[x + (k + 1)] = n /\ x + k \in Nat
    <3>1. x + k \in 0..(Horizon - 1) /\ (x + k) + 1 = x + (k + 1)
      BY <1>1
    <3> QED
      BY <3>1 DEF Runs
  <2>2. s \in Situation(z) /\ a \in 1..Len(s.ends) /\ s.ends[a] = e /\ s.ends \in Seq(Nat)
    <3>1. x + k <= Horizon
      BY <1>1
    <3>2. s \in Situation(z) /\ a \in 1..Len(s.ends) /\ s.ends[a] = e
      BY <1>3, <3>1
    <3> HIDE DEF s
    <3> QED
      BY <3>2 DEF Situation
  <2> HIDE DEF s
  <2>3. n \in Situation(z) /\ n.ends \in {s.ends, Append(s.ends, (x + k) + 1)}
    BY <2>1, <2>2, TickKeeps
  <2> DEFINE longer == Append(s.ends, (x + k) + 1)
  <2>4. a \in 1..Len(longer) /\ longer[a] = e
    BY <2>1, <2>2
  <2> HIDE DEF longer, n
  <2>5. n.ends = s.ends \/ n.ends = longer
    BY <2>3 DEF longer
  <2> QED
    BY <2>1, <2>2, <2>3, <2>4, <2>5
<1> HIDE DEF Late
<1>4. Horizon - x \in Late
  <2>1. Horizon - x \in Nat
    OBVIOUS
  <2>2. \A k \in Nat : k \in Late
    BY <1>2, <1>3, Induction
  <2> QED
    BY <2>1, <2>2
<1>5. x + (Horizon - x) = Horizon
  BY <1>1
<1> QED
  BY <1>4, <1>5 DEF Late, e

(* The schedule of a preemptive task executes the first r runnables until the  *)
(* instant that the iteration finds.  Up to it, what has been executed above z *)
(* and for z adds up to the time, since z always has work left; and z cannot    *)
(* be through earlier, because that instant would be a smaller fixed point.    *)
LEMMA ScheduleFinds ==
  ASSUME tasks \in Seq(TaskChoices), NEW z \in 1..Len(tasks), tasks[z].type = "preemptive",
         NEW r \in Runnables(z), Accum(z, r) > 0, PreemptiveResponse(z, r) <= Horizon
  PROVE  Ends(z, 0, Horizon)[Accum(z, r)] = PreemptiveResponse(z, r)
<1> DEFINE a == Accum(z, r)
           R == PreemptiveResponse(z, r)
           Rel(x) == Released(Above(z), z, x)
<1>1. a \in Nat /\ a <= C(z) /\ C(z) \in Nat /\ C(z) > 0 /\ T(z) \in Nat \ {0} /\ z \in Nat
  BY AccumFacts, TaskFacts
<1>2. R \in Nat /\ R = a + Rel(R) /\ \A x \in Nat : x < R => x < a + Rel(x)
  BY ResponseLeast
<1>3. \A x \in Nat : Rel(x) \in Nat
  BY ReleasedType
<1>4. PICK g : Ends(z, 0, Horizon) = g[Horizon].ends /\ Runs(g, z, 0)
  BY <1>1, Schedule
<1>5. a > 0 /\ R <= Horizon
  OBVIOUS
<1> HIDE DEF a, R
<1> USE HorizonType
<1> DEFINE Busy(t) == /\ Balance(z, 0, g[t], t)
                      /\ g[t].block = 0
                      /\ t < R => Len(g[t].ends) < a
                      /\ t = R => Len(g[t].ends) = a /\ g[t].ends[a] = R
           Early == {t \in Nat : t <= R => Busy(t)}
<1>6. 0 \in Early
  <2>1. g[0] = Start(z, 0)
    BY <1>4 DEF Runs
  <2>2. Balance(z, 0, Start(z, 0), 0) /\ Len(Start(z, 0).ends) = 0
    BY StartBalance
  <2>3. Start(z, 0).block = 0
    BY DEF Start
  <2>4. R > 0
    BY <1>1, <1>2, <1>3, <1>5
  <2> QED
    BY <1>5, <2>1, <2>2, <2>3, <2>4
<1>7. ASSUME NEW t \in Nat, t \in Early PROVE t + 1 \in Early
  <2> SUFFICES ASSUME t + 1 <= R PROVE Busy(t + 1)
    OBVIOUS
  <2> DEFINE s == g[t]
             n == g[t + 1]
             done == Len(s.ends)
  <2>1. n = Tick(z, s, t)
    BY <1>2, <1>4, <1>5 DEF Runs
  <2>2. Balance(z, 0, s, t) /\ s.block = 0 /\ done < a
    BY <1>2, <1>7
  <2>3. ~Middle(z, s)
    BY DEF Middle, MidRunnable
  <2> HIDE DEF s, n
  <2>4. s.ends \in Seq(Nat) /\ done \in Nat /\ s.block \in Nat
    BY <2>2 DEF Balance, Situation
  <2>5. ~Idle(z, 0, s, t)
    <3>1. MyCeil(t + 1, T(z)) \in Nat /\ MyCeil(t + 1, T(z)) >= 1
      BY <1>1, CeilPositive
    <3>2. 1 * C(z) <= MyCeil(t + 1, T(z)) * C(z)
      BY <1>1, <3>1, ProductMonotonic
    <3> SUFFICES ASSUME done = MyCeil(t + 1, T(z)) * C(z) PROVE FALSE
      BY DEF Idle
    <3> HIDE DEF done
    <3>3. 1 * C(z) = C(z)
      BY <1>1
    <3>4. C(z) <= done
      BY <3>2, <3>3
    <3> QED
      BY <1>1, <2>2, <2>4, <3>4
  <2>6. OtherServed(z, 0, s, t, n) \/ OwnServed(z, 0, s, t, n)
    BY <1>1, <2>1, <2>2, <2>5, BalanceStep
  <2>7. Balance(z, 0, n, t + 1) /\ n.block = 0
    BY <2>2, <2>6 DEF OtherServed, OwnServed
  <2> DEFINE high == Ready(Above(z), z, n.ready)
             new == Len(n.ends)
  <2>8. high \in Nat /\ new \in Nat /\ high + (t + 1) = Rel(t + 1) + new
    <3>1. n.ready \in [1..z -> Nat] /\ n.ends \in Seq(Nat) /\ z \in Nat \ {0}
      BY <2>7 DEF Balance, Situation
    <3>2. high \in Nat /\ new \in Nat
      <4>1. high \in Nat
        BY <3>1, ReadyType, Zenon
      <4> HIDE DEF high
      <4> QED
        BY <3>1, <4>1
    <3>3. 0 + high + (t + 1) = 0 + Rel(t + 1) + new
      BY <2>7 DEF Balance
    <3> HIDE DEF high, new, Rel
    <3> QED
      BY <1>3, <3>2, <3>3
  <2>9. CASE OtherServed(z, 0, s, t, n)
    <3>1. n.ends = s.ends /\ new = done
      BY <2>9 DEF OtherServed
    <3>2. t + 1 # R
      <4> HIDE DEF high, new, done, Rel
      <4>1. Rel(t + 1) \in Nat
        BY <1>3
      <4> QED
        BY <1>1, <1>2, <2>2, <2>4, <2>8, <3>1, <4>1
    <3> QED
      BY <2>2, <2>7, <3>1, <3>2 DEF n
  <2>10. CASE OwnServed(z, 0, s, t, n)
    <3>1. high = 0 /\ n.ends = Append(s.ends, t + 1)
      BY <2>3, <2>10 DEF OwnServed
    <3>2. new = done + 1 /\ n.ends[done + 1] = t + 1
      BY <2>4, <3>1
    <3>3. t + 1 = Rel(t + 1) + (done + 1) /\ Rel(t + 1) \in Nat
      <4> HIDE DEF high, new, done, Rel
      <4> QED
        BY <1>3, <2>8, <3>1, <3>2
    <3>4. t + 1 < R => new < a
      <4> HIDE DEF high, new, done, Rel
      <4> QED
        BY <1>1, <1>2, <2>2, <2>4, <3>2, <3>3
    <3>5. t + 1 = R => new = a
      <4> HIDE DEF high, new, done, Rel
      <4> QED
        BY <1>1, <1>2, <2>2, <2>4, <3>2, <3>3
    <3> QED
      BY <2>7, <3>2, <3>4, <3>5 DEF n
  <2> QED
    BY <2>6, <2>9, <2>10
<1>8. Busy(R)
  <2> HIDE DEF Early
  <2>1. R \in Early
    BY <1>2, <1>6, <1>7, Induction
  <2> QED
    BY <1>2, <2>1 DEF Early
<1>9. R \in 0..Horizon /\ g[R] \in Situation(z) /\ a \in 1..Len(g[R].ends)
  BY <1>1, <1>2, <1>5, <1>8 DEF Balance
<1>10. g[Horizon].ends[a] = R
  BY <1>4, <1>8, <1>9, EndsKept
<1> QED
  BY <1>4, <1>10 DEF a, R

-----------------------------------------------------------------------------
(* The answer to a miss is no better than the first job. *)

LEMMA MaxExists ==
  ASSUME NEW S \in SUBSET Int, 0 \in S, NEW b \in Nat, \A x \in S : x <= b
  PROVE  TaskMax(S) \in S /\ TaskMax(S) \in Nat /\ \A x \in S : x <= TaskMax(S)
<1> DEFINE Bounds == {m \in Nat : \A x \in S : x <= m}
<1>1. PICK m \in Bounds : \A k \in Bounds : m <= k
  <2>1. Bounds \in SUBSET Nat /\ Bounds # {}
    OBVIOUS
  <2> HIDE DEF Bounds
  <2> QED
    BY <2>1, LeastNatural
<1>2. m \in S
  <2> SUFFICES ASSUME m \notin S PROVE FALSE
    OBVIOUS
  <2>1. m # 0 /\ m \in Nat
    OBVIOUS
  <2>2. m - 1 \in Nat
    BY <2>1
  <2>3. ASSUME NEW x \in S PROVE x <= m - 1
    <3>1. x \in Int /\ x <= m /\ x # m
      BY <1>1
    <3> QED
      BY <2>1, <3>1
  <2>4. m - 1 \in Bounds
    BY <2>2, <2>3
  <2> QED
    BY <1>1, <2>1, <2>4
<1>3. \E x \in S : \A y \in S : y <= x
  BY <1>1, <1>2
<1>4. TaskMax(S) \in S /\ \A y \in S : y <= TaskMax(S)
  BY <1>3 DEF TaskMax
<1>5. TaskMax(S) \in Int /\ 0 <= TaskMax(S)
  BY <1>4
<1> QED
  BY <1>4, <1>5

LEMMA OneOfThem ==
  ASSUME NEW S \in SUBSET Int, \E x \in S : x >= 0,
         NEW m \in {0} \cup S, \A x \in {0} \cup S : x <= m
  PROVE  TaskMax(S) = m
<1>1. m \in S
  OBVIOUS
<1>2. m \in Int /\ \A y \in S : y <= m
  BY <1>1
<1>3. ASSUME NEW x \in S, \A y \in S : y <= x PROVE x = m
  <2>1. m <= x /\ x <= m /\ x \in Int
    BY <1>1, <1>2, <1>3
  <2> QED
    BY <1>2, <2>1
<1> QED
  BY <1>1, <1>2, <1>3 DEF TaskMax

LEMMA BlockingType ==
  ASSUME tasks \in Seq(TaskChoices), NEW z \in 1..Len(tasks)
  PROVE  Blocking(z) \in Nat
<1> DEFINE lower == UNION {Range(tasks[i].runnables) : i \in (z + 1)..Len(tasks)}
           S == {0} \cup lower
           loads == [i \in 1..Len(tasks) |-> C(i)]
<1>1. loads \in [1..Len(tasks) -> Nat] /\ Len(tasks) \in Nat
  BY TaskFacts
<1>2. ASSUME NEW x \in lower PROVE x \in Nat /\ x <= Sum(loads)
  <2>1. PICK i \in 1..Len(tasks) : x \in Range(tasks[i].runnables)
    OBVIOUS
  <2>2. Len(tasks[i].runnables) \in Nat /\ tasks[i].runnables \in [1..Len(tasks[i].runnables) -> Nat]
    BY TaskFacts
  <2>3. PICK r \in 1..Len(tasks[i].runnables) : x = tasks[i].runnables[r]
    BY <2>1, <2>2 DEF Range
  <2>4. x \in Nat
    BY <2>2, <2>3
  <2>5. x <= C(i)
    BY <2>2, <2>3, MemberBelowSum DEF C
  <2>6. loads[i] <= Sum(loads) /\ loads[i] = C(i)
    <3>1. loads[i] = C(i)
      OBVIOUS
    <3> HIDE DEF loads
    <3> QED
      BY <1>1, <3>1, MemberBelowSum
  <2>7. Sum(loads) \in Nat /\ C(i) \in Nat
    <3>1. C(i) \in Nat
      BY TaskFacts
    <3> HIDE DEF loads
    <3> QED
      BY <1>1, <3>1, SumType
  <2> HIDE DEF loads
  <2> QED
    BY <2>4, <2>5, <2>6, <2>7
<1>3. Sum(loads) \in Nat
  <2> HIDE DEF loads
  <2> QED
    BY <1>1, SumType
<1>4. S \in SUBSET Int /\ 0 \in S /\ \A x \in S : x <= Sum(loads)
  <2> HIDE DEF lower, loads
  <2> QED
    BY <1>2, <1>3
<1>5. Blocking(z) = TaskMax(S)
  BY DEF Blocking
<1> HIDE DEF S, loads
<1> QED
  BY <1>3, <1>4, <1>5, MaxExists

(* What BusyPeriod adds to the blocking. *)
PeriodWork(z, x) == Interference([i \in 1..z |-> MyCeil(x, T(z))])

LEMMA PeriodWorkSum ==
  ASSUME tasks \in Seq(TaskChoices), NEW z \in 1..Len(tasks), NEW x \in Nat
  PROVE  /\ PeriodWork(z, x) = Sum([i \in 1..z |-> MyCeil(x, T(z)) * C(i)])
         /\ [i \in 1..z |-> MyCeil(x, T(z)) * C(i)] \in [1..z -> Nat]
         /\ PeriodWork(z, x) \in Nat
         /\ x > 0 => C(z) <= PeriodWork(z, x)
<1> DEFINE jobs == [i \in 1..z |-> MyCeil(x, T(z))]
           work == [i \in 1..z |-> MyCeil(x, T(z)) * C(i)]
<1>1. [i \in DOMAIN jobs |-> jobs[i] * C(i)] = work
  OBVIOUS
<1>2. PeriodWork(z, x) = Sum(work)
  BY <1>1 DEF PeriodWork, Interference
<1>3. T(z) \in Nat \ {0} /\ C(z) \in Nat /\ \A i \in 1..z : C(i) \in Nat
  BY TaskFacts
<1>4. MyCeil(x, T(z)) \in Nat
  BY <1>3, CeilStep
<1>5. work \in [1..z -> Nat]
  <2>1. ASSUME NEW i \in 1..z PROVE MyCeil(x, T(z)) * C(i) \in Nat
    BY <1>3, <1>4
  <2> QED
    BY <2>1
<1>6. work[z] = MyCeil(x, T(z)) * C(z)
  OBVIOUS
<1>7. x > 0 => MyCeil(x, T(z)) >= 1
  <2>1. x > 0 => x - 1 \in Nat /\ (x - 1) + 1 = x
    OBVIOUS
  <2> QED
    BY <1>3, <2>1, CeilPositive
<1>8. x > 0 => C(z) <= work[z]
  <2>1. x > 0 => 1 * C(z) <= MyCeil(x, T(z)) * C(z)
    BY <1>3, <1>4, <1>7, ProductMonotonic
  <2> QED
    BY <1>3, <1>6, <2>1
<1>9. z \in Nat /\ z \in 1..z
  OBVIOUS
<1> HIDE DEF work
<1>10. Sum(work) \in Nat /\ work[z] <= Sum(work) /\ work[z] \in Nat
  BY <1>5, <1>9, MemberBelowSum
<1>11. x > 0 => C(z) <= Sum(work)
  BY <1>3, <1>8, <1>10
<1> QED
  BY <1>2, <1>5, <1>10, <1>11 DEF work

LEMMA PeriodWorkMonotonic ==
  ASSUME tasks \in Seq(TaskChoices), NEW z \in 1..Len(tasks), NEW x \in Nat, NEW y \in Nat, x <= y
  PROVE  PeriodWork(z, x) <= PeriodWork(z, y)
<1>1. ASSUME NEW i \in 1..z PROVE MyCeil(x, T(z)) * C(i) <= MyCeil(y, T(z)) * C(i)
  <2>1. T(z) \in Nat \ {0} /\ C(i) \in Nat
    BY TaskFacts
  <2>2. MyCeil(x, T(z)) \in Nat /\ MyCeil(y, T(z)) \in Nat /\ MyCeil(x, T(z)) <= MyCeil(y, T(z))
    BY <2>1, CeilStep, CeilMonotonic
  <2> QED
    BY <2>1, <2>2, ProductMonotonic
<1>2. z \in Nat
  OBVIOUS
<1> QED
  BY <1>1, <1>2, PeriodWorkSum, SumMonotonic

LEMMA PeriodLeast ==
  ASSUME tasks \in Seq(TaskChoices), NEW z \in 1..Len(tasks), C(z) > 0
  PROVE  /\ BusyPeriod(z) \in Nat /\ BusyPeriod(z) >= Blocking(z) + C(z)
         /\ BusyPeriod(z) <= Horizon =>
              \A x \in Nat : Blocking(z) + C(z) <= x /\ x < BusyPeriod(z) =>
                x < Blocking(z) + PeriodWork(z, x)
<1> DEFINE init == Blocking(z) + C(z)
           f == [x \in Nat |-> Blocking(z) + PeriodWork(z, x)]
<1>1. Blocking(z) \in Nat /\ C(z) \in Nat /\ T(z) \in Nat \ {0}
  BY BlockingType, TaskFacts
<1>2. \A x \in Nat : PeriodWork(z, x) \in Nat
  BY PeriodWorkSum
<1>3. f \in [Nat -> Int] /\ \A x \in Nat : f[x] = Blocking(z) + PeriodWork(z, x)
  <2>1. ASSUME NEW x \in Nat PROVE Blocking(z) + PeriodWork(z, x) \in Int
    <3>1. PeriodWork(z, x) \in Nat
      BY <1>2
    <3> QED
      BY <1>1, <3>1
  <2> QED
    BY <2>1
<1>4. \A x, y \in Nat : x <= y => f[x] <= f[y]
  <2>1. \A x, y \in Nat : x <= y => PeriodWork(z, x) <= PeriodWork(z, y)
    BY PeriodWorkMonotonic
  <2> HIDE DEF f
  <2> QED
    BY <1>1, <1>2, <1>3, <2>1
<1>5. BusyPeriod(z) = Settle(f, init)
  BY DEF BusyPeriod, PeriodWork
<1>6. init \in Nat /\ init > 0
  BY <1>1
<1>7. C(z) <= PeriodWork(z, init)
  <2> HIDE DEF init
  <2> QED
    BY <1>6, PeriodWorkSum
<1> HIDE DEF f
<1>8. f[init] >= init
  <2>1. f[init] = Blocking(z) + PeriodWork(z, init) /\ PeriodWork(z, init) \in Nat
    <3> HIDE DEF init
    <3> QED
      BY <1>2, <1>3, <1>6
  <2> QED
    BY <1>1, <1>7, <2>1
<1> HIDE DEF init
<1>9. /\ BusyPeriod(z) \in Nat /\ BusyPeriod(z) >= init
      /\ BusyPeriod(z) <= Horizon =>
           \A x \in Nat : init <= x /\ x < BusyPeriod(z) => x < f[x]
  BY <1>3, <1>4, <1>5, <1>6, <1>8, SettleLeast
<1> QED
  BY <1>3, <1>9 DEF init

(* A task that takes any time has a busy period, so its first job is looked at. *)
LEMMA FirstJob ==
  ASSUME tasks \in Seq(TaskChoices), NEW z \in 1..Len(tasks), C(z) > 0
  PROVE  MyCeil(BusyPeriod(z), T(z)) \in Nat /\ 1 \in JobsOf(z)
<1> DEFINE x == BusyPeriod(z)
<1>1. Blocking(z) \in Nat /\ C(z) \in Nat /\ T(z) \in Nat \ {0}
  BY BlockingType, TaskFacts
<1>2. x \in Nat /\ x >= Blocking(z) + C(z)
  BY PeriodLeast
<1> HIDE DEF x
<1>3. x - 1 \in Nat /\ (x - 1) + 1 = x
  BY <1>1, <1>2
<1>4. MyCeil(x, T(z)) \in Nat /\ MyCeil(x, T(z)) >= 1
  BY <1>1, <1>3, CeilPositive
<1> QED
  BY <1>4 DEF JobsOf, x

(* The worst of some jobs is a number, no job exceeds it, and it is one of     *)
(* them: the first job of a task does not count for less than 0.               *)
LEMMA WorstJobBound ==
  ASSUME tasks \in Seq(TaskChoices), NEW z \in 1..Len(tasks), NEW n \in Nat, NEW finish \in [1..n -> Nat]
  PROVE  /\ WorstJob(z, finish) \in Nat
         /\ \A k \in 1..n : finish[k] - (k - 1) * T(z) <= WorstJob(z, finish)
         /\ n > 0 => WorstJob(z, finish) = TaskMax({finish[k] - (k - 1) * T(z) : k \in 1..n})
<1> DEFINE S == {0} \cup {finish[k] - (k - 1) * T(z) : k \in DOMAIN finish}
<1>1. T(z) \in Nat
  BY TaskFacts
<1>2. ASSUME NEW k \in 1..n
      PROVE  /\ finish[k] - (k - 1) * T(z) \in Int
             /\ finish[k] - (k - 1) * T(z) <= Sum(finish)
  <2>1. finish[k] \in Nat /\ finish[k] <= Sum(finish) /\ Sum(finish) \in Nat
    BY MemberBelowSum
  <2>2. k - 1 \in Nat
    OBVIOUS
  <2>3. (k - 1) * T(z) \in Nat
    BY <1>1, <2>2
  <2> QED
    BY <2>1, <2>3
<1>3. Sum(finish) \in Nat
  BY SumType
<1>4. 0 \in S /\ \A x \in S : x \in Int /\ x <= Sum(finish)
  <2>1. ASSUME NEW k \in DOMAIN finish, NEW x, x = finish[k] - (k - 1) * T(z)
        PROVE  x \in Int /\ x <= Sum(finish)
    BY <1>2, <2>1
  <2>2. 0 \in Int /\ 0 <= Sum(finish)
    BY <1>3
  <2> QED
    BY <2>1, <2>2
<1>5. WorstJob(z, finish) = TaskMax(S)
  BY DEF WorstJob
<1>6. \A k \in 1..n : finish[k] - (k - 1) * T(z) \in S
  OBVIOUS
<1> DEFINE Jobs == {finish[k] - (k - 1) * T(z) : k \in 1..n}
<1>7. S = {0} \cup Jobs
  OBVIOUS
<1>8. n > 0 => \E x \in Jobs : x >= 0
  <2> SUFFICES ASSUME n > 0 PROVE \E x \in Jobs : x >= 0
    OBVIOUS
  <2>1. 1 \in 1..n /\ finish[1] \in Nat /\ (1 - 1) * T(z) = 0
    BY <1>1
  <2>2. finish[1] - (1 - 1) * T(z) >= 0
    BY <2>1
  <2>3. finish[1] - (1 - 1) * T(z) \in Jobs
    BY <2>1
  <2> HIDE DEF Jobs
  <2> QED
    BY <2>2, <2>3
<1> HIDE DEF S, Jobs
<1>9. TaskMax(S) \in S /\ TaskMax(S) \in Nat /\ \A x \in S : x <= TaskMax(S)
  BY <1>3, <1>4, MaxExists
<1>10. n > 0 => TaskMax(S) = TaskMax(Jobs)
  BY <1>4, <1>7, <1>8, <1>9, OneOfThem
<1> QED
  BY <1>5, <1>6, <1>9, <1>10 DEF Jobs

(* The other analysis, after a miss, finds no less for z than the first one. *)
LEMMA MissNoBetter ==
  ASSUME tasks \in Seq(TaskChoices), NEW z \in 1..Len(tasks), C(z) > 0, NEW r \in Runnables(z)
  PROVE  MissResponse(z, r) \in Nat /\ PreemptiveResponse(z, r) <= MissResponse(z, r)
<1> DEFINE n == MyCeil(BusyPeriod(z), T(z))
           finish == [k \in JobsOf(z) |-> JobFinishDM(z, k, r)]
<1>1. n \in Nat /\ JobsOf(z) = 1..n /\ 1 \in 1..n
  BY FirstJob DEF JobsOf
<1>2. T(z) \in Nat /\ C(z) \in Nat /\ Accum(z, r) \in Nat /\ PreemptiveResponse(z, r) \in Nat
  BY TaskFacts, AccumFacts, ResponseLeast
<1>3. ASSUME NEW k \in 1..n PROVE JobFinishDM(z, k, r) \in Nat
  <2> DEFINE init == (k - 1) * C(z) + Accum(z, r)
  <2>1. init \in Nat
    <3>1. k - 1 \in Nat
      BY <1>1
    <3>2. (k - 1) * C(z) \in Nat
      BY <1>2, <3>1
    <3> QED
      BY <1>2, <3>2
  <2>2. JobFinishDM(z, k, r) = Settle([x \in Nat |-> init + Released(Above(z), z, x)], init)
    BY InterferenceReleased DEF JobFinishDM
  <2> HIDE DEF init
  <2> QED
    BY <2>1, <2>2, ReleasedFixedPoint
<1>4. JobFinishDM(z, 1, r) = PreemptiveResponse(z, r)
  <2>1. (1 - 1) * C(z) + Accum(z, r) = Accum(z, r)
    BY <1>2
  <2> QED
    BY <2>1 DEF JobFinishDM, PreemptiveResponse
<1> HIDE DEF n
<1>5. finish \in [1..n -> Nat]
  BY <1>1, <1>3
<1>6. finish[1] = PreemptiveResponse(z, r)
  BY <1>1, <1>4
<1>7. MissResponse(z, r) = WorstJob(z, finish)
  BY DEF MissResponse
<1> HIDE DEF finish
<1>8. WorstJob(z, finish) \in Nat /\ finish[1] - (1 - 1) * T(z) <= WorstJob(z, finish)
  BY <1>1, <1>5, WorstJobBound
<1>9. finish[1] - (1 - 1) * T(z) = finish[1]
  BY <1>2, <1>6
<1> QED
  BY <1>6, <1>7, <1>8, <1>9

-----------------------------------------------------------------------------
(* The busy period of a cooperative task. *)

LEMMA CeilCovers ==
  ASSUME NEW x \in Nat, NEW p \in Nat \ {0}
  PROVE  x <= MyCeil(x, p) * p
<1> DEFINE q == MyCeil(x, p)
<1>1. q \in Int /\ \E m \in 0..(p - 1) : x + p - 1 = q * p + m
  <2> DEFINE y == x + p - 1
  <2>1. y \in Int /\ y = x + p - 1
    OBVIOUS
  <2>2. q = y \div p
    BY DEF MyCeil
  <2> HIDE DEF y, q
  <2>3. y \div p \in Int /\ y % p \in 0..(p - 1) /\ y = ((y \div p) * p) + (y % p)
    BY <2>1, SMT
  <2> QED
    BY <2>1, <2>2, <2>3
<1> HIDE DEF q
<1>2. PICK m \in 0..(p - 1) : x + p - 1 = q * p + m
  BY <1>1
<1> DEFINE v == q * p
<1>3. v \in Int /\ x + p - 1 = v + m
  BY <1>1, <1>2
<1> HIDE DEF v
<1>4. x <= v
  BY <1>3
<1> QED
  BY <1>4 DEF q, v

LEMMA CeilProduct ==
  ASSUME NEW j \in Nat, NEW p \in Nat \ {0}
  PROVE  MyCeil(j * p, p) = j /\ j * p \in Nat
<1> DEFINE v == j * p
<1>1. v \in Nat
  OBVIOUS
<1>2. v + p - 1 = j * p + (p - 1) /\ p - 1 \in 0..(p - 1) /\ v + p - 1 \in Int
  OBVIOUS
<1>3. (v + p - 1) \div p = j
  <2> DEFINE y == v + p - 1
             m == p - 1
  <2>1. y \in Int /\ m \in 0..(p - 1) /\ y = j * p + m
    BY <1>2
  <2> HIDE DEF y, m, v
  <2>2. y \div p = j
    BY <2>1, Division
  <2> QED
    BY <2>2 DEF y
<1> QED
  BY <1>1, <1>3 DEF MyCeil

(* Of a shorter period there are no fewer jobs. *)
LEMMA CeilShorter ==
  ASSUME NEW x \in Nat, NEW p \in Nat \ {0}, NEW q \in Nat \ {0}, p <= q
  PROVE  MyCeil(x, q) <= MyCeil(x, p)
<1> DEFINE n == MyCeil(x, p)
<1>1. n \in Nat /\ x <= n * p
  BY CeilStep, CeilCovers
<1> HIDE DEF n
<1>2. p * n <= q * n /\ p * n = n * p /\ q * n = n * q
  BY <1>1, ProductMonotonic
<1>3. n * q \in Nat /\ MyCeil(n * q, q) = n
  BY <1>1, CeilProduct
<1>4. x <= n * q
  <2> DEFINE v == n * p
             w == n * q
  <2>1. x <= v /\ v <= w /\ v \in Int /\ w \in Int
    BY <1>1, <1>2
  <2> HIDE DEF v, w
  <2>2. x <= w
    BY <2>1
  <2> QED
    BY <2>2 DEF w
<1>5. MyCeil(x, q) <= MyCeil(n * q, q)
  BY <1>3, <1>4, CeilMonotonic
<1> QED
  BY <1>3, <1>5 DEF n

LEMMA SumLast ==
  ASSUME NEW n \in Nat \ {0}, NEW s \in [1..n -> Nat]
  PROVE  Sum(s) = Sum([i \in 1..(n - 1) |-> s[i]]) + s[n]
<1> DEFINE p == [i \in 1..(n - 1) |-> s[i]]
<1>1. PICK g \in Partial(s, n) : Sum(s) = g[n] /\ \A r \in 1..n : Sum(SubSeq(s, 1, r)) = g[r]
  BY PrefixSums
<1>2. g[n] = g[n - 1] + s[n] /\ g[0] = 0
  BY DEF Partial
<1>3. Sum(p) = g[n - 1]
  <2>1. CASE n = 1
    <3>1. p \in [1..0 -> Nat] /\ \A i \in 1..0 : p[i] = 0
      BY <2>1
    <3> HIDE DEF p
    <3>2. Sum(p) = 0
      BY <3>1, SumZero
    <3> QED
      BY <1>2, <2>1, <3>2
  <2>2. CASE n # 1
    <3>1. n - 1 \in 1..n
      BY <2>2
    <3>2. SubSeq(s, 1, n - 1) = p
      <4>1. s \in Seq(Nat) /\ Len(s) = n
        BY Tuple
      <4>2. /\ SubSeq(s, 1, n - 1) \in Seq(Nat) /\ Len(SubSeq(s, 1, n - 1)) = n - 1
            /\ \A i \in 1..(n - 1) : SubSeq(s, 1, n - 1)[i] = s[i]
        BY <2>2, <4>1, SubSeqProperties
      <4>3. SubSeq(s, 1, n - 1) \in [1..(n - 1) -> Nat]
        BY <4>2, LenProperties
      <4> QED
        BY <4>2, <4>3
    <3> QED
      BY <1>1, <3>1, <3>2
  <2> QED
    BY <2>1, <2>2
<1> QED
  BY <1>1, <1>2, <1>3

(* In j periods of z, z and the tasks above it do not take more than what is   *)
(* released up to x, if each of them has j jobs by then.                       *)
LEMMA PeriodWorkCovered ==
  ASSUME tasks \in Seq(TaskChoices), NEW z \in 1..Len(tasks), NEW j \in Nat, NEW x \in Nat,
         \A i \in 1..(z - 1) : j <= MyCeil(x, T(i))
  PROVE  /\ j * T(z) \in Nat /\ j * C(z) \in Nat /\ PeriodWork(z, j * T(z)) \in Nat
         /\ PeriodWork(z, j * T(z)) <= Released(Above(z), z, x) + j * C(z)
<1> DEFINE work == [i \in 1..z |-> j * C(i)]
           above == [i \in 1..(z - 1) |-> work[i]]
<1>1. T(z) \in Nat \ {0} /\ z \in Nat \ {0} /\ z - 1 \in Nat
  BY TaskFacts
<1>2. MyCeil(j * T(z), T(z)) = j /\ j * T(z) \in Nat
  BY <1>1, CeilProduct
<1>3. PeriodWork(z, j * T(z)) = Sum(work)
  BY <1>2, PeriodWorkSum
<1>4. ASSUME NEW i \in 1..z PROVE j * C(i) \in Nat
  <2>1. C(i) \in Nat
    BY TaskFacts
  <2> QED
    BY <2>1
<1>5. work \in [1..z -> Nat] /\ above \in [1..(z - 1) -> Nat] /\ work[z] = j * C(z)
  BY <1>1, <1>4
<1>6. ASSUME NEW i \in 1..(z - 1) PROVE above[i] <= ReleasedJobs(Above(z), z, x)[i]
  <2>1. C(i) \in Nat /\ MyCeil(x, T(i)) \in Nat
    <3>1. T(i) \in Nat \ {0} /\ C(i) \in Nat
      BY TaskFacts
    <3> QED
      BY <3>1, CeilStep
  <2>2. j * C(i) <= MyCeil(x, T(i)) * C(i)
    BY <2>1, ProductMonotonic
  <2> QED
    BY <2>2 DEF ReleasedJobs, Above
<1> HIDE DEF work
<1>7. Sum(work) = Sum(above) + work[z]
  BY <1>1, <1>5, SumLast
<1> HIDE DEF above
<1>8. Sum(above) <= Released(Above(z), z, x)
  BY <1>1, <1>5, <1>6, ReleasedType, SumMonotonic DEF Released
<1>9. Sum(above) \in Nat /\ Released(Above(z), z, x) \in Nat /\ work[z] \in Nat
  <2>1. Sum(above) \in Nat
    BY <1>1, <1>5, SumType
  <2>2. Released(Above(z), z, x) \in Nat
    BY ReleasedType
  <2>3. work[z] \in Nat
    BY <1>5
  <2> QED
    BY <2>1, <2>2, <2>3
<1> DEFINE total == Sum(above)
           last == work[z]
           rel == Released(Above(z), z, x)
<1>10. total \in Nat /\ last \in Nat /\ rel \in Nat /\ total <= rel /\ Sum(work) = total + last
  BY <1>7, <1>8, <1>9
<1> HIDE DEF total, last, rel
<1>11. Sum(work) \in Nat /\ Sum(work) <= rel + last
  BY <1>10
<1> QED
  BY <1>2, <1>3, <1>5, <1>9, <1>11 DEF rel, last

(* A job of the busy period is not past an instant at which z and the tasks    *)
(* above it would be through.                                                  *)
LEMMA PeriodNotOver ==
  ASSUME tasks \in Seq(TaskChoices), NEW z \in 1..Len(tasks), C(z) > 0, BusyPeriod(z) <= Horizon,
         NEW k \in JobsOf(z), NEW j \in Nat, 1 <= j, j < k
  PROVE  j * T(z) < Blocking(z) + PeriodWork(z, j * T(z))
<1> DEFINE x == j * T(z)
<1>1. Blocking(z) \in Nat /\ C(z) \in Nat /\ T(z) \in Nat \ {0}
  BY BlockingType, TaskFacts
<1>2. x \in Nat /\ MyCeil(x, T(z)) = j
  BY <1>1, CeilProduct
<1>3. /\ BusyPeriod(z) \in Nat
      /\ \A y \in Nat : Blocking(z) + C(z) <= y /\ y < BusyPeriod(z) =>
           y < Blocking(z) + PeriodWork(z, y)
  BY HorizonType, PeriodLeast
<1>4. x < BusyPeriod(z)
  <2> HIDE DEF x
  <2>1. MyCeil(BusyPeriod(z), T(z)) \in Nat /\ k \in 1..MyCeil(BusyPeriod(z), T(z))
    BY <1>1, <1>3, CeilStep DEF JobsOf
  <2>2. BusyPeriod(z) <= x => MyCeil(BusyPeriod(z), T(z)) <= j
    BY <1>1, <1>2, <1>3, CeilMonotonic
  <2> QED
    BY <1>2, <1>3, <2>1, <2>2
<1>5. C(z) <= PeriodWork(z, x) /\ PeriodWork(z, x) \in Nat
  <2>1. x > 0
    <3>1. 1 * T(z) <= j * T(z)
      BY <1>1, ProductMonotonic
    <3> QED
      BY <1>1, <3>1
  <2> HIDE DEF x
  <2> QED
    BY <1>2, <2>1, PeriodWorkSum
<1> HIDE DEF x
<1>6. ~(Blocking(z) + PeriodWork(z, x) <= x)
  <2> SUFFICES ASSUME Blocking(z) + PeriodWork(z, x) <= x PROVE FALSE
    OBVIOUS
  <2>1. Blocking(z) + C(z) <= x
    BY <1>1, <1>2, <1>5
  <2>2. x < Blocking(z) + PeriodWork(z, x)
    BY <1>2, <1>3, <1>4, <2>1
  <2> QED
    BY <1>1, <1>2, <1>5, <2>2
<1>7. x < Blocking(z) + PeriodWork(z, x)
  BY <1>1, <1>2, <1>5, <1>6
<1> QED
  BY <1>7 DEF x

(* While a job of the busy period, or the first one, is not through the        *)
(* processor is not idle: if it were, the busy period would be over at the     *)
(* next release of z at the latest.                                            *)
LEMMA NeverIdle ==
  ASSUME tasks \in Seq(TaskChoices), NEW z \in 1..Len(tasks), C(z) > 0, BusyPeriod(z) <= Horizon,
         NEW k \in JobsOf(z), k = 1 \/ RateMonotonic,
         NEW t \in Nat, NEW s, Len(s.ends) < k * C(z), Idle(z, Blocking(z), s, t)
  PROVE  FALSE
<1> DEFINE j == MyCeil(t + 1, T(z))
           b == Blocking(z)
           rel == Released(Above(z), z, t + 1)
<1>1. T(z) \in Nat \ {0} /\ C(z) \in Nat /\ b \in Nat /\ k \in Nat /\ rel \in Nat
  <2>1. k \in Nat
    BY FirstJob DEF JobsOf
  <2> QED
    BY <2>1, TaskFacts, BlockingType, ReleasedType
<1>2. j \in Nat /\ j >= 1 /\ t + 1 <= j * T(z)
  <2>1. t + 1 \in Nat
    OBVIOUS
  <2>2. t + 1 <= j * T(z)
    BY <1>1, <2>1, CeilCovers
  <2> QED
    BY <1>1, <2>2, CeilPositive
<1>3. Len(s.ends) = j * C(z) /\ t = b + rel + Len(s.ends)
  BY DEF Idle
<1>4. \A i \in 1..(z - 1) : RateMonotonic => j <= MyCeil(t + 1, T(i))
  <2> SUFFICES ASSUME NEW i \in 1..(z - 1), RateMonotonic PROVE j <= MyCeil(t + 1, T(i))
    OBVIOUS
  <2>1. i \in DOMAIN tasks /\ z \in DOMAIN tasks /\ i < z /\ i \in 1..Len(tasks)
    BY LenProperties
  <2>2. T(i) <= T(z) /\ T(i) \in Nat \ {0}
    BY <2>1, TaskFacts DEF RateMonotonic
  <2> QED
    BY <1>1, <2>2, CeilShorter
<1> HIDE DEF j, b, rel
<1>5. j < k
  <2> SUFFICES ASSUME k <= j PROVE FALSE
    BY <1>1, <1>2
  <2>1. k * C(z) <= j * C(z)
    <3>1. k \in Nat /\ j \in Nat /\ C(z) \in Nat /\ k <= j
      BY <1>1, <1>2
    <3> QED
      BY <3>1, ProductMonotonic
  <2> DEFINE v == k * C(z)
             w == j * C(z)
  <2>2. v \in Int /\ w \in Int /\ v <= w /\ w < v
    BY <1>1, <1>2, <1>3, <2>1
  <2> HIDE DEF v, w
  <2> QED
    BY <2>2
<1>6. \A i \in 1..(z - 1) : j <= MyCeil(t + 1, T(i))
  BY <1>1, <1>2, <1>4, <1>5
<1>7. /\ j * T(z) \in Nat /\ j * C(z) \in Nat /\ PeriodWork(z, j * T(z)) \in Nat
      /\ PeriodWork(z, j * T(z)) <= rel + j * C(z)
  BY <1>2, <1>6, PeriodWorkCovered DEF rel
<1>8. j * T(z) < b + PeriodWork(z, j * T(z))
  BY <1>2, <1>5, PeriodNotOver DEF b
<1> DEFINE x == j * T(z)
           d == j * C(z)
           w == PeriodWork(z, x)
<1>9. /\ x \in Nat /\ d \in Nat /\ w \in Nat /\ w <= rel + d /\ x < b + w
      /\ t + 1 <= x /\ t = b + rel + d
  BY <1>2, <1>3, <1>7, <1>8
<1> HIDE DEF x, d, w
<1> QED
  BY <1>1, <1>9

-----------------------------------------------------------------------------
(* What the two iterations find for a job of a cooperative task. *)

(* The work of z before its runnable r of job k. *)
Before(z, k, r) == (k - 1) * C(z) + (Accum(z, r) - tasks[z].runnables[r])

LEMMA BeforeFacts ==
  ASSUME tasks \in Seq(TaskChoices), NEW z \in 1..Len(tasks), NEW r \in Runnables(z),
         NEW k \in Nat \ {0}, C(z) > 0
  PROVE  /\ tasks[z].runnables[r] \in Nat /\ (k - 1) * C(z) \in Nat /\ k * C(z) \in Nat
         /\ Before(z, k, r) \in Nat
         /\ Before(z, k, r) + tasks[z].runnables[r] = (k - 1) * C(z) + Accum(z, r)
         /\ Before(z, k, r) + tasks[z].runnables[r] <= k * C(z)
<1> DEFINE e == tasks[z].runnables[r]
           acc == Accum(z, r)
           full == (k - 1) * C(z)
<1>1. e \in Nat /\ acc \in Nat /\ e <= acc /\ acc <= C(z) /\ C(z) \in Nat
  <2>1. r \in 1..Len(tasks[z].runnables) /\ e <= acc /\ acc <= C(z) /\ acc \in Nat
    BY AccumFacts
  <2> QED
    BY <2>1, TaskFacts
<1>2. full \in Nat /\ k * C(z) = full + C(z)
  <2>1. k - 1 \in Nat /\ k = (k - 1) + 1
    OBVIOUS
  <2> DEFINE m == k - 1
             c == C(z)
  <2>2. m \in Nat /\ c \in Nat /\ k = m + 1
    BY <1>1, <2>1
  <2> HIDE DEF m, c
  <2>3. m * c \in Nat /\ (m + 1) * c = m * c + c
    BY <2>2
  <2> QED
    BY <2>2, <2>3 DEF m, c
<1>3. Before(z, k, r) = full + (acc - e)
  BY DEF Before
<1> HIDE DEF e, acc, full
<1>4. full + (acc - e) \in Nat /\ (full + (acc - e)) + e = full + acc /\ full + acc <= full + C(z)
  BY <1>1, <1>2
<1>5. Before(z, k, r) \in Nat /\ Before(z, k, r) + e = full + acc
  BY <1>3, <1>4
<1>6. full + acc <= k * C(z) /\ k * C(z) \in Nat
  BY <1>1, <1>2, <1>4
<1> QED
  BY <1>1, <1>2, <1>5, <1>6 DEF e, acc, full

LEMMA FloorCeil ==
  ASSUME NEW x \in Nat, NEW p \in Nat \ {0}
  PROVE  MyFloor(x, p) + 1 = MyCeil(x + 1, p) /\ MyFloor(x, p) \in Nat
<1> DEFINE q == x \div p
           l == x % p
<1>1. q \in Nat /\ l \in 0..(p - 1) /\ x = q * p + l
  BY SMT
<1>2. MyCeil(x + 1, p) = q + 1
  BY <1>1, SMT DEF MyCeil
<1> QED
  BY <1>1, <1>2 DEF MyFloor

(* The runnable starts at the first instant by which the blocking, the work of *)
(* z before it and the work released above z up to and at it fit.              *)
LEMMA StartLeast ==
  ASSUME tasks \in Seq(TaskChoices), NEW z \in 1..Len(tasks), NEW r \in Runnables(z),
         NEW k \in Nat \ {0}, C(z) > 0
  PROVE  LET s == JobStart(z, k, r)
             init == Blocking(z) + Before(z, k, r)
         IN  /\ s \in Nat /\ s >= init
             /\ s <= Horizon =>
                  /\ s = init + Released(Above(z), z, s + 1)
                  /\ \A x \in Nat : x < s => x < init + Released(Above(z), z, x + 1)
<1> DEFINE init == Blocking(z) + Before(z, k, r)
           g == [x \in Nat |-> Released(Above(z), z, x + 1)]
           f == [x \in Nat |-> init + Interference([i \in 1..(z - 1) |-> MyFloor(x, T(i)) + 1])]
           s == JobStart(z, k, r)
<1>1. init \in Nat
  BY BeforeFacts, BlockingType
<1>2. \A x \in Nat : x + 1 \in Nat
  OBVIOUS
<1>3. g \in [Nat -> Nat] /\ \A x \in Nat : g[x] = Released(Above(z), z, x + 1)
  BY <1>2, ReleasedType
<1>4. \A x, y \in Nat : x <= y => g[x] <= g[y]
  <2> SUFFICES ASSUME NEW x \in Nat, NEW y \in Nat, x <= y PROVE g[x] <= g[y]
    OBVIOUS
  <2>1. x + 1 \in Nat /\ y + 1 \in Nat /\ x + 1 <= y + 1
    OBVIOUS
  <2>2. Released(Above(z), z, x + 1) <= Released(Above(z), z, y + 1)
    BY <2>1, ReleasedMonotonic
  <2> HIDE DEF g
  <2> QED
    BY <1>3, <2>2
<1>5. f = [x \in Nat |-> init + g[x]]
  <2>1. ASSUME NEW x \in Nat
        PROVE  Interference([i \in 1..(z - 1) |-> MyFloor(x, T(i)) + 1]) = g[x]
    <3>1. \A i \in 1..(z - 1) : MyFloor(x, T(i)) + 1 = MyCeil(x + 1, T(i))
      <4> SUFFICES ASSUME NEW i \in 1..(z - 1) PROVE MyFloor(x, T(i)) + 1 = MyCeil(x + 1, T(i))
        OBVIOUS
      <4>1. T(i) \in Nat \ {0}
        BY TaskFacts
      <4> QED
        BY <4>1, FloorCeil
    <3>2. [i \in 1..(z - 1) |-> MyFloor(x, T(i)) + 1] = [i \in 1..(z - 1) |-> MyCeil(x + 1, T(i))]
      BY <3>1
    <3>3. Interference([i \in 1..(z - 1) |-> MyCeil(x + 1, T(i))]) = Released(Above(z), z, x + 1)
      BY InterferenceReleased
    <3> QED
      BY <1>3, <3>2, <3>3
  <2> HIDE DEF g, init
  <2> QED
    BY <2>1
<1>6. s = Settle(f, init)
  <2>1. Blocking(z) + (k - 1) * C(z) + Accum(z, r) - tasks[z].runnables[r] = init
    <3> DEFINE b == Blocking(z)
               full == (k - 1) * C(z)
               acc == Accum(z, r)
               e == tasks[z].runnables[r]
    <3>1. b \in Nat /\ full \in Nat /\ acc \in Nat /\ e \in Nat /\ init = b + (full + (acc - e))
      BY BeforeFacts, BlockingType, AccumFacts DEF Before
    <3> HIDE DEF b, full, acc, e
    <3>2. b + full + acc - e = b + (full + (acc - e))
      BY <3>1
    <3> HIDE DEF init
    <3> QED
      BY <3>1, <3>2 DEF b, full, acc, e
  <2> HIDE DEF init
  <2> QED
    BY <2>1 DEF JobStart
<1> HIDE DEF init, g, f
<1>7. /\ Settle(f, init) \in Nat /\ Settle(f, init) >= init
      /\ Settle(f, init) <= Horizon =>
           /\ Settle(f, init) = init + g[Settle(f, init)]
           /\ \A x \in Nat : x < Settle(f, init) => x < init + g[x]
  BY <1>1, <1>3, <1>4, <1>5, FixedPoint
<1> HIDE DEF s
<1> QED
  BY <1>3, <1>6, <1>7 DEF init, s

(* It ends at the first instant by which it and the work that preemptive tasks *)
(* release after its start fit.                                                *)
LEMMA FinishLeast ==
  ASSUME tasks \in Seq(TaskChoices), NEW z \in 1..Len(tasks), NEW r \in Runnables(z),
         NEW k \in Nat \ {0}, C(z) > 0, tasks[z].runnables[r] > 0
  PROVE  LET s == JobStart(z, k, r)
             e == tasks[z].runnables[r]
             f == JobFinish(z, k, r)
             Rel(x) == Released(Preempting(z), z, x)
         IN  /\ f \in Nat /\ f >= s + e
             /\ f <= Horizon =>
                  /\ f + Rel(s + 1) = s + e + Rel(f)
                  /\ \A x \in Nat : s + e <= x /\ x < f => x + Rel(s + 1) < s + e + Rel(x)
<1> DEFINE s == JobStart(z, k, r)
           e == tasks[z].runnables[r]
           init == s + e
           Jobs(x) == [i \in 1..(z - 1) |-> IF tasks[i].type = "preemptive"
                         THEN MyCeil(x, T(i)) - (MyFloor(s, T(i)) + 1) ELSE 0]
           Rel(x) == Released(Preempting(z), z, x)
           h == [x \in Nat |-> init + Interference(Jobs(x))]
<1>1. s \in Nat /\ e \in Nat /\ e > 0 /\ s + 1 \in Nat
  <2>1. s \in Nat
    BY StartLeast
  <2>2. e \in Nat /\ e > 0
    BY BeforeFacts
  <2> HIDE DEF s, e
  <2> QED
    BY <2>1, <2>2
<1>2. init \in Nat /\ init >= s + 1
  BY <1>1
<1>3. JobFinish(z, k, r) = Settle(h, init)
  BY DEF JobFinish
<1> HIDE DEF s, e
<1>4. ASSUME NEW x \in Nat PROVE Interference(Jobs(x)) \in Int /\ Rel(x) = Interference(Jobs(x)) + Rel(s + 1)
  <2> DEFINE J == Jobs(x)
             extra == [i \in 1..(z - 1) |-> J[i] * C(i)]
             upto == ReleasedJobs(Preempting(z), z, x)
             first == ReleasedJobs(Preempting(z), z, s + 1)
  <2>1. Interference(J) = Sum(extra)
    BY DEF Interference
  <2>2. z - 1 \in Nat /\ upto \in [1..(z - 1) -> Int] /\ first \in [1..(z - 1) -> Int]
    <3>1. z - 1 \in Nat /\ upto \in [1..(z - 1) -> Nat] /\ first \in [1..(z - 1) -> Nat]
      BY <1>1, ReleasedType
    <3> HIDE DEF upto, first
    <3> QED
      BY <3>1
  <2>3. ASSUME NEW i \in 1..(z - 1) PROVE extra[i] \in Int /\ upto[i] = extra[i] + first[i]
    <3> DEFINE jx == MyCeil(x, T(i))
               js == MyCeil(s + 1, T(i))
               c == C(i)
    <3>1. T(i) \in Nat \ {0} /\ c \in Nat
      BY TaskFacts
    <3>2. jx \in Nat /\ js \in Nat /\ MyFloor(s, T(i)) + 1 = js
      BY <1>1, <3>1, CeilStep, FloorCeil
    <3>3. CASE tasks[i].type = "preemptive"
      <4>1. extra[i] = (jx - js) * c /\ upto[i] = jx * c /\ first[i] = js * c
        BY <3>2, <3>3 DEF ReleasedJobs, Preempting
      <4> HIDE DEF jx, js, c, extra, upto, first
      <4>2. (jx - js) * c \in Int /\ jx * c = (jx - js) * c + js * c
        BY <3>1, <3>2
      <4> QED
        BY <4>1, <4>2
    <3>4. CASE tasks[i].type # "preemptive"
      <4>1. extra[i] = 0 * c /\ upto[i] = 0 /\ first[i] = 0
        BY <3>4 DEF ReleasedJobs, Preempting
      <4>2. 0 * c = 0
        BY <3>1
      <4> HIDE DEF extra, upto, first
      <4> QED
        BY <4>1, <4>2
    <3> QED
      BY <3>3, <3>4
  <2>4. extra \in [1..(z - 1) -> Int]
    BY <2>3
  <2> HIDE DEF extra, upto, first, J
  <2>5. Sum(upto) = Sum(extra) + Sum(first) /\ Sum(extra) \in Int
    <3>1. \A i \in 1..(z - 1) : upto[i] = extra[i] + first[i]
      BY <2>3
    <3>2. Sum(extra) \in Int
      BY <2>2, <2>4, SumInt
    <3> DEFINE n == z - 1
    <3>3. /\ n \in Nat /\ extra \in [1..n -> Int] /\ first \in [1..n -> Int] /\ upto \in [1..n -> Int]
          /\ \A i \in 1..n : upto[i] = extra[i] + first[i]
      BY <2>2, <2>4, <3>1
    <3> HIDE DEF n, Jobs, Rel, h, init
    <3>4. n \in Nat /\ Adds(upto, extra, first, n)
      BY <3>3 DEF Adds
    <3>5. Sum(upto) = Sum(extra) + Sum(first)
      BY <3>4, AddsUp
    <3> QED
      BY <3>2, <3>5
  <2> QED
    BY <2>1, <2>5 DEF upto, first, J, Released
<1>5. \A x \in Nat : Rel(x) \in Nat
  BY ReleasedType
<1>6. \A x, y \in Nat : x <= y => Rel(x) <= Rel(y)
  BY ReleasedMonotonic
<1> HIDE DEF Jobs, Rel
<1>7. /\ h \in [Nat -> Int] /\ \A x \in Nat : h[x] + Rel(s + 1) = init + Rel(x)
  <2>1. ASSUME NEW x \in Nat
        PROVE  /\ init + Interference(Jobs(x)) \in Int
               /\ (init + Interference(Jobs(x))) + Rel(s + 1) = init + Rel(x)
    <3> DEFINE I == Interference(Jobs(x))
    <3>1. I \in Int /\ Rel(x) = I + Rel(s + 1) /\ Rel(s + 1) \in Nat
      BY <1>1, <1>4, <1>5
    <3> HIDE DEF I, init
    <3>2. init + I \in Int /\ (init + I) + Rel(s + 1) = init + Rel(x)
      BY <1>2, <3>1
    <3> QED
      BY <3>2 DEF I
  <2> HIDE DEF init
  <2> QED
    BY <2>1
<1> HIDE DEF h
<1>8. \A x, y \in Nat : x <= y => h[x] <= h[y]
  <2> SUFFICES ASSUME NEW x \in Nat, NEW y \in Nat, x <= y PROVE h[x] <= h[y]
    OBVIOUS
  <2>1. h[x] \in Int /\ h[y] \in Int /\ Rel(x) <= Rel(y)
    BY <1>6, <1>7
  <2>2. Rel(x) \in Nat /\ Rel(y) \in Nat /\ Rel(s + 1) \in Nat
    BY <1>1, <1>5
  <2>3. h[x] + Rel(s + 1) = init + Rel(x) /\ h[y] + Rel(s + 1) = init + Rel(y)
    BY <1>7
  <2> HIDE DEF init
  <2> QED
    BY <1>2, <2>1, <2>2, <2>3
<1> HIDE DEF init
<1>9. h[init] >= init
  <2>1. Rel(s + 1) <= Rel(init) /\ Rel(s + 1) \in Nat /\ Rel(init) \in Nat
    BY <1>1, <1>2, <1>5, <1>6
  <2>2. h[init] \in Int /\ h[init] + Rel(s + 1) = init + Rel(init)
    BY <1>2, <1>7
  <2> QED
    BY <1>2, <2>1, <2>2
<1> DEFINE f == Settle(h, init)
<1>10. /\ f \in Nat /\ f >= init
       /\ f <= Horizon =>
            /\ h[f] = f
            /\ \A x \in Nat : init <= x /\ x < f => x < h[x]
  BY <1>2, <1>7, <1>8, <1>9, SettleLeast
<1> HIDE DEF f
<1>11. f <= Horizon => f + Rel(s + 1) = init + Rel(f)
  BY <1>7, <1>10
<1>12. ASSUME f <= Horizon, NEW x \in Nat, init <= x, x < f PROVE x + Rel(s + 1) < init + Rel(x)
  <2>1. x < h[x] /\ h[x] \in Int /\ Rel(s + 1) \in Nat /\ h[x] + Rel(s + 1) = init + Rel(x)
    BY <1>1, <1>5, <1>7, <1>10, <1>12
  <2>2. x + Rel(s + 1) < h[x] + Rel(s + 1)
    BY <2>1
  <2> QED
    BY <2>1, <2>2
<1>13. JobFinish(z, k, r) = f
  BY <1>3 DEF f
<1> QED
  BY <1>10, <1>11, <1>12, <1>13 DEF init, s, e, Rel

-----------------------------------------------------------------------------
(* A job of a cooperative task in the schedule. *)

LEMMA Rests ==
  ASSUME NEW c \in Nat \ {0}
  PROVE  c % c = 0 /\ \A x \in 0..(c - 1) : x % c = x
<1>1. 1 \in Int /\ 0 \in 0..(c - 1) /\ c = 1 * c + 0
  OBVIOUS
<1>2. c % c = 0
  BY <1>1, Division
<1>3. ASSUME NEW x \in 0..(c - 1) PROVE x % c = x
  <2> DEFINE q == 0
  <2>1. q \in Int /\ x \in Int /\ q * c = 0
    OBVIOUS
  <2> HIDE DEF q
  <2>2. x = q * c + x
    BY <2>1
  <2> QED
    BY <2>1, <2>2, Division
<1> QED
  BY <1>2, <1>3

LEMMA InJob ==
  ASSUME tasks \in Seq(TaskChoices), NEW z \in 1..Len(tasks), C(z) > 0, NEW k \in Nat \ {0},
         NEW x \in Nat, x < C(z)
  PROVE  ((k - 1) * C(z) + x) % C(z) = x
<1> DEFINE c == C(z)
           q == k - 1
<1>1. c \in Nat \ {0} /\ q \in Nat /\ x \in 0..(c - 1)
  BY TaskFacts
<1> HIDE DEF c, q
<1>2. q * c \in Nat /\ q * c + x \in Int /\ q * c + x = q * c + x
  BY <1>1
<1>3. (q * c + x) % c = x
  BY <1>1, <1>2, Division
<1> QED
  BY <1>3 DEF c, q

LEMMA NotMiddle ==
  ASSUME tasks \in Seq(TaskChoices), NEW z \in 1..Len(tasks), NEW r \in Runnables(z),
         NEW k \in Nat \ {0}, C(z) > 0, tasks[z].runnables[r] > 0
  PROVE  ~MidRunnable(z, Before(z, k, r))
<1> DEFINE e == tasks[z].runnables[r]
           x == Accum(z, r) - e
<1>1. e \in Nat /\ e > 0 /\ Accum(z, r) \in Nat /\ e <= Accum(z, r) /\ Accum(z, r) <= C(z) /\ C(z) \in Nat
  BY AccumFacts, BeforeFacts, TaskFacts
<1>2. x \in Nat /\ x < C(z)
  <2> HIDE DEF e
  <2> QED
    BY <1>1
<1>3. Before(z, k, r) % C(z) = x
  <2> HIDE DEF x
  <2> QED
    BY <1>2, InJob DEF Before, x
<1>4. \E q \in Runnables(z) : Accum(z, q) % C(z) = x
  <2>1. CASE Accum(z, r) = e
    <3>1. x = 0
      BY <1>1, <2>1
    <3>2. PICK q \in Runnables(z) : Accum(z, q) = C(z)
      BY AccumOrder
    <3>3. C(z) % C(z) = 0
      BY <1>1, Rests
    <3> QED
      BY <3>1, <3>2, <3>3
  <2>2. CASE ~(Accum(z, r) = e)
    <3>1. PICK q \in Runnables(z) : Accum(z, q) = x
      BY <2>2, AccumOrder
    <3>2. x % C(z) = x
      <4> HIDE DEF x
      <4>1. C(z) \in Nat \ {0} /\ x \in 0..(C(z) - 1)
        BY <1>1, <1>2
      <4> QED
        BY <4>1, Rests
    <3> QED
      BY <3>1, <3>2
  <2> QED
    BY <2>1, <2>2
<1> HIDE DEF x
<1> QED
  BY <1>3, <1>4 DEF MidRunnable, Runnables

LEMMA InMiddle ==
  ASSUME tasks \in Seq(TaskChoices), NEW z \in 1..Len(tasks), NEW r \in Runnables(z),
         NEW k \in Nat \ {0}, C(z) > 0, tasks[z].type = "cooperative", NEW d \in Nat,
         Before(z, k, r) < d, d < Before(z, k, r) + tasks[z].runnables[r]
  PROVE  MidRunnable(z, d)
<1> DEFINE e == tasks[z].runnables[r]
           acc == Accum(z, r)
           full == (k - 1) * C(z)
           x == d - full
<1>1. /\ e \in Nat /\ acc \in Nat /\ e <= acc /\ acc <= C(z) /\ C(z) \in Nat /\ full \in Nat
      /\ full + (acc - e) < d /\ d < full + (acc - e) + e
  <2>1. Before(z, k, r) = full + (acc - e)
    BY DEF Before
  <2> HIDE DEF full, acc
  <2>2. e \in Nat /\ acc \in Nat /\ e <= acc /\ acc <= C(z) /\ C(z) \in Nat /\ full \in Nat
    BY AccumFacts, BeforeFacts, TaskFacts DEF full, acc
  <2> QED
    BY <2>1, <2>2
<1> HIDE DEF e, acc, full
<1>2. x \in Nat /\ x > 0 /\ x < C(z) /\ acc - e < x /\ x < acc /\ d = full + x
  BY <1>1
<1> HIDE DEF x
<1>3. d % C(z) = x
  BY <1>2, InJob DEF full
<1>4. ASSUME NEW q \in Runnables(z), Accum(z, q) % C(z) = x PROVE FALSE
  <2> DEFINE A == Accum(z, q)
             c == C(z)
  <2>1. A \in Nat /\ A <= c /\ c \in Nat \ {0}
    BY <1>1, AccumFacts
  <2>2. A <= acc - e \/ A >= acc
    <3>1. r \in Nat /\ q \in Nat
      BY AccumFacts
    <3>2. q < r => A <= acc - e
      BY AccumOrder DEF acc, e
    <3>3. q >= r => A >= acc
      BY AccumOrder DEF acc
    <3> HIDE DEF A
    <3> QED
      BY <3>1, <3>2, <3>3
  <2>3. A % c = x
    BY <1>4
  <2> HIDE DEF A, c
  <2>4. CASE A = c
    <3>1. c % c = 0
      BY <2>1, Rests
    <3> QED
      BY <1>2, <2>3, <2>4, <3>1
  <2>5. CASE ~(A = c)
    <3>1. A \in 0..(c - 1)
      BY <2>1, <2>5
    <3>2. A % c = A
      BY <2>1, <3>1, Rests
    <3> QED
      BY <1>1, <1>2, <2>1, <2>2, <2>3, <3>2
  <2> QED
    BY <2>4, <2>5
<1> QED
  BY <1>3, <1>4 DEF MidRunnable, Runnables

(* What Balance says of the units that have been executed. *)
LEMMA BalanceFacts ==
  ASSUME tasks \in Seq(TaskChoices), NEW z \in 1..Len(tasks), NEW b \in Nat, NEW t \in Nat, NEW s,
         Balance(z, b, s, t)
  PROVE  /\ s.block \in Nat /\ s.ends \in Seq(Nat) /\ Len(s.ends) \in Nat
         /\ Ready(Above(z), z, s.ready) \in Nat /\ Ready(Preempting(z), z, s.ready) \in Nat
         /\ Released(Above(z), z, t) \in Nat
         /\ s.block + Ready(Above(z), z, s.ready) + t = b + Released(Above(z), z, t) + Len(s.ends)
<1>1. s \in Situation(z) /\ z \in Nat \ {0}
  BY DEF Balance
<1>2. s.ready \in [1..z -> Nat] /\ s.block \in Nat /\ s.ends \in Seq(Nat)
  BY <1>1 DEF Situation
<1>3. Ready(Above(z), z, s.ready) \in Nat /\ Ready(Preempting(z), z, s.ready) \in Nat
  BY <1>1, <1>2, ReadyType
<1>4. Released(Above(z), z, t) \in Nat
  BY ReleasedType
<1>5. Len(s.ends) \in Nat
  BY <1>2
<1>6. s.block + Ready(Above(z), z, s.ready) + t = b + Released(Above(z), z, t) + Len(s.ends)
  BY DEF Balance
<1> QED
  BY <1>2, <1>3, <1>4, <1>5, <1>6

(* The runnable starts at the instant that the first iteration finds: the      *)
(* processor is not idle before, and cannot get to it any earlier, because     *)
(* that would be a smaller fixed point; then no task above z has work left.    *)
LEMMA JobBegins ==
  ASSUME tasks \in Seq(TaskChoices), NEW z \in 1..Len(tasks), NEW r \in Runnables(z),
         C(z) > 0, tasks[z].runnables[r] > 0, BusyPeriod(z) <= Horizon,
         NEW k \in JobsOf(z), k = 1 \/ RateMonotonic, JobStart(z, k, r) < Horizon,
         NEW g, Runs(g, z, Blocking(z))
  PROVE  LET s == JobStart(z, k, r)
             a == Before(z, k, r)
         IN  /\ s \in Nat /\ a \in Nat
             /\ Balance(z, Blocking(z), g[s + 1], s + 1) /\ g[s + 1].block = 0
             /\ Ready(Preempting(z), z, g[s + 1].ready) = 0
             /\ Len(g[s + 1].ends) = a + 1 /\ g[s + 1].ends[a + 1] = s + 1
<1> DEFINE b == Blocking(z)
           s == JobStart(z, k, r)
           a == Before(z, k, r)
           Rel(x) == Released(Above(z), z, x)
<1>1. k \in Nat \ {0}
  BY FirstJob DEF JobsOf
<1>2. b \in Nat /\ a \in Nat /\ a < k * C(z) /\ k * C(z) \in Nat
  <2>1. b \in Nat /\ a \in Nat /\ k * C(z) \in Nat
    BY <1>1, BeforeFacts, BlockingType
  <2>2. a + tasks[z].runnables[r] <= k * C(z) /\ tasks[z].runnables[r] \in Nat
    BY <1>1, BeforeFacts
  <2> HIDE DEF a
  <2> QED
    BY <2>1, <2>2
<1>3. /\ s \in Nat /\ s < Horizon
      /\ s = (b + a) + Rel(s + 1)
      /\ \A x \in Nat : x < s => x < (b + a) + Rel(x + 1)
  <2>1. s \in Nat /\ s < Horizon
    BY <1>1, StartLeast
  <2>2. s <= Horizon
    <3> HIDE DEF s
    <3> QED
      BY <2>1, HorizonType
  <2> QED
    BY <1>1, <2>1, <2>2, StartLeast
<1>4. \A x \in Nat : x + 1 \in Nat /\ Rel(x + 1) \in Nat
  <2>1. \A x \in Nat : x + 1 \in Nat
    OBVIOUS
  <2> QED
    BY <2>1, ReleasedType
<1>5. ~MidRunnable(z, a)
  BY <1>1, NotMiddle
<1> HIDE DEF a, s, b
<1> USE HorizonType
<1> DEFINE Waits(t) == Balance(z, b, g[t], t) /\ Len(g[t].ends) <= a
           Early == {t \in Nat : t <= s => Waits(t)}
<1>6. ASSUME NEW t \in Nat, t <= s, Waits(t)
      PROVE  LET n == g[t + 1] IN
             /\ Balance(z, b, n, t + 1) /\ t + 1 \in Nat
             /\ \/ n.ends = g[t].ends /\ Len(n.ends) <= a
                \/ /\ n.ends = Append(g[t].ends, t + 1) /\ Len(n.ends) = Len(g[t].ends) + 1
                   /\ n.block = 0 /\ Ready(Preempting(z), z, n.ready) = 0
                   /\ Len(g[t].ends) = a => Ready(Above(z), z, n.ready) = 0
  <2> DEFINE now == g[t]
             n == g[t + 1]
  <2>1. n = Tick(z, now, t)
    <3>1. t \in 0..(Horizon - 1)
      BY <1>3, <1>6
    <3> QED
      BY <3>1 DEF Runs, b
  <2>2. Balance(z, b, now, t) /\ Len(now.ends) <= a
    BY <1>6
  <2> HIDE DEF now, n
  <2>3. Len(now.ends) \in Nat /\ now.ends \in Seq(Nat)
    BY <1>2, <2>2, BalanceFacts
  <2>4. ~Idle(z, b, now, t)
    <3>1. Len(now.ends) < k * C(z)
      BY <1>2, <2>2, <2>3
    <3> QED
      BY <3>1, NeverIdle DEF b
  <2>5. OtherServed(z, b, now, t, n) \/ OwnServed(z, b, now, t, n)
    BY <1>2, <2>1, <2>2, <2>4, BalanceStep
  <2>6. CASE OtherServed(z, b, now, t, n)
    BY <2>2, <2>6 DEF OtherServed, n, now
  <2>7. CASE OwnServed(z, b, now, t, n)
    <3>1. n.ends = Append(now.ends, t + 1) /\ Len(n.ends) = Len(now.ends) + 1
      BY <2>3, <2>7 DEF OwnServed
    <3>2. Len(now.ends) = a => ~Middle(z, now)
      BY <1>5 DEF Middle
    <3> QED
      BY <2>7, <3>1, <3>2 DEF OwnServed, n, now
  <2> QED
    BY <2>5, <2>6, <2>7
<1>7. 0 \in Early
  <2>1. g[0] = Start(z, b)
    BY DEF Runs, b
  <2>2. Balance(z, b, Start(z, b), 0) /\ Len(Start(z, b).ends) = 0
    BY <1>2, StartBalance
  <2> QED
    BY <1>2, <2>1, <2>2
<1>8. ASSUME NEW t \in Nat, t \in Early PROVE t + 1 \in Early
  <2> SUFFICES ASSUME t + 1 <= s PROVE Waits(t + 1)
    OBVIOUS
  <2>1. Waits(t) /\ t < s /\ t <= s
    BY <1>3, <1>8
  <2> DEFINE now == g[t]
             n == g[t + 1]
             l == Len(now.ends)
             m == Len(n.ends)
             high == Ready(Above(z), z, n.ready)
  <2>2. /\ Balance(z, b, n, t + 1)
        /\ \/ m <= a
           \/ m = l + 1 /\ n.block = 0 /\ (l = a => high = 0)
    BY <1>6, <2>1
  <2>3. /\ n.block + high + (t + 1) = b + Rel(t + 1) + m
        /\ l \in Nat /\ m \in Nat /\ l <= a
    <3>1. t + 1 \in Nat
      OBVIOUS
    <3> HIDE DEF n, now
    <3>2. l \in Nat /\ l <= a
      BY <1>2, <2>1, BalanceFacts DEF now
    <3>3. m \in Nat /\ n.block + high + (t + 1) = b + Rel(t + 1) + m
      BY <1>2, <2>2, <3>1, BalanceFacts
    <3> QED
      BY <3>2, <3>3
  <2>4. t < (b + a) + Rel(t + 1) /\ Rel(t + 1) \in Nat
    BY <1>3, <1>4, <2>1
  <2>5. m <= a
    <3> SUFFICES ASSUME ~(m <= a) PROVE FALSE
      OBVIOUS
    <3> HIDE DEF now, n, l, m, high, Rel
    <3>1. m = a + 1 /\ n.block = 0 /\ high = 0
      BY <1>2, <2>2, <2>3
    <3>2. 0 + 0 + (t + 1) = b + Rel(t + 1) + (a + 1)
      BY <2>3, <3>1
    <3> QED
      BY <1>2, <2>4, <3>2
  <2> QED
    BY <2>2, <2>5
<1>9. Waits(s)
  <2> HIDE DEF Early
  <2>1. s \in Early
    BY <1>3, <1>7, <1>8, Induction
  <2> QED
    BY <1>3, <2>1 DEF Early
<1> DEFINE now == g[s]
           n == g[s + 1]
           l == Len(now.ends)
           m == Len(n.ends)
           high == Ready(Above(z), z, n.ready)
<1>10. /\ Balance(z, b, n, s + 1) /\ s + 1 \in Nat
       /\ \/ m <= a
          \/ /\ m = l + 1 /\ n.ends = Append(now.ends, s + 1) /\ n.block = 0
             /\ Ready(Preempting(z), z, n.ready) = 0
  <2>1. s <= s
    BY <1>3
  <2> QED
    BY <1>3, <1>6, <1>9, <2>1
<1>11. /\ l \in Nat /\ now.ends \in Seq(Nat) /\ l <= a
       /\ m \in Nat /\ high \in Nat /\ n.block \in Nat
       /\ n.block + high + (s + 1) = b + Rel(s + 1) + m
  <2> HIDE DEF n, now
  <2>1. l \in Nat /\ l <= a /\ now.ends \in Seq(Nat)
    BY <1>2, <1>3, <1>9, BalanceFacts DEF now
  <2>2. m \in Nat /\ high \in Nat /\ n.block \in Nat /\ n.block + high + (s + 1) = b + Rel(s + 1) + m
    BY <1>2, <1>10, BalanceFacts
  <2> QED
    BY <2>1, <2>2
<1>12. m = a + 1
  <2> DEFINE nb == n.block
             v == Rel(s + 1)
  <2>1. v \in Nat /\ s = (b + a) + v
    BY <1>3, <1>4
  <2>2. nb \in Nat /\ high \in Nat /\ m \in Nat /\ nb + high + (s + 1) = b + v + m
    BY <1>11
  <2>3. m <= a \/ m = l + 1
    BY <1>10
  <2>4. l \in Nat /\ l <= a
    BY <1>11
  <2> HIDE DEF now, n, l, m, high, Rel, nb, v
  <2>5. nb + high + 1 + a = m
    BY <1>2, <1>3, <2>1, <2>2
  <2> QED
    BY <1>2, <2>2, <2>3, <2>4, <2>5
<1>13. /\ n.block = 0 /\ Ready(Preempting(z), z, n.ready) = 0
       /\ n.ends[a + 1] = s + 1
  <2>1. ~(m <= a)
    <3> HIDE DEF m
    <3> QED
      BY <1>2, <1>12
  <2>2. m = l + 1 /\ n.ends = Append(now.ends, s + 1) /\ n.block = 0 /\ Ready(Preempting(z), z, n.ready) = 0
    BY <1>10, <2>1
  <2>3. l = a
    <3> HIDE DEF m, l
    <3> QED
      BY <1>2, <1>11, <1>12, <2>2
  <2> HIDE DEF n, now
  <2> QED
    BY <1>11, <2>2, <2>3
<1> QED
  BY <1>2, <1>3, <1>10, <1>12, <1>13 DEF a, s, b

(* It is executed until the instant that the second iteration finds: meanwhile *)
(* preemptive tasks only get in its way, with the work released since it began.*)
LEMMA JobEnds ==
  ASSUME tasks \in Seq(TaskChoices), NEW z \in 1..Len(tasks), NEW r \in Runnables(z),
         C(z) > 0, tasks[z].runnables[r] > 0, tasks[z].type = "cooperative",
         NEW k \in Nat \ {0}, JobFinish(z, k, r) <= Horizon,
         NEW b \in Nat, NEW g, Runs(g, z, b),
         LET s == JobStart(z, k, r)
             a == Before(z, k, r)
         IN  /\ Balance(z, b, g[s + 1], s + 1) /\ g[s + 1].block = 0
             /\ Ready(Preempting(z), z, g[s + 1].ready) = 0
             /\ Len(g[s + 1].ends) = a + 1 /\ g[s + 1].ends[a + 1] = s + 1
  PROVE  LET f == JobFinish(z, k, r)
             to == Before(z, k, r) + tasks[z].runnables[r]
         IN  /\ Balance(z, b, g[f], f)
             /\ Len(g[f].ends) = to /\ g[f].ends[to] = f
<1> DEFINE s == JobStart(z, k, r)
           f == JobFinish(z, k, r)
           a == Before(z, k, r)
           e == tasks[z].runnables[r]
           Rel(x) == Released(Preempting(z), z, x)
           Left(t) == Ready(Preempting(z), z, g[t].ready)
           Runs1(t) == /\ Balance(z, b, g[t], t) /\ g[t].block = 0
                       /\ a < Len(g[t].ends) /\ Len(g[t].ends) <= a + e
                       /\ Left(t) + t + Rel(s + 1) = s + (Len(g[t].ends) - a) + Rel(t)
                       /\ Len(g[t].ends) = a + e => t = f /\ g[t].ends[a + e] = f
<1>1. s \in Nat /\ a \in Nat /\ e \in Nat /\ e > 0 /\ s + 1 \in Nat
  <2>1. s \in Nat /\ a \in Nat /\ e \in Nat /\ e > 0
    BY StartLeast, BeforeFacts
  <2> HIDE DEF s, a, e
  <2> QED
    BY <2>1
<1>2. /\ f \in Nat /\ f >= s + e /\ f <= Horizon
      /\ f + Rel(s + 1) = s + e + Rel(f)
      /\ \A x \in Nat : s + e <= x /\ x < f => x + Rel(s + 1) < s + e + Rel(x)
  <2>1. f <= Horizon
    OBVIOUS
  <2> QED
    BY <2>1, FinishLeast
<1>3. \A x \in Nat : Rel(x) \in Nat
  BY ReleasedType
<1>4. \A x, y \in Nat : x <= y => Rel(x) <= Rel(y)
  BY ReleasedMonotonic
<1>5. /\ Balance(z, b, g[s + 1], s + 1) /\ g[s + 1].block = 0 /\ Left(s + 1) = 0
      /\ Len(g[s + 1].ends) = a + 1 /\ g[s + 1].ends[a + 1] = s + 1
  OBVIOUS
<1>6. ASSUME NEW d \in Nat, a < d, d < a + e PROVE MidRunnable(z, d)
  BY <1>6, InMiddle
<1> HIDE DEF s, f, a, e, Rel
<1> USE HorizonType
(* an instant at which the runnable is through, by the count, is the end *)
<1>7. ASSUME NEW t \in Nat, s + 1 <= t, t <= f, t + Rel(s + 1) = s + e + Rel(t) PROVE t = f
  <2>1. Rel(s + 1) <= Rel(t) /\ Rel(s + 1) \in Nat /\ Rel(t) \in Nat
    BY <1>1, <1>3, <1>4, <1>7
  <2>2. s + e <= t
    BY <1>1, <1>7, <2>1
  <2>3. ~(t < f)
    BY <1>2, <1>7, <2>1, <2>2
  <2> QED
    BY <1>2, <1>7, <2>3
<1> DEFINE Early == {i \in Nat : s + 1 + i <= f => Runs1(s + 1 + i)}
<1>8. 0 \in Early
  <2>1. s + 1 \in Nat /\ s + 1 + 0 = s + 1 /\ s + 1 <= f
    BY <1>1, <1>2
  <2>2. Rel(s + 1) \in Nat
    BY <1>1, <1>3
  <2> DEFINE n == g[s + 1]
             m == Len(n.ends)
  <2>3. m = a + 1 /\ m \in Nat /\ a < m /\ m <= a + e /\ m - a = 1
    <3> HIDE DEF n
    <3>1. m = a + 1
      BY <1>5 DEF n
    <3> HIDE DEF m
    <3> QED
      BY <1>1, <3>1
  <2>4. Left(s + 1) + (s + 1) + Rel(s + 1) = s + (m - a) + Rel(s + 1)
    <3>1. 0 + (s + 1) + Rel(s + 1) = s + 1 + Rel(s + 1)
      BY <1>1, <2>2
    <3> HIDE DEF m
    <3> QED
      BY <1>5, <2>3, <3>1
  <2>5. ASSUME m = a + e PROVE s + 1 = f /\ n.ends[a + e] = f
    <3>1. e = 1
      <4> HIDE DEF m
      <4> QED
        BY <1>1, <2>3, <2>5
    <3>2. (s + 1) + Rel(s + 1) = s + e + Rel(s + 1)
      BY <1>1, <2>2, <3>1
    <3>3. s + 1 = f
      BY <1>1, <1>7, <2>1, <3>2
    <3> QED
      BY <1>5, <3>1, <3>3
  <2>6. Runs1(s + 1)
    BY <1>5, <2>3, <2>4, <2>5
  <2> HIDE DEF Runs1
  <2> QED
    BY <2>1, <2>6
<1>9. ASSUME NEW t \in Nat, s + 1 <= t, t + 1 <= f, Runs1(t) PROVE Runs1(t + 1)
  <2> DEFINE now == g[t]
             n == g[t + 1]
             l == Len(now.ends)
             m == Len(n.ends)
             left == Left(t)
             left1 == Left(t + 1)
             P == Preempting(z)
             rel == ReleasedAt(P, z, t)
  <2>1. n = Tick(z, now, t)
    <3>1. t \in 0..(Horizon - 1)
      BY <1>2, <1>9
    <3> QED
      BY <3>1 DEF Runs
  <2>2. /\ Balance(z, b, now, t) /\ now.block = 0 /\ a < l /\ l <= a + e
        /\ left + t + Rel(s + 1) = s + (l - a) + Rel(t)
        /\ l = a + e => t = f
    BY <1>9
  <2>3. l \in Nat /\ now.ends \in Seq(Nat) /\ left \in Nat
    <3> HIDE DEF now
    <3> QED
      BY <2>2, BalanceFacts DEF now
  <2>4. l < a + e
    <3> HIDE DEF l
    <3> QED
      BY <1>1, <1>2, <1>9, <2>2, <2>3
  <2>5. Middle(z, now)
    BY <1>6, <2>2, <2>3, <2>4 DEF Middle
  <2>6. OtherServed(z, b, now, t, n) \/ OwnServed(z, b, now, t, n)
    <3> HIDE DEF now, n
    <3>1. ~Idle(z, b, now, t)
      BY <2>5 DEF Idle
    <3> QED
      BY <2>1, <2>2, <3>1, BalanceStep
  <2>7. Balance(z, b, n, t + 1) /\ n.block = 0 /\ t + 1 \in Nat
    <3> HIDE DEF now, n
    <3> QED
      BY <2>2, <2>6 DEF OtherServed, OwnServed
  <2>8. m \in Nat /\ left1 \in Nat
    <3> HIDE DEF n
    <3> QED
      BY <2>7, BalanceFacts DEF n
  <2>9. Rel(t + 1) = Rel(t) + rel /\ Rel(t) \in Nat /\ rel \in Nat /\ Rel(s + 1) \in Nat
    <3>1. rel \in Nat
      BY ReleasedType
    <3>2. Rel(t) \in Nat /\ Rel(s + 1) \in Nat
      BY <1>1, <1>3
    <3>3. Rel(t + 1) = Rel(t) + rel
      BY ReleasedStep DEF Rel
    <3> QED
      BY <3>1, <3>2, <3>3
  <2>10. CASE OtherServed(z, b, now, t, n)
    <3>1. n.ends = now.ends /\ left1 + 1 = left + rel
      BY <2>2, <2>5, <2>10 DEF OtherServed
    <3>2. m = l
      BY <3>1
    <3>3. left1 + (t + 1) + Rel(s + 1) = s + (m - a) + Rel(t + 1)
      <4> DEFINE u == Rel(t)
                 v == Rel(s + 1)
                 w == l - a
      <4>1. u \in Nat /\ v \in Nat /\ rel \in Nat /\ Rel(t + 1) = u + rel
        BY <2>9
      <4>2. left + t + v = s + (l - a) + u /\ left1 + 1 = left + rel
        BY <2>2, <3>1
      <4>3. w \in Int /\ m - a = w
        <5> HIDE DEF l, m
        <5> QED
          BY <1>1, <2>3, <3>2
      <4>4. left \in Nat /\ left1 \in Nat /\ left + t + v = s + w + u
        BY <2>3, <2>8, <4>2
      <4> HIDE DEF left, left1, m, rel, u, v, w
      <4>5. left1 + (t + 1) + v = s + w + (u + rel)
        BY <1>1, <4>1, <4>2, <4>3, <4>4
      <4> QED
        BY <4>1, <4>3, <4>5 DEF v
    <3>4. a < m /\ m <= a + e /\ ~(m = a + e)
      <4> HIDE DEF l, m
      <4> QED
        BY <1>1, <2>2, <2>3, <2>4, <3>2
    <3> QED
      BY <2>7, <3>3, <3>4
  <2>11. CASE OwnServed(z, b, now, t, n)
    <3>1. n.ends = Append(now.ends, t + 1) /\ left + rel = 0 /\ left1 = 0
      BY <2>11 DEF OwnServed
    <3>2. m = l + 1 /\ n.ends[m] = t + 1
      <4>1. Len(n.ends) = Len(now.ends) + 1 /\ n.ends[Len(now.ends) + 1] = t + 1
        BY <2>3, <3>1
      <4> QED
        BY <4>1
    <3>3. /\ left1 + (t + 1) + Rel(s + 1) = s + (m - a) + Rel(t + 1)
          /\ (t + 1) + Rel(s + 1) = s + (m - a) + Rel(t + 1)
      <4> DEFINE u == Rel(t)
                 v == Rel(s + 1)
                 w == l - a
      <4>1. u \in Nat /\ v \in Nat /\ rel \in Nat /\ Rel(t + 1) = u + rel
        BY <2>9
      <4>2. left + t + v = s + (l - a) + u /\ left + rel = 0 /\ left1 = 0
        BY <2>2, <3>1
      <4>3. w \in Int /\ m - a = w + 1
        <5>1. m = l + 1 /\ l \in Nat
          BY <2>3, <3>2
        <5> HIDE DEF l, m
        <5>2. l - a \in Int /\ (l + 1) - a = (l - a) + 1
          BY <1>1, <5>1
        <5> QED
          BY <5>1, <5>2 DEF w
      <4>4. left = 0 /\ rel = 0
        <5> HIDE DEF left, left1, rel
        <5> QED
          BY <2>3, <4>1, <4>2
      <4>5. t + v = s + w + u
        <5> HIDE DEF left, u, v, w
        <5>1. 0 + t + v = s + w + u
          BY <4>2, <4>4 DEF w
        <5> QED
          BY <1>1, <4>1, <4>3, <5>1
      <4> HIDE DEF left, left1, m, rel, u, v, w
      <4>6. (t + 1) + v = s + (w + 1) + u /\ u + rel = u /\ left1 + (t + 1) = t + 1
        BY <1>1, <4>1, <4>2, <4>3, <4>4, <4>5
      <4> QED
        BY <4>1, <4>3, <4>6 DEF v
    <3>4. a < m /\ m <= a + e
      <4> HIDE DEF l, m
      <4> QED
        BY <1>1, <2>2, <2>3, <2>4, <3>2
    <3>5. ASSUME m = a + e PROVE t + 1 = f /\ n.ends[a + e] = f
      <4>1. m - a = e
        <5> HIDE DEF m
        <5> QED
          BY <1>1, <2>8, <3>5
      <4>2. (t + 1) + Rel(s + 1) = s + e + Rel(t + 1)
        <5> HIDE DEF m
        <5> QED
          BY <3>3, <4>1
      <4>3. s + 1 <= t + 1
        BY <1>1, <1>9
      <4>4. t + 1 = f
        BY <1>7, <1>9, <2>7, <4>2, <4>3
      <4> QED
        BY <3>2, <3>5, <4>4
    <3> QED
      BY <2>7, <3>3, <3>4, <3>5
  <2> QED
    BY <2>6, <2>10, <2>11
<1>10. ASSUME NEW i \in Nat, i \in Early PROVE i + 1 \in Early
  <2> DEFINE t == s + 1 + i
  <2>1. t \in Nat /\ s + 1 <= t /\ s + 1 + (i + 1) = t + 1 /\ i + 1 \in Nat
    BY <1>1
  <2>2. t <= f => Runs1(t)
    BY <1>10
  <2> HIDE DEF Runs1, t
  <2>3. t + 1 <= f => Runs1(t + 1)
    BY <1>2, <1>9, <2>1, <2>2
  <2> QED
    BY <2>1, <2>3
<1>11. Runs1(f)
  <2> DEFINE i == f - (s + 1)
  <2>1. i \in Nat /\ s + 1 + i = f /\ f <= f
    BY <1>1, <1>2
  <2> HIDE DEF Early, i
  <2>2. i \in Early
    BY <1>8, <1>10, <2>1, Induction
  <2> HIDE DEF Runs1
  <2> QED
    BY <2>1, <2>2 DEF Early
<1>12. Len(g[f].ends) = a + e
  <2> DEFINE now == g[f]
             l == Len(now.ends)
             left == Left(f)
             u == Rel(f)
             v == Rel(s + 1)
  <2>1. Balance(z, b, now, f) /\ a < l /\ l <= a + e /\ left + f + v = s + (l - a) + u
    BY <1>11
  <2>2. l \in Nat /\ left \in Nat
    <3> HIDE DEF now
    <3> QED
      BY <1>2, <2>1, BalanceFacts DEF now
  <2>3. u \in Nat /\ v \in Nat /\ f + v = s + e + u
    BY <1>1, <1>2, <1>3
  <2> HIDE DEF l, left, u, v
  <2>4. l = a + e
    BY <1>1, <1>2, <2>1, <2>2, <2>3
  <2> QED
    BY <2>4 DEF l
<1> QED
  BY <1>11, <1>12 DEF f, a, e

LEMMA CooperativeFinds ==
  ASSUME tasks \in Seq(TaskChoices), NEW z \in 1..Len(tasks), NEW r \in Runnables(z),
         C(z) > 0, tasks[z].runnables[r] > 0, tasks[z].type = "cooperative",
         BusyPeriod(z) <= Horizon, NEW k \in JobsOf(z), k = 1 \/ RateMonotonic,
         JobFinish(z, k, r) <= Horizon
  PROVE  Ends(z, Blocking(z), Horizon)[(k - 1) * C(z) + Accum(z, r)] = JobFinish(z, k, r)
<1> DEFINE b == Blocking(z)
           s == JobStart(z, k, r)
           f == JobFinish(z, k, r)
           to == Before(z, k, r) + tasks[z].runnables[r]
<1>1. k \in Nat \ {0}
  BY FirstJob DEF JobsOf
<1>2. b \in Nat /\ z \in Nat
  BY BlockingType
<1>3. PICK g : Ends(z, b, Horizon) = g[Horizon].ends /\ Runs(g, z, b)
  BY <1>2, Schedule
<1>4. to \in Nat /\ to > 0 /\ to = (k - 1) * C(z) + Accum(z, r)
  <2> DEFINE a == Before(z, k, r)
             e == tasks[z].runnables[r]
  <2>1. a \in Nat /\ e \in Nat /\ a + e = (k - 1) * C(z) + Accum(z, r) /\ e > 0
    BY <1>1, BeforeFacts
  <2> HIDE DEF a, e
  <2>2. a + e \in Nat /\ a + e > 0
    BY <2>1
  <2> QED
    BY <2>1, <2>2 DEF a, e
<1>5. f \in Nat /\ f <= Horizon /\ s < Horizon
  <2> DEFINE e == tasks[z].runnables[r]
  <2>1. s \in Nat /\ e \in Nat /\ f \in Nat /\ f >= s + e /\ e > 0 /\ f <= Horizon
    BY <1>1, StartLeast, BeforeFacts, FinishLeast
  <2> HIDE DEF e, s, f
  <2> QED
    BY <2>1, HorizonType
<1>6. LET a == Before(z, k, r)
      IN  /\ Balance(z, b, g[s + 1], s + 1) /\ g[s + 1].block = 0
          /\ Ready(Preempting(z), z, g[s + 1].ready) = 0
          /\ Len(g[s + 1].ends) = a + 1 /\ g[s + 1].ends[a + 1] = s + 1
  BY <1>3, <1>5, JobBegins
<1>7. Balance(z, b, g[f], f) /\ Len(g[f].ends) = to /\ g[f].ends[to] = f
  <2> HIDE DEF b
  <2> QED
    BY <1>1, <1>2, <1>3, <1>6, JobEnds
<1>8. f \in 0..Horizon /\ g[f] \in Situation(z) /\ to \in 1..Len(g[f].ends)
  <2> HIDE DEF to, f
  <2> QED
    BY <1>4, <1>5, <1>7, HorizonType DEF Balance
<1>9. g[Horizon].ends[to] = f
  <2> HIDE DEF to, f, b
  <2> QED
    BY <1>2, <1>3, <1>7, <1>8, EndsKept
<1> QED
  BY <1>3, <1>4, <1>9

(* A task whose first job meets its deadline has one job in its busy period:   *)
(* that job ends after all the work that the busy period counts for it.        *)
LEMMA OneJob ==
  ASSUME tasks \in Seq(TaskChoices), NEW z \in 1..Len(tasks), NEW r \in Runnables(z),
         C(z) > 0, tasks[z].runnables[r] > 0, Accum(z, r) = C(z),
         BusyPeriod(z) <= Horizon, JobFinish(z, 1, r) <= Horizon, JobFinish(z, 1, r) <= T(z)
  PROVE  JobsOf(z) = {1}
<1> DEFINE b == Blocking(z)
           s == JobStart(z, 1, r)
           f == JobFinish(z, 1, r)
           e == tasks[z].runnables[r]
           a == Before(z, 1, r)
           rel == Released(Above(z), z, s + 1)
           work == PeriodWork(z, T(z))
<1>1. b \in Nat /\ T(z) \in Nat \ {0} /\ C(z) \in Nat /\ 1 \in Nat \ {0}
  BY BlockingType, TaskFacts
<1>2. a \in Nat /\ e \in Nat /\ a + e = C(z)
  <2>1. a \in Nat /\ e \in Nat /\ a + e = (1 - 1) * C(z) + Accum(z, r)
    BY <1>1, BeforeFacts
  <2>2. (1 - 1) * C(z) + Accum(z, r) = C(z)
    BY <1>1
  <2> QED
    BY <2>1, <2>2
<1>3. s \in Nat /\ f \in Nat /\ f >= s + e
  BY <1>1, StartLeast, FinishLeast
<1>4. s <= Horizon /\ s + 1 \in Nat
  <2>1. f <= Horizon
    OBVIOUS
  <2> HIDE DEF s, f, e
  <2> QED
    BY <1>2, <1>3, <2>1, HorizonType
<1>5. s = (b + a) + rel /\ rel \in Nat
  <2>1. rel \in Nat
    <3> HIDE DEF s
    <3> QED
      BY <1>4, ReleasedType
  <2> QED
    BY <1>1, <1>4, <2>1, StartLeast
<1>6. work \in Nat /\ work <= rel + C(z)
  <2>1. ASSUME NEW i \in 1..(z - 1) PROVE 1 <= MyCeil(s + 1, T(i))
    <3>1. T(i) \in Nat \ {0}
      BY TaskFacts
    <3> HIDE DEF s
    <3>2. MyCeil(s + 1, T(i)) \in Nat /\ MyCeil(s + 1, T(i)) >= 1
      BY <1>3, <3>1, CeilPositive
    <3> QED
      BY <3>2
  <2> HIDE DEF s
  <2>2. PeriodWork(z, 1 * T(z)) \in Nat /\ PeriodWork(z, 1 * T(z)) <= rel + 1 * C(z)
    BY <1>1, <1>4, <2>1, PeriodWorkCovered
  <2>3. 1 * T(z) = T(z) /\ 1 * C(z) = C(z)
    BY <1>1
  <2> QED
    BY <2>2, <2>3
<1>7. b + work <= T(z)
  <2>1. f <= T(z)
    OBVIOUS
  <2> HIDE DEF b, s, f, e, a, rel, work
  <2> QED
    BY <1>1, <1>2, <1>3, <1>5, <1>6, <2>1
<1>8. 2 \notin JobsOf(z)
  <2> SUFFICES ASSUME 2 \in JobsOf(z) PROVE FALSE
    OBVIOUS
  <2>1. 1 * T(z) < b + PeriodWork(z, 1 * T(z))
    <3>1. 1 \in Nat /\ 1 <= 1 /\ 1 < 2
      OBVIOUS
    <3> QED
      BY <3>1, PeriodNotOver
  <2>2. 1 * T(z) = T(z)
    BY <1>1
  <2>3. T(z) < b + work
    BY <2>1, <2>2
  <2> HIDE DEF b, work
  <2> QED
    BY <1>1, <1>6, <1>7, <2>3
<1> DEFINE jobs == MyCeil(BusyPeriod(z), T(z))
<1>9. jobs \in Nat /\ 1 \in JobsOf(z) /\ JobsOf(z) = 1..jobs
  BY FirstJob DEF JobsOf
<1> HIDE DEF jobs
<1>10. 1 <= jobs /\ ~(2 <= jobs)
  BY <1>8, <1>9
<1>11. jobs = 1
  BY <1>9, <1>10
<1> QED
  BY <1>9, <1>11

(* The last runnable of a task ends with its job. *)
LEMMA LastAccum ==
  ASSUME tasks \in Seq(TaskChoices), NEW z \in 1..Len(tasks), NEW r \in Runnables(z),
         r = Len(tasks[z].runnables), tasks[z].runnables[r] > 0
  PROVE  Accum(z, r) = C(z)
<1>1. PICK q \in Runnables(z) : Accum(z, q) = C(z)
  BY AccumOrder
<1>2. q \in Nat /\ r \in Nat /\ q <= r
  BY AccumFacts
<1>3. /\ tasks[z].runnables[r] \in Nat
      /\ Accum(z, r) \in Nat /\ Accum(z, r) <= C(z) /\ C(z) \in Nat
  BY AccumFacts, BeforeFacts, TaskFacts DEF Runnables
<1>4. q < r => C(z) <= Accum(z, r) - tasks[z].runnables[r]
  BY <1>1, AccumOrder
<1>5. ~(q < r)
  BY <1>3, <1>4
<1>6. q = r
  BY <1>2, <1>5
<1> QED
  BY <1>1, <1>6

-----------------------------------------------------------------------------
(* The analysis. *)

Count == IF next = 0 THEN 0 ELSE next - 1

(* The answers to a task are those of the iteration, which have settled. *)
Found(z) ==
  /\ responses[z] = [r \in Runnables(z) |-> PreemptiveResponse(z, r)]
  /\ \A r \in Runnables(z) : PreemptiveResponse(z, r) <= Horizon

CooperativeFound(z) ==
  /\ responses[z] = [r \in Runnables(z) |-> CooperativeResponse(z, r)]
  /\ BusyPeriod(z) <= Horizon
  /\ \A k \in JobsOf(z), r \in Runnables(z) : JobFinish(z, k, r) <= Horizon

Answered(z) ==
  /\ tasks[z].type = "preemptive" /\ MeetsDeadlines(z) => Found(z)
  /\ tasks[z].type = "cooperative" => CooperativeFound(z)

(* The tasks before next are answered: a cooperative one by its analysis, a    *)
(* preemptive one that has no miss up to it by the first of its two analyses.  *)
AnalysisInv ==
  /\ tasks \in Seq(TaskChoices)
  /\ next \in Nat /\ Count <= Len(tasks)
  /\ responses = [i \in 1..Count |-> responses[i]]
  /\ \A z \in 1..Count : Answered(z)

(* Every task does something, and every runnable takes some time. *)
Works(t) == t.runnables # <<>> /\ \A r \in DOMAIN t.runnables : t.runnables[r] > 0

(* Sequences of anything. *)
LEMMA TupleAny ==
  ASSUME NEW n \in Nat, NEW s, s = [i \in 1..n |-> s[i]], NEW S, \A i \in 1..n : s[i] \in S
  PROVE  s \in Seq(S) /\ Len(s) = n
<1>1. s \in [1..n -> S]
  OBVIOUS
<1> QED
  BY <1>1, SeqDef, LenProperties

LEMMA AppendAny ==
  ASSUME NEW n \in Nat, NEW s, s = [i \in 1..n |-> s[i]], NEW e
  PROVE  /\ Append(s, e) = [i \in 1..(n + 1) |-> Append(s, e)[i]]
         /\ Append(s, e)[n + 1] = e
         /\ \A i \in 1..n : Append(s, e)[i] = s[i]
<1> DEFINE S == {s[i] : i \in 1..n} \cup {e}
<1>1. e \in S /\ \A i \in 1..n : s[i] \in S
  OBVIOUS
<1> HIDE DEF S
<1>2. s \in Seq(S) /\ Len(s) = n
  BY <1>1, TupleAny
<1> QED
  BY <1>1, <1>2, AppendProperties

LEMMA WorksFacts ==
  ASSUME \A t \in TaskChoices : Works(t), tasks \in Seq(TaskChoices), NEW z \in 1..Len(tasks)
  PROVE  /\ Len(tasks[z].runnables) \in Nat \ {0} /\ Runnables(z) = 1..Len(tasks[z].runnables)
         /\ C(z) > 0 /\ \A r \in Runnables(z) : Accum(z, r) > 0
<1> DEFINE s == tasks[z].runnables
<1>1. Len(s) \in Nat /\ s \in [1..Len(s) -> Nat]
  BY TaskFacts
<1>2. Works(tasks[z])
  OBVIOUS
<1>3. Runnables(z) = 1..Len(s)
  BY <1>1 DEF Runnables
<1>4. Len(s) # 0
  <2>1. s # <<>> /\ s \in Seq(Nat)
    BY <1>1, <1>2, SeqDef DEF Works
  <2> QED
    BY <2>1, EmptySeq
<1>5. ASSUME NEW r \in Runnables(z) PROVE Accum(z, r) > 0 /\ C(z) > 0
  <2>1. s[r] > 0 /\ s[r] \in Nat
    BY <1>1, <1>2, <1>3 DEF Works
  <2>2. s[r] <= Accum(z, r) /\ Accum(z, r) <= C(z) /\ Accum(z, r) \in Nat /\ C(z) \in Nat
    BY AccumFacts, TaskFacts
  <2> HIDE DEF s
  <2> QED
    BY <2>1, <2>2
<1>6. 1 \in Runnables(z)
  BY <1>1, <1>3, <1>4
<1> QED
  BY <1>1, <1>3, <1>4, <1>5, <1>6

(* Operators that read only the tasks keep their values while the tasks do. *)
LEMMA SameTasks ==
  ASSUME UNCHANGED tasks, NEW CONSTANT z
  PROVE  /\ Runnables(z)' = Runnables(z) /\ T(z)' = T(z)
         /\ \A r : PreemptiveResponse(z, r)' = PreemptiveResponse(z, r)
         /\ BusyPeriod(z)' = BusyPeriod(z) /\ JobsOf(z)' = JobsOf(z)
         /\ \A k, r : JobFinish(z, k, r)' = JobFinish(z, k, r)
         /\ \A r : CooperativeResponse(z, r)' = CooperativeResponse(z, r)
<1>1. Runnables(z)' = Runnables(z) /\ T(z)' = T(z)
  BY DEF Runnables, T
<1>2. \A r : PreemptiveResponse(z, r)' = PreemptiveResponse(z, r)
  BY DEF PreemptiveResponse, Accum, Interference, C, T
<1>3. BusyPeriod(z)' = BusyPeriod(z)
  BY DEF BusyPeriod, Blocking, Interference, C, T
<1>4. JobsOf(z)' = JobsOf(z)
  BY <1>1, <1>3, Zenon DEF JobsOf
<1>5. \A k, r : JobFinish(z, k, r)' = JobFinish(z, k, r)
  BY DEF JobFinish, JobStart, Accum, Blocking, Interference, C, T
<1>6. \A r : CooperativeResponse(z, r)' = CooperativeResponse(z, r)
  BY DEF CooperativeResponse, WorstJob, JobsOf, BusyPeriod, JobFinish, JobStart, Accum, Blocking,
         Interference, C, T
<1> QED
  BY <1>1, <1>2, <1>3, <1>4, <1>5, <1>6

LEMMA AnalysisInitInv == AnalysisInit => AnalysisInv
<1> SUFFICES ASSUME AnalysisInit PROVE AnalysisInv
  OBVIOUS
<1>1. tasks = <<>> /\ next = 0 /\ responses = <<>> /\ Count = 0
  BY DEF AnalysisInit, Count
<1>2. <<>> \in Seq(TaskChoices) /\ Len(<<>>) = 0 /\ <<>> = [i \in 1..0 |-> <<>>[i]]
  OBVIOUS
<1> QED
  BY <1>1, <1>2 DEF AnalysisInv

(* One more answer. *)
LEMMA AnswerInv ==
  ASSUME AnalysisInv, NEW CONSTANT z \in 1..Len(tasks), next = z,
         NEW response, Analyse(response),
         Answered(z)'
  PROVE  AnalysisInv'
<1>1. UNCHANGED tasks /\ responses' = Append(responses, response) /\ next' = z + 1
  BY DEF Analyse
<1>2. z \in Nat /\ Count = z - 1 /\ Count' = z /\ z - 1 \in Nat /\ (z - 1) + 1 = z
  BY <1>1 DEF Count
<1>3. responses = [i \in 1..(z - 1) |-> responses[i]]
  BY <1>2 DEF AnalysisInv
<1>4. /\ responses' = [i \in 1..z |-> responses'[i]]
      /\ \A i \in 1..(z - 1) : responses'[i] = responses[i]
  BY <1>1, <1>2, <1>3, AppendAny
<1>5. ASSUME NEW CONSTANT y \in 1..(z - 1), tasks[y].type = "preemptive", MeetsDeadlines(y)'
      PROVE  Found(y)'
  <2>1. MeetsDeadlines(y)
    <3> SUFFICES ASSUME NEW i \in Misses(responses), i \in 1..y PROVE FALSE
      BY DEF MeetsDeadlines
    <3>1. i \in 1..(z - 1) /\ i \in 1..z
      BY <1>2
    <3>2. T(i)' = T(i) /\ responses'[i] = responses[i] /\ DOMAIN responses' = 1..z
      BY <1>1, <1>4, <3>1 DEF T
    <3>3. i \in Misses(responses)'
      BY <3>1, <3>2 DEF Misses
    <3> QED
      BY <1>5, <3>3 DEF MeetsDeadlines
  <2>2. Found(y)
    BY <1>2, <1>5, <2>1 DEF AnalysisInv, Answered
  <2> QED
    BY <1>1, <1>4, <2>2, SameTasks DEF Found
<1>6. ASSUME NEW CONSTANT y \in 1..z PROVE Answered(y)'
  <2>1. y = z \/ y \in 1..(z - 1)
    BY <1>2
  <2>2. CASE y \in 1..(z - 1)
    <3>1. tasks[y].type = "cooperative" => CooperativeFound(y)
      BY <1>2, <2>2 DEF AnalysisInv, Answered
    <3>2. tasks[y].type = "cooperative" => CooperativeFound(y)'
      BY <1>1, <1>4, <2>2, <3>1, SameTasks DEF CooperativeFound
    <3> QED
      BY <1>1, <1>5, <2>2, <3>2 DEF Answered
  <2> QED
    BY <2>1, <2>2
<1>7. tasks' \in Seq(TaskChoices) /\ next' \in Nat /\ Count' <= Len(tasks)'
  BY <1>1, <1>2 DEF AnalysisInv
<1> QED
  BY <1>2, <1>4, <1>6, <1>7 DEF AnalysisInv

LEMMA PreemptiveTaskInv ==
  ASSUME \A t \in TaskChoices : Works(t), AnalysisInv,
         NEW CONSTANT z \in DOMAIN tasks, ResponseTimePreemptiveTask(z)
  PROVE  AnalysisInv'
<1> DEFINE first == [r \in Runnables(z) |-> PreemptiveResponse(z, r)]
           second == [r \in Runnables(z) |-> MissResponse(z, r)]
           n == Len(tasks[z].runnables)
<1>1. /\ tasks \in Seq(TaskChoices) /\ z \in 1..Len(tasks) /\ next = z /\ tasks[z].type = "preemptive"
      /\ z \in Nat /\ z - 1 \in Nat /\ (z - 1) + 1 = z /\ Count = z - 1
  <2>1. next = z /\ tasks[z].type = "preemptive" /\ next \in 1..Len(tasks)
    BY DEF ResponseTimePreemptiveTask, Analysing
  <2> QED
    BY <2>1 DEF AnalysisInv, Count
<1>2. n \in Nat \ {0} /\ Runnables(z) = 1..n /\ C(z) > 0
  BY <1>1, WorksFacts
<1>3. /\ Preemptively(z) = [i \in 1..z |-> Preemptively(z)[i]]
      /\ Preemptively(z)[z] = first
      /\ \A i \in 1..(z - 1) : Preemptively(z)[i] = responses[i]
  <2>1. responses = [i \in 1..(z - 1) |-> responses[i]]
    BY <1>1 DEF AnalysisInv
  <2>2. Preemptively(z) = Append(responses, first)
    BY DEF Preemptively
  <2> HIDE DEF first
  <2> QED
    BY <1>1, <2>1, <2>2, AppendAny
<1>4. CASE Misses(Preemptively(z)) = {}
  <2>1. Analyse(first)
    BY <1>3, <1>4, Zenon DEF ResponseTimePreemptiveTask
  <2>2. UNCHANGED tasks /\ responses' = Preemptively(z)
    BY <2>1 DEF Analyse, Preemptively
  <2>3. \A r \in Runnables(z) : PreemptiveResponse(z, r) <= Horizon
    BY <2>1 DEF Analyse, Settles
  <2>4. Found(z)'
    BY <1>3, <2>2, <2>3, SameTasks DEF Found
  <2>5. Answered(z)'
    BY <1>1, <2>2, <2>4 DEF Answered
  <2> HIDE DEF first
  <2> QED
    BY <1>1, <2>1, <2>5, AnswerInv
<1>5. CASE Misses(Preemptively(z)) # {}
  <2>1. Analyse(second)
    BY <1>5, Zenon DEF ResponseTimePreemptiveTask
  <2>2. UNCHANGED tasks /\ responses' = Append(responses, second)
    BY <2>1 DEF Analyse
  <2>3. /\ responses' = [i \in 1..z |-> responses'[i]] /\ responses'[z] = second
        /\ \A i \in 1..(z - 1) : responses'[i] = responses[i]
    <3>1. responses = [i \in 1..(z - 1) |-> responses[i]]
      BY <1>1 DEF AnalysisInv
    <3> HIDE DEF second
    <3> QED
      BY <1>1, <2>2, <3>1, AppendAny
  <2>4. PICK i \in 1..z : Last(Preemptively(z)[i]) > T(i)
    BY <1>3, <1>5 DEF Misses
  <2>5. Last(responses'[i]) > T(i)
    <3>1. CASE i \in 1..(z - 1)
      BY <1>3, <2>3, <2>4, <3>1
    <3>2. CASE i = z
      <4>1. Last(first) = PreemptiveResponse(z, n) /\ Last(second) = MissResponse(z, n)
        <5>1. DOMAIN first = 1..n /\ DOMAIN second = 1..n /\ n \in 1..n
          BY <1>2
        <5>2. Len(first) = n /\ Len(second) = n
          <6>1. \A r \in 1..n : first[r] \in {first[k] : k \in 1..n} /\ second[r] \in {second[k] : k \in 1..n}
            OBVIOUS
          <6>2. first = [r \in 1..n |-> first[r]] /\ second = [r \in 1..n |-> second[r]]
            BY <1>2
          <6> HIDE DEF first, second, n
          <6> QED
            BY <1>2, <6>1, <6>2, TupleAny
        <5> QED
          BY <1>2, <5>1, <5>2 DEF Last
      <4>2. MissResponse(z, n) \in Nat /\ PreemptiveResponse(z, n) \in Nat
            /\ PreemptiveResponse(z, n) <= MissResponse(z, n)
        BY <1>1, <1>2, MissNoBetter, ResponseLeast
      <4>3. T(z) \in Nat
        BY <1>1, TaskFacts
      <4>4. PreemptiveResponse(z, n) > T(z)
        BY <1>3, <2>4, <3>2, <4>1
      <4>5. MissResponse(z, n) > T(z)
        BY <4>2, <4>3, <4>4
      <4> QED
        BY <2>3, <3>2, <4>1, <4>5
    <3> QED
      BY <1>1, <3>1, <3>2
  <2>6. i \in Misses(responses)'
    <3>1. T(i)' = T(i) /\ DOMAIN responses' = 1..z
      BY <2>2, <2>3 DEF T
    <3> QED
      BY <2>5, <3>1 DEF Misses
  <2>7. ~MeetsDeadlines(z)'
    BY <2>6 DEF MeetsDeadlines
  <2>8. Answered(z)'
    BY <1>1, <2>2, <2>7 DEF Answered
  <2> HIDE DEF second
  <2> QED
    BY <1>1, <2>1, <2>8, AnswerInv
<1> QED
  BY <1>4, <1>5

LEMMA CooperativeTaskInv ==
  ASSUME AnalysisInv, NEW CONSTANT z \in DOMAIN tasks, ResponseTimeCooperativeTask(z)
  PROVE  AnalysisInv'
<1> DEFINE answer == [r \in Runnables(z) |-> CooperativeResponse(z, r)]
<1>1. next = z /\ tasks[z].type = "cooperative" /\ z \in 1..Len(tasks)
  BY DEF ResponseTimeCooperativeTask, Analysing
<1>2. Analyse(answer)
  BY DEF ResponseTimeCooperativeTask
<1>3. UNCHANGED tasks /\ responses' = Append(responses, answer)
  BY <1>2 DEF Analyse
<1>4. responses'[z] = answer
  <2>1. z - 1 \in Nat /\ (z - 1) + 1 = z /\ Count = z - 1
    BY <1>1 DEF AnalysisInv, Count
  <2>2. responses = [i \in 1..(z - 1) |-> responses[i]]
    BY <2>1 DEF AnalysisInv
  <2> HIDE DEF answer
  <2> QED
    BY <1>3, <2>1, <2>2, AppendAny
<1>5. /\ BusyPeriod(z) <= Horizon
      /\ \A k \in JobsOf(z), r \in Runnables(z) : JobFinish(z, k, r) <= Horizon
  BY DEF ResponseTimeCooperativeTask, Settles
<1>6. CooperativeFound(z)'
  BY <1>3, <1>4, <1>5, SameTasks DEF CooperativeFound
<1>7. Answered(z)'
  BY <1>1, <1>3, <1>6 DEF Answered
<1> HIDE DEF answer
<1> QED
  BY <1>1, <1>2, <1>7, AnswerInv

LEMMA AnalysisStepInv ==
  ASSUME \A t \in TaskChoices : Works(t), AnalysisInv, [AnalysisNext]_analysisVars
  PROVE  AnalysisInv'
<1>1. ASSUME NEW CONSTANT t \in TaskChoices, AddTask(t) PROVE AnalysisInv'
  <2>1. next = 0 /\ next' = 0 /\ tasks' = Append(tasks, t) /\ responses' = responses
    BY <1>1 DEF AddTask
  <2>2. tasks' \in Seq(TaskChoices) /\ Len(tasks') = Len(tasks) + 1 /\ Len(tasks) \in Nat
    BY <2>1 DEF AnalysisInv
  <2>3. Count = 0 /\ Count' = 0
    BY <2>1 DEF Count
  <2> QED
    BY <2>1, <2>2, <2>3 DEF AnalysisInv
<1>2. ASSUME StartRTA PROVE AnalysisInv'
  <2>1. next = 0 /\ next' = 1 /\ tasks' = tasks /\ responses' = responses
    BY <1>2 DEF StartRTA
  <2>2. Count = 0 /\ Count' = 0
    BY <2>1 DEF Count
  <2> QED
    BY <2>1, <2>2 DEF AnalysisInv
<1>3. ASSUME NEW CONSTANT z \in DOMAIN tasks, ResponseTimePreemptiveTask(z) PROVE AnalysisInv'
  BY <1>3, PreemptiveTaskInv
<1>4. ASSUME NEW CONSTANT z \in DOMAIN tasks, ResponseTimeCooperativeTask(z) PROVE AnalysisInv'
  BY <1>4, CooperativeTaskInv
<1>5. ASSUME UNCHANGED analysisVars PROVE AnalysisInv'
  <2>1. tasks' = tasks /\ next' = next /\ responses' = responses
    BY <1>5 DEF analysisVars
  <2>2. Count' = Count
    BY <2>1 DEF Count
  <2>3. ASSUME NEW CONSTANT z \in 1..Count PROVE Answered(z)'
    <3>1. Answered(z)
      BY <2>3 DEF AnalysisInv
    <3>2. MeetsDeadlines(z)' = MeetsDeadlines(z)
      BY <2>1 DEF MeetsDeadlines, Misses, T
    <3>3. Found(z) => Found(z)'
      BY <2>1, SameTasks DEF Found
    <3>4. CooperativeFound(z) => CooperativeFound(z)'
      BY <2>1, SameTasks DEF CooperativeFound
    <3> QED
      BY <2>1, <3>1, <3>2, <3>3, <3>4 DEF Answered
  <2> QED
    BY <2>1, <2>2, <2>3 DEF AnalysisInv
<1> QED
  BY <1>1, <1>2, <1>3, <1>4, <1>5 DEF AnalysisNext

(* What has been found is in the schedule. *)
LEMMA FoundExact ==
  ASSUME \A t \in TaskChoices : Works(t), AnalysisInv
  PROVE  PreemptiveExact
<1> SUFFICES ASSUME NEW z \in Analysed("preemptive"), MeetsDeadlines(z), NEW r \in DOMAIN responses[z]
             PROVE  responses[z][r] = WorstEnd(z, r, Ends(z, 0, Horizon), {1})
  BY DEF PreemptiveExact
<1>1. z \in 1..Count /\ z \in 1..Len(tasks) /\ tasks[z].type = "preemptive"
  <2>1. DOMAIN responses = 1..Count /\ Count <= Len(tasks) /\ Len(tasks) \in Nat /\ Count \in Nat
    BY DEF AnalysisInv, Count
  <2> QED
    BY <2>1 DEF Analysed
<1>2. tasks \in Seq(TaskChoices) /\ Found(z)
  BY <1>1 DEF AnalysisInv, Answered
<1>3. r \in Runnables(z) /\ responses[z][r] = PreemptiveResponse(z, r) /\ PreemptiveResponse(z, r) <= Horizon
  BY <1>2 DEF Found
<1> DEFINE end == Ends(z, 0, Horizon)[Accum(z, r)]
<1>4. Accum(z, r) > 0 /\ Accum(z, r) \in Nat /\ C(z) \in Nat /\ T(z) \in Nat
  BY <1>1, <1>2, <1>3, WorksFacts, AccumFacts, TaskFacts
<1>5. end = PreemptiveResponse(z, r) /\ end \in Nat
  BY <1>1, <1>2, <1>3, <1>4, ScheduleFinds, ResponseLeast
<1>6. WorstEnd(z, r, Ends(z, 0, Horizon), {1}) = TaskMax({end})
  <2>1. (1 - 1) * C(z) + Accum(z, r) = Accum(z, r) /\ (1 - 1) * T(z) = 0
    BY <1>4
  <2>2. WorstEnd(z, r, Ends(z, 0, Horizon), {1})
          = TaskMax({Ends(z, 0, Horizon)[(1 - 1) * C(z) + Accum(z, r)] - (1 - 1) * T(z)})
    BY DEF WorstEnd
  <2>3. end - 0 = end
    BY <1>5
  <2> QED
    BY <2>1, <2>2, <2>3
<1>7. TaskMax({end}) = end
  <2> HIDE DEF end
  <2> QED
    BY <1>5 DEF TaskMax
<1> QED
  BY <1>3, <1>5, <1>6, <1>7

(* What is known of a cooperative task that has been analysed.  If no deadline *)
(* is missed up to it, the analysis has looked at its first job only.          *)
LEMMA CooperativeFacts ==
  ASSUME \A t \in TaskChoices : Works(t), AnalysisInv, NEW z \in Analysed("cooperative")
  PROVE  /\ z \in 1..Len(tasks) /\ tasks[z].type = "cooperative" /\ tasks \in Seq(TaskChoices)
         /\ CooperativeFound(z)
         /\ C(z) > 0 /\ \A q \in Runnables(z) : tasks[z].runnables[q] > 0
         /\ \A q \in Runnables(z) :
              CooperativeResponse(z, q) = TaskMax({JobFinish(z, k, q) - (k - 1) * T(z) : k \in JobsOf(z)})
         /\ MeetsDeadlines(z) => JobsOf(z) = {1}
<1>1. z \in 1..Count /\ z \in 1..Len(tasks) /\ tasks[z].type = "cooperative" /\ z \in DOMAIN responses
  <2>1. DOMAIN responses = 1..Count /\ Count <= Len(tasks) /\ Len(tasks) \in Nat /\ Count \in Nat
    BY DEF AnalysisInv, Count
  <2> QED
    BY <2>1 DEF Analysed
<1>2. tasks \in Seq(TaskChoices) /\ CooperativeFound(z)
  BY <1>1 DEF AnalysisInv, Answered
<1>3. BusyPeriod(z) <= Horizon /\ \A k \in JobsOf(z), q \in Runnables(z) : JobFinish(z, k, q) <= Horizon
  BY <1>2 DEF CooperativeFound
<1> DEFINE n == Len(tasks[z].runnables)
<1>4. /\ C(z) > 0 /\ n \in Nat \ {0} /\ Runnables(z) = 1..n
      /\ \A q \in Runnables(z) : tasks[z].runnables[q] > 0
  <2>1. C(z) > 0 /\ n \in Nat \ {0} /\ Runnables(z) = 1..n
    BY <1>1, <1>2, WorksFacts
  <2>2. Works(tasks[z])
    BY <1>1, <1>2
  <2> QED
    BY <2>1, <2>2 DEF Works, Runnables
<1> DEFINE jobs == MyCeil(BusyPeriod(z), T(z))
<1>5. jobs \in Nat /\ 1 \in JobsOf(z) /\ JobsOf(z) = 1..jobs
  BY <1>1, <1>2, <1>4, FirstJob DEF JobsOf
<1>6. ASSUME NEW k \in JobsOf(z), NEW q \in Runnables(z) PROVE JobFinish(z, k, q) \in Nat
  <2>1. k \in Nat \ {0}
    BY <1>5
  <2> QED
    BY <1>1, <1>2, <1>4, <2>1, FinishLeast
<1>7. ASSUME NEW q \in Runnables(z)
      PROVE  /\ JobFinish(z, 1, q) <= CooperativeResponse(z, q)
             /\ CooperativeResponse(z, q)
                  = TaskMax({JobFinish(z, k, q) - (k - 1) * T(z) : k \in JobsOf(z)})
  <2> DEFINE finish == [k \in JobsOf(z) |-> JobFinish(z, k, q)]
  <2>1. finish \in [1..jobs -> Nat]
    BY <1>5, <1>6
  <2>2. \A k \in 1..jobs : finish[k] = JobFinish(z, k, q)
    BY <1>5
  <2>3. CooperativeResponse(z, q) = WorstJob(z, finish)
    BY DEF CooperativeResponse
  <2> HIDE DEF finish, jobs
  <2>4. /\ \A k \in 1..jobs : finish[k] - (k - 1) * T(z) <= WorstJob(z, finish)
        /\ jobs > 0 => WorstJob(z, finish) = TaskMax({finish[k] - (k - 1) * T(z) : k \in 1..jobs})
    BY <1>1, <1>2, <1>5, <2>1, WorstJobBound
  <2>5. jobs > 0 /\ 1 \in 1..jobs
    BY <1>5
  <2>6. {finish[k] - (k - 1) * T(z) : k \in 1..jobs} = {JobFinish(z, k, q) - (k - 1) * T(z) : k \in JobsOf(z)}
    BY <1>5, <2>2
  <2>7. finish[1] - (1 - 1) * T(z) = JobFinish(z, 1, q)
    <3>1. T(z) \in Nat
      BY <1>1, <1>2, TaskFacts
    <3>2. (1 - 1) * T(z) = 0 /\ finish[1] \in Nat
      BY <2>1, <2>5, <3>1
    <3> QED
      BY <2>2, <2>5, <3>2
  <2>8. JobFinish(z, 1, q) <= WorstJob(z, finish)
    BY <2>4, <2>5, <2>7
  <2> QED
    BY <2>3, <2>4, <2>5, <2>6, <2>8
<1>8. MeetsDeadlines(z) => JobsOf(z) = {1}
  <2> SUFFICES ASSUME MeetsDeadlines(z) PROVE JobsOf(z) = {1}
    OBVIOUS
  <2>1. n \in Runnables(z) /\ tasks[z].runnables[n] > 0
    BY <1>4
  <2>2. Last(responses[z]) = CooperativeResponse(z, n)
    <3> DEFINE answer == responses[z]
    <3>1. answer = [q \in 1..n |-> answer[q]] /\ \A q \in 1..n : answer[q] = CooperativeResponse(z, q)
      BY <1>2, <1>4 DEF CooperativeFound
    <3>2. \A q \in 1..n : answer[q] \in {answer[i] : i \in 1..n}
      OBVIOUS
    <3> HIDE DEF answer, n
    <3>3. Len(answer) = n
      BY <1>4, <3>1, <3>2, TupleAny
    <3>4. n \in 1..n
      BY <1>4
    <3> QED
      BY <3>1, <3>3, <3>4 DEF Last, answer
  <2>3. ~(Last(responses[z]) > T(z))
    <3>1. z \in 1..z
      BY <1>1
    <3> QED
      BY <1>1, <3>1 DEF MeetsDeadlines, Misses
  <2>4. JobFinish(z, 1, n) <= T(z)
    <3> DEFINE f == JobFinish(z, 1, n)
               w == CooperativeResponse(z, n)
    <3>1. f \in Nat /\ f <= w /\ ~(w > T(z)) /\ T(z) \in Nat
      BY <1>1, <1>2, <1>5, <1>6, <1>7, <2>1, <2>2, <2>3, TaskFacts
    <3>2. w \in Nat
      <4> DEFINE finish == [k \in JobsOf(z) |-> JobFinish(z, k, n)]
      <4>1. finish \in [1..jobs -> Nat]
        BY <1>5, <1>6, <2>1
      <4>2. w = WorstJob(z, finish)
        BY DEF CooperativeResponse
      <4> HIDE DEF finish, jobs
      <4> QED
        BY <1>1, <1>2, <1>5, <4>1, <4>2, WorstJobBound
    <3> HIDE DEF f, w
    <3>3. f <= T(z)
      BY <3>1, <3>2
    <3> QED
      BY <3>3 DEF f
  <2>5. JobFinish(z, 1, n) <= Horizon
    BY <1>3, <1>5, <2>1
  <2>6. Accum(z, n) = C(z)
    BY <1>1, <1>2, <2>1, LastAccum
  <2> HIDE DEF n
  <2> QED
    BY <1>1, <1>2, <1>3, <1>4, <2>1, <2>4, <2>5, <2>6, OneJob
<1> QED
  BY <1>1, <1>2, <1>4, <1>7, <1>8

LEMMA CooperativeFoundExact ==
  ASSUME \A t \in TaskChoices : Works(t), AnalysisInv
  PROVE  CooperativeExact
<1> SUFFICES ASSUME NEW z \in Analysed("cooperative"), MeetsDeadlines(z) \/ RateMonotonic,
                    NEW r \in DOMAIN responses[z]
             PROVE  responses[z][r] = WorstEnd(z, r, Ends(z, Blocking(z), Horizon), JobsOf(z))
  BY DEF CooperativeExact
<1>1. /\ z \in 1..Len(tasks) /\ tasks[z].type = "cooperative" /\ tasks \in Seq(TaskChoices)
      /\ C(z) > 0 /\ \A q \in Runnables(z) : tasks[z].runnables[q] > 0
      /\ MeetsDeadlines(z) => JobsOf(z) = {1}
  BY CooperativeFacts
<1>2. /\ r \in Runnables(z) /\ responses[z][r] = CooperativeResponse(z, r)
      /\ BusyPeriod(z) <= Horizon /\ \A k \in JobsOf(z), q \in Runnables(z) : JobFinish(z, k, q) <= Horizon
  BY CooperativeFacts DEF CooperativeFound
<1>3. CooperativeResponse(z, r) = TaskMax({JobFinish(z, k, r) - (k - 1) * T(z) : k \in JobsOf(z)})
  BY <1>2, CooperativeFacts
<1> DEFINE ends == Ends(z, Blocking(z), Horizon)
<1>4. ASSUME NEW k \in JobsOf(z) PROVE ends[(k - 1) * C(z) + Accum(z, r)] = JobFinish(z, k, r)
  <2>1. k = 1 \/ RateMonotonic
    BY <1>1
  <2> QED
    BY <1>1, <1>2, <2>1, CooperativeFinds
<1> HIDE DEF ends
<1>5. {ends[(k - 1) * C(z) + Accum(z, r)] - (k - 1) * T(z) : k \in JobsOf(z)}
        = {JobFinish(z, k, r) - (k - 1) * T(z) : k \in JobsOf(z)}
  BY <1>4
<1>6. WorstEnd(z, r, ends, JobsOf(z)) = CooperativeResponse(z, r)
  BY <1>3, <1>5 DEF WorstEnd
<1> QED
  BY <1>2, <1>6 DEF ends

(* Whatever tasks a core has, preemptive or cooperative above it and below it, *)
(* the analysis of a preemptive task that meets its deadline, like those above *)
(* it, finds the end of each of its runnables in the schedule                  *)
(* (Task.java, responseTimePreemptiveTask; Core.java, the loop over the tasks). *)
THEOREM PreemptiveExactHolds ==
  ASSUME \A t \in TaskChoices : Works(t)
  PROVE  AnalysisSpec => []PreemptiveExact
<1>1. AnalysisInv /\ [AnalysisNext]_analysisVars => AnalysisInv'
  BY AnalysisStepInv
<1>2. AnalysisInv => PreemptiveExact
  BY FoundExact
<1> QED
  BY <1>1, <1>2, AnalysisInitInv, PTL DEF AnalysisSpec

(* The analysis of a cooperative task finds the worst end of each of its       *)
(* runnables in the schedule, over the jobs of its busy period, if the core    *)
(* misses no deadline up to it or its priorities are rate-monotonic            *)
(* (Core.java, responseTimeCooperativeTask).                                   *)
THEOREM CooperativeExactHolds ==
  ASSUME \A t \in TaskChoices : Works(t)
  PROVE  AnalysisSpec => []CooperativeExact
<1>1. AnalysisInv /\ [AnalysisNext]_analysisVars => AnalysisInv'
  BY AnalysisStepInv
<1>2. AnalysisInv => CooperativeExact
  BY CooperativeFoundExact
<1> QED
  BY <1>1, <1>2, AnalysisInitInv, PTL DEF AnalysisSpec

(* Of a cooperative task up to which no deadline is missed the analysis looks  *)
(* at the first job only: busy_period gives the tasks above the period of the  *)
(* task itself, and counts one job of each.  A later job that responds later,  *)
(* or misses its deadline, is not seen (Core.java 105, 140-153).               *)
FirstJobOnly == \A z \in Analysed("cooperative") : MeetsDeadlines(z) => JobsOf(z) = {1}

THEOREM FirstJobOnlyHolds ==
  ASSUME \A t \in TaskChoices : Works(t)
  PROVE  AnalysisSpec => []FirstJobOnly
<1>1. AnalysisInv /\ [AnalysisNext]_analysisVars => AnalysisInv'
  BY AnalysisStepInv
<1>2. AnalysisInv => FirstJobOnly
  BY CooperativeFacts DEF FirstJobOnly
<1> QED
  BY <1>1, <1>2, AnalysisInitInv, PTL DEF AnalysisSpec

(* The two together: what the runs check of a few cores holds for every core.  *)
THEOREM ResponseTimesExactHolds ==
  ASSUME \A t \in TaskChoices : Works(t)
  PROVE  AnalysisSpec => []ResponseTimesExact
<1>1. AnalysisInv /\ [AnalysisNext]_analysisVars => AnalysisInv'
  BY AnalysisStepInv
<1>2. AnalysisInv => ResponseTimesExact
  BY FoundExact, CooperativeFoundExact DEF ResponseTimesExact
<1> QED
  BY <1>1, <1>2, AnalysisInitInv, PTL DEF AnalysisSpec
=============================================================================
