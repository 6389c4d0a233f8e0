----------------------------- MODULE TimeProofs -----------------------------
(***************************************************************************)
(* Proofs about Timespec, TimeLaws and Tstat, for any number of            *)
(* nanoseconds in a second, any units that divide it, and any times; and   *)
(* about the releases and deadlines of PtaskActivation, for any number of  *)
(* descriptors, any periods, deadlines and offsets.                        *)
(***************************************************************************)
EXTENDS Tstat, TimeLaws, PtaskActivation, TLAPS

(* Multiplication by a natural number keeps the order. *)
LEMMA TimesMonotonic ==
  ASSUME NEW i \in Int, NEW j \in Int, NEW k \in Nat, i <= j
  PROVE  i * k <= j * k
<1>1. (j - i) * k >= 0
  BY SMT
<1> QED
  BY <1>1, SMT

(* Division with remainder, and that it is the only one. *)
LEMMA DivMod ==
  ASSUME NEW m \in Int, NEW k \in Nat \ {0}
  PROVE  m \div k \in Int /\ m % k \in 0..(k - 1) /\ m = (m \div k) * k + (m % k)
BY SMT

LEMMA DivUnique ==
  ASSUME NEW k \in Nat \ {0}, NEW q \in Int, NEW r \in 0..(k - 1)
  PROVE  (q * k + r) \div k = q /\ (q * k + r) % k = r
<1> DEFINE m == q * k + r  p == m \div k  s == m % k
<1>1. p \in Int /\ s \in 0..(k - 1) /\ p * k + s = q * k + r
  BY DivMod
<1>2. (p - q) * k = r - s
  BY <1>1, SMT
<1>3. p - q < 1
  <2> SUFFICES ASSUME p - q >= 1 PROVE FALSE
    BY <1>1
  <2>1. 1 * k <= (p - q) * k
    BY <1>1, TimesMonotonic
  <2> QED
    BY <1>1, <1>2, <2>1
<1>4. p - q > -1
  <2> SUFFICES ASSUME p - q <= -1 PROVE FALSE
    BY <1>1
  <2>1. (p - q) * k <= (-1) * k
    BY <1>1, TimesMonotonic
  <2> QED
    BY <1>1, <1>2, <2>1
<1> QED
  BY <1>1, <1>2, <1>3, <1>4

(* C's division, which truncates, also of negative numbers. *)
LEMMA TruncatingDivision ==
  ASSUME NEW m \in Int, NEW k \in Nat \ {0}
  PROVE  /\ CDiv(m, k) \in Int /\ CMod(m, k) \in Int
         /\ m = CDiv(m, k) * k + CMod(m, k)
         /\ Abs(CMod(m, k)) < k
         /\ m >= 0 => CDiv(m, k) = m \div k /\ CMod(m, k) = m % k
<1>1. CASE m >= 0
  <2>1. m \div k \in Int /\ m % k \in 0..(k - 1) /\ m = (m \div k) * k + (m % k)
    BY DivMod
  <2>2. CDiv(m, k) = m \div k /\ CMod(m, k) = m % k
    BY <1>1, <2>1 DEF CDiv, CMod
  <2> QED
    BY <1>1, <2>1, <2>2 DEF Abs
<1>2. CASE m < 0
  <2> DEFINE q == (-m) \div k  r == (-m) % k
  <2>1. -m \in Int
    OBVIOUS
  <2>2. q \in Int /\ r \in 0..(k - 1) /\ -m = q * k + r
    BY <2>1, DivMod
  <2>3. CDiv(m, k) = -q
    BY <1>2 DEF CDiv
  <2> HIDE DEF q, r
  <2>4. m = (-q) * k - r
    BY <2>2
  <2>5. CMod(m, k) = -r
    BY <2>2, <2>3, <2>4 DEF CMod
  <2> QED
    BY <1>2, <2>2, <2>3, <2>4, <2>5 DEF Abs
<1> QED
  BY <1>1, <1>2

LEMMA ExactDivision ==
  ASSUME NEW q \in Int, NEW k \in Nat \ {0}
  PROVE  CDiv(q * k, k) = q
<1>1. CASE q >= 0
  <2>1. (q * k + 0) \div k = q
    BY DivUnique
  <2>2. q * k >= 0
    BY <1>1, TimesMonotonic
  <2> QED
    BY <2>1, <2>2 DEF CDiv
<1>2. CASE q < 0
  <2>1. ((-q) * k + 0) \div k = -q
    BY DivUnique
  <2>2. q * k <= (-1) * k
    BY <1>2, TimesMonotonic
  <2>3. -(q * k) = (-q) * k + 0
    OBVIOUS
  <2> QED
    BY <2>1, <2>2, <2>3 DEF CDiv
<1> QED
  BY <1>1, <1>2

-----------------------------------------------------------------------------
LEMMA UnitType ==
  /\ Billion \in Nat \ {0}
  /\ \A u \in Unit : Mul[u] \in Nat \ {0} /\ Div[u] \in Nat \ {0} /\ Mul[u] * Div[u] = Billion
BY TimeAssumption

LEMMA TimeParts ==
  ASSUME NEW t \in Time
  PROVE  /\ t.sec \in Int /\ t.nsec \in Int /\ 0 <= t.nsec /\ t.nsec < Billion
         /\ Value(t) = t.sec * Billion + t.nsec /\ Value(t) \in Int
         /\ Normal(t)
BY UnitType DEF Time, Value, Normal

LEMMA TimeOfParts ==
  ASSUME NEW s \in Int, NEW n \in Int
  PROVE  /\ Value(Ts(s, n)) = s * Billion + n /\ Value(Ts(s, n)) \in Int
         /\ Ts(s, n).sec = s /\ Ts(s, n).nsec = n
         /\ 0 <= n /\ n < Billion => Ts(s, n) \in Time
BY UnitType DEF Time, Value, Ts

LEMMA CarryExact ==
  ASSUME NEW s \in Int, NEW n \in Nat
  PROVE  Carry(Ts(s, n)) \in Time /\ Value(Carry(Ts(s, n))) = Value(Ts(s, n))
<1>1. CASE n < Billion
  <2>1. Carry(Ts(s, n)) = Ts(s, n)
    BY <1>1, UnitType DEF Carry, Ts
  <2> QED
    BY <1>1, <2>1, TimeOfParts
<1>2. CASE n >= Billion
  <2> DEFINE q == n \div Billion  r == n % Billion
  <2>1. q \in Int /\ r \in 0..(Billion - 1) /\ n = q * Billion + r
    BY UnitType, DivMod
  <2>2. Carry(Ts(s, n)) = Ts(s + q, r)
    BY <1>2 DEF Carry, Ts
  <2> HIDE DEF q, r
  <2>3. Value(Ts(s + q, r)) = (s + q) * Billion + r /\ Ts(s + q, r) \in Time
    BY <2>1, TimeOfParts, UnitType
  <2>4. (s + q) * Billion + r = s * Billion + n
    BY <2>1, UnitType
  <2> QED
    BY <2>2, <2>3, <2>4, TimeOfParts
<1> QED
  BY <1>1, <1>2, UnitType

LEMMA AddExact ==
  ASSUME NEW a \in Time, NEW b \in Time
  PROVE  Add(a, b) \in Time /\ Value(Add(a, b)) = Value(a) + Value(b)
<1>1. a.sec + b.sec \in Int /\ a.nsec + b.nsec \in Nat
  BY TimeParts
<1>2. Value(Ts(a.sec + b.sec, a.nsec + b.nsec)) = (a.sec + b.sec) * Billion + (a.nsec + b.nsec)
  BY <1>1, TimeOfParts
<1>3. (a.sec + b.sec) * Billion + (a.nsec + b.nsec) = Value(a) + Value(b)
  BY TimeParts, UnitType
<1> QED
  BY <1>1, <1>2, <1>3, CarryExact DEF Add

LEMMA SubExact ==
  ASSUME NEW a \in Time, NEW b \in Time
  PROVE  Sub(a, b) \in Time /\ Value(Sub(a, b)) = Value(a) - Value(b)
<1>1. /\ a.sec \in Int /\ a.nsec \in Int /\ 0 <= a.nsec /\ a.nsec < Billion
      /\ b.sec \in Int /\ b.nsec \in Int /\ 0 <= b.nsec /\ b.nsec < Billion
      /\ Value(a) = a.sec * Billion + a.nsec /\ Value(b) = b.sec * Billion + b.nsec
  BY TimeParts
<1>2. CASE a.nsec < b.nsec
  <2> DEFINE s == a.sec - b.sec - 1  n == a.nsec - b.nsec + Billion
  <2>1. Sub(a, b) = Ts(s, n)
    BY <1>2 DEF Sub, Borrow
  <2>2. s \in Int /\ n \in Int /\ 0 <= n /\ n < Billion
    BY <1>1, <1>2, UnitType
  <2>3. s * Billion + n = Value(a) - Value(b)
    BY <1>1, UnitType
  <2> QED
    BY <2>1, <2>2, <2>3, TimeOfParts
<1>3. CASE ~(a.nsec < b.nsec)
  <2> DEFINE s == a.sec - b.sec  n == a.nsec - b.nsec
  <2>1. Sub(a, b) = Ts(s, n)
    BY <1>3 DEF Sub, Borrow
  <2>2. s \in Int /\ n \in Int /\ 0 <= n /\ n < Billion
    BY <1>1, <1>3, UnitType
  <2>3. s * Billion + n = Value(a) - Value(b)
    BY <1>1, UnitType
  <2> QED
    BY <2>1, <2>2, <2>3, TimeOfParts
<1> QED
  BY <1>2, <1>3

(* The order of normal times is that of their seconds first. *)
LEMMA CmpOrder ==
  ASSUME NEW a \in Time, NEW b \in Time
  PROVE  Cmp(a, b) = Sign(Value(a) - Value(b))
<1>1. /\ a.sec \in Int /\ a.nsec \in Int /\ 0 <= a.nsec /\ a.nsec < Billion
      /\ b.sec \in Int /\ b.nsec \in Int /\ 0 <= b.nsec /\ b.nsec < Billion
      /\ Value(a) = a.sec * Billion + a.nsec /\ Value(b) = b.sec * Billion + b.nsec
  BY TimeParts
<1>2. Billion \in Nat
  BY UnitType
<1>3. CASE a.sec = b.sec
  <2>1. Value(a) - Value(b) = a.nsec - b.nsec
    BY <1>1, <1>2, <1>3
  <2> QED
    BY <1>3, <2>1 DEF Cmp
<1>4. CASE a.sec < b.sec
  <2>1. (a.sec + 1) * Billion <= b.sec * Billion
    BY <1>1, <1>2, <1>4, TimesMonotonic
  <2>2. (a.sec + 1) * Billion = a.sec * Billion + Billion
    BY <1>1, <1>2
  <2>3. Value(a) - Value(b) < 0 /\ Value(a) - Value(b) \in Int
    BY <1>1, <1>2, <2>1, <2>2
  <2> QED
    BY <1>1, <1>4, <2>3 DEF Cmp, Sign
<1>5. CASE a.sec > b.sec
  <2>1. (b.sec + 1) * Billion <= a.sec * Billion
    BY <1>1, <1>2, <1>5, TimesMonotonic
  <2>2. (b.sec + 1) * Billion = b.sec * Billion + Billion
    BY <1>1, <1>2
  <2>3. Value(a) - Value(b) > 0 /\ Value(a) - Value(b) \in Int
    BY <1>1, <1>2, <2>1, <2>2
  <2> QED
    BY <1>1, <1>5, <2>3 DEF Cmp, Sign
<1> QED
  BY <1>1, <1>3, <1>4, <1>5

LEMMA FromExact ==
  ASSUME NEW x \in Int, NEW u \in Unit
  PROVE  /\ From(x, u).sec = CDiv(x, Mul[u]) /\ From(x, u).nsec = CMod(x, Mul[u]) * Div[u]
         /\ CDiv(x, Mul[u]) * Billion + CMod(x, Mul[u]) * Div[u] = x * Div[u]
         /\ x >= 0 => From(x, u) \in Time
<1> DEFINE q == CDiv(x, Mul[u])  r == CMod(x, Mul[u])
<1>1. q \in Int /\ r \in Int /\ x = q * Mul[u] + r
  BY TruncatingDivision, UnitType
<1>2. x >= 0 => r \in 0..(Mul[u] - 1)
  BY TruncatingDivision, DivMod, UnitType
<1>3. From(x, u) = Ts(q, r * Div[u])
  BY DEF From
<1> HIDE DEF q, r
<1>4. q * (Mul[u] * Div[u]) + r * Div[u] = (q * Mul[u] + r) * Div[u]
  BY <1>1, UnitType
<1>5. r * Div[u] \in Int
  BY <1>1, UnitType
<1>6. From(x, u).sec = q /\ From(x, u).nsec = r * Div[u]
  BY <1>3 DEF Ts
<1>7. q * Billion + r * Div[u] = x * Div[u]
  BY <1>1, <1>4, UnitType
<1>8. ASSUME x >= 0 PROVE From(x, u) \in Time
  <2>1. 0 * Div[u] <= r * Div[u] /\ r * Div[u] <= (Mul[u] - 1) * Div[u]
    BY <1>2, <1>8, TimesMonotonic, UnitType
  <2>2. (Mul[u] - 1) * Div[u] = Mul[u] * Div[u] - Div[u]
    BY UnitType
  <2>3. 0 <= r * Div[u] /\ r * Div[u] < Billion
    BY <1>5, <2>1, <2>2, UnitType
  <2> QED
    BY <1>1, <1>3, <1>5, <2>3, TimeOfParts
<1> QED
  BY <1>6, <1>7, <1>8 DEF q, r

-----------------------------------------------------------------------------
(* Sums and differences are exact and normal (ptime.c 112-150). *)
THEOREM SumsExact == \A a, b \in Time : SumExact(a, b)
BY AddExact, SubExact, TimeParts DEF SumExact

(* So they are of a time and a number of units (ptime.c 99-110, 155-166). *)
THEOREM DeltasExact == \A a \in Time, x \in Int, u \in Unit : DeltaExact(a, x, u)
<1> SUFFICES ASSUME NEW a \in Time, NEW x \in Int, NEW u \in Unit, x >= 0
             PROVE  /\ Normal(AddDelta(a, x, u)) /\ Value(AddDelta(a, x, u)) = Value(a) + x * Div[u]
                    /\ Normal(SubDelta(a, x, u)) /\ Value(SubDelta(a, x, u)) = Value(a) - x * Div[u]
  BY DEF DeltaExact
<1>1. From(x, u) \in Time /\ Value(From(x, u)) = x * Div[u]
  BY FromExact DEF Value
<1> QED
  BY <1>1, AddExact, SubExact, TimeParts DEF AddDelta, SubDelta

(* tspec_cmp is the order of the instants (ptime.c 127-137). *)
THEOREM ComparisonsExact ==
  /\ \A a, b \in Time : CmpExact(a, b)
  /\ \A a, b \in Time, x \in Int, u \in Unit : CmpRelExact(a, b, x, u)
<1>1. ASSUME NEW a \in Time, NEW b \in Time PROVE CmpExact(a, b)
  BY CmpOrder, SubExact DEF CmpExact
<1>2. ASSUME NEW a \in Time, NEW b \in Time, NEW x \in Int, NEW u \in Unit,
             Normal(FromRel(x, u, b))
      PROVE  Cmp(FromRel(x, u, b), a) = Sign(Value(b) + x * Div[u] - Value(a))
  <2> DEFINE q == CDiv(x, Mul[u])  r == CMod(x, Mul[u])
  <2>1. q \in Int /\ r \in Int
    BY TruncatingDivision, UnitType
  <2>2. q * Billion + r * Div[u] = x * Div[u]
    BY FromExact
  <2>3. FromRel(x, u, b) = Ts(q + b.sec, r * Div[u] + b.nsec)
    BY FromExact DEF FromRel
  <2> HIDE DEF q, r
  <2>4. /\ b.sec \in Int /\ b.nsec \in Int /\ Value(b) = b.sec * Billion + b.nsec
        /\ Billion \in Int /\ r * Div[u] \in Int /\ x * Div[u] \in Int
    BY <2>1, TimeParts, UnitType
  <2> DEFINE s == q + b.sec  n == r * Div[u] + b.nsec
  <2>5. s \in Int /\ n \in Int /\ FromRel(x, u, b) = Ts(s, n)
    BY <2>1, <2>3, <2>4
  <2> HIDE DEF s, n
  <2>6. n \in 0..(Billion - 1)
    BY <1>2, <2>5 DEF Normal, Ts
  <2>7. FromRel(x, u, b) \in Time
    BY <2>4, <2>5, <2>6, TimeOfParts
  <2>8. Value(FromRel(x, u, b)) = (q + b.sec) * Billion + (r * Div[u] + b.nsec)
    <3>1. Value(FromRel(x, u, b)) = s * Billion + n
      BY <2>5, TimeOfParts
    <3> QED
      BY <3>1 DEF s, n
  <2>9. (q + b.sec) * Billion = q * Billion + b.sec * Billion
    BY <2>1, <2>4
  <2>10. Value(FromRel(x, u, b)) = Value(b) + x * Div[u]
    <3>1. q * Billion \in Int /\ b.sec * Billion \in Int
      BY <2>1, <2>4
    <3> QED
      BY <2>2, <2>4, <2>8, <2>9, <3>1
  <2>11. Cmp(FromRel(x, u, b), a) = Sign(Value(FromRel(x, u, b)) - Value(a))
    BY <2>7, CmpOrder
  <2>12. Value(FromRel(x, u, b)) - Value(a) = Value(b) + x * Div[u] - Value(a)
    BY <2>4, <2>10, TimeParts
  <2> QED
    BY <2>11, <2>12
<1> QED
  BY <1>1, <1>2 DEF CmpRelExact

(* A long survives the way into a timespec and back (ptime.c 35-83). *)
THEOREM RoundTripHolds == \A b \in Time, x \in Int, u \in Unit : RoundTrip(b, x, u)
<1> SUFFICES ASSUME NEW b \in Time, NEW x \in Int, NEW u \in Unit
             PROVE  RoundTrip(b, x, u)
  OBVIOUS
<1> DEFINE q == CDiv(x, Mul[u])  r == CMod(x, Mul[u])
<1>1. q \in Int /\ r \in Int /\ x = q * Mul[u] + r
  BY TruncatingDivision, UnitType
<1>2. From(x, u).sec = q /\ From(x, u).nsec = r * Div[u]
  BY FromExact
<1>3. CDiv(r * Div[u], Div[u]) = r
  BY <1>1, ExactDivision, UnitType
<1>4. Value(From(x, u)) = x * Div[u]
  BY FromExact DEF Value
<1> HIDE DEF q, r
<1>5. To(From(x, u), u) = x
  BY <1>1, <1>2, <1>3 DEF To
<1>6. r * Div[u] \in Int
  BY <1>1, UnitType
<1>7. (q + b.sec) - b.sec = q /\ (r * Div[u] + b.nsec) - b.nsec = r * Div[u]
  BY <1>1, <1>6, TimeParts
<1>8. ToRel(FromRel(x, u, b), u, b) = x
  BY <1>1, <1>2, <1>3, <1>7 DEF ToRel, FromRel, Ts
<1> QED
  BY <1>4, <1>5, <1>8 DEF RoundTrip

(* A time relative to the reference is off by less than a unit, and exact     *)
(* when no nanoseconds have to be borrowed (ptime.c 60-67).                   *)
THEOREM RelativeHolds == \A a, b \in Time, u \in Unit : RelativeWithinUnit(a, b, u)
<1> SUFFICES ASSUME NEW a \in Time, NEW b \in Time, NEW u \in Unit
             PROVE  RelativeWithinUnit(a, b, u)
  OBVIOUS
<1> DEFINE D == Div[u]  s == a.sec - b.sec  n == a.nsec - b.nsec
<1>1. s \in Int /\ n \in Int /\ D \in Nat \ {0} /\ Mul[u] \in Nat /\ Mul[u] * D = Billion
  BY TimeParts, UnitType
<1>2. Value(a) - Value(b) = s * Billion + n
  <2>1. /\ a.sec \in Int /\ a.nsec \in Int /\ Value(a) = a.sec * Billion + a.nsec
        /\ b.sec \in Int /\ b.nsec \in Int /\ Value(b) = b.sec * Billion + b.nsec
        /\ Billion \in Int
    BY TimeParts, UnitType
  <2> QED
    BY <2>1
<1>3. ToRel(a, u, b) = s * Mul[u] + CDiv(n, D)
  BY DEF ToRel
<1>4. ~Borrow(a, b) => n >= 0
  BY TimeParts DEF Borrow
<1> HIDE DEF D, s, n
<1>5. (s * Mul[u]) * D = s * Billion /\ s * Mul[u] \in Int /\ s * Billion \in Int
  <2>1. (s * Mul[u]) * D = s * (Mul[u] * D)
    BY <1>1
  <2> QED
    BY <1>1, <2>1
<1>6. Abs(ToRel(a, u, b) * D - (Value(a) - Value(b))) < D
  <2> DEFINE q == CDiv(n, D)  r == CMod(n, D)
  <2>1. q \in Int /\ r \in Int /\ n = q * D + r /\ Abs(r) < D
    BY <1>1, TruncatingDivision
  <2> HIDE DEF q, r
  <2>2. (s * Mul[u] + q) * D = s * Billion + q * D /\ q * D \in Int
    BY <1>1, <1>5, <2>1
  <2>3. (s * Mul[u] + q) * D - (s * Billion + n) = -r
    BY <1>1, <1>5, <2>1, <2>2
  <2>4. Abs(-r) = Abs(r)
    BY <2>1 DEF Abs
  <2> QED
    BY <1>2, <1>3, <2>1, <2>3, <2>4 DEF q
<1>7. ASSUME ~Borrow(a, b)
      PROVE  ToRel(a, u, b) = (Value(a) - Value(b)) \div D
  <2> DEFINE q == n \div D  r == n % D
  <2>1. CDiv(n, D) = q
    BY <1>4, <1>7 DEF CDiv
  <2>2. q \in Int /\ r \in 0..(D - 1) /\ n = q * D + r
    BY <1>1, DivMod
  <2> HIDE DEF q, r
  <2>3. ((s * Mul[u] + q) * D + r) \div D = s * Mul[u] + q
    <3>1. s * Mul[u] + q \in Int
      BY <1>5, <2>2
    <3> QED
      BY <1>1, <2>2, <3>1, DivUnique
  <2>4. (s * Mul[u] + q) * D + r = s * Billion + n
    BY <1>1, <1>5, <2>2
  <2> QED
    BY <1>2, <1>3, <2>1, <2>3, <2>4
<1> QED
  BY <1>6, <1>7 DEF RelativeWithinUnit, D

(* A period reads back as it was set, in any unit in which it is an int       *)
(* (ptask.c 360-374).                                                         *)
THEOREM PeriodHolds == \A p \in Nat, u, v \in Unit : PeriodReadsBack(p, u, v)
<1> SUFFICES ASSUME NEW p \in Nat, NEW u \in Unit, NEW v \in Unit
             PROVE  To(From(p, u), v) = (p * Div[u]) \div Div[v]
  BY DEF PeriodReadsBack, GetPeriod, SetPeriod, IsInt
<1> DEFINE q == CDiv(p, Mul[u])  n == CMod(p, Mul[u]) * Div[u]  D == Div[v]
           k == n \div D  r == n % D
<1>1. From(p, u).sec = q /\ From(p, u).nsec = n /\ From(p, u) \in Time
      /\ q * Billion + n = p * Div[u]
  BY FromExact
<1>2. q \in Int /\ n \in Nat /\ D \in Nat \ {0} /\ Mul[v] \in Nat /\ Mul[v] * D = Billion
  <2>1. n \in Int /\ n >= 0
    BY <1>1, TimeParts
  <2>2. q \in Int
    <3>1. p \in Int
      OBVIOUS
    <3> QED
      BY <3>1, TruncatingDivision, UnitType
  <2> HIDE DEF n, q
  <2> QED
    BY <2>1, <2>2, UnitType
<1>3. To(From(p, u), v) = q * Mul[v] + k
  BY <1>1, <1>2 DEF To, CDiv
<1> HIDE DEF q, n, D
<1>4. k \in Int /\ r \in 0..(D - 1) /\ n = k * D + r
  <2>1. n \in Int
    BY <1>2
  <2> QED
    BY <1>2, <2>1, DivMod
<1> HIDE DEF k, r
<1>5. q * Mul[v] \in Int /\ (q * Mul[v]) * D = q * Billion
  <2>1. (q * Mul[v]) * D = q * (Mul[v] * D)
    BY <1>2
  <2> QED
    BY <1>2, <2>1
<1>6. ((q * Mul[v] + k) * D + r) \div D = q * Mul[v] + k
  <2>1. q * Mul[v] + k \in Int
    BY <1>4, <1>5
  <2> QED
    BY <1>2, <1>4, <2>1, DivUnique
<1>7. (q * Mul[v] + k) * D + r = p * Div[u]
  BY <1>1, <1>2, <1>4, <1>5
<1> QED
  BY <1>3, <1>6, <1>7 DEF D

(* The times of TimeLaws stay what they are. *)
LEMMA LawsTypes == LawsSpec => []LawsTypeOK
<1>1. LawsInit => LawsTypeOK
  BY DEF LawsInit, LawsTypeOK
<1>2. LawsTypeOK /\ [AskUnit]_lawVars => LawsTypeOK'
  BY DEF LawsTypeOK, AskUnit, lawVars, Times
<1> QED
  BY <1>1, <1>2, PTL DEF LawsSpec

LEMMA TimesAreTimes == Times \subseteq Time
<1> SUFFICES ASSUME NEW s \in Seconds, NEW n \in 0..(Billion - 1) PROVE Ts(s, n) \in Time
  BY DEF Times
<1> QED
  BY LawsAssumption DEF Ts, Time

(* Sums, differences and comparisons are exact for all times and numbers of    *)
(* units (ptime.c 78-82, 99-166).                                             *)
THEOREM ArithmeticHolds == LawsSpec => []ArithmeticExact
<1>1. LawsTypeOK => ArithmeticExact
  BY SumsExact, DeltasExact, ComparisonsExact, TimesAreTimes, LawsAssumption
  DEF LawsTypeOK, ArithmeticExact
<1> QED
  BY <1>1, LawsTypes, PTL

(* So are the conversions, up to the truncation and the range of an int that   *)
(* the property names (ptime.c 35-83, ptask.c 360-374).                       *)
THEOREM ConversionsHold == LawsSpec => []ConversionsExact
<1>1. LawsTypeOK => ConversionsExact
  BY RoundTripHolds, RelativeHolds, PeriodHolds, TimesAreTimes, LawsAssumption
  DEF LawsTypeOK, ConversionsExact
<1> QED
  BY <1>1, LawsTypes, PTL

-----------------------------------------------------------------------------
LEMMA ClockExact ==
  ASSUME NEW v \in Nat
  PROVE  Clock(v) \in Time /\ Value(Clock(v)) = v
<1>1. v \div Billion \in Int /\ v % Billion \in 0..(Billion - 1)
      /\ v = (v \div Billion) * Billion + (v % Billion)
  BY UnitType, DivMod
<1> QED
  <2> DEFINE s == v \div Billion  n == v % Billion
  <2>1. Clock(v) = Ts(s, n)
    BY DEF Clock
  <2> HIDE DEF s, n
  <2>2. s \in Int /\ n \in 0..(Billion - 1) /\ v = s * Billion + n
    BY <1>1 DEF s, n
  <2> QED
    BY <2>1, <2>2, TimeOfParts, UnitType

LEMMA ZeroTime == tspec_zero \in Time /\ Value(tspec_zero) = 0
BY TimeOfParts, UnitType DEF tspec_zero

LEMMA StatStep == StatInv /\ [TstatNext]_tstatVars => StatInv'
<1> SUFFICES ASSUME StatInv, [TstatNext]_tstatVars PROVE StatInv'
  OBVIOUS
<1> USE DEF StatInv
<1>1. CASE StartMeasure
  <2>1. PICK d \in ExecTimes :
          /\ cpu' = d
          /\ measure' = [measure EXCEPT !.first = Clock(d), !.last = Clock(d), !.num = 0]
    BY <1>1 DEF StartMeasure
  <2>2. d \in Nat /\ Clock(d) \in Time /\ Value(Clock(d)) = d
    BY StatAssumption, ClockExact
  <2>3. running' \in BOOLEAN /\ jobs' = 0 /\ elapsed' = 0 /\ worst' = 0 /\ tasks' = tasks + 1
    BY <1>1 DEF StartMeasure
  <2>4. measure' \in [first : Time, last : Time, wcet : Time, num : Nat]
    BY <2>1, <2>2
  <2>5. measure'.first = Clock(d) /\ measure'.last = Clock(d) /\ measure'.wcet = measure.wcet
        /\ measure'.num = 0
    BY <2>1
  <2>6. 0 <= Value(measure.wcet) /\ (tasks = 0 => Value(measure.wcet) = 0)
    BY TimeParts
  <2>7. worst' <= Value(measure'.wcet) /\ (tasks' <= 1 => worst' = Value(measure'.wcet))
        /\ tasks' \in Nat /\ tasks' # 0
    <3>1. tasks' <= 1 => tasks = 0
      BY <2>3
    <3> QED
      BY <2>3, <2>5, <2>6, <3>1
  <2>8. Value(measure'.last) = cpu' /\ Value(measure'.first) = cpu' - elapsed' /\ cpu' \in Nat
    BY <2>1, <2>2, <2>3, <2>5
  <2> QED
    BY <2>3, <2>4, <2>5, <2>7, <2>8
<1>2. CASE Record
  <2> DEFINE reading(d) == Clock(cpu + d)
             delta(d) == Sub(reading(d), measure.last)
  <2>1. PICK d \in ExecTimes :
          /\ cpu' = cpu + d
          /\ measure' = [measure EXCEPT !.wcet = IF Longer(delta(d)) THEN delta(d) ELSE @,
                                        !.last = reading(d), !.num = @ + 1]
          /\ jobs' = jobs + 1 /\ elapsed' = elapsed + d
          /\ worst' = IF d > worst THEN d ELSE worst
    BY <1>2 DEF Record, LastRecorded
  <2>2. d \in Nat /\ reading(d) \in Time /\ Value(reading(d)) = cpu + d
    <3>1. d \in Nat /\ cpu + d \in Nat
      BY StatAssumption
    <3> QED
      BY <3>1, ClockExact
  <2>3. delta(d) \in Time /\ Value(delta(d)) = d
    BY <2>2, SubExact
  <2> HIDE DEF reading, delta
  <2>4. Longer(delta(d)) <=> d > Value(measure.wcet)
    <3>1. Cmp(delta(d), measure.wcet) = Sign(d - Value(measure.wcet))
      BY <2>3, CmpOrder
    <3>2. Value(measure.wcet) \in Int
      BY TimeParts
    <3> QED
      BY <2>2, <3>1, <3>2 DEF Longer, Sign
  <2>5. measure'.wcet \in Time /\ worst' \in Nat /\ worst' <= Value(measure'.wcet)
        /\ (tasks' <= 1 => worst' = Value(measure'.wcet))
    <3>1. tasks' = tasks /\ Value(measure.wcet) \in Int
      BY <1>2, TimeParts DEF Record
    <3>2. measure'.wcet = IF Longer(delta(d)) THEN delta(d) ELSE measure.wcet
      BY <2>1
    <3>3. measure'.wcet \in Time /\ worst' \in Nat
      BY <2>1, <2>2, <2>3, <3>2
    <3>4. CASE Longer(delta(d))
      BY <2>1, <2>2, <2>3, <2>4, <3>1, <3>2, <3>3, <3>4
    <3>5. CASE ~Longer(delta(d))
      BY <2>1, <2>2, <2>4, <3>1, <3>2, <3>3, <3>5
    <3> QED
      BY <3>4, <3>5
  <2>6. measure'.first = measure.first /\ measure'.last = reading(d) /\ measure'.num = jobs'
        /\ measure' \in [first : Time, last : Time, wcet : Time, num : Nat]
    <3>1. DOMAIN measure = {"first", "last", "wcet", "num"}
      OBVIOUS
    <3>2. measure'.first = measure.first /\ measure'.last = reading(d) /\ measure'.num = measure.num + 1
      BY <2>1, <3>1
    <3>3. measure' \in [first : Time, last : Time, wcet : Time, num : Nat]
      <4> DEFINE w == IF Longer(delta(d)) THEN delta(d) ELSE measure.wcet
      <4>1. w \in Time /\ reading(d) \in Time /\ measure.num + 1 \in Nat
        BY <2>2, <2>3
      <4>2. measure' = [measure EXCEPT !.wcet = w, !.last = reading(d), !.num = measure.num + 1]
        BY <2>1
      <4> HIDE DEF w
      <4> QED
        BY <4>1, <4>2
    <3> QED
      BY <2>1, <3>2, <3>3
  <2>7. Value(measure'.first) = cpu' - elapsed' /\ UNCHANGED <<running, tasks>> /\ tasks # 0
    BY <1>2, <2>1, <2>2, <2>6 DEF Record
  <2>8. Value(measure'.last) = cpu' /\ cpu' \in Nat /\ jobs' \in Nat /\ elapsed' \in Nat
    BY <2>1, <2>2, <2>6
  <2> QED
    BY <2>5, <2>6, <2>7, <2>8
<1>3. CASE EndMeasure
  BY <1>3 DEF EndMeasure
<1>4. CASE UNCHANGED tstatVars
  BY <1>4 DEF tstatVars
<1> QED
  BY <1>1, <1>2, <1>3, <1>4 DEF TstatNext

LEMMA StatInitInv == TstatInit => StatInv
<1> SUFFICES ASSUME TstatInit PROVE StatInv
  OBVIOUS
<1>1. measure \in [first : Time, last : Time, wcet : Time, num : Nat]
  BY ZeroTime DEF TstatInit
<1>2. measure.first = tspec_zero /\ measure.last = tspec_zero /\ measure.wcet = tspec_zero
      /\ measure.num = 0
  BY DEF TstatInit
<1>3. cpu = 0 /\ elapsed = 0 /\ jobs = 0 /\ worst = 0 /\ tasks = 0 /\ running = FALSE
  BY DEF TstatInit
<1>4. Value(measure.last) = cpu /\ Value(measure.first) = cpu - elapsed
      /\ worst = Value(measure.wcet) /\ measure.num = jobs
  BY <1>2, <1>3, ZeroTime
<1>5. worst <= Value(measure.wcet)
  BY <1>3, <1>4
<1> QED
  BY <1>1, <1>3, <1>4, <1>5 DEF StatInv

(* The entry has normal times, and its two readings are of the clock now and  *)
(* before the recorded jobs (tstat.c 14-30).                                  *)
THEOREM StatInvariance == TstatSpec => []StatInv
BY StatInitInv, StatStep, PTL DEF TstatSpec

LEMMA StatTotal ==
  ASSUME StatInv
  PROVE  Total \in Time /\ Value(Total) = elapsed
<1>1. measure.last \in Time /\ measure.first \in Time
  BY DEF StatInv
<1>2. Value(Total) = cpu - (cpu - elapsed) /\ Total \in Time
  BY <1>1, SubExact DEF StatInv, Total
<1> QED
  BY <1>2 DEF StatInv

(* Seconds and the rest are divided in two steps and nothing is lost. *)
LEMMA StatAverage ==
  ASSUME StatInv, jobs > 0
  PROVE  Normal(Average) /\ Value(Average) = elapsed \div jobs
<1> DEFINE S == Total.sec  N == Total.nsec  k == jobs
           q == S \div k  r == S % k
           m == N + r * Billion
           p == m \div k  s == m % k
<1>1. k \in Nat \ {0} /\ Billion \in Nat \ {0} /\ measure.num = k
  BY UnitType DEF StatInv
<1>2. S \in Int /\ N \in Int /\ 0 <= N /\ N < Billion /\ elapsed = S * Billion + N
  BY StatTotal, TimeParts
<1>3. Average = Ts(q, p)
  BY <1>1 DEF Average
<1> HIDE DEF S, N, k
<1>4. q \in Int /\ r \in 0..(k - 1) /\ S = q * k + r
  BY <1>1, <1>2, DivMod
<1> HIDE DEF q, r
<1>5. m \in Int /\ r * Billion \in Int /\ q * Billion \in Int
  BY <1>1, <1>2, <1>4
<1>6. p \in Int /\ s \in 0..(k - 1) /\ m = p * k + s
  BY <1>1, <1>5, DivMod
<1>7. m >= 0 /\ m < k * Billion
  <2>1. 0 * Billion <= r * Billion /\ r * Billion <= (k - 1) * Billion
    BY <1>1, <1>4, TimesMonotonic
  <2>2. (k - 1) * Billion = k * Billion - Billion /\ k * Billion \in Int
    BY <1>1
  <2> QED
    BY <1>1, <1>2, <1>5, <2>1, <2>2
<1> HIDE DEF p, s
<1>8. p >= 0
  <2> SUFFICES ASSUME p + 1 <= 0 PROVE FALSE
    BY <1>6
  <2>1. (p + 1) * k <= 0 * k
    BY <1>1, <1>6, TimesMonotonic
  <2>2. (p + 1) * k = p * k + k /\ p * k \in Int
    BY <1>1, <1>6
  <2> QED
    BY <1>1, <1>5, <1>6, <1>7, <2>1, <2>2
<1>9. p < Billion
  <2> SUFFICES ASSUME Billion <= p PROVE FALSE
    BY <1>1, <1>6
  <2>1. Billion * k <= p * k
    BY <1>1, <1>6, TimesMonotonic
  <2>2. Billion * k = k * Billion /\ p * k \in Int
    BY <1>1, <1>6
  <2> QED
    BY <1>1, <1>5, <1>6, <1>7, <2>1, <2>2
<1>10. Normal(Average) /\ Value(Average) = q * Billion + p
  BY <1>1, <1>3, <1>4, <1>6, <1>8, <1>9, TimeOfParts, TimeParts
<1>11. ((q * Billion + p) * k + s) \div k = q * Billion + p
  <2>1. q * Billion + p \in Int
    BY <1>5, <1>6
  <2> QED
    BY <1>1, <1>6, <2>1, DivUnique
<1>12. (q * Billion + p) * k + s = elapsed
  <2>1. (q * Billion + p) * k = q * Billion * k + p * k
    BY <1>1, <1>4, <1>5, <1>6
  <2>2. q * Billion * k = (q * k) * Billion
    BY <1>1, <1>4
  <2>3. S * Billion = (q * k) * Billion + r * Billion
    <3>1. q * k \in Int
      BY <1>1, <1>4
    <3> QED
      BY <1>1, <1>4, <3>1
  <2> QED
    BY <1>1, <1>2, <1>4, <1>5, <1>6, <2>1, <2>2, <2>3
<1> QED
  BY <1>10, <1>11, <1>12 DEF k

(* Total and average are those of the jobs, and so is the worst case of the   *)
(* first task with the entry; that of a later one is never less, for any      *)
(* number of jobs and of tasks (tstat.c 14-55).                               *)
THEOREM StatisticsHold == TstatSpec => []StatisticsExact
<1>1. StatInv => StatisticsExact
  <2> SUFFICES ASSUME StatInv PROVE StatisticsExact
    OBVIOUS
  <2>1. TotalsExact
    BY StatTotal DEF TotalsExact, StatInv
  <2>2. AverageExact
    BY StatAverage DEF AverageExact
  <2>3. WcetExact
    BY DEF StatInv, WcetExact
  <2> QED
    BY <2>1, <2>2, <2>3 DEF StatisticsExact
<1> QED
  BY <1>1, StatInvariance, PTL

-----------------------------------------------------------------------------
(* Activations. *)

LEMMA ActivationInitInv == ActivationInit => ActivationInv
BY DEF ActivationInit, ActivationInv, ActivationTypeOK, StateInv, OffsetInv, ReleaseInv,
       Bodies, Step

LEMMA ActivationStepInv == ActivationInv /\ [ActivationNext]_activationVars => ActivationInv'
<1> SUFFICES ASSUME ActivationInv, [ActivationNext]_activationVars
             PROVE  ActivationInv'
    OBVIOUS
<1> USE ActivationAssumption
<1> USE DEF ActivationInv, ActivationTypeOK, StateInv, OffsetInv, ReleaseInv, Bodies, Step,
            taskVars, Goto, SetState
<1>1. CASE Tick
      BY <1>1 DEF Tick
<1>2. ASSUME NEW i \in Task, StartNow(i), UNCHANGED now
      PROVE  ActivationInv'
      BY <1>2 DEF StartNow, ReleaseAt
<1>3. ASSUME NEW i \in Task, Suspend(i), UNCHANGED now
      PROVE  ActivationInv'
      BY <1>3 DEF Suspend, PostsKept
<1>4. ASSUME NEW i \in Task, TakePost(i), UNCHANGED now
      PROVE  ActivationInv'
      BY <1>4 DEF TakePost
<1>5. ASSUME NEW i \in Task, BecomeActive(i), UNCHANGED now
      PROVE  ActivationInv'
      BY <1>5 DEF BecomeActive, WaitsForOffset
<1>6. ASSUME NEW i \in Task, EndOffset(i), UNCHANGED now
      PROVE  ActivationInv'
      BY <1>6 DEF EndOffset
<1>7. ASSUME NEW i \in Task, WaitAgain(i), UNCHANGED now
      PROVE  ActivationInv'
      BY <1>7 DEF WaitAgain
<1>8. ASSUME NEW i \in Task, SleepUntilPeriod(i), UNCHANGED now
      PROVE  ActivationInv'
      BY <1>8 DEF SleepUntilPeriod
<1>9. ASSUME NEW i \in Task, EndPeriod(i), UNCHANGED now
      PROVE  ActivationInv'
      BY <1>9 DEF EndPeriod, ReleaseAt
<1>10. ASSUME NEW i \in Task, NEW b \in Bodies, NEW f \in Flags, Create(i, b, f), UNCHANGED now
       PROVE  ActivationInv'
       BY <1>10 DEF Create, Flags
<1>11. ASSUME NEW i \in Task, Return(i), UNCHANGED now
       PROVE  ActivationInv'
       BY <1>11 DEF Return
<1>12. ASSUME NEW i \in Task, Activate(i), UNCHANGED now
       PROVE  ActivationInv'
       BY <1>12 DEF Activate, Accept, Accepts, ReleaseAt
<1>13. ASSUME NEW i \in Task, NEW off \in Offsets, ActivateAt(i, off), UNCHANGED now
       PROVE  ActivationInv'
       BY <1>13 DEF ActivateAt, Accept, Accepts, ReleaseAt
<1>14. CASE UNCHANGED activationVars
       BY <1>14 DEF activationVars
<1>15. QED
       BY <1>1, <1>2, <1>3, <1>4, <1>5, <1>6, <1>7, <1>8, <1>9, <1>10, <1>11, <1>12, <1>13,
          <1>14 DEF ActivationNext, TaskStep, Others

(* A task's state, posts, offset and deadline always agree with where its     *)
(* thread is (ptask.c 126-151, 284-338, 460-520).                             *)
THEOREM ActivationInvariance == ActivationSpec => []ActivationInv
BY ActivationInitInv, ActivationStepInv, PTL DEF ActivationSpec

(* A job never starts before the instant from which its deadline is computed  *)
(* (ptask.c 299-310, 329-335, 482-488).                                       *)
THEOREM JobNotBeforeReleaseHolds == ActivationSpec => []JobNotBeforeRelease
<1>1. ActivationInv => JobNotBeforeRelease
      BY DEF ActivationInv, OffsetInv, ReleaseInv, JobNotBeforeRelease
<1>2. QED
      BY <1>1, ActivationInvariance, PTL

(* No activation reaches a task whose job runs, waits for its offset or sleeps *)
(* until its period (ptask.c 478, 505).                                       *)
THEOREM JobKeepsDeadlineHolds == ActivationSpec => JobKeepsDeadline
<1>1. ActivationInv /\ [ActivationNext]_activationVars => [KeepsDeadline]_activationVars
  <2> SUFFICES ASSUME ActivationInv, ActivationNext
               PROVE  KeepsDeadline
      OBVIOUS
  <2> USE DEF ActivationInv, ActivationTypeOK, StateInv, taskVars, Goto, SetState,
            KeepsDeadline, Started
  <2>1. CASE Tick
        BY <2>1 DEF Tick
  <2>2. ASSUME NEW i \in Task, TaskStep(i)
        PROVE  KeepsDeadline
        BY <2>2 DEF TaskStep, StartNow, Suspend, TakePost, BecomeActive, EndOffset, WaitAgain,
                    SleepUntilPeriod, EndPeriod, ReleaseAt
  <2>3. ASSUME NEW i \in Task, Others(i)
        PROVE  KeepsDeadline
        BY <2>3 DEF Others, Create, Return, Activate, ActivateAt, Accept, Accepts, ReleaseAt
  <2>4. QED
        BY <2>1, <2>2, <2>3 DEF ActivationNext
<1>2. QED
      BY <1>1, ActivationInvariance, PTL DEF ActivationSpec, JobKeepsDeadline
=============================================================================
