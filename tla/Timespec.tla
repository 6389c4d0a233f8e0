------------------------------ MODULE Timespec ------------------------------
(***************************************************************************)
(* The time arithmetic of the ptask library (ptime.c).  A timespec is a    *)
(* pair of seconds and nanoseconds; C's division and remainder truncate    *)
(* towards zero.  The units are those of conv_table: Mul of them make a    *)
(* second, Div nanoseconds make one of them.                               *)
(***************************************************************************)
EXTENDS Integers

CONSTANTS
  Billion,  \* nanoseconds per second
  Unit,     \* SEC, MILLI, MICRO, NANO
  Mul, Div, \* conv_table
  IntSpan   \* how many values an int has

ASSUME TimeAssumption ==
  /\ Billion \in Nat \ {0}
  /\ Mul \in [Unit -> Nat \ {0}]
  /\ Div \in [Unit -> Nat \ {0}]
  /\ \A u \in Unit : Mul[u] * Div[u] = Billion
  /\ IntSpan \in Nat \ {0}

CDiv(a, b) == IF a >= 0 THEN a \div b ELSE -((-a) \div b)
CMod(a, b) == a - CDiv(a, b) * b

(* A long assigned to an int of the library's interface. *)
Narrow(x) == ((x + (IntSpan \div 2)) % IntSpan) - (IntSpan \div 2)
IsInt(x) == Narrow(x) = x

Ts(s, n) == [sec |-> s, nsec |-> n]
Normal(t) == t.nsec \in 0..(Billion - 1)

Time == [sec : Int, nsec : 0..(Billion - 1)]

(* The time that a timespec stands for, in nanoseconds. *)
Value(t) == t.sec * Billion + t.nsec

-----------------------------------------------------------------------------
To(t, u) == t.sec * Mul[u] + CDiv(t.nsec, Div[u])

From_NotScaled(x, u) == Ts(CDiv(x, Mul[u]), CMod(x, Mul[u]))
From(x, u) == Ts(CDiv(x, Mul[u]), CMod(x, Mul[u]) * Div[u])

(* The same relative to the start of the system, tspec_t0. *)
ToRel(t, u, t0) == (t.sec - t0.sec) * Mul[u] + CDiv(t.nsec - t0.nsec, Div[u])

FromRel(x, u, t0) == Ts(From(x, u).sec + t0.sec, From(x, u).nsec + t0.nsec)

(* The loop that carries nanoseconds over into seconds. *)
Carry_Late(t) == IF t.nsec > Billion THEN Ts(t.sec + 1, t.nsec - Billion) ELSE t
Carry(t) ==
  IF t.nsec >= Billion
  THEN Ts(t.sec + t.nsec \div Billion, t.nsec % Billion)
  ELSE t

Add(a, b) == Carry(Ts(a.sec + b.sec, a.nsec + b.nsec))

Borrow_Never(a, b) == FALSE
Borrow(a, b) == a.nsec < b.nsec

Sub(a, b) ==
  IF Borrow(a, b)
  THEN Ts(a.sec - b.sec - 1, a.nsec - b.nsec + Billion)
  ELSE Ts(a.sec - b.sec, a.nsec - b.nsec)

AddDelta(a, x, u) == Add(a, From(x, u))
SubDelta(a, x, u) == Sub(a, From(x, u))

Sign(x) == IF x > 0 THEN 1 ELSE IF x < 0 THEN -1 ELSE 0

Cmp_SecondsFirst(a, b) == IF a.nsec = b.nsec THEN Sign(a.sec - b.sec) ELSE Sign(a.nsec - b.nsec)
Cmp(a, b) == IF a.sec = b.sec THEN Sign(a.nsec - b.nsec) ELSE Sign(a.sec - b.sec)

(* ptask_set_period and ptask_get_period, and the same for the deadline. *)
SetPeriod(p, u) == From(p, u)
GetPeriod(t, u) == Narrow(To(t, u))
-----------------------------------------------------------------------------
(* What the results are to be, for a and b in Time, a unit u and a long x. *)
Abs(x) == IF x < 0 THEN -x ELSE x

SumExact(a, b) ==
  /\ Normal(Add(a, b)) /\ Value(Add(a, b)) = Value(a) + Value(b)
  /\ Normal(Sub(a, b)) /\ Value(Sub(a, b)) = Value(a) - Value(b)

DeltaExact(a, x, u) == x >= 0 =>
  /\ Normal(AddDelta(a, x, u)) /\ Value(AddDelta(a, x, u)) = Value(a) + x * Div[u]
  /\ Normal(SubDelta(a, x, u)) /\ Value(SubDelta(a, x, u)) = Value(a) - x * Div[u]

CmpExact(a, b) ==
  /\ Cmp(a, b) = Sign(Value(a) - Value(b))
  /\ Cmp(Sub(a, b), b) = Sign(Value(a) - Value(b) - Value(b))

(* tspec_from_rel adds nanoseconds without a carry. *)
CmpRelExact(a, b, x, u) == x >= 0 /\ Normal(FromRel(x, u, b)) =>
  Cmp(FromRel(x, u, b), a) = Sign(Value(b) + x * Div[u] - Value(a))

RoundTrip(b, x, u) ==
  /\ To(From(x, u), u) = x
  /\ ToRel(FromRel(x, u, b), u, b) = x
  /\ Value(From(x, u)) = x * Div[u]

RelativeWithinUnit(a, b, u) ==
  /\ Abs(ToRel(a, u, b) * Div[u] - (Value(a) - Value(b))) < Div[u]
  /\ Value(a) >= Value(b) /\ ~Borrow(a, b) =>
       ToRel(a, u, b) = (Value(a) - Value(b)) \div Div[u]

PeriodReadsBack(p, u, v) == IsInt((p * Div[u]) \div Div[v]) =>
  GetPeriod(SetPeriod(p, u), v) = (p * Div[u]) \div Div[v]
=============================================================================
