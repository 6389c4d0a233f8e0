------------------------------ MODULE TimeLaws ------------------------------
(***************************************************************************)
(* What a user of the time arithmetic relies on (ptime.c, and the period   *)
(* accessors of ptask.c 360-374): two times, and one unit after the other. *)
(* The second time is also taken as tspec_t0, the start of the system.     *)
(***************************************************************************)
EXTENDS Timespec

CONSTANTS
  Seconds,  \* the seconds of a time
  Longs,    \* numbers of units, the arguments of tspec_from
  Periods,  \* those that are periods
  NoUnit    \* before a unit is asked for

ASSUME LawsAssumption ==
  /\ Seconds \subseteq Int
  /\ Longs \subseteq Int
  /\ Periods \subseteq Nat
  /\ NoUnit \notin Unit

VARIABLES one, other, unit

lawVars == <<one, other, unit>>

Times == {Ts(s, n) : s \in Seconds, n \in 0..(Billion - 1)}

LawsInit == one \in Times /\ other \in Times /\ unit = NoUnit

AskUnit == unit' \in Unit \ {unit} /\ UNCHANGED <<one, other>>

LawsSpec == LawsInit /\ [][AskUnit]_lawVars

-----------------------------------------------------------------------------
LawsTypeOK == one \in Times /\ other \in Times /\ unit \in Unit \cup {NoUnit}

(* Sums and differences of times are exact and normal, carries and borrows    *)
(* included, also for negative differences; tspec_cmp is the order of the     *)
(* instants, also of results of tspec_sub and of those of tspec_from_rel that *)
(* need no carry (ptime.c 78-82, 99-166).                                     *)
ArithmeticExact == unit \in Unit =>
  /\ SumExact(one, other) /\ CmpExact(one, other)
  /\ \A x \in Longs : DeltaExact(one, x, unit) /\ CmpRelExact(one, other, x, unit)

(* A long survives the way into a timespec and back in its unit, absolute and *)
(* relative, negative or not.  A time read relative to the reference is off   *)
(* by less than one unit, and exact when no nanoseconds have to be borrowed;  *)
(* a period reads back as it was set, in any unit in which it is an int       *)
(* (ptime.c 35-83, ptask.c 360-374).                                          *)
ConversionsExact == unit \in Unit =>
  /\ \A x \in Longs : RoundTrip(other, x, unit)
  /\ RelativeWithinUnit(one, other, unit)
  /\ \A p \in Periods, v \in Unit : PeriodReadsBack(p, unit, v)
=============================================================================
