---------------------------- MODULE ResponseTime ----------------------------
(***************************************************************************)
(* The response-time analysis of one core (Core.java, Task.java): for each *)
(* task, by descending priority, the time from its release to the end of   *)
(* each of its runnables, by fixed-point iteration.  A preemptive task may *)
(* be interrupted anywhere, a cooperative one by other cooperative tasks   *)
(* only between two runnables.                                             *)
(*                                                                         *)
(* The code computes with doubles; execution times and periods are numbers *)
(* of one unit here.                                                       *)
(***************************************************************************)
EXTENDS Integers, SequencesExt

CONSTANTS
  TaskChoices,  \* tasks that a core may have
  MaxTasks,     \* tasks of a core, a bound
  Horizon       \* an iteration beyond it is taken to run for ever, a bound

ASSUME AnalysisAssumption ==
  /\ \A t \in TaskChoices : /\ DOMAIN t = {"runnables", "period", "type"}
                            /\ t.runnables \in Seq(Nat)
                            /\ t.type \in {"preemptive", "cooperative"}
                            /\ t.period \in Nat \ {0}
  /\ MaxTasks \in Nat /\ Horizon \in Nat

VARIABLES
  tasks,      \* the tasks of the core, by priority
  next,       \* z, the task under analysis; 0 while the core is loaded
  responses   \* responseTime of the runnables; empty before the analysis

analysisVars == <<tasks, next, responses>>

Sum(s) ==
  LET total[i \in 0..Len(s)] == IF i = 0 THEN 0 ELSE total[i - 1] + s[i]
  IN  total[Len(s)]
C(i) == Sum(tasks[i].runnables)
T(i) == tasks[i].period
Accum(i, r) == Sum(SubSeq(tasks[i].runnables, 1, r))
TaskMax(S) == CHOOSE x \in S : \A y \in S : y <= x

MyCeil(a, b) == (a + b - 1) \div b
MyFloor(a, b) == a \div b

(* interference of the first tasks, jobs[i] times task i *)
Interference(jobs) == Sum([i \in DOMAIN jobs |-> jobs[i] * C(i)])

(* do { old = new; new = f(old) } while (new > old) *)
Settle(f, init) ==
  LET last[old \in Nat] ==
        LET new == f[old] IN IF old < new /\ new <= Horizon THEN last[new] ELSE new
  IN  last[init]

Settles(x) == x <= Horizon

PreemptiveResponse(z, r) ==
  LET f == [x \in Nat |-> Accum(z, r) + Interference([i \in 1..(z - 1) |-> MyCeil(x, T(i))])]
  IN  Settle(f, Accum(z, r))

(* the longest runnable of lower priority *)
Blocking(z) ==
  TaskMax({0} \cup UNION {Range(tasks[i].runnables) : i \in (z + 1)..Len(tasks)})

BusyPeriod_AllTasks(z) ==
  LET f == [x \in Nat |-> Blocking(z) + Interference([i \in DOMAIN tasks |-> MyCeil(x, T(z))])]
  IN  Settle(f, Blocking(z) + C(z))

(* Every task counts with the period of z. *)
BusyPeriod(z) ==
  LET f == [x \in Nat |-> Blocking(z) + Interference([i \in 1..z |-> MyCeil(x, T(z))])]
  IN  Settle(f, Blocking(z) + C(z))

JobStart_BeforeRelease(z, k, r) ==
  LET init == Blocking(z) + (k - 1) * C(z) + Accum(z, r) - tasks[z].runnables[r]
      f == [x \in Nat |-> init + Interference([i \in 1..(z - 1) |-> MyCeil(x, T(i))])]
  IN  Settle(f, init)
JobStart(z, k, r) ==
  LET init == Blocking(z) + (k - 1) * C(z) + Accum(z, r) - tasks[z].runnables[r]
      f == [x \in Nat |-> init + Interference([i \in 1..(z - 1) |-> MyFloor(x, T(i)) + 1])]
  IN  Settle(f, init)

JobFinish(z, k, r) ==
  LET start == JobStart(z, k, r)
      init == start + tasks[z].runnables[r]
      Jobs(x, i) == IF tasks[i].type = "preemptive"
                    THEN MyCeil(x, T(i)) - (MyFloor(start, T(i)) + 1) ELSE 0
      f == [x \in Nat |-> init + Interference([i \in 1..(z - 1) |-> Jobs(x, i)])]
  IN  Settle(f, init)

JobFinishDM(z, k, r) ==
  LET init == (k - 1) * C(z) + Accum(z, r)
      f == [x \in Nat |-> init + Interference([i \in 1..(z - 1) |-> MyCeil(x, T(i))])]
  IN  Settle(f, init)

(* the jobs that the two loops over k look at *)
JobsOf(z) == 1..MyCeil(BusyPeriod(z), T(z))

WorstJob(z, finish) == TaskMax({0} \cup {finish[k] - (k - 1) * T(z) : k \in DOMAIN finish})

CooperativeResponse(z, r) == WorstJob(z, [k \in JobsOf(z) |-> JobFinish(z, k, r)])
MissResponse(z, r) == WorstJob(z, [k \in JobsOf(z) |-> JobFinishDM(z, k, r)])

AnalysisInit == tasks = <<>> /\ next = 0 /\ responses = <<>>

(* addTask; the tasks are sorted by priority before the analysis. *)
AddTask(t) ==
  /\ next = 0 /\ Len(tasks) < MaxTasks
  /\ tasks' = Append(tasks, t)
  /\ UNCHANGED <<next, responses>>

StartRTA ==
  /\ next = 0 /\ tasks # <<>>
  /\ next' = 1
  /\ UNCHANGED <<tasks, responses>>

(* responseTime and deadline of the tasks analysed so far *)
Misses(rs) == {i \in DOMAIN rs : Last(rs[i]) > T(i)}

Runnables(z) == DOMAIN tasks[z].runnables

Analyse(response) ==
  /\ \A r \in DOMAIN response : Settles(response[r])
  /\ responses' = Append(responses, response)
  /\ next' = next + 1
  /\ UNCHANGED tasks

Analysing(z, type) == next \in 1..Len(tasks) /\ next = z /\ tasks[z].type = type

Preemptively(z) ==
  Append(responses, [r \in Runnables(z) |-> PreemptiveResponse(z, r)])

(* A miss of this task, or of any task before it, is answered by another      *)
(* analysis of this one.                                                      *)
ResponseTimePreemptiveTask(z) ==
  /\ Analysing(z, "preemptive")
  /\ Settles(Last(Preemptively(z)[z]))
  /\ IF Misses(Preemptively(z)) = {}
     THEN Analyse(Preemptively(z)[z])
     ELSE /\ Settles(BusyPeriod(z))
          /\ \A k \in JobsOf(z), r \in Runnables(z) : Settles(JobFinishDM(z, k, r))
          /\ Analyse([r \in Runnables(z) |-> MissResponse(z, r)])

ResponseTimeCooperativeTask(z) ==
  /\ Analysing(z, "cooperative")
  /\ Settles(BusyPeriod(z))
  /\ \A k \in JobsOf(z), r \in Runnables(z) : Settles(JobFinish(z, k, r))
  /\ Analyse([r \in Runnables(z) |-> CooperativeResponse(z, r)])

AnalysisNext ==
  \/ \E t \in TaskChoices : AddTask(t)
  \/ StartRTA
  \/ \E z \in DOMAIN tasks : ResponseTimePreemptiveTask(z)
  \/ \E z \in DOMAIN tasks : ResponseTimeCooperativeTask(z)

AnalysisSpec == AnalysisInit /\ [][AnalysisNext]_analysisVars

-----------------------------------------------------------------------------
(* The reference: the schedule itself, unit by unit, from a common release of *)
(* z and the tasks above it, behind a runnable of length b that has just      *)
(* begun.  Cooperative tasks of higher priority wait for the runnable of z    *)
(* that is being executed, preemptive ones do not.                            *)
MidRunnable(z, done) ==
  /\ tasks[z].type = "cooperative"
  /\ done % C(z) \notin {Accum(z, r) % C(z) : r \in DOMAIN tasks[z].runnables}

Tick(z, s, t) ==
  LET ready == [i \in 1..z |-> s.ready[i] + (IF t % T(i) = 0 THEN C(i) ELSE 0)]
      urgent == {i \in 1..(z - 1) : /\ ready[i] > 0
                                    /\ MidRunnable(z, Len(s.ends)) => tasks[i].type = "preemptive"}
      runs == IF urgent # {} THEN CHOOSE i \in urgent : \A j \in urgent : i <= j ELSE z
  IN  IF s.block > 0 THEN [s EXCEPT !.block = @ - 1, !.ready = ready]
      ELSE IF ready[runs] = 0 THEN [s EXCEPT !.ready = ready]
      ELSE [s EXCEPT !.ready = [ready EXCEPT ![runs] = @ - 1],
                     !.ends = IF runs = z THEN Append(@, t + 1) ELSE @]

(* the ends of the units of z *)
Ends(z, b, ticks) ==
  LET run[t \in 0..ticks] ==
        IF t = 0 THEN [ready |-> [i \in 1..z |-> 0], block |-> b, ends |-> <<>>]
        ELSE Tick(z, run[t - 1], t - 1)
  IN  run[ticks].ends

WorstEnd(z, r, ends, jobs) ==
  TaskMax({ends[(k - 1) * C(z) + Accum(z, r)] - (k - 1) * T(z) : k \in jobs})

Analysed(type) == {z \in DOMAIN responses : tasks[z].type = type}

MeetsDeadlines(z) == Misses(responses) \cap 1..z = {}

RateMonotonic == \A i, j \in DOMAIN tasks : i < j => T(i) <= T(j)

(* The analysis finds the end of each runnable in the schedule.  For a        *)
(* preemptive task whose core misses no deadline up to it, it is the end in   *)
(* the first job.  For a cooperative one it is the worst of the jobs that the *)
(* analysis looks at: one job if no deadline is missed up to it, all those of *)
(* its busy period, missed deadlines or not, if priorities are rate-monotonic *)
(* (Core.java 40-116, 140-198).                                               *)
PreemptiveExact == \A z \in Analysed("preemptive") : MeetsDeadlines(z) =>
  \A r \in DOMAIN responses[z] : responses[z][r] = WorstEnd(z, r, Ends(z, 0, Horizon), {1})
CooperativeExact == \A z \in Analysed("cooperative") : MeetsDeadlines(z) \/ RateMonotonic =>
  LET ends == Ends(z, Blocking(z), Horizon)
  IN  \A r \in DOMAIN responses[z] : responses[z][r] = WorstEnd(z, r, ends, JobsOf(z))
ResponseTimesExact == PreemptiveExact /\ CooperativeExact

Overloaded ==
  LET product == FoldLeft(LAMBDA p, t : p * t.period, 1, tasks)
  IN  Sum([i \in DOMAIN tasks |-> C(i) * (product \div T(i))]) >= product

(* The fixed-point iterations have no bound of their own; they end, and with  *)
(* them the analysis, for a core with rate-monotonic priorities that is not   *)
(* overloaded (Core.java 39-57, 136-199).                                     *)
AnalysisEnds == (next = 1 /\ RateMonotonic /\ ~Overloaded) ~> next > Len(tasks)
=============================================================================
