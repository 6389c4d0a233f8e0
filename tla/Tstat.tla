-------------------------------- MODULE Tstat --------------------------------
(***************************************************************************)
(* The execution time statistics of a task (tstat.c) that ptask_std_body   *)
(* and ptask_wait_for_period keep when measure_flag is set.  The model     *)
(* follows one entry of measures[], that of one task descriptor, which     *)
(* serves one task after the other.                                        *)
(***************************************************************************)
EXTENDS Timespec

CONSTANTS
  ExecTimes,  \* processor times that a piece of code may take
  MaxJobs,    \* jobs of a task, a bound
  MaxTasks    \* tasks that use the descriptor, a bound

ASSUME StatAssumption == ExecTimes \subseteq Nat /\ MaxJobs \in Nat /\ MaxTasks \in Nat

VARIABLES
  cpu,         \* CLOCK_THREAD_CPUTIME_ID of the task's thread
  measure,     \* measures[i]: first, last, wcet, num_instances
  running,     \* whether a task has the descriptor
  tasks,       \* how many tasks have had it
  jobs,        \* how many of its jobs have been recorded
  elapsed,     \* the sum of their execution times
  worst        \* the longest of them

tstatVars == <<cpu, measure, running, tasks, jobs, elapsed, worst>>

Clock(v) == Ts(v \div Billion, v % Billion)

tspec_zero == Ts(0, 0)

TstatInit ==
  /\ cpu = 0
  /\ measure = [first |-> tspec_zero, last |-> tspec_zero, wcet |-> tspec_zero, num |-> 0]
  /\ running = FALSE
  /\ tasks = 0
  /\ jobs = 0 /\ elapsed = 0 /\ worst = 0

(* A thread starts and runs up to tstat_init, which does not reset wcet. *)
StartMeasure ==
  /\ ~running
  /\ tasks < MaxTasks
  /\ \E d \in ExecTimes :
       /\ cpu' = d
       /\ measure' = [measure EXCEPT !.first = Clock(d), !.last = Clock(d), !.num = 0]
  /\ running' = TRUE
  /\ tasks' = tasks + 1
  /\ jobs' = 0 /\ elapsed' = 0 /\ worst' = 0

Longer_LastWins(delta) == TRUE
Longer(delta) == Cmp(delta, measure.wcet) > 0

LastRecorded_Kept(now) == measure.first
LastRecorded(now) == now

(* A job runs and ptask_wait_for_period calls tstat_record. *)
Record ==
  /\ running
  /\ jobs < MaxJobs
  /\ \E d \in ExecTimes :
       LET now == Clock(cpu + d)
           delta == Sub(now, measure.last)
       IN  /\ cpu' = cpu + d
           /\ measure' = [measure EXCEPT !.wcet = IF Longer(delta) THEN delta ELSE @,
                                         !.last = LastRecorded(now),
                                         !.num = @ + 1]
           /\ jobs' = jobs + 1
           /\ elapsed' = elapsed + d
           /\ worst' = IF d > worst THEN d ELSE worst
  /\ UNCHANGED <<running, tasks>>

EndMeasure ==
  /\ running
  /\ running' = FALSE
  /\ UNCHANGED <<cpu, measure, tasks, jobs, elapsed, worst>>

TstatNext == StartMeasure \/ Record \/ EndMeasure

TstatSpec == TstatInit /\ [][TstatNext]_tstatVars

Total == Sub(measure.last, measure.first)

(* ptask_get_avg divides seconds and the rest in two steps.  The call is       *)
(* undefined while no instance is recorded.                                   *)
Average_DropsRest == Ts(Total.sec \div measure.num, Total.nsec \div measure.num)
Average ==
  Ts(Total.sec \div measure.num,
    (Total.nsec + (Total.sec % measure.num) * Billion) \div measure.num)

-----------------------------------------------------------------------------
(* The total and the count are those of the recorded jobs of this task,       *)
(* although only clock readings are kept; the average is the total divided by *)
(* the number of jobs, rounded down and normal.  "returns the task wcet"      *)
(* (tstat.h 26): the first task with the descriptor reads its longest job, a  *)
(* later one never less than that, but maybe the wcet of a task before it     *)
(* (tstat.c 14-30, 37-55).                                                    *)
TotalsExact == Value(Total) = elapsed /\ measure.num = jobs

AverageExact == jobs > 0 =>
  /\ Normal(Average)
  /\ Value(Average) = elapsed \div jobs

WcetExact ==
  /\ worst <= Value(measure.wcet)
  /\ tasks <= 1 => worst = Value(measure.wcet)

StatisticsExact == TotalsExact /\ AverageExact /\ WcetExact

-----------------------------------------------------------------------------
(* The inductive invariant: the entry has normal times, and its two readings  *)
(* are of the clock now and before the recorded jobs.                         *)
StatInv ==
  /\ cpu \in Nat /\ jobs \in Nat /\ elapsed \in Nat /\ worst \in Nat /\ tasks \in Nat
  /\ running \in BOOLEAN
  /\ measure \in [first : Time, last : Time, wcet : Time, num : Nat]
  /\ Value(measure.last) = cpu
  /\ Value(measure.first) = cpu - elapsed
  /\ worst <= Value(measure.wcet)
  /\ tasks <= 1 => worst = Value(measure.wcet)
  /\ tasks = 0 => worst = 0 /\ ~running
  /\ measure.num = jobs
=============================================================================
