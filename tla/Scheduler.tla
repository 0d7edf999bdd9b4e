----------------------------- MODULE Scheduler -----------------------------
(***************************************************************************)
(* The proactive scheduler: a loop that wakes, runs the jobs that are due  *)
(* a few at a time, and sleeps; the route by which a user replaces their   *)
(* job; the stored rows; and a crash, or a shutdown that cuts work off,    *)
(* followed by a restart from the rows.                                    *)
(*                                                                         *)
(* Jobs are Python objects: one that is replaced while the loop holds it   *)
(* lives on there.  They are kept in a heap, and named by their index.     *)
(* Time is counted in seconds of a short day; what a job writes is left    *)
(* out, and a row is written in one step.                                  *)
(***************************************************************************)
EXTENDS Integers, Sequences, FiniteSets, FiniteSetsExt, Functions

CONSTANTS
    JobKeys,        \* (user, kind)
    Times,          \* times of day a job can be set to
    Offset,         \* the jitter of each user
    DayLength, WorkDays,
    Interval,       \* the loop's sleep; more than a second
    MaxConcurrency,
    Horizon,        \* bound: the last second, which then repeats
    MaxEdits,       \* bound: replacements by users
    MaxRestarts     \* bound: crashes

ASSUME SchedulerAssumption ==
    /\ IsFiniteSet(JobKeys)
    /\ Times \subseteq 0..(DayLength - 1) /\ DayLength \in Nat \ {0}
    /\ Offset \in [JobKeys -> Nat]
    /\ WorkDays \subseteq 0..6 /\ WorkDays # {}
    /\ Interval \in Nat /\ Interval > 1
    /\ MaxConcurrency \in Nat \ {0}
    /\ {Horizon, MaxEdits, MaxRestarts} \subseteq Nat

VARIABLES
    clock,
    heap,      \* every job object made since the start, in order
    jobs,      \* Scheduler.jobs: the object of each key, 0 for none
    wake,      \* when the loop's sleep ends
    tickAt,    \* the now of the tick on its way, Never between two
    held,      \* the object the tick works on for each key, 0 for none
    stage,     \* where _run_job stands for each key
    rows,      \* the table of schedules
    unsaved,   \* the object whose row a route is about to write, 0 for none
    edits, restarts

schedulerVars == <<clock, heap, jobs, wake, tickAt, held, stage, rows, unsaved,
                   edits, restarts>>

Never == -1
Instants == {Never} \cup 0..Horizon

(* at, enabled and last_run are fields of a job; begun is when it was last *)
(* started, and first is the first moment it was made for                  *)
Fresh(at, on, first) ==
    [at |-> at, enabled |-> on, last |-> Never, begun |-> Never, first |-> first]
NoRow == Fresh(Never, FALSE, Never)
JobSet == [at : Times, enabled : BOOLEAN, last : Instants, begun : Instants, first : Int]
Stages == {"idle", "waiting", "working", "done"}

SchedulerTypes ==
    /\ clock \in 0..Horizon /\ wake \in 0..Horizon
    /\ heap \in Seq(JobSet)
    /\ {jobs, held, unsaved} \subseteq [JobKeys -> 0..Len(heap)]
    /\ tickAt \in {Never} \cup 0..Horizon
    /\ stage \in [JobKeys -> Stages]
    /\ rows \in [JobKeys -> JobSet \cup {NoRow}]
    /\ edits \in 0..MaxEdits /\ restarts \in 0..MaxRestarts

SchedulerInit ==
    /\ clock = 0 /\ wake = 0 /\ tickAt = Never
    /\ heap = <<>>
    /\ jobs = [k \in JobKeys |-> 0]
    /\ held = [k \in JobKeys |-> 0]
    /\ unsaved = [k \in JobKeys |-> 0]
    /\ stage = [k \in JobKeys |-> "idle"]
    /\ rows = [k \in JobKeys |-> NoRow]
    /\ edits = 0 /\ restarts = 0

-----------------------------------------------------------------------------
(* When a job runs *)

Weekday(t) == (t \div DayLength) % 7

(* Each day from that of t on offers one candidate, the time of day moved  *)
(* by the jitter, even past midnight                                       *)
Candidates(k, at, t) ==
    { (t \div DayLength + ahead) * DayLength + at + Offset[k] : ahead \in 0..7 }

NextRunAfter(k, at, t) ==
    Min({ c \in Candidates(k, at, t) : Weekday(c) \in WorkDays /\ c > t })

IsDue(k, job, t) ==
    /\ job.enabled
    /\ NextRunAfter(k, job.at, IF job.last = Never THEN t - 1 ELSE job.last) <= t

-----------------------------------------------------------------------------
(* The loop *)

Asleep == tickAt = Never

(* Time passes while the loop sleeps, and while it works *)
Second ==
    /\ clock < Horizon
    /\ Asleep => clock < wake
    /\ clock' = clock + 1
    /\ UNCHANGED <<heap, jobs, wake, tickAt, held, stage, rows, unsaved, edits,
                   restarts>>

DueNow == { k \in JobKeys : jobs[k] # 0 /\ IsDue(k, heap[jobs[k]], clock) }

Tick ==
    /\ Asleep /\ clock >= wake
    /\ tickAt' = clock
    /\ held' = [k \in JobKeys |-> IF k \in DueNow THEN jobs[k] ELSE 0]
    /\ stage' = [k \in JobKeys |-> IF k \in DueNow THEN "waiting" ELSE "idle"]
    /\ UNCHANGED <<clock, heap, jobs, wake, rows, unsaved, edits, restarts>>

(* variant: a job is stamped when it has succeeded *)
StampLate(k) == [heap EXCEPT ![held[k]].begun = tickAt]

Stamp(k) == [heap EXCEPT ![held[k]].last = tickAt, ![held[k]].begun = tickAt]

(* variant: the slot of a job that is over is not given back *)
SlotsSpent == { k \in JobKeys : stage[k] \in {"working", "done"} }

Running == { k \in JobKeys : stage[k] = "working" }

StartJob(k) ==
    /\ stage[k] = "waiting" /\ Cardinality(Running) < MaxConcurrency
    /\ stage' = [stage EXCEPT ![k] = "working"]
    /\ heap' = Stamp(k)
    /\ UNCHANGED <<clock, jobs, wake, tickAt, held, rows, unsaved, edits, restarts>>

(* The work is done, or has failed: either way the row is written, with    *)
(* all that the object the loop holds says, or the write fails.            *)
FinishJob(k) ==
    /\ stage[k] = "working"
    /\ stage' = [stage EXCEPT ![k] = "done"]
    /\ \/ rows' = [rows EXCEPT ![k] = heap[held[k]]]
       \/ UNCHANGED rows
    /\ UNCHANGED <<clock, heap, jobs, wake, tickAt, held, unsaved, edits, restarts>>

TickOver ==
    /\ ~Asleep /\ \A k \in JobKeys : stage[k] \in {"idle", "done"}
    /\ tickAt' = Never
    /\ wake' = Min({clock + Interval, Horizon})
    /\ held' = [k \in JobKeys |-> 0]
    /\ stage' = [k \in JobKeys |-> "idle"]
    /\ UNCHANGED <<clock, heap, jobs, rows, unsaved, edits, restarts>>

-----------------------------------------------------------------------------
(* The route, whose second half is the write of the row; one at a time     *)
SetSchedule(k) ==
    /\ edits < MaxEdits /\ \A other \in JobKeys : unsaved[other] = 0
    /\ \E at \in Times, on \in BOOLEAN :
          heap' = Append(heap,
                    IF jobs[k] = 0 \/ heap[jobs[k]].last = Never
                    THEN Fresh(at, on, NextRunAfter(k, at, clock))
                    ELSE [heap[jobs[k]] EXCEPT !.at = at, !.enabled = on])
    /\ jobs' = [jobs EXCEPT ![k] = Len(heap')]
    /\ unsaved' = [unsaved EXCEPT ![k] = Len(heap')]
    /\ edits' = edits + 1
    /\ UNCHANGED <<clock, wake, tickAt, held, stage, rows, restarts>>

SaveSchedule(k) ==
    /\ unsaved[k] # 0
    /\ unsaved' = [unsaved EXCEPT ![k] = 0]
    /\ \/ rows' = [rows EXCEPT ![k] = heap[unsaved[k]]]
       \/ UNCHANGED rows
    /\ UNCHANGED <<clock, heap, jobs, wake, tickAt, held, stage, edits, restarts>>

(* A crash, or a stop that does not wait for work of more than 5 seconds,  *)
(* and the next process, which loads the rows and ticks at once            *)
RestartScheduler ==
    /\ restarts < MaxRestarts /\ restarts' = restarts + 1
    /\ LET stored == {k \in JobKeys : rows[k] # NoRow}
           order  == CHOOSE s \in Bijection(1..Cardinality(stored), stored) : TRUE
       IN  /\ heap' = [i \in 1..Cardinality(stored) |-> rows[order[i]]]
           /\ jobs' = [k \in JobKeys |->
                         IF k \notin stored THEN 0
                         ELSE CHOOSE i \in 1..Cardinality(stored) : order[i] = k]
    /\ wake' = clock /\ tickAt' = Never
    /\ held' = [k \in JobKeys |-> 0]
    /\ unsaved' = [k \in JobKeys |-> 0]
    /\ stage' = [k \in JobKeys |-> "idle"]
    /\ UNCHANGED <<clock, rows, edits>>

SchedulerNext ==
    \/ Second \/ Tick \/ TickOver \/ RestartScheduler
    \/ \E k \in JobKeys : StartJob(k) \/ FinishJob(k) \/ SetSchedule(k) \/ SaveSchedule(k)

(* Time passes, the loop runs, and every generation ends: the model client *)
(* and the tools it asks have deadlines                                    *)
SchedulerFairness ==
    /\ WF_schedulerVars(Second) /\ WF_schedulerVars(Tick) /\ WF_schedulerVars(TickOver)
    /\ \A k \in JobKeys : WF_schedulerVars(StartJob(k)) /\ WF_schedulerVars(FinishJob(k))

SchedulerSpec == SchedulerInit /\ [][SchedulerNext]_schedulerVars /\ SchedulerFairness

-----------------------------------------------------------------------------
(* Properties *)

(* A job is begun again only for a moment of its schedule that is later    *)
(* than its last beginning, though that one failed, and though the process *)
(* was restarted after the row was written (_run_job marks the job before  *)
(* it generates, so that one that raises does not spin).                   *)
FailuresWait ==
    [][ \A k \in JobKeys :
          stage[k] = "waiting" /\ stage'[k] = "working" =>
             LET j == heap[held[k]] IN
             j.begun = Never \/ NextRunAfter(k, j.at, j.begun) <= tickAt ]_schedulerVars

(* A job with a history that has become due is run, or replaced: the       *)
(* failures, slowness and number of the others do not starve it            *)
(* (Scheduler.tick, _run_job, run_forever).                                *)
Overdue(k) == jobs[k] # 0 /\ heap[jobs[k]].last # Never /\ IsDue(k, heap[jobs[k]], clock)

DueJobsRun == \A k \in JobKeys : Overdue(k) ~> ~Overdue(k)

(* A job set before its first moment is run by the first tick that comes   *)
(* after that moment (ScheduledJob.is_due means to leave out what was      *)
(* missed before the service came; Schedule: ready when that person starts *)
(* work).                                                                  *)
FirstMomentServed ==
    [][ Asleep /\ tickAt' # Never =>
          \A k \in JobKeys : jobs[k] # 0 =>
             LET j == heap[jobs[k]] IN
             j.enabled /\ j.last = Never /\ j.first <= clock => held'[k] = jobs[k]
      ]_schedulerVars

=============================================================================
