------------------------------ MODULE Admission ------------------------------
(***************************************************************************)
(* How a run comes to execute: webhook deduplication, the concurrency cap, *)
(* the insert guarded by a unique partial index, the end of the run's task *)
(* and the startup sweep (service/src/main.py _trigger_run, _run_pipeline, *)
(* _run_scheduled_pipeline, lifespan; service/src/pipeline/runner.py       *)
(* _db_create_run; service/src/db/database.py sweep).                      *)
(*                                                                         *)
(* A key stands for a (pipeline, fingerprint) pair.  What a run does       *)
(* between its insert and its end is the subject of module DurableRun.     *)
(*                                                                         *)
(* A definition named Slip... is not part of the model: it is a plausible  *)
(* mistake in the definition that follows it, kept to show that a property *)
(* would notice.                                                           *)
(***************************************************************************)
EXTENDS Integers, FiniteSets

CONSTANTS
  Requests,      \* webhook deliveries, "Run now" clicks and reruns
  Firings,       \* scheduled firings
  Keys, NoKey,   \* pipeline+fingerprint pairs; NoKey when fingerprint is NULL
  OptOut,        \* the keys whose pipeline sets trigger.dedup.enabled: false
  MaxConcurrent, \* concurrency.max_runs
  MaxCrashes     \* bound on the process deaths explored

ASSUME SetsAssumption ==
  /\ Requests \cap Firings = {}
  /\ NoKey \notin Keys /\ OptOut \subseteq Keys
  /\ IsFiniteSet(Requests) /\ IsFiniteSet(Firings)
ASSUME BoundAssumption == MaxConcurrent \in Nat /\ MaxCrashes \in Nat

Runs == Requests \cup Firings

VARIABLES
  row,      \* pipeline_runs: the status of each run's row, "none" without one
  recent,   \* the runs whose triggered_at is within the dedup window
  task,     \* where each run's coroutine stands
  key,      \* the key each delivery resolved to
  hit,      \* what the dedup SELECT of each delivery returned
  active,   \* main._active_runs
  up,       \* the process is running
  drift,    \* history: scheduled tasks that have ended in this process
  resumed,  \* history: the runs this process resumed at startup
  crashes

vars == <<row, recent, task, key, hit, active, up, drift, resumed, crashes>>

\* "refused" is a run whose insert hit the unique index.
TaskStates == {"none", "querying", "queried", "accepted", "executing", "refused",
               "closing", "done", "deduplicated", "overloaded", "lost"}
LiveStates == {"accepted", "executing", "refused", "closing"}
RowStates == {"none", "running", "terminal", "interrupted"}

Live == {r \in Runs : task[r] \in LiveStates}
Executing == {r \in Runs : task[r] = "executing"}
Running == {r \in Runs : row[r] = "running"}

TypeOK ==
  /\ row \in [Runs -> RowStates] /\ recent \subseteq Runs
  /\ task \in [Runs -> TaskStates] /\ key \in [Runs -> Keys \cup {NoKey}]
  /\ hit \in [Runs -> BOOLEAN] /\ active \in Int /\ up \in BOOLEAN
  /\ drift \in Nat /\ resumed \subseteq Runs /\ crashes \in Nat

Init ==
  /\ row = [r \in Runs |-> "none"] /\ recent = {}
  /\ task = [r \in Runs |-> "none"] /\ key = [r \in Runs |-> NoKey]
  /\ hit = [r \in Runs |-> FALSE]
  /\ active = 0 /\ up = TRUE /\ drift = 0 /\ resumed = {} /\ crashes = 0

SameKey(r, s) == key[r] = key[s] /\ key[r] # NoKey

(***************************************************************************)
(* _trigger_run.  The only await is the dedup SELECT: the cap check, the   *)
(* increment and create_task run in one piece.                             *)
(***************************************************************************)
\* Lets one run too many in.
SlipAcceptOrRefuse(r) ==
  IF active > MaxConcurrent
  THEN task' = [task EXCEPT ![r] = "overloaded"] /\ UNCHANGED active
  ELSE task' = [task EXCEPT ![r] = "accepted"] /\ active' = active + 1
AcceptOrRefuse(r) ==
  IF active >= MaxConcurrent
  THEN task' = [task EXCEPT ![r] = "overloaded"] /\ UNCHANGED active
  ELSE task' = [task EXCEPT ![r] = "accepted"] /\ active' = active + 1

\* A delivery without a fingerprint, or of a pipeline that opted out.
ArriveUnchecked(r, k) ==
  /\ up /\ r \in Requests /\ task[r] = "none"
  /\ k = NoKey \/ k \in OptOut
  /\ key' = [key EXCEPT ![r] = k]
  /\ AcceptOrRefuse(r)
  /\ UNCHANGED <<row, recent, hit, up, drift, resumed, crashes>>

ArriveChecked(r, k) ==
  /\ up /\ r \in Requests /\ task[r] = "none"
  /\ k \in Keys \ OptOut
  /\ key' = [key EXCEPT ![r] = k]
  /\ task' = [task EXCEPT ![r] = "querying"]
  /\ UNCHANGED <<row, recent, hit, active, up, drift, resumed, crashes>>

\* _find_duplicate_run reads the table ...
FindDuplicate(r) ==
  /\ up /\ task[r] = "querying"
  /\ hit' = [hit EXCEPT ![r] =
       \E s \in Runs : SameKey(r, s) /\ row[s] # "none"
                       /\ (row[s] = "running" \/ s \in recent)]
  /\ task' = [task EXCEPT ![r] = "queried"]
  /\ UNCHANGED <<row, recent, key, active, up, drift, resumed, crashes>>

\* ... and the handler goes on with what it returned.
AnswerDelivery(r) ==
  /\ up /\ task[r] = "queried"
  /\ IF hit[r]
     THEN task' = [task EXCEPT ![r] = "deduplicated"] /\ UNCHANGED active
     ELSE AcceptOrRefuse(r)
  /\ UNCHANGED <<row, recent, key, hit, up, drift, resumed, crashes>>

\* A scheduled run is awaited by its job: no cap check and no increment.
Fire(r) ==
  /\ up /\ r \in Firings /\ task[r] = "none"
  /\ task' = [task EXCEPT ![r] = "accepted"]
  /\ UNCHANGED <<row, recent, key, hit, active, up, drift, resumed, crashes>>

(***************************************************************************)
(* The run's task.                                                         *)
(***************************************************************************)
\* Without the unique index the SELECT of the pre-check is all there is.
SlipCollides(r) == FALSE
Collides(r) == \E s \in Runs : SameKey(r, s) /\ row[s] = "running"

\* A duplicate is returned early, past the finally that ends the task.
SlipInsertRow(r) ==
  /\ task[r] = "accepted"
  /\ IF Collides(r)
     THEN task' = [task EXCEPT ![r] = "deduplicated"] /\ UNCHANGED <<row, recent>>
     ELSE /\ task' = [task EXCEPT ![r] = "executing"]
          /\ row' = [row EXCEPT ![r] = "running"]
          /\ recent' = recent \cup {r}
  /\ UNCHANGED <<key, hit, active, up, drift, resumed, crashes>>
\* _db_create_run: the unique partial index refuses a second running row.
InsertRow(r) ==
  /\ task[r] = "accepted"
  /\ IF Collides(r)
     THEN task' = [task EXCEPT ![r] = "refused"] /\ UNCHANGED <<row, recent>>
     ELSE /\ task' = [task EXCEPT ![r] = "executing"]
          /\ row' = [row EXCEPT ![r] = "running"]
          /\ recent' = recent \cup {r}
  /\ UNCHANGED <<key, hit, active, up, drift, resumed, crashes>>

\* _db_complete_run with whatever status the run ended in.
CompleteRun(r) ==
  /\ task[r] = "executing"
  /\ row' = [row EXCEPT ![r] = "terminal"]
  /\ task' = [task EXCEPT ![r] = "closing"]
  /\ UNCHANGED <<recent, key, hit, active, up, drift, resumed, crashes>>

\* An exception out of the runner is logged; nothing closes the row.
RaiseInRun(r) ==
  /\ task[r] \in {"accepted", "executing"}
  /\ task' = [task EXCEPT ![r] = "closing"]
  /\ UNCHANGED <<row, recent, key, hit, active, up, drift, resumed, crashes>>

\* The finally of _run_pipeline decrements for every task, counted or not.
EndTask(r) ==
  /\ task[r] \in {"closing", "refused"}
  /\ task' = [task EXCEPT ![r] = "done"]
  /\ active' = active - 1
  /\ drift' = IF r \in Firings \ resumed THEN drift + 1 ELSE drift
  /\ UNCHANGED <<row, recent, key, hit, up, resumed, crashes>>

\* Time passes: a row leaves the dedup window.
LeaveWindow(r) ==
  /\ r \in recent
  /\ recent' = recent \ {r}
  /\ UNCHANGED <<row, task, key, hit, active, up, drift, resumed, crashes>>

(***************************************************************************)
(* Crash and startup.                                                      *)
(***************************************************************************)
Crash ==
  /\ up /\ crashes < MaxCrashes
  /\ up' = FALSE /\ crashes' = crashes + 1
  /\ task' = [r \in Runs |->
       IF task[r] \in LiveStates \cup {"querying", "queried"} THEN "lost" ELSE task[r]]
  /\ active' = 0 /\ drift' = 0 /\ resumed' = {}
  /\ UNCHANGED <<row, recent, key, hit>>

\* The rows of pipelines that are not durable are left alone.
SlipSwept(S) == row
Swept(S) == [r \in Runs |-> IF r \in Running \ S THEN "interrupted" ELSE row[r]]

\* Every running row is resumed (a durable pipeline, unchanged, young enough)
\* or marked interrupted; resume tasks are counted without a cap check.
Startup(S) ==
  /\ ~up /\ S \subseteq Running
  /\ up' = TRUE
  /\ row' = Swept(S)
  /\ task' = [r \in Runs |-> IF r \in S THEN "executing" ELSE task[r]]
  /\ active' = Cardinality(S)
  /\ resumed' = S
  /\ UNCHANGED <<recent, key, hit, drift, crashes>>

TaskStep(r) == InsertRow(r) \/ CompleteRun(r) \/ EndTask(r)
HandlerStep(r) == FindDuplicate(r) \/ AnswerDelivery(r)

Next ==
  \/ \E r \in Runs :
       \/ \E k \in Keys \cup {NoKey} : ArriveUnchecked(r, k) \/ ArriveChecked(r, k)
       \/ HandlerStep(r) \/ TaskStep(r) \/ Fire(r) \/ RaiseInRun(r) \/ LeaveWindow(r)
  \/ Crash
  \/ \E S \in SUBSET Running : Startup(S)

\* The event loop runs every task and handler, and every run ends (each await of
\* it is bounded or answered); deliveries, firings, time and crashes are free.
Fairness ==
  /\ \A r \in Runs : WF_vars(TaskStep(r)) /\ WF_vars(HandlerStep(r))
  /\ WF_vars(\E S \in SUBSET Running : Startup(S))

Spec == Init /\ [][Next]_vars /\ Fairness

(***************************************************************************)
(* Properties.                                                             *)
(***************************************************************************)

\* At most one run executes for an alert of a pipeline that deduplicates, through
\* races of the pre-check, crashes and resumes ("a race never results in two
\* pipelines executing concurrently for the same alert", _db_create_run).
OneExecutionPerKey ==
  \A r, s \in Runs :
    r # s /\ SameKey(r, s) /\ key[r] \notin OptOut
      => ~(task[r] = "executing" /\ task[s] = "executing")

\* The index keeps one running row per key, and a task that executes has it.
RowsMatchTasks ==
  /\ \A r, s \in Running : r # s => ~SameKey(r, s)
  /\ Executing \subseteq Running

\* The counter is the number of counted live tasks, less the scheduled tasks
\* that have ended: each of those was decremented and never incremented.
Counted == Live \ (Firings \ resumed)
CounterMeaning == active = Cardinality(Counted) - drift

\* The cap: the counter exceeds max_runs only by what had to be resumed at
\* startup, so with no scheduled pipelines that many runs are live at most.
CapHolds == active <= MaxConcurrent \/ active <= Cardinality(resumed)

\* A running row gets closed, so the alert it stands for is not suppressed for
\* ever, unless its task ended in an exception and the process stays up.
RowsGetClosed ==
  \A r \in Runs : row[r] = "running" ~> row[r] # "running" \/ (up /\ task[r] = "done")

\* Every accepted delivery of a process that stays up ends its task.
AcceptedEnds == \A r \in Runs : task[r] = "accepted" ~> task[r] \in {"done", "lost"}

(***************************************************************************)
(* What a sample or a comment says and the code does not do.               *)
(***************************************************************************)

\* samples/config.yaml.example: "maximum simultaneous pipeline executions".
WebhookRunsWithinLimit == Cardinality(Live \cap Requests) <= MaxConcurrent

\* alert-triage-dedup.yaml: "opt this pipeline out of dedup entirely (e.g. every
\* alert, however repetitive, should get its own run)".  db/models.py says that
\* the index spares the opt-outs since their fingerprint is NULL; the runner
\* stores the fingerprint all the same, and the index refuses the second run.
OptedOutGetTheirOwnRun ==
  \A r \in Requests : key[r] \in OptOut => task[r] # "refused"
=============================================================================
