----------------------------- MODULE DurableRun -----------------------------
(***************************************************************************)
(* One run of a durable pipeline: the step loop of PipelineRunner, the     *)
(* database rows it writes, the crashes and restarts between any two of    *)
(* its awaits, and the resume that follows (service/src/pipeline/runner.py *)
(* _run_pipeline_body and what it calls; service/src/db/database.py        *)
(* sweep_and_partition_running_runs).                                      *)
(*                                                                         *)
(* The run's row exists and is 'running' in Init: admission and insertion  *)
(* are the subject of module Admission.  What one step's executor, its     *)
(* retries, verifier and gate do is one nondeterministic outcome here and  *)
(* the subject of module StepGate.                                         *)
(*                                                                         *)
(* A definition named Slip... is not part of the model: it is a plausible  *)
(* mistake in the definition that follows it, kept to show that a property *)
(* would notice.                                                           *)
(***************************************************************************)
EXTENDS Integers, Sequences, FiniteSets, FiniteSetsExt

CONSTANTS
  Pipelines, \* the pipelines a run may be of
  MaxCrashes \* bound on the process deaths explored

(***************************************************************************)
(* A unit is a plain step, a human step, a parallel group or a fan-out.    *)
(* width counts a group's branches, when is 0 or the earlier unit whose    *)
(* output the when: condition wants to be "hi", over says what a fan-out's *)
(* list resolves to, tok and vtok are the tokens of one primary and one    *)
(* verifier call.                                                          *)
(***************************************************************************)
Unit == [kind : {"plain", "human", "parallel", "fan_out"}, width : Nat,
         join : {"all_must_pass", "any_must_pass"}, when : Nat,
         onFailure : {"abort", "continue"},
         onLow : {"abort", "escalate", "proceed"},
         over : {"items", "empty", "error"}, timeout : BOOLEAN,
         tok : Nat, vtok : Nat]

\* A pipeline: its steps in order, durable.on_interrupted, and budget.max_tokens
\* (0 without a budget).
Pipeline == [units : Seq(Unit), onInterrupted : {"rerun", "escalate"}, maxTokens : Nat]

ASSUME PipelinesAssumption ==
  /\ Pipelines \subseteq Pipeline
  /\ \A p \in Pipelines : \A i \in DOMAIN p.units :
       LET w == p.units[i].when
       IN  /\ w < i /\ (w # 0 => p.units[w].kind \in {"plain", "human"})
           /\ p.units[i].kind = "fan_out" /\ p.units[i].over = "empty"
                => p.units[i].width = 0
ASSUME BoundAssumption == MaxCrashes \in Nat

VARIABLES
  pipeline, \* the run's pipeline, the same in every life of the process
  \* --- database, survives a crash
  runStatus, rows, approvals, resumedAt,
  \* --- the run task's memory, lost in a crash
  pc, cur, resuming, gapSpent, loaded, armed, outs, spent, got, result, final,
  \* --- history, for the properties
  execs, unrecorded, lost, windowGates, skipped, overruns, continued, crashes

db == <<runStatus, rows, approvals, resumedAt>>
loop == <<resuming, loaded, armed>>
history == <<execs, unrecorded, lost, windowGates, skipped, overruns, continued, crashes>>
vars == <<pipeline, db, pc, cur, gapSpent, outs, spent, got, result, final, loop,
          history>>

Units == pipeline.units
OnInterrupted == pipeline.onInterrupted
MaxTokens == pipeline.maxTokens
Ids == DOMAIN Units
IsStep(i) == Units[i].kind \in {"plain", "human"}
BranchIds(i) == IF IsStep(i) THEN {0} ELSE 1..Units[i].width
\* One PipelineStep row per plain or human step and per branch of a group.
KeysOf(i) == {<<i, b>> : b \in BranchIds(i)}
Keys == UNION {KeysOf(i) : i \in Ids}

\* What an executor can come back with: trusted, below the threshold,
\* proceed=false, or an error / timeout after the last attempt.
Vals == {"hi", "lo", "halt", "error"}
StepOutcomes(i) == IF Units[i].kind = "human" THEN {"hi", "lo", "error"} ELSE Vals
Statuses == {"completed", "aborted", "escalated", "stopped", "failed"}

NoRow == [status |-> "none", val |-> "none", tok |-> 0]
Row == [status : Statuses, val : Vals, tok : Nat]

LowStatus(i) ==
  CASE Units[i].onLow = "abort"    -> "aborted"
    [] Units[i].onLow = "escalate" -> "escalated"
    [] OTHER                       -> "completed"

\* The status _run_step reports for an outcome.
StepStatus(i, val) ==
  CASE val = "hi"    -> "completed"
    [] val = "lo"    -> LowStatus(i)
    [] val = "halt"  -> "stopped"
    [] val = "error" -> "failed"

NoResult == [status |-> "none", gap |-> FALSE, tok |-> 0]
Result == [status : Statuses \cup {"none"}, gap : BOOLEAN, tok : Nat]
PCs == {"head", "exec", "asking", "waiting", "save", "gather", "saveBranches",
        "gate", "notify", "finish", "ended", "dead", "down", "load"}

Persisted == {k \in Keys : rows[k] # NoRow}
Tokens(S) == MapThenSumSet(LAMBDA k : rows[k].tok, S)
\* The total of a group leaves out its branches' verifiers, whose tokens are in the
\* branches' rows: the loop does not count them, a resume does.
Counted(k) == IF IsStep(k[1]) \/ rows[k].tok = 0 THEN rows[k].tok ELSE Units[k[1]].tok
CountedTokens == MapThenSumSet(Counted, Keys)
OverBudget(n) == MaxTokens > 0 /\ n > MaxTokens

\* spent is left out: it is a number because every row's is.
TypeOK ==
  /\ pipeline \in Pipelines
  /\ runStatus \in Statuses \cup {"running", "interrupted"}
  /\ rows \in [Keys -> Row \cup {NoRow}]
  /\ approvals \subseteq Ids /\ armed \subseteq Ids /\ skipped \subseteq Ids
  /\ windowGates \subseteq Ids
  /\ loaded \subseteq Keys /\ unrecorded \subseteq Keys
  /\ resumedAt \in BOOLEAN /\ resuming \in BOOLEAN /\ gapSpent \in BOOLEAN
  /\ pc \in PCs /\ cur \in 1..(Len(Units) + 1)
  /\ outs \in [Keys -> Vals \cup {"none"}]
  /\ DOMAIN got \subseteq Keys /\ \A k \in DOMAIN got : got[k] \in Vals
  /\ result \in Result /\ final \in Statuses
  /\ execs \in [Keys -> Nat] /\ lost \in [Keys -> Nat]
  /\ overruns \in Nat /\ continued \in Nat /\ crashes \in Nat

Init ==
  /\ pipeline \in Pipelines
  /\ runStatus = "running" /\ rows = [k \in Keys |-> NoRow]
  /\ approvals = {} /\ resumedAt = FALSE
  /\ pc = "head" /\ cur = 1 /\ resuming = FALSE /\ gapSpent = FALSE
  /\ loaded = {} /\ armed = {} /\ outs = [k \in Keys |-> "none"]
  /\ spent = 0 /\ got = <<>> /\ result = NoResult /\ final = "completed"
  /\ execs = [k \in Keys |-> 0] /\ lost = [k \in Keys |-> 0]
  /\ unrecorded = {} /\ windowGates = {} /\ skipped = {}
  /\ overruns = 0 /\ continued = 0 /\ crashes = 0

(***************************************************************************)
(* The head of the loop: what to do with the unit cur points at.           *)
(***************************************************************************)
AtHead(i) == pc = "head" /\ cur = i /\ i \in Ids
AlreadyDone(i) == resuming /\ IsStep(i) /\ <<i, 0>> \in loaded
WhenHolds(i) == Units[i].when # 0 => outs[<<Units[i].when, 0>>] = "hi"
GapCandidate == resuming /\ ~gapSpent
Dispatch(i) == AtHead(i) /\ ~AlreadyDone(i) /\ WhenHolds(i)
Rearms(i) == GapCandidate /\ Units[i].kind = "human" /\ i \in armed
EscalatesGap == GapCandidate /\ OnInterrupted = "escalate"
\* Every branch of an interrupted group, the recorded ones included.
SlipMissing(i) == KeysOf(i)
Missing(i) == KeysOf(i) \ loaded
NextUnit == cur' = cur + 1 /\ pc' = "head"

\* Starting the executors of the keys in S: the side effect that must not be
\* repeated once its row is written.
Begin(S) ==
  /\ execs' = [k \in Keys |-> IF k \in S THEN execs[k] + 1 ELSE execs[k]]
  /\ unrecorded' = unrecorded \cup S
  /\ overruns' = IF S # {} /\ OverBudget(CountedTokens)
                 THEN overruns + 1 ELSE overruns

\* A plain step with a persisted row is skipped, whatever the row's status.
SkipPersisted(i) ==
  /\ AtHead(i) /\ AlreadyDone(i)
  /\ NextUnit
  /\ UNCHANGED <<db, gapSpent, outs, spent, got, result, final, loop, history>>

\* when: is false (an expression that cannot be evaluated counts as false).
SkipWhen(i) ==
  /\ AtHead(i) /\ ~AlreadyDone(i) /\ ~WhenHolds(i)
  /\ skipped' = skipped \cup {i}
  /\ NextUnit
  /\ UNCHANGED <<db, gapSpent, outs, spent, got, result, final, loop, execs,
                 unrecorded, lost, windowGates, overruns, continued, crashes>>

BeginStep(i) ==
  /\ Dispatch(i) /\ Units[i].kind = "plain" /\ ~EscalatesGap
  /\ Begin(KeysOf(i))
  /\ pc' = "exec"
  /\ UNCHANGED <<db, cur, gapSpent, outs, spent, got, result, final, loop, lost,
                 windowGates, skipped, continued, crashes>>

\* A human step persists its PendingApproval before it sends the message, if it
\* can: a database error is logged and the ask goes on without its row.
BeginHuman(i) ==
  /\ Dispatch(i) /\ Units[i].kind = "human" /\ ~Rearms(i) /\ ~EscalatesGap
  /\ approvals' \in {approvals, approvals \cup {i}}
  /\ pc' = "asking"
  /\ UNCHANGED <<runStatus, rows, resumedAt, cur, gapSpent, outs, spent, got,
                 result, final, loop, history>>

\* The approval outstanding at the crash is waited for again, not sent again.
RearmHuman(i) ==
  /\ Dispatch(i) /\ Rearms(i)
  /\ unrecorded' = unrecorded \cup KeysOf(i)
  /\ pc' = "waiting"
  /\ UNCHANGED <<db, cur, gapSpent, outs, spent, got, result, final, loop, execs,
                 lost, windowGates, skipped, overruns, continued, crashes>>

\* on_interrupted=escalate: the step in flight at the crash is not run again.
EscalateStep(i) ==
  /\ Dispatch(i) /\ IsStep(i) /\ ~Rearms(i) /\ EscalatesGap
  /\ result' = [status |-> "escalated", gap |-> TRUE, tok |-> 0]
  /\ got' = [k \in KeysOf(i) |-> "lo"]
  /\ pc' = "save"
  /\ UNCHANGED <<db, cur, gapSpent, outs, spent, final, loop, history>>

\* A fan-out whose list is unusable fails, one whose list is empty completes.
ResolveFanOut(i) ==
  /\ Dispatch(i) /\ Units[i].kind = "fan_out" /\ Units[i].over # "items"
  /\ result' = [status |-> IF Units[i].over = "empty" THEN "completed" ELSE "failed",
                gap |-> FALSE, tok |-> 0]
  /\ pc' = "gate"
  /\ UNCHANGED <<db, cur, gapSpent, outs, spent, got, final, loop, history>>

HasBranches(i) == ~IsStep(i) /\ (Units[i].kind = "fan_out" => Units[i].over = "items")

EscalateGroup(i) ==
  /\ Dispatch(i) /\ HasBranches(i) /\ EscalatesGap /\ Missing(i) # {}
  /\ result' = [status |-> "escalated", gap |-> TRUE, tok |-> 0]
  /\ pc' = "gate"
  /\ UNCHANGED <<db, cur, gapSpent, outs, spent, got, final, loop, history>>

\* Only the branches without a row are started.
BeginGroup(i) ==
  /\ Dispatch(i) /\ HasBranches(i) /\ ~(EscalatesGap /\ Missing(i) # {})
  /\ Begin(Missing(i))
  /\ pc' = "gather"
  /\ UNCHANGED <<db, cur, gapSpent, outs, spent, got, result, final, loop, lost,
                 windowGates, skipped, continued, crashes>>

(***************************************************************************)
(* Execution: outcomes arrive, rows are written.                           *)
(***************************************************************************)
StepResult(i, val) ==
  [status |-> StepStatus(i, val), gap |-> GapCandidate,
   tok |-> IF val = "error" THEN 0 ELSE Units[i].tok]

FinishStep(val) ==
  /\ pc = "exec" /\ val \in StepOutcomes(cur)
  /\ result' = StepResult(cur, val)
  /\ got' = [k \in KeysOf(cur) |-> val]
  /\ pc' = "save"
  /\ UNCHANGED <<db, cur, gapSpent, outs, spent, final, loop, history>>

SendRequest ==
  /\ pc = "asking"
  /\ Begin(KeysOf(cur))
  /\ pc' = "waiting"
  /\ UNCHANGED <<db, cur, gapSpent, outs, spent, got, result, final, loop, lost,
                 windowGates, skipped, continued, crashes>>

\* The decision, the timeout, or a channel that refuses the message: each
\* deletes the PendingApproval row, if it can, before the step's own row is
\* written.
Decide(val) ==
  /\ \/ pc = "waiting" /\ val \in StepOutcomes(cur)
     \/ pc = "asking" /\ val = "error"
  /\ approvals' \in {approvals, approvals \ {cur}}
  /\ result' = StepResult(cur, val)
  /\ got' = [k \in KeysOf(cur) |-> val]
  /\ pc' = "save"
  /\ UNCHANGED <<runStatus, rows, resumedAt, cur, gapSpent, outs, spent, final,
                 loop, history>>

SaveStep ==
  /\ pc = "save"
  /\ LET k == <<cur, 0>> IN
       /\ rows' = [rows EXCEPT ![k] = [status |-> result.status, val |-> got[k],
                                       tok |-> result.tok]]
       /\ outs' = [outs EXCEPT ![k] = got[k]]
       /\ unrecorded' = unrecorded \ {k}
  /\ got' = <<>>
  /\ pc' = "gate"
  /\ UNCHANGED <<runStatus, approvals, resumedAt, cur, gapSpent, spent, result, final,
                 loop, execs, lost, windowGates, skipped, overruns, continued, crashes>>

\* asyncio.gather over the missing branches returns all their outcomes at once.
GatherBranches ==
  /\ pc = "gather"
  /\ \E f \in [Missing(cur) -> {"hi", "lo", "error"}] :
       /\ got' = f
       /\ result' = [status |-> "none", gap |-> Missing(cur) # {},
                     tok |-> Units[cur].tok
                             * Cardinality({k \in Missing(cur) : f[k] # "error"})]
  /\ pc' = "saveBranches"
  /\ UNCHANGED <<db, cur, gapSpent, outs, spent, final, loop, history>>

\* The group's own timeout cancels every branch and no branch row is written.
GroupTimeout ==
  /\ pc = "gather" /\ Units[cur].timeout /\ Missing(cur) # {}
  /\ Units[cur].kind = "parallel"
  /\ result' = [status |-> "failed", gap |-> FALSE, tok |-> 0]
  /\ pc' = "gate"
  /\ UNCHANGED <<db, cur, gapSpent, outs, spent, got, final, loop, history>>

\* Branch rows are committed one at a time, in declaration order.
SaveBranch(k) ==
  /\ pc = "saveBranches" /\ k \in DOMAIN got
  /\ \A j \in DOMAIN got : k[2] <= j[2]
  /\ rows' = [rows EXCEPT ![k] =
       [status |-> IF got[k] = "error" THEN "failed" ELSE "completed",
        val |-> got[k],
        tok |-> IF got[k] = "error" THEN 0 ELSE Units[cur].tok + Units[cur].vtok]]
  /\ got' = [j \in DOMAIN got \ {k} |-> got[j]]
  /\ unrecorded' = unrecorded \ {k}
  /\ UNCHANGED <<runStatus, approvals, resumedAt, pc, cur, gapSpent, outs, spent,
                 result, final, loop, execs, lost, windowGates, skipped, overruns,
                 continued, crashes>>

\* _join_confidences over the full branch set against the group's threshold.
\* A join over no confidences is 0.0, below every threshold.
Passes(i) ==
  /\ KeysOf(i) # {}
  /\ CASE Units[i].join = "all_must_pass" -> \A k \in KeysOf(i) : rows[k].val = "hi"
       [] Units[i].join = "any_must_pass" -> \E k \in KeysOf(i) : rows[k].val = "hi"

GroupStatus(i) == IF Passes(i) THEN "completed" ELSE LowStatus(i)

JoinGroup ==
  /\ pc = "saveBranches" /\ DOMAIN got = {}
  /\ result' = [result EXCEPT !.status = GroupStatus(cur)]
  /\ outs' = [k \in Keys |-> IF k \in KeysOf(cur) THEN rows[k].val ELSE outs[k]]
  /\ pc' = "gate"
  /\ UNCHANGED <<db, cur, gapSpent, spent, got, final, loop, history>>

(***************************************************************************)
(* After the step: stop, continue past a failure, or check the budget.     *)
(***************************************************************************)
\* The gap is spent by the first unit looked at, interrupted or not.
SlipSpendGap == gapSpent' = TRUE
SpendGap == gapSpent' = (gapSpent \/ (GapCandidate /\ result.gap))
\* on_failure.policy is not consulted, and any bad end counts as a failure.
SlipContinues(i) == IsStep(i) /\ result.status # "completed"
Continues(i) == IsStep(i) /\ result.status = "failed" /\ Units[i].onFailure = "continue"

\* A return where the code breaks: _db_complete_run is never reached.
SlipGateStops ==
  /\ pc = "gate" /\ result.status # "completed" /\ ~Continues(cur)
  /\ SpendGap
  /\ pc' = "ended"
  /\ UNCHANGED <<db, cur, outs, spent, got, result, final, loop, history>>
GateStops ==
  /\ pc = "gate" /\ result.status # "completed" /\ ~Continues(cur)
  /\ SpendGap
  /\ final' = result.status
  /\ pc' = "notify"
  /\ UNCHANGED <<db, cur, outs, spent, got, result, loop, history>>

GateContinues ==
  /\ pc = "gate" /\ Continues(cur)
  /\ SpendGap
  /\ spent' = spent + result.tok
  /\ continued' = continued + 1
  /\ NextUnit
  /\ UNCHANGED <<db, outs, got, result, final, loop, execs, unrecorded, lost,
                 windowGates, skipped, overruns, crashes>>

GatePasses ==
  /\ pc = "gate" /\ result.status = "completed"
  /\ SpendGap
  /\ spent' = spent + result.tok
  /\ IF OverBudget(spent')
     THEN final' = "aborted" /\ pc' = "notify" /\ UNCHANGED cur
     ELSE NextUnit /\ UNCHANGED final
  /\ UNCHANGED <<db, outs, got, result, loop, history>>

Notify ==
  /\ pc = "notify"
  /\ pc' = "finish"
  /\ UNCHANGED <<db, cur, gapSpent, outs, spent, got, result, final, loop, history>>

EndOfSteps ==
  /\ pc = "head" /\ cur > Len(Units)
  /\ pc' = "finish"
  /\ UNCHANGED <<db, cur, gapSpent, outs, spent, got, result, final, loop, history>>

CompleteRun ==
  /\ pc = "finish"
  /\ runStatus' = final
  /\ pc' = "ended"
  /\ UNCHANGED <<rows, approvals, resumedAt, cur, gapSpent, outs, spent, got, result,
                 final, loop, history>>

(***************************************************************************)
(* Failure and recovery.                                                   *)
(***************************************************************************)
Terminating(i) ==
  /\ IsStep(i) /\ rows[<<i, 0>>].status \in Statuses \ {"completed"}
  /\ ~(rows[<<i, 0>>].status = "failed" /\ Units[i].onFailure = "continue")

\* Rows of a stopped run that is still 'running' when its task goes away.
RecordLoss ==
  /\ windowGates' = windowGates \cup {i \in Ids : Terminating(i)}
  /\ lost' = [k \in Keys |-> IF k \in unrecorded THEN lost[k] + 1 ELSE lost[k]]

\* An exception out of the loop ends the task; main._run_pipeline only logs it.
TaskRaises ==
  /\ pc \in {"load", "save", "saveBranches", "notify", "finish"}
  /\ pc' = "dead"
  /\ UNCHANGED <<db, cur, gapSpent, outs, spent, got, result, final, loop, history>>

ForgetMemory ==
  /\ pc' = "down" /\ cur' = 1 /\ resuming' = FALSE /\ gapSpent' = FALSE
  /\ loaded' = {} /\ armed' = {} /\ outs' = [k \in Keys |-> "none"]
  /\ spent' = 0 /\ got' = <<>> /\ result' = NoResult /\ final' = "completed"
  /\ crashes' = crashes + 1 /\ unrecorded' = {}
  /\ RecordLoss
  /\ UNCHANGED <<execs, skipped, overruns, continued>>

ProcessUp == pc \notin {"down", "ended"} /\ crashes < MaxCrashes

Crash ==
  /\ ProcessUp
  /\ ForgetMemory
  /\ UNCHANGED db

\* A stop that cancels the run's task while it waits for a human: the finally
\* of request_decision deletes the PendingApproval row on the way out.
StopWhileWaiting ==
  /\ ProcessUp /\ pc \in {"asking", "waiting"}
  /\ ForgetMemory
  /\ approvals' \in {approvals, approvals \ {cur}}
  /\ UNCHANGED <<runStatus, rows, resumedAt>>

\* The startup sweep resumes the run ...
SweepResumes ==
  /\ pc = "down"
  /\ pc' = "load"
  /\ UNCHANGED <<db, cur, gapSpent, outs, spent, got, result, final, loop, history>>

\* ... or marks it interrupted: config changed, too old, unreadable context.
SweepInterrupts ==
  /\ pc = "down"
  /\ runStatus' = "interrupted"
  /\ pc' = "ended"
  /\ UNCHANGED <<rows, approvals, resumedAt, cur, gapSpent, outs, spent, got, result,
                 final, loop, history>>

\* Only completed rows count as done.
SlipLoadedKeys == {k \in Keys : rows[k].status = "completed"}
LoadedKeys == Persisted

\* The outputs of completed rows only; no outputs at all.
SlipLoadedOutputs ==
  [k \in Keys |-> IF rows[k].status = "completed" THEN rows[k].val ELSE "none"]
SlipNoOutputs == [k \in Keys |-> "none"]
LoadedOutputs == [k \in Keys |-> rows[k].val]

\* A fresh budget, as a manual rerun gets.
SlipFreshBudget == 0
LoadedTokens == Tokens(Keys)

LoadRun ==
  /\ pc = "load"
  /\ loaded' = LoadedKeys /\ armed' = approvals
  /\ outs' = LoadedOutputs
  /\ spent' = LoadedTokens
  /\ resuming' = TRUE /\ resumedAt' = TRUE
  /\ pc' = "head"
  /\ UNCHANGED <<runStatus, rows, approvals, cur, gapSpent, got, result, final, history>>

StepLoop ==
  \/ \E i \in Ids :
       \/ SkipPersisted(i) \/ SkipWhen(i) \/ BeginStep(i) \/ BeginHuman(i)
       \/ RearmHuman(i) \/ EscalateStep(i) \/ ResolveFanOut(i)
       \/ EscalateGroup(i) \/ BeginGroup(i)
  \/ \E val \in Vals : FinishStep(val) \/ Decide(val)
  \/ \E k \in Keys : SaveBranch(k)
  \/ SendRequest \/ SaveStep \/ GatherBranches \/ GroupTimeout \/ JoinGroup
  \/ GateStops \/ GateContinues \/ GatePasses \/ Notify \/ EndOfSteps
  \/ CompleteRun \/ LoadRun

Recovery == SweepResumes \/ SweepInterrupts

Next ==
  /\ StepLoop \/ Recovery \/ TaskRaises \/ Crash \/ StopWhileWaiting
  /\ UNCHANGED pipeline

\* The event loop runs the task, executors return or time out, and the service
\* manager restarts the process; nothing makes a crash or an exception happen.
Fairness ==
  /\ WF_vars(StepLoop /\ UNCHANGED pipeline)
  /\ WF_vars(Recovery /\ UNCHANGED pipeline)

Spec == Init /\ [][Next]_vars /\ Fairness

(***************************************************************************)
(* Properties.                                                             *)
(***************************************************************************)

\* A step or branch whose row is in the database is never executed again and
\* its row never changes, in this process or after any number of restarts
\* (_reconstruct_resume_state; "a resumed run never re-fires a side-effecting
\* branch that completed pre-crash").
RecordedNeverRepeated ==
  [][\A k \in Persisted : rows'[k] = rows[k] /\ execs'[k] = execs[k]]_vars

\* Work is repeated only when a process death caught it started and unrecorded.
OnlyUnrecordedRepeats == \A k \in Keys : execs[k] <= 1 + lost[k]

\* Under on_interrupted=escalate nothing is ever executed twice, whatever the
\* number and the place of the crashes.
EscalateMeansOnce == OnInterrupted = "escalate" => \A k \in Keys : execs[k] <= 1

\* A step that decided to end the run is overtaken only if the process died
\* between writing its row and closing the run.
GatePassedOnlyByWindowCrash ==
  \A i \in Ids, k \in Keys :
    i < k[1] /\ Terminating(i) /\ (execs[k] > 0 \/ rows[k] # NoRow)
      => i \in windowGates

\* A completed run has an account of every unit: a false when:, or all its rows;
\* and these let it go on, but for a crash in the window above.  A group passed its
\* gate, also when branches were loaded after a restart and it was evaluated again.
CompletedAccountsForAll ==
  runStatus = "completed" =>
    \A i \in Ids \ skipped :
      /\ KeysOf(i) \subseteq Persisted
      /\ Terminating(i) => i \in windowGates
      /\ HasBranches(i) => Passes(i) \/ Units[i].onLow = "proceed"

\* A step skipped by when: in one life of the run is not executed in another.
SkipIsStable == \A i \in skipped : \A k \in KeysOf(i) : execs[k] = 0

\* Each crash, and each failure continued past, lets at most one more unit start
\* after the budget is exceeded by the recorded tokens, but for those of the
\* branches' verifiers: these a life that wrote them itself never counts.
OverrunBounded == overruns <= crashes + continued

\* Whenever the next unit is about to be looked at, the step outputs in memory
\* are those in the database, so prompts and when: see the same after a resume.
ContextMatchesRows ==
  pc = "head" => \A k \in Keys : outs[k] = rows[k].val

\* With finitely many crashes the run is closed, unless an exception left the
\* loop: then the row stays 'running' until the next restart.
ClosedOrRaised == []<>(runStatus # "running" \/ pc = "dead")

\* What a durable run promises, whatever the crashes: a ledger of rows that is
\* only appended to, in the order of the units, and closed once.
Ledger == INSTANCE RunLedger
          WITH Closed <- Statuses \cup {"interrupted"},
               status <- runStatus, ledger <- rows

\* The run implements that ledger: every row _db_save_step and _db_save_branch
\* write, and every status, is a step the ledger allows.
ImplementsLedger == Ledger!Spec
=============================================================================
