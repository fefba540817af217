# A TLA+ verification of VectorStep

VectorStep receives alerts and webhooks, resolves a YAML pipeline and executes its steps (language
models, humans, webhooks, sub-pipelines); every step passes a gate on the trust it earned. It is one
asyncio process beside a SQL database. What is hard about it is what happens between its awaits:
duplicate deliveries racing for one insert, a crash anywhere in a run that must not repeat its side
effects, a human whose click races two timers or waits at Telegram while the process is down, an agent that
goes on working after its socket was cut, and a trust score that several signals may only lower.

The modules here model those parts, TLC checks them on small instances, and TLAPS proves the most
important facts for every value of the constants. Paths are relative to `service/src/`.

## 1. The system

| Component | State it keeps | Operations | What makes it correct |
|---|---|---|---|
| **Admission** (`main.py`) | `_active_runs`; the `pipeline_runs` rows and their unique partial index | webhook, run now, rerun, scheduled firing, end of a task, startup sweep | one execution per alert of a pipeline that deduplicates; the counter means the number of live runs; every row is closed |
| **Durable run** (`pipeline/runner.py`, `db/database.py`) | in memory: outputs, accumulators, position; in the database: one row per step and branch, the run's status, pending approvals | the step loop, parallel groups, fan-outs, human steps, gate, budget, crash, sweep, resume, rerun from a step | nothing recorded is repeated; gates are not passed; context and budget survive a crash; the run is closed |
| **Step gate** (`pipeline/runner.py` `_run_step_impl`) | the step's answer, verdict, trust | attempts, refinement loop, verifier, calibration, grounding, checks, gate | the weakest enforced signal decides; a verifier only lowers; it ends |
| **Human approval** (`executors/human.py`) | `_pending_approvals` (futures), `_pending_meta`, `PendingApproval` rows | ask, send, wait, decide, time out, cancel, retry, re-arm | answered only by a human; a decision is not lost; every ask ends |
| **Listeners** (`notifications/*_poller.py`, `ui/approvals.py`) | the update offset; a socket; what the channel still holds | fetch, acknowledge, resolve, start a pipeline on `/run` | a click acts as it was meant, once; none is dropped while its ask is open |
| **Sub-pipelines** (`executors/pipeline.py`) | a child run beside the parent's step | spawn, await, map the child's outcome to an output, time out, retry, resume both | the parent's gate judges what the child completed last; no child is left at work |
| **Agent calls** (`executors/gateway.py`, `openclaw_ws.py`) | one socket per call; conversations at the server | connect, authenticate, request, await frames, give up, retry | the answer is the one to this request; conversations stay in their run; a bounded call ends |
| **Live tail** (`run_events.py`, `ui/runs.py`) | history and subscriber queues per run | subscribe, publish, complete, stream | each stream sees every event once, in order, and ends |
| **Configuration** (`config_writer.py`, `pipeline/loader.py`, `resolver.py`, `main.py`) | YAML files; library, pipelines, jobs, the runner's registry, the pages' copy | write, delete, reload, hand edit, start, look up | what is served is what is stored; an accepted write takes effect; the service can start again |
| **Evidence** (`pipeline/calibration.py`, `readiness.py`, `versioning.py`) | stored rows and marks; buckets in a cache; version rows | run, mark, edit, redeploy, promote, look up, ask for readiness | readiness goes by all of a step's evidence, as the step now stands, and by no other; buckets are fresh and production's |
| **Replay** (`replay.py`) | a batch run, its descriptor, its sample rows | select, call, store, finalise, report, crash | a completed batch accounts for every sample |
| Normalisers, context, notifiers, analytics, metrics, pricing, tracing, UI, artifacts | none that coordinates | | |

How they interact: a listener, the UI or a webhook calls into the process; `_trigger_run` admits a
delivery and starts a task; the task inserts its row and runs the step loop over the definition that
was served at that moment; each step goes through the step gate, where a human step goes through
`request_decision`, an agent step through a socket and a sub-pipeline step through a run of its own.
The rows the loop writes are what a resume, calibration, readiness, replay and the UI read. After a
crash the startup sweep reads them and hands the resumable runs back to the loop. Components share the
event loop, module-level dictionaries and counters, and the database; none holds a lock.

## 2. Modules

| Module | Role |
|---|---|
| `RunLedger` | abstract: the rows of a run are a ledger, appended in order and closed once |
| `DurableRun`, `MCDurableRun`, `DurableRun_proofs` | one run, its crashes, sweeps and resumes; implements `RunLedger`; proofs |
| `Rerun`, `MCRerun` | a `DurableRun` that is to start at a later step; proof in `DurableRun_proofs` |
| `Admission`, `MCAdmission`, `Admission_proofs` | how runs come to execute; proofs |
| `Approval` | abstract: an ask is settled once, by a human's word or as failed |
| `HumanApproval`, `HumanApproval_proofs` | the asks in detail; implements `Approval`; proofs |
| `Listeners`, `MCHumanApproval` | channels and listeners composed with the asks; proofs in `HumanApproval_proofs` |
| `StepGate`, `MCStepGate`, `StepGate_proofs` | one sequential step; proofs |
| `AgentCall`, `MCAgentCall`, `AgentCall_proofs` | calls to agents over their sockets, with the server; proofs |
| `SubPipeline`, `MCSubPipeline`, `SubPipeline_proofs` | a parent's step and its child runs; proofs |
| `LiveTail`, `LiveTail_proofs` | the event bus of a run and the streams that follow it; proofs |
| `ConfigStore` | files, memory, and what writes and loads them; checked by `MCPromotion`, proofs in `Promotion_proofs` |
| `Calibration` | labels, bins, buckets as pure operators |
| `Readiness` | criteria and tiers as pure operators over rows |
| `Promotion` | what changes and reads those rows: runs, marks, edits, the cache |
| `Replay`, `MCPromotion`, `Promotion_proofs` | `Promotion` with a replay batch beside it; the instance, with `ConfigStore`; proofs about all five |

Composition. `Listeners` EXTENDS `HumanApproval` and conjoins its actions with the channel's, so a
click ends in the very `ResolveApproval` the asks are proved about. `Rerun` adds one action to
`DurableRun`. `Replay` EXTENDS `Promotion`, which EXTENDS `Readiness`, which EXTENDS `Calibration`: a
replay batch, live runs, marks and the cache act on one set of rows. `MCPromotion` puts `ConfigStore` beside
them in one instance: neither touches the other's variables, so a set-up explores one of the two. The other modules are checked
apart, each taking everything its neighbours can do: `DurableRun` takes one nondeterministic outcome
where `StepGate` computes it, `StepGate` any answer or failure where `AgentCall`, `SubPipeline` and
`HumanApproval` produce one and any curve where `Calibration` makes one, and a run starts with the row
that `Admission` inserts.

A definition named `Slip...` is not part of a model: it is a plausible mistake in the definition that
follows it, and a property is kept only if such a mistake breaks it.

### DurableRun

`pc` is the await at which the run's task is suspended, `cur` the index of `for index, step in
enumerate(pipeline.steps)`. `rows` is the `pipeline_steps` table of the run, one key `<<i, 0>>` for a
plain or human step and `<<i, b>>` for a branch; `outs` is `step_outputs`, `spent`
`accumulated_tokens`, `loaded`, `armed` and `gapSpent` are `plain_persisted_names` with
`persisted_branches`, `pending_by_step` and `resume_gap_handled`. `Dispatch(i)` and the actions that
use it are the branches of the loop's body in their order: skip a recorded plain step, skip on
`when:`, re-arm, escalate the gap, execute. `SaveStep` and `SaveBranch` are the commits, one row
each; `GateStops`, `GateContinues` and `GatePasses` the three ways out of a step, `Notify` the
notification awaited before `CompleteRun`. `Crash` is possible at every point and takes the memory;
`StopWhileWaiting` is the shutdown that cancels tasks, so that `request_decision`'s `finally` may
delete its row; `TaskRaises` is an exception that leaves the loop (a notifier, a database error, a
failure between the executor and the row), which `main._run_pipeline` logs and forgets.
`SweepResumes` and `SweepInterrupts` are the two outcomes of the sweep; which one is taken depends on
the configuration and the clock and is left open. A database error while a pending approval is saved
or deleted is swallowed, so both may fail to happen.

The data is what the gates distinguish: a unit's outcome is trusted ("hi"), below the threshold
("lo"), `proceed: false` ("halt") or an error. The history variables count executions (`execs`),
crashes that caught a unit in flight (`lost`) and crashes in the save-to-complete window
(`windowGates`).

### Rerun

`from` and `given` are `from_step` and `initial_step_outputs`. The loop's `continue`s up to the step
are one action (`SkipToStep`), as nothing is awaited between the insert of the row and the step;
everything else is `DurableRun`'s. What matters is what is missing: neither variable is stored for the
sweep to find.

### Admission

One action per await of `_trigger_run`: `ArriveChecked`, `FindDuplicate`, `AnswerDelivery`; the cap
check, the increment and `create_task` are one step (`AcceptOrRefuse`), as no await separates them.
`InsertRow` is `_db_create_run` under the unique partial index, `EndTask` the `finally` of
`_run_pipeline`, `Fire` the scheduler's direct call. A rerun and a "Run now" without fingerprint
arrive as `ArriveUnchecked`. A key is a (pipeline, fingerprint) pair; `OptOut` are those of pipelines with
`trigger.dedup.enabled: false`, for which only the pre-check is left out: `InsertRow` stores their
fingerprint too, and the index refuses a second running row.

### HumanApproval

`pc` follows `request_decision` through its awaits; `fut` is `_pending_approvals`, `saved` the
`PendingApproval` table, `timer` the state of the two timers. A wait is
`wait_for(shield(future), t)` inside the step's own `wait_for(..., t)`: the outer timer is armed
first with the same length, therefore fires first, and cancels the call (`OuterFires`); a result
crosses the shield one turn of the event loop after the future is set (`Propagate`), and only then
survives a cancellation. `Crash(gone)` is a death (`gone` empty) or a shutdown whose `finally`
clauses removed the rows in `gone`. Each ask belongs to a run of its own, and asks share nothing but
the process, so one asker in each configuration is the whole of their behaviour.

### Listeners

`log` is what people did, in order; the channel holds the updates not in `gone`. For Telegram
`Poll` is one `getUpdates`: it confirms what is below `offset`, and its answer may be lost (`inHand'`
stays empty). `offset` advances when an update is taken in hand, lives in memory, and begins at 1
again after `Die`, so what was handled and not yet confirmed comes twice. For Slack an envelope
leaves the channel when it is received, or when the acknowledgement went out and the socket failed
(`AckFails`). `HandleClick` is the decision that `resolve_approval` accepts, `HandleStale` the one it
refuses, of which the code only writes a debug line; `HandleCommand` posts to the webhook. A click may
come from a message whose sending the process believes to have failed (`Delivered`). After a
restart the listeners run before the resumed asks have registered their tokens: no action orders
`Poll` after `Rearm`.

### StepGate

`primary`, `verdict`, `effective`, `trust` are `primary_output.confidence`, the verifier's score,
`effective_confidence` and `combined_trust`. Scores are integers on a scale; an agent's score is
whatever float its JSON held, so it ranges below 0, above 1 and over NaN, with Python's comparison
and `min`. `curve` is any calibration bucket, validated bin by bin or not.

Facts the model made explicit, none of them contradicted by a comment: a trust that is NaN passes
every threshold; a failed check sets the trust to 0, which raises one that was negative and stops
nothing at a threshold of 0; and a calibration curve need not be monotone, so although a verifier
never raises the effective confidence, a lower verdict can end in a higher trust.

### AgentCall

`pc` is the frame the executor waits for: the challenge, the answer to `connect`, the result.
`inbox` is the one frame the socket has delivered; the server's actions put one there, `ReadPast`,
`Challenged`, `Connected`, `Answered` and `Rejected` are what either executor does with it. `TimesOut`
is the timer around the whole call: always there in the gateway executor, in the other only with the
step's `timeout_seconds`, and never there for a verifier, whose step `_run_verifier_impl` builds without
one and awaits bare (`StepTimer`). `GoesQuiet` is openclaw's timer per `recv`, `Drops` the network. `Retry` is the
attempt loop of the runner. The server is external, modelled from what the code assumes of it:
a conversation per session key, work that goes on when a socket closes, frames with other ids in
between. `Key` is what the session key templates render to.

### SubPipeline

A child run is a record of its row, the row of each of its steps, and of its task: the await it is in,
the step it is at, `result.status` and `result.final_output`; children are numbered as they are started.
`Advanced` is what one await of the child commits, `AfterStep` where its loop goes next: on after a step
that completed within the budget (`OverBudget`) or that failed under `on_failure.policy: continue`, else
out of the loop, as completed with `proceed: false` ("halt", the run is stopped), aborted or escalated by its
gate ("low"), failed ("broken") or over the budget. `ChildPasses` is a step that a resume finds recorded,
whatever its outcome, or whose `when:` is false. `Answer` is what `PipelineExecutor` makes of a finished
child, `GateOf` what the parent's gate makes of that; a `proceed: false` in the answer stops the parent too.
`TimesOut` cancels the child's coroutine inside the parent's `wait_for`: at an await whose commit may
or may not have happened (`Cancelled`), and with nothing to close its row. `Crash` and `Restart` end
and resume parent and children each by its own configuration.

### ConfigStore

A file is a number in the loader's reading order; `FileOf[n]` is `<n>.yaml`, the file a write
about `n` touches, and an operator may keep `n` in any other. `library`, `served`, `jobs`, `registry`
and `shown` are the five places `_do_reload` assigns in this order; `LibraryFails`, `PipelinesFail` and
`ConfigFails` are the exceptions between them, `Loads` the whole. A write checks the candidate
directory, replaces the file and reloads, all without an await, so it is one step, which a death can
cut after the file (`Ends`). `byHand` is true while an operator's edit has not been loaded completely,
`torn` once a reload has stopped half-way. A schedule's cron is any string: one that does not parse makes
`_register_schedules` log an error and leave its pipeline without a job (`ScheduledIn`), and neither the
write nor the reload fails.

### Calibration, Readiness, Promotion

A row carries what the queries join to it: pipeline, stage, prompt, agent version, score, check, marks.
`Label` is the precedence of marks, `InBin` and `LookupBin` the two ways a score meets a bin,
`TierVerdict` the four tiers. `Promotion` has the steps that make rows and make them stale: `Begin`
captures the configuration a run has taken, `Finish` stores its rows with it (those of a group in one
step; a branch that failed has no agent version), however much `EditPrompt`,
`Promote` and `Redeploy` did in between. `LookUpExpired`, `Scan`, `Store` are the two awaits of a lookup
that finds the cache expired; several may be under way. Scores are integers of which `Scale` is 1.0.

### Replay

`Launch` selects the `K` latest labelled production rows of the current bucket; `tasks` says what each
sample's task is doing, `Slots` of them at once. `memory` is the descriptor the tasks fill in and
`batch.stored` what `Finalise` wrote of it, so `Restart` leaves a batch whose report knows nothing of
what it stored. Any of a sample's steps may fail. `ReportRow` is the report's join.

### LiveTail

`sent` is what a run has published in this life (a history variable), `history` and `registered` the
two dictionaries of the bus, and `stage` follows the run only as far as the bus and the row can tell:
`CloseRow` and `Complete` are the commit of `_db_complete_run` and the `publish_complete` after it,
between which a tail may come. A tail's `Subscribe` registers its queue and copies the history in one
step, `ReadFinished` and `ReadRunning` are the read of the row that follows, `Receive` takes one event
or the sentinel from the queue. A run knows three origins because only some are reported to the bus:
`Raise` sends the sentinel only for a run whose id `_run_pipeline` was given, and a replay batch is
closed by `FinaliseBatch` without one.

## 3. Runs

| Run | Instance | Shows |
|---|---|---|
| `durable_run` | five pipelines of two to four units, two crashes; 62 018 states | the nine properties below |
| `rerun_claim` | two pipelines, a rerun from any step, one crash | *violated:* "without re-executing those steps" |
| `admission` | two deliveries, one firing, two keys (one opted out), cap 1, one crash; 258 000 states | the four properties below |
| `opt_out_claim` | the same with cap 2 and without a crash | *violated:* every alert of an opted-out pipeline gets its own run |
| `admission_cap_claim` | the same with cap 1 and without a crash | *violated:* `max_runs` is the maximum of simultaneous executions |
| `human_approval` | one ask decided in the UI in 10 configurations (two attempts, two crashes) or over Telegram or Slack (two updates, one crash); 750 000 states | the six properties below |
| `step_gate` | scale 2, answers -1..3 and NaN, all curves; 318 000 states | the four properties below |
| `live_tail` | one run of each kind, two tails, three events, one crash; 97 000 states | the four properties below |
| `agent_call` | two calls, the first retried, both executors, all templates, with and without a timer; 419 000 states | the three properties below |
| `sub_pipeline` | a child of two steps, up to three child runs, two crashes; 1.5 million states | the four properties below |
| `promotion` | eighteen set-ups of one step with two or three runs and up to two changes, and one of two names in three files with two hand edits and one death; 2.0 million states | the six properties below |
| `replay_mark_claim` | the same, one batch of two samples | *violated:* a candidate is unmarked "until a human marks it" |

**durable_run.** `OnlyUnrecordedRepeats`: what is executed again was in flight at a crash.
`EscalateMeansOnce`: nothing is executed twice under `on_interrupted: escalate`.
`GatePassedOnlyByWindowCrash`: a step that ended the run is overtaken only if the process died between
its row and the closing of the run. `CompletedAccountsForAll`: a completed run accounts for every unit,
and its groups passed their gates over all their branches, also those loaded. `SkipIsStable`: what
`when:` skipped once is skipped after every restart. `ContextMatchesRows`: outputs in memory are those
recorded. `OverrunBounded`: each crash or continued failure lets one more unit start beyond the budget
at most; what the recorded rows hold is counted as the loop counts it, without the verifiers of a group's
branches (section 5). `ClosedOrRaised`: the run is closed, or an exception left it 'running'. `ImplementsLedger`:
the rows are a ledger.

**admission.** `OneExecutionPerKey`: two runs of one alert never execute at once where the pipeline
deduplicates. (Where it opted out the index still refuses the second run, contrary to what is promised:
`opt_out_claim`.) `CapHolds`: the counter exceeds `max_runs` only by what was resumed. Under fairness,
`RowsGetClosed` and `AcceptedEnds`.

**human_approval.** `ListedIffAwaited`: the approvals page lists an ask exactly while its call can act
on a decision, but for what a step's timer may leave behind when it cancels a call before its try block. `DecisionLostOnlyByFailure`: what a human was told is decided is the answer, unless a
timer, a failed send or a crash intervened. `UpdatesActOnce`: a click on the button of an ask that is
still waiting was lost only if it was handled while, after a crash, that ask was not open; and a
`/run` command is posted once per life of the process. `UpdatesGetHandled`: every update is handled in
the end, but for what Slack was told of as received. `ImplementsApproval`; `EveryAskEnds`.

**step_gate.** `WeakestLink`, `DownwardOnly`, `VerdictIsOfThisAnswer`, `StepEnds`.

**live_tail.** `TailShowsAll`: what was shown and what is queued is what was published, each event once
and in order. `CompleteShowsLog`: a tail that was told the end has shown the stored log, by whichever
way it came to it. `NothingLeftBehind`: queues and histories are freed. `TailCloses`: streams end, save
those of batches and of runs that raised unheard.

**agent_call.** `SessionsStayInRun`: an agent finds turns of its own run only in its conversation.
`SecondAgentOnlyWhenCut`: two agents work on one step only after a timer, the network or a frame of no
known status took the first one's socket. `CallEnds`: a call ends, whatever the server sends, if a timer bounds it and
the call it waits for: the gateway executor's own, or the step's, which a verifier's call does not have.
An openclaw verifier that is sent frames for ever never ends, nor does its step, whatever `timeout_seconds`
says: that is what the property excludes, and section 5 which comment says otherwise.

**sub_pipeline.** `OrphansAreExplained`: a child nobody waits for is at work only because a restart
resumed it, and a child's row is 'running' only while its task runs or after it was cancelled or raised in
this process. `TwoAtWorkOnlyIfBothResume`: two children do the same work only after a crash that both
runs survive. `PassNeedsACompletedStep`: what passes the parent's gate is the last step the child completed,
be the child then aborted by its gate or its budget, and never an earlier one; a child that completed no
step passes only if its run is completed and no step of it has a row, or, under `on_failure: continue`, if
each that has one failed. That last case is in the property because it is in the code, and contradicts the
comment at `executors/pipeline.py:105` (section 5). `ParentEnds`.

**promotion.** `ReadyIsEarned`: each tier the owner asked for is met by all that it is to go by. For the
operational tier that is enough runs, young enough, whose every branch has an acceptable status; for
confidence and accuracy the mean over all scores and labels of the step, and enough of them; for
calibration that of the step's own labelled scores and, unless `require_own_evidence`, of production's of the identical
configuration, whichever pipeline's, some bin holds enough and none that does diverges. "All" is each row of
the step in the pipeline's present stage and, where `require_current_config` says so, of the step as it
stands: its present prompt and the agent version that the last run to report one had. The property is
written over the stored rows, from what is said of the criteria, and not with the filters of
`readiness.py`; it has one exception, a branch that failed (section 5). `LookupIsSound`: the buckets a gate
uses are at most one TTL old when it asked, and of production rows only. `SnapshotsAreHonest`: an agent
definition is stored under its own version. `EverySampleAccounted`: in a completed batch every sample was
stored once and is reported, or is listed as not replayable.

`ServedIsStored`: unless an operator's edit is waiting to be loaded, the directories load and the five copies
in memory are of one load of exactly what is stored, with a job for each schedule whose cron parses. With
such an edit, a reload can stop half-way; until one does the copies are of one load still, and after it the
jobs are of what is served and the pages show what sub-pipelines find. `WritesTakeEffect`: an accepted write
is what the next runs get, but where another file claims the name or the conditions.

*Bounds.* Two crashes are the least with a crash during a resume, and a third adds no new
combination: a resume reads only the database, which two crashes have brought into every shape a
run of four units has. The five pipelines hold every kind of unit, a group before and after a plain
step, a fan-out that resolves to items, nothing and an error, both joins, all three low-confidence
policies, both failure policies, a budget that runs out in the middle and `when:` on a plain and on
a group unit. Two deliveries and a firing are enough for each pair of actors that races, a cap of
one for the limit. One run is enough for the bus, whose entries are per run; two tails, for one that
unsubscribes while another is told. Two attempts hold a retry after each way an attempt can fail.
Two updates hold a second click on one ask, a click and a command, and an update behind another in a
fetch that is repeated. A child of two steps holds a pass followed by a failure or a failure that
continues, a skipped step on either side of both, and a gap before and after a row; three child runs, a
second beside a resumed first and a third after either. What a child's steps may come to is explored in full
where nothing is resumed, and in part where it is (`MCConfs`). Two calls hold
every pair that can share a key. Of three files two are the service's and one, read first, is the
operator's, so that either of two names can be claimed twice. In `promotion` the set-ups are grouped by
what they exercise (tiers fed by marks, calibration with another pipeline's evidence, enforced gates, a
batch), each with the least number of runs that fills its thresholds and one more, and with changes to
make some of it stale. The deadlock check is off only where the system may stop (a run has ended,
no delivery comes).

*Fairness.* Weak fairness on the steps of a task and of a handler: the event loop runs what is ready,
executors return or time out, and `asyncio` timers fire; on the startup sweep: the service manager
(`Restart=on-failure`, `deploy/systemd/vectorstep.service:15`) restarts the process. Strong fairness
on a poll that is answered: `getUpdates` is retried for ever, and a network that loses every answer is
not a failure the poller can meet. Nothing is assumed of crashes, deliveries, humans, scheduled
firings, hand edits, exceptions, or of the server an agent call talks to. An executor without
`timeout_seconds` that never returns is outside this assumption; in `AgentCall`, where the server may
stay silent or talk for ever, `CallEnds` is about calls that a timer bounds.

## 4. Proofs

`tlapm` checks every theorem for all values of the constants: any set of pipelines of the shape
`Pipeline`, any finite sets of deliveries and firings, any number of crashes. The assumptions are the
named `ASSUME`s of the modules (a `when:` names an earlier plain or human step, a fan-out over an
empty list has no branches; sets are finite and disjoint; bounds are naturals).

**DurableRun.** `IInv == TypeOK /\ Control /\ LoadedRows /\ InFlight /\ InOrder /\ Behind /\
GateSettled /\ Context`. The properties are not inductive: that a recorded step is not executed again
depends on `loaded` holding every row of the units ahead (`LoadedRows`), on the unit in flight having
no row where one is expected (`InFlight`), on rows existing in order only up to the current unit
(`InOrder`) and on the units behind being either recorded or skipped for a reason that a resume will
see again (`Behind`); `Control` ties each `pc` to what is in the hands of the task, `GateSettled` says
what has been written when the gate is reached, and `Context` is `ContextMatchesRows` at every point
where the outputs are used. `Invariance` is the induction, one lemma per group of conjuncts and, for
the actions that write, per action. From it follow `TypeCorrect`, `ContextSurvives`, `NeverRepeated`
(an action property: only a missing key is started, only a started key is written), `Implements` (the
refinement of `RunLedger`: initial states map to initial states, `SaveStep` and `SaveBranch` to
`Record`, `CompleteRun` and `SweepInterrupts` to `Close`, all else to stutters) and
`RepeatsOnlyUnrecorded`, which needs the second invariant that what is started and unrecorded is
what `unrecorded` holds (`Pending`) and the count `execs[k] <= lost[k] + (1 if started)` (`Counts`).

Three more invariants are built on `IInv`. `Judged`: a unit was skipped, or started, when all units
before it were settled, and since only an unsettled unit's rows are ever written, what its `when:` was
judged by stands (`JudgementStands`): `SkippedStaysSkipped`. `Once`: a resume starts nothing until it
has found the gap, and the gap is an unsettled unit, so by `Judged` nothing behind it was ever started
(`UnsettledAhead`): `EscalatedNotRepeated`. `Gates`: of the steps with a row that ends the run all are
excused by a crash, except the one at the gate, whose row has the status the gate looks at; what is
behind the loop is accounted for; and `final` is "completed" until a gate stops the run:
`CompletedIsAccounted`, and with `Judged` (nothing is started behind the row being written)
`GatesAreKept`.

`BudgetIsKept` (`OverrunBounded`) has a fourth, `Budget`: from the start of a unit to its gate the loop has
counted at least what the rows hold (`CountedTokens <= spent`), with what the unit in hand and the branches
not yet written (`Owed`) will add; and where the next unit may be started with the budget exceeded, there
is a crash or a failure continued past for which none has been started yet. So each of these pays for one
unit. The proof is about the sum of a function over any finite set of rows, see below.

Of `Rerun`, `RerunInv`: until the first crash the loop either has `from` ahead of it or is at or past it, and
every step of `DurableRun` executes only keys of the unit the loop is at, which never moves back
(`LoopMovesOn`): `UncutRerunsStartLate`. With a crash the same formula is what `rerun_claim` refutes.

**Admission.** `TypeCorrect`; `RowsMatch` and `NoConcurrentDuplicates` from `RowInv` (a task that
executes has a running row, and running rows of one key are one); `CounterMeans` from an invariant
over the cardinality of the counted live tasks, with a lemma on adding and removing one task; and
`CapOnCounter`.

**HumanApproval.** `Typed` adds to the types that a task inside the call holds a token it has drawn;
`ListInv` that a step's timer fires only where there is one (`TimersMatch`), that nothing is
registered while the process is down and that a call under way is listed. They give
`ListedAreAwaited` and `AwaitedAreListed`. `AnswerInv` adds that a future's decision was confirmed to a
human and that an answer in hand was given by one, or by the testing timeout (`AnswerIsGiven`): what the
refinement of `Approval` needs when a call ends (`Implements`). `KeepInv` follows a call through its
first life, where a confirmed decision is in the future until it is the answer (`DecisionsAreKept`).

**StepGate.** `TypeCorrect` holds because `PyMin`, `Clamp`, `Combine` and `Lookup` are closed on scores,
NaN included (four lemmas). `DownInv` adds that an answer without a verdict is its own effective
confidence, and gives `VerifierOnlyLowers` and `VerdictIsFresh`. `GateInv` says of each stage after
calibration what the trust has been lowered below so far, in the order in which the code folds the
signals in; at the gate it is `WeakestLinkDecides`, for every curve, threshold and score.

**Listeners** (in `HumanApproval_proofs`). `ListenersRefineAsks`: every step of the composition is a step of `HumanApproval` or
leaves the asks alone, so what is proved of the asks holds behind the listeners; `ListIsAccurate`
(`ListedIffAwaited`), `MailedDecisionsAreKept` and `MailedAsksImplement` are obtained that way.
`CommandsStartOncePerLife` has an invariant of its own (`MailInv`): nothing in hand is below the offset,
and a command has been posted at most `crashes` times, once more if it is below the offset; so a post
moves its command below the offset, and only a crash, which resets it, makes room for another.
`UpdatesActAsMeant` (`UpdatesActOnce`) adds the clicks, with `ClickInv`: a click is dropped only if its token
was drawn and is not listed, so its call was not open, and in the first life of the process a token that was
drawn and is no longer listed is not listed again (`NotListedAgain`); so a call that waits behind a dropped
click is in a later life.

**Calibration** (in `Promotion_proofs`). The bins are a partition of the scores from 0 to 1.0, for every width that divides
1.0: `CountedOnce` (no score is in two bins) from `BinsAreOrdered`, and `JudgedWhereCounted` (a score in
range is looked up in the bin that counts it, 1.0 included) with `LastBinEndsAtScale`. Both readings of a
bin are in the source, half-open with an exception for the last in one place and a fallback in the
other.

**ConfigStore** (in `Promotion_proofs`). `StoredIsServed`. `ServedIsStored` is inductive: a written pipeline is checked against
the library in memory, which is the stored one as long as what is served is what is stored
(`WrittenPipelineLoads`), a changed or deleted library step against a candidate directory, and files
that load one by one still do when one goes (`FewerPipelinesLoad`). So each call leaves directories that
load behind, and then a reload is complete, or the process is dead and its start will be
(`CallStores`). That the copies are of one load for as long as no reload has stopped half-way holds of
every way a reload can end (`LoadsAll`, `HalfReload`), with the fact that what is served takes its templates
from the library it was loaded with (`TakenFromLibrary`).
`WritesAreTaken` (`WritesTakeEffect`) looks into it as far as the lookups: the files of a directory are
finite, so of those that name a pipeline, or whose conditions hold, one is read first and one last
(`LastExists`); a file that was just written is either that one or comes behind or before it
(`OnlyFirst`, `OnlyLast`), and what was loaded of it is what was resolved against the library.

**SubPipeline.** `IInv`: what is true of every child's record at every await (`Sound`): where the loop is, and,
of a run in its first life, that what it has in memory is what its rows say (`Faithful`): the output is that
of the last completed step, there is none if no step completed, and while the status is completed every
row is of a completed step or of one that failed and let the run continue. Further that nothing works in a
dead process, that the parent waits for a child which, once it has ended, has closed its row
(`ParentWaits`), that a child is resumed only after a crash that found it durable, and that a parent still
trying its step was then resumed to run it again (`ResumedAfterCrash`), and what the gate let through
(`GateSaw`). `OrphansAreExplained` is inductive together with these: `OrphansExplained`; of two children at
work one is not waited for, therefore resumed: `TwoAtWorkExplained`; and `PassIsOfACompletedStep` is
`Faithful` read through the gate. Of a resumed child nothing of the kind is said, since nobody waits for what
it returns.

**Promotion and Replay** (in `Promotion_proofs`). `RowsInv`: rows are finitely many and each is one
execution's, a replay's is never production's; and no step loses a row or changes more of it than its marks
(`RowsKept`, the theorem `RowsAreKept`). `LookupInv`: a scan is of a time after its lookup began, the cache is never newer than its
contents, and each sample in a gate or the cache has its production row, which stays (`ProductionStays`):
`LookupsAreSound`. `SnapshotsStayHonest` is inductive beside these. `BatchInv` follows each sample from its
task to its row and to the descriptor: the rows of the batch are the answers of the samples listed as
replayed (`Answered`), and every sample is listed when its task is done: `SamplesAreAccounted`, with a
bijection between those rows and samples (`ReportAccounts`). `ReadinessIsEarned` compares the two readings of the
evidence, the filters of `readiness.py` and the property's: a run's rows are of one call, so they agree in
prompt, stage and version (`RunsAreOne`), whichever of them the code takes for the latest; therefore what
it calls current is the step as it stands (`CurrentStands`), what it counts is the evidence
(`CountedIsEvidence`) and what it leaves out beside a row it counts is a failed branch
(`LeftOutBranchFailed`). Then one lemma per tier (`OperationalPass`, `ConfidencePass`, `AccuracyPass`,
`CalibrationPass`). It assumes of
the set-ups that criteria and outcomes are such as the configuration accepts (`ConfsAssumption`).

**Induction over finite sets and lengths.** The library's induction rules take an operator and cannot be
used here, nor can a fold be unfolded. Both are gone around in the same way: a function is shown to exist
that satisfies the recursion on every subset of a finite set, or up to every length, by taking the smallest
at which there would be none (`Smallest`, from the well-foundedness of strict inclusion; `Least`), and the
fold, or the recursive function, is shown to be that one (`TokensAreTotal`, `LabelSumIsTotal`, `LoggedKeeps`).
What follows of sums is then first-order: of one more element, of one changed (`TotalWrite`), of bounds.

**AgentCall.** `RunsAreApart`, from `Conversed`: what stands in a conversation was said under its key, and
either template's key names the run and the agent. `SecondAgentIsExplained`: `Sent` (a call's
request is at the server once it waits for the result, and no later attempt's is), `Heard` (a final frame
is there only when the work is over) and `Explained` (work goes on for the request that is waited for, or
its socket was cut).

**LiveTail.** `EveryEventOnce` and `BusIsCleaned`, for any runs, tails, events and crashes. The
invariant says what `TailShowsAll` and `NothingLeftBehind` leave out: the history of a run is what it has
published until the bus is told that it is over, and then nothing (`Remembered`); a stream of a run that
is not over is registered, and what it has shown or copied and what waits in its queue are what was
published (`Followed`); and a stream is only of a run that has a row, so that the event logged for a
delivery that meets a duplicate, which goes into no history, is missed by no one (`Attached`). One lemma
for each way in which a run can meet the bus (it publishes, completes, or says nothing), one for a tail's
steps, which leave the other tails alone, and one for the crash and the start each. The lemmas about
sequences are that an event received moves from the queue to what was shown (`Moved`), and that one
published is appended to both (`Published`).

`CompleteIsWhole` (`CompleteShowsLog`) needs three more: nothing that a run publishes is the sentinel, and
keeping the log of a log changes nothing (`Filtered`); a run whose row is closed and which the bus has not
been told of is exactly between the two steps, with the log of all it published stored (`Staged`); and a tail
of a run that is over either came too late to hear anything more, or has the whole log still to hear
(`Heard`). When the sentinel is received, what was shown before it is all that was published
(`SentinelEnds`).

**Only model-checked.** Liveness (`ClosedOrRaised`, `RowsGetClosed`, `AcceptedEnds`, `EveryAskEnds`,
`UpdatesGetHandled`, `StepEnds`, `TailCloses`, `CallEnds`, `ParentEnds`): temporal proofs under fairness
are out of the prover's reach. Every invariant and action property of the passing runs is a theorem.
`TypeOK` is one (`TypeCorrect`) for `DurableRun`, `Admission`, `HumanApproval`, `StepGate`, `AgentCall` and
`SubPipeline`; of the other modules the types that a proof needs are in its invariant. The four findings
are TLC's counterexamples.

## 5. Where the code and its documents differ

Four differences have a run and are in `PROJECT.json` under `findings`: reruns that are resumed
(`rerun_claim`), alerts of pipelines that opted out of dedup (`opt_out_claim`), the cap after scheduled runs
(`admission_cap_claim`), the marking of replay candidates (`replay_mark_claim`).

Three more bear on a property that is checked. The property names the case as an exception, so that it
says what the code does, and the document is the one that is wrong, or the code:

- `PassNeedsACompletedStep`: `executors/pipeline.py:105` says of a child without output that its pipeline
  is empty or all its steps were skipped. A child each of whose steps failed under `on_failure: continue`
  is completed and has none either, and gets confidence 1.0, which passes every gate.
- `CallEnds`: `executors/openclaw_ws.py:306-309` counts on the step's `timeout_seconds` to end a read loop
  that is fed frames. A verifier's step is built without one (`pipeline/runner.py:2103`) and its call is
  awaited bare (`:2139`), outside the `wait_for` around the primary's.
- `ReadyIsEarned`: `readiness.py:793-794` says that every branch of a group's run must have an acceptable
  status. Under `require_current_config` a branch that failed is left out beforehand (`:347-348`): it has no
  output, hence no agent version, and is not taken for the current one.

Others were met while translating:

- `pipeline/runner.py:2726`: "can only have 'completed' step rows" when a run is resumed. A crash between
  a failed step's row and the closing of the run leaves another (`GatePassedOnlyByWindowCrash` is about
  what follows).
- `pipeline/runner.py:656`: the re-armed request "was already delivered ... before the crash". Its row is
  committed before the message is sent (`executors/human.py:386`).
- `samples/pipelines/stage-testing-example.yaml:75`: a testing timeout approves. With `timeout_seconds`
  on the step the outer timer fires first and the attempt fails.
- `ui/runs.py:596`: the stream closes on completion. A replay batch publishes no completion
  (`replay.py:502`).
- `samples/pipelines/sub-pipeline-example.yaml:16`: the answer is the final step's output. It is the last
  *completed* step's, also of a child that failed after it.
- `pipeline/runner.py:2783-2785`: branch rows' verifier tokens "are always 0 there". `_db_save_branch`
  stores them (`:2692-2693`) and a resume counts them (`:2790`), but the live total of a group leaves them
  out (`:1515`, `:1849`): a run that was never interrupted may spend them beyond `max_tokens`, and the same
  run resumed may be stopped for them. `OverrunBounded` counts as the loop does.
- `executors/gateway.py:54-55` gives the default session key a step name and line 81 renders `step_name`,
  which no context defines (`pipeline/context.py:39-47`): all default-keyed calls of an agent in a run
  share one conversation, a step's "blind" verifier (`pipeline/runner.py:2099`) its primary's.

And facts that no document denies: a name conflicts (409) only with the file that bears it; a reload
that fails half-way leaves a new library beside old pipelines until the next one; a score above 1.0 is
judged by the last bin, where none is counted; the report of an interrupted batch says "unknown" of
samples it stored; a schedule whose cron does not parse is accepted, stored and served, and only the log
says that it has no job (`main.py:198-212`); an agent definition that could not be fetched is not asked for again; production
evidence of other pipelines counts toward the calibration tier only for an agent version that the
pipeline's own rows have shown.

## 6. Not modelled

In the modelled parts: `weighted_average` joins (the two others are), costs in currency (they are
accumulated exactly as tokens), a refinement loop around a human step, templates and artifacts, the
trust report, the names under which a rerun registers a branch's output (`group_prior_step_outputs`
differs there from the live loop), sub-pipelines that call further ones, the openclaw CLI executor
(registered under no name), the calibration page's summary statistics. Tokens of attempts and
iterations that are never recorded are outside both accumulators.

Whole components: the normalisers and the template context, notify and webhook executors, notifiers,
analytics, metrics, pricing, tracing, the user interface and the artifact store convert or display data
and coordinate nothing; `PROJECT.json` says of each where its effect appears in a model.

## 7. What comes next

1. Proofs: the types of `Replay` and `Listeners`.
2. `SubPipeline` over `DurableRun`'s loop instead of its one step, and chains of sub-pipelines.
3. `weighted_average` joins, in a module with a reference definition.
