---------------------------- MODULE SubPipeline -----------------------------
(***************************************************************************)
(* A step with executor: pipeline: the parent run, the child runs its      *)
(* attempts start, what the parent makes of a child's result, the step's   *)
(* timer, crashes, the startup sweep and the resume of either or both      *)
(* (service/src/executors/pipeline.py; pipeline/runner.py run,             *)
(* _run_pipeline_body, _run_step_impl; db/database.py                      *)
(* sweep_and_partition_running_runs).                                      *)
(*                                                                         *)
(* The parent is shown with the one step that calls the child; module      *)
(* DurableRun has the loop around it.  Child runs are numbered in the      *)
(* order they are started.                                                 *)
(*                                                                         *)
(* A definition named Slip... is not part of the model: it is a plausible  *)
(* mistake in the definition that follows it.                              *)
(***************************************************************************)
EXTENDS Naturals, Sequences

CONSTANTS
  ChildSteps, \* how many steps the child pipeline has
  Confs,      \* how the two pipelines may be configured
  MaxCrashes  \* bound on the process deaths explored

ASSUME ChildStepsAssumption == ChildSteps \in Nat \ {0}
ASSUME CrashesAssumption == MaxCrashes \in Nat

\* What a step of the child comes to.  high and mid: it completes, and only high passes
\* the parent's gate as well.  halt: it completes with proceed: false.  low: its gate
\* aborts or escalates it.  broken: its executor fails.
Outcomes == {"high", "mid", "halt", "low", "broken"}
Passed == {"high", "mid"}
Said == Passed \cup {"halt"}

(***************************************************************************)
(* timer: the step sets timeout_seconds.  attempts: its retry.attempts.    *)
(* parent, child: durable.  policy: their on_interrupted.  Of the child:   *)
(* continues, its steps have on_failure.policy continue; optional, they    *)
(* have a when: condition; budget, the pipeline has one.  outcomes: what   *)
(* its steps may come to, a bound on what is explored.                     *)
(***************************************************************************)
Conf == [timer : BOOLEAN, attempts : Nat \ {0}, parent : BOOLEAN, child : BOOLEAN,
         policy : {"rerun", "escalate"},
         continues : BOOLEAN, optional : BOOLEAN, budget : BOOLEAN,
         outcomes : SUBSET Outcomes]
ASSUME ConfsAssumption == Confs \subseteq Conf

VARIABLES
  conf,
  row, stepRow,  \* the parent's row, and the row of its step
  pc, attempt, verdict, awaits,
  kids,          \* the child runs: row, step rows, and the task behind them
  up, crashes,
  cut            \* child runs whose task was cancelled or raised in this process

parent == <<row, stepRow, pc, attempt, verdict, awaits>>
vars == <<conf, parent, kids, up, crashes, cut>>

StepRows == Outcomes \cup {"escalated"}
Verdicts == {"completed", "stopped", "aborted", "failed", "escalated"}
Rows == Verdicts \cup {"none", "running", "interrupted"}
Live == {"creating", "executing", "saving", "closing"}
KidPCs == Live \cup {"ended", "raised", "gone"}
ParentPCs == {"idle", "calling", "failing", "gating", "closing", "done", "down"}
Steps == 1..ChildSteps

\* steps: the row of each step.  at, now, status, final: of the loop in memory, the step
\* it is at, the outcome not yet recorded, result.status and result.final_output.
Kid == [row : Rows, pc : KidPCs, steps : [Steps -> StepRows \cup {"none"}],
        at : 1..(ChildSteps + 1), now : StepRows \cup {"none"}, status : Verdicts,
        final : Said \cup {"none"}, resumed : BOOLEAN]

TypeOK ==
  /\ conf \in Confs /\ row \in Rows /\ stepRow \in StepRows \cup {"none"}
  /\ pc \in ParentPCs /\ attempt \in Nat \ {0} /\ verdict \in Verdicts
  /\ awaits \in 0..Len(kids) /\ kids \in Seq(Kid)
  /\ up \in BOOLEAN /\ crashes \in Nat /\ cut \subseteq DOMAIN kids

Init ==
  /\ conf \in Confs /\ row = "running" /\ stepRow = "none"
  /\ pc = "idle" /\ attempt = 1 /\ verdict = "completed" /\ awaits = 0
  /\ kids = <<>> /\ up = TRUE /\ crashes = 0 /\ cut = {}

-----------------------------------------------------------------------------
(* The child's run *)

NewKid == [row |-> "none", pc |-> "creating", steps |-> [i \in Steps |-> "none"], at |-> 1,
           now |-> "none", status |-> "completed", final |-> "none", resumed |-> FALSE]

StatusOf(o) == CASE o \in Passed -> "completed" [] o = "halt" -> "stopped"
                 [] o = "low" -> "aborted" [] o = "broken" -> "failed"
                 [] o = "escalated" -> "escalated"

\* On to the next step; the run is closed after the last one.
NextStep(k) ==
  [k EXCEPT !.at = @ + 1, !.pc = IF k.at < ChildSteps THEN "executing" ELSE "closing"]

\* Where the loop goes after a step's row: past a step that completed within the budget
\* or failed and lets the run continue, else out of the loop.
AfterStep(k, over) ==
  LET o == k.now
      saved == [k EXCEPT !.steps[k.at] = o, !.now = "none",
                         !.final = IF o \in Said THEN o ELSE @]
  IN IF (o \in Passed /\ ~over) \/ (o = "broken" /\ conf.continues) THEN NextStep(saved)
     ELSE [saved EXCEPT !.pc = "closing", !.status = IF over THEN "aborted" ELSE StatusOf(o)]

OverBudget(k) == IF conf.budget /\ k.now \in Passed THEN BOOLEAN ELSE {FALSE}

\* One await of the child, once it has returned.
Advanced(k) ==
  CASE k.pc = "creating" -> {[k EXCEPT !.row = "running", !.pc = "executing"]}
    [] k.pc = "saving"   -> {AfterStep(k, over) : over \in OverBudget(k)}
    [] k.pc = "closing"  -> {[k EXCEPT !.row = k.status, !.pc = "ended"]}

\* The task ends without a result: its memory is gone.
Dead(k) == [k EXCEPT !.pc = "gone", !.at = 1, !.now = "none", !.status = "completed",
                     !.final = "none"]

Child == <<conf, row, stepRow, pc, attempt, verdict, awaits, up, crashes, cut>>

ChildCommits(i) ==
  /\ kids[i].pc \in {"creating", "saving", "closing"}
  /\ \E k \in Advanced(kids[i]) : kids' = [kids EXCEPT ![i] = k]
  /\ UNCHANGED Child

\* A step that is recorded, or whose when: is false, leaves no trace.
ChildPasses(i) ==
  /\ kids[i].pc = "executing"
  /\ kids[i].steps[kids[i].at] # "none" \/ conf.optional
  /\ kids' = [kids EXCEPT ![i] = NextStep(@)]
  /\ UNCHANGED Child

\* The first step a resumed run comes to is escalated if on_interrupted says so, and that
\* ends the run.
MayComeTo(k) == IF k.resumed /\ conf.policy = "escalate" THEN {"escalated"} ELSE conf.outcomes
ChildExecutes(i) ==
  /\ kids[i].pc = "executing" /\ kids[i].steps[kids[i].at] = "none"
  /\ \E o \in MayComeTo(kids[i]) : kids' = [kids EXCEPT ![i].now = o, ![i].pc = "saving"]
  /\ UNCHANGED Child

\* A notifier or the database raises out of the child's loop: nothing closes its row.
ChildRaises(i) ==
  /\ kids[i].pc \in Live
  /\ kids' = [kids EXCEPT ![i] = IF @.resumed THEN Dead(@) ELSE [Dead(@) EXCEPT !.pc = "raised"]]
  /\ cut' = cut \cup {i}
  /\ UNCHANGED <<conf, parent, up, crashes>>

-----------------------------------------------------------------------------
(* PipelineExecutor.execute, and the step around it *)

Call ==
  /\ pc = "idle" /\ pc' = "calling"
  /\ kids' = Append(kids, NewKid) /\ awaits' = Len(kids) + 1
  /\ UNCHANGED <<conf, row, stepRow, attempt, verdict, up, crashes, cut>>

\* The child's last completed output; with none, certain if it completed and zero if not.
SlipAnswer(k) == IF k.final # "none" THEN k.final ELSE "high"
Answer(k) == IF k.final # "none" THEN k.final
             ELSE IF k.status = "completed" THEN "high" ELSE "low"

\* What the parent's gate makes of it.  A low answer aborts or escalates the step, or is
\* let through (on_low_confidence: proceed); proceed: false stops the parent too.
GateOf(answer) ==
  CASE answer = "high" -> {"high"} [] answer = "halt" -> {"halt", "low"}
    [] OTHER -> {"mid", "low"}

StepEnds(o) == stepRow' = o /\ verdict' = StatusOf(o)

Receive ==
  /\ pc = "calling" /\ kids[awaits].pc = "ended"
  /\ pc' = "gating"
  /\ UNCHANGED <<conf, row, stepRow, attempt, verdict, awaits, kids, up, crashes, cut>>

Gate ==
  /\ pc = "gating" /\ pc' = "closing"
  /\ \E o \in GateOf(Answer(kids[awaits])) : StepEnds(o)
  /\ UNCHANGED <<conf, row, attempt, awaits, kids, up, crashes, cut>>

ReceiveError ==
  /\ pc = "calling" /\ kids[awaits].pc = "raised"
  /\ pc' = "failing" /\ kids' = [kids EXCEPT ![awaits].pc = "gone"]
  /\ UNCHANGED <<conf, row, stepRow, attempt, verdict, awaits, up, crashes, cut>>

\* wait_for cancels the child's coroutine at the await it is in, whose effect may or may
\* not have reached the database.
SlipCancelled(k) == {k}
Cancelled(k) ==
  {Dead(k)} \cup (IF k.pc = "executing" THEN {} ELSE {Dead(a) : a \in Advanced(k)})

TimesOut ==
  /\ pc = "calling" /\ conf.timer /\ kids[awaits].pc \in Live
  /\ pc' = "failing" /\ \E k \in Cancelled(kids[awaits]) : kids' = [kids EXCEPT ![awaits] = k]
  /\ cut' = cut \cup {awaits}
  /\ UNCHANGED <<conf, row, stepRow, attempt, verdict, awaits, up, crashes>>

Retry ==
  /\ pc = "failing" /\ attempt < conf.attempts
  /\ pc' = "idle" /\ attempt' = attempt + 1
  /\ UNCHANGED <<conf, row, stepRow, verdict, awaits, kids, up, crashes, cut>>

\* After the last attempt the loop goes on with nothing left to try.
SlipGiveUp ==
  /\ pc = "failing" /\ attempt = conf.attempts
  /\ StepEnds("broken") /\ UNCHANGED pc
  /\ UNCHANGED <<conf, row, attempt, awaits, kids, up, crashes, cut>>
GiveUp ==
  /\ pc = "failing" /\ attempt = conf.attempts
  /\ StepEnds("broken") /\ pc' = "closing"
  /\ UNCHANGED <<conf, row, attempt, awaits, kids, up, crashes, cut>>

Close ==
  /\ pc = "closing" /\ pc' = "done" /\ row' = verdict
  /\ UNCHANGED <<conf, stepRow, attempt, verdict, awaits, kids, up, crashes, cut>>

-----------------------------------------------------------------------------
(* Crash, sweep and resume *)

Crash ==
  /\ up /\ crashes < MaxCrashes
  /\ up' = FALSE /\ crashes' = crashes + 1 /\ cut' = {}
  /\ pc' = IF pc = "done" THEN "done" ELSE "down"
  /\ kids' = [i \in DOMAIN kids |-> Dead(kids[i])]
  /\ UNCHANGED <<conf, row, stepRow, attempt, verdict, awaits>>

\* A resumed run goes through its steps again, past what is recorded, whatever its outcome.
ResumedKid(k) ==
  [k EXCEPT !.resumed = TRUE, !.pc = "executing", !.at = 1, !.now = "none",
            !.status = "completed", !.final = "none"]

SlipSweptKid(k) == IF k.row # "running" THEN k ELSE ResumedKid(k)
SweptKid(k) ==
  IF k.row # "running" THEN k
  ELSE IF conf.child THEN ResumedKid(k) ELSE [k EXCEPT !.row = "interrupted"]

ResumeParent ==
  /\ row' = row /\ attempt' = 1 /\ awaits' = 0
  /\ IF stepRow # "none" THEN pc' = "closing" /\ verdict' = "completed" /\ UNCHANGED stepRow
     ELSE IF conf.policy = "escalate" THEN StepEnds("escalated") /\ pc' = "closing"
     ELSE pc' = "idle" /\ verdict' = "completed" /\ UNCHANGED stepRow

Restart ==
  /\ ~up /\ up' = TRUE
  /\ kids' = [i \in DOMAIN kids |-> SweptKid(kids[i])]
  /\ IF row # "running" THEN UNCHANGED parent
     ELSE IF conf.parent THEN ResumeParent
     ELSE row' = "interrupted" /\ pc' = "done" /\ UNCHANGED <<stepRow, attempt, verdict, awaits>>
  /\ UNCHANGED <<conf, crashes, cut>>

-----------------------------------------------------------------------------
ChildTask(i) == ChildCommits(i) \/ ChildPasses(i) \/ ChildExecutes(i)
Parent == Call \/ Receive \/ Gate \/ ReceiveError \/ Retry \/ GiveUp \/ Close

\* Nothing is left to do but die and start again.
Quiet == up /\ pc = "done" /\ \A i \in DOMAIN kids : kids[i].pc \notin Live
Terminating == Quiet /\ UNCHANGED vars

Next ==
  \/ \E i \in DOMAIN kids : ChildTask(i) \/ ChildRaises(i)
  \/ Parent \/ TimesOut
  \/ Crash \/ Restart \/ Terminating

\* The event loop runs what is ready, the calls of the child that is awaited end, the
\* process is restarted.
Fairness ==
  /\ WF_vars(Parent) /\ WF_vars(Restart)
  /\ WF_vars(awaits \in DOMAIN kids /\ ChildTask(awaits))

Spec == Init /\ [][Next]_vars /\ Fairness

-----------------------------------------------------------------------------
(* Properties *)

Awaited(i) == pc \in {"calling", "gating"} /\ awaits = i
Working(i) == kids[i].pc \in Live

\* A child nobody waits for is at work only because a restart resumed it: a step's
\* timer, its retries and a parent that has ended leave no child running
\* (executors/pipeline.py awaits runner.run; runner.py wait_for cancels it).  And while
\* the process is up a child's row is 'running' only if its task runs, or was cancelled
\* or raised in this process: the next startup leaves no row behind (runner.py
\* _run_pipeline_body closes it only at its end).
OrphansAreExplained ==
  \A i \in DOMAIN kids :
    /\ Working(i) /\ ~Awaited(i) => kids[i].resumed
    /\ up /\ kids[i].row = "running" => Working(i) \/ i \in cut

\* The work of a child is done by two runs at once only if a crash found both durable
\* and the parent calls again: the sweep resumes the child, and the resumed parent, which
\* has no row for its step, starts another (executors/pipeline.py new sub_run_id).
TwoAtWorkOnlyIfBothResume ==
  (\E i, j \in DOMAIN kids : i # j /\ Working(i) /\ Working(j) /\ ~kids[i].resumed)
    => crashes > 0 /\ conf.parent /\ conf.child /\ conf.policy = "rerun"

\* The parent's gate passes the last step its child completed, even if the child then
\* failed, or was aborted by its gate or its budget, and never an earlier one.  A child that
\* completed no step passes only if its run is completed and no step of it has a row
\* (executors/pipeline.py: "empty pipeline or all steps skipped"), or, which that comment
\* does not say, if every step that has one failed and the run continued each time
\* (on_failure.policy: continue): it passes with confidence 1.0.
PassNeedsACompletedStep ==
  pc = "closing" /\ stepRow = "high" /\ awaits # 0 =>
    LET k == kids[awaits]
        done == {i \in Steps : k.steps[i] \in Said}
    IN \/ \E i \in done : k.steps[i] = "high" /\ \A j \in done : j <= i
       \/ /\ done = {} /\ k.row = "completed"
          /\ \A i \in Steps : k.steps[i] = "none" \/ (conf.continues /\ k.steps[i] = "broken")

\* The parent run ends, whatever its child does and however often it times out.
ParentEnds == <>(pc = "done")
=============================================================================
