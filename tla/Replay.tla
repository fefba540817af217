------------------------------- MODULE Replay -------------------------------
(***************************************************************************)
(* A replay batch: the most recent labelled production executions of a     *)
(* step are sent again to a candidate, a few at a time, and their answers  *)
(* stored as steps of one synthetic testing run (service/src/replay.py;    *)
(* main.py replay endpoints).  It is composed with everything Promotion    *)
(* has, since both read and write the same rows; the process may die.      *)
(*                                                                         *)
(* One batch is followed from its launch on.                               *)
(*                                                                         *)
(* A definition named Slip... is not part of the model: it is a plausible  *)
(* mistake in the definition that follows it.                              *)
(***************************************************************************)
EXTENDS Promotion

CONSTANTS
  K,       \* samples asked for
  Slots    \* _CONCURRENCY

ASSUME ReplayAssumption == {K, Slots} \subseteq Nat \ {0}

VARIABLES
  batch,   \* the synthetic run's row: run, status, and the descriptor as last stored
  samples, \* the recorded executions chosen, with the label each had then
  tasks,   \* what each sample's task is doing
  memory   \* the descriptor the tasks fill in

replayVars == <<batch, samples, tasks, memory>>
vars == <<promotionVars, replayVars>>

NoReport == [replayed |-> {}, unreplayable |-> {}]
NoBatch == [run |-> 0, step |-> None, prompt |-> None, status |-> "none", stored |-> NoReport]

-----------------------------------------------------------------------------
(* Launch.  "current" is the bucket of the latest production execution of the step. *)

ProductionOf(s) == {r \in FetchStage(rows, "production") : r.step = s}
Latest(s) == {r \in ProductionOf(s) : \A q \in ProductionOf(s) : q.run <= r.run}

\* select_samples: the K most recent of the bucket that have a label.
Recent(S) == {T \in SUBSET S : /\ Cardinality(T) = Min({K, Cardinality(S)})
                               /\ \A r \in T, q \in S \ T : q.run <= r.run}
LabelledOf(s, key) == {r \in ProductionOf(s) : Key(r) = key /\ Labelled(r)}

Recorded(r) == [run |-> r.run, branch |-> r.branch, label |-> Label(r)]

\* Refused unless the agent is allowlisted and a loaded pipeline has a plain step s.
Launch(s, prompted) ==
  /\ conf.safe /\ conf.kind[s] = "step"
  /\ batch.status = "none"
  /\ runs < conf.runs
  /\ \E latest \in Latest(s) : \E T \in Recent(LabelledOf(s, Key(latest))) :
       samples' = {Recorded(r) : r \in T}
  /\ tasks' = [x \in samples' |-> "waiting"]
  /\ runs' = runs + 1
  /\ batch' = [run |-> runs + 1, step |-> s, prompt |-> prompted, status |-> "running",
               stored |-> NoReport]
  /\ memory' = NoReport
  /\ UNCHANGED <<conf, config, calls, rows, snapshots, now, lookup>>

-----------------------------------------------------------------------------
(* One sample. *)

Doing(what) == {x \in DOMAIN tasks : tasks[x] = what}
Task(x, from, to) == tasks[x] = from /\ tasks' = [tasks EXCEPT ![x] = to]
Unreplayable(x) == memory' = [memory EXCEPT !.unreplayable = @ \cup {x}]

\* Its recorded prompt, or the context it ran in, cannot be had any more.
Unrecoverable(x) ==
  /\ Cardinality(Doing("calling")) < Slots
  /\ Task(x, "waiting", "done")
  /\ Unreplayable(x)
  /\ UNCHANGED <<promotionVars, batch, samples>>

Call(x) ==
  /\ Cardinality(Doing("calling")) < Slots
  /\ Task(x, "waiting", "calling")
  /\ UNCHANGED <<promotionVars, batch, samples, memory>>

\* Every sample of the batch has the batch's run and the step's name; nth is its index.
Candidate(x, kind) ==
  [run |-> batch.run, branch |-> x.branch, nth |-> x.run, step |-> batch.step,
   pipe |-> "replay", stage |-> "testing", prompt |-> batch.prompt,
   version |-> IF kind.status = "failed" THEN None ELSE deployed,
   score |-> kind.score, check |-> kind.check, status |-> kind.status, at |-> now,
   mark |-> None, runMark |-> None]

\* A candidate that raises is stored too, as a failed step.
Answers(x, kind, reached) ==
  /\ Task(x, "calling", "done")
  /\ rows' = rows \cup {Candidate(x, kind)}
  /\ Snapshot({Candidate(x, kind)}, reached)
  /\ memory' = [memory EXCEPT !.replayed = @ \cup {x}]
  /\ UNCHANGED <<conf, config, calls, runs, now, lookup, batch, samples>>

SaveFails(x) ==
  /\ Task(x, "calling", "done")
  /\ Unreplayable(x)
  /\ UNCHANGED <<promotionVars, batch, samples>>

-----------------------------------------------------------------------------
(* The end of the batch: gather returns when every task has. *)

SlipFinished == Doing("waiting") = {}
Finished == Doing("done") = DOMAIN tasks

Finalise ==
  /\ batch.status = "running" /\ tasks # << >>
  /\ Finished
  /\ batch' = [batch EXCEPT !.status = "completed", !.stored = memory]
  /\ tasks' = << >>
  /\ UNCHANGED <<promotionVars, samples, memory>>

\* With no sample to replay there is nothing to wait for.
FinaliseEmpty ==
  /\ batch.status = "running" /\ samples = {}
  /\ batch' = [batch EXCEPT !.status = "completed"]
  /\ UNCHANGED <<promotionVars, samples, tasks, memory>>

\* The last write raises: the request fails, the row stays 'running'.
FinaliseFails ==
  /\ batch.status = "running" /\ tasks # << >>
  /\ Finished
  /\ tasks' = << >>
  /\ UNCHANGED <<promotionVars, batch, samples, memory>>

\* The process dies and is started again: the sweep interrupts what was running, but runs
\* of a durable pipeline go on, in the stage they began in, with the configuration of now.
Resumed(call) ==
  [call EXCEPT !.version = deployed, !.prompt = IF call.pipe = "own" THEN prompt[call.step] ELSE @]

Restart ==
  /\ OneMore
  /\ calls' \in {{}, {Resumed(call) : call \in calls}}
  /\ UNCHANGED <<conf, prompt, stage, deployed, rows, runs, snapshots, now, used>>
  /\ cache' = NoCache /\ gates' = [g \in Gates |-> Idle]
  /\ tasks' = << >> /\ memory' = NoReport
  /\ batch' = [batch EXCEPT !.status = IF @ = "running" THEN "interrupted" ELSE @]
  /\ UNCHANGED samples

-----------------------------------------------------------------------------
(* The report, computed anew on every request from the descriptor and the rows. *)

Answer(x) == CHOOSE r \in rows : r.run = batch.run /\ r.branch = x.branch /\ r.nth = x.run
ReportRow(x) ==
  IF x \in batch.stored.replayed
    THEN [status |-> Answer(x).status,
          label |-> IF Answer(x).mark # None THEN Worth[Answer(x).mark]
                    ELSE IF Answer(x).check = "failed" THEN 0 ELSE None]
  ELSE IF x \in batch.stored.unreplayable
    THEN [status |-> "unreplayable", label |-> None]
  ELSE [status |-> "unknown", label |-> None]

-----------------------------------------------------------------------------
Init ==
  /\ PromotionInit
  /\ batch = NoBatch /\ samples = {} /\ tasks = << >> /\ memory = NoReport

ReplayNext ==
  \/ \E s \in conf.steps, p \in Prompts : Launch(s, p)
  \/ \E x \in DOMAIN tasks : Unrecoverable(x) \/ Call(x) \/ SaveFails(x)
  \/ \E x \in DOMAIN tasks, kinds \in conf.kinds, reached \in conf.reached :
       \E b \in DOMAIN kinds : Answers(x, kinds[b], reached)
  \/ Finalise \/ FinaliseEmpty \/ FinaliseFails
  \/ Restart

Next == (PromotionNext /\ UNCHANGED replayVars) \/ ReplayNext

Spec == Init /\ [][Next]_vars

-----------------------------------------------------------------------------
(* Properties. *)

\* A completed batch accounts for every sample it took: its answer is stored, once, and the
\* report shows it, or it is listed with the reason it could not be replayed; "unknown" is
\* shown only while the batch is running or after it was cut short.
EverySampleAccounted ==
  batch.status = "completed" =>
    /\ \A x \in samples : ReportRow(x).status # "unknown"
    /\ \A x \in samples :
         Cardinality({r \in rows : r.run = batch.run /\ r.branch = x.branch /\ r.nth = x.run})
           = (IF ReportRow(x).status = "unreplayable" THEN 0 ELSE 1)
    /\ Cardinality({r \in rows : r.run = batch.run}) = Cardinality(batch.stored.replayed)

\* What replay_report.html says of a passing candidate, that it is unmarked "until a human
\* marks it from the marking queue": a stored candidate can be marked, by its run and step.
CandidateCanBeMarked ==
  \A r \in rows : r.pipe = "replay" => Cardinality(SameName(r)) = 1
=============================================================================
