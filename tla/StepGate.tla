------------------------------ MODULE StepGate ------------------------------
(***************************************************************************)
(* One sequential step: retries inside a refinement loop, the verifier,    *)
(* calibration, grounding and deterministic checks, and the gate that      *)
(* turns the trust they leave into the step's status                       *)
(* (service/src/pipeline/runner.py _run_step_impl and what it calls).      *)
(*                                                                         *)
(* Scores are integers: Scale is 1.0.  The confidence an agent reports is  *)
(* whatever number its JSON holds, so it may exceed Scale, be negative, or *)
(* be NaN, and comparisons and min() treat NaN as Python's do.             *)
(*                                                                         *)
(* A definition named Slip... is not part of the model: it is a plausible  *)
(* mistake in the definition that follows it, kept to show that a property *)
(* would notice.                                                           *)
(***************************************************************************)
EXTENDS Integers

CONSTANTS
  Scale,
  NaN, None,  \* not a number; no score
  Answers,    \* the scores an executor may report
  Configs     \* the configurations of the step

(***************************************************************************)
(* attempts: retry.  iterations and target: loop_until.  verifier: off or  *)
(* its combination strategy, with veto_floor and trigger.  calibration:    *)
(* off or on_uncalibrated of an enforced block.  grounding: off, shadow or *)
(* enforced.  checks: how many deterministic checks.                       *)
(***************************************************************************)
Config ==
  [attempts : Nat \ {0}, iterations : Nat \ {0}, target : Int,
   verifier : {"off", "minimum", "veto"}, floor : Int,
   always : BOOLEAN, below : Int, above : Int,
   calibration : {"off", "proceed", "escalate"},
   grounding : {"off", "shadow", "enforce"}, checks : Nat,
   threshold : Int, onLow : {"abort", "escalate", "proceed"}]

ASSUME ScaleAssumption == Scale \in Nat \ {0}
ASSUME NoScoreAssumption == NaN \notin Int /\ None \notin Int /\ NaN # None
ASSUME AnswersAssumption == Answers \subseteq Int \cup {NaN}
ASSUME ConfigsAssumption == Configs \subseteq Config

VARIABLES
  cfg,
  curve,      \* the calibration bucket: mean label of each bin, None unless validated
  pc, iteration, attempt,
  primary, proceed,    \* the executor's answer
  verdict,             \* the verifier's score of it
  effective, trust,    \* effective_confidence, combined_trust
  grounding, checked, failed,
  status,
  verdictOf,  \* history: the iteration verdict belongs to
  uncalibrated \* history: the enforced calibration had no validated bin

answer == <<primary, proceed>>
signals == <<grounding, checked, failed, uncalibrated>>
vars == <<cfg, curve, pc, iteration, attempt, answer, verdict, effective, trust,
          signals, status, verdictOf>>

Score == Int \cup {NaN}
Bins == 0..(Scale - 1)
PCs == {"call", "verify", "loop", "calibrate", "ground", "check", "gate", "done", "raised"}
Statuses == {"completed", "aborted", "escalated", "stopped", "failed"}

TypeOK ==
  /\ cfg \in Configs /\ curve \in [Bins -> 0..Scale \cup {None}]
  /\ pc \in PCs /\ iteration \in 1..cfg.iterations /\ attempt \in 1..cfg.attempts
  /\ primary \in Score \cup {None} /\ proceed \in BOOLEAN
  /\ verdict \in Score \cup {None} /\ effective \in Score /\ trust \in Score
  /\ grounding \in 0..Scale \cup {None}
  /\ checked \in 0..cfg.checks /\ failed \in BOOLEAN /\ uncalibrated \in BOOLEAN
  /\ status \in Statuses \cup {"none"} /\ verdictOf \in Nat

Init ==
  /\ cfg \in Configs /\ curve \in [Bins -> 0..Scale \cup {None}]
  /\ pc = "call" /\ iteration = 1 /\ attempt = 1
  /\ primary = None /\ proceed = TRUE /\ verdict = None
  /\ effective = 0 /\ trust = 0
  /\ grounding = None /\ checked = 0 /\ failed = FALSE /\ uncalibrated = FALSE
  /\ status = "none" /\ verdictOf = 0

-----------------------------------------------------------------------------
(* Python's comparison, min and max, of which NaN is never the lesser *)

Less(a, b) == a # NaN /\ b # NaN /\ a < b
PyMin(a, b) == IF Less(b, a) THEN b ELSE a
PyMax(a, b) == IF Less(a, b) THEN b ELSE a
Clamp(g) == PyMax(0, PyMin(Scale, g))

-----------------------------------------------------------------------------
(* The attempts of an iteration *)

\* The verifier's output of the previous iteration is kept.
SlipExecutorAnswers(c, p) ==
  /\ pc = "call"
  /\ primary' = c /\ proceed' = p /\ effective' = c
  /\ pc' = "verify"
  /\ UNCHANGED <<cfg, curve, iteration, attempt, verdict, verdictOf, trust, signals, status>>
ExecutorAnswers(c, p) ==
  /\ pc = "call"
  /\ primary' = c /\ proceed' = p /\ effective' = c
  /\ verdict' = None /\ verdictOf' = 0
  /\ pc' = "verify"
  /\ UNCHANGED <<cfg, curve, iteration, attempt, trust, signals, status>>

MoreAttempts == attempt < cfg.attempts

\* An exception, a timeout, or a reply that does not parse.
ExecutorFails ==
  /\ pc = "call"
  /\ IF MoreAttempts
     THEN attempt' = attempt + 1 /\ UNCHANGED <<pc, status>>
     ELSE status' = "failed" /\ pc' = "done" /\ UNCHANGED attempt
  /\ UNCHANGED <<cfg, curve, iteration, answer, verdict, effective, trust, signals, verdictOf>>

-----------------------------------------------------------------------------
(* The verifier, and the refinement loop *)

ShouldVerify ==
  /\ cfg.verifier # "off"
  /\ cfg.always \/ (Less(primary, cfg.below) /\ Less(cfg.above, primary))

\* A veto returns the verifier's score, also where the primary's is lower.
SlipCombine(p, v) ==
  IF cfg.verifier = "minimum" THEN PyMin(p, v) ELSE IF Less(v, cfg.floor) THEN v ELSE p
Combine(p, v) ==
  IF cfg.verifier = "minimum" \/ Less(v, cfg.floor) THEN PyMin(p, v) ELSE p

VerifierAnswers(v) ==
  /\ pc = "verify" /\ ShouldVerify
  /\ verdict' = v /\ verdictOf' = iteration
  /\ effective' = Combine(primary, v)
  /\ pc' = "loop"
  /\ UNCHANGED <<cfg, curve, iteration, attempt, answer, trust, signals, status>>

\* No verifier is called, or its failure is logged and forgotten.
Unverified ==
  /\ pc = "verify"
  /\ pc' = "loop"
  /\ UNCHANGED <<cfg, curve, iteration, attempt, answer, verdict, effective, trust,
                 signals, status, verdictOf>>

MoreIterations == Less(effective, cfg.target) /\ iteration < cfg.iterations

\* A while loop whose counter is never advanced.
SlipRefine ==
  /\ pc = "loop" /\ MoreIterations
  /\ attempt' = 1
  /\ pc' = "call"
  /\ UNCHANGED <<cfg, curve, iteration, answer, verdict, effective, trust, signals, status,
                 verdictOf>>
Refine ==
  /\ pc = "loop" /\ MoreIterations
  /\ iteration' = iteration + 1 /\ attempt' = 1
  /\ pc' = "call"
  /\ UNCHANGED <<cfg, curve, answer, verdict, effective, trust, signals, status, verdictOf>>

LeaveLoop ==
  /\ pc = "loop" /\ ~MoreIterations
  /\ trust' = effective
  /\ pc' = "calibrate"
  /\ UNCHANGED <<cfg, curve, iteration, attempt, answer, verdict, effective, signals,
                 status, verdictOf>>

-----------------------------------------------------------------------------
(* Calibration, grounding, deterministic checks *)

\* CalibrationBucket.lookup: half-open bins, the last one open above.
Lookup(s) ==
  IF s = NaN \/ Less(s, 0) THEN None
  ELSE IF s < Scale THEN curve[s] ELSE curve[Scale - 1]

UncalibratedTrust == IF cfg.calibration = "escalate" THEN 0 ELSE trust

Calibrate ==
  /\ pc = "calibrate"
  /\ IF cfg.calibration = "off" THEN UNCHANGED <<trust, uncalibrated>>
     ELSE /\ uncalibrated' = (Lookup(trust) = None)
          /\ trust' = IF Lookup(trust) # None THEN Lookup(trust) ELSE UncalibratedTrust
  /\ pc' = "ground"
  /\ UNCHANGED <<cfg, curve, iteration, attempt, answer, verdict, effective, grounding,
                 checked, failed, status, verdictOf>>

\* The cache's query fails: nothing in _run_step_impl catches it.
CalibrationRaises ==
  /\ pc = "calibrate" /\ cfg.calibration # "off"
  /\ pc' = "raised"
  /\ UNCHANGED <<cfg, curve, iteration, attempt, answer, verdict, effective, trust,
                 signals, status, verdictOf>>

\* No trace, a judge that fails, or no grounding at all leaves no score.
Ground(g) ==
  /\ pc = "ground" /\ (cfg.grounding = "off" => g = None)
  /\ grounding' = IF g = None THEN None ELSE Clamp(g)
  /\ trust' = IF cfg.grounding = "enforce" /\ g # None THEN PyMin(trust, Clamp(g)) ELSE trust
  /\ pc' = "check"
  /\ UNCHANGED <<cfg, curve, iteration, attempt, answer, verdict, effective, checked,
                 failed, uncalibrated, status, verdictOf>>

\* Every check is run; one that raises or times out has failed.
RunCheck(passed) ==
  /\ pc = "check" /\ checked < cfg.checks
  /\ checked' = checked + 1 /\ failed' = (failed \/ ~passed)
  /\ UNCHANGED <<cfg, curve, pc, iteration, attempt, answer, verdict, effective, trust,
                 grounding, uncalibrated, status, verdictOf>>

EndChecks ==
  /\ pc = "check" /\ checked = cfg.checks
  /\ trust' = IF failed THEN 0 ELSE trust
  /\ pc' = "gate"
  /\ UNCHANGED <<cfg, curve, iteration, attempt, answer, verdict, effective, signals,
                 status, verdictOf>>

-----------------------------------------------------------------------------
(* The gate *)

\* The confidence the agent reported instead of the trust that is left of it.
SlipLow == Less(effective, cfg.threshold)
Low == Less(trust, cfg.threshold)

Gate ==
  /\ pc = "gate"
  /\ status' = CASE Low /\ cfg.onLow = "abort"    -> "aborted"
                 [] Low /\ cfg.onLow = "escalate" -> "escalated"
                 [] ~(Low /\ cfg.onLow \in {"abort", "escalate"}) ->
                      IF proceed THEN "completed" ELSE "stopped"
  /\ pc' = "done"
  /\ UNCHANGED <<cfg, curve, iteration, attempt, answer, verdict, effective, trust,
                 signals, verdictOf>>

-----------------------------------------------------------------------------
Step ==
  \/ \E c \in Answers, p \in BOOLEAN : ExecutorAnswers(c, p)
  \/ \E v \in Answers : VerifierAnswers(v)
  \/ \E g \in Answers \cup {None} : Ground(g)
  \/ \E passed \in BOOLEAN : RunCheck(passed)
  \/ ExecutorFails \/ Unverified \/ Refine \/ LeaveLoop \/ Calibrate \/ CalibrationRaises
  \/ EndChecks \/ Gate

Ended == pc \in {"done", "raised"} /\ UNCHANGED vars

Next == Step \/ Ended

\* Executors, verifiers, judges and checks answer or time out.
Spec == Init /\ [][Next]_vars /\ WF_vars(Step)

-----------------------------------------------------------------------------
(* Properties *)

\* The weakest link decides (samples/pipelines/trust-vector-remediation.yaml:36): a
\* step that does not proceed on low trust goes on only if every enforced signal
\* reaches the threshold, in whatever order calibration, grounding and the checks were
\* folded into combined_trust.  A trust that is NaN is below no threshold and above no
\* grounding score, so it passes; a failed check sets the trust to 0, which lifts one that
\* was negative, and a threshold of 0 or less stops nothing.
WeakestLink ==
  status \in {"completed", "stopped"} /\ cfg.onLow # "proceed" =>
    /\ failed => cfg.threshold <= 0
    /\ uncalibrated /\ cfg.calibration = "escalate" => cfg.threshold <= 0
    /\ trust # NaN /\ cfg.grounding = "enforce" /\ grounding # None
         => cfg.threshold <= grounding
    /\ trust # NaN /\ cfg.calibration = "off" /\ ~failed => cfg.threshold <= effective

\* A verifier "can only ever lower or hold trust, never raise it" (the locked invariant
\* of tests/unit/test_confidence.py; _combine_confidence), whatever it answers.
DownwardOnly ==
  pc \notin {"call", "verify"} /\ verdict # None => ~Less(primary, effective)

\* What is judged is the answer of the last iteration: a verifier's score of an earlier
\* answer is never combined with, or reported beside, a later one.
VerdictIsOfThisAnswer ==
  pc \notin {"call", "done"} =>
    IF verdict = None THEN effective = primary ELSE verdictOf = iteration

\* The retries and iterations end: so does the step.
StepEnds == <>(pc \in {"done", "raised"})
=============================================================================
