---------------------------- MODULE Calibration -----------------------------
(***************************************************************************)
(* What recorded executions say of a step: the label of a row, the rows a  *)
(* question is asked of, the bins of a calibration bucket and the bin a    *)
(* new score is judged by (service/src/pipeline/calibration.py).           *)
(*                                                                         *)
(* Scores are whole numbers of which Scale stands for 1.0; a label is      *)
(* counted in halves.  agent, model and provider do not change here, so a  *)
(* bucket's key is the prompt and the agent version.                       *)
(*                                                                         *)
(* A definition named Slip... is not part of the model: it is a plausible  *)
(* mistake in the definition that follows it.                              *)
(***************************************************************************)
EXTENDS Integers, FiniteSets, FiniteSetsExt

CONSTANTS
  Steps, Prompts,
  Scale, BinWidth, \* 1.0 and bin_width in the same unit
  None

ASSUME BinsAssumption ==
  /\ Scale \in Nat \ {0} /\ BinWidth \in Nat \ {0}
  /\ Scale % BinWidth = 0

(***************************************************************************)
(* A pipeline_steps row, with what is joined to it: the run's pipeline and *)
(* stage, the mark on the step and the mark on the run.  run numbers the   *)
(* runs in the order their rows are stored, branch a group's branches, nth *)
(* the rows a replay batch stores under one name; at is executed_at, in    *)
(* days.                                                                   *)
(***************************************************************************)
Outcomes == {"correct", "partial", "incorrect"}
Stages == {"testing", "production"}
Statuses == {"completed", "failed", "aborted", "escalated", "stopped"}
Row == [run : Nat, branch : Nat, nth : Nat, step : Steps, pipe : {"own", "other", "replay"},
        stage : Stages, prompt : Prompts \cup {None}, version : Nat \cup {None},
        score : Int \cup {None}, check : {"failed", "passed", "none"},
        status : Statuses,
        at : Nat, mark : Outcomes \cup {None}, runMark : Outcomes \cup {None}]

-----------------------------------------------------------------------------
(* Labels: a human's mark of the step, else a failed check, else the run's mark. *)

Worth == [correct |-> 2, partial |-> 1, incorrect |-> 0]

Labelled(r) == r.mark # None \/ r.check = "failed" \/ r.runMark # None
Label(r) ==
  IF r.mark # None THEN Worth[r.mark]
  ELSE IF r.check = "failed" THEN 0
  ELSE Worth[r.runMark]
Source(r) ==
  IF r.mark # None THEN "human"
  ELSE IF r.check = "failed" THEN "check"
  ELSE "run"

-----------------------------------------------------------------------------
(* Bins are half-open, but the last one, which includes 1.0. *)

Bins == 0 .. Scale \div BinWidth - 1
LastBin == Scale \div BinWidth - 1
Lo(i) == i * BinWidth
Hi(i) == Lo(i) + BinWidth

InBin(score, i) == Lo(i) <= score /\ (score < Hi(i) \/ (i = LastBin /\ score = Hi(i)))

\* A score above 1.0 is looked up in the last bin, where none is ever counted.
LookupBin(score) ==
  IF \E i \in Bins : Lo(i) <= score /\ score < Hi(i)
  THEN CHOOSE i \in Bins : Lo(i) <= score /\ score < Hi(i)
  ELSE IF score >= Lo(LastBin) THEN LastBin
  ELSE None

Binned(samples, i) == {r \in samples : InBin(r.score, i)}
LabelSum(samples) == MapThenSumSet(Label, samples)

\* |mean label - midpoint of the bin| >= max, cross-multiplied.
Off(samples, i) ==
  LET n == Cardinality(Binned(samples, i))
      d == LabelSum(Binned(samples, i)) * Scale - n * (Lo(i) + Hi(i))
  IN IF d < 0 THEN -d ELSE d
Diverges(samples, i, max) == Off(samples, i) >= 2 * Cardinality(Binned(samples, i)) * max

Validated(samples, i, nMin) == Cardinality(Binned(samples, i)) >= nMin
Flagged(samples, nMin, max) ==
  \E i \in Bins : Validated(samples, i, nMin) /\ Diverges(samples, i, max)

-----------------------------------------------------------------------------
(* fetch_label_rows, and the buckets made of what it returns. *)

FetchStage(rows, stage) == {r \in rows : r.stage = stage}
FetchOf(rows, stage, pipe) == {r \in FetchStage(rows, stage) : r.pipe = pipe}
Scored(rows) == {r \in rows : r.score # None}

Key(r) == <<r.prompt, r.version>>
SamplesOf(rows, key) == {r \in rows : r.score # None /\ Labelled(r) /\ Key(r) = key}

\* compute_calibration_buckets: the step, the key and the labelled scores of each.
BucketSamples(rows, stage) ==
  {[run |-> r.run, branch |-> r.branch, nth |-> r.nth, step |-> r.step, key |-> Key(r), score |-> r.score,
    label |-> Label(r), source |-> Source(r)] :
     r \in {q \in Scored(FetchStage(rows, stage)) : Labelled(q)}}
=============================================================================
