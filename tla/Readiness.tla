----------------------------- MODULE Readiness ------------------------------
(***************************************************************************)
(* Is a pipeline ready for promotion?  The owner's criteria, merged from   *)
(* pipeline and step, and the four tiers evaluated over the rows stored    *)
(* for the pipeline's own stage (service/src/readiness.py; models/         *)
(* pipeline.py Readiness...Config).                                        *)
(***************************************************************************)
EXTENDS Calibration

Tiers == {"operational", "confidence", "accuracy", "calibration"}

\* What an owner may ask of a tier.
Criteria(t) ==
  CASE t = "operational" -> [minRuns : Nat \ {0}, statuses : SUBSET Statuses,
                             maxAge : (Nat \ {0}) \cup {None}, current : BOOLEAN]
    [] t = "confidence" -> [min : Nat, minRuns : (Nat \ {0}) \cup {None}, current : BOOLEAN]
    [] t = "accuracy" -> [min : Nat, minMarked : Nat \ {0}, minHuman : Nat \cup {None},
                          current : BOOLEAN]
    [] t = "calibration" -> [nMin : Nat \ {0}, max : Nat, ownOnly : BOOLEAN, current : {TRUE}]
NoCriteria == [t \in Tiers |-> None]

\* What a step may write under readiness: is a function on the tiers it mentions, or
\* null for the whole block.
CONSTANT OptOut
Effective(house, own) ==
  IF own = OptOut THEN NoCriteria
  ELSE [t \in Tiers |-> IF t \in DOMAIN own THEN own[t] ELSE house[t]]

-----------------------------------------------------------------------------
(* Current configuration.  rows: those of one step in one pipeline and stage.  A spec *)
(* is [kind, prompt, criteria].                                                       *)

Versioned(rows) == {r \in rows : r.version # None}
LatestVersion(rows) ==
  IF Versioned(rows) = {} THEN None
  ELSE (CHOOSE r \in Versioned(rows) : \A q \in Versioned(rows) : q.run <= r.run).version

SlipPromptFits(r, spec) == TRUE
PromptFits(r, spec) == spec.kind = "parallel" \/ r.prompt = spec.prompt
IsCurrent(r, spec, rows) == PromptFits(r, spec) /\ r.version = LatestVersion(rows)

Counted(cfg, spec, rows) == {r \in rows : cfg.current => IsCurrent(r, spec, rows)}

-----------------------------------------------------------------------------
(* The tiers. *)

Operational(cfg, spec, rows, now) ==
  LET recent == {r \in Counted(cfg, spec, rows) :
                   cfg.maxAge # None => r.at + cfg.maxAge >= now}
      acceptable == {n \in {r.run : r \in recent} :
                       \A r \in recent : r.run = n => r.status \in cfg.statuses}
  IN IF Cardinality(acceptable) >= cfg.minRuns THEN "pass" ELSE "insufficient_data"

Confidence(cfg, spec, rows) ==
  LET scored == Scored(Counted(cfg, spec, rows))
      n == Cardinality(scored)
  IN IF n = 0 \/ (cfg.minRuns # None /\ n < cfg.minRuns) THEN "insufficient_data"
     ELSE IF MapThenSumSet(LAMBDA r : r.score, scored) < n * cfg.min THEN "fail"
     ELSE "pass"

Accuracy(cfg, spec, rows) ==
  LET marked == {r \in Counted(cfg, spec, rows) : Labelled(r)}
      n == Cardinality(marked)
      human == {r \in marked : Source(r) = "human"}
  IN IF n < cfg.minMarked \/ (cfg.minHuman # None /\ Cardinality(human) < cfg.minHuman)
       THEN "insufficient_data"
     ELSE IF LabelSum(marked) < n * cfg.min THEN "fail"
     ELSE "pass"

\* Per combination and view, own evidence and production's; one flagged bin fails all.
CalibrationTier(cfg, spec, rows, production) ==
  LET views == {rows} \cup (IF cfg.ownOnly THEN {} ELSE {Scored(production)})
      keys == {Key(r) : r \in {q \in UNION views : IsCurrent(q, spec, rows)}}
      samples == {SamplesOf(v, k) : v \in views, k \in keys}
      clean == {s \in samples : \E i \in Bins : Validated(s, i, cfg.nMin)}
  IN IF \E s \in samples : Flagged(s, cfg.nMin, cfg.max) THEN "fail"
     ELSE IF clean # {} THEN "pass"
     ELSE "insufficient_data"

\* own: the step's rows of this pipeline in its stage; production: every pipeline's
\* production rows of a step of that name.
TierVerdict(t, spec, own, production, now) ==
  LET cfg == spec.criteria[t] IN
  IF cfg = None THEN "not_configured"
  ELSE CASE t = "operational" -> Operational(cfg, spec, own, now)
         [] t = "confidence" -> Confidence(cfg, spec, own)
         [] t = "accuracy" -> Accuracy(cfg, spec, own)
         [] t = "calibration" -> CalibrationTier(cfg, spec, own, production)

StepVerdict(spec, own, production, now) ==
  LET tiers == {TierVerdict(t, spec, own, production, now) : t \in Tiers} IN
  IF "fail" \in tiers THEN "not_ready"
  ELSE IF "insufficient_data" \in tiers THEN (IF own = {} THEN "no_data" ELSE "building")
  ELSE IF "pass" \in tiers THEN "ready"
  ELSE "not_configured"

RollUp(verdicts) ==
  IF "not_ready" \in verdicts THEN "not_ready"
  ELSE IF verdicts \cap {"building", "no_data"} # {} THEN "building"
  ELSE IF "ready" \in verdicts THEN "ready"
  ELSE "not_configured"
=============================================================================
