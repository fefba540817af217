----------------------------- MODULE Promotion ------------------------------
(***************************************************************************)
(* A pipeline on its way from testing to production: its runs and those of *)
(* another pipeline that uses the same library step leave rows, people     *)
(* mark them, prompts and agents are changed under way, the owner asks for *)
(* readiness, and enforced gates read production's buckets through a cache *)
(* (service/src/readiness.py, pipeline/calibration.py CalibrationCache,    *)
(* main.py feedback and promotion-readiness endpoints; the pipeline's      *)
(* configuration is that of ConfigStore after a reload).                   *)
(*                                                                         *)
(* A call is one step of one run, from the moment the run has taken its    *)
(* configuration; module DurableRun has the run, StepGate the gate.        *)
(*                                                                         *)
(* A definition named Slip... is not part of the model: it is a plausible  *)
(* mistake in the definition that follows it.                              *)
(***************************************************************************)
EXTENDS Readiness

CONSTANTS
  Confs,    \* how the pipeline may be set up, what its calls may come to, and the bounds on
            \* what is explored: conf.runs, conf.calls at once, conf.changes and conf.time
  Gates,    \* tasks whose gate looks up a bucket
  TTL       \* cache_ttl_seconds, in ticks of now

ASSUME TTLAssumption == TTL \in Nat /\ Prompts # {}

\* kind: what one execution, or one branch of a group, comes to.
Kind == [score : Int \cup {None}, check : {"failed", "passed", "none"}, status : Statuses]

ASSUME ConfsAssumption ==
  \A c \in Confs :
    /\ c.steps \subseteq Steps /\ c.pipes \subseteq {"own", "other"}
    /\ \A kinds \in c.kinds :
         /\ DOMAIN kinds \subseteq Nat /\ IsFiniteSet(DOMAIN kinds)
         /\ kinds \in [DOMAIN kinds -> Kind]
    /\ c.marks \cup c.runMarks \subseteq Outcomes
    /\ c.stage \in Stages /\ c.version \in Nat \cup {None}
    /\ \A t \in Tiers : c.house[t] \in Criteria(t) \cup {None}
    /\ \A s \in c.steps :
         \/ c.criteria[s] = OptOut
         \/ \A t \in Tiers \cap DOMAIN c.criteria[s] :
              c.criteria[s][t] \in Criteria(t) \cup {None}

VARIABLES
  conf,
  prompt, stage,     \* the served configuration
  deployed,          \* version of the agent behind the gateway
  calls,             \* step calls in flight, with the configuration they captured
  rows, runs,        \* pipeline_steps joined to their runs and marks; runs stored
  snapshots,         \* agent_version_snapshots: the version whose definition was stored
  changes,           \* changes of configuration so far
  now,
  cache, gates, used \* buckets in memory; lookups under way; what the last one used

config == <<prompt, stage, deployed, changes>>
evidence == <<calls, rows, runs, snapshots>>
lookup == <<cache, gates, used>>
promotionVars == <<conf, config, evidence, now, lookup>>

-----------------------------------------------------------------------------
(* Runs and what they store. *)

\* The other pipeline is in production and never changes.
FirstPrompt == CHOOSE p \in Prompts : TRUE
Captured(pipe, s) ==
  [pipe |-> pipe, step |-> s, version |-> deployed,
   prompt |-> IF pipe = "own" THEN prompt[s] ELSE FirstPrompt,
   stage |-> IF pipe = "own" THEN stage ELSE "production"]

Begin(pipe, s) ==
  /\ Cardinality(calls) < conf.calls
  /\ runs + Cardinality(calls) < conf.runs
  /\ calls' = calls \cup {Captured(pipe, s)}
  /\ calls' # calls
  /\ UNCHANGED <<conf, config, rows, runs, snapshots, now, lookup>>

\* record_agent_version: of a version it has not seen it asks the gateway, which answers
\* with what is deployed by then; any other definition than the version's own is not kept.
SlipDefinition(v, reached) == IF reached THEN deployed ELSE None
Definition(v, reached) == IF reached /\ deployed = v THEN v ELSE None
Snapshot(stored, reached) ==
  snapshots' = [v \in DOMAIN snapshots \cup {r.version : r \in Versioned(stored)} |->
                  IF v \in DOMAIN snapshots THEN snapshots[v] ELSE Definition(v, reached)]

\* kind: score, check and status.  A group stores a row per branch, all of one run; a
\* branch or step that failed has no output, so no agent version either.
StoredRow(call, kind, b) ==
  [run |-> runs + 1, branch |-> b, nth |-> 0, step |-> call.step, pipe |-> call.pipe,
   stage |-> call.stage, prompt |-> call.prompt,
   version |-> IF kind.status = "failed" THEN None ELSE call.version,
   score |-> kind.score, check |-> kind.check, status |-> kind.status, at |-> now,
   mark |-> None, runMark |-> None]

Finish(call, kinds, reached) ==
  LET stored == {StoredRow(call, kinds[b], b) : b \in DOMAIN kinds} IN
  /\ rows' = rows \cup stored
  /\ Snapshot(stored, reached)
  /\ runs' = runs + 1
  /\ calls' = calls \ {call}
  /\ UNCHANGED <<conf, config, now, lookup>>

-----------------------------------------------------------------------------
(* Marks: one per step execution and one per run, written or overwritten.  A step is   *)
(* found by its run and its name, and the query must return one row.                   *)

SameName(r) == {q \in rows : q.run = r.run /\ q.step = r.step /\ q.branch = r.branch}

MarkStep(r, outcome) ==
  /\ Cardinality(SameName(r)) = 1
  /\ rows' = (rows \ {r}) \cup {[r EXCEPT !.mark = outcome]}
  /\ rows' # rows
  /\ UNCHANGED <<conf, config, calls, runs, snapshots, now, lookup>>

MarkRun(n, outcome) ==
  /\ rows' = {IF r.run = n THEN [r EXCEPT !.runMark = outcome] ELSE r : r \in rows}
  /\ rows' # rows
  /\ UNCHANGED <<conf, config, calls, runs, snapshots, now, lookup>>

-----------------------------------------------------------------------------
(* Changes of configuration: an edit and its reload; the gateway's own. *)

OneMore == changes < conf.changes /\ changes' = changes + 1
Change ==
  /\ OneMore
  /\ UNCHANGED <<conf, evidence, now, lookup>>

EditPrompt(s, p) ==
  /\ Change
  /\ p # prompt[s] /\ prompt' = [prompt EXCEPT ![s] = p]
  /\ UNCHANGED <<stage, deployed>>

Promote ==
  /\ Change
  /\ stage = "testing" /\ stage' = "production"
  /\ UNCHANGED <<prompt, deployed>>

Redeploy ==
  /\ Change
  /\ deployed # None /\ deployed' = deployed + 1
  /\ UNCHANGED <<prompt, stage>>

Tick == now < conf.time /\ now' = now + 1 /\ UNCHANGED <<conf, config, evidence, lookup>>

-----------------------------------------------------------------------------
(* CalibrationCache.  started: the time an expired lookup took before it awaited the  *)
(* scan; asOf (history): when the scan ran.                                           *)

NoCache == [samples |-> {}, asOf |-> 0, computedAt |-> -(TTL + 1)]
Idle == [pc |-> "idle", started |-> 0, samples |-> {}, asOf |-> 0]
Fresh == now - cache.computedAt <= TTL

\* Nothing is awaited between the check, or the assignment, and the read of the buckets.
Reads(c, started) == used' = [samples |-> c.samples, asOf |-> c.asOf, started |-> started]

LookUpFresh(g) ==
  /\ conf.gates /\ gates[g].pc = "idle"
  /\ Fresh
  /\ Reads(cache, now)
  /\ used' # used
  /\ UNCHANGED <<conf, config, evidence, now, cache, gates>>

LookUpExpired(g) ==
  /\ conf.gates /\ gates[g].pc = "idle"
  /\ ~Fresh
  /\ gates' = [gates EXCEPT ![g] = [Idle EXCEPT !.pc = "scanning", !.started = now]]
  /\ UNCHANGED <<conf, config, evidence, now, cache, used>>

Scanned == FetchStage(rows, "production")

Scan(g) ==
  /\ gates[g].pc = "scanning"
  /\ gates' = [gates EXCEPT ![g] = [@ EXCEPT !.pc = "storing", !.asOf = now,
                                       !.samples = BucketSamples(Scanned, "production")]]
  /\ UNCHANGED <<conf, config, evidence, now, cache, used>>

SlipComputed(g) == [samples |-> gates[g].samples, asOf |-> gates[g].asOf, computedAt |-> now]
Computed(g) ==
  [samples |-> gates[g].samples, asOf |-> gates[g].asOf, computedAt |-> gates[g].started]

Store(g) ==
  /\ gates[g].pc = "storing"
  /\ cache' = Computed(g)
  /\ Reads(cache', gates[g].started)
  /\ gates' = [gates EXCEPT ![g] = Idle]
  /\ UNCHANGED <<conf, config, evidence, now>>

-----------------------------------------------------------------------------
(* Readiness, computed anew on every request. *)

SpecOf(s) ==
  [kind |-> conf.kind[s], prompt |-> prompt[s],
   criteria |-> Effective(conf.house, conf.criteria[s])]
Own(s) == {r \in FetchOf(rows, stage, "own") : r.step = s}
Production(s) == {r \in FetchStage(rows, "production") : r.step = s}
Verdict(s) == StepVerdict(SpecOf(s), Own(s), Production(s), now)
PipelineVerdict == RollUp({Verdict(s) : s \in conf.steps})

-----------------------------------------------------------------------------
PromotionInit ==
  /\ conf \in Confs
  /\ prompt = [s \in Steps |-> FirstPrompt]
  /\ stage = conf.stage /\ deployed = conf.version
  /\ calls = {} /\ rows = {} /\ runs = 0 /\ snapshots = << >> /\ changes = 0 /\ now = 0
  /\ cache = NoCache /\ gates = [g \in Gates |-> Idle]
  /\ used = [samples |-> {}, asOf |-> 0, started |-> 0]

PromotionNext ==
  \/ \E pipe \in conf.pipes, s \in conf.steps : Begin(pipe, s)
  \/ \E call \in calls, kinds \in conf.kinds, reached \in conf.reached :
       Finish(call, kinds, reached)
  \/ \E r \in rows, outcome \in conf.marks : MarkStep(r, outcome)
  \/ \E n \in 1 .. runs, outcome \in conf.runMarks : MarkRun(n, outcome)
  \/ \E s \in conf.steps, p \in Prompts : EditPrompt(s, p)
  \/ Promote \/ Redeploy \/ Tick
  \/ \E g \in Gates : LookUpFresh(g) \/ LookUpExpired(g) \/ Scan(g) \/ Store(g)

-----------------------------------------------------------------------------
(* Properties. *)

\* What a step has done: the rows of its own pipeline in the stage that is in now.
Done(s) == {r \in rows : r.pipe = "own" /\ r.step = s /\ r.stage = stage}

\* A row of the step as it stands: with its prompt of now (a parallel group has none of its
\* own) and the agent version that the last run to report one had.
LastReported(s) ==
  {r \in Versioned(Done(s)) : \A q \in Versioned(Done(s)) : q.run <= r.run}
AsItStands(s, r) ==
  /\ conf.kind[s] # "parallel" => r.prompt = prompt[s]
  /\ LastReported(s) = {} => r.version = None
  /\ \A q \in LastReported(s) : r.version = q.version

\* All that a tier is to go by.
Evidence(cfg, s) == {r \in Done(s) : cfg.current => AsItStands(s, r)}

\* Enough runs young enough, every branch of each in an acceptable status; but a failed
\* branch is no part of it when the tier asks for the current configuration, since it has
\* no agent version.
OperationalEarned(cfg, s) ==
  LET Young(r) == cfg.maxAge # None => r.at + cfg.maxAge >= now
      Clean(n) == \A r \in Done(s) :
                    r.run = n => \/ r.status \in cfg.statuses
                                 \/ r.status = "failed" /\ r \notin Evidence(cfg, s)
  IN Cardinality({n \in {r.run : r \in {q \in Evidence(cfg, s) : Young(q)}} : Clean(n)})
       >= cfg.minRuns

\* Enough scores, and the mean of all of them high enough.
ConfidenceEarned(cfg, s) ==
  LET S == Scored(Evidence(cfg, s)) IN
  /\ S # {} /\ (cfg.minRuns # None => Cardinality(S) >= cfg.minRuns)
  /\ MapThenSumSet(LAMBDA r : r.score, S) >= Cardinality(S) * cfg.min

\* Enough labels, enough of them a human's, and the mean of all of them high enough.
AccuracyEarned(cfg, s) ==
  LET S == {r \in Evidence(cfg, s) : Labelled(r)} IN
  /\ Cardinality(S) >= cfg.minMarked
  /\ cfg.minHuman # None => Cardinality({r \in S : r.mark # None}) >= cfg.minHuman
  /\ LabelSum(S) >= Cardinality(S) * cfg.min

\* The step's own labelled scores and, unless the owner wants no others, production's of
\* the identical configuration, whichever pipeline's: some bin holds enough of them, and
\* none that does is off.
CalibrationEarned(cfg, s) ==
  LET shared == {r \in rows : r.step = s /\ r.stage = "production" /\ r.score # None}
      pools == {Done(s)} \cup (IF cfg.ownOnly THEN {} ELSE {shared})
      ToGoBy == {SamplesOf(pool, Key(r)) :
                   pool \in pools, r \in {q \in UNION pools : AsItStands(s, q)}}
  IN /\ \E S \in ToGoBy, i \in Bins : Cardinality(Binned(S, i)) >= cfg.nMin
     /\ \A S \in ToGoBy, i \in Bins :
          Cardinality(Binned(S, i)) >= cfg.nMin => ~Diverges(S, i, cfg.max)

\* A pipeline is told it is ready only if each tier its owner asked for is met by the whole
\* of what that tier is to go by, whatever was edited, promoted, redeployed or marked since
\* the runs: no row of another stage, prompt or agent version is among it, and none of the
\* step as it stands is left out.
StepEarned(s) ==
  LET criteria == Effective(conf.house, conf.criteria[s])
      Holds(t, P(_, _)) == criteria[t] # None => P(criteria[t], s)
  IN /\ Holds("operational", OperationalEarned)
     /\ Holds("confidence", ConfidenceEarned)
     /\ Holds("accuracy", AccuracyEarned)
     /\ Holds("calibration", CalibrationEarned)
ReadyIsEarned == PipelineVerdict = "ready" => \A s \in conf.steps : StepEarned(s)

\* However many gates find the cache expired at once and in whatever order they finish:
\* what a gate uses was true at most one TTL before it asked, and comes from rows of
\* production alone, none of which a test run or a replay can have stored.
LookupIsSound ==
  /\ used.asOf >= used.started - TTL
  /\ \A x \in used.samples :
       \E r \in rows : r.run = x.run /\ r.branch = x.branch /\ r.stage = "production"
                       /\ r.pipe # "replay"

\* Whatever is redeployed while a call is out or an answer is being stored, a stored agent
\* definition is that of the version it is kept under, and no row names a version that the
\* registry does not know.
SnapshotsAreHonest ==
  /\ \A v \in DOMAIN snapshots : snapshots[v] \in {None, v}
  /\ \A r \in Versioned(rows) : r.version \in DOMAIN snapshots
=============================================================================
