---------------------------- MODULE MCPromotion -----------------------------
(***************************************************************************)
(* The instance on which TLC checks a pipeline's definition and its way to *)
(* production: ConfigStore, and Replay over Promotion.  No step of one     *)
(* touches a variable of the other, so a set-up explores one of them:      *)
(* conf.files is the one in which files are written, edited and loaded.    *)
(***************************************************************************)
EXTENDS Replay, ConfigStore

CONSTANTS s1, p1, p2

MCSteps == {s1}
MCPrompts == {p1, p2}

\* What a step's execution may come to; scores in tenths.
Good == [score |-> 9, check |-> "passed", status |-> "completed"]
Wrong == [score |-> 9, check |-> "failed", status |-> "completed"]
Unsure == [score |-> 4, check |-> "none", status |-> "escalated"]
Broken == [score |-> None, check |-> "none", status |-> "failed"]

Operations(n, now_) ==
  [minRuns |-> n, statuses |-> {"completed"}, maxAge |-> IF now_ THEN None ELSE 1, current |-> now_]
Confident(n) == [min |-> 6, minRuns |-> n, current |-> FALSE]
Judged(n) == [minMarked |-> n, minHuman |-> 1, min |-> 1, current |-> TRUE]
Calibrated(own) == [nMin |-> 1, max |-> 4, ownOnly |-> own, current |-> TRUE]

Plain == [s \in MCSteps |-> << >>]
Base ==
  [steps |-> MCSteps, kind |-> [s \in MCSteps |-> "step"], pipes |-> {"own"},
   kinds |-> {<<Good>>, <<Wrong>>}, marks |-> {}, runMarks |-> {}, stage |-> "testing",
   version |-> 1, gates |-> FALSE, reached |-> {TRUE}, safe |-> FALSE,
   house |-> NoCriteria, criteria |-> Plain,
   runs |-> 2, calls |-> 1, changes |-> 1, time |-> 0, files |-> FALSE]

\* Evidence of a plain step or a parallel group, judged by people; it ages, or it is that of
\* the current configuration.
Judging ==
  {[Base EXCEPT !.kind = [s \in MCSteps |-> k], !.marks = {"correct", "incorrect"},
                !.kinds = IF k = "step" THEN {<<Good>>, <<Broken>>} ELSE {<<Good, Broken>>},
                !.house = [NoCriteria EXCEPT !["operational"] = Operations(2, now_),
                                             !["confidence"] = Confident(2),
                                             !["accuracy"] = Judged(1)],
                !.runs = 3, !.changes = IF now_ THEN 2 ELSE 1, !.time = IF now_ THEN 0 ELSE 2] :
     k \in {"step", "parallel"}, now_ \in BOOLEAN}

\* Calibration with another pipeline's production evidence, or without.
Calibrating ==
  {[Base EXCEPT !.pipes = {"own", "other"}, !.kinds = {<<Good>>, <<Unsure>>},
                !.runMarks = {"correct", "incorrect"}, !.version = v,
                !.house = [NoCriteria EXCEPT !["calibration"] = Calibrated(own)],
                !.criteria = [s \in MCSteps |-> mine],
                !.runs = 3] :
     own \in BOOLEAN, v \in {1, None},
     mine \in {<< >>, [t \in {"operational"} |-> Operations(1, FALSE)], OptOut}}

\* Enforced gates in production, and a batch of replays beside them.
Gating ==
  {[Base EXCEPT !.kinds = {<<Wrong>>}, !.gates = TRUE, !.reached = BOOLEAN, !.time = 3]}
Replaying ==
  {[Base EXCEPT !.stage = "production", !.safe = TRUE, !.marks = {"partial"}, !.runs = 3]}

\* Files 1 to 3: 2 and 3 are a.yaml and b.yaml, 1 is an operator's.
Storing == {[Base EXCEPT !.files = TRUE]}

MCFiles == 1..3
MCFileOf == [n \in Names |-> IF n = "a" THEN 2 ELSE 3]

Step(n, v) == [name |-> n, ok |-> TRUE, version |-> v]
MCStepBodies == {Step("a", 1), Step("a", 2), Step("b", 1), [Step("a", 2) EXCEPT !.ok = FALSE]}

Pipe(n, u, own, cron) ==
  [name |-> n, ok |-> TRUE, use |-> u, own |-> own, schedule |-> cron,
   match |-> IF own THEN Severities ELSE {}]
MCPipeBodies == {Pipe("a", "a", FALSE, "valid"), Pipe("a", "a", TRUE, "invalid"),
                 Pipe("a", Absent, TRUE, "none"), Pipe("b", "b", FALSE, "valid"),
                 [Pipe("b", Absent, TRUE, "none") EXCEPT !.ok = FALSE]}

MCConfs == Judging \cup Calibrating \cup Gating \cup Replaying \cup Storing

MCInit == Init /\ StoreInit
MCNext ==
  \/ conf.files /\ StoreNext /\ UNCHANGED vars
  \/ ~conf.files /\ Next /\ UNCHANGED storeVars
MCSpec == MCInit /\ [][MCNext]_<<vars, storeVars>>
=============================================================================
