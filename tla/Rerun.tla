------------------------------- MODULE Rerun --------------------------------
(***************************************************************************)
(* A manual rerun: a run of its own that is to start at a given step, with *)
(* the outputs of the steps before it taken from an earlier run            *)
(* (service/src/main.py rerun_from_step; pipeline/replay_context.py        *)
(* group_prior_step_outputs; pipeline/runner.py _run_pipeline_body).       *)
(*                                                                         *)
(* It is a DurableRun in every other respect: it writes rows under its own *)
(* id, it can die anywhere, and the sweep resumes it like any other.       *)
(***************************************************************************)
EXTENDS DurableRun

VARIABLES
  from,    \* from_step, 0 in a run that is no rerun
  given,   \* initial_step_outputs
  skipping \* in memory: the loop has not come to from_step yet

rerun == <<from, given, skipping>>
rerunVars == <<vars, rerun>>

\* Any earlier run of the pipeline may have left any output for the units before i.
Given(i) ==
  {o \in [Keys -> Vals \cup {"none"}] : \A k \in Keys : k[1] >= i => o[k] = "none"}

\* from_step names a plain or human step.
RerunInit ==
  /\ Init
  /\ from \in {0} \cup {i \in Ids : IsStep(i)}
  /\ given \in Given(from)
  /\ skipping = (from # 0)

\* Nothing is awaited on the way to the step: the earlier ones are passed over without a
\* row, with their outputs in memory.
SkipToStep ==
  /\ pc = "head" /\ skipping
  /\ cur' = from /\ outs' = given /\ skipping' = FALSE
  /\ UNCHANGED <<pipeline, db, pc, gapSpent, spent, got, result, final, loop, history,
                 from, given>>

RunsOn == ~skipping /\ Next /\ UNCHANGED rerun

\* The sweep hands back the pipeline, the context and the id: the resumed run is told
\* neither where it was to start nor what it had been given.
DiesAtOnce ==
  /\ skipping /\ Crash
  /\ skipping' = FALSE
  /\ UNCHANGED <<pipeline, from, given>>

RerunNext == SkipToStep \/ RunsOn \/ DiesAtOnce

RerunSpec == RerunInit /\ [][RerunNext]_rerunVars

-----------------------------------------------------------------------------
(* A claim of the source that the code does not keep *)

\* main.py:1472-1474, of a rerun: "Prior step outputs are loaded from the original run's
\* DB rows ... without re-executing those steps".
EarlierStepsStayUnexecuted == \A k \in Keys : k[1] < from => execs[k] = 0
=============================================================================
