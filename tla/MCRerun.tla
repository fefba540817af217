------------------------------ MODULE MCRerun -------------------------------
(* Reruns of the pipelines with steps of every kind, from any of their steps. *)
EXTENDS Rerun, MCDurableRun

MCRerunPipelines == {Of(MCGroupUnits, "rerun", 0), Of(MCHumanUnits, "escalate", 0)}
=============================================================================
