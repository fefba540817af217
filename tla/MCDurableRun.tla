---------------------------- MODULE MCDurableRun ----------------------------
(* Pipelines on which TLC checks DurableRun. *)
EXTENDS DurableRun

Plain(onFailure, onLow, when) ==
  [kind |-> "plain", width |-> 0, join |-> "all_must_pass", when |-> when,
   onFailure |-> onFailure, onLow |-> onLow, over |-> "items",
   timeout |-> FALSE, tok |-> 1, vtok |-> 0]
Human(onLow) ==
  [Plain("abort", onLow, 0) EXCEPT !.kind = "human", !.tok = 0]
Parallel(n, join, onLow, vtok) ==
  [Plain("abort", onLow, 0) EXCEPT !.kind = "parallel", !.width = n, !.join = join,
                                   !.timeout = TRUE, !.vtok = vtok]
FanOut(n, over, onLow, when) ==
  [Plain("abort", onLow, when) EXCEPT !.kind = "fan_out", !.width = n, !.over = over]

\* triage, a parallel group, an action taken only when triage was trusted
MCGroupUnits == <<Plain("continue", "abort", 0),
                  Parallel(2, "all_must_pass", "abort", 0),
                  Plain("abort", "escalate", 1)>>

\* triage, human approval, action: the shape of the HITL samples
MCHumanUnits == <<Plain("abort", "escalate", 0), Human("abort"),
                  Plain("continue", "proceed", 0)>>

\* a fan-out with a verifier between two plain steps, spending against a budget
MCBudgetUnits == <<Plain("continue", "proceed", 0),
                   [FanOut(2, "items", "proceed", 0) EXCEPT !.vtok = 1],
                   Plain("continue", "proceed", 1),
                   Plain("abort", "abort", 0)>>

\* fan-outs that never reach their branches, and a group any branch may pass
MCFanOutUnits == <<FanOut(0, "empty", "abort", 0),
                   Parallel(2, "any_must_pass", "escalate", 0),
                   Plain("abort", "abort", 0),
                   FanOut(0, "error", "abort", 3)>>

Of(units, onInterrupted, maxTokens) ==
  [units |-> units, onInterrupted |-> onInterrupted, maxTokens |-> maxTokens]

MCPipelines ==
  {Of(MCGroupUnits, "rerun", 0), Of(MCHumanUnits, "escalate", 0),
   Of(MCHumanUnits, "rerun", 0), Of(MCBudgetUnits, "rerun", 2),
   Of(MCFanOutUnits, "escalate", 0)}
=============================================================================
