---------------------------- MODULE MCAgentCall -----------------------------
EXTENDS AgentCall

CONSTANTS first, second, MaxAttempts

Common == [executor : Executors, template : Templates, timer : BOOLEAN]
\* The first call may be retried; the second is a verifier or a replay sample.
One(k, run, step) ==
  [run |-> run, step |-> step, agent |-> "a", after |-> first, valid |-> TRUE,
   executor |-> k.executor, template |-> k.template, timer |-> k.timer, verifies |-> FALSE,
   attempts |-> MaxAttempts]
Pair(k, run, step, after) ==
  [c \in Calls |-> IF c = first THEN One(k, "r", "s")
     ELSE [One(k, run, step) EXCEPT !.after = after, !.attempts = 1]]

Verified(k) == [Pair(k, "r", "s", first) EXCEPT ![second].verifies = TRUE]

\* A step and its verifier, which may not be configured; two steps of one agent; and the
\* calls of two runs at once, as a replay has beside the run it was recorded in.
MCWorlds ==
  UNION {{Verified(k), [Verified(k) EXCEPT ![second].valid = FALSE],
          Pair(k, "r", "t", first), Pair(k, "q", "s", second)} : k \in Common}
=============================================================================
