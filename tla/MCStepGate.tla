---------------------------- MODULE MCStepGate ------------------------------
EXTENDS StepGate

Plain ==
  [attempts |-> 1, iterations |-> 1, target |-> 0,
   verifier |-> "off", floor |-> 0, always |-> FALSE, below |-> Scale, above |-> 0,
   calibration |-> "off", grounding |-> "off", checks |-> 0,
   threshold |-> 1, onLow |-> "escalate"]

\* A retried, refined and verified step; a step gated by every signal; and the same
\* steps with a threshold nothing can be below.
MCConfigs ==
  {[Plain EXCEPT !.attempts = 2, !.iterations = 2, !.target = 2, !.verifier = v, !.floor = 1,
                 !.always = a, !.below = 2, !.onLow = o] :
     v \in {"off", "minimum", "veto"}, a \in BOOLEAN, o \in {"abort", "proceed"}}
  \cup
  {[Plain EXCEPT !.calibration = c, !.grounding = g, !.checks = n, !.threshold = t] :
     c \in {"off", "proceed", "escalate"}, g \in {"off", "shadow", "enforce"},
     n \in {0, 2}, t \in {0, 1}}

\* Out of range below, the scale, out of range above, not a number.
MCAnswers == {-1, 0, 1, 2, 3, NaN}
=============================================================================
