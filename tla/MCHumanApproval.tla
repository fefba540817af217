-------------------------- MODULE MCHumanApproval ---------------------------
EXTENDS Listeners

CONSTANT MaxAttempts

\* Every configuration of a human step up to MaxAttempts attempts, and the human check
\* in both stages.
MCKinds ==
  {k \in [testing : BOOLEAN, outer : BOOLEAN, check : BOOLEAN, attempts : 1..MaxAttempts] :
     k.check => ~k.outer /\ k.attempts = 1}

\* Decided in the UI in every configuration; over either channel as a step of one attempt.
MCSetups ==
  [channel : {"none"}, ui : {TRUE}, kind : MCKinds]
    \cup [channel : {"telegram", "slack"}, ui : {FALSE},
          kind : {k \in MCKinds : ~k.testing /\ ~k.check /\ k.attempts = 1}]
=============================================================================
