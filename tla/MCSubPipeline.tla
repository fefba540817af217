--------------------------- MODULE MCSubPipeline ----------------------------
EXTENDS SubPipeline

CONSTANT MaxAttempts

\* A parent that is resumed calls again after each crash, one that is not retries: not
\* both, so that at most three child runs exist.  A timer need not fire.
Callers ==
  {c \in [timer : BOOLEAN, attempts : 1..MaxAttempts, parent : BOOLEAN, child : BOOLEAN,
          policy : {"rerun", "escalate"}] :
     /\ c.attempts > 1 => ~c.parent
     /\ ~c.timer => c.attempts = 1 /\ ~c.child
     /\ c.policy = "escalate" => c.parent \/ c.child}

Calling(c, continues, optional, budget, outcomes) ==
  [timer |-> c.timer, attempts |-> c.attempts, parent |-> c.parent, child |-> c.child,
   policy |-> c.policy, continues |-> continues, optional |-> optional, budget |-> budget,
   outcomes |-> outcomes]
Durable(c) == c.parent \/ c.child

\* Three outcomes where several children exist and both runs may be resumed; all of them,
\* and steps that are skipped, go on after a failure or exceed the budget, where nothing is
\* resumed; and a child that skips and goes on where one of the two is.
MCConfs ==
  {Calling(c, FALSE, FALSE, FALSE, {"high", "low", "broken"}) : c \in Callers}
  \cup {Calling(c, continues, x, x, Outcomes) :
          c \in {d \in Callers : ~Durable(d)}, continues \in BOOLEAN, x \in BOOLEAN}
  \cup {Calling(c, TRUE, TRUE, FALSE, {"high", "broken"}) :
          c \in {d \in Callers : Durable(d) /\ ~(d.parent /\ d.child)}}
=============================================================================
