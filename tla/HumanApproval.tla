--------------------------- MODULE HumanApproval ----------------------------
(***************************************************************************)
(* Human-in-the-loop approvals: the asks of several runs, the futures that *)
(* the channel listeners and the UI resolve, the two timers around a wait, *)
(* the PendingApproval rows, retries, crashes and re-arming                *)
(* (service/src/executors/human.py; the attempt loop of                    *)
(* service/src/pipeline/runner.py _run_step_impl and _eval_human_check;    *)
(* service/src/db/database.py pending approvals).                          *)
(*                                                                         *)
(* A wait is asyncio.wait_for(asyncio.shield(future), timeout), inside     *)
(* another wait_for when the step sets timeout_seconds.  The outer timer   *)
(* is armed first with the same length, so it cancels the call before the  *)
(* inner one can fire; and a result reaches the waiter through the shield  *)
(* one turn of the event loop after the future is resolved (seen).         *)
(*                                                                         *)
(* A definition named Slip... is not part of the model: it is a plausible  *)
(* mistake in the definition that follows it, kept to show that a property *)
(* would notice.                                                           *)
(***************************************************************************)
EXTENDS Integers

CONSTANTS
  Askers,    \* human steps and human checks, each of its own run
  Kinds,     \* how an asker may be configured
  NoToken,
  MaxCrashes \* bound on the process deaths explored

(***************************************************************************)
(* testing: stage=testing, nothing is sent.  outer: the step sets          *)
(* timeout_seconds.  check: a human check of a step, never re-armed.       *)
(* attempts: retry.attempts.                                               *)
(***************************************************************************)
Kind == [testing : BOOLEAN, outer : BOOLEAN, check : BOOLEAN, attempts : Nat \ {0}]

ASSUME KindsAssumption ==
  Kinds \subseteq Kind /\ \A k \in Kinds : k.check => ~k.outer /\ k.attempts = 1
ASSUME BoundAssumption == MaxCrashes \in Nat

Tokens == Askers \X Nat
ASSUME NoTokenAssumption == NoToken \notin Tokens

VARIABLES
  kind,
  \* --- memory of the process
  pc, attempt, token, resume, answer, timer,
  fut,      \* _pending_approvals: the futures registered, by token
  seen,     \* resolved futures whose result has reached the waiter
  \* --- database
  saved,    \* tokens with a PendingApproval row
  \* --- the world, and history
  up,
  asks,     \* tokens each asker has drawn
  accepted, \* decisions resolve_approval returned True for
  crashes

call == <<pc, attempt, token, resume, answer, timer>>
world == <<kind, up, asks, accepted, crashes>>
vars == <<kind, call, fut, seen, saved, up, asks, accepted, crashes>>

Decisions == {"approved", "rejected"}
Answers == Decisions \cup {"none", "timeout", "error"}
PCs == {"idle", "loading", "saving", "sending", "waiting", "deleting", "returned",
        "done", "down"}
\* no timer yet; the step's timer has cancelled the call; the call has noticed;
\* the wait's own timer has fired
Timers == {"none", "cancelled", "noticed", "expired"}

Registered == DOMAIN fut
Register(t) == [u \in Registered \cup {t} |-> IF u = t THEN "pending" ELSE fut[u]]
SlipUnregister(t) == fut
Unregister(t) == [u \in Registered \ {t} |-> fut[u]]

TypeOK ==
  /\ kind \in [Askers -> Kinds] /\ pc \in [Askers -> PCs]
  /\ attempt \in [Askers -> Nat \ {0}] /\ asks \in [Askers -> Nat]
  /\ token \in [Askers -> Tokens \cup {NoToken}] /\ resume \in [Askers -> Tokens \cup {NoToken}]
  /\ \A a \in Askers : \A t \in {token[a], resume[a]} \ {NoToken} : t[1] = a
  /\ answer \in [Askers -> Answers] /\ timer \in [Askers -> Timers]
  /\ Registered \subseteq Tokens /\ \A t \in Registered : fut[t] \in Decisions \cup {"pending"}
  /\ seen \subseteq Tokens /\ saved \subseteq Tokens
  /\ up \in BOOLEAN /\ accepted \subseteq Tokens \X Decisions /\ crashes \in Nat

Init ==
  /\ kind \in [Askers -> Kinds]
  /\ pc = [a \in Askers |-> "idle"] /\ attempt = [a \in Askers |-> 1]
  /\ token = [a \in Askers |-> NoToken] /\ resume = [a \in Askers |-> NoToken]
  /\ answer = [a \in Askers |-> "none"] /\ timer = [a \in Askers |-> "none"]
  /\ fut = <<>> /\ seen = {} /\ saved = {}
  /\ up = TRUE /\ asks = [a \in Askers |-> 0] /\ accepted = {} /\ crashes = 0

-----------------------------------------------------------------------------
(* request_decision, up to the wait *)

GoTo(a, p) == pc' = [pc EXCEPT ![a] = p]
Notice(a) == timer' = [timer EXCEPT ![a] = IF @ = "cancelled" THEN "noticed" ELSE @]
AnswerWith(a, o) == answer' = [answer EXCEPT ![a] = o]

\* A fresh ask draws a token and registers its future before anything is saved.
AskAfresh(a) ==
  LET t == <<a, asks[a] + 1>> IN
  /\ pc[a] = "idle" /\ resume[a] = NoToken
  /\ token' = [token EXCEPT ![a] = t] /\ asks' = [asks EXCEPT ![a] = @ + 1]
  /\ fut' = Register(t) /\ GoTo(a, "saving")
  /\ UNCHANGED <<kind, attempt, resume, answer, timer, seen, saved, up, accepted, crashes>>

\* No channel is configured for the team: RuntimeError before any token is registered.
NoChannel(a) ==
  /\ pc[a] = "idle" /\ resume[a] = NoToken /\ ~kind[a].testing
  /\ AnswerWith(a, "error") /\ GoTo(a, "returned")
  /\ UNCHANGED <<attempt, token, resume, timer, fut, seen, saved, world>>

AskAgain(a) ==
  /\ pc[a] = "idle" /\ resume[a] # NoToken
  /\ token' = [token EXCEPT ![a] = resume[a]] /\ GoTo(a, "loading")
  /\ UNCHANGED <<attempt, resume, answer, timer, fut, seen, saved, world>>

\* The persisted row is looked up, the token's future registered, nothing is sent.
Load(a) ==
  /\ pc[a] = "loading" /\ timer[a] = "none"
  /\ fut' = Register(token[a]) /\ seen' = seen \ {token[a]} /\ GoTo(a, "waiting")
  /\ UNCHANGED <<attempt, token, resume, answer, timer, saved, world>>

\* save_pending_approval is best effort: the ask goes on without its row.
Save(a) ==
  /\ pc[a] = "saving" /\ timer[a] = "none"
  /\ saved' \in {saved, saved \cup {token[a]}}
  /\ GoTo(a, IF kind[a].testing THEN "waiting" ELSE "sending")
  /\ UNCHANGED <<attempt, token, resume, answer, timer, fut, seen, world>>

Send(a) ==
  /\ pc[a] = "sending" /\ timer[a] = "none"
  /\ GoTo(a, "waiting")
  /\ UNCHANGED <<attempt, token, resume, answer, timer, fut, seen, saved, world>>

\* Leaving the try block: the finally clause unregisters, then deletes the row.
LeaveTry(a, o) ==
  /\ AnswerWith(a, o) /\ fut' = Unregister(token[a]) /\ seen' = seen \ {token[a]}
  /\ GoTo(a, "deleting")
  /\ UNCHANGED <<attempt, token, resume, saved, world>>

SendFails(a) ==
  /\ pc[a] = "sending" /\ timer[a] = "none"
  /\ LeaveTry(a, "error") /\ UNCHANGED timer

-----------------------------------------------------------------------------
(* The two timers, and the wait *)

OuterFires(a) ==
  /\ kind[a].outer /\ timer[a] = "none"
  /\ pc[a] \in {"loading", "saving", "sending", "waiting", "deleting"}
  /\ timer' = [timer EXCEPT ![a] = "cancelled"]
  /\ UNCHANGED <<pc, attempt, token, resume, answer, fut, seen, saved, world>>

SlipExpires(a) == ~kind[a].outer /\ pc[a] = "waiting" /\ resume[a] = NoToken
Expires(a) == ~kind[a].outer /\ pc[a] = "waiting"

InnerFires(a) ==
  /\ Expires(a) /\ timer[a] = "none"
  /\ timer' = [timer EXCEPT ![a] = "expired"]
  /\ UNCHANGED <<pc, attempt, token, resume, answer, fut, seen, saved, world>>

\* Cancelled at an await outside the try block: nothing is unregistered or deleted.
CancelBeforeTry(a) ==
  /\ pc[a] \in {"loading", "saving"} /\ timer[a] = "cancelled"
  /\ saved' \in {saved} \cup (IF pc[a] = "saving" THEN {saved \cup {token[a]}} ELSE {})
  /\ AnswerWith(a, "timeout") /\ Notice(a) /\ GoTo(a, "returned")
  /\ UNCHANGED <<attempt, token, resume, fut, seen, world>>

CancelSending(a) ==
  /\ pc[a] = "sending" /\ timer[a] = "cancelled"
  /\ LeaveTry(a, "timeout") /\ Notice(a)

\* The shield's callback hands a result over one turn after the future is resolved,
\* unless the wait was cancelled in between.
Propagate(a) ==
  /\ pc[a] = "waiting" /\ timer[a] = "none"
  /\ token[a] \in Registered \ seen /\ fut[token[a]] # "pending"
  /\ seen' = seen \cup {token[a]}
  /\ UNCHANGED <<call, fut, saved, world>>

\* A result already handed over wins over a timer that fires later.
WakeDecided(a) ==
  /\ pc[a] = "waiting" /\ token[a] \in seen
  /\ LeaveTry(a, fut[token[a]]) /\ Notice(a)

SlipTimeoutAnswer(a) == IF timer[a] = "expired" THEN "approved" ELSE "timeout"
TimeoutAnswer(a) ==
  IF timer[a] = "expired" /\ kind[a].testing THEN "approved" ELSE "timeout"

WakeTimeout(a) ==
  /\ pc[a] = "waiting" /\ token[a] \notin seen /\ timer[a] \in {"cancelled", "expired"}
  /\ LeaveTry(a, TimeoutAnswer(a)) /\ Notice(a)

-----------------------------------------------------------------------------
(* The finally clause, and the attempt loop of the caller *)

Delete(a) ==
  /\ pc[a] = "deleting" /\ timer[a] # "cancelled"
  /\ saved' \in {saved, saved \ {token[a]}}
  /\ GoTo(a, "returned")
  /\ UNCHANGED <<attempt, token, resume, answer, timer, fut, seen, world>>

\* The step's timer fires while the row is being deleted: the answer is lost.
CancelDeleting(a) ==
  /\ pc[a] = "deleting" /\ timer[a] = "cancelled"
  /\ saved' \in {saved, saved \ {token[a]}}
  /\ AnswerWith(a, "timeout") /\ Notice(a) /\ GoTo(a, "returned")
  /\ UNCHANGED <<attempt, token, resume, fut, seen, world>>

Retries(a) == answer[a] \in {"timeout", "error"} /\ attempt[a] < kind[a].attempts

Retry(a) ==
  /\ pc[a] = "returned" /\ Retries(a)
  /\ attempt' = [attempt EXCEPT ![a] = @ + 1]
  /\ AnswerWith(a, "none") /\ timer' = [timer EXCEPT ![a] = "none"] /\ GoTo(a, "idle")
  /\ UNCHANGED <<token, resume, fut, seen, saved, world>>

\* The answer is the step's: its row is saved.
Finish(a) ==
  /\ pc[a] = "returned" /\ ~Retries(a)
  /\ GoTo(a, "done")
  /\ UNCHANGED <<attempt, token, resume, answer, timer, fut, seen, saved, world>>

-----------------------------------------------------------------------------
(* The humans, and the process *)

SlipUndecided(t) == t \in Registered /\ (fut[t] = "pending" \/ t \notin seen)
Undecided(t) == t \in Registered /\ fut[t] = "pending"

\* resolve_approval returns TRUE; when it returns FALSE it changes nothing.
ResolveApproval(t, d) ==
  /\ up /\ Undecided(t)
  /\ fut' = [fut EXCEPT ![t] = d] /\ accepted' = accepted \cup {<<t, d>>}
  /\ UNCHANGED <<kind, call, seen, saved, up, asks, crashes>>

\* The process dies.  An orderly shutdown cancels its tasks, so the finally clauses
\* of the tasks inside their try block may delete their rows: the tokens of gone.
Crash(gone) ==
  /\ up /\ crashes < MaxCrashes
  /\ up' = FALSE /\ crashes' = crashes + 1
  /\ saved' = saved \ gone
  /\ pc' = [a \in Askers |-> IF pc[a] = "done" THEN "done" ELSE "down"]
  /\ fut' = <<>> /\ seen' = {}
  /\ UNCHANGED <<kind, attempt, token, resume, answer, timer, asks, accepted>>

InTry == {token[a] : a \in {b \in Askers : pc[b] \in {"sending", "waiting", "deleting"}}}

OwnRows(a) == {t \in saved : t[1] = a}
\* Only a human step is re-armed, from whichever of its rows is listed last.
ReArm(a) == IF kind[a].check \/ OwnRows(a) = {} THEN {NoToken} ELSE OwnRows(a)

\* The durable runs are resumed: their unfinished asks start again.
Restart ==
  LET lost == {a \in Askers : pc[a] = "down"} IN
  /\ ~up /\ up' = TRUE
  /\ resume' \in {r \in [Askers -> {NoToken} \cup saved \cup {resume[b] : b \in Askers}] :
        \A a \in Askers : IF a \in lost THEN r[a] \in ReArm(a) ELSE r[a] = resume[a]}
  /\ pc' = [a \in Askers |-> IF a \in lost THEN "idle" ELSE pc[a]]
  /\ attempt' = [a \in Askers |-> IF a \in lost THEN 1 ELSE attempt[a]]
  /\ token' = [a \in Askers |-> IF a \in lost THEN NoToken ELSE token[a]]
  /\ answer' = [a \in Askers |-> IF a \in lost THEN "none" ELSE answer[a]]
  /\ timer' = [a \in Askers |-> IF a \in lost THEN "none" ELSE timer[a]]
  /\ UNCHANGED <<kind, fut, seen, saved, asks, accepted, crashes>>

-----------------------------------------------------------------------------
Start(a) == AskAfresh(a) \/ NoChannel(a) \/ AskAgain(a)
Enter(a) == Load(a) \/ Save(a) \/ Send(a) \/ SendFails(a)
Cancelled(a) == CancelBeforeTry(a) \/ CancelSending(a) \/ CancelDeleting(a)
Wake(a) == WakeDecided(a) \/ WakeTimeout(a)
Task(a) ==
  Start(a) \/ Enter(a) \/ Cancelled(a) \/ Wake(a) \/ Delete(a) \/ Retry(a) \/ Finish(a)

AllDone == \A a \in Askers : pc[a] = "done"
Terminating == AllDone /\ UNCHANGED vars

Next ==
  \/ \E a \in Askers : Task(a) \/ OuterFires(a) \/ InnerFires(a) \/ Propagate(a)
  \/ \E t \in Registered, d \in Decisions : ResolveApproval(t, d)
  \/ \E gone \in SUBSET InTry : Crash(gone)
  \/ Restart
  \/ Terminating

Timer(a) == OuterFires(a) \/ InnerFires(a)

\* The event loop runs every ready task, timers fire, the process is restarted.
\* Nobody owes an answer.
Fairness ==
  /\ \A a \in Askers : WF_vars(Task(a)) /\ WF_vars(Timer(a)) /\ WF_vars(Propagate(a))
  /\ WF_vars(Restart)

Spec == Init /\ [][Next]_vars /\ Fairness

-----------------------------------------------------------------------------
(* Safety *)

\* An entry of _pending_approvals, which the approvals page lists and the sidebar
\* counts, has a task behind it that will act on the decision, except once a step timer
\* has cancelled a call of this step, now or in an earlier attempt: before the try block
\* it leaves the entry behind (human.py request_decision: the registration precedes the
\* try whose finally undoes it).
ListedIsAwaited ==
  \A t \in Registered :
    LET a == t[1] IN
    \/ token[a] = t /\ pc[a] \in {"saving", "sending", "waiting"}
    \/ kind[a].outer /\ (attempt[a] > 1 \/ timer[a] = "noticed")

\* While a call is open to a decision its token is registered: a click on a button
\* that was delivered is never refused as unknown (human.py registers before it
\* sends, and re-registers the same token before it waits again).
AwaitedIsListed ==
  \A a \in Askers : pc[a] \in {"sending", "waiting"} => token[a] \in Registered

\* Behind every pending approval of the list is a call that will act on a decision, and a
\* call that waits for a human can be decided: a click that finds its token is never in
\* vain, nor is one refused while it is awaited (but for the step timer above).
ListedIffAwaited == ListedIsAwaited /\ AwaitedIsListed

\* A decision accepted for the current call is the answer, unless a timer fired, the
\* send failed, or the process died (human.py request_decision, resolve_approval).
DecisionLostOnlyByFailure ==
  \A a \in Askers, d \in Decisions :
    pc[a] \in {"deleting", "returned", "done"} /\ <<token[a], d>> \in accepted /\ answer[a] # d
      => timer[a] # "none" \/ answer[a] = "error" \/ crashes > 0

(* Refinement *)

Automatic == {a \in Askers : kind[a].testing /\ ~kind[a].outer}
Votes == {<<p[1][1], p[2]>> : p \in accepted}
Outcome(a) ==
  IF pc[a] # "done" THEN "none" ELSE IF answer[a] \in Decisions THEN answer[a] ELSE "failed"
Outcomes == [a \in Askers |-> Outcome(a)]

Abstract == INSTANCE Approval WITH automatic <- Automatic, votes <- Votes, outcome <- Outcomes

\* An ask ends approved or rejected only on a human's word, or, in testing and without
\* a step timer, when the wait expires; it ends once (request_decision, HumanExecutor).
ImplementsApproval == Abstract!Spec

(* Liveness *)

\* Nobody need ever answer: every ask of a run still ends (the timers of request_decision
\* and _run_step_impl, the bounded retries).
EveryAskEnds == \A a \in Askers : <>(pc[a] = "done")
=============================================================================
