------------------------------ MODULE Listeners ------------------------------
(***************************************************************************)
(* How a human's decision reaches an ask: the message with its buttons,    *)
(* the update waiting at Telegram or Slack, the listener that fetches it,  *)
(* and resolve_approval (service/src/notifications/telegram_poller.py,     *)
(* slack_poller.py; ui/approvals.py; their start in main.py lifespan).     *)
(* Telegram also carries /run commands, which start a pipeline.            *)
(*                                                                         *)
(* The asks are those of HumanApproval, composed unchanged.  Telegram      *)
(* holds an update until a later getUpdates names a higher offset, and the *)
(* poller's offset lives in memory; a Slack envelope is acknowledged       *)
(* before it is handled.  Both listeners start before the interrupted runs *)
(* are resumed.                                                            *)
(*                                                                         *)
(* A definition named Slip... is not part of the model: it is a plausible  *)
(* mistake in the definition that follows it.                              *)
(***************************************************************************)
EXTENDS HumanApproval, Sequences, FiniteSets

CONSTANTS
  Setups,    \* how the asks may be configured, and over which channel they are sent
  MaxUpdates,    \* bound on clicks and commands
  MaxMailCrashes \* bound on the deaths explored where a listener runs

ASSUME UpdatesAssumption ==
  /\ {MaxUpdates, MaxMailCrashes} \subseteq Nat
  /\ Setups \subseteq [channel : {"telegram", "slack", "none"}, ui : BOOLEAN, kind : Kinds]

VARIABLES
  channel,
  ui,        \* is the approvals page used too?
  log,       \* the updates people have caused, in order
  gone,      \* those the channel will not deliver again
  offset,    \* the poller's
  inHand,    \* updates received and not yet handled
  handled, missed, started \* history: updates handled, clicks without effect, runs begun

mail == <<channel, ui, log, gone, offset, inHand, handled, missed, started>>
allVars == <<vars, mail>>

Ids == 1 .. Len(log)
First(n, S) == \A m \in S : n <= m

-----------------------------------------------------------------------------
(* People, and the channel between them and the process. *)

\* The request to send may be cut short or fail and be delivered all the same.
Delivered(t) ==
  /\ channel # "none"
  /\ t = token[t[1]] => pc[t[1]] # "saving"

Cause(update) ==
  /\ Len(log) < MaxUpdates
  /\ log' = Append(log, update)
  /\ UNCHANGED <<vars, channel, ui, gone, offset, inHand, handled, missed, started>>

Click(t, d) == Delivered(t) /\ Cause([what |-> d, token |-> t])
Command == channel = "telegram" /\ Cause([what |-> "run", token |-> NoToken])

-----------------------------------------------------------------------------
(* The listeners. *)

\* getUpdates confirms what is below the offset; its answer may be lost.
Poll ==
  /\ up /\ channel = "telegram" /\ inHand = {}
  /\ gone' = {n \in Ids : n < offset}
  /\ inHand' \in {{}, {n \in Ids : n >= offset}}
  /\ <<gone, inHand>>' # <<gone, inHand>>
  /\ UNCHANGED <<vars, channel, ui, log, offset, handled, missed, started>>

Receive ==
  /\ up /\ channel = "slack" /\ inHand = {}
  /\ \E n \in Ids \ gone : First(n, Ids \ gone) /\ inHand' = {n} /\ gone' = gone \cup {n}
  /\ UNCHANGED <<vars, channel, ui, log, offset, handled, missed, started>>

\* The acknowledgement reached Slack and the socket failed: the loop reconnects.
AckFails ==
  /\ up /\ channel = "slack" /\ inHand = {}
  /\ \E n \in Ids \ gone : First(n, Ids \ gone) /\ gone' = gone \cup {n}
  /\ UNCHANGED <<vars, channel, ui, log, offset, inHand, handled, missed, started>>

SlipNextOffset(n) == n
SlipSkipOffset(n) == n + 2
NextOffset(n) == n + 1
Took(n) ==
  /\ up /\ n \in inHand /\ First(n, inHand)
  /\ inHand' = inHand \ {n}
  /\ offset' = IF channel = "telegram" THEN NextOffset(n) ELSE offset
  /\ handled' = handled \cup {n}
  /\ UNCHANGED <<channel, ui, log, gone>>

HandleClick(n) ==
  /\ Took(n) /\ log[n].what \in Decisions
  /\ ResolveApproval(log[n].token, log[n].what)
  /\ UNCHANGED <<missed, started>>

\* Unknown, expired or already decided: only a debug line is written.  Of a click whose
\* token is not listed is kept which one, and whether the call it was for was open.
Open(t) == token[t[1]] = t /\ pc[t[1]] \in {"saving", "sending", "waiting"}
HandleStale(n) ==
  LET t == log[n].token IN
  /\ Took(n) /\ log[n].what \in Decisions
  /\ ~Undecided(t)
  /\ missed' = missed \cup (IF t \in Registered THEN {} ELSE {[token |-> t, open |-> Open(t)]})
  /\ UNCHANGED <<vars, started>>

\* The POST to /webhook may be refused, or lost.
HandleCommand(n) ==
  /\ Took(n) /\ log[n].what = "run"
  /\ started' \in {started, Append(started, n)}
  /\ UNCHANGED <<vars, missed>>

Handle(n) == HandleClick(n) \/ HandleStale(n) \/ HandleCommand(n)
Listen == Poll \/ Receive \/ AckFails \/ \E n \in inHand : Handle(n)

\* With the process go the offset and what was in hand.
Die(rowsGone) ==
  /\ channel # "none" => crashes < MaxMailCrashes
  /\ Crash(rowsGone)
  /\ offset' = 1 /\ inHand' = {}
  /\ UNCHANGED <<channel, ui, log, gone, handled, missed, started>>

-----------------------------------------------------------------------------
ListenInit ==
  /\ Init
  /\ \E s \in Setups : channel = s.channel /\ ui = s.ui /\ kind = [a \in Askers |-> s.kind]
  /\ log = << >> /\ gone = {} /\ offset = 1 /\ inHand = {}
  /\ handled = {} /\ missed = {} /\ started = << >>

Quiet == AllDone /\ inHand = {} /\ Ids \subseteq gone \cup handled /\ UNCHANGED allVars

ListenNext ==
  \/ \E a \in Askers :
       (Task(a) \/ OuterFires(a) \/ InnerFires(a) \/ Propagate(a)) /\ UNCHANGED mail
  \/ \E a \in Askers : \E n \in 1 .. asks[a], d \in Decisions : Click(<<a, n>>, d)
  \/ Command
  \/ Listen
  \/ \E t \in Registered, d \in Decisions : ui /\ ResolveApproval(t, d) /\ UNCHANGED mail
  \/ \E rowsGone \in SUBSET InTry : Die(rowsGone)
  \/ Restart /\ UNCHANGED mail
  \/ Quiet

\* The listeners are tasks of the loop; a request of theirs does not fail for ever.
ListenFairness ==
  /\ Fairness
  /\ SF_allVars(Poll /\ inHand' # {})
  /\ WF_allVars(Receive \/ \E n \in inHand : Handle(n))

ListenSpec == ListenInit /\ [][ListenNext]_allVars /\ ListenFairness

-----------------------------------------------------------------------------
(* Properties. *)

\* A call that waits although a click on its own button was fetched and dropped, though
\* nobody had decided, is a resumed one, and was not open when the click was handled: the
\* listeners, which start first, got there before it had registered its token again, or
\* it had just ended in a way that the crash undid.
MissedOnlyWhileClosed ==
  \A a \in Askers, m \in missed :
    pc[a] = "waiting" /\ m.token = token[a]
    /\ ~(token[a] \in Registered /\ fut[token[a]] \in Decisions)
      => crashes > 0 /\ ~m.open

\* A /run command starts its pipeline at most once in each life of the process; after a
\* crash it may be delivered, and posted, again.
StartedOncePerLife ==
  \A n \in Ids : Cardinality({i \in DOMAIN started : started[i] = n}) <= 1 + crashes

\* An update acts as its sender meant and no more, however often it is delivered.
UpdatesActOnce == MissedOnlyWhileClosed /\ StartedOncePerLife

\* A click or command is handled in the end; only one that Slack was told of as received
\* may be lost, with the process or with the socket that carried the acknowledgement.
UpdatesGetHandled ==
  \A n \in 1 .. MaxUpdates :
    n \in Ids ~> (n \in handled \/ (channel = "slack" /\ n \in gone))
=============================================================================
