----------------------------- MODULE AgentCall ------------------------------
(***************************************************************************)
(* A step's call to an agent over a WebSocket: one connection per attempt, *)
(* challenge, connect, request, frames until the final one, the timers     *)
(* around it and the retries (service/src/executors/gateway.py,            *)
(* openclaw_ws.py; the attempt loop of pipeline/runner.py _run_step_impl   *)
(* and _run_verifier_impl).                                                *)
(*                                                                         *)
(* The server is outside the repository.  It keeps one conversation per    *)
(* session key (replay.py minimal_ctx: a session that is reused is         *)
(* polluted by its history), and goes on with a request it has accepted    *)
(* after the socket is gone.                                               *)
(*                                                                         *)
(* A definition named Slip... is not part of the model: it is a plausible  *)
(* mistake in the definition that follows it.                              *)
(***************************************************************************)
EXTENDS Naturals, Sequences

CONSTANTS
  Calls,  \* agent calls: a step's primary, its verifier, a branch, a replay sample
  Worlds  \* how the calls may be configured together

(***************************************************************************)
(* run, step: pipeline_run_id and current_step of the context the call is  *)
(* rendered with; a verifier is given its step's own.  template: the       *)
(* session_key setting.  after: the call this one waits for, itself if     *)
(* none.  timer: the step or branch sets timeout_seconds (the timer of a   *)
(* whole parallel group is left out).  verifies: the call is a verifier's. *)
(* valid: the executor is configured, an agent is named and the thinking   *)
(* level is known.                                                         *)
(***************************************************************************)
Executors == {"gateway", "openclaw"}
Templates == {"default", "per_step", "per_run"}

VARIABLES
  conf, pc, attempt,
  inbox,    \* the frame a socket has delivered and the call has not read
  \* --- the server
  remote,   \* what became of each request
  history,  \* session key -> the requests in its conversation
  saw,      \* request -> the requests its agent found in the conversation
  cut       \* requests whose socket closed before a final frame

call == <<pc, attempt>>
server == <<remote, history, saw>>
vars == <<conf, pc, attempt, inbox, remote, history, saw, cut>>

PCs == {"idle", "challenge", "connect", "result", "failing", "done", "failed"}
Open == {"challenge", "connect", "result"}
Ended(c) == pc[c] \in {"done", "failed"}
Request(c) == <<c, attempt[c]>>

\* The gateway's default template names step_name, which no context defines: it renders
\* empty, so the default key is the same for every step of the run.
SlipKey(c) == <<conf[c].agent, IF conf[c].template = "default" THEN "" ELSE conf[c].step>>
Key(c) ==
  <<conf[c].agent, conf[c].run,
    IF conf[c].template = "per_run"
         \/ (conf[c].executor = "gateway" /\ conf[c].template = "default")
    THEN "" ELSE conf[c].step>>
Keys == {Key(c) : c \in Calls}

\* What the parser makes of the payloads of a final frame.  Payloads: a JSON object of
\* the LLMOutput schema, JSON of another shape, prose, or nothing.
Payloads == {"object", "value", "prose", "blank"}
Json == {"object", "value"}
LastOf(result, kinds) ==
  LET at == {i \in DOMAIN result : result[i] \in kinds} IN
  IF at = {} THEN "none" ELSE result[CHOOSE i \in at : \A j \in at : j <= i]

\* The last payload that is JSON; the last one with any text.  Either must then match
\* the schema.
ParsedByGateway(result) == LastOf(result, Json)
ParsedByOpenClaw(result) == LastOf(result, Payloads \ {"blank"})
Usable(c) ==
  /\ inbox[c].kind = "ok"
  /\ "object" = IF conf[c].executor = "gateway" THEN ParsedByGateway(inbox[c].result)
                ELSE ParsedByOpenClaw(inbox[c].result)

FrameKinds == {"none", "challenge", "event", "yes", "no", "accepted", "trace", "odd", "ok"}
Frame(k) == [kind |-> k, result |-> <<>>]
Results == UNION {[1..n -> Payloads] : n \in 0..2}

TypeOK ==
  /\ conf \in Worlds
  /\ pc \in [Calls -> PCs] /\ attempt \in [Calls -> Nat \ {0}]
  /\ inbox \in [Calls -> [kind : FrameKinds, result : Results]]
  /\ DOMAIN saw = DOMAIN remote /\ cut \subseteq DOMAIN remote
  /\ \A r \in DOMAIN remote :
       r[1] \in Calls /\ remote[r] \in {"queued", "working", "ended"} /\ saw[r] \subseteq DOMAIN remote
  /\ \A k \in Keys : history[k] \subseteq DOMAIN remote

Init ==
  /\ conf \in Worlds
  /\ pc = [c \in Calls |-> "idle"] /\ attempt = [c \in Calls |-> 1]
  /\ inbox = [c \in Calls |-> Frame("none")]
  /\ remote = <<>> /\ saw = <<>> /\ cut = {} /\ history = [k \in Keys |-> {}]

-----------------------------------------------------------------------------
(* The executor *)

Becomes(c, p) == pc' = [pc EXCEPT ![c] = p]
Reads(c) == inbox' = [inbox EXCEPT ![c] = Frame("none")]

\* An exception leaves `async with`: the socket closes, what it had delivered is gone.
Fail(c) == Becomes(c, "failing") /\ Reads(c) /\ UNCHANGED <<conf, attempt, server>>
Abandoned(c) ==
  IF Request(c) \in DOMAIN remote /\ remote[Request(c)] # "ended" THEN {Request(c)} ELSE {}
Break(c) == Fail(c) /\ cut' = cut \cup Abandoned(c)

Start(c) ==
  /\ pc[c] = "idle" /\ (conf[c].after # c => Ended(conf[c].after))
  /\ Becomes(c, IF conf[c].valid THEN "challenge" ELSE "failing")
  /\ UNCHANGED <<conf, attempt, inbox, server, cut>>

Challenged(c) ==
  /\ pc[c] = "challenge" /\ inbox[c].kind = "challenge"
  /\ Becomes(c, "connect") /\ Reads(c)
  /\ UNCHANGED <<conf, attempt, server, cut>>

\* Accepted by the server's authentication: the agent request goes out.
Connected(c) ==
  /\ pc[c] = "connect" /\ inbox[c].kind = "yes"
  /\ Becomes(c, "result") /\ Reads(c)
  /\ remote' = [r \in DOMAIN remote \cup {Request(c)} |->
                  IF r = Request(c) THEN "queued" ELSE remote[r]]
  /\ saw' = [r \in DOMAIN remote \cup {Request(c)} |->
                  IF r = Request(c) THEN {} ELSE saw[r]]
  /\ UNCHANGED <<conf, attempt, history, cut>>

\* Frames that are read past: of another id, accepted, and trace events.
SlipSkipsFrame(c) == pc[c] = "result" /\ inbox[c].kind \in {"accepted", "trace"}
SkipsFrame(c) == pc[c] = "result" /\ inbox[c].kind \in {"event", "accepted", "trace"}
\* While it connects only the openclaw executor looks at the id; the gateway executor
\* takes the next frame for the response.
SkipsEvent(c) ==
  pc[c] = "connect" /\ inbox[c].kind = "event" /\ conf[c].executor = "openclaw"
Skips(c) == SkipsFrame(c) \/ SkipsEvent(c)

ReadPast(c) ==
  /\ inbox[c].kind # "none" /\ Skips(c) /\ Reads(c)
  /\ UNCHANGED <<conf, call, server, cut>>

Answered(c) ==
  /\ pc[c] = "result" /\ Usable(c)
  /\ Becomes(c, "done") /\ Reads(c)
  /\ UNCHANGED <<conf, attempt, server, cut>>

\* No payloads, no JSON, another schema; not ok; a status or a frame out of place.
Expected(c) ==
  \/ pc[c] = "challenge" /\ inbox[c].kind = "challenge"
  \/ pc[c] = "connect" /\ inbox[c].kind = "yes"
  \/ Skips(c)
  \/ pc[c] = "result" /\ Usable(c)

Rejected(c) ==
  /\ pc[c] \in Open /\ inbox[c].kind # "none" /\ ~Expected(c)
  /\ Fail(c)
  /\ cut' = cut \cup (IF inbox[c].kind = "odd" THEN Abandoned(c) ELSE {})

-----------------------------------------------------------------------------
(* Timers, and the attempt loop *)

\* One timer around the gateway executor's whole call; the openclaw executor times each
\* recv.
SlipTotalTimer(c) == conf[c].executor = "gateway" /\ inbox[c].kind = "none"
TotalTimer(c) == conf[c].executor = "gateway"
IdleTimer(c) == conf[c].executor = "openclaw" /\ inbox[c].kind = "none"

\* timeout_seconds is around the call of a step, a branch or a replay sample.  A verifier
\* is awaited bare: _run_verifier_impl gives it a StepConfig without timeout_seconds.
StepTimer(c) == conf[c].timer /\ ~conf[c].verifies

TimesOut(c) == pc[c] \in Open /\ (TotalTimer(c) \/ StepTimer(c)) /\ Break(c)
GoesQuiet(c) == pc[c] \in Open /\ IdleTimer(c) /\ Break(c)

Retry(c) ==
  /\ pc[c] = "failing"
  /\ IF attempt[c] < conf[c].attempts
     THEN Becomes(c, "idle") /\ attempt' = [attempt EXCEPT ![c] = @ + 1]
     ELSE Becomes(c, "failed") /\ UNCHANGED attempt
  /\ UNCHANGED <<conf, inbox, server, cut>>

-----------------------------------------------------------------------------
(* The server and the network *)

Delivers(c, f) == inbox[c].kind = "none" /\ inbox' = [inbox EXCEPT ![c] = f]

Greets(c) ==
  /\ \/ pc[c] = "challenge" /\ \E f \in {"challenge", "odd"} : Delivers(c, Frame(f))
     \/ pc[c] = "connect" /\ \E f \in {"yes", "no", "event"} : Delivers(c, Frame(f))
  /\ UNCHANGED <<conf, call, server, cut>>

\* A connection is refused, or drops.
Drops(c) == pc[c] \in Open /\ Break(c)

Listening(r) == pc[r[1]] = "result" /\ Request(r[1]) = r

\* The request joins its session's conversation; its agent reads what is there.
Accepts(r) ==
  /\ remote[r] = "queued"
  /\ remote' = [remote EXCEPT ![r] = "working"]
  /\ saw' = [saw EXCEPT ![r] = history[Key(r[1])]]
  /\ history' = [history EXCEPT ![Key(r[1])] = @ \cup {r}]
  /\ IF Listening(r) THEN Delivers(r[1], Frame("accepted")) ELSE UNCHANGED inbox
  /\ UNCHANGED <<conf, call, cut>>

Reports(r) ==
  /\ Listening(r) /\ remote[r] = "working"
  /\ \E f \in {"trace", "event", "odd"} : Delivers(r[1], Frame(f))
  /\ UNCHANGED <<conf, call, server, cut>>

Finishes(r) ==
  /\ remote[r] # "ended" /\ remote' = [remote EXCEPT ![r] = "ended"]
  /\ IF Listening(r)
     THEN IF remote[r] = "queued" THEN Delivers(r[1], Frame("no"))
          ELSE \E f \in {Frame("no")} \cup [kind : {"ok"}, result : Results] : Delivers(r[1], f)
     ELSE UNCHANGED inbox
  /\ UNCHANGED <<conf, call, history, saw, cut>>

-----------------------------------------------------------------------------
Task(c) ==
  Start(c) \/ Challenged(c) \/ Connected(c) \/ ReadPast(c) \/ Answered(c) \/ Rejected(c) \/ Retry(c)

AllEnded == \A c \in Calls : Ended(c)
Terminating == AllEnded /\ UNCHANGED vars

Next ==
  \/ \E c \in Calls : Task(c) \/ TimesOut(c) \/ GoesQuiet(c) \/ Greets(c) \/ Drops(c)
  \/ \E r \in DOMAIN remote : Accepts(r) \/ Reports(r) \/ Finishes(r)
  \/ Terminating

\* The event loop runs what is ready and its timers fire.  The server owes nothing.
Fairness == \A c \in Calls : WF_vars(Task(c)) /\ WF_vars(TimesOut(c)) /\ WF_vars(GoesQuiet(c))

Spec == Init /\ [][Next]_vars /\ Fairness

-----------------------------------------------------------------------------
(* Properties *)

\* An agent's conversation holds turns of its own run and agent only: neither another
\* run nor the run a replay sample was recorded in reaches it (the session keys of
\* gateway.py and openclaw_ws.py; replay.py minimal_ctx).
SessionsStayInRun ==
  \A r \in DOMAIN remote : \A q \in saw[r] :
    conf[q[1]].run = conf[r[1]].run /\ conf[q[1]].agent = conf[r[1]].agent

\* A second agent works on a step beside the first only if a timer, the network or a
\* frame of no known status took the first one's socket: never because the call gave up
\* on a frame that was not meant for it (the read loops of _call_agent and _run_agent).
SecondAgentOnlyWhenCut ==
  \A r \in DOMAIN remote :
    remote[r] # "ended" /\ (r # Request(r[1]) \/ Ended(r[1])) => r \in cut

\* A call whose length something bounds, and the length of the call it waits for, ends,
\* however much the server sends: the gateway executor's by its own timer, the openclaw
\* executor's by the step's only.  The comment above the read loop of openclaw_ws.py
\* _run_agent counts on that timer for every call; a verifier's has none, so an openclaw
\* verifier, like an openclaw step without timeout_seconds, ends only if the server lets it.
Bounded(c) == conf[c].executor = "gateway" \/ StepTimer(c)
CallEnds == \A c \in Calls : Bounded(c) /\ Bounded(conf[c].after) => <>Ended(c)
=============================================================================
