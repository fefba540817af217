-------------------------- MODULE AgentCall_proofs ---------------------------
(***************************************************************************)
(* Of AgentCall, for any number of calls, attempts and sessions: types,    *)
(* what a conversation may hold, and when two agents work on one step.     *)
(***************************************************************************)
EXTENDS AgentCall, TLAPS

Requests == Calls \X (Nat \ {0})

-----------------------------------------------------------------------------
(* Types. *)

Typed ==
  /\ pc \in [Calls -> PCs] /\ attempt \in [Calls -> Nat \ {0}]
  /\ inbox \in [Calls -> [kind : FrameKinds, result : Results]]
  /\ DOMAIN remote \subseteq Requests
  /\ remote \in [DOMAIN remote -> {"queued", "working", "ended"}]

LEMMA FrameType == \A k \in FrameKinds : Frame(k) \in [kind : FrameKinds, result : Results]
<1>1. << >> \in [1..0 -> Payloads] /\ 0 \in 0..2
  OBVIOUS
<1>2. << >> \in Results
  BY <1>1 DEF Results
<1> QED
  BY <1>2 DEF Frame

LEMMA TypedStep == Typed /\ [Next]_vars => Typed'
<1> SUFFICES ASSUME Typed, [Next]_vars
             PROVE  Typed'
  OBVIOUS
<1> USE FrameType DEF Typed, PCs, FrameKinds
<1>1. ASSUME NEW c \in Calls, Fail(c)
      PROVE  Typed'
  BY <1>1 DEF Fail, Becomes, Reads, call, server
<1>2. ASSUME NEW c \in Calls, Task(c)
      PROVE  Typed'
  <2>1. CASE Start(c)
    BY <2>1 DEF Start, Becomes, server
  <2>2. CASE Challenged(c)
    BY <2>2 DEF Challenged, Becomes, Reads, server
  <2>3. CASE Connected(c)
    BY <2>3 DEF Connected, Becomes, Reads, Request, Requests
  <2>4. CASE ReadPast(c)
    BY <2>4 DEF ReadPast, Reads, call, server
  <2>5. CASE Answered(c)
    BY <2>5 DEF Answered, Becomes, Reads, server
  <2>6. CASE Rejected(c)
    BY <2>6, <1>1 DEF Rejected
  <2>7. CASE Retry(c)
    BY <2>7 DEF Retry, Becomes, server
  <2> QED
    BY <1>2, <2>1, <2>2, <2>3, <2>4, <2>5, <2>6, <2>7 DEF Task
<1>3. ASSUME NEW c \in Calls, TimesOut(c) \/ GoesQuiet(c) \/ Drops(c)
      PROVE  Typed'
  BY <1>3, <1>1 DEF TimesOut, GoesQuiet, Drops, Break
<1>4. ASSUME NEW c \in Calls, Greets(c)
      PROVE  Typed'
  BY <1>4 DEF Greets, Delivers, call, server
<1>5. ASSUME NEW r \in DOMAIN remote, Accepts(r) \/ Reports(r) \/ Finishes(r)
      PROVE  Typed'
  <2>1. r[1] \in Calls
    BY DEF Requests
  <2>2. CASE Accepts(r)
    BY <2>1, <2>2 DEF Accepts, Delivers, call
  <2>3. CASE Reports(r)
    BY <2>1, <2>3 DEF Reports, Delivers, call, server
  <2>4. CASE Finishes(r)
    BY <2>1, <2>4 DEF Finishes, Delivers, call
  <2> QED
    BY <1>5, <2>2, <2>3, <2>4
<1>6. CASE UNCHANGED vars
  BY <1>6 DEF vars
<1> QED
  BY <1>2, <1>3, <1>4, <1>5, <1>6 DEF Next, Terminating

LEMMA TypedInit == Init => Typed
BY FrameType DEF Init, Typed, PCs, FrameKinds

-----------------------------------------------------------------------------
(* Conversations: what a request finds there has its own session key. *)

Conversed ==
  /\ history \in [Keys -> SUBSET DOMAIN remote]
  /\ DOMAIN saw = DOMAIN remote
  /\ \A k \in Keys : \A q \in history[k] : Key(q[1]) = k
  /\ \A r \in DOMAIN remote : saw[r] \subseteq DOMAIN remote
  /\ \A r \in DOMAIN remote : \A q \in saw[r] : Key(q[1]) = Key(r[1])

\* Only the request's own arrival, and its acceptance, touch a conversation.
LEMMA KeysStay ==
  ASSUME [Next]_vars
  PROVE  conf' = conf /\ Keys' = Keys /\ \A c : Key(c)' = Key(c)
<1>1. conf' = conf
  BY DEF Next, vars, Task, Start, Challenged, Connected, ReadPast, Answered, Rejected, Retry, Fail,
     TimesOut, GoesQuiet, Drops, Break, Greets, Accepts, Reports, Finishes, Terminating
<1> QED
  BY <1>1 DEF Keys, Key

LEMMA ConversedStep == Typed /\ Conversed /\ [Next]_vars => Conversed'
<1> SUFFICES ASSUME Typed, Conversed, [Next]_vars
             PROVE  Conversed'
  OBVIOUS
<1> USE KeysStay DEF Conversed
<1>1. CASE UNCHANGED server
  BY <1>1 DEF server
<1>2. ASSUME NEW c \in Calls, Connected(c)
      PROVE  Conversed'
  BY <1>2 DEF Connected
<1>3. ASSUME NEW r \in DOMAIN remote, Accepts(r)
      PROVE  Conversed'
  <2>1. r[1] \in Calls /\ Key(r[1]) \in Keys
    BY DEF Typed, Requests, Keys
  <2>2. DOMAIN remote' = DOMAIN remote /\ DOMAIN saw' = DOMAIN saw
    BY <1>3 DEF Accepts
  <2>3. history' \in [Keys -> SUBSET DOMAIN remote]
    BY <1>3, <2>1 DEF Accepts
  <2>4. \A k \in Keys : \A q \in history'[k] : Key(q[1]) = k
    BY <1>3, <2>1 DEF Accepts
  <2>5. \A q \in DOMAIN remote :
          saw'[q] = saw[q] \/ (q = r /\ saw'[q] = history[Key(r[1])])
    BY <1>3 DEF Accepts
  <2>6. \A q \in DOMAIN remote : saw'[q] \subseteq DOMAIN remote
    BY <2>1, <2>5
  <2>7. \A q \in DOMAIN remote : \A p \in saw'[q] : Key(p[1]) = Key(q[1])
    BY <2>1, <2>5
  <2> QED
    BY <2>2, <2>3, <2>4, <2>6, <2>7
<1>4. ASSUME NEW r \in DOMAIN remote, Finishes(r)
      PROVE  Conversed'
  BY <1>4 DEF Finishes
<1> QED
  BY <1>1, <1>2, <1>3, <1>4
  DEF Next, vars, Task, Start, Challenged, ReadPast, Answered, Rejected, Retry, Fail, TimesOut,
      GoesQuiet, Drops, Break, Greets, Reports, Terminating, server

LEMMA ConversedInit == Init => Conversed
BY DEF Init, Conversed

LEMMA ConversedImplies == Conversed => SessionsStayInRun
BY DEF Conversed, SessionsStayInRun, Key

\* An agent finds in its conversation turns of its own run and of itself only, however
\* the calls of a run and of several runs are interleaved, retried and cut short
\* (gateway.py and openclaw_ws.py session keys).
THEOREM RunsAreApart == Spec => []SessionsStayInRun
BY TypedInit, TypedStep, ConversedInit, ConversedStep, ConversedImplies, PTL DEF Spec

\* The settings never change, and only requests that were sent can be cut off.
Bookkeeping == conf \in Worlds /\ cut \subseteq DOMAIN remote

LEMMA BookkeepingStep == Bookkeeping /\ [Next]_vars => Bookkeeping'
<1> SUFFICES ASSUME Bookkeeping, [Next]_vars
             PROVE  Bookkeeping'
  OBVIOUS
<1>1. conf' = conf
  BY KeysStay
<1>2. DOMAIN remote \subseteq DOMAIN remote'
  BY DEF Next, vars, Task, Start, Challenged, Connected, ReadPast, Answered, Rejected, Retry, Fail,
     TimesOut, GoesQuiet, Drops, Break, Greets, Accepts, Reports, Finishes, Terminating, server
<1>3. \A c \in Calls : Abandoned(c) \subseteq DOMAIN remote
  BY DEF Abandoned
<1>4. cut' \subseteq DOMAIN remote
  BY <1>3 DEF Bookkeeping, Next, vars, Task, Start, Challenged, Connected, ReadPast, Answered,
     Rejected, Retry, Fail, TimesOut, GoesQuiet, Drops, Break, Greets, Accepts, Reports, Finishes,
     Terminating
<1> QED
  BY <1>1, <1>2, <1>4 DEF Bookkeeping

\* Every variable of a call and of the server keeps its type, for any number of attempts.
THEOREM TypeCorrect == Spec => []TypeOK
<1>1. Init => Bookkeeping
  BY DEF Init, Bookkeeping
<1>2. Typed /\ Conversed /\ Bookkeeping => TypeOK
  BY DEF Typed, Conversed, Bookkeeping, TypeOK, Requests
<1> QED
  BY <1>1, <1>2, TypedInit, TypedStep, ConversedInit, ConversedStep, BookkeepingStep, PTL DEF Spec

-----------------------------------------------------------------------------
(* Work: a request somebody still works on is the one its call waits for, or its socket *)
(* was closed under it.                                                                 *)

\* A call's request is at the server once it has been sent, and no later attempt's is.
Sent ==
  /\ \A r \in DOMAIN remote : r[2] <= attempt[r[1]]
  /\ \A c \in Calls : Request(c) \in DOMAIN remote =>
       pc[c] \in {"result", "failing", "done", "failed"}
  /\ \A c \in Calls : pc[c] = "result" => Request(c) \in DOMAIN remote

\* The frames a call may find while it waits for the result; the final ones come when the
\* work is over.
Heard ==
  \A c \in Calls : pc[c] = "result" =>
    /\ inbox[c].kind \notin {"challenge", "yes"}
    /\ inbox[c].kind \in {"no", "ok"} => remote[Request(c)] = "ended"

Explained ==
  \A r \in DOMAIN remote :
    remote[r] # "ended" => r \in cut \/ (pc[r[1]] = "result" /\ r = Request(r[1]))

Worked == Sent /\ Heard /\ Explained

LEMMA WorkedInit == Init => Worked
BY DEF Init, Worked, Sent, Heard, Explained, Request

\* Leaving the result's wait: what is not over is cut.
LEMMA Leaves ==
  ASSUME Typed, Worked, NEW c \in Calls, Fail(c), cut \subseteq cut',
         pc[c] # "idle",
         pc[c] = "result" => remote[Request(c)] = "ended" \/ Request(c) \in cut'
  PROVE  Worked'
<1>1. /\ remote' = remote /\ attempt' = attempt
      /\ \A d \in Calls : Request(d)' = Request(d)
      /\ \A d \in Calls : d # c => pc'[d] = pc[d] /\ inbox'[d] = inbox[d]
      /\ pc'[c] = "failing"
  BY DEF Fail, Becomes, Reads, server, Request, Typed
<1>2. \A r \in DOMAIN remote : r[1] \in Calls
  BY DEF Typed, Requests
<1>3. Sent'
  BY <1>1 DEF Worked, Sent
<1>4. Heard'
  BY <1>1 DEF Worked, Heard
<1>5. Explained'
  BY <1>1, <1>2 DEF Worked, Explained
<1> QED
  BY <1>3, <1>4, <1>5 DEF Worked

LEMMA WorkedStep == Typed /\ Worked /\ [Next]_vars => Worked'
<1> SUFFICES ASSUME Typed, Worked, [Next]_vars
             PROVE  Worked'
  OBVIOUS
<1>0. \A r \in DOMAIN remote : r[1] \in Calls
  BY DEF Typed, Requests
<1>1. ASSUME NEW c \in Calls, Break(c), pc[c] \in Open
      PROVE  Worked'
  <2>1. pc[c] = "result" => remote[Request(c)] = "ended" \/ Request(c) \in cut'
    BY <1>1 DEF Break, Abandoned, Worked, Sent
  <2> QED
    BY <1>1, <2>1, Leaves DEF Break, Open
<1>2. ASSUME NEW c \in Calls, Task(c)
      PROVE  Worked'
  <2> USE <1>0 DEF Worked, Sent, Heard, Explained, Request, Typed, Frame
  <2>1. CASE Start(c)
    BY <2>1 DEF Start, Becomes, server
  <2>2. CASE Challenged(c)
    BY <2>2 DEF Challenged, Becomes, Reads, server
  <2>3. CASE Connected(c)
    <3>1. /\ pc[c] = "connect" /\ pc' = [pc EXCEPT ![c] = "result"] /\ attempt' = attempt
          /\ inbox' = [inbox EXCEPT ![c] = Frame("none")] /\ cut' = cut
          /\ DOMAIN remote' = DOMAIN remote \cup {Request(c)}
          /\ \A r \in DOMAIN remote : r # Request(c) => remote'[r] = remote[r]
      BY <2>3 DEF Connected, Becomes, Reads
    <3>2. Request(c) \notin DOMAIN remote
      BY <3>1
    <3>3. Sent'
      BY <3>1
    <3>4. Heard'
      BY <3>1, <3>2
    <3>5. Explained'
      BY <3>1, <3>2
    <3> QED
      BY <3>3, <3>4, <3>5
  <2>4. CASE ReadPast(c)
    BY <2>4 DEF ReadPast, Reads, call, server
  <2>5. CASE Answered(c)
    BY <2>5 DEF Answered, Becomes, Reads, server, Usable
  <2>6. CASE Rejected(c)
    <3>1. pc[c] = "result" => remote[Request(c)] = "ended" \/ Request(c) \in cut'
      BY <2>6 DEF Rejected, Expected, Skips, SkipsFrame, Abandoned, FrameKinds
    <3>2. Fail(c) /\ pc[c] # "idle" /\ cut \subseteq cut'
      BY <2>6 DEF Rejected, Open
    <3> QED
      BY <3>1, <3>2, Leaves
  <2>7. CASE Retry(c)
    BY <2>7 DEF Retry, Becomes, server, Requests
  <2> QED
    BY <1>2, <2>1, <2>2, <2>3, <2>4, <2>5, <2>6, <2>7 DEF Task
<1>3. ASSUME NEW c \in Calls, TimesOut(c) \/ GoesQuiet(c) \/ Drops(c)
      PROVE  Worked'
  BY <1>1, <1>3 DEF TimesOut, GoesQuiet, Drops
<1>4. ASSUME NEW c \in Calls, Greets(c)
      PROVE  Worked'
  BY <1>4, <1>0 DEF Greets, Delivers, call, server, Worked, Sent, Heard, Explained, Request, Typed
<1>5. ASSUME NEW r \in DOMAIN remote, Accepts(r) \/ Reports(r) \/ Finishes(r)
      PROVE  Worked'
  <2> USE <1>0 DEF Worked, Sent, Heard, Explained, Request, Typed, Listening, Frame
  <2>1. CASE Accepts(r)
    <3>1. /\ UNCHANGED call /\ cut' = cut
          /\ DOMAIN remote' = DOMAIN remote
          /\ remote[r] = "queued" /\ remote'[r] = "working"
          /\ \A q \in DOMAIN remote : q # r => remote'[q] = remote[q]
      BY <2>1 DEF Accepts
    <3>2. \A c \in Calls :
            inbox'[c] = inbox[c] \/ (c = r[1] /\ inbox'[c].kind = "accepted")
      BY <2>1 DEF Accepts, Delivers
    <3>3. Sent'
      BY <3>1 DEF call
    <3>4. Heard'
      BY <3>1, <3>2 DEF call
    <3>5. Explained'
      BY <3>1 DEF call
    <3> QED
      BY <3>3, <3>4, <3>5
  <2>2. CASE Reports(r)
    BY <2>2 DEF Reports, Delivers, call, server
  <2>3. CASE Finishes(r)
    BY <2>3 DEF Finishes, Delivers, call
  <2> QED
    BY <1>5, <2>1, <2>2, <2>3
<1>6. CASE UNCHANGED vars
  BY <1>6 DEF vars, Worked, Sent, Heard, Explained, Request
<1> QED
  BY <1>2, <1>3, <1>4, <1>5, <1>6 DEF Next, Terminating

LEMMA WorkedImplies == Worked => SecondAgentOnlyWhenCut
BY DEF Worked, Explained, SecondAgentOnlyWhenCut, Ended

\* Two agents work on one step, for any number of attempts, only if the first one's socket
\* was closed by a timer, the network or a frame of no known status (the read loops of
\* gateway.py _call_agent and openclaw_ws.py _run_agent).
THEOREM SecondAgentIsExplained == Spec => []SecondAgentOnlyWhenCut
BY TypedInit, TypedStep, WorkedInit, WorkedStep, WorkedImplies, PTL DEF Spec
=============================================================================
