------------------------------ MODULE LiveTail ------------------------------
(***************************************************************************)
(* The live event bus and the streams that tail a run: what a run          *)
(* publishes, what a browser that connects at any point sees of it, and    *)
(* when its stream ends (service/src/run_events.py; ui/runs.py             *)
(* ui_run_stream; the publishers in pipeline/runner.py and main.py).       *)
(*                                                                         *)
(* An event is its number in the run and whether it is logged or only      *)
(* traced: every _log_event goes to the bus and to the log that is stored  *)
(* when the run is closed, the trace events of the gateway go to the bus   *)
(* alone.                                                                  *)
(***************************************************************************)
EXTENDS Integers, Sequences

CONSTANTS
  Runs, Tails,
  MaxEvents,  \* bound on the events a run publishes before it finishes
  MaxCrashes  \* bound on the process deaths explored

ASSUME BoundAssumption == MaxEvents \in Nat /\ MaxEvents >= 2 /\ MaxCrashes \in Nat

(***************************************************************************)
(* delivered: main._run_pipeline was given the run's id.  called: it was   *)
(* not (a scheduled firing), or the runner was called directly (a          *)
(* sub-pipeline).  replay: the batch run of replay.py, which no runner     *)
(* executes and no pipeline makes durable.                                 *)
(***************************************************************************)
Kinds == {"delivered", "called", "replay"}

VARIABLES
  kind, durable, up, crashes,
  stage,      \* where the task of a run is
  row, stored,\* pipeline_runs.status and .logs
  sent,       \* events published in this life of the run, in order
  history,    \* _history, <<>> when absent
  registered, \* the tails whose queue is in _subscribers
  pc, of,     \* where a tail is, and the run it follows
  queue, backlog, \* its queue and its snapshot of the history
  shown       \* what it has sent to the browser

run == <<kind, durable, stage, row, stored>>
tail == <<pc, of, backlog, shown>>
world == <<up, crashes>>
vars == <<run, sent, history, registered, queue, tail, world>>

Stages ==
  {"absent", "started", "executing", "closing", "closed", "ended", "raised", "down"}
Running == {"started", "executing", "closing", "closed"}
Event == (1 .. MaxEvents + 1) \X {"log", "trace"}
Sentinel == <<0, "complete">>

\* interrupted stands for the event that the sweep adds to an empty log.
Interrupted == <<1, "log">>

IsLogged(e) == e[2] = "log"
\* SelectSeq(events, IsLogged), written out to be reasoned about.
Logged(events) ==
  LET kept[i \in 0..Len(events)] ==
        IF i = 0 THEN <<>>
        ELSE IF IsLogged(events[i]) THEN Append(kept[i - 1], events[i])
        ELSE kept[i - 1]
  IN  kept[Len(events)]

Connected(t) == pc[t] \in {"connecting", "subscribed", "live"}
Subscribers(r) == {t \in registered : of[t] = r}

TypeOK ==
  /\ kind \in [Runs -> Kinds] /\ durable \in [Runs -> BOOLEAN]
  /\ up \in BOOLEAN /\ crashes \in 0..MaxCrashes
  /\ stage \in [Runs -> Stages]
  /\ row \in [Runs -> {"none", "running", "closed"}]
  /\ stored \in [Runs -> Seq(Event)]
  /\ sent \in [Runs -> Seq(Event)] /\ history \in [Runs -> Seq(Event)]
  /\ registered \subseteq Tails
  /\ pc \in [Tails -> {"away", "connecting", "subscribed", "live", "closed"}]
  /\ of \in [Tails -> Runs]
  /\ queue \in [Tails -> Seq(Event \cup {Sentinel})]
  /\ backlog \in [Tails -> Seq(Event)]
  /\ shown \in [Tails -> Seq(Event \cup {Sentinel})]

Init ==
  /\ kind \in [Runs -> Kinds]
  /\ durable \in [Runs -> BOOLEAN] /\ \A r \in Runs : kind[r] = "replay" => ~durable[r]
  /\ up = TRUE /\ crashes = 0
  /\ stage = [r \in Runs |-> "absent"] /\ row = [r \in Runs |-> "none"]
  /\ stored = [r \in Runs |-> <<>>]
  /\ sent = [r \in Runs |-> <<>>] /\ history = [r \in Runs |-> <<>>]
  /\ registered = {}
  /\ pc = [t \in Tails |-> "away"] /\ of \in [Tails -> Runs]
  /\ queue = [t \in Tails |-> <<>>]
  /\ backlog = [t \in Tails |-> <<>>] /\ shown = [t \in Tails |-> <<>>]

-----------------------------------------------------------------------------
(* The bus *)

NextEvent(r, k) == <<Len(sent[r]) + 1, k>>

Deliver(r, e) ==
  [t \in Tails |-> IF t \in Subscribers(r) THEN Append(queue[t], e) ELSE queue[t]]

Publish(r, k) ==
  /\ sent' = [sent EXCEPT ![r] = Append(@, NextEvent(r, k))]
  /\ history' = [history EXCEPT ![r] = Append(@, NextEvent(r, k))]
  /\ queue' = Deliver(r, NextEvent(r, k))
  /\ UNCHANGED registered

\* The history of the run is kept.
SlipForget(r) == history
Forget(r) == [history EXCEPT ![r] = <<>>]

\* The subscribers are removed before they are told.
SlipPublishComplete(r) ==
  /\ registered' = registered \ Subscribers(r)
  /\ history' = Forget(r)
  /\ UNCHANGED queue
PublishComplete(r) ==
  /\ queue' = Deliver(r, Sentinel)
  /\ registered' = registered \ Subscribers(r)
  /\ history' = Forget(r)

-----------------------------------------------------------------------------
(* A run *)

Enter(r, s) == stage' = [stage EXCEPT ![r] = s]

\* The task starts: a new run, or a resumed one, whose row has never left 'running'.
Start(r) ==
  /\ kind[r] # "replay" /\ stage[r] = "absent"
  /\ Publish(r, "log") /\ Enter(r, "started")
  /\ UNCHANGED <<kind, durable, row, stored, tail, world>>

Create(r) ==
  /\ stage[r] = "started" /\ row[r] = "none"
  /\ row' = [row EXCEPT ![r] = "running"] /\ Enter(r, "executing")
  /\ UNCHANGED <<kind, durable, stored, sent, history, registered, queue, tail, world>>

\* The insert met a running row of the same fingerprint: the event is logged and the run's
\* state on the bus is freed in one step.
Deduplicate(r) ==
  /\ stage[r] = "started" /\ row[r] = "none"
  /\ sent' = [sent EXCEPT ![r] = Append(@, NextEvent(r, "log"))]
  /\ PublishComplete(r) /\ Enter(r, "ended")
  /\ UNCHANGED <<kind, durable, row, stored, tail, world>>

Resume(r) ==
  /\ stage[r] = "started" /\ row[r] = "running"
  /\ Publish(r, "log") /\ Enter(r, "executing")
  /\ UNCHANGED <<kind, durable, row, stored, tail, world>>

\* A batch run is inserted by its own code, which logs nothing.
OpenBatch(r) ==
  /\ kind[r] = "replay" /\ stage[r] = "absent"
  /\ row' = [row EXCEPT ![r] = "running"] /\ Enter(r, "executing")
  /\ UNCHANGED <<kind, durable, stored, sent, history, registered, queue, tail, world>>

\* A step logs; an agent of the gateway is traced.
Emit(r, k) ==
  /\ stage[r] = "executing" /\ Len(sent[r]) < MaxEvents
  /\ kind[r] = "replay" => k = "trace"
  /\ Publish(r, k)
  /\ UNCHANGED <<run, tail, world>>

Finish(r) ==
  /\ stage[r] = "executing" /\ kind[r] # "replay"
  /\ Publish(r, "log") /\ Enter(r, "closing")
  /\ UNCHANGED <<kind, durable, row, stored, tail, world>>

\* The row is closed before run_finished is logged.
SlipFinalLog(r) == Logged(SubSeq(sent[r], 1, Len(sent[r]) - 1))
FinalLog(r) == Logged(sent[r])

CloseRow(r) ==
  /\ stage[r] = "closing"
  /\ row' = [row EXCEPT ![r] = "closed"] /\ stored' = [stored EXCEPT ![r] = FinalLog(r)]
  /\ Enter(r, "closed")
  /\ UNCHANGED <<kind, durable, sent, history, registered, queue, tail, world>>

Complete(r) ==
  /\ stage[r] = "closed"
  /\ PublishComplete(r) /\ Enter(r, "ended")
  /\ UNCHANGED <<kind, durable, row, stored, sent, tail, world>>

\* A batch run is closed without a word to the bus.
FinaliseBatch(r) ==
  /\ stage[r] = "executing" /\ kind[r] = "replay"
  /\ row' = [row EXCEPT ![r] = "closed"] /\ Enter(r, "ended")
  /\ UNCHANGED <<kind, durable, stored, sent, history, registered, queue, tail, world>>

\* An exception leaves the loop.  The row stays 'running'; the bus is told only by a
\* _run_pipeline that knows the run's id.
Raise(r) ==
  /\ stage[r] \in {"started", "executing", "closing"} /\ Enter(r, "raised")
  /\ IF kind[r] = "delivered"
       THEN PublishComplete(r)
       ELSE UNCHANGED <<history, registered, queue>>
  /\ UNCHANGED <<kind, durable, row, stored, sent, tail, world>>

Progress(r) ==
  \/ \E k \in {"log", "trace"} : Emit(r, k)
  \/ Start(r) \/ Create(r) \/ Deduplicate(r) \/ Resume(r) \/ OpenBatch(r)
  \/ Finish(r) \/ CloseRow(r) \/ Complete(r) \/ FinaliseBatch(r)

-----------------------------------------------------------------------------
(* A tail *)

Move(t, p) == pc' = [pc EXCEPT ![t] = p]
Empty(f, t) == [f EXCEPT ![t] = <<>>]

\* The run exists: the response starts.
Connect(t, r) ==
  /\ up /\ ~Connected(t) /\ row[r] # "none"
  /\ Move(t, "connecting") /\ of' = [of EXCEPT ![t] = r]
  /\ shown' = Empty(shown, t) /\ backlog' = Empty(backlog, t) /\ queue' = Empty(queue, t)
  /\ UNCHANGED <<run, sent, history, registered, world>>

\* The queue is registered and the history copied without an await between them.
Subscribe(t) ==
  /\ pc[t] = "connecting" /\ Move(t, "subscribed")
  /\ registered' = registered \cup {t}
  /\ backlog' = [backlog EXCEPT ![t] = history[of[t]]]
  /\ UNCHANGED <<run, sent, history, queue, of, shown, world>>

\* The history is read again when the row has been read.
SlipReplayed(t) == history[of[t]]
Replayed(t) == backlog[t]

\* The row is read again: a finished run is shown from its log.
ReadFinished(t) ==
  /\ pc[t] = "subscribed" /\ row[of[t]] = "closed"
  /\ shown' = [shown EXCEPT ![t] = Append(stored[of[t]], Sentinel)]
  /\ Move(t, "closed") /\ registered' = registered \ {t}
  /\ UNCHANGED <<run, sent, history, queue, of, backlog, world>>

ReadRunning(t) ==
  /\ pc[t] = "subscribed" /\ row[of[t]] = "running"
  /\ shown' = [shown EXCEPT ![t] = Replayed(t)] /\ Move(t, "live")
  /\ UNCHANGED <<run, sent, history, registered, queue, of, backlog, world>>

Receive(t) ==
  /\ pc[t] = "live" /\ queue[t] # <<>>
  /\ shown' = [shown EXCEPT ![t] = Append(@, Head(queue[t]))]
  /\ queue' = [queue EXCEPT ![t] = Tail(@)]
  /\ IF Head(queue[t]) = Sentinel
       THEN Move(t, "closed") /\ registered' = registered \ {t}
       ELSE UNCHANGED <<pc, registered>>
  /\ UNCHANGED <<run, sent, history, of, backlog, world>>

\* The browser leaves: the finally clause unsubscribes.
Disconnect(t) ==
  /\ Connected(t) /\ Move(t, "away")
  /\ registered' = registered \ {t}
  /\ shown' = Empty(shown, t) /\ backlog' = Empty(backlog, t) /\ queue' = Empty(queue, t)
  /\ UNCHANGED <<run, sent, history, of, world>>

Stream(t) == Subscribe(t) \/ ReadFinished(t) \/ ReadRunning(t) \/ Receive(t)

-----------------------------------------------------------------------------
(* The process *)

\* The bus and the streams are lost.  A task that had no row is never heard of again.
Crash ==
  /\ up /\ crashes < MaxCrashes
  /\ up' = FALSE /\ crashes' = crashes + 1
  /\ stage' = [r \in Runs |->
       CASE row[r] = "running"                       -> "down"
         [] row[r] # "running" /\ stage[r] # "absent" -> "ended"
         [] OTHER                                    -> "absent"]
  /\ sent' = [r \in Runs |-> <<>>] /\ history' = [r \in Runs |-> <<>>]
  /\ registered' = {}
  /\ pc' = [t \in Tails |-> "away"]
  /\ queue' = [t \in Tails |-> <<>>]
  /\ backlog' = [t \in Tails |-> <<>>] /\ shown' = [t \in Tails |-> <<>>]
  /\ UNCHANGED <<kind, durable, row, stored, of>>

\* The sweep: durable runs may be resumed, by _run_pipeline with their id; the others are
\* closed as interrupted.
Startup(resumed) ==
  LET closed == {r \in Runs : stage[r] = "down"} \ resumed IN
  /\ ~up /\ up' = TRUE
  /\ resumed \subseteq {r \in Runs : stage[r] = "down" /\ durable[r]}
  /\ kind' = [r \in Runs |-> IF r \in resumed THEN "delivered" ELSE kind[r]]
  /\ stage' = [r \in Runs |->
       IF r \in resumed THEN "absent" ELSE IF r \in closed THEN "ended" ELSE stage[r]]
  /\ row' = [r \in Runs |-> IF r \in closed THEN "closed" ELSE row[r]]
  /\ stored' = [r \in Runs |-> IF r \in closed THEN <<Interrupted>> ELSE stored[r]]
  /\ UNCHANGED <<durable, sent, history, registered, queue, tail, crashes>>

-----------------------------------------------------------------------------
Next ==
  \/ \E r \in Runs : up /\ (Progress(r) \/ Raise(r))
  \/ \E t \in Tails : Stream(t) \/ Disconnect(t) \/ \E r \in Runs : Connect(t, r)
  \/ Crash
  \/ \E resumed \in SUBSET Runs : Startup(resumed)

\* The event loop runs every ready task, steps return, the process is restarted.  Browsers
\* come and go as they like; exceptions and crashes need not happen.
Fairness ==
  /\ \A r \in Runs : WF_vars(up /\ Progress(r))
  /\ \A t \in Tails : WF_vars(Stream(t))
  /\ WF_vars(\E resumed \in SUBSET Runs : Startup(resumed))

Spec == Init /\ [][Next]_vars /\ Fairness

-----------------------------------------------------------------------------
(* Properties *)

\* The bus has told the subscribers of the run that it is over.
Told(r) ==
  \/ stage[r] = "ended" /\ kind[r] # "replay"
  \/ stage[r] = "raised" /\ kind[r] = "delivered"

\* "Late-connecting SSE clients receive a full replay of everything that happened before
\* they connected, then transition seamlessly into live streaming" (run_events.py): what a
\* tail has shown and what waits in its queue is what the run published, each event once
\* and in order, and then the sentinel if the run is over; also while it reads the row.
\* A tail of an ended run that is still registered came after the bus had forgotten it.
TailShowsAll ==
  \A t \in Tails :
    LET r == of[t]
        whole == IF Told(r) THEN Append(sent[r], Sentinel) ELSE sent[r]
        seen == CASE pc[t] = "live" -> shown[t] [] pc[t] = "subscribed" -> backlog[t]
                  [] OTHER -> <<>>
    IN pc[t] \in {"subscribed", "live"} /\ ~(Told(r) /\ t \in registered)
         => seen \o queue[t] = whole

\* A tail that was told the run is complete has shown every entry of the log that was
\* stored for it, whether it read the log or heard the events: closing the row and
\* completing the run on the bus are two steps, and a tail may come between them.
CompleteShowsLog ==
  \A t \in Tails : pc[t] = "closed" /\ row[of[t]] = "closed" => Logged(shown[t]) = stored[of[t]]

\* "Clean up all state for this run" (publish_complete): a queue is registered only while
\* its stream is open, and the history of a run only until the run is over, except for
\* those of which the bus is never told (batches, and runs without an id that raised).
NothingLeftBehind ==
  /\ \A t \in registered : pc[t] \in {"subscribed", "live"}
  /\ \A r \in Runs : history[r] # <<>> =>
       stage[r] \in Running \/ kind[r] = "replay" \/ (stage[r] = "raised" /\ kind[r] = "called")

\* A stream that is open ends, unless it follows a batch, or a run that raised and did not
\* tell it.
TailCloses ==
  \A t \in Tails :
    pc[t] \in {"subscribed", "live"} ~>
      \/ pc[t] \notin {"subscribed", "live"}
      \/ t \in registered /\ (kind[of[t]] = "replay" \/ stage[of[t]] = "raised")
=============================================================================
