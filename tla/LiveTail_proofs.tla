--------------------------- MODULE LiveTail_proofs ---------------------------
(***************************************************************************)
(* Proofs about LiveTail, for any runs, tails and number of crashes: a     *)
(* stream has every event once and in order, nothing is left behind, and a *)
(* stream that was told the run is complete has shown the stored log.      *)
(***************************************************************************)
(* The last needs what Logged keeps of one more event, for every sequence  *)
(* of events: of the lengths at which it would fail one is the least       *)
(* (Least), and there it does not.                                         *)
(***************************************************************************)
EXTENDS LiveTail, SequenceTheorems, FiniteSetTheorems, WellFoundedInduction, TLAPS

Message == Nat \X {"log", "trace", "complete"}

-----------------------------------------------------------------------------
(* Sequences *)

\* What is received moves from the queue to what was shown.
LEMMA Moved ==
  ASSUME NEW s \in Seq(Message), NEW q \in Seq(Message), q # <<>>
  PROVE  Append(s, Head(q)) \o Tail(q) = s \o q
<1>1. Head(q) \in Message /\ Tail(q) \in Seq(Message) /\ Len(Tail(q)) = Len(q) - 1
      /\ \A i \in 1..Len(Tail(q)) : Tail(q)[i] = q[i + 1]
  BY HeadTailProperties
<1>2. /\ Append(s, Head(q)) \in Seq(Message) /\ Len(Append(s, Head(q))) = Len(s) + 1
      /\ \A i \in 1..Len(s) : Append(s, Head(q))[i] = s[i]
      /\ Append(s, Head(q))[Len(s) + 1] = Head(q)
  BY <1>1, AppendProperties
<1>3. Head(q) = q[1] /\ Len(q) \in Nat /\ Len(s) \in Nat /\ Len(q) # 0
  BY EmptySeq, LenProperties
<1> DEFINE a == Append(s, Head(q)) \o Tail(q)
           b == s \o q
<1>4. /\ a \in Seq(Message) /\ Len(a) = Len(s) + 1 + Len(q) - 1
      /\ \A i \in 1..Len(a) : a[i] = IF i <= Len(s) + 1 THEN Append(s, Head(q))[i]
                                      ELSE Tail(q)[i - (Len(s) + 1)]
  BY <1>1, <1>2, <1>3, ConcatProperties
<1>5. /\ b \in Seq(Message) /\ Len(b) = Len(s) + Len(q)
      /\ \A i \in 1..Len(b) : b[i] = IF i <= Len(s) THEN s[i] ELSE q[i - Len(s)]
  BY <1>3, ConcatProperties
<1>6. ASSUME NEW i \in 1..Len(a) PROVE a[i] = b[i]
  <2> HIDE DEF a, b
  <2>1. CASE i <= Len(s)
    <3>1. i \in 1..Len(s) /\ i \in 1..Len(b) /\ i <= Len(s) + 1
      BY <1>3, <1>4, <1>5, <1>6, <2>1
    <3>2. a[i] = Append(s, Head(q))[i] /\ b[i] = s[i]
      BY <1>4, <1>5, <1>6, <2>1, <3>1
    <3> QED
      BY <1>2, <3>1, <3>2
  <2>2. CASE i = Len(s) + 1
    BY <1>2, <1>3, <1>4, <1>5, <1>6, <2>2
  <2>3. CASE i > Len(s) + 1
    <3>1. i - (Len(s) + 1) \in 1..Len(Tail(q)) /\ i - (Len(s) + 1) + 1 = i - Len(s)
      BY <1>1, <1>3, <1>4, <1>6, <2>3
    <3> QED
      BY <1>1, <1>3, <1>4, <1>5, <1>6, <2>3, <3>1
  <2> QED
    BY <1>3, <1>4, <1>6, <2>1, <2>2, <2>3
<1> HIDE DEF a, b
<1>7. a = b
  BY <1>3, <1>4, <1>5, <1>6, SeqEqual
<1> QED
  BY <1>7 DEF a, b

\* What is published is appended to both.
LEMMA Published ==
  ASSUME NEW s \in Seq(Message), NEW q \in Seq(Message), NEW e \in Message
  PROVE  s \o Append(q, e) = Append(s \o q, e)
<1>1. <<e>> \in Seq(Message) /\ s \o q \in Seq(Message)
  BY ConcatProperties
<1>2. Append(q, e) = q \o <<e>> /\ Append(s \o q, e) = (s \o q) \o <<e>>
  BY <1>1, AppendIsConcat
<1> QED
  BY <1>1, <1>2, ConcatAssociative

LEMMA Appended ==
  ASSUME NEW s \in Seq(Message), NEW e \in Message
  PROVE  Append(s, e) \in Seq(Message)
BY AppendProperties

-----------------------------------------------------------------------------
(* The invariant *)

Streaming(t) == pc[t] \in {"subscribed", "live"}
Seen(t) == IF pc[t] = "live" THEN shown[t] ELSE backlog[t]

Typed ==
  /\ kind \in [Runs -> Kinds] /\ stage \in [Runs -> Stages]
  /\ row \in [Runs -> {"none", "running", "closed"}]
  /\ sent \in [Runs -> Seq(Message)] /\ history \in [Runs -> Seq(Message)]
  /\ registered \subseteq Tails /\ of \in [Tails -> Runs] /\ up \in BOOLEAN
  /\ pc \in [Tails -> {"away", "connecting", "subscribed", "live", "closed"}]
  /\ queue \in [Tails -> Seq(Message)]
  /\ backlog \in [Tails -> Seq(Message)]
  /\ shown = [t \in Tails |-> shown[t]]
  /\ \A t \in Tails : pc[t] = "live" => shown[t] \in Seq(Message)

\* A queue is registered by an open stream; a stream is of a run that has a row.
Attached ==
  /\ \A t \in registered : Streaming(t)
  /\ \A t \in Tails : Connected(t) => up /\ row[of[t]] # "none"
  /\ \A t \in Tails : pc[t] = "connecting" => queue[t] = <<>>
  /\ \A r \in Runs : stage[r] \in {"started", "closing", "closed"} => kind[r] # "replay"

\* The history is what was published until the run is over, and then nothing.
Remembered ==
  \A r \in Runs :
    /\ ~Told(r) => history[r] = sent[r]
    /\ stage[r] \in {"absent", "down"} \/ Told(r) => history[r] = <<>>

\* A stream of a run that is not over is registered; and what it has seen and will is
\* what was published.
Followed ==
  \A t \in Tails : Streaming(t) =>
    /\ ~Told(of[t]) => t \in registered /\ Seen(t) \o queue[t] = sent[of[t]]
    /\ Told(of[t]) /\ t \notin registered
         => Seen(t) \o queue[t] = Append(sent[of[t]], Sentinel)

Inv == Typed /\ Attached /\ Remembered /\ Followed

LEMMA SentinelIsMessage == Sentinel \in Message
BY DEF Sentinel, Message

LEMMA NextIsMessage ==
  ASSUME Typed, NEW r \in Runs, NEW k \in {"log", "trace"}
  PROVE  NextEvent(r, k) \in Message
<1>1. Len(sent[r]) \in Nat
  BY LenProperties DEF Typed
<1> QED
  BY <1>1 DEF NextEvent, Message

\* Told depends on where the run is, and for the others nothing changes.
LEMMA ToldElsewhere ==
  ASSUME NEW r \in Runs, NEW s \in Stages, Enter(r, s), UNCHANGED kind, Typed
  PROVE  /\ \A q \in Runs \ {r} : Told(q)' = Told(q) /\ stage'[q] = stage[q]
         /\ stage'[r] = s /\ stage' \in [Runs -> Stages]
BY DEF Enter, Told, Typed

-----------------------------------------------------------------------------
(* The steps of a run *)

\* An event is appended to what was published, to the history, and to every queue of the run.
LEMMA PublishStep ==
  ASSUME Inv, NEW r \in Runs, NEW k \in {"log", "trace"}, Publish(r, k),
         NEW s \in Stages \ {"ended", "raised", "absent", "down"}, Enter(r, s),
         stage[r] \notin {"ended", "raised"}, s \in {"started", "closing", "closed"} => kind[r] # "replay",
         UNCHANGED <<kind, row, tail, world>>
  PROVE  Inv'
<1> DEFINE e == NextEvent(r, k)
<1>0. Typed /\ e \in Message
  BY NextIsMessage DEF Inv
<1> HIDE DEF e
<1>1. /\ \A q \in Runs \ {r} : Told(q)' = Told(q) /\ stage'[q] = stage[q]
      /\ stage'[r] = s /\ stage' \in [Runs -> Stages] /\ ~Told(r) /\ ~Told(r)'
  BY <1>0, ToldElsewhere DEF Told
<1>2. /\ sent' = [sent EXCEPT ![r] = Append(sent[r], e)]
      /\ history' = [history EXCEPT ![r] = Append(history[r], e)]
      /\ queue' = [t \in Tails |-> IF t \in registered /\ of[t] = r THEN Append(queue[t], e)
                                   ELSE queue[t]]
      /\ UNCHANGED <<registered, pc, of, backlog, shown, up>>
  BY <1>0 DEF Publish, Deliver, Subscribers, e, tail, world, Typed
<1>3. Typed'
  <2>1. Append(sent[r], e) \in Seq(Message) /\ Append(history[r], e) \in Seq(Message)
    BY <1>0, Appended DEF Typed
  <2>2. \A t \in Tails : Append(queue[t], e) \in Seq(Message)
    BY <1>0, Appended DEF Typed
  <2> QED
    BY <1>0, <1>1, <1>2, <2>1, <2>2 DEF Typed
<1>4. Attached'
  BY <1>0, <1>1, <1>2 DEF Inv, Typed, Attached, Streaming, Connected
<1>5. Remembered'
  BY <1>0, <1>1, <1>2 DEF Inv, Typed, Remembered
<1>6. Followed'
  <2> SUFFICES ASSUME NEW t \in Tails, Streaming(t)'
               PROVE  /\ ~Told(of[t])' => t \in registered' /\ (Seen(t) \o queue[t] = sent[of[t]])'
                      /\ Told(of[t])' /\ t \notin registered'
                           => (Seen(t) \o queue[t] = Append(sent[of[t]], Sentinel))'
    BY DEF Followed
  <2>0. Streaming(t) /\ Seen(t)' = Seen(t) /\ of'[t] = of[t]
    BY <1>2 DEF Streaming, Seen
  <2>1. of[t] \in Runs /\ Seen(t) \in Seq(Message) /\ queue[t] \in Seq(Message)
    BY <1>0 DEF Typed, Seen
  <2>2. CASE of[t] = r
    <3>1. t \in registered /\ Seen(t) \o queue[t] = sent[r]
      BY <1>1, <2>0, <2>2 DEF Inv, Followed
    <3>2. queue'[t] = Append(queue[t], e) /\ sent'[r] = Append(sent[r], e)
      BY <1>0, <1>2, <2>2, <3>1 DEF Typed
    <3>3. Seen(t) \o Append(queue[t], e) = Append(Seen(t) \o queue[t], e)
      BY <1>0, <2>1, Published
    <3>4. ~Told(of[t])'
      BY <1>1, <1>2, <2>2 DEF Told
    <3> QED
      BY <1>2, <2>0, <2>2, <3>1, <3>2, <3>3, <3>4
  <2>3. CASE of[t] # r
    <3>1. queue'[t] = queue[t] /\ sent'[of[t]] = sent[of[t]]
      BY <1>0, <1>2, <2>1, <2>3 DEF Typed
    <3>2. Told(of[t])' = Told(of[t])
      BY <1>1, <1>2, <2>1, <2>3 DEF Told
    <3> QED
      BY <1>2, <2>0, <3>1, <3>2 DEF Inv, Followed
  <2> QED
    BY <2>2, <2>3
<1> QED
  BY <1>3, <1>4, <1>5, <1>6 DEF Inv

\* The run is over: its tails get the sentinel and leave the bus.
LEMMA CompleteStep ==
  ASSUME Inv, NEW r \in Runs, PublishComplete(r), ~Told(r), Told(r)',
         NEW s \in {"ended", "raised"}, Enter(r, s),
         UNCHANGED <<kind, row, tail, world>>,
         \/ UNCHANGED sent
         \/ /\ row[r] = "none"
            /\ \E e \in Message : sent' = [sent EXCEPT ![r] = Append(sent[r], e)]
  PROVE  Inv'
<1>0. Typed /\ Sentinel \in Message /\ s \in Stages
  BY SentinelIsMessage DEF Inv, Stages
<1>1. /\ \A q \in Runs \ {r} : Told(q)' = Told(q) /\ stage'[q] = stage[q]
      /\ stage'[r] = s /\ stage' \in [Runs -> Stages]
  BY <1>0, ToldElsewhere
<1>2. /\ history' = [history EXCEPT ![r] = <<>>]
      /\ queue' = [t \in Tails |-> IF t \in registered /\ of[t] = r
                                   THEN Append(queue[t], Sentinel) ELSE queue[t]]
      /\ registered' = registered \ {t \in registered : of[t] = r}
      /\ UNCHANGED <<pc, of, backlog, shown, up>>
  BY DEF PublishComplete, Forget, Deliver, Subscribers, tail, world
<1>3. /\ sent' \in [Runs -> Seq(Message)] /\ \A q \in Runs \ {r} : sent'[q] = sent[q]
      /\ row[r] # "none" => sent'[r] = sent[r]
  <2>1. CASE UNCHANGED sent
    BY <1>0, <2>1 DEF Typed
  <2>2. ASSUME NEW e \in Message, sent' = [sent EXCEPT ![r] = Append(sent[r], e)],
               row[r] = "none"
        PROVE  sent' \in [Runs -> Seq(Message)] /\ \A q \in Runs \ {r} : sent'[q] = sent[q]
    <3>1. Append(sent[r], e) \in Seq(Message)
      BY <1>0, Appended DEF Typed
    <3> QED
      BY <1>0, <2>2, <3>1 DEF Typed
  <2> QED
    BY <2>1, <2>2
<1>4. Typed'
  <2>1. \A t \in Tails : Append(queue[t], Sentinel) \in Seq(Message)
    BY <1>0, Appended DEF Typed
  <2>2. <<>> \in Seq(Message)
    BY EmptySeq
  <2> QED
    BY <1>0, <1>1, <1>2, <1>3, <2>1, <2>2 DEF Typed
<1>5. Attached'
  <2>1. \A t \in Tails : pc[t] = "connecting" => t \notin registered
    BY DEF Inv, Attached, Streaming
  <2> QED
    BY <1>0, <1>1, <1>2, <2>1 DEF Inv, Typed, Attached, Streaming, Connected
<1>6. Remembered'
  BY <1>0, <1>1, <1>2, <1>3 DEF Inv, Typed, Remembered
<1>7. Followed'
  <2> SUFFICES ASSUME NEW t \in Tails, Streaming(t)'
               PROVE  /\ ~Told(of[t])' => t \in registered' /\ (Seen(t) \o queue[t] = sent[of[t]])'
                      /\ Told(of[t])' /\ t \notin registered'
                           => (Seen(t) \o queue[t] = Append(sent[of[t]], Sentinel))'
    BY DEF Followed
  <2>0. Streaming(t) /\ Seen(t)' = Seen(t) /\ of'[t] = of[t]
    BY <1>2 DEF Streaming, Seen
  <2>1. of[t] \in Runs /\ Seen(t) \in Seq(Message) /\ queue[t] \in Seq(Message)
    BY <1>0, <2>0 DEF Typed, Seen
  <2>2. CASE of[t] = r
    <3>1. t \in registered /\ Seen(t) \o queue[t] = sent[r]
      BY <2>0, <2>2 DEF Inv, Followed
    <3>2. sent'[r] = sent[r]
      BY <1>3, <2>0, <2>2 DEF Inv, Attached, Streaming, Connected
    <3>3. queue'[t] = Append(queue[t], Sentinel)
      BY <1>2, <2>2, <3>1
    <3>4. Seen(t) \o Append(queue[t], Sentinel) = Append(Seen(t) \o queue[t], Sentinel)
      BY <1>0, <2>1, Published
    <3>5. Told(of[t])'
      BY <1>2, <2>2 DEF Told
    <3> QED
      BY <2>0, <2>2, <3>1, <3>2, <3>3, <3>4, <3>5
  <2>3. CASE of[t] # r
    <3>1. queue'[t] = queue[t] /\ sent'[of[t]] = sent[of[t]] /\ (t \in registered' <=> t \in registered)
      BY <1>2, <1>3, <2>1, <2>3
    <3>2. Told(of[t])' = Told(of[t])
      BY <1>1, <1>2, <2>1, <2>3 DEF Told
    <3> QED
      BY <2>0, <3>1, <3>2 DEF Inv, Followed
  <2> QED
    BY <2>2, <2>3
<1> QED
  BY <1>4, <1>5, <1>6, <1>7 DEF Inv

\* The bus hears nothing.
LEMMA SilentStep ==
  ASSUME Inv, NEW r \in Runs, NEW s \in Stages, Enter(r, s), ~Told(r), ~Told(r)',
         s \in {"absent", "down"} => FALSE,
         s \in {"started", "closing", "closed"} => kind[r] # "replay",
         row' = row \/ \E v \in {"running", "closed"} : row' = [row EXCEPT ![r] = v],
         UNCHANGED <<kind, sent, history, registered, queue, tail, world>>
  PROVE  Inv'
<1>0. Typed
  BY DEF Inv
<1>1. /\ \A q \in Runs : Told(q)' <=> Told(q)
      /\ \A q \in Runs \ {r} : stage'[q] = stage[q]
      /\ stage'[r] = s /\ stage' \in [Runs -> Stages]
  <2>1. /\ \A q \in Runs \ {r} : Told(q)' = Told(q) /\ stage'[q] = stage[q]
        /\ stage'[r] = s /\ stage' \in [Runs -> Stages]
    BY <1>0, ToldElsewhere
  <2>2. ASSUME NEW q \in Runs PROVE Told(q)' <=> Told(q)
    <3>1. CASE q = r
      BY <3>1
    <3>2. CASE q # r
      BY <2>1, <3>2
    <3> QED
      BY <3>1, <3>2
  <2> QED
    BY <2>1, <2>2
<1>2. UNCHANGED <<pc, of, backlog, shown, up>>
  BY DEF tail, world
<1>3. /\ row' \in [Runs -> {"none", "running", "closed"}]
      /\ \A q \in Runs : row[q] # "none" => row'[q] # "none"
  <2>1. CASE row' = row
    BY <1>0, <2>1 DEF Typed
  <2>2. CASE \E v \in {"running", "closed"} : row' = [row EXCEPT ![r] = v]
    BY <1>0, <2>2 DEF Typed
  <2> QED
    BY <2>1, <2>2
<1>4. Typed'
  BY <1>0, <1>1, <1>2, <1>3 DEF Typed
<1>5. Attached'
  BY <1>0, <1>1, <1>2, <1>3 DEF Inv, Typed, Attached, Streaming, Connected
<1>6. Remembered'
  BY <1>0, <1>1 DEF Inv, Remembered
<1>7. Followed'
  <2> SUFFICES ASSUME NEW t \in Tails, Streaming(t)'
               PROVE  /\ ~Told(of[t])' => t \in registered' /\ (Seen(t) \o queue[t] = sent[of[t]])'
                      /\ Told(of[t])' /\ t \notin registered'
                           => (Seen(t) \o queue[t] = Append(sent[of[t]], Sentinel))'
    BY DEF Followed
  <2>0. Streaming(t) /\ Seen(t)' = Seen(t) /\ of'[t] = of[t] /\ of[t] \in Runs
    BY <1>0, <1>2 DEF Streaming, Seen, Typed
  <2>1. Told(of[t])' <=> Told(of[t])
    BY <1>1, <1>2, <2>0 DEF Told
  <2> QED
    BY <2>0, <2>1 DEF Inv, Followed
<1> QED
  BY <1>4, <1>5, <1>6, <1>7 DEF Inv

\* What a run does next.
LEMMA RunStep ==
  ASSUME Inv, NEW r \in Runs, Progress(r) \/ Raise(r)
  PROVE  Inv'
<1>0. Typed /\ stage[r] \in Stages /\ kind[r] \in Kinds
  BY DEF Inv, Typed
<1> USE <1>0 DEF run
<1>1. ASSUME NEW k \in {"log", "trace"}, Emit(r, k) PROVE Inv'
  <2>1. stage[r] = "executing" /\ Publish(r, k) /\ UNCHANGED <<kind, row, tail, world>>
    BY <1>1 DEF Emit
  <2>2. Enter(r, "executing")
    BY <1>1 DEF Emit, Enter, Typed
  <2> QED
    BY <2>1, <2>2, PublishStep DEF Stages
<1>2. CASE Start(r)
  <2>1. stage[r] = "absent" /\ kind[r] # "replay" /\ Publish(r, "log") /\ Enter(r, "started")
        /\ UNCHANGED <<kind, row, tail, world>>
    BY <1>2 DEF Start
  <2> QED
    BY <2>1, PublishStep DEF Stages
<1>3. CASE Create(r)
  <2>1. /\ stage[r] = "started" /\ Enter(r, "executing")
        /\ \E v \in {"running", "closed"} : row' = [row EXCEPT ![r] = v]
        /\ UNCHANGED <<kind, sent, history, registered, queue, tail, world>>
    BY <1>3 DEF Create
  <2>2. ~Told(r) /\ ~Told(r)'
    BY <2>1 DEF Told, Enter, Typed
  <2> QED
    BY <2>1, <2>2, SilentStep DEF Stages
<1>4. CASE Deduplicate(r)
  <2>1. /\ stage[r] = "started" /\ row[r] = "none" /\ PublishComplete(r) /\ Enter(r, "ended")
        /\ sent' = [sent EXCEPT ![r] = Append(sent[r], NextEvent(r, "log"))]
        /\ UNCHANGED <<kind, row, tail, world>>
    BY <1>4 DEF Deduplicate
  <2>2. ~Told(r) /\ Told(r)'
    BY <2>1 DEF Told, Enter, Typed, Inv, Attached
  <2>3. NextEvent(r, "log") \in Message
    BY NextIsMessage
  <2>4. \E e \in Message : sent' = [sent EXCEPT ![r] = Append(sent[r], e)]
    BY <2>1, <2>3
  <2> QED
    BY <2>1, <2>2, <2>4, CompleteStep
<1>5. CASE Resume(r)
  <2>1. stage[r] = "started" /\ Publish(r, "log") /\ Enter(r, "executing")
        /\ UNCHANGED <<kind, row, tail, world>>
    BY <1>5 DEF Resume
  <2> QED
    BY <2>1, PublishStep DEF Stages
<1>6. CASE OpenBatch(r)
  <2>1. /\ stage[r] = "absent" /\ Enter(r, "executing")
        /\ \E v \in {"running", "closed"} : row' = [row EXCEPT ![r] = v]
        /\ UNCHANGED <<kind, sent, history, registered, queue, tail, world>>
    BY <1>6 DEF OpenBatch
  <2>2. ~Told(r) /\ ~Told(r)'
    BY <2>1 DEF Told, Enter, Typed
  <2> QED
    BY <2>1, <2>2, SilentStep DEF Stages
<1>7. CASE Finish(r)
  <2>1. stage[r] = "executing" /\ kind[r] # "replay" /\ Publish(r, "log") /\ Enter(r, "closing")
        /\ UNCHANGED <<kind, row, tail, world>>
    BY <1>7 DEF Finish
  <2> QED
    BY <2>1, PublishStep DEF Stages
<1>8. CASE CloseRow(r)
  <2>1. /\ stage[r] = "closing" /\ Enter(r, "closed")
        /\ \E v \in {"running", "closed"} : row' = [row EXCEPT ![r] = v]
        /\ UNCHANGED <<kind, sent, history, registered, queue, tail, world>>
    BY <1>8 DEF CloseRow
  <2>2. ~Told(r) /\ ~Told(r)' /\ kind[r] # "replay"
    BY <2>1 DEF Told, Enter, Typed, Inv, Attached
  <2> QED
    BY <2>1, <2>2, SilentStep DEF Stages
<1>9. CASE Complete(r)
  <2>1. /\ stage[r] = "closed" /\ PublishComplete(r) /\ Enter(r, "ended")
        /\ UNCHANGED <<kind, row, sent, tail, world>>
    BY <1>9 DEF Complete
  <2>2. ~Told(r) /\ Told(r)'
    BY <2>1 DEF Told, Enter, Typed, Inv, Attached
  <2> QED
    BY <2>1, <2>2, CompleteStep
<1>10. CASE FinaliseBatch(r)
  <2>1. /\ stage[r] = "executing" /\ kind[r] = "replay" /\ Enter(r, "ended")
        /\ \E v \in {"running", "closed"} : row' = [row EXCEPT ![r] = v]
        /\ UNCHANGED <<kind, sent, history, registered, queue, tail, world>>
    BY <1>10 DEF FinaliseBatch
  <2>2. ~Told(r) /\ ~Told(r)'
    BY <2>1 DEF Told, Enter, Typed
  <2> QED
    BY <2>1, <2>2, SilentStep DEF Stages
<1>11. CASE Raise(r)
  <2>1. /\ stage[r] \in {"started", "executing", "closing"} /\ Enter(r, "raised")
        /\ UNCHANGED <<kind, row, sent, tail, world>> /\ stage'[r] = "raised"
    BY <1>11 DEF Raise, Enter, Typed
  <2>2. CASE kind[r] = "delivered"
    <3>1. PublishComplete(r) /\ ~Told(r) /\ Told(r)'
      BY <1>11, <2>1, <2>2 DEF Raise, Told
    <3> QED
      BY <2>1, <3>1, CompleteStep
  <2>3. CASE kind[r] # "delivered"
    <3>1. UNCHANGED <<history, registered, queue>> /\ ~Told(r) /\ ~Told(r)'
      BY <1>11, <2>1, <2>3 DEF Raise, Told
    <3> QED
      BY <2>1, <3>1, SilentStep DEF Stages
  <2> QED
    BY <2>2, <2>3
<1> QED
  BY <1>1, <1>2, <1>3, <1>4, <1>5, <1>6, <1>7, <1>8, <1>9, <1>10, <1>11 DEF Progress

-----------------------------------------------------------------------------
(* The steps of a tail *)

\* The runs and the bus stay as they are, and so do the other tails.
LEMMA TailStep ==
  ASSUME Inv, NEW t \in Tails,
         UNCHANGED <<run, sent, history, world>>,
         of' \in [Tails -> Runs], registered' \subseteq Tails,
         pc' \in [Tails -> {"away", "connecting", "subscribed", "live", "closed"}],
         queue' \in [Tails -> Seq(Message)], backlog' \in [Tails -> Seq(Message)],
         shown' = [u \in Tails |-> shown'[u]],
         \A u \in Tails \ {t} :
           /\ pc'[u] = pc[u] /\ of'[u] = of[u] /\ queue'[u] = queue[u]
           /\ backlog'[u] = backlog[u] /\ shown'[u] = shown[u]
           /\ u \in registered' <=> u \in registered,
         t \in registered' => Streaming(t)',
         Connected(t)' => up /\ row[of'[t]] # "none",
         pc'[t] = "connecting" => queue'[t] = <<>>,
         pc'[t] = "live" => shown'[t] \in Seq(Message),
         Streaming(t)' =>
           /\ ~Told(of'[t]) => t \in registered' /\ (Seen(t) \o queue[t])' = sent[of'[t]]
           /\ Told(of'[t]) /\ t \notin registered'
                => (Seen(t) \o queue[t])' = Append(sent[of'[t]], Sentinel)
  PROVE  Inv'
<1>0. Typed /\ UNCHANGED <<kind, stage, row, sent, history, up>>
  BY DEF Inv, run, world
<1>1. \A r \in Runs : Told(r)' <=> Told(r)
  BY <1>0 DEF Told
<1>2. \A u \in Tails \ {t} : (Streaming(u)' <=> Streaming(u)) /\ (Connected(u)' <=> Connected(u))
                             /\ Seen(u)' = Seen(u)
  BY DEF Streaming, Connected, Seen
<1>3. Typed'
  BY <1>0 DEF Typed
<1>4. Attached'
  BY <1>0, <1>2 DEF Inv, Attached, Typed
<1>5. Remembered'
  BY <1>0, <1>1 DEF Inv, Remembered
<1>6. Followed'
  <2> SUFFICES ASSUME NEW u \in Tails, Streaming(u)'
               PROVE  /\ ~Told(of[u])' => u \in registered' /\ (Seen(u) \o queue[u] = sent[of[u]])'
                      /\ Told(of[u])' /\ u \notin registered'
                           => (Seen(u) \o queue[u] = Append(sent[of[u]], Sentinel))'
    BY DEF Followed
  <2>1. of'[u] \in Runs /\ (Told(of[u])' <=> Told(of'[u]))
    BY <1>0 DEF Told
  <2>2. CASE u = t
    BY <1>0, <2>1, <2>2
  <2>3. CASE u # t
    <3>1. /\ of'[u] = of[u] /\ queue'[u] = queue[u] /\ Seen(u)' = Seen(u) /\ Streaming(u)
          /\ u \in registered' <=> u \in registered
      BY <1>2, <2>3
    <3>2. Told(of[u])' <=> Told(of[u])
      BY <1>0, <3>1 DEF Told
    <3>3. /\ ~Told(of[u]) => u \in registered /\ Seen(u) \o queue[u] = sent[of[u]]
          /\ Told(of[u]) /\ u \notin registered
               => Seen(u) \o queue[u] = Append(sent[of[u]], Sentinel)
      BY <3>1 DEF Inv, Followed
    <3> QED
      BY <1>0, <3>1, <3>2, <3>3
  <2> QED
    BY <2>2, <2>3
<1> QED
  BY <1>3, <1>4, <1>5, <1>6 DEF Inv

LEMMA StreamStep ==
  ASSUME Inv, NEW t \in Tails, Stream(t) \/ Disconnect(t) \/ \E r \in Runs : Connect(t, r)
  PROVE  Inv'
<1>0. Typed /\ of[t] \in Runs /\ <<>> \in Seq(Message) /\ t \in Tails
  BY EmptySeq DEF Inv, Typed
<1>1. ASSUME NEW r \in Runs, Connect(t, r) PROVE Inv'
  <2>1. /\ pc' = [pc EXCEPT ![t] = "connecting"] /\ of' = [of EXCEPT ![t] = r]
        /\ queue' = [queue EXCEPT ![t] = <<>>] /\ backlog' = [backlog EXCEPT ![t] = <<>>]
        /\ shown' = [shown EXCEPT ![t] = <<>>] /\ up /\ row[r] # "none" /\ ~Connected(t)
        /\ UNCHANGED <<run, sent, history, world, registered>>
    BY <1>1 DEF Connect, Move, Empty
  <2>2. /\ pc'[t] = "connecting" /\ of'[t] = r /\ queue'[t] = <<>> /\ t \notin registered'
        /\ pc' \in [Tails -> {"away", "connecting", "subscribed", "live", "closed"}]
        /\ of' \in [Tails -> Runs] /\ queue' \in [Tails -> Seq(Message)]
        /\ backlog' \in [Tails -> Seq(Message)] /\ registered' \subseteq Tails
        /\ shown' = [u \in Tails |-> shown'[u]]
    BY <1>0, <2>1 DEF Typed, Inv, Attached, Streaming, Connected
  <2>3. \A u \in Tails \ {t} :
           /\ pc'[u] = pc[u] /\ of'[u] = of[u] /\ queue'[u] = queue[u]
           /\ backlog'[u] = backlog[u] /\ shown'[u] = shown[u]
           /\ u \in registered' <=> u \in registered
    BY <1>0, <2>1 DEF Typed
  <2>4. ~Streaming(t)'
    BY <2>2 DEF Streaming
  <2> QED
    BY <1>0, <2>1, <2>2, <2>3, <2>4, TailStep
<1>2. CASE Subscribe(t)
  <2>1. /\ pc[t] = "connecting" /\ pc' = [pc EXCEPT ![t] = "subscribed"]
        /\ registered' = registered \cup {t} /\ backlog' = [backlog EXCEPT ![t] = history[of[t]]]
        /\ UNCHANGED <<run, sent, history, world, queue, of, shown>>
    BY <1>2 DEF Subscribe, Move
  <2>2. /\ pc'[t] = "subscribed" /\ of'[t] = of[t] /\ queue'[t] = <<>> /\ t \in registered'
        /\ backlog'[t] = history[of[t]] /\ up /\ row[of[t]] # "none" /\ Streaming(t)'
        /\ pc' \in [Tails -> {"away", "connecting", "subscribed", "live", "closed"}]
        /\ of' \in [Tails -> Runs] /\ queue' \in [Tails -> Seq(Message)]
        /\ backlog' \in [Tails -> Seq(Message)] /\ registered' \subseteq Tails
        /\ shown' = [u \in Tails |-> shown'[u]]
    BY <1>0, <2>1 DEF Typed, Inv, Attached, Streaming, Connected
  <2>3. \A u \in Tails \ {t} :
           /\ pc'[u] = pc[u] /\ of'[u] = of[u] /\ queue'[u] = queue[u]
           /\ backlog'[u] = backlog[u] /\ shown'[u] = shown[u]
           /\ u \in registered' <=> u \in registered
    BY <1>0, <2>1 DEF Typed
  <2>4. (Seen(t) \o queue[t])' = history[of[t]]
    <3>1. history[of[t]] \in Seq(Message)
      BY <1>0 DEF Typed
    <3>2. Seen(t)' = history[of[t]]
      BY <2>2 DEF Seen
    <3>3. history[of[t]] \o <<>> = history[of[t]]
      BY <3>1, ConcatEmptySeq
    <3> QED
      BY <2>2, <3>2, <3>3
  <2>5. ~Told(of'[t]) => (Seen(t) \o queue[t])' = sent[of'[t]]
    BY <1>0, <2>2, <2>4 DEF Inv, Remembered
  <2> QED
    BY <1>0, <2>1, <2>2, <2>3, <2>5, TailStep
<1>3. CASE ReadFinished(t)
  <2>1. /\ pc' = [pc EXCEPT ![t] = "closed"] /\ registered' = registered \ {t}
        /\ UNCHANGED <<run, sent, history, world, queue, of, backlog>>
        /\ shown' = [shown EXCEPT ![t] = Append(stored[of[t]], Sentinel)]
    BY <1>3 DEF ReadFinished, Move
  <2>2. /\ pc'[t] = "closed" /\ t \notin registered' /\ ~Streaming(t)' /\ ~Connected(t)'
        /\ pc' \in [Tails -> {"away", "connecting", "subscribed", "live", "closed"}]
        /\ of' \in [Tails -> Runs] /\ queue' \in [Tails -> Seq(Message)]
        /\ backlog' \in [Tails -> Seq(Message)] /\ registered' \subseteq Tails
        /\ shown' = [u \in Tails |-> shown'[u]]
    BY <1>0, <2>1 DEF Typed, Streaming, Connected
  <2>3. \A u \in Tails \ {t} :
           /\ pc'[u] = pc[u] /\ of'[u] = of[u] /\ queue'[u] = queue[u]
           /\ backlog'[u] = backlog[u] /\ shown'[u] = shown[u]
           /\ u \in registered' <=> u \in registered
    <3>1. \A u \in Tails \ {t} : shown'[u] = shown[u]
      BY <1>0, <2>1 DEF Typed
    <3> QED
      BY <1>0, <2>1, <3>1 DEF Typed
  <2> QED
    BY <1>0, <2>1, <2>2, <2>3, TailStep
<1>4. CASE ReadRunning(t)
  <2>1. /\ pc[t] = "subscribed" /\ pc' = [pc EXCEPT ![t] = "live"]
        /\ shown' = [shown EXCEPT ![t] = backlog[t]]
        /\ UNCHANGED <<run, sent, history, world, registered, queue, of, backlog>>
    BY <1>4 DEF ReadRunning, Move, Replayed
  <2>2. /\ pc'[t] = "live" /\ shown'[t] = backlog[t] /\ of'[t] = of[t] /\ queue'[t] = queue[t]
        /\ shown'[t] \in Seq(Message) /\ Streaming(t) /\ Streaming(t)' /\ up /\ row[of[t]] # "none"
        /\ pc' \in [Tails -> {"away", "connecting", "subscribed", "live", "closed"}]
        /\ of' \in [Tails -> Runs] /\ queue' \in [Tails -> Seq(Message)]
        /\ backlog' \in [Tails -> Seq(Message)] /\ registered' \subseteq Tails
        /\ shown' = [u \in Tails |-> shown'[u]]
    BY <1>0, <2>1 DEF Typed, Inv, Attached, Streaming, Connected
  <2>3. \A u \in Tails \ {t} :
           /\ pc'[u] = pc[u] /\ of'[u] = of[u] /\ queue'[u] = queue[u]
           /\ backlog'[u] = backlog[u] /\ shown'[u] = shown[u]
           /\ u \in registered' <=> u \in registered
    BY <1>0, <2>1 DEF Typed
  <2>4. (Seen(t) \o queue[t])' = Seen(t) \o queue[t]
    BY <2>1, <2>2 DEF Seen
  <2>5. /\ ~Told(of[t]) => t \in registered /\ Seen(t) \o queue[t] = sent[of[t]]
        /\ Told(of[t]) /\ t \notin registered
              => Seen(t) \o queue[t] = Append(sent[of[t]], Sentinel)
    BY <2>2 DEF Inv, Followed
  <2> QED
    BY <1>0, <2>1, <2>2, <2>3, <2>4, <2>5, TailStep
<1>5. CASE Receive(t)
  <2>1. /\ pc[t] = "live" /\ queue[t] # <<>>
        /\ shown' = [shown EXCEPT ![t] = Append(shown[t], Head(queue[t]))]
        /\ queue' = [queue EXCEPT ![t] = Tail(queue[t])]
        /\ UNCHANGED <<run, sent, history, world, of, backlog>>
        /\ \/ pc' = [pc EXCEPT ![t] = "closed"] /\ registered' = registered \ {t}
           \/ UNCHANGED <<pc, registered>>
    BY <1>5 DEF Receive, Move
  <2>2. /\ shown[t] \in Seq(Message) /\ queue[t] \in Seq(Message)
        /\ Tail(queue[t]) \in Seq(Message) /\ Head(queue[t]) \in Message
    BY <1>0, <2>1, HeadTailProperties DEF Typed
  <2>3. /\ pc' \in [Tails -> {"away", "connecting", "subscribed", "live", "closed"}]
        /\ of' \in [Tails -> Runs] /\ queue' \in [Tails -> Seq(Message)]
        /\ backlog' \in [Tails -> Seq(Message)] /\ registered' \subseteq Tails
        /\ shown' = [u \in Tails |-> shown'[u]]
        /\ of'[t] = of[t] /\ queue'[t] = Tail(queue[t]) /\ up /\ row[of[t]] # "none"
        /\ pc'[t] \in {"live", "closed"} /\ Streaming(t)
    BY <1>0, <2>1, <2>2 DEF Typed, Inv, Attached, Streaming, Connected
  <2>4. \A u \in Tails \ {t} :
           /\ pc'[u] = pc[u] /\ of'[u] = of[u] /\ queue'[u] = queue[u]
           /\ backlog'[u] = backlog[u] /\ shown'[u] = shown[u]
           /\ u \in registered' <=> u \in registered
    BY <1>0, <2>1 DEF Typed
  <2>5. CASE pc' = [pc EXCEPT ![t] = "closed"] /\ registered' = registered \ {t}
    <3>1. pc'[t] = "closed" /\ t \notin registered' /\ ~Streaming(t)' /\ ~Connected(t)'
      BY <1>0, <2>5 DEF Typed, Streaming, Connected
    <3> QED
      BY <1>0, <2>1, <2>3, <2>4, <3>1, TailStep
  <2>6. CASE UNCHANGED <<pc, registered>>
    <3>1. /\ pc'[t] = "live" /\ Streaming(t)' /\ (t \in registered' <=> t \in registered)
      BY <2>1, <2>6 DEF Streaming
    <3>2. shown'[t] = Append(shown[t], Head(queue[t])) /\ shown'[t] \in Seq(Message)
      BY <1>0, <2>1, <2>2, Appended DEF Typed
    <3>3. (Seen(t) \o queue[t])' = Seen(t) \o queue[t]
      <4>1. Seen(t) = shown[t] /\ Seen(t)' = Append(shown[t], Head(queue[t]))
        BY <2>1, <3>1, <3>2 DEF Seen
      <4>2. Append(shown[t], Head(queue[t])) \o Tail(queue[t]) = shown[t] \o queue[t]
        BY <2>1, <2>2, Moved
      <4> QED
        BY <2>3, <4>1, <4>2
    <3>4. /\ ~Told(of[t]) => t \in registered /\ Seen(t) \o queue[t] = sent[of[t]]
          /\ Told(of[t]) /\ t \notin registered
                => Seen(t) \o queue[t] = Append(sent[of[t]], Sentinel)
      BY <2>3 DEF Inv, Followed
    <3> QED
      BY <1>0, <2>1, <2>3, <2>4, <3>1, <3>2, <3>3, <3>4, TailStep
  <2> QED
    BY <2>1, <2>5, <2>6
<1>6. CASE Disconnect(t)
  <2>1. /\ pc' = [pc EXCEPT ![t] = "away"] /\ registered' = registered \ {t}
        /\ queue' = [queue EXCEPT ![t] = <<>>] /\ backlog' = [backlog EXCEPT ![t] = <<>>]
        /\ shown' = [shown EXCEPT ![t] = <<>>]
        /\ UNCHANGED <<run, sent, history, world, of>>
    BY <1>6 DEF Disconnect, Move, Empty
  <2>2. /\ pc'[t] = "away" /\ t \notin registered' /\ ~Streaming(t)' /\ ~Connected(t)'
        /\ pc' \in [Tails -> {"away", "connecting", "subscribed", "live", "closed"}]
        /\ of' \in [Tails -> Runs] /\ queue' \in [Tails -> Seq(Message)]
        /\ backlog' \in [Tails -> Seq(Message)] /\ registered' \subseteq Tails
        /\ shown' = [u \in Tails |-> shown'[u]]
    BY <1>0, <2>1 DEF Typed, Streaming, Connected
  <2>3. \A u \in Tails \ {t} :
           /\ pc'[u] = pc[u] /\ of'[u] = of[u] /\ queue'[u] = queue[u]
           /\ backlog'[u] = backlog[u] /\ shown'[u] = shown[u]
           /\ u \in registered' <=> u \in registered
    BY <1>0, <2>1 DEF Typed
  <2> QED
    BY <1>0, <2>1, <2>2, <2>3, TailStep
<1> QED
  BY <1>1, <1>2, <1>3, <1>4, <1>5, <1>6 DEF Stream

-----------------------------------------------------------------------------
(* The process *)

LEMMA CrashStep ==
  ASSUME Inv, Crash
  PROVE  Inv'
<1>0. Typed /\ <<>> \in Seq(Message)
  BY EmptySeq DEF Inv
<1>1. /\ up' = FALSE /\ registered' = {} /\ UNCHANGED <<kind, row, of>>
      /\ sent' = [r \in Runs |-> <<>>] /\ history' = [r \in Runs |-> <<>>]
      /\ pc' = [t \in Tails |-> "away"] /\ queue' = [t \in Tails |-> <<>>]
      /\ backlog' = [t \in Tails |-> <<>>] /\ shown' = [t \in Tails |-> <<>>]
  BY DEF Crash
<1>2. stage' \in [Runs -> Stages] /\ \A r \in Runs : stage'[r] \in {"down", "ended", "absent"}
  <2>1. stage' = [r \in Runs |-> IF row[r] = "running" THEN "down"
                                 ELSE IF stage[r] # "absent" THEN "ended" ELSE "absent"]
    BY DEF Crash
  <2> QED
    BY <2>1 DEF Stages
<1>3. Typed'
  BY <1>0, <1>1, <1>2 DEF Typed
<1>4. \A t \in Tails : ~Streaming(t)' /\ ~Connected(t)'
  BY <1>1 DEF Streaming, Connected
<1>5. Attached'
  BY <1>1, <1>2, <1>4 DEF Attached
<1>6. Remembered'
  BY <1>1 DEF Remembered
<1>7. Followed'
  BY <1>4 DEF Followed
<1> QED
  BY <1>3, <1>5, <1>6, <1>7 DEF Inv

LEMMA StartupStep ==
  ASSUME Inv, NEW resumed \in SUBSET Runs, Startup(resumed)
  PROVE  Inv'
<1> DEFINE closed == {r \in Runs : stage[r] = "down"} \ resumed
<1>0. Typed
  BY DEF Inv
<1>1. /\ ~up /\ up' = TRUE /\ \A r \in resumed : stage[r] = "down"
      /\ kind' = [r \in Runs |-> IF r \in resumed THEN "delivered" ELSE kind[r]]
      /\ stage' = [r \in Runs |-> IF r \in resumed THEN "absent"
                                  ELSE IF r \in closed THEN "ended" ELSE stage[r]]
      /\ row' = [r \in Runs |-> IF r \in closed THEN "closed" ELSE row[r]]
      /\ UNCHANGED <<sent, history, registered, queue, pc, of, backlog, shown>>
  BY DEF Startup, tail
<1>2. \A r \in closed : stage[r] = "down"
  OBVIOUS
<1> HIDE DEF closed
<1>3. Typed'
  BY <1>0, <1>1 DEF Typed, Kinds, Stages
<1>4. \A t \in Tails : ~Streaming(t)' /\ ~Connected(t)'
  BY <1>1 DEF Inv, Attached, Streaming, Connected
<1>5. Attached'
  <2>1. \A t \in registered' : FALSE
    BY <1>0, <1>1, <1>4 DEF Inv, Attached, Typed, Streaming
  <2>2. \A r \in Runs : stage'[r] \in {"started", "closing", "closed"} => kind'[r] # "replay"
    BY <1>0, <1>1, <1>2 DEF Inv, Attached
  <2>3. \A t \in Tails : pc'[t] # "connecting"
    BY <1>4 DEF Connected
  <2> QED
    BY <1>4, <2>1, <2>2, <2>3 DEF Attached
<1>6. Remembered'
  <2> SUFFICES ASSUME NEW r \in Runs
               PROVE  /\ ~Told(r)' => history'[r] = sent'[r]
                      /\ stage'[r] \in {"absent", "down"} \/ Told(r)' => history'[r] = <<>>
    BY DEF Remembered
  <2>1. CASE stage[r] = "down"
    <3>1. history[r] = <<>> /\ history[r] = sent[r]
      BY <2>1 DEF Inv, Remembered, Told
    <3> QED
      BY <1>1, <3>1
  <2>2. CASE stage[r] # "down"
    <3>1. stage'[r] = stage[r] /\ kind'[r] = kind[r]
      BY <1>0, <1>1, <1>2, <2>2 DEF Typed
    <3>2. Told(r)' <=> Told(r)
      BY <3>1 DEF Told
    <3> QED
      BY <1>1, <3>1, <3>2 DEF Inv, Remembered
  <2> QED
    BY <2>1, <2>2
<1>7. Followed'
  BY <1>4 DEF Followed
<1> QED
  BY <1>3, <1>5, <1>6, <1>7 DEF Inv

-----------------------------------------------------------------------------
LEMMA InitInv == Init => Inv
<1> SUFFICES ASSUME Init PROVE Inv
  OBVIOUS
<1>1. <<>> \in Seq(Message)
  BY EmptySeq
<1>2. Typed
  BY <1>1 DEF Init, Typed, Stages
<1>3. \A t \in Tails : ~Streaming(t) /\ ~Connected(t)
  BY DEF Init, Streaming, Connected
<1>4. Attached
  BY <1>3 DEF Init, Attached
<1>5. Remembered
  BY DEF Init, Remembered
<1>6. Followed
  BY <1>3 DEF Followed
<1> QED
  BY <1>2, <1>4, <1>5, <1>6 DEF Inv

LEMMA InvStep == Inv /\ [Next]_vars => Inv'
<1> SUFFICES ASSUME Inv, [Next]_vars PROVE Inv'
  OBVIOUS
<1>1. ASSUME NEW r \in Runs, Progress(r) \/ Raise(r) PROVE Inv'
  BY <1>1, RunStep
<1>2. ASSUME NEW t \in Tails, Stream(t) \/ Disconnect(t) \/ \E r \in Runs : Connect(t, r)
      PROVE  Inv'
  BY <1>2, StreamStep
<1>3. CASE Crash
  BY <1>3, CrashStep
<1>4. ASSUME NEW resumed \in SUBSET Runs, Startup(resumed) PROVE Inv'
  BY <1>4, StartupStep
<1>5. CASE UNCHANGED vars
  <2>1. UNCHANGED <<kind, stage, row, sent, history, registered, of, up, pc, queue, backlog, shown>>
    BY <1>5 DEF vars, run, tail, world
  <2>2. Typed'
    BY <2>1 DEF Inv, Typed
  <2>3. Attached'
    BY <2>1 DEF Inv, Attached, Streaming, Connected
  <2>4. Remembered'
    BY <2>1 DEF Inv, Remembered, Told
  <2>5. Followed'
    BY <2>1 DEF Inv, Followed, Streaming, Told, Seen
  <2> QED
    BY <2>2, <2>3, <2>4, <2>5 DEF Inv
<1> QED
  BY <1>1, <1>2, <1>3, <1>4, <1>5 DEF Next

LEMMA Invariance == Spec => []Inv
<1> QED
  BY InitInv, InvStep, PTL DEF Spec

\* However a browser's connection falls between the events of a run, the copy of its history,
\* the reading of its row and the end of the run: what the stream shows and has yet to show is
\* every event published, once and in order, and then the sentinel (run_events.subscribe,
\* publish and publish_complete; ui_run_stream).
THEOREM EveryEventOnce == Spec => []TailShowsAll
<1>1. Inv => TailShowsAll
  <2> SUFFICES ASSUME Inv, NEW t \in Tails, Streaming(t), ~(Told(of[t]) /\ t \in registered)
               PROVE  Seen(t) \o queue[t]
                        = IF Told(of[t]) THEN Append(sent[of[t]], Sentinel) ELSE sent[of[t]]
    BY DEF TailShowsAll, Streaming, Seen
  <2> QED
    BY DEF Inv, Followed
<1> QED
  BY <1>1, Invariance, PTL

\* No stream that has ended leaves its queue with the bus, and no run that has ended, but for
\* those that the bus is never told of, leaves its history there (publish_complete, unsubscribe).
THEOREM BusIsCleaned == Spec => []NothingLeftBehind
<1>1. Inv => NothingLeftBehind
  <2> SUFFICES ASSUME Inv PROVE NothingLeftBehind
    OBVIOUS
  <2>1. \A t \in registered : pc[t] \in {"subscribed", "live"}
    BY DEF Inv, Attached, Streaming
  <2>2. ASSUME NEW r \in Runs, history[r] # <<>>
        PROVE  \/ stage[r] \in Running \/ kind[r] = "replay"
               \/ stage[r] = "raised" /\ kind[r] = "called"
    <3>1. stage[r] \in Stages /\ kind[r] \in Kinds
      BY DEF Inv, Typed
    <3>2. stage[r] \notin {"absent", "down"} /\ ~Told(r)
      BY <2>2 DEF Inv, Remembered
    <3> QED
      BY <3>1, <3>2 DEF Told, Stages, Running, Kinds
  <2> QED
    BY <2>1, <2>2 DEF NothingLeftBehind
<1> QED
  BY <1>1, Invariance, PTL
-----------------------------------------------------------------------------
(* What is kept of the events *)

\* Of any subsets of a finite set, one has none of the others in it.
LEMMA Smallest ==
  ASSUME NEW S, IsFiniteSet(S), NEW B, B \subseteq SUBSET S, B # {}
  PROVE  \E T \in B : \A U \in B : U \subseteq T => U = T
<1>1. B \subseteq FiniteSubsetsOf(S)
  BY FS_FiniteSubsetsOfFinite
<1>2. PICK T \in B : \A U \in B : ~ (<<U, T>> \in StrictSubsetOrdering(S))
  BY <1>1, FS_StrictSubsetOrderingWellFounded, WFMin
<1>3. ASSUME NEW U \in B, U \subseteq T, U # T
      PROVE  FALSE
  <2>1. <<U, T>> \in StrictSubsetOrdering(S)
    BY <1>3 DEF StrictSubsetOrdering
  <2> QED
    BY <1>2, <2>1
<1> QED
  BY <1>3

\* Of any whole numbers up to a bound, one is the least.
LEMMA Least ==
  ASSUME NEW n \in Nat, NEW T \in SUBSET (0..n), T # {}
  PROVE  \E m \in T : \A k \in T : m <= k
<1> DEFINE B == {0..k : k \in T}
           S == 0..n
<1>1. IsFiniteSet(S)
  BY FS_Interval
<1>2. B \subseteq SUBSET S /\ B # {}
  <2>1. \A k \in T : 0..k \subseteq S
    OBVIOUS
  <2> QED
    BY <2>1
<1>3. PICK U \in B : \A V \in B : V \subseteq U => V = U
  <2> HIDE DEF B, S
  <2> QED
    BY <1>1, <1>2, Smallest
<1>4. PICK m \in T : U = 0..m
  BY <1>3
<1>5. ASSUME NEW k \in T, k < m
      PROVE  FALSE
  <2>1. 0..k \in B /\ 0..k \subseteq 0..m /\ 0..k # 0..m
    BY <1>5
  <2> HIDE DEF B
  <2> QED
    BY <1>3, <1>4, <2>1
<1>6. \A k \in T : m <= k
  BY <1>5
<1> QED
  BY <1>6

\* kept is what is kept of ever more of the events.
Keeps(events, n, kept) ==
  kept = [i \in 0..n |-> IF i = 0 THEN <<>>
                         ELSE IF IsLogged(events[i]) THEN Append(kept[i - 1], events[i])
                         ELSE kept[i - 1]]

LEMMA KeepsAt ==
  ASSUME NEW events, NEW n, NEW kept, Keeps(events, n, kept), NEW i \in 0..n
  PROVE  kept[i] = IF i = 0 THEN <<>>
                   ELSE IF IsLogged(events[i]) THEN Append(kept[i - 1], events[i])
                   ELSE kept[i - 1]
BY DEF Keeps

LEMMA KeepsExists ==
  ASSUME NEW events, NEW n \in Nat
  PROVE  \E kept : Keeps(events, n, kept)
<1> SUFFICES ASSUME ~ \E kept : Keeps(events, n, kept)
             PROVE  FALSE
  OBVIOUS
<1> DEFINE T == {k \in 0..n : ~ \E kept : Keeps(events, k, kept)}
<1>1. T \in SUBSET (0..n) /\ T # {}
  OBVIOUS
<1>2. PICK m \in T : \A k \in T : m <= k
  <2> HIDE DEF T
  <2> QED
    BY <1>1, Least
<1>3. m \in 0..n /\ ~ \E kept : Keeps(events, m, kept)
  OBVIOUS
<1>4. m # 0
  <2> SUFFICES ASSUME m = 0 PROVE FALSE
    OBVIOUS
  <2> DEFINE g == [i \in 0..0 |-> <<>>]
  <2>1. Keeps(events, 0, g)
    BY DEF Keeps
  <2> QED
    BY <1>3, <2>1
<1>5. m - 1 \in 0..n /\ m - 1 \notin T
  BY <1>2, <1>3, <1>4
<1>6. PICK h : Keeps(events, m - 1, h)
  BY <1>5
<1> DEFINE g == [i \in 0..m |-> IF i = 0 THEN <<>>
                                ELSE IF IsLogged(events[i]) THEN Append(h[i - 1], events[i])
                                ELSE h[i - 1]]
<1>7. \A i \in 0..(m - 1) : g[i] = h[i]
  <2> SUFFICES ASSUME NEW i \in 0..(m - 1) PROVE g[i] = h[i]
    OBVIOUS
  <2>1. h[i] = IF i = 0 THEN <<>>
               ELSE IF IsLogged(events[i]) THEN Append(h[i - 1], events[i])
               ELSE h[i - 1]
    BY <1>6, KeepsAt
  <2>2. i \in 0..m
    BY <1>3, <1>4
  <2> QED
    BY <2>1, <2>2
<1>8. Keeps(events, m, g)
  <2>1. \A i \in 0..m : i # 0 => g[i - 1] = h[i - 1]
    <3>1. \A i \in 0..m : i # 0 => i - 1 \in 0..(m - 1)
      BY <1>3
    <3> HIDE DEF g
    <3> QED
      BY <1>7, <3>1
  <2>2. \A i \in 0..m : g[i] = IF i = 0 THEN <<>>
                               ELSE IF IsLogged(events[i]) THEN Append(h[i - 1], events[i])
                               ELSE h[i - 1]
    OBVIOUS
  <2>3. g = [i \in 0..m |-> g[i]]
    OBVIOUS
  <2> HIDE DEF g
  <2> QED
    BY <2>1, <2>2, <2>3 DEF Keeps
<1> QED
  BY <1>3, <1>8

\* What is kept of some first events does not depend on what follows them.
LEMMA KeepsAgree ==
  ASSUME NEW s, NEW u, NEW m \in Nat, NEW n \in Nat, NEW a, NEW b,
         Keeps(s, m, a), Keeps(u, n, b), NEW l \in Nat, l <= m, l <= n,
         \A i \in 1..l : s[i] = u[i]
  PROVE  a[l] = b[l]
<1> SUFFICES ASSUME a[l] # b[l]
             PROVE  FALSE
  OBVIOUS
<1> DEFINE T == {k \in 0..l : a[k] # b[k]}
<1>1. T \in SUBSET (0..l) /\ T # {}
  OBVIOUS
<1>2. PICK k \in T : \A j \in T : k <= j
  <2> HIDE DEF T
  <2> QED
    BY <1>1, Least
<1>3. k \in 0..m /\ k \in 0..n /\ k \in 0..l /\ a[k] # b[k]
  OBVIOUS
<1>4. /\ a[k] = IF k = 0 THEN <<>>
                ELSE IF IsLogged(s[k]) THEN Append(a[k - 1], s[k]) ELSE a[k - 1]
      /\ b[k] = IF k = 0 THEN <<>>
                ELSE IF IsLogged(u[k]) THEN Append(b[k - 1], u[k]) ELSE b[k - 1]
  BY <1>3, KeepsAt
<1>5. k # 0
  BY <1>3, <1>4
<1>6. k - 1 \in 0..l /\ k - 1 \notin T /\ s[k] = u[k]
  BY <1>2, <1>3, <1>5
<1>7. a[k - 1] = b[k - 1]
  BY <1>6
<1> QED
  BY <1>3, <1>4, <1>6, <1>7

LEMMA LoggedKeeps ==
  ASSUME NEW s, Len(s) \in Nat
  PROVE  \E kept : Keeps(s, Len(s), kept) /\ Logged(s) = kept[Len(s)]
<1> DEFINE kept == CHOOSE kept : Keeps(s, Len(s), kept)
<1>1. Keeps(s, Len(s), kept)
  BY KeepsExists
<1>2. Logged(s) = kept[Len(s)]
  BY DEF Logged, Keeps
<1> QED
  BY <1>1, <1>2

LEMMA LoggedEmpty == Logged(<<>>) = <<>>
<1>1. Len(<<>>) = 0
  OBVIOUS
<1>2. PICK kept : Keeps(<<>>, 0, kept) /\ Logged(<<>>) = kept[0]
  BY <1>1, LoggedKeeps
<1> QED
  BY <1>2, KeepsAt

\* The log of one more event.
LEMMA LoggedAppend ==
  ASSUME NEW s \in Seq(Message), NEW e \in Message
  PROVE  Logged(Append(s, e)) = IF IsLogged(e) THEN Append(Logged(s), e) ELSE Logged(s)
<1> DEFINE n == Len(s)
           u == Append(s, e)
<1>1. n \in Nat /\ Len(u) = n + 1 /\ u[n + 1] = e /\ \A i \in 1..n : u[i] = s[i]
  BY AppendProperties, LenProperties
<1>2. PICK a : Keeps(s, n, a) /\ Logged(s) = a[n]
  BY <1>1, LoggedKeeps
<1>3. PICK b : Keeps(u, n + 1, b) /\ Logged(u) = b[n + 1]
  <2> HIDE DEF u
  <2> QED
    BY <1>1, LoggedKeeps
<1> HIDE DEF n, u
<1>4. b[n + 1] = IF IsLogged(u[n + 1]) THEN Append(b[n], u[n + 1]) ELSE b[n]
  BY <1>1, <1>3, KeepsAt
<1>5. a[n] = b[n]
  <2>1. n + 1 \in Nat /\ n <= n + 1 /\ n <= n
    BY <1>1
  <2> QED
    BY <1>1, <1>2, <1>3, <2>1, KeepsAgree
<1> QED
  BY <1>1, <1>2, <1>3, <1>4, <1>5 DEF u

-----------------------------------------------------------------------------
(* A tail that was told *)

\* Of what a run publishes the log is kept, and nothing is the sentinel.
Fine(s) ==
  /\ Logged(s) \in Seq(Message) /\ Logged(Logged(s)) = Logged(s)
  /\ \A i \in 1..Len(s) : s[i] # Sentinel

Filtered ==
  /\ stored \in [Runs -> Seq(Message)]
  /\ \A r \in Runs : Fine(sent[r]) /\ Logged(stored[r]) = stored[r]

\* Where a run is says what its row is; when the process is down there is no tail.
Staged ==
  /\ ~up => \A t \in Tails : pc[t] = "away"
  /\ \A r \in Runs :
       /\ stage[r] \in {"absent", "started"} => row[r] \in {"none", "running"}
       /\ stage[r] \in {"executing", "closing", "down"} => row[r] = "running"
       /\ stage[r] = "closed" => row[r] = "closed" /\ stored[r] = Logged(sent[r])

\* A tail that came too late for the run has nothing to hear, one that did not has heard or
\* will hear all of the log, and one that was told has shown it.
Heard ==
  \A t \in Tails :
    /\ Streaming(t) /\ Told(of[t]) =>
         IF t \in registered THEN queue[t] = <<>>
         ELSE row[of[t]] = "closed" => stored[of[t]] = Logged(sent[of[t]])
    /\ pc[t] = "closed" =>
         /\ row[of[t]] = "closed" => Logged(shown[t]) = stored[of[t]]
         /\ row[of[t]] # "closed" => Told(of[t])

LEMMA FineEmpty == Fine(<<>>)
<1>1. Len(<<>>) = 0
  OBVIOUS
<1>2. <<>> \in Seq(Message)
  BY EmptySeq
<1>3. Logged(<<>>) \in Seq(Message) /\ Logged(Logged(<<>>)) = Logged(<<>>)
  BY <1>2, LoggedEmpty, Zenon
<1>4. \A i \in 1..Len(<<>>) : <<>>[i] # Sentinel
  BY <1>1
<1> QED
  BY <1>3, <1>4, Zenon DEF Fine

LEMMA FineAppend ==
  ASSUME NEW s \in Seq(Message), Fine(s), NEW e \in Message, e # Sentinel
  PROVE  Fine(Append(s, e))
<1> DEFINE u == Append(s, e)
           l == Logged(s)
<1>1. Logged(u) = IF IsLogged(e) THEN Append(l, e) ELSE l
  BY LoggedAppend
<1>2. l \in Seq(Message) /\ Logged(l) = l
  BY DEF Fine
<1>3. Append(l, e) \in Seq(Message)
  BY <1>2, Appended
<1>4. IsLogged(e) => Logged(Append(l, e)) = Append(l, e)
  <2> HIDE DEF l
  <2> QED
    BY <1>2, LoggedAppend
<1>5. Logged(u) \in Seq(Message) /\ Logged(Logged(u)) = Logged(u)
  <2> HIDE DEF l, u
  <2> QED
    BY <1>1, <1>2, <1>3, <1>4
<1>6. \A i \in 1..Len(u) : u[i] # Sentinel
  <2>1. /\ Len(u) = Len(s) + 1 /\ Len(s) \in Nat /\ u[Len(s) + 1] = e
        /\ \A i \in 1..Len(s) : u[i] = s[i]
    BY AppendProperties, LenProperties
  <2> HIDE DEF u
  <2>2. \A i \in 1..Len(u) : i \in 1..Len(s) \/ i = Len(s) + 1
    BY <2>1
  <2> QED
    BY <2>1, <2>2 DEF Fine
<1> QED
  BY <1>5, <1>6 DEF Fine

LEMMA EventIsFine ==
  ASSUME Typed, NEW r \in Runs, NEW k \in {"log", "trace"}
  PROVE  NextEvent(r, k) \in Message /\ NextEvent(r, k) # Sentinel
<1>1. NextEvent(r, k) # Sentinel
  BY DEF NextEvent, Sentinel
<1> QED
  BY <1>1, NextIsMessage

LEMMA FilteredStep == Inv /\ Filtered /\ [Next]_vars => Filtered'
<1> SUFFICES ASSUME Inv, Filtered, [Next]_vars PROVE Filtered'
  OBVIOUS
<1>0. Typed
  BY DEF Inv
<1>1. ASSUME NEW r \in Runs, NEW k \in {"log", "trace"},
             sent' = [sent EXCEPT ![r] = Append(@, NextEvent(r, k))], UNCHANGED stored
      PROVE  Filtered'
  <2>1. Fine(Append(sent[r], NextEvent(r, k)))
    BY <1>0, FineAppend, EventIsFine DEF Filtered, Typed
  <2> QED
    BY <1>0, <1>1, <2>1 DEF Filtered, Typed
<1>2. CASE UNCHANGED <<sent, stored>>
  BY <1>2 DEF Filtered
<1>3. ASSUME NEW r \in Runs, CloseRow(r) PROVE Filtered'
  <2>1. Fine(sent[r])
    BY DEF Filtered
  <2>2. \A q \in Runs : stored'[q] = stored[q] \/ stored'[q] = Logged(sent[r])
    BY <1>3 DEF CloseRow, FinalLog
  <2>3. UNCHANGED sent
    BY <1>3 DEF CloseRow
  <2>4. stored' = [stored EXCEPT ![r] = Logged(sent[r])]
    BY <1>3 DEF CloseRow, FinalLog
  <2> QED
    BY <2>1, <2>2, <2>3, <2>4 DEF Filtered, Fine
<1>4. CASE Crash
  BY <1>4, FineEmpty DEF Crash, Filtered
<1>5. ASSUME NEW resumed \in SUBSET Runs, Startup(resumed) PROVE Filtered'
  <2>1. Interrupted \in Message /\ IsLogged(Interrupted)
    BY DEF Interrupted, Message, IsLogged
  <2>2. <<>> \in Seq(Message) /\ Append(<<>>, Interrupted) = <<Interrupted>>
    BY <2>1
  <2>3. <<Interrupted>> \in Seq(Message)
    BY <2>1, <2>2, Appended
  <2>4. Logged(<<Interrupted>>) = <<Interrupted>>
    BY <2>1, <2>2, LoggedAppend, LoggedEmpty
  <2>5. UNCHANGED sent
        /\ stored' = [q \in Runs |-> stored'[q]]
        /\ \A q \in Runs : stored'[q] \in {stored[q], <<Interrupted>>}
    BY <1>5 DEF Startup
  <2> QED
    BY <2>3, <2>4, <2>5 DEF Filtered
<1>6. ASSUME NEW r \in Runs, Progress(r) \/ Raise(r) PROVE Filtered'
  <2>1. CASE \/ \E k \in {"log", "trace"} : Emit(r, k)
             \/ Start(r) \/ Resume(r) \/ Finish(r) \/ Deduplicate(r)
    <3>1. UNCHANGED stored
      BY <2>1 DEF Emit, Start, Resume, Finish, Deduplicate, run
    <3>2. PICK k \in {"log", "trace"} :
            sent' = [sent EXCEPT ![r] = Append(@, NextEvent(r, k))]
      BY <2>1 DEF Emit, Start, Resume, Finish, Deduplicate, Publish
    <3> QED
      BY <1>1, <3>1, <3>2
  <2>2. CASE Create(r) \/ OpenBatch(r) \/ Complete(r) \/ FinaliseBatch(r) \/ Raise(r)
    BY <1>2, <2>2 DEF Create, OpenBatch, Complete, FinaliseBatch, Raise
  <2> QED
    BY <1>3, <1>6, <2>1, <2>2 DEF Progress
<1>7. ASSUME NEW t \in Tails, Stream(t) \/ Disconnect(t) \/ \E r \in Runs : Connect(t, r)
      PROVE  Filtered'
  BY <1>2, <1>7 DEF Stream, Subscribe, ReadFinished, ReadRunning, Receive, Disconnect,
     Connect, run
<1>8. CASE UNCHANGED vars
  BY <1>2, <1>8 DEF vars, run
<1> QED
  BY <1>4, <1>5, <1>6, <1>7, <1>8 DEF Next

LEMMA StagedStep == Inv /\ Filtered /\ Staged /\ [Next]_vars => Staged'
<1> SUFFICES ASSUME Inv, Filtered, Staged, [Next]_vars PROVE Staged'
  OBVIOUS
<1>0. Typed /\ Attached /\ stored = [r \in Runs |-> stored[r]]
  BY DEF Inv, Filtered
<1>1. ASSUME NEW r \in Runs, up, Progress(r) \/ Raise(r) PROVE Staged'
  <2>1. /\ UNCHANGED up
        /\ \A q \in Runs \ {r} : /\ stage'[q] = stage[q] /\ row'[q] = row[q]
                                 /\ stored'[q] = stored[q] /\ sent'[q] = sent[q]
    BY <1>0, <1>1 DEF Typed, Staged, Progress, Emit, Start, Create, Deduplicate, Resume, OpenBatch,
       Finish, CloseRow, Complete, FinaliseBatch, Raise, Publish, Enter, run, world
  <2>2. /\ stage'[r] \in {"absent", "started"} => row'[r] \in {"none", "running"}
        /\ stage'[r] \in {"executing", "closing", "down"} => row'[r] = "running"
        /\ stage'[r] = "closed" => row'[r] = "closed" /\ stored'[r] = Logged(sent'[r])
    <3>1. CASE \E k \in {"log", "trace"} : Emit(r, k)
      BY <1>0, <3>1 DEF Emit, Staged, run
    <3>2. CASE Start(r) \/ Resume(r) \/ Finish(r) \/ Create(r) \/ OpenBatch(r)
      BY <1>0, <3>2 DEF Start, Resume, Finish, Create, OpenBatch, Enter, Staged, Typed
    <3>3. CASE Deduplicate(r) \/ Complete(r) \/ FinaliseBatch(r) \/ Raise(r)
      BY <1>0, <3>3 DEF Deduplicate, Complete, FinaliseBatch, Raise, Enter, Typed
    <3>4. CASE CloseRow(r)
      <4>1. stage'[r] = "closed" /\ row'[r] = "closed" /\ UNCHANGED sent
        BY <1>0, <3>4 DEF CloseRow, Enter, Typed
      <4>2. stored' = [stored EXCEPT ![r] = Logged(sent[r])]
        BY <3>4 DEF CloseRow, FinalLog
      <4>3. stored'[r] = Logged(sent[r])
        BY <1>0, <4>2
      <4> QED
        BY <4>1, <4>3
    <3> QED
      BY <1>1, <3>1, <3>2, <3>3, <3>4 DEF Progress
  <2> QED
    BY <1>1, <2>1, <2>2 DEF Staged
<1>2. ASSUME NEW t \in Tails, Stream(t) \/ Disconnect(t) \/ \E r \in Runs : Connect(t, r)
      PROVE  Staged'
  <2>1. UNCHANGED <<stage, row, stored, sent, up>>
    BY <1>2 DEF Stream, Subscribe, ReadFinished, ReadRunning, Receive, Disconnect,
       Connect, run, world
  <2>2. up
    BY <1>0, <1>2 DEF Stream, Subscribe, ReadFinished, ReadRunning, Receive, Disconnect,
       Connect, Attached, Connected
  <2> QED
    BY <2>1, <2>2 DEF Staged
<1>3. CASE Crash
  BY <1>0, <1>3 DEF Crash, Staged, Typed
<1>4. ASSUME NEW resumed \in SUBSET Runs, Startup(resumed) PROVE Staged'
  <2>1. up' /\ UNCHANGED sent
    BY <1>4 DEF Startup
  <2>2. ASSUME NEW r \in Runs
        PROVE  \/ stage[r] = "down" /\ stage'[r] = "absent" /\ row'[r] = row[r]
               \/ stage'[r] = "ended"
               \/ stage'[r] = stage[r] /\ row'[r] = row[r] /\ stored'[r] = stored[r]
    BY <1>4, <2>2 DEF Startup
  <2> QED
    BY <2>1, <2>2 DEF Staged
<1>5. CASE UNCHANGED vars
  BY <1>5 DEF vars, run, tail, world, Staged
<1> QED
  BY <1>1, <1>2, <1>3, <1>4, <1>5 DEF Next

\* The sentinel is the last thing heard.
LEMMA SentinelEnds ==
  ASSUME NEW s \in Seq(Message), NEW q \in Seq(Message), NEW w \in Seq(Message),
         q # <<>>, Head(q) = Sentinel, \A i \in 1..Len(w) : w[i] # Sentinel
  PROVE  s \o q # w /\ (s \o q = Append(w, Sentinel) => s = w)
<1> DEFINE a == s \o q
           b == Append(w, Sentinel)
<1>1. /\ Len(s) \in Nat /\ Len(q) \in Nat /\ Len(q) # 0 /\ Len(w) \in Nat
      /\ q[1] = Sentinel
  BY EmptySeq, LenProperties
<1>2. /\ Len(a) = Len(s) + Len(q)
      /\ \A i \in 1..Len(a) : a[i] = IF i <= Len(s) THEN s[i] ELSE q[i - Len(s)]
  BY <1>1, ConcatProperties
<1>3. /\ Len(b) = Len(w) + 1
      /\ \A i \in 1..Len(w) : b[i] = w[i]
  BY SentinelIsMessage, AppendProperties
<1> DEFINE n == Len(s) + 1
<1> HIDE DEF a, b
<1>4. n \in 1..Len(a) /\ a[n] = Sentinel
  <2>1. n \in 1..Len(a) /\ ~(n <= Len(s)) /\ n - Len(s) = 1
    BY <1>1, <1>2
  <2> HIDE DEF n
  <2> QED
    BY <1>1, <1>2, <2>1
<1>5. a # w
  <2> HIDE DEF n
  <2> QED
    BY <1>4
<1>6. ASSUME a = b PROVE s = w
  <2>1. n \notin 1..Len(w)
    <3> HIDE DEF n
    <3> QED
      BY <1>3, <1>4, <1>6
  <2>2. Len(s) = Len(w)
    BY <1>1, <1>3, <1>4, <1>6, <2>1
  <2>3. ASSUME NEW i \in 1..Len(s) PROVE s[i] = w[i]
    <3>1. i \in 1..Len(a) /\ i <= Len(s)
      BY <1>1, <1>2
    <3>2. a[i] = s[i]
      BY <1>2, <3>1
    <3>3. b[i] = w[i]
      BY <1>3, <2>2
    <3> QED
      BY <1>6, <3>2, <3>3
  <2> QED
    BY <2>2, <2>3, SeqEqual
<1> QED
  BY <1>5, <1>6 DEF a, b

\* What a run does is heard of by the tails of that run only.
LEMMA HeardOfRun ==
  ASSUME Inv, Heard, NEW r \in Runs, ~Told(r), UNCHANGED <<kind, pc, of, shown>>,
         \A q \in Runs \ {r} : /\ stage'[q] = stage[q]
                               /\ row'[q] = row[q] /\ stored'[q] = stored[q]
                               /\ sent'[q] = sent[q],
         row[r] = "closed" => row'[r] = "closed" /\ stored'[r] = stored[r],
         Told(r)' /\ row'[r] = "closed" => stored'[r] = Logged(sent'[r]),
         \A t \in Tails : of[t] = r /\ Told(r)' => t \notin registered',
         \A t \in Tails : of[t] # r =>
           queue'[t] = queue[t] /\ (t \in registered' <=> t \in registered)
  PROVE  Heard'
<1> SUFFICES ASSUME NEW t \in Tails
             PROVE  /\ Streaming(t) /\ Told(of[t])' =>
                         IF t \in registered' THEN queue'[t] = <<>>
                         ELSE row'[of[t]] = "closed" => stored'[of[t]] = Logged(sent'[of[t]])
                    /\ pc[t] = "closed" =>
                         /\ row'[of[t]] = "closed" => Logged(shown[t]) = stored'[of[t]]
                         /\ row'[of[t]] # "closed" => Told(of[t])'
  BY DEF Heard, Streaming
<1>1. of[t] \in Runs
  BY DEF Inv, Typed
<1>2. /\ Streaming(t) /\ Told(of[t]) =>
           IF t \in registered THEN queue[t] = <<>>
           ELSE row[of[t]] = "closed" => stored[of[t]] = Logged(sent[of[t]])
      /\ pc[t] = "closed" =>
           /\ row[of[t]] = "closed" => Logged(shown[t]) = stored[of[t]]
           /\ row[of[t]] # "closed" => Told(of[t])
  BY DEF Heard
<1>3. CASE of[t] = r
  <2>1. Told(of[t])' <=> Told(r)'
    BY <1>3 DEF Told
  <2> QED
    BY <1>2, <1>3, <2>1
<1>4. CASE of[t] # r
  <2>1. Told(of[t])' <=> Told(of[t])
    BY <1>1, <1>4 DEF Told
  <2> QED
    BY <1>1, <1>2, <1>4, <2>1
<1> QED
  BY <1>3, <1>4

LEMMA RunHeard ==
  ASSUME Inv, Filtered, Staged, Heard, NEW r \in Runs, Progress(r) \/ Raise(r)
  PROVE  Heard'
<1>0. Typed /\ Attached /\ stage[r] \in Stages /\ kind[r] \in Kinds
  BY DEF Inv, Typed
<1>1. ~Told(r) /\ UNCHANGED <<kind, pc, of, shown>>
  BY DEF Told, Progress, Emit, Start, Create, Deduplicate, Resume, OpenBatch, Finish, CloseRow,
     Complete, FinaliseBatch, Raise, run, tail
<1>2. \A q \in Runs \ {r} : /\ stage'[q] = stage[q] /\ row'[q] = row[q]
                            /\ stored'[q] = stored[q] /\ sent'[q] = sent[q]
  BY <1>0 DEF Typed, Filtered, Progress, Emit, Start, Create, Deduplicate, Resume, OpenBatch,
     Finish, CloseRow, Complete, FinaliseBatch, Raise, Publish, Enter, run
<1>3. stage'[r] \in {"ended", "raised"} =>
        Deduplicate(r) \/ Complete(r) \/ FinaliseBatch(r) \/ Raise(r)
  <2>1. (\E k \in {"log", "trace"} : Emit(r, k)) => stage'[r] = "executing"
    BY DEF Emit, run
  <2>2. Start(r) \/ Resume(r) \/ Create(r) \/ OpenBatch(r) \/ Finish(r) \/ CloseRow(r)
          => stage'[r] \in {"started", "executing", "closing", "closed"}
    BY <1>0 DEF Start, Resume, Create, OpenBatch, Finish, CloseRow, Enter, Typed
  <2> QED
    BY <2>1, <2>2 DEF Progress
<1>4. row[r] = "closed" => row'[r] = "closed" /\ stored'[r] = stored[r]
  <2>1. stage[r] \in Running \cup {"absent"}
    BY DEF Running, Progress, Emit, Start, Create, Deduplicate, Resume, OpenBatch, Finish,
       CloseRow, Complete, FinaliseBatch, Raise
  <2>2. row[r] = "closed" => stage[r] = "closed"
    BY <2>1 DEF Staged, Running
  <2>3. stage[r] = "closed" => Complete(r)
    BY DEF Progress, Emit, Start, Create, Deduplicate, Resume, OpenBatch, Finish, CloseRow,
       FinaliseBatch, Raise
  <2>4. Complete(r) => UNCHANGED <<row, stored>>
    BY DEF Complete
  <2> QED
    BY <2>2, <2>3, <2>4
<1>5. \A t \in Tails : of[t] # r =>
        queue'[t] = queue[t] /\ (t \in registered' <=> t \in registered)
  <2>1. \/ UNCHANGED <<queue, registered>>
        \/ \E k \in {"log", "trace"} : Publish(r, k)
        \/ PublishComplete(r)
    BY DEF Progress, Emit, Start, Create, Deduplicate, Resume, OpenBatch, Finish, CloseRow,
       Complete, FinaliseBatch, Raise
  <2> QED
    BY <1>0, <2>1 DEF Typed, Publish, PublishComplete, Deliver, Subscribers
<1>6. \A t \in Tails : of[t] = r /\ Told(r)' => t \notin registered'
  <2>1. ASSUME Told(r)' PROVE PublishComplete(r)
    <3>1. \/ stage'[r] = "ended" /\ kind[r] # "replay"
          \/ stage'[r] = "raised" /\ kind[r] = "delivered"
      BY <1>1, <2>1 DEF Told
    <3>2. Deduplicate(r) \/ Complete(r) \/ FinaliseBatch(r) \/ Raise(r)
      BY <1>3, <3>1, Zenon
    <3>3. FinaliseBatch(r) => kind[r] = "replay" /\ stage'[r] = "ended"
      BY <1>0 DEF FinaliseBatch, Enter, Typed
    <3>4. Raise(r) => stage'[r] = "raised"
      BY <1>0 DEF Raise, Enter, Typed
    <3> QED
      BY <3>1, <3>2, <3>3, <3>4 DEF Deduplicate, Complete, Raise
  <2>2. PublishComplete(r) => \A t \in Tails : of[t] = r => t \notin registered'
    BY DEF PublishComplete, Subscribers
  <2> QED
    BY <2>1, <2>2
<1>7. Told(r)' /\ row'[r] = "closed" => stored'[r] = Logged(sent'[r])
  <2> SUFFICES ASSUME Told(r)', row'[r] = "closed" PROVE stored'[r] = Logged(sent'[r])
    OBVIOUS
  <2>1. \/ stage'[r] = "ended" /\ kind[r] # "replay"
        \/ stage'[r] = "raised" /\ kind[r] = "delivered"
    BY <1>1 DEF Told
  <2>2. Deduplicate(r) \/ Complete(r) \/ FinaliseBatch(r) \/ Raise(r)
    BY <1>3, <2>1, Zenon
  <2>3. ~FinaliseBatch(r)
    BY <1>0, <2>1 DEF FinaliseBatch, Enter, Typed
  <2>4. ~Deduplicate(r)
    BY DEF Deduplicate
  <2>5. ~Raise(r)
    BY <1>0 DEF Raise, Staged
  <2>6. stage[r] = "closed" /\ UNCHANGED <<stored, sent>>
    BY <2>2, <2>3, <2>4, <2>5 DEF Complete
  <2> QED
    BY <2>6 DEF Staged
<1> QED
  BY <1>1, <1>2, <1>4, <1>5, <1>6, <1>7, HeardOfRun

\* What one tail does is nothing to the others.
LEMMA HeardOfTail ==
  ASSUME Heard, NEW t \in Tails, UNCHANGED <<kind, stage, row, stored, sent>>,
         \A u \in Tails \ {t} :
           /\ pc'[u] = pc[u] /\ of'[u] = of[u] /\ queue'[u] = queue[u] /\ shown'[u] = shown[u]
           /\ u \in registered' <=> u \in registered,
         Streaming(t)' /\ Told(of'[t]) =>
           IF t \in registered' THEN queue'[t] = <<>>
           ELSE row[of'[t]] = "closed" => stored[of'[t]] = Logged(sent[of'[t]]),
         pc'[t] = "closed" =>
           /\ row[of'[t]] = "closed" => Logged(shown'[t]) = stored[of'[t]]
           /\ row[of'[t]] # "closed" => Told(of'[t])
  PROVE  Heard'
<1> SUFFICES ASSUME NEW u \in Tails
             PROVE  /\ Streaming(u)' /\ Told(of[u])' =>
                         IF u \in registered' THEN queue'[u] = <<>>
                         ELSE row'[of'[u]] = "closed" => stored'[of'[u]] = Logged(sent'[of'[u]])
                    /\ pc'[u] = "closed" =>
                         /\ row'[of'[u]] = "closed" => Logged(shown'[u]) = stored'[of'[u]]
                         /\ row'[of'[u]] # "closed" => Told(of[u])'
  BY DEF Heard
<1>1. Told(of[u])' <=> Told(of'[u])
  BY DEF Told
<1>2. CASE u = t
  BY <1>1, <1>2
<1>3. CASE u # t
  <2>1. /\ Streaming(u) /\ Told(of[u]) =>
             IF u \in registered THEN queue[u] = <<>>
             ELSE row[of[u]] = "closed" => stored[of[u]] = Logged(sent[of[u]])
        /\ pc[u] = "closed" =>
             /\ row[of[u]] = "closed" => Logged(shown[u]) = stored[of[u]]
             /\ row[of[u]] # "closed" => Told(of[u])
    BY DEF Heard
  <2>2. /\ pc'[u] = pc[u] /\ of'[u] = of[u] /\ queue'[u] = queue[u] /\ shown'[u] = shown[u]
        /\ u \in registered' <=> u \in registered
    BY <1>3
  <2>3. Streaming(u)' <=> Streaming(u)
    BY <2>2 DEF Streaming
  <2>4. Told(of'[u]) <=> Told(of[u])
    BY <2>2 DEF Told
  <2> QED
    BY <1>1, <2>1, <2>2, <2>3, <2>4
<1> QED
  BY <1>2, <1>3

LEMMA StreamHeard ==
  ASSUME Inv, Filtered, Heard, NEW t \in Tails,
         Stream(t) \/ Disconnect(t) \/ \E r \in Runs : Connect(t, r)
  PROVE  Heard'
<1>0. Typed /\ Attached /\ Sentinel \in Message /\ of[t] \in Runs
  BY SentinelIsMessage DEF Inv, Typed
<1>1. /\ UNCHANGED <<kind, stage, row, stored, sent>>
      /\ \A u \in Tails \ {t} :
           /\ pc'[u] = pc[u] /\ of'[u] = of[u] /\ queue'[u] = queue[u] /\ shown'[u] = shown[u]
           /\ u \in registered' <=> u \in registered
  BY <1>0 DEF Typed, Stream, Subscribe, ReadFinished, ReadRunning, Receive, Disconnect, Connect,
     Move, Empty, run
<1>2. /\ Streaming(t) /\ Told(of[t]) =>
           IF t \in registered THEN queue[t] = <<>>
           ELSE row[of[t]] = "closed" => stored[of[t]] = Logged(sent[of[t]])
      /\ pc[t] = "closed" =>
           /\ row[of[t]] = "closed" => Logged(shown[t]) = stored[of[t]]
           /\ row[of[t]] # "closed" => Told(of[t])
  BY DEF Heard
<1>3. CASE Disconnect(t) \/ \E r \in Runs : Connect(t, r)
  <2>1. pc'[t] \in {"away", "connecting"} /\ ~Streaming(t)'
    BY <1>0, <1>3 DEF Disconnect, Connect, Move, Typed, Streaming
  <2> QED
    BY <1>1, <2>1, HeardOfTail
<1>4. CASE Subscribe(t)
  <2>1. pc'[t] = "subscribed" /\ t \in registered' /\ queue'[t] = <<>>
    BY <1>0, <1>4 DEF Subscribe, Move, Typed, Attached
  <2> QED
    BY <1>1, <2>1, HeardOfTail
<1>5. CASE ReadFinished(t)
  <2>1. /\ pc'[t] = "closed" /\ ~Streaming(t)' /\ of'[t] = of[t] /\ row[of[t]] = "closed"
        /\ shown'[t] = Append(stored[of[t]], Sentinel)
    BY <1>0, <1>5 DEF ReadFinished, Move, Typed, Streaming
  <2>2. Logged(Append(stored[of[t]], Sentinel)) = stored[of[t]]
    <3>1. stored[of[t]] \in Seq(Message) /\ Logged(stored[of[t]]) = stored[of[t]]
      BY <1>0 DEF Filtered
    <3>2. ~IsLogged(Sentinel)
      BY DEF IsLogged, Sentinel
    <3> QED
      BY <1>0, <3>1, <3>2, LoggedAppend
  <2> QED
    BY <1>1, <2>1, <2>2, HeardOfTail
<1>6. CASE ReadRunning(t)
  <2>1. /\ pc[t] = "subscribed" /\ pc'[t] = "live" /\ of'[t] = of[t] /\ queue'[t] = queue[t]
        /\ t \in registered' <=> t \in registered
    BY <1>0, <1>6 DEF ReadRunning, Move, Typed
  <2> QED
    BY <1>1, <1>2, <2>1, HeardOfTail DEF Streaming
<1>7. CASE Receive(t)
  <2>1. /\ pc[t] = "live" /\ queue[t] # <<>> /\ of'[t] = of[t] /\ Streaming(t)
        /\ shown'[t] = Append(shown[t], Head(queue[t]))
    BY <1>0, <1>7 DEF Receive, Typed, Streaming
  <2>2. Told(of[t]) => t \notin registered
    BY <1>2, <2>1
  <2>3. CASE Head(queue[t]) # Sentinel
    <3>1. UNCHANGED <<pc, registered>>
      BY <1>7, <2>3 DEF Receive
    <3>2. pc'[t] # "closed" /\ (t \in registered' <=> t \in registered)
      BY <2>1, <3>1
    <3> QED
      BY <1>1, <1>2, <2>1, <2>2, <3>2, HeardOfTail
  <2>4. CASE Head(queue[t]) = Sentinel
    <3>1. pc'[t] = "closed" /\ ~Streaming(t)'
      BY <1>0, <1>7, <2>4 DEF Receive, Move, Typed, Streaming
    <3>2. /\ ~Told(of[t]) => shown[t] \o queue[t] = sent[of[t]]
          /\ Told(of[t]) /\ t \notin registered
               => shown[t] \o queue[t] = Append(sent[of[t]], Sentinel)
      BY <2>1 DEF Inv, Followed, Seen
    <3>3. /\ shown[t] \in Seq(Message) /\ queue[t] \in Seq(Message) /\ sent[of[t]] \in Seq(Message)
          /\ \A i \in 1..Len(sent[of[t]]) : sent[of[t]][i] # Sentinel
      BY <1>0, <2>1 DEF Typed, Filtered, Fine
    <3>4. Told(of[t]) /\ shown[t] = sent[of[t]]
      BY <2>1, <2>2, <2>4, <3>2, <3>3, SentinelEnds
    <3>5. Logged(Append(sent[of[t]], Sentinel)) = Logged(sent[of[t]])
      <4>1. ~IsLogged(Sentinel)
        BY DEF IsLogged, Sentinel
      <4> QED
        BY <1>0, <3>3, <4>1, LoggedAppend
    <3>6. row[of[t]] = "closed" => Logged(shown'[t]) = stored[of[t]]
      BY <1>2, <2>1, <2>2, <2>4, <3>4, <3>5
    <3> QED
      BY <1>1, <2>1, <3>1, <3>4, <3>6, HeardOfTail
  <2> QED
    BY <2>3, <2>4
<1> QED
  BY <1>3, <1>4, <1>5, <1>6, <1>7 DEF Stream

LEMMA HeardStep == Inv /\ Filtered /\ Staged /\ Heard /\ [Next]_vars => Heard'
<1> SUFFICES ASSUME Inv, Filtered, Staged, Heard, [Next]_vars PROVE Heard'
  OBVIOUS
<1>1. ASSUME NEW r \in Runs, Progress(r) \/ Raise(r) PROVE Heard'
  BY <1>1, RunHeard
<1>2. ASSUME NEW t \in Tails, Stream(t) \/ Disconnect(t) \/ \E r \in Runs : Connect(t, r)
      PROVE  Heard'
  BY <1>2, StreamHeard
<1>3. CASE Crash
  <2>1. \A t \in Tails : pc'[t] = "away"
    BY <1>3 DEF Crash
  <2> QED
    BY <2>1 DEF Heard, Streaming
<1>4. ASSUME NEW resumed \in SUBSET Runs, Startup(resumed) PROVE Heard'
  <2>1. \A t \in Tails : pc'[t] = "away"
    BY <1>4 DEF Startup, Staged, tail
  <2> QED
    BY <2>1 DEF Heard, Streaming
<1>5. CASE UNCHANGED vars
  BY <1>5 DEF vars, run, tail, Heard, Streaming, Told
<1> QED
  BY <1>1, <1>2, <1>3, <1>4, <1>5 DEF Next

LEMMA HeardInit == Init => Filtered /\ Staged /\ Heard
<1> SUFFICES ASSUME Init PROVE Filtered /\ Staged /\ Heard
  OBVIOUS
<1>1. Filtered
  BY FineEmpty, LoggedEmpty, EmptySeq DEF Init, Filtered
<1>2. Staged
  BY DEF Init, Staged
<1>3. Heard
  BY DEF Init, Heard, Streaming
<1> QED
  BY <1>1, <1>2, <1>3

\* Closing the row and telling the bus are two steps, and a browser may connect, read the row or
\* hear the sentinel before, between or after them: one that is told that the run is complete has
\* shown every entry of the log that was stored for it (ui_run_stream; the end of the runner).
THEOREM CompleteIsWhole == Spec => []CompleteShowsLog
<1> DEFINE All == Inv /\ Filtered /\ Staged /\ Heard
<1>1. Init => All
  BY InitInv, HeardInit
<1>2. All /\ [Next]_vars => All'
  BY InvStep, FilteredStep, StagedStep, HeardStep
<1>3. All => CompleteShowsLog
  BY DEF Heard, CompleteShowsLog
<1> QED
  BY <1>1, <1>2, <1>3, PTL DEF Spec
=============================================================================
