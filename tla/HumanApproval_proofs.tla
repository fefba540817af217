------------------------ MODULE HumanApproval_proofs ------------------------
(***************************************************************************)
(* Proofs about HumanApproval, for any number of askers, configurations,   *)
(* attempts and crashes; and about Listeners: what is proved of the asks   *)
(* holds behind the listeners, for any number of updates, and a command    *)
(* starts its pipeline once in each life.                                  *)
(***************************************************************************)
EXTENDS Listeners, SequenceTheorems, FiniteSetTheorems, TLAPS

USE KindsAssumption, BoundAssumption, NoTokenAssumption DEF Tokens

-----------------------------------------------------------------------------
(* Types *)

\* A call past its start has a token of its own.
HasToken ==
  \A a \in Askers :
    pc[a] \in {"loading", "saving", "sending", "waiting", "deleting"} => token[a] # NoToken

\* A result handed to a waiter is a decision.
SeenIsDecided == \A t \in seen : t \in Registered /\ fut[t] # "pending"

\* A token in use is one that its asker has drawn: the next one it draws is new.
Drawn(t) == t[2] <= asks[t[1]]
TokensDrawn ==
  /\ \A t \in Registered \cup saved : Drawn(t)
  /\ \A a \in Askers : \A t \in {token[a], resume[a]} \ {NoToken} : Drawn(t)

Typed == TypeOK /\ HasToken /\ SeenIsDecided /\ TokensDrawn

\* The row re-armed for an asker is one of its own.
LEMMA ReArmIsOwn ==
  TypeOK => \A a \in Askers : \A t \in ReArm(a) : t = NoToken \/ (t \in saved /\ t[1] = a)
  BY DEF TypeOK, ReArm, OwnRows

\* Each action keeps the types.
LEMMA TypeStep == Typed /\ [Next]_vars => Typed'
<1> SUFFICES ASSUME Typed, [Next]_vars PROVE Typed'
  OBVIOUS
<1> USE DEF Typed, TypeOK, HasToken, SeenIsDecided, TokensDrawn, Drawn, call, world, GoTo, AnswerWith, Notice, PCs, Answers,
            Decisions, Timers, Registered
<1>1. ASSUME NEW a \in Askers, AskAfresh(a) PROVE Typed'
  BY <1>1 DEF AskAfresh, Register
<1>2. ASSUME NEW a \in Askers, NoChannel(a) PROVE Typed'
  BY <1>2 DEF NoChannel
<1>3. ASSUME NEW a \in Askers, AskAgain(a) PROVE Typed'
  BY <1>3 DEF AskAgain
<1>4. ASSUME NEW a \in Askers, Load(a) PROVE Typed'
  BY <1>4 DEF Load, Register
<1>5. ASSUME NEW a \in Askers, Save(a) PROVE Typed'
  BY <1>5 DEF Save
<1>6. ASSUME NEW a \in Askers, Send(a) PROVE Typed'
  BY <1>6 DEF Send
<1>7. ASSUME NEW a \in Askers, NEW o \in Answers, LeaveTry(a, o),
             timer' \in [Askers -> Timers], token[a] # NoToken
      PROVE  Typed'
  BY <1>7 DEF LeaveTry, Unregister
<1>8. ASSUME NEW a \in Askers, SendFails(a) PROVE Typed'
  BY <1>7, <1>8 DEF SendFails
<1>9. ASSUME NEW a \in Askers, OuterFires(a) \/ InnerFires(a) PROVE Typed'
  BY <1>9 DEF OuterFires, InnerFires
<1>10. ASSUME NEW a \in Askers, CancelBeforeTry(a) PROVE Typed'
  BY <1>10 DEF CancelBeforeTry
<1>11. ASSUME NEW a \in Askers, CancelSending(a) PROVE Typed'
  BY <1>7, <1>11 DEF CancelSending
<1>12. ASSUME NEW a \in Askers, Propagate(a) PROVE Typed'
  BY <1>12 DEF Propagate
<1>13. ASSUME NEW a \in Askers, WakeDecided(a) PROVE Typed'
  BY <1>7, <1>13 DEF WakeDecided
<1>14. ASSUME NEW a \in Askers, WakeTimeout(a) PROVE Typed'
  BY <1>7, <1>14 DEF WakeTimeout, TimeoutAnswer
<1>15. ASSUME NEW a \in Askers, Delete(a) PROVE Typed'
  BY <1>15 DEF Delete
<1>16. ASSUME NEW a \in Askers, CancelDeleting(a) PROVE Typed'
  BY <1>16 DEF CancelDeleting
<1>17. ASSUME NEW a \in Askers, Retry(a) PROVE Typed'
  BY <1>17 DEF Retry
<1>18. ASSUME NEW a \in Askers, Finish(a) PROVE Typed'
  BY <1>18 DEF Finish
<1>19. ASSUME NEW t \in Registered, NEW d \in Decisions, ResolveApproval(t, d) PROVE Typed'
  BY <1>19 DEF ResolveApproval
<1>20. ASSUME NEW rowsGone \in SUBSET InTry, Crash(rowsGone) PROVE Typed'
  <2>1. fut' = <<>> /\ seen' = {} /\ saved' \subseteq saved /\ crashes' \in Nat
        /\ UNCHANGED <<kind, attempt, token, resume, answer, timer, asks, accepted>>
    BY <1>20 DEF Crash
  <2>2. up' \in BOOLEAN /\ pc' \in [Askers -> {"done", "down"}]
    BY <1>20 DEF Crash
  <2>3. Registered' = {}
    BY <2>1
  <2>4. QED
    BY <2>1, <2>2, <2>3
<1>21. CASE Restart
  BY <1>21, ReArmIsOwn DEF Restart
<1>22. CASE UNCHANGED vars
  BY <1>22 DEF vars
<1> HIDE DEF Typed
<1>23. QED
  BY <1>1, <1>2, <1>3, <1>4, <1>5, <1>6, <1>8, <1>9, <1>10, <1>11, <1>12, <1>13, <1>14,
     <1>15, <1>16, <1>17, <1>18, <1>19, <1>20, <1>21, <1>22
  DEF Next, Task, Start, Enter, Cancelled, Wake, Terminating

\* Every asker starts idle, with no token and nothing registered.
LEMMA TypeInit == Init => Typed
  BY DEF Init, Typed, TypeOK, HasToken, SeenIsDecided, TokensDrawn, PCs, Answers, Timers,
         Registered

\* The state of the asks, the futures and the rows keeps its types; in particular a future
\* that is registered is pending or decided, never anything else.
THEOREM TypeCorrect == Spec => []TypeOK
<1>1. Typed => TypeOK
  BY DEF Typed
<1>2. QED
  BY <1>1, TypeInit, TypeStep, PTL DEF Spec

-----------------------------------------------------------------------------
(* What is listed and what is awaited *)

(***************************************************************************)
(* Neither ListedIsAwaited nor AwaitedIsListed is inductive.  A call that  *)
(* is saving its row is awaited too; a future outlives its call only where *)
(* a step's timer cancelled it; and a process that is down has none.       *)
(***************************************************************************)
TimersMatch ==
  \A a \in Askers : timer[a] # "none" => (kind[a].outer <=> timer[a] # "expired")
DownIsEmpty == ~up => Registered = {} /\ \A a \in Askers : pc[a] \in {"down", "done"}
CallIsListed ==
  \A a \in Askers : pc[a] \in {"saving", "sending", "waiting"} => token[a] \in Registered

ListInv == Typed /\ TimersMatch /\ DownIsEmpty /\ CallIsListed /\ ListedIsAwaited

\* Each action keeps ListInv: the try block unregisters what it registered, and only the
\* cancellation of a step's timer leaves before it.
LEMMA ListStep == ListInv /\ [Next]_vars => ListInv'
<1> SUFFICES ASSUME ListInv, [Next]_vars PROVE ListInv'
  OBVIOUS
<1> DEFINE Lists == TimersMatch /\ DownIsEmpty /\ CallIsListed /\ ListedIsAwaited
<1>t. Typed /\ Typed' /\ Lists
  BY TypeStep DEF ListInv
<1>s. SUFFICES Lists'
  BY <1>t DEF ListInv
<1> USE <1>t DEF Typed, TypeOK, HasToken, TokensDrawn, Drawn, TimersMatch, DownIsEmpty,
            CallIsListed, ListedIsAwaited, call, world, GoTo, AnswerWith, Notice, Registered
<1>1. ASSUME NEW a \in Askers, AskAfresh(a) PROVE Lists'
  <2> DEFINE t == <<a, asks[a] + 1>>
  <2>1. Registered' = Registered \cup {t}
    BY <1>1 DEF AskAfresh, Register
  <2>2. up /\ UNCHANGED <<kind, attempt, timer, up>>
    BY <1>1 DEF AskAfresh
  <2>3. token' = [token EXCEPT ![a] = t] /\ pc' = [pc EXCEPT ![a] = "saving"] /\ pc[a] = "idle"
    BY <1>1 DEF AskAfresh
  <2> HIDE DEF Registered
  <2>4. QED
    BY <2>1, <2>2, <2>3
<1>2. ASSUME NEW a \in Askers, NoChannel(a) PROVE Lists'
  BY <1>2 DEF NoChannel
<1>3. ASSUME NEW a \in Askers, AskAgain(a) PROVE Lists'
  BY <1>3 DEF AskAgain
<1>4. ASSUME NEW a \in Askers, Load(a) PROVE Lists'
  <2>1. Registered' = Registered \cup {token[a]}
    BY <1>4 DEF Load, Register
  <2>2. pc' = [pc EXCEPT ![a] = "waiting"] /\ pc[a] = "loading"
        /\ UNCHANGED <<kind, attempt, timer, up, token>>
    BY <1>4 DEF Load
  <2>3. up
    BY <2>2
  <2>4. token[a][1] = a
    BY <2>2
  <2> HIDE DEF Registered
  <2>5. QED
    BY <2>1, <2>2, <2>3, <2>4
<1>5. ASSUME NEW a \in Askers, Save(a) PROVE Lists'
  BY <1>5 DEF Save
<1>6. ASSUME NEW a \in Askers, Send(a) PROVE Lists'
  BY <1>6 DEF Send
<1>7. ASSUME NEW a \in Askers, SendFails(a) PROVE Lists'
  BY <1>7 DEF SendFails, LeaveTry, Unregister
<1>8. ASSUME NEW a \in Askers, OuterFires(a) PROVE Lists'
  BY <1>8 DEF OuterFires
<1>9. ASSUME NEW a \in Askers, InnerFires(a) PROVE Lists'
  BY <1>9 DEF InnerFires, Expires
<1>10. ASSUME NEW a \in Askers, CancelBeforeTry(a) PROVE Lists'
  BY <1>10 DEF CancelBeforeTry
<1>11. ASSUME NEW a \in Askers, CancelSending(a) PROVE Lists'
  BY <1>11 DEF CancelSending, LeaveTry, Unregister
<1>12. ASSUME NEW a \in Askers, Propagate(a) PROVE Lists'
  BY <1>12 DEF Propagate
<1>13. ASSUME NEW a \in Askers, WakeDecided(a) PROVE Lists'
  BY <1>13 DEF WakeDecided, LeaveTry, Unregister
<1>14. ASSUME NEW a \in Askers, WakeTimeout(a) PROVE Lists'
  BY <1>14 DEF WakeTimeout, LeaveTry, Unregister
<1>15. ASSUME NEW a \in Askers, Delete(a) PROVE Lists'
  BY <1>15 DEF Delete
<1>16. ASSUME NEW a \in Askers, CancelDeleting(a) PROVE Lists'
  BY <1>16 DEF CancelDeleting
<1>17. ASSUME NEW a \in Askers, Retry(a) PROVE Lists'
  BY <1>17 DEF Retry
<1>18. ASSUME NEW a \in Askers, Finish(a) PROVE Lists'
  BY <1>18 DEF Finish
<1>19. ASSUME NEW t \in Registered, NEW d \in Decisions, ResolveApproval(t, d) PROVE Lists'
  BY <1>19 DEF ResolveApproval
<1>20. ASSUME NEW rowsGone \in SUBSET InTry, Crash(rowsGone) PROVE Lists'
  <2>1. fut' = <<>> /\ pc' \in [Askers -> {"done", "down"}] /\ UNCHANGED <<kind, timer>>
    BY <1>20 DEF Crash
  <2>2. Registered' = {}
    BY <2>1
  <2>3. QED
    BY <2>1, <2>2
<1>21. CASE Restart
  BY <1>21 DEF Restart
<1>22. CASE UNCHANGED vars
  BY <1>22 DEF vars
<1> HIDE DEF Lists, Registered
<1>23. QED
  BY <1>1, <1>2, <1>3, <1>4, <1>5, <1>6, <1>7, <1>8, <1>9, <1>10, <1>11, <1>12, <1>13, <1>14,
     <1>15, <1>16, <1>17, <1>18, <1>19, <1>20, <1>21, <1>22
  DEF Next, Task, Start, Enter, Cancelled, Wake, Terminating

\* ListInv holds of the process that starts.
LEMMA ListInit == Init => ListInv
<1> SUFFICES ASSUME Init PROVE ListInv
  OBVIOUS
<1>1. Registered = {} /\ up /\ \A a \in Askers : pc[a] = "idle" /\ timer[a] = "none"
  BY DEF Init, Registered
<1>2. QED
  BY <1>1, TypeInit DEF ListInv, TimersMatch, DownIsEmpty, CallIsListed, ListedIsAwaited

\* ListInv holds always.
LEMMA ListAlways == Spec => []ListInv
  BY ListInit, ListStep, PTL DEF Spec

\* An entry that the approvals page lists is awaited, or the step's timer has cancelled a
\* call of this step before.
THEOREM ListedAreAwaited == Spec => []ListedIsAwaited
<1>1. ListInv => ListedIsAwaited
  BY DEF ListInv
<1>2. QED
  BY <1>1, ListAlways, PTL

\* A call that can be answered is registered: no delivered button is refused as unknown.
THEOREM AwaitedAreListed == Spec => []AwaitedIsListed
<1>1. ListInv => AwaitedIsListed
  BY DEF ListInv, CallIsListed, AwaitedIsListed
<1>2. QED
  BY <1>1, ListAlways, PTL

-----------------------------------------------------------------------------
(* What an answer rests on *)

(***************************************************************************)
(* The refinement needs that an answer in hand was given: a future that is *)
(* decided holds a decision somebody was told is accepted, and the answer  *)
(* of a call is such a decision, or the approval of a testing timeout.     *)
(***************************************************************************)
DecidedIsAccepted ==
  \A t \in Registered : fut[t] # "pending" => <<t, fut[t]>> \in accepted

Given(a, d) == <<a, d>> \in Votes \/ (d = "approved" /\ a \in Automatic)
AnswerIsGiven == \A a \in Askers : answer[a] \in Decisions => Given(a, answer[a])

AnswerInv == ListInv /\ DecidedIsAccepted /\ AnswerIsGiven

\* What was given stays given.
LEMMA GivenStays ==
  accepted \subseteq accepted' /\ kind' = kind
    => \A a \in Askers, d \in Decisions : Given(a, d) => Given(a, d)'
  BY DEF Given, Votes, Automatic

\* Each action keeps AnswerInv.
LEMMA AnswerStep == AnswerInv /\ [Next]_vars => AnswerInv'
<1> SUFFICES ASSUME AnswerInv, [Next]_vars PROVE AnswerInv'
  OBVIOUS
<1> DEFINE Answered == DecidedIsAccepted /\ AnswerIsGiven
<1>t. ListInv /\ ListInv' /\ Answered
  BY ListStep DEF AnswerInv
<1>s. SUFFICES Answered'
  BY <1>t DEF AnswerInv
<1>a. ASSUME accepted \subseteq accepted', kind' = kind,
             \A b \in Askers : answer'[b] \in Decisions
                => answer'[b] = answer[b] \/ Given(b, answer'[b])
      PROVE  AnswerIsGiven'
  BY <1>a, <1>t, GivenStays DEF AnswerIsGiven
<1> USE <1>t, <1>a DEF ListInv, Typed, TypeOK, HasToken, SeenIsDecided, TimersMatch,
            DecidedIsAccepted, call, world, GoTo, AnswerWith, Notice, Registered, Decisions
<1>1. ASSUME NEW a \in Askers, AskAfresh(a) PROVE Answered'
  BY <1>1 DEF AskAfresh, Register
<1>2. ASSUME NEW a \in Askers, NoChannel(a) PROVE Answered'
  BY <1>2 DEF NoChannel
<1>3. ASSUME NEW a \in Askers, AskAgain(a) PROVE Answered'
  BY <1>3 DEF AskAgain
<1>4. ASSUME NEW a \in Askers, Load(a) PROVE Answered'
  BY <1>4 DEF Load, Register
<1>5. ASSUME NEW a \in Askers, Save(a) PROVE Answered'
  BY <1>5 DEF Save
<1>6. ASSUME NEW a \in Askers, Send(a) PROVE Answered'
  BY <1>6 DEF Send
<1>7. ASSUME NEW a \in Askers, SendFails(a) PROVE Answered'
  BY <1>7 DEF SendFails, LeaveTry, Unregister
<1>8. ASSUME NEW a \in Askers, OuterFires(a) PROVE Answered'
  BY <1>8 DEF OuterFires
<1>9. ASSUME NEW a \in Askers, InnerFires(a) PROVE Answered'
  BY <1>9 DEF InnerFires
<1>10. ASSUME NEW a \in Askers, CancelBeforeTry(a) PROVE Answered'
  BY <1>10 DEF CancelBeforeTry
<1>11. ASSUME NEW a \in Askers, CancelSending(a) PROVE Answered'
  BY <1>11 DEF CancelSending, LeaveTry, Unregister
<1>12. ASSUME NEW a \in Askers, Propagate(a) PROVE Answered'
  BY <1>12 DEF Propagate
<1>13. ASSUME NEW a \in Askers, WakeDecided(a) PROVE Answered'
  <2> DEFINE d == fut[token[a]]
  <2>1. token[a] \in Registered /\ d # "pending" /\ answer' = [answer EXCEPT ![a] = d]
        /\ UNCHANGED <<accepted, kind>>
    BY <1>13 DEF WakeDecided, LeaveTry
  <2>2. <<token[a], d>> \in accepted /\ token[a][1] = a
    BY <2>1
  <2>3. Given(a, d)
    BY <2>2 DEF Given, Votes
  <2>4. AnswerIsGiven'
    BY <2>1, <2>3, GivenStays DEF AnswerIsGiven
  <2>5. DecidedIsAccepted'
    BY <1>13 DEF WakeDecided, LeaveTry, Unregister
  <2>6. QED
    BY <2>4, <2>5
<1>14. ASSUME NEW a \in Askers, WakeTimeout(a) PROVE Answered'
  <2>1. answer' = [answer EXCEPT ![a] = TimeoutAnswer(a)] /\ UNCHANGED <<accepted, kind>>
    BY <1>14 DEF WakeTimeout, LeaveTry
  <2>2. TimeoutAnswer(a) \in Decisions => Given(a, TimeoutAnswer(a))
    BY DEF TimeoutAnswer, Given, Automatic
  <2>3. AnswerIsGiven'
    BY <2>1, <2>2, GivenStays DEF AnswerIsGiven
  <2>4. DecidedIsAccepted'
    BY <1>14 DEF WakeTimeout, LeaveTry, Unregister
  <2>5. QED
    BY <2>3, <2>4
<1>15. ASSUME NEW a \in Askers, Delete(a) PROVE Answered'
  BY <1>15 DEF Delete
<1>16. ASSUME NEW a \in Askers, CancelDeleting(a) PROVE Answered'
  BY <1>16 DEF CancelDeleting
<1>17. ASSUME NEW a \in Askers, Retry(a) PROVE Answered'
  BY <1>17 DEF Retry
<1>18. ASSUME NEW a \in Askers, Finish(a) PROVE Answered'
  BY <1>18 DEF Finish
<1>19. ASSUME NEW t \in Registered, NEW d \in Decisions, ResolveApproval(t, d) PROVE Answered'
  BY <1>19 DEF ResolveApproval
<1>20. ASSUME NEW rowsGone \in SUBSET InTry, Crash(rowsGone) PROVE Answered'
  BY <1>20 DEF Crash
<1>21. CASE Restart
  BY <1>21 DEF Restart
<1>22. CASE UNCHANGED vars
  BY <1>22 DEF vars
<1> HIDE DEF Answered, Registered
<1>23. QED
  BY <1>1, <1>2, <1>3, <1>4, <1>5, <1>6, <1>7, <1>8, <1>9, <1>10, <1>11, <1>12, <1>13, <1>14,
     <1>15, <1>16, <1>17, <1>18, <1>19, <1>20, <1>21, <1>22
  DEF Next, Task, Start, Enter, Cancelled, Wake, Terminating

-----------------------------------------------------------------------------
(* The abstract specification *)

AbstractVars == <<Automatic, Votes, Outcomes>>

\* A step in which no ask of a run ends and no human is answered leaves the abstract
\* state alone.
LEMMA QuietIsStutter ==
  ASSUME UNCHANGED <<kind, accepted>>,
         \A a \in Askers : /\ pc'[a] = "done" <=> pc[a] = "done"
                           /\ pc[a] = "done" => answer'[a] = answer[a]
  PROVE  UNCHANGED AbstractVars
<1>1. Automatic' = Automatic /\ Votes' = Votes
  BY DEF Automatic, Votes
<1>2. \A a \in Askers : Outcome(a)' = Outcome(a)
  BY DEF Outcome
<1>3. Outcomes' = Outcomes
  BY <1>2 DEF Outcomes
<1>4. QED
  BY <1>1, <1>3 DEF AbstractVars

\* The end of an ask settles it.
LEMMA FinishSettles ==
  ASSUME AnswerInv, NEW a \in Askers, Finish(a)
  PROVE  \E o \in Decisions \cup {"failed"} : Abstract!Settle(a, o)
<1> DEFINE o == IF answer[a] \in Decisions THEN answer[a] ELSE "failed"
<1>1. pc[a] = "returned" /\ pc' = [pc EXCEPT ![a] = "done"]
      /\ UNCHANGED <<answer, kind, accepted>>
  BY DEF Finish, GoTo, world
<1>2. pc \in [Askers -> PCs]
  BY DEF AnswerInv, ListInv, Typed, TypeOK
<1>3. Outcomes' = [Outcomes EXCEPT ![a] = o] /\ Outcomes[a] = "none"
  BY <1>1, <1>2 DEF Outcomes, Outcome, Decisions
<1>4. UNCHANGED <<Automatic, Votes>>
  BY <1>1 DEF Automatic, Votes
<1>5. o # "failed" => o \in Abstract!Decisions /\ Given(a, o)
  BY DEF AnswerInv, AnswerIsGiven, Decisions, Abstract!Decisions
<1>6. Abstract!Settle(a, o)
  BY <1>3, <1>4, <1>5 DEF Abstract!Settle, Given
<1>7. QED
  BY <1>6

\* A click that resolve_approval accepts is a vote.
LEMMA ResolveVotes ==
  ASSUME AnswerInv, NEW t \in Registered, NEW d \in Decisions, ResolveApproval(t, d)
  PROVE  \E a \in Askers : Abstract!Vote(a, d)
<1>1. accepted' = accepted \cup {<<t, d>>} /\ UNCHANGED <<kind, pc, answer>>
  BY DEF ResolveApproval, call
<1>2. t[1] \in Askers
  BY DEF AnswerInv, ListInv, Typed, TypeOK
<1>3. Votes' = Votes \cup {<<t[1], d>>}
  <2>1. Votes' = {<<p[1][1], p[2]>> : p \in accepted \cup {<<t, d>>}}
    BY <1>1 DEF Votes
  <2>2. <<t, d>>[1][1] = t[1] /\ <<t, d>>[2] = d
    OBVIOUS
  <2>3. ASSUME NEW v PROVE v \in Votes' <=> v \in Votes \cup {<<t[1], d>>}
    BY <2>1, <2>2 DEF Votes
  <2>4. QED
    BY <2>3
<1>4. Automatic' = Automatic /\ Outcomes' = Outcomes
  BY <1>1 DEF Automatic, Outcomes, Outcome
<1>5. QED
  BY <1>2, <1>3, <1>4 DEF Abstract!Vote

\* Every step of the asks is a step of Approval or a stutter of it.
LEMMA AbstractStep == AnswerInv /\ [Next]_vars => [Abstract!ApprovalNext]_AbstractVars
<1> SUFFICES ASSUME AnswerInv, [Next]_vars PROVE [Abstract!ApprovalNext]_AbstractVars
  OBVIOUS
<1>t. pc \in [Askers -> PCs] /\ answer \in [Askers -> Answers]
  BY DEF AnswerInv, ListInv, Typed, TypeOK
<1> DEFINE Unseen == UNCHANGED AbstractVars
<1> USE <1>t, QuietIsStutter DEF call, world, GoTo, AnswerWith
<1>1. ASSUME NEW a \in Askers, AskAfresh(a) PROVE Unseen
  BY <1>1 DEF AskAfresh
<1>2. ASSUME NEW a \in Askers, NoChannel(a) PROVE Unseen
  BY <1>2 DEF NoChannel
<1>3. ASSUME NEW a \in Askers, AskAgain(a) PROVE Unseen
  BY <1>3 DEF AskAgain
<1>4. ASSUME NEW a \in Askers, Load(a) PROVE Unseen
  BY <1>4 DEF Load
<1>5. ASSUME NEW a \in Askers, Save(a) PROVE Unseen
  BY <1>5 DEF Save
<1>6. ASSUME NEW a \in Askers, Send(a) PROVE Unseen
  BY <1>6 DEF Send
<1>7. ASSUME NEW a \in Askers, SendFails(a) PROVE Unseen
  BY <1>7 DEF SendFails, LeaveTry
<1>8. ASSUME NEW a \in Askers, OuterFires(a) PROVE Unseen
  BY <1>8 DEF OuterFires
<1>9. ASSUME NEW a \in Askers, InnerFires(a) PROVE Unseen
  BY <1>9 DEF InnerFires
<1>10. ASSUME NEW a \in Askers, CancelBeforeTry(a) PROVE Unseen
  BY <1>10 DEF CancelBeforeTry
<1>11. ASSUME NEW a \in Askers, CancelSending(a) PROVE Unseen
  BY <1>11 DEF CancelSending, LeaveTry
<1>12. ASSUME NEW a \in Askers, Propagate(a) PROVE Unseen
  BY <1>12 DEF Propagate
<1>13. ASSUME NEW a \in Askers, WakeDecided(a) PROVE Unseen
  BY <1>13 DEF WakeDecided, LeaveTry
<1>14. ASSUME NEW a \in Askers, WakeTimeout(a) PROVE Unseen
  BY <1>14 DEF WakeTimeout, LeaveTry
<1>15. ASSUME NEW a \in Askers, Delete(a) PROVE Unseen
  BY <1>15 DEF Delete
<1>16. ASSUME NEW a \in Askers, CancelDeleting(a) PROVE Unseen
  BY <1>16 DEF CancelDeleting
<1>17. ASSUME NEW a \in Askers, Retry(a) PROVE Unseen
  BY <1>17 DEF Retry
<1>18. ASSUME NEW rowsGone \in SUBSET InTry, Crash(rowsGone) PROVE Unseen
  BY <1>18 DEF Crash
<1>19. ASSUME Restart PROVE Unseen
  BY <1>19 DEF Restart
<1>20. ASSUME UNCHANGED vars PROVE Unseen
  BY <1>20 DEF vars
<1>21. ASSUME NEW a \in Askers, Finish(a) PROVE Abstract!ApprovalNext
  BY <1>21, FinishSettles DEF Abstract!ApprovalNext, Decisions, Abstract!Decisions
<1>22. ASSUME NEW t \in Registered, NEW d \in Decisions, ResolveApproval(t, d)
       PROVE  Abstract!ApprovalNext
  BY <1>22, ResolveVotes DEF Abstract!ApprovalNext, Decisions, Abstract!Decisions
<1> HIDE <1>t, QuietIsStutter DEF Unseen, call, world
<1>23. Unseen \/ Abstract!ApprovalNext
  BY <1>1, <1>2, <1>3, <1>4, <1>5, <1>6, <1>7, <1>8, <1>9, <1>10, <1>11, <1>12, <1>13, <1>14,
     <1>15, <1>16, <1>17, <1>18, <1>19, <1>20, <1>21, <1>22
  DEF Next, Task, Start, Enter, Cancelled, Wake, Terminating
<1>24. QED
  BY <1>23 DEF Unseen

\* AnswerInv holds of the process that starts.
LEMMA AnswerInit == Init => AnswerInv
<1> SUFFICES ASSUME Init PROVE AnswerInv
  OBVIOUS
<1>1. Registered = {} /\ \A a \in Askers : answer[a] = "none"
  BY DEF Init, Registered
<1>2. QED
  BY <1>1, ListInit DEF AnswerInv, DecidedIsAccepted, AnswerIsGiven, Decisions

\* An ask is settled once, and approved or rejected only on a human's word, or, in testing
\* and without a step timer, by nobody: for any retries, timers, crashes and re-arming.
THEOREM Implements == Spec => ImplementsApproval
<1>1. Init => AnswerInv
  BY AnswerInit
<1>2. Init => Abstract!ApprovalInit
  <2> SUFFICES ASSUME Init PROVE Abstract!ApprovalInit
    OBVIOUS
  <2>1. Automatic \subseteq Askers /\ Votes = {}
    BY DEF Init, Automatic, Votes
  <2>2. Outcomes = [a \in Askers |-> "none"]
    BY DEF Init, Outcomes, Outcome
  <2>3. QED
    BY <2>1, <2>2 DEF Abstract!ApprovalInit
<1>3. AnswerInv /\ [Next]_vars => [Abstract!ApprovalNext]_<<Automatic, Votes, Outcomes>>
  BY AbstractStep DEF AbstractVars
<1>4. QED
  BY <1>1, <1>2, <1>3, AnswerStep, PTL DEF Spec, ImplementsApproval, Abstract!Spec

-----------------------------------------------------------------------------
(* Decisions are not lost *)

(***************************************************************************)
(* Of a process that has not crashed: no call is a resumed one, no token   *)
(* but those drawn has been decided, a registered future holds the only    *)
(* decision accepted for it, and a call that no timer cancelled leaves its *)
(* token unregistered, and the decision accepted for it as its answer.     *)
(***************************************************************************)
Failed(a) == timer[a] # "none" \/ answer[a] = "error"
FirstLife ==
  /\ \A a \in Askers : resume[a] = NoToken /\ pc[a] # "loading"
  /\ \A p \in accepted : Drawn(p[1])
  /\ \A p \in accepted : p[1] \in Registered => fut[p[1]] = p[2]
  /\ \A a \in Askers : pc[a] \in {"deleting", "returned", "done"} /\ ~Failed(a) =>
       /\ token[a] \notin Registered
       /\ \A p \in accepted : p[1] = token[a] => answer[a] = p[2]

KeepInv == AnswerInv /\ (crashes = 0 => up /\ FirstLife)

\* Each action keeps KeepInv.
LEMMA KeepStep == KeepInv /\ [Next]_vars => KeepInv'
<1> SUFFICES ASSUME KeepInv, [Next]_vars PROVE KeepInv'
  OBVIOUS
<1> DEFINE Kept == crashes = 0 => up /\ FirstLife
<1>t. AnswerInv /\ AnswerInv' /\ Kept
  BY AnswerStep DEF KeepInv
<1>s. SUFFICES Kept'
  BY <1>t DEF KeepInv
<1> USE <1>t DEF AnswerInv, ListInv, Typed, TypeOK, HasToken, SeenIsDecided, TokensDrawn, Drawn,
            TimersMatch, CallIsListed, FirstLife, Failed, DecidedIsAccepted, call, world, GoTo,
            AnswerWith, Notice, Registered, Decisions
<1>1. ASSUME NEW a \in Askers, AskAfresh(a) PROVE Kept'
  BY <1>1 DEF AskAfresh, Register
<1>2. ASSUME NEW a \in Askers, NoChannel(a) PROVE Kept'
  BY <1>2 DEF NoChannel
<1>3. ASSUME NEW a \in Askers, AskAgain(a) PROVE Kept'
  BY <1>3 DEF AskAgain
<1>4. ASSUME NEW a \in Askers, Load(a) PROVE Kept'
  BY <1>4 DEF Load, Register
<1>5. ASSUME NEW a \in Askers, Save(a) PROVE Kept'
  BY <1>5 DEF Save
<1>6. ASSUME NEW a \in Askers, Send(a) PROVE Kept'
  BY <1>6 DEF Send
<1>7. ASSUME NEW a \in Askers, SendFails(a) PROVE Kept'
  BY <1>7 DEF SendFails, LeaveTry, Unregister
<1>8. ASSUME NEW a \in Askers, OuterFires(a) PROVE Kept'
  BY <1>8 DEF OuterFires
<1>9. ASSUME NEW a \in Askers, InnerFires(a) PROVE Kept'
  BY <1>9 DEF InnerFires
<1>10. ASSUME NEW a \in Askers, CancelBeforeTry(a) PROVE Kept'
  BY <1>10 DEF CancelBeforeTry
<1>11. ASSUME NEW a \in Askers, CancelSending(a) PROVE Kept'
  BY <1>11 DEF CancelSending, LeaveTry, Unregister
<1>12. ASSUME NEW a \in Askers, Propagate(a) PROVE Kept'
  BY <1>12 DEF Propagate
<1>13. ASSUME NEW a \in Askers, WakeDecided(a) PROVE Kept'
  BY <1>13 DEF WakeDecided, LeaveTry, Unregister
<1>14. ASSUME NEW a \in Askers, WakeTimeout(a) PROVE Kept'
  BY <1>14 DEF WakeTimeout, LeaveTry, Unregister
<1>15. ASSUME NEW a \in Askers, Delete(a) PROVE Kept'
  BY <1>15 DEF Delete
<1>16. ASSUME NEW a \in Askers, CancelDeleting(a) PROVE Kept'
  BY <1>16 DEF CancelDeleting
<1>17. ASSUME NEW a \in Askers, Retry(a) PROVE Kept'
  BY <1>17 DEF Retry
<1>18. ASSUME NEW a \in Askers, Finish(a) PROVE Kept'
  BY <1>18 DEF Finish
<1>19. ASSUME NEW t \in Registered, NEW d \in Decisions, ResolveApproval(t, d) PROVE Kept'
  BY <1>19 DEF ResolveApproval, Undecided
<1>20. ASSUME NEW rowsGone \in SUBSET InTry, Crash(rowsGone) PROVE Kept'
  BY <1>20 DEF Crash
<1>21. ASSUME Restart PROVE Kept'
  BY <1>21 DEF Restart
<1>22. ASSUME UNCHANGED vars PROVE Kept'
  BY <1>22 DEF vars
<1> HIDE DEF Kept, Registered
<1>23. QED
  BY <1>1, <1>2, <1>3, <1>4, <1>5, <1>6, <1>7, <1>8, <1>9, <1>10, <1>11, <1>12, <1>13, <1>14,
     <1>15, <1>16, <1>17, <1>18, <1>19, <1>20, <1>21, <1>22
  DEF Next, Task, Start, Enter, Cancelled, Wake, Terminating

\* A decision that resolve_approval accepted for a call is its answer, unless a timer fired,
\* the send failed or the process died.
THEOREM DecisionsAreKept == Spec => []DecisionLostOnlyByFailure
<1>1. Init => KeepInv
  <2> SUFFICES ASSUME Init PROVE KeepInv
    OBVIOUS
  <2>1. AnswerInv
    BY AnswerInit
  <2>2. QED
    BY <2>1 DEF Init, KeepInv, FirstLife, Failed
<1>2. KeepInv => DecisionLostOnlyByFailure
  BY DEF KeepInv, AnswerInv, ListInv, Typed, TypeOK, FirstLife, Failed,
         DecisionLostOnlyByFailure, Registered
<1>3. QED
  BY <1>1, <1>2, KeepStep, PTL DEF Spec

-----------------------------------------------------------------------------
(* Listeners: the composition leaves the asks as they are. *)

LEMMA AskStep == [ListenNext]_allVars => [Next]_vars
<1> SUFFICES ASSUME [ListenNext]_allVars PROVE [Next]_vars
  OBVIOUS
<1>1. CASE UNCHANGED allVars
  BY <1>1 DEF allVars
<1>2. ASSUME NEW a \in Askers, Task(a) \/ OuterFires(a) \/ InnerFires(a) \/ Propagate(a)
      PROVE  Next
  BY <1>2 DEF Next
<1>3. ASSUME NEW t \in Registered, NEW d \in Decisions, ResolveApproval(t, d) PROVE Next
  BY <1>3 DEF Next
<1>4. ASSUME NEW rowsGone \in SUBSET InTry, Crash(rowsGone) PROVE Next
  BY <1>4 DEF Next
<1>5. ASSUME Restart PROVE Next
  BY <1>5 DEF Next
<1>6. ASSUME NEW u, Cause(u) PROVE UNCHANGED vars
  BY <1>6 DEF Cause
<1>7. ASSUME Poll \/ Receive \/ AckFails PROVE UNCHANGED vars
  BY <1>7 DEF Poll, Receive, AckFails
<1>8. ASSUME NEW n \in inHand, HandleStale(n) \/ HandleCommand(n) PROVE UNCHANGED vars
  BY <1>8 DEF HandleStale, HandleCommand
<1>9. ASSUME NEW n \in inHand, HandleClick(n) PROVE Next
  <2>1. /\ ResolveApproval(log[n].token, log[n].what)
        /\ log[n].what \in Decisions
    BY <1>9 DEF HandleClick
  <2>2. log[n].token \in Registered
    BY <2>1 DEF ResolveApproval, Undecided
  <2>3. QED
    BY <1>3, <2>1, <2>2
<1>10. QED
  BY <1>1, <1>2, <1>3, <1>4, <1>5, <1>6, <1>7, <1>8, <1>9
  DEF ListenNext, Click, Command, Listen, Handle, Die, Quiet, allVars

\* Whatever the channel delivers, loses or repeats, the asks behave as the module
\* HumanApproval says.
THEOREM ListenersRefineAsks == ListenSpec => Spec
<1>1. ListenInit => Init
  BY DEF ListenInit
<1>2. QED
  BY <1>1, AskStep, PTL DEF ListenSpec, ListenFairness, Spec

\* What the approvals page lists is what is awaited, whatever the listeners do.
THEOREM ListIsAccurate == ListenSpec => []ListedIffAwaited
BY ListenersRefineAsks, ListedAreAwaited, AwaitedAreListed, PTL DEF ListedIffAwaited

\* A decision that resolve_approval accepted from a listener or the page is the answer,
\* unless a timer fired, the send failed or the process died.
THEOREM MailedDecisionsAreKept == ListenSpec => []DecisionLostOnlyByFailure
BY ListenersRefineAsks, DecisionsAreKept, PTL

\* An ask decided by mail is still an ask of the abstract specification.
THEOREM MailedAsksImplement == ListenSpec => ImplementsApproval
BY ListenersRefineAsks, Implements, PTL

-----------------------------------------------------------------------------
(* Listeners: commands. *)

Updates == [what : Decisions \cup {"run"}, token : Tokens \cup {NoToken}]
Starts(s, n) == {i \in DOMAIN s : s[i] = n}
Begun(n) == Starts(started, n)

\* The part of a life in which update n has been handled adds at most one start of it.
MailInv ==
  /\ crashes \in Nat /\ offset \in Nat
  /\ log \in Seq(Updates) /\ inHand \subseteq Ids
  /\ started \in Seq(Ids)
  /\ channel # "telegram" => \A n \in Ids : log[n].what # "run"
  /\ channel = "telegram" => \A n \in inHand : offset <= n
  /\ \A n \in Ids : Cardinality(Begun(n)) <= IF n < offset THEN 1 + crashes ELSE crashes

\* One more command posted is one more start of it, and of no other.
LEMMA OneMoreStart ==
  ASSUME NEW s \in Seq(Nat), NEW n \in Nat, NEW m \in Nat
  PROVE  /\ IsFiniteSet(Starts(s, m)) /\ Cardinality(Starts(s, m)) \in Nat
         /\ Cardinality(Starts(Append(s, n), m))
              = Cardinality(Starts(s, m)) + (IF m = n THEN 1 ELSE 0)
<1>1. IsFiniteSet(Starts(s, m)) /\ Cardinality(Starts(s, m)) \in Nat
  <2>1. IsFiniteSet(1 .. Len(s))
    BY FS_Interval
  <2>2. Starts(s, m) \subseteq 1 .. Len(s)
    BY DEF Starts
  <2>3. QED
    BY <2>1, <2>2, FS_Subset, FS_CardinalityType
<1>2. CASE m = n
  <2>1. Starts(Append(s, n), m) = Starts(s, m) \cup {Len(s) + 1}
    BY <1>2 DEF Starts
  <2>2. Len(s) + 1 \notin Starts(s, m)
    BY DEF Starts
  <2>3. QED
    BY <1>1, <1>2, <2>1, <2>2, FS_AddElement
<1>3. CASE m # n
  <2>1. Starts(Append(s, n), m) = Starts(s, m)
    BY <1>3 DEF Starts
  <2>2. QED
    BY <1>1, <1>3, <2>1
<1>4. QED
  BY <1>1, <1>2, <1>3

LEMMA CountsAreNumbers == MailInv => \A n \in Ids : Cardinality(Begun(n)) \in Nat
<1> SUFFICES ASSUME MailInv, NEW n \in Ids PROVE Cardinality(Begun(n)) \in Nat
  OBVIOUS
<1>1. started \in Seq(Nat) /\ n \in Nat
  BY DEF MailInv, Ids
<1>2. QED
  BY <1>1, OneMoreStart DEF Begun

LEMMA MailInit == ListenInit => MailInv
<1> SUFFICES ASSUME ListenInit PROVE MailInv
  OBVIOUS
<1>1. Ids = {}
  BY DEF ListenInit, Ids
<1>2. QED
  BY <1>1 DEF ListenInit, Init, MailInv

LEMMA MailStep == Typed /\ MailInv /\ [ListenNext]_allVars => MailInv'
<1> SUFFICES ASSUME Typed, MailInv, [ListenNext]_allVars PROVE MailInv'
  OBVIOUS
<1> USE DEF MailInv, Ids
<1>1. ASSUME UNCHANGED mail, crashes' = crashes PROVE MailInv'
  BY <1>1 DEF mail, Begun
<1>2. ASSUME NEW u \in Updates, Cause(u), u.what = "run" => channel = "telegram"
      PROVE  MailInv'
  <2>1. log' = Append(log, u) /\ crashes' = crashes /\ UNCHANGED <<channel, offset, inHand, started>>
    BY <1>2 DEF Cause, vars
  <2>2. /\ log' \in Seq(Updates) /\ Len(log') = Len(log) + 1
        /\ \A n \in Ids : log'[n] = log[n]
        /\ log'[Len(log) + 1] = u
    BY <2>1
  <2>3. started \in Seq(Ids')
    BY <2>1, <2>2
  <2>4. Begun(Len(log) + 1) = {}
    BY DEF Begun, Starts
  <2>5. Cardinality(Begun(Len(log) + 1)) = 0
    BY <2>4, FS_EmptySet
  <2>6. \A n \in Ids' : Cardinality(Begun(n)) <= IF n < offset THEN 1 + crashes ELSE crashes
    BY <2>2, <2>5
  <2>7. QED
    BY <1>2, <2>1, <2>2, <2>3, <2>6 DEF Begun
<1>3. ASSUME Poll \/ Receive \/ AckFails PROVE MailInv'
  <2>1. /\ UNCHANGED <<log, offset, started, channel>> /\ crashes' = crashes
    BY <1>3 DEF Poll, Receive, AckFails, vars
  <2>2. inHand' \subseteq Ids /\ (channel = "telegram" => \A n \in inHand' : offset <= n)
    <3>1. CASE Poll
      BY <3>1 DEF Poll
    <3>2. CASE Receive
      BY <3>2 DEF Receive
    <3>3. CASE AckFails
      BY <3>3 DEF AckFails
    <3>4. QED
      BY <1>3, <3>1, <3>2, <3>3
  <2>3. QED
    BY <2>1, <2>2 DEF Begun
<1>4. ASSUME NEW n \in inHand, Took(n), crashes' = crashes, started' = started PROVE MailInv'
  <2>1. /\ n \in Ids /\ inHand' = inHand \ {n} /\ \A m \in inHand : n <= m
        /\ offset' = IF channel = "telegram" THEN n + 1 ELSE offset
        /\ UNCHANGED <<channel, log>>
    BY <1>4 DEF Took, NextOffset, First
  <2>2. \A m \in Ids : Cardinality(Begun(m)) \in Nat
    BY CountsAreNumbers
  <2>3. \A m \in Ids : m < offset => m < offset'
    BY <2>1
  <2>4. \A m \in Ids : Cardinality(Begun(m)) <= IF m < offset' THEN 1 + crashes ELSE crashes
    BY <2>2, <2>3
  <2>5. channel = "telegram" => \A m \in inHand' : offset' <= m
    BY <2>1
  <2>6. QED
    BY <1>4, <2>1, <2>4, <2>5 DEF Begun
<1>5. ASSUME NEW n \in inHand, HandleCommand(n) PROVE MailInv'
  <2>1. Took(n) /\ log[n].what = "run" /\ crashes' = crashes
    BY <1>5 DEF HandleCommand, vars
  <2>2. CASE started' = started
    BY <1>4, <2>1, <2>2
  <2>3. CASE started' = Append(started, n)
    <3>1. /\ channel = "telegram" /\ offset <= n /\ offset' = n + 1 /\ n \in Ids
          /\ UNCHANGED <<log, channel>> /\ inHand' = inHand \ {n} /\ \A m \in inHand : n <= m
      BY <2>1 DEF Took, NextOffset, First
    <3>2. started \in Seq(Nat) /\ started' \in Seq(Ids)
      BY <2>3, <3>1
    <3>3. \A m \in Ids : Cardinality(Begun(m)) \in Nat
                         /\ Cardinality(Begun(m)') = Cardinality(Begun(m)) + (IF m = n THEN 1 ELSE 0)
      BY <2>3, <3>1, <3>2, OneMoreStart DEF Begun
    <3>4. \A m \in Ids : Cardinality(Begun(m)') <= IF m < offset' THEN 1 + crashes ELSE crashes
      BY <3>1, <3>3
    <3>5. QED
      BY <2>1, <3>1, <3>2, <3>4
  <2>4. QED
    BY <1>5, <2>2, <2>3 DEF HandleCommand
<1>6. ASSUME NEW rowsGone \in SUBSET InTry, Die(rowsGone) PROVE MailInv'
  <2>1. /\ crashes' = crashes + 1 /\ offset' = 1 /\ inHand' = {}
        /\ UNCHANGED <<channel, log, started>>
    BY <1>6 DEF Die, Crash
  <2>2. \A n \in Ids : Cardinality(Begun(n)) \in Nat
    BY CountsAreNumbers
  <2>3. \A n \in Ids : Cardinality(Begun(n)) <= crashes + 1
    BY <2>2
  <2>4. QED
    BY <2>1, <2>2, <2>3 DEF Begun
<1>7. ASSUME NEW a \in Askers,
             (Task(a) \/ OuterFires(a) \/ InnerFires(a) \/ Propagate(a)) /\ UNCHANGED mail
      PROVE  MailInv'
  <2>1. crashes' = crashes
    BY <1>7 DEF Task, Start, Enter, Cancelled, Wake, AskAfresh, NoChannel, AskAgain, Load, Save,
         Send, SendFails, CancelBeforeTry, CancelSending, CancelDeleting, WakeDecided,
         WakeTimeout, LeaveTry, Delete, Retry, Finish, OuterFires, InnerFires, Propagate,
         call, world
  <2>2. QED
    BY <1>1, <1>7, <2>1
<1>8. ASSUME NEW t, NEW d, ResolveApproval(t, d) PROVE crashes' = crashes
  BY <1>8 DEF ResolveApproval, call
<1>9. ASSUME Restart, UNCHANGED mail PROVE MailInv'
  BY <1>1, <1>9 DEF Restart
<1>10. ASSUME NEW n \in inHand, Handle(n) PROVE MailInv'
  <2>1. CASE HandleClick(n)
    BY <1>4, <1>8, <2>1 DEF HandleClick
  <2>2. CASE HandleStale(n)
    BY <1>4, <2>2 DEF HandleStale, vars
  <2>3. QED
    BY <1>5, <1>10, <2>1, <2>2 DEF Handle
<1>11. ASSUME NEW a \in Askers, NEW n \in 1 .. asks[a], NEW d \in Decisions, Click(<<a, n>>, d)
       PROVE  MailInv'
  <2>1. [what |-> d, token |-> <<a, n>>] \in Updates
    BY DEF Updates, Typed, TypeOK, Tokens
  <2>2. Cause([what |-> d, token |-> <<a, n>>]) /\ d # "run"
    BY <1>11 DEF Click, Decisions
  <2>3. QED
    BY <1>2, <2>1, <2>2
<1>12. ASSUME Command PROVE MailInv'
  <2>1. [what |-> "run", token |-> NoToken] \in Updates
    BY DEF Updates
  <2>2. QED
    BY <1>2, <1>12, <2>1 DEF Command
<1>13. CASE UNCHANGED allVars
  BY <1>1, <1>13 DEF allVars, vars
<1>14. QED
  BY <1>1, <1>3, <1>6, <1>7, <1>8, <1>9, <1>10, <1>11, <1>12, <1>13
  DEF ListenNext, Listen, Quiet

\* A /run command is posted at most once in each life of the process, for any number of
\* updates, lost answers and crashes.
THEOREM CommandsStartOncePerLife == ListenSpec => []StartedOncePerLife
<1>1. MailInv => StartedOncePerLife
  <2> SUFFICES ASSUME MailInv, NEW n \in Ids
               PROVE  Cardinality({i \in DOMAIN started : started[i] = n}) <= 1 + crashes
    BY DEF StartedOncePerLife
  <2>1. Cardinality(Begun(n)) \in Nat
    BY CountsAreNumbers
  <2>2. QED
    BY <2>1 DEF MailInv, Begun, Starts
<1>2. Spec => []Typed
  BY TypeInit, TypeStep, PTL DEF Spec
<1>3. QED
  BY <1>1, <1>2, ListenersRefineAsks, MailInit, MailStep, PTL DEF ListenSpec

-----------------------------------------------------------------------------
(* Listeners: clicks.  A click is dropped only if its token is not listed, so its call was *)
(* not open; and in the first life of the process nothing is listed a second time.         *)

\* A token that was drawn stays drawn, and until a crash it is not listed again.
StaysOut(t) ==
  /\ Drawn(t)'
  /\ crashes' = 0 /\ t \notin Registered => t \notin Registered'

LEMMA NotListedAgain == KeepInv /\ [Next]_vars => \A t \in Tokens : Drawn(t) => StaysOut(t)
<1> SUFFICES ASSUME KeepInv, [Next]_vars, NEW t \in Tokens, Drawn(t) PROVE StaysOut(t)
  OBVIOUS
<1>0. crashes = 0 => \A a \in Askers : resume[a] = NoToken /\ pc[a] # "loading"
  BY DEF KeepInv, FirstLife
<1> USE DEF KeepInv, AnswerInv, ListInv, Typed, TypeOK, Drawn, call, world, GoTo, Registered,
           StaysOut
<1>1. ASSUME NEW a \in Askers, AskAfresh(a) PROVE StaysOut(t)
  BY <1>1 DEF AskAfresh, Register
<1>2. ASSUME UNCHANGED asks, Registered' \subseteq Registered PROVE StaysOut(t)
  BY <1>2
<1>3. ASSUME NEW a \in Askers, Load(a) PROVE StaysOut(t)
  BY <1>0, <1>3 DEF Load, Register
<1>4. ASSUME NEW a \in Askers, NEW o, LeaveTry(a, o) PROVE StaysOut(t)
  BY <1>2, <1>4 DEF LeaveTry, Unregister
<1>5. ASSUME NEW d, NEW u \in Registered, ResolveApproval(u, d) PROVE StaysOut(t)
  BY <1>5 DEF ResolveApproval
<1>6. ASSUME NEW rowsGone, Crash(rowsGone) PROVE StaysOut(t)
  <2>1. fut' = <<>> /\ asks' = asks
    BY <1>6 DEF Crash
  <2> QED
    BY <1>2, <2>1
<1>7. CASE Restart
  BY <1>2, <1>7 DEF Restart
<1>8. CASE UNCHANGED vars
  BY <1>2, <1>8 DEF vars
<1>9. ASSUME NEW a \in Askers, UNCHANGED <<fut, asks>> PROVE StaysOut(t)
  BY <1>2, <1>9
<1>10. ASSUME NEW a \in Askers,
              NoChannel(a) \/ AskAgain(a) \/ Save(a) \/ Send(a) \/ OuterFires(a) \/ InnerFires(a)
       PROVE  StaysOut(t)
  BY <1>9, <1>10 DEF NoChannel, AskAgain, Save, Send, OuterFires, InnerFires
<1>11. ASSUME NEW a \in Askers,
              CancelBeforeTry(a) \/ Propagate(a) \/ Delete(a) \/ CancelDeleting(a) \/ Retry(a)
                \/ Finish(a)
       PROVE  StaysOut(t)
  BY <1>9, <1>11 DEF CancelBeforeTry, Propagate, Delete, CancelDeleting, Retry, Finish
<1>12. ASSUME NEW a \in Askers,
              SendFails(a) \/ CancelSending(a) \/ WakeDecided(a) \/ WakeTimeout(a)
       PROVE  StaysOut(t)
  BY <1>4, <1>12 DEF SendFails, CancelSending, WakeDecided, WakeTimeout
<1> HIDE DEF KeepInv, AnswerInv, ListInv, Typed, TypeOK, Drawn, call, world, GoTo, Registered,
            StaysOut
<1> QED
  BY <1>1, <1>3, <1>5, <1>6, <1>7, <1>8, <1>10, <1>11, <1>12
  DEF Next, Task, Start, Enter, Cancelled, Wake, Terminating

\* Clicks are on buttons that were sent; those dropped found no open call.
ClickInv ==
  /\ \A n \in Ids : log[n].what \in Decisions => log[n].token \in Tokens /\ Drawn(log[n].token)
  /\ \A m \in missed : ~ m.open /\ m.token \in Tokens /\ Drawn(m.token)
  /\ crashes = 0 => \A m \in missed : m.token \notin Registered

\* Each action keeps ClickInv.
LEMMA ClickStep == KeepInv /\ MailInv /\ ClickInv /\ [ListenNext]_allVars => ClickInv'
<1> SUFFICES ASSUME KeepInv, MailInv, ClickInv, [ListenNext]_allVars PROVE ClickInv'
  OBVIOUS
<1>1. /\ \A t \in Tokens : Drawn(t) => StaysOut(t)
      /\ crashes' = 0 => crashes = 0
  <2>1. [Next]_vars
    BY AskStep
  <2>2. crashes \in Nat /\ crashes' \in {crashes, crashes + 1}
    BY <2>1
       DEF Next, Task, Start, Enter, Cancelled, Wake, AskAfresh, NoChannel, AskAgain, Load, Save,
           Send, SendFails, CancelBeforeTry, CancelSending, CancelDeleting, WakeDecided,
           WakeTimeout, LeaveTry, Delete, Retry, Finish, OuterFires, InnerFires, Propagate,
           ResolveApproval, Crash, Restart, Terminating, call, world, vars, MailInv
  <2> QED
    BY <2>1, <2>2, NotListedAgain
<1>2. ASSUME UNCHANGED <<log, missed>> PROVE ClickInv'
  BY <1>1, <1>2 DEF ClickInv, Ids, StaysOut
<1>3. ASSUME NEW u, Cause(u), u.what \in Decisions => u.token \in Tokens /\ Drawn(u.token)
      PROVE  ClickInv'
  <2>1. log' = Append(log, u) /\ log \in Seq(Updates) /\ UNCHANGED missed
    BY <1>3 DEF Cause, MailInv
  <2>2. Len(log') = Len(log) + 1 /\ log'[Len(log) + 1] = u /\ \A n \in Ids : log'[n] = log[n]
    BY <2>1 DEF Ids
  <2> QED
    BY <1>1, <1>3, <2>1, <2>2 DEF ClickInv, Ids, StaysOut
<1>4. ASSUME NEW a \in Askers, NEW n \in 1 .. asks[a], NEW d \in Decisions, Click(<<a, n>>, d)
      PROVE  ClickInv'
  <2>1. <<a, n>> \in Tokens /\ Drawn(<<a, n>>)
    BY DEF Drawn, KeepInv, AnswerInv, ListInv, Typed, TypeOK
  <2> QED
    BY <1>3, <1>4, <2>1 DEF Click
<1>5. CASE Command
  BY <1>3, <1>5 DEF Command, Decisions
<1>6. CASE Poll \/ Receive \/ AckFails
  BY <1>2, <1>6 DEF Poll, Receive, AckFails
<1>7. ASSUME NEW n \in inHand, HandleStale(n)
      PROVE  ClickInv'
  <2> DEFINE t == log[n].token
  <2>1. /\ log[n].what \in Decisions /\ ~ Undecided(t) /\ UNCHANGED <<log, vars>>
        /\ missed' = missed \cup (IF t \in Registered THEN {} ELSE {[token |-> t, open |-> Open(t)]})
    BY <1>7 DEF HandleStale, Took
  <2>2. t \in Tokens /\ Drawn(t) /\ t[1] \in Askers
    BY <2>1 DEF ClickInv, MailInv
  <2>3. t \notin Registered => ~ Open(t)
    BY <2>2 DEF Open, KeepInv, AnswerInv, ListInv, CallIsListed
  <2>4. UNCHANGED <<Registered, crashes, asks>>
    BY <2>1 DEF vars, Registered
  <2> QED
    BY <2>1, <2>2, <2>3, <2>4 DEF ClickInv, Ids, Drawn
<1>8. ASSUME NEW n \in inHand, HandleClick(n) \/ HandleCommand(n)
      PROVE  ClickInv'
  BY <1>2, <1>8 DEF HandleClick, HandleCommand, Took
<1>9. ASSUME NEW rowsGone, Die(rowsGone)
      PROVE  ClickInv'
  BY <1>2, <1>9 DEF Die
<1>10. CASE UNCHANGED mail
  BY <1>2, <1>10 DEF mail
<1>11. CASE UNCHANGED allVars
  BY <1>2, <1>11 DEF allVars, mail
<1> QED
  BY <1>4, <1>5, <1>6, <1>7, <1>8, <1>9, <1>10, <1>11
  DEF ListenNext, Listen, Handle, Quiet

\* An update acts as its sender meant and no more, however often it is delivered: a click
\* is dropped only where its call was not open and the process has died before, and a
\* command is posted once in each life (telegram_poller.py, slack_poller.py).
THEOREM UpdatesActAsMeant == ListenSpec => []UpdatesActOnce
<1>1. ListenInit => KeepInv /\ ClickInv
  <2> SUFFICES ASSUME ListenInit PROVE KeepInv /\ ClickInv
    OBVIOUS
  <2>1. Init /\ Ids = {} /\ missed = {}
    BY DEF ListenInit, Ids
  <2>2. AnswerInv
    BY <2>1, AnswerInit
  <2> QED
    BY <2>1, <2>2 DEF Init, KeepInv, FirstLife, Failed, ClickInv
<1>2. Typed /\ KeepInv /\ MailInv /\ ClickInv /\ [ListenNext]_allVars
      => (KeepInv /\ MailInv /\ ClickInv)'
  BY AskStep, KeepStep, MailStep, ClickStep
<1>3. KeepInv => Typed
  BY DEF KeepInv, AnswerInv, ListInv
<1>4. KeepInv /\ MailInv /\ ClickInv => MissedOnlyWhileClosed
  <2> SUFFICES ASSUME KeepInv, MailInv, ClickInv, NEW a \in Askers, NEW m \in missed,
                      pc[a] = "waiting", m.token = token[a]
               PROVE  crashes > 0 /\ ~ m.open
    BY DEF MissedOnlyWhileClosed
  <2>1. token[a] \in Registered
    BY DEF KeepInv, AnswerInv, ListInv, CallIsListed
  <2> QED
    BY <2>1 DEF ClickInv, MailInv
<1>5. ListenSpec => []MissedOnlyWhileClosed
  BY <1>1, <1>2, <1>3, <1>4, MailInit, PTL DEF ListenSpec
<1> QED
  BY <1>5, CommandsStartOncePerLife, PTL DEF UpdatesActOnce
=============================================================================
