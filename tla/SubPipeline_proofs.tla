------------------------- MODULE SubPipeline_proofs --------------------------
(***************************************************************************)
(* Of SubPipeline, for a child of any length, any configurations and any   *)
(* number of attempts, timeouts and crashes: types, when a child is at     *)
(* work without anybody waiting for it, and what the parent's gate let     *)
(* through.                                                                *)
(***************************************************************************)
EXTENDS SubPipeline, SequenceTheorems, TLAPS

-----------------------------------------------------------------------------
(* One child: what is true of its record at every await. *)

\* The last step of the child that completed came to o.
LastSaid(k, o) ==
  \E i \in Steps : k.steps[i] = o /\ \A j \in Steps : k.steps[j] \in Said => j <= i

\* A run in its first life, of a child that is configured as c says: what it has in memory
\* is what its rows say.
Faithful(c, k) ==
  /\ k.pc \in {"creating", "executing", "saving"} =>
       \A i \in Steps : i >= k.at => k.steps[i] = "none"
  /\ k.final # "none" => LastSaid(k, k.final)
  /\ k.final = "none" => \A i \in Steps : k.steps[i] \notin Said
  /\ k.status = "completed" =>
       \A i \in Steps : \/ k.steps[i] \in Said \cup {"none"}
                        \/ c.continues /\ k.steps[i] = "broken"

\* The loop is at a step that exists, with an outcome in hand once the step is done.
Sound(c, k) ==
  /\ k.pc \in {"creating", "executing", "saving"} => k.at \in Steps
  /\ k.pc = "saving" => k.now # "none"
  /\ k.pc \in Live \cup {"ended"} /\ ~k.resumed => Faithful(c, k)

\* A row that says 'running' has its task behind it; a child that has ended closed its row.
Attended(k) == k.row = "running" => k.pc \in Live
Closed(k) == k.pc = "ended" => k.row = k.status

LEMMA NewIsSound ==
  NewKid \in Kid /\ Sound(conf, NewKid) /\ Attended(NewKid) /\ ~NewKid.resumed
<1>1. NewKid \in Kid
  BY ChildStepsAssumption DEF NewKid, Kid, Rows, KidPCs, Live, Verdicts
<1>2. Sound(conf, NewKid)
  BY ChildStepsAssumption DEF NewKid, Sound, Faithful, Steps, Said, Passed
<1> QED
  BY <1>1, <1>2 DEF NewKid, Attended

\* Past a step without a row.
LEMMA NextIsSound ==
  ASSUME NEW k \in Kid, Sound(conf, k), k.pc = "executing"
  PROVE  /\ NextStep(k) \in Kid /\ Sound(conf, NextStep(k)) /\ Attended(NextStep(k))
         /\ Closed(NextStep(k)) /\ NextStep(k).resumed = k.resumed
<1>1. k.at \in Steps /\ k.at \in Nat /\ k.at + 1 \in 1..(ChildSteps + 1)
  BY ChildStepsAssumption DEF Sound, Steps
<1>2. NextStep(k) \in Kid
  BY <1>1 DEF NextStep, Kid, KidPCs, Live
<1>3. /\ NextStep(k).steps = k.steps /\ NextStep(k).final = k.final
      /\ NextStep(k).status = k.status /\ NextStep(k).resumed = k.resumed
      /\ NextStep(k).at = k.at + 1
      /\ NextStep(k).pc = IF k.at < ChildSteps THEN "executing" ELSE "closing"
  BY DEF NextStep, Kid
<1>4. ~k.resumed => Faithful(conf, NextStep(k))
  BY <1>1, <1>3 DEF Sound, Live, Faithful, LastSaid, Steps
<1>5. Sound(conf, NextStep(k))
  BY <1>1, <1>3, <1>4, ChildStepsAssumption DEF Sound, Steps
<1> QED
  BY <1>2, <1>3, <1>5 DEF Attended, Closed, Live

\* After the commit of a step's row.
LEMMA AfterIsSound ==
  ASSUME NEW k \in Kid, Sound(conf, k), k.pc = "saving",
         NEW over \in BOOLEAN, over => k.now \in Passed
  PROVE  /\ AfterStep(k, over) \in Kid /\ Sound(conf, AfterStep(k, over))
         /\ AfterStep(k, over).pc \in {"executing", "closing"}
         /\ AfterStep(k, over).resumed = k.resumed
<1> DEFINE a == AfterStep(k, over)
           goesOn == (k.now \in Passed /\ ~over) \/ (k.now = "broken" /\ conf.continues)
<1>1. k.at \in Steps /\ k.at \in Nat /\ k.at + 1 \in 1..(ChildSteps + 1)
  BY ChildStepsAssumption DEF Sound, Steps
<1>2. k.now \in StepRows /\ StatusOf(k.now) \in Verdicts
  BY DEF Sound, Kid, StatusOf, StepRows, Outcomes, Passed, Verdicts
<1>3. /\ a.steps = [k.steps EXCEPT ![k.at] = k.now] /\ a.now = "none"
      /\ a.final = IF k.now \in Said THEN k.now ELSE k.final
      /\ a.resumed = k.resumed
      /\ goesOn => /\ a.at = k.at + 1 /\ a.status = k.status
                   /\ a.pc = IF k.at < ChildSteps THEN "executing" ELSE "closing"
      /\ ~goesOn => /\ a.pc = "closing" /\ a.at = k.at
                    /\ a.status = IF over THEN "aborted" ELSE StatusOf(k.now)
  BY DEF AfterStep, NextStep, Kid
<1>4. a \in Kid
  BY <1>1, <1>2 DEF AfterStep, NextStep, Kid, KidPCs, Live, Verdicts
<1>5. /\ a.steps[k.at] = k.now
      /\ \A i \in Steps : i # k.at => a.steps[i] = k.steps[i]
  BY <1>1, <1>3 DEF Kid
<1> HIDE DEF a
<1>6. ASSUME ~k.resumed
      PROVE  Faithful(conf, a)
  <2>1. Faithful(conf, k)
    BY <1>6 DEF Sound, Live
  <2>2. \A i \in Steps : i >= k.at => k.steps[i] = "none"
    BY <2>1 DEF Faithful
  <2>3. "none" \notin Said
    BY DEF Said, Passed
  <2>4. a.pc \in {"creating", "executing", "saving"} =>
          \A i \in Steps : i >= a.at => a.steps[i] = "none"
    BY <1>1, <1>3, <1>5, <2>2 DEF Steps
  <2>5. CASE k.now \in Said
    <3>1. LastSaid(a, a.final)
      BY <1>1, <1>3, <1>5, <2>2, <2>3, <2>5 DEF LastSaid, Steps
    <3>2. a.status = "completed" => goesOn /\ k.status = "completed"
      BY <1>3, <2>5 DEF StatusOf, Said, Passed
    <3> QED
      BY <1>3, <1>5, <2>1, <2>3, <2>4, <2>5, <3>1, <3>2 DEF Faithful
  <2>6. CASE k.now \notin Said
    <3>1. a.final # "none" => LastSaid(a, a.final)
      BY <1>1, <1>3, <1>5, <2>1, <2>2, <2>3, <2>6 DEF Faithful, LastSaid, Steps
    <3>2. a.final = "none" => \A i \in Steps : a.steps[i] \notin Said
      BY <1>3, <1>5, <2>1, <2>6 DEF Faithful
    <3>3. a.status = "completed" =>
            k.now = "broken" /\ conf.continues /\ k.status = "completed"
      BY <1>2, <1>3, <2>6 DEF StatusOf, StepRows, Outcomes, Said, Passed
    <3>4. a.status = "completed" =>
            \A i \in Steps : \/ a.steps[i] \in Said \cup {"none"}
                             \/ conf.continues /\ a.steps[i] = "broken"
      BY <1>5, <2>1, <3>3 DEF Faithful
    <3> QED
      BY <2>4, <3>1, <3>2, <3>4 DEF Faithful
  <2> QED
    BY <2>5, <2>6
<1>7. a.pc \in {"executing", "closing"}
  BY <1>3
<1>8. a.pc = "executing" => a.at \in Steps
  BY <1>1, <1>3, ChildStepsAssumption DEF Steps
<1>9. Sound(conf, a)
  BY <1>3, <1>6, <1>7, <1>8 DEF Sound
<1> QED
  BY <1>3, <1>4, <1>7, <1>9 DEF a

LEMMA AdvancedIsSound ==
  ASSUME NEW k \in Kid, Sound(conf, k), k.pc \in {"creating", "saving", "closing"},
         NEW a \in Advanced(k)
  PROVE  /\ a \in Kid /\ Sound(conf, a) /\ Attended(a)
         /\ Closed(a) /\ a.resumed = k.resumed
<1>1. CASE k.pc = "creating"
  <2>1. a = [k EXCEPT !.row = "running", !.pc = "executing"]
    BY <1>1 DEF Advanced
  <2>2. /\ a.pc = "executing" /\ a.steps = k.steps /\ a.final = k.final /\ a.at = k.at
        /\ a.status = k.status /\ a.resumed = k.resumed
    BY <2>1 DEF Kid
  <2>3. a \in Kid
    BY <2>1 DEF Kid, Rows, KidPCs, Live
  <2> QED
    BY <1>1, <2>2, <2>3 DEF Sound, Faithful, LastSaid, Attended, Closed, Live
<1>2. CASE k.pc = "closing"
  <2>1. a = [k EXCEPT !.row = k.status, !.pc = "ended"]
    BY <1>2 DEF Advanced
  <2>2. /\ a.pc = "ended" /\ a.steps = k.steps /\ a.final = k.final /\ a.row = k.status
        /\ a.status = k.status /\ a.resumed = k.resumed
    BY <2>1 DEF Kid
  <2>3. a \in Kid
    BY <2>1 DEF Kid, Rows, KidPCs, Live
  <2>4. Sound(conf, a)
    BY <1>2, <2>2 DEF Sound, Faithful, LastSaid, Live
  <2>5. Attended(a) /\ Closed(a)
    BY <2>2 DEF Attended, Closed, Kid, Verdicts
  <2> QED
    BY <2>2, <2>3, <2>4, <2>5
<1>3. CASE k.pc = "saving"
  <2>1. PICK over \in OverBudget(k) : a = AfterStep(k, over)
    BY <1>3 DEF Advanced
  <2>2. over \in BOOLEAN /\ (over => k.now \in Passed)
    BY DEF OverBudget
  <2> QED
    BY <1>3, <2>1, <2>2, AfterIsSound DEF Attended, Closed, Live
<1> QED
  BY <1>1, <1>2, <1>3

LEMMA DeadIsSound ==
  ASSUME NEW k \in Kid
  PROVE  /\ Dead(k) \in Kid /\ Sound(conf, Dead(k))
         /\ [Dead(k) EXCEPT !.pc = "raised"] \in Kid
         /\ Sound(conf, [Dead(k) EXCEPT !.pc = "raised"])
         /\ Dead(k).pc = "gone" /\ Dead(k).resumed = k.resumed
         /\ [Dead(k) EXCEPT !.pc = "raised"].pc = "raised"
         /\ [Dead(k) EXCEPT !.pc = "raised"].resumed = k.resumed
<1> DEFINE d == Dead(k)
           e == [d EXCEPT !.pc = "raised"]
<1>0. 1 \in 1..(ChildSteps + 1)
  BY ChildStepsAssumption
<1>1. d \in Kid /\ d.pc = "gone" /\ d.resumed = k.resumed
  BY <1>0 DEF Dead, Kid, KidPCs, Verdicts
<1> HIDE DEF d
<1>2. e \in Kid /\ e.pc = "raised" /\ e.resumed = k.resumed
  BY <1>1 DEF Kid, KidPCs
<1> HIDE DEF e
<1>3. Sound(conf, d) /\ Sound(conf, e)
  BY <1>1, <1>2 DEF Sound, Live
<1> QED
  BY <1>1, <1>2, <1>3 DEF d, e

\* The sweep leaves a child's record sound, and no row 'running' without a task.
LEMMA SweptIsSound ==
  ASSUME NEW k \in Kid, Sound(conf, k), k.pc \notin Live
  PROVE  /\ SweptKid(k) \in Kid /\ Sound(conf, SweptKid(k)) /\ Attended(SweptKid(k))
         /\ SweptKid(k).pc \in Live => SweptKid(k).resumed
         /\ SweptKid(k).resumed => k.resumed \/ conf.child
<1>1. CASE k.row # "running"
  BY <1>1 DEF SweptKid, Attended
<1>2. CASE k.row = "running" /\ ~conf.child
  <2>1. SweptKid(k) = [k EXCEPT !.row = "interrupted"]
    BY <1>2 DEF SweptKid
  <2>2. SweptKid(k) \in Kid
    BY <2>1 DEF Kid, Rows
  <2>3. /\ SweptKid(k).pc = k.pc /\ SweptKid(k).steps = k.steps /\ SweptKid(k).final = k.final
        /\ SweptKid(k).status = k.status /\ SweptKid(k).resumed = k.resumed
        /\ SweptKid(k).row = "interrupted"
    BY <2>1 DEF Kid
  <2> QED
    BY <2>2, <2>3 DEF Sound, Faithful, LastSaid, Attended, Live
<1>3. CASE k.row = "running" /\ conf.child
  <2>1. SweptKid(k) = ResumedKid(k)
    BY <1>3 DEF SweptKid
  <2>0. 1 \in 1..(ChildSteps + 1)
    BY ChildStepsAssumption
  <2>2. ResumedKid(k) \in Kid
    BY <2>0 DEF ResumedKid, Kid, KidPCs, Live, Verdicts
  <2>3. ResumedKid(k).pc = "executing" /\ ResumedKid(k).at = 1
    BY DEF ResumedKid, Kid
  <2>4. ResumedKid(k).resumed
    BY DEF ResumedKid, Kid
  <2>5. Sound(conf, ResumedKid(k)) /\ Attended(ResumedKid(k))
    BY <2>3, <2>4, ChildStepsAssumption DEF Sound, Steps, Attended, Live
  <2> QED
    BY <1>3, <2>1, <2>2, <2>4, <2>5
<1> QED
  BY <1>1, <1>2, <1>3

-----------------------------------------------------------------------------
(* The children together, and types. *)

KidsSound == \A i \in DOMAIN kids : Sound(conf, kids[i])

\* A dead process runs nothing.
NothingRunsDown ==
  ~up => crashes > 0 /\ pc \in {"down", "done"} /\ \A i \in DOMAIN kids : ~Working(i)

Typed == TypeOK /\ KidsSound /\ NothingRunsDown

\* One child's record is replaced.
Becomes(i, k) == kids' = [kids EXCEPT ![i] = k]

LEMMA OneChanges ==
  ASSUME TypeOK, KidsSound, NEW i \in DOMAIN kids, NEW k \in Kid, Sound(conf, k), Becomes(i, k),
         UNCHANGED conf
  PROVE  /\ kids' \in Seq(Kid) /\ KidsSound'
         /\ Len(kids') = Len(kids) /\ DOMAIN kids' = DOMAIN kids
         /\ kids'[i] = k /\ \A j \in DOMAIN kids : j # i => kids'[j] = kids[j]
<1>1. kids \in Seq(Kid) /\ DOMAIN kids = 1..Len(kids)
  BY LenProperties DEF TypeOK
<1>2. kids' \in Seq(Kid) /\ Len(kids') = Len(kids)
  BY <1>1, ExceptSeq DEF Becomes
<1>3. DOMAIN kids' = DOMAIN kids
  BY DEF Becomes
<1>4. kids'[i] = k /\ \A j \in DOMAIN kids : j # i => kids'[j] = kids[j]
  BY DEF Becomes
<1> QED
  BY <1>2, <1>3, <1>4 DEF KidsSound

\* What the child's own loop does to its record.
LEMMA ChildMoves ==
  ASSUME TypeOK, KidsSound, NEW i \in DOMAIN kids, ChildTask(i)
  PROVE  /\ kids[i].pc \in Live /\ UNCHANGED Child
         /\ \E k \in Kid : /\ Becomes(i, k) /\ Sound(conf, k) /\ Attended(k) /\ Closed(k)
                           /\ k.resumed = kids[i].resumed
<1>0. kids[i] \in Kid /\ Sound(conf, kids[i])
  BY ElementOfSeq, LenProperties DEF TypeOK, KidsSound
<1>1. CASE ChildCommits(i)
  <2>1. kids[i].pc \in {"creating", "saving", "closing"}
    BY <1>1 DEF ChildCommits
  <2>2. PICK a \in Advanced(kids[i]) : Becomes(i, a)
    BY <1>1 DEF ChildCommits, Becomes
  <2> QED
    BY <1>0, <1>1, <2>1, <2>2, AdvancedIsSound DEF ChildCommits, Live
<1>2. CASE ChildExecutes(i)
  <2>1. PICK o \in StepRows : kids' = [kids EXCEPT ![i].now = o, ![i].pc = "saving"]
    <3>1. conf.outcomes \subseteq StepRows /\ "escalated" \in StepRows
      BY ConfsAssumption DEF TypeOK, Conf, StepRows
    <3> QED
      BY <1>2, <3>1 DEF ChildExecutes, MayComeTo
  <2> DEFINE k == [kids[i] EXCEPT !.now = o, !.pc = "saving"]
  <2>2. Becomes(i, k)
    BY <2>1 DEF Becomes
  <2>3. kids[i].pc = "executing"
    BY <1>2 DEF ChildExecutes
  <2>4. /\ k.pc = "saving" /\ k.now = o /\ k.at = kids[i].at /\ k.steps = kids[i].steps
        /\ k.final = kids[i].final /\ k.status = kids[i].status
        /\ k.resumed = kids[i].resumed /\ k \in Kid
    BY <1>0 DEF Kid, KidPCs, Live
  <2> HIDE DEF k
  <2>5. o # "none"
    BY DEF StepRows, Outcomes
  <2>6. Sound(conf, k)
    BY <1>0, <2>3, <2>4, <2>5 DEF Sound, Faithful, LastSaid, Live
  <2>7. Attended(k) /\ Closed(k)
    BY <2>4 DEF Attended, Closed, Live
  <2> QED
    BY <1>2, <2>2, <2>3, <2>4, <2>6, <2>7 DEF ChildExecutes, Live
<1>3. CASE ChildPasses(i)
  BY <1>0, <1>3, NextIsSound DEF ChildPasses, Becomes, Live
<1> QED
  BY <1>1, <1>2, <1>3 DEF ChildTask

\* What an exception out of it, or the end of the awaiting step's patience, does.
LEMMA ChildDies ==
  ASSUME TypeOK, KidsSound, NEW i \in DOMAIN kids, ChildRaises(i) \/ (TimesOut /\ i = awaits)
  PROVE  /\ kids[i].pc \in Live /\ cut' = cut \cup {i}
         /\ \E k \in Kid : /\ Becomes(i, k) /\ Sound(conf, k)
                           /\ k.resumed = kids[i].resumed /\ k.pc \in {"gone", "raised"}
<1>0. kids[i] \in Kid /\ Sound(conf, kids[i])
  BY ElementOfSeq, LenProperties DEF TypeOK, KidsSound
<1>1. CASE ChildRaises(i)
  <2>1. \/ Becomes(i, Dead(kids[i]))
        \/ Becomes(i, [Dead(kids[i]) EXCEPT !.pc = "raised"])
    BY <1>1 DEF ChildRaises, Becomes
  <2> QED
    BY <1>0, <1>1, <2>1, DeadIsSound DEF ChildRaises
<1>2. CASE TimesOut /\ i = awaits
  <2>1. PICK k \in Cancelled(kids[i]) : Becomes(i, k)
    BY <1>2 DEF TimesOut, Becomes
  <2>2. CASE k = Dead(kids[i])
    BY <1>0, <1>2, <2>1, <2>2, DeadIsSound DEF TimesOut
  <2>3. ASSUME kids[i].pc # "executing", NEW a \in Advanced(kids[i]), k = Dead(a)
        PROVE  k \in Kid /\ Sound(conf, k) /\ k.resumed = kids[i].resumed /\ k.pc = "gone"
    <3>1. kids[i].pc \in {"creating", "saving", "closing"}
      BY <1>2, <2>3 DEF TimesOut, Live
    <3>2. a \in Kid /\ a.resumed = kids[i].resumed
      BY <1>0, <3>1, AdvancedIsSound
    <3> QED
      BY <2>3, <3>2, DeadIsSound
  <2>4. k \in Kid /\ Sound(conf, k) /\ k.resumed = kids[i].resumed /\ k.pc = "gone"
    BY <1>0, <2>1, <2>3, DeadIsSound DEF Cancelled
  <2> QED
    BY <1>2, <2>1, <2>4 DEF TimesOut
<1> QED
  BY <1>1, <1>2

\* What the death of the process and its restart do to every record.
LEMMA AllDie ==
  ASSUME TypeOK, KidsSound, Crash
  PROVE  /\ kids' \in Seq(Kid) /\ KidsSound'
         /\ Len(kids') = Len(kids) /\ DOMAIN kids' = DOMAIN kids
         /\ \A i \in DOMAIN kids : kids'[i].pc \notin Live /\ kids'[i].resumed = kids[i].resumed
<1>1. kids \in Seq(Kid) /\ DOMAIN kids = 1..Len(kids) /\ Len(kids) \in Nat
  BY LenProperties DEF TypeOK
<1>2. \A i \in DOMAIN kids : kids[i] \in Kid /\ Sound(conf, kids[i])
  BY <1>1, ElementOfSeq DEF KidsSound
<1>3. DOMAIN kids' = DOMAIN kids
  BY DEF Crash
<1>4. ASSUME NEW i \in DOMAIN kids
      PROVE  /\ kids'[i] \in Kid /\ Sound(conf, kids'[i])
             /\ kids'[i].pc \notin Live /\ kids'[i].resumed = kids[i].resumed
  BY <1>2, DeadIsSound DEF Crash, Live
<1>5. kids' \in [1..Len(kids) -> Kid]
  BY <1>1, <1>3, <1>4 DEF Crash
<1>6. kids' \in Seq(Kid)
  BY <1>1, <1>5, SeqDef
<1>7. Len(kids') = Len(kids)
  BY <1>1, <1>5, <1>6, LenProperties
<1> QED
  BY <1>3, <1>4, <1>6, <1>7 DEF KidsSound, Crash

LEMMA AllSwept ==
  ASSUME Typed, Restart
  PROVE  /\ kids' \in Seq(Kid) /\ KidsSound'
         /\ Len(kids') = Len(kids) /\ DOMAIN kids' = DOMAIN kids
         /\ \A i \in DOMAIN kids :
              /\ kids[i].pc \notin Live /\ Attended(kids'[i])
              /\ kids'[i].pc \in Live => kids'[i].resumed
              /\ kids'[i].resumed => kids[i].resumed \/ conf.child
<1>1. kids \in Seq(Kid) /\ DOMAIN kids = 1..Len(kids) /\ Len(kids) \in Nat
  BY LenProperties DEF Typed, TypeOK
<1>2. \A i \in DOMAIN kids : kids[i] \in Kid /\ Sound(conf, kids[i]) /\ kids[i].pc \notin Live
  BY <1>1, ElementOfSeq DEF Typed, KidsSound, NothingRunsDown, Working, Restart
<1>4. DOMAIN kids' = DOMAIN kids /\ \A i \in DOMAIN kids : kids'[i] = SweptKid(kids[i])
  BY DEF Restart
<1>5. kids' \in [1..Len(kids) -> Kid]
  <2>1. \A i \in DOMAIN kids : SweptKid(kids[i]) \in Kid
    BY <1>2, SweptIsSound
  <2> QED
    BY <1>1, <2>1 DEF Restart
<1>6. kids' \in Seq(Kid)
  BY <1>1, <1>5, SeqDef
<1>7. Len(kids') = Len(kids)
  BY <1>1, <1>5, <1>6, LenProperties
<1> QED
  BY <1>2, <1>4, <1>6, <1>7, SweptIsSound DEF KidsSound, Restart

-----------------------------------------------------------------------------
(* The inductive invariant. *)

\* A step that is still being tried has no row.
Trying == pc \in {"idle", "calling", "gating", "failing"}
StepOpen == /\ Trying => stepRow = "none"
            /\ row # "running" => pc = "done"

\* While the parent waits there is a child, and one that has ended closed its own row.
ParentWaits ==
  pc \in {"calling", "gating"} =>
    /\ awaits # 0 /\ ~kids[awaits].resumed
    /\ Closed(kids[awaits])
    /\ pc = "gating" => kids[awaits].pc = "ended"

\* A child is resumed only after a crash that found it durable; a parent that still tries
\* its step was then resumed as well, to run it again.
ResumedAfterCrash ==
  \A i \in DOMAIN kids : kids[i].resumed =>
    /\ crashes > 0 /\ conf.child
    /\ Trying => conf.parent /\ conf.policy = "rerun"

\* What the gate lets through: the last step the child completed, or a child that is
\* completed with no such step.
Worthy(c, k) ==
  \/ LastSaid(k, "high")
  \/ /\ k.row = "completed"
     /\ \A i \in Steps : k.steps[i] = "none" \/ (c.continues /\ k.steps[i] = "broken")
GateSaw ==
  pc = "closing" /\ stepRow = "high" /\ awaits # 0 =>
    kids[awaits].pc = "ended" /\ Worthy(conf, kids[awaits])

IInv ==
  Typed /\ StepOpen /\ ParentWaits /\ OrphansAreExplained /\ ResumedAfterCrash /\ GateSaw

LEMMA InvInit == Init => IInv
<1> SUFFICES ASSUME Init PROVE IInv
  OBVIOUS
<1>1. kids \in Seq(Kid) /\ Len(kids) = 0 /\ DOMAIN kids = {}
  BY EmptySeq DEF Init
<1>2. Typed
  BY <1>1, CrashesAssumption
  DEF Init, Typed, TypeOK, KidsSound, NothingRunsDown, StepRows, Rows, Verdicts, ParentPCs
<1> QED
  BY <1>1, <1>2
  DEF Init, IInv, StepOpen, Trying, ParentWaits, OrphansAreExplained, ResumedAfterCrash, GateSaw

\* The child's loop.
LEMMA ChildKeeps ==
  ASSUME IInv, NEW i \in DOMAIN kids, ChildTask(i)
  PROVE  IInv'
<1> USE DEF IInv
<1>1. PICK k \in Kid : /\ Becomes(i, k) /\ Sound(conf, k) /\ Attended(k) /\ Closed(k)
                       /\ k.resumed = kids[i].resumed
  BY ChildMoves DEF Typed
<1>2. /\ kids' \in Seq(Kid) /\ KidsSound'
      /\ Len(kids') = Len(kids) /\ DOMAIN kids' = DOMAIN kids
      /\ kids'[i] = k /\ \A j \in DOMAIN kids : j # i => kids'[j] = kids[j]
  BY <1>1, ChildMoves, OneChanges DEF Typed, Child
<1>3. kids[i].pc \in Live
      /\ UNCHANGED <<conf, row, stepRow, pc, attempt, verdict, awaits, up, crashes, cut>>
  BY ChildMoves DEF Typed, Child
<1>4. up /\ kids[i].pc # "ended"
  BY <1>3 DEF Typed, NothingRunsDown, Working, TypeOK, Live
<1>5. Typed'
  BY <1>2, <1>3, <1>4 DEF Typed, TypeOK, NothingRunsDown
<1>6. StepOpen' /\ ResumedAfterCrash'
  BY <1>1, <1>2, <1>3 DEF StepOpen, Trying, ResumedAfterCrash
<1>7. ParentWaits' /\ GateSaw'
  <2>1. awaits # 0 => awaits \in DOMAIN kids
    BY LenProperties DEF Typed, TypeOK
  <2> QED
    BY <1>1, <1>2, <1>3, <1>4, <2>1 DEF ParentWaits, GateSaw, Closed
<1>8. OrphansAreExplained'
  BY <1>1, <1>2, <1>3, <1>4 DEF OrphansAreExplained, Awaited, Working, Attended
<1> QED
  BY <1>5, <1>6, <1>7, <1>8

\* An exception out of it, and the timeout of the step that waits for it.
LEMMA DeathKeeps ==
  ASSUME IInv, NEW i \in DOMAIN kids, ChildRaises(i) \/ (TimesOut /\ i = awaits)
  PROVE  IInv'
<1> USE DEF IInv
<1>0. UNCHANGED conf
  BY DEF ChildRaises, TimesOut
<1>1. PICK k \in Kid : /\ Becomes(i, k) /\ Sound(conf, k)
                       /\ k.resumed = kids[i].resumed /\ k.pc \in {"gone", "raised"}
  BY ChildDies DEF Typed
<1>2. /\ kids' \in Seq(Kid) /\ KidsSound'
      /\ Len(kids') = Len(kids) /\ DOMAIN kids' = DOMAIN kids
      /\ kids'[i] = k /\ \A j \in DOMAIN kids : j # i => kids'[j] = kids[j]
  BY <1>1, <1>0, OneChanges DEF Typed
<1>3. kids[i].pc \in Live /\ cut' = cut \cup {i}
  BY ChildDies DEF Typed
<1>4. UNCHANGED <<conf, row, stepRow, attempt, verdict, awaits, up, crashes>>
      /\ (pc' = pc \/ (pc = "calling" /\ pc' = "failing"))
  BY DEF ChildRaises, TimesOut, parent
<1>5. up /\ kids[i].pc # "ended" /\ k.pc # "ended" /\ k.pc \notin Live
  BY <1>1, <1>3 DEF Typed, NothingRunsDown, Working, TypeOK, Live
<1>6. Typed'
  BY <1>2, <1>3, <1>4, <1>5 DEF Typed, TypeOK, NothingRunsDown, ParentPCs
<1>7. StepOpen' /\ ResumedAfterCrash'
  BY <1>1, <1>2, <1>4 DEF StepOpen, Trying, ResumedAfterCrash
<1>8. ParentWaits' /\ GateSaw'
  <2>1. awaits # 0 => awaits \in DOMAIN kids
    BY LenProperties DEF Typed, TypeOK
  <2> QED
    BY <1>1, <1>2, <1>4, <1>5, <2>1 DEF ParentWaits, GateSaw, Closed
<1>9. OrphansAreExplained'
  <2>1. ASSUME TimesOut, i = awaits
        PROVE  pc = "calling" /\ pc' = "failing"
    BY <2>1 DEF TimesOut
  <2> QED
    BY <1>1, <1>2, <1>3, <1>4, <1>5, <2>1
    DEF OrphansAreExplained, Awaited, Working, ChildRaises, parent
<1> QED
  BY <1>6, <1>7, <1>8, <1>9

\* The steps of the parent that leave the children alone.
LEMMA ParentKeeps ==
  ASSUME IInv, Receive \/ Gate \/ Retry \/ GiveUp \/ Close
  PROVE  IInv'
<1> USE DEF IInv
<1>1. UNCHANGED <<conf, awaits, kids, up, crashes, cut>> /\ up
  BY DEF Receive, Gate, Retry, GiveUp, Close, Typed, NothingRunsDown
<1>2. awaits # 0 => awaits \in DOMAIN kids /\ kids[awaits] \in Kid
  BY LenProperties, ElementOfSeq DEF Typed, TypeOK
<1>3. Typed'
  <2>1. KidsSound' /\ NothingRunsDown'
    BY <1>1 DEF Typed, KidsSound, NothingRunsDown
  <2>2. row' \in Rows /\ stepRow' \in StepRows \cup {"none"} /\ pc' \in ParentPCs
        /\ attempt' \in Nat \ {0} /\ verdict' \in Verdicts
    BY DEF Typed, TypeOK, Receive, Gate, Retry, GiveUp, Close, StepEnds, GateOf, StatusOf, Rows,
       StepRows, Verdicts, Outcomes, Passed, ParentPCs
  <2> QED
    BY <1>1, <2>1, <2>2 DEF Typed, TypeOK
<1>4. CASE Receive
  BY <1>1, <1>2, <1>3, <1>4
  DEF Receive, Typed, StepOpen, Trying, ParentWaits, OrphansAreExplained, Awaited, Working,
      ResumedAfterCrash, GateSaw
<1>5. CASE Gate
  <2>1. awaits # 0 /\ kids[awaits].pc = "ended" /\ kids[awaits].row = kids[awaits].status
    BY <1>5 DEF Gate, ParentWaits, Closed
  <2>2. stepRow' = "high" => Worthy(conf, kids[awaits])
    <3>1. Faithful(conf, kids[awaits])
      BY <1>2, <1>5, <2>1 DEF Typed, KidsSound, Sound, Gate, ParentWaits
    <3>2. stepRow' = "high" => Answer(kids[awaits]) = "high"
      BY <1>5 DEF Gate, StepEnds, GateOf
    <3> QED
      BY <2>1, <3>1, <3>2 DEF Answer, Faithful, Worthy
  <2>3. GateSaw'
    BY <1>1, <2>1, <2>2 DEF GateSaw, Worthy
  <2>4. StepOpen' /\ ParentWaits' /\ ResumedAfterCrash'
    BY <1>1, <1>5 DEF Gate, StepOpen, Trying, ParentWaits, ResumedAfterCrash
  <2>5. OrphansAreExplained'
    BY <1>1, <1>5, <2>1 DEF Gate, OrphansAreExplained, Awaited, Working, Live
  <2> QED
    BY <1>3, <2>3, <2>4, <2>5
<1>6. CASE Retry
  BY <1>1, <1>3, <1>6
  DEF Retry, StepOpen, Trying, ParentWaits, OrphansAreExplained, Awaited, Working,
      ResumedAfterCrash, GateSaw
<1>7. CASE GiveUp
  BY <1>1, <1>3, <1>7
  DEF GiveUp, StepEnds, StepOpen, Trying, ParentWaits, OrphansAreExplained, Awaited, Working,
      ResumedAfterCrash, GateSaw
<1>8. CASE Close
  BY <1>1, <1>3, <1>8
  DEF Close, StepOpen, Trying, ParentWaits, OrphansAreExplained, Awaited, Working,
      ResumedAfterCrash, GateSaw
<1> QED
  BY <1>4, <1>5, <1>6, <1>7, <1>8

\* An attempt starts a child of its own.
LEMMA CallKeeps ==
  ASSUME IInv, Call
  PROVE  IInv'
<1> USE DEF IInv
<1> DEFINE n == Len(kids) + 1
<1>1. kids \in Seq(Kid) /\ DOMAIN kids = 1..Len(kids) /\ Len(kids) \in Nat
  BY LenProperties DEF Typed, TypeOK
<1>2. /\ kids' \in Seq(Kid) /\ Len(kids') = n /\ DOMAIN kids' = 1..n
      /\ kids'[n] = NewKid /\ \A i \in DOMAIN kids : kids'[i] = kids[i]
  BY <1>1, NewIsSound, AppendProperties, LenProperties DEF Call
<1>3. /\ pc = "idle" /\ pc' = "calling" /\ awaits' = n /\ up
      /\ UNCHANGED <<conf, row, stepRow, attempt, verdict, up, crashes, cut>>
  BY DEF Call, Typed, NothingRunsDown
<1>4. Typed'
  BY <1>1, <1>2, <1>3, NewIsSound DEF Typed, TypeOK, KidsSound, NothingRunsDown, ParentPCs
<1>5. StepOpen' /\ GateSaw'
  BY <1>3 DEF StepOpen, Trying, GateSaw
<1>6. ParentWaits'
  BY <1>1, <1>2, <1>3 DEF ParentWaits, NewKid, Closed
<1>7. OrphansAreExplained'
  BY <1>1, <1>2, <1>3 DEF OrphansAreExplained, Awaited, Working, NewKid, Live
<1>8. ResumedAfterCrash'
  BY <1>1, <1>2, <1>3 DEF ResumedAfterCrash, Trying, NewKid
<1> QED
  BY <1>4, <1>5, <1>6, <1>7, <1>8

\* The exception of a child reaches the step that awaits it.
LEMMA ErrorKeeps ==
  ASSUME IInv, ReceiveError
  PROVE  IInv'
<1> USE DEF IInv
<1> DEFINE k == [kids[awaits] EXCEPT !.pc = "gone"]
<1>1. awaits \in DOMAIN kids /\ kids[awaits] \in Kid /\ Sound(conf, kids[awaits])
  BY LenProperties, ElementOfSeq DEF Typed, TypeOK, KidsSound, ReceiveError, ParentWaits
<1>2. k \in Kid /\ Sound(conf, k) /\ k.pc = "gone" /\ k.row = kids[awaits].row
      /\ k.resumed = kids[awaits].resumed /\ Becomes(awaits, k)
  BY <1>1 DEF Kid, KidPCs, Sound, Live, ReceiveError, Becomes
<1> HIDE DEF k
<1>3. /\ kids' \in Seq(Kid) /\ KidsSound'
      /\ Len(kids') = Len(kids) /\ DOMAIN kids' = DOMAIN kids
      /\ kids'[awaits] = k /\ \A j \in DOMAIN kids : j # awaits => kids'[j] = kids[j]
  BY <1>1, <1>2, OneChanges DEF Typed, ReceiveError
<1>4. /\ pc = "calling" /\ pc' = "failing" /\ kids[awaits].pc = "raised" /\ up
      /\ UNCHANGED <<conf, row, stepRow, attempt, verdict, awaits, up, crashes, cut>>
  BY DEF ReceiveError, Typed, NothingRunsDown
<1>5. Typed'
  BY <1>3, <1>4 DEF Typed, TypeOK, NothingRunsDown, ParentPCs
<1>6. StepOpen' /\ ParentWaits' /\ GateSaw'
  BY <1>4 DEF StepOpen, Trying, ParentWaits, GateSaw
<1>7. OrphansAreExplained'
  BY <1>1, <1>2, <1>3, <1>4 DEF OrphansAreExplained, Awaited, Working, Live
<1>8. ResumedAfterCrash'
  BY <1>1, <1>2, <1>3, <1>4 DEF ResumedAfterCrash, Trying
<1> QED
  BY <1>5, <1>6, <1>7, <1>8

\* The process dies.
LEMMA CrashKeeps ==
  ASSUME IInv, Crash
  PROVE  IInv'
<1> USE DEF IInv
<1>1. /\ kids' \in Seq(Kid) /\ KidsSound'
      /\ Len(kids') = Len(kids) /\ DOMAIN kids' = DOMAIN kids
      /\ \A i \in DOMAIN kids : kids'[i].pc \notin Live /\ kids'[i].resumed = kids[i].resumed
  BY AllDie DEF Typed
<1>2. /\ up' = FALSE /\ crashes' = crashes + 1 /\ cut' = {} /\ pc' \in {"done", "down"}
      /\ pc = "done" => pc' = "done"
      /\ UNCHANGED <<conf, row, stepRow, attempt, verdict, awaits>>
  BY DEF Crash
<1>3. Typed'
  <2>1. crashes' \in Nat /\ crashes' > 0 /\ pc' \in ParentPCs
    BY <1>2 DEF Typed, TypeOK, ParentPCs
  <2>2. NothingRunsDown'
    BY <1>1, <1>2, <2>1 DEF NothingRunsDown, Working
  <2> QED
    BY <1>1, <1>2, <2>1, <2>2 DEF Typed, TypeOK
<1>4. StepOpen' /\ ParentWaits' /\ GateSaw'
  BY <1>2 DEF StepOpen, Trying, ParentWaits, GateSaw
<1>5. OrphansAreExplained'
  BY <1>1, <1>2 DEF OrphansAreExplained, Working
<1>6. ResumedAfterCrash'
  BY <1>1, <1>2 DEF ResumedAfterCrash, Trying, Typed, TypeOK
<1> QED
  BY <1>3, <1>4, <1>5, <1>6

\* It is started again.
LEMMA RestartKeeps ==
  ASSUME IInv, Restart
  PROVE  IInv'
<1> USE DEF IInv
<1>1. /\ kids' \in Seq(Kid) /\ KidsSound'
      /\ Len(kids') = Len(kids) /\ DOMAIN kids' = DOMAIN kids
      /\ \A i \in DOMAIN kids :
           /\ kids[i].pc \notin Live /\ Attended(kids'[i])
           /\ kids'[i].pc \in Live => kids'[i].resumed
           /\ kids'[i].resumed => kids[i].resumed \/ conf.child
  BY AllSwept
<1>2. ~up /\ up' /\ pc \in {"down", "done"} /\ UNCHANGED <<conf, crashes, cut>>
  BY DEF Restart, Typed, TypeOK, NothingRunsDown
<1>3. conf.policy \in {"rerun", "escalate"} /\ crashes > 0
  BY ConfsAssumption DEF Typed, TypeOK, Conf, NothingRunsDown, Restart
<1>4. /\ row' \in Rows /\ stepRow' \in StepRows \cup {"none"} /\ verdict' \in Verdicts
      /\ attempt' \in Nat \ {0}
      /\ \/ pc' = "done" /\ awaits' = awaits
         \/ /\ pc' \in {"idle", "closing"} /\ awaits' = 0 /\ row' = "running"
            /\ pc' = "idle" => stepRow' = "none" /\ conf.parent /\ conf.policy = "rerun"
  <2>1. CASE row # "running"
    BY <2>1 DEF Restart, parent, Typed, TypeOK, StepOpen
  <2>2. CASE row = "running" /\ ~conf.parent
    BY <2>2 DEF Restart, Typed, TypeOK, Rows
  <2>3. CASE row = "running" /\ conf.parent
    <3>1. ResumeParent
      BY <2>3 DEF Restart
    <3> QED
      BY <1>3, <2>3, <3>1
      DEF ResumeParent, StepEnds, StatusOf, Typed, TypeOK, Rows, StepRows, Verdicts, Outcomes,
          Passed
  <2> QED
    BY <2>1, <2>2, <2>3
<1>5. Typed'
  BY <1>1, <1>2, <1>4 DEF Typed, TypeOK, NothingRunsDown, ParentPCs
<1>6. StepOpen' /\ ParentWaits' /\ GateSaw'
  BY <1>4 DEF StepOpen, Trying, ParentWaits, GateSaw
<1>7. OrphansAreExplained'
  BY <1>1 DEF OrphansAreExplained, Attended, Working
<1>8. ResumedAfterCrash'
  BY <1>1, <1>2, <1>3, <1>4 DEF ResumedAfterCrash, Trying
<1> QED
  BY <1>5, <1>6, <1>7, <1>8

LEMMA InvStep == IInv /\ [Next]_vars => IInv'
<1> SUFFICES ASSUME IInv, [Next]_vars
             PROVE  IInv'
  OBVIOUS
<1>1. ASSUME NEW i \in DOMAIN kids, ChildTask(i) \/ ChildRaises(i)
      PROVE  IInv'
  BY <1>1, ChildKeeps, DeathKeeps
<1>2. CASE Parent
  BY <1>2, ParentKeeps, CallKeeps, ErrorKeeps DEF Parent
<1>3. CASE TimesOut
  <2>1. awaits \in DOMAIN kids
    BY <1>3, LenProperties DEF TimesOut, IInv, Typed, TypeOK, ParentWaits
  <2> QED
    BY <1>3, <2>1, DeathKeeps
<1>4. CASE UNCHANGED vars
  BY <1>4
  DEF vars, parent, IInv, Typed, TypeOK, KidsSound, NothingRunsDown, StepOpen, Trying, ParentWaits,
      OrphansAreExplained, Awaited, Working, ResumedAfterCrash, GateSaw
<1> QED
  BY <1>1, <1>2, <1>3, <1>4, CrashKeeps, RestartKeeps DEF Next, Terminating

LEMMA InvHolds == Spec => []IInv
BY InvInit, InvStep, PTL DEF Spec

-----------------------------------------------------------------------------
(* What it implies. *)

\* Every value stays in its range.
THEOREM TypeCorrect == Spec => []TypeOK
BY InvHolds, PTL DEF IInv, Typed

\* Timers, retries and a parent that has ended leave no child at work, and no child's row
\* says 'running' without a task unless its task was cut off in this very process
\* (executors/pipeline.py; runner.py _run_pipeline_body).
THEOREM OrphansExplained == Spec => []OrphansAreExplained
BY InvHolds, PTL DEF IInv

LEMMA InvMeansTwo == IInv => TwoAtWorkOnlyIfBothResume
<1> SUFFICES ASSUME IInv, NEW i \in DOMAIN kids, NEW j \in DOMAIN kids, i # j,
                    Working(i), Working(j), ~kids[i].resumed
             PROVE  crashes > 0 /\ conf.parent /\ conf.child /\ conf.policy = "rerun"
  BY DEF TwoAtWorkOnlyIfBothResume
<1>1. Awaited(i) /\ Trying
  BY DEF IInv, OrphansAreExplained, Awaited, Trying
<1>2. kids[j].resumed
  BY <1>1 DEF IInv, OrphansAreExplained, Awaited
<1> QED
  BY <1>1, <1>2 DEF IInv, ResumedAfterCrash

\* A child's work is done twice at once only when the sweep resumed both runs and the
\* parent's step is run again (database.py sweep_and_partition_running_runs).
THEOREM TwoAtWorkExplained == Spec => []TwoAtWorkOnlyIfBothResume
BY InvHolds, InvMeansTwo, PTL

LEMMA InvMeansPass == IInv => PassNeedsACompletedStep
<1> DEFINE k == kids[awaits]
           done == {i \in Steps : k.steps[i] \in Said}
           unsaid == \A i \in Steps :
                       k.steps[i] = "none" \/ (conf.continues /\ k.steps[i] = "broken")
<1> SUFFICES ASSUME IInv, pc = "closing", stepRow = "high", awaits # 0
             PROVE  \/ \E i \in done : k.steps[i] = "high" /\ \A j \in done : j <= i
                    \/ done = {} /\ k.row = "completed" /\ unsaid
  BY DEF PassNeedsACompletedStep
<1>1. Worthy(conf, k)
  BY DEF IInv, GateSaw
<1>2. "high" \in Said /\ "none" \notin Said /\ "broken" \notin Said
  BY DEF Said, Passed
<1>3. CASE LastSaid(k, "high")
  BY <1>2, <1>3 DEF LastSaid
<1>4. CASE ~LastSaid(k, "high")
  <2>1. k.row = "completed" /\ unsaid
    BY <1>1, <1>4 DEF Worthy
  <2>2. done = {}
    BY <1>2, <2>1
  <2> HIDE DEF k, done, unsaid
  <2> QED
    BY <2>1, <2>2
<1> QED
  BY <1>3, <1>4

\* The parent's gate passes the last step its child completed, or a completed child all of
\* whose steps were skipped, or failed and let it continue (executors/pipeline.py
\* final_output and its fallback).
THEOREM PassIsOfACompletedStep == Spec => []PassNeedsACompletedStep
BY InvHolds, InvMeansPass, PTL
=============================================================================
