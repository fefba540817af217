-------------------------- MODULE Admission_proofs --------------------------
(***************************************************************************)
(* Proofs about Admission, for any number of requests, firings and keys,   *)
(* any cap and any number of crashes.                                      *)
(***************************************************************************)
EXTENDS Admission, FiniteSetTheorems, TLAPS

\* Each action keeps the types.
LEMMA TypeStep == TypeOK /\ [Next]_vars => TypeOK'
<1> SUFFICES ASSUME TypeOK, [Next]_vars PROVE TypeOK'
  OBVIOUS
<1> USE SetsAssumption, BoundAssumption DEF TypeOK, RowStates, TaskStates, Runs
<1>1. ASSUME NEW r \in Runs, NEW k \in Keys \cup {NoKey}, ArriveUnchecked(r, k)
      PROVE TypeOK'
  BY <1>1 DEF ArriveUnchecked, AcceptOrRefuse
<1>2. ASSUME NEW r \in Runs, NEW k \in Keys \cup {NoKey}, ArriveChecked(r, k)
      PROVE TypeOK'
  BY <1>2 DEF ArriveChecked
<1>3. ASSUME NEW r \in Runs, FindDuplicate(r) PROVE TypeOK'
  BY <1>3 DEF FindDuplicate
<1>4. ASSUME NEW r \in Runs, AnswerDelivery(r) PROVE TypeOK'
  BY <1>4 DEF AnswerDelivery, AcceptOrRefuse
<1>5. ASSUME NEW r \in Runs, Fire(r) PROVE TypeOK'
  BY <1>5 DEF Fire
<1>6. ASSUME NEW r \in Runs, InsertRow(r) PROVE TypeOK'
  BY <1>6 DEF InsertRow
<1>7. ASSUME NEW r \in Runs, CompleteRun(r) PROVE TypeOK'
  BY <1>7 DEF CompleteRun
<1>8. ASSUME NEW r \in Runs, RaiseInRun(r) PROVE TypeOK'
  BY <1>8 DEF RaiseInRun
<1>9. ASSUME NEW r \in Runs, EndTask(r) PROVE TypeOK'
  BY <1>9 DEF EndTask
<1>10. ASSUME NEW r \in Runs, LeaveWindow(r) PROVE TypeOK'
  BY <1>10 DEF LeaveWindow
<1>11. CASE Crash
  <2>1. task' \in [Runs -> TaskStates]
    BY <1>11 DEF Crash
  <2>2. resumed' \subseteq Runs /\ crashes' \in Nat /\ active' \in Int /\ drift' \in Nat
    BY <1>11 DEF Crash
  <2>3. QED
    BY <1>11, <2>1, <2>2 DEF Crash
<1>12. ASSUME NEW S \in SUBSET Running, Startup(S) PROVE TypeOK'
  <2>1. IsFiniteSet(S) /\ S \subseteq Runs
    BY FS_Union, FS_Subset DEF Running
  <2>2. Cardinality(S) \in Nat
    BY <2>1, FS_CardinalityType
  <2>3. QED
    BY <1>12, <2>1, <2>2 DEF Startup, Swept
<1>13. CASE UNCHANGED vars
  BY <1>13 DEF vars
<1>14. QED
  BY <1>1, <1>2, <1>3, <1>4, <1>5, <1>6, <1>7, <1>8, <1>9, <1>10, <1>11, <1>12,
     <1>13 DEF Next, TaskStep, HandlerStep

\* The variables of Admission keep their types.
THEOREM TypeCorrect == Spec => []TypeOK
<1>1. Init => TypeOK
  BY SetsAssumption DEF Init, TypeOK, RowStates, TaskStates
<1>2. QED
  BY <1>1, TypeStep, PTL DEF Spec

(***************************************************************************)
(* RowsMatchTasks is not inductive: it needs that nothing executes while   *)
(* the process is down, and that a run which has not arrived has no row    *)
(* (its key is still to be chosen).                                        *)
(***************************************************************************)
Idle(r) == task[r] \notin LiveStates \cup {"querying", "queried"}
DownIsIdle == ~up => \A r \in Runs : Idle(r)
NoRowBeforeArrival == \A r \in Runs : task[r] = "none" => row[r] = "none"
RowInv == TypeOK /\ RowsMatchTasks /\ DownIsIdle /\ NoRowBeforeArrival

\* One row in running per key survives every action: a row only enters running
\* where Collides is false.
LEMMA RowStep == RowInv /\ [Next]_vars => RowInv'
<1> SUFFICES ASSUME RowInv, [Next]_vars
             PROVE  (RowsMatchTasks /\ DownIsIdle /\ NoRowBeforeArrival)'
  BY TypeStep DEF RowInv
<1> USE DEF RowInv, TypeOK, RowsMatchTasks, DownIsIdle, NoRowBeforeArrival, Idle,
            Running, Executing, SameKey, LiveStates
<1>1. ASSUME NEW r \in Runs, NEW k \in Keys \cup {NoKey}, ArriveUnchecked(r, k)
      PROVE (RowsMatchTasks /\ DownIsIdle /\ NoRowBeforeArrival)'
  BY <1>1 DEF ArriveUnchecked, AcceptOrRefuse
<1>2. ASSUME NEW r \in Runs, NEW k \in Keys \cup {NoKey}, ArriveChecked(r, k)
      PROVE (RowsMatchTasks /\ DownIsIdle /\ NoRowBeforeArrival)'
  BY <1>2 DEF ArriveChecked
<1>3. ASSUME NEW r \in Runs, FindDuplicate(r)
      PROVE (RowsMatchTasks /\ DownIsIdle /\ NoRowBeforeArrival)'
  BY <1>3 DEF FindDuplicate
<1>4. ASSUME NEW r \in Runs, AnswerDelivery(r)
      PROVE (RowsMatchTasks /\ DownIsIdle /\ NoRowBeforeArrival)'
  BY <1>4 DEF AnswerDelivery, AcceptOrRefuse
<1>5. ASSUME NEW r \in Runs, Fire(r)
      PROVE (RowsMatchTasks /\ DownIsIdle /\ NoRowBeforeArrival)'
  BY <1>5 DEF Fire
<1>6. ASSUME NEW r \in Runs, InsertRow(r)
      PROVE (RowsMatchTasks /\ DownIsIdle /\ NoRowBeforeArrival)'
  <2>1. CASE Collides(r)
    BY <1>6, <2>1 DEF InsertRow
  <2>2. CASE ~Collides(r)
    <3>1. \A s \in Running : ~SameKey(r, s)
      BY <2>2 DEF Collides
    <3>2. /\ row' = [row EXCEPT ![r] = "running"] /\ key' = key /\ up' = up
          /\ task' = [task EXCEPT ![r] = "executing"] /\ task[r] = "accepted"
      BY <1>6, <2>2 DEF InsertRow
    <3>3. QED
      BY <3>1, <3>2
  <2>3. QED
    BY <2>1, <2>2
<1>7. ASSUME NEW r \in Runs, CompleteRun(r)
      PROVE (RowsMatchTasks /\ DownIsIdle /\ NoRowBeforeArrival)'
  BY <1>7 DEF CompleteRun
<1>8. ASSUME NEW r \in Runs, RaiseInRun(r)
      PROVE (RowsMatchTasks /\ DownIsIdle /\ NoRowBeforeArrival)'
  BY <1>8 DEF RaiseInRun
<1>9. ASSUME NEW r \in Runs, EndTask(r)
      PROVE (RowsMatchTasks /\ DownIsIdle /\ NoRowBeforeArrival)'
  BY <1>9 DEF EndTask
<1>10. ASSUME NEW r \in Runs, LeaveWindow(r)
       PROVE (RowsMatchTasks /\ DownIsIdle /\ NoRowBeforeArrival)'
  BY <1>10 DEF LeaveWindow
<1>11. CASE Crash
  BY <1>11 DEF Crash
<1>12. ASSUME NEW S \in SUBSET Running, Startup(S)
       PROVE (RowsMatchTasks /\ DownIsIdle /\ NoRowBeforeArrival)'
  BY <1>12 DEF Startup, Swept
<1>13. CASE UNCHANGED vars
  BY <1>13 DEF vars
<1>14. QED
  BY <1>1, <1>2, <1>3, <1>4, <1>5, <1>6, <1>7, <1>8, <1>9, <1>10, <1>11, <1>12,
     <1>13 DEF Next, TaskStep, HandlerStep

LEMMA RowInvariant == Spec => []RowInv
<1>1. Init => RowInv
  BY SetsAssumption DEF Init, RowInv, TypeOK, RowStates, TaskStates, RowsMatchTasks,
     DownIsIdle, NoRowBeforeArrival, Running, Executing
<1>2. QED
  BY <1>1, RowStep, PTL DEF Spec

\* The unique index keeps one running row per key, and a task that executes has
\* its row running (_db_create_run, sweep_and_partition_running_runs).
THEOREM RowsMatch == Spec => []RowsMatchTasks
<1>1. RowInv => RowsMatchTasks
  BY DEF RowInv
<1>2. QED
  BY <1>1, RowInvariant, PTL

\* Two runs never execute concurrently for the same alert of a pipeline that
\* deduplicates, however the pre-check races (_db_create_run).
THEOREM NoConcurrentDuplicates == Spec => []OneExecutionPerKey
<1>1. RowInv => OneExecutionPerKey
  BY DEF RowInv, RowsMatchTasks, OneExecutionPerKey, Running, Executing, SameKey
<1>2. QED
  BY <1>1, RowInvariant, PTL

(***************************************************************************)
(* The counter.  What it counts needs that a run is resumed only after it  *)
(* arrived, and that nothing has drifted yet in a process that is down.    *)
(***************************************************************************)
DownIsReset == ~up => drift = 0 /\ active = 0 /\ resumed = {}
ResumedArrived == \A r \in resumed : task[r] # "none"
HandlersAreRequests ==
  \A r \in Runs : task[r] \in {"querying", "queried"} => r \in Requests
CounterInv ==
  /\ RowInv /\ DownIsReset /\ ResumedArrived /\ HandlersAreRequests
  /\ CounterMeaning /\ CapHolds

LEMMA CountedFinite == TypeOK => IsFiniteSet(Counted) /\ Cardinality(Counted) \in Nat
<1>1. IsFiniteSet(Runs) /\ Counted \subseteq Runs
  BY SetsAssumption, FS_Union DEF Counted, Live, Runs
<1>2. QED
  BY <1>1, FS_Subset, FS_CardinalityType

\* What an action does to the counted tasks, to the counter and to the drift.
Uncounted == Counted' = Counted /\ active' - active = drift - drift'
Counts(r) ==
  r \notin Counted /\ Counted' = Counted \cup {r} /\ active' = active + 1 /\ drift' = drift
Uncounts(r) ==
  r \in Counted /\ Counted' = Counted \ {r} /\ active' = active - 1 /\ drift' = drift

LEMMA CountStep ==
  ASSUME CounterInv,
         Uncounted \/ \E r \in Runs : Counts(r) \/ Uncounts(r)
  PROVE  TypeOK' => CounterMeaning'
<1> USE DEF CounterInv, RowInv, TypeOK
<1>1. IsFiniteSet(Counted) /\ Cardinality(Counted) \in Nat
  BY CountedFinite
<1>2. CASE Uncounted
  BY <1>1, <1>2 DEF Uncounted, CounterMeaning
<1>3. ASSUME NEW r \in Runs, Counts(r), TypeOK' PROVE CounterMeaning'
  <2>1. Cardinality(Counted \cup {r}) = Cardinality(Counted) + 1
    BY <1>1, <1>3, FS_AddElement DEF Counts
  <2>2. QED
    BY <1>1, <1>3, <2>1 DEF Counts, CounterMeaning
<1>4. ASSUME NEW r \in Runs, Uncounts(r), TypeOK' PROVE CounterMeaning'
  <2>1. Cardinality(Counted \ {r}) = Cardinality(Counted) - 1
    BY <1>1, <1>4, FS_RemoveElement DEF Uncounts
  <2>2. QED
    BY <1>1, <1>4, <2>1 DEF Uncounts, CounterMeaning
<1>5. QED
  BY <1>2, <1>3, <1>4

LEMMA CounterStep == CounterInv /\ [Next]_vars => CounterInv'
<1> SUFFICES ASSUME CounterInv, [Next]_vars
             PROVE  (/\ DownIsReset /\ ResumedArrived /\ HandlersAreRequests
                     /\ CounterMeaning /\ CapHolds)'
  BY RowStep DEF CounterInv
<1> DEFINE Goal == (DownIsReset /\ ResumedArrived /\ HandlersAreRequests /\ CapHolds)'
           Moves == Uncounted \/ \E r \in Runs : Counts(r) \/ Uncounts(r)
<1>0. TypeOK /\ TypeOK'
  BY TypeStep DEF CounterInv, RowInv
<1> USE SetsAssumption, BoundAssumption
        DEF CounterInv, RowInv, TypeOK, DownIsReset, ResumedArrived, HandlersAreRequests, CapHolds,
            Uncounted, Counts, Uncounts, Counted, Live, LiveStates, Runs
<1>1. ASSUME NEW r \in Runs, NEW k \in Keys \cup {NoKey}, ArriveUnchecked(r, k)
      PROVE Goal /\ Moves
  <2>1. CASE active >= MaxConcurrent
    <3>1. Counted' = Counted
      BY <1>1, <2>1 DEF ArriveUnchecked, AcceptOrRefuse
    <3>2. QED
      BY <1>0, <1>1, <2>1, <3>1 DEF ArriveUnchecked, AcceptOrRefuse
  <2>2. CASE ~(active >= MaxConcurrent)
    <3>1. Counted' = Counted \cup {r} /\ r \notin Counted
      BY <1>1, <2>2 DEF ArriveUnchecked, AcceptOrRefuse
    <3>2. QED
      BY <1>0, <1>1, <2>2, <3>1 DEF ArriveUnchecked, AcceptOrRefuse
  <2>3. QED
    BY <2>1, <2>2
<1>2. ASSUME NEW r \in Runs, NEW k \in Keys \cup {NoKey}, ArriveChecked(r, k)
      PROVE Goal /\ Moves
  BY <1>0, <1>2 DEF ArriveChecked
<1>3. ASSUME NEW r \in Runs, FindDuplicate(r) PROVE Goal /\ Moves
  BY <1>0, <1>3 DEF FindDuplicate
<1>4. ASSUME NEW r \in Runs, AnswerDelivery(r) PROVE Goal /\ Moves
  <2>1. CASE hit[r]
    BY <1>0, <1>4, <2>1 DEF AnswerDelivery
  <2>2. CASE ~hit[r] /\ active >= MaxConcurrent
    BY <1>0, <1>4, <2>2 DEF AnswerDelivery, AcceptOrRefuse
  <2>3. CASE ~hit[r] /\ ~(active >= MaxConcurrent)
    <3>1. task[r] = "queried" /\ task' = [task EXCEPT ![r] = "accepted"]
          /\ active' = active + 1 /\ UNCHANGED <<up, drift, resumed>>
      BY <1>4, <2>3 DEF AnswerDelivery, AcceptOrRefuse
    <3>2. r \notin Firings
      BY <3>1
    <3>3. Counted' = Counted \cup {r} /\ r \notin Counted
      BY <1>0, <3>1, <3>2
    <3>4. up
      BY <1>4 DEF AnswerDelivery
    <3>5. Goal
      BY <1>0, <3>1, <3>2, <3>4, <2>3
    <3>6. QED
      BY <3>1, <3>3, <3>5
  <2>4. QED
    BY <2>1, <2>2, <2>3
<1>5. ASSUME NEW r \in Runs, Fire(r) PROVE Goal /\ Moves
  BY <1>0, <1>5 DEF Fire
<1>6. ASSUME NEW r \in Runs, InsertRow(r) PROVE Goal /\ Moves
  BY <1>0, <1>6 DEF InsertRow
<1>7. ASSUME NEW r \in Runs, CompleteRun(r) PROVE Goal /\ Moves
  BY <1>0, <1>7 DEF CompleteRun
<1>8. ASSUME NEW r \in Runs, RaiseInRun(r) PROVE Goal /\ Moves
  BY <1>0, <1>8 DEF RaiseInRun
<1>9. ASSUME NEW r \in Runs, EndTask(r) PROVE Goal /\ Moves
  <2>1. /\ task[r] \in {"closing", "refused"} /\ task' = [task EXCEPT ![r] = "done"]
        /\ active' = active - 1 /\ UNCHANGED <<up, resumed>>
        /\ drift' = IF r \in Firings \ resumed THEN drift + 1 ELSE drift
    BY <1>9 DEF EndTask
  <2>2. up
    BY <2>1 DEF DownIsIdle, Idle
  <2>3. Goal
    <3>1. Cardinality(resumed) = Cardinality(resumed')
      BY <2>1
    <3>2. IsFiniteSet(resumed)
      BY FS_Union, FS_Subset
    <3>3. Cardinality(resumed) \in Nat
      BY <3>2, FS_CardinalityType
    <3>4. QED
      BY <1>0, <2>1, <2>2, <3>1, <3>3
  <2>4. CASE r \in Firings \ resumed
    <3>1. Counted' = Counted
      BY <1>0, <2>1, <2>4
    <3>2. QED
      BY <1>0, <2>1, <2>3, <2>4, <3>1
  <2>5. CASE r \notin Firings \ resumed
    <3>1. Counted' = Counted \ {r} /\ r \in Counted
      BY <1>0, <2>1, <2>5
    <3>2. QED
      BY <2>1, <2>3, <2>5, <3>1
  <2>6. QED
    BY <2>4, <2>5
<1>10. ASSUME NEW r \in Runs, LeaveWindow(r) PROVE Goal /\ Moves
  BY <1>0, <1>10 DEF LeaveWindow
<1>11. CASE Crash
  <2>1. Goal
    BY <1>0, <1>11 DEF Crash
  <2>2. Counted' = {}
    BY <1>0, <1>11 DEF Crash
  <2> HIDE DEF Counted
  <2>3. CounterMeaning'
    BY <1>0, <1>11, <2>2, FS_EmptySet DEF Crash, CounterMeaning
  <2>4. QED
    BY <2>1, <2>3
<1>12. ASSUME NEW S \in SUBSET Running, Startup(S) PROVE Goal /\ CounterMeaning'
  <2>1. Goal
    BY <1>0, <1>12 DEF Startup, Running
  <2>2. Counted' = S
    BY <1>0, <1>12 DEF Startup, Running, DownIsIdle, Idle
  <2> HIDE DEF Counted
  <2>3. CounterMeaning'
    BY <1>0, <1>12, <2>2 DEF Startup, CounterMeaning
  <2>4. QED
    BY <2>1, <2>3
<1>13. CASE UNCHANGED vars
  BY <1>13 DEF vars, CounterMeaning
<1>14. Moves => CounterMeaning'
  BY <1>0, CountStep
<1>15. QED
  BY <1>1, <1>2, <1>3, <1>4, <1>5, <1>6, <1>7, <1>8, <1>9, <1>10, <1>11, <1>12,
     <1>13, <1>14 DEF Next, TaskStep, HandlerStep

LEMMA CounterInvariant == Spec => []CounterInv
<1>1. Init => CounterInv
  <2>1. Init => TypeOK /\ RowInv
    BY SetsAssumption DEF Init, RowInv, TypeOK, RowStates, TaskStates, RowsMatchTasks,
       DownIsIdle, NoRowBeforeArrival, Running, Executing
  <2>2. Init => Counted = {}
    BY DEF Init, Counted, Live, LiveStates
  <2>3. QED
    BY <2>1, <2>2, FS_EmptySet, BoundAssumption
       DEF Init, CounterInv, DownIsReset, ResumedArrived, HandlersAreRequests,
           CounterMeaning, CapHolds
<1>2. QED
  BY <1>1, CounterStep, PTL DEF Spec

\* _active_runs is the number of counted live tasks less the scheduled tasks that
\* ended: how far the counter has drifted from what it is compared for.
THEOREM CounterMeans == Spec => []CounterMeaning
<1>1. CounterInv => CounterMeaning
  BY DEF CounterInv
<1>2. QED
  BY <1>1, CounterInvariant, PTL

\* The counter exceeds max_runs only by the runs resumed at startup (_trigger_run).
THEOREM CapOnCounter == Spec => []CapHolds
<1>1. CounterInv => CapHolds
  BY DEF CounterInv
<1>2. QED
  BY <1>1, CounterInvariant, PTL
=============================================================================
