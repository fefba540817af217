-------------------------- MODULE DurableRun_proofs -------------------------
(***************************************************************************)
(* Proofs about DurableRun, for every set of pipelines and any number of   *)
(* crashes: types, that the rows are an append-only ledger, what may be    *)
(* executed twice, what stops a run, what it may spend, and, of Rerun,     *)
(* that a rerun which is not cut short starts nothing before its step.     *)
(***************************************************************************)
EXTENDS Rerun, FiniteSetTheorems, WellFoundedInduction, TLAPS

LivePCs == {"head", "exec", "asking", "waiting", "save", "gather", "saveBranches", "gate"}
StepPCs == {"exec", "asking", "waiting", "save"}
GroupPCs == {"gather", "saveBranches"}

\* Where the loop stands determines what kind of unit it is at.
Control ==
  /\ pc \in StepPCs => cur \in Ids /\ IsStep(cur)
  /\ pc \in GroupPCs => cur \in Ids /\ HasBranches(cur)
  /\ pc \in {"gate", "save"} => cur \in Ids /\ result.status \in Statuses
  /\ pc = "save" => DOMAIN got = KeysOf(cur)
  /\ pc # "ended" => runStatus = "running"
  /\ pc \in {"down", "load"} => cur = 1

\* when: as the recorded rows decide it.
WhenRow(i) == Units[i].when # 0 => rows[<<Units[i].when, 0>>].val = "hi"

\* Nothing of unit i is left to execute.
Settled(i) ==
  \/ ~WhenRow(i)
  \/ ~IsStep(i) /\ ~HasBranches(i)
  \/ KeysOf(i) \subseteq Persisted

\* Rows are loaded, or were written by this life behind the loop.
LoadedRows ==
  /\ loaded \subseteq Persisted
  /\ loaded # {} => resuming
  /\ pc \in LivePCs =>
       \A k \in Persisted :
         \/ k[1] < cur
         \/ k[1] = cur /\ pc \in {"saveBranches", "gate"}
         \/ k \in loaded

\* What is being executed has no row yet, and its when: held.
InFlight ==
  /\ pc \in StepPCs => <<cur, 0>> \notin Persisted
  /\ pc = "saveBranches" => DOMAIN got = KeysOf(cur) \ Persisted
  /\ pc \in StepPCs \cup GroupPCs => WhenRow(cur)

\* Everything before a recorded row, or before the loop, is settled.
InOrder == \A k \in Persisted : \A i \in Ids : i < k[1] => Settled(i)
Behind == pc \in LivePCs => \A i \in Ids : i < cur => Settled(i)
GateSettled ==
  pc = "gate" => Settled(cur) \/ (~IsStep(cur) /\ result.status # "completed")

\* The outputs in memory are those of the rows.
Context ==
  pc \in LivePCs =>
    \A k \in Keys : k[1] # cur \/ pc # "saveBranches" => outs[k] = rows[k].val

IInv ==
  /\ TypeOK /\ Control /\ LoadedRows /\ InFlight /\ InOrder /\ Behind
  /\ GateSettled /\ Context

(***************************************************************************)
(* Facts about the pipeline, which no step changes.                        *)
(***************************************************************************)
LEMMA Static ==
  ASSUME UNCHANGED pipeline
  PROVE  /\ Units' = Units /\ OnInterrupted' = OnInterrupted /\ MaxTokens' = MaxTokens
         /\ Ids' = Ids /\ Keys' = Keys
         /\ \A i : /\ KeysOf(i)' = KeysOf(i) /\ IsStep(i)' = IsStep(i)
                   /\ HasBranches(i)' = HasBranches(i)
<1> USE DEF Units, OnInterrupted, MaxTokens, Ids, Keys, KeysOf, BranchIds, IsStep,
            HasBranches
<1> QED
  OBVIOUS

LEMMA UnitType ==
  ASSUME pipeline \in Pipelines
  PROVE  /\ Len(Units) \in Nat /\ Ids = 1..Len(Units)
         /\ \A i \in Ids : Units[i] \in Unit
<1>1. Units \in Seq(Unit)
  BY PipelinesAssumption DEF Pipeline, Units
<1>2. QED
  BY <1>1 DEF Ids

LEMMA WhenFacts ==
  ASSUME pipeline \in Pipelines, NEW i \in Ids, Units[i].when # 0
  PROVE  Units[i].when \in Ids /\ Units[i].when < i /\ IsStep(Units[i].when)
<1>1. Units[i].when < i /\ Units[Units[i].when].kind \in {"plain", "human"}
  BY PipelinesAssumption DEF Units, Ids
<1>2. Units[i] \in Unit
  BY UnitType
<1>3. Units[i].when \in Nat
  BY <1>2 DEF Unit
<1>4. i \in 1..Len(Units) /\ Len(Units) \in Nat
  BY UnitType
<1>5. QED
  BY <1>1, <1>3, <1>4, UnitType DEF IsStep

LEMMA KeyFacts ==
  /\ \A i \in Ids : KeysOf(i) \subseteq Keys
  /\ \A i : \A k \in KeysOf(i) : k[1] = i /\ k = <<i, k[2]>>
  /\ \A k \in Keys : k[1] \in Ids /\ k \in KeysOf(k[1])
  /\ \A i : IsStep(i) => KeysOf(i) = {<<i, 0>>}
<1>1. \A i \in Ids : KeysOf(i) \subseteq Keys
  BY DEF Keys
<1>2. \A i : \A k \in KeysOf(i) : k[1] = i /\ k = <<i, k[2]>>
  BY DEF KeysOf
<1>3. \A k \in Keys : k[1] \in Ids /\ k \in KeysOf(k[1])
  BY <1>2 DEF Keys
<1>4. \A i : IsStep(i) => KeysOf(i) = {<<i, 0>>}
  BY DEF KeysOf, BranchIds
<1>5. QED
  BY <1>1, <1>2, <1>3, <1>4

LEMMA KeysOfFinite ==
  ASSUME pipeline \in Pipelines, NEW i \in Ids
  PROVE  IsFiniteSet(KeysOf(i))
<1>1. Units[i].width \in Nat
  <2>1. Units[i] \in Unit
    BY UnitType
  <2>2. QED
    BY <2>1 DEF Unit
<1>2. IsFiniteSet({0}) /\ IsFiniteSet(1..Units[i].width)
  <2>1. IsFiniteSet({0})
    BY FS_Singleton
  <2>2. 1 \in Int /\ Units[i].width \in Int
    BY <1>1
  <2>3. IsFiniteSet(1..Units[i].width)
    BY <2>2, FS_Interval
  <2>4. QED
    BY <2>1, <2>3
<1>3. IsFiniteSet(BranchIds(i))
  BY <1>2 DEF BranchIds
<1> DEFINE f == [b \in BranchIds(i) |-> <<i, b>>]
<1>4. f \in Surjection(BranchIds(i), KeysOf(i))
  BY DEF Surjection, KeysOf
<1>5. QED
  BY <1>3, <1>4, FS_Surjection

LEMMA StatusFacts ==
  ASSUME pipeline \in Pipelines, NEW i \in Ids
  PROVE  /\ LowStatus(i) \in Statuses /\ GroupStatus(i) \in Statuses
         /\ \A val \in Vals : StepStatus(i, val) \in Statuses
         /\ \A val \in Vals : StepResult(i, val) \in Result
         /\ StepOutcomes(i) \subseteq Vals
<1>1. LowStatus(i) \in Statuses
  BY DEF LowStatus, Statuses
<1>2. \A val \in Vals : StepStatus(i, val) \in Statuses
  BY <1>1 DEF StepStatus, Vals, Statuses
<1>3. Units[i].tok \in Nat
  <2>1. Units[i] \in Unit
    BY UnitType
  <2>2. QED
    BY <2>1 DEF Unit
<1>4. \A val \in Vals : StepResult(i, val) \in Result
  BY <1>2, <1>3 DEF StepResult, Result, GapCandidate
<1>5. GroupStatus(i) \in Statuses
  BY <1>1 DEF GroupStatus, Statuses
<1>6. StepOutcomes(i) \subseteq Vals
  BY DEF StepOutcomes, Vals
<1>7. QED
  BY <1>1, <1>2, <1>4, <1>5, <1>6

LEMMA MemoryLoss ==
  ASSUME TypeOK, ForgetMemory
  PROVE  lost' \in [Keys -> Nat] /\ windowGates' \subseteq Ids
<1>1. lost' = [k \in Keys |-> IF k \in unrecorded THEN lost[k] + 1 ELSE lost[k]]
  BY DEF ForgetMemory, RecordLoss
<1>2. \A k \in Keys : lost[k] \in Nat /\ lost[k] + 1 \in Nat
  BY DEF TypeOK
<1>3. lost' \in [Keys -> Nat]
  BY <1>1, <1>2
<1>4. windowGates' \subseteq Ids
  BY DEF ForgetMemory, RecordLoss, TypeOK
<1>5. QED
  BY <1>3, <1>4

(***************************************************************************)
(* Types.                                                                  *)
(***************************************************************************)
LEMMA TypeStep == TypeOK /\ Control /\ [Next]_vars => TypeOK'
<1> SUFFICES ASSUME TypeOK, Control, Next PROVE TypeOK'
  <2>1. UNCHANGED vars /\ TypeOK => TypeOK'
    BY Static DEF vars, db, loop, history, TypeOK
  <2>2. QED
    BY <2>1
<1>0. /\ UNCHANGED pipeline /\ pipeline \in Pipelines
      /\ Units' = Units /\ Ids' = Ids /\ Keys' = Keys
  BY Static DEF Next, TypeOK
<1> Len(Units) \in Nat /\ Ids = 1..Len(Units)
  BY <1>0, UnitType
<1> USE DEF TypeOK, Control, PCs, StepPCs, GroupPCs, db, loop, history
<1>1. ASSUME NEW i \in Ids, SkipPersisted(i) PROVE TypeOK'
  BY <1>0, <1>1, KeyFacts DEF SkipPersisted, AtHead, NextUnit
<1>2. ASSUME NEW i \in Ids, SkipWhen(i) PROVE TypeOK'
  BY <1>0, <1>2, KeyFacts DEF SkipWhen, AtHead, NextUnit
<1>3. ASSUME NEW i \in Ids, BeginStep(i) PROVE TypeOK'
  BY <1>0, <1>3, KeyFacts DEF BeginStep, Dispatch, AtHead, Begin
<1>4. ASSUME NEW i \in Ids, BeginHuman(i) PROVE TypeOK'
  BY <1>0, <1>4, KeyFacts DEF BeginHuman, Dispatch, AtHead
<1>5. ASSUME NEW i \in Ids, RearmHuman(i) PROVE TypeOK'
  BY <1>0, <1>5, KeyFacts DEF RearmHuman, Dispatch, AtHead
<1>6. ASSUME NEW i \in Ids, EscalateStep(i) PROVE TypeOK'
  <2>1. result' \in Result
    BY <1>6 DEF EscalateStep, Result, Statuses
  <2>2. DOMAIN got' \subseteq Keys /\ \A k \in DOMAIN got' : got'[k] \in Vals
    BY <1>6, KeyFacts DEF EscalateStep, Dispatch, AtHead, Vals
  <2>3. QED
    BY <1>0, <1>6, <2>1, <2>2 DEF EscalateStep
<1>7. ASSUME NEW i \in Ids, ResolveFanOut(i) PROVE TypeOK'
  <2>1. result' \in Result
    BY <1>7 DEF ResolveFanOut, Result, Statuses
  <2>2. QED
    BY <1>0, <1>7, <2>1 DEF ResolveFanOut
<1>8. ASSUME NEW i \in Ids, EscalateGroup(i) PROVE TypeOK'
  <2>1. result' \in Result
    BY <1>8 DEF EscalateGroup, Result, Statuses
  <2>2. QED
    BY <1>0, <1>8, <2>1 DEF EscalateGroup
<1>9. ASSUME NEW i \in Ids, BeginGroup(i) PROVE TypeOK'
  BY <1>0, <1>9, KeyFacts DEF BeginGroup, Dispatch, AtHead, Begin, Missing
<1>10. ASSUME NEW val \in Vals, FinishStep(val) PROVE TypeOK'
  <2>1. cur \in Ids /\ pc \in StepPCs
    BY <1>10 DEF FinishStep
  <2>2. result' = StepResult(cur, val) /\ got' = [k \in KeysOf(cur) |-> val]
    BY <1>10 DEF FinishStep
  <2>3. result' \in Result
    BY <1>0, <2>1, <2>2, StatusFacts
  <2>4. DOMAIN got' \subseteq Keys /\ \A k \in DOMAIN got' : got'[k] \in Vals
    BY <2>1, <2>2, KeyFacts
  <2>5. QED
    BY <1>0, <1>10, <2>3, <2>4 DEF FinishStep
<1>11. ASSUME NEW val \in Vals, Decide(val) PROVE TypeOK'
  <2>1. cur \in Ids /\ pc \in StepPCs
    BY <1>11 DEF Decide
  <2>2. result' = StepResult(cur, val) /\ got' = [k \in KeysOf(cur) |-> val]
    BY <1>11 DEF Decide
  <2>3. result' \in Result
    BY <1>0, <2>1, <2>2, StatusFacts
  <2>4. DOMAIN got' \subseteq Keys /\ \A k \in DOMAIN got' : got'[k] \in Vals
    BY <2>1, <2>2, KeyFacts
  <2>5. QED
    BY <1>0, <1>11, <2>3, <2>4 DEF Decide
<1>12. ASSUME NEW k \in Keys, SaveBranch(k) PROVE TypeOK'
  <2>1. cur \in Ids /\ Units[cur] \in Unit /\ k \in DOMAIN got
    BY <1>0, <1>12, UnitType DEF SaveBranch
  <2>2. Units[cur].tok \in Nat /\ Units[cur].vtok \in Nat
    BY <2>1 DEF Unit
  <2>3. rows' \in [Keys -> Row \cup {NoRow}]
    <3> DEFINE st == IF got[k] = "error" THEN "failed" ELSE "completed"
               n == IF got[k] = "error" THEN 0 ELSE Units[cur].tok + Units[cur].vtok
    <3>1. rows' = [rows EXCEPT ![k] = [status |-> st, val |-> got[k], tok |-> n]]
      BY <1>12 DEF SaveBranch
    <3>2. st \in Statuses /\ n \in Nat /\ got[k] \in Vals
      BY <2>1, <2>2 DEF Statuses
    <3> HIDE DEF st, n
    <3>3. [status |-> st, val |-> got[k], tok |-> n] \in Row
      BY <3>2 DEF Row
    <3>4. QED
      BY <3>1, <3>3
  <2>4. DOMAIN got' \subseteq Keys /\ \A j \in DOMAIN got' : got'[j] \in Vals
    BY <1>12 DEF SaveBranch
  <2>5. QED
    BY <1>0, <1>12, <2>3, <2>4 DEF SaveBranch
<1>13. CASE SendRequest
  <2>1. KeysOf(cur) \subseteq Keys /\ cur \in Ids
    BY <1>13, KeyFacts DEF SendRequest
  <2>2. execs' \in [Keys -> Nat] /\ unrecorded' \subseteq Keys /\ overruns' \in Nat
    BY <1>13, <2>1 DEF SendRequest, Begin
  <2>3. QED
    BY <1>0, <1>13, <2>1, <2>2 DEF SendRequest
<1>14. CASE SaveStep
  <2>1. cur \in Ids /\ IsStep(cur) /\ DOMAIN got = KeysOf(cur)
    BY <1>14 DEF SaveStep
  <2>2. <<cur, 0>> \in Keys /\ got[<<cur, 0>>] \in Vals
    BY <2>1, KeyFacts
  <2>3. result.status \in Statuses /\ result.tok \in Nat
    BY <1>14 DEF SaveStep, Result
  <2>4. rows' \in [Keys -> Row \cup {NoRow}]
    BY <1>14, <2>2, <2>3 DEF SaveStep, Row
  <2>5. outs' \in [Keys -> Vals \cup {"none"}] /\ unrecorded' \subseteq Keys
    BY <1>14, <2>2 DEF SaveStep
  <2>6. QED
    BY <1>0, <1>14, <2>4, <2>5 DEF SaveStep
<1>15. CASE GatherBranches
  <2>1. cur \in Ids /\ Missing(cur) \subseteq Keys
    BY <1>15, KeyFacts DEF GatherBranches, Missing
  <2>2. PICK f \in [Missing(cur) -> {"hi", "lo", "error"}] :
          /\ got' = f
          /\ result' = [status |-> "none", gap |-> Missing(cur) # {},
                        tok |-> Units[cur].tok
                                * Cardinality({k \in Missing(cur) : f[k] # "error"})]
    BY <1>15 DEF GatherBranches
  <2>3. Units[cur].tok * Cardinality({k \in Missing(cur) : f[k] # "error"}) \in Nat
    <3>1. Units[cur].tok \in Nat
      <4>1. Units[cur] \in Unit
        BY <1>0, <2>1, UnitType
      <4>2. QED
        BY <4>1 DEF Unit
    <3>2. IsFiniteSet({k \in Missing(cur) : f[k] # "error"})
      <4>1. IsFiniteSet(KeysOf(cur))
        BY <1>0, <2>1, KeysOfFinite
      <4>2. QED
        BY <4>1, FS_Subset DEF Missing
    <3>3. Cardinality({k \in Missing(cur) : f[k] # "error"}) \in Nat
      BY <3>2, FS_CardinalityType
    <3>4. \A a, b \in Nat : a * b \in Nat
      OBVIOUS
    <3>5. QED
      BY <3>1, <3>3, <3>4
  <2>4. result' \in Result
    BY <2>2, <2>3 DEF Result
  <2>5. DOMAIN got' \subseteq Keys /\ \A k \in DOMAIN got' : got'[k] \in Vals
    BY <2>1, <2>2 DEF Vals
  <2>6. QED
    BY <1>0, <1>15, <2>4, <2>5 DEF GatherBranches
<1>16. CASE GroupTimeout
  <2>1. result' \in Result
    BY <1>16 DEF GroupTimeout, Result, Statuses
  <2>2. QED
    BY <1>0, <1>16, <2>1 DEF GroupTimeout
<1>17. CASE JoinGroup
  <2>1. cur \in Ids /\ GroupStatus(cur) \in Statuses
    BY <1>0, <1>17, StatusFacts DEF JoinGroup
  <2>2. result' \in Result
    BY <1>17, <2>1 DEF JoinGroup, Result
  <2>3. \A k \in Keys : rows[k].val \in Vals \cup {"none"}
    BY DEF Row, NoRow
  <2>4. outs' \in [Keys -> Vals \cup {"none"}]
    BY <1>17, <2>3 DEF JoinGroup
  <2>5. QED
    BY <1>0, <1>17, <2>2, <2>4 DEF JoinGroup
<1>18. CASE GateStops
  BY <1>0, <1>18, KeyFacts DEF GateStops, SpendGap
<1>19. CASE GateContinues
  BY <1>0, <1>19, KeyFacts DEF GateContinues, SpendGap, NextUnit, Continues
<1>20. CASE GatePasses
  <2>1. CASE pc' = "notify" /\ final' = "aborted" /\ UNCHANGED cur
    BY <1>0, <1>20, <2>1 DEF GatePasses, SpendGap, Statuses
  <2>2. CASE NextUnit /\ UNCHANGED final
    BY <1>0, <1>20, <2>2 DEF GatePasses, SpendGap, NextUnit
  <2>3. QED
    BY <1>20, <2>1, <2>2 DEF GatePasses
<1>21. CASE Notify
  BY <1>0, <1>21, KeyFacts DEF Notify
<1>22. CASE EndOfSteps
  BY <1>0, <1>22, KeyFacts DEF EndOfSteps
<1>23. CASE CompleteRun
  BY <1>0, <1>23, KeyFacts DEF CompleteRun
<1>24. CASE LoadRun
  <2>1. \A k \in Keys : rows[k].val \in Vals \cup {"none"}
    BY DEF Row, NoRow
  <2>2. loaded' \subseteq Keys /\ armed' \subseteq Ids
    BY <1>24 DEF LoadRun, LoadedKeys, Persisted
  <2>3. outs' \in [Keys -> Vals \cup {"none"}]
    BY <1>24, <2>1 DEF LoadRun, LoadedOutputs
  <2>4. QED
    BY <1>0, <1>24, <2>2, <2>3 DEF LoadRun
<1>25. CASE SweepResumes
  BY <1>0, <1>25, KeyFacts DEF SweepResumes
<1>26. CASE SweepInterrupts
  BY <1>0, <1>26, KeyFacts DEF SweepInterrupts
<1>27. CASE TaskRaises
  BY <1>0, <1>27, KeyFacts DEF TaskRaises
<1>28. CASE Crash
  <2>0. ForgetMemory
    BY <1>28 DEF Crash
  <2>1. lost' \in [Keys -> Nat] /\ windowGates' \subseteq Ids
    BY <2>0, MemoryLoss
  <2>2. outs' \in [Keys -> Vals \cup {"none"}] /\ result' \in Result /\ final' \in Statuses
    BY <1>28 DEF Crash, ForgetMemory, NoResult, Result, Statuses
  <2>3. DOMAIN got' \subseteq Keys /\ \A k \in DOMAIN got' : got'[k] \in Vals
    BY <1>28 DEF Crash, ForgetMemory
  <2>4. /\ pc' \in PCs /\ cur' \in 1..(Len(Units) + 1) /\ crashes' \in Nat
        /\ loaded' \subseteq Keys /\ armed' \subseteq Ids /\ unrecorded' \subseteq Keys
        /\ resuming' \in BOOLEAN /\ gapSpent' \in BOOLEAN
    <3>1. /\ pc' = "down" /\ cur' = 1 /\ crashes' = crashes + 1
          /\ loaded' = {} /\ armed' = {} /\ unrecorded' = {}
          /\ resuming' = FALSE /\ gapSpent' = FALSE
      BY <2>0 DEF ForgetMemory
    <3>2. cur' \in 1..(Len(Units) + 1) /\ crashes' \in Nat
      BY <3>1
    <3>3. QED
      BY <3>1, <3>2
  <2>5. UNCHANGED <<runStatus, rows, resumedAt, execs, skipped, overruns, continued>> /\ approvals' \subseteq Ids
    BY <1>28 DEF Crash, ForgetMemory
  <2>6. QED
    BY <1>0, <2>1, <2>2, <2>3, <2>4, <2>5
<1>29. CASE StopWhileWaiting
  <2>0. ForgetMemory
    BY <1>29 DEF StopWhileWaiting
  <2>1. lost' \in [Keys -> Nat] /\ windowGates' \subseteq Ids
    BY <2>0, MemoryLoss
  <2>2. outs' \in [Keys -> Vals \cup {"none"}] /\ result' \in Result /\ final' \in Statuses
    BY <1>29 DEF StopWhileWaiting, ForgetMemory, NoResult, Result, Statuses
  <2>3. DOMAIN got' \subseteq Keys /\ \A k \in DOMAIN got' : got'[k] \in Vals
    BY <1>29 DEF StopWhileWaiting, ForgetMemory
  <2>4. /\ pc' \in PCs /\ cur' \in 1..(Len(Units) + 1) /\ crashes' \in Nat
        /\ loaded' \subseteq Keys /\ armed' \subseteq Ids /\ unrecorded' \subseteq Keys
        /\ resuming' \in BOOLEAN /\ gapSpent' \in BOOLEAN
    <3>1. /\ pc' = "down" /\ cur' = 1 /\ crashes' = crashes + 1
          /\ loaded' = {} /\ armed' = {} /\ unrecorded' = {}
          /\ resuming' = FALSE /\ gapSpent' = FALSE
      BY <2>0 DEF ForgetMemory
    <3>2. cur' \in 1..(Len(Units) + 1) /\ crashes' \in Nat
      BY <3>1
    <3>3. QED
      BY <3>1, <3>2
  <2>5. UNCHANGED <<runStatus, rows, resumedAt, execs, skipped, overruns, continued>> /\ approvals' \subseteq Ids
    BY <1>29 DEF StopWhileWaiting, ForgetMemory
  <2>6. QED
    BY <1>0, <2>1, <2>2, <2>3, <2>4, <2>5
<1>30. QED
  BY <1>1, <1>2, <1>3, <1>4, <1>5, <1>6, <1>7, <1>8, <1>9, <1>10, <1>11, <1>12,
     <1>13, <1>14, <1>15, <1>16, <1>17, <1>18, <1>19, <1>20, <1>21, <1>22, <1>23,
     <1>24, <1>25, <1>26, <1>27, <1>28, <1>29 DEF Next, StepLoop, Recovery

LEMMA ControlStep == TypeOK /\ Control /\ [Next]_vars => Control'
<1> SUFFICES ASSUME TypeOK, Control, Next PROVE Control'
  <2>1. UNCHANGED vars /\ Control => Control'
    BY Static DEF vars, db, loop, history, Control
  <2>2. QED
    BY <2>1
<1>0. /\ UNCHANGED pipeline /\ pipeline \in Pipelines /\ Ids' = Ids
      /\ \A i : /\ KeysOf(i)' = KeysOf(i) /\ IsStep(i)' = IsStep(i)
                /\ HasBranches(i)' = HasBranches(i)
  BY Static DEF Next, TypeOK
<1> USE DEF Control, StepPCs, GroupPCs, db, loop, history
<1>1. ASSUME NEW i \in Ids, SkipPersisted(i) PROVE Control'
  BY <1>0, <1>1 DEF SkipPersisted, AtHead, NextUnit
<1>2. ASSUME NEW i \in Ids, SkipWhen(i) PROVE Control'
  BY <1>0, <1>2 DEF SkipWhen, AtHead, NextUnit
<1>3. ASSUME NEW i \in Ids, BeginStep(i) PROVE Control'
  <2>1. IsStep(i)
    BY <1>3 DEF BeginStep, IsStep
  <2>2. QED
    BY <1>0, <1>3, <2>1 DEF BeginStep, Dispatch, AtHead, Begin
<1>4. ASSUME NEW i \in Ids, BeginHuman(i) PROVE Control'
  <2>1. IsStep(i)
    BY <1>4 DEF BeginHuman, IsStep
  <2>2. QED
    BY <1>0, <1>4, <2>1 DEF BeginHuman, Dispatch, AtHead
<1>5. ASSUME NEW i \in Ids, RearmHuman(i) PROVE Control'
  <2>1. IsStep(i)
    BY <1>5 DEF RearmHuman, Rearms, IsStep
  <2>2. QED
    BY <1>0, <1>5, <2>1 DEF RearmHuman, Dispatch, AtHead
<1>6. ASSUME NEW i \in Ids, EscalateStep(i) PROVE Control'
  <2>1. result'.status \in Statuses /\ DOMAIN got' = KeysOf(cur)
    BY <1>6 DEF EscalateStep, Dispatch, AtHead, Statuses
  <2>2. QED
    BY <1>0, <1>6, <2>1 DEF EscalateStep, Dispatch, AtHead
<1>7. ASSUME NEW i \in Ids, ResolveFanOut(i) PROVE Control'
  <2>1. result'.status \in Statuses
    BY <1>7 DEF ResolveFanOut, Statuses
  <2>2. QED
    BY <1>0, <1>7, <2>1 DEF ResolveFanOut, Dispatch, AtHead
<1>8. ASSUME NEW i \in Ids, EscalateGroup(i) PROVE Control'
  <2>1. result'.status \in Statuses
    BY <1>8 DEF EscalateGroup, Statuses
  <2>2. QED
    BY <1>0, <1>8, <2>1 DEF EscalateGroup, Dispatch, AtHead
<1>9. ASSUME NEW i \in Ids, BeginGroup(i) PROVE Control'
  BY <1>0, <1>9 DEF BeginGroup, Dispatch, AtHead, Begin, Missing
<1>10. ASSUME NEW val \in Vals, FinishStep(val) PROVE Control'
  <2>1. cur \in Ids /\ IsStep(cur)
    BY <1>10 DEF FinishStep
  <2>2. result'.status \in Statuses
    BY <1>0, <1>10, <2>1, StatusFacts DEF FinishStep, StepResult
  <2>3. DOMAIN got' = KeysOf(cur)
    BY <1>10 DEF FinishStep
  <2>4. QED
    BY <1>0, <1>10, <2>1, <2>2, <2>3 DEF FinishStep
<1>11. ASSUME NEW val \in Vals, Decide(val) PROVE Control'
  <2>1. cur \in Ids /\ IsStep(cur)
    BY <1>11 DEF Decide
  <2>2. result'.status \in Statuses
    BY <1>0, <1>11, <2>1, StatusFacts DEF Decide, StepResult
  <2>3. DOMAIN got' = KeysOf(cur)
    BY <1>11 DEF Decide
  <2>4. QED
    BY <1>0, <1>11, <2>1, <2>2, <2>3 DEF Decide
<1>12. ASSUME NEW k \in Keys, SaveBranch(k) PROVE Control'
  BY <1>0, <1>12 DEF SaveBranch
<1>13. CASE SendRequest
  BY <1>0, <1>13 DEF SendRequest, Begin
<1>14. CASE SaveStep
  BY <1>0, <1>14 DEF SaveStep
<1>15. CASE GatherBranches
  BY <1>0, <1>15 DEF GatherBranches, Missing
<1>16. CASE GroupTimeout
  <2>1. result'.status \in Statuses
    BY <1>16 DEF GroupTimeout, Statuses
  <2>2. QED
    BY <1>0, <1>16, <2>1 DEF GroupTimeout
<1>17. CASE JoinGroup
  <2>1. result'.status \in Statuses
    BY <1>0, <1>17, StatusFacts DEF JoinGroup, TypeOK, Result
  <2>2. QED
    BY <1>0, <1>17, <2>1 DEF JoinGroup
<1>18. CASE GateStops
  BY <1>0, <1>18 DEF GateStops, SpendGap
<1>19. CASE GateContinues
  BY <1>0, <1>19 DEF GateContinues, SpendGap, NextUnit, Continues
<1>20. CASE GatePasses
  BY <1>0, <1>20 DEF GatePasses, SpendGap, NextUnit
<1>21. CASE Notify
  BY <1>0, <1>21 DEF Notify
<1>22. CASE EndOfSteps
  BY <1>0, <1>22 DEF EndOfSteps
<1>23. CASE CompleteRun
  BY <1>0, <1>23 DEF CompleteRun
<1>24. CASE LoadRun
  BY <1>0, <1>24 DEF LoadRun
<1>25. CASE SweepResumes
  BY <1>0, <1>25 DEF SweepResumes
<1>26. CASE SweepInterrupts
  BY <1>0, <1>26 DEF SweepInterrupts
<1>27. CASE TaskRaises
  BY <1>0, <1>27 DEF TaskRaises
<1>28. CASE Crash
  BY <1>0, <1>28 DEF Crash, ForgetMemory, ProcessUp
<1>29. CASE StopWhileWaiting
  BY <1>0, <1>29 DEF StopWhileWaiting, ForgetMemory, ProcessUp
<1>30. QED
  BY <1>1, <1>2, <1>3, <1>4, <1>5, <1>6, <1>7, <1>8, <1>9, <1>10, <1>11, <1>12,
     <1>13, <1>14, <1>15, <1>16, <1>17, <1>18, <1>19, <1>20, <1>21, <1>22, <1>23,
     <1>24, <1>25, <1>26, <1>27, <1>28, <1>29 DEF Next, StepLoop, Recovery

(***************************************************************************)
(* The rows.  Most actions leave them alone, and with them what is settled.*)
(***************************************************************************)
LEMMA SameRows ==
  ASSUME UNCHANGED pipeline, UNCHANGED rows
  PROVE  /\ Persisted' = Persisted /\ Ids' = Ids /\ Keys' = Keys
         /\ \A i : /\ WhenRow(i)' = WhenRow(i) /\ Settled(i)' = Settled(i)
                   /\ KeysOf(i)' = KeysOf(i) /\ IsStep(i)' = IsStep(i)
                   /\ HasBranches(i)' = HasBranches(i)
<1>1. Persisted' = Persisted
  BY Static DEF Persisted
<1>2. \A i : WhenRow(i)' = WhenRow(i)
  BY Static DEF WhenRow
<1>3. \A i : Settled(i)' = Settled(i)
  BY <1>1, <1>2, Static DEF Settled
<1>4. QED
  BY <1>1, <1>2, <1>3, Static

\* The order of the rows is a matter of the rows alone.
LEMMA InOrderFrame ==
  ASSUME UNCHANGED pipeline, UNCHANGED rows, InOrder
  PROVE  InOrder'
  BY SameRows DEF InOrder

\* The context that the loop sees is that of the rows.
LEMMA WhenAgrees ==
  ASSUME IInv, pc \in LivePCs \ {"saveBranches"}, NEW i \in Ids
  PROVE  WhenHolds(i) = WhenRow(i)
<1>1. CASE Units[i].when = 0
  BY <1>1 DEF WhenHolds, WhenRow
<1>2. CASE Units[i].when # 0
  <2>1. <<Units[i].when, 0>> \in Keys
    BY <1>2, WhenFacts, KeyFacts DEF IInv, TypeOK
  <2>2. outs[<<Units[i].when, 0>>] = rows[<<Units[i].when, 0>>].val
    BY <2>1 DEF IInv, Context, LivePCs
  <2>3. QED
    BY <1>2, <2>2 DEF WhenHolds, WhenRow
<1>3. QED
  BY <1>1, <1>2

\* A unit that is dispatched has not executed in this life.
LEMMA AtHeadFacts ==
  ASSUME IInv, NEW i \in Ids, AtHead(i)
  PROVE  /\ KeysOf(i) \cap Persisted \subseteq loaded
         /\ Dispatch(i) => WhenRow(i)
         /\ Dispatch(i) /\ IsStep(i) => <<i, 0>> \notin Persisted
<1>1. pc = "head" /\ cur = i
  BY DEF AtHead
<1>2. KeysOf(i) \cap Persisted \subseteq loaded
  <2>1. ASSUME NEW k \in KeysOf(i) \cap Persisted PROVE k \in loaded
    <3>1. k[1] = i /\ k[1] \in Nat
      BY KeyFacts, UnitType DEF IInv, TypeOK
    <3>2. QED
      BY <1>1, <3>1 DEF IInv, LoadedRows, LivePCs
  <2>2. QED
    BY <2>1
<1>3. Dispatch(i) => WhenRow(i)
  BY <1>1, WhenAgrees DEF Dispatch, LivePCs
<1>4. ASSUME Dispatch(i), IsStep(i) PROVE <<i, 0>> \notin Persisted
  <2>1. <<i, 0>> \in KeysOf(i)
    BY <1>4, KeyFacts
  <2>2. <<i, 0>> \notin loaded
    BY <1>4 DEF Dispatch, AlreadyDone, IInv, LoadedRows
  <2>3. QED
    BY <1>2, <2>1, <2>2
<1>5. QED
  BY <1>2, <1>3, <1>4

\* Writing the row of what is in flight at cur: nothing later is recorded, and
\* what was settled stays settled.
LEMMA RecordRow ==
  ASSUME IInv, UNCHANGED pipeline, pc \in {"save", "saveBranches"},
         NEW k \in KeysOf(cur), k \notin Persisted, NEW r \in Row,
         rows' = [rows EXCEPT ![k] = r]
  PROVE  /\ Persisted' = Persisted \cup {k}
         /\ \A j \in Persisted : j[1] <= cur
         /\ \A i \in Ids : i <= cur => WhenRow(i)' = WhenRow(i)
         /\ \A i \in Ids : i <= cur /\ Settled(i) => Settled(i)'
         /\ InOrder'
<1>0. /\ cur \in Ids /\ k \in Keys /\ k[1] = cur /\ Ids' = Ids /\ Keys' = Keys
      /\ Ids = 1..Len(Units) /\ Len(Units) \in Nat
  BY KeyFacts, UnitType, Static DEF IInv, TypeOK, Control, StepPCs, GroupPCs
<1>1. Persisted' = Persisted \cup {k}
  <2>1. r # NoRow
    BY DEF Row, NoRow, Statuses
  <2>2. rows \in [Keys -> Row \cup {NoRow}]
    BY DEF IInv, TypeOK
  <2>3. QED
    BY <1>0, <2>1, <2>2 DEF Persisted
<1>2. ASSUME NEW j \in Persisted PROVE j[1] <= cur
  <2>1. j[1] \in Ids
    BY KeyFacts DEF Persisted
  <2>2. ASSUME cur < j[1] PROVE FALSE
    <3>1. Settled(cur)
      BY <1>0, <2>2 DEF IInv, InOrder
    <3>2. WhenRow(cur)
      BY DEF IInv, InFlight, StepPCs, GroupPCs
    <3>3. IsStep(cur) \/ HasBranches(cur)
      BY DEF IInv, Control, StepPCs, GroupPCs
    <3>4. QED
      BY <3>1, <3>2, <3>3 DEF Settled
  <2>3. QED
    BY <1>0, <2>1, <2>2
<1>3. ASSUME NEW i \in Ids, i <= cur PROVE WhenRow(i)' = WhenRow(i)
  <2>1. CASE Units[i].when = 0
    BY <2>1, Static DEF WhenRow
  <2>2. CASE Units[i].when # 0
    <3>1. Units[i].when \in Ids /\ Units[i].when < i
      BY <2>2, WhenFacts DEF IInv, TypeOK
    <3>2. <<Units[i].when, 0>> # k
      BY <1>0, <1>3, <3>1
    <3>3. rows'[<<Units[i].when, 0>>] = rows[<<Units[i].when, 0>>]
      BY <3>2
    <3>4. QED
      BY <3>3, Static DEF WhenRow
  <2>3. QED
    BY <2>1, <2>2
<1>4. ASSUME NEW i \in Ids, i <= cur, Settled(i) PROVE Settled(i)'
  <2>1. WhenRow(i)' = WhenRow(i)
    BY <1>3, <1>4
  <2>2. QED
    BY <1>1, <1>4, <2>1, Static DEF Settled
<1>5. InOrder'
  <2> SUFFICES ASSUME NEW j \in Persisted', NEW i \in Ids, i < j[1]
               PROVE  Settled(i)'
    BY <1>0 DEF InOrder
  <2>1. CASE j \in Persisted
    <3>1. i <= cur
      <4>1. j[1] <= cur /\ j[1] \in Ids
        BY <1>2, <2>1, KeyFacts DEF Persisted
      <4>2. QED
        BY <1>0, <4>1
    <3>2. Settled(i)
      BY <2>1 DEF IInv, InOrder
    <3>3. QED
      BY <1>4, <3>1, <3>2
  <2>2. CASE j = k
    <3>1. i < cur /\ i <= cur
      BY <1>0, <2>2
    <3>2. Settled(i)
      BY <3>1 DEF IInv, Behind, LivePCs
    <3>3. QED
      BY <1>4, <3>1, <3>2
  <2>3. QED
    BY <1>1, <2>1, <2>2
<1>6. QED
  BY <1>1, <1>2, <1>3, <1>4, <1>5

(***************************************************************************)
(* The rest of the invariant.  What a step does to it depends on where the *)
(* loop stands before and after, so one lemma per kind of move.            *)
(***************************************************************************)
Rest == LoadedRows /\ InFlight /\ InOrder /\ Behind /\ GateSettled /\ Context

\* The task leaves the loop, or is not in it.
LEMMA NotLive ==
  ASSUME IInv, UNCHANGED <<pipeline, rows>>, pc' \notin LivePCs,
         loaded' = {} \/ UNCHANGED <<loaded, resuming>>
  PROVE  Rest'
<1>1. LoadedRows'
  BY SameRows DEF IInv, LoadedRows
<1>2. InFlight' /\ Behind' /\ GateSettled' /\ Context'
  BY DEF InFlight, Behind, GateSettled, Context, LivePCs, StepPCs, GroupPCs
<1>3. InOrder'
  BY InOrderFrame DEF IInv
<1>4. QED
  BY <1>1, <1>2, <1>3 DEF Rest

\* The loop works on the unit it is at.
LEMMA SameUnit ==
  ASSUME IInv, UNCHANGED <<pipeline, rows, loaded, resuming, outs, cur>>,
         pc \in LivePCs \ {"saveBranches", "gate"}, pc' \in LivePCs,
         InFlight', GateSettled'
  PROVE  Rest'
<1>1. LoadedRows'
  BY SameRows DEF IInv, LoadedRows
<1>2. InOrder'
  BY InOrderFrame DEF IInv
<1>3. Behind'
  BY SameRows DEF IInv, Behind
<1>4. Context'
  BY SameRows DEF IInv, Context
<1>5. QED
  BY <1>1, <1>2, <1>3, <1>4 DEF Rest

\* The loop moves on, past a unit with nothing left to execute.
LEMMA PastUnit ==
  ASSUME IInv, UNCHANGED <<pipeline, rows, loaded, resuming, outs>>, NextUnit,
         pc \in {"head", "gate"}, cur \in Ids, Settled(cur)
  PROVE  Rest'
<1>0. pc' = "head" /\ cur' = cur + 1 /\ Ids = 1..Len(Units) /\ Len(Units) \in Nat
  BY UnitType DEF NextUnit, IInv, TypeOK
<1>1. LoadedRows'
  <2>1. ASSUME NEW k \in Persisted PROVE k[1] < cur' \/ k \in loaded
    <3>1. k[1] \in Ids /\ (k[1] < cur \/ k[1] = cur \/ k \in loaded)
      BY KeyFacts DEF Persisted, IInv, LoadedRows, LivePCs
    <3>2. QED
      BY <1>0, <3>1
  <2>2. QED
    BY <1>0, <2>1, SameRows DEF IInv, LoadedRows
<1>2. InOrder'
  BY InOrderFrame DEF IInv
<1>3. Behind'
  <2>1. ASSUME NEW i \in Ids, i < cur' PROVE Settled(i)
    <3>1. i < cur \/ i = cur
      BY <1>0, <2>1
    <3>2. QED
      BY <3>1 DEF IInv, Behind, LivePCs
  <2>2. QED
    BY <2>1, SameRows DEF Behind
<1>4. Context'
  <2>1. \A k \in Keys : outs[k] = rows[k].val
    BY DEF IInv, Context, LivePCs
  <2>2. QED
    BY <2>1, SameRows DEF Context
<1>5. InFlight' /\ GateSettled'
  BY <1>0 DEF InFlight, GateSettled, StepPCs, GroupPCs
<1>6. QED
  BY <1>1, <1>2, <1>3, <1>4, <1>5 DEF Rest

\* The row of a step is written.
LEMMA SaveStepRest == IInv /\ SaveStep /\ UNCHANGED pipeline => Rest'
<1> SUFFICES ASSUME IInv, SaveStep, UNCHANGED pipeline PROVE Rest'
  OBVIOUS
<1> DEFINE k == <<cur, 0>>
           r == [status |-> result.status, val |-> got[k], tok |-> result.tok]
<1>0. /\ pc = "save" /\ pc' = "gate" /\ cur \in Ids /\ IsStep(cur)
      /\ KeysOf(cur) = {k} /\ DOMAIN got = {k} /\ k \notin Persisted /\ k \in Keys
  BY KeyFacts DEF SaveStep, IInv, Control, StepPCs, InFlight
<1>1. /\ rows' = [rows EXCEPT ![k] = r] /\ outs' = [outs EXCEPT ![k] = got[k]]
      /\ UNCHANGED <<cur, loaded, resuming>>
  BY DEF SaveStep, loop
<1>2. r \in Row
  <2>1. result.status \in Statuses /\ got[k] \in Vals /\ result.tok \in Nat
    BY <1>0 DEF IInv, TypeOK, Control, Result
  <2>2. QED
    BY <2>1 DEF Row
<1>3. /\ Persisted' = Persisted \cup {k} /\ InOrder'
      /\ \A j \in Persisted : j[1] <= cur
      /\ \A i \in Ids : i <= cur /\ Settled(i) => Settled(i)'
  <2> HIDE DEF r, k
  <2>1. k \in KeysOf(cur) /\ pc \in {"save", "saveBranches"}
    BY <1>0
  <2>2. QED
    BY <1>0, <1>1, <1>2, <2>1, RecordRow
<1>4. Ids' = Ids /\ Keys' = Keys /\ KeysOf(cur)' = KeysOf(cur) /\ Ids = 1..Len(Units)
      /\ Len(Units) \in Nat
  BY <1>1, Static, UnitType DEF IInv, TypeOK
<1>5. LoadedRows'
  <2>1. \A j \in Persisted' : j[1] < cur' \/ j[1] = cur'
    <3>1. \A j \in Persisted : j[1] \in Ids
      BY KeyFacts DEF Persisted
    <3>2. QED
      BY <1>0, <1>1, <1>3, <1>4, <3>1
  <2>2. QED
    BY <1>0, <1>1, <1>3, <2>1 DEF IInv, LoadedRows
<1>6. InFlight'
  BY <1>0 DEF InFlight, StepPCs, GroupPCs
<1>7. Behind'
  BY <1>0, <1>1, <1>3, <1>4 DEF IInv, Behind, LivePCs
<1>8. GateSettled'
  <2>1. Settled(cur)'
    BY <1>0, <1>1, <1>3, <1>4 DEF Settled
  <2>2. QED
    BY <1>1, <2>1 DEF GateSettled
<1>9. Context'
  <2>1. \A j \in Keys : outs[j] = rows[j].val
    BY <1>0 DEF IInv, Context, LivePCs
  <2>2. rows \in [Keys -> Row \cup {NoRow}] /\ outs \in [Keys -> Vals \cup {"none"}]
    BY DEF IInv, TypeOK
  <2>3. \A j \in Keys : outs'[j] = rows'[j].val
    BY <1>0, <1>1, <2>1, <2>2
  <2>4. QED
    BY <1>4, <2>3 DEF Context
<1>10. QED
  BY <1>3, <1>5, <1>6, <1>7, <1>8, <1>9 DEF Rest

\* The row of a branch is written.
LEMMA SaveBranchRest ==
  ASSUME IInv, NEW k \in Keys, SaveBranch(k), UNCHANGED pipeline PROVE Rest'
<1> DEFINE st == IF got[k] = "error" THEN "failed" ELSE "completed"
           n == IF got[k] = "error" THEN 0 ELSE Units[cur].tok + Units[cur].vtok
           r == [status |-> st, val |-> got[k], tok |-> n]
<1>0. /\ pc = "saveBranches" /\ pc' = pc /\ cur \in Ids /\ HasBranches(cur)
      /\ DOMAIN got = KeysOf(cur) \ Persisted /\ k \in DOMAIN got /\ k[1] = cur
  BY KeyFacts DEF SaveBranch, IInv, Control, GroupPCs, InFlight
<1>1. /\ rows' = [rows EXCEPT ![k] = r] /\ DOMAIN got' = DOMAIN got \ {k}
      /\ UNCHANGED <<cur, loaded, resuming, outs>>
  BY DEF SaveBranch, loop
<1>2. r \in Row
  <2>1. Units[cur] \in Unit
    BY <1>0, UnitType DEF IInv, TypeOK
  <2>2. Units[cur].tok \in Nat /\ Units[cur].vtok \in Nat
    BY <2>1 DEF Unit
  <2>3. st \in Statuses /\ n \in Nat /\ got[k] \in Vals
    BY <1>0, <2>2 DEF Statuses, IInv, TypeOK
  <2> HIDE DEF st, n
  <2>4. QED
    BY <2>3 DEF Row
<1> HIDE DEF r
<1>3. /\ Persisted' = Persisted \cup {k} /\ InOrder'
      /\ \A j \in Persisted : j[1] <= cur
      /\ \A i \in Ids : i <= cur => WhenRow(i)' = WhenRow(i)
      /\ \A i \in Ids : i <= cur /\ Settled(i) => Settled(i)'
  <2>1. k \in KeysOf(cur) /\ k \notin Persisted /\ pc \in {"save", "saveBranches"}
    BY <1>0
  <2>2. QED
    BY <1>1, <1>2, <2>1, RecordRow
<1>4. /\ Ids' = Ids /\ Keys' = Keys /\ KeysOf(cur)' = KeysOf(cur)
      /\ Ids = 1..Len(Units) /\ Len(Units) \in Nat
  BY <1>1, Static, UnitType DEF IInv, TypeOK
<1>5. LoadedRows'
  <2>1. \A j \in Persisted' : j[1] < cur' \/ j[1] = cur'
    <3>1. \A j \in Persisted : j[1] \in Ids
      BY KeyFacts DEF Persisted
    <3>2. QED
      BY <1>0, <1>1, <1>3, <1>4, <3>1
  <2>2. QED
    BY <1>0, <1>1, <1>3, <2>1 DEF IInv, LoadedRows
<1>6. InFlight'
  <2>1. WhenRow(cur)'
    <3>1. WhenRow(cur) /\ cur' = cur /\ cur <= cur
      BY <1>0, <1>1, <1>4 DEF IInv, InFlight, GroupPCs
    <3>2. \A i \in Ids : i = cur => WhenRow(i)'
      BY <1>3, <3>1
    <3>3. QED
      BY <1>0, <3>1, <3>2 DEF WhenRow
  <2>2. DOMAIN got' = KeysOf(cur) \ Persisted'
    BY <1>0, <1>1, <1>3
  <2>3. cur' = cur /\ KeysOf(cur)' = KeysOf(cur)
    BY <1>1, <1>4
  <2>4. QED
    BY <1>0, <2>1, <2>2, <2>3 DEF InFlight, StepPCs
<1>7. Behind'
  BY <1>0, <1>1, <1>3, <1>4 DEF IInv, Behind, LivePCs
<1>8. GateSettled'
  BY <1>0 DEF GateSettled
<1>9. Context'
  <2>1. \A j \in Keys : j[1] # cur => outs[j] = rows[j].val
    BY <1>0 DEF IInv, Context, LivePCs
  <2>2. \A j \in Keys : j[1] # cur => rows'[j] = rows[j]
    BY <1>0, <1>1 DEF IInv, TypeOK
  <2>3. QED
    BY <1>0, <1>1, <1>4, <2>1, <2>2 DEF Context
<1>10. QED
  BY <1>3, <1>5, <1>6, <1>7, <1>8, <1>9 DEF Rest

\* All the branches have rows.
LEMMA JoinGroupRest == IInv /\ JoinGroup /\ UNCHANGED pipeline => Rest'
<1> SUFFICES ASSUME IInv, JoinGroup, UNCHANGED pipeline PROVE Rest'
  OBVIOUS
<1>0. /\ pc = "saveBranches" /\ pc' = "gate" /\ KeysOf(cur) \subseteq Persisted
      /\ UNCHANGED <<rows, cur, loaded, resuming>>
      /\ outs' = [k \in Keys |-> IF k \in KeysOf(cur) THEN rows[k].val ELSE outs[k]]
  BY DEF JoinGroup, IInv, InFlight, db, loop
<1>1. LoadedRows'
  BY <1>0, SameRows DEF IInv, LoadedRows, LivePCs
<1>2. InFlight'
  BY <1>0 DEF InFlight, StepPCs, GroupPCs
<1>3. InOrder'
  BY <1>0, InOrderFrame DEF IInv
<1>4. Behind'
  BY <1>0, SameRows DEF IInv, Behind, LivePCs
<1>5. GateSettled'
  <2>1. Settled(cur)
    BY <1>0 DEF Settled
  <2>2. QED
    BY <1>0, <2>1, SameRows DEF GateSettled
<1>6. Context'
  <2>1. \A k \in Keys : k[1] # cur => outs[k] = rows[k].val
    BY <1>0 DEF IInv, Context, LivePCs
  <2>2. \A k \in Keys : k[1] = cur => k \in KeysOf(cur)
    BY KeyFacts
  <2>3. \A k \in Keys : outs'[k] = rows[k].val
    BY <1>0, <2>1, <2>2
  <2>4. QED
    BY <1>0, <2>3, SameRows DEF Context
<1>7. QED
  BY <1>1, <1>2, <1>3, <1>4, <1>5, <1>6 DEF Rest

\* A restarted run loads every row, and starts at the first unit.
LEMMA LoadRunRest == IInv /\ LoadRun /\ UNCHANGED pipeline => Rest'
<1> SUFFICES ASSUME IInv, LoadRun, UNCHANGED pipeline PROVE Rest'
  OBVIOUS
<1>0. /\ pc = "load" /\ pc' = "head" /\ loaded' = Persisted /\ resuming' = TRUE
      /\ cur = 1 /\ UNCHANGED <<rows, cur>> /\ outs' = [k \in Keys |-> rows[k].val]
  BY DEF LoadRun, LoadedKeys, LoadedOutputs, IInv, Control
<1>1. LoadedRows'
  BY <1>0, SameRows DEF LoadedRows
<1>2. InFlight' /\ GateSettled'
  BY <1>0 DEF InFlight, GateSettled, StepPCs, GroupPCs
<1>3. InOrder'
  BY <1>0, InOrderFrame DEF IInv
<1>4. Behind'
  <2>1. \A i \in Ids : ~(i < 1)
    BY UnitType DEF IInv, TypeOK
  <2>2. QED
    BY <1>0, <2>1, SameRows DEF Behind
<1>5. Context'
  BY <1>0, SameRows DEF Context
<1>6. QED
  BY <1>1, <1>2, <1>3, <1>4, <1>5 DEF Rest

LEMMA RestStep == IInv /\ [Next]_vars => Rest'
<1> SUFFICES ASSUME IInv, Next PROVE Rest'
  <2>1. ASSUME IInv, UNCHANGED vars PROVE Rest'
    <3>1. UNCHANGED <<pipeline, rows, pc, cur, loaded, resuming, outs, got, result>>
      BY <2>1 DEF vars, db, loop
    <3>2. LoadedRows' /\ Context'
      BY <2>1, <3>1, SameRows DEF IInv, LoadedRows, Context
    <3>3. InOrder' /\ Behind'
      BY <2>1, <3>1, SameRows DEF IInv, InOrder, Behind
    <3>4. InFlight' /\ GateSettled'
      BY <2>1, <3>1, Static, SameRows DEF IInv, InFlight, GateSettled, WhenRow, Settled
    <3>5. QED
      BY <3>2, <3>3, <3>4 DEF Rest
  <2>2. QED
    BY <2>1
<1>0. /\ UNCHANGED pipeline /\ pipeline \in Pipelines /\ Ids' = Ids /\ Keys' = Keys
      /\ \A i : /\ KeysOf(i)' = KeysOf(i) /\ IsStep(i)' = IsStep(i)
                /\ HasBranches(i)' = HasBranches(i)
  BY Static DEF Next, IInv, TypeOK
\* Moves past a unit.
<1>1. ASSUME NEW i \in Ids, SkipPersisted(i) PROVE Rest'
  <2>1. pc = "head" /\ cur = i /\ NextUnit
    BY <1>1 DEF SkipPersisted, AtHead
  <2>2. Settled(i)
    BY <1>1, KeyFacts DEF SkipPersisted, AlreadyDone, Settled, IInv, LoadedRows
  <2>3. UNCHANGED <<rows, loaded, resuming, outs>>
    BY <1>1 DEF SkipPersisted, db, loop
  <2>4. QED
    BY <1>0, <2>1, <2>2, <2>3, PastUnit
<1>2. ASSUME NEW i \in Ids, SkipWhen(i) PROVE Rest'
  <2>1. pc = "head" /\ cur = i /\ NextUnit
    BY <1>2 DEF SkipWhen, AtHead
  <2>2. Settled(i)
    BY <1>2, <2>1, WhenAgrees DEF SkipWhen, Settled, LivePCs
  <2>3. UNCHANGED <<rows, loaded, resuming, outs>>
    BY <1>2 DEF SkipWhen, db, loop
  <2>4. QED
    BY <1>0, <2>1, <2>2, <2>3, PastUnit
<1>3. CASE GateContinues
  <2>1. pc = "gate" /\ cur \in Ids /\ Settled(cur) /\ NextUnit
    BY <1>3 DEF GateContinues, Continues, IInv, Control, GateSettled
  <2>2. UNCHANGED <<rows, loaded, resuming, outs>>
    BY <1>3 DEF GateContinues, db, loop
  <2>3. QED
    BY <1>0, <2>1, <2>2, PastUnit
<1>4. CASE GatePasses
  <2>1. /\ pc = "gate" /\ cur \in Ids /\ Settled(cur)
        /\ UNCHANGED <<rows, loaded, resuming, outs>>
    BY <1>4 DEF GatePasses, IInv, Control, GateSettled, db, loop
  <2>2. CASE NextUnit
    BY <1>0, <2>1, <2>2, PastUnit
  <2>3. CASE pc' = "notify"
    BY <1>0, <2>1, <2>3, NotLive DEF LivePCs
  <2>4. QED
    BY <1>4, <2>2, <2>3 DEF GatePasses
\* Moves at a unit.
<1>5. ASSUME NEW i \in Ids, BeginStep(i) PROVE Rest'
  <2>1. /\ pc = "head" /\ pc' = "exec" /\ cur = i /\ IsStep(i)
        /\ UNCHANGED <<rows, loaded, resuming, outs, cur>>
    BY <1>5 DEF BeginStep, Dispatch, AtHead, IsStep, db, loop
  <2>2. WhenRow(i) /\ <<i, 0>> \notin Persisted
    BY <1>5, <2>1, AtHeadFacts DEF BeginStep, Dispatch
  <2>3. InFlight' /\ GateSettled'
    BY <1>0, <2>1, <2>2, SameRows, Static DEF InFlight, GateSettled, GroupPCs, WhenRow
  <2>4. QED
    BY <1>0, <2>1, <2>3, SameUnit DEF LivePCs
<1>6. ASSUME NEW i \in Ids, BeginHuman(i) PROVE Rest'
  <2>1. /\ pc = "head" /\ pc' = "asking" /\ cur = i /\ IsStep(i)
        /\ UNCHANGED <<rows, loaded, resuming, outs, cur>>
    BY <1>6 DEF BeginHuman, Dispatch, AtHead, IsStep, loop
  <2>2. WhenRow(i) /\ <<i, 0>> \notin Persisted
    BY <1>6, <2>1, AtHeadFacts DEF BeginHuman, Dispatch
  <2>3. InFlight' /\ GateSettled'
    BY <1>0, <2>1, <2>2, SameRows, Static DEF InFlight, GateSettled, GroupPCs, WhenRow
  <2>4. QED
    BY <1>0, <2>1, <2>3, SameUnit DEF LivePCs
<1>7. ASSUME NEW i \in Ids, RearmHuman(i) PROVE Rest'
  <2>1. /\ pc = "head" /\ pc' = "waiting" /\ cur = i /\ IsStep(i)
        /\ UNCHANGED <<rows, loaded, resuming, outs, cur>>
    BY <1>7 DEF RearmHuman, Rearms, Dispatch, AtHead, IsStep, db, loop
  <2>2. WhenRow(i) /\ <<i, 0>> \notin Persisted
    BY <1>7, <2>1, AtHeadFacts DEF RearmHuman, Dispatch
  <2>3. InFlight' /\ GateSettled'
    BY <1>0, <2>1, <2>2, SameRows, Static DEF InFlight, GateSettled, GroupPCs, WhenRow
  <2>4. QED
    BY <1>0, <2>1, <2>3, SameUnit DEF LivePCs
<1>8. ASSUME NEW i \in Ids, EscalateStep(i) PROVE Rest'
  <2>1. /\ pc = "head" /\ pc' = "save" /\ cur = i /\ IsStep(i)
        /\ UNCHANGED <<rows, loaded, resuming, outs, cur>>
    BY <1>8 DEF EscalateStep, Dispatch, AtHead, db, loop
  <2>2. WhenRow(i) /\ <<i, 0>> \notin Persisted
    BY <1>8, <2>1, AtHeadFacts DEF EscalateStep, Dispatch
  <2>3. InFlight' /\ GateSettled'
    BY <1>0, <2>1, <2>2, SameRows, Static DEF InFlight, GateSettled, GroupPCs, WhenRow
  <2>4. QED
    BY <1>0, <2>1, <2>3, SameUnit DEF LivePCs
<1>9. ASSUME NEW i \in Ids, ResolveFanOut(i) PROVE Rest'
  <2>1. /\ pc = "head" /\ pc' = "gate" /\ cur = i
        /\ UNCHANGED <<rows, loaded, resuming, outs, cur>>
    BY <1>9 DEF ResolveFanOut, Dispatch, AtHead, db, loop
  <2>2. ~IsStep(i) /\ ~HasBranches(i)
    BY <1>9 DEF ResolveFanOut, IsStep, HasBranches
  <2>3. InFlight'
    BY <2>1 DEF InFlight, StepPCs, GroupPCs
  <2>4. GateSettled'
    BY <1>0, <2>1, <2>2 DEF GateSettled, Settled
  <2>5. QED
    BY <1>0, <2>1, <2>3, <2>4, SameUnit DEF LivePCs
<1>10. ASSUME NEW i \in Ids, EscalateGroup(i) PROVE Rest'
  <2>1. /\ pc = "head" /\ pc' = "gate" /\ cur = i /\ ~IsStep(i)
        /\ result'.status = "escalated"
        /\ UNCHANGED <<rows, loaded, resuming, outs, cur>>
    BY <1>10 DEF EscalateGroup, HasBranches, Dispatch, AtHead, db, loop
  <2>2. InFlight'
    BY <2>1 DEF InFlight, StepPCs, GroupPCs
  <2>3. GateSettled'
    BY <1>0, <2>1 DEF GateSettled
  <2>4. QED
    BY <1>0, <2>1, <2>2, <2>3, SameUnit DEF LivePCs
<1>11. ASSUME NEW i \in Ids, BeginGroup(i) PROVE Rest'
  <2>1. /\ pc = "head" /\ pc' = "gather" /\ cur = i
        /\ UNCHANGED <<rows, loaded, resuming, outs, cur>>
    BY <1>11 DEF BeginGroup, Dispatch, AtHead, db, loop
  <2>2. WhenRow(i)
    BY <1>11, AtHeadFacts DEF BeginGroup, Dispatch
  <2>3. InFlight' /\ GateSettled'
    BY <1>0, <2>1, <2>2, SameRows, Static DEF InFlight, GateSettled, StepPCs, WhenRow
  <2>4. QED
    BY <1>0, <2>1, <2>3, SameUnit DEF LivePCs
<1>12. ASSUME NEW val \in Vals, FinishStep(val) PROVE Rest'
  <2>1. /\ pc = "exec" /\ pc' = "save"
        /\ UNCHANGED <<rows, loaded, resuming, outs, cur>>
    BY <1>12 DEF FinishStep, db, loop
  <2>2. WhenRow(cur) /\ <<cur, 0>> \notin Persisted
    BY <2>1 DEF IInv, InFlight, StepPCs
  <2>3. InFlight' /\ GateSettled'
    BY <1>0, <2>1, <2>2, SameRows, Static DEF InFlight, GateSettled, GroupPCs, WhenRow
  <2>4. QED
    BY <1>0, <2>1, <2>3, SameUnit DEF LivePCs
<1>13. ASSUME NEW val \in Vals, Decide(val) PROVE Rest'
  <2>1. /\ pc \in {"waiting", "asking"} /\ pc' = "save"
        /\ UNCHANGED <<rows, loaded, resuming, outs, cur>>
    BY <1>13 DEF Decide, loop
  <2>2. WhenRow(cur) /\ <<cur, 0>> \notin Persisted
    BY <2>1 DEF IInv, InFlight, StepPCs
  <2>3. InFlight' /\ GateSettled'
    BY <1>0, <2>1, <2>2, SameRows, Static DEF InFlight, GateSettled, GroupPCs, WhenRow
  <2>4. QED
    BY <1>0, <2>1, <2>3, SameUnit DEF LivePCs
<1>14. CASE SendRequest
  <2>1. /\ pc = "asking" /\ pc' = "waiting"
        /\ UNCHANGED <<rows, loaded, resuming, outs, cur>>
    BY <1>14 DEF SendRequest, db, loop
  <2>2. WhenRow(cur) /\ <<cur, 0>> \notin Persisted
    BY <2>1 DEF IInv, InFlight, StepPCs
  <2>3. InFlight' /\ GateSettled'
    BY <1>0, <2>1, <2>2, SameRows, Static DEF InFlight, GateSettled, GroupPCs, WhenRow
  <2>4. QED
    BY <1>0, <2>1, <2>3, SameUnit DEF LivePCs
<1>15. CASE GatherBranches
  <2>1. /\ pc = "gather" /\ pc' = "saveBranches"
        /\ UNCHANGED <<rows, loaded, resuming, outs, cur>>
    BY <1>15 DEF GatherBranches, db, loop
  <2>2. DOMAIN got' = Missing(cur)
    BY <1>15 DEF GatherBranches
  <2>3. Missing(cur) = KeysOf(cur) \ Persisted
    <3>1. ASSUME NEW k \in KeysOf(cur), k \in Persisted PROVE k \in loaded
      <4>1. k[1] = cur /\ cur \in Ids /\ Ids = 1..Len(Units)
        BY <2>1, KeyFacts, UnitType DEF IInv, TypeOK, Control, GroupPCs
      <4>2. ~(k[1] < cur)
        BY <4>1
      <4>3. QED
        BY <2>1, <3>1, <4>2 DEF IInv, LoadedRows, LivePCs
    <3>2. QED
      BY <3>1 DEF Missing, IInv, LoadedRows
  <2>4. WhenRow(cur)
    BY <2>1 DEF IInv, InFlight, GroupPCs
  <2>5. InFlight' /\ GateSettled'
    BY <1>0, <2>1, <2>2, <2>3, <2>4, SameRows, Static
       DEF InFlight, GateSettled, StepPCs, WhenRow, KeysOf, BranchIds, IsStep, Persisted
  <2>6. QED
    BY <1>0, <2>1, <2>5, SameUnit DEF LivePCs
<1>16. CASE GroupTimeout
  <2>1. /\ pc = "gather" /\ pc' = "gate" /\ result'.status = "failed"
        /\ UNCHANGED <<rows, loaded, resuming, outs, cur>>
    BY <1>16 DEF GroupTimeout, db, loop
  <2>2. ~IsStep(cur)
    BY <1>16 DEF GroupTimeout, IsStep
  <2>3. InFlight'
    BY <2>1 DEF InFlight, StepPCs, GroupPCs
  <2>4. GateSettled'
    BY <1>0, <2>1, <2>2, Static DEF GateSettled, IsStep
  <2>5. QED
    BY <1>0, <2>1, <2>3, <2>4, SameUnit DEF LivePCs
\* Rows are written or read.
<1>17. ASSUME NEW k \in Keys, SaveBranch(k) PROVE Rest'
  BY <1>0, <1>17, SaveBranchRest
<1>18. CASE SaveStep
  BY <1>0, <1>18, SaveStepRest
<1>19. CASE JoinGroup
  BY <1>0, <1>19, JoinGroupRest
<1>20. CASE LoadRun
  BY <1>0, <1>20, LoadRunRest
\* The task is not in the loop, or leaves it.
<1>21. CASE \/ GateStops \/ Notify \/ EndOfSteps \/ CompleteRun \/ TaskRaises
            \/ SweepResumes \/ SweepInterrupts
  <2>1. UNCHANGED <<rows, loaded, resuming>> /\ pc' \notin LivePCs
    BY <1>21 DEF GateStops, Notify, EndOfSteps, CompleteRun, TaskRaises, SweepResumes,
                 SweepInterrupts, db, loop, LivePCs
  <2>2. QED
    BY <1>0, <2>1, NotLive
<1>22. CASE Crash \/ StopWhileWaiting
  <2>1. UNCHANGED rows /\ loaded' = {} /\ pc' \notin LivePCs
    BY <1>22 DEF Crash, StopWhileWaiting, ForgetMemory, db, LivePCs
  <2>2. QED
    BY <1>0, <2>1, NotLive
<1>23. QED
  BY <1>1, <1>2, <1>3, <1>4, <1>5, <1>6, <1>7, <1>8, <1>9, <1>10, <1>11, <1>12,
     <1>13, <1>14, <1>15, <1>16, <1>17, <1>18, <1>19, <1>20, <1>21, <1>22
     DEF Next, StepLoop, Recovery

LEMMA Initially == Init => IInv
<1> SUFFICES ASSUME Init PROVE IInv
  OBVIOUS
<1>0. /\ pipeline \in Pipelines /\ rows = [k \in Keys |-> NoRow]
      /\ pc = "head" /\ cur = 1 /\ loaded = {} /\ outs = [k \in Keys |-> "none"]
      /\ runStatus = "running" /\ Len(Units) \in Nat /\ Ids = 1..Len(Units)
  BY UnitType DEF Init
<1>1. TypeOK
  <2>1. result \in Result /\ final \in Statuses
    BY DEF Init, NoResult, Result, Statuses
  <2>2. pc \in PCs /\ cur \in 1..(Len(Units) + 1)
    BY <1>0 DEF PCs
  <2>3. rows \in [Keys -> Row \cup {NoRow}] /\ outs \in [Keys -> Vals \cup {"none"}]
    BY <1>0
  <2>4. execs \in [Keys -> Nat] /\ lost \in [Keys -> Nat]
    BY DEF Init
  <2>5. DOMAIN got \subseteq Keys /\ \A k \in DOMAIN got : got[k] \in Vals
    BY DEF Init
  <2>6. QED
    BY <1>0, <2>1, <2>2, <2>3, <2>4, <2>5 DEF Init, TypeOK
<1>2. Control
  BY <1>0 DEF Control, StepPCs, GroupPCs
<1>3. Persisted = {}
  BY <1>0 DEF Persisted
<1>4. LoadedRows /\ InOrder
  BY <1>0, <1>3 DEF LoadedRows, InOrder
<1>5. InFlight /\ GateSettled
  BY <1>0 DEF InFlight, GateSettled, StepPCs, GroupPCs
<1>6. Behind
  BY <1>0 DEF Behind
<1>7. Context
  BY <1>0 DEF Context, NoRow
<1>8. QED
  BY <1>1, <1>2, <1>4, <1>5, <1>6, <1>7 DEF IInv

LEMMA Invariance == Spec => []IInv
<1>1. IInv /\ [Next]_vars => IInv'
  BY TypeStep, ControlStep, RestStep DEF IInv, Rest
<1>2. QED
  BY <1>1, Initially, PTL DEF Spec

\* Every variable keeps its type, in every life of the process.
THEOREM TypeCorrect == Spec => []TypeOK
<1>1. IInv => TypeOK
  BY DEF IInv
<1>2. QED
  BY <1>1, Invariance, PTL

\* At the head of the loop the outputs in memory are those of the rows, also
\* after any number of resumes: prompts and when: conditions see no difference.
THEOREM ContextSurvives == Spec => []ContextMatchesRows
<1>1. IInv => ContextMatchesRows
  BY DEF IInv, Context, ContextMatchesRows, LivePCs
<1>2. QED
  BY <1>1, Invariance, PTL

(***************************************************************************)
(* What has a row is neither executed nor written again.                   *)
(***************************************************************************)
\* Only what has no row is started.
LEMMA StartsUnrecorded ==
  ASSUME IInv, Next
  PROVE  \/ UNCHANGED execs
         \/ \E S \in SUBSET Keys :
              /\ S \cap Persisted = {} /\ Begin(S) /\ UNCHANGED rows
              /\ pc \in {"head", "asking"} /\ pc' \in {"exec", "waiting", "gather"}
              /\ cur \in Ids /\ S \subseteq KeysOf(cur) /\ UNCHANGED <<cur, lost>>
              /\ pc' = "gather" => S = Missing(cur)
<1> DEFINE Goal == \E S \in SUBSET Keys :
              /\ S \cap Persisted = {} /\ Begin(S) /\ UNCHANGED rows
              /\ pc \in {"head", "asking"} /\ pc' \in {"exec", "waiting", "gather"}
              /\ cur \in Ids /\ S \subseteq KeysOf(cur) /\ UNCHANGED <<cur, lost>>
              /\ pc' = "gather" => S = Missing(cur)
<1>1. ASSUME NEW i \in Ids, BeginStep(i) PROVE Goal
  <2>1. /\ Begin(KeysOf(i)) /\ UNCHANGED <<rows, cur, lost>> /\ pc = "head"
        /\ pc' = "exec" /\ cur = i /\ KeysOf(i) = {<<i, 0>>} /\ KeysOf(i) \subseteq Keys
    BY <1>1, KeyFacts DEF BeginStep, Dispatch, AtHead, IsStep, db
  <2>2. KeysOf(i) \cap Persisted = {}
    BY <1>1, <2>1, AtHeadFacts DEF BeginStep, Dispatch, IsStep
  <2>3. QED
    BY <2>1, <2>2
<1>2. ASSUME NEW i \in Ids, BeginGroup(i) PROVE Goal
  <2>1. /\ Begin(Missing(i)) /\ UNCHANGED <<rows, cur, lost>> /\ pc = "head"
        /\ pc' = "gather" /\ cur = i /\ KeysOf(i) \subseteq Keys
    BY <1>2, KeyFacts DEF BeginGroup, Dispatch, AtHead, db
  <2>2. Missing(i) \cap Persisted = {} /\ Missing(i) \subseteq KeysOf(i)
    BY <1>2, AtHeadFacts DEF BeginGroup, Dispatch, Missing
  <2>3. QED
    BY <2>1, <2>2
<1>3. CASE SendRequest
  <2>1. /\ Begin(KeysOf(cur)) /\ UNCHANGED <<rows, cur, lost>> /\ pc = "asking"
        /\ pc' = "waiting"
    BY <1>3 DEF SendRequest, db
  <2>2. cur \in Ids /\ KeysOf(cur) \subseteq Keys /\ KeysOf(cur) \cap Persisted = {}
    BY <2>1, KeyFacts DEF IInv, Control, InFlight, StepPCs
  <2>3. Goal
    BY <2>1, <2>2
  <2>4. QED
    BY <2>3
<1>4. ASSUME NEW i \in Ids,
             \/ SkipPersisted(i) \/ SkipWhen(i) \/ BeginHuman(i) \/ RearmHuman(i)
             \/ EscalateStep(i) \/ ResolveFanOut(i) \/ EscalateGroup(i)
      PROVE  UNCHANGED execs
  BY <1>4 DEF SkipPersisted, SkipWhen, BeginHuman, RearmHuman, EscalateStep,
     ResolveFanOut, EscalateGroup, history
<1>5. ASSUME NEW val \in Vals, FinishStep(val) \/ Decide(val) PROVE UNCHANGED execs
  BY <1>5 DEF FinishStep, Decide, history
<1>6. ASSUME NEW k \in Keys, SaveBranch(k) PROVE UNCHANGED execs
  BY <1>6 DEF SaveBranch
<1>7. CASE \/ SaveStep \/ GatherBranches \/ GroupTimeout \/ JoinGroup \/ GateStops
           \/ GateContinues \/ GatePasses \/ Notify \/ EndOfSteps \/ CompleteRun
           \/ LoadRun \/ Recovery \/ TaskRaises \/ Crash \/ StopWhileWaiting
  <2>1. UNCHANGED execs
    BY <1>7 DEF SaveStep, GatherBranches, GroupTimeout, JoinGroup, GateStops,
       GateContinues, GatePasses, Notify, EndOfSteps, CompleteRun, LoadRun, Recovery,
       SweepResumes, SweepInterrupts, TaskRaises, Crash, StopWhileWaiting,
       ForgetMemory, history
  <2>2. QED
    BY <2>1
<1>8. QED
  BY <1>1, <1>2, <1>3, <1>4, <1>5, <1>6, <1>7 DEF Next, StepLoop

\* Only the row of what is in flight is written, and only once.
LEMMA WritesUnrecorded ==
  ASSUME IInv, Next
  PROVE  \/ UNCHANGED rows
         \/ \E k \in KeysOf(cur) :
              /\ k \in Keys \ Persisted /\ pc \in {"save", "saveBranches"}
              /\ \E r \in Row : rows' = [rows EXCEPT ![k] = r]
              /\ UNCHANGED <<runStatus, execs, lost>>
              /\ unrecorded' = unrecorded \ {k}
<1> DEFINE Goal == \E k \in KeysOf(cur) :
              /\ k \in Keys \ Persisted /\ pc \in {"save", "saveBranches"}
              /\ \E r \in Row : rows' = [rows EXCEPT ![k] = r]
              /\ UNCHANGED <<runStatus, execs, lost>>
              /\ unrecorded' = unrecorded \ {k}
<1>0. TypeOK' /\ Keys' = Keys
  BY TypeStep, Static DEF IInv, Next
<1>1. CASE SaveStep
  <2> DEFINE k == <<cur, 0>>
  <2>1. /\ pc = "save" /\ k \in KeysOf(cur) /\ k \in Keys \ Persisted
    BY <1>1, KeyFacts DEF SaveStep, IInv, Control, InFlight, StepPCs
  <2>2. \E r \in Row : rows' = [rows EXCEPT ![k] = r]
    <3> DEFINE r == [status |-> result.status, val |-> got[k], tok |-> result.tok]
    <3>1. rows' = [rows EXCEPT ![k] = r]
      BY <1>1 DEF SaveStep
    <3>2. result.status \in Statuses /\ got[k] \in Vals /\ result.tok \in Nat
      BY <2>1 DEF IInv, TypeOK, Control, Result
    <3>3. r \in Row
      BY <3>2 DEF Row
    <3>4. QED
      BY <3>1, <3>3
  <2>3. UNCHANGED <<runStatus, execs, lost>> /\ unrecorded' = unrecorded \ {k}
    BY <1>1 DEF SaveStep
  <2> HIDE DEF k
  <2>4. Goal
    BY <2>1, <2>2, <2>3
  <2>5. QED
    BY <2>4
<1>2. ASSUME NEW k \in Keys, SaveBranch(k) PROVE Goal
  <2>1. /\ pc = "saveBranches" /\ k \in KeysOf(cur) /\ k \in Keys \ Persisted
    BY <1>2, KeyFacts DEF SaveBranch, IInv, InFlight
  <2>2. \E r \in Row : rows' = [rows EXCEPT ![k] = r]
    <3> DEFINE r == [status |-> IF got[k] = "error" THEN "failed" ELSE "completed",
                     val |-> got[k],
                     tok |-> IF got[k] = "error" THEN 0
                             ELSE Units[cur].tok + Units[cur].vtok]
    <3>1. rows' = [rows EXCEPT ![k] = r]
      BY <1>2 DEF SaveBranch
    <3> HIDE DEF r
    <3>2. rows \in [Keys -> Row \cup {NoRow}] /\ rows' \in [Keys -> Row \cup {NoRow}]
      BY <1>0 DEF IInv, TypeOK
    <3>3. r \in Row \cup {NoRow}
      BY <3>1, <3>2
    <3>4. r # NoRow
      BY DEF r, NoRow
    <3>5. QED
      BY <3>1, <3>3, <3>4
  <2>3. UNCHANGED <<runStatus, execs, lost>> /\ unrecorded' = unrecorded \ {k}
    BY <1>2 DEF SaveBranch
  <2>4. QED
    BY <2>1, <2>2, <2>3
<1>3. ASSUME NEW i \in Ids,
             \/ SkipPersisted(i) \/ SkipWhen(i) \/ BeginStep(i) \/ BeginHuman(i)
             \/ RearmHuman(i) \/ EscalateStep(i) \/ ResolveFanOut(i)
             \/ EscalateGroup(i) \/ BeginGroup(i)
      PROVE  UNCHANGED rows
  BY <1>3 DEF SkipPersisted, SkipWhen, BeginStep, BeginHuman, RearmHuman,
     EscalateStep, ResolveFanOut, EscalateGroup, BeginGroup, db
<1>4. ASSUME NEW val \in Vals, FinishStep(val) \/ Decide(val) PROVE UNCHANGED rows
  BY <1>4 DEF FinishStep, Decide, db
<1>5. CASE \/ SendRequest \/ GatherBranches \/ GroupTimeout \/ JoinGroup \/ GateStops
           \/ GateContinues \/ GatePasses \/ Notify \/ EndOfSteps \/ CompleteRun
           \/ LoadRun \/ Recovery \/ TaskRaises \/ Crash \/ StopWhileWaiting
  <2>1. UNCHANGED rows
    BY <1>5 DEF SendRequest, GatherBranches, GroupTimeout, JoinGroup, GateStops,
       GateContinues, GatePasses, Notify, EndOfSteps, CompleteRun, LoadRun, Recovery,
       SweepResumes, SweepInterrupts, TaskRaises, Crash, StopWhileWaiting, db
  <2>2. QED
    BY <2>1
<1>6. QED
  BY <1>1, <1>2, <1>3, <1>4, <1>5 DEF Next, StepLoop

\* The code's promise to side-effecting steps: once its row is committed, a step
\* or branch is never executed again and its row never changes.
THEOREM NeverRepeated == Spec => RecordedNeverRepeated
<1> DEFINE Kept == \A k \in Persisted : rows'[k] = rows[k] /\ execs'[k] = execs[k]
<1>1. IInv /\ Next => Kept
  <2> SUFFICES ASSUME IInv, Next PROVE Kept
    OBVIOUS
  <2>1. \A k \in Persisted : rows'[k] = rows[k]
    <3>1. rows \in [Keys -> Row \cup {NoRow}] /\ Persisted \subseteq Keys
      BY DEF IInv, TypeOK, Persisted
    <3>2. ASSUME NEW j \in Keys \ Persisted, NEW r \in Row,
                 rows' = [rows EXCEPT ![j] = r]
          PROVE  \A k \in Persisted : rows'[k] = rows[k]
      BY <3>1, <3>2
    <3>3. QED
      BY <3>2, WritesUnrecorded
  <2>2. \A k \in Persisted : execs'[k] = execs[k]
    <3>1. execs \in [Keys -> Nat] /\ Persisted \subseteq Keys /\ Keys' = Keys
      BY Static DEF IInv, TypeOK, Persisted, Next
    <3>2. ASSUME NEW S \in SUBSET Keys, S \cap Persisted = {}, Begin(S)
          PROVE  \A k \in Persisted : execs'[k] = execs[k]
      BY <3>1, <3>2 DEF Begin
    <3>3. QED
      BY <3>2, StartsUnrecorded
  <2>3. QED
    BY <2>1, <2>2
<1>2. UNCHANGED vars => Kept
  BY DEF vars, db, history
<1> HIDE DEF Kept
<1>3. IInv /\ [Next]_vars => [Kept]_vars
  BY <1>1
<1>4. [Kept]_vars =>
        [\A k \in Persisted : rows'[k] = rows[k] /\ execs'[k] = execs[k]]_vars
  BY DEF Kept
<1>5. QED
  BY <1>3, <1>4, Invariance, PTL DEF Spec, RecordedNeverRepeated

(***************************************************************************)
(* The run implements the ledger.                                          *)
(***************************************************************************)
LEMMA LedgerStart == Init => Ledger!LedgerInit
<1> SUFFICES ASSUME Init PROVE Ledger!LedgerInit
  OBVIOUS
<1>1. runStatus = "running" /\ rows = [k \in Keys |-> NoRow]
  BY DEF Init
<1>2. QED
  BY <1>1 DEF Ledger!LedgerInit, Ledger!Recorded

\* The status changes only when the run is closed.
LEMMA ClosesOnce ==
  ASSUME IInv, Next, ~UNCHANGED runStatus
  PROVE  /\ runStatus = "running" /\ UNCHANGED rows
         /\ runStatus' \in Statuses \cup {"interrupted"}
<1>1. CASE CompleteRun
  BY <1>1 DEF CompleteRun, IInv, Control, TypeOK
<1>2. CASE SweepInterrupts
  BY <1>2 DEF SweepInterrupts, IInv, Control
<1>3. ASSUME NEW i \in Ids,
             \/ SkipPersisted(i) \/ SkipWhen(i) \/ BeginStep(i) \/ BeginHuman(i)
             \/ RearmHuman(i) \/ EscalateStep(i) \/ ResolveFanOut(i)
             \/ EscalateGroup(i) \/ BeginGroup(i)
      PROVE  UNCHANGED runStatus
  BY <1>3 DEF SkipPersisted, SkipWhen, BeginStep, BeginHuman, RearmHuman,
     EscalateStep, ResolveFanOut, EscalateGroup, BeginGroup, db
<1>4. ASSUME NEW val \in Vals, FinishStep(val) \/ Decide(val) PROVE UNCHANGED runStatus
  BY <1>4 DEF FinishStep, Decide, db
<1>5. ASSUME NEW k \in Keys, SaveBranch(k) PROVE UNCHANGED runStatus
  BY <1>5 DEF SaveBranch
<1>6. CASE \/ SendRequest \/ SaveStep \/ GatherBranches \/ GroupTimeout \/ JoinGroup
           \/ GateStops \/ GateContinues \/ GatePasses \/ Notify \/ EndOfSteps
           \/ LoadRun \/ SweepResumes \/ TaskRaises \/ Crash \/ StopWhileWaiting
  <2>1. UNCHANGED runStatus
    BY <1>6 DEF SendRequest, SaveStep, GatherBranches, GroupTimeout, JoinGroup,
       GateStops, GateContinues, GatePasses, Notify, EndOfSteps, LoadRun,
       SweepResumes, TaskRaises, Crash, StopWhileWaiting, db
  <2>2. QED
    BY <2>1
<1>7. QED
  BY <1>1, <1>2, <1>3, <1>4, <1>5, <1>6 DEF Next, StepLoop, Recovery

LEMMA LedgerStep ==
  IInv /\ [Next]_vars => [Ledger!LedgerNext]_<<runStatus, rows>>
<1> SUFFICES ASSUME IInv, Next PROVE [Ledger!LedgerNext]_<<runStatus, rows>>
  BY DEF vars, db
<1>0. /\ DOMAIN rows = Keys /\ rows \in [Keys -> Row \cup {NoRow}]
      /\ pipeline \in Pipelines /\ UNCHANGED pipeline
  BY DEF IInv, TypeOK, Next
<1>1. CASE ~UNCHANGED runStatus
  <2>1. Ledger!Close(runStatus')
    BY <1>1, ClosesOnce DEF Ledger!Close
  <2>2. runStatus' \in Statuses \cup {"interrupted"}
    BY <1>1, ClosesOnce
  <2>3. QED
    BY <2>1, <2>2 DEF Ledger!LedgerNext
<1>2. CASE ~UNCHANGED rows
  <2>1. PICK k \in KeysOf(cur) :
          /\ k \in Keys \ Persisted /\ pc \in {"save", "saveBranches"}
          /\ \E r \in Row : rows' = [rows EXCEPT ![k] = r]
          /\ UNCHANGED runStatus
    BY <1>2, WritesUnrecorded
  <2>2. PICK r \in Row : rows' = [rows EXCEPT ![k] = r]
    BY <2>1
  <2>3. rows'[k] = r
    BY <1>0, <2>1, <2>2
  <2>4. runStatus = "running" /\ ~Ledger!Recorded(k)
    BY <2>1 DEF IInv, Control, Ledger!Recorded, Persisted
  <2>5. ASSUME NEW j \in Keys, k[1] < j[1] PROVE ~Ledger!Recorded(j)
    <3>1. \A m \in Persisted : m[1] <= cur
      BY <1>0, <2>1, <2>2, RecordRow
    <3>2. k[1] = cur /\ j[1] \in Ids /\ cur \in Ids /\ Ids = 1..Len(Units)
      BY <1>0, <2>1, KeyFacts, UnitType
    <3>3. j \notin Persisted
      BY <2>5, <3>1, <3>2
    <3>4. QED
      BY <3>3 DEF Ledger!Recorded, Persisted
  <2>6. Ledger!Record(k)
    BY <1>0, <2>1, <2>2, <2>3, <2>4, <2>5 DEF Ledger!Record
  <2>7. QED
    BY <1>0, <2>1, <2>6 DEF Ledger!LedgerNext
<1>3. QED
  BY <1>1, <1>2

\* Across crashes and resumes the rows are an append-only ledger, written in the
\* order of the units while the run is running, and closed once.
THEOREM Implements == Spec => ImplementsLedger
<1>1. IInv /\ [Next]_vars => [Ledger!LedgerNext]_<<runStatus, rows>>
  BY LedgerStep
<1>2. QED
  BY <1>1, Invariance, LedgerStart, PTL DEF Spec, ImplementsLedger, Ledger!Spec

(***************************************************************************)
(* Work is repeated only when a process death caught it in flight.  The    *)
(* invariant bounds the executions of a key by its losses, plus one while  *)
(* it is in flight or recorded.                                            *)
(***************************************************************************)
\* What is started and unrecorded belongs to the unit the loop is at.
Pending ==
  /\ pc \in {"head", "asking", "down", "load"} => unrecorded = {}
  /\ pc \in StepPCs => unrecorded \subseteq KeysOf(cur)
  /\ pc = "gather" => unrecorded \subseteq Missing(cur)
  /\ pc = "saveBranches" => unrecorded \subseteq DOMAIN got
  /\ pc = "gate" /\ (IsStep(cur) \/ result.status = "completed") => unrecorded = {}

Counts ==
  \A k \in Keys :
    execs[k] <= lost[k] + (IF k \in unrecorded \cup Persisted THEN 1 ELSE 0)

LEMMA PendingStep == IInv /\ Pending /\ [Next]_vars => Pending'
<1> SUFFICES ASSUME IInv, Pending, Next PROVE Pending'
  <2>1. UNCHANGED vars /\ Pending => Pending'
    BY Static DEF vars, db, loop, history, Pending, Missing, KeysOf, BranchIds, IsStep
  <2>2. QED
    BY <2>1
<1>0. /\ UNCHANGED pipeline
      /\ \A i : KeysOf(i)' = KeysOf(i) /\ IsStep(i)' = IsStep(i)
  BY Static DEF Next
<1> USE DEF Pending, StepPCs
<1>1. ASSUME NEW i \in Ids, SkipPersisted(i) \/ SkipWhen(i) PROVE Pending'
  BY <1>1 DEF SkipPersisted, SkipWhen, AtHead, NextUnit, history
<1>2. ASSUME NEW i \in Ids, BeginStep(i) PROVE Pending'
  BY <1>0, <1>2 DEF BeginStep, Dispatch, AtHead, Begin
<1>3. ASSUME NEW i \in Ids, BeginHuman(i) PROVE Pending'
  BY <1>3 DEF BeginHuman, Dispatch, AtHead, history
<1>4. ASSUME NEW i \in Ids, RearmHuman(i) PROVE Pending'
  BY <1>0, <1>4 DEF RearmHuman, Dispatch, AtHead
<1>5. ASSUME NEW i \in Ids, EscalateStep(i) \/ ResolveFanOut(i) \/ EscalateGroup(i)
      PROVE  Pending'
  <2>1. pc = "head" /\ pc' \in {"save", "gate"} /\ unrecorded' = unrecorded
    BY <1>5 DEF EscalateStep, ResolveFanOut, EscalateGroup, Dispatch, AtHead, history
  <2>2. QED
    BY <2>1
<1>6. ASSUME NEW i \in Ids, BeginGroup(i) PROVE Pending'
  <2>1. /\ pc = "head" /\ pc' = "gather" /\ unrecorded' = unrecorded \cup Missing(i)
        /\ cur = i /\ UNCHANGED <<cur, loaded>>
    BY <1>6 DEF BeginGroup, Dispatch, AtHead, Begin, loop
  <2>2. Missing(cur)' = Missing(cur)
    BY <1>0, <2>1 DEF Missing
  <2>3. QED
    BY <2>1, <2>2
<1>7. ASSUME NEW val \in Vals, FinishStep(val) PROVE Pending'
  BY <1>0, <1>7 DEF FinishStep, history
<1>8. ASSUME NEW val \in Vals, Decide(val) PROVE Pending'
  BY <1>0, <1>8 DEF Decide, history
<1>9. ASSUME NEW k \in Keys, SaveBranch(k) PROVE Pending'
  BY <1>9 DEF SaveBranch
<1>10. CASE SendRequest
  BY <1>0, <1>10 DEF SendRequest, Begin
<1>11. CASE SaveStep
  <2>1. unrecorded \subseteq {<<cur, 0>>}
    BY <1>11, KeyFacts DEF SaveStep, IInv, Control
  <2>2. unrecorded' = {} /\ pc' = "gate"
    BY <1>11, <2>1 DEF SaveStep
  <2>3. QED
    BY <2>2
<1>12. CASE GatherBranches
  BY <1>12 DEF GatherBranches, history
<1>13. CASE GroupTimeout
  <2>1. pc' = "gate" /\ result'.status = "failed" /\ UNCHANGED cur
    BY <1>13 DEF GroupTimeout
  <2>2. ~IsStep(cur)
    BY <1>13 DEF GroupTimeout, IsStep
  <2>3. ~IsStep(cur)'
    BY <1>0, <2>1, <2>2 DEF IsStep
  <2>4. QED
    BY <2>1, <2>3
<1>14. CASE JoinGroup
  BY <1>14 DEF JoinGroup, history
<1>15. CASE GateContinues
  BY <1>15 DEF GateContinues, Continues, NextUnit
<1>16. CASE GatePasses
  BY <1>16 DEF GatePasses, NextUnit, history
<1>17. CASE \/ GateStops \/ Notify \/ EndOfSteps \/ CompleteRun \/ TaskRaises
            \/ SweepInterrupts
  <2>1. pc' \in {"notify", "finish", "ended", "dead"}
    BY <1>17 DEF GateStops, Notify, EndOfSteps, CompleteRun, TaskRaises, SweepInterrupts
  <2>2. QED
    BY <2>1
<1>18. CASE LoadRun
  BY <1>18 DEF LoadRun, history
<1>19. CASE SweepResumes
  BY <1>19 DEF SweepResumes, history
<1>20. CASE Crash \/ StopWhileWaiting
  BY <1>20 DEF Crash, StopWhileWaiting, ForgetMemory
<1>21. QED
  BY <1>1, <1>2, <1>3, <1>4, <1>5, <1>6, <1>7, <1>8, <1>9, <1>10, <1>11, <1>12,
     <1>13, <1>14, <1>15, <1>16, <1>17, <1>18, <1>19, <1>20 DEF Next, StepLoop, Recovery

\* A key that is in flight or recorded stays so, unless its loss is counted.
LEMMA AllowanceKept ==
  ASSUME IInv, Next, NEW k \in Keys
  PROVE  \/ /\ lost'[k] = lost[k]
            /\ k \in unrecorded \cup Persisted => k \in unrecorded' \cup Persisted'
         \/ lost'[k] = lost[k] + 1
<1> DEFINE Goal == \/ /\ lost'[k] = lost[k]
                      /\ k \in unrecorded \cup Persisted
                           => k \in unrecorded' \cup Persisted'
                   \/ lost'[k] = lost[k] + 1
<1>1. CASE ~UNCHANGED rows
  <2>1. PICK j \in KeysOf(cur) :
          /\ j \in Keys \ Persisted /\ pc \in {"save", "saveBranches"}
          /\ \E r \in Row : rows' = [rows EXCEPT ![j] = r]
          /\ UNCHANGED lost /\ unrecorded' = unrecorded \ {j}
    BY <1>1, WritesUnrecorded
  <2>2. PICK r \in Row : rows' = [rows EXCEPT ![j] = r]
    BY <2>1
  <2>3. UNCHANGED pipeline /\ j \notin Persisted
    BY <2>1 DEF Next
  <2>4. Persisted' = Persisted \cup {j}
    BY <2>1, <2>2, <2>3, RecordRow
  <2>5. Goal
    BY <2>1, <2>4
  <2>6. QED
    BY <2>5
<1>2. CASE UNCHANGED rows
  <2>0. Persisted' = Persisted
    BY <1>2, SameRows DEF Next
  <2>1. CASE Crash \/ StopWhileWaiting
    <3>1. lost' = [j \in Keys |-> IF j \in unrecorded THEN lost[j] + 1 ELSE lost[j]]
      BY <2>1 DEF Crash, StopWhileWaiting, ForgetMemory, RecordLoss
    <3>2. QED
      BY <2>0, <3>1
  <2>2. CASE SaveStep \/ \E j \in Keys : SaveBranch(j)
    <3>1. rows \in [Keys -> Row \cup {NoRow}]
      BY DEF IInv, TypeOK
    <3>2. lost' = lost /\ \E j \in Keys : unrecorded' = unrecorded \ {j} /\ rows'[j] # NoRow
      <4>1. CASE SaveStep
        <5>1. <<cur, 0>> \in Keys
          BY <4>1, KeyFacts DEF SaveStep, IInv, Control, StepPCs
        <5>2. rows'[<<cur, 0>>] # NoRow
          BY <3>1, <4>1, <5>1 DEF SaveStep, NoRow, IInv, Control, Statuses
        <5>3. QED
          BY <4>1, <5>1, <5>2 DEF SaveStep
      <4>2. ASSUME NEW j \in Keys, SaveBranch(j)
            PROVE  lost' = lost /\ unrecorded' = unrecorded \ {j} /\ rows'[j] # NoRow
        BY <3>1, <4>2 DEF SaveBranch, NoRow
      <4>3. QED
        BY <2>2, <4>1, <4>2
    <3>3. PICK j \in Keys : unrecorded' = unrecorded \ {j} /\ rows'[j] # NoRow
      BY <3>2
    <3>4. j \in Persisted
      BY <1>2, <3>3 DEF Persisted
    <3>5. QED
      BY <2>0, <3>2, <3>3, <3>4
  <2>3. ASSUME NEW i \in Ids,
               \/ SkipPersisted(i) \/ SkipWhen(i) \/ BeginStep(i) \/ BeginHuman(i)
               \/ RearmHuman(i) \/ EscalateStep(i) \/ ResolveFanOut(i)
               \/ EscalateGroup(i) \/ BeginGroup(i)
        PROVE  lost' = lost /\ unrecorded \subseteq unrecorded'
    BY <2>3 DEF SkipPersisted, SkipWhen, BeginStep, BeginHuman, RearmHuman,
       EscalateStep, ResolveFanOut, EscalateGroup, BeginGroup, Begin, history
  <2>4. ASSUME NEW val \in Vals, FinishStep(val) \/ Decide(val)
        PROVE  lost' = lost /\ unrecorded \subseteq unrecorded'
    BY <2>4 DEF FinishStep, Decide, history
  <2>5. CASE \/ SendRequest \/ GatherBranches \/ GroupTimeout \/ JoinGroup \/ GateStops
             \/ GateContinues \/ GatePasses \/ Notify \/ EndOfSteps \/ CompleteRun
             \/ LoadRun \/ Recovery \/ TaskRaises
    <3>1. lost' = lost /\ unrecorded \subseteq unrecorded'
      BY <2>5 DEF SendRequest, GatherBranches, GroupTimeout, JoinGroup, GateStops,
         GateContinues, GatePasses, Notify, EndOfSteps, CompleteRun, LoadRun, Recovery,
         SweepResumes, SweepInterrupts, TaskRaises, Begin, history
    <3>2. QED
      BY <2>0, <3>1
  <2>6. QED
    BY <2>0, <2>1, <2>2, <2>3, <2>4, <2>5 DEF Next, StepLoop
<1>3. QED
  BY <1>1, <1>2

LEMMA CountsStep == IInv /\ Pending /\ Counts /\ [Next]_vars => Counts'
<1> SUFFICES ASSUME IInv, Pending, Counts, Next PROVE Counts'
  <2>1. UNCHANGED vars /\ Counts => Counts'
    BY SameRows DEF vars, db, loop, history, Counts
  <2>2. QED
    BY <2>1
<1>0. /\ Keys' = Keys /\ execs \in [Keys -> Nat] /\ lost \in [Keys -> Nat]
      /\ UNCHANGED pipeline
  BY Static DEF IInv, TypeOK, Next
<1>1. CASE UNCHANGED execs
  <2> SUFFICES ASSUME NEW k \in Keys
               PROVE  execs[k] <= lost'[k]
                        + (IF k \in unrecorded' \cup Persisted' THEN 1 ELSE 0)
    BY <1>0, <1>1 DEF Counts
  <2>1. execs[k] <= lost[k] + (IF k \in unrecorded \cup Persisted THEN 1 ELSE 0)
    BY DEF Counts
  <2>2. execs[k] \in Nat /\ lost[k] \in Nat
    BY <1>0
  <2>3. QED
    BY <2>1, <2>2, AllowanceKept
<1>2. ASSUME NEW S \in SUBSET Keys, S \cap Persisted = {}, Begin(S), UNCHANGED rows,
             pc \in {"head", "asking"}, UNCHANGED lost
      PROVE  Counts'
  <2>1. unrecorded = {} /\ unrecorded' = S /\ Persisted' = Persisted
    BY <1>0, <1>2, SameRows DEF Pending, Begin
  <2> SUFFICES ASSUME NEW k \in Keys
               PROVE  execs'[k] <= lost[k] + (IF k \in S \cup Persisted THEN 1 ELSE 0)
    BY <1>0, <1>2, <2>1 DEF Counts
  <2>2. execs[k] <= lost[k] + (IF k \in Persisted THEN 1 ELSE 0)
    BY <2>1 DEF Counts
  <2>3. execs'[k] = IF k \in S THEN execs[k] + 1 ELSE execs[k]
    BY <1>2 DEF Begin
  <2>4. execs[k] \in Nat /\ lost[k] \in Nat
    BY <1>0
  <2>5. QED
    BY <1>2, <2>2, <2>3, <2>4
<1>3. QED
  BY <1>1, <1>2, StartsUnrecorded

\* A step or branch is executed once, plus at most once for every process death
\* that caught it started and without its row.
THEOREM RepeatsOnlyUnrecorded == Spec => []OnlyUnrecordedRepeats
<1>1. Init => Pending /\ Counts
  <2> SUFFICES ASSUME Init PROVE Pending /\ Counts
    OBVIOUS
  <2>1. unrecorded = {} /\ \A k \in Keys : execs[k] = 0 /\ lost[k] = 0
    BY DEF Init
  <2>2. pc = "head"
    BY DEF Init
  <2>3. QED
    BY <2>1, <2>2 DEF Pending, Counts, StepPCs
<1>2. IInv /\ Pending /\ Counts /\ [Next]_vars => (Pending /\ Counts)'
  BY PendingStep, CountsStep
<1>3. IInv /\ Counts => OnlyUnrecordedRepeats
  <2> SUFFICES ASSUME IInv, Counts, NEW k \in Keys PROVE execs[k] <= 1 + lost[k]
    BY DEF OnlyUnrecordedRepeats
  <2>1. execs[k] \in Nat /\ lost[k] \in Nat
    BY DEF IInv, TypeOK
  <2>2. execs[k] <= lost[k] + (IF k \in unrecorded \cup Persisted THEN 1 ELSE 0)
    BY DEF Counts
  <2>3. QED
    BY <2>1, <2>2
<1>4. QED
  BY <1>1, <1>2, <1>3, Invariance, PTL DEF Spec

(***************************************************************************)
(* What was decided about a unit stands: the rows before it, which its     *)
(* when: is judged by, are all written when the loop reaches it, and are   *)
(* never written again.                                                    *)
(***************************************************************************)
Decided(i) == \A j \in Ids : j < i => Settled(j)

Judged ==
  /\ \A i \in skipped : Decided(i) /\ ~WhenRow(i)
  /\ \A k \in Keys : execs[k] > 0 => Decided(k[1]) /\ WhenRow(k[1])

\* A unit whose row is about to be written still has something to execute.
LEMMA InFlightUnsettled ==
  ASSUME IInv, pc \in StepPCs \cup {"saveBranches"}, NEW k \in KeysOf(cur), k \notin Persisted
  PROVE  cur \in Ids /\ ~Settled(cur)
BY DEF IInv, Control, InFlight, Settled, StepPCs, GroupPCs

LEMMA JudgementStands ==
  ASSUME IInv, Next, NEW i \in Ids, Decided(i)
  PROVE  Decided(i)' /\ WhenRow(i)' = WhenRow(i)
<1>0. UNCHANGED pipeline /\ Ids' = Ids
  BY Static DEF Next
<1>1. CASE UNCHANGED rows
  BY <1>0, <1>1, SameRows DEF Decided
<1>2. CASE ~UNCHANGED rows
  <2>1. PICK k \in KeysOf(cur) :
          /\ k \in Keys \ Persisted /\ pc \in {"save", "saveBranches"}
          /\ \E r \in Row : rows' = [rows EXCEPT ![k] = r]
    BY <1>2, WritesUnrecorded
  <2>2. PICK r \in Row : rows' = [rows EXCEPT ![k] = r]
    BY <2>1
  <2>3. cur \in Ids /\ ~Settled(cur)
    BY <2>1, InFlightUnsettled DEF StepPCs
  <2>4. Ids = 1..Len(Units) /\ Len(Units) \in Nat
    BY UnitType DEF IInv, TypeOK
  <2>5. i <= cur
    BY <2>3, <2>4 DEF Decided
  <2>6. /\ \A j \in Ids : j <= cur => WhenRow(j)' = WhenRow(j)
        /\ \A j \in Ids : j <= cur /\ Settled(j) => Settled(j)'
    BY <1>0, <2>1, <2>2, RecordRow
  <2>7. ASSUME NEW j \in Ids, j < i PROVE Settled(j)'
    BY <2>3, <2>4, <2>5, <2>6, <2>7 DEF Decided
  <2> QED
    BY <1>0, <2>5, <2>6, <2>7 DEF Decided
<1> QED
  BY <1>1, <1>2

\* A unit is passed over only as its when: says by the rows.
LEMMA SkipsAreJudged ==
  ASSUME IInv, Next, NEW i \in skipped', i \notin skipped
  PROVE  i \in Ids /\ Decided(i) /\ ~WhenRow(i)
<1>1. SkipWhen(i) /\ i \in Ids
  <2>1. ASSUME NEW j \in Ids, SkipWhen(j) PROVE i = j
    BY <2>1 DEF SkipWhen
  <2>2. CASE Crash \/ StopWhileWaiting
    BY <2>2 DEF Crash, StopWhileWaiting, ForgetMemory
  <2>3. ASSUME NEW val \in Vals, FinishStep(val) \/ Decide(val) PROVE FALSE
    BY <2>3 DEF FinishStep, Decide, history
  <2>4. ASSUME NEW j \in Ids,
               \/ SkipPersisted(j) \/ BeginStep(j) \/ BeginHuman(j) \/ RearmHuman(j)
               \/ EscalateStep(j) \/ ResolveFanOut(j) \/ EscalateGroup(j) \/ BeginGroup(j)
        PROVE  FALSE
    BY <2>4 DEF SkipPersisted, BeginStep, BeginHuman, RearmHuman, EscalateStep,
       ResolveFanOut, EscalateGroup, BeginGroup, history
  <2>5. ASSUME NEW k \in Keys, SaveBranch(k) PROVE FALSE
    BY <2>5 DEF SaveBranch
  <2>6. CASE \/ SendRequest \/ SaveStep \/ GatherBranches \/ GroupTimeout \/ JoinGroup
             \/ GateStops \/ GateContinues \/ GatePasses \/ Notify \/ EndOfSteps
             \/ CompleteRun \/ LoadRun \/ Recovery \/ TaskRaises
    BY <2>6 DEF SendRequest, SaveStep, GatherBranches, GroupTimeout, JoinGroup, GateStops,
       GateContinues, GatePasses, Notify, EndOfSteps, CompleteRun, LoadRun, Recovery,
       SweepResumes, SweepInterrupts, TaskRaises, history
  <2> QED
    BY <2>1, <2>2, <2>3, <2>4, <2>5, <2>6 DEF Next, StepLoop
<1>2. pc = "head" /\ cur = i /\ ~WhenHolds(i)
  BY <1>1 DEF SkipWhen, AtHead
<1>3. ~WhenRow(i)
  BY <1>1, <1>2, WhenAgrees DEF LivePCs
<1>4. Decided(i)
  BY <1>2 DEF IInv, Behind, Decided, LivePCs
<1> QED
  BY <1>1, <1>3, <1>4

\* A unit is started only where the loop stands, and only if its when: holds.
LEMMA StartsAreJudged ==
  ASSUME IInv, Next, NEW k \in Keys, execs'[k] # execs[k]
  PROVE  Decided(k[1]) /\ WhenRow(k[1])
<1>1. PICK S \in SUBSET Keys :
        /\ Begin(S) /\ UNCHANGED rows
        /\ pc \in {"head", "asking"} /\ pc' \in {"exec", "waiting", "gather"}
        /\ S \subseteq KeysOf(cur) /\ UNCHANGED cur
  BY StartsUnrecorded
<1>2. k \in KeysOf(cur)
  BY <1>1 DEF Begin
<1>3. k[1] = cur
  BY <1>2, KeyFacts
<1>4. Decided(cur)
  BY <1>1 DEF IInv, Behind, Decided, LivePCs
<1>5. WhenRow(cur)
  <2>1. InFlight'
    BY RestStep DEF Rest
  <2>2. WhenRow(cur)'
    BY <1>1, <2>1 DEF InFlight, StepPCs, GroupPCs
  <2> QED
    BY <1>1, <2>2, SameRows DEF Next
<1> QED
  BY <1>3, <1>4, <1>5

LEMMA JudgedStep == IInv /\ Judged /\ [Next]_vars => Judged'
<1> SUFFICES ASSUME IInv, Judged, Next PROVE Judged'
  <2>1. ASSUME UNCHANGED vars, Judged PROVE Judged'
    <3>1. UNCHANGED <<pipeline, rows, skipped, execs>>
      BY <2>1 DEF vars, db, history
    <3>2. \A i : Decided(i)' = Decided(i)
      BY <3>1, SameRows DEF Decided
    <3> QED
      BY <2>1, <3>1, <3>2, SameRows DEF Judged
  <2> QED
    BY <2>1
<1>0. UNCHANGED pipeline /\ Keys' = Keys /\ Ids' = Ids /\ skipped \subseteq Ids
  BY Static DEF Next, IInv, TypeOK
<1>1. ASSUME NEW i \in skipped' PROVE Decided(i)' /\ ~WhenRow(i)'
  <2>1. i \in Ids /\ Decided(i) /\ ~WhenRow(i)
    BY <1>0, <1>1, SkipsAreJudged DEF Judged
  <2> QED
    BY <2>1, JudgementStands
<1>2. ASSUME NEW k \in Keys, execs'[k] > 0 PROVE Decided(k[1])' /\ WhenRow(k[1])'
  <2>1. Decided(k[1]) /\ WhenRow(k[1]) /\ k[1] \in Ids
    BY <1>2, StartsAreJudged, KeyFacts DEF Judged
  <2> QED
    BY <2>1, JudgementStands
<1> QED
  BY <1>0, <1>1, <1>2 DEF Judged

LEMMA JudgedAlways == Spec => []Judged
<1>1. Init => Judged
  <2> SUFFICES ASSUME Init PROVE Judged
    OBVIOUS
  <2>1. skipped = {} /\ \A k \in Keys : execs[k] = 0
    BY DEF Init
  <2> QED
    BY <2>1 DEF Judged
<1> QED
  BY <1>1, JudgedStep, Invariance, PTL DEF Spec

\* A unit that when: skipped in one life of a run is not executed in any other, as its
\* condition is judged by rows that a resume finds as they were.
THEOREM SkippedStaysSkipped == Spec => []SkipIsStable
<1>1. IInv /\ Judged => SkipIsStable
  <2> SUFFICES ASSUME IInv, Judged, NEW i \in skipped, NEW k \in KeysOf(i)
               PROVE  execs[k] = 0
    BY DEF SkipIsStable
  <2>1. i \in Ids /\ k \in Keys /\ k[1] = i /\ execs[k] \in Nat
    BY KeyFacts DEF IInv, TypeOK
  <2>2. ~(execs[k] > 0)
    BY <2>1 DEF Judged
  <2> QED
    BY <2>1, <2>2
<1> QED
  BY <1>1, JudgedAlways, Invariance, PTL

(***************************************************************************)
(* Under on_interrupted=escalate nothing is executed twice.  The unit a    *)
(* resume escalates is the first one with something left to execute; what  *)
(* lies behind it was judged after it, so none of it has been started.     *)
(***************************************************************************)
Ahead(j) == \A k \in Keys : k[1] >= j => execs[k] = 0

\* While the gap is still to be found, nothing is started; once it has been handled, or
\* in a first life, nothing has been started ahead of the loop.
Once ==
  /\ pc \in {"down", "load"} => ~gapSpent
  /\ pc \in LivePCs /\ ~GapCandidate => Ahead(cur + 1)
  /\ pc \in {"head", "asking"} /\ ~GapCandidate => Ahead(cur)
  /\ GapCandidate =>
       /\ pc \notin {"exec", "asking"}
       /\ pc = "gather" => Missing(cur) = {}
       /\ pc = "saveBranches" => ~result.gap
       /\ pc = "gate" /\ result.gap => Ahead(cur + 1)
  /\ \A k \in Keys : execs[k] <= 1

\* Nothing behind a unit that has something left to execute has been started.
LEMMA UnsettledAhead ==
  ASSUME IInv, Judged, NEW i \in Ids, ~Settled(i)
  PROVE  Ahead(i + 1)
<1> SUFFICES ASSUME NEW k \in Keys, k[1] >= i + 1 PROVE execs[k] = 0
  BY DEF Ahead
<1>1. k[1] \in Ids /\ Ids = 1..Len(Units) /\ Len(Units) \in Nat /\ execs[k] \in Nat
  BY KeyFacts, UnitType DEF IInv, TypeOK
<1>2. i < k[1]
  BY <1>1
<1>3. ~(execs[k] > 0)
  BY <1>2 DEF Judged, Decided
<1> QED
  BY <1>1, <1>3

\* What the invariant says of the units ahead depends on what has been executed only.
LEMMA AheadStays ==
  ASSUME UNCHANGED <<pipeline, execs>>
  PROVE  \A j : Ahead(j)' = Ahead(j)
BY Static DEF Ahead

\* Starting what belongs to the loop's own unit leaves the units behind it alone.
LEMMA BeginAtLoop ==
  ASSUME IInv, UNCHANGED <<pipeline, cur>>, Once, pc \in {"head", "asking"}, ~GapCandidate,
         cur \in Ids, NEW S \in SUBSET KeysOf(cur), Begin(S)
  PROVE  Ahead(cur + 1)' /\ \A k \in Keys : execs'[k] <= 1
<1>1. /\ Keys' = Keys /\ execs \in [Keys -> Nat]
      /\ Ids = 1..Len(Units) /\ Len(Units) \in Nat
  BY Static, UnitType DEF IInv, TypeOK
<1>2. \A k \in Keys : execs'[k] = IF k \in S THEN execs[k] + 1 ELSE execs[k]
  BY DEF Begin
<1>3. \A k \in Keys : k[1] >= cur => execs[k] = 0
  BY DEF Once, Ahead
<1>4. \A k \in S : k[1] = cur
  BY KeyFacts
<1>5. ASSUME NEW k \in Keys PROVE execs'[k] <= 1
  <2>1. CASE k \in S
    <3>1. execs[k] = 0
      BY <1>1, <1>3, <1>4, <2>1
    <3> QED
      BY <1>2, <2>1, <3>1
  <2>2. CASE k \notin S
    BY <1>2, <2>2 DEF Once
  <2> QED
    BY <2>1, <2>2
<1>6. ASSUME NEW k \in Keys, k[1] >= cur + 1 PROVE execs'[k] = 0
  <2>1. k[1] \in Ids /\ k[1] # cur /\ k[1] >= cur
    BY <1>1, <1>6, KeyFacts
  <2> QED
    BY <1>2, <1>3, <1>4, <2>1
<1> QED
  BY <1>1, <1>5, <1>6 DEF Ahead

LEMMA OnceStep ==
  OnInterrupted = "escalate" /\ IInv /\ Judged /\ Once /\ [Next]_vars => Once'
<1> SUFFICES ASSUME OnInterrupted = "escalate", IInv, Judged, Once, Next PROVE Once'
  <2>1. ASSUME UNCHANGED vars, Once PROVE Once'
    <3>1. /\ UNCHANGED <<pipeline, pc, cur, loaded, resuming, gapSpent, result, execs>>
          /\ Keys' = Keys /\ Missing(cur)' = Missing(cur)
      BY <2>1, Static DEF vars, loop, history, Missing
    <3>2. \A j : Ahead(j)' = Ahead(j)
      BY <3>1, AheadStays
    <3>3. Ahead(cur)' = Ahead(cur) /\ Ahead(cur + 1)' = Ahead(cur + 1)
      BY <3>1 DEF Ahead
    <3> QED
      BY <2>1, <3>1, <3>3 DEF Once, GapCandidate
  <2> QED
    BY <2>1
<1>0. UNCHANGED pipeline /\ Keys' = Keys /\ \A i : KeysOf(i)' = KeysOf(i)
  BY Static DEF Next
<1>a. EscalatesGap = GapCandidate
  BY DEF EscalatesGap, GapCandidate, IInv, TypeOK
<1> USE DEF LivePCs
\* Most actions start nothing: it is enough to look at where they leave the loop.
<1>b. ASSUME UNCHANGED execs, UNCHANGED cur,
             pc' \in {"down", "load"} => ~gapSpent',
             pc' \in LivePCs /\ ~GapCandidate' => Ahead(cur + 1),
             pc' \in {"head", "asking"} /\ ~GapCandidate' => Ahead(cur),
             GapCandidate' =>
               /\ pc' \notin {"exec", "asking"}
               /\ pc' = "gather" => Missing(cur)' = {}
               /\ pc' = "saveBranches" => ~result'.gap
               /\ pc' = "gate" /\ result'.gap => Ahead(cur + 1)
      PROVE  Once'
  <2>1. Ahead(cur)' = Ahead(cur) /\ Ahead(cur + 1)' = Ahead(cur + 1)
    BY <1>0, <1>b DEF Ahead
  <2>2. \A k \in Keys : execs'[k] <= 1
    BY <1>b DEF Once
  <2> QED
    BY <1>0, <1>b, <2>1, <2>2 DEF Once
<1>c. ASSUME UNCHANGED execs, NextUnit, ~GapCandidate' => Ahead(cur + 1) PROVE Once'
  <2>1. pc' = "head" /\ cur' = cur + 1 /\ cur \in Nat
    BY <1>c, UnitType DEF NextUnit, IInv, TypeOK
  <2>2. Ahead(cur)' = Ahead(cur + 1)
    BY <1>0, <1>c, <2>1 DEF Ahead
  <2>3. Ahead(cur + 1) => Ahead(cur + 1)'
    <3>1. \A k \in Keys : k[1] \in Nat
      BY KeyFacts, UnitType DEF IInv, TypeOK
    <3> QED
      BY <1>0, <1>c, <2>1, <3>1 DEF Ahead
  <2>4. \A k \in Keys : execs'[k] <= 1
    BY <1>c DEF Once
  <2> QED
    BY <1>0, <1>c, <2>1, <2>2, <2>3, <2>4 DEF Once
<1>d. ASSUME UNCHANGED execs, pc' \notin LivePCs \cup {"down", "load"} PROVE Once'
  BY <1>0, <1>d DEF Once
<1>1. ASSUME NEW i \in Ids, SkipPersisted(i) \/ SkipWhen(i) PROVE Once'
  <2>1. UNCHANGED <<execs, resuming, gapSpent>> /\ NextUnit /\ pc = "head"
    BY <1>1 DEF SkipPersisted, SkipWhen, AtHead, loop, history
  <2> QED
    BY <1>c, <2>1 DEF Once, GapCandidate
<1>2. ASSUME NEW i \in Ids, BeginStep(i) PROVE Once'
  <2>1. /\ pc = "head" /\ pc' = "exec" /\ cur = i /\ ~GapCandidate /\ Begin(KeysOf(i))
        /\ UNCHANGED <<cur, resuming, gapSpent>>
    BY <1>a, <1>2 DEF BeginStep, Dispatch, AtHead, loop
  <2>2. Ahead(cur + 1)' /\ \A k \in Keys : execs'[k] <= 1
    BY <1>0, <2>1, BeginAtLoop
  <2> QED
    BY <1>0, <2>1, <2>2 DEF Once, GapCandidate
<1>3. ASSUME NEW i \in Ids, BeginHuman(i) PROVE Once'
  <2>1. /\ pc = "head" /\ pc' = "asking" /\ ~GapCandidate
        /\ UNCHANGED <<cur, execs, resuming, gapSpent>>
    BY <1>a, <1>3 DEF BeginHuman, Dispatch, AtHead, loop, history
  <2> QED
    BY <1>b, <2>1 DEF Once, GapCandidate
<1>4. ASSUME NEW i \in Ids, RearmHuman(i) \/ EscalateStep(i) PROVE Once'
  <2>1. /\ pc' \in {"waiting", "save"} /\ GapCandidate
        /\ UNCHANGED <<cur, execs, resuming, gapSpent>>
    BY <1>a, <1>4 DEF RearmHuman, Rearms, EscalateStep, loop, history
  <2> QED
    BY <1>b, <2>1 DEF GapCandidate
<1>5. ASSUME NEW i \in Ids, ResolveFanOut(i) PROVE Once'
  <2>1. /\ pc = "head" /\ pc' = "gate" /\ ~result'.gap
        /\ UNCHANGED <<cur, execs, resuming, gapSpent>>
    BY <1>5 DEF ResolveFanOut, Dispatch, AtHead, loop, history
  <2> QED
    BY <1>b, <2>1 DEF Once, GapCandidate
<1>6. ASSUME NEW i \in Ids, EscalateGroup(i) PROVE Once'
  <2>1. /\ pc' = "gate" /\ cur = i /\ GapCandidate
        /\ UNCHANGED <<cur, execs, resuming, gapSpent>>
    BY <1>a, <1>6 DEF EscalateGroup, Dispatch, AtHead, loop, history
  <2>2. ~Settled(i)
    BY <1>6, AtHeadFacts DEF EscalateGroup, Missing, Settled, Dispatch, HasBranches
  <2>3. Ahead(cur + 1)
    BY <2>1, <2>2, UnsettledAhead
  <2> QED
    BY <1>b, <2>1, <2>3 DEF GapCandidate
<1>7. ASSUME NEW i \in Ids, BeginGroup(i) PROVE Once'
  <2>1. /\ pc = "head" /\ pc' = "gather" /\ cur = i /\ Begin(Missing(i))
        /\ Missing(i) \subseteq KeysOf(i) /\ UNCHANGED <<cur, resuming, gapSpent, loaded>>
    BY <1>7 DEF BeginGroup, Dispatch, AtHead, loop, Missing
  <2>2. Missing(cur)' = Missing(cur)
    BY <1>0, <2>1 DEF Missing
  <2>3. CASE GapCandidate
    <3>1. Missing(i) = {}
      BY <1>a, <1>7, <2>3 DEF BeginGroup
    <3>2. execs' = execs
      BY <2>1, <3>1 DEF Begin, IInv, TypeOK
    <3> QED
      BY <1>b, <2>1, <2>2, <2>3, <3>1, <3>2 DEF GapCandidate
  <2>4. CASE ~GapCandidate
    <3>1. Ahead(cur + 1)' /\ \A k \in Keys : execs'[k] <= 1
      BY <1>0, <2>1, <2>4, BeginAtLoop
    <3> QED
      BY <1>0, <2>1, <2>4, <3>1 DEF Once, GapCandidate
  <2> QED
    BY <2>3, <2>4
<1>8. ASSUME NEW val \in Vals, FinishStep(val) \/ Decide(val) PROVE Once'
  <2>1. /\ pc \in {"exec", "asking", "waiting"} /\ pc' = "save"
        /\ UNCHANGED <<cur, execs, resuming, gapSpent>>
    BY <1>8 DEF FinishStep, Decide, loop, history
  <2> QED
    BY <1>b, <2>1 DEF Once, GapCandidate
<1>9. ASSUME NEW k \in Keys, SaveBranch(k) PROVE Once'
  <2>1. /\ pc = "saveBranches" /\ UNCHANGED <<pc, cur, execs, resuming, gapSpent, result>>
    BY <1>9 DEF SaveBranch, loop
  <2> QED
    BY <1>b, <2>1 DEF Once, GapCandidate
<1>10. CASE SendRequest
  <2>1. /\ pc = "asking" /\ pc' = "waiting" /\ Begin(KeysOf(cur)) /\ ~GapCandidate
        /\ UNCHANGED <<cur, resuming, gapSpent>>
    BY <1>10 DEF SendRequest, loop, Once
  <2>2. cur \in Ids
    BY <2>1 DEF IInv, Control, StepPCs
  <2>3. Ahead(cur + 1)' /\ \A k \in Keys : execs'[k] <= 1
    BY <1>0, <2>1, <2>2, BeginAtLoop
  <2> QED
    BY <1>0, <2>1, <2>3 DEF Once, GapCandidate
<1>11. CASE SaveStep
  <2>1. /\ pc = "save" /\ pc' = "gate" /\ UNCHANGED <<cur, execs, resuming, gapSpent>>
    BY <1>11 DEF SaveStep, loop
  <2>2. <<cur, 0>> \in KeysOf(cur) /\ <<cur, 0>> \notin Persisted
    BY <2>1, KeyFacts DEF IInv, Control, InFlight, StepPCs
  <2>3. cur \in Ids /\ ~Settled(cur)
    BY <2>1, <2>2, InFlightUnsettled DEF StepPCs
  <2>4. Ahead(cur + 1)
    BY <2>3, UnsettledAhead
  <2> QED
    BY <1>b, <2>1, <2>4
<1>12. CASE GatherBranches
  <2>1. /\ pc = "gather" /\ pc' = "saveBranches" /\ result'.gap = (Missing(cur) # {})
        /\ UNCHANGED <<cur, execs, resuming, gapSpent>>
    BY <1>12 DEF GatherBranches, loop, history
  <2> QED
    BY <1>b, <2>1 DEF Once, GapCandidate
<1>13. CASE GroupTimeout
  <2>1. /\ pc = "gather" /\ pc' = "gate" /\ Missing(cur) # {} /\ ~result'.gap
        /\ UNCHANGED <<cur, execs, resuming, gapSpent>>
    BY <1>13 DEF GroupTimeout, loop, history
  <2> QED
    BY <1>b, <2>1 DEF Once, GapCandidate
<1>14. CASE JoinGroup
  <2>1. /\ pc = "saveBranches" /\ pc' = "gate" /\ result'.gap = result.gap
        /\ UNCHANGED <<cur, execs, resuming, gapSpent>>
    BY <1>14 DEF JoinGroup, loop, history, IInv, TypeOK, Result
  <2> QED
    BY <1>b, <2>1 DEF Once, GapCandidate
<1>15. CASE GateContinues \/ GatePasses
  <2>1. UNCHANGED <<execs, resuming>> /\ SpendGap /\ pc = "gate"
    BY <1>15 DEF GateContinues, GatePasses, loop, history
  <2>2. CASE NextUnit
    <3>1. ~GapCandidate' => ~GapCandidate \/ result.gap
      BY <2>1 DEF SpendGap, GapCandidate, IInv, TypeOK
    <3>2. ~GapCandidate' => Ahead(cur + 1)
      BY <2>1, <3>1 DEF Once
    <3> QED
      BY <1>c, <2>1, <2>2, <3>2
  <2>3. CASE pc' = "notify"
    BY <1>d, <2>1, <2>3
  <2> QED
    BY <1>15, <2>2, <2>3 DEF GateContinues, GatePasses
<1>16. CASE \/ GateStops \/ Notify \/ EndOfSteps \/ CompleteRun \/ TaskRaises
            \/ SweepInterrupts
  <2>1. UNCHANGED execs /\ pc' \in {"notify", "finish", "ended", "dead"}
    BY <1>16 DEF GateStops, Notify, EndOfSteps, CompleteRun, TaskRaises, SweepInterrupts,
       history
  <2> QED
    BY <1>d, <2>1
<1>17. CASE SweepResumes
  <2>1. pc = "down" /\ pc' = "load" /\ UNCHANGED <<cur, execs, gapSpent>>
    BY <1>17 DEF SweepResumes, history
  <2> QED
    BY <1>b, <2>1 DEF Once
<1>18. CASE LoadRun
  <2>1. pc' = "head" /\ UNCHANGED <<cur, execs>> /\ GapCandidate'
    BY <1>18 DEF LoadRun, history, GapCandidate, Once
  <2> QED
    BY <1>b, <2>1
<1>19. CASE Crash \/ StopWhileWaiting
  <2>1. pc' = "down" /\ gapSpent' = FALSE /\ resuming' = FALSE /\ UNCHANGED execs
    BY <1>19 DEF Crash, StopWhileWaiting, ForgetMemory
  <2> QED
    BY <1>0, <2>1 DEF Once, GapCandidate
<1> QED
  BY <1>1, <1>2, <1>3, <1>4, <1>5, <1>6, <1>7, <1>8, <1>9, <1>10, <1>11, <1>12, <1>13,
     <1>14, <1>15, <1>16, <1>17, <1>18, <1>19 DEF Next, StepLoop, Recovery

\* Under durable.on_interrupted = escalate no step and no branch is ever executed
\* twice, whatever the number and the place of the crashes.
THEOREM EscalatedNotRepeated == Spec => []EscalateMeansOnce
<1> DEFINE Cond == OnInterrupted = "escalate" => Once
<1>1. Init => Cond
  <2> SUFFICES ASSUME Init PROVE Once
    OBVIOUS
  <2>1. /\ pc = "head" /\ resuming = FALSE /\ gapSpent = FALSE
        /\ \A k \in Keys : execs[k] = 0
    BY DEF Init
  <2> QED
    BY <2>1 DEF Once, Ahead, GapCandidate
<1>2. IInv /\ Judged /\ Cond /\ [Next]_vars => Cond'
  <2>1. [Next]_vars => OnInterrupted' = OnInterrupted
    BY DEF Next, vars, OnInterrupted
  <2> QED
    BY <2>1, OnceStep
<1>3. Cond => EscalateMeansOnce
  BY DEF Once, EscalateMeansOnce
<1> HIDE DEF Cond
<1> QED
  BY <1>1, <1>2, <1>3, JudgedAlways, Invariance, PTL DEF Spec

(***************************************************************************)
(* Gates.  A step that ends the run is behind the loop only after a crash  *)
(* that found its row written; what lies behind the loop is accounted for. *)
(***************************************************************************)
Accounted(i) ==
  \/ i \in skipped
  \/ /\ KeysOf(i) \subseteq Persisted
     /\ HasBranches(i) => Passes(i) \/ Units[i].onLow = "proceed"

Excused(i) == Terminating(i) => i \in windowGates

Gates ==
  /\ pc \in {"down", "load"} => \A i \in Ids : Excused(i)
  /\ pc \in LivePCs => \A i \in Ids : Excused(i) \/ (pc = "gate" /\ i = cur)
  /\ pc = "gate" /\ IsStep(cur) => rows[<<cur, 0>>].status = result.status
  /\ pc = "gate" /\ ~IsStep(cur) /\ result.status = "completed" => Accounted(cur)
  /\ pc \in LivePCs => \A i \in Ids : i < cur => Accounted(i)
  /\ pc \in LivePCs \cup {"down", "load"} => final = "completed"
  /\ pc = "notify" => final # "completed"
  /\ (pc = "finish" /\ final = "completed") \/ runStatus = "completed"
       => \A i \in Ids : Accounted(i) /\ Excused(i)

\* Nothing that is accounted for, or excused, is so by what a step without a new row
\* could change.
LEMMA AccountsKept ==
  ASSUME UNCHANGED <<pipeline, rows>>, skipped \subseteq skipped',
         windowGates \subseteq windowGates'
  PROVE  \A i : (Accounted(i) => Accounted(i)') /\ (Excused(i) => Excused(i)')
<1>1. \A i : Units[i]' = Units[i]
  BY DEF Units
<1>2. \A i : Passes(i)' = Passes(i)
  BY <1>1, SameRows DEF Passes
<1>3. \A i : Terminating(i)' = Terminating(i)
  BY <1>1, SameRows DEF Terminating
<1>4. \A i : Accounted(i) => Accounted(i)'
  BY <1>1, <1>2, SameRows DEF Accounted
<1>5. \A i : Excused(i) => Excused(i)'
  BY <1>3 DEF Excused
<1> QED
  BY <1>4, <1>5

\* A new row is of the loop's own unit.
LEMMA AccountsGrow ==
  ASSUME IInv, UNCHANGED <<pipeline, skipped, windowGates>>,
         pc \in {"save", "saveBranches"},
         NEW k \in KeysOf(cur), k \notin Persisted, NEW r \in Row,
         rows' = [rows EXCEPT ![k] = r],
         NEW i \in Ids, i # cur
  PROVE  /\ Accounted(i) => Accounted(i)'
         /\ Terminating(i)' = Terminating(i)
<1>1. /\ Units' = Units /\ KeysOf(i)' = KeysOf(i) /\ IsStep(i)' = IsStep(i)
      /\ HasBranches(i)' = HasBranches(i)
  BY Static
<1>2. Persisted' = Persisted \cup {k}
  BY RecordRow
<1>3. k[1] = cur /\ <<i, 0>> # k /\ \A j \in KeysOf(i) : j # k /\ j \in Keys
  BY KeyFacts
<1>4. \A j : j # k => rows'[j] = rows[j]
  BY DEF IInv, TypeOK
<1>5. Passes(i)' = Passes(i)
  BY <1>1, <1>3, <1>4 DEF Passes
<1>6. Terminating(i)' = Terminating(i)
  BY <1>1, <1>3, <1>4 DEF Terminating
<1>7. Accounted(i) => Accounted(i)'
  BY <1>1, <1>2, <1>5 DEF Accounted
<1> QED
  BY <1>6, <1>7

\* A group that is reported completed passes, or is one that lets a low join proceed.
LEMMA GroupAccount ==
  ASSUME pipeline \in Pipelines, NEW i \in Ids, KeysOf(i) \subseteq Persisted,
         GroupStatus(i) = "completed"
  PROVE  Accounted(i)
<1>1. Units[i].onLow \in {"abort", "escalate", "proceed"}
  <2>1. Units[i] \in Unit
    BY UnitType
  <2> QED
    BY <2>1 DEF Unit
<1>2. Passes(i) \/ Units[i].onLow = "proceed"
  BY <1>1 DEF GroupStatus, LowStatus
<1> QED
  BY <1>2 DEF Accounted

LEMMA EmptyFanOut ==
  ASSUME pipeline \in Pipelines, NEW i \in Ids, Units[i].kind = "fan_out",
         Units[i].over = "empty"
  PROVE  Accounted(i)
<1>1. Units[i].width = 0
  BY PipelinesAssumption DEF Units, Ids
<1>2. KeysOf(i) = {} /\ ~HasBranches(i)
  BY <1>1 DEF KeysOf, BranchIds, IsStep, HasBranches
<1> QED
  BY <1>2 DEF Accounted

LEMMA GatesStep == IInv /\ Gates /\ [Next]_vars => Gates'
<1> SUFFICES ASSUME IInv, Gates, Next PROVE Gates'
  <2>1. ASSUME UNCHANGED vars, Gates PROVE Gates'
    <3>1. UNCHANGED <<pipeline, runStatus, rows, pc, cur, result, final, windowGates, skipped>>
      BY <2>1 DEF vars, db, history
    <3>2. \A i : (Accounted(i) => Accounted(i)') /\ (Excused(i) => Excused(i)')
      BY <3>1, AccountsKept
    <3>3. IsStep(cur)' = IsStep(cur) /\ Ids' = Ids
      BY <3>1 DEF IsStep, Units, Ids
    <3>4. Accounted(cur) => Accounted(cur)'
      BY <3>1, <3>2 DEF Accounted
    <3> QED
      BY <2>1, <3>1, <3>2, <3>3, <3>4 DEF Gates
  <2> QED
    BY <2>1
<1>0. /\ UNCHANGED pipeline /\ Ids' = Ids /\ \A i : IsStep(i)' = IsStep(i)
      /\ pc # "ended" => runStatus = "running"
  BY Static DEF Next, IInv, Control
<1> USE DEF LivePCs
\* The loop goes on at its unit, having written nothing ...
<1>a. ASSUME UNCHANGED <<rows, cur, skipped, windowGates, runStatus, final>>,
             pc \in LivePCs \ {"gate"}, pc' \in LivePCs, cur \in Ids,
             pc' = "gate" /\ IsStep(cur) => rows[<<cur, 0>>].status = result'.status,
             pc' = "gate" /\ ~IsStep(cur) /\ result'.status = "completed" => Accounted(cur)
      PROVE  Gates'
  <2>1. \A i : (Accounted(i) => Accounted(i)') /\ (Excused(i) => Excused(i)')
    BY <1>0, <1>a, AccountsKept
  <2>2. IsStep(cur)' = IsStep(cur)
    BY <1>0, <1>a DEF IsStep, Units
  <2>3. pc' = "gate" /\ ~IsStep(cur) /\ result'.status = "completed" => Accounted(cur)'
    BY <1>a, <2>1 DEF Accounted
  <2> QED
    BY <1>0, <1>a, <2>1, <2>2, <2>3 DEF Gates
\* ... or moves on, past a unit that is accounted for ...
<1>b. ASSUME UNCHANGED <<rows, windowGates, runStatus, final>>, NextUnit,
             skipped \subseteq skipped', pc \in {"head", "gate"}, cur \in Ids,
             Accounted(cur) \/ cur \in skipped', pc = "gate" => Excused(cur)
      PROVE  Gates'
  <2>1. \A i : (Accounted(i) => Accounted(i)') /\ (Excused(i) => Excused(i)')
    BY <1>0, <1>b, AccountsKept
  <2>2. pc' = "head" /\ cur' = cur + 1 /\ Ids = 1..Len(Units) /\ Len(Units) \in Nat
    BY <1>b, UnitType DEF NextUnit, IInv, TypeOK
  <2>3. \A i \in Ids : Excused(i)'
    BY <1>b, <2>1 DEF Gates
  <2>4. ASSUME NEW i \in Ids, i < cur + 1 PROVE Accounted(i)'
    <3>1. i < cur \/ i = cur
      BY <1>b, <2>2, <2>4
    <3>2. CASE i < cur
      BY <1>b, <2>1, <3>2 DEF Gates
    <3>3. CASE i = cur
      <4>1. CASE Accounted(i)
        BY <2>1, <4>1
      <4>2. CASE i \in skipped'
        BY <4>2 DEF Accounted
      <4> QED
        BY <1>b, <3>3, <4>1, <4>2
    <3> QED
      BY <3>1, <3>2, <3>3
  <2> QED
    BY <1>0, <1>b, <2>2, <2>3, <2>4 DEF Gates
\* ... or it is not going on.
<1>c. ASSUME UNCHANGED <<rows, skipped, windowGates>>,
             pc' \in {"notify", "finish", "ended", "dead"},
             pc' = "notify" => final' # "completed",
             (pc' = "finish" /\ final' = "completed") \/ runStatus' = "completed"
               => \A i \in Ids : Accounted(i) /\ Excused(i)
      PROVE  Gates'
  <2>1. \A i : (Accounted(i) => Accounted(i)') /\ (Excused(i) => Excused(i)')
    BY <1>0, <1>c, AccountsKept
  <2> QED
    BY <1>0, <1>c, <2>1 DEF Gates
<1>1. ASSUME NEW i \in Ids, SkipPersisted(i) PROVE Gates'
  <2>1. /\ UNCHANGED <<rows, skipped, windowGates, runStatus, final>> /\ NextUnit
        /\ pc = "head" /\ cur = i
    BY <1>1 DEF SkipPersisted, AtHead, db, history
  <2>2. IsStep(i) /\ <<i, 0>> \in Persisted /\ KeysOf(i) = {<<i, 0>>}
    BY <1>1, KeyFacts DEF SkipPersisted, AlreadyDone, IInv, LoadedRows
  <2>3. Accounted(i)
    BY <2>2 DEF Accounted, HasBranches
  <2> QED
    BY <1>b, <2>1, <2>3
<1>2. ASSUME NEW i \in Ids, SkipWhen(i) PROVE Gates'
  <2>1. /\ UNCHANGED <<rows, windowGates, runStatus, final>> /\ NextUnit /\ pc = "head"
        /\ cur = i /\ skipped' = skipped \cup {i}
    BY <1>2 DEF SkipWhen, AtHead, db
  <2> QED
    BY <1>b, <2>1
<1>3. ASSUME NEW i \in Ids,
             \/ BeginStep(i) \/ BeginHuman(i) \/ RearmHuman(i) \/ EscalateStep(i)
             \/ BeginGroup(i)
      PROVE  Gates'
  <2>1. /\ UNCHANGED <<rows, cur, skipped, windowGates, runStatus, final>>
        /\ pc = "head" /\ pc' \in {"exec", "asking", "waiting", "save", "gather"} /\ cur = i
    BY <1>3 DEF BeginStep, BeginHuman, RearmHuman, EscalateStep, BeginGroup, Dispatch, AtHead,
       Begin, db, loop, history
  <2> QED
    BY <1>a, <2>1
<1>4. ASSUME NEW i \in Ids, ResolveFanOut(i) \/ EscalateGroup(i) PROVE Gates'
  <2>1. /\ UNCHANGED <<rows, cur, skipped, windowGates, runStatus, final>>
        /\ pc = "head" /\ pc' = "gate" /\ cur = i /\ ~IsStep(i)
    BY <1>4 DEF ResolveFanOut, EscalateGroup, Dispatch, AtHead, HasBranches, IsStep, db,
       loop, history
  <2>2. ASSUME result'.status = "completed" PROVE Accounted(i)
    <3>1. Units[i].kind = "fan_out" /\ Units[i].over = "empty"
      BY <1>4, <2>2 DEF ResolveFanOut, EscalateGroup
    <3> QED
      BY <3>1, EmptyFanOut DEF IInv, TypeOK
  <2> QED
    BY <1>a, <2>1, <2>2
<1>5. ASSUME NEW val \in Vals, FinishStep(val) \/ Decide(val) PROVE Gates'
  <2>1. /\ UNCHANGED <<rows, cur, skipped, windowGates, runStatus, final>>
        /\ pc \in StepPCs /\ pc' = "save"
    BY <1>5 DEF FinishStep, Decide, StepPCs, db, history
  <2>2. cur \in Ids
    BY <2>1 DEF IInv, Control
  <2> QED
    BY <1>a, <2>1, <2>2 DEF StepPCs
<1>6. CASE SendRequest \/ GatherBranches \/ GroupTimeout
  <2>1. /\ UNCHANGED <<rows, cur, skipped, windowGates, runStatus, final>>
        /\ pc \in {"asking", "gather"} /\ pc' \in {"waiting", "saveBranches", "gate"}
        /\ pc' = "gate" => pc = "gather" /\ result'.status = "failed"
    BY <1>6 DEF SendRequest, GatherBranches, GroupTimeout, Begin, db, loop, history
  <2>2. cur \in Ids /\ (pc = "gather" => ~IsStep(cur))
    BY <2>1 DEF IInv, Control, StepPCs, GroupPCs, HasBranches
  <2> QED
    BY <1>a, <2>1, <2>2
<1>7. CASE JoinGroup
  <2>1. /\ UNCHANGED <<rows, cur, skipped, windowGates, runStatus, final>>
        /\ pc = "saveBranches" /\ pc' = "gate" /\ DOMAIN got = {}
        /\ result'.status = GroupStatus(cur)
    BY <1>7 DEF JoinGroup, db, loop, history, IInv, TypeOK, Result
  <2>2. cur \in Ids /\ ~IsStep(cur) /\ KeysOf(cur) \subseteq Persisted
    BY <2>1 DEF IInv, Control, GroupPCs, HasBranches, InFlight
  <2>3. result'.status = "completed" => Accounted(cur)
    BY <2>1, <2>2, GroupAccount DEF IInv, TypeOK
  <2> QED
    BY <1>a, <2>1, <2>2, <2>3
\* A row is written: only the unit of the loop can come to have one that ends the run.
<1>8. ASSUME NEW k \in KeysOf(cur), k \in Keys \ Persisted, NEW r \in Row,
             rows' = [rows EXCEPT ![k] = r], pc \in {"save", "saveBranches"},
             pc' \in {"saveBranches", "gate"}, cur \in Ids,
             UNCHANGED <<cur, skipped, windowGates, runStatus, final>>,
             IF IsStep(cur) THEN pc' = "gate" /\ rows'[<<cur, 0>>].status = result'.status
                            ELSE pc' = "saveBranches"
      PROVE  Gates'
  <2>1. ASSUME NEW i \in Ids, i # cur
        PROVE  (Accounted(i) => Accounted(i)') /\ Terminating(i)' = Terminating(i)
    BY <1>0, <1>8, <2>1, AccountsGrow
  <2>2. ASSUME NEW i \in Ids PROVE Excused(i)' \/ (pc' = "gate" /\ i = cur')
    <3>1. CASE i = cur
      <4>1. CASE IsStep(cur)
        BY <1>8, <3>1, <4>1
      <4>2. CASE ~IsStep(i)
        <5>1. ~IsStep(i)'
          BY <1>0, <4>2
        <5> QED
          BY <5>1 DEF Excused, Terminating
      <4> QED
        BY <3>1, <4>1, <4>2
    <3>2. CASE i # cur
      <4>1. Excused(i)
        BY <1>8, <3>2 DEF Gates
      <4>2. Terminating(i)' = Terminating(i)
        BY <2>1, <3>2
      <4> QED
        BY <1>8, <4>1, <4>2 DEF Excused
    <3> QED
      BY <3>1, <3>2
  <2>3. ASSUME NEW i \in Ids, i < cur' PROVE Accounted(i)'
    <3>1. i # cur /\ Accounted(i)
      BY <1>8, <2>3, UnitType DEF Gates, IInv, TypeOK
    <3> QED
      BY <2>1, <3>1
  <2>4. IsStep(cur)' = IsStep(cur)
    BY <1>0, <1>8 DEF IsStep, Units
  <2> QED
    BY <1>0, <1>8, <2>2, <2>3, <2>4 DEF Gates
<1>9. CASE SaveStep
  <2> DEFINE r == [status |-> result.status, val |-> got[<<cur, 0>>], tok |-> result.tok]
  <2>1. /\ pc = "save" /\ pc' = "gate" /\ rows' = [rows EXCEPT ![<<cur, 0>>] = r]
        /\ UNCHANGED <<cur, skipped, windowGates, runStatus, final, result>>
    BY <1>9 DEF SaveStep
  <2>2. /\ cur \in Ids /\ IsStep(cur) /\ <<cur, 0>> \in KeysOf(cur)
        /\ <<cur, 0>> \in Keys \ Persisted
    BY <2>1, KeyFacts DEF IInv, Control, InFlight, StepPCs
  <2>3. r \in Row
    <3>1. result.status \in Statuses /\ got[<<cur, 0>>] \in Vals /\ result.tok \in Nat
      BY <2>1, <2>2 DEF IInv, TypeOK, Control, Result
    <3> QED
      BY <3>1 DEF Row
  <2>4. rows'[<<cur, 0>>].status = result'.status
    BY <2>1, <2>2 DEF IInv, TypeOK
  <2> HIDE DEF r
  <2> QED
    BY <1>8, <2>1, <2>2, <2>3, <2>4
<1>10. ASSUME NEW j \in Keys, SaveBranch(j) PROVE Gates'
  <2>1. /\ pc = "saveBranches" /\ pc' = pc /\ ~UNCHANGED rows
        /\ UNCHANGED <<cur, skipped, windowGates, runStatus, final>>
    <3>1. j \notin Persisted /\ rows \in [Keys -> Row \cup {NoRow}]
      BY <1>10 DEF SaveBranch, IInv, InFlight, TypeOK
    <3>2. rows[j] = NoRow /\ rows'[j].status # NoRow.status
      BY <1>10, <3>1 DEF SaveBranch, Persisted, NoRow
    <3> QED
      BY <1>10, <3>2 DEF SaveBranch
  <2>2. PICK k \in KeysOf(cur) :
          k \in Keys \ Persisted /\ \E r \in Row : rows' = [rows EXCEPT ![k] = r]
    BY <2>1, WritesUnrecorded
  <2>3. cur \in Ids /\ ~IsStep(cur)
    BY <2>1 DEF IInv, Control, GroupPCs, HasBranches
  <2> QED
    BY <1>8, <2>1, <2>2, <2>3
<1>11. CASE GateStops
  <2>1. /\ UNCHANGED <<rows, skipped, windowGates, runStatus>> /\ pc = "gate"
        /\ pc' = "notify" /\ final' # "completed"
    BY <1>11 DEF GateStops, db, history
  <2> QED
    BY <1>0, <1>c, <2>1
\* At the gate a step has its row, with the status it is judged by.
<1>12. ASSUME pc = "gate", result.status = "completed" \/ Continues(cur)
       PROVE  cur \in Ids /\ Accounted(cur) /\ Excused(cur)
  <2>1. cur \in Ids /\ result.status \in Statuses
    BY <1>12 DEF IInv, Control
  <2>2. CASE ~IsStep(cur)
    BY <1>12, <2>1, <2>2 DEF Gates, Continues, Excused, Terminating
  <2>3. CASE IsStep(cur)
    <3>1. rows[<<cur, 0>>].status = result.status
      BY <1>12, <2>3 DEF Gates
    <3>2. KeysOf(cur) \subseteq Persisted /\ ~HasBranches(cur)
      BY <2>1, <2>3, <3>1, KeyFacts DEF Persisted, NoRow, Statuses, HasBranches
    <3>3. ~Terminating(cur)
      BY <1>12, <3>1 DEF Terminating, Continues
    <3> QED
      BY <2>1, <3>2, <3>3 DEF Accounted, Excused
  <2> QED
    BY <2>2, <2>3
<1>13. CASE GateContinues
  <2>1. /\ UNCHANGED <<rows, skipped, windowGates, runStatus, final>> /\ NextUnit
        /\ pc = "gate" /\ Continues(cur)
    BY <1>13 DEF GateContinues, db
  <2> QED
    BY <1>12, <1>b, <2>1
<1>14. CASE GatePasses
  <2>1. /\ UNCHANGED <<rows, skipped, windowGates, runStatus>> /\ pc = "gate"
        /\ result.status = "completed"
        /\ (pc' = "notify" /\ final' = "aborted") \/ (NextUnit /\ UNCHANGED final)
    BY <1>14 DEF GatePasses, db, history
  <2>2. CASE pc' = "notify" /\ final' = "aborted"
    BY <1>0, <1>c, <2>1, <2>2
  <2>3. CASE NextUnit /\ UNCHANGED final
    BY <1>12, <1>b, <2>1, <2>3
  <2> QED
    BY <2>1, <2>2, <2>3
<1>15. CASE Notify \/ TaskRaises
  <2>1. /\ UNCHANGED <<rows, skipped, windowGates, runStatus, final>> /\ pc # "ended"
        /\ pc' \in {"finish", "dead"} /\ (pc' = "finish" => pc = "notify")
    BY <1>15 DEF Notify, TaskRaises, db, history
  <2>2. pc' = "finish" => final' # "completed"
    BY <2>1 DEF Gates
  <2> QED
    BY <1>0, <1>c, <2>1, <2>2
<1>16. CASE EndOfSteps
  <2>1. /\ UNCHANGED <<rows, skipped, windowGates, runStatus, final>> /\ pc = "head"
        /\ pc' = "finish" /\ cur > Len(Units)
    BY <1>16 DEF EndOfSteps, db, history
  <2>2. \A i \in Ids : i < cur
    BY <2>1, UnitType DEF IInv, TypeOK
  <2>3. \A i \in Ids : Accounted(i) /\ Excused(i)
    BY <2>1, <2>2 DEF Gates
  <2> QED
    BY <1>c, <2>1, <2>3
<1>17. CASE CompleteRun
  <2>1. /\ UNCHANGED <<rows, skipped, windowGates>> /\ pc = "finish" /\ pc' = "ended"
        /\ runStatus' = final
    BY <1>17 DEF CompleteRun, history
  <2>2. final = "completed" => \A i \in Ids : Accounted(i) /\ Excused(i)
    BY <2>1 DEF Gates
  <2> QED
    BY <1>c, <2>1, <2>2
<1>18. CASE SweepInterrupts
  <2>1. /\ UNCHANGED <<rows, skipped, windowGates>> /\ pc' = "ended"
        /\ runStatus' = "interrupted"
    BY <1>18 DEF SweepInterrupts, history
  <2> QED
    BY <1>c, <2>1
<1>19. CASE SweepResumes \/ LoadRun
  <2>1. /\ UNCHANGED <<rows, cur, skipped, windowGates, runStatus, final>>
        /\ pc \in {"down", "load"} /\ pc' \in {"load", "head"}
    BY <1>19 DEF SweepResumes, LoadRun, db, history
  <2>2. \A i : Excused(i) => Excused(i)'
    BY <1>0, <2>1, AccountsKept
  <2>3. cur = 1 /\ \A i \in Ids : ~(i < cur)
    BY <2>1, UnitType DEF IInv, Control, TypeOK
  <2> QED
    BY <1>0, <2>1, <2>2, <2>3 DEF Gates
<1>20. CASE Crash \/ StopWhileWaiting
  <2>1. /\ UNCHANGED <<rows, runStatus>> /\ pc' = "down" /\ final' = "completed"
        /\ windowGates' = windowGates \cup {i \in Ids : Terminating(i)} /\ pc # "ended"
    BY <1>20 DEF Crash, StopWhileWaiting, ForgetMemory, RecordLoss, ProcessUp, db
  <2>2. ASSUME NEW i \in Ids PROVE Excused(i)'
    <3>1. Terminating(i)' = Terminating(i)
      BY <1>0, <2>1, SameRows DEF Terminating, Units
    <3> QED
      BY <2>1, <3>1 DEF Excused
  <2> QED
    BY <1>0, <2>1, <2>2 DEF Gates
<1> QED
  BY <1>1, <1>2, <1>3, <1>4, <1>5, <1>6, <1>7, <1>9, <1>10, <1>11, <1>13, <1>14, <1>15,
     <1>16, <1>17, <1>18, <1>19, <1>20 DEF Next, StepLoop, Recovery

LEMMA GatesAlways == Spec => []Gates
<1>1. Init => Gates
  <2> SUFFICES ASSUME Init PROVE Gates
    OBVIOUS
  <2>1. /\ pc = "head" /\ cur = 1 /\ runStatus = "running" /\ final = "completed"
        /\ rows = [k \in Keys |-> NoRow] /\ Ids = 1..Len(Units) /\ Len(Units) \in Nat
    BY UnitType DEF Init
  <2>2. \A i \in Ids : Excused(i) /\ ~(i < cur)
    <3> SUFFICES ASSUME NEW i \in Ids PROVE ~Terminating(i) /\ ~(i < cur)
      BY DEF Excused
    <3>1. IsStep(i) => rows[<<i, 0>>].status = "none"
      BY <2>1, KeyFacts DEF NoRow
    <3> QED
      BY <2>1, <3>1 DEF Terminating, Statuses
  <2> QED
    BY <2>1, <2>2 DEF Gates, LivePCs
<1> QED
  BY <1>1, GatesStep, Invariance, PTL DEF Spec

\* A completed run has an account of every unit: a false when: or all its rows; a group
\* passed its gate, and a step that ended the run is behind it only after a crash in the
\* window between its row and the closing of the run.
THEOREM CompletedIsAccounted == Spec => []CompletedAccountsForAll
<1>1. Gates => CompletedAccountsForAll
  BY DEF Gates, Accounted, Excused, CompletedAccountsForAll
<1> QED
  BY <1>1, GatesAlways, PTL

\* What is started or written now stands at the loop, and every gate before it has been
\* passed or is excused.
LEMMA PassedStep ==
  IInv /\ Judged /\ Gates /\ GatePassedOnlyByWindowCrash /\ [Next]_vars
    => GatePassedOnlyByWindowCrash'
<1> SUFFICES ASSUME IInv, Judged, Gates, GatePassedOnlyByWindowCrash, Next
             PROVE  GatePassedOnlyByWindowCrash'
  <2>1. ASSUME UNCHANGED vars, GatePassedOnlyByWindowCrash
        PROVE  GatePassedOnlyByWindowCrash'
    <3>1. UNCHANGED <<pipeline, rows, execs, windowGates>> /\ Ids' = Ids /\ Keys' = Keys
      BY <2>1, Static DEF vars, db, history
    <3>2. \A i : Terminating(i)' = Terminating(i)
      BY <3>1, SameRows DEF Terminating, Units
    <3> QED
      BY <2>1, <3>1, <3>2 DEF GatePassedOnlyByWindowCrash
  <2> QED
    BY <2>1
<1>0. UNCHANGED pipeline /\ Ids' = Ids /\ Keys' = Keys
  BY Static DEF Next
<1>1. windowGates \subseteq windowGates'
  <2>1. CASE Crash \/ StopWhileWaiting
    BY <2>1 DEF Crash, StopWhileWaiting, ForgetMemory, RecordLoss
  <2>2. ASSUME NEW i \in Ids,
               \/ SkipPersisted(i) \/ SkipWhen(i) \/ BeginStep(i) \/ BeginHuman(i)
               \/ RearmHuman(i) \/ EscalateStep(i) \/ ResolveFanOut(i)
               \/ EscalateGroup(i) \/ BeginGroup(i)
        PROVE  UNCHANGED windowGates
    BY <2>2 DEF SkipPersisted, SkipWhen, BeginStep, BeginHuman, RearmHuman, EscalateStep,
       ResolveFanOut, EscalateGroup, BeginGroup, history
  <2>3. ASSUME NEW val \in Vals, FinishStep(val) \/ Decide(val) PROVE UNCHANGED windowGates
    BY <2>3 DEF FinishStep, Decide, history
  <2>4. ASSUME NEW k \in Keys, SaveBranch(k) PROVE UNCHANGED windowGates
    BY <2>4 DEF SaveBranch
  <2>5. CASE \/ SendRequest \/ SaveStep \/ GatherBranches \/ GroupTimeout \/ JoinGroup
             \/ GateStops \/ GateContinues \/ GatePasses \/ Notify \/ EndOfSteps
             \/ CompleteRun \/ LoadRun \/ Recovery \/ TaskRaises
    BY <2>5 DEF SendRequest, SaveStep, GatherBranches, GroupTimeout, JoinGroup, GateStops,
       GateContinues, GatePasses, Notify, EndOfSteps, CompleteRun, LoadRun, Recovery,
       SweepResumes, SweepInterrupts, TaskRaises, history
  <2> QED
    BY <2>1, <2>2, <2>3, <2>4, <2>5 DEF Next, StepLoop
<1> SUFFICES ASSUME NEW i \in Ids, NEW k \in Keys, i < k[1], Terminating(i)',
                    execs'[k] > 0 \/ rows'[k] # NoRow
             PROVE  i \in windowGates
  BY <1>0, <1>1 DEF GatePassedOnlyByWindowCrash
<1>2. CASE UNCHANGED rows
  <2>1. Terminating(i)
    BY <1>0, <1>2, SameRows DEF Terminating, Units
  <2>2. CASE execs'[k] = execs[k]
    BY <1>2, <2>1, <2>2 DEF GatePassedOnlyByWindowCrash
  <2>3. CASE execs'[k] # execs[k]
    <3>1. pc \in {"head", "asking"}
      BY <2>3, StartsUnrecorded
    <3>2. Excused(i)
      BY <3>1 DEF Gates, LivePCs
    <3> QED
      BY <2>1, <3>2 DEF Excused
  <2> QED
    BY <2>2, <2>3
<1>3. CASE ~UNCHANGED rows
  <2>1. PICK j \in KeysOf(cur) :
          /\ j \in Keys \ Persisted /\ pc \in {"save", "saveBranches"}
          /\ \E r \in Row : rows' = [rows EXCEPT ![j] = r]
          /\ UNCHANGED execs
    BY <1>3, WritesUnrecorded
  <2>2. PICK r \in Row : rows' = [rows EXCEPT ![j] = r]
    BY <2>1
  <2>3. Excused(i)
    BY <2>1 DEF Gates, LivePCs
  <2>4. CASE Terminating(i)
    BY <2>3, <2>4 DEF Excused
  <2>5. CASE ~Terminating(i)
    <3>1. j = <<i, 0>> /\ i = cur
      <4>1. rows'[<<i, 0>>] # rows[<<i, 0>>]
        BY <1>0, <2>5, Static DEF Terminating
      <4>2. j = <<i, 0>>
        BY <2>1, <2>2, <4>1 DEF IInv, TypeOK
      <4> QED
        BY <2>1, <4>2, KeyFacts
    <3>2. k # j /\ rows'[k] = rows[k]
      BY <2>1, <2>2, <3>1, UnitType, KeyFacts DEF IInv, TypeOK
    <3>3. \A m \in Persisted : m[1] <= cur
      BY <1>0, <2>1, <2>2, RecordRow
    <3>4. k \notin Persisted
      BY <3>1, <3>3, UnitType, KeyFacts DEF IInv, TypeOK
    <3>5. execs[k] > 0
      BY <2>1, <3>2, <3>4 DEF Persisted
    <3>6. Settled(cur)
      BY <3>1, <3>5 DEF Judged, Decided
    <3> QED
      BY <2>1, <3>6, InFlightUnsettled DEF StepPCs
  <2> QED
    BY <2>4, <2>5
<1> QED
  BY <1>2, <1>3

\* A step that decided to end the run (aborted, escalated, stopped, failed) is overtaken
\* only if the process died between its row and the closing of the run.
THEOREM GatesAreKept == Spec => []GatePassedOnlyByWindowCrash
<1>1. Init => GatePassedOnlyByWindowCrash
  <2> SUFFICES ASSUME Init PROVE GatePassedOnlyByWindowCrash
    OBVIOUS
  <2>1. \A k \in Keys : execs[k] = 0 /\ rows[k] = NoRow
    BY DEF Init
  <2> QED
    BY <2>1 DEF GatePassedOnlyByWindowCrash
<1> QED
  BY <1>1, PassedStep, GatesAlways, JudgedAlways, Invariance, PTL DEF Spec

(***************************************************************************)
(* Sums.  MapThenSumSet takes the elements of a set out one by one, by a   *)
(* function chosen to do so; what it returns is proved by looking for a    *)
(* smallest set of which it would not hold.  Total is the sum of what a    *)
(* function gives for the elements of a set.                               *)
(***************************************************************************)
\* What is taken next out of a set that is summed up.
Taken(S) == CHOOSE x \in S : TRUE
Sums(f, S, it) ==
  it = [s \in SUBSET S |-> IF s = {} THEN 0 ELSE f[Taken(s)] + it[s \ {Taken(s)}]]
Total(f, S) == (CHOOSE it : Sums(f, S, it))[S]

\* Of any subsets of a finite set, one has none of the others in it.
LEMMA Smallest ==
  ASSUME NEW S, IsFiniteSet(S), NEW B, B \subseteq SUBSET S, B # {}
  PROVE  \E T \in B : \A U \in B : U \subseteq T => U = T
<1>1. B \subseteq FiniteSubsetsOf(S)
  BY FS_FiniteSubsetsOfFinite
<1>2. PICK T \in B : \A U \in B : ~ (<<U, T>> \in StrictSubsetOrdering(S))
  BY <1>1, FS_StrictSubsetOrderingWellFounded, WFMin
<1>3. ASSUME NEW U \in B, U \subseteq T, U # T
      PROVE  FALSE
  <2>1. <<U, T>> \in StrictSubsetOrdering(S)
    BY <1>3 DEF StrictSubsetOrdering
  <2> QED
    BY <1>2, <2>1
<1> QED
  BY <1>3

LEMMA SumsUnfold ==
  ASSUME NEW f, NEW S, NEW it, Sums(f, S, it), NEW s \in SUBSET S
  PROVE  it[s] = IF s = {} THEN 0 ELSE f[Taken(s)] + it[s \ {Taken(s)}]
BY DEF Sums

LEMMA TakenIsIn == \A s : s # {} => Taken(s) \in s
BY DEF Taken

\* Two that sum up agree on what both sum up.
LEMMA SumsAgree ==
  ASSUME NEW f, NEW S, IsFiniteSet(S), NEW T, NEW U, S \subseteq T, S \subseteq U,
         NEW a, NEW b, Sums(f, T, a), Sums(f, U, b)
  PROVE  a[S] = b[S]
<1> SUFFICES ASSUME a[S] # b[S]
             PROVE  FALSE
  OBVIOUS
<1> DEFINE Bad == {s \in SUBSET S : a[s] # b[s]}
<1>1. Bad \in SUBSET SUBSET S /\ Bad # {}
  OBVIOUS
<1>2. PICK s \in Bad : \A u \in Bad : u \subseteq s => u = s
  <2> HIDE DEF Bad
  <2> QED
    BY <1>1, Smallest
<1> DEFINE u == s \ {Taken(s)}
<1>3. s \in SUBSET T /\ s \in SUBSET U /\ a[s] # b[s]
  OBVIOUS
<1>4. /\ a[s] = IF s = {} THEN 0 ELSE f[Taken(s)] + a[u]
      /\ b[s] = IF s = {} THEN 0 ELSE f[Taken(s)] + b[u]
  <2>1. a[s] = IF s = {} THEN 0 ELSE f[Taken(s)] + a[u]
    BY <1>3, SumsUnfold
  <2>2. b[s] = IF s = {} THEN 0 ELSE f[Taken(s)] + b[u]
    BY <1>3, SumsUnfold
  <2> QED
    BY <2>1, <2>2
<1>5. s # {} /\ u \subseteq s /\ u # s
  BY <1>3, <1>4, TakenIsIn
<1>6. a[u] = b[u]
  BY <1>2, <1>5
<1> QED
  BY <1>3, <1>4, <1>6

\* Summing up a finite set is well defined.
LEMMA SumsExist ==
  ASSUME NEW f, NEW S, IsFiniteSet(S)
  PROVE  \E it : Sums(f, S, it)
<1> SUFFICES ASSUME ~ \E it : Sums(f, S, it)
             PROVE  FALSE
  OBVIOUS
<1> DEFINE Bad == {s \in SUBSET S : ~ \E it : Sums(f, s, it)}
           It(s) == CHOOSE it : Sums(f, s, it)
<1>1. Bad \in SUBSET SUBSET S /\ Bad # {}
  OBVIOUS
<1>2. PICK T \in Bad : \A u \in Bad : u \subseteq T => u = T
  <2> HIDE DEF Bad
  <2> QED
    BY <1>1, Smallest
<1> DEFINE Others(s) == s \ {Taken(s)}
           h == [s \in SUBSET T |-> IF s = {} THEN 0 ELSE f[Taken(s)] + It(Others(s))[Others(s)]]
<1>3. \A u \in SUBSET T : u # T => Sums(f, u, It(u))
  BY <1>2
<1>4. \A s \in SUBSET T : s # {} => Others(s) \in SUBSET T /\ Others(s) # T
  BY TakenIsIn
<1>5. \A u \in SUBSET T : IsFiniteSet(u)
  BY <1>2, FS_Subset
<1>6. ASSUME NEW w \in SUBSET T, w # T
      PROVE  It(w)[w] = h[w]
  <2>1. Sums(f, w, It(w))
    BY <1>3, <1>6
  <2>2. It(w)[w] = IF w = {} THEN 0 ELSE f[Taken(w)] + It(w)[Others(w)]
    BY <2>1, SumsUnfold
  <2>3. w # {} => It(w)[Others(w)] = It(Others(w))[Others(w)]
    <3> SUFFICES ASSUME w # {} PROVE It(w)[Others(w)] = It(Others(w))[Others(w)]
      OBVIOUS
    <3>1. Sums(f, Others(w), It(Others(w))) /\ IsFiniteSet(Others(w)) /\ Others(w) \subseteq w
      BY <1>3, <1>4, <1>5
    <3> QED
      BY <2>1, <3>1, SumsAgree
  <2> QED
    BY <2>2, <2>3
<1>7. Sums(f, T, h)
  <2> SUFFICES h = [s \in SUBSET T |-> IF s = {} THEN 0 ELSE f[Taken(s)] + h[Others(s)]]
    BY DEF Sums
  <2>1. \A s \in SUBSET T : s # {} => It(Others(s))[Others(s)] = h[Others(s)]
    BY <1>4, <1>6
  <2>2. \A s \in SUBSET T :
          h[s] = IF s = {} THEN 0 ELSE f[Taken(s)] + It(Others(s))[Others(s)]
    OBVIOUS
  <2>3. h = [s \in SUBSET T |-> h[s]]
    OBVIOUS
  <2> HIDE DEF h
  <2> QED
    BY <2>1, <2>2, <2>3
<1> QED
  BY <1>2, <1>7

\* So a sum is that of an element and the rest.
LEMMA TotalUnfold ==
  ASSUME NEW f, NEW S, IsFiniteSet(S)
  PROVE  Total(f, S) = IF S = {} THEN 0 ELSE f[Taken(S)] + Total(f, S \ {Taken(S)})
<1> DEFINE It(s) == CHOOSE it : Sums(f, s, it)
           R == S \ {Taken(S)}
<1>1. IsFiniteSet(R) /\ R \subseteq S
  BY FS_Subset
<1>2. Sums(f, S, It(S)) /\ Sums(f, R, It(R))
  BY <1>1, SumsExist
<1>3. It(S)[R] = It(R)[R]
  BY <1>1, <1>2, SumsAgree
<1>4. It(S)[S] = IF S = {} THEN 0 ELSE f[Taken(S)] + It(S)[R]
  BY <1>2, SumsUnfold
<1> QED
  BY <1>3, <1>4 DEF Total

\* The sum of whole numbers is one; of naturals, a natural.
LEMMA TotalType ==
  ASSUME NEW S, IsFiniteSet(S), NEW f, NEW Numbers, Numbers \in {Nat, Int},
         \A x \in S : f[x] \in Numbers
  PROVE  Total(f, S) \in Numbers
<1> SUFFICES ASSUME Total(f, S) \notin Numbers
             PROVE  FALSE
  OBVIOUS
<1> DEFINE Bad == {s \in SUBSET S : Total(f, s) \notin Numbers}
<1>1. Bad \in SUBSET SUBSET S /\ Bad # {}
  OBVIOUS
<1>2. PICK s \in Bad : \A u \in Bad : u \subseteq s => u = s
  <2> HIDE DEF Bad
  <2> QED
    BY <1>1, Smallest
<1>3. Total(f, s) = IF s = {} THEN 0 ELSE f[Taken(s)] + Total(f, s \ {Taken(s)})
  BY <1>2, FS_Subset, TotalUnfold
<1>4. s # {}
  BY <1>2, <1>3
<1>5. s \ {Taken(s)} \subseteq s /\ s \ {Taken(s)} # s /\ Taken(s) \in S
  BY <1>2, <1>4, TakenIsIn
<1>6. Total(f, s \ {Taken(s)}) \in Numbers /\ f[Taken(s)] \in Numbers
  BY <1>2, <1>5
<1> QED
  BY <1>2, <1>3, <1>4, <1>6


\* Any element may be taken out first.
LEMMA TotalOut ==
  ASSUME NEW S, IsFiniteSet(S), NEW f, \A y \in S : f[y] \in Int, NEW x \in S
  PROVE  Total(f, S) = f[x] + Total(f, S \ {x})
<1> DEFINE Fine(s) == \A y \in s : Total(f, s) = f[y] + Total(f, s \ {y})
           Bad == {s \in SUBSET S : ~ Fine(s)}
<1>1. ASSUME NEW s \in SUBSET S
      PROVE  IsFiniteSet(s) /\ Total(f, s) \in Int
  BY FS_Subset, TotalType
<1>2. ASSUME Bad # {} PROVE FALSE
  <2>1. Bad \in SUBSET SUBSET S
    OBVIOUS
  <2>2. PICK s \in Bad : \A u \in Bad : u \subseteq s => u = s
    <3> HIDE DEF Bad
    <3> QED
      BY <1>2, <2>1, Smallest
  <2>3. PICK y \in s : Total(f, s) # f[y] + Total(f, s \ {y})
    BY <2>2
  <2> DEFINE t == Taken(s)
             u == s \ {t}
             v == s \ {y}
  <2>4. t \in s /\ t \in S /\ y \in S /\ s \in SUBSET S
    BY <2>2, <2>3, TakenIsIn
  <2>5. Total(f, s) = f[t] + Total(f, u)
    BY <1>1, <2>4, TotalUnfold
  <2>6. y # t
    BY <2>3, <2>5
  <2>7. u \in SUBSET S /\ v \in SUBSET S /\ u # s /\ v # s /\ y \in u /\ t \in v
    BY <2>3, <2>4, <2>6
  <2>8. Fine(u) /\ Fine(v)
    BY <2>2, <2>7
  <2>9. Total(f, u) = f[y] + Total(f, u \ {y}) /\ Total(f, v) = f[t] + Total(f, v \ {t})
    BY <2>7, <2>8
  <2>10. u \ {y} = v \ {t} /\ u \ {y} \in SUBSET S
    BY <2>4
  <2>11. Total(f, u \ {y}) \in Int /\ f[y] \in Int /\ f[t] \in Int
    BY <1>1, <2>4, <2>10
  <2>12. Total(f, s) # f[y] + Total(f, v)
    BY <2>3
  <2> DEFINE w == u \ {y}
  <2>13. Total(f, u) = f[y] + Total(f, w) /\ Total(f, v) = f[t] + Total(f, w)
    BY <2>9, <2>10
  <2>14. Total(f, w) \in Int
    BY <2>11
  <2> HIDE DEF t, u, v, w
  <2> QED
    BY <2>5, <2>11, <2>12, <2>13, <2>14
<1> QED
  BY <1>2

\* What is nowhere more adds up to no more.
LEMMA TotalAtMost ==
  ASSUME NEW S, IsFiniteSet(S), NEW f, NEW g,
         \A x \in S : f[x] \in Int /\ g[x] \in Int /\ f[x] <= g[x]
  PROVE  Total(f, S) <= Total(g, S)
<1> DEFINE Bad == {s \in SUBSET S : ~ (Total(f, s) <= Total(g, s))}
<1>1. ASSUME NEW s \in SUBSET S
      PROVE  IsFiniteSet(s) /\ Total(f, s) \in Int /\ Total(g, s) \in Int
  BY FS_Subset, TotalType
<1>2. ASSUME Bad # {} PROVE FALSE
  <2>1. Bad \in SUBSET SUBSET S
    OBVIOUS
  <2>2. PICK s \in Bad : \A u \in Bad : u \subseteq s => u = s
    <3> HIDE DEF Bad
    <3> QED
      BY <1>2, <2>1, Smallest
  <2> DEFINE u == s \ {Taken(s)}
  <2>3. /\ Total(f, s) = IF s = {} THEN 0 ELSE f[Taken(s)] + Total(f, u)
        /\ Total(g, s) = IF s = {} THEN 0 ELSE g[Taken(s)] + Total(g, u)
    BY <1>1, <2>2, TotalUnfold
  <2>4. s # {}
    BY <2>2, <2>3
  <2>5. u \in SUBSET S /\ u \subseteq s /\ u # s /\ Taken(s) \in S
    BY <2>2, <2>4, TakenIsIn
  <2>6. Total(f, u) <= Total(g, u)
    BY <2>2, <2>5
  <2>7. /\ f[Taken(s)] \in Int /\ g[Taken(s)] \in Int /\ f[Taken(s)] <= g[Taken(s)]
        /\ Total(f, u) \in Int /\ Total(g, u) \in Int
    BY <1>1, <2>5
  <2> HIDE DEF u
  <2> QED
    BY <2>2, <2>3, <2>4, <2>6, <2>7
<1> QED
  BY <1>1, <1>2

\* Zeros add up to zero.
LEMMA TotalZero ==
  ASSUME NEW S, IsFiniteSet(S), NEW f, \A x \in S : f[x] = 0
  PROVE  Total(f, S) = 0
<1> SUFFICES ASSUME Total(f, S) # 0
             PROVE  FALSE
  OBVIOUS
<1> DEFINE Bad == {s \in SUBSET S : Total(f, s) # 0}
<1>1. Bad \in SUBSET SUBSET S /\ Bad # {}
  OBVIOUS
<1>2. PICK s \in Bad : \A u \in Bad : u \subseteq s => u = s
  <2> HIDE DEF Bad
  <2> QED
    BY <1>1, Smallest
<1>3. Total(f, s) = IF s = {} THEN 0 ELSE f[Taken(s)] + Total(f, s \ {Taken(s)})
  BY <1>2, FS_Subset, TotalUnfold
<1>4. s # {}
  BY <1>2, <1>3
<1>5. s \ {Taken(s)} \subseteq s /\ s \ {Taken(s)} # s /\ Taken(s) \in S
  BY <1>2, <1>4, TakenIsIn
<1>6. Total(f, s \ {Taken(s)}) = 0 /\ f[Taken(s)] = 0
  BY <1>2, <1>5
<1> QED
  BY <1>2, <1>3, <1>4, <1>6

\* A sum grows by what is written at one place.
LEMMA TotalWrite ==
  ASSUME NEW S, IsFiniteSet(S), NEW f, NEW g, NEW k \in S,
         \A x \in S : f[x] \in Int /\ g[x] \in Int /\ (x # k => f[x] = g[x])
  PROVE  Total(g, S) = Total(f, S) - f[k] + g[k]
<1> DEFINE R == S \ {k}
<1>1. IsFiniteSet(R) /\ R \subseteq S
  BY FS_Subset
<1>2. Total(f, R) \in Int /\ Total(g, R) \in Int
  BY <1>1, TotalType
<1>3. Total(f, R) <= Total(g, R)
  <2>1. \A x \in R : f[x] \in Int /\ g[x] \in Int /\ f[x] <= g[x]
    OBVIOUS
  <2> HIDE DEF R
  <2> QED
    BY <1>1, <2>1, TotalAtMost
<1>4. Total(g, R) <= Total(f, R)
  <2>1. \A x \in R : f[x] \in Int /\ g[x] \in Int /\ g[x] <= f[x]
    OBVIOUS
  <2> HIDE DEF R
  <2> QED
    BY <1>1, <2>1, TotalAtMost
<1>5. Total(f, S) = f[k] + Total(f, R) /\ Total(g, S) = g[k] + Total(g, R)
  BY TotalOut
<1> HIDE DEF R
<1> QED
  BY <1>2, <1>3, <1>4, <1>5

\* What the code adds up are totals.
LEMMA TokensAreTotal == Tokens(Keys) = Total([k \in Keys |-> rows[k].tok], Keys)
<1> DEFINE f == [r \in Keys |-> rows[r].tok]
           Body(it) == [s \in SUBSET Keys |-> IF s = {} THEN 0 ELSE rows[Taken(s)].tok + it[s \ {Taken(s)}]]
<1>1. \A s \in SUBSET Keys : s # {} => Taken(s) \in Keys
  BY DEF Taken
<1>2. ASSUME NEW it PROVE Sums(f, Keys, it) <=> it = Body(it)
  BY <1>1 DEF Sums
<1>3. (CHOOSE it : Sums(f, Keys, it)) = (CHOOSE it : it = Body(it))
  BY <1>2
<1>4. Tokens(Keys) = (CHOOSE it : it = Body(it))[Keys]
  BY DEF Tokens, MapThenSumSet, MapThenFoldSet, Taken
<1> QED
  BY <1>3, <1>4 DEF Total

LEMMA CountedIsTotal == CountedTokens = Total([k \in Keys |-> Counted(k)], Keys)
<1> DEFINE f == [r \in Keys |-> Counted(r)]
           Body(it) == [s \in SUBSET Keys |-> IF s = {} THEN 0 ELSE Counted(Taken(s)) + it[s \ {Taken(s)}]]
<1>1. \A s \in SUBSET Keys : s # {} => Taken(s) \in Keys
  BY DEF Taken
<1>2. ASSUME NEW it PROVE Sums(f, Keys, it) <=> it = Body(it)
  BY <1>1 DEF Sums
<1>3. (CHOOSE it : Sums(f, Keys, it)) = (CHOOSE it : it = Body(it))
  BY <1>2
<1>4. CountedTokens = (CHOOSE it : it = Body(it))[Keys]
  BY DEF CountedTokens, MapThenSumSet, MapThenFoldSet, Taken
<1> QED
  BY <1>3, <1>4 DEF Total

LEMMA CountedNext == CountedTokens' = Total([k \in Keys' |-> Counted(k)'], Keys')
<1> DEFINE f == [r \in Keys' |-> Counted(r)']
           Body(it) == [s \in SUBSET Keys' |-> IF s = {} THEN 0 ELSE Counted(Taken(s))' + it[s \ {Taken(s)}]]
<1>1. \A s \in SUBSET Keys' : s # {} => Taken(s) \in Keys'
  BY DEF Taken
<1>2. ASSUME NEW it PROVE Sums(f, Keys', it) <=> it = Body(it)
  BY <1>1 DEF Sums
<1>3. (CHOOSE it : Sums(f, Keys', it)) = (CHOOSE it : it = Body(it))
  BY <1>2
<1>4. CountedTokens' = (CHOOSE it : it = Body(it))[Keys']
  BY DEF CountedTokens, MapThenSumSet, MapThenFoldSet, Taken
<1> QED
  BY <1>3, <1>4 DEF Total

(***************************************************************************)
(* The budget.  In every life the loop has counted at least the tokens of  *)
(* the rows, but for the verifiers of branches; so it overruns the budget  *)
(* only where it does not look: at the start of a life that loads too      *)
(* much, and after a failure it continues past.                            *)
(***************************************************************************)
\* A branch's row holds the tokens of both its calls, or of none.
BranchRows ==
  \A k \in Keys : ~IsStep(k[1]) => rows[k].tok \in {0, Units[k[1]].tok + Units[k[1]].vtok}

\* What the branches whose rows are not written yet will add.
Owed == Units[cur].tok * Cardinality({k \in DOMAIN got : got[k] # "error"})

\* The loop has counted what the rows hold; before a unit is started with the budget
\* exceeded, there was a crash or a failure continued past that none has been started for.
Budget ==
  /\ spent \in Nat
  /\ pc \in {"head", "exec", "asking", "waiting", "save", "gather"} => CountedTokens <= spent
  /\ pc = "saveBranches" => CountedTokens + Owed <= spent + result.tok
  /\ pc = "gate" => CountedTokens <= spent + result.tok
  /\ pc \in {"head", "asking"} /\ OverBudget(CountedTokens) => overruns < crashes + continued
  /\ pc \in {"down", "load"} => overruns < crashes + continued
  /\ overruns <= crashes + continued

LEMMA KeysFinite ==
  ASSUME pipeline \in Pipelines
  PROVE  IsFiniteSet(Keys)
<1> DEFINE all == {KeysOf(i) : i \in Ids}
<1>1. IsFiniteSet(Ids)
  <2>1. Ids = 1..Len(Units) /\ Len(Units) \in Nat
    BY UnitType
  <2>2. 1 \in Int /\ Len(Units) \in Int
    BY <2>1
  <2> QED
    BY <2>1, <2>2, FS_Interval
<1>2. IsFiniteSet(all)
  <2> DEFINE f == [i \in Ids |-> KeysOf(i)]
  <2>1. f \in Surjection(Ids, all)
    BY DEF Surjection
  <2> HIDE DEF f, all
  <2> QED
    BY <1>1, <2>1, FS_Surjection
<1>3. \A s \in all : IsFiniteSet(s)
  BY KeysOfFinite
<1> QED
  BY <1>2, <1>3, FS_UNION DEF Keys

LEMMA TokTypes ==
  ASSUME TypeOK
  PROVE  /\ \A i \in Ids : Units[i].tok \in Nat /\ Units[i].vtok \in Nat
         /\ MaxTokens \in Nat
         /\ \A k \in Keys : /\ k[1] \in Ids /\ rows[k].tok \in Nat /\ Counted(k) \in Nat
                            /\ rows[k] = NoRow => Counted(k) = 0
<1>1. \A i \in Ids : Units[i].tok \in Nat /\ Units[i].vtok \in Nat
  <2> SUFFICES ASSUME NEW i \in Ids PROVE Units[i].tok \in Nat /\ Units[i].vtok \in Nat
    OBVIOUS
  <2>1. Units[i] \in Unit
    BY UnitType DEF TypeOK
  <2> QED
    BY <2>1 DEF Unit
<1>2. MaxTokens \in Nat
  BY PipelinesAssumption DEF TypeOK, MaxTokens, Pipeline
<1>3. ASSUME NEW k \in Keys
      PROVE  /\ k[1] \in Ids /\ rows[k].tok \in Nat /\ Counted(k) \in Nat
             /\ rows[k] = NoRow => Counted(k) = 0
  <2>1. k[1] \in Ids
    BY KeyFacts
  <2>2. rows[k] \in Row \cup {NoRow}
    BY DEF TypeOK
  <2>3. rows[k].tok \in Nat /\ (rows[k] = NoRow => rows[k].tok = 0)
    BY <2>2 DEF Row, NoRow
  <2> QED
    BY <1>1, <2>1, <2>3 DEF Counted
<1> QED
  BY <1>1, <1>2, <1>3

\* A resume counts at least what the life before it had.
LEMMA CountedBelowTokens ==
  ASSUME TypeOK, BranchRows
  PROVE  CountedTokens \in Nat /\ Tokens(Keys) \in Nat /\ CountedTokens <= Tokens(Keys)
<1> DEFINE f == [k \in Keys |-> Counted(k)]
           g == [k \in Keys |-> rows[k].tok]
<1>1. IsFiniteSet(Keys)
  BY KeysFinite DEF TypeOK
<1>2. \A k \in Keys : f[k] \in Nat /\ g[k] \in Nat /\ f[k] <= g[k]
  <2> SUFFICES ASSUME NEW k \in Keys
               PROVE  Counted(k) \in Nat /\ rows[k].tok \in Nat /\ Counted(k) <= rows[k].tok
    OBVIOUS
  <2>1. /\ Counted(k) \in Nat /\ rows[k].tok \in Nat
        /\ Units[k[1]].tok \in Nat /\ Units[k[1]].vtok \in Nat
    BY TokTypes
  <2>2. CASE IsStep(k[1]) \/ rows[k].tok = 0
    BY <2>1, <2>2 DEF Counted
  <2>3. CASE ~(IsStep(k[1]) \/ rows[k].tok = 0)
    <3>1. rows[k].tok = Units[k[1]].tok + Units[k[1]].vtok /\ Counted(k) = Units[k[1]].tok
      BY <2>3 DEF BranchRows, Counted
    <3> QED
      BY <2>1, <3>1
  <2> QED
    BY <2>2, <2>3
<1>3. CountedTokens = Total(f, Keys) /\ Tokens(Keys) = Total(g, Keys)
  BY CountedIsTotal, TokensAreTotal
<1> HIDE DEF f, g
<1>4. Total(f, Keys) \in Nat /\ Total(g, Keys) \in Nat
  BY <1>1, <1>2, TotalType
<1>5. Total(f, Keys) <= Total(g, Keys)
  BY <1>1, <1>2, TotalAtMost
<1> QED
  BY <1>3, <1>4, <1>5

LEMMA CountedFrame ==
  ASSUME UNCHANGED <<rows, pipeline>>
  PROVE  CountedTokens' = CountedTokens
<1>1. Keys' = Keys /\ \A k : Counted(k)' = Counted(k)
  BY Static DEF Counted
<1>2. [k \in Keys |-> Counted(k)] = [k \in Keys |-> Counted(k)']
  BY <1>1
<1> QED
  BY <1>1, <1>2, CountedIsTotal, CountedNext

LEMMA CountedWrite ==
  ASSUME TypeOK, UNCHANGED pipeline, NEW k \in Keys, rows[k] = NoRow,
         NEW r \in Row, rows' = [rows EXCEPT ![k] = r]
  PROVE  CountedTokens' = CountedTokens + Counted(k)'
<1> DEFINE f == [j \in Keys |-> Counted(j)]
           g == [j \in Keys |-> Counted(j)']
<1>1. IsFiniteSet(Keys)
  BY KeysFinite DEF TypeOK
<1>2. Keys' = Keys /\ Units' = Units /\ \A i : IsStep(i)' = IsStep(i)
  BY Static
<1>3. CountedTokens = Total(f, Keys) /\ CountedTokens' = Total(g, Keys)
  BY <1>2, CountedIsTotal, CountedNext
<1>4. \A j \in Keys : f[j] \in Nat /\ g[j] \in Nat /\ (j # k => f[j] = g[j])
  <2> SUFFICES ASSUME NEW j \in Keys
               PROVE  Counted(j) \in Nat /\ Counted(j)' \in Nat /\ (j # k => Counted(j) = Counted(j)')
    OBVIOUS
  <2>1. /\ Counted(j) \in Nat /\ rows[j].tok \in Nat /\ Units[j[1]].tok \in Nat
    BY TokTypes
  <2>2. rows'[j] = IF j = k THEN r ELSE rows[j]
    BY DEF TypeOK
  <2>3. rows'[j].tok \in Nat
    BY <2>1, <2>2 DEF Row
  <2> QED
    BY <1>2, <2>1, <2>2, <2>3 DEF Counted
<1>5. f[k] = 0 /\ g[k] = Counted(k)'
  BY TokTypes
<1> HIDE DEF f, g
<1>6. Total(f, Keys) \in Nat
  BY <1>1, <1>4, TotalType
<1>7. Total(g, Keys) = Total(f, Keys) - f[k] + g[k]
  BY <1>1, <1>4, TotalWrite
<1> QED
  BY <1>3, <1>4, <1>5, <1>6, <1>7

\* Which steps write rows.
LEMMA RowWriters ==
  ASSUME Next
  PROVE  UNCHANGED rows \/ SaveStep \/ \E k \in Keys : SaveBranch(k)
<1>1. ASSUME NEW i \in Ids,
             \/ SkipPersisted(i) \/ SkipWhen(i) \/ BeginStep(i) \/ BeginHuman(i)
             \/ RearmHuman(i) \/ EscalateStep(i) \/ ResolveFanOut(i)
             \/ EscalateGroup(i) \/ BeginGroup(i)
      PROVE  UNCHANGED rows
  BY <1>1 DEF SkipPersisted, SkipWhen, BeginStep, BeginHuman, RearmHuman,
     EscalateStep, ResolveFanOut, EscalateGroup, BeginGroup, db
<1>2. ASSUME NEW val \in Vals, FinishStep(val) \/ Decide(val) PROVE UNCHANGED rows
  BY <1>2 DEF FinishStep, Decide, db
<1>3. CASE \/ SendRequest \/ GatherBranches \/ GroupTimeout \/ JoinGroup \/ GateStops
           \/ GateContinues \/ GatePasses \/ Notify \/ EndOfSteps \/ CompleteRun
           \/ LoadRun \/ Recovery \/ TaskRaises \/ Crash \/ StopWhileWaiting
  <2>1. UNCHANGED rows
    BY <1>3 DEF SendRequest, GatherBranches, GroupTimeout, JoinGroup, GateStops,
       GateContinues, GatePasses, Notify, EndOfSteps, CompleteRun, LoadRun, Recovery,
       SweepResumes, SweepInterrupts, TaskRaises, Crash, StopWhileWaiting, db
  <2> QED
    BY <2>1
<1> QED
  BY <1>1, <1>2, <1>3 DEF Next, StepLoop

LEMMA BranchRowsStep == IInv /\ BranchRows /\ [Next]_vars => BranchRows'
<1> SUFFICES ASSUME IInv, BranchRows, [Next]_vars PROVE BranchRows'
  OBVIOUS
<1>0. /\ Keys' = Keys /\ Units' = Units /\ \A i : IsStep(i)' = IsStep(i)
      /\ rows \in [Keys -> Row \cup {NoRow}]
  BY Static DEF Next, vars, IInv, TypeOK
<1>1. CASE UNCHANGED rows
  BY <1>0, <1>1 DEF BranchRows
<1>2. CASE SaveStep
  <2>1. IsStep(cur)
    BY <1>2 DEF SaveStep, IInv, Control, StepPCs
  <2>2. \A k \in Keys : ~IsStep(k[1]) => k # <<cur, 0>>
    BY <2>1
  <2>3. \A k \in Keys : ~IsStep(k[1]) => rows'[k] = rows[k]
    BY <1>0, <1>2, <2>2 DEF SaveStep
  <2> QED
    BY <1>0, <2>3 DEF BranchRows
<1>3. ASSUME NEW j \in Keys, SaveBranch(j) PROVE BranchRows'
  <2> DEFINE n == IF got[j] = "error" THEN 0 ELSE Units[cur].tok + Units[cur].vtok
  <2>1. j[1] = cur
    BY <1>3, KeyFacts DEF SaveBranch, IInv, InFlight
  <2>2. \A k \in Keys : rows'[k].tok = IF k = j THEN n ELSE rows[k].tok
    <3> DEFINE r == [status |-> IF got[j] = "error" THEN "failed" ELSE "completed",
                     val |-> got[j], tok |-> n]
    <3>1. rows' = [rows EXCEPT ![j] = r]
      BY <1>3 DEF SaveBranch
    <3>2. r.tok = n
      OBVIOUS
    <3> HIDE DEF r, n
    <3> QED
      BY <1>0, <3>1, <3>2
  <2>3. n \in {0, Units[j[1]].tok + Units[j[1]].vtok}
    BY <2>1
  <2> HIDE DEF n
  <2> QED
    BY <1>0, <2>2, <2>3 DEF BranchRows
<1> QED
  BY <1>0, <1>1, <1>2, <1>3, RowWriters DEF vars, db

LEMMA BudgetFrame ==
  ASSUME IInv, BranchRows, Next
  PROVE  /\ UNCHANGED rows => CountedTokens' = CountedTokens
         /\ CountedTokens \in Nat /\ Tokens(Keys) \in Nat /\ CountedTokens <= Tokens(Keys)
         /\ MaxTokens' = MaxTokens /\ MaxTokens \in Nat
         /\ result.tok \in Nat /\ overruns \in Nat /\ continued \in Nat /\ crashes \in Nat
<1>1. UNCHANGED pipeline
  BY DEF Next
<1> QED
  BY <1>1, CountedFrame, CountedBelowTokens, TokTypes, Static DEF IInv, TypeOK, Result

LEMMA OwedType ==
  ASSUME IInv, pc = "saveBranches"
  PROVE  /\ IsFiniteSet(DOMAIN got) /\ cur \in Ids /\ Owed \in Nat
         /\ \A k \in DOMAIN got : k[1] = cur
<1>1. cur \in Ids /\ pipeline \in Pipelines /\ DOMAIN got \subseteq KeysOf(cur)
  BY DEF IInv, Control, GroupPCs, InFlight, TypeOK
<1>2. IsFiniteSet(DOMAIN got)
  BY <1>1, KeysOfFinite, FS_Subset
<1> DEFINE good == {k \in DOMAIN got : got[k] # "error"}
<1>3. IsFiniteSet(good)
  BY <1>2, FS_Subset
<1>4. Cardinality(good) \in Nat
  BY <1>3, FS_CardinalityType
<1>5. Units[cur].tok \in Nat
  BY <1>1, TokTypes DEF IInv
<1>6. Owed = Units[cur].tok * Cardinality(good)
  BY DEF Owed
<1> HIDE DEF good
<1>7. Owed \in Nat
  BY <1>4, <1>5, <1>6
<1> QED
  BY <1>1, <1>2, <1>7, KeyFacts

\* A branch's row is paid for by what was owed.
LEMMA BranchPays ==
  ASSUME IInv, BranchRows, UNCHANGED pipeline, NEW k \in Keys, SaveBranch(k)
  PROVE  CountedTokens' + Owed' = CountedTokens + Owed
<1> DEFINE t == Units[cur].tok
           v == Units[cur].vtok
           good == {j \in DOMAIN got : got[j] # "error"}
           n == IF got[k] = "error" THEN 0 ELSE t + v
           r == [status |-> IF got[k] = "error" THEN "failed" ELSE "completed",
                 val |-> got[k], tok |-> n]
<1>0. /\ pc = "saveBranches" /\ cur \in Ids /\ HasBranches(cur) /\ k \in DOMAIN got
      /\ k[1] = cur /\ rows[k] = NoRow /\ got[k] \in Vals
      /\ UNCHANGED cur /\ Units' = Units /\ IsStep(cur)' = IsStep(cur)
  BY KeyFacts, Static DEF SaveBranch, IInv, Control, GroupPCs, InFlight, Persisted, TypeOK
<1>1. t \in Nat /\ v \in Nat
  BY <1>0, TokTypes DEF IInv
<1>2. rows' = [rows EXCEPT ![k] = r]
  BY DEF SaveBranch
<1>3. r \in Row
  BY <1>0, <1>1 DEF Row, Statuses
<1>4. CountedTokens' = CountedTokens + Counted(k)'
  BY <1>0, <1>2, <1>3, CountedWrite DEF IInv
<1>5. Counted(k)' = IF got[k] = "error" THEN 0 ELSE t
  <2>1. rows'[k].tok = n
    <3>1. rows'[k] = r /\ r.tok = n
      BY <1>2 DEF IInv, TypeOK
    <3> HIDE DEF r, n
    <3> QED
      BY <3>1
  <2>2. ~IsStep(k[1])' /\ Units'[k[1]].tok = t
    BY <1>0 DEF HasBranches
  <2>3. Counted(k)' = IF n = 0 THEN 0 ELSE t
    BY <2>1, <2>2 DEF Counted
  <2> QED
    BY <1>1, <2>3
<1> DEFINE rest == {j \in DOMAIN got \ {k} : got[j] # "error"}
<1>6. Owed' = t * Cardinality(rest)
  <2>1. DOMAIN got' = DOMAIN got \ {k} /\ \A j \in DOMAIN got' : got'[j] = got[j]
    BY DEF SaveBranch
  <2>2. {j \in DOMAIN got' : got'[j] # "error"} = rest
    BY <2>1
  <2> HIDE DEF rest
  <2> QED
    BY <1>0, <2>2 DEF Owed
<1>7. Owed = t * Cardinality(good)
  BY DEF Owed
<1>8. IsFiniteSet(good) /\ Cardinality(good) \in Nat
  <2>1. IsFiniteSet(good)
    BY <1>0, OwedType, FS_Subset
  <2> HIDE DEF good
  <2> QED
    BY <2>1, FS_CardinalityType
<1>9. CountedTokens \in Nat
  BY CountedBelowTokens DEF IInv
<1>10. CASE got[k] = "error"
  <2>1. rest = good
    BY <1>10
  <2>2. t * Cardinality(good) \in Nat
    BY <1>1, <1>8
  <2> HIDE DEF rest, good, t
  <2> QED
    BY <1>4, <1>5, <1>6, <1>7, <1>9, <1>10, <2>1, <2>2
<1>11. CASE got[k] # "error"
  <2>1. rest = good \ {k} /\ k \in good
    BY <1>0, <1>11
  <2>2. Cardinality(rest) = Cardinality(good) - 1
    <3> HIDE DEF rest, good
    <3> QED
      BY <1>8, <2>1, FS_RemoveElement
  <2> DEFINE c == Cardinality(good)
             d == Cardinality(rest)
  <2> HIDE DEF rest, good, t, c, d
  <2>3. c \in Nat /\ t \in Nat /\ d = c - 1
    BY <1>1, <1>8, <2>2 DEF c, d
  <2>4. t * c = t * d + t /\ t * c \in Nat /\ t * d \in Int
    BY <2>3, Z3
  <2> QED
    BY <1>1, <1>4, <1>5, <1>6, <1>7, <1>9, <1>11, <2>4 DEF c, d
<1> QED
  BY <1>10, <1>11

\* Starting the executors of some keys adds at most the one overrun allowed for.
LEMMA BeginPays ==
  ASSUME IInv, BranchRows, Budget, Next, NEW S, Begin(S), UNCHANGED <<crashes, continued>>,
         pc \in {"head", "asking"}
  PROVE  overruns' \in Nat /\ overruns' <= crashes' + continued'
<1>1. overruns' = IF S # {} /\ OverBudget(CountedTokens) THEN overruns + 1 ELSE overruns
  BY DEF Begin
<1>2. /\ OverBudget(CountedTokens) => overruns < crashes + continued
      /\ overruns <= crashes + continued
  BY DEF Budget
<1> QED
  BY <1>1, <1>2, BudgetFrame

LEMMA BudgetStep == IInv /\ BranchRows /\ Budget /\ [Next]_vars => Budget'
<1> SUFFICES ASSUME IInv, BranchRows, Budget, Next PROVE Budget'
  <2>1. CASE UNCHANGED vars
    <3>1. CountedTokens' = CountedTokens /\ MaxTokens' = MaxTokens /\ Owed' = Owed
      BY <2>1, CountedFrame, Static DEF vars, db, Owed
    <3> QED
      BY <2>1, <3>1 DEF vars, loop, history, Budget, OverBudget
  <2> QED
    BY <2>1
<1> DEFINE same == UNCHANGED <<rows, spent, overruns, continued, crashes>>
<1>0. /\ UNCHANGED rows => CountedTokens' = CountedTokens
      /\ CountedTokens \in Nat /\ MaxTokens' = MaxTokens /\ MaxTokens \in Nat
      /\ result.tok \in Nat /\ overruns \in Nat /\ continued \in Nat /\ crashes \in Nat
      /\ UNCHANGED pipeline
      /\ \A i : IsStep(i)' = IsStep(i)
  BY BudgetFrame, Static DEF Next
<1>1. ASSUME NEW i \in Ids, SkipPersisted(i) \/ SkipWhen(i) PROVE Budget'
  <2>1. same /\ pc = "head" /\ pc' = "head"
    BY <1>1 DEF SkipPersisted, SkipWhen, AtHead, NextUnit, db, history
  <2> QED
    BY <1>0, <2>1 DEF Budget, OverBudget
<1>2. ASSUME NEW i \in Ids, BeginStep(i) \/ BeginGroup(i) PROVE Budget'
  <2>1. PICK S : Begin(S)
    BY <1>2 DEF BeginStep, BeginGroup
  <2>2. /\ UNCHANGED <<rows, spent, continued, crashes>> /\ pc = "head"
        /\ pc' \in {"exec", "gather"}
    BY <1>2 DEF BeginStep, BeginGroup, Dispatch, AtHead, db
  <2>3. overruns' \in Nat /\ overruns' <= crashes' + continued'
    BY <2>1, <2>2, BeginPays
  <2> QED
    BY <1>0, <2>2, <2>3 DEF Budget
<1>3. ASSUME NEW i \in Ids, BeginHuman(i) PROVE Budget'
  <2>1. same /\ pc = "head" /\ pc' = "asking"
    BY <1>3 DEF BeginHuman, Dispatch, AtHead, history
  <2> QED
    BY <1>0, <2>1 DEF Budget, OverBudget
<1>4. ASSUME NEW i \in Ids, RearmHuman(i) \/ EscalateStep(i) PROVE Budget'
  <2>1. same /\ pc = "head" /\ pc' \in {"waiting", "save"}
    BY <1>4 DEF RearmHuman, EscalateStep, Dispatch, AtHead, db, history
  <2> QED
    BY <1>0, <2>1 DEF Budget
<1>5. ASSUME NEW i \in Ids, ResolveFanOut(i) \/ EscalateGroup(i) PROVE Budget'
  <2>1. same /\ pc = "head" /\ pc' = "gate" /\ result'.tok = 0
    BY <1>5 DEF ResolveFanOut, EscalateGroup, Dispatch, AtHead, db, history
  <2> QED
    BY <1>0, <2>1 DEF Budget
<1>6. ASSUME NEW val \in Vals, FinishStep(val) PROVE Budget'
  <2>1. same /\ pc = "exec" /\ pc' = "save"
    BY <1>6 DEF FinishStep, db, history
  <2> QED
    BY <1>0, <2>1 DEF Budget
<1>7. ASSUME NEW val \in Vals, Decide(val) PROVE Budget'
  <2>1. same /\ pc \in {"waiting", "asking"} /\ pc' = "save"
    BY <1>7 DEF Decide, history
  <2> QED
    BY <1>0, <2>1 DEF Budget
<1>8. ASSUME NEW k \in Keys, SaveBranch(k) PROVE Budget'
  <2>1. /\ UNCHANGED <<spent, result, overruns, continued, crashes>>
        /\ pc = "saveBranches" /\ pc' = "saveBranches"
    BY <1>8 DEF SaveBranch
  <2>2. CountedTokens' + Owed' = CountedTokens + Owed
    BY <1>0, <1>8, BranchPays
  <2> QED
    BY <1>0, <2>1, <2>2 DEF Budget
<1>9. CASE SendRequest
  <2>1. Begin(KeysOf(cur))
    BY <1>9 DEF SendRequest
  <2>2. UNCHANGED <<rows, spent, continued, crashes>> /\ pc = "asking" /\ pc' = "waiting"
    BY <1>9 DEF SendRequest, db
  <2>3. overruns' \in Nat /\ overruns' <= crashes' + continued'
    BY <2>1, <2>2, BeginPays
  <2> QED
    BY <1>0, <2>2, <2>3 DEF Budget
<1>10. CASE SaveStep
  <2>0. PICK k : k = <<cur, 0>>
    OBVIOUS
  <2> DEFINE r == [status |-> result.status, val |-> got[k], tok |-> result.tok]
  <2>1. /\ UNCHANGED <<spent, result, overruns, continued, crashes>>
        /\ pc = "save" /\ pc' = "gate" /\ rows' = [rows EXCEPT ![k] = r]
    BY <1>10, <2>0 DEF SaveStep
  <2>2. /\ cur \in Ids /\ IsStep(cur) /\ k \in Keys /\ rows[k] = NoRow
        /\ k \in DOMAIN got /\ result.status \in Statuses
    BY <2>0, <2>1, KeyFacts DEF IInv, Control, StepPCs, InFlight, Persisted
  <2>3. r \in Row
    BY <1>0, <2>2 DEF IInv, TypeOK, Row
  <2>4. CountedTokens' = CountedTokens + Counted(k)'
    <3> HIDE DEF r
    <3> QED
      BY <1>0, <2>1, <2>2, <2>3, CountedWrite DEF IInv
  <2>5. Counted(k)' = result.tok
    <3>1. cur' = cur /\ rows \in [Keys -> Row \cup {NoRow}]
      BY <1>10 DEF SaveStep, IInv, TypeOK
    <3>2. rows'[k] = r /\ r.tok = result.tok
      BY <2>1, <2>2, <3>1
    <3>3. k[1] = cur
      BY <2>0
    <3>4. IsStep(k[1])'
      BY <1>0, <2>2, <3>1, <3>3
    <3> HIDE DEF r
    <3>5. rows'[k].tok = result.tok
      BY <3>2
    <3> QED
      BY <3>1, <3>4, <3>5 DEF Counted
  <2> QED
    BY <1>0, <2>1, <2>4, <2>5 DEF Budget
<1>11. CASE GatherBranches
  <2>1. same /\ pc = "gather" /\ pc' = "saveBranches" /\ UNCHANGED cur
    BY <1>11 DEF GatherBranches, db, history
  <2>2. PICK f \in [Missing(cur) -> {"hi", "lo", "error"}] :
          /\ got' = f
          /\ result'.tok = Units[cur].tok
                           * Cardinality({k \in Missing(cur) : f[k] # "error"})
    BY <1>11 DEF GatherBranches
  <2>3. Owed' = result'.tok
    <3>1. Units'[cur'] = Units[cur] /\ DOMAIN got' = Missing(cur)
      BY <1>0, <2>1, <2>2, Static
    <3>2. Owed' = Units[cur].tok * Cardinality({k \in Missing(cur) : f[k] # "error"})
      BY <2>2, <3>1 DEF Owed
    <3> QED
      BY <2>2, <3>2
  <2>4. Owed' \in Nat
    <3>1. /\ cur \in Ids /\ pipeline \in Pipelines
      BY <2>1 DEF IInv, Control, GroupPCs, TypeOK
    <3>2. IsFiniteSet({k \in Missing(cur) : f[k] # "error"})
      BY <3>1, KeysOfFinite, FS_Subset DEF Missing
    <3>3. Cardinality({k \in Missing(cur) : f[k] # "error"}) \in Nat
      BY <3>2, FS_CardinalityType
    <3>4. Units[cur].tok \in Nat
      BY <3>1, TokTypes DEF IInv
    <3> QED
      BY <2>2, <2>3, <3>3, <3>4
  <2> QED
    BY <1>0, <2>1, <2>3, <2>4 DEF Budget
<1>12. CASE GroupTimeout
  <2>1. same /\ pc = "gather" /\ pc' = "gate" /\ result'.tok = 0
    BY <1>12 DEF GroupTimeout, db, history
  <2> QED
    BY <1>0, <2>1 DEF Budget
<1>13. CASE JoinGroup
  <2>1. same /\ pc = "saveBranches" /\ pc' = "gate" /\ result'.tok = result.tok
    BY <1>13 DEF JoinGroup, db, history, IInv, TypeOK, Result
  <2>2. Owed \in Nat
    BY <2>1, OwedType
  <2> QED
    BY <1>0, <2>1, <2>2 DEF Budget
<1>14. CASE GateContinues
  <2>1. /\ UNCHANGED <<rows, overruns, crashes>> /\ pc = "gate" /\ pc' = "head"
        /\ spent' = spent + result.tok /\ continued' = continued + 1
    BY <1>14 DEF GateContinues, NextUnit, db
  <2> QED
    BY <1>0, <2>1 DEF Budget
<1>15. CASE GatePasses
  <2>1. /\ UNCHANGED <<rows, overruns, continued, crashes>> /\ pc = "gate"
        /\ spent' = spent + result.tok
        /\ IF OverBudget(spent') THEN pc' = "notify" ELSE pc' = "head"
    BY <1>15 DEF GatePasses, NextUnit, db, history
  <2> QED
    BY <1>0, <2>1 DEF Budget, OverBudget
<1>16. CASE \/ GateStops \/ Notify \/ EndOfSteps \/ CompleteRun \/ TaskRaises
            \/ SweepInterrupts
  <2>1. same /\ pc' \in {"notify", "finish", "ended", "dead"}
    BY <1>16 DEF GateStops, Notify, EndOfSteps, CompleteRun, TaskRaises,
       SweepInterrupts, db, history
  <2> QED
    BY <1>0, <2>1 DEF Budget
<1>17. CASE LoadRun
  <2>1. /\ UNCHANGED <<rows, overruns, continued, crashes>> /\ pc = "load" /\ pc' = "head"
        /\ spent' = Tokens(Keys)
    BY <1>17 DEF LoadRun, LoadedTokens, history
  <2> QED
    BY <1>0, <2>1, BudgetFrame DEF Budget
<1>18. CASE SweepResumes
  <2>1. same /\ pc = "down" /\ pc' = "load"
    BY <1>18 DEF SweepResumes, db, history
  <2> QED
    BY <1>0, <2>1 DEF Budget
<1>19. CASE Crash \/ StopWhileWaiting
  <2>1. /\ UNCHANGED <<rows, overruns, continued>> /\ pc' = "down" /\ spent' = 0
        /\ crashes' = crashes + 1
    BY <1>19 DEF Crash, StopWhileWaiting, ForgetMemory, db
  <2> QED
    BY <1>0, <2>1 DEF Budget
<1>20. QED
  BY <1>1, <1>2, <1>3, <1>4, <1>5, <1>6, <1>7, <1>8, <1>9, <1>10, <1>11, <1>12,
     <1>13, <1>14, <1>15, <1>16, <1>17, <1>18, <1>19 DEF Next, StepLoop, Recovery

LEMMA BudgetInit == Init => BranchRows /\ Budget
<1> SUFFICES ASSUME Init PROVE BranchRows /\ Budget
  OBVIOUS
<1>1. \A k \in Keys : rows[k] = NoRow
  BY DEF Init
<1>2. TypeOK
  BY Initially DEF IInv
<1>3. \A k \in Keys : Counted(k) = 0
  BY <1>1, <1>2, TokTypes
<1>4. CountedTokens = 0
  <2> DEFINE f == [k \in Keys |-> Counted(k)]
  <2>1. \A k \in Keys : f[k] = 0
    BY <1>3
  <2>2. CountedTokens = Total(f, Keys)
    BY CountedIsTotal
  <2>3. IsFiniteSet(Keys)
    BY <1>2, KeysFinite DEF TypeOK
  <2> HIDE DEF f
  <2> QED
    BY <2>1, <2>2, <2>3, TotalZero
<1>5. BranchRows
  BY <1>1 DEF BranchRows, NoRow
<1>6. MaxTokens \in Nat
  BY <1>2, TokTypes
<1>7. Budget
  BY <1>4, <1>6 DEF Init, Budget, OverBudget
<1> QED
  BY <1>5, <1>7

\* Each crash, and each failure continued past, lets at most one more unit start beyond
\* the budget.
THEOREM BudgetIsKept == Spec => []OverrunBounded
<1>1. IInv /\ BranchRows /\ Budget /\ [Next]_vars => (BranchRows /\ Budget)'
  BY BranchRowsStep, BudgetStep
<1>2. BranchRows /\ Budget => OverrunBounded
  BY DEF Budget, OverrunBounded
<1> QED
  BY <1>1, <1>2, BudgetInit, Invariance, PTL DEF Spec

-----------------------------------------------------------------------------
(***************************************************************************)
(* Reruns.  The loop only moves on in one life, and starts what it stands  *)
(* at: what the code promises of a rerun holds until a crash.              *)
(***************************************************************************)
LEMMA LoopMovesOn ==
  ASSUME Next, pipeline \in Pipelines, cur \in Nat, execs = [k \in Keys |-> execs[k]]
  PROVE  /\ execs' = [k \in Keys |-> execs'[k]]
         /\ \/ cur' = 1 /\ crashes' = crashes + 1 /\ UNCHANGED execs
            \/ /\ cur' \in {cur, cur + 1} /\ UNCHANGED crashes
               /\ \A k \in Keys : k[1] # cur => execs'[k] = execs[k]
<1> DEFINE Goal == /\ execs' = [k \in Keys |-> execs'[k]]
                   /\ \/ cur' = 1 /\ crashes' = crashes + 1 /\ UNCHANGED execs
                      \/ /\ cur' \in {cur, cur + 1} /\ UNCHANGED crashes
                         /\ \A k \in Keys : k[1] # cur => execs'[k] = execs[k]
<1>1. ASSUME UNCHANGED <<execs, crashes>>, cur' \in {cur, cur + 1} PROVE Goal
  BY <1>1
<1>2. ASSUME NEW S \in SUBSET KeysOf(cur), Begin(S), UNCHANGED <<cur, crashes>> PROVE Goal
  <2>1. \A k \in S : k[1] = cur
    BY KeyFacts
  <2> QED
    BY <1>2, <2>1 DEF Begin
<1>3. CASE Crash \/ StopWhileWaiting
  BY <1>3 DEF Crash, StopWhileWaiting, ForgetMemory
<1>4. ASSUME NEW i \in Ids,
             \/ SkipPersisted(i) \/ SkipWhen(i) \/ BeginHuman(i) \/ RearmHuman(i)
             \/ EscalateStep(i) \/ ResolveFanOut(i) \/ EscalateGroup(i)
      PROVE  Goal
  BY <1>1, <1>4 DEF SkipPersisted, SkipWhen, BeginHuman, RearmHuman, EscalateStep, ResolveFanOut,
     EscalateGroup, NextUnit, history
<1>5. ASSUME NEW i \in Ids, BeginStep(i) \/ BeginGroup(i) PROVE Goal
  <2>1. cur = i /\ UNCHANGED <<cur, crashes>>
    BY <1>5 DEF BeginStep, BeginGroup, Dispatch, AtHead
  <2>2. Missing(i) \subseteq KeysOf(i)
    BY DEF Missing
  <2> QED
    BY <1>2, <1>5, <2>1, <2>2 DEF BeginStep, BeginGroup
<1>6. CASE SendRequest
  BY <1>2, <1>6 DEF SendRequest
<1>7. ASSUME NEW val \in Vals, FinishStep(val) \/ Decide(val) PROVE Goal
  BY <1>1, <1>7 DEF FinishStep, Decide, history
<1>8. ASSUME NEW k \in Keys, SaveBranch(k) PROVE Goal
  BY <1>1, <1>8 DEF SaveBranch
<1>9. CASE \/ SaveStep \/ GatherBranches \/ GroupTimeout \/ JoinGroup \/ GateStops
           \/ GateContinues \/ GatePasses \/ Notify \/ EndOfSteps \/ CompleteRun
           \/ LoadRun \/ Recovery \/ TaskRaises
  BY <1>1, <1>9 DEF SaveStep, GatherBranches, GroupTimeout, JoinGroup, GateStops,
     GateContinues, GatePasses, Notify, EndOfSteps, CompleteRun, LoadRun, Recovery,
     SweepResumes, SweepInterrupts, TaskRaises, NextUnit, history
<1> QED
  BY <1>3, <1>4, <1>5, <1>6, <1>7, <1>8, <1>9 DEF Next, StepLoop

\* Until a crash the loop has nothing before from_step ahead of it, nor behind it executed.
RerunInv ==
  /\ pipeline \in Pipelines /\ from \in Nat /\ cur \in Nat /\ crashes \in Nat
  /\ execs = [k \in Keys |-> execs[k]]
  /\ crashes = 0 =>
       /\ skipping \/ from <= cur
       /\ EarlierStepsStayUnexecuted

LEMMA RerunBegins == RerunInit => RerunInv
<1> SUFFICES ASSUME RerunInit PROVE RerunInv
  OBVIOUS
<1>1. pipeline \in Pipelines /\ cur = 1 /\ crashes = 0 /\ execs = [k \in Keys |-> 0]
  BY DEF RerunInit, Init
<1>2. from = 0 \/ from \in Ids
  BY DEF RerunInit
<1>3. from \in Nat
  BY <1>1, <1>2, UnitType
<1>4. skipping \/ from = 0
  BY DEF RerunInit
<1> QED
  BY <1>1, <1>3, <1>4 DEF RerunInv, EarlierStepsStayUnexecuted

LEMMA RerunGoesOn == RerunInv /\ [RerunNext]_rerunVars => RerunInv'
<1> SUFFICES ASSUME RerunInv, [RerunNext]_rerunVars PROVE RerunInv'
  OBVIOUS
<1> USE DEF RerunInv
<1>1. ASSUME UNCHANGED pipeline PROVE Keys' = Keys
  BY <1>1, Static
<1>2. CASE SkipToStep
  <2>1. UNCHANGED <<pipeline, from, execs, crashes>> /\ cur' = from
    BY <1>2 DEF SkipToStep, history
  <2> QED
    BY <1>1, <2>1 DEF EarlierStepsStayUnexecuted
<1>3. CASE RunsOn
  <2>1. Next /\ ~skipping /\ UNCHANGED <<pipeline, from, skipping>>
    BY <1>3 DEF RunsOn, Next, rerun
  <2>2. /\ execs' = [k \in Keys |-> execs'[k]]
        /\ \/ cur' = 1 /\ crashes' = crashes + 1 /\ UNCHANGED execs
           \/ /\ cur' \in {cur, cur + 1} /\ UNCHANGED crashes
              /\ \A k \in Keys : k[1] # cur => execs'[k] = execs[k]
    BY <2>1, LoopMovesOn
  <2>3. ASSUME crashes' = 0
        PROVE  from <= cur' /\ \A k \in Keys : k[1] < from => execs'[k] = 0
    <3>1. from <= cur /\ cur' \in {cur, cur + 1}
          /\ \A k \in Keys : k[1] # cur => execs'[k] = execs[k]
      BY <2>1, <2>2, <2>3
    <3>2. \A k \in Keys : k[1] < from => execs[k] = 0
      BY <2>2, <2>3 DEF EarlierStepsStayUnexecuted
    <3> QED
      BY <3>1, <3>2
  <2> QED
    BY <1>1, <2>1, <2>2, <2>3 DEF EarlierStepsStayUnexecuted
<1>4. CASE DiesAtOnce
  BY <1>1, <1>4 DEF DiesAtOnce, Crash, ForgetMemory
<1>5. CASE UNCHANGED rerunVars
  BY <1>1, <1>5 DEF rerunVars, vars, rerun, history, EarlierStepsStayUnexecuted
<1> QED
  BY <1>2, <1>3, <1>4, <1>5 DEF RerunNext

\* A rerun executes none of the steps before the one it was to start at, for any pipeline and
\* any step, as long as the process does not die (main.py rerun_from_step; the run rerun_claim
\* shows that after a death it may).
THEOREM UncutRerunsStartLate == RerunSpec => [](crashes = 0 => EarlierStepsStayUnexecuted)
<1>1. RerunInv => (crashes = 0 => EarlierStepsStayUnexecuted)
  BY DEF RerunInv
<1> QED
  BY <1>1, RerunBegins, RerunGoesOn, PTL DEF RerunSpec

=============================================================================
