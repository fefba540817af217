--------------------------- MODULE Promotion_proofs --------------------------
(***************************************************************************)
(* Of the configuration a pipeline is given and of the evidence its runs   *)
(* leave: ConfigStore first, then Calibration, Promotion and Replay.       *)
(*                                                                         *)
(* The two are apart: no step of one touches a variable of the other.      *)
(***************************************************************************)
EXTENDS ConfigStore, Replay, FiniteSetTheorems, WellFoundedInduction, TLAPS

-----------------------------------------------------------------------------
(* ConfigStore: what is served is what is stored, for any files, contents, edits and      *)
(* deaths.  The loader and the merge of a library step are mostly only named: the         *)
(* argument is about which directories each of them is applied to, at the check of a      *)
(* write and at the reload after it.                                                      *)

\* A directory a loader can read has a library entry for each template that is taken from it.
LEMMA TakenFromLibrary ==
  ASSUME NEW sd \in [Files -> StepBodies \cup {Absent}],
         NEW pd \in [Files -> PipeBodies \cup {Absent}],
         PipesLoad(pd, ByName(sd)), NEW f \in Files, pd[f] # Absent,
         Resolved(pd, ByName(sd))[f].version # 0
  PROVE  \E n \in Names : /\ ByName(sd)[n] # Absent
                         /\ ByName(sd)[n].version = Resolved(pd, ByName(sd))[f].version
<1> DEFINE b == pd[f]
           lib == ByName(sd)
<1>1. b \in PipeBody /\ (b.use = Absent => b.own)
  BY BodiesAssumption
<1>2. Resolved(pd, lib)[f].version = Version(b, lib)
  BY DEF Resolved
<1>3. ~b.own /\ Version(b, lib) = lib[b.use].version
  BY <1>2 DEF Version
<1>4. b.use \in Names /\ lib[b.use] # Absent
  BY <1>1, <1>3 DEF PipesLoad, Present, Resolves, PipeBody
<1> QED
  BY <1>2, <1>3, <1>4

\* The directories hold what was written to them.
Stored ==
  /\ steps \in [Files -> StepBodies \cup {Absent}]
  /\ pipes \in [Files -> PipeBodies \cup {Absent}]

\* A complete reload brings every copy in memory up to the directories.
LEMMA LoadsAll ==
  ASSUME Loads(steps', pipes'), UNCHANGED readable, Stored'
  PROVE  ServedIsStored'
<1>1. /\ library' = ByName(steps') /\ served' = Resolved(pipes', ByName(steps'))
      /\ jobs' = ScheduledIn(served') /\ registry' = ByName(served')
      /\ shown' = <<library', served'>>
      /\ Loadable'
  BY DEF Loads, LoadedUpToSchedules, Loadable
<1>2. ASSUME NEW f \in Present(served)', served'[f].version # 0
      PROVE  \E n \in Names : library'[n] # Absent /\ library'[n].version = served'[f].version
  <2>1. f \in Files /\ pipes'[f] # Absent
    BY <1>1, <1>2 DEF Present, Resolved
  <2>2. /\ steps' \in [Files -> StepBodies \cup {Absent}]
        /\ pipes' \in [Files -> PipeBodies \cup {Absent}]
    BY DEF Stored
  <2>3. PipesLoad(pipes', ByName(steps'))
    BY DEF Loads, LoadedUpToSchedules
  <2> QED
    BY <1>1, <1>2, <2>1, <2>2, <2>3, TakenFromLibrary
<1>3. OneLoad'
  BY <1>1, <1>2 DEF OneLoad
<1> QED
  BY <1>1, <1>3 DEF ServedIsStored, InMemory

\* Without one, the copies stay as they were but where the reload stopped half-way: the
\* library and what is served may be newer than the pages and the sub-pipelines.
LEMMA HalfReload ==
  ASSUME LibraryFails(steps') \/ PipelinesFail(steps', pipes') \/ ConfigFails(steps', pipes'),
         ServedIsStored
  PROVE  /\ ~torn' => OneLoad'
         /\ jobs' = ScheduledIn(served')
         /\ registry' = ByName(shown'[2])
<1>1. CASE LibraryFails(steps')
  BY <1>1 DEF LibraryFails, copies, ServedIsStored, OneLoad
<1>2. CASE PipelinesFail(steps', pipes')
  BY <1>2 DEF PipelinesFail, ServedIsStored
<1>3. CASE ConfigFails(steps', pipes')
  BY <1>3 DEF ConfigFails, LoadedUpToSchedules, ServedIsStored
<1> QED
  BY <1>1, <1>2, <1>3

\* Without a process there are no copies to differ.
LEMMA NothingDiffers ==
  ASSUME library = NoNames, served = NoFiles, jobs = {}, registry = NoNames,
         shown = <<NoNames, NoFiles>>
  PROVE  OneLoad /\ jobs = ScheduledIn(served) /\ registry = ByName(shown[2])
<1>1. Present(NoFiles) = {}
  BY DEF Present, NoFiles
<1>2. ScheduledIn(NoFiles) = {} /\ ByName(NoFiles) = NoNames
  BY <1>1 DEF ScheduledIn, ByName, Naming, NoNames
<1>3. shown[2] = NoFiles /\ shown = <<library, served>>
  OBVIOUS
<1> QED
  BY <1>1, <1>2, <1>3 DEF OneLoad

LEMMA GoneDiffersNot ==
  ASSUME Gone
  PROVE  OneLoad' /\ jobs' = ScheduledIn(served') /\ registry' = ByName(shown'[2])
<1>1. Present(NoFiles) = {}
  BY DEF Present, NoFiles
<1>2. ScheduledIn(NoFiles) = {} /\ ByName(NoFiles) = NoNames
  BY <1>1 DEF ScheduledIn, ByName, Naming, NoNames
<1>3. shown'[2] = NoFiles /\ shown' = <<library', served'>>
  BY DEF Gone
<1> QED
  BY <1>1, <1>2, <1>3 DEF OneLoad, Gone

\* A reload of directories and a config.yaml that load is complete; any other leaves
\* byHand as it was.
LEMMA ReloadStores ==
  ASSUME DoReload(steps', pipes'), UNCHANGED readable, ~byHand => Loadable', ServedIsStored,
         Stored'
  PROVE  ServedIsStored'
<1>1. CASE Loads(steps', pipes')
  BY <1>1, LoadsAll
<1>2. CASE ~Loads(steps', pipes')
  <2>1. byHand' = byHand
    BY <1>2 DEF DoReload, LibraryFails, PipelinesFail, ConfigFails
  <2>2. ~Loadable'
    BY <1>2 DEF DoReload, LibraryFails, PipelinesFail, ConfigFails, Loadable
  <2>3. /\ ~torn' => OneLoad'
        /\ jobs' = ScheduledIn(served')
        /\ registry' = ByName(shown'[2])
    BY <1>2, HalfReload DEF DoReload
  <2> QED
    BY <2>1, <2>2, <2>3 DEF ServedIsStored
<1> QED
  BY <1>1, <1>2

\* So a call may change a directory if what it leaves behind can be loaded: then it is
\* served, or the process is gone and the next one will load it.
LEMMA CallStores ==
  ASSUME Ends, UNCHANGED readable, ~byHand => Loadable', ServedIsStored, Stored'
  PROVE  ServedIsStored'
<1>1. CASE DoReload(steps', pipes')
  BY <1>1, ReloadStores
<1>2. CASE Dies
  BY <1>2, GoneDiffersNot DEF Dies, ServedIsStored
<1> QED
  BY <1>1, <1>2 DEF Ends

LEMMA StoredInit == StoreInit => Stored
BY DEF StoreInit, Stored, NoFiles

LEMMA StoredTyped == Stored /\ [StoreNext]_storeVars => Stored'
<1> SUFFICES ASSUME Stored, [StoreNext]_storeVars PROVE Stored'
  OBVIOUS
<1>1. \A n \in Names : FileOf[n] \in Files
  BY FileOfAssumption
<1>2. ASSUME NEW body \in PipeBodies, NEW mode \in Modes, WritePipeline(body, mode)
      PROVE  Stored'
  BY <1>2 DEF WritePipeline, Put, Stored
<1>3. ASSUME NEW body \in StepBodies, NEW mode \in Modes, WriteStep(body, mode)
      PROVE  Stored'
  BY <1>3 DEF WriteStep, Put, Stored
<1>4. ASSUME NEW n \in Names, DeletePipeline(n) \/ DeleteStep(n)
      PROVE  Stored'
  BY <1>4 DEF DeletePipeline, DeleteStep, Drop, Stored
<1>5. CASE Edit
  BY <1>5 DEF Edit, EditSteps, EditPipelines, EditConfig, Stored
<1>6. CASE UNCHANGED disk
  BY <1>6 DEF disk, Stored
<1> QED
  BY <1>2, <1>3, <1>4, <1>5, <1>6 DEF StoreNext, storeVars, Reload, Die, Start

\* Files that load one by one still do when one of them is taken away.
LEMMA FewerPipelinesLoad ==
  ASSUME NEW n \in Names, PipesLoad(pipes, ByName(steps)), pipes' = Drop(pipes, n), UNCHANGED steps
  PROVE  PipesLoad(pipes', ByName(steps'))
BY DEF PipesLoad, Drop, Present

\* The check of a written pipeline looks at the library in memory, which is the stored
\* one as long as what is served is what is stored.
LEMMA WrittenPipelineLoads ==
  ASSUME ServedIsStored, ~byHand,
         NEW body \in PipeBodies, NEW mode \in Modes, WritePipeline(body, mode)
  PROVE  Loadable'
<1>1. Loadable /\ library = ByName(steps)
  BY DEF ServedIsStored, InMemory, WritePipeline
<1> QED
  BY <1>1 DEF Loadable, WritePipeline

\* A step of the service, the operator or the process keeps what is served what is stored.
LEMMA StoredStep == ServedIsStored /\ Stored /\ [StoreNext]_storeVars => ServedIsStored'
<1> SUFFICES ASSUME ServedIsStored, Stored, [StoreNext]_storeVars
             PROVE  ServedIsStored'
  OBVIOUS
<1> USE StoredTyped
<1>1. ASSUME NEW body \in PipeBodies, NEW mode \in Modes, WritePipeline(body, mode)
      PROVE  ServedIsStored'
  BY <1>1, WrittenPipelineLoads, CallStores DEF WritePipeline
<1>2. ASSUME NEW body \in StepBodies, NEW mode \in Modes, WriteStep(body, mode)
      PROVE  ServedIsStored'
  <2>1. ~byHand => Loadable'
    BY <1>2 DEF WriteStep, StepCandidateHolds, ServedIsStored, Loadable
  <2> QED
    BY <1>2, <2>1, CallStores DEF WriteStep
<1>3. ASSUME NEW n \in Names, DeletePipeline(n)
      PROVE  ServedIsStored'
  <2>1. ~byHand => Loadable'
    BY <1>3, FewerPipelinesLoad DEF DeletePipeline, ServedIsStored, Loadable
  <2> QED
    BY <1>3, <2>1, CallStores DEF DeletePipeline
<1>4. ASSUME NEW n \in Names, DeleteStep(n)
      PROVE  ServedIsStored'
  <2>1. ~byHand => Loadable'
    BY <1>4 DEF DeleteStep, StepCandidateHolds, ServedIsStored, Loadable
  <2> QED
    BY <1>4, <2>1, CallStores DEF DeleteStep
<1>5. CASE Reload
  <2>1. DoReload(steps', pipes') /\ UNCHANGED readable /\ (~byHand => Loadable')
    BY <1>5 DEF Reload, disk, ServedIsStored, Loadable
  <2> QED
    BY <2>1, ReloadStores
<1>6. CASE Edit
  BY <1>6 DEF Edit, copies, ServedIsStored, OneLoad
<1>7. CASE Die
  BY <1>7, GoneDiffersNot DEF Die, Dies, disk, ServedIsStored, Loadable
<1>8. CASE Start
  BY <1>8, LoadsAll DEF Start, disk
<1>9. CASE UNCHANGED storeVars
  BY <1>9 DEF storeVars, disk, copies, ServedIsStored, Loadable, InMemory, OneLoad
<1> QED
  BY <1>1, <1>2, <1>3, <1>4, <1>5, <1>6, <1>7, <1>8, <1>9 DEF StoreNext

\* As long as no operator's edit waits to be loaded, the directories load and the five
\* copies in memory are of one load of them; an edit that does not load parts the copies
\* only where a reload can stop (main.py _do_reload, _register_schedules; config_writer.py).
THEOREM StoredIsServed == StoreSpec => []ServedIsStored
<1>1. StoreInit => ServedIsStored /\ Stored
  BY StoredInit, NothingDiffers
  DEF StoreInit, ServedIsStored, Loadable, StepsLoad, PipesLoad, Present, NoFiles
<1>2. ServedIsStored /\ Stored /\ [StoreNext]_storeVars => (ServedIsStored /\ Stored)'
  BY StoredStep, StoredTyped
<1> QED
  BY <1>1, <1>2, PTL DEF StoreSpec

-----------------------------------------------------------------------------
(* What a write changes for the runs that follow it. *)

\* Of files that share something one is read last: the one that fewest follow.
LEMMA LastExists ==
  ASSUME NEW S \in SUBSET Files, S # {}
  PROVE  Last(S) \in S
<1> DEFINE After(m) == {f \in S : f >= m}
           Tails == {After(m) : m \in S}
<1>1. S \subseteq Nat /\ IsFiniteSet(S)
  BY FilesAssumption, FS_Subset
<1>2. Tails \subseteq FiniteSubsetsOf(S) /\ Tails # {}
  <2>1. \A m \in S : After(m) \in SUBSET S
    OBVIOUS
  <2>2. \A T \in SUBSET S : T \in FiniteSubsetsOf(S)
    BY <1>1, FS_Subset DEF FiniteSubsetsOf
  <2> QED
    BY <2>1, <2>2
<1>3. PICK T \in Tails : \A U \in Tails : ~ (<<U, T>> \in StrictSubsetOrdering(S))
  BY <1>2, FS_StrictSubsetOrderingWellFounded, WFMin
<1>4. PICK m \in S : T = After(m)
  BY DEF Tails
<1>5. ASSUME NEW g \in S, ~ (m >= g)
      PROVE  FALSE
  <2>0. m \in Nat /\ g \in Nat
    BY <1>1, <1>5
  <2>1. After(g) \subseteq After(m) /\ m \in After(m) /\ m \notin After(g)
    <3>1. \A f \in S : f >= g => f >= m
      BY <1>1, <1>5, <2>0
    <3>2. m >= m
      BY <2>0
    <3> QED
      BY <1>5, <3>1, <3>2
  <2>2. <<After(g), After(m)>> \in StrictSubsetOrdering(S)
    BY <2>1 DEF StrictSubsetOrdering
  <2> QED
    BY <1>3, <1>4, <2>2
<1> QED
  BY <1>4, <1>5 DEF Last

\* A pipeline that resolves is one in memory.
LEMMA ResolvedIsPipeline ==
  ASSUME NEW sd \in [Files -> StepBodies \cup {Absent}],
         NEW pd \in [Files -> PipeBodies \cup {Absent}],
         PipesLoad(pd, ByName(sd)), NEW f \in Files, pd[f] # Absent
  PROVE  Resolved(pd, ByName(sd))[f] \in Pipeline
<1> DEFINE b == pd[f]
           lib == ByName(sd)
<1>1. b \in PipeBodies /\ b \in PipeBody /\ (b.use = Absent => b.own)
  BY BodiesAssumption
<1>2. Resolves(b, lib)
  BY DEF PipesLoad, Present
<1>3. Version(b, lib) \in Nat
  <2>1. CASE b.own
    BY <2>1 DEF Version
  <2>2. CASE ~b.own
    <3>1. b.use \in Names /\ lib[b.use] # Absent
      BY <1>1, <1>2, <2>2 DEF Resolves, PipeBody
    <3>2. Naming(sd, b.use) # {} /\ lib[b.use] = sd[Last(Naming(sd, b.use))]
      BY <3>1 DEF ByName
    <3>3. Last(Naming(sd, b.use)) \in Naming(sd, b.use)
      BY <3>2, LastExists DEF Naming, Present
    <3>4. lib[b.use] \in StepBody
      BY <3>2, <3>3, BodiesAssumption DEF Naming, Present
    <3> QED
      BY <2>2, <3>4 DEF Version, StepBody
  <2> QED
    BY <2>1, <2>2
<1> QED
  BY <1>1, <1>3 DEF Resolved, Pipeline, PipeBody

\* A file no other one comes before, or after, is the first, or the last.
LEMMA OnlyFirst ==
  ASSUME NEW S \in SUBSET Files, NEW m \in S, \A f \in S \ {m} : ~ (f < m)
  PROVE  First(S) = m
<1>1. S \subseteq Nat
  BY FilesAssumption
<1>2. \A g \in S : m <= g
  BY <1>1
<1>3. ASSUME NEW f \in S, \A g \in S : f <= g
      PROVE  f = m
  BY <1>1, <1>2, <1>3
<1> QED
  BY <1>2, <1>3 DEF First

LEMMA OnlyLast ==
  ASSUME NEW S \in SUBSET Files, NEW m \in S, \A f \in S \ {m} : ~ (f > m)
  PROVE  Last(S) = m
<1>1. S \subseteq Nat
  BY FilesAssumption
<1>2. \A g \in S : m >= g
  BY <1>1
<1>3. ASSUME NEW f \in S, \A g \in S : f >= g
      PROVE  f = m
  BY <1>1, <1>2, <1>3
<1> QED
  BY <1>2, <1>3 DEF Last

LEMMA WriteTakes ==
  ASSUME ServedIsStored, Stored, [StoreNext]_storeVars, NEW body \in PipeBodies, NEW mode \in Modes
  PROVE  Takes(body, mode)
<1> SUFFICES ASSUME WritePipeline(body, mode), ~byHand, up'
             PROVE  LET mine == FileOf[body.name]
                        others == Naming(pipes, body.name) \ {mine}
                    IN /\ Lookup(body.name)' = served'[mine] \/ \E f \in others : f < mine
                       /\ registry'[body.name] = served'[mine] \/ \E f \in others : f > mine
                       /\ \A sev \in body.match :
                            Match(sev)' = served'[mine] \/ \E f \in Matching(sev)' : f < mine
                       /\ served'[mine].version = Version(body, ByName(steps))
  BY DEF Takes
<1> DEFINE mine == FileOf[body.name]
           others == Naming(pipes, body.name) \ {mine}
           lib == ByName(steps)
<1>1. body \in PipeBody /\ body.name \in Names /\ mine \in Files /\ body # Absent
  BY BodiesAssumption, FileOfAssumption, AbsentAssumption DEF PipeBody
<1>2. pipes' = [pipes EXCEPT ![mine] = body] /\ steps' = steps /\ pipes'[mine] = body
      /\ \A f \in Files \ {mine} : pipes'[f] = pipes[f]
  BY <1>1 DEF WritePipeline, Put, Stored
<1>3. Loads(steps', pipes')
  <2>1. Loadable'
    BY WrittenPipelineLoads
  <2>2. DoReload(steps', pipes')
    BY DEF WritePipeline, Ends, Dies
  <2> QED
    BY <2>1, <2>2, <1>2 DEF DoReload, LibraryFails, PipelinesFail, ConfigFails, Loadable, WritePipeline
<1>4. served' = Resolved(pipes', lib) /\ registry' = ByName(served') /\ PipesLoad(pipes', lib)
  BY <1>2, <1>3 DEF Loads, LoadedUpToSchedules
<1>5. Stored'
  BY StoredTyped
<1>6. \A f \in Files : pipes'[f] # Absent => served'[f] \in Pipeline /\ served'[f] # Absent
  <2>1. steps \in [Files -> StepBodies \cup {Absent}] /\ pipes' \in [Files -> PipeBodies \cup {Absent}]
    BY <1>2, <1>5 DEF Stored
  <2>2. \A f \in Files : pipes'[f] # Absent => Resolved(pipes', lib)[f] \in Pipeline
    BY <1>4, <2>1, ResolvedIsPipeline
  <2> QED
    BY <1>4, <2>2, AbsentAssumption
<1>7. \A f \in Files : /\ served'[f] = Absent <=> pipes'[f] = Absent
                       /\ pipes'[f] # Absent => served'[f].name = pipes'[f].name
  BY <1>4, <1>6 DEF Resolved
<1>8. /\ served'[mine] # Absent /\ served'[mine].name = body.name
      /\ served'[mine].match = body.match /\ served'[mine].version = Version(body, lib)
  BY <1>1, <1>2, <1>4, <1>6 DEF Resolved
<1>9. Naming(served', body.name) = others \cup {mine}
  <2>1. \A f \in Files \ {mine} :
          (served'[f] # Absent /\ served'[f].name = body.name)
            <=> (pipes[f] # Absent /\ pipes[f].name = body.name)
    <3> TAKE f \in Files \ {mine}
    <3>1. f \in Files /\ pipes'[f] = pipes[f]
      BY <1>2
    <3>2. served'[f] = Absent <=> pipes[f] = Absent
      BY <1>7, <3>1
    <3>3. pipes[f] # Absent => served'[f].name = pipes[f].name
      BY <1>7, <3>1
    <3> QED
      BY <3>2, <3>3
  <2>2. \A f : f \in Naming(served', body.name)
              <=> f \in Files /\ served'[f] # Absent /\ served'[f].name = body.name
    BY DEF Naming, Present
  <2>3. \A f : f \in others
              <=> f \in Files \ {mine} /\ pipes[f] # Absent /\ pipes[f].name = body.name
    BY DEF Naming, Present
  <2> QED
    BY <1>1, <1>8, <2>1, <2>2, <2>3
<1>10. Lookup(body.name)' = served'[mine] \/ \E f \in others : f < mine
  <2> SUFFICES ASSUME ~ \E f \in others : f < mine
               PROVE  Lookup(body.name)' = served'[mine]
    OBVIOUS
  <2>1. First(Naming(served', body.name)) = mine
    BY <1>1, <1>9, OnlyFirst DEF Naming, Present
  <2> QED
    BY <1>9, <2>1 DEF Lookup
<1>11. registry'[body.name] = served'[mine] \/ \E f \in others : f > mine
  <2> SUFFICES ASSUME ~ \E f \in others : f > mine
               PROVE  registry'[body.name] = served'[mine]
    OBVIOUS
  <2>1. Last(Naming(served', body.name)) = mine
    BY <1>1, <1>9, OnlyLast DEF Naming, Present
  <2> QED
    BY <1>1, <1>4, <1>9, <2>1 DEF ByName
<1>12. ASSUME NEW sev \in body.match
       PROVE  Match(sev)' = served'[mine] \/ \E f \in Matching(sev)' : f < mine
  <2> SUFFICES ASSUME ~ \E f \in Matching(sev)' : f < mine
               PROVE  Match(sev)' = served'[mine]
    OBVIOUS
  <2>1. mine \in Matching(sev)' /\ Matching(sev)' \subseteq Files
    BY <1>1, <1>8, <1>12 DEF Matching, Present
  <2>2. First(Matching(sev)') = mine
    BY <2>1, OnlyFirst
  <2> QED
    BY <2>1, <2>2 DEF Match
<1> QED
  BY <1>8, <1>10, <1>11, <1>12

\* An accepted write is what the next runs get, unless another file claims the name or the
\* event first (main.py write endpoints; resolver.py).
THEOREM WritesAreTaken == StoreSpec => WritesTakeEffect
<1>1. StoreSpec => [](ServedIsStored /\ Stored)
  <2>1. StoreInit => ServedIsStored /\ Stored
    BY StoredInit, NothingDiffers
    DEF StoreInit, ServedIsStored, Loadable, StepsLoad, PipesLoad, Present, NoFiles
  <2>2. ServedIsStored /\ Stored /\ [StoreNext]_storeVars => (ServedIsStored /\ Stored)'
    BY StoredStep, StoredTyped
  <2> QED
    BY <2>1, <2>2, PTL DEF StoreSpec
<1>2. ServedIsStored /\ Stored /\ [StoreNext]_storeVars
      => [\A body \in PipeBodies, mode \in Modes : Takes(body, mode)]_storeVars
  BY WriteTakes
<1> QED
  BY <1>1, <1>2, PTL DEF StoreSpec, WritesTakeEffect

-----------------------------------------------------------------------------
(* Calibration: the bins partition the scores, for every bin width that divides 1.0, and a *)
(* score is judged by the bin it is counted in.                                            *)

\* Counting bins is exact: the last one ends at 1.0.
LEMMA LastBinEndsAtScale == LastBin \in Nat /\ Hi(LastBin) = Scale /\ Bins = 0 .. LastBin
<1> DEFINE n == Scale \div BinWidth
<1>1. Scale \in Nat \ {0} /\ BinWidth \in Nat \ {0} /\ Scale % BinWidth = 0
  BY BinsAssumption
<1>2. n \in Int /\ Scale = n * BinWidth
  BY <1>1, Z3
<1>3. n >= 1
  BY <1>1, <1>2, Z3
<1>4. (n - 1) * BinWidth + BinWidth = n * BinWidth
  BY <1>1, <1>2, Z3
<1>5. QED
  BY <1>1, <1>2, <1>3, <1>4 DEF LastBin, Hi, Lo, Bins

\* A bin that starts later starts no earlier than the other ends.
LEMMA BinsAreOrdered ==
  ASSUME NEW i \in Bins, NEW j \in Bins, i < j PROVE Hi(i) <= Lo(j)
<1>1. BinWidth \in Nat \ {0} /\ i \in Int /\ j \in Int
  BY BinsAssumption DEF Bins
<1>2. j * BinWidth >= (i + 1) * BinWidth
  BY <1>1, Z3
<1>3. (i + 1) * BinWidth = i * BinWidth + BinWidth
  BY <1>1, Z3
<1>4. QED
  BY <1>1, <1>2, <1>3 DEF Hi, Lo

\* No score is counted in two bins (bins_from_samples).
THEOREM CountedOnce ==
  ASSUME NEW score \in Int, NEW i \in Bins, NEW j \in Bins, InBin(score, i), InBin(score, j)
  PROVE  i = j
<1>1. SUFFICES ASSUME NEW k \in Bins, NEW l \in Bins, k < l, InBin(score, k) PROVE score < Lo(l)
  <2>1. i \in Int /\ j \in Int /\ Lo(i) \in Int /\ Lo(j) \in Int
    BY BinsAssumption DEF Bins, Lo
  <2>2. QED
    BY <1>1, <2>1 DEF InBin
<1>2. k # LastBin
  BY <1>1, LastBinEndsAtScale
<1>3. score < Hi(k)
  BY <1>1, <1>2 DEF InBin
<1>4. Hi(k) <= Lo(l)
  BY <1>1, BinsAreOrdered
<1>5. Hi(k) \in Int /\ Lo(l) \in Int
  BY BinsAssumption DEF Bins, Hi, Lo
<1>6. QED
  BY <1>3, <1>4, <1>5

\* A score from 0 to 1.0 is judged by a bin, and by the one that counts such scores
\* (CalibrationBucket.lookup against bins_from_samples, whose edges differ in form).
THEOREM JudgedWhereCounted ==
  ASSUME NEW score \in 0 .. Scale
  PROVE  LookupBin(score) \in Bins /\ InBin(score, LookupBin(score))
<1> DEFINE i == score \div BinWidth
<1>0. BinWidth \in Nat \ {0} /\ Scale \in Nat /\ score \in Int
  BY BinsAssumption
<1>1. CASE score = Scale
  <2>1. ~ \E k \in Bins : Lo(k) <= score /\ score < Hi(k)
    <3> SUFFICES ASSUME NEW k \in Bins PROVE Hi(k) <= Scale
      BY <1>0, <1>1, BinsAssumption DEF Hi, Lo, Bins
    <3>1. CASE k = LastBin
      BY <3>1, LastBinEndsAtScale, <1>0
    <3>2. CASE k # LastBin
      <4>1. LastBin \in Bins /\ k < LastBin
        BY <3>2, LastBinEndsAtScale
      <4>2. Hi(k) <= Lo(LastBin)
        BY <4>1, BinsAreOrdered
      <4>3. QED
        BY <1>0, <4>1, <4>2, LastBinEndsAtScale DEF Hi, Lo, Bins
    <3>3. QED
      BY <3>1, <3>2
  <2>2. Lo(LastBin) <= score /\ LastBin \in Bins /\ score = Hi(LastBin)
    BY <1>0, <1>1, LastBinEndsAtScale DEF Hi, Lo
  <2>3. LookupBin(score) = LastBin
    BY <2>1, <2>2 DEF LookupBin
  <2>4. QED
    BY <2>2, <2>3 DEF InBin
<1>2. CASE score < Scale
  <2>1. i \in Int /\ i * BinWidth <= score /\ score < i * BinWidth + BinWidth
    BY <1>0, Z3
  <2>2. 0 <= i
    BY <1>0, <2>1, Z3
  <2>3. i <= LastBin
    <3>1. SUFFICES ASSUME LastBin < i PROVE FALSE
      BY <2>1, LastBinEndsAtScale
    <3>2. (LastBin + 1) * BinWidth <= i * BinWidth
      BY <1>0, <2>1, <3>1, LastBinEndsAtScale, Z3
    <3>3. (LastBin + 1) * BinWidth = LastBin * BinWidth + BinWidth
      BY <1>0, LastBinEndsAtScale, Z3
    <3>4. QED
      BY <1>0, <1>2, <2>1, <3>2, <3>3, LastBinEndsAtScale DEF Hi, Lo
  <2>4. \E k \in Bins : Lo(k) <= score /\ score < Hi(k)
    BY <2>1, <2>2, <2>3, LastBinEndsAtScale DEF Lo, Hi
  <2>5. LookupBin(score) = CHOOSE k \in Bins : Lo(k) <= score /\ score < Hi(k)
    BY <2>4 DEF LookupBin
  <2>6. LookupBin(score) \in Bins /\ Lo(LookupBin(score)) <= score /\ score < Hi(LookupBin(score))
    BY <2>4, <2>5
  <2>7. QED
    BY <2>6 DEF InBin
<1>3. QED
  BY <1>0, <1>1, <1>2

-----------------------------------------------------------------------------
(* Sums.  MapThenSumSet takes the elements of a set out one by one, by a function chosen  *)
(* to do so; what it returns is proved of by looking for a smallest set of which it would  *)
(* not hold.  Total is the sum of what a function gives for the elements.                  *)

\* What is taken next out of a set that is summed up.
Taken(S) == CHOOSE x \in S : TRUE
Sums(f, S, it) ==
  it = [s \in SUBSET S |-> IF s = {} THEN 0 ELSE f[Taken(s)] + it[s \ {Taken(s)}]]
Total(f, S) == (CHOOSE it : Sums(f, S, it))[S]

\* Of any subsets of a finite set, one has none of the others in it.
LEMMA Smallest ==
  ASSUME NEW S, IsFiniteSet(S), NEW B, B \subseteq SUBSET S, B # {}
  PROVE  \E T \in B : \A U \in B : U \subseteq T => U = T
<1>1. B \subseteq FiniteSubsetsOf(S)
  BY FS_FiniteSubsetsOfFinite
<1>2. PICK T \in B : \A U \in B : ~ (<<U, T>> \in StrictSubsetOrdering(S))
  BY <1>1, FS_StrictSubsetOrderingWellFounded, WFMin
<1>3. ASSUME NEW U \in B, U \subseteq T, U # T
      PROVE  FALSE
  <2>1. <<U, T>> \in StrictSubsetOrdering(S)
    BY <1>3 DEF StrictSubsetOrdering
  <2> QED
    BY <1>2, <2>1
<1> QED
  BY <1>3

LEMMA SumsUnfold ==
  ASSUME NEW f, NEW S, NEW it, Sums(f, S, it), NEW s \in SUBSET S
  PROVE  it[s] = IF s = {} THEN 0 ELSE f[Taken(s)] + it[s \ {Taken(s)}]
BY DEF Sums

LEMMA TakenIsIn == \A s : s # {} => Taken(s) \in s
BY DEF Taken

\* Two that sum up agree on what both sum up.
LEMMA SumsAgree ==
  ASSUME NEW f, NEW S, IsFiniteSet(S), NEW T, NEW U, S \subseteq T, S \subseteq U,
         NEW a, NEW b, Sums(f, T, a), Sums(f, U, b)
  PROVE  a[S] = b[S]
<1> SUFFICES ASSUME a[S] # b[S]
             PROVE  FALSE
  OBVIOUS
<1> DEFINE Bad == {s \in SUBSET S : a[s] # b[s]}
<1>1. Bad \in SUBSET SUBSET S /\ Bad # {}
  OBVIOUS
<1>2. PICK s \in Bad : \A u \in Bad : u \subseteq s => u = s
  <2> HIDE DEF Bad
  <2> QED
    BY <1>1, Smallest
<1> DEFINE u == s \ {Taken(s)}
<1>3. s \in SUBSET T /\ s \in SUBSET U /\ a[s] # b[s]
  OBVIOUS
<1>4. /\ a[s] = IF s = {} THEN 0 ELSE f[Taken(s)] + a[u]
      /\ b[s] = IF s = {} THEN 0 ELSE f[Taken(s)] + b[u]
  <2>1. a[s] = IF s = {} THEN 0 ELSE f[Taken(s)] + a[u]
    BY <1>3, SumsUnfold
  <2>2. b[s] = IF s = {} THEN 0 ELSE f[Taken(s)] + b[u]
    BY <1>3, SumsUnfold
  <2> QED
    BY <2>1, <2>2
<1>5. s # {} /\ u \subseteq s /\ u # s
  BY <1>3, <1>4, TakenIsIn
<1>6. a[u] = b[u]
  BY <1>2, <1>5
<1> QED
  BY <1>3, <1>4, <1>6

\* Summing up a finite set is well defined.
LEMMA SumsExist ==
  ASSUME NEW f, NEW S, IsFiniteSet(S)
  PROVE  \E it : Sums(f, S, it)
<1> SUFFICES ASSUME ~ \E it : Sums(f, S, it)
             PROVE  FALSE
  OBVIOUS
<1> DEFINE Bad == {s \in SUBSET S : ~ \E it : Sums(f, s, it)}
           It(s) == CHOOSE it : Sums(f, s, it)
<1>1. Bad \in SUBSET SUBSET S /\ Bad # {}
  OBVIOUS
<1>2. PICK T \in Bad : \A u \in Bad : u \subseteq T => u = T
  <2> HIDE DEF Bad
  <2> QED
    BY <1>1, Smallest
<1> DEFINE Rest(s) == s \ {Taken(s)}
           h == [s \in SUBSET T |-> IF s = {} THEN 0 ELSE f[Taken(s)] + It(Rest(s))[Rest(s)]]
<1>3. \A u \in SUBSET T : u # T => Sums(f, u, It(u))
  BY <1>2
<1>4. \A s \in SUBSET T : s # {} => Rest(s) \in SUBSET T /\ Rest(s) # T
  BY TakenIsIn
<1>5. \A u \in SUBSET T : IsFiniteSet(u)
  BY <1>2, FS_Subset
<1>6. ASSUME NEW w \in SUBSET T, w # T
      PROVE  It(w)[w] = h[w]
  <2>1. Sums(f, w, It(w))
    BY <1>3, <1>6
  <2>2. It(w)[w] = IF w = {} THEN 0 ELSE f[Taken(w)] + It(w)[Rest(w)]
    BY <2>1, SumsUnfold
  <2>3. w # {} => It(w)[Rest(w)] = It(Rest(w))[Rest(w)]
    <3> SUFFICES ASSUME w # {} PROVE It(w)[Rest(w)] = It(Rest(w))[Rest(w)]
      OBVIOUS
    <3>1. Sums(f, Rest(w), It(Rest(w))) /\ IsFiniteSet(Rest(w)) /\ Rest(w) \subseteq w
      BY <1>3, <1>4, <1>5
    <3> QED
      BY <2>1, <3>1, SumsAgree
  <2> QED
    BY <2>2, <2>3
<1>7. Sums(f, T, h)
  <2> SUFFICES h = [s \in SUBSET T |-> IF s = {} THEN 0 ELSE f[Taken(s)] + h[Rest(s)]]
    BY DEF Sums
  <2>1. \A s \in SUBSET T : s # {} => It(Rest(s))[Rest(s)] = h[Rest(s)]
    BY <1>4, <1>6
  <2>2. \A s \in SUBSET T :
          h[s] = IF s = {} THEN 0 ELSE f[Taken(s)] + It(Rest(s))[Rest(s)]
    OBVIOUS
  <2>3. h = [s \in SUBSET T |-> h[s]]
    OBVIOUS
  <2> HIDE DEF h
  <2> QED
    BY <2>1, <2>2, <2>3
<1> QED
  BY <1>2, <1>7

\* So a sum is that of an element and the rest.
LEMMA TotalUnfold ==
  ASSUME NEW f, NEW S, IsFiniteSet(S)
  PROVE  Total(f, S) = IF S = {} THEN 0 ELSE f[Taken(S)] + Total(f, S \ {Taken(S)})
<1> DEFINE It(s) == CHOOSE it : Sums(f, s, it)
           R == S \ {Taken(S)}
<1>1. IsFiniteSet(R) /\ R \subseteq S
  BY FS_Subset
<1>2. Sums(f, S, It(S)) /\ Sums(f, R, It(R))
  BY <1>1, SumsExist
<1>3. It(S)[R] = It(R)[R]
  BY <1>1, <1>2, SumsAgree
<1>4. It(S)[S] = IF S = {} THEN 0 ELSE f[Taken(S)] + It(S)[R]
  BY <1>2, SumsUnfold
<1> QED
  BY <1>3, <1>4 DEF Total

\* The sum of whole numbers is one; of naturals, a natural.
LEMMA TotalType ==
  ASSUME NEW S, IsFiniteSet(S), NEW f, NEW Numbers, Numbers \in {Nat, Int},
         \A x \in S : f[x] \in Numbers
  PROVE  Total(f, S) \in Numbers
<1> SUFFICES ASSUME Total(f, S) \notin Numbers
             PROVE  FALSE
  OBVIOUS
<1> DEFINE Bad == {s \in SUBSET S : Total(f, s) \notin Numbers}
<1>1. Bad \in SUBSET SUBSET S /\ Bad # {}
  OBVIOUS
<1>2. PICK s \in Bad : \A u \in Bad : u \subseteq s => u = s
  <2> HIDE DEF Bad
  <2> QED
    BY <1>1, Smallest
<1>3. Total(f, s) = IF s = {} THEN 0 ELSE f[Taken(s)] + Total(f, s \ {Taken(s)})
  BY <1>2, FS_Subset, TotalUnfold
<1>4. s # {}
  BY <1>2, <1>3
<1>5. s \ {Taken(s)} \subseteq s /\ s \ {Taken(s)} # s /\ Taken(s) \in S
  BY <1>2, <1>4, TakenIsIn
<1>6. Total(f, s \ {Taken(s)}) \in Numbers /\ f[Taken(s)] \in Numbers
  BY <1>2, <1>5
<1> QED
  BY <1>2, <1>3, <1>4, <1>6

\* Numbers below m add up to less than m times how many they are.
LEMMA TotalBelow ==
  ASSUME NEW S, IsFiniteSet(S), S # {}, NEW f, NEW m \in Int,
         \A x \in S : f[x] \in Int /\ f[x] < m
  PROVE  Total(f, S) < Cardinality(S) * m
<1> DEFINE k == m - 1
           Fits(s) == Total(f, s) <= Cardinality(s) * k
           Bad == {s \in SUBSET S : ~ Fits(s)}
<1>1. ASSUME NEW s \in SUBSET S
      PROVE  Cardinality(s) \in Nat /\ Total(f, s) \in Int /\ IsFiniteSet(s)
  BY FS_Subset, FS_CardinalityType, TotalType
<1>2. ASSUME Bad # {} PROVE FALSE
  <2>1. Bad \in SUBSET SUBSET S
    OBVIOUS
  <2>2. PICK s \in Bad : \A u \in Bad : u \subseteq s => u = s
    <3> HIDE DEF Bad
    <3> QED
      BY <1>2, <2>1, Smallest
  <2> DEFINE u == s \ {Taken(s)}
  <2>3. Total(f, s) = IF s = {} THEN 0 ELSE f[Taken(s)] + Total(f, u)
    BY <1>1, <2>2, TotalUnfold
  <2>4. s # {}
    <3> SUFFICES ASSUME s = {} PROVE Fits(s)
      BY <2>2
    <3>1. Cardinality(s) = 0 /\ Total(f, s) = 0
      BY <2>3, FS_EmptySet
    <3> QED
      BY <3>1
  <2>5. u \in SUBSET S /\ u \subseteq s /\ u # s /\ Taken(s) \in s /\ Taken(s) \in S
    BY <2>2, <2>4, TakenIsIn
  <2>6. Cardinality(u) = Cardinality(s) - 1
    BY <1>1, <2>2, <2>5, FS_RemoveElement
  <2>7. Total(f, u) <= Cardinality(u) * k
    BY <2>2, <2>5
  <2>8. f[Taken(s)] \in Int /\ f[Taken(s)] <= k
    BY <2>5
  <2>9. Cardinality(s) \in Nat /\ Cardinality(s) * k = Cardinality(u) * k + k
    <3>1. Cardinality(s) \in Nat /\ Cardinality(u) \in Nat
      BY <1>1, <2>2, <2>5
    <3> QED
      BY <2>6, <3>1, Z3
  <2>10. Total(f, s) <= Cardinality(s) * k
    <3>1. Total(f, u) \in Int /\ Cardinality(u) \in Nat /\ Cardinality(u) * k \in Int
      BY <1>1, <2>5
    <3> QED
      BY <2>3, <2>4, <2>7, <2>8, <2>9, <3>1
  <2> QED
    BY <2>2, <2>10
<1>3. Cardinality(S) \in Nat /\ Cardinality(S) # 0
  BY <1>1, FS_EmptySet
<1>4. Total(f, S) <= Cardinality(S) * k
  BY <1>2
<1>5. Cardinality(S) * k = Cardinality(S) * m - Cardinality(S)
  BY <1>3, Z3
<1>6. Cardinality(S) * m \in Int
  BY <1>3
<1> QED
  BY <1>1, <1>3, <1>4, <1>5, <1>6

\* What the code sums up, labels and scores, are totals.
LEMMA LabelSumIsTotal ==
  ASSUME NEW S
  PROVE  LabelSum(S) = Total([r \in S |-> Label(r)], S)
<1> DEFINE f == [r \in S |-> Label(r)]
           Body(it) == [s \in SUBSET S |-> IF s = {} THEN 0 ELSE Label(Taken(s)) + it[s \ {Taken(s)}]]
<1>1. \A s \in SUBSET S : s # {} => Taken(s) \in S
  BY DEF Taken
<1>2. ASSUME NEW it PROVE Sums(f, S, it) <=> it = Body(it)
  BY <1>1 DEF Sums
<1>3. (CHOOSE it : Sums(f, S, it)) = (CHOOSE it : it = Body(it))
  BY <1>2
<1>4. LabelSum(S) = (CHOOSE it : it = Body(it))[S]
  BY DEF LabelSum, MapThenSumSet, MapThenFoldSet, Taken
<1> QED
  BY <1>3, <1>4 DEF Total

LEMMA ScoreSumIsTotal ==
  ASSUME NEW S
  PROVE  MapThenSumSet(LAMBDA r : r.score, S) = Total([r \in S |-> r.score], S)
<1> DEFINE f == [r \in S |-> r.score]
           Body(it) == [s \in SUBSET S |-> IF s = {} THEN 0 ELSE Taken(s).score + it[s \ {Taken(s)}]]
<1>1. \A s \in SUBSET S : s # {} => Taken(s) \in S
  BY DEF Taken
<1>2. ASSUME NEW it PROVE Sums(f, S, it) <=> it = Body(it)
  BY <1>1 DEF Sums
<1>3. (CHOOSE it : Sums(f, S, it)) = (CHOOSE it : it = Body(it))
  BY <1>2
<1>4. MapThenSumSet(LAMBDA r : r.score, S) = (CHOOSE it : it = Body(it))[S]
  BY DEF MapThenSumSet, MapThenFoldSet, Taken
<1> QED
  BY <1>3, <1>4 DEF Total

-----------------------------------------------------------------------------
(* Promotion and Replay: the invariant.  What the four properties rest on is that a row    *)
(* is one execution's and stays, that a scan cannot be newer than the rows it returns, and *)
(* that a batch's rows are the answers of the samples its report lists as replayed.        *)

SameExecution(r, q) == r.run = q.run /\ r.branch = q.branch /\ r.nth = q.nth

\* A row is one execution's, for good; replays are set apart by nth and never count as
\* production.
RowsInv ==
  /\ rows \subseteq Row /\ IsFiniteSet(rows) /\ runs \in Nat
  /\ \A r \in rows : /\ r.run <= runs
                     /\ r.pipe = "replay" => r.stage = "testing"
                     /\ r.pipe # "replay" => r.nth = 0
  /\ \A r, q \in rows : SameExecution(r, q) => r = q

StepCall == [pipe : {"own", "other"}, step : Steps, version : Nat \cup {None}, prompt : Prompts,
             stage : Stages]
ConfigInv ==
  /\ conf \in Confs /\ prompt \in [Steps -> Prompts] /\ stage \in Stages
  /\ deployed \in Nat \cup {None} /\ calls \subseteq StepCall /\ now \in Nat

BucketSample == [run : Nat, branch : Nat, nth : Nat, step : Steps,
                 key : (Prompts \cup {None}) \X (Nat \cup {None}), score : Int, label : 0 .. 2,
                 source : {"human", "check", "run"}]
FromProduction(R, S) ==
  \A x \in S : \E r \in R : r.run = x.run /\ r.branch = x.branch /\ r.stage = "production"
                            /\ r.pipe # "replay"

\* A scan is of a time after its lookup began, and what it returns keeps to production.
LookupInv ==
  /\ cache \in [samples : SUBSET BucketSample, asOf : Nat, computedAt : Int]
  /\ gates \in [Gates -> [pc : {"idle", "scanning", "storing"}, started : Nat,
                          samples : SUBSET BucketSample, asOf : Nat]]
  /\ used \in [samples : SUBSET BucketSample, asOf : Nat, started : Nat]
  /\ cache.computedAt <= cache.asOf
  /\ \A g \in Gates : /\ gates[g].pc = "scanning" => gates[g].started <= now
                      /\ gates[g].pc = "storing" => gates[g].started <= gates[g].asOf
                      /\ FromProduction(rows, gates[g].samples)
  /\ used.asOf >= used.started - TTL
  /\ FromProduction(rows, cache.samples) /\ FromProduction(rows, used.samples)

IsAnswer(r, n, x) == r.run = n /\ r.branch = x.branch /\ r.nth = x.run

\* The rows of run n are the answers of these samples.
Answered(R, n, S) ==
  /\ \A x \in S : \E r \in R : IsAnswer(r, n, x)
  /\ \A r \in R : r.run = n => \E x \in S : IsAnswer(r, n, x)

Sample == [run : Nat, branch : Nat, label : 0 .. 2]
Report == [replayed : SUBSET samples, unreplayable : SUBSET samples]
BatchInv ==
  /\ samples \subseteq Sample /\ memory \in Report
  /\ \A x, y \in samples : x.run = y.run /\ x.branch = y.branch => x = y
  /\ batch \in [run : Nat, step : Steps \cup {None}, prompt : Prompts \cup {None},
                status : {"none", "running", "completed", "interrupted"}, stored : Report]
  /\ batch.run <= runs
  /\ tasks = << >> \/ tasks \in [samples -> {"waiting", "calling", "done"}]
  /\ tasks # << >> =>
       /\ batch.status = "running"
       /\ \A x \in samples : tasks[x] = "done" <=> x \in memory.replayed \cup memory.unreplayable
  /\ batch.status = "none" => samples = {}
  /\ batch.status = "running" =>
       /\ batch.step \in Steps /\ batch.stored = NoReport
       /\ Answered(rows, batch.run, memory.replayed)
  /\ batch.status = "completed" =>
       /\ samples \subseteq batch.stored.replayed \cup batch.stored.unreplayable
       /\ Answered(rows, batch.run, batch.stored.replayed)

\* The rows of a run that is no replay are of one call: a branch that has an agent version,
\* or did not fail, has that of the other branches.
OfOneCall(r, q) ==
  /\ r.prompt = q.prompt /\ r.at = q.at
  /\ (r.status # "failed" \/ r.version # None) /\ q.version # None => r.version = q.version
RunsAreOne ==
  \A r, q \in rows :
    r.run = q.run /\ r.pipe # "replay" /\ q.pipe # "replay" => OfOneCall(r, q)

IInv ==
  /\ ConfigInv /\ RowsInv /\ RunsAreOne
  /\ LookupInv /\ SnapshotsAreHonest /\ BatchInv

-----------------------------------------------------------------------------
(* Rows. *)

LEMMA ImageIsFinite ==
  ASSUME NEW S, IsFiniteSet(S), NEW f
  PROVE  LET T == {f[x] : x \in S}
         IN  IsFiniteSet(T) /\ Cardinality(T) <= Cardinality(S)
<1> DEFINE T == {f[x] : x \in S}
           g == [x \in S |-> f[x]]
<1>1. g \in Surjection(S, T)
  BY DEF Surjection
<1> QED
  BY <1>1, FS_Surjection

\* What a mark does not change of a row.
Twin(r, q) ==
  /\ SameExecution(r, q)
  /\ r.step = q.step /\ r.pipe = q.pipe /\ r.stage = q.stage /\ r.prompt = q.prompt
  /\ r.version = q.version /\ r.at = q.at /\ r.score = q.score
  /\ r.check = q.check /\ r.status = q.status

\* Rows that are marked, each where it is.
LEMMA MarksKeepRows ==
  ASSUME RowsInv, NEW m \in [rows -> Row], \A r \in rows : Twin(r, m[r]),
         rows' = {m[r] : r \in rows}, runs' = runs
  PROVE  /\ RowsInv'
         /\ \A r \in rows : \E q \in rows' : Twin(r, q)
         /\ \A q \in rows' : \E r \in rows : Twin(r, q)
<1>1. rows' \subseteq Row /\ IsFiniteSet(rows')
  <2>1. IsFiniteSet(rows')
    BY ImageIsFinite DEF RowsInv
  <2> QED
    BY <2>1
<1>2. \A q \in rows' : \E r \in rows : q = m[r] /\ Twin(r, q)
  OBVIOUS
<1>3. ASSUME NEW q1 \in rows', NEW q2 \in rows', SameExecution(q1, q2)
      PROVE  q1 = q2
  <2>1. PICK r1 \in rows : q1 = m[r1] /\ Twin(r1, q1)
    BY <1>2
  <2>2. PICK r2 \in rows : q2 = m[r2] /\ Twin(r2, q2)
    BY <1>2
  <2>3. r1 = r2
    BY <1>3, <2>1, <2>2 DEF RowsInv, Twin, SameExecution
  <2> QED
    BY <2>1, <2>2, <2>3
<1>4. \A q \in rows' : /\ q.run <= runs'
                       /\ q.pipe = "replay" => q.stage = "testing"
                       /\ q.pipe # "replay" => q.nth = 0
  BY <1>2 DEF RowsInv, Twin, SameExecution
<1> QED
  BY <1>1, <1>2, <1>3, <1>4 DEF RowsInv

LEMMA MarkStepKeepsRows ==
  ASSUME RowsInv, ConfigInv, NEW r \in rows, NEW outcome \in conf.marks, MarkStep(r, outcome)
  PROVE  /\ RowsInv'
         /\ \A r1 \in rows : \E q \in rows' : Twin(r1, q)
         /\ \A q \in rows' : \E r1 \in rows : Twin(r1, q)
<1> DEFINE m == [q \in rows |-> IF q = r THEN [r EXCEPT !.mark = outcome] ELSE q]
<1>1. outcome \in Outcomes
  BY ConfsAssumption DEF ConfigInv
<1>2. [r EXCEPT !.mark = outcome] \in Row
  BY <1>1 DEF RowsInv, Row
<1>3. Twin(r, [r EXCEPT !.mark = outcome])
  BY DEF RowsInv, Row, Twin, SameExecution
<1>4. m \in [rows -> Row] /\ \A q \in rows : Twin(q, m[q])
  BY <1>2, <1>3 DEF RowsInv, Twin, SameExecution
<1>5. rows' = {m[q] : q \in rows}
  BY DEF MarkStep
<1>6. runs' = runs
  BY DEF MarkStep
<1> HIDE DEF m
<1> QED
  BY <1>4, <1>5, <1>6, MarksKeepRows

LEMMA MarkRunKeepsRows ==
  ASSUME RowsInv, ConfigInv, NEW n, NEW outcome \in conf.runMarks, MarkRun(n, outcome)
  PROVE  /\ RowsInv'
         /\ \A r1 \in rows : \E q \in rows' : Twin(r1, q)
         /\ \A q \in rows' : \E r1 \in rows : Twin(r1, q)
<1> DEFINE m == [q \in rows |-> IF q.run = n THEN [q EXCEPT !.runMark = outcome] ELSE q]
<1>1. outcome \in Outcomes
  BY ConfsAssumption DEF ConfigInv
<1>2. ASSUME NEW q \in rows
      PROVE  [q EXCEPT !.runMark = outcome] \in Row /\ Twin(q, [q EXCEPT !.runMark = outcome])
  BY <1>1 DEF RowsInv, Row, Twin, SameExecution
<1>4. m \in [rows -> Row] /\ \A q \in rows : Twin(q, m[q])
  BY <1>2 DEF RowsInv, Twin, SameExecution
<1>5. rows' = {m[q] : q \in rows}
  BY DEF MarkRun
<1>6. runs' = runs
  BY DEF MarkRun
<1> HIDE DEF m
<1> QED
  BY <1>4, <1>5, <1>6, MarksKeepRows

\* Rows of a new run.
LEMMA FinishAddsRows ==
  ASSUME RowsInv, ConfigInv, NEW call \in calls, NEW kinds \in conf.kinds, NEW reached,
         Finish(call, kinds, reached)
  PROVE  /\ RowsInv' /\ rows \subseteq rows'
         /\ \A q \in rows' \ rows : q.run = runs + 1 /\ q.pipe # "replay"
<1> DEFINE added == {StoredRow(call, kinds[b], b) : b \in DOMAIN kinds}
<1>1. DOMAIN kinds \subseteq Nat /\ IsFiniteSet(DOMAIN kinds) /\ kinds \in [DOMAIN kinds -> Kind]
  BY ConfsAssumption DEF ConfigInv
<1>2. rows' = rows \cup added /\ runs' = runs + 1
  BY DEF Finish
<1>3. ASSUME NEW b \in DOMAIN kinds
      PROVE  /\ StoredRow(call, kinds[b], b) \in Row
             /\ StoredRow(call, kinds[b], b).run = runs + 1
             /\ StoredRow(call, kinds[b], b).branch = b
             /\ StoredRow(call, kinds[b], b).nth = 0
             /\ StoredRow(call, kinds[b], b).pipe # "replay"
  <2>1. call \in StepCall /\ kinds[b] \in Kind /\ b \in Nat /\ now \in Nat /\ runs \in Nat
    BY <1>1 DEF ConfigInv, RowsInv
  <2> QED
    BY <2>1 DEF StepCall, Kind, Row, StoredRow
<1>4. IsFiniteSet(added)
  <2> DEFINE f == [b \in DOMAIN kinds |-> StoredRow(call, kinds[b], b)]
  <2>1. IsFiniteSet({f[b] : b \in DOMAIN kinds})
    <3> HIDE DEF f
    <3> QED
      BY <1>1, ImageIsFinite
  <2>2. added = {f[b] : b \in DOMAIN kinds}
    OBVIOUS
  <2> QED
    BY <2>1, <2>2
<1>5. IsFiniteSet(rows') /\ rows' \subseteq Row /\ runs \in Nat /\ runs' \in Nat
  <2>1. added \subseteq Row
    BY <1>3
  <2>2. IsFiniteSet(rows \cup added)
    <3> HIDE DEF added
    <3> QED
      BY <1>4, FS_Union DEF RowsInv
  <2> QED
    BY <1>2, <2>1, <2>2 DEF RowsInv
<1>6. \A q \in added : q.run = runs + 1 /\ q.pipe # "replay" /\ q.nth = 0
  BY <1>3
<1>7. \A r, q \in added : SameExecution(r, q) => r = q
  BY <1>3 DEF SameExecution
<1>8. \A r \in rows : r.run \in Nat /\ r.run <= runs
  BY DEF RowsInv, Row
<1> HIDE DEF added
<1>9. \A r, q \in rows' : SameExecution(r, q) => r = q
  <2> SUFFICES ASSUME NEW r \in rows', NEW q \in rows', SameExecution(r, q)
               PROVE  r = q
    OBVIOUS
  <2>1. CASE r \in rows /\ q \in rows
    BY <2>1 DEF RowsInv
  <2>2. CASE r \in added /\ q \in added
    BY <2>2, <1>7
  <2>3. CASE (r \in rows /\ q \in added) \/ (r \in added /\ q \in rows)
    BY <2>3, <1>5, <1>6, <1>8 DEF SameExecution
  <2> QED
    BY <1>2, <2>1, <2>2, <2>3
<1>10. \A r \in rows' : /\ r.run <= runs'
                        /\ r.pipe = "replay" => r.stage = "testing"
                        /\ r.pipe # "replay" => r.nth = 0
  BY <1>2, <1>5, <1>6, <1>8 DEF RowsInv
<1> QED
  BY <1>2, <1>5, <1>6, <1>9, <1>10 DEF RowsInv

\* The row of an answer that has none yet.
LEMMA AnswerAddsRow ==
  ASSUME RowsInv, ConfigInv, BatchInv, NEW x \in DOMAIN tasks, NEW kinds \in conf.kinds,
         NEW b \in DOMAIN kinds, NEW reached, Answers(x, kinds[b], reached)
  PROVE  /\ RowsInv' /\ rows' = rows \cup {Candidate(x, kinds[b])}
         /\ x \in samples /\ tasks[x] = "calling" /\ batch.status = "running"
         /\ IsAnswer(Candidate(x, kinds[b]), batch.run, x)
<1> DEFINE c == Candidate(x, kinds[b])
<1>1. rows' = rows \cup {c} /\ runs' = runs /\ tasks[x] = "calling"
  BY DEF Answers, Task
<1>2. tasks # << >>
  OBVIOUS
<1>3. x \in samples /\ batch.status = "running" /\ x \notin memory.replayed /\ x \in Sample
      /\ tasks \in [samples -> {"waiting", "calling", "done"}]
  BY <1>1, <1>2 DEF BatchInv
<1>4. kinds[b] \in Kind
  BY ConfsAssumption DEF ConfigInv
<1>5. c \in Row /\ c.run = batch.run /\ c.branch = x.branch /\ c.nth = x.run
      /\ c.pipe = "replay" /\ c.stage = "testing"
  BY <1>3, <1>4 DEF Candidate, Row, Kind, Sample, BatchInv, ConfigInv, Stages
<1>6. \A r \in rows : ~ SameExecution(r, c)
  <2> SUFFICES ASSUME NEW r \in rows, SameExecution(r, c) PROVE FALSE
    OBVIOUS
  <2>1. r.run = batch.run /\ r.branch = x.branch /\ r.nth = x.run
    BY <1>5 DEF SameExecution
  <2>2. PICK y \in memory.replayed : IsAnswer(r, batch.run, y)
    BY <1>3, <2>1 DEF BatchInv, Answered
  <2>3. y \in samples /\ y.run = x.run /\ y.branch = x.branch
    BY <2>1, <2>2 DEF BatchInv, Report, IsAnswer
  <2>4. y = x
    BY <1>3, <2>3 DEF BatchInv
  <2> QED
    BY <1>3, <2>2, <2>4
<1>7. IsFiniteSet(rows')
  BY <1>1, FS_AddElement DEF RowsInv
<1>8. \A r, q \in rows' : SameExecution(r, q) => r = q
  BY <1>1, <1>6 DEF RowsInv, SameExecution
<1>9. batch.run <= runs
  BY DEF BatchInv
<1>10. RowsInv'
  BY <1>1, <1>5, <1>7, <1>8, <1>9 DEF RowsInv
<1> QED
  BY <1>1, <1>3, <1>5, <1>10 DEF IsAnswer

\* No row is lost, nor what it says but for its marks.
RowsKept == \A r \in rows : \E q \in rows' : Twin(r, q)

LEMMA TwinOfItself == \A r : Twin(r, r)
BY DEF Twin, SameExecution

LEMMA RowsStep ==
  ASSUME ConfigInv, RowsInv, BatchInv, [Next]_vars
  PROVE  RowsInv' /\ RowsKept
<1>1. ASSUME rows' = rows, runs' \in {runs, runs + 1} PROVE RowsInv' /\ RowsKept
  BY <1>1, TwinOfItself DEF RowsInv, RowsKept, Row, SameExecution
<1>2. CASE UNCHANGED <<rows, runs>>
  BY <1>1, <1>2
<1>3. ASSUME NEW pipe \in conf.pipes, NEW s \in conf.steps, Begin(pipe, s)
      PROVE  RowsInv' /\ RowsKept
  BY <1>2, <1>3 DEF Begin
<1>4. ASSUME NEW call \in calls, NEW kinds \in conf.kinds, NEW reached \in conf.reached,
             Finish(call, kinds, reached)
      PROVE  RowsInv' /\ RowsKept
  BY <1>4, FinishAddsRows, TwinOfItself DEF RowsKept
<1>5. ASSUME NEW r \in rows, NEW outcome \in conf.marks, MarkStep(r, outcome)
      PROVE  RowsInv' /\ RowsKept
  BY <1>5, MarkStepKeepsRows DEF RowsKept
<1>6. ASSUME NEW n \in 1 .. runs, NEW outcome \in conf.runMarks, MarkRun(n, outcome)
      PROVE  RowsInv' /\ RowsKept
  BY <1>6, MarkRunKeepsRows DEF RowsKept
<1>7. ASSUME NEW s \in conf.steps, NEW p \in Prompts, EditPrompt(s, p)
      PROVE  RowsInv' /\ RowsKept
  BY <1>2, <1>7 DEF EditPrompt, Change, evidence
<1>8. CASE Promote \/ Redeploy \/ Tick
  BY <1>2, <1>8 DEF Promote, Redeploy, Tick, Change, evidence
<1>9. ASSUME NEW g \in Gates, LookUpFresh(g) \/ LookUpExpired(g) \/ Scan(g) \/ Store(g)
      PROVE  RowsInv' /\ RowsKept
  BY <1>2, <1>9 DEF LookUpFresh, LookUpExpired, Scan, Store, evidence
<1>10. ASSUME NEW s \in conf.steps, NEW p \in Prompts, Launch(s, p)
       PROVE  RowsInv' /\ RowsKept
  BY <1>1, <1>10 DEF Launch
<1>11. ASSUME NEW x \in DOMAIN tasks, Unrecoverable(x) \/ Call(x) \/ SaveFails(x)
       PROVE  RowsInv' /\ RowsKept
  BY <1>2, <1>11 DEF Unrecoverable, Call, SaveFails, promotionVars, evidence
<1>12. ASSUME NEW x \in DOMAIN tasks, NEW kinds \in conf.kinds, NEW reached \in conf.reached,
              NEW b \in DOMAIN kinds, Answers(x, kinds[b], reached)
       PROVE  RowsInv' /\ RowsKept
  BY <1>12, AnswerAddsRow, TwinOfItself DEF RowsKept
<1>13. CASE Finalise \/ FinaliseEmpty \/ FinaliseFails
  BY <1>2, <1>13 DEF Finalise, FinaliseEmpty, FinaliseFails, promotionVars, evidence
<1>14. CASE Restart
  BY <1>2, <1>14 DEF Restart
<1>15. CASE UNCHANGED vars
  BY <1>2, <1>15 DEF vars, promotionVars, evidence
<1> QED
  BY <1>3, <1>4, <1>5, <1>6, <1>7, <1>8, <1>9, <1>10, <1>11, <1>12, <1>13, <1>14, <1>15
     DEF Next, PromotionNext, ReplayNext

\* Rows that are those of before, but for marks, and replays' are of one call per run.
LEMMA OldRowsAreOne ==
  ASSUME RunsAreOne, \A q \in rows' : q.pipe = "replay" \/ \E r \in rows : Twin(r, q)
  PROVE  RunsAreOne'
<1> SUFFICES ASSUME NEW q1 \in rows', NEW q2 \in rows', q1.run = q2.run,
                    q1.pipe # "replay", q2.pipe # "replay"
             PROVE  OfOneCall(q1, q2)
  BY DEF RunsAreOne
<1>1. PICK r1 \in rows : Twin(r1, q1)
  OBVIOUS
<1>2. PICK r2 \in rows : Twin(r2, q2)
  OBVIOUS
<1>3. OfOneCall(r1, r2)
  BY <1>1, <1>2 DEF RunsAreOne, Twin, SameExecution
<1> QED
  BY <1>1, <1>2, <1>3 DEF OfOneCall, Twin

LEMMA FinishedRunIsOne ==
  ASSUME RowsInv, RunsAreOne, NEW call, NEW kinds, NEW reached, Finish(call, kinds, reached)
  PROVE  RunsAreOne'
<1> DEFINE added == {StoredRow(call, kinds[b], b) : b \in DOMAIN kinds}
<1>1. rows' = rows \cup added
  BY DEF Finish
<1>2. \A q \in added : q.run = runs + 1
  BY DEF StoredRow
<1>3. \A r \in rows : r.run \in Nat /\ r.run <= runs /\ runs \in Nat
  BY DEF RowsInv, Row
<1>4. \A q1, q2 \in added : OfOneCall(q1, q2)
  <2> SUFFICES ASSUME NEW b1 \in DOMAIN kinds, NEW b2 \in DOMAIN kinds
               PROVE  OfOneCall(StoredRow(call, kinds[b1], b1), StoredRow(call, kinds[b2], b2))
    OBVIOUS
  <2> QED
    BY DEF StoredRow, OfOneCall
<1> HIDE DEF added
<1>5. ASSUME NEW q1 \in rows', NEW q2 \in rows', q1.run = q2.run,
             q1.pipe # "replay", q2.pipe # "replay"
      PROVE  OfOneCall(q1, q2)
  <2>1. CASE q1 \in rows /\ q2 \in rows
    BY <1>5, <2>1 DEF RunsAreOne
  <2>2. CASE q1 \in added /\ q2 \in added
    BY <1>4, <2>2
  <2>3. CASE (q1 \in rows /\ q2 \in added) \/ (q1 \in added /\ q2 \in rows)
    BY <1>2, <1>3, <1>5, <2>3
  <2> QED
    BY <1>1, <2>1, <2>2, <2>3
<1> QED
  BY <1>5 DEF RunsAreOne

LEMMA OneCallStep ==
  ASSUME ConfigInv, RowsInv, BatchInv, RunsAreOne, [Next]_vars
  PROVE  RunsAreOne'
<1>1. CASE rows' = rows
  BY <1>1, TwinOfItself, OldRowsAreOne
<1>2. ASSUME NEW call \in calls, NEW kinds \in conf.kinds, NEW reached \in conf.reached,
             Finish(call, kinds, reached)
      PROVE  RunsAreOne'
  BY <1>2, FinishedRunIsOne
<1>3. ASSUME NEW r \in rows, NEW outcome \in conf.marks, MarkStep(r, outcome)
      PROVE  RunsAreOne'
  BY <1>3, MarkStepKeepsRows, OldRowsAreOne
<1>4. ASSUME NEW n \in 1 .. runs, NEW outcome \in conf.runMarks, MarkRun(n, outcome)
      PROVE  RunsAreOne'
  BY <1>4, MarkRunKeepsRows, OldRowsAreOne
<1>5. ASSUME NEW x \in DOMAIN tasks, NEW kinds \in conf.kinds, NEW reached \in conf.reached,
             NEW b \in DOMAIN kinds, Answers(x, kinds[b], reached)
      PROVE  RunsAreOne'
  <2>1. rows' = rows \cup {Candidate(x, kinds[b])} /\ Candidate(x, kinds[b]).pipe = "replay"
    BY <1>5 DEF Answers, Candidate
  <2> QED
    BY <2>1, TwinOfItself, OldRowsAreOne
<1>6. ASSUME NEW pipe \in conf.pipes, NEW s \in conf.steps, Begin(pipe, s)
      PROVE  RunsAreOne'
  BY <1>1, <1>6 DEF Begin
<1>7. ASSUME NEW s \in conf.steps, NEW p \in Prompts, EditPrompt(s, p) \/ Launch(s, p)
      PROVE  RunsAreOne'
  BY <1>1, <1>7 DEF EditPrompt, Change, evidence, Launch
<1>8. CASE Promote \/ Redeploy \/ Tick
  BY <1>1, <1>8 DEF Promote, Redeploy, Tick, Change, evidence
<1>9. ASSUME NEW g \in Gates, LookUpFresh(g) \/ LookUpExpired(g) \/ Scan(g) \/ Store(g)
      PROVE  RunsAreOne'
  BY <1>1, <1>9 DEF LookUpFresh, LookUpExpired, Scan, Store, evidence
<1>10. ASSUME NEW x \in DOMAIN tasks, Unrecoverable(x) \/ Call(x) \/ SaveFails(x)
       PROVE  RunsAreOne'
  BY <1>1, <1>10 DEF Unrecoverable, Call, SaveFails, promotionVars, evidence
<1>11. CASE Finalise \/ FinaliseEmpty \/ FinaliseFails \/ Restart
  BY <1>1, <1>11
  DEF Finalise, FinaliseEmpty, FinaliseFails, Restart, promotionVars, evidence
<1>12. CASE UNCHANGED vars
  BY <1>1, <1>12 DEF vars, promotionVars, evidence
<1> QED
  BY <1>2, <1>3, <1>4, <1>5, <1>6, <1>7, <1>8, <1>9, <1>10, <1>11, <1>12
     DEF Next, PromotionNext, ReplayNext

LEMMA FirstPromptIsOne == FirstPrompt \in Prompts
BY TTLAssumption DEF FirstPrompt

LEMMA ConfigStep ==
  ASSUME ConfigInv, [Next]_vars
  PROVE  ConfigInv'
<1>0. conf \in Confs /\ conf.steps \subseteq Steps /\ conf.pipes \subseteq {"own", "other"}
  BY ConfsAssumption DEF ConfigInv
<1>1. CASE UNCHANGED <<conf, config, calls, now>>
  BY <1>1 DEF ConfigInv, config
<1>2. ASSUME NEW pipe \in conf.pipes, NEW s \in conf.steps, Begin(pipe, s)
      PROVE  ConfigInv'
  <2>1. Captured(pipe, s) \in StepCall
    BY <1>0, FirstPromptIsOne DEF Captured, StepCall, ConfigInv, Stages
  <2> QED
    BY <1>2, <2>1 DEF Begin, ConfigInv, config
<1>3. ASSUME NEW call \in calls, NEW kinds \in conf.kinds, NEW reached \in conf.reached,
             Finish(call, kinds, reached)
      PROVE  ConfigInv'
  BY <1>3 DEF Finish, ConfigInv, config
<1>4. ASSUME NEW r \in rows, NEW outcome, MarkStep(r, outcome)
      PROVE  ConfigInv'
  BY <1>4, <1>1 DEF MarkStep
<1>5. ASSUME NEW n, NEW outcome, MarkRun(n, outcome)
      PROVE  ConfigInv'
  BY <1>5, <1>1 DEF MarkRun
<1>6. ASSUME NEW s \in conf.steps, NEW p \in Prompts, EditPrompt(s, p)
      PROVE  ConfigInv'
  BY <1>6 DEF EditPrompt, Change, ConfigInv, evidence
<1>7. CASE Promote \/ Redeploy
  BY <1>7 DEF Promote, Redeploy, Change, ConfigInv, evidence, Stages
<1>8. CASE Tick
  BY <1>8 DEF Tick, ConfigInv, config, evidence
<1>9. ASSUME NEW g \in Gates, LookUpFresh(g) \/ LookUpExpired(g) \/ Scan(g) \/ Store(g)
      PROVE  ConfigInv'
  BY <1>1, <1>9 DEF LookUpFresh, LookUpExpired, Scan, Store, evidence
<1>10. ASSUME NEW s \in conf.steps, NEW p \in Prompts, Launch(s, p)
       PROVE  ConfigInv'
  BY <1>1, <1>10 DEF Launch
<1>11. ASSUME NEW x \in DOMAIN tasks, Unrecoverable(x) \/ Call(x) \/ SaveFails(x)
       PROVE  ConfigInv'
  BY <1>1, <1>11 DEF Unrecoverable, Call, SaveFails, promotionVars, evidence
<1>12. ASSUME NEW x \in DOMAIN tasks, NEW kind, NEW reached, Answers(x, kind, reached)
       PROVE  ConfigInv'
  BY <1>1, <1>12 DEF Answers
<1>13. CASE Finalise \/ FinaliseEmpty \/ FinaliseFails
  BY <1>1, <1>13 DEF Finalise, FinaliseEmpty, FinaliseFails, promotionVars, evidence
<1>14. CASE Restart
  <2>1. \A call \in calls : Resumed(call) \in StepCall
    BY DEF ConfigInv, StepCall, Resumed
  <2> QED
    BY <1>14, <2>1 DEF Restart, ConfigInv
<1>15. CASE UNCHANGED vars
  BY <1>1, <1>15 DEF vars, promotionVars, evidence
<1> QED
  BY <1>2, <1>3, <1>4, <1>5, <1>6, <1>7, <1>8, <1>9, <1>10, <1>11, <1>12, <1>13, <1>14, <1>15
     DEF Next, PromotionNext, ReplayNext

-----------------------------------------------------------------------------
(* What a gate looks up. *)

LEMMA ProductionStays ==
  ASSUME NEW R, NEW Q, NEW S, FromProduction(R, S), \A r \in R : \E q \in Q : Twin(r, q)
  PROVE  FromProduction(Q, S)
BY DEF FromProduction, Twin, SameExecution

LEMMA LabelType ==
  ASSUME NEW r \in Row, Labelled(r)
  PROVE  Label(r) \in 0 .. 2
BY DEF Row, Labelled, Label, Worth, Outcomes

\* A scan finds production's rows only.
LEMMA ScanFinds ==
  ASSUME RowsInv
  PROVE  LET found == BucketSamples(Scanned, "production")
         IN  found \subseteq BucketSample /\ FromProduction(rows, found)
<1> DEFINE scanned == {q \in Scored(FetchStage(Scanned, "production")) : Labelled(q)}
           sample(r) == [run |-> r.run, branch |-> r.branch, nth |-> r.nth, step |-> r.step,
                         key |-> Key(r), score |-> r.score, label |-> Label(r),
                         source |-> Source(r)]
<1>1. ASSUME NEW r \in scanned
      PROVE  /\ r \in rows /\ r \in Row /\ r.stage = "production" /\ r.pipe # "replay"
             /\ r.score # None /\ Labelled(r)
  BY <1>1 DEF RowsInv, Scanned, FetchStage, Scored
<1>2. ASSUME NEW r \in scanned
      PROVE  sample(r) \in BucketSample
  <2>1. r.run \in Nat /\ r.branch \in Nat /\ r.nth \in Nat /\ r.step \in Steps /\ r.score \in Int
    BY <1>1 DEF Row
  <2>2. Key(r) \in (Prompts \cup {None}) \X (Nat \cup {None})
    BY <1>1 DEF Row, Key
  <2>3. Source(r) \in {"human", "check", "run"} /\ Label(r) \in 0 .. 2
    BY <1>1, LabelType DEF Source
  <2> QED
    BY <2>1, <2>2, <2>3 DEF BucketSample
<1>3. BucketSamples(Scanned, "production") = {sample(r) : r \in scanned}
  BY DEF BucketSamples
<1>4. \A r \in scanned : sample(r).run = r.run /\ sample(r).branch = r.branch
  OBVIOUS
<1> HIDE DEF scanned, sample
<1> QED
  BY <1>1, <1>2, <1>3, <1>4 DEF FromProduction

LEMMA LookupStep ==
  ASSUME ConfigInv, RowsInv, LookupInv, RowsKept, [Next]_vars
  PROVE  LookupInv'
<1>1. ASSUME NEW S, FromProduction(rows, S) PROVE FromProduction(rows', S)
  BY <1>1, ProductionStays DEF RowsKept
<1>2. /\ FromProduction(rows', cache.samples) /\ FromProduction(rows', used.samples)
      /\ \A g \in Gates : FromProduction(rows', gates[g].samples)
  BY <1>1 DEF LookupInv
<1>3. CASE UNCHANGED <<now, lookup>>
  BY <1>2, <1>3 DEF LookupInv, lookup
<1>4. CASE Tick
  <2>1. now \in Nat /\ now' = now + 1 /\ UNCHANGED <<cache, gates, used>>
    BY <1>4 DEF Tick, lookup, ConfigInv
  <2> QED
    BY <1>2, <2>1 DEF LookupInv
<1>5. ASSUME NEW g \in Gates, LookUpFresh(g)
      PROVE  LookupInv'
  <2>1. now \in Nat /\ TTL \in Nat
    BY TTLAssumption DEF ConfigInv
  <2> QED
    BY <1>2, <1>5, <2>1 DEF LookupInv, LookUpFresh, Fresh, Reads
<1>6. ASSUME NEW g \in Gates, LookUpExpired(g)
      PROVE  LookupInv'
  <2> DEFINE begun == [Idle EXCEPT !.pc = "scanning", !.started = now]
  <2>1. gates' = [gates EXCEPT ![g] = begun]
    BY <1>6 DEF LookUpExpired
  <2>4. begun \in [pc : {"scanning"}, started : {now}, samples : {{}}, asOf : Nat]
    BY DEF Idle
  <2>2. now \in Nat /\ UNCHANGED <<now, cache, used>>
    BY <1>6 DEF ConfigInv, LookUpExpired
  <2>3. FromProduction(rows', {})
    BY DEF FromProduction
  <2>5. begun.pc = "scanning" /\ begun.started = now /\ begun.samples = {}
    BY <2>4
  <2>6. begun \in [pc : {"idle", "scanning", "storing"}, started : Nat,
                   samples : SUBSET BucketSample, asOf : Nat]
    BY <2>2 DEF Idle
  <2> HIDE DEF begun
  <2>7. gates' \in [Gates -> [pc : {"idle", "scanning", "storing"}, started : Nat,
                              samples : SUBSET BucketSample, asOf : Nat]]
    BY <2>1, <2>6 DEF LookupInv
  <2>8. ASSUME NEW h \in Gates
        PROVE  /\ gates'[h].pc = "scanning" => gates'[h].started <= now
               /\ gates'[h].pc = "storing" => gates'[h].started <= gates'[h].asOf
               /\ FromProduction(rows', gates'[h].samples)
    <3>1. CASE h = g
      <4>1. gates'[h] = begun
        BY <2>1, <3>1 DEF LookupInv
      <4> QED
        BY <2>2, <2>3, <2>5, <4>1
    <3>2. CASE h # g
      <4>1. gates'[h] = gates[h]
        BY <2>1, <3>2 DEF LookupInv
      <4> QED
        BY <1>2, <4>1 DEF LookupInv
    <3> QED
      BY <3>1, <3>2
  <2> QED
    BY <1>2, <2>2, <2>7, <2>8 DEF LookupInv
<1>7. ASSUME NEW g \in Gates, Scan(g)
      PROVE  LookupInv'
  <2> DEFINE found == BucketSamples(Scanned, "production")
  <2>1. found \subseteq BucketSample /\ FromProduction(rows', found)
    BY <1>1, ScanFinds
  <2>2. gates' = [gates EXCEPT ![g] = [@ EXCEPT !.pc = "storing", !.asOf = now, !.samples = found]]
    BY <1>7 DEF Scan
  <2>3. now \in Nat /\ UNCHANGED <<now, cache, used>> /\ gates[g].pc = "scanning"
    BY <1>7 DEF ConfigInv, Scan
  <2> HIDE DEF found
  <2> QED
    BY <1>2, <2>1, <2>2, <2>3 DEF LookupInv
<1>8. ASSUME NEW g \in Gates, Store(g)
      PROVE  LookupInv'
  <2>1. cache' = [samples |-> gates[g].samples, asOf |-> gates[g].asOf,
                  computedAt |-> gates[g].started]
    BY <1>8 DEF Store, Computed
  <2>2. used' = [samples |-> gates[g].samples, asOf |-> gates[g].asOf,
                 started |-> gates[g].started]
    BY <1>8, <2>1 DEF Store, Reads
  <2>3. gates' = [gates EXCEPT ![g] = [pc |-> "idle", started |-> 0, samples |-> {}, asOf |-> 0]]
    BY <1>8 DEF Store, Idle
  <2>4. gates[g].pc = "storing" /\ UNCHANGED now /\ TTL \in Nat
    BY <1>8, TTLAssumption DEF Store
  <2>5. FromProduction(rows', {})
    BY DEF FromProduction
  <2> QED
    BY <1>2, <2>1, <2>2, <2>3, <2>4, <2>5 DEF LookupInv
<1>9. CASE Restart
  <2>1. /\ cache' = [samples |-> {}, asOf |-> 0, computedAt |-> -(TTL + 1)]
        /\ gates' = [g \in Gates |-> [pc |-> "idle", started |-> 0, samples |-> {}, asOf |-> 0]]
        /\ UNCHANGED <<now, used>> /\ TTL \in Nat
    BY <1>9, TTLAssumption DEF Restart, NoCache, Idle
  <2>2. FromProduction(rows', {})
    BY DEF FromProduction
  <2>3. /\ cache' \in [samples : SUBSET BucketSample, asOf : Nat, computedAt : Int]
        /\ cache'.computedAt <= cache'.asOf /\ FromProduction(rows', cache'.samples)
    BY <2>1, <2>2
  <2>4. /\ gates' \in [Gates -> [pc : {"idle", "scanning", "storing"}, started : Nat,
                                 samples : SUBSET BucketSample, asOf : Nat]]
        /\ \A g \in Gates : gates'[g].pc = "idle" /\ FromProduction(rows', gates'[g].samples)
    BY <2>1, <2>2
  <2> QED
    BY <1>2, <2>1, <2>3, <2>4 DEF LookupInv
<1>10. CASE UNCHANGED vars
  BY <1>3, <1>10 DEF vars, promotionVars
<1>11. ASSUME NEW x \in DOMAIN tasks, Unrecoverable(x) \/ Call(x) \/ SaveFails(x)
       PROVE  LookupInv'
  BY <1>3, <1>11 DEF Unrecoverable, Call, SaveFails, promotionVars
<1>12. CASE Finalise \/ FinaliseEmpty \/ FinaliseFails
  BY <1>3, <1>12 DEF Finalise, FinaliseEmpty, FinaliseFails, promotionVars
<1> QED
  BY <1>3, <1>4, <1>5, <1>6, <1>7, <1>8, <1>9, <1>10, <1>11, <1>12
     DEF Next, PromotionNext, ReplayNext, Begin, Finish, MarkStep, MarkRun, EditPrompt, Promote,
         Redeploy, Change, Launch, Answers

-----------------------------------------------------------------------------
(* What is kept of an agent's versions. *)

LEMMA SnapshotKeepsHonest ==
  ASSUME SnapshotsAreHonest, NEW stored, NEW reached, Snapshot(stored, reached),
         rows' = rows \cup stored
  PROVE  SnapshotsAreHonest'
BY DEF SnapshotsAreHonest, Snapshot, Definition, Versioned

LEMMA SnapshotsStep ==
  ASSUME ConfigInv, RowsInv, SnapshotsAreHonest, [Next]_vars
  PROVE  SnapshotsAreHonest'
<1>1. ASSUME UNCHANGED snapshots, \A q \in rows' : \E r \in rows : Twin(r, q)
      PROVE  SnapshotsAreHonest'
  BY <1>1 DEF SnapshotsAreHonest, Twin, Versioned
<1>2. CASE UNCHANGED <<snapshots, rows>>
  BY <1>2 DEF SnapshotsAreHonest
<1>3. ASSUME NEW call \in calls, NEW kinds \in conf.kinds, NEW reached, Finish(call, kinds, reached)
      PROVE  SnapshotsAreHonest'
  BY <1>3, SnapshotKeepsHonest DEF Finish
<1>4. ASSUME NEW r \in rows, NEW outcome \in conf.marks, MarkStep(r, outcome)
      PROVE  SnapshotsAreHonest'
  BY <1>1, <1>4, MarkStepKeepsRows DEF MarkStep
<1>5. ASSUME NEW n, NEW outcome \in conf.runMarks, MarkRun(n, outcome)
      PROVE  SnapshotsAreHonest'
  BY <1>1, <1>5, MarkRunKeepsRows DEF MarkRun
<1>6. ASSUME NEW x, NEW kind, NEW reached, Answers(x, kind, reached)
      PROVE  SnapshotsAreHonest'
  BY <1>6, SnapshotKeepsHonest DEF Answers
<1>7. ASSUME NEW pipe, NEW s, Begin(pipe, s)
      PROVE  SnapshotsAreHonest'
  BY <1>2, <1>7 DEF Begin
<1>8. ASSUME NEW s, NEW p, EditPrompt(s, p) \/ Launch(s, p)
      PROVE  SnapshotsAreHonest'
  BY <1>2, <1>8 DEF EditPrompt, Change, evidence, Launch
<1>9. CASE Promote \/ Redeploy \/ Tick
  BY <1>2, <1>9 DEF Promote, Redeploy, Tick, Change, evidence
<1>10. ASSUME NEW g, LookUpFresh(g) \/ LookUpExpired(g) \/ Scan(g) \/ Store(g)
       PROVE  SnapshotsAreHonest'
  BY <1>2, <1>10 DEF LookUpFresh, LookUpExpired, Scan, Store, evidence
<1>11. ASSUME NEW x, Unrecoverable(x) \/ Call(x) \/ SaveFails(x)
       PROVE  SnapshotsAreHonest'
  BY <1>2, <1>11 DEF Unrecoverable, Call, SaveFails, promotionVars, evidence
<1>12. CASE Finalise \/ FinaliseEmpty \/ FinaliseFails \/ Restart
  BY <1>2, <1>12 DEF Finalise, FinaliseEmpty, FinaliseFails, Restart, promotionVars, evidence
<1>13. CASE UNCHANGED vars
  BY <1>2, <1>13 DEF vars, promotionVars, evidence
<1> QED
  BY <1>3, <1>4, <1>5, <1>6, <1>7, <1>8, <1>9, <1>10, <1>11, <1>12, <1>13
     DEF Next, PromotionNext, ReplayNext

-----------------------------------------------------------------------------
(* The batch. *)

LEMMA AnswersStay ==
  ASSUME NEW R, NEW Q, NEW n, NEW S, Answered(R, n, S),
         \A r \in R : \E q \in Q : Twin(r, q),
         \A q \in Q : q.run = n => \E r \in R : Twin(r, q)
  PROVE  Answered(Q, n, S)
BY DEF Answered, IsAnswer, Twin, SameExecution

\* Whatever else happens to the rows, the batch's own stay as they are.
LEMMA OthersKeepBatch ==
  ASSUME BatchInv, UNCHANGED replayVars, runs <= runs', runs \in Nat, runs' \in Nat, RowsKept,
         \A q \in rows' : q.run = batch.run => \E r \in rows : Twin(r, q)
  PROVE  BatchInv'
<1>1. \A S : Answered(rows, batch.run, S) => Answered(rows', batch.run, S)
  BY AnswersStay DEF RowsKept
<1>2. batch.run <= runs'
  BY DEF BatchInv
<1> QED
  BY <1>1, <1>2 DEF BatchInv, Report, replayVars

LEMMA PromotionKeepsBatch ==
  ASSUME ConfigInv, RowsInv, BatchInv, RowsKept, PromotionNext, UNCHANGED replayVars
  PROVE  BatchInv'
<1>0. runs \in Nat /\ batch.run \in Nat /\ batch.run <= runs
  BY DEF RowsInv, BatchInv
<1>1. CASE UNCHANGED <<rows, runs>>
  BY <1>0, <1>1, OthersKeepBatch, TwinOfItself
<1>2. ASSUME NEW call \in calls, NEW kinds \in conf.kinds, NEW reached, Finish(call, kinds, reached)
      PROVE  BatchInv'
  <2>1. runs' = runs + 1
    BY <1>2 DEF Finish
  <2>2. \A q \in rows' : q.run = batch.run => q \in rows
    BY <1>0, <1>2, FinishAddsRows
  <2> QED
    BY <1>0, <2>1, <2>2, OthersKeepBatch, TwinOfItself
<1>3. ASSUME NEW r \in rows, NEW outcome \in conf.marks, MarkStep(r, outcome)
      PROVE  BatchInv'
  <2>1. UNCHANGED runs
    BY <1>3 DEF MarkStep
  <2> QED
    BY <1>0, <1>3, <2>1, MarkStepKeepsRows, OthersKeepBatch
<1>4. ASSUME NEW n, NEW outcome \in conf.runMarks, MarkRun(n, outcome)
      PROVE  BatchInv'
  <2>1. UNCHANGED runs
    BY <1>4 DEF MarkRun
  <2> QED
    BY <1>0, <1>4, <2>1, MarkRunKeepsRows, OthersKeepBatch
<1>5. ASSUME NEW pipe, NEW s, Begin(pipe, s)
      PROVE  BatchInv'
  BY <1>1, <1>5 DEF Begin
<1>6. ASSUME NEW s, NEW p, EditPrompt(s, p)
      PROVE  BatchInv'
  BY <1>1, <1>6 DEF EditPrompt, Change, evidence
<1>7. CASE Promote \/ Redeploy \/ Tick
  BY <1>1, <1>7 DEF Promote, Redeploy, Tick, Change, evidence
<1>8. ASSUME NEW g, LookUpFresh(g) \/ LookUpExpired(g) \/ Scan(g) \/ Store(g)
      PROVE  BatchInv'
  BY <1>1, <1>8 DEF LookUpFresh, LookUpExpired, Scan, Store, evidence
<1> QED
  BY <1>2, <1>3, <1>4, <1>5, <1>6, <1>7, <1>8 DEF PromotionNext

\* The samples of a batch are executions of their own: two rows of one run and branch are
\* replays, and those are not production's.
LEMMA LaunchBegins ==
  ASSUME ConfigInv, RowsInv, BatchInv, NEW s \in conf.steps, NEW p \in Prompts, Launch(s, p)
  PROVE  BatchInv'
<1>1. PICK latest \in Latest(s) : \E T \in Recent(LabelledOf(s, Key(latest))) :
        samples' = {Recorded(r) : r \in T}
  BY DEF Launch
<1>2. PICK T \in Recent(LabelledOf(s, Key(latest))) : samples' = {Recorded(r) : r \in T}
  BY <1>1
<1>3. T \subseteq LabelledOf(s, Key(latest))
  BY DEF Recent
<1>4. ASSUME NEW r \in T
      PROVE  r \in rows /\ r \in Row /\ r.stage = "production" /\ Labelled(r) /\ r.nth = 0
  BY <1>3, <1>4 DEF LabelledOf, ProductionOf, FetchStage, RowsInv
<1>5. \A r \in T : Recorded(r) \in Sample /\ Recorded(r).run = r.run /\ Recorded(r).branch = r.branch
  BY <1>4, LabelType DEF Recorded, Sample, Row
<1>6. \A x, y \in samples' : x.run = y.run /\ x.branch = y.branch => x = y
  <2> SUFFICES ASSUME NEW r \in T, NEW q \in T, r.run = q.run, r.branch = q.branch
               PROVE  Recorded(r) = Recorded(q)
    BY <1>2, <1>5
  <2>1. SameExecution(r, q)
    BY <1>4 DEF SameExecution
  <2> QED
    BY <1>4, <2>1 DEF RowsInv
<1>7. s \in Steps /\ runs \in Nat
  BY ConfsAssumption DEF ConfigInv, RowsInv
<1>8. /\ batch' = [run |-> runs + 1, step |-> s, prompt |-> p, status |-> "running",
                   stored |-> NoReport]
      /\ tasks' = [x \in samples' |-> "waiting"] /\ memory' = NoReport
      /\ runs' = runs + 1 /\ rows' = rows
  BY DEF Launch
<1>9. NoReport \in Report' /\ NoReport.replayed = {} /\ NoReport.unreplayable = {}
  BY DEF NoReport, Report
<1>10. Answered(rows', runs + 1, {})
  BY <1>7, <1>8 DEF Answered, RowsInv, Row
<1>11. batch' \in [run : Nat, step : Steps \cup {None}, prompt : Prompts \cup {None},
                   status : {"none", "running", "completed", "interrupted"}, stored : Report']
  BY <1>7, <1>8, <1>9
<1>12. batch'.run = runs + 1 /\ batch'.step = s /\ batch'.status = "running"
       /\ batch'.stored = NoReport /\ memory'.replayed = {} /\ memory'.unreplayable = {}
       /\ batch'.run <= runs'
  BY <1>7, <1>8, <1>9
<1>13. tasks' \in [samples' -> {"waiting", "calling", "done"}]
       /\ \A x \in samples' : tasks'[x] # "done"
  BY <1>8
<1>14. samples' \subseteq Sample /\ memory' \in Report'
  BY <1>2, <1>5, <1>8, <1>9
<1> QED
  BY <1>6, <1>7, <1>10, <1>11, <1>12, <1>13, <1>14 DEF BatchInv

LEMMA BatchStep ==
  ASSUME ConfigInv, RowsInv, BatchInv, RowsKept, RowsInv', [Next]_vars
  PROVE  BatchInv'
<1>0. /\ runs \in Nat /\ batch.run \in Nat
      /\ tasks # << >> => tasks \in [samples -> {"waiting", "calling", "done"}]
  BY DEF RowsInv, BatchInv
<1>1. CASE PromotionNext /\ UNCHANGED replayVars
  BY <1>1, PromotionKeepsBatch
<1>2. ASSUME NEW s \in conf.steps, NEW p \in Prompts, Launch(s, p)
      PROVE  BatchInv'
  BY <1>2, LaunchBegins
<1>3. ASSUME NEW x \in DOMAIN tasks, Unrecoverable(x) \/ SaveFails(x)
      PROVE  BatchInv'
  <2>1. /\ x \in samples /\ batch.status = "running"
        /\ tasks \in [samples -> {"waiting", "calling", "done"}]
    BY <1>0, <1>3 DEF BatchInv
  <2>2. /\ tasks' = [tasks EXCEPT ![x] = "done"]
        /\ memory' = [memory EXCEPT !.unreplayable = @ \cup {x}]
        /\ UNCHANGED <<batch, samples, rows, runs>>
    BY <1>3 DEF Unrecoverable, SaveFails, Task, Unreplayable, promotionVars, evidence
  <2>3. memory' \in Report /\ memory'.replayed = memory.replayed
        /\ memory'.unreplayable = memory.unreplayable \cup {x}
    BY <2>1, <2>2 DEF BatchInv, Report
  <2>4. /\ tasks' \in [samples -> {"waiting", "calling", "done"}]
        /\ \A y \in samples : tasks'[y] = "done"
                              <=> y \in memory'.replayed \cup memory'.unreplayable
    BY <2>1, <2>2, <2>3 DEF BatchInv
  <2> QED
    BY <2>1, <2>2, <2>3, <2>4 DEF BatchInv, Report
<1>4. ASSUME NEW x \in DOMAIN tasks, Call(x)
      PROVE  BatchInv'
  <2>1. /\ x \in samples /\ batch.status = "running"
        /\ tasks \in [samples -> {"waiting", "calling", "done"}]
    BY <1>0, <1>4 DEF BatchInv
  <2>2. /\ tasks[x] = "waiting" /\ tasks' = [tasks EXCEPT ![x] = "calling"]
        /\ UNCHANGED <<batch, samples, memory, rows, runs>>
    BY <1>4 DEF Call, Task, promotionVars, evidence
  <2>3. /\ tasks' \in [samples -> {"waiting", "calling", "done"}]
        /\ \A y \in samples : tasks'[y] = "done" <=> tasks[y] = "done"
    BY <2>1, <2>2
  <2> QED
    BY <2>1, <2>2, <2>3 DEF BatchInv, Report
<1>5. ASSUME NEW x \in DOMAIN tasks, NEW kinds \in conf.kinds, NEW b \in DOMAIN kinds, NEW reached,
             Answers(x, kinds[b], reached)
      PROVE  BatchInv'
  <2> DEFINE c == Candidate(x, kinds[b])
  <2>1. /\ rows' = rows \cup {c} /\ x \in samples /\ batch.status = "running"
        /\ IsAnswer(c, batch.run, x)
        /\ tasks \in [samples -> {"waiting", "calling", "done"}]
    BY <1>0, <1>5, AnswerAddsRow
  <2>2. /\ tasks' = [tasks EXCEPT ![x] = "done"]
        /\ memory' = [memory EXCEPT !.replayed = @ \cup {x}]
        /\ UNCHANGED <<batch, samples, runs>>
    BY <1>5 DEF Answers, Task
  <2>3. memory' \in Report /\ memory'.unreplayable = memory.unreplayable
        /\ memory'.replayed = memory.replayed \cup {x}
    BY <2>1, <2>2 DEF BatchInv, Report
  <2>4. /\ tasks' \in [samples -> {"waiting", "calling", "done"}]
        /\ \A y \in samples : tasks'[y] = "done"
                              <=> y \in memory'.replayed \cup memory'.unreplayable
    BY <2>1, <2>2, <2>3 DEF BatchInv
  <2>5. Answered(rows', batch.run, memory'.replayed)
    <3> HIDE DEF c
    <3> QED
      BY <2>1, <2>3 DEF BatchInv, Answered
  <2> QED
    BY <2>1, <2>2, <2>3, <2>4, <2>5 DEF BatchInv, Report
<1>6. CASE Finalise
  <2>1. /\ batch.status = "running" /\ tasks # << >>
        /\ batch' = [batch EXCEPT !.status = "completed", !.stored = memory]
        /\ tasks' = << >> /\ UNCHANGED <<samples, memory, rows, runs>>
        /\ Doing("done") = DOMAIN tasks
    BY <1>6 DEF Finalise, Finished, promotionVars, evidence
  <2>2. samples \subseteq memory.replayed \cup memory.unreplayable
    BY <1>0, <2>1 DEF BatchInv, Doing
  <2>3. /\ batch' \in [run : Nat, step : Steps \cup {None}, prompt : Prompts \cup {None},
                       status : {"none", "running", "completed", "interrupted"}, stored : Report]
        /\ batch'.stored = memory /\ batch'.run = batch.run /\ batch'.status = "completed"
    BY <2>1 DEF BatchInv
  <2> QED
    BY <2>1, <2>2, <2>3 DEF BatchInv, Report
<1>7. CASE FinaliseEmpty
  <2>1. /\ batch.status = "running" /\ samples = {}
        /\ batch' = [batch EXCEPT !.status = "completed"]
        /\ UNCHANGED <<samples, tasks, memory, rows, runs>>
    BY <1>7 DEF FinaliseEmpty, promotionVars, evidence
  <2>2. memory.replayed = {} /\ batch.stored.replayed = {}
    BY <2>1 DEF BatchInv, Report, NoReport
  <2>3. /\ batch' \in [run : Nat, step : Steps \cup {None}, prompt : Prompts \cup {None},
                       status : {"none", "running", "completed", "interrupted"}, stored : Report]
        /\ batch'.stored = batch.stored /\ batch'.run = batch.run /\ batch'.status = "completed"
    BY <2>1 DEF BatchInv
  <2>4. tasks = << >>
    <3> SUFFICES ASSUME tasks \in [{} -> {"waiting", "calling", "done"}]
                 PROVE  tasks = << >>
      BY <2>1 DEF BatchInv
    <3> QED
      OBVIOUS
  <2> QED
    BY <2>1, <2>2, <2>3, <2>4 DEF BatchInv, Report
<1>8. CASE FinaliseFails
  <2>1. tasks' = << >> /\ UNCHANGED <<batch, samples, memory, rows, runs>>
    BY <1>8 DEF FinaliseFails, promotionVars, evidence
  <2> QED
    BY <2>1 DEF BatchInv, Report
<1>9. CASE Restart
  <2>1. /\ tasks' = << >> /\ memory' = NoReport
        /\ batch' = [batch EXCEPT !.status = IF @ = "running" THEN "interrupted" ELSE @]
        /\ UNCHANGED <<samples, rows, runs>>
    BY <1>9 DEF Restart
  <2>2. NoReport \in Report
    BY DEF NoReport, Report
  <2>3. /\ batch' \in [run : Nat, step : Steps \cup {None}, prompt : Prompts \cup {None},
                       status : {"none", "running", "completed", "interrupted"}, stored : Report]
        /\ batch'.stored = batch.stored /\ batch'.run = batch.run
        /\ batch'.status = (IF batch.status = "running" THEN "interrupted" ELSE batch.status)
    BY <2>1 DEF BatchInv
  <2> QED
    BY <2>1, <2>2, <2>3 DEF BatchInv, Report
<1>10. CASE UNCHANGED vars
  <2>1. UNCHANGED <<rows, runs>> /\ UNCHANGED replayVars
    BY <1>10 DEF vars, promotionVars, evidence
  <2> QED
    BY <1>0, <2>1, OthersKeepBatch, TwinOfItself
<1> QED
  BY <1>1, <1>2, <1>3, <1>4, <1>5, <1>6, <1>7, <1>8, <1>9, <1>10 DEF Next, ReplayNext

-----------------------------------------------------------------------------
(* All of it holds at every step. *)

LEMMA Initially == Init => IInv
<1> SUFFICES ASSUME Init PROVE IInv
  OBVIOUS
<1> USE DEF Init, PromotionInit
<1>1. ConfigInv
  <2>1. conf.version \in Nat \cup {None} /\ conf.stage \in Stages
    BY ConfsAssumption
  <2> QED
    BY <2>1, FirstPromptIsOne DEF ConfigInv
<1>2. RowsInv
  BY FS_EmptySet DEF RowsInv
<1>3. LookupInv
  BY TTLAssumption DEF LookupInv, NoCache, Idle, FromProduction
<1>4. SnapshotsAreHonest
  BY DEF SnapshotsAreHonest, Versioned
<1>5. BatchInv
  BY DEF BatchInv, NoBatch, NoReport, Report
<1>6. RunsAreOne
  BY DEF RunsAreOne
<1> QED
  BY <1>1, <1>2, <1>3, <1>4, <1>5, <1>6 DEF IInv

LEMMA Stepwise == IInv /\ [Next]_vars => IInv'
<1> SUFFICES ASSUME IInv, [Next]_vars PROVE IInv'
  OBVIOUS
<1> USE DEF IInv
<1>1. RowsInv' /\ RowsKept
  BY RowsStep
<1>2. ConfigInv' /\ LookupInv' /\ SnapshotsAreHonest' /\ BatchInv'
  BY <1>1, ConfigStep, LookupStep, SnapshotsStep, BatchStep
<1>3. RunsAreOne'
  BY OneCallStep
<1> QED
  BY <1>1, <1>2, <1>3

LEMMA Always == Spec => []IInv
BY Initially, Stepwise, PTL DEF Spec

\* A row that was stored is never lost, nor what it says but for its marks, whatever is run,
\* marked, edited, redeployed, promoted and replayed after it (PipelineStep rows; StepFeedback
\* and RunFeedback are kept apart from them).
THEOREM RowsAreKept == Spec => [][RowsKept]_vars
<1>1. IInv /\ [Next]_vars => [RowsKept]_vars
  BY RowsStep DEF IInv
<1> QED
  BY <1>1, Always, PTL DEF Spec

\* What a gate uses was true at most one TTL before it asked, and is production's own
\* (CalibrationCache).
THEOREM LookupsAreSound == Spec => []LookupIsSound
<1>1. IInv => LookupIsSound
  BY DEF IInv, LookupInv, LookupIsSound, FromProduction
<1> QED
  BY <1>1, Always, PTL

\* A stored agent definition is that of its version, and every stored version is known
\* (record_agent_version).
THEOREM SnapshotsStayHonest == Spec => []SnapshotsAreHonest
<1>1. IInv => SnapshotsAreHonest
  BY DEF IInv
<1> QED
  BY <1>1, Always, PTL

-----------------------------------------------------------------------------
(* The report of a batch. *)

LEMMA ReportAccounts ==
  ASSUME RowsInv, BatchInv, batch.status = "completed"
  PROVE  EverySampleAccounted
<1> DEFINE R == batch.stored.replayed
           A == {r \in rows : r.run = batch.run}
           Of(x) == {r \in rows : r.run = batch.run /\ r.branch = x.branch /\ r.nth = x.run}
<1>1. /\ R \subseteq samples /\ samples \subseteq R \cup batch.stored.unreplayable
      /\ Answered(rows, batch.run, R)
  BY DEF BatchInv, Report
<1>2. IsFiniteSet(A)
  BY FS_Subset DEF RowsInv
<1>3. ASSUME NEW x \in R
      PROVE  /\ Answer(x) \in rows /\ IsAnswer(Answer(x), batch.run, x)
             /\ Of(x) = {Answer(x)}
  <2>1. \E r \in rows : r.run = batch.run /\ r.branch = x.branch /\ r.nth = x.run
    BY <1>1 DEF Answered, IsAnswer
  <2>2. Answer(x) \in rows /\ IsAnswer(Answer(x), batch.run, x)
    BY <2>1 DEF Answer, IsAnswer
  <2>3. \A r \in Of(x) : r = Answer(x)
    BY <2>2 DEF RowsInv, SameExecution, IsAnswer
  <2> QED
    BY <2>2, <2>3 DEF IsAnswer
<1>4. ASSUME NEW x \in samples, x \notin R
      PROVE  Of(x) = {}
  <2> SUFFICES ASSUME NEW r \in Of(x) PROVE FALSE
    OBVIOUS
  <2>1. PICK y \in R : IsAnswer(r, batch.run, y)
    BY <1>1 DEF Answered
  <2>2. y \in samples /\ y.run = x.run /\ y.branch = x.branch
    BY <1>1, <2>1 DEF IsAnswer
  <2>3. y = x
    BY <2>2 DEF BatchInv
  <2> QED
    BY <1>4, <2>1, <2>3
<1>5. ASSUME NEW x \in samples
      PROVE  /\ ReportRow(x).status # "unknown"
             /\ Cardinality(Of(x)) = (IF ReportRow(x).status = "unreplayable" THEN 0 ELSE 1)
  <2>1. CASE x \in R
    <3>1. Answer(x) \in Row /\ Cardinality(Of(x)) = 1
      BY <1>3, <2>1, FS_Singleton DEF RowsInv
    <3>2. ReportRow(x).status = Answer(x).status
      BY <2>1 DEF ReportRow
    <3> QED
      BY <3>1, <3>2 DEF Row, Statuses
  <2>2. CASE x \notin R
    <3>1. Cardinality(Of(x)) = 0
      BY <1>4, <2>2, FS_EmptySet
    <3>2. ReportRow(x).status = "unreplayable"
      BY <1>1, <2>2 DEF ReportRow
    <3> QED
      BY <3>1, <3>2
  <2> QED
    BY <2>1, <2>2
<1>6. Cardinality(A) = Cardinality(R)
  <2> DEFINE f == [x \in R |-> Answer(x)]
  <2>1. \A x \in R : f[x] \in A
    BY <1>3 DEF IsAnswer
  <2>2. \A x, y \in R : f[x] = f[y] => x = y
    BY <1>1, <1>3 DEF IsAnswer, BatchInv
  <2>3. \A r \in A : \E x \in R : f[x] = r
    <3> SUFFICES ASSUME NEW r \in A PROVE \E x \in R : f[x] = r
      OBVIOUS
    <3>1. PICK x \in R : IsAnswer(r, batch.run, x)
      BY <1>1 DEF Answered
    <3>2. r \in Of(x)
      BY <3>1 DEF IsAnswer
    <3> QED
      BY <1>3, <3>2
  <2>4. f \in Injection(R, A) /\ f \in Surjection(R, A)
    BY <2>1, <2>2, <2>3 DEF Injection, IsInjective, Surjection
  <2> QED
    BY <1>2, <2>4, FS_Injection
<1> QED
  BY <1>5, <1>6 DEF EverySampleAccounted

\* A completed batch accounts for every sample it took, with one row each or a reason
\* (run_replay_batch; compute_replay_rollup).
THEOREM SamplesAreAccounted == Spec => []EverySampleAccounted
<1>1. IInv => EverySampleAccounted
  BY ReportAccounts DEF IInv, EverySampleAccounted
<1> QED
  BY <1>1, Always, PTL

-----------------------------------------------------------------------------
(* Readiness. *)

\* Of rows there are, some are of the last run.
LEMMA LatestExists ==
  ASSUME RowsInv, NEW V \in SUBSET rows, V # {}
  PROVE  \E r \in V : \A q \in V : q.run <= r.run
<1> DEFINE After(m) == {r \in V : r.run >= m.run}
           B == {After(m) : m \in V}
<1>1. IsFiniteSet(V) /\ \A r \in V : r.run \in Nat
  BY FS_Subset DEF RowsInv, Row
<1>2. B \subseteq SUBSET V /\ B # {}
  OBVIOUS
<1>3. PICK T \in B : \A U \in B : U \subseteq T => U = T
  <2> HIDE DEF B
  <2> QED
    BY <1>1, <1>2, Smallest
<1>4. PICK m \in V : T = After(m)
  OBVIOUS
<1>5. ASSUME NEW q \in V, ~ (q.run <= m.run)
      PROVE  FALSE
  <2>1. q.run \in Nat /\ m.run \in Nat /\ q.run > m.run
    BY <1>1, <1>5
  <2>2. After(q) \subseteq After(m) /\ m \in After(m) /\ m \notin After(q)
    BY <1>1, <2>1
  <2>3. After(q) \in B /\ After(m) = T
    BY <1>4
  <2> QED
    BY <1>3, <2>2, <2>3
<1> QED
  BY <1>5

LEMMA OwnIsDone ==
  ASSUME NEW s
  PROVE  Own(s) = Done(s) /\ Done(s) \subseteq rows /\ \A r \in Done(s) : r.pipe # "replay"
BY DEF Own, FetchOf, FetchStage, Done

\* A run has one agent version, so whichever of its branches the code finds last, it is the
\* version the last run reported.
LEMMA CurrentStands ==
  ASSUME RowsInv, RunsAreOne, NEW s, NEW r
  PROVE  IsCurrent(r, SpecOf(s), Own(s)) <=> AsItStands(s, r)
<1> DEFINE V == Versioned(Done(s))
<1>1. PromptFits(r, SpecOf(s)) <=> (conf.kind[s] # "parallel" => r.prompt = prompt[s])
  BY DEF PromptFits, SpecOf
<1>2. V \in SUBSET rows /\ \A q \in V : q.pipe # "replay" /\ q.version # None
  BY OwnIsDone DEF Versioned
<1>3. CASE V = {}
  BY <1>1, <1>3, OwnIsDone DEF LastReported, LatestVersion, IsCurrent, AsItStands
<1>4. CASE V # {}
  <2> DEFINE last == CHOOSE q \in V : \A p \in V : p.run <= q.run
  <2>1. last \in V /\ \A p \in V : p.run <= last.run
    <3> HIDE DEF V
    <3>1. \E q \in V : \A p \in V : p.run <= q.run
      BY <1>2, <1>4, LatestExists
    <3> QED
      BY <3>1
  <2>2. LatestVersion(Own(s)) = last.version
    <3>1. LatestVersion(Done(s)) = last.version
      BY <1>4 DEF LatestVersion
    <3> QED
      BY <3>1, OwnIsDone
  <2> HIDE DEF last
  <2>3. last \in LastReported(s)
    BY <2>1 DEF LastReported
  <2>4. ASSUME NEW q \in LastReported(s)
        PROVE  q.version = last.version
    <3>1. q \in V /\ q.run = last.run
      BY <1>2, <2>1 DEF LastReported, RowsInv, Row
    <3> QED
      BY <1>2, <2>1, <3>1 DEF RunsAreOne, OfOneCall
  <2> QED
    BY <1>1, <2>2, <2>3, <2>4 DEF IsCurrent, AsItStands
<1> QED
  BY <1>3, <1>4

LEMMA CountedIsEvidence ==
  ASSUME RowsInv, RunsAreOne, NEW s, NEW cfg
  PROVE  /\ Counted(cfg, SpecOf(s), Own(s)) = Evidence(cfg, s)
         /\ Evidence(cfg, s) \subseteq rows /\ IsFiniteSet(Evidence(cfg, s))
<1>1. Counted(cfg, SpecOf(s), Own(s)) = Evidence(cfg, s)
  BY CurrentStands, OwnIsDone DEF Counted, Evidence
<1>2. Evidence(cfg, s) \subseteq rows
  BY OwnIsDone DEF Evidence
<1> QED
  BY <1>1, <1>2, FS_Subset DEF RowsInv

\* A row that is left out beside one of its run that is not is a failed branch's.
LEMMA LeftOutBranchFailed ==
  ASSUME RowsInv, RunsAreOne, NEW s, NEW cfg, NEW q \in Evidence(cfg, s), NEW r \in Done(s),
         r.run = q.run, r \notin Evidence(cfg, s)
  PROVE  r.status = "failed"
<1> SUFFICES ASSUME r.status # "failed" PROVE FALSE
  OBVIOUS
<1>1. cfg.current /\ ~ AsItStands(s, r) /\ AsItStands(s, q) /\ q \in Done(s)
  BY DEF Evidence
<1>2. OfOneCall(r, q)
  BY <1>1, OwnIsDone DEF RunsAreOne
<1>3. conf.kind[s] # "parallel" => r.prompt = prompt[s]
  BY <1>1, <1>2 DEF OfOneCall, AsItStands
<1>4. CASE LastReported(s) = {}
  <2>1. Versioned(Done(s)) = {}
    <3> SUFFICES ASSUME Versioned(Done(s)) # {} PROVE FALSE
      OBVIOUS
    <3>1. Versioned(Done(s)) \in SUBSET rows
      BY OwnIsDone DEF Versioned
    <3> QED
      BY <1>4, <3>1, LatestExists DEF LastReported
  <2> QED
    BY <1>1, <1>3, <1>4, <2>1 DEF Versioned, AsItStands
<1>5. CASE LastReported(s) # {}
  <2>1. PICK l \in LastReported(s) : l.version # None
    BY <1>5 DEF LastReported, Versioned
  <2>2. q.version = l.version /\ \A p \in LastReported(s) : q.version = p.version
    BY <1>1 DEF AsItStands
  <2>3. r.version = q.version
    BY <1>2, <2>1, <2>2 DEF OfOneCall
  <2> QED
    BY <1>1, <1>3, <1>5, <2>2, <2>3 DEF AsItStands
<1> QED
  BY <1>4, <1>5

LEMMA OperationalPass ==
  ASSUME RowsInv, RunsAreOne, NEW s, NEW cfg \in Criteria("operational"),
         Operational(cfg, SpecOf(s), Own(s), now) = "pass"
  PROVE  OperationalEarned(cfg, s)
<1> DEFINE Young(r) == cfg.maxAge # None => r.at + cfg.maxAge >= now
           recent == {r \in Evidence(cfg, s) : Young(r)}
           acceptable == {n \in {r.run : r \in recent} :
                            \A r \in recent : r.run = n => r.status \in cfg.statuses}
           Clean(n) == \A r \in Done(s) :
                         r.run = n => \/ r.status \in cfg.statuses
                                      \/ r.status = "failed" /\ r \notin Evidence(cfg, s)
           clean == {n \in {r.run : r \in recent} : Clean(n)}
<1>1. Cardinality(acceptable) >= cfg.minRuns
  BY CountedIsEvidence DEF Operational
<1>2. ASSUME NEW n \in acceptable PROVE Clean(n)
  <2> SUFFICES ASSUME NEW r \in Done(s), r.run = n
               PROVE  \/ r.status \in cfg.statuses
                      \/ r.status = "failed" /\ r \notin Evidence(cfg, s)
    OBVIOUS
  <2>1. PICK q \in recent : q.run = n
    OBVIOUS
  <2>2. CASE r \in Evidence(cfg, s)
    <3>1. r.at = q.at
      <4>1. q \in Done(s)
        BY DEF Evidence
      <4> QED
        BY <2>1, <4>1, OwnIsDone DEF RunsAreOne, OfOneCall
    <3> QED
      BY <2>1, <2>2, <3>1
  <2>3. CASE r \notin Evidence(cfg, s)
    BY <2>1, <2>3, LeftOutBranchFailed
  <2> QED
    BY <2>2, <2>3
<1>3. IsFiniteSet({r.run : r \in recent})
  <2> DEFINE f == [r \in recent |-> r.run]
  <2>1. IsFiniteSet(recent)
    BY CountedIsEvidence, FS_Subset
  <2>2. IsFiniteSet({f[r] : r \in recent})
    <3> HIDE DEF f, recent
    <3> QED
      BY <2>1, ImageIsFinite
  <2>3. {f[r] : r \in recent} = {r.run : r \in recent}
    OBVIOUS
  <2> QED
    BY <2>2, <2>3
<1>4. clean \subseteq {r.run : r \in recent} /\ acceptable \subseteq clean
  BY <1>2
<1> HIDE DEF acceptable, clean
<1>5. Cardinality(acceptable) <= Cardinality(clean) /\ Cardinality(acceptable) \in Nat
      /\ Cardinality(clean) \in Nat
  BY <1>3, <1>4, FS_Subset, FS_CardinalityType
<1>6. cfg.minRuns \in Nat
  BY DEF Criteria
<1>7. Cardinality(clean) >= cfg.minRuns
  BY <1>1, <1>5, <1>6
<1> QED
  BY <1>7 DEF OperationalEarned, clean

LEMMA ConfidencePass ==
  ASSUME RowsInv, RunsAreOne, NEW s, NEW cfg \in Criteria("confidence"),
         Confidence(cfg, SpecOf(s), Own(s)) = "pass"
  PROVE  ConfidenceEarned(cfg, s)
<1> DEFINE S == Scored(Evidence(cfg, s))
           n == Cardinality(S)
           sum == MapThenSumSet(LAMBDA r : r.score, S)
<1>1. S \subseteq rows /\ IsFiniteSet(S) /\ \A r \in S : r.score # None
  BY CountedIsEvidence, FS_Subset DEF Scored
<1>2. ~ (n = 0 \/ (cfg.minRuns # None /\ n < cfg.minRuns)) /\ ~ (sum < n * cfg.min)
  BY CountedIsEvidence DEF Confidence
<1> HIDE DEF S
<1>3. n \in Nat /\ cfg.min \in Nat /\ cfg.minRuns \in Nat \cup {None}
  BY <1>1, FS_CardinalityType DEF Criteria
<1>4. S # {} /\ (cfg.minRuns # None => n >= cfg.minRuns)
  <2>1. S = {} => n = 0
    BY FS_EmptySet
  <2> HIDE DEF n, sum
  <2> QED
    BY <1>2, <1>3, <2>1
<1>5. sum \in Int
  <2> DEFINE f == [r \in S |-> r.score]
  <2>1. \A r \in S : f[r] \in Int
    BY <1>1 DEF RowsInv, Row
  <2>2. Total(f, S) \in Int
    <3> HIDE DEF f
    <3> QED
      BY <1>1, <2>1, TotalType
  <2> QED
    BY <2>2, ScoreSumIsTotal
<1>6. sum >= n * cfg.min
  <2> HIDE DEF sum, n
  <2>1. n * cfg.min \in Int
    BY <1>3
  <2> QED
    BY <1>2, <1>5, <2>1
<1> QED
  BY <1>4, <1>6 DEF ConfidenceEarned, S

LEMMA AccuracyPass ==
  ASSUME RowsInv, RunsAreOne, NEW s, NEW cfg \in Criteria("accuracy"),
         Accuracy(cfg, SpecOf(s), Own(s)) = "pass"
  PROVE  AccuracyEarned(cfg, s)
<1> DEFINE S == {r \in Evidence(cfg, s) : Labelled(r)}
           human == {r \in S : Source(r) = "human"}
           n == Cardinality(S)
<1>1. S \subseteq rows /\ IsFiniteSet(S) /\ human \subseteq S /\ \A r \in S : Labelled(r)
  BY CountedIsEvidence, FS_Subset
<1>2. ~ (n < cfg.minMarked \/ (cfg.minHuman # None /\ Cardinality(human) < cfg.minHuman))
      /\ ~ (LabelSum(S) < n * cfg.min)
  BY CountedIsEvidence DEF Accuracy
<1>3. human = {r \in S : r.mark # None}
  BY DEF Source
<1> HIDE DEF human
<1>4. n \in Nat /\ Cardinality(human) \in Nat
      /\ cfg.min \in Nat /\ cfg.minMarked \in Nat /\ cfg.minHuman \in Nat \cup {None}
  BY <1>1, FS_CardinalityType, FS_Subset DEF Criteria
<1> HIDE DEF S
<1>5. LabelSum(S) \in Int
  <2> DEFINE f == [r \in S |-> Label(r)]
  <2>1. \A r \in S : Label(r) \in Int
    BY <1>1, LabelType DEF RowsInv
  <2>2. \A r \in S : f[r] \in Int
    BY <2>1
  <2>3. Total(f, S) \in Int
    <3> HIDE DEF f
    <3> QED
      BY <1>1, <2>2, TotalType
  <2> QED
    BY <2>3, LabelSumIsTotal
<1>6. n >= cfg.minMarked /\ (cfg.minHuman # None => Cardinality(human) >= cfg.minHuman)
      /\ LabelSum(S) >= n * cfg.min
  BY <1>2, <1>4, <1>5
<1> QED
  BY <1>3, <1>6 DEF AccuracyEarned, S

LEMMA CalibrationPass ==
  ASSUME RowsInv, RunsAreOne, NEW s, NEW cfg \in Criteria("calibration"),
         CalibrationTier(cfg, SpecOf(s), Own(s), Production(s)) = "pass"
  PROVE  CalibrationEarned(cfg, s)
<1> DEFINE shared == {r \in rows : r.step = s /\ r.stage = "production" /\ r.score # None}
           pools == {Done(s)} \cup (IF cfg.ownOnly THEN {} ELSE {shared})
           ToGoBy == {SamplesOf(pool, Key(r)) :
                        pool \in pools, r \in {q \in UNION pools : AsItStands(s, q)}}
           views == {Own(s)} \cup (IF cfg.ownOnly THEN {} ELSE {Scored(Production(s))})
           keys == {Key(r) : r \in {q \in UNION views : IsCurrent(q, SpecOf(s), Own(s))}}
           found == {SamplesOf(v, k) : v \in views, k \in keys}
<1>1. views = pools
  <2>1. Scored(Production(s)) = shared
    BY DEF Scored, Production, FetchStage
  <2> QED
    BY <2>1, OwnIsDone
<1>2. keys = {Key(r) : r \in {q \in UNION pools : AsItStands(s, q)}}
  BY <1>1, CurrentStands
<1> HIDE DEF views, pools
<1>3. found = ToGoBy
  BY <1>1, <1>2
<1>4. /\ \A S \in found : ~ Flagged(S, cfg.nMin, cfg.max)
      /\ \E S \in found : \E i \in Bins : Validated(S, i, cfg.nMin)
  BY DEF CalibrationTier, views
<1>5. \E S \in ToGoBy, i \in Bins : Cardinality(Binned(S, i)) >= cfg.nMin
  BY <1>3, <1>4 DEF Validated
<1>6. \A S \in ToGoBy, i \in Bins :
        Cardinality(Binned(S, i)) >= cfg.nMin => ~Diverges(S, i, cfg.max)
  BY <1>3, <1>4 DEF Flagged, Validated
<1> QED
  BY <1>5, <1>6 DEF CalibrationEarned, pools

\* A verdict that lets a pipeline be ready leaves no tier short.
LEMMA NoTierIsShort ==
  ASSUME NEW s, Verdict(s) \notin {"not_ready", "building", "no_data"}, NEW t \in Tiers
  PROVE  TierVerdict(t, SpecOf(s), Own(s), Production(s), now)
           \notin {"fail", "insufficient_data"}
BY DEF Verdict, StepVerdict

LEMMA ReadyMeansEarned ==
  ASSUME ConfigInv, RowsInv, RunsAreOne, PipelineVerdict = "ready", NEW s \in conf.steps
  PROVE  StepEarned(s)
<1> DEFINE asked == Effective(conf.house, conf.criteria[s])
           verdict(t) == TierVerdict(t, SpecOf(s), Own(s), Production(s), now)
<1>1. Verdict(s) \notin {"not_ready", "building", "no_data"}
  <2>1. Verdict(s) \in {Verdict(u) : u \in conf.steps}
    OBVIOUS
  <2> QED
    BY <2>1 DEF PipelineVerdict, RollUp
<1>2. ASSUME NEW t \in Tiers
      PROVE  asked[t] \in Criteria(t) \cup {None} /\ SpecOf(s).criteria[t] = asked[t]
  <2>1. CASE conf.criteria[s] = OptOut
    BY <2>1 DEF Effective, NoCriteria, SpecOf
  <2>2. CASE conf.criteria[s] # OptOut
    <3>1. asked[t] = IF t \in DOMAIN conf.criteria[s] THEN conf.criteria[s][t] ELSE conf.house[t]
      BY <2>2 DEF Effective
    <3> QED
      BY <2>2, <3>1, ConfsAssumption DEF ConfigInv, SpecOf
  <2> QED
    BY <2>1, <2>2
<1>3. ASSUME NEW t \in Tiers
      PROVE  verdict(t) \notin {"fail", "insufficient_data"}
  BY <1>1, NoTierIsShort
<1> HIDE DEF asked
<1>4. asked["operational"] # None => OperationalEarned(asked["operational"], s)
  <2>1. "operational" \in Tiers
    BY DEF Tiers
  <2>2. asked["operational"] # None =>
          verdict("operational") = Operational(asked["operational"], SpecOf(s), Own(s), now)
    BY <1>2, <2>1 DEF TierVerdict
  <2>3. asked["operational"] # None =>
          Operational(asked["operational"], SpecOf(s), Own(s), now) = "pass"
    BY <1>3, <2>1, <2>2 DEF Operational
  <2> QED
    BY <1>2, <2>1, <2>3, OperationalPass
<1>5. asked["confidence"] # None => ConfidenceEarned(asked["confidence"], s)
  <2>1. "confidence" \in Tiers
    BY DEF Tiers
  <2>2. asked["confidence"] # None =>
          verdict("confidence") = Confidence(asked["confidence"], SpecOf(s), Own(s))
    BY <1>2, <2>1 DEF TierVerdict
  <2>3. asked["confidence"] # None =>
          Confidence(asked["confidence"], SpecOf(s), Own(s)) = "pass"
    BY <1>3, <2>1, <2>2 DEF Confidence
  <2> QED
    BY <1>2, <2>1, <2>3, ConfidencePass
<1>6. asked["accuracy"] # None => AccuracyEarned(asked["accuracy"], s)
  <2>1. "accuracy" \in Tiers
    BY DEF Tiers
  <2>2. asked["accuracy"] # None =>
          verdict("accuracy") = Accuracy(asked["accuracy"], SpecOf(s), Own(s))
    BY <1>2, <2>1 DEF TierVerdict
  <2>3. asked["accuracy"] # None => Accuracy(asked["accuracy"], SpecOf(s), Own(s)) = "pass"
    BY <1>3, <2>1, <2>2 DEF Accuracy
  <2> QED
    BY <1>2, <2>1, <2>3, AccuracyPass
<1>7. asked["calibration"] # None => CalibrationEarned(asked["calibration"], s)
  <2>1. "calibration" \in Tiers
    BY DEF Tiers
  <2>2. asked["calibration"] # None =>
          verdict("calibration")
            = CalibrationTier(asked["calibration"], SpecOf(s), Own(s), Production(s))
    BY <1>2, <2>1 DEF TierVerdict
  <2>3. asked["calibration"] # None =>
          CalibrationTier(asked["calibration"], SpecOf(s), Own(s), Production(s)) = "pass"
    BY <1>3, <2>1, <2>2 DEF CalibrationTier
  <2> QED
    BY <1>2, <2>1, <2>3, CalibrationPass
<1> QED
  BY <1>4, <1>5, <1>6, <1>7 DEF StepEarned, asked

\* A pipeline is told it is ready only if each tier its owner asked for is met by the whole
\* of what that tier is to go by, for any criteria and any history of runs, marks, edits and
\* redeployments (evaluate_readiness).
THEOREM ReadinessIsEarned == Spec => []ReadyIsEarned
<1>1. IInv => ReadyIsEarned
  BY ReadyMeansEarned DEF IInv, ReadyIsEarned
<1> QED
  BY <1>1, Always, PTL
=============================================================================
