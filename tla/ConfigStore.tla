---------------------------- MODULE ConfigStore -----------------------------
(***************************************************************************)
(* Pipelines and library steps: the YAML files, the calls that write them, *)
(* hand edits, the reload that brings them into memory piece by piece, and *)
(* the lookups that decide which definition a run gets                     *)
(* (service/src/config_writer.py; pipeline/loader.py; pipeline/resolver.py;*)
(* main.py _do_reload and the write endpoints).                            *)
(*                                                                         *)
(* A file is a number, in the alphabetical order the loader reads them.    *)
(* FileOf[n] is the file <n>.yaml, the only one a call about n touches; an *)
(* operator may keep n in any file (10-critical.yaml).                     *)
(*                                                                         *)
(* No code between a call's checks and the end of its reload awaits, so a  *)
(* call is one step, which only the death of the process can cut short.    *)
(*                                                                         *)
(* A definition named Slip... is not part of the model: it is a plausible  *)
(* mistake in the definition that follows it.                              *)
(***************************************************************************)
EXTENDS Naturals, FiniteSets

CONSTANTS
  Names, Files, FileOf,
  Severities,
  StepBodies, PipeBodies, \* the file contents explored
  Absent,                 \* no such file, no such entry
  MaxEdits, MaxDeaths     \* bounds on hand edits and process deaths explored

(***************************************************************************)
(* ok: the file parses and validates on its own.  version: of the template.*)
(* use: the library step named by use:, or Absent.  own: the pipeline sets *)
(* every required field itself, the template included.  schedule: a cron   *)
(* is any string, and one that does not parse is only found out when its   *)
(* job is added.  match: the severities its trigger accepts, all of them   *)
(* when match: is empty.                                                   *)
(***************************************************************************)
Schedules == {"none", "valid", "invalid"}
StepBody == [name : Names, ok : BOOLEAN, version : Nat \ {0}]
PipeBody == [name : Names, ok : BOOLEAN, use : Names \cup {Absent}, own : BOOLEAN,
             schedule : Schedules, match : SUBSET Severities]

\* A pipeline in memory: version is that of the template it took from the library, 0 its own.
Pipeline == [name : Names, version : Nat, schedule : Schedules, match : SUBSET Severities]

ASSUME FilesAssumption == Files \subseteq Nat /\ IsFiniteSet(Files)
ASSUME FileOfAssumption == FileOf \in [Names -> Files]
ASSUME BodiesAssumption ==
  /\ StepBodies \subseteq StepBody
  /\ PipeBodies \subseteq {b \in PipeBody : b.use = Absent => b.own}
ASSUME AbsentAssumption == Absent \notin Names \cup StepBody \cup PipeBody \cup Pipeline
ASSUME BoundsAssumption == MaxEdits \in Nat /\ MaxDeaths \in Nat

VARIABLES
  steps, pipes,     \* the two directories
  readable,         \* config.yaml loads
  up,
  library,          \* _step_library
  served,           \* _pipelines, by the file each came from
  jobs,             \* names with a job in the scheduler
  registry,         \* the runner's registry, which sub-pipeline steps use
  shown,            \* app.state: what the pages show
  byHand,           \* history: edited by an operator since the last complete load
  torn,             \* history: a reload has stopped half-way since the last complete load
  edits, deaths

disk == <<steps, pipes, readable>>
copies == <<library, served, jobs, registry, shown>>
storeVars == <<disk, up, copies, byHand, torn, edits, deaths>>

NoFiles == [f \in Files |-> Absent]
NoNames == [n \in Names |-> Absent]

-----------------------------------------------------------------------------
(* The loader. *)

Present(dir) == {f \in Files : dir[f] # Absent}
Naming(dir, n) == {f \in Present(dir) : dir[f].name = n}
First(S) == CHOOSE f \in S : \A g \in S : f <= g
Last(S) == CHOOSE f \in S : \A g \in S : f >= g

\* Both loaders raise on the first bad file.
StepsLoad(dir) == \A f \in Present(dir) : dir[f].ok

\* A name in two files: the later one stays.
ByName(dir) ==
  [n \in Names |-> IF Naming(dir, n) = {} THEN Absent ELSE dir[Last(Naming(dir, n))]]

\* An empty library is falsy: use: is then not looked at, and the step stands by what
\* it sets itself.
Resolves(body, lib) ==
  /\ body.ok
  /\ lib = NoNames => body.own
  /\ lib # NoNames /\ body.use # Absent => lib[body.use] # Absent
PipesLoad(dir, lib) == \A f \in Present(dir) : Resolves(dir[f], lib)

\* What is set locally overrides the library.
Version(body, lib) == IF body.own THEN 0 ELSE lib[body.use].version
Resolved(dir, lib) ==
  [f \in Files |-> IF dir[f] = Absent THEN Absent
                   ELSE [name |-> dir[f].name, version |-> Version(dir[f], lib),
                         schedule |-> dir[f].schedule, match |-> dir[f].match]]

\* _register_schedules: all jobs are taken away and added again; one that cannot be added
\* is logged and left out.
ScheduledIn(loaded) ==
  {loaded[f].name : f \in {g \in Present(loaded) : loaded[g].schedule = "valid"}}

-----------------------------------------------------------------------------
(* Which definition a run gets. *)

\* An explicit name, a scheduled job or a rerun: the first pipeline of that name.
Lookup(n) == IF Naming(served, n) = {} THEN Absent ELSE served[First(Naming(served, n))]

\* No name: the first pipeline whose conditions all hold.
Matching(sev) == {f \in Present(served) : sev \in served[f].match}
Match(sev) == IF Matching(sev) = {} THEN Absent ELSE served[First(Matching(sev))]

-----------------------------------------------------------------------------
(* _do_reload, over directories that the same step may just have changed. *)

LibraryFails(sd) == ~StepsLoad(sd) /\ UNCHANGED <<copies, byHand, torn>>

PipelinesFail(sd, pd) ==
  /\ StepsLoad(sd)
  /\ ~PipesLoad(pd, ByName(sd))
  /\ library' = ByName(sd)
  /\ torn' = TRUE
  /\ UNCHANGED <<served, jobs, registry, shown, byHand>>

LoadedUpToSchedules(sd, pd) ==
  /\ StepsLoad(sd)
  /\ PipesLoad(pd, ByName(sd))
  /\ library' = ByName(sd)
  /\ served' = Resolved(pd, ByName(sd))
  /\ jobs' = ScheduledIn(served')

ConfigFails(sd, pd) ==
  /\ ~readable
  /\ LoadedUpToSchedules(sd, pd)
  /\ torn' = TRUE
  /\ UNCHANGED <<registry, shown, byHand>>

\* The registry is built from what was served before.
SlipLoads(sd, pd) ==
  /\ readable
  /\ LoadedUpToSchedules(sd, pd)
  /\ registry' = ByName(served)
  /\ shown' = <<library', served'>>
  /\ byHand' = FALSE /\ torn' = FALSE

Loads(sd, pd) ==
  /\ readable
  /\ LoadedUpToSchedules(sd, pd)
  /\ registry' = ByName(served')
  /\ shown' = <<library', served'>>
  /\ byHand' = FALSE /\ torn' = FALSE

DoReload(sd, pd) ==
  \/ LibraryFails(sd)
  \/ PipelinesFail(sd, pd)
  \/ ConfigFails(sd, pd)
  \/ Loads(sd, pd)

Gone ==
  /\ library' = NoNames /\ served' = NoFiles /\ jobs' = {}
  /\ registry' = NoNames /\ shown' = <<NoNames, NoFiles>>
  /\ torn' = FALSE

Dies ==
  /\ deaths < MaxDeaths
  /\ deaths' = deaths + 1
  /\ up' = FALSE
  /\ Gone
  /\ UNCHANGED byHand

\* The end of a call that has changed a directory.
Ends ==
  \/ DoReload(steps', pipes') /\ UNCHANGED <<up, deaths>>
  \/ Dies

-----------------------------------------------------------------------------
(* The calls.  One that is refused changes nothing and is not a step. *)

Put(dir, body) == [dir EXCEPT ![FileOf[body.name]] = body]
Drop(dir, n) == [dir EXCEPT ![FileOf[n]] = Absent]

\* POST wants no file of that name, unless it may overwrite; PUT wants one.
Modes == {"post", "overwrite", "put"}
FileFits(dir, n, mode) ==
  /\ mode = "post" => dir[FileOf[n]] = Absent
  /\ mode = "put" => dir[FileOf[n]] # Absent

\* The candidate directory is checked against the library in memory.
WritePipeline(body, mode) ==
  /\ up
  /\ FileFits(pipes, body.name, mode)
  /\ PipesLoad(Put(pipes, body), library)
  /\ pipes' = Put(pipes, body)
  /\ UNCHANGED <<steps, readable, edits>>
  /\ Ends

DeletePipeline(n) ==
  /\ up
  /\ pipes[FileOf[n]] # Absent
  /\ pipes' = Drop(pipes, n)
  /\ UNCHANGED <<steps, readable, edits>>
  /\ Ends

\* Both directories are read again.
SlipStepCandidateHolds(sd) == StepsLoad(sd)
StepCandidateHolds(sd) == StepsLoad(sd) /\ PipesLoad(pipes, ByName(sd))

WriteStep(body, mode) ==
  /\ up
  /\ FileFits(steps, body.name, mode)
  /\ StepCandidateHolds(Put(steps, body))
  /\ steps' = Put(steps, body)
  /\ UNCHANGED <<pipes, readable, edits>>
  /\ Ends

DeleteStep(n) ==
  /\ up
  /\ steps[FileOf[n]] # Absent
  /\ StepCandidateHolds(Drop(steps, n))
  /\ steps' = Drop(steps, n)
  /\ UNCHANGED <<pipes, readable, edits>>
  /\ Ends

\* POST /reload or SIGHUP.
Reload ==
  /\ up
  /\ DoReload(steps, pipes)
  /\ UNCHANGED <<disk, up, edits, deaths>>

-----------------------------------------------------------------------------
(* The operator and the process. *)

EditSteps(f, body) == steps' = [steps EXCEPT ![f] = body] /\ UNCHANGED <<pipes, readable>>
EditPipelines(f, body) == pipes' = [pipes EXCEPT ![f] = body] /\ UNCHANGED <<steps, readable>>
EditConfig == readable' = ~readable /\ UNCHANGED <<steps, pipes>>

Edit ==
  /\ edits < MaxEdits
  /\ edits' = edits + 1
  /\ byHand' = TRUE
  /\ \/ \E f \in Files, body \in StepBodies \cup {Absent} : EditSteps(f, body)
     \/ \E f \in Files, body \in PipeBodies \cup {Absent} : EditPipelines(f, body)
     \/ EditConfig
  /\ UNCHANGED <<up, copies, torn, deaths>>

Die == up /\ Dies /\ UNCHANGED <<disk, edits>>

\* Any failure to load ends the process again.
Start ==
  /\ ~up
  /\ Loads(steps, pipes)
  /\ up' = TRUE
  /\ UNCHANGED <<disk, edits, deaths>>

StoreInit ==
  /\ steps = NoFiles /\ pipes = NoFiles /\ readable = TRUE
  /\ up = FALSE
  /\ library = NoNames /\ served = NoFiles /\ jobs = {}
  /\ registry = NoNames /\ shown = <<NoNames, NoFiles>>
  /\ byHand = FALSE /\ torn = FALSE /\ edits = 0 /\ deaths = 0

StoreNext ==
  \/ \E body \in PipeBodies, mode \in Modes : WritePipeline(body, mode)
  \/ \E body \in StepBodies, mode \in Modes : WriteStep(body, mode)
  \/ \E n \in Names : DeletePipeline(n) \/ DeleteStep(n)
  \/ Reload \/ Edit \/ Die \/ Start

StoreSpec == StoreInit /\ [][StoreNext]_storeVars

-----------------------------------------------------------------------------
(* Properties. *)

\* As long as no operator has touched the files since the last complete load, whatever
\* calls were accepted, refused or cut short by a death: the directories load, so the
\* service would start again, and the five copies in memory are those of one load of
\* exactly what is stored; a stored schedule has its job unless its cron does not parse.
\* An operator's edit that does not load tears them apart only where a reload can stop:
\* until one does, the copies are of one load, if not of what is stored now, so that no
\* pipeline runs with a template the library in memory does not have; even after that the
\* jobs are of what is served by name, and the pages show what sub-pipelines find.
Loadable == readable /\ StepsLoad(steps) /\ PipesLoad(pipes, ByName(steps))
OneLoad ==
  /\ \A f \in Present(served) : served[f].version # 0 =>
       \E n \in Names : library[n] # Absent /\ library[n].version = served[f].version
  /\ jobs = ScheduledIn(served)
  /\ registry = ByName(served)
  /\ shown = <<library, served>>
InMemory ==
  /\ library = ByName(steps)
  /\ served = Resolved(pipes, library)
  /\ OneLoad
ServedIsStored ==
  /\ ~byHand => Loadable /\ (up => InMemory)
  /\ ~torn => OneLoad
  /\ jobs = ScheduledIn(served)
  /\ registry = ByName(shown[2])

\* A write that is accepted while the files are the service's own is what the next runs
\* get: by name, unless an earlier file claims that name; as a sub-pipeline, unless a
\* later file does; by its conditions, unless an earlier file's hold as well.  (A 409
\* looks at the file <name>.yaml only.)
Takes(body, mode) ==
  ~byHand /\ up' /\ WritePipeline(body, mode) =>
    LET mine == FileOf[body.name]
        others == Naming(pipes, body.name) \ {mine}
    IN /\ Lookup(body.name)' = served'[mine] \/ \E f \in others : f < mine
       /\ registry'[body.name] = served'[mine] \/ \E f \in others : f > mine
       /\ \A sev \in body.match :
            Match(sev)' = served'[mine] \/ \E f \in Matching(sev)' : f < mine
       /\ served'[mine].version = Version(body, ByName(steps))
WritesTakeEffect == [][\A body \in PipeBodies, mode \in Modes : Takes(body, mode)]_storeVars
=============================================================================
