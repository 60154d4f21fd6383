------------------------------ MODULE Pipeline ------------------------------
(***************************************************************************)
(* The native build pipeline of one project directory: execute             *)
(* (pipeline.py), which acquires every source, builds every cell of        *)
(* libraries x groups (a group is a route and a treatment) and populates   *)
(* one FID database for each built cell, group by group; and the staged    *)
(* backend (staged_backend.py), which does the two halves for one cell in  *)
(* processes of their own, with a sealed state file in between.            *)
(*                                                                         *)
(* A run is killed between any two of its steps and started again in the   *)
(* directory it left.  A cell's objects and databases carry the number of  *)
(* the run that built them, which no operation looks at.                   *)
(***************************************************************************)
EXTENDS Naturals, Sequences, FiniteSets

CONSTANTS Libraries, Groups,    \* how many of each, in the plan's order
          MaxRuns, MaxPipelineKills     \* bounds

ASSUME PipelineAssumption ==
    /\ Libraries \in Nat \ {0} /\ Groups \in Nat \ {0}
    /\ MaxRuns \in Nat \ {0} /\ MaxPipelineKills \in Nat

VARIABLES
    staged,         \* the directory belongs to a staged job
    phase, todo, group,     \* the run: its phase, what is left of it, its group
    run,            \* the number of the run, or of the staged build
    records,        \* in memory: the status of every cell
    objects,        \* work/builds: the run that built the cell's objects
    stagedBuild,          \* work/staged-build.json: <<>> or <<[status, of]>>
    candidates, published,  \* cells with a database: the run of its objects
    manifest,       \* fidb_manifest.csv: <<>> or <<[status, of]>>
    clearing,       \* history: databases were removed since the manifest last was
    pipelineKills

pipelineVars == <<staged, phase, todo, group, run, records, objects, stagedBuild, candidates,
                  published, manifest, clearing, pipelineKills>>
results == <<stagedBuild, candidates, published, manifest, clearing>>

Matrix == IF staged THEN {<<1, 1>>} ELSE (1..Libraries) \X (1..Groups)
LastGroup == IF staged THEN 1 ELSE Groups
InGroup(g) == {c \in Matrix : c[2] = g}
NoObjects == [c \in Matrix |-> 0]
Requested == [c \in Matrix |-> "requested"]
Alike(f) == f[CHOOSE c \in Matrix : TRUE]

\* The first cell that is left, in the order of the loops of execute: by
\* library, then by group.
First(cells) == CHOOSE c \in cells : \A d \in cells :
    c[1] < d[1] \/ (c[1] = d[1] /\ c[2] <= d[2])

PipelineInit ==
    /\ staged \in BOOLEAN
    /\ phase = "idle" /\ todo = {} /\ group = 0 /\ run = 0
    /\ records = Requested /\ objects = NoObjects
    /\ stagedBuild = <<>> /\ manifest = <<>>
    /\ candidates = NoObjects /\ published = NoObjects
    /\ clearing = FALSE /\ pipelineKills = 0

To(step, cells) == phase' = step /\ todo' = cells

-----------------------------------------------------------------------------
(* A fresh start: everything generated is removed, the manifest last.      *)

\* The build of a staged job is submitted once, in a root made for the job.
BeginRun ==
    /\ phase = "idle" /\ run < MaxRuns
    /\ staged => run = 0
    /\ run' = run + 1 /\ records' = Requested
    /\ To("clear work", {})
    /\ UNCHANGED <<staged, group, objects, results, pipelineKills>>

ClearWork ==
    /\ phase = "clear work"
    /\ objects' = NoObjects /\ candidates' = NoObjects
    /\ To("clear output", {})
    /\ UNCHANGED <<staged, group, run, records, stagedBuild, published, manifest, clearing, pipelineKills>>

\* _recreate_directory of the databases: one goes after another, in whatever
\* order the directory lists them ...
ClearDatabase ==
    /\ phase \in {"clear output", "clear analysis"}
    /\ \E c \in Matrix :
          published[c] # 0 /\ published' = [published EXCEPT ![c] = 0]
    /\ clearing' = TRUE
    /\ UNCHANGED <<staged, phase, todo, group, run, records, objects, stagedBuild, candidates,
                   manifest, pipelineKills>>

\* ... until none is left, and the signatures.
ClearOutput ==
    /\ phase \in {"clear output", "clear analysis"} /\ published = NoObjects
    /\ To(IF phase = "clear output" THEN "clear manifest" ELSE "clear analysis manifest", {})
    /\ UNCHANGED <<staged, group, run, records, objects, results, pipelineKills>>

ClearManifest ==
    /\ phase \in {"clear manifest", "clear analysis manifest"}
    /\ manifest' = <<>> /\ clearing' = FALSE
    /\ IF phase = "clear manifest" THEN To("acquire", {c \in Matrix : c[2] = 1})
       ELSE To("load", {})
    /\ UNCHANGED <<staged, group, run, records, objects, stagedBuild, candidates, published,
                   pipelineKills>>

-----------------------------------------------------------------------------
(* Sources and builds.                                                     *)

\* The pinned inputs and archive of the next library, from the cache of
\* downloads or the network; without them the run ends.
DownloadSource ==
    /\ phase = "acquire"
    /\ To("extract", todo) \/ To("idle", {})
    /\ UNCHANGED <<staged, group, run, records, objects, results, pipelineKills>>

\* Its tree, in which detect_project finds a build system; a source that is
\* not recognised ends the run before any build, without a manifest.
ExtractSource ==
    /\ phase = "extract"
    /\ \/ Cardinality(todo) > 1 /\ To("acquire", todo \ {First(todo)})
       \/ Cardinality(todo) = 1 /\ To("build", Matrix)
       \/ To("idle", {})
    /\ UNCHANGED <<staged, group, run, records, objects, results, pipelineKills>>

\* The loop of builds goes on after cell c with the given outcome.
Built(c, outcome) ==
    /\ records' = [records EXCEPT ![c] = outcome]
    /\ To(IF Cardinality(todo) > 1 THEN "build" ELSE IF staged THEN "seal" ELSE "group",
          todo \ {c})
    /\ group' = 1

\* build_library compiles a cell, unless it does not apply to the treatment.
CompileCell ==
    LET c == First(todo) IN
    /\ phase = "build"
    /\ \/ Built(c, "unsupported") /\ UNCHANGED objects
       \/ /\ objects' = [objects EXCEPT ![c] = run]
          /\ \/ Built(c, "build_failed")
             \/ To("collect", todo) /\ UNCHANGED <<records, group>>
    /\ UNCHANGED <<staged, run, results, pipelineKills>>

\* What it takes out of the archives, or links, is validated.
CollectObjects ==
    /\ phase = "collect"
    /\ \E outcome \in {"built", "build_failed"} : Built(First(todo), outcome)
    /\ UNCHANGED <<staged, run, objects, results, pipelineKills>>

\* execute_build_stage writes its record and objects with their digest.
SealBuild ==
    /\ phase = "seal"
    /\ stagedBuild' = <<[status |-> Alike(records), of |-> run]>>
    /\ To("idle", {})
    /\ UNCHANGED <<staged, group, run, records, objects, candidates, published, manifest,
                   clearing, pipelineKills>>

-----------------------------------------------------------------------------
(* populate_fidbs: one group after another.                                *)

\* _populate_group looks at what was built, and makes its directories anew.
EnterGroup ==
    LET built == {c \in InGroup(group) : records[c] = "built"} IN
    /\ phase = "group"
    /\ IF group > LastGroup THEN To("manifest", {}) /\ UNCHANGED <<group, candidates>>
       ELSE IF built = {} THEN group' = group + 1 /\ UNCHANGED <<phase, todo, candidates>>
       ELSE /\ To("populate", built)
            /\ candidates' = [c \in Matrix |-> IF c[2] = group THEN 0 ELSE candidates[c]]
            /\ UNCHANGED group
    /\ UNCHANGED <<staged, run, records, objects, stagedBuild, published, manifest, clearing, pipelineKills>>

\* The cells of the group with a database, all of which its next step covers.
Available == {c \in InGroup(group) : records[c] = "built"}

Populate ==
    LET c == First(todo) IN
    /\ phase = "populate"
    /\ candidates' = [candidates EXCEPT ![c] = objects[c]]
    /\ IF Cardinality(todo) = 1 THEN To("validate", {}) ELSE To("populate", todo \ {c})
    /\ UNCHANGED <<staged, group, run, records, objects, stagedBuild, published, manifest,
                   clearing, pipelineKills>>

\* _validate_population_report: the counts of the whole group agree.
ValidateGroup ==
    /\ phase = "validate"
    /\ To("publish", Available)
    /\ UNCHANGED <<staged, group, run, records, objects, results, pipelineKills>>

\* The candidate is moved to its final name.
Publish ==
    LET c == First(todo) IN
    /\ phase = "publish"
    /\ candidates' = [candidates EXCEPT ![c] = 0]
    /\ published' = [published EXCEPT ![c] = candidates[c]]
    /\ IF Cardinality(todo) = 1 THEN To("record", Available) ELSE To("publish", todo \ {c})
    /\ UNCHANGED <<staged, group, run, records, objects, stagedBuild, manifest, clearing, pipelineKills>>

RecordComplete ==
    LET c == First(todo) IN
    /\ phase = "record"
    /\ records' = [records EXCEPT ![c] = "complete"]
    /\ IF Cardinality(todo) = 1 THEN To("group", {}) /\ group' = group + 1
       ELSE To("record", todo \ {c}) /\ UNCHANGED group
    /\ UNCHANGED <<staged, run, objects, results, pipelineKills>>

\* What a failed group makes of the status of its cells.
FailStatus(outcome) == IF outcome \in {"built", "complete"} THEN "fid_failed" ELSE outcome

\* Ghidra, a count or a file fails: nothing of the group stays.
FailGroup ==
    /\ phase \in {"populate", "validate", "publish", "record"}
    /\ candidates' = [c \in Matrix |-> IF c[2] = group THEN 0 ELSE candidates[c]]
    /\ published' = [c \in Matrix |-> IF c[2] = group THEN 0 ELSE published[c]]
    /\ records' = [c \in Matrix |->
          IF c[2] = group THEN FailStatus(records[c]) ELSE records[c]]
    /\ To("group", {}) /\ group' = group + 1
    /\ UNCHANGED <<staged, run, objects, stagedBuild, manifest, clearing, pipelineKills>>

\* write_manifest, and for a complete staged cell _release_cell_scratch.
WriteManifest ==
    /\ phase = "manifest"
    /\ manifest' = <<[status |-> records, of |-> IF staged THEN stagedBuild[1].of ELSE run]>>
    /\ IF staged /\ Alike(records) = "complete" THEN To("release", {}) ELSE To("idle", {})
    /\ UNCHANGED <<staged, group, run, records, objects, stagedBuild, candidates, published,
                   clearing, pipelineKills>>

ReleaseScratch ==
    /\ phase = "release"
    /\ objects' = NoObjects /\ candidates' = NoObjects
    /\ To("idle", {})
    /\ UNCHANGED <<staged, group, run, records, stagedBuild, published, manifest, clearing, pipelineKills>>

-----------------------------------------------------------------------------
(* The analysis of a staged cell, in another process, once or again.       *)

\* Its layout: a fresh Ghidra directory and no output.
BeginAnalysis ==
    /\ staged /\ phase = "idle" /\ stagedBuild # <<>>
    /\ candidates' = NoObjects
    /\ To("clear analysis", {})
    /\ UNCHANGED <<staged, group, run, records, objects, stagedBuild, published, manifest,
                   clearing, pipelineKills>>

\* _load_build_state: a built cell has its objects.
LoadState ==
    /\ phase = "load"
    /\ IF stagedBuild[1].status = "built" /\ objects = NoObjects
       THEN To("idle", {}) /\ UNCHANGED <<records, group>>
       ELSE /\ records' = [c \in Matrix |-> stagedBuild[1].status]
            /\ group' = 1 /\ To("group", {})
    /\ UNCHANGED <<staged, run, objects, results, pipelineKills>>

PipelineKilled ==
    /\ phase # "idle" /\ pipelineKills < MaxPipelineKills
    /\ pipelineKills' = pipelineKills + 1
    /\ To("idle", {})
    /\ UNCHANGED <<staged, group, run, records, objects, results>>

PipelineNext ==
    \/ BeginRun \/ ClearWork \/ ClearDatabase \/ ClearOutput \/ ClearManifest
    \/ DownloadSource \/ ExtractSource \/ CompileCell \/ CollectObjects \/ SealBuild
    \/ EnterGroup \/ Populate \/ ValidateGroup \/ Publish \/ RecordComplete \/ FailGroup
    \/ WriteManifest \/ ReleaseScratch
    \/ BeginAnalysis \/ LoadState
    \/ PipelineKilled

PipelineSpec == PipelineInit /\ [][PipelineNext]_pipelineVars

-----------------------------------------------------------------------------
PipelineTypeOK ==
    /\ todo \subseteq Matrix /\ group \in 0..LastGroup + 1 /\ run \in 0..MaxRuns
    /\ DOMAIN records = Matrix /\ objects \in [Matrix -> 0..MaxRuns]
    /\ candidates \in [Matrix -> 0..MaxRuns] /\ published \in [Matrix -> 0..MaxRuns]
    /\ Len(stagedBuild) <= 1 /\ Len(manifest) <= 1

\* "manifest retained at ..." (pipeline.py): a reader of the manifest finds
\* the database of every complete cell, with the objects of the run (or of
\* the staged build) that the row describes, and no database of a cell that is
\* not complete: whatever failed in the middle of a group, and whenever a run
\* before was killed.  A run that starts again removes the databases before
\* the manifest: until it has, or for as long as it was killed in between,
\* databases are missing, but none is there that the manifest does not name.
ManifestHonest ==
    manifest # <<>> => \A c \in Matrix :
        \/ published[c] = IF manifest[1].status[c] = "complete" THEN manifest[1].of ELSE 0
        \/ clearing /\ published[c] = 0
=============================================================================
