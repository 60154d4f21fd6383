------------------------------ MODULE WidthRun ------------------------------
(***************************************************************************)
(* A width run (width_run.py): the cells of a width are executed by a      *)
(* process pool, every replay in directories of its own, and the run       *)
(* document says whether everything was measured and whether the replays   *)
(* agree.                                                                  *)
(*                                                                         *)
(* A cell's process runs the pipeline, which leaves a manifest: of a       *)
(* complete cell, of a failed one (the pipeline then raises), or none.     *)
(* The bulk of a complete cell is dropped by its process, the JVM's files  *)
(* of all cells by the supervisor after the pool has shut down.  A process *)
(* that dies breaks the pool: every future that has not returned fails and *)
(* the other processes are terminated.  Sizes, samples, timings and the    *)
(* hash coverage are left out.                                             *)
(***************************************************************************)
EXTENDS Naturals, Sequences, FiniteSets

CONSTANTS WidthCell,       \* route and treatment, one group each
          PoolWorkers,
          WidthReplays,
          Measurable,      \* what an execution of a cell can measure
          MaxWidthFaults

ASSUME WidthAssumption ==
    /\ IsFiniteSet(WidthCell)
    /\ WidthReplays \in Nat \ {0} /\ MaxWidthFaults \in Nat
    /\ Measurable \cap {"no manifest", "failed row", "none"} = {}

VARIABLES width,     \* [phase, replay]
          future,    \* [WidthCell -> state of its future]
          process,   \* [WidthCell -> what its process does]
          groups,    \* [1 .. WidthReplays -> [WidthCell -> [manifest, scratch, jvm]]]
          measured,  \* [WidthCell -> status] of the replay, as collected
          replays,   \* cells of the replays that ended
          document,  \* width-run.json: <<>> or <<[state, matching, mismatches]>>
          widthFaults

poolVars == <<future, process, groups>>
widthVars == <<width, poolVars, measured, replays, document, widthFaults>>

NoManifest == "no manifest"
FailedRow == "failed row"
Manifests == Measurable \cup {NoManifest, FailedRow}
Fresh == [manifest |-> NoManifest, scratch |-> FALSE, jvm |-> FALSE]
Group(c) == groups[width.replay][c]
Leaves(c, group) == groups' = [groups EXCEPT ![width.replay][c] = group]
Alive(c) == process[c] # "none"
Running == width.phase = "run"

-----------------------------------------------------------------------------
WidthInit ==
    /\ width = [phase |-> "run", replay |-> 1]
    /\ future = [c \in WidthCell |-> "queued"]
    /\ process = [c \in WidthCell |-> "none"]
    /\ groups = [n \in 1 .. WidthReplays |-> [c \in WidthCell |-> Fresh]]
    /\ measured = [c \in WidthCell |-> "none"]
    /\ replays = <<>> /\ document = <<>> /\ widthFaults = 0

WidthTypeOK ==
    /\ width \in [phase : {"run", "done", "dead"}, replay : 1 .. WidthReplays]
    /\ future \in [WidthCell -> {"queued", "running", "returned", "broken", "collected"}]
    /\ process \in [WidthCell -> {"none", "executes", "written", "released", "terminated"}]
    /\ groups \in [1 .. WidthReplays ->
                     [WidthCell -> [manifest : Manifests, scratch : BOOLEAN, jvm : BOOLEAN]]]
    /\ measured \in [WidthCell -> Manifests \cup {"none"}]
    /\ Len(replays) <= WidthReplays /\ Len(document) <= 1

-----------------------------------------------------------------------------
(***************************************************************************)
(* A cell in its process: _execute_cell.                                   *)
(***************************************************************************)
PoolBroken == \E c \in WidthCell : future[c] = "broken"

TakeCell(c) ==
    /\ Running /\ ~PoolBroken /\ future[c] = "queued"
    /\ Cardinality({d \in WidthCell : Alive(d)}) < PoolWorkers
    /\ future' = [future EXCEPT ![c] = "running"]
    /\ process' = [process EXCEPT ![c] = "executes"]
    /\ Leaves(c, [Group(c) EXCEPT !.scratch = TRUE, !.jvm = TRUE])
    /\ UNCHANGED <<width, measured, replays, document, widthFaults>>

\* The pipeline writes the manifest; after a failed row it raises.
WriteOutcome(c) ==
    /\ process[c] = "executes"
    /\ \E m \in Manifests : Leaves(c, [Group(c) EXCEPT !.manifest = m])
    /\ process' = [process EXCEPT ![c] = "written"]
    /\ UNCHANGED <<width, future, measured, replays, document, widthFaults>>

\* _release_cell_scratch, of a cell without a pipeline error only.
ReleaseCell(c) ==
    /\ process[c] = "written" /\ Group(c).manifest \in Measurable
    /\ Leaves(c, [Group(c) EXCEPT !.scratch = FALSE])
    /\ process' = [process EXCEPT ![c] = "released"]
    /\ UNCHANGED <<width, future, measured, replays, document, widthFaults>>

\* The measurement goes to the supervisor.  Processes of a dead supervisor
\* finish the cell they have, and nobody listens.
ReturnCell(c) ==
    /\ \/ process[c] = "released"
       \/ process[c] = "written" /\ Group(c).manifest \notin Measurable
    /\ process' = [process EXCEPT ![c] = "none"]
    /\ future' = [future EXCEPT ![c] = IF @ = "running" THEN "returned" ELSE @]
    /\ UNCHANGED <<width, groups, measured, replays, document, widthFaults>>

\* A process is killed (the OOM killer, a crash of the JVM): BrokenProcessPool.
BrokenFutures ==
    [d \in WidthCell |->
        IF future[d] \in {"queued", "running"} /\ Running THEN "broken" ELSE future[d]]
ProcessDies(c) ==
    /\ widthFaults < MaxWidthFaults
    /\ process[c] \in {"executes", "written", "released"}
    /\ process' = [d \in WidthCell |->
                     IF d = c \/ ~Alive(d) THEN "none"
                     ELSE IF Running THEN "terminated" ELSE process[d]]
    /\ future' = BrokenFutures
    /\ widthFaults' = widthFaults + 1
    /\ UNCHANGED <<width, groups, measured, replays, document>>

ProcessGone(c) ==
    /\ process[c] = "terminated"
    /\ process' = [process EXCEPT ![c] = "none"]
    /\ UNCHANGED <<width, future, groups, measured, replays, document, widthFaults>>

-----------------------------------------------------------------------------
(***************************************************************************)
(* The supervisor: execute_width_run.                                      *)
(***************************************************************************)
\* A broken future names no manifest, whatever its process left on disk.
ManifestOf(c) == IF future[c] = "returned" THEN Group(c).manifest ELSE NoManifest

Collect(c) ==
    /\ Running /\ future[c] \in {"returned", "broken"}
    /\ measured' = [measured EXCEPT ![c] = ManifestOf(c)]
    /\ future' = [future EXCEPT ![c] = "collected"]
    /\ UNCHANGED <<width, process, groups, replays, document, widthFaults>>

\* executor.shutdown(wait=True)
NoShutdown == TRUE
PoolShutDown == \A c \in WidthCell : ~Alive(c)
Collected == \A c \in WidthCell : future[c] = "collected"

CompleteCells(row) == {c \in WidthCell : row[c] \in Measurable}

\* _release_pool_jvm_scratch; the replay's result; the next replay.
EndReplay ==
    /\ Running /\ Len(replays) < WidthReplays /\ Collected /\ PoolShutDown
    /\ replays' = Append(replays, measured)
    /\ IF width.replay < WidthReplays
         THEN /\ width' = [width EXCEPT !.replay = @ + 1]
              /\ future' = [c \in WidthCell |-> "queued"]
              /\ measured' = [c \in WidthCell |-> "none"]
         ELSE UNCHANGED <<width, future, measured>>
    /\ groups' = [groups EXCEPT ![width.replay] =
                    [c \in WidthCell |-> [@[c] EXCEPT !.jvm = FALSE]]]
    /\ UNCHANGED <<process, document, widthFaults>>

\* _replay_comparison: every later replay against the first one, over the
\* cells that are complete in either.
Compared == {x \in (2 .. Len(replays)) \X WidthCell :
                x[2] \in CompleteCells(replays[1]) \cup CompleteCells(replays[x[1]])}
Matching == {x \in Compared : replays[1][x[2]] = replays[x[1]][x[2]]}

Completed ==
    Cardinality({x \in (1 .. WidthReplays) \X WidthCell :
                   x[2] \in CompleteCells(replays[x[1]])})

FinishRun ==
    /\ Running /\ Len(replays) = WidthReplays
    /\ document' = <<[state |-> IF Completed = WidthReplays * Cardinality(WidthCell)
                                  THEN "measured-complete" ELSE "measured-incomplete",
                      matching |-> Matching,
                      mismatches |-> Compared \ Matching]>>
    /\ width' = [width EXCEPT !.phase = "done"]
    /\ UNCHANGED <<poolVars, measured, replays, widthFaults>>

\* An interrupt terminates the pool (_terminate_executor); a kill leaves its
\* processes to themselves.
StopRun(terminated) ==
    /\ Running /\ widthFaults < MaxWidthFaults
    /\ width' = [width EXCEPT !.phase = "dead"]
    /\ process' = [c \in WidthCell |->
                     IF Alive(c) /\ terminated THEN "terminated" ELSE process[c]]
    /\ widthFaults' = widthFaults + 1
    /\ UNCHANGED <<future, groups, measured, replays, document>>

WidthNext ==
    \/ \E c \in WidthCell :
         TakeCell(c) \/ WriteOutcome(c) \/ ReleaseCell(c) \/ ReturnCell(c)
         \/ ProcessDies(c) \/ ProcessGone(c) \/ Collect(c)
    \/ EndReplay \/ FinishRun
    \/ \E terminated \in BOOLEAN : StopRun(terminated)

WidthSpec == WidthInit /\ [][WidthNext]_widthVars

-----------------------------------------------------------------------------
\* The document of a run can be compiled into a lane (lane_compiler.py takes
\* the manifests of a measured-complete run from disk): every cell of every
\* replay has the manifest that was measured, and a run without mismatches
\* measured the same signatures in every replay.
DocumentTrue ==
    \A n \in DOMAIN document :
        /\ document[n].state = "measured-complete" =>
             \A r \in 1 .. WidthReplays, c \in WidthCell :
                /\ groups[r][c].manifest \in Measurable
                /\ replays[r][c] = groups[r][c].manifest
        /\ document[n].state = "measured-complete" /\ document[n].mismatches = {} =>
             \A r \in 1 .. WidthReplays, c \in WidthCell :
                groups[r][c].manifest = groups[1][c].manifest

\* No process loses its files while it runs: a JVM's directory goes only after
\* its process, the bulk of a cell only after its manifest
\* (_release_pool_jvm_scratch, _release_cell_scratch).
ScratchInUse ==
    \A c \in WidthCell :
        /\ Alive(c) => Group(c).jvm
        /\ process[c] = "executes" => Group(c).scratch

\* A finished width run says what it left on disk, and never takes a directory
\* from a process that uses it (width_run.py).
WidthTrue == DocumentTrue /\ ScratchInUse
=============================================================================
