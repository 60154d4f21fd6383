---------------------------- MODULE CellExecution ----------------------------
(***************************************************************************)
(* run_cell (cell_runner.py): from a resolved cell to sealed artifacts, in *)
(* processes that live long.  A local queue worker keeps one               *)
(* CellAuthorityResolver, a remote worker makes one for each cell; the     *)
(* JVM is started by the first attempt of a process.  Meanwhile reviews    *)
(* edit the authorities and a synchronization resolves the cells anew.     *)
(*                                                                         *)
(* The reviewed files are a number, that of their last review.  A cell, a  *)
(* resolution and what was built carry the number of what they were made   *)
(* from; two of them are equal when the code compares them as equal.       *)
(***************************************************************************)
EXTENDS Naturals, Sequences, FiniteSets

CONSTANTS QueuedCell, KindOf,   \* the cells, and their kinds
          CellProcess, Keeping, \* processes; those that keep a resolver
          MaxReviews, MaxExecutions, MaxProcessKills    \* bounds

Kinds == {"native", "archive-library", "source-library", "runtime-library", "malware"}

ASSUME CellAssumption ==
    /\ KindOf \in [QueuedCell -> Kinds] /\ Keeping \subseteq CellProcess
    /\ {MaxReviews, MaxExecutions, MaxProcessKills} \subseteq Nat

VARIABLES
    reviewed,       \* the review of the files on disk
    cellAt,         \* the review that a queued cell was resolved from
    resolver,       \* what a process's resolver keeps of a kind, 0 for nothing
    jvmOf,          \* the attempt whose directory the process's JVM works in
    doing,          \* a process's attempt: <<>> or <<[cell, number, at, ...]>>
    executions,     \* attempts that were begun
    sealedCells,    \* the sealed attempts
    processKills

cellVars == <<reviewed, cellAt, resolver, jvmOf, doing, executions, sealedCells, processKills>>

\* The kinds whose resolution goes through the resolver's caches.
Cached == {"native", "runtime-library"}

CellInit ==
    /\ reviewed = 1 /\ cellAt = [c \in QueuedCell |-> 1]
    /\ resolver = [p \in CellProcess |-> [k \in Cached |-> 0]]
    /\ jvmOf = [p \in CellProcess |-> 0] /\ doing = [p \in CellProcess |-> <<>>]
    /\ executions = 0 /\ sealedCells = {} /\ processKills = 0

Attempting(p, at) == doing[p] # <<>> /\ doing[p][1].at = at
KindAt(p) == KindOf[doing[p][1].cell]

\* The attempt goes on as it is described now, or with another step only.
Becomes(p, attempt) == doing' = [doing EXCEPT ![p] = <<attempt>>]
Continue(p, at) == Becomes(p, [doing[p][1] EXCEPT !.at = at])
LeaveCell(p) == doing' = [doing EXCEPT ![p] = <<>>]

-----------------------------------------------------------------------------
(* The surroundings.                                                       *)

Review ==
    /\ reviewed < MaxReviews
    /\ reviewed' = reviewed + 1
    /\ UNCHANGED <<cellAt, resolver, jvmOf, doing, executions, sealedCells, processKills>>

\* A plan refresh resolves the cells from the files of now.
ResolveAgain ==
    /\ cellAt' = [c \in QueuedCell |-> reviewed]
    /\ cellAt' # cellAt
    /\ UNCHANGED <<reviewed, resolver, jvmOf, doing, executions, sealedCells, processKills>>

\* A process that is killed, or ends, starts again without resolver and JVM.
EndCellProcess(p) ==
    /\ processKills < MaxProcessKills
    /\ processKills' = processKills + 1
    /\ resolver' = [resolver EXCEPT ![p] = [k \in Cached |-> 0]]
    /\ jvmOf' = [jvmOf EXCEPT ![p] = 0]
    /\ LeaveCell(p)
    /\ UNCHANGED <<reviewed, cellAt, executions, sealedCells>>

-----------------------------------------------------------------------------
(* Validation and resolution.                                              *)

\* _validate_roots and _validate_cell_state: a directory of its own.
BeginCell(p, c) ==
    /\ doing[p] = <<>> /\ executions < MaxExecutions
    /\ executions' = executions + 1
    /\ Becomes(p, [cell |-> c, number |-> executions', at |-> "resolve", pins |-> cellAt[c],
                   built |-> 0, surprised |-> FALSE])
    /\ UNCHANGED <<reviewed, cellAt, resolver, jvmOf, sealedCells, processKills>>

\* The files that a resolution sees: those of the first one of the process
\* where the resolver keeps them.
Seen(p, kind) ==
    IF kind \in Cached /\ p \in Keeping /\ resolver[p][kind] # 0
    THEN resolver[p][kind] ELSE reviewed

\* Mutant: a cell that the resolver knows is not compared any more.
Trusts(p, kind, pins) ==
    (kind \in Cached /\ resolver[p][kind] # 0) \/ pins = Seen(p, kind)

\* _expect: every field of the cell is compared.
Agrees(p, kind, pins) == pins = Seen(p, kind)

\* The attempt goes on with what its resolution found, or fails.
Compare(p) ==
    LET kind == KindAt(p) IN
    IF Agrees(p, kind, doing[p][1].pins)
    THEN Becomes(p, [doing[p][1] EXCEPT !.at = "prepare", !.built = Seen(p, kind)])
    ELSE LeaveCell(p)

\* A resolver keeps what the first resolution of a kind read.
KeepSeen(p) ==
    resolver' = IF p \in Keeping
                THEN [resolver EXCEPT ![p][KindAt(p)] = Seen(p, KindAt(p))] ELSE resolver

ResolveNative(p) == KindAt(p) = "native" /\ KeepSeen(p) /\ Compare(p)

\* The provider of the route, which the resolver probed once.
ResolveRuntime(p) == KindAt(p) = "runtime-library" /\ KeepSeen(p) /\ Compare(p)

\* Recipes, registry and patches are read again for every source or malware
\* cell, ...
ResolveSource(p) ==
    KindAt(p) \in {"source-library", "malware"} /\ Compare(p) /\ UNCHANGED resolver

\* ... and the registry row and its member list for every archive cell.
ResolveArchive(p) == KindAt(p) = "archive-library" /\ Compare(p) /\ UNCHANGED resolver

ResolveCell(p) ==
    /\ Attempting(p, "resolve")
    /\ ResolveNative(p) \/ ResolveRuntime(p) \/ ResolveSource(p) \/ ResolveArchive(p)
    /\ UNCHANGED <<reviewed, cellAt, jvmOf, executions, sealedCells, processKills>>

-----------------------------------------------------------------------------
(* Objects.                                                                *)

\* Any command, download or check that fails ends the attempt unsealed.
FailCell(p) ==
    /\ doing[p] # <<>>
    /\ LeaveCell(p)
    /\ UNCHANGED <<reviewed, cellAt, resolver, jvmOf, executions, sealedCells, processKills>>

\* The JVM of the process is started once, in the directory of this attempt.
StartsJvm(p) == jvmOf' = [jvmOf EXCEPT ![p] = IF @ = 0 THEN doing[p][1].number ELSE @]

\* pipeline.execute on the configuration of the resolution, to the FIDB.
RunNative(p) ==
    /\ Attempting(p, "prepare") /\ KindAt(p) = "native"
    /\ StartsJvm(p)
    /\ Continue(p, "export")
    /\ UNCHANGED <<reviewed, cellAt, resolver, executions, sealedCells, processKills>>

\* What is prepared is of the files of now, which their digests pinned when
\* the cell was resolved.
Prepares(p) ==
    /\ Attempting(p, "prepare")
    /\ Becomes(p, [doing[p][1] EXCEPT !.at = "select", !.built = reviewed,
                                     !.surprised = reviewed # doing[p][1].built])
    /\ UNCHANGED <<reviewed, cellAt, resolver, jvmOf, executions, sealedCells, processKills>>

\* prepare_recipe takes the archive by digest, but reads the member list when
\* it needs it; ...
PrepareArchive(p) == Prepares(p) /\ KindAt(p) = "archive-library"

\* ... a source build takes its source by digest, and reads its patches so.
PrepareSource(p) == Prepares(p) /\ KindAt(p) = "source-library"

\* The archive is hashed again before its members are taken.
ExtractRuntime(p) ==
    /\ Attempting(p, "prepare") /\ KindAt(p) = "runtime-library"
    /\ IF reviewed = doing[p][1].built THEN Continue(p, "select") ELSE LeaveCell(p)
    /\ UNCHANGED <<reviewed, cellAt, resolver, jvmOf, executions, sealedCells, processKills>>

\* build_malware_binary from the pinned archives; the result names its cell.
BuildMalware(p) ==
    /\ Attempting(p, "prepare") /\ KindAt(p) = "malware"
    /\ Continue(p, "select")
    /\ UNCHANGED <<reviewed, cellAt, resolver, jvmOf, executions, sealedCells, processKills>>

\* The objects have the target of the cell, and a JVM is there.
SelectObjects(p) ==
    /\ Attempting(p, "select")
    /\ StartsJvm(p)
    /\ Continue(p, "populate")
    /\ UNCHANGED <<reviewed, cellAt, resolver, executions, sealedCells, processKills>>

\* _build_direct_fidb, whose counts are neither empty nor inconsistent.
PopulateCell(p) ==
    /\ Attempting(p, "populate")
    /\ Continue(p, "export")
    /\ UNCHANGED <<reviewed, cellAt, resolver, jvmOf, executions, sealedCells, processKills>>

ExportRaw(p) ==
    /\ Attempting(p, "export")
    /\ Continue(p, "seal")
    /\ UNCHANGED <<reviewed, cellAt, resolver, jvmOf, executions, sealedCells, processKills>>

\* _write_seal, by rename; a worker publishes nothing that has no seal.
SealCell(p) ==
    /\ Attempting(p, "seal")
    /\ sealedCells' = sealedCells \union {[doing[p][1] EXCEPT !.at = "sealed"]}
    /\ LeaveCell(p)
    /\ UNCHANGED <<reviewed, cellAt, resolver, jvmOf, executions, processKills>>

CellNext ==
    \/ Review \/ ResolveAgain
    \/ \E p \in CellProcess :
          \/ EndCellProcess(p)
          \/ \E c \in QueuedCell : BeginCell(p, c)
          \/ ResolveCell(p) \/ FailCell(p)
          \/ RunNative(p) \/ PrepareArchive(p) \/ PrepareSource(p) \/ ExtractRuntime(p)
          \/ BuildMalware(p) \/ SelectObjects(p) \/ PopulateCell(p) \/ ExportRaw(p)
          \/ SealCell(p)

CellSpec == CellInit /\ [][CellNext]_cellVars

-----------------------------------------------------------------------------
CellTypeOK ==
    /\ \A p \in CellProcess :
          /\ Len(doing[p]) <= 1
          /\ jvmOf[p] \in 0..executions
    /\ Cardinality(sealedCells) <= executions

\* The seal's pins are those of the queued cell and of what was built
\* ("atomically seal its provenance", run_cell), although reviews, plan
\* refreshes and caches of another age surround the attempt.  A review that
\* lands between the resolution of an archive or source cell and the reading
\* of its patches or member list is excepted: nothing compares them again.
SealsTrue ==
    \A s \in sealedCells : s.built = s.pins \/ s.surprised
=============================================================================
