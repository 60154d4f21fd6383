---------------------------- MODULE DatabaseExport ----------------------------
(***************************************************************************)
(* The safeguarded export of the database (database_export.py): an         *)
(* operator freezes the ledger and writes a receipt, then builds a package *)
(* of the newest artifact of every expected identity, while workers go on  *)
(* completing jobs and validation goes on publishing hash evidence.        *)
(*                                                                         *)
(* A population is what _population_digest tells apart; the ledger is at   *)
(* population 0 until every expected identity has an artifact, and every   *)
(* later artifact makes another one.  A build reads the ledger twice and   *)
(* the safeguard receipt four times, each at a step of its own.  Receipts  *)
(* are told apart by their snapshots, not by their timestamps; the other   *)
(* files that a package takes do not change under a build.  One process    *)
(* safeguards and one builds: two builds, or two safeguards, at once would *)
(* share one .partial file, which nothing in the code locks.  A process    *)
(* may be killed between any two steps.                                    *)
(***************************************************************************)
EXTENDS Naturals

CONSTANTS
    MaxPopulation,      \* bound: populations of the ledger
    MaxKills,           \* bound: kills of an exporting process
    MaxPackages,        \* bound: packages published
    NoFileYet

\* A snapshot holds one population; `rows` tells two snapshots of one apart.
Snapshots == [population : 0..MaxPopulation, rows : BOOLEAN, whole : BOOLEAN]
Receipts == [population : 1..MaxPopulation, snapshot : Snapshots]

\* An archive: the population of its artifacts and its catalogue, the population
\* and the receipt that release.toml names, the receipt that checksums.sha256
\* lists, the receipt that is packed, and crossed (history): a safeguard was
\* completed while the build was reading receipts.
Packages == [population : 1..MaxPopulation, named : 1..MaxPopulation, bound : Receipts,
             listed : Receipts, packed : Receipts, crossed : BOOLEAN]

ASSUME ExportAssumption ==
    /\ MaxPopulation \in Nat /\ MaxKills \in Nat /\ MaxPackages \in Nat
    /\ NoFileYet \notin Snapshots \cup Receipts \cup Packages

VARIABLES
    population, \* of the complete jobs, as _read_artifacts selects them
    working,    \* an active job is leased or running
    ready,      \* hash quality, validation report and lane registry are there
    snapshot,   \* the frozen ledger, and its .partial
    receipt,    \* the safeguard receipt: population, snapshot
    package,    \* the archive, and its .partial once zstd has ended
    checksum,   \* the .sha256 file is of the archive
    freezing, building,     \* the two processes
    frozen,     \* history: populations that a receipt was written for
    kills, made             \* so far: kills, packages published

exportVars == <<population, working, ready, snapshot, receipt, package,
                checksum, freezing, building, frozen, kills, made>>

Resting == [step |-> "rest", population |-> 0]

\* What a build has read by then goes into the package, field by field.
NotBuilding == [step |-> "rest", population |-> 0, named |-> 0, bound |-> NoFileYet,
                listed |-> NoFileYet, crossed |-> FALSE]

ExportInit ==
    /\ population = 0 /\ working = FALSE /\ ready = FALSE
    /\ snapshot = [final |-> NoFileYet, partial |-> NoFileYet]
    /\ receipt = NoFileYet
    /\ package = [final |-> NoFileYet, partial |-> NoFileYet]
    /\ checksum = FALSE
    /\ freezing = Resting /\ building = NotBuilding
    /\ frozen = {} /\ kills = 0 /\ made = 0

ExportTypeOK ==
    /\ population \in 0..MaxPopulation /\ working \in BOOLEAN /\ ready \in BOOLEAN
    /\ snapshot \in [final : Snapshots \cup {NoFileYet}, partial : Snapshots \cup {NoFileYet}]
    /\ receipt \in Receipts \cup {NoFileYet}
    /\ package \in [final : Packages \cup {NoFileYet}, partial : Packages \cup {NoFileYet}]
    /\ checksum \in BOOLEAN
    /\ checksum => package.final # NoFileYet
    /\ snapshot.final # NoFileYet => snapshot.final.whole /\ snapshot.final.population > 0
    /\ receipt # NoFileYet => snapshot.final # NoFileYet
    /\ frozen \subseteq 1..MaxPopulation

-----------------------------------------------------------------------------
(* What changes while an export runs (coordinator.py, machine_validation). *)

LeaseSome == working' = TRUE

\* A job completes: the last expected identity, or a newer artifact of one.
CompleteSome ==
    /\ working
    /\ working' \in BOOLEAN
    /\ population' \in {population, population + 1} \cap (0..MaxPopulation)

Outside ==
    /\ \/ LeaseSome /\ UNCHANGED <<population, ready>>
       \/ CompleteSome /\ UNCHANGED ready
       \/ ready' = TRUE /\ UNCHANGED <<population, working>>
    /\ UNCHANGED <<snapshot, receipt, package, checksum, freezing, building,
                   frozen, kills, made>>

-----------------------------------------------------------------------------
(* _safeguard_status and inspect_export.                                   *)

\* The receipt is of this population; without verify_snapshot only the size of
\* the snapshot is looked at, which another snapshot may well have.
ReceiptCurrent(p) == receipt # NoFileYet /\ receipt.population = p

\* Mutant: the build verifies the snapshot, not the population it has read.
SnapshotVerified(p) == receipt # NoFileYet /\ receipt.snapshot = snapshot.final

FullyVerified(p) == ReceiptCurrent(p) /\ receipt.snapshot = snapshot.final

\* Blockers other than the safeguard: missing identities, missing inputs.
Unblocked == population > 0 /\ ready

-----------------------------------------------------------------------------
(* safeguard_export.                                                       *)

Safeguard(from, to) == freezing.step = from /\ freezing' = [freezing EXCEPT !.step = to]
NotBuilt == UNCHANGED <<population, working, ready, package, checksum, building, made>>

\* Blockers and an idle ledger, once; then the partial files are removed.
StartSafeguard ==
    /\ Safeguard("rest", "freeze")
    /\ Unblocked /\ ~working
    /\ snapshot' = [snapshot EXCEPT !.partial = NoFileYet]
    /\ NotBuilt /\ UNCHANGED <<receipt, frozen, kills>>

\* _snapshot_sqlite: the backup sees one state of the ledger ...
BeginBackup ==
    /\ Safeguard("freeze", "backup")
    /\ \E rows \in BOOLEAN :
          snapshot' = [snapshot EXCEPT !.partial =
                          [population |-> population, rows |-> rows, whole |-> FALSE]]
    /\ NotBuilt /\ UNCHANGED <<receipt, frozen, kills>>

\* ... and is committed and checked.
EndBackup ==
    /\ Safeguard("backup", "read")
    /\ snapshot' = [snapshot EXCEPT !.partial.whole = TRUE]
    /\ NotBuilt /\ UNCHANGED <<receipt, frozen, kills>>

\* The artifacts are read from the snapshot and hashed; then it is published.
PublishSnapshot ==
    /\ freezing.step = "read" /\ snapshot.partial.population > 0
    /\ freezing' = [step |-> "receipt", population |-> snapshot.partial.population]
    /\ snapshot' = [final |-> snapshot.partial, partial |-> NoFileYet]
    /\ NotBuilt /\ UNCHANGED <<receipt, frozen, kills>>

\* A build has read the receipt and will read it again.
BetweenReads == {"read", "verify", "assemble", "stream"}

\* The receipt, written aside and renamed.
WriteReceipt ==
    /\ freezing.step = "receipt" /\ freezing' = Resting
    /\ receipt' = [population |-> freezing.population, snapshot |-> snapshot.final]
    /\ frozen' = frozen \cup {freezing.population}
    /\ building' = IF building.step \in BetweenReads
                   THEN [building EXCEPT !.crossed = TRUE] ELSE building
    /\ UNCHANGED <<population, working, ready, snapshot, package, checksum,
                   kills, made>>

KillSafeguard ==
    /\ freezing.step # "rest" /\ kills < MaxKills
    /\ kills' = kills + 1
    /\ freezing' = Resting
    /\ NotBuilt /\ UNCHANGED <<snapshot, receipt, frozen>>

-----------------------------------------------------------------------------
(* build_export.                                                           *)

Building(from) == building.step = from
NotFrozen == UNCHANGED <<population, working, ready, snapshot, receipt,
                         freezing, frozen>>

\* inspect_export reads the artifacts of the ledger ...
StartBuild ==
    /\ Building("rest") /\ Unblocked /\ made < MaxPackages
    /\ building' = [NotBuilding EXCEPT !.step = "inspect", !.named = population]
    /\ NotFrozen /\ UNCHANGED <<package, checksum, kills, made>>

\* ... and the receipt, whose digest it keeps; or the build is blocked.
InspectSafeguard ==
    /\ Building("inspect")
    /\ building' = IF ReceiptCurrent(building.named)
                   THEN [building EXCEPT !.step = "read", !.bound = receipt]
                   ELSE NotBuilding
    /\ NotFrozen /\ UNCHANGED <<package, checksum, kills, made>>

\* The artifacts are read from the ledger again ...
ReadArtifacts ==
    /\ Building("read")
    /\ building' = [building EXCEPT !.step = "verify", !.population = population]
    /\ NotFrozen /\ UNCHANGED <<package, checksum, kills, made>>

\* ... and the safeguard is verified in full, with its snapshot, or the build
\* ends with an error; the old partial archive goes.
VerifyBuild ==
    /\ Building("verify")
    /\ building' = IF FullyVerified(building.population)
                   THEN [building EXCEPT !.step = "assemble"] ELSE NotBuilding
    /\ package' = IF FullyVerified(building.population)
                  THEN [package EXCEPT !.partial = NoFileYet] ELSE package
    /\ NotFrozen /\ UNCHANGED <<checksum, kills, made>>

\* The catalogue is of the artifacts, release.toml of the inspection; the
\* receipt is read again for the checksums, and zstd begins to write.
Assemble ==
    /\ Building("assemble")
    /\ building' = [building EXCEPT !.step = "stream", !.listed = receipt]
    /\ NotFrozen /\ UNCHANGED <<package, checksum, kills, made>>

\* tar reads the files once more, the receipt among them, and zstd ends.
StreamPackage ==
    /\ Building("stream")
    /\ building' = [building EXCEPT !.step = "publish"]
    /\ package' = [package EXCEPT !.partial =
          [population |-> building.population, named |-> building.named,
           bound |-> building.bound, listed |-> building.listed, packed |-> receipt,
           crossed |-> building.crossed]]
    /\ NotFrozen /\ UNCHANGED <<checksum, kills, made>>

\* The archive is reopened, the names of its members compared, and renamed.
PublishPackage ==
    /\ Building("publish")
    /\ building' = [building EXCEPT !.step = "checksum"]
    /\ package' = [final |-> package.partial, partial |-> NoFileYet]
    /\ checksum' = FALSE /\ made' = made + 1
    /\ NotFrozen /\ UNCHANGED kills

WriteChecksum ==
    /\ Building("checksum")
    /\ building' = NotBuilding
    /\ checksum' = TRUE
    /\ NotFrozen /\ UNCHANGED <<package, kills, made>>

KillBuild ==
    /\ ~Building("rest") /\ kills < MaxKills
    /\ kills' = kills + 1
    /\ building' = NotBuilding
    /\ NotFrozen /\ UNCHANGED <<package, checksum, made>>

ExportNext ==
    \/ Outside
    \/ StartSafeguard \/ BeginBackup \/ EndBackup \/ PublishSnapshot
    \/ WriteReceipt \/ KillSafeguard
    \/ StartBuild \/ InspectSafeguard \/ ReadArtifacts \/ VerifyBuild \/ Assemble
    \/ StreamPackage \/ PublishPackage \/ WriteChecksum \/ KillBuild

ExportSpec == ExportInit /\ [][ExportNext]_exportVars

-----------------------------------------------------------------------------
Archives == {package.final, package.partial} \ {NoFileYet}

\* The artifacts of a package are of a population that was safeguarded, although
\* jobs complete between the inspection, the reading of the ledger and the
\* verification, and a safeguard may be half done or killed.
PackageFrozen == \A p \in Archives : p.population \in frozen

\* docs/operations/export.md: the packed receipt binds the package to the
\* population that was verified and to the snapshot that was kept: it is the one
\* that release.toml and checksums.sha256 speak of, its population is that of
\* the artifacts and of release.toml, and its snapshot is whole and holds it.
\* Excepted is a package whose build a safeguard crossed: database_export.py
\* reads the receipt again at 1037 and at 1060, after its verification, and
\* names in release.toml (1004) what it inspected before.
PackageBound ==
    \A p \in Archives : ~p.crossed =>
        /\ p.packed = p.bound /\ p.packed = p.listed
        /\ p.packed.population = p.population /\ p.named = p.population
        /\ p.packed.snapshot.whole /\ p.packed.snapshot.population = p.population

\* A receipt that passes the full verification of a build is worth it: the
\* snapshot it names is whole and holds the population of the ledger now.
SafeguardRestores ==
    FullyVerified(population) =>
        snapshot.final.whole /\ snapshot.final.population = population

\* A package is of a safeguarded population and, if no safeguard crossed its
\* build, the one that its packed receipt restores; and a receipt that passes
\* the verification restores the ledger (database_export.py: safeguard, build).
PackageSound == PackageFrozen /\ PackageBound /\ SafeguardRestores
=============================================================================
