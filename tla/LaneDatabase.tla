---------------------------- MODULE LaneDatabase ----------------------------
(***************************************************************************)
(* Lane generations: the signature ledgers of a measured-complete width    *)
(* run become one raw database (lane_compiler.py, lane_database.py), and a *)
(* raw database becomes a compact one (scripts/deduplicate_lane_db.py).    *)
(* Both are written beside their destination, frozen by triggers and       *)
(* linked into place, which never replaces a file.                         *)
(*                                                                         *)
(* Operators run the commands while somebody edits the lane registry,      *)
(* changes or loses a ledger, or removes the raw database.  A registry     *)
(* version decides which cells belong to the lane and are admitted.  What  *)
(* a database holds stands for its digest.                                 *)
(***************************************************************************)
EXTENDS Naturals, Sequences, FiniteSets

CONSTANTS LaneCells,       \* cells of the replay, in manifest order: a sequence
          CellsOf,         \* [registry version -> the lane's cells]
          LedgerOf,        \* [cell -> its ledger: a sequence of signatures]
          OtherSignature,  \* what the lines of a changed ledger hold
          Compiler,        \* operators who build the raw database
          Compactor,       \* operators who compact it
          MaxRegistry,     \* versions of the registry
          MaxLedgerFaults, MaxRemovals, MaxLaneKills

\* A version of the registry gives the lane cells of the replay.
ASSUME LaneAssumption ==
    /\ LaneCells \in Seq({LaneCells[n] : n \in DOMAIN LaneCells})
    /\ MaxRegistry \in Nat \ {0}
    /\ \A v \in 1 .. MaxRegistry : CellsOf[v] \subseteq {LaneCells[n] : n \in DOMAIN LaneCells}
    /\ {MaxLedgerFaults, MaxRemovals, MaxLaneKills} \subseteq Nat

VARIABLES registry,   \* version of lanes/registry.toml
          spoiled,    \* cells whose ledger is not what its manifest says
          slipped,    \* history: and was changed between a command's check and reading of it
          raw,        \* the raw database: <<>> or <<content>>
          compact,    \* the compact database: <<>> or <<content>>
          operator,   \* [step, what the command has read and written]
          temporaries, \* files that a killed command left
          edited,     \* the registry was edited while a command read it twice
          returned,   \* raw contents published anew while a copy of them went on
          removals, laneKills

laneVars == <<registry, spoiled, slipped, raw, compact, operator, temporaries, edited, returned,
              removals, laneKills>>

LaneOperator == Compiler \cup Compactor
Idle == [step |-> "idle", plan |-> {}, named |-> 0, loaded |-> 0, ingested |-> {},
         rows |-> {}, source |-> <<>>]
LaneSteps == {"idle", "planned", "named", "checked", "ingest", "reading", "ready",
              "digest", "previewed", "copied", "failed", "done"}

\* The occurrences of a ledger: repeated signatures are occurrences of their own.
Occurrences(c) == {[cell |-> c, line |-> n, signature |-> LedgerOf[c][n]] :
                      n \in DOMAIN LedgerOf[c]}
\* Those of one that was changed and has as many lines as its manifest says.
ChangedRows(c) == {[cell |-> c, line |-> n, signature |-> OtherSignature] :
                      n \in DOMAIN LedgerOf[c]}
SignaturesOf(rows) == {r.signature : r \in rows}
ReplayCells == {LaneCells[n] : n \in DOMAIN LaneCells}

-----------------------------------------------------------------------------
LaneInit ==
    /\ registry = 1 /\ spoiled = {} /\ slipped = {}
    /\ raw = <<>> /\ compact = <<>>
    /\ operator = [o \in LaneOperator |-> Idle]
    /\ temporaries = 0 /\ edited = FALSE /\ returned = {}
    /\ removals = 0 /\ laneKills = 0

LaneTypeOK ==
    /\ registry \in 1 .. MaxRegistry /\ slipped \subseteq spoiled /\ spoiled \subseteq ReplayCells
    /\ Len(raw) <= 1 /\ Len(compact) <= 1
    /\ \A o \in LaneOperator :
         /\ operator[o].step \in LaneSteps
         /\ operator[o].plan \subseteq ReplayCells
         /\ \A r \in operator[o].rows : r \in Occurrences(r.cell) \cup ChangedRows(r.cell)
    /\ temporaries \in 0 .. MaxLaneKills
    /\ removals \in 0 .. MaxRemovals /\ laneKills \in 0 .. MaxLaneKills

At(o, step) == operator[o].step = step
Goes(o, step) == operator' = [operator EXCEPT ![o].step = step]
FilesUnchanged == UNCHANGED <<registry, spoiled, slipped, temporaries, edited, removals, laneKills>>
RawUnchanged == UNCHANGED <<raw, returned>> /\ FilesUnchanged

-----------------------------------------------------------------------------
(***************************************************************************)
(* compile_lane_plan and build_lane_from_plan                              *)
(***************************************************************************)
\* The plan lists the complete cells of the lane ...
PlanLane(o) ==
    /\ o \in Compiler /\ At(o, "idle")
    /\ operator' = [operator EXCEPT ![o].step = IF CellsOf[registry] = {} THEN "failed"
                                                ELSE "planned",
                                    ![o].plan = CellsOf[registry]]
    /\ UNCHANGED compact /\ RawUnchanged

\* ... and then names the registry by a digest that is read separately.
NameRegistry(o) ==
    /\ At(o, "planned")
    /\ operator' = [operator EXCEPT ![o].step = "named", ![o].named = registry]
    /\ UNCHANGED compact /\ RawUnchanged

RegistryIsNamed(o) == operator[o].named = registry

CheckRegistry(o) ==
    /\ At(o, "named")
    /\ Goes(o, IF RegistryIsNamed(o) THEN "checked" ELSE "failed")
    /\ UNCHANGED compact /\ RawUnchanged

\* The registry is parsed; a destination that exists is refused.
BeginLane(o) ==
    /\ At(o, "checked")
    /\ operator' = [operator EXCEPT ![o].step = IF raw = <<>> THEN "ingest" ELSE "failed",
                                    ![o].loaded = registry]
    /\ UNCHANGED compact /\ RawUnchanged

\* One ledger after the other; one error rolls all of it back.
Ingested(o) == operator[o].ingested
Left(o) == operator[o].plan \ Ingested(o)
Comes(o, c) ==
    \E n \in DOMAIN LaneCells :
        /\ LaneCells[n] = c /\ c \in Left(o)
        /\ \A m \in 1 .. n - 1 : LaneCells[m] \notin Left(o)

\* Its digest is taken and compared with the plan's ...
CheckLedger(o) ==
    /\ At(o, "ingest")
    /\ \E c \in Left(o) :
          Comes(o, c) /\ Goes(o, IF c \in spoiled THEN "failed" ELSE "reading")
    /\ UNCHANGED compact /\ RawUnchanged

\* ... and then it is opened again, each of its rows looked up in the sublanes
\* that were parsed, and only their number compared with the plan's.
Takes(o, c, rows) ==
    operator' = [operator EXCEPT ![o].step = "ingest", ![o].ingested = @ \cup {c},
                                 ![o].rows = @ \cup rows]
RowsAdmitted(o, c, rows) == rows = {} \/ c \in CellsOf[operator[o].loaded]
ReadLedger(o) ==
    /\ At(o, "reading")
    /\ \E c \in Left(o) :
         /\ Comes(o, c)
         /\ \/ /\ c \notin spoiled /\ RowsAdmitted(o, c, Occurrences(c))
               /\ Takes(o, c, Occurrences(c))
            \/ /\ c \in spoiled /\ RowsAdmitted(o, c, ChangedRows(c))
               /\ Takes(o, c, ChangedRows(c))
            \/ /\ c \in spoiled \/ ~RowsAdmitted(o, c, Occurrences(c))
               /\ Goes(o, "failed")
    /\ UNCHANGED compact /\ RawUnchanged

\* _freeze, the integrity checks and VACUUM on the temporary file; a lane
\* without any occurrence is an error.
FreezeLane(o) ==
    /\ At(o, "ingest") /\ Left(o) = {}
    /\ Goes(o, IF operator[o].rows = {} THEN "failed" ELSE "ready")
    /\ UNCHANGED compact /\ RawUnchanged

RawContent(o) == [registry |-> operator[o].named, rows |-> operator[o].rows]

\* os.link refuses a destination that another builder published meanwhile.
CopiedFrom(content) == \E o \in Compactor : At(o, "copied") /\ operator[o].source = <<content>>
PublishLane(o) ==
    /\ At(o, "ready")
    /\ IF raw = <<>>
         THEN /\ raw' = <<RawContent(o)>> /\ Goes(o, "done")
              /\ returned' = IF CopiedFrom(RawContent(o)) THEN returned \cup {RawContent(o)}
                             ELSE returned
         ELSE Goes(o, "failed") /\ UNCHANGED <<raw, returned>>
    /\ UNCHANGED compact /\ FilesUnchanged

-----------------------------------------------------------------------------
(***************************************************************************)
(* compact_lane_database                                                   *)
(***************************************************************************)
DigestSource(o) ==
    /\ o \in Compactor /\ At(o, "idle")
    /\ compact = <<>> /\ raw # <<>>
    /\ operator' = [operator EXCEPT ![o].step = "digest", ![o].source = raw]
    /\ UNCHANGED compact /\ RawUnchanged

\* The counts of the preview, from the file that is there now.
PreviewCompaction(o) ==
    /\ At(o, "digest")
    /\ operator' = [operator EXCEPT ![o].step = IF raw = <<>> THEN "failed" ELSE "previewed",
                                    ![o].loaded = IF raw = <<>> THEN 0
                                                  ELSE Cardinality(raw[1].rows)]
    /\ UNCHANGED compact /\ RawUnchanged

\* The attached source is copied, and the copy counted against the preview.
CopySource(o) ==
    /\ At(o, "previewed")
    /\ IF raw # <<>> /\ Cardinality(raw[1].rows) = operator[o].loaded
         THEN operator' = [operator EXCEPT ![o].step = "copied", ![o].rows = raw[1].rows]
         ELSE Goes(o, "failed")
    /\ UNCHANGED compact /\ RawUnchanged

SourcePresent(o) == raw # <<>> /\ operator[o].source # <<>>
SourceUnchanged(o) == raw = operator[o].source

CompactContent(o) ==
    [source |-> operator[o].source[1],
     signatures |-> SignaturesOf(operator[o].rows),
     occurrences |-> operator[o].rows]

PublishCompact(o) ==
    /\ At(o, "copied")
    /\ IF SourceUnchanged(o) /\ compact = <<>>
         THEN compact' = <<CompactContent(o)>> /\ Goes(o, "done")
         ELSE Goes(o, "failed") /\ UNCHANGED compact
    /\ RawUnchanged

-----------------------------------------------------------------------------
(***************************************************************************)
(* What else happens to the files, and to the commands.                    *)
(***************************************************************************)
EditRegistry ==
    /\ registry < MaxRegistry
    /\ registry' = registry + 1
    /\ edited' = (edited \/ \E o \in Compiler : operator[o].step \in {"planned", "checked"})
    /\ UNCHANGED <<spoiled, slipped, raw, compact, operator, temporaries, returned,
                   removals, laneKills>>

SpoilLedger(c) ==
    /\ c \notin spoiled /\ Cardinality(spoiled) < MaxLedgerFaults
    /\ spoiled' = spoiled \cup {c}
    /\ slipped' = IF \E o \in Compiler : At(o, "reading") /\ Comes(o, c)
                  THEN slipped \cup {c} ELSE slipped
    /\ UNCHANGED <<registry, raw, compact, operator, temporaries, edited, returned,
                   removals, laneKills>>

RemoveRaw ==
    /\ raw # <<>> /\ removals < MaxRemovals
    /\ raw' = <<>> /\ removals' = removals + 1
    /\ UNCHANGED <<registry, spoiled, slipped, compact, operator, temporaries, edited, returned,
                   laneKills>>

\* A killed command leaves its temporary file; a failed one removes it.
HasTemporary(o) ==
    operator[o].step \in {"ingest", "reading", "ready"} \/ (o \in Compactor /\ At(o, "copied"))
KillCommand(o) ==
    /\ laneKills < MaxLaneKills /\ HasTemporary(o)
    /\ operator' = [operator EXCEPT ![o] = Idle]
    /\ temporaries' = temporaries + 1
    /\ laneKills' = laneKills + 1
    /\ UNCHANGED <<registry, spoiled, slipped, raw, compact, edited, returned, removals>>

LaneNext ==
    \/ \E o \in LaneOperator :
         \/ PlanLane(o) \/ NameRegistry(o) \/ CheckRegistry(o) \/ BeginLane(o)
         \/ CheckLedger(o) \/ ReadLedger(o) \/ FreezeLane(o) \/ PublishLane(o)
         \/ DigestSource(o) \/ PreviewCompaction(o) \/ CopySource(o) \/ PublishCompact(o)
         \/ KillCommand(o)
    \/ EditRegistry
    \/ \E c \in ReplayCells : SpoilLedger(c)
    \/ RemoveRaw

LaneSpec == LaneInit /\ [][LaneNext]_laneVars

-----------------------------------------------------------------------------
\* A published raw generation holds every occurrence of every cell that the
\* registry it names gives to the lane, and nothing else (build_lane_database),
\* unless the registry was edited between two reads of one command: the digest
\* that a generation records is not read with the registry it was built from
\* (lane_compiler.py:198, 302-307).  Of a ledger that was changed after its
\* digest was compared only the number of rows is sure (lane_compiler.py:250-291).
RowsOf(rows, c) == {r \in rows : r.cell = c}
RawExact ==
    \A n \in DOMAIN raw :
        LET lane == CellsOf[raw[n].registry] IN
        ~edited =>
            /\ {r.cell : r \in raw[n].rows} \subseteq lane
            /\ \A c \in lane :
                  \/ RowsOf(raw[n].rows, c) = Occurrences(c)
                  \/ c \in slipped /\ RowsOf(raw[n].rows, c) = ChangedRows(c)

\* A compact generation keeps every occurrence of the source whose digest it
\* records, and one signature for all that are equal, whatever happened to the
\* raw file while it was copied (compact_lane_database), unless it was removed
\* and the same generation built again by then: the digest is taken before the
\* copy and after it, and the file in between may be another one with as many
\* rows (deduplicate_lane_db.py:282, 294, 352; lane_compiler.py:321).
CompactExact ==
    \A n \in DOMAIN compact :
      compact[n].source \notin returned =>
        /\ compact[n].occurrences = compact[n].source.rows
        /\ compact[n].signatures = SignaturesOf(compact[n].source.rows)

LanesExact == RawExact /\ CompactExact
=============================================================================
