----------------------------- MODULE HashEvidence -----------------------------
(***************************************************************************)
(* The hash evidence of sealed validation runs (machine_validation_hashes) *)
(* and the corpus-wide index that takes it in, one run at a time           *)
(* (corpus_hash_index).  Three kinds of processes analyse runs: the runner *)
(* after its last cell, the schedule in its window, and an operator; only  *)
(* the schedule takes a lock.  Files are renamed into place, the index is  *)
(* one SQLite database, and the index of the first run is built aside.     *)
(*                                                                         *)
(* A function's exact signature is an element of Signature; scopes and     *)
(* languages only split signatures and are left out.                       *)
(***************************************************************************)
EXTENDS Naturals, Integers, Sequences, FiniteSets, FiniteSetsExt, Functions

CONSTANTS
    HashRun,            \* runs
    Earlier,            \* those perhaps analysed before
    FailedBefore,       \* those analysed before in vain
    Signature, Owner,
    Exact,              \* owner -> the signatures of its functions
    FoldsOf,            \* run -> its folds, [present, asked] each
    HashJob, RoleOf,    \* processes, each a runner, a schedule or an operator
    MaxRevisions, MaxAnalyses, MaxHashKills   \* bounds

ASSUME EvidenceAssumption ==
    /\ Exact \in [Owner -> SUBSET Signature]
    /\ DOMAIN FoldsOf = HashRun /\ {Earlier, FailedBefore} \subseteq SUBSET HashRun
    /\ \A r \in HashRun : \A f \in FoldsOf[r] :
          f.present \subseteq Owner /\ f.asked \subseteq Signature
    /\ RoleOf \in [HashJob -> {"runner", "schedule", "operator"}]
    /\ {MaxRevisions, MaxAnalyses, MaxHashKills} \subseteq Nat

-----------------------------------------------------------------------------
(* The classification of a run's folds: a fold asks with the signatures of *)
(* a composite of its present owners, and the owners of the other fold are *)
(* absent from it.                                                         *)

Cohort(r) == UNION {f.present : f \in FoldsOf[r]}
Pairs(signatures, owners) == {p \in signatures \X owners : p[1] \in Exact[p[2]]}

TruePositives(f) == Pairs(f.asked, f.present)
FalsePositives(r, f) == Pairs(f.asked, Cohort(r) \ f.present)
FalseNegatives(f) == Pairs(Signature \ f.asked, f.present)
TrueNegatives(r, f) ==
    Cardinality(f.asked) * Cardinality(Cohort(r) \ f.present)
        - Cardinality(FalsePositives(r, f))

\* hash_observation: what is kept of a fold, its misses among it.
Observed(f) == f.asked \union {p[1] : p \in FalseNegatives(f)}

\* hash_summary and hash_signature_owner.
Summed(r, s) ==
    MapThenSumSet(LAMBDA f : Cardinality({p \in FalsePositives(r, f) : p[1] = s}), FoldsOf[r])
OwnersOf(r, s) == {o \in Cohort(r) : s \in Exact[o]}

\* The delta of a run: a signature's observations count as its queries.
Queries(r, s) == Cardinality({f \in FoldsOf[r] : s \in Observed(f)})
AllQueries(r) == MapThenSumSet(LAMBDA s : Queries(r, s), Signature)
RunOwners(r) == UNION {OwnersOf(r, s) : s \in Signature}
InternalFP(r) == MapThenSumSet(LAMBDA f : Cardinality(FalsePositives(r, f)), FoldsOf[r])
InternalTN(r) == MapThenSumSet(LAMBDA f : TrueNegatives(r, f), FoldsOf[r])

-----------------------------------------------------------------------------
VARIABLES
    hashStatus,     \* run -> the state of its status.json
    sources,        \* run -> the digest of the evidence it is analysed from
    partialFile,    \* run -> hash-evidence.sqlite3.partial: <<>> or <<file>>
    evidenceFile,   \* run -> hash-evidence.sqlite3: <<>> or <<file>>
    hashReport,     \* run -> hash-report.json: <<>> or <<[source, ordinal]>>
    index,          \* the corpus index: <<>> or <<[batches, cache, totals]>>
    hashJobs,       \* process -> <<>> or <<its variables>>
    hashLock,       \* .hash-analysis.lock exists
    overwritten,    \* a first index was installed over another one
    mixed,          \* runs whose installed evidence came from another analysis
    analyses, hashKills

hashVars == <<hashStatus, sources, partialFile, evidenceFile, hashReport, index, hashJobs,
              hashLock, overwritten, mixed, analyses, hashKills>>

Empty == [batches |-> <<>>,
          cache |-> [s \in Signature |-> [owners |-> 0, queries |-> 0, fp |-> 0]],
          totals |-> [owners |-> 0, queries |-> 0, fp |-> 0, tn |-> 0]]

\* New queries meet the owners of before, and new owners the queries of before.
CrossFP(r, cache) ==
    MapThenSumSet(LAMBDA s : Queries(r, s) * cache[s].owners
                             + cache[s].queries * Cardinality(OwnersOf(r, s)), Signature)

Touched(r, cache) ==
    [s \in Signature |->
        [owners |-> cache[s].owners + Cardinality(OwnersOf(r, s)),
         queries |-> cache[s].queries + Queries(r, s),
         fp |-> cache[s].fp + Summed(r, s) + Queries(r, s) * cache[s].owners
                + cache[s].queries * Cardinality(OwnersOf(r, s))]]

\* The totals go on from those that were read before the transaction.
Cumulative(r, last, cross) ==
    [owners |-> last.owners + Cardinality(RunOwners(r)),
     queries |-> last.queries + AllQueries(r),
     fp |-> last.fp + InternalFP(r) + cross,
     tn |-> last.tn + InternalTN(r) + AllQueries(r) * last.owners
            + last.queries * Cardinality(RunOwners(r)) - cross]

WithBatch(base, r, source, last) ==
    [batches |-> Append(base.batches, [run |-> r, source |-> source]),
     cache |-> Touched(r, base.cache),
     totals |-> Cumulative(r, last, CrossFP(r, base.cache))]

\* Runs whose cells are all complete, of which an earlier postprocessing may
\* have failed, and perhaps one that the index has taken in.
HashInit ==
    \E done \in {{}} \union {{e} : e \in Earlier} :
        /\ hashStatus = [r \in HashRun |->
              CASE r \in done -> "complete"
                [] r \in FailedBefore \ done -> "postprocess-failed"
                [] OTHER -> "measured"]
        /\ sources = [r \in HashRun |-> 1]
        /\ partialFile = [r \in HashRun |-> <<>>]
        /\ evidenceFile = [r \in HashRun |->
              IF r \in done THEN <<[by |-> 0, source |-> 1, sealed |-> TRUE]>> ELSE <<>>]
        /\ hashReport = [r \in HashRun |->
              IF r \in done THEN <<[source |-> 1, ordinal |-> 1]>> ELSE <<>>]
        /\ index = IF done = {} THEN <<>>
                   ELSE <<WithBatch(Empty, CHOOSE e \in done : TRUE, 1, Empty.totals)>>
        /\ hashJobs = [j \in HashJob |-> <<>>]
        /\ hashLock = FALSE /\ overwritten = FALSE /\ mixed = {} /\ analyses = 0 /\ hashKills = 0

JobAt(j, where) == hashJobs[j] # <<>> /\ hashJobs[j][1].at = where
Row(j) == hashJobs[j][1]
RunOf(j) == Row(j).run
AndThen(j, row) == hashJobs' = [hashJobs EXCEPT ![j] = <<row>>]
GoesTo(j, where) == hashJobs' = [hashJobs EXCEPT ![j][1].at = where]
Files == <<partialFile, evidenceFile>>
History == <<overwritten, mixed>>

\* A command of the reference index is run again: the digest changes.  Bounded:
\* MaxRevisions runs, each as often.
ReviseSource(r) ==
    /\ Cardinality({r} \union {o \in HashRun : sources[o] > 1}) <= MaxRevisions
    /\ sources[r] <= MaxRevisions
    /\ sources' = [sources EXCEPT ![r] = @ + 1]
    /\ UNCHANGED <<hashStatus, Files, hashReport, index, hashJobs, hashLock, History,
                   analyses, hashKills>>

-----------------------------------------------------------------------------
(* analyze_hashes and its callers                                          *)

\* The runner's postprocessing, its retry by a resumption, the schedule's
\* choice (a run without a report, looked at before the lock) and an operator.
MayAnalyse(j, r) ==
    CASE RoleOf[j] = "runner"   -> hashStatus[r] \in {"measured", "postprocessing", "postprocess-failed"}
      [] RoleOf[j] = "schedule" ->
            /\ hashStatus[r] \in {"complete", "postprocess-failed"}
            /\ hashReport[r] = <<>> /\ ~hashLock
      [] OTHER -> hashStatus[r] \in {"complete", "postprocessing", "postprocess-failed"}

BeginAnalyse(j, r) ==
    /\ hashJobs[j] = <<>> /\ analyses < MaxAnalyses /\ MayAnalyse(j, r)
    /\ analyses' = analyses + 1
    /\ hashStatus' = IF RoleOf[j] = "runner"
                     THEN [hashStatus EXCEPT ![r] = "postprocessing"] ELSE hashStatus
    /\ hashLock' = (hashLock \/ RoleOf[j] = "schedule")
    /\ AndThen(j, [run |-> r, number |-> analyses', at |-> "resolve", status |-> hashStatus'[r],
                   source |-> 0, taken |-> 0, fresh |-> FALSE, work |-> <<>>, ordinal |-> 0,
                   last |-> Empty.totals])
    /\ UNCHANGED <<sources, Files, hashReport, index, History, hashKills>>

\* What a caller writes when analyze_hashes returns or raises.
EndAnalyse(j, state) ==
    /\ hashJobs' = [hashJobs EXCEPT ![j] = <<>>]
    /\ hashLock' = (hashLock /\ RoleOf[j] # "schedule")
    /\ hashStatus' = [hashStatus EXCEPT ![RunOf(j)] =
          CASE RoleOf[j] = "runner" -> state
            [] RoleOf[j] = "schedule" /\ state = "complete" -> state
            [] OTHER -> @]
    /\ UNCHANGED <<sources, Files, hashReport, index, History, analyses, hashKills>>

\* The evidence is digested; a report of the same evidence ends the analysis.
ResolveEvidence(j) ==
    LET r == RunOf(j)
        current == /\ evidenceFile[r] # <<>> /\ hashReport[r] # <<>>
                   /\ hashReport[r][1].source = sources[r]
    IN
    /\ JobAt(j, "resolve")
    /\ \/ current /\ EndAnalyse(j, "complete")
       \/ /\ ~current
          /\ AndThen(j, [Row(j) EXCEPT !.at = "create", !.source = sources[r]])
          /\ UNCHANGED <<hashStatus, sources, Files, hashReport, index, hashLock, History,
                         analyses, hashKills>>

\* A file left by another analysis, or still written by one, is unlinked.
CreatePartial(j) ==
    /\ JobAt(j, "create")
    /\ partialFile' = [partialFile EXCEPT ![RunOf(j)] =
          <<[by |-> Row(j).number, source |-> Row(j).source, sealed |-> FALSE]>>]
    /\ GoesTo(j, "classify")
    /\ UNCHANGED <<hashStatus, sources, evidenceFile, hashReport, index, hashLock, History,
                   analyses, hashKills>>

\* The rows and the state of the metadata are committed, wherever the file is.
Sealed(j, file) ==
    IF file # <<>> /\ file[1].by = Row(j).number THEN <<[file[1] EXCEPT !.sealed = TRUE]>> ELSE file

ClassifyFolds(j) ==
    /\ JobAt(j, "classify")
    /\ partialFile' = [partialFile EXCEPT ![RunOf(j)] = Sealed(j, @)]
    /\ evidenceFile' = [evidenceFile EXCEPT ![RunOf(j)] = Sealed(j, @)]
    /\ GoesTo(j, "rename")
    /\ UNCHANGED <<hashStatus, sources, hashReport, index, hashLock, History, analyses,
                   hashKills>>

RenameEvidence(j) ==
    LET r == RunOf(j) IN
    /\ JobAt(j, "rename")
    /\ partialFile[r] # <<>>
    /\ evidenceFile' = [evidenceFile EXCEPT ![r] = partialFile[r]]
    /\ partialFile' = [partialFile EXCEPT ![r] = <<>>]
    /\ GoesTo(j, "open")
    /\ UNCHANGED <<hashStatus, sources, hashReport, index, hashLock, History, analyses,
                   hashKills>>

-----------------------------------------------------------------------------
(* update_corpus_hash_index                                                *)

Base(j) == IF Row(j).fresh THEN Row(j).work[1] ELSE index[1]

\* An index that does not exist yet is created aside, in a file of its own.  A
\* process that has opened an index which is then installed over goes on in the
\* new one here, in the unlinked one in truth: `overwritten` says so.
OpenIndex(j) ==
    LET file == evidenceFile[RunOf(j)][1] IN
    /\ JobAt(j, "open") /\ file.sealed
    /\ AndThen(j, [Row(j) EXCEPT !.at = "look", !.fresh = index = <<>>, !.work = <<Empty>>,
                                 !.taken = file.source])
    /\ mixed' = IF file.by = Row(j).number THEN mixed ELSE mixed \union {RunOf(j)}
    /\ UNCHANGED <<hashStatus, sources, Files, hashReport, index, hashLock, overwritten,
                   analyses, hashKills>>

BatchesOf(base) == {base.batches[i] : i \in DOMAIN base.batches}
Repeats(base, r) == \E b \in BatchesOf(base) : RunOwners(b.run) \intersect RunOwners(r) # {}

\* source_evidence_sha256 is the idempotency key.
Known(base, r, source) == {i \in DOMAIN base.batches : base.batches[i] = [run |-> r, source |-> source]}

\* Evidence that the index has already taken in is answered with its batch.
LookForBatch(j) ==
    LET known == Known(Base(j), RunOf(j), Row(j).taken) IN
    /\ JobAt(j, "look")
    /\ \/ /\ known # {}
          /\ AndThen(j, [Row(j) EXCEPT !.at = "report", !.ordinal = CHOOSE i \in known : TRUE])
       \/ known = {} /\ ~Repeats(Base(j), RunOf(j)) /\ GoesTo(j, "ordinal")
    /\ UNCHANGED <<hashStatus, sources, Files, hashReport, index, hashLock, History,
                   analyses, hashKills>>

ReadOrdinal(j) ==
    /\ JobAt(j, "ordinal")
    /\ AndThen(j, [Row(j) EXCEPT !.at = "last", !.ordinal = Len(Base(j).batches) + 1])
    /\ UNCHANGED <<hashStatus, sources, Files, hashReport, index, hashLock, History,
                   analyses, hashKills>>

ReadLast(j) ==
    /\ JobAt(j, "last")
    /\ AndThen(j, [Row(j) EXCEPT !.at = "admit", !.last = Base(j).totals])
    /\ UNCHANGED <<hashStatus, sources, Files, hashReport, index, hashLock, History,
                   analyses, hashKills>>

\* Mutant: the ordinals of batches need not be unique.
OrdinalAny(base, ordinal) == TRUE

OrdinalFree(base, ordinal) == ordinal = Len(base.batches) + 1

\* One transaction, which the constraints of the schema and the comparison of
\* the cache with the totals may refuse.
Admits(j, base) ==
    /\ OrdinalFree(base, Row(j).ordinal)
    /\ \A b \in BatchesOf(base) : b.run # RunOf(j)
    /\ ~Repeats(base, RunOf(j))

CacheAgrees(base) ==
    MapThenSumSet(LAMBDA s : base.cache[s].fp, Signature) = base.totals.fp /\ base.totals.tn >= 0

AdmitBatch(j) ==
    LET admitted == WithBatch(Base(j), RunOf(j), Row(j).taken, Row(j).last) IN
    /\ JobAt(j, "admit") /\ Admits(j, Base(j)) /\ CacheAgrees(admitted)
    /\ IF Row(j).fresh
       THEN AndThen(j, [Row(j) EXCEPT !.at = "install", !.work = <<admitted>>]) /\ UNCHANGED index
       ELSE index' = <<admitted>> /\ GoesTo(j, "report")
    /\ UNCHANGED <<hashStatus, sources, Files, hashReport, hashLock, History, analyses,
                   hashKills>>

\* The first index is renamed into place, whatever is there by now.
InstallIndex(j) ==
    /\ JobAt(j, "install")
    /\ index' = Row(j).work
    /\ overwritten' = (overwritten \/ index # <<>>)
    /\ GoesTo(j, "report")
    /\ UNCHANGED <<hashStatus, sources, Files, hashReport, hashLock, mixed, analyses, hashKills>>

-----------------------------------------------------------------------------
WriteHashReport(j) ==
    /\ JobAt(j, "report")
    /\ hashReport' = [hashReport EXCEPT ![RunOf(j)] =
          <<[source |-> Row(j).source, ordinal |-> Row(j).ordinal]>>]
    /\ GoesTo(j, "status")
    /\ UNCHANGED <<hashStatus, sources, Files, index, hashLock, History, analyses, hashKills>>

\* The status as it was read at first, with the report; then the caller's end.
WriteHashStatus(j) ==
    /\ JobAt(j, "status")
    /\ hashStatus' = [hashStatus EXCEPT ![RunOf(j)] = Row(j).status]
    /\ GoesTo(j, "end")
    /\ UNCHANGED <<sources, Files, hashReport, index, hashLock, History, analyses, hashKills>>

CompleteAnalyse(j) == JobAt(j, "end") /\ EndAnalyse(j, "complete")

\* What the code refuses: no partial file, unsealed evidence, repeated owners,
\* a constraint of the schema; or any other error before the report.
FailAnalyse(j) ==
    /\ hashJobs[j] # <<>> /\ Row(j).at \notin {"report", "status", "end"}
    /\ EndAnalyse(j, "postprocess-failed")

\* A kill leaves the lock and the files.
KillAnalyse(j) ==
    /\ hashJobs[j] # <<>> /\ hashKills < MaxHashKills
    /\ hashKills' = hashKills + 1
    /\ hashJobs' = [hashJobs EXCEPT ![j] = <<>>]
    /\ UNCHANGED <<hashStatus, sources, Files, hashReport, index, hashLock, History, analyses>>

HashNext ==
    \/ \E r \in HashRun : ReviseSource(r)
    \/ \E j \in HashJob :
          \/ \E r \in HashRun : BeginAnalyse(j, r)
          \/ ResolveEvidence(j) \/ CreatePartial(j) \/ ClassifyFolds(j) \/ RenameEvidence(j)
          \/ OpenIndex(j) \/ LookForBatch(j) \/ ReadOrdinal(j) \/ ReadLast(j) \/ AdmitBatch(j)
          \/ InstallIndex(j) \/ WriteHashReport(j) \/ WriteHashStatus(j) \/ CompleteAnalyse(j)
          \/ FailAnalyse(j) \/ KillAnalyse(j)

HashSpec == HashInit /\ [][HashNext]_hashVars

-----------------------------------------------------------------------------
HashTypeOK ==
    /\ \A r \in HashRun :
          /\ hashStatus[r] \in {"measured", "postprocessing", "postprocess-failed", "complete"}
          /\ sources[r] \in 1..(1 + MaxRevisions)
    /\ \A j \in HashJob : hashJobs[j] # <<>> => RunOf(j) \in HashRun

\* What an index over a set of runs should say: every pair of a query of one run
\* and an owner of another is a false positive when the owner has the
\* signature, and a true negative when it does not.
Others(r, runs) == runs \ {r}
RecountFP(runs, s) ==
    MapThenSumSet(LAMBDA r : Summed(r, s) + Queries(r, s) *
        MapThenSumSet(LAMBDA o : Cardinality(OwnersOf(o, s)), Others(r, runs)), runs)
RecountNegatives(runs) ==
    MapThenSumSet(LAMBDA r : InternalTN(r) + InternalFP(r) + AllQueries(r) *
        MapThenSumSet(LAMBDA o : Cardinality(RunOwners(o)), Others(r, runs)), runs)

\* The index has taken in no run twice, and no two runs with an owner in common,
\* although the batches that were there are read before the transaction.
RunsApart ==
    index # <<>> =>
        LET base == index[1]
            runs == {b.run : b \in BatchesOf(base)}
        IN  /\ Cardinality(runs) = Len(base.batches)
            /\ \A r, o \in runs : r # o => RunOwners(r) \intersect RunOwners(o) = {}

\* However analyses of several runs interleave, fail, are killed and repeated,
\* the totals of the index and its cache, which every run only adds to, are
\* those of a recount over the runs it names, each with owners of its own
\* (update_corpus_hash_index: the batch and the totals of before are read
\* outside the transaction that builds on them).
IndexExact ==
    /\ RunsApart
    /\ index # <<>> =>
          LET base == index[1]
              runs == {b.run : b \in BatchesOf(base)}
              fp == MapThenSumSet(LAMBDA s : RecountFP(runs, s), Signature)
          IN  /\ \A s \in Signature : base.cache[s].fp = RecountFP(runs, s)
              /\ base.totals.fp = fp
              /\ base.totals.tn = RecountNegatives(runs) - fp

\* A report stands on a batch of its run that is in the index, taken from the
\* evidence it names, and a run is complete only with its report; excepted are
\* two first analyses, of which the second installs its index over the other
\* one, and two analyses of one run, of which one installs the other's file
\* (analyze_hashes).
ReportBacked ==
    \A r \in HashRun :
        /\ hashStatus[r] = "complete" => hashReport[r] # <<>>
        /\ hashReport[r] # <<>> =>
              \/ overwritten
              \/ /\ index # <<>> /\ hashReport[r][1].ordinal \in DOMAIN index[1].batches
                 /\ index[1].batches[hashReport[r][1].ordinal].run = r
                 /\ \/ r \in mixed
                    \/ index[1].batches[hashReport[r][1].ordinal].source = hashReport[r][1].source
=============================================================================
