---------------------------- MODULE RecordsProofs ----------------------------
(***************************************************************************)
(* What the farm writes down, for every value of the constants: what a     *)
(* local queue worker does with its attempts and on its schedule of        *)
(* windows (queue_cli.py, operations_policy.py), the control panel, the    *)
(* lane databases, the ecological cases, the width run and the scorer,     *)
(* whatever is killed, interrupted or loses power between two calls.       *)
(*                                                                         *)
(* Three facts carry the proof about the workers.  A batch that a worker   *)
(* has once seen admitted is either admitted still or has nothing left to  *)
(* claim, because an unattended queue opens no job again.  A lease names   *)
(* its attempt directory alone: no two workers hold it, and no directory   *)
(* is there before its generation is.  And where a worker is in            *)
(* _execute_claim says how far its directory is: a power loss moves both   *)
(* back.                                                                   *)
(***************************************************************************)
EXTENDS MCRecords, ServiceProofs, WellFoundedInduction

Idling == {"down", "stopped", "poll", "claim", "finish"}

\* How far the attempt directory is, where a worker is in _execute_claim.
DirectoryAt(step, d) ==
    /\ step = "staging" => d = "none"
    /\ step \in {"build", "publish", "renew", "flush"} => d = "staged"
    /\ step = "rename" => d = "synced"
    /\ step = "names" => d = "renamed"
    /\ step \in {"ended", "report"} => d = "durable"

Holds(w) == lease[w] # NoLease

HandsFit ==
    \A w \in Worker :
        /\ Holds(w) => /\ GenerationOf(w) <= jobs[JobOf(w)].generation
                       /\ DirectoryAt(pc[w], DirectoryOf(w))
        /\ beat[w] # "off" => Holds(w)

\* No two workers execute one lease.
HandsApart == \A v, w \in Worker : Holds(v) /\ lease[v] = lease[w] => v = w

\* No directory is there before its generation is leased.
NoneAhead ==
    \A j \in Job : \A g \in 1 .. MaxGeneration :
        g > jobs[j].generation => disk[j][g] = "none"

Published ==
    \A j \in Job :
        jobs[j].state = "complete" =>
            /\ jobs[j].generation \in 1 .. MaxGeneration
            /\ disk[j][jobs[j].generation] = "durable"

\* The invariant of the workers and their directories.
Hands == WorkerTypeOK /\ HandsFit /\ HandsApart /\ NoneAhead /\ Published

\* What a worker has seen admitted is admitted, or has nothing left.
SeenFits ==
    /\ order = <<>> => \A w \in Worker : seen[w] = {}
    /\ \A w \in Worker : \A b \in seen[w] : b \in {primary, lookahead} \/ Remaining(b) = {}

LiveActive == \A j \in Job : Live(jobs[j]) => jobs[j].active

\* The invariant of the ledger under local workers.
Ledger == ServiceInv /\ RefreshInv /\ LiveActive /\ AdmittedWork

WorkerInv == Ledger /\ SeenFits /\ Hands

-----------------------------------------------------------------------------
(* The ledger.                                                             *)

\* A step of the ledger that leases nothing: rows settle, and the queue
\* keeps its batches.
Calm ==
    /\ [ServiceNext]_vars
    /\ RowsKeep
    /\ order' = order
    /\ \A k \in Job : Settles(jobs[k], jobs'[k], policy) /\ NoNewLease(jobs[k], jobs'[k])
    /\ BlockStep \/ UNCHANGED admissions

\* A calm step in which nothing completes.
Quietly == Calm /\ NoSuccess

LEMMA LedgerFacts ==
    ASSUME Ledger
    PROVE  /\ Inv /\ RowsWithin /\ TypeOK /\ BlocksListed /\ NothingYet
           /\ \A j \in Job : Sound(jobs[j]) /\ jobs[j] \in JobRows
<1>1. Inv
  BY DEF Ledger, ServiceInv
<1>2. \A j \in Job : Sound(jobs[j])
  BY <1>1, InvSound
<1>. QED  BY <1>1, <1>2 DEF Ledger, ServiceInv, RefreshInv, Inv, TypeOK

LEMMA StutterQuiet ==
    ASSUME Ledger, UNCHANGED vars PROVE Quietly
<1>1. RowsRest
  BY UnchangedRests, LedgerFacts
<1>2. jobs' = jobs /\ order' = order /\ UNCHANGED admissions
  BY DEF vars, state
<1>3. \A k \in Job : Quiet(jobs[k], jobs'[k], policy)
  BY <1>2, LedgerFacts, QuietReflexive DEF RowsWithin
<1>. QED  BY <1>1, <1>2, <1>3 DEF Quietly, Calm, RowsRest, Quiet

LEMMA BlockQuiet ==
    ASSUME Ledger, BlockStep PROVE Quietly
<1>1. RowsRest
  BY BlockRests, LedgerFacts
<1>2. jobs' = jobs /\ order' = order
  BY DEF BlockStep, StartNextBlock, AdmitLookaheadBlock, FinishActiveBlockIfDrained, state
<1>3. \A k \in Job : Quiet(jobs[k], jobs'[k], policy)
  BY <1>2, LedgerFacts, QuietReflexive DEF RowsWithin
<1>. QED  BY <1>1, <1>2, <1>3 DEF Quietly, Calm, RowsRest, Quiet, ServiceNext

LEMMA TickQuiet ==
    ASSUME Ledger, Tick PROVE Quietly
<1>1. RowsRest
  BY TickRests, LedgerFacts
<1>2. /\ \A k \in Job : jobs'[k] = Age(jobs[k])
      /\ order' = order /\ UNCHANGED admissions
  BY DEF Tick, state
<1>3. \A k \in Job : jobs[k] \in JobRows /\ policy \in Policies /\ WithinAttempts(jobs[k], policy)
  BY LedgerFacts DEF TypeOK, RowsWithin
<1>4. \A k \in Job : Quiet(jobs[k], jobs'[k], policy)
  BY <1>2, <1>3, QuietLemma
<1>. QED  BY <1>1, <1>2, <1>4 DEF Quietly, Calm, RowsRest, Quiet, ServiceNext

\* The recovery of a claim that finds nothing stands.
LEMMA RecoveryQuiet ==
    ASSUME Ledger, jobs' = Recovered(jobs), UNCHANGED <<quarantined, state, admissions>>
    PROVE  Quietly
<1>1. RowsRest
  BY RecoveryRests, LedgerFacts
<1>2. order' = order /\ UNCHANGED admissions
  BY DEF state
<1>3. \A k \in Job : Quiet(jobs[k], jobs'[k], policy)
  BY RecoveredQuiet, LedgerFacts
<1>4. [ServiceNext]_vars
  <2>1. CASE \E j \in Job : Expired(jobs[j])
    BY <2>1 DEF RecoverExpired, ClaimStep, ServiceNext
  <2>2. CASE \A j \in Job : ~Expired(jobs[j])
    <3>1. jobs \in [Job -> JobRows]
      BY LedgerFacts DEF TypeOK
    <3>2. Recovered(jobs) = jobs
      BY <2>2, <3>1 DEF Recovered
    <3>. QED  BY <3>2 DEF vars
  <2>. QED  BY <2>1, <2>2
<1>. QED  BY <1>1, <1>2, <1>3, <1>4 DEF Quietly, Calm, RowsRest, Quiet

\* The fenced reports of a worker or a heartbeat that do not complete.
LEMMA ReportsQuiet ==
    ASSUME Ledger, NEW j \in Job, NEW g \in Nat,
           \/ Renew(j, g)
           \/ RecordStarted(j, g, Publication)
           \/ \E status \in {"completed", "failed"} : RecordEnded(j, g, Publication, status)
           \/ \E retryable, pathological \in BOOLEAN :
                 Fail(j, g, retryable, pathological, NoClass)
    PROVE  Quietly
<1>1. Publication \in Stage
  BY WorkerAssumption
<1>2. RowsRest
  BY <1>1, StageRests, LedgerFacts
<1>3. HoldsLease(j, g) /\ order' = order /\ UNCHANGED admissions
  BY DEF Renew, RecordStarted, RecordEnded, Fail, FencedWrite, state
<1>4. ServiceNext
  <2>1. LeaseStep(j, g)
    BY <1>1 DEF LeaseStep
  <2>2. g \in 1 .. jobs[j].generation
    BY <1>3, LedgerFacts DEF HoldsLease, Sound, RowInv, LeaseMatchesAttempt, JobRows
  <2>. QED  BY <2>1, <2>2 DEF WorkerStep, ServiceNext
<1>5. \A k \in Job : Settles(jobs[k], jobs'[k], policy) /\ NoNewLease(jobs[k], jobs'[k])
  <2>1. ASSUME NEW retryable \in BOOLEAN, NEW pathological \in BOOLEAN,
               Fail(j, g, retryable, pathological, NoClass)
        PROVE  \A k \in Job : /\ Settles(jobs[k], jobs'[k], policy)
                              /\ NoNewLease(jobs[k], jobs'[k])
    BY <2>1, LedgerFacts, FailSettles
  <2>2. CASE \/ Renew(j, g)
             \/ RecordStarted(j, g, Publication)
             \/ \E status \in {"completed", "failed"} : RecordEnded(j, g, Publication, status)
    <3>1. \A k \in Job : Quiet(jobs[k], jobs'[k], policy)
      BY <1>1, <2>2, LedgerFacts, ReportQuiet
    <3>. QED  BY <3>1 DEF Quiet
  <2>. QED  BY <2>1, <2>2
<1>. QED  BY <1>2, <1>3, <1>4, <1>5 DEF Quietly, Calm, RowsRest

\* complete: one job succeeds, in the generation that the worker presents.
LEMMA CompleteCalm ==
    ASSUME Ledger, NEW j \in Job, NEW g \in Nat, Complete(j, g)
    PROVE  /\ Calm
           /\ jobs'[j].generation = g
           /\ \A k \in Job \ {j} : jobs'[k].state = "complete" => jobs[k].state = "complete"
<1>1. /\ RowsKeep
      /\ jobs'[j].generation = g
      /\ \A k \in Job \ {j} : jobs'[k].state = "complete" => jobs[k].state = "complete"
  BY CompleteMoves, LedgerFacts
<1>2. HoldsLease(j, g) /\ order' = order /\ UNCHANGED admissions
  BY DEF Complete, FencedWrite, state
<1>3. ServiceNext
  <2>1. g \in 1 .. jobs[j].generation
    BY <1>2, LedgerFacts DEF HoldsLease, Sound, RowInv, LeaseMatchesAttempt, JobRows
  <2>. QED  BY <2>1 DEF LeaseStep, WorkerStep, ServiceNext
<1>4. \A k \in Job : Quiet(jobs[k], jobs'[k], policy)
  BY LedgerFacts, ReportQuiet
<1>. QED  BY <1>1, <1>2, <1>3, <1>4 DEF Calm, Quiet

\* A block that is left has nothing left to do.
LEMMA BlockLeaves ==
    ASSUME Ledger, BlockStep, NEW b \in Batch, b \in {primary, lookahead}
    PROVE  b \in {primary', lookahead'} \/ Remaining(b) = {}
<1>1. b # NoBatch
  BY JobAssumption
<1>2. primary # NoBatch => primary \in ActiveBatches
  BY LedgerFacts DEF BlocksListed
<1>. QED  BY <1>1, <1>2 DEF BlockStep, StartNextBlock, AdmitLookaheadBlock,
                             FinishActiveBlockIfDrained

\* What is left of a batch only shrinks.
LEMMA CalmShrinks ==
    ASSUME Calm, NEW b PROVE Remaining(b)' \subseteq Remaining(b)
BY DEF Calm, Remaining, Settles, Unsettled

LEMMA CalmLeaves ==
    ASSUME Ledger, Calm, NEW b \in Batch, b \in {primary, lookahead}
    PROVE  b \in {primary', lookahead'} \/ Remaining(b) = {}
<1>1. CASE BlockStep
  BY <1>1, BlockLeaves
<1>2. CASE UNCHANGED admissions
  BY <1>2 DEF admissions
<1>. QED  BY <1>1, <1>2 DEF Calm

LEMMA ServiceLedger ==
    ASSUME Ledger, [ServiceNext]_vars PROVE ServiceInv' /\ RefreshInv'
<1>1. [Next]_vars
  BY ServiceIsNext
<1>. QED  BY <1>1, ServiceStep, RefreshStep DEF Ledger

LEMMA CalmLedger ==
    ASSUME Ledger, Calm PROVE Ledger'
<1>1. ServiceInv' /\ RefreshInv'
  BY ServiceLedger DEF Calm
<1>3. LiveActive'
  BY DEF Ledger, LiveActive, Calm, Settles, NoNewLease
<1>4. AdmittedWork'
  <2>. SUFFICES ASSUME NEW j \in Job, Live(jobs'[j])
                PROVE  BatchOf[j] \in {primary', lookahead'}
    BY DEF AdmittedWork
  <2>1. Live(jobs[j])
    BY DEF Calm, NoNewLease
  <2>2. BatchOf[j] \in {primary, lookahead} /\ j \in Remaining(BatchOf[j])
    BY <2>1 DEF Ledger, AdmittedWork, LiveActive, Remaining, Live
  <2>3. BatchOf[j] \in Batch
    BY JobAssumption
  <2>. QED  BY <2>2, <2>3, CalmLeaves
<1>. QED  BY <1>1, <1>3, <1>4 DEF Ledger

\* A worker sees what is admitted now, and what it has seen stays admitted or
\* has nothing left.
LEMMA SeenStep ==
    ASSUME Ledger, SeenFits, seen \in [Worker -> SUBSET Batch], Calm,
           order = <<>> => UNCHANGED seen,
           \A w \in Worker : seen'[w] \subseteq seen[w] \cup {primary', lookahead'}
    PROVE  SeenFits'
<1>1. order' = <<>> => \A w \in Worker : seen'[w] = {}
  BY DEF Calm, SeenFits
<1>2. ASSUME NEW w \in Worker, NEW b \in seen'[w]
      PROVE  b \in {primary', lookahead'} \/ Remaining(b)' = {}
  <2>1. CASE b \in seen[w]
    <3>1. b \in Batch
      BY <2>1
    <3>2. b \in {primary, lookahead} \/ Remaining(b) = {}
      BY <2>1 DEF SeenFits
    <3>3. Remaining(b)' \subseteq Remaining(b)
      BY CalmShrinks
    <3>. QED  BY <3>1, <3>2, <3>3, CalmLeaves
  <2>2. CASE b \in {primary', lookahead'}
    BY <2>2
  <2>. QED  BY <1>2, <2>1, <2>2
<1>. QED  BY <1>1, <1>2 DEF SeenFits

\* A claim from blocks that were once seen is work in an admitted block.
LEMMA ClaimLedger ==
    ASSUME Ledger, SeenFits, seen \in [Worker -> SUBSET Batch],
           NEW w \in Worker, NEW j \in Job, Claim(j, seen[w], Job), UNCHANGED seen
    PROVE  /\ Ledger' /\ SeenFits' /\ RowsRest /\ ServiceNext
           /\ jobs'[j].generation = jobs[j].generation + 1
           /\ jobs'[j].generation \in 1 .. MaxGeneration
           /\ jobs'[j].state # "complete"
<1>1. /\ RowsRest
      /\ jobs'[j].generation = jobs[j].generation + 1
      /\ jobs'[j].generation \in 1 .. MaxGeneration
      /\ jobs'[j].state # "complete"
  BY ClaimRests, LedgerFacts
<1>2. ServiceNext
  <2>1. Job \in Pools /\ seen[w] \in SUBSET Batch
    BY WorkerAssumption
  <2>. QED  BY <2>1 DEF ClaimStep, ServiceNext
<1>3. ServiceInv' /\ RefreshInv'
  BY <1>2, ServiceLedger
<1>4. /\ UNCHANGED admissions /\ order' = order
      /\ Recovered(jobs)[j].active /\ Recovered(jobs)[j].state = "queued"
      /\ BatchOf[j] \in seen[w]
  BY DEF Claim, Claimable, state
<1>5. /\ \A k \in Job : Settles(jobs[k], jobs'[k], policy)
      /\ \A k \in Job \ {j} : jobs'[k] = Recovered(jobs)[k]
  BY ClaimSettles, LedgerFacts
<1>6. \A k \in Job : Quiet(jobs[k], Recovered(jobs)[k], policy)
  BY RecoveredQuiet, LedgerFacts
<1>7. jobs[j].active /\ Unsettled(jobs[j])
  BY <1>4, <1>6 DEF Quiet, Settles, Unsettled
<1>8. BatchOf[j] \in {primary, lookahead}
  <2>1. j \in Remaining(BatchOf[j])
    BY <1>7 DEF Remaining, Unsettled
  <2>. QED  BY <1>4, <2>1 DEF SeenFits
<1>9. \A k \in Job \ {j} : Live(jobs'[k]) => Live(jobs[k])
  BY <1>5, <1>6 DEF Quiet, NoNewLease
<1>10. LiveActive' /\ AdmittedWork'
  BY <1>4, <1>5, <1>7, <1>8, <1>9
     DEF Ledger, LiveActive, AdmittedWork, Settles, admissions
<1>11. SeenFits'
  <2>1. \A b : Remaining(b)' \subseteq Remaining(b)
    BY <1>5 DEF Remaining, Settles, Unsettled
  <2>. QED  BY <1>4, <2>1 DEF SeenFits, admissions
<1>. QED  BY <1>1, <1>2, <1>3, <1>10, <1>11 DEF Ledger

\* The synchronization finds nothing there, and leases nothing.
LEMMA SyncLedger ==
    ASSUME Ledger, SeenFits, order = <<>>, NEW c \in Configs, SyncQueue(c), UNCHANGED seen
    PROVE  Ledger' /\ SeenFits' /\ RowsRest /\ ServiceNext
<1>1. RowsRest
  BY SyncRests, LedgerFacts
<1>2. ServiceNext /\ ServiceInv' /\ RefreshInv'
  BY ServiceLedger DEF ServiceNext, Synchronize
<1>3. \A k \in Job : jobs'[k].state \in {"queued", "blocked", "absent"}
  BY SyncRows, LedgerFacts
<1>4. LiveActive' /\ AdmittedWork'
  BY <1>3 DEF LiveActive, AdmittedWork, Live, LiveStates
<1>5. SeenFits'
  BY DEF SeenFits
<1>. QED  BY <1>1, <1>2, <1>4, <1>5 DEF Ledger

-----------------------------------------------------------------------------
(* The workers and their directories.                                      *)

Beats == {"off", "on", "failed"}
Leases == [job : Job, generation : 1 .. MaxGeneration]

LEMMA LeaseFacts ==
    ASSUME Hands, NEW w \in Worker
    PROVE  /\ Holds(w) => /\ lease[w] \in Leases
                          /\ JobOf(w) \in Job /\ GenerationOf(w) \in 1 .. MaxGeneration
                          /\ GenerationOf(w) \in Nat
                          /\ DirectoryOf(w) \in Directory
                          /\ pc[w] \in Steps \ Idling
           /\ ~Holds(w) => pc[w] \in Idling
           /\ \A v \in Worker : /\ Holds(v) /\ Holds(w) /\ v # w
                                /\ JobOf(v) = JobOf(w)
                                => GenerationOf(v) # GenerationOf(w)
<1>1. MaxGeneration \in Nat
  BY JobAssumption
<1>2. WorkerTypeOK /\ HandsApart
  BY DEF Hands
<1>3. ASSUME Holds(w)
      PROVE  /\ lease[w] \in Leases
             /\ JobOf(w) \in Job /\ GenerationOf(w) \in 1 .. MaxGeneration
             /\ GenerationOf(w) \in Nat
             /\ DirectoryOf(w) \in Directory
             /\ pc[w] \in Steps \ Idling
  <2>1. lease[w] \in Leases
    BY <1>2, <1>3 DEF WorkerTypeOK, Holds, Leases
  <2>2. JobOf(w) \in Job /\ GenerationOf(w) \in 1 .. MaxGeneration
    BY <2>1 DEF Leases, JobOf, GenerationOf
  <2>3. DirectoryOf(w) \in Directory
    BY <1>2, <2>2 DEF WorkerTypeOK, DirectoryOf
  <2>4. pc[w] \in Steps \ Idling
    BY <1>2, <1>3 DEF WorkerTypeOK, Holds, Idling
  <2>. QED  BY <1>1, <2>1, <2>2, <2>3, <2>4
<1>4. ~Holds(w) => pc[w] \in Idling
  BY <1>2 DEF WorkerTypeOK, Holds, Idling
<1>5. ASSUME NEW v \in Worker, Holds(v), Holds(w), v # w, JobOf(v) = JobOf(w)
      PROVE  GenerationOf(v) # GenerationOf(w)
  <2>1. lease[v] \in Leases /\ lease[w] \in Leases
    BY <1>2, <1>5 DEF WorkerTypeOK, Holds, Leases
  <2>. QED  BY <1>2, <1>5, <2>1 DEF HandsApart, JobOf, GenerationOf, Leases
<1>. QED  BY <1>3, <1>4, <1>5

\* A worker that keeps its lease, and writes its own directory only.
LEMMA TurnHands ==
    ASSUME Hands, Inv, RowsRest, NEW w \in Worker, Holds(w),
           NEW step \in Steps \ Idling, NEW d \in Directory,
           Goto(w, step), SetDirectory(w, d), UNCHANGED <<seen, lease>>,
           faults' \in 0 .. MaxFaults,
           beat' \in [Worker -> Beats], \A v \in Worker : beat'[v] # "off" => Holds(v),
           DirectoryAt(step, d), DirectoryOf(w) = "durable" => d = "durable"
    PROVE  Hands'
<1>1. /\ WorkerTypeOK /\ HandsFit /\ HandsApart /\ NoneAhead /\ Published
      /\ RowsKeep /\ NoSuccess
  BY DEF Hands, RowsRest
<1>2. \A j \in Job : jobs[j].generation \in Nat /\ jobs'[j].generation \in Nat
  BY DEF Inv, TypeOK, JobRows, RowsRest
<1>3. /\ JobOf(w) \in Job /\ GenerationOf(w) \in 1 .. MaxGeneration
      /\ GenerationOf(w) <= jobs[JobOf(w)].generation /\ GenerationOf(w) \in Nat
  BY <1>1, LeaseFacts DEF HandsFit
<1>4. /\ disk' \in [Job -> [1 .. MaxGeneration -> Directory]]
      /\ disk'[JobOf(w)][GenerationOf(w)] = d
      /\ \A j \in Job : \A g \in 1 .. MaxGeneration :
            j # JobOf(w) \/ g # GenerationOf(w) => disk'[j][g] = disk[j][g]
  BY <1>1, <1>3 DEF WorkerTypeOK, SetDirectory
<1>5. /\ pc' \in [Worker -> Steps] /\ pc'[w] = step
      /\ \A v \in Worker \ {w} : pc'[v] = pc[v]
      /\ lease' = lease /\ seen' = seen
  BY <1>1 DEF WorkerTypeOK, Goto
<1>6. WorkerTypeOK'
  BY <1>1, <1>4, <1>5 DEF WorkerTypeOK, Beats, Idling, Holds
<1>7. HandsFit'
  <2>. SUFFICES ASSUME NEW v \in Worker
                PROVE  /\ Holds(v) => /\ GenerationOf(v) <= jobs'[JobOf(v)].generation
                                      /\ DirectoryAt(pc'[v], disk'[JobOf(v)][GenerationOf(v)])
                       /\ beat'[v] # "off" => Holds(v)
    BY <1>5 DEF HandsFit, Holds, JobOf, GenerationOf, DirectoryOf
  <2>1. ASSUME Holds(v)
        PROVE  /\ GenerationOf(v) <= jobs'[JobOf(v)].generation
               /\ DirectoryAt(pc'[v], disk'[JobOf(v)][GenerationOf(v)])
    <3>1. /\ JobOf(v) \in Job /\ GenerationOf(v) \in 1 .. MaxGeneration
          /\ GenerationOf(v) \in Nat
          /\ GenerationOf(v) <= jobs[JobOf(v)].generation
          /\ DirectoryAt(pc[v], DirectoryOf(v))
      BY <1>1, <2>1, LeaseFacts DEF HandsFit
    <3>2. GenerationOf(v) <= jobs'[JobOf(v)].generation
      BY <1>1, <1>2, <3>1 DEF RowsKeep
    <3>3. CASE v = w
      BY <1>4, <1>5, <3>2, <3>3
    <3>4. CASE v # w
      <4>1. JobOf(v) # JobOf(w) \/ GenerationOf(v) # GenerationOf(w)
        BY <2>1, <3>4, LeaseFacts
      <4>2. disk'[JobOf(v)][GenerationOf(v)] = DirectoryOf(v)
        BY <1>4, <3>1, <4>1 DEF DirectoryOf
      <4>. QED  BY <1>5, <3>1, <3>2, <3>4, <4>2
    <3>. QED  BY <3>3, <3>4
  <2>. QED  BY <2>1
<1>8. HandsApart'
  BY <1>1, <1>5 DEF HandsApart, Holds
<1>9. NoneAhead'
  <2>. SUFFICES ASSUME NEW j \in Job, NEW g \in 1 .. MaxGeneration, g > jobs'[j].generation
                PROVE  disk'[j][g] = "none"
    BY DEF NoneAhead
  <2>1. g > jobs[j].generation
    BY <1>1, <1>2 DEF RowsKeep
  <2>2. j # JobOf(w) \/ g # GenerationOf(w)
    BY <1>2, <1>3, <2>1
  <2>. QED  BY <1>1, <1>4, <2>1, <2>2 DEF NoneAhead
<1>10. Published'
  <2>. SUFFICES ASSUME NEW j \in Job, jobs'[j].state = "complete"
                PROVE  /\ jobs'[j].generation \in 1 .. MaxGeneration
                       /\ disk'[j][jobs'[j].generation] = "durable"
    BY DEF Published
  <2>1. /\ jobs[j].state = "complete" /\ jobs'[j].generation = jobs[j].generation
        /\ jobs[j].generation \in 1 .. MaxGeneration
        /\ disk[j][jobs[j].generation] = "durable"
    BY <1>1 DEF NoSuccess, RowsKeep, Published
  <2>2. CASE j = JobOf(w) /\ jobs[j].generation = GenerationOf(w)
    BY <1>4, <2>1, <2>2 DEF DirectoryOf
  <2>3. CASE j # JobOf(w) \/ jobs[j].generation # GenerationOf(w)
    BY <1>4, <2>1, <2>3
  <2>. QED  BY <2>2, <2>3
<1>. QED  BY <1>6, <1>7, <1>8, <1>9, <1>10 DEF Hands

\* A step that moves no lease and no directory: the ledger's, or a worker's
\* between two executions.
LEMMA RestHands ==
    ASSUME Hands, Inv, RowsRest, UNCHANGED <<lease, beat, disk>>, faults' \in 0 .. MaxFaults,
           seen' \in [Worker -> SUBSET Batch], pc' \in [Worker -> Steps],
           \A v \in Worker : pc'[v] = pc[v] \/ {pc[v], pc'[v]} \subseteq Idling
    PROVE  Hands'
<1>1. /\ WorkerTypeOK /\ HandsFit /\ HandsApart /\ NoneAhead /\ Published
      /\ RowsKeep /\ NoSuccess
  BY DEF Hands, RowsRest
<1>2. \A j \in Job : jobs[j].generation \in Nat /\ jobs'[j].generation \in Nat
  BY DEF Inv, TypeOK, JobRows, RowsRest
<1>3. WorkerTypeOK'
  BY <1>1 DEF WorkerTypeOK, Idling
<1>4. HandsFit'
  <2>. SUFFICES ASSUME NEW v \in Worker
                PROVE  /\ Holds(v) => /\ GenerationOf(v) <= jobs'[JobOf(v)].generation
                                      /\ DirectoryAt(pc'[v], DirectoryOf(v))
                       /\ beat[v] # "off" => Holds(v)
    BY DEF HandsFit, Holds, JobOf, GenerationOf, DirectoryOf
  <2>1. ASSUME Holds(v)
        PROVE  /\ GenerationOf(v) <= jobs'[JobOf(v)].generation
               /\ DirectoryAt(pc'[v], DirectoryOf(v))
    <3>1. /\ JobOf(v) \in Job /\ GenerationOf(v) \in Nat
          /\ GenerationOf(v) <= jobs[JobOf(v)].generation
          /\ DirectoryAt(pc[v], DirectoryOf(v)) /\ pc[v] \notin Idling
      BY <1>1, <2>1, LeaseFacts DEF HandsFit
    <3>. QED  BY <1>1, <1>2, <3>1 DEF RowsKeep
  <2>. QED  BY <1>1, <2>1 DEF HandsFit
<1>5. HandsApart'
  BY <1>1 DEF HandsApart, Holds
<1>6. NoneAhead'
  BY <1>1, <1>2 DEF NoneAhead, RowsKeep
<1>7. Published'
  BY <1>1 DEF Published, NoSuccess, RowsKeep
<1>. QED  BY <1>3, <1>4, <1>5, <1>6, <1>7 DEF Hands

\* A worker gives its lease up, after its success or without one.
LEMMA LeaveHands ==
    ASSUME Hands, Inv, Inv', RowsKeep, NEW w \in Worker, NEW step \in Idling,
           LeaveExecution(w, step), faults' \in 0 .. MaxFaults,
           \A j \in Job : jobs'[j].state = "complete" =>
               \/ jobs[j].state = "complete"
               \/ /\ Holds(w) /\ j = JobOf(w) /\ jobs'[j].generation = GenerationOf(w)
                  /\ DirectoryOf(w) = "durable"
    PROVE  Hands'
<1>1. WorkerTypeOK /\ HandsFit /\ HandsApart /\ NoneAhead /\ Published
  BY DEF Hands
<1>2. \A j \in Job : jobs[j].generation \in Nat /\ jobs'[j].generation \in Nat
  BY DEF Inv, TypeOK, JobRows
<1>3. /\ pc' = [pc EXCEPT ![w] = step]
      /\ lease' = [lease EXCEPT ![w] = NoLease]
      /\ beat' = [beat EXCEPT ![w] = "off"]
      /\ seen' = seen /\ disk' = disk
  BY DEF LeaveExecution, Goto
<1>4. WorkerTypeOK'
  BY <1>1, <1>3 DEF WorkerTypeOK, Idling, Steps
<1>5. /\ ~Holds(w)' /\ beat'[w] = "off"
      /\ \A v \in Worker \ {w} : lease'[v] = lease[v] /\ pc'[v] = pc[v] /\ beat'[v] = beat[v]
  BY <1>1, <1>3 DEF WorkerTypeOK, Holds
<1>6. HandsFit'
  <2>. SUFFICES ASSUME NEW v \in Worker
                PROVE  /\ Holds(v)' => /\ GenerationOf(v)' <= jobs'[JobOf(v)'].generation
                                       /\ DirectoryAt(pc'[v], DirectoryOf(v)')
                       /\ beat'[v] # "off" => Holds(v)'
    BY DEF HandsFit, DirectoryAt
  <2>1. CASE v = w
    BY <1>5, <2>1
  <2>2. CASE v # w
    <3>1. /\ Holds(v)' = Holds(v) /\ JobOf(v)' = JobOf(v)
          /\ GenerationOf(v)' = GenerationOf(v) /\ DirectoryOf(v)' = DirectoryOf(v)
          /\ pc'[v] = pc[v] /\ beat'[v] = beat[v]
      BY <1>3, <1>5, <2>2 DEF Holds, JobOf, GenerationOf, DirectoryOf
    <3>2. ASSUME Holds(v)
          PROVE  /\ GenerationOf(v) <= jobs'[JobOf(v)].generation
                 /\ DirectoryAt(pc[v], DirectoryOf(v))
      <4>1. /\ JobOf(v) \in Job /\ GenerationOf(v) \in Nat
            /\ GenerationOf(v) <= jobs[JobOf(v)].generation
            /\ DirectoryAt(pc[v], DirectoryOf(v))
        BY <1>1, <3>2, LeaseFacts DEF HandsFit
      <4>. QED  BY <1>2, <4>1 DEF RowsKeep
    <3>. QED  BY <1>1, <3>1, <3>2 DEF HandsFit
  <2>. QED  BY <2>1, <2>2
<1>7. HandsApart'
  <2>. SUFFICES ASSUME NEW u \in Worker, NEW v \in Worker, Holds(u)', lease'[u] = lease'[v]
                PROVE  u = v
    BY DEF HandsApart
  <2>. QED  BY <1>1, <1>5 DEF HandsApart, Holds
<1>8. NoneAhead'
  BY <1>1, <1>2, <1>3 DEF NoneAhead, RowsKeep
<1>9. Published'
  <2>. SUFFICES ASSUME NEW j \in Job, jobs'[j].state = "complete"
                PROVE  /\ jobs'[j].generation \in 1 .. MaxGeneration
                       /\ disk[j][jobs'[j].generation] = "durable"
    BY <1>3 DEF Published
  <2>1. CASE jobs[j].state = "complete"
    BY <1>1, <2>1 DEF RowsKeep, Published
  <2>2. CASE /\ Holds(w) /\ j = JobOf(w) /\ jobs'[j].generation = GenerationOf(w)
             /\ DirectoryOf(w) = "durable"
    BY <2>2, LeaseFacts DEF DirectoryOf
  <2>. QED  BY <2>1, <2>2
<1>. QED  BY <1>4, <1>6, <1>7, <1>8, <1>9 DEF Hands

\* A claim's generation is above every lease and every directory of its job.
LEMMA TakeHands ==
    ASSUME Hands, Inv, RowsRest, NEW w \in Worker, NEW j \in Job, pc[w] = "claim",
           jobs'[j].generation = jobs[j].generation + 1,
           jobs'[j].generation \in 1 .. MaxGeneration, jobs'[j].state # "complete",
           lease' = [lease EXCEPT ![w] = [job |-> j, generation |-> jobs'[j].generation]],
           Goto(w, "staging"), UNCHANGED <<seen, beat, disk, faults>>
    PROVE  Hands'
<1>. DEFINE g == jobs'[j].generation
            l == [job |-> j, generation |-> g]
<1>1. /\ WorkerTypeOK /\ HandsFit /\ HandsApart /\ NoneAhead /\ Published
      /\ RowsKeep /\ NoSuccess
  BY DEF Hands, RowsRest
<1>2. \A k \in Job : jobs[k].generation \in Nat /\ jobs'[k].generation \in Nat
  BY DEF Inv, TypeOK, JobRows, RowsRest
<1>3. l \in Leases /\ l # NoLease /\ l.job = j /\ l.generation = g
  <2>1. l \in [job : Job, generation : Nat]
    BY <1>2
  <2>. QED  BY <2>1, WorkerAssumption DEF Leases
<1>4. /\ pc' = [pc EXCEPT ![w] = "staging"]
      /\ lease'[w] = l /\ \A v \in Worker \ {w} : lease'[v] = lease[v] /\ pc'[v] = pc[v]
      /\ pc'[w] = "staging" /\ ~Holds(w) /\ beat[w] = "off"
  <2>1. ~Holds(w)
    BY <1>1 DEF WorkerTypeOK, Holds
  <2>. QED  BY <1>1, <2>1 DEF WorkerTypeOK, Goto, HandsFit
<1>. HIDE DEF l
<1>5. WorkerTypeOK'
  BY <1>1, <1>3, <1>4 DEF WorkerTypeOK, Steps, Leases, l, g
<1>6. HandsFit'
  <2>. SUFFICES ASSUME NEW v \in Worker
                PROVE  /\ Holds(v)' => /\ GenerationOf(v)' <= jobs'[JobOf(v)'].generation
                                       /\ DirectoryAt(pc'[v], DirectoryOf(v)')
                       /\ beat[v] # "off" => Holds(v)'
    BY DEF HandsFit, DirectoryAt
  <2>1. CASE v = w
    <3>1. JobOf(v)' = j /\ GenerationOf(v)' = g /\ DirectoryOf(v)' = disk[j][g]
      BY <1>3, <1>4, <2>1 DEF JobOf, GenerationOf, DirectoryOf
    <3>2. disk[j][g] = "none"
      BY <1>1, <1>2 DEF NoneAhead
    <3>. QED  BY <1>2, <1>4, <2>1, <3>1, <3>2 DEF DirectoryAt
  <2>2. CASE v # w
    <3>1. /\ Holds(v)' = Holds(v) /\ JobOf(v)' = JobOf(v)
          /\ GenerationOf(v)' = GenerationOf(v) /\ DirectoryOf(v)' = DirectoryOf(v)
          /\ pc'[v] = pc[v]
      BY <1>4, <2>2 DEF Holds, JobOf, GenerationOf, DirectoryOf
    <3>2. ASSUME Holds(v)
          PROVE  /\ GenerationOf(v) <= jobs'[JobOf(v)].generation
                 /\ DirectoryAt(pc[v], DirectoryOf(v))
      <4>1. /\ JobOf(v) \in Job /\ GenerationOf(v) \in Nat
            /\ GenerationOf(v) <= jobs[JobOf(v)].generation
            /\ DirectoryAt(pc[v], DirectoryOf(v))
        BY <1>1, <3>2, LeaseFacts DEF HandsFit
      <4>. QED  BY <1>1, <1>2, <4>1 DEF RowsKeep
    <3>. QED  BY <1>1, <3>1, <3>2 DEF HandsFit
  <2>. QED  BY <2>1, <2>2
<1>7. HandsApart'
  <2>1. ASSUME NEW v \in Worker \ {w}, Holds(v) PROVE lease[v] # l
    <3>1. GenerationOf(v) <= jobs[JobOf(v)].generation
      BY <1>1, <2>1 DEF HandsFit
    <3>. QED  BY <1>2, <1>3, <3>1 DEF JobOf, GenerationOf
  <2>. SUFFICES ASSUME NEW u \in Worker, NEW v \in Worker, Holds(u)', lease'[u] = lease'[v]
                PROVE  u = v
    BY DEF HandsApart
  <2>. QED  BY <1>1, <1>3, <1>4, <2>1 DEF HandsApart, Holds
<1>8. NoneAhead'
  BY <1>1, <1>2 DEF NoneAhead, RowsKeep
<1>9. Published'
  BY <1>1 DEF Published, NoSuccess, RowsKeep
<1>. QED  BY <1>5, <1>6, <1>7, <1>8, <1>9 DEF Hands

\* After a power loss nobody holds a lease, and what was durable still is.
LEMMA PowerHands ==
    ASSUME Hands, PowerLoss PROVE Hands'
<1>1. WorkerTypeOK /\ HandsFit /\ HandsApart /\ NoneAhead /\ Published
  BY DEF Hands
<1>2. /\ pc' = [w \in Worker |-> "down"]
      /\ lease' = [w \in Worker |-> NoLease]
      /\ beat' = [w \in Worker |-> "off"]
      /\ seen' = seen /\ jobs' = jobs /\ faults' = faults + 1 /\ faults < MaxFaults
  BY DEF PowerLoss, vars
<1>3. PICK lost \in BOOLEAN :
          disk' = [j \in Job |-> [g \in 1..MaxGeneration |->
                      IF disk[j][g] = "renamed" /\ lost THEN "synced" ELSE disk[j][g]]]
  BY DEF PowerLoss
<1>4. \A j \in Job : \A g \in 1 .. MaxGeneration :
          /\ disk'[j][g] \in Directory
          /\ disk[j][g] \in {"none", "durable"} => disk'[j][g] = disk[j][g]
  BY <1>1, <1>3 DEF WorkerTypeOK, Directory
<1>5. WorkerTypeOK'
  <2>1. disk' \in [Job -> [1 .. MaxGeneration -> Directory]]
    BY <1>3, <1>4
  <2>2. faults' \in 0 .. MaxFaults
    BY <1>1, <1>2, WorkerAssumption DEF WorkerTypeOK
  <2>. QED  BY <1>1, <1>2, <2>1, <2>2 DEF WorkerTypeOK, Steps
<1>6. HandsFit' /\ HandsApart'
  BY <1>2 DEF HandsFit, HandsApart, Holds
<1>7. NoneAhead'
  BY <1>1, <1>2, <1>4 DEF NoneAhead
<1>8. Published'
  BY <1>1, <1>2, <1>4 DEF Published
<1>. QED  BY <1>5, <1>6, <1>7, <1>8 DEF Hands

-----------------------------------------------------------------------------
(* The steps of a worker.                                                  *)

\* A step of the workers keeps their invariant, and is one of an unattended
\* queue.
Served == WorkerInv' /\ [ServiceNext]_vars

\* What every operation of a worker leaves as it is, or counts.
FaultsFit == faults' \in 0 .. MaxFaults

LEMMA FaultLemma ==
    ASSUME Hands
    PROVE  /\ UNCHANGED faults => FaultsFit
           /\ faults < MaxFaults /\ faults' = faults + 1 => FaultsFit
BY WorkerAssumption DEF Hands, WorkerTypeOK, FaultsFit

LEMMA QuietLedger ==
    ASSUME WorkerInv, Quietly
    PROVE  Ledger' /\ Inv /\ RowsRest /\ (UNCHANGED seen => SeenFits')
<1>1. Ledger' /\ Inv /\ Inv'
  BY CalmLedger, LedgerFacts DEF WorkerInv, Quietly, Ledger, ServiceInv
<1>2. UNCHANGED seen => SeenFits'
  BY SeenStep DEF WorkerInv, Quietly, Hands, WorkerTypeOK
<1>. QED  BY <1>1, <1>2 DEF Quietly, Calm, RowsRest

LEMMA TurnStep ==
    ASSUME WorkerInv, Quietly, NEW w \in Worker, Holds(w),
           NEW step \in Steps \ Idling, NEW d \in Directory,
           Goto(w, step), SetDirectory(w, d), UNCHANGED <<seen, lease>>, FaultsFit,
           beat' \in [Worker -> Beats], \A v \in Worker : beat'[v] # "off" => Holds(v),
           DirectoryAt(step, d), DirectoryOf(w) = "durable" => d = "durable"
    PROVE  Served
<1>1. Ledger' /\ Inv /\ RowsRest /\ SeenFits' /\ Hands
  BY QuietLedger DEF WorkerInv
<1>2. Hands'
  BY <1>1, TurnHands DEF FaultsFit
<1>. QED  BY <1>1, <1>2 DEF WorkerInv, Served, Quietly, Calm

\* A worker goes on, and its directory stays.
LEMMA PassStep ==
    ASSUME WorkerInv, Quietly, NEW w \in Worker, Holds(w),
           NEW step \in Steps \ Idling,
           Goto(w, step), UNCHANGED <<seen, lease, beat, disk>>, FaultsFit,
           DirectoryAt(step, DirectoryOf(w))
    PROVE  Served
<1>1. Hands
  BY DEF WorkerInv
<1>2. DirectoryOf(w) \in Directory /\ JobOf(w) \in Job /\ GenerationOf(w) \in 1 .. MaxGeneration
  BY <1>1, LeaseFacts
<1>3. SetDirectory(w, DirectoryOf(w))
  BY <1>1, <1>2 DEF Hands, WorkerTypeOK, SetDirectory, DirectoryOf
<1>4. beat' \in [Worker -> Beats] /\ \A v \in Worker : beat'[v] # "off" => Holds(v)
  BY <1>1 DEF Hands, WorkerTypeOK, HandsFit, Beats
<1>. QED  BY <1>2, <1>3, <1>4, TurnStep

\* A worker between two executions, or the ledger alone.
LEMMA LoopStep ==
    ASSUME WorkerInv, Quietly, UNCHANGED <<lease, beat, disk>>, FaultsFit,
           order = <<>> => UNCHANGED seen,
           seen' \in [Worker -> SUBSET Batch], pc' \in [Worker -> Steps],
           \A w \in Worker : seen'[w] \subseteq seen[w] \cup {primary', lookahead'},
           \A w \in Worker : pc'[w] = pc[w] \/ {pc[w], pc'[w]} \subseteq Idling
    PROVE  Served
<1>1. Ledger' /\ Inv /\ RowsRest
  BY QuietLedger
<1>2. SeenFits'
  BY SeenStep DEF WorkerInv, Quietly, Hands, WorkerTypeOK
<1>3. Hands'
  BY <1>1, RestHands DEF WorkerInv, FaultsFit
<1>. QED  BY <1>1, <1>2, <1>3 DEF WorkerInv, Served, Quietly, Calm

\* A worker ends its execution, with nothing completed.
LEMMA LeaveStep ==
    ASSUME WorkerInv, Quietly, NEW w \in Worker, NEW step \in Idling,
           LeaveExecution(w, step), FaultsFit
    PROVE  Served
<1>1. Ledger' /\ Inv /\ RowsRest /\ SeenFits'
  BY QuietLedger DEF LeaveExecution
<1>2. Hands'
  BY <1>1, LeaveHands DEF WorkerInv, FaultsFit, RowsRest, NoSuccess
<1>. QED  BY <1>1, <1>2 DEF WorkerInv, Served, Quietly, Calm

\* The lease that a worker presents.
LEMMA HeldFacts ==
    ASSUME WorkerInv, NEW w \in Worker, pc[w] \notin Idling
    PROVE  /\ Holds(w) /\ JobOf(w) \in Job /\ GenerationOf(w) \in Nat
           /\ DirectoryOf(w) \in Directory /\ pc[w] \in Steps
           /\ DirectoryAt(pc[w], DirectoryOf(w))
<1>1. Hands /\ Holds(w)
  BY LeaseFacts DEF WorkerInv
<1>. QED  BY <1>1, LeaseFacts DEF Hands, HandsFit

\* The calls of an execution that change its row in the ledger.
LEMMA StageSteps ==
    ASSUME WorkerInv, NEW w \in Worker,
           \/ BeginPublication(w) \/ RenewToPublish(w) \/ EndPublication(w) \/ RecordBroken(w)
    PROVE  Served
<1>. DEFINE j == JobOf(w)
            g == GenerationOf(w)
<1>1. /\ pc[w] \in {"publish", "renew", "ended", "broken", "cut"}
      /\ UNCHANGED <<seen, lease, beat, disk, faults>>
      /\ \/ Renew(j, g)
         \/ RecordStarted(j, g, Publication)
         \/ \E status \in {"completed", "failed"} : RecordEnded(j, g, Publication, status)
  BY DEF BeginPublication, RenewToPublish, EndPublication, RecordBroken
<1>2. /\ Holds(w) /\ j \in Job /\ g \in Nat /\ DirectoryAt(pc[w], DirectoryOf(w))
  BY <1>1, HeldFacts DEF Idling
<1>3. Quietly
  BY <1>1, <1>2, ReportsQuiet DEF WorkerInv
<1>4. FaultsFit
  BY <1>1, FaultLemma DEF WorkerInv
<1>5. PICK step \in Steps \ Idling : Goto(w, step) /\ DirectoryAt(step, DirectoryOf(w))
  <2>1. CASE BeginPublication(w)
    BY <1>2, <2>1 DEF BeginPublication, DirectoryAt, Steps, Guarded, Idling
  <2>2. CASE RenewToPublish(w)
    BY <1>2, <2>2 DEF RenewToPublish, DirectoryAt, Steps, Guarded, Idling
  <2>3. CASE EndPublication(w)
    BY <1>2, <2>3 DEF EndPublication, DirectoryAt, Steps, Guarded, Idling
  <2>4. CASE RecordBroken(w)
    BY <1>2, <2>4 DEF RecordBroken, DirectoryAt, Steps, Guarded, Idling
  <2>. QED  BY <2>1, <2>2, <2>3, <2>4
<1>. QED  BY <1>1, <1>2, <1>3, <1>4, <1>5, PassStep

\* What a worker does without a call: the build, what is refused to it, what
\* breaks and what interrupts it.
LEMMA LocalSteps ==
    ASSUME WorkerInv, NEW w \in Worker,
           Build(w) \/ Refused(w) \/ Breaks(w) \/ Interrupted(w)
    PROVE  Served
<1>1. /\ pc[w] \in Steps \ Idling
      /\ UNCHANGED vars /\ UNCHANGED <<seen, lease, beat, disk>>
      /\ UNCHANGED faults \/ (faults < MaxFaults /\ faults' = faults + 1)
  BY DEF Build, Refused, Breaks, RunBreaks, ResultRefused, SealRefused, PublishBreaks, FailsAt,
         Interrupted, Steps, Guarded, Idling
<1>2. Holds(w) /\ DirectoryAt(pc[w], DirectoryOf(w))
  BY <1>1, HeldFacts
<1>3. Quietly
  BY <1>1, StutterQuiet DEF WorkerInv
<1>4. FaultsFit
  BY <1>1, FaultLemma DEF WorkerInv
<1>5. PICK step \in Steps \ Idling : Goto(w, step) /\ DirectoryAt(step, DirectoryOf(w))
  <2>1. CASE Build(w)
    BY <1>2, <2>1 DEF Build, DirectoryAt, Steps, Guarded, Idling
  <2>2. CASE Refused(w)
    BY <2>2 DEF Refused, DirectoryAt, Steps, Guarded, Idling
  <2>3. CASE Breaks(w)
    BY <2>3 DEF Breaks, RunBreaks, ResultRefused, SealRefused, PublishBreaks, FailsAt,
                DirectoryAt, Steps, Guarded, Idling
  <2>4. CASE Interrupted(w)
    BY <2>4 DEF Interrupted, DirectoryAt, Steps, Guarded, Idling
  <2>. QED  BY <2>1, <2>2, <2>3, <2>4
<1>. QED  BY <1>1, <1>2, <1>3, <1>4, <1>5, PassStep

\* _durably_publish.
LEMMA PublishSteps ==
    ASSUME WorkerInv, NEW w \in Worker, Flush(w) \/ Rename(w) \/ FlushNames(w)
    PROVE  Served
<1>1. /\ pc[w] \in {"flush", "rename", "names"}
      /\ UNCHANGED vars /\ UNCHANGED <<seen, lease, beat, faults>>
  BY DEF Flush, Rename, FlushNames
<1>2. Holds(w) /\ DirectoryAt(pc[w], DirectoryOf(w))
  BY <1>1, HeldFacts DEF Idling
<1>3. Quietly
  BY <1>1, StutterQuiet DEF WorkerInv
<1>4. FaultsFit
  BY <1>1, FaultLemma DEF WorkerInv
<1>5. beat' \in [Worker -> Beats] /\ \A v \in Worker : beat'[v] # "off" => Holds(v)
  BY <1>1 DEF WorkerInv, Hands, WorkerTypeOK, HandsFit, Beats
<1>6. PICK step \in Steps \ Idling, d \in Directory :
          /\ Goto(w, step) /\ SetDirectory(w, d) /\ DirectoryAt(step, d)
          /\ DirectoryOf(w) = "durable" => d = "durable"
  <2>1. CASE Flush(w)
    BY <1>2, <2>1 DEF Flush, DirectoryAt, Directory, Steps, Guarded, Idling
  <2>2. CASE Rename(w)
    BY <1>2, <2>2 DEF Rename, DirectoryAt, Directory, Steps, Guarded, Idling
  <2>3. CASE FlushNames(w)
    BY <2>3 DEF FlushNames, DirectoryAt, Directory, Steps, Guarded, Idling
  <2>. QED  BY <1>1, <2>1, <2>2, <2>3
<1>. QED  BY <1>1, <1>2, <1>3, <1>4, <1>5, <1>6, TurnStep

\* _staging_root finds no directory of the generation.
LEMMA StagingStep ==
    ASSUME WorkerInv, NEW w \in Worker, MakeStaging(w) PROVE Served
<1>1. pc[w] = "staging" /\ UNCHANGED vars /\ UNCHANGED faults
  BY DEF MakeStaging
<1>2. Holds(w) /\ DirectoryOf(w) = "none"
  BY <1>1, HeldFacts DEF Idling, DirectoryAt
<1>3. /\ SetDirectory(w, "staged") /\ Goto(w, "build")
      /\ beat' = [beat EXCEPT ![w] = "on"] /\ UNCHANGED <<seen, lease>>
  BY <1>2 DEF MakeStaging
<1>4. Quietly
  BY <1>1, StutterQuiet DEF WorkerInv
<1>5. FaultsFit
  BY <1>1, FaultLemma DEF WorkerInv
<1>6. beat' \in [Worker -> Beats] /\ \A v \in Worker : beat'[v] # "off" => Holds(v)
  BY <1>2, <1>3 DEF WorkerInv, Hands, WorkerTypeOK, HandsFit, Beats
<1>. QED  BY <1>2, <1>3, <1>4, <1>5, <1>6, TurnStep
          DEF DirectoryAt, Directory, Steps, Guarded, Idling

\* The heartbeat thread.
LEMMA BeatSteps ==
    ASSUME WorkerInv, NEW w \in Worker, Beat(w) \/ BeatFails(w) PROVE Served
<1>1. Hands /\ Ledger
  BY DEF WorkerInv
<1>2. beat[w] = "on" /\ UNCHANGED <<pc, seen, lease, disk>>
  BY DEF Beat, BeatFails, worker
<1>3. Holds(w) /\ JobOf(w) \in Job /\ GenerationOf(w) \in Nat /\ DirectoryOf(w) \in Directory
  BY <1>1, <1>2, LeaseFacts DEF Hands, HandsFit
<1>4. Quietly
  BY <1>1, <1>3, StutterQuiet, ReportsQuiet DEF Beat, BeatFails
<1>5. FaultsFit
  BY <1>1, FaultLemma DEF Beat, BeatFails
<1>6. beat' \in [Worker -> Beats] /\ \A v \in Worker : beat'[v] # "off" => Holds(v)
  BY <1>1, <1>3 DEF Beat, BeatFails, worker, Hands, WorkerTypeOK, HandsFit, Beats
<1>7. /\ pc[w] \in Steps \ Idling /\ DirectoryAt(pc[w], DirectoryOf(w))
      /\ Goto(w, pc[w]) /\ SetDirectory(w, DirectoryOf(w))
  BY <1>1, <1>2, <1>3, LeaseFacts
     DEF Hands, HandsFit, WorkerTypeOK, Goto, SetDirectory, DirectoryOf
<1>. QED  BY <1>2, <1>3, <1>4, <1>5, <1>6, <1>7, TurnStep

\* A failure or an interrupt is reported, or the lease was lost; or the worker
\* is killed wherever it is.
LEMMA EndSteps ==
    ASSUME WorkerInv, NEW w \in Worker, ReportFailure(w) \/ ReportInterrupt(w) \/ Kill(w)
    PROVE  Served
<1>1. PICK step \in Idling : LeaveExecution(w, step)
  BY DEF ReportFailure, ReportInterrupt, Kill, Idling
<1>2. FaultsFit
  BY FaultLemma DEF WorkerInv, ReportFailure, ReportInterrupt, Kill
<1>3. Quietly
  <2>1. CASE UNCHANGED vars
    BY <2>1, StutterQuiet DEF WorkerInv
  <2>2. CASE /\ pc[w] \notin Idling
             /\ \E retryable, pathological \in BOOLEAN :
                   Fail(JobOf(w), GenerationOf(w), retryable, pathological, NoClass)
    BY <2>2, HeldFacts, ReportsQuiet DEF WorkerInv
  <2>. QED  BY <2>1, <2>2 DEF ReportFailure, ReportInterrupt, Kill, Idling
<1>. QED  BY <1>1, <1>2, <1>3, LeaveStep

\* complete is called when the directory is durable.
LEMMA ReportStep ==
    ASSUME WorkerInv, NEW w \in Worker, Report(w) PROVE Served
<1>. DEFINE j == JobOf(w)
            g == GenerationOf(w)
<1>1. pc[w] = "report" /\ Complete(j, g) /\ LeaveExecution(w, "finish") /\ UNCHANGED faults
  BY DEF Report
<1>2. Holds(w) /\ j \in Job /\ g \in Nat /\ DirectoryOf(w) = "durable"
  BY <1>1, HeldFacts DEF Idling, DirectoryAt
<1>3. /\ Calm /\ jobs'[j].generation = g
      /\ \A k \in Job \ {j} : jobs'[k].state = "complete" => jobs[k].state = "complete"
  BY <1>1, <1>2, CompleteCalm DEF WorkerInv
<1>4. Ledger' /\ Inv /\ Inv'
  BY <1>3, CalmLedger, LedgerFacts DEF WorkerInv, Ledger, ServiceInv
<1>5. SeenFits'
  BY <1>1, <1>3, SeenStep DEF WorkerInv, Hands, WorkerTypeOK, LeaveExecution
<1>6. FaultsFit
  BY <1>1, FaultLemma DEF WorkerInv
<1>7. Hands'
  BY <1>1, <1>2, <1>3, <1>4, <1>6, LeaveHands DEF WorkerInv, Calm, FaultsFit, Idling
<1>. QED  BY <1>3, <1>4, <1>5, <1>7 DEF WorkerInv, Served, Calm

LEMMA PowerStep ==
    ASSUME WorkerInv, PowerLoss PROVE Served
<1>1. Quietly /\ UNCHANGED seen
  BY StutterQuiet DEF WorkerInv, PowerLoss
<1>2. Ledger' /\ SeenFits'
  BY <1>1, QuietLedger
<1>. QED  BY <1>1, <1>2, PowerHands DEF WorkerInv, Served, Quietly, Calm

\* The blocks that the ledger admits are those of a queue.
LEMMA BlocksTyped ==
    ASSUME WorkerInv, Quietly
    PROVE  /\ {primary', lookahead'} \subseteq Batch \cup {NoBatch}
           /\ primary # NoBatch => order # <<>>
<1>1. Inv'
  BY QuietLedger DEF RowsRest
<1>2. NothingYet
  BY LedgerFacts DEF WorkerInv
<1>. QED  BY <1>1, <1>2 DEF Inv, TypeOK, NothingYet

\* The loop of _run_worker, up to the claim.
LEMMA LoopSteps ==
    ASSUME WorkerInv, NEW w \in Worker,
           Start(w) \/ Look(w) \/ Open(w) \/ TailFill(w) \/ TakeNothing(w) \/ FinishBlock(w)
    PROVE  Served
<1>1. /\ UNCHANGED <<lease, beat, disk, faults>>
      /\ seen \in [Worker -> SUBSET Batch] /\ pc \in [Worker -> Steps]
      /\ Ledger /\ Hands
  BY DEF WorkerInv, Hands, WorkerTypeOK, Start, Look, Open, TailFill, TakeNothing, FinishBlock
<1>2. FaultsFit
  BY <1>1, FaultLemma
<1>3. /\ pc' \in [Worker -> Steps]
      /\ \A v \in Worker : pc'[v] = pc[v] \/ {pc[v], pc'[v]} \subseteq Idling
  <2>1. \/ pc' = pc
        \/ \E step \in Idling : pc[w] \in Idling /\ Goto(w, step)
    BY DEF Start, Look, Open, TailFill, TakeNothing, FinishBlock, Idling
  <2>. QED  BY <1>1, <2>1 DEF Goto, Idling, Steps
<1>4. Quietly
  <2>1. CASE Start(w) \/ Look(w)
    BY <1>1, <2>1, StutterQuiet DEF Start, Look
  <2>2. CASE Open(w)
    <3>1. BlockStep
      BY <2>2 DEF Open, BlockStep
    <3>. QED  BY <1>1, <3>1, BlockQuiet
  <2>3. CASE TailFill(w)
    <3>1. BlockStep \/ UNCHANGED vars
      BY <2>3 DEF TailFill, BlockStep
    <3>. QED  BY <1>1, <3>1, BlockQuiet, StutterQuiet
  <2>4. CASE TakeNothing(w)
    BY <1>1, <2>4, RecoveryQuiet DEF TakeNothing
  <2>5. CASE FinishBlock(w)
    <3>1. BlockStep \/ UNCHANGED vars
      BY <2>5 DEF FinishBlock, BlockStep
    <3>. QED  BY <1>1, <3>1, BlockQuiet, StutterQuiet
  <2>. QED  BY <2>1, <2>2, <2>3, <2>4, <2>5
<1>5. /\ {primary', lookahead'} \subseteq Batch \cup {NoBatch}
      /\ primary # NoBatch => order # <<>>
  BY <1>4, BlocksTyped
<1>6. /\ seen' \in [Worker -> SUBSET Batch]
      /\ order = <<>> => UNCHANGED seen
      /\ \A v \in Worker : seen'[v] \subseteq seen[v] \cup {primary', lookahead'}
  <2>1. CASE Start(w) \/ TakeNothing(w) \/ FinishBlock(w)
    BY <1>1, <2>1 DEF Start, TakeNothing, FinishBlock
  <2>2. CASE Look(w)
    <3>1. /\ seen' = [seen EXCEPT ![w] = {primary, lookahead} \ {NoBatch}]
          /\ primary' = primary /\ lookahead' = lookahead /\ primary # NoBatch
      BY <2>2 DEF Look, vars, admissions
    <3>. QED  BY <1>1, <1>5, <3>1
  <2>3. CASE Open(w)
    <3>1. PICK b \in Batch, id \in Admission :
              StartNextBlock(b, id, TRUE, TRUE) /\ seen' = [seen EXCEPT ![w] = {b}]
      BY <2>3 DEF Open
    <3>2. primary' = b /\ order # <<>>
      BY <3>1 DEF StartNextBlock, IsNextBlock, ActiveBatches, Range
    <3>. QED  BY <1>1, <3>1, <3>2
  <2>4. CASE TailFill(w)
    <3>1. seen' = [seen EXCEPT ![w] = {primary', lookahead'}] /\ primary # NoBatch
      BY <2>4 DEF TailFill, AdmitLookaheadBlock
    <3>2. primary' # NoBatch /\ lookahead' # NoBatch
      <4>1. CASE UNCHANGED vars
        BY <2>4, <4>1, JobAssumption DEF TailFill, AdmitLookaheadBlock, vars, admissions
      <4>2. ASSUME NEW b \in Batch, AdmitLookaheadBlock(b)
            PROVE  primary' # NoBatch /\ lookahead' # NoBatch
        BY <4>2, JobAssumption DEF AdmitLookaheadBlock
      <4>. QED  BY <2>4, <4>1, <4>2 DEF TailFill
    <3>. QED  BY <1>1, <1>5, <3>1, <3>2
  <2>. QED  BY <2>1, <2>2, <2>3, <2>4
<1>. QED  BY <1>1, <1>2, <1>3, <1>4, <1>6, LoopStep

LEMMA TakeStep ==
    ASSUME WorkerInv, NEW w \in Worker, Take(w) PROVE Served
<1>1. PICK j \in Job :
          /\ Claim(j, seen[w], Job)
          /\ lease' = [lease EXCEPT ![w] = [job |-> j, generation |-> jobs'[j].generation]]
  BY DEF Take
<1>2. pc[w] = "claim" /\ Goto(w, "staging") /\ UNCHANGED <<seen, beat, disk, faults>>
  BY DEF Take
<1>3. Ledger /\ SeenFits /\ Hands /\ seen \in [Worker -> SUBSET Batch] /\ Inv
  BY LedgerFacts DEF WorkerInv, Hands, WorkerTypeOK
<1>4. /\ Ledger' /\ SeenFits' /\ RowsRest /\ ServiceNext
      /\ jobs'[j].generation = jobs[j].generation + 1
      /\ jobs'[j].generation \in 1 .. MaxGeneration
      /\ jobs'[j].state # "complete"
  BY <1>1, <1>2, <1>3, ClaimLedger
<1>5. Hands'
  BY <1>1, <1>2, <1>3, <1>4, TakeHands
<1>. QED  BY <1>4, <1>5 DEF WorkerInv, Served

\* The clock, and the synchronization.
LEMMA QueueSteps ==
    ASSUME WorkerInv, Clock \/ SynchronizeQueue PROVE Served
<1>1. /\ UNCHANGED <<pc, seen, lease, beat, disk, faults>>
      /\ Ledger /\ SeenFits /\ Hands
  BY DEF WorkerInv, Clock, SynchronizeQueue, worker
<1>2. Inv /\ FaultsFit
  BY <1>1, FaultLemma, LedgerFacts
<1>3. Ledger' /\ SeenFits' /\ RowsRest /\ ServiceNext
  <2>1. CASE Clock
    BY <1>1, <2>1, TickQuiet, QuietLedger DEF Clock, WorkerInv, ServiceNext
  <2>2. CASE SynchronizeQueue
    BY <1>1, <2>2, SyncLedger DEF SynchronizeQueue
  <2>. QED  BY <2>1, <2>2
<1>4. Hands'
  BY <1>1, <1>2, <1>3, RestHands DEF FaultsFit, Hands, WorkerTypeOK
<1>. QED  BY <1>3, <1>4 DEF WorkerInv, Served

LEMMA WorkerStutters ==
    ASSUME WorkerInv, UNCHANGED workerVars PROVE Served
<1>1. Quietly /\ Ledger /\ Hands
  BY StutterQuiet DEF WorkerInv, workerVars
<1>2. UNCHANGED <<pc, seen, lease, beat, disk, faults>> /\ FaultsFit
  BY <1>1, FaultLemma DEF workerVars, worker
<1>. QED  BY <1>1, <1>2, LoopStep DEF Hands, WorkerTypeOK

LEMMA WorkerInvStep ==
    ASSUME WorkerInv, [WorkerNext]_workerVars PROVE Served
<1>1. ASSUME NEW w \in Worker, Works(w) PROVE Served
  BY <1>1, LoopSteps, TakeStep, StagingStep, LocalSteps, StageSteps, PublishSteps, ReportStep,
     EndSteps DEF Works
<1>2. ASSUME NEW w \in Worker, Start(w) \/ Beat(w) \/ BeatFails(w) \/ Fault(w)
      PROVE  Served
  BY <1>2, LoopSteps, BeatSteps, LocalSteps, EndSteps DEF Fault
<1>. QED  BY <1>1, <1>2, QueueSteps, PowerStep, WorkerStutters DEF WorkerNext

LEMMA InitWorker == WorkerInit => WorkerInv
<1>. SUFFICES ASSUME WorkerInit PROVE WorkerInv
  OBVIOUS
<1>1. Init /\ \A j \in Job : jobs[j].state = "absent"
  BY DEF WorkerInit, Init, AbsentRow, NewRow
<1>2. Ledger
  BY <1>1, InitService, InitRefresh DEF Ledger, LiveActive, AdmittedWork, Live, LiveStates
<1>3. SeenFits
  BY DEF WorkerInit, SeenFits
<1>4. Hands
  BY <1>1, WorkerAssumption
     DEF WorkerInit, Hands, WorkerTypeOK, HandsFit, HandsApart, NoneAhead, Published, Holds,
         Steps, Directory, DirectoryAt
<1>. QED  BY <1>2, <1>3, <1>4 DEF WorkerInv

LEMMA WorkerFacts ==
    ASSUME WorkerInv PROVE AdmittedWork /\ FreshAttempt /\ ResultDurable /\ WorkerTypeOK
<1>1. FreshAttempt
  <2>. SUFFICES ASSUME NEW w \in Worker, pc[w] = "staging" PROVE DirectoryOf(w) = "none"
    BY DEF FreshAttempt
  <2>. QED  BY HeldFacts DEF Idling, DirectoryAt
<1>. QED  BY <1>1 DEF WorkerInv, Ledger, Hands, Published, ResultDurable

-----------------------------------------------------------------------------
(* Lane databases.  What a compiler has written are the cells that it has  *)
(* ingested, and it is ready when these are what its registry lists; the   *)
(* ledger that it is about to read is the one it checked, or has slipped;  *)
(* a compactor has copied the raw database whose digest it took, or one that *)
(* must go before that digest can be met again.                            *)

\* What a command has read and written, as a record.
RowThere(x) == x \in Occurrences(x.cell) \cup ChangedRows(x.cell)
LaneRow(row) ==
    /\ row \in [step : LaneSteps, plan : SUBSET ReplayCells, named : {row.named},
                loaded : {row.loaded}, ingested : {row.ingested}, rows : {row.rows},
                source : {row.source}]
    /\ \A x \in row.rows : RowThere(x)

\* The rows of cells: of each its occurrences, or those of a ledger that slipped.
RowsOfCells(rows, cells) ==
    /\ {x.cell : x \in rows} \subseteq cells
    /\ \A c \in cells :
          \/ RowsOf(rows, c) = Occurrences(c)
          \/ c \in slipped /\ RowsOf(rows, c) = ChangedRows(c)
Lists(row, v) == edited \/ row.plan = CellsOf[v]

\* The first cell of a set, in the order of the replay.
ComesFirst(cells, c) ==
    \E n \in DOMAIN LaneCells :
        /\ LaneCells[n] = c /\ c \in cells
        /\ \A m \in 1 .. n - 1 : LaneCells[m] \notin cells

\* How far a command has come that builds the raw database: what it lists is
\* what the registry that it names gives to the lane, and what it has written
\* are the cells that it has ingested.
BuilderFits(o, row) ==
    /\ row.step \in {"planned", "named", "checked", "ingest", "reading", "ready"} =>
         o \in Compiler /\ RowsOfCells(row.rows, row.ingested) /\ row.ingested \subseteq row.plan
    /\ row.step = "planned" => Lists(row, registry)
    /\ row.step \in {"named", "checked", "ingest", "reading", "ready"} => Lists(row, row.named)
    /\ row.step = "reading" =>
         \A c \in spoiled : ComesFirst(row.plan \ row.ingested, c) => c \in slipped
    /\ row.step = "ready" => row.plan = row.ingested

\* And one that compacts it: it has copied the raw database whose digest it
\* took, or another one that has to go before the digest is right again.
CompactorFits(o, row) ==
    /\ row.step \in {"digest", "previewed", "copied"} =>
         o \in Compactor /\ row.source = <<row.source[1]>>
    /\ row.step = "copied" =>
         \/ row.rows = row.source[1].rows
         \/ raw # row.source
         \/ row.source[1] \in returned

RawFits ==
    /\ raw = <<>> \/ raw = <<raw[1]>>
    /\ raw # <<>> => \A r \in raw[1].rows : RowThere(r)
CompactFits == compact = <<>> \/ compact = <<compact[1]>>

LaneInv ==
    /\ registry \in 1 .. MaxRegistry /\ edited \in BOOLEAN
    /\ spoiled \subseteq ReplayCells /\ slipped \subseteq spoiled
    /\ removals \in 0 .. MaxRemovals
    /\ laneKills \in 0 .. MaxLaneKills /\ temporaries = laneKills
    /\ operator = [o \in LaneOperator |-> operator[o]]
    /\ \A o \in LaneOperator :
         /\ LaneRow(operator[o])
         /\ operator[o].step = "idle" => operator[o] = Idle
         /\ BuilderFits(o, operator[o]) /\ CompactorFits(o, operator[o])
    /\ RawFits /\ CompactFits
    /\ LanesExact

LEMMA LaneStarts == LaneInit => LaneInv
<1>. SUFFICES ASSUME LaneInit PROVE LaneInv
  OBVIOUS
<1>1. LaneRow(Idle) /\ Idle.step = "idle"
  BY DEF LaneRow, Idle, LaneSteps
<1>2. \A o \in LaneOperator : operator[o] = Idle
  BY DEF LaneInit
<1>3. /\ 1 \in 1 .. MaxRegistry /\ 0 \in 0 .. MaxRemovals /\ 0 \in 0 .. MaxLaneKills
      /\ MaxLaneKills \in Nat
  BY LaneAssumption
<1>4. RawFits /\ CompactFits /\ LanesExact
  BY DEF LaneInit, RawFits, CompactFits, LanesExact, RawExact, CompactExact
<1>5. ASSUME NEW o \in LaneOperator
      PROVE  /\ LaneRow(operator[o]) /\ operator[o] = Idle
             /\ BuilderFits(o, operator[o]) /\ CompactorFits(o, operator[o])
  BY <1>1, <1>2 DEF BuilderFits, CompactorFits
<1>6. operator = [o \in LaneOperator |-> operator[o]]
  BY DEF LaneInit
<1>. QED  BY <1>3, <1>4, <1>5, <1>6 DEF LaneInit, LaneInv

\* A step of one command that leaves the databases alone.
OwnRead(o, row) ==
    /\ operator' = [operator EXCEPT ![o] = row]
    /\ UNCHANGED <<registry, spoiled, slipped, raw, compact, edited, returned, removals>>
    /\ UNCHANGED <<temporaries, laneKills>>

RowFits(o, row) ==
    /\ LaneRow(row) /\ (row.step = "idle" => row = Idle)
    /\ BuilderFits(o, row) /\ CompactorFits(o, row)

LEMMA OwnReads ==
    ASSUME LaneInv, NEW o \in LaneOperator, NEW row, OwnRead(o, row), RowFits(o, row)
    PROVE  LaneInv'
<1>1. operator' = [p \in LaneOperator |-> operator'[p]]
      /\ \A p \in LaneOperator : operator'[p] = IF p = o THEN row ELSE operator[p]
  BY DEF OwnRead, LaneInv
<1>2. \A p \in LaneOperator : RowFits(p, operator[p])
  BY DEF LaneInv, RowFits
<1>3. \A p \in LaneOperator : RowFits(p, operator'[p])
  BY <1>1, <1>2
<1>4. \A p \in LaneOperator : RowFits(p, operator[p])'
  BY <1>3 DEF RowFits, LaneRow, BuilderFits, CompactorFits, Lists, OwnRead, RowsOfCells, RowsOf,
              ComesFirst, RowThere, ChangedRows, Occurrences, ReplayCells
<1>. QED
  BY <1>1, <1>4
     DEF OwnRead, LaneInv, RowFits, RawFits, CompactFits, LanesExact, RawExact, CompactExact

\* The command changes its row to `row`, and nothing else happens.
LaneTurns(o, row) ==
    /\ operator' = [operator EXCEPT ![o] = row]
    /\ UNCHANGED compact /\ RawUnchanged

LEMMA LaneTurnsFit ==
    ASSUME LaneInv, NEW o \in LaneOperator, NEW row, LaneTurns(o, row), RowFits(o, row)
    PROVE  LaneInv'
BY OwnReads DEF LaneTurns, OwnRead, RawUnchanged, FilesUnchanged

\* What is known of one command.
LEMMA OneLane ==
    ASSUME LaneInv, NEW o \in LaneOperator
    PROVE  /\ RowFits(o, operator[o])
           /\ operator = [p \in LaneOperator |-> operator[p]]
           /\ \A n \in 1 .. MaxRegistry : CellsOf[n] \subseteq ReplayCells
           /\ registry \in 1 .. MaxRegistry
BY LaneAssumption DEF LaneInv, RowFits, ReplayCells

\* A command that only goes on keeps what it has read.
LEMMA LaneGoes ==
    ASSUME LaneInv, NEW o \in LaneOperator, NEW step \in LaneSteps \ {"idle"}, Goes(o, step),
           UNCHANGED compact, RawUnchanged,
           LET row == [operator[o] EXCEPT !.step = step] IN
           BuilderFits(o, row) /\ CompactorFits(o, row)
    PROVE  LaneInv'
<1>0. PICK r : r = operator[o] /\ RowFits(o, r)
  BY OneLane
<1>. DEFINE row == [r EXCEPT !.step = step]
<1>1. LaneTurns(o, row)
  BY <1>0, OneLane DEF LaneTurns, Goes
<1>2. LaneRow(row) /\ row.step = step
  BY <1>0 DEF RowFits, LaneRow
<1>3. RowFits(o, row)
  BY <1>0, <1>2 DEF RowFits
<1>. QED  BY <1>1, <1>3, LaneTurnsFit

LEMMA LanePlans ==
    ASSUME LaneInv, NEW o \in LaneOperator,
           PlanLane(o) \/ NameRegistry(o) \/ CheckRegistry(o) \/ BeginLane(o)
    PROVE  LaneInv'
<1>0. PICK r : r = operator[o] /\ RowFits(o, r)
  BY OneLane
<1>1. CASE PlanLane(o)
  <2>0. PICK step \in {"failed", "planned"}, plan \in SUBSET ReplayCells :
            /\ step = IF CellsOf[registry] = {} THEN "failed" ELSE "planned"
            /\ plan = CellsOf[registry]
    BY OneLane
  <2>. DEFINE row == [r EXCEPT !.step = step, !.plan = plan]
  <2>1. LaneTurns(o, row)
    BY <1>0, <1>1, <2>0, OneLane DEF PlanLane, LaneTurns
  <2>2. operator[o] = Idle
    BY <1>0, <1>1 DEF PlanLane, At, LaneInv
  <2>3. /\ LaneRow(row) /\ row.step \in {"failed", "planned"}
        /\ row.plan = plan /\ row.rows = r.rows /\ row.ingested = r.ingested
    BY <1>0 DEF RowFits, LaneRow, LaneSteps
  <2>4. o \in Compiler /\ r.rows = {} /\ r.ingested = {}
    BY <1>0, <1>1, <2>2 DEF PlanLane, Idle
  <2>. HIDE DEF row
  <2>5. RowFits(o, row)
    BY <2>0, <2>3, <2>4 DEF RowFits, BuilderFits, CompactorFits, Lists, RowsOfCells, RowsOf,
                            ComesFirst, RowThere, ChangedRows
  <2>. QED  BY <2>1, <2>5, LaneTurnsFit
<1>2. CASE NameRegistry(o)
  <2>. DEFINE row == [r EXCEPT !.step = "named", !.named = registry]
  <2>1. LaneTurns(o, row)
    BY <1>0, <1>2, OneLane DEF NameRegistry, LaneTurns
  <2>2. r.step = "planned"
    BY <1>0, <1>2 DEF NameRegistry, At
  <2>3. /\ LaneRow(row) /\ row.step = "named" /\ row.named = registry /\ row.plan = r.plan
        /\ row.rows = r.rows /\ row.ingested = r.ingested
    BY <1>0 DEF RowFits, LaneRow, LaneSteps
  <2>. HIDE DEF row
  <2>4. RowFits(o, row)
    BY <1>0, <2>2, <2>3 DEF RowFits, BuilderFits, CompactorFits, Lists
  <2>. QED  BY <2>1, <2>4, LaneTurnsFit
<1>3. CASE CheckRegistry(o)
  BY <1>0, <1>3, OneLane, LaneGoes
     DEF CheckRegistry, At, RowFits, LaneRow, BuilderFits, CompactorFits, Lists, LaneSteps
<1>4. CASE BeginLane(o)
  <2>. DEFINE row == [r EXCEPT !.step = IF raw = <<>> THEN "ingest" ELSE "failed",
                                         !.loaded = registry]
  <2>1. LaneTurns(o, row)
    BY <1>0, <1>4, OneLane DEF BeginLane, LaneTurns
  <2>2. r.step = "checked"
    BY <1>0, <1>4 DEF BeginLane, At
  <2>3. /\ LaneRow(row) /\ row.step \in {"ingest", "failed"} /\ row.named = r.named
        /\ row.plan = r.plan /\ row.rows = r.rows /\ row.ingested = r.ingested
    BY <1>0 DEF RowFits, LaneRow, LaneSteps
  <2>. HIDE DEF row
  <2>4. RowFits(o, row)
    BY <1>0, <2>2, <2>3 DEF RowFits, BuilderFits, CompactorFits, Lists
  <2>. QED  BY <2>1, <2>4, LaneTurnsFit
<1>. QED  BY <1>1, <1>2, <1>3, <1>4

\* One cell comes first.
LEMMA OneFirst ==
    ASSUME NEW cells, NEW c, NEW d, ComesFirst(cells, c), ComesFirst(cells, d)
    PROVE  c = d
<1>1. DOMAIN LaneCells = 1 .. Len(LaneCells) /\ Len(LaneCells) \in Nat
  BY LaneAssumption
<1>2. PICK n \in DOMAIN LaneCells :
        LaneCells[n] = c /\ c \in cells /\ \A m \in 1 .. n - 1 : LaneCells[m] \notin cells
  BY DEF ComesFirst
<1>3. PICK k \in DOMAIN LaneCells :
        LaneCells[k] = d /\ d \in cells /\ \A m \in 1 .. k - 1 : LaneCells[m] \notin cells
  BY DEF ComesFirst
<1>4. n \notin 1 .. k - 1 /\ k \notin 1 .. n - 1
  BY <1>2, <1>3
<1>5. n = k
  BY <1>1, <1>4
<1>. QED  BY <1>2, <1>3, <1>5

\* The rows of one more ledger.
LEMMA OneLedgerMore ==
    ASSUME NEW rows, NEW cells, NEW c, RowsOfCells(rows, cells), c \notin cells,
           NEW more, more = Occurrences(c) \/ (c \in slipped /\ more = ChangedRows(c))
    PROVE  /\ RowsOfCells(rows \cup more, cells \cup {c})
           /\ \A x \in more : RowThere(x)
<1>1. \A x \in more : x.cell = c
  BY DEF Occurrences, ChangedRows
<1>2. RowsOf(rows, c) = {} /\ RowsOf(more, c) = more
  BY <1>1 DEF RowsOf, RowsOfCells
<1>3. RowsOf(rows \cup more, c) = more
  BY <1>2 DEF RowsOf
<1>4. \A d \in cells : RowsOf(rows \cup more, d) = RowsOf(rows, d)
  BY <1>1 DEF RowsOf
<1>5. {x.cell : x \in rows \cup more} \subseteq cells \cup {c}
  BY <1>1 DEF RowsOfCells
<1>6. \A x \in more : RowThere(x)
  BY <1>1 DEF RowThere
<1>. QED  BY <1>3, <1>4, <1>5, <1>6 DEF RowsOfCells

LEMMA LaneIngests ==
    ASSUME LaneInv, NEW o \in LaneOperator, CheckLedger(o) \/ ReadLedger(o) \/ FreezeLane(o)
    PROVE  LaneInv'
<1>0. PICK r : r = operator[o] /\ RowFits(o, r)
  BY OneLane
<1>1. CASE CheckLedger(o)
  <2>1. PICK c : /\ c \in Left(o) /\ Comes(o, c)
                 /\ Goes(o, IF c \in spoiled THEN "failed" ELSE "reading")
    BY <1>1 DEF CheckLedger
  <2>2. ComesFirst(r.plan \ r.ingested, c)
    BY <1>0, <2>1 DEF Comes, ComesFirst, Left, Ingested
  <2>3. CASE c \in spoiled
    BY <1>0, <1>1, <2>1, <2>3, OneLane, LaneGoes
       DEF CheckLedger, At, RowFits, LaneRow, BuilderFits, CompactorFits, LaneSteps
  <2>4. CASE c \notin spoiled
    <3>. DEFINE row == [r EXCEPT !.step = "reading"]
    <3>1. LaneTurns(o, row)
      BY <1>0, <1>1, <2>1, <2>4, OneLane DEF CheckLedger, Goes, LaneTurns
    <3>2. r.step = "ingest"
      BY <1>0, <1>1 DEF CheckLedger, At
    <3>3. /\ LaneRow(row) /\ row.step = "reading" /\ row.named = r.named /\ row.plan = r.plan
          /\ row.ingested = r.ingested /\ row.rows = r.rows
      BY <1>0 DEF RowFits, LaneRow, LaneSteps
    <3>. HIDE DEF row
    <3>4. \A d \in spoiled : ComesFirst(r.plan \ r.ingested, d) => d \in slipped
      BY <2>2, <2>4, OneFirst
    <3>5. RowFits(o, row)
      BY <1>0, <3>2, <3>3, <3>4 DEF RowFits, BuilderFits, CompactorFits, Lists
    <3>. QED  BY <3>1, <3>5, LaneTurnsFit
  <2>. QED  BY <2>3, <2>4
<1>2. CASE ReadLedger(o)
  <2>1. PICK c : /\ c \in Left(o) /\ Comes(o, c)
                 /\ \/ c \notin spoiled /\ Takes(o, c, Occurrences(c))
                    \/ c \in spoiled /\ Takes(o, c, ChangedRows(c))
                    \/ Goes(o, "failed")
    BY <1>2 DEF ReadLedger
  <2>2. ComesFirst(r.plan \ r.ingested, c) /\ c \in r.plan \ r.ingested
    BY <1>0, <2>1 DEF Comes, ComesFirst, Left, Ingested
  <2>3. r.step = "reading"
    BY <1>0, <1>2 DEF ReadLedger, At
  <2>4. CASE Goes(o, "failed")
    BY <1>0, <1>2, <2>4, OneLane, LaneGoes
       DEF ReadLedger, At, RowFits, LaneRow, BuilderFits, CompactorFits, LaneSteps
  <2>5. ASSUME NEW more, Takes(o, c, more),
               more = Occurrences(c) \/ (c \in slipped /\ more = ChangedRows(c))
        PROVE  LaneInv'
    <3>. DEFINE row == [r EXCEPT !.step = "ingest", !.ingested = @ \cup {c},
                                 !.rows = @ \cup more]
    <3>1. LaneTurns(o, row)
      BY <1>0, <1>2, <2>5, OneLane DEF ReadLedger, Takes, LaneTurns
    <3>2. RowsOfCells(r.rows \cup more, r.ingested \cup {c}) /\ \A x \in more : RowThere(x)
      BY <1>0, <2>2, <2>3, <2>5, OneLedgerMore DEF RowFits, BuilderFits
    <3>3. /\ LaneRow(row) /\ row.step = "ingest" /\ row.named = r.named /\ row.plan = r.plan
          /\ row.ingested = r.ingested \cup {c} /\ row.rows = r.rows \cup more
      BY <1>0, <3>2 DEF RowFits, LaneRow, LaneSteps
    <3>. HIDE DEF row
    <3>4. RowFits(o, row)
      BY <1>0, <2>2, <2>3, <3>2, <3>3 DEF RowFits, BuilderFits, CompactorFits, Lists
    <3>. QED  BY <3>1, <3>4, LaneTurnsFit
  <2>6. c \in spoiled => c \in slipped
    BY <1>0, <2>2, <2>3 DEF RowFits, BuilderFits
  <2>. QED  BY <2>1, <2>4, <2>5, <2>6
<1>3. CASE FreezeLane(o)
  <2>1. r.step = "ingest" /\ r.plan \ r.ingested = {}
    BY <1>0, <1>3 DEF FreezeLane, At, Left, Ingested
  <2>2. r.plan = r.ingested
    BY <1>0, <2>1 DEF RowFits, BuilderFits
  <2>. QED
    BY <1>0, <1>3, <2>1, <2>2, OneLane, LaneGoes
       DEF FreezeLane, RowFits, LaneRow, BuilderFits, CompactorFits, Lists, LaneSteps
<1>. QED  BY <1>1, <1>2, <1>3

LEMMA CompactorSteps ==
    ASSUME LaneInv, NEW o \in LaneOperator,
           DigestSource(o) \/ PreviewCompaction(o) \/ CopySource(o)
    PROVE  LaneInv'
<1>0. PICK r : r = operator[o] /\ RowFits(o, r)
  BY OneLane
<1>1. CASE DigestSource(o)
  <2>. DEFINE row == [r EXCEPT !.step = "digest", !.source = raw]
  <2>1. LaneTurns(o, row)
    BY <1>0, <1>1, OneLane DEF DigestSource, LaneTurns
  <2>2. o \in Compactor /\ raw # <<>>
    BY <1>1 DEF DigestSource
  <2>3. LaneRow(row) /\ row.step = "digest" /\ row.source = raw
    BY <1>0 DEF RowFits, LaneRow, LaneSteps
  <2>. HIDE DEF row
  <2>4. RowFits(o, row)
    BY <2>2, <2>3 DEF LaneInv, RawFits, RowFits, BuilderFits, CompactorFits
  <2>. QED  BY <2>1, <2>4, LaneTurnsFit
<1>2. CASE PreviewCompaction(o)
  <2>. DEFINE row == [r EXCEPT
                        !.step = IF raw = <<>> THEN "failed" ELSE "previewed",
                        !.loaded = IF raw = <<>> THEN 0 ELSE Cardinality(raw[1].rows)]
  <2>1. LaneTurns(o, row)
    BY <1>0, <1>2, OneLane DEF PreviewCompaction, LaneTurns
  <2>2. r.step = "digest"
    BY <1>0, <1>2 DEF PreviewCompaction, At
  <2>3. LaneRow(row) /\ row.step \in {"failed", "previewed"} /\ row.source = r.source
    BY <1>0 DEF RowFits, LaneRow, LaneSteps
  <2>. HIDE DEF row
  <2>4. RowFits(o, row)
    BY <1>0, <2>2, <2>3 DEF RowFits, BuilderFits, CompactorFits
  <2>. QED  BY <2>1, <2>4, LaneTurnsFit
<1>3. CASE CopySource(o)
  <2>. DEFINE row == [r EXCEPT !.step = "copied", !.rows = raw[1].rows]
  <2>1. CASE raw # <<>> /\ Cardinality(raw[1].rows) = operator[o].loaded
    <3>1. LaneTurns(o, row)
      BY <1>0, <1>3, <2>1, OneLane DEF CopySource, LaneTurns
    <3>2. r.step = "previewed" /\ \A x \in raw[1].rows : RowThere(x)
      BY <1>0, <1>3, <2>1 DEF CopySource, At, LaneInv, RawFits
    <3>3. LaneRow(row) /\ row.step = "copied" /\ row.source = r.source /\ row.rows = raw[1].rows
      BY <1>0, <3>2 DEF RowFits, LaneRow, LaneSteps
    <3>. HIDE DEF row
    <3>4. RowFits(o, row)
      BY <1>0, <3>2, <3>3 DEF RowFits, BuilderFits, CompactorFits
    <3>. QED  BY <3>1, <3>4, LaneTurnsFit
  <2>2. CASE ~(raw # <<>> /\ Cardinality(raw[1].rows) = operator[o].loaded)
    BY <1>0, <1>3, <2>2, OneLane, LaneGoes
       DEF CopySource, At, RowFits, LaneRow, BuilderFits, CompactorFits, LaneSteps
  <2>. QED  BY <2>1, <2>2
<1>. QED  BY <1>1, <1>2, <1>3

\* An invariant of the commands under a step of the surroundings.
LEMMA LaneRowsHold ==
    ASSUME LaneInv, UNCHANGED operator,
           registry' = registry, edited' = edited, slipped \subseteq slipped',
           \A o \in LaneOperator, c \in spoiled' \ spoiled :
              operator[o].step = "reading"
              /\ ComesFirst(operator[o].plan \ operator[o].ingested, c) => c \in slipped',
           \A o \in LaneOperator :
              operator[o].step = "copied" =>
                raw' = raw \/ raw' # operator[o].source \/ operator[o].source[1] \in returned',
           returned \subseteq returned'
    PROVE  \A o \in LaneOperator : RowFits(o, operator[o])'
<1>. SUFFICES ASSUME NEW o \in LaneOperator PROVE RowFits(o, operator[o])'
  OBVIOUS
<1>1. PICK r : r = operator[o] /\ r = operator'[o] /\ RowFits(o, r)
  BY OneLane
<1>. QED
  BY <1>1 DEF RowFits, LaneRow, BuilderFits, CompactorFits, Lists, RowsOfCells, RowsOf, ComesFirst,
              RowThere, ChangedRows, Occurrences, ReplayCells

LEMMA LaneFileSteps ==
    ASSUME LaneInv, EditRegistry \/ (\E c \in ReplayCells : SpoilLedger(c)) \/ RemoveRaw
    PROVE  LaneInv'
<1>1. CASE EditRegistry
  <2>1. ASSUME NEW o \in LaneOperator PROVE RowFits(o, operator[o])'
    <3>1. PICK r : r = operator[o] /\ r = operator'[o] /\ RowFits(o, r)
      BY <1>1, OneLane DEF EditRegistry
    <3>2. r.step = "planned" => o \in Compiler
      BY <3>1 DEF RowFits, BuilderFits
    <3>3. edited => edited'
      BY <1>1 DEF EditRegistry
    <3>4. r.step = "planned" => edited'
      BY <1>1, <3>1, <3>2 DEF EditRegistry
    <3>. QED
      BY <1>1, <3>1, <3>3, <3>4
         DEF EditRegistry, RowFits, LaneRow, BuilderFits, CompactorFits, Lists, RowsOfCells, RowsOf,
             ComesFirst, RowThere, ChangedRows, Occurrences, ReplayCells
  <2>2. edited' \in BOOLEAN /\ registry' \in 1 .. MaxRegistry /\ (edited => edited')
    BY <1>1, LaneAssumption DEF EditRegistry, LaneInv
  <2>3. LanesExact'
    BY <1>1, <2>2 DEF EditRegistry, LaneInv, LanesExact, RawExact, CompactExact
  <2>4. RawFits' /\ CompactFits'
    BY <1>1 DEF EditRegistry, LaneInv, RawFits, CompactFits
  <2>. QED
    BY <1>1, <2>1, <2>2, <2>3, <2>4 DEF EditRegistry, LaneInv, RowFits
<1>2. ASSUME NEW c \in ReplayCells, SpoilLedger(c) PROVE LaneInv'
  <2>1. ASSUME NEW o \in LaneOperator, operator[o].step = "reading",
               ComesFirst(operator[o].plan \ operator[o].ingested, c)
        PROVE  c \in slipped'
    <3>1. o \in Compiler
      BY <2>1, OneLane DEF RowFits, BuilderFits
    <3>2. Comes(o, c)
      BY <2>1 DEF ComesFirst, Comes, Left, Ingested
    <3>. QED  BY <1>2, <2>1, <3>1, <3>2 DEF SpoilLedger, At
  <2>2. slipped \subseteq slipped' /\ spoiled' = spoiled \cup {c}
    BY <1>2 DEF SpoilLedger
  <2>3. \A o \in LaneOperator : RowFits(o, operator[o])'
    BY <1>2, <2>1, <2>2, LaneRowsHold DEF SpoilLedger
  <2>4. (spoiled \subseteq ReplayCells /\ slipped \subseteq spoiled)'
    BY <1>2 DEF SpoilLedger, LaneInv, ReplayCells
  <2>5. RawExact'
    <3>1. RawExact /\ raw' = raw /\ edited' = edited
      BY <1>2 DEF SpoilLedger, LaneInv, LanesExact
    <3>. SUFFICES ASSUME NEW n \in DOMAIN raw, ~edited
                  PROVE  /\ {x.cell : x \in raw[n].rows} \subseteq CellsOf[raw[n].registry]
                         /\ \A d \in CellsOf[raw[n].registry] :
                               \/ RowsOf(raw[n].rows, d) = Occurrences(d)
                               \/ d \in slipped' /\ RowsOf(raw[n].rows, d) = ChangedRows(d)
      BY <3>1 DEF RawExact, RowsOf, Occurrences, ChangedRows
    <3>. QED  BY <3>1, <2>2 DEF RawExact
  <2>6. CompactExact'
    BY <1>2 DEF SpoilLedger, LaneInv, LanesExact, CompactExact
  <2>. QED
    BY <1>2, <2>3, <2>4, <2>5, <2>6
       DEF SpoilLedger, LaneInv, LanesExact, RowFits, RawFits, CompactFits, RowThere, Occurrences,
           ChangedRows
<1>3. CASE RemoveRaw
  <2>1. ASSUME NEW o \in LaneOperator, operator[o].step = "copied"
        PROVE  raw' # operator[o].source
    <3>1. PICK x : operator[o].source = <<x>>
      BY <2>1, OneLane DEF RowFits, CompactorFits
    <3>. QED  BY <1>3, <3>1 DEF RemoveRaw
  <2>2. \A o \in LaneOperator : RowFits(o, operator[o])'
    BY <1>3, <2>1, LaneRowsHold DEF RemoveRaw
  <2>3. removals' \in 0 .. MaxRemovals
    BY <1>3, LaneAssumption DEF RemoveRaw, LaneInv
  <2>4. LanesExact'
    BY <1>3 DEF RemoveRaw, LaneInv, LanesExact, RawExact, CompactExact
  <2>. QED
    BY <1>3, <2>2, <2>3, <2>4 DEF RemoveRaw, LaneInv, RowFits, RawFits, CompactFits
<1>. QED  BY <1>1, <1>2, <1>3

LEMMA LanePublishes ==
    ASSUME LaneInv, NEW o \in LaneOperator, PublishLane(o) \/ PublishCompact(o)
    PROVE  LaneInv'
<1>0. PICK r : r = operator[o] /\ RowFits(o, r)
  BY OneLane
<1>1. CASE PublishLane(o) /\ raw = <<>>
  <2>. DEFINE row == [r EXCEPT !.step = "done"]
              content == RawContent(o)
  <2>1. LaneRow(row) /\ row.step = "done"
    BY <1>0 DEF RowFits, LaneRow, LaneSteps
  <2>2. /\ operator' = [p \in LaneOperator |-> operator'[p]]
        /\ \A p \in LaneOperator : operator'[p] = IF p = o THEN row ELSE operator[p]
    BY <1>0, <1>1, OneLane DEF PublishLane, Goes
  <2>3. r.step = "ready"
    BY <1>0, <1>1 DEF PublishLane, At
  <2>4. /\ raw' = <<content>> /\ returned \subseteq returned'
        /\ \A p \in LaneOperator :
             p \in Compactor /\ operator[p].step = "copied" /\ operator[p].source = <<content>> =>
               content \in returned'
        /\ UNCHANGED compact /\ FilesUnchanged
    BY <1>1 DEF PublishLane, CopiedFrom, At, LaneOperator
  <2>5. content.rows = r.rows /\ content.registry = r.named
    BY <1>0 DEF RawContent
  <2>. HIDE DEF row, content
  <2>6. ASSUME NEW p \in LaneOperator PROVE RowFits(p, operator[p])'
    <3>1. CASE p = o
      BY <2>1, <2>2, <3>1
         DEF RowFits, LaneRow, BuilderFits, CompactorFits, RowThere, ChangedRows, Occurrences,
             ReplayCells
    <3>2. CASE p # o
      <4>1. PICK q : q = operator[p] /\ q = operator'[p] /\ RowFits(p, q)
        BY <2>2, <3>2, OneLane
      <4>2. CASE q.step # "copied"
        BY <4>1, <4>2, <2>4
           DEF FilesUnchanged, RowFits, LaneRow, BuilderFits, CompactorFits, Lists, RowsOfCells,
               RowsOf, ComesFirst, RowThere, ChangedRows, Occurrences, ReplayCells
      <4>3. CASE q.step = "copied"
        <5>1. p \in Compactor /\ q.source = <<q.source[1]>>
          BY <4>1, <4>3 DEF RowFits, CompactorFits
        <5>2. raw' # q.source \/ q.source[1] \in returned'
          <6>1. PICK x : q.source = <<x>>
            BY <5>1
          <6>2. q.source[1] = x /\ (<<content>> = <<x>> => content = x)
            BY <6>1
          <6>3. CASE <<content>> = <<x>>
            BY <2>4, <4>1, <4>3, <5>1, <6>1, <6>2, <6>3
          <6>. QED  BY <2>4, <6>1, <6>3
        <5>. QED
          BY <4>1, <4>3, <5>1, <5>2
             DEF RowFits, LaneRow, BuilderFits, CompactorFits, RowThere, ChangedRows, Occurrences,
                 ReplayCells
      <4>. QED  BY <4>2, <4>3
    <3>. QED  BY <3>1, <3>2
  <2>7. RawFits'
    BY <1>0, <2>4, <2>5 DEF RowFits, LaneRow, RawFits, Occurrences
  <2>8. RawExact'
    BY <1>0, <2>3, <2>4, <2>5
       DEF RowFits, BuilderFits, Lists, RowsOfCells, RowsOf, ComesFirst, RowThere, ChangedRows,
           RawExact, FilesUnchanged, Occurrences
  <2>9. CompactExact' /\ CompactFits'
    BY <2>4 DEF LaneInv, LanesExact, CompactExact, CompactFits
  <2>. QED
    BY <2>2, <2>4, <2>6, <2>7, <2>8, <2>9
       DEF LaneInv, RowFits, FilesUnchanged, LanesExact, ReplayCells
<1>2. CASE PublishLane(o) /\ raw # <<>>
  BY <1>0, <1>2, LaneGoes
     DEF PublishLane, At, RawUnchanged, RowFits, LaneRow, BuilderFits, CompactorFits, LaneSteps
<1>3. CASE PublishCompact(o) /\ SourceUnchanged(o) /\ compact = <<>>
  <2>. DEFINE row == [r EXCEPT !.step = "done"]
              content == CompactContent(o)
  <2>1. LaneRow(row) /\ row.step = "done"
    BY <1>0 DEF RowFits, LaneRow, LaneSteps
  <2>2. RowFits(o, row)
    BY <2>1 DEF RowFits, BuilderFits, CompactorFits
  <2>3. /\ operator' = [p \in LaneOperator |-> operator'[p]]
        /\ \A p \in LaneOperator : operator'[p] = IF p = o THEN row ELSE operator[p]
    BY <1>0, <1>3, OneLane DEF PublishCompact, Goes
  <2>4. compact' = <<content>> /\ RawUnchanged
    BY <1>3 DEF PublishCompact
  <2>5. r.rows = r.source[1].rows \/ r.source[1] \in returned
    BY <1>0, <1>3 DEF PublishCompact, SourceUnchanged, At, RowFits, CompactorFits
  <2>6. /\ content.source = r.source[1] /\ content.occurrences = r.rows
        /\ content.signatures = SignaturesOf(r.rows)
    BY <1>0 DEF CompactContent
  <2>. HIDE DEF row, content
  <2>7. \A p \in LaneOperator : RowFits(p, operator'[p])
    BY <2>2, <2>3, OneLane
  <2>8. \A p \in LaneOperator : RowFits(p, operator[p])'
    BY <2>4, <2>7 DEF RawUnchanged, FilesUnchanged, RowFits, LaneRow, BuilderFits, CompactorFits,
                      Lists, RowsOfCells, RowsOf, ComesFirst, RowThere, ChangedRows, Occurrences,
                      ReplayCells
  <2>9. CompactExact' /\ CompactFits'
    BY <2>4, <2>5, <2>6 DEF CompactExact, CompactFits, RawUnchanged, SignaturesOf
  <2>. QED
    BY <2>3, <2>4, <2>8, <2>9
       DEF LaneInv, RowFits, RawUnchanged, FilesUnchanged, LanesExact, RawExact, RawFits,
           ReplayCells
<1>4. CASE PublishCompact(o) /\ ~(SourceUnchanged(o) /\ compact = <<>>)
  BY <1>0, <1>4, LaneGoes
     DEF PublishCompact, At, RowFits, LaneRow, BuilderFits, CompactorFits, LaneSteps
<1>. QED  BY <1>1, <1>2, <1>3, <1>4

LEMMA LaneKilled ==
    ASSUME LaneInv, NEW o \in LaneOperator, KillCommand(o)
    PROVE  LaneInv'
<1>1. RowFits(o, Idle)
  BY DEF RowFits, LaneRow, BuilderFits, CompactorFits, Idle, LaneSteps
<1>2. /\ operator' = [p \in LaneOperator |-> operator'[p]]
      /\ \A p \in LaneOperator : operator'[p] = IF p = o THEN Idle ELSE operator[p]
  BY OneLane DEF KillCommand
<1>3. \A p \in LaneOperator : RowFits(p, operator'[p])
  BY <1>1, <1>2, OneLane
<1>4. \A p \in LaneOperator : RowFits(p, operator[p])'
  BY <1>3 DEF KillCommand, RowFits, LaneRow, BuilderFits, CompactorFits, Lists, RowsOfCells, RowsOf,
              ComesFirst, RowThere, ChangedRows, Occurrences, ReplayCells
<1>5. laneKills' \in 0 .. MaxLaneKills /\ temporaries' = laneKills'
  BY LaneAssumption DEF KillCommand, LaneInv
<1>6. LanesExact' /\ RawFits' /\ CompactFits'
  BY DEF KillCommand, LaneInv, LanesExact, RawExact, CompactExact, RawFits, CompactFits
<1>. QED  BY <1>2, <1>4, <1>5, <1>6 DEF KillCommand, LaneInv, RowFits, ReplayCells

LEMMA LaneInvStep ==
    ASSUME LaneInv, [LaneNext]_laneVars PROVE LaneInv'
<1>1. CASE UNCHANGED laneVars
  <2>1. \A o \in LaneOperator : RowFits(o, operator[o])'
    BY <1>1, LaneRowsHold DEF laneVars
  <2>2. /\ (spoiled \subseteq ReplayCells /\ slipped \subseteq spoiled)' /\ LanesExact'
        /\ RawFits' /\ CompactFits'
    BY <1>1
       DEF laneVars, LaneInv, ReplayCells, LanesExact, RawExact, CompactExact, RawFits, CompactFits
  <2>. QED  BY <1>1, <2>1, <2>2 DEF laneVars, LaneInv, RowFits
<1>. QED
  BY <1>1, LanePlans, LaneIngests, CompactorSteps, LanePublishes, LaneKilled, LaneFileSteps
     DEF LaneNext

LEMMA LaneFacts == ASSUME LaneInv PROVE LanesExact /\ LaneTypeOK
<1>1. Len(raw) <= 1
  <2>1. CASE raw = <<>>
    BY <2>1
  <2>2. ASSUME NEW x, raw = <<x>> PROVE Len(raw) <= 1
    BY <2>2
  <2>. QED  BY <2>1, <2>2 DEF LaneInv, RawFits
<1>2. Len(compact) <= 1
  <2>1. CASE compact = <<>>
    BY <2>1
  <2>2. ASSUME NEW x, compact = <<x>> PROVE Len(compact) <= 1
    BY <2>2
  <2>. QED  BY <2>1, <2>2 DEF LaneInv, CompactFits
<1>3. ASSUME NEW o \in LaneOperator
      PROVE  /\ operator[o].step \in LaneSteps /\ operator[o].plan \subseteq ReplayCells
             /\ \A x \in operator[o].rows : x \in Occurrences(x.cell) \cup ChangedRows(x.cell)
  BY OneLane DEF RowFits, LaneRow, RowThere
<1>. QED  BY <1>1, <1>2, <1>3 DEF LaneInv, LaneTypeOK

-----------------------------------------------------------------------------
(* Ecological cases.  The runner's lock is the file of one analyst, and a   *)
(* case that is queued or running is in the hands of somebody who ends it,  *)
(* or its hands died.                                                       *)

StarterRow == [case : EcoCase, at : {"import", "queue", "spawn", "pid"}]
AnalystRow ==
    [case : EcoCase, at : {"begin", "lock", "running", "report", "complete", "unlock"},
     corpus : Nat]
None(rows) == {<<>>} \cup {<<r>> : r \in rows}

EcoTyped ==
    /\ caseFile \in [EcoCase -> {"absent", "imported", "queued", "running", "complete", "failed"}]
    /\ directory \in SUBSET EcoCase
    /\ starters \in [Starter -> None(StarterRow)]
    /\ analysts \in [Analyst -> None(AnalystRow)]
    /\ runnerLock \in BOOLEAN /\ corpora \in Nat
    /\ ecoReport \in [EcoCase -> Nat]

\* The lock file is there while a process holds it, and one process does.
LockFits ==
    /\ Holders # {} => runnerLock
    /\ \A a, b \in Holders : a = b

\* Whoever is at work on a case has its directory and a lane to compare with,
\* and a report comes before the state that says so.
CasesFit ==
    /\ \A c \in EcoCase :
         /\ caseFile[c] # "absent" => c \in directory
         /\ caseFile[c] = "complete" => ecoReport[c] # 0
    /\ \A s \in Starter :
         starters[s] # <<>> => /\ starters[s][1].case \in directory
                               /\ starters[s][1].at # "import" => corpora # 0
    /\ \A a \in Analyst :
         analysts[a] # <<>> =>
           /\ analysts[a][1].case \in directory /\ corpora # 0
           /\ analysts[a][1].at # "begin" => analysts[a][1].corpus # 0
           /\ analysts[a][1].at = "complete" => ecoReport[analysts[a][1].case] # 0

\* Somebody has yet to write the case's state anew, whatever it says by then.
Tended(c) ==
    \/ \E s \in Starter : starters[s] # <<>> /\ starters[s][1].case = c
                          /\ starters[s][1].at \in {"queue", "spawn"}
    \/ \E a \in Analyst : analysts[a] # <<>> /\ analysts[a][1].case = c
                          /\ analysts[a][1].at # "unlock"
    \/ \E why \in {"killed", "refused", "overwritten"} : <<c, why>> \in excused
CasesTended == \A c \in EcoCase : caseFile[c] \in {"queued", "running"} => Tended(c)

EcoInv == EcoTyped /\ LockFits /\ CasesFit /\ CasesTended

LEMMA EcoStarts == EcologicalInit => EcoInv
<1>. SUFFICES ASSUME EcologicalInit PROVE EcoInv
  OBVIOUS
<1>1. EcoTyped
  BY DEF EcologicalInit, EcoTyped, None
<1>2. LockFits /\ CasesFit /\ CasesTended
  BY DEF EcologicalInit, LockFits, Holders, CasesFit, CasesTended
<1>. QED  BY <1>1, <1>2 DEF EcoInv

\* What is known of one starter, and of one process.
LEMMA OneStarter ==
    ASSUME EcoTyped, NEW s \in Starter, starters[s] # <<>>
    PROVE  \E r \in StarterRow : starters[s] = <<r>> /\ starters[s][1] = r
BY DEF EcoTyped, None

LEMMA OneAnalyst ==
    ASSUME EcoTyped, NEW a \in Analyst, analysts[a] # <<>>
    PROVE  \E r \in AnalystRow : analysts[a] = <<r>> /\ analysts[a][1] = r
BY DEF EcoTyped, None

\* A starter that moves on, alone.
LEMMA StarterTurns ==
    ASSUME EcoInv, NEW s \in Starter, NEW p \in None(StarterRow),
           starters' = [starters EXCEPT ![s] = p],
           UNCHANGED <<analysts, runnerLock, corpora, ecoReport>>,
           directory' \in SUBSET EcoCase, directory \subseteq directory',
           NEW c \in EcoCase, NEW says \in {"absent", "imported", "queued", "failed"},
           \/ caseFile' = [caseFile EXCEPT ![c] = says] /\ c \in directory'
           \/ UNCHANGED caseFile,
           p # <<>> => /\ p[1].case \in directory'
                       /\ p[1].at # "import" => corpora # 0,
           excused \subseteq excused',
           caseFile'[c] \in {"queued", "running"} => Tended(c)',
           starters[s] # <<>> => starters[s][1].case = c
    PROVE  EcoInv'
<1>1. /\ \A t \in Starter : starters'[t] = IF t = s THEN p ELSE starters[t]
      /\ \A d \in EcoCase : caseFile'[d] = caseFile[d] \/ (d = c /\ caseFile'[d] = says)
  BY DEF EcoInv, EcoTyped
<1>2. EcoTyped'
  BY DEF EcoInv, EcoTyped
<1>3. LockFits'
  BY DEF EcoInv, LockFits, Holders
<1>4. CasesFit'
  BY <1>1 DEF EcoInv, CasesFit
<1>5. CasesTended'
  <2>. SUFFICES ASSUME NEW d \in EcoCase, d # c, caseFile[d] \in {"queued", "running"}
                PROVE  Tended(d)'
    BY <1>1 DEF CasesTended
  <2>1. Tended(d)
    BY DEF EcoInv, CasesTended
  <2>. QED  BY <1>1, <2>1 DEF Tended
<1>. QED  BY <1>2, <1>3, <1>4, <1>5 DEF EcoInv

\* A process that moves on, alone.
LEMMA AnalystTurns ==
    ASSUME EcoInv, NEW a \in Analyst, NEW r \in AnalystRow, analysts[a] = <<r>>,
           NEW p \in None(AnalystRow), analysts' = [analysts EXCEPT ![a] = p],
           UNCHANGED <<starters, directory, corpora>>, runnerLock' \in BOOLEAN,
           NEW n \in Nat \ {0},
           \/ ecoReport' = [ecoReport EXCEPT ![r.case] = n]
           \/ UNCHANGED ecoReport,
           NEW says \in {"running", "complete", "failed"},
           \/ caseFile' = [caseFile EXCEPT ![r.case] = says]
           \/ UNCHANGED caseFile,
           excused \subseteq excused',
           p # <<>> => /\ p[1].case = r.case
                       /\ p[1].at # "begin" => p[1].corpus # 0
                       /\ p[1].at = "complete" => ecoReport'[r.case] # 0,
           caseFile'[r.case] = "complete" => ecoReport'[r.case] # 0,
           caseFile'[r.case] \in {"queued", "running"} => Tended(r.case)',
           LockFits'
    PROVE  EcoInv'
<1>1. /\ \A b \in Analyst : analysts'[b] = IF b = a THEN p ELSE analysts[b]
      /\ \A d \in EcoCase : caseFile'[d] = caseFile[d] \/ (d = r.case /\ caseFile'[d] = says)
      /\ \A d \in EcoCase : ecoReport'[d] = ecoReport[d] \/ (d = r.case /\ ecoReport'[d] = n)
      /\ r.case \in EcoCase
  BY DEF EcoInv, EcoTyped, AnalystRow
<1>2. EcoTyped'
  BY <1>1 DEF EcoInv, EcoTyped
<1>3. r.case \in directory /\ corpora # 0
  BY DEF EcoInv, CasesFit
<1>4. CasesFit'
  <2>1. ASSUME NEW d \in EcoCase
        PROVE  /\ caseFile'[d] # "absent" => d \in directory'
               /\ caseFile'[d] = "complete" => ecoReport'[d] # 0
    BY <1>1, <1>3 DEF EcoInv, CasesFit
  <2>2. ASSUME NEW b \in Analyst, b # a, analysts'[b] # <<>>
        PROVE  /\ analysts'[b][1].case \in directory' /\ corpora' # 0
               /\ analysts'[b][1].at # "begin" => analysts'[b][1].corpus # 0
               /\ analysts'[b][1].at = "complete" => ecoReport'[analysts'[b][1].case] # 0
    <3>1. PICK q \in AnalystRow : analysts[b] = <<q>> /\ analysts[b][1] = q /\ analysts'[b][1] = q
      BY <1>1, <2>2, OneAnalyst DEF EcoInv
    <3>2. q.case \in directory /\ (q.at # "begin" => q.corpus # 0)
          /\ (q.at = "complete" => ecoReport[q.case] # 0) /\ q.case \in EcoCase
      BY <3>1 DEF EcoInv, CasesFit, AnalystRow
    <3>3. q.at = "complete" => ecoReport'[q.case] # 0
      BY <1>1, <3>2
    <3>. QED  BY <1>3, <3>1, <3>2, <3>3
  <2>3. p # <<>> => p[1].case \in directory' /\ corpora' # 0
    BY <1>3
  <2>4. \A t \in Starter :
           starters'[t] # <<>> => /\ starters'[t][1].case \in directory'
                                  /\ starters'[t][1].at # "import" => corpora' # 0
    BY DEF EcoInv, CasesFit
  <2>5. p # <<>> /\ p[1].at = "complete" => ecoReport'[p[1].case] # 0
    OBVIOUS
  <2>. QED  BY <1>1, <2>1, <2>2, <2>3, <2>4, <2>5 DEF CasesFit
<1>5. CasesTended'
  <2>. SUFFICES ASSUME NEW d \in EcoCase, d # r.case, caseFile[d] \in {"queued", "running"}
                PROVE  Tended(d)'
    BY <1>1 DEF CasesTended
  <2>1. Tended(d)
    BY DEF EcoInv, CasesTended
  <2>. QED  BY <1>1, <2>1 DEF Tended
<1>. QED  BY <1>2, <1>4, <1>5 DEF EcoInv

LEMMA ImportSteps ==
    ASSUME EcoInv, NEW s \in Starter,
           \/ \E c \in EcoCase : ImportDirectory(s, c) \/ BeginStart(s, c)
           \/ ImportManifest(s)
    PROVE  EcoInv'
<1>1. ASSUME NEW c \in EcoCase, ImportDirectory(s, c) PROVE EcoInv'
  <2>. DEFINE p == <<[case |-> c, at |-> "import"]>>
  <2>1. p \in None(StarterRow)
    BY DEF None, StarterRow
  <2>2. Tended(c) => Tended(c)'
    BY <1>1 DEF EcoInv, EcoTyped, ImportDirectory, HandedTo, Tended
  <2>3. caseFile[c] \in {"queued", "running"} => Tended(c)
    BY DEF EcoInv, CasesTended
  <2>4. directory' = directory \cup {c} /\ directory' \in SUBSET EcoCase
    BY <1>1 DEF ImportDirectory, EcoInv, EcoTyped
  <2>. QED
    BY <1>1, <2>1, <2>2, <2>3, <2>4, StarterTurns DEF ImportDirectory, HandedTo
<1>2. ASSUME NEW c \in EcoCase, BeginStart(s, c) PROVE EcoInv'
  <2>. DEFINE p == <<[case |-> c, at |-> "queue"]>>
  <2>1. p \in None(StarterRow)
    BY DEF None, StarterRow
  <2>2. corpora # 0 /\ c \in directory /\ caseFile[c] \notin {"queued", "running"}
    BY <1>2 DEF EcoInv, CasesFit, BeginStart, Startable
  <2>3. directory \in SUBSET EcoCase
    BY DEF EcoInv, EcoTyped
  <2>. QED
    BY <1>2, <2>1, <2>2, <2>3, StarterTurns DEF BeginStart, HandedTo
<1>3. CASE ImportManifest(s)
  <2>1. PICK r \in StarterRow : starters[s] = <<r>> /\ starters[s][1] = r
    BY <1>3, OneStarter DEF EcoInv, ImportManifest, InHand
  <2>2. r.case \in directory /\ r.case \in EcoCase /\ directory \in SUBSET EcoCase
    BY <2>1 DEF EcoInv, CasesFit, EcoTyped, StarterRow
  <2>3. caseFile' = [caseFile EXCEPT ![r.case] = "imported"] /\ caseFile'[r.case] = "imported"
    BY <1>3, <2>1, <2>2 DEF ImportManifest, WriteCase, CaseOf, EcoInv, EcoTyped
  <2>4. <<>> \in None(StarterRow)
    BY DEF None
  <2>. QED
    BY <1>3, <2>1, <2>2, <2>3, <2>4, StarterTurns DEF ImportManifest
<1>. QED  BY <1>1, <1>2, <1>3

LEMMA StarterSteps ==
    ASSUME EcoInv, NEW s \in Starter, QueueCase(s) \/ SpawnFails(s) \/ WritePid(s) \/ KillStarter(s)
    PROVE  EcoInv'
<1>1. PICK r \in StarterRow : starters[s] = <<r>> /\ starters[s][1] = r
  BY OneStarter DEF EcoInv, QueueCase, SpawnFails, WritePid, KillStarter, InHand
<1>2. /\ r.case \in directory /\ r.case \in EcoCase /\ directory \in SUBSET EcoCase
      /\ r.at # "import" => corpora # 0
  BY <1>1 DEF EcoInv, CasesFit, EcoTyped, StarterRow
<1>3. <<>> \in None(StarterRow) /\ CaseOf(starters[s]) = r.case
  BY <1>1 DEF None, CaseOf
<1>4. CASE QueueCase(s)
  <2>. DEFINE p == <<[case |-> r.case, at |-> "spawn"]>>
  <2>1. p \in None(StarterRow) /\ p[1].case = r.case /\ p[1].at = "spawn" /\ p # <<>>
    BY <1>2 DEF None, StarterRow
  <2>. HIDE DEF p
  <2>2. starters' = [starters EXCEPT ![s] = p] /\ starters'[s] = p
    BY <1>3, <1>4 DEF QueueCase, HandedTo, EcoInv, EcoTyped, p
  <2>3. Tended(r.case)'
    BY <2>1, <2>2 DEF Tended
  <2>4. corpora # 0
    BY <1>1, <1>2, <1>4 DEF QueueCase, InHand
  <2>5. caseFile' = [caseFile EXCEPT ![r.case] = "queued"]
    BY <1>3, <1>4 DEF QueueCase, WriteCase
  <2>. QED
    BY <1>1, <1>2, <1>4, <2>1, <2>2, <2>3, <2>4, <2>5, StarterTurns DEF QueueCase
<1>5. CASE SpawnFails(s)
  <2>1. caseFile' = [caseFile EXCEPT ![r.case] = "failed"] /\ caseFile'[r.case] = "failed"
    BY <1>2, <1>3, <1>5 DEF SpawnFails, WriteCase, EcoInv, EcoTyped
  <2>. QED
    BY <1>1, <1>2, <1>3, <1>5, <2>1, StarterTurns DEF SpawnFails
<1>6. CASE WritePid(s)
  <2>1. caseFile' = [caseFile EXCEPT ![r.case] = "queued"] /\ excused \subseteq excused'
    BY <1>3, <1>6 DEF WritePid, WriteCase
  <2>2. Tended(r.case)'
    <3>1. CASE caseFile[r.case] = "queued"
      <4>1. Tended(r.case)
        BY <1>2, <3>1 DEF EcoInv, CasesTended
      <4>2. r.at = "pid"
        BY <1>1, <1>6 DEF WritePid, InHand
      <4>3. \A t \in Starter : starters'[t] = IF t = s THEN <<>> ELSE starters[t]
        BY <1>6 DEF WritePid, EcoInv, EcoTyped
      <4>. QED
        BY <1>1, <1>6, <2>1, <4>1, <4>2, <4>3 DEF Tended, WritePid
    <3>2. CASE caseFile[r.case] # "queued"
      BY <1>3, <1>6, <3>2 DEF WritePid, Tended
    <3>. QED  BY <3>1, <3>2
  <2>. QED
    BY <1>1, <1>2, <1>3, <1>6, <2>1, <2>2, StarterTurns DEF WritePid
<1>7. CASE KillStarter(s)
  <2>1. Tended(r.case)'
    BY <1>3, <1>7 DEF KillStarter, Tended
  <2>2. excused \subseteq excused'
    BY <1>7 DEF KillStarter
  <2>. QED
    BY <1>1, <1>2, <1>3, <1>7, <2>1, <2>2, StarterTurns DEF KillStarter
<1>. QED  BY <1>4, <1>5, <1>6, <1>7

LEMMA CaseSpawned ==
    ASSUME EcoInv, NEW s \in Starter, NEW a \in Analyst, SpawnAnalyst(s, a)
    PROVE  EcoInv'
<1>1. PICK r \in StarterRow : starters[s] = <<r>> /\ starters[s][1] = r
  BY OneStarter DEF EcoInv, SpawnAnalyst, InHand
<1>2. r.case \in directory /\ r.case \in EcoCase /\ corpora # 0 /\ CaseOf(starters[s]) = r.case
  BY <1>1 DEF EcoInv, CasesFit, StarterRow, SpawnAnalyst, InHand, CaseOf
<1>. DEFINE p == <<[case |-> r.case, at |-> "pid"]>>
            q == <<[case |-> r.case, at |-> "begin", corpus |-> 0]>>
<1>3. /\ p \in None(StarterRow) /\ p # <<>> /\ p[1].case = r.case /\ p[1].at = "pid"
      /\ q \in None(AnalystRow) /\ q # <<>> /\ q[1].case = r.case /\ q[1].at = "begin"
  BY <1>2 DEF None, StarterRow, AnalystRow
<1>. HIDE DEF p, q
<1>4. /\ starters' = [starters EXCEPT ![s] = p] /\ analysts' = [analysts EXCEPT ![a] = q]
      /\ UNCHANGED <<caseFile, directory, runnerLock, corpora, ecoReport, excused>>
      /\ analysts[a] = <<>>
  BY <1>2 DEF SpawnAnalyst, HandedTo, p, q
<1>5. /\ \A t \in Starter : starters'[t] = IF t = s THEN p ELSE starters[t]
      /\ \A b \in Analyst : analysts'[b] = IF b = a THEN q ELSE analysts[b]
  BY <1>4 DEF EcoInv, EcoTyped
<1>6. EcoTyped'
  BY <1>3, <1>4 DEF EcoInv, EcoTyped
<1>7. LockFits'
  BY <1>3, <1>4, <1>5 DEF EcoInv, LockFits, Holders
<1>8. CasesFit'
  BY <1>2, <1>3, <1>4, <1>5 DEF EcoInv, CasesFit
<1>9. CasesTended'
  <2>1. \A c \in EcoCase : Tended(c) => Tended(c)'
    BY <1>1, <1>3, <1>4, <1>5 DEF Tended
  <2>. QED  BY <1>4, <2>1 DEF EcoInv, CasesTended
<1>. QED  BY <1>6, <1>7, <1>8, <1>9 DEF EcoInv

\* Who holds the lock, when one process moves on.
LEMMA RunnerLockMoves ==
    ASSUME EcoInv, NEW a \in Analyst, NEW p, analysts' = [analysts EXCEPT ![a] = p],
           \/ UNCHANGED runnerLock /\ (p = <<>> \/ p[1].at \in {"begin", "lock"} \/ a \in Holders)
           \/ ~runnerLock /\ runnerLock'
           \/ a \in Holders /\ p = <<>>
    PROVE  LockFits'
<1>1. \A b \in Analyst : analysts'[b] = IF b = a THEN p ELSE analysts[b]
  BY DEF EcoInv, EcoTyped
<1>2. Holders' \subseteq Holders \cup {a} /\ (p = <<>> \/ p[1].at \in {"begin", "lock"} => Holders' \subseteq Holders \ {a})
  BY <1>1 DEF Holders
<1>. QED  BY <1>2 DEF EcoInv, LockFits

LEMMA AnalystSteps ==
    ASSUME EcoInv, NEW a \in Analyst,
           \/ ReadCase(a) \/ TakeRunnerLock(a) \/ FindLock(a) \/ RunCase(a) \/ WriteCaseReport(a)
           \/ CompleteCase(a) \/ FailCase(a) \/ ReleaseRunnerLock(a) \/ KillAnalyst(a)
    PROVE  EcoInv'
<1>1. PICK r \in AnalystRow : analysts[a] = <<r>> /\ analysts[a][1] = r
  BY OneAnalyst
     DEF EcoInv, ReadCase, TakeRunnerLock, FindLock, RunCase, WriteCaseReport, CompleteCase,
         FailCase, ReleaseRunnerLock, KillAnalyst, Analysing
<1>2. /\ r.case \in directory /\ r.case \in EcoCase /\ CaseOf(analysts[a]) = r.case
      /\ corpora # 0 /\ corpora \in Nat \ {0}
      /\ r.at # "begin" => r.corpus \in Nat \ {0}
      /\ r.at = "complete" => ecoReport[r.case] # 0
      /\ runnerLock \in BOOLEAN
      /\ a \in Holders <=> r.at \notin {"begin", "lock"}
      /\ <<>> \in None(AnalystRow)
      /\ caseFile[r.case] = "complete" => ecoReport[r.case] # 0
      /\ analysts \in [Analyst -> None(AnalystRow)] /\ analysts[a] # <<>>
  BY <1>1 DEF EcoInv, CasesFit, EcoTyped, AnalystRow, CaseOf, Holders, None
<1>3. CASE ReadCase(a)
  <2>. DEFINE p == <<[case |-> r.case, at |-> "lock", corpus |-> corpora]>>
  <2>1. analysts' = [analysts EXCEPT ![a] = p]
    BY <1>2, <1>3 DEF ReadCase
  <2>2. /\ p \in None(AnalystRow) /\ p # <<>> /\ p[1].case = r.case /\ p[1].at = "lock"
        /\ p[1].corpus # 0
    BY <1>2 DEF None, AnalystRow
  <2>. HIDE DEF p
  <2>3. UNCHANGED <<caseFile, directory, starters, runnerLock, corpora, ecoReport, excused>>
    BY <1>3 DEF ReadCase
  <2>4. LockFits'
    BY <2>1, <2>2, <2>3, RunnerLockMoves
  <2>5. analysts'[a] = p
    BY <1>2, <2>1
  <2>6. Tended(r.case)'
    BY <2>2, <2>5 DEF Tended
  <2>. QED  BY <1>1, <1>2, <2>1, <2>2, <2>3, <2>4, <2>6, AnalystTurns
<1>4. CASE TakeRunnerLock(a)
  <2>. DEFINE p == <<[case |-> r.case, at |-> "running", corpus |-> r.corpus]>>
  <2>1. r.at = "lock" /\ ~runnerLock
    BY <1>1, <1>4 DEF TakeRunnerLock, Analysing, LockFree
  <2>2. analysts' = [analysts EXCEPT ![a] = p]
    BY <1>1, <1>2, <1>4 DEF TakeRunnerLock, GoesOn
  <2>3. /\ p \in None(AnalystRow) /\ p # <<>> /\ p[1].case = r.case /\ p[1].at = "running"
        /\ p[1].corpus # 0
    BY <1>2, <2>1 DEF None, AnalystRow
  <2>. HIDE DEF p
  <2>4. UNCHANGED <<caseFile, directory, starters, corpora, ecoReport, excused>> /\ runnerLock'
    BY <1>4 DEF TakeRunnerLock
  <2>5. LockFits'
    BY <2>1, <2>2, <2>4, RunnerLockMoves
  <2>6. analysts'[a] = p
    BY <1>2, <2>2
  <2>7. Tended(r.case)'
    BY <2>3, <2>6 DEF Tended
  <2>. QED  BY <1>1, <1>2, <2>2, <2>3, <2>4, <2>5, <2>7, AnalystTurns
<1>5. CASE FindLock(a)
  <2>1. LockFits'
    BY <1>5, RunnerLockMoves DEF FindLock
  <2>2. Tended(r.case)' /\ excused \subseteq excused'
    BY <1>2, <1>5 DEF FindLock, Tended
  <2>. QED  BY <1>1, <1>2, <1>5, <2>1, <2>2, AnalystTurns DEF FindLock
<1>6. CASE RunCase(a)
  <2>. DEFINE p == <<[case |-> r.case, at |-> "report", corpus |-> r.corpus]>>
  <2>1. r.at = "running"
    BY <1>1, <1>6 DEF RunCase, Analysing
  <2>2. analysts' = [analysts EXCEPT ![a] = p]
    BY <1>1, <1>2, <1>6 DEF RunCase, GoesOn
  <2>3. /\ p \in None(AnalystRow) /\ p # <<>> /\ p[1].case = r.case /\ p[1].at = "report"
        /\ p[1].corpus # 0
    BY <1>2, <2>1 DEF None, AnalystRow
  <2>. HIDE DEF p
  <2>4. /\ UNCHANGED <<directory, starters, runnerLock, corpora, ecoReport, excused>>
        /\ caseFile' = [caseFile EXCEPT ![r.case] = "running"] /\ caseFile'[r.case] = "running"
    BY <1>2, <1>6 DEF RunCase, WriteCase, EcoInv, EcoTyped
  <2>5. LockFits'
    BY <1>2, <2>1, <2>2, <2>4, RunnerLockMoves
  <2>6. analysts'[a] = p
    BY <1>2, <2>2
  <2>7. Tended(r.case)'
    BY <2>3, <2>6 DEF Tended
  <2>. QED  BY <1>1, <1>2, <2>2, <2>3, <2>4, <2>5, <2>7, AnalystTurns
<1>7. CASE WriteCaseReport(a)
  <2>. DEFINE p == <<[case |-> r.case, at |-> "complete", corpus |-> r.corpus]>>
  <2>1. r.at = "report"
    BY <1>1, <1>7 DEF WriteCaseReport, Analysing
  <2>2. analysts' = [analysts EXCEPT ![a] = p]
    BY <1>1, <1>2, <1>7 DEF WriteCaseReport, GoesOn
  <2>3. /\ p \in None(AnalystRow) /\ p # <<>> /\ p[1].case = r.case /\ p[1].at = "complete"
        /\ p[1].corpus # 0
    BY <1>2, <2>1 DEF None, AnalystRow
  <2>. HIDE DEF p
  <2>4. /\ UNCHANGED <<caseFile, directory, starters, runnerLock, corpora, excused>>
        /\ ecoReport' = [ecoReport EXCEPT ![r.case] = r.corpus] /\ ecoReport'[r.case] # 0
    BY <1>1, <1>2, <1>7, <2>1 DEF WriteCaseReport, EcoInv, EcoTyped
  <2>5. LockFits'
    BY <1>2, <2>1, <2>2, <2>4, RunnerLockMoves
  <2>6. analysts'[a] = p
    BY <1>2, <2>2
  <2>7. Tended(r.case)'
    BY <2>3, <2>6 DEF Tended
  <2>. QED  BY <1>1, <1>2, <2>1, <2>2, <2>3, <2>4, <2>5, <2>7, AnalystTurns
<1>8. ASSUME NEW says \in {"complete", "failed"}, EndCase(a, says),
             r.at \in {"report", "complete"}, says = "complete" => r.at = "complete"
      PROVE  EcoInv'
  <2>. DEFINE p == <<[case |-> r.case, at |-> "unlock", corpus |-> r.corpus]>>
  <2>1. analysts' = [analysts EXCEPT ![a] = p]
    BY <1>1, <1>2, <1>8 DEF EndCase, GoesOn
  <2>2. /\ p \in None(AnalystRow) /\ p # <<>> /\ p[1].case = r.case /\ p[1].at = "unlock"
        /\ p[1].corpus # 0
    BY <1>2, <1>8 DEF None, AnalystRow
  <2>. HIDE DEF p
  <2>3. /\ UNCHANGED <<directory, starters, runnerLock, corpora, ecoReport, excused>>
        /\ caseFile' = [caseFile EXCEPT ![r.case] = says] /\ caseFile'[r.case] = says
    BY <1>2, <1>8 DEF EndCase, WriteCase, EcoInv, EcoTyped
  <2>4. LockFits'
    BY <1>2, <1>8, <2>1, <2>3, RunnerLockMoves
  <2>5. /\ caseFile'[r.case] = "complete" => ecoReport'[r.case] # 0
        /\ caseFile'[r.case] \notin {"queued", "running"}
        /\ says \in {"running", "complete", "failed"}
    BY <1>2, <1>8, <2>3
  <2>. QED
    BY <1>1, <1>2, <2>1, <2>2, <2>3, <2>4, <2>5, AnalystTurns
<1>9. CASE CompleteCase(a) \/ FailCase(a)
  BY <1>1, <1>8, <1>9 DEF CompleteCase, FailCase, Analysing
<1>10. CASE ReleaseRunnerLock(a)
  <2>1. r.at = "unlock"
    BY <1>1, <1>10 DEF ReleaseRunnerLock, Analysing
  <2>2. LockFits'
    BY <1>2, <1>10, <2>1, RunnerLockMoves DEF ReleaseRunnerLock
  <2>3. caseFile[r.case] \in {"queued", "running"} => Tended(r.case)'
    <3>1. caseFile[r.case] \in {"queued", "running"} => Tended(r.case)
      BY <1>2 DEF EcoInv, CasesTended
    <3>2. \A b \in Analyst : analysts'[b] = IF b = a THEN <<>> ELSE analysts[b]
      BY <1>2, <1>10 DEF ReleaseRunnerLock
    <3>. QED  BY <1>1, <1>10, <2>1, <3>1, <3>2 DEF Tended, ReleaseRunnerLock
  <2>. QED  BY <1>1, <1>2, <1>10, <2>2, <2>3, AnalystTurns DEF ReleaseRunnerLock
<1>11. CASE KillAnalyst(a)
  <2>1. LockFits'
    BY <1>11, RunnerLockMoves DEF KillAnalyst
  <2>2. Tended(r.case)' /\ excused \subseteq excused'
    BY <1>2, <1>11 DEF KillAnalyst, Tended
  <2>. QED  BY <1>1, <1>2, <1>11, <2>1, <2>2, AnalystTurns DEF KillAnalyst
<1>. QED  BY <1>3, <1>4, <1>5, <1>6, <1>7, <1>9, <1>10, <1>11

LEMMA EcoInvStep ==
    ASSUME EcoInv, [EcologicalNext]_ecoVars PROVE EcoInv'
<1>1. CASE NewLane
  <2>1. EcoTyped' /\ LockFits'
    BY <1>1 DEF NewLane, EcoInv, EcoTyped, LockFits, Holders
  <2>2. CasesFit'
    BY <1>1 DEF NewLane, EcoInv, EcoTyped, CasesFit
  <2>3. CasesTended'
    BY <1>1 DEF NewLane, EcoInv, CasesTended, Tended
  <2>. QED  BY <2>1, <2>2, <2>3 DEF EcoInv
<1>2. CASE UNCHANGED ecoVars
  BY <1>2 DEF ecoVars, EcoInv, EcoTyped, LockFits, Holders, CasesFit, CasesTended, Tended
<1>. QED  BY <1>1, <1>2, ImportSteps, StarterSteps, CaseSpawned, AnalystSteps DEF EcologicalNext

LEMMA EcoFacts == ASSUME EcoInv PROVE CasesSettled /\ EcologicalTypeOK
<1>1. Cardinality(Holders) <= 1
  <2>1. CASE Holders = {}
    BY <2>1, FS_EmptySet
  <2>2. ASSUME NEW a \in Holders PROVE Cardinality(Holders) <= 1
    <3>1. Holders = {a}
      BY <2>2 DEF EcoInv, LockFits
    <3>. QED  BY <3>1, FS_Singleton
  <2>. QED  BY <2>1, <2>2
<1>2. \A c \in EcoCase : Tended(c) =>
        Minded(c) \/ \E why \in {"killed", "refused", "overwritten"} : <<c, why>> \in excused
  BY DEF Tended, Minded, CaseOf
<1>3. \A s \in Starter : Len(starters[s]) <= 1
  <2>. SUFFICES ASSUME NEW s \in Starter PROVE Len(starters[s]) <= 1
    OBVIOUS
  <2>1. CASE starters[s] = <<>>
    BY <2>1
  <2>2. ASSUME NEW r, starters[s] = <<r>> PROVE Len(starters[s]) <= 1
    BY <2>2
  <2>. QED  BY <2>1, <2>2, OneStarter DEF EcoInv
<1>4. \A a \in Analyst : Len(analysts[a]) <= 1
  <2>. SUFFICES ASSUME NEW a \in Analyst PROVE Len(analysts[a]) <= 1
    OBVIOUS
  <2>1. CASE analysts[a] = <<>>
    BY <2>1
  <2>2. ASSUME NEW r, analysts[a] = <<r>> PROVE Len(analysts[a]) <= 1
    BY <2>2
  <2>. QED  BY <2>1, <2>2, OneAnalyst DEF EcoInv
<1>. QED
  BY <1>1, <1>2, <1>3, <1>4 DEF EcoInv, CasesFit, CasesTended, CasesSettled, EcologicalTypeOK

-----------------------------------------------------------------------------
(* A width run.  A process executes a cell whose future runs; what is       *)
(* collected of a replay is on disk, and no later replay writes there.      *)

Executing == {"executes", "written", "released"}
Ended == Len(replays)

WidthTyped ==
    /\ width \in [phase : {"run", "done", "dead"}, replay : 1 .. WidthReplays]
    /\ future \in [WidthCell -> {"queued", "running", "returned", "broken", "collected"}]
    /\ process \in [WidthCell -> Executing \cup {"none", "terminated"}]
    /\ groups \in [1 .. WidthReplays ->
                     [WidthCell -> [manifest : Manifests, scratch : BOOLEAN, jvm : BOOLEAN]]]
    /\ measured \in [WidthCell -> Manifests \cup {"none"}]
    /\ replays \in Seq([WidthCell -> Manifests \cup {"none"}])
    /\ widthFaults \in Nat

\* A replay ends with the pool shut down, and the last one leaves it so.
ReplaysFit ==
    /\ Ended \in {width.replay - 1, width.replay}
    /\ Ended = width.replay =>
         /\ width.replay = WidthReplays
         /\ \A c \in WidthCell : future[c] = "collected" /\ process[c] = "none"

\* A process executes a cell whose future runs, and no other.
FuturesFit ==
    \A c \in WidthCell :
        /\ process[c] \in Executing => future[c] = "running"
        /\ process[c] = "terminated" => future[c] \notin {"queued", "returned"}

\* What was collected is on disk: of the replays that ended, and of this one.
ManifestsFit ==
    /\ \A r \in 1 .. Ended : \A c \in WidthCell :
         replays[r][c] \in Measurable => groups[r][c].manifest = replays[r][c]
    /\ \A c \in WidthCell :
         measured[c] # "none" => future[c] = "collected"
    /\ \A c \in WidthCell :
         measured[c] \in Measurable => Group(c).manifest = measured[c]

DocumentFits ==
    /\ document = <<>> \/ document = <<document[1]>>
    /\ document # <<>> => width.phase # "run" /\ Ended = WidthReplays

WidthInv ==
    /\ WidthTyped /\ ReplaysFit /\ FuturesFit /\ ManifestsFit /\ DocumentFits
    /\ DocumentTrue /\ ScratchInUse

LEMMA WidthConstants ==
    /\ IsFiniteSet(WidthCell) /\ WidthReplays \in Nat /\ WidthReplays >= 1
    /\ "none" \notin Measurable /\ NoManifest \notin Measurable /\ FailedRow \notin Measurable
<1>1. WidthReplays \in Nat \ {0}
  BY WidthAssumption
<1>2. \A m \in {"no manifest", "failed row", "none"} : m \notin Measurable
  BY Zenon, WidthAssumption
<1>3. IsFiniteSet(WidthCell)
  BY WidthAssumption
<1>4. WidthReplays >= 1
  BY <1>1
<1>5. NoManifest \notin Measurable /\ FailedRow \notin Measurable /\ "none" \notin Measurable
  BY <1>2 DEF NoManifest, FailedRow
<1>. QED  BY <1>1, <1>3, <1>4, <1>5

LEMMA WidthStarts == WidthInit => WidthInv
<1>. SUFFICES ASSUME WidthInit PROVE WidthInv
  OBVIOUS
<1>1. 1 \in 1 .. WidthReplays
  BY WidthConstants
<1>2. Fresh \in [manifest : Manifests, scratch : BOOLEAN, jvm : BOOLEAN]
  BY DEF Fresh, Manifests, NoManifest
<1>3. WidthTyped
  BY <1>1, <1>2 DEF WidthInit, WidthTyped, Executing
<1>4. Ended = 0
  BY DEF WidthInit, Ended
<1>5. ReplaysFit /\ FuturesFit /\ DocumentFits
  BY <1>1, <1>4 DEF WidthInit, ReplaysFit, FuturesFit, DocumentFits, Executing
<1>6. ManifestsFit
  BY <1>4, WidthConstants DEF WidthInit, ManifestsFit
<1>7. DocumentTrue /\ ScratchInUse
  BY DEF WidthInit, DocumentTrue, ScratchInUse, Alive
<1>. QED  BY <1>3, <1>5, <1>6, <1>7 DEF WidthInv

\* The files of the present replay, when one cell's change or none.
CellFiles ==
    /\ groups' \in [1 .. WidthReplays ->
                     [WidthCell -> [manifest : Manifests, scratch : BOOLEAN, jvm : BOOLEAN]]]
    /\ \A r \in 1 .. WidthReplays : r # width.replay => groups'[r] = groups[r]

\* A step within a replay: the supervisor's record stays.
LEMMA WithinReplay ==
    ASSUME WidthInv, UNCHANGED <<width, replays, document>>,
           widthFaults' \in Nat, measured' \in [WidthCell -> Manifests \cup {"none"}],
           future' \in [WidthCell -> {"queued", "running", "returned", "broken", "collected"}],
           process' \in [WidthCell -> Executing \cup {"none", "terminated"}],
           CellFiles,
           document # <<>> => UNCHANGED groups,
           Ended = width.replay => UNCHANGED <<future, process, groups, measured>>,
           FuturesFit', ScratchInUse',
           \A c \in WidthCell : measured'[c] # "none" => future'[c] = "collected",
           \A c \in WidthCell : measured'[c] \in Measurable => Group(c)'.manifest = measured'[c]
    PROVE  WidthInv'
<1>1. WidthTyped'
  BY DEF WidthInv, WidthTyped, CellFiles
<1>2. ReplaysFit'
  BY DEF WidthInv, ReplaysFit, Ended
<1>3. ManifestsFit'
  <2>1. ASSUME NEW r \in 1 .. Ended', NEW c \in WidthCell, replays'[r][c] \in Measurable
        PROVE  groups'[r][c].manifest = replays'[r][c]
    <3>1. groups[r][c].manifest = replays[r][c] /\ r \in 1 .. Ended
      BY <2>1 DEF WidthInv, ManifestsFit, Ended
    <3>2. r \in 1 .. WidthReplays /\ (Ended # width.replay => r # width.replay)
      <4>1. Ended \in Int /\ width.replay \in 1 .. WidthReplays
        BY DEF WidthInv, WidthTyped, Ended
      <4>. QED  BY <3>1, <4>1, WidthConstants DEF WidthInv, ReplaysFit
    <3>. QED  BY <3>1, <3>2 DEF CellFiles
  <2>. QED  BY <2>1 DEF ManifestsFit
<1>4. DocumentFits' /\ DocumentTrue'
  BY DEF WidthInv, DocumentFits, DocumentTrue, Ended
<1>. QED  BY <1>1, <1>2, <1>3, <1>4 DEF WidthInv

\* A change of the files of one cell.
LEMMA CellChange ==
    ASSUME WidthInv, NEW c \in WidthCell,
           NEW g \in [manifest : Manifests, scratch : BOOLEAN, jvm : BOOLEAN],
           groups' = [groups EXCEPT ![width.replay][c] = g], UNCHANGED width
    PROVE  /\ CellFiles
           /\ \A d \in WidthCell : Group(d)' = IF d = c THEN g ELSE Group(d)
           /\ \A d \in WidthCell : Group(d) \in [manifest : Manifests, scratch : BOOLEAN, jvm : BOOLEAN]
BY DEF WidthInv, WidthTyped, CellFiles, Group

\* A row of files with one entry replaced is a row of files.
LEMMA GroupChange ==
    ASSUME WidthInv, NEW c \in WidthCell, NEW m \in Manifests
    PROVE  /\ Group(c) \in [manifest : Manifests, scratch : BOOLEAN, jvm : BOOLEAN]
           /\ \E g \in [manifest : Manifests, scratch : BOOLEAN, jvm : BOOLEAN] :
                /\ g = [Group(c) EXCEPT !.scratch = TRUE, !.jvm = TRUE]
                /\ g.manifest = Group(c).manifest /\ g.scratch /\ g.jvm
           /\ \E g \in [manifest : Manifests, scratch : BOOLEAN, jvm : BOOLEAN] :
                /\ g = [Group(c) EXCEPT !.scratch = FALSE]
                /\ g.manifest = Group(c).manifest /\ g.jvm = Group(c).jvm
           /\ \E g \in [manifest : Manifests, scratch : BOOLEAN, jvm : BOOLEAN] :
                /\ g = [Group(c) EXCEPT !.manifest = m]
                /\ g.scratch = Group(c).scratch /\ g.jvm = Group(c).jvm
<1>1. PICK row \in [manifest : Manifests, scratch : BOOLEAN, jvm : BOOLEAN] : row = Group(c)
  BY DEF WidthInv, WidthTyped, Group
<1>2. /\ [row EXCEPT !.scratch = TRUE, !.jvm = TRUE]
           \in [manifest : Manifests, scratch : BOOLEAN, jvm : BOOLEAN]
      /\ [row EXCEPT !.scratch = TRUE, !.jvm = TRUE].manifest = row.manifest
      /\ [row EXCEPT !.scratch = TRUE, !.jvm = TRUE].scratch
      /\ [row EXCEPT !.scratch = TRUE, !.jvm = TRUE].jvm
  OBVIOUS
<1>3. /\ [row EXCEPT !.scratch = FALSE]
           \in [manifest : Manifests, scratch : BOOLEAN, jvm : BOOLEAN]
      /\ [row EXCEPT !.scratch = FALSE].manifest = row.manifest
      /\ [row EXCEPT !.scratch = FALSE].jvm = row.jvm
  OBVIOUS
<1>4. /\ [row EXCEPT !.manifest = m]
           \in [manifest : Manifests, scratch : BOOLEAN, jvm : BOOLEAN]
      /\ [row EXCEPT !.manifest = m].scratch = row.scratch
      /\ [row EXCEPT !.manifest = m].jvm = row.jvm
  OBVIOUS
<1>. QED  BY <1>1, <1>2, <1>3, <1>4, Zenon

\* What holds of a cell whose process executes.
LEMMA ExecutingCell ==
    ASSUME WidthInv, NEW c \in WidthCell, process[c] # "none"
    PROVE  /\ Ended # width.replay /\ document = <<>>
           /\ process[c] \in Executing => future[c] = "running" /\ measured[c] = "none"
<1>1. Ended # width.replay
  BY DEF WidthInv, ReplaysFit
<1>2. document = <<>>
  <2>1. Ended \in Int /\ width.replay \in 1 .. WidthReplays
    BY DEF WidthInv, WidthTyped, Ended
  <2>. QED  BY <1>1, <2>1, WidthConstants DEF WidthInv, DocumentFits, ReplaysFit
<1>3. process[c] \in Executing => future[c] = "running" /\ measured[c] = "none"
  BY DEF WidthInv, FuturesFit, ManifestsFit
<1>. QED  BY <1>1, <1>2, <1>3

LEMMA CellSteps ==
    ASSUME WidthInv, NEW c \in WidthCell,
           TakeCell(c) \/ WriteOutcome(c) \/ ReleaseCell(c)
    PROVE  WidthInv'
<1>1. CASE TakeCell(c)
  <2>1. PICK g \in [manifest : Manifests, scratch : BOOLEAN, jvm : BOOLEAN] :
          /\ g.manifest = Group(c).manifest /\ g.scratch /\ g.jvm
          /\ groups' = [groups EXCEPT ![width.replay][c] = g]
    <3>1. PICK m : m \in Manifests
      BY DEF Manifests
    <3>. QED  BY <1>1, <3>1, GroupChange DEF TakeCell, Leaves
  <2>2. /\ future' = [future EXCEPT ![c] = "running"] /\ process' = [process EXCEPT ![c] = "executes"]
        /\ UNCHANGED <<width, measured, replays, document, widthFaults>>
        /\ future[c] = "queued" /\ width.phase = "run"
    BY <1>1 DEF TakeCell, Running
  <2>3. /\ CellFiles
        /\ \A d \in WidthCell : Group(d)' = IF d = c THEN g ELSE Group(d)
    BY <2>1, <2>2, CellChange
  <2>4. document = <<>> /\ Ended # width.replay
    BY <2>2 DEF WidthInv, DocumentFits, ReplaysFit
  <2>5. FuturesFit' /\ ScratchInUse'
    BY <2>1, <2>2, <2>3 DEF WidthInv, WidthTyped, FuturesFit, ScratchInUse, Alive, Executing
  <2>6. \A d \in WidthCell : measured'[d] # "none" => future'[d] = "collected"
    BY <2>2 DEF WidthInv, WidthTyped, ManifestsFit
  <2>7. \A d \in WidthCell : measured'[d] \in Measurable => Group(d)'.manifest = measured'[d]
    BY <2>1, <2>2, <2>3 DEF WidthInv, ManifestsFit
  <2>8. /\ future' \in [WidthCell -> {"queued", "running", "returned", "broken", "collected"}]
        /\ process' \in [WidthCell -> Executing \cup {"none", "terminated"}]
        /\ widthFaults' \in Nat /\ measured' \in [WidthCell -> Manifests \cup {"none"}]
    BY <2>2 DEF WidthInv, WidthTyped, Executing
  <2>. QED
    BY <2>2, <2>3, <2>4, <2>5, <2>6, <2>7, <2>8, WithinReplay
<1>2. ASSUME WriteOutcome(c) \/ ReleaseCell(c)
      PROVE  WidthInv'
  <2>1. PICK g \in [manifest : Manifests, scratch : BOOLEAN, jvm : BOOLEAN], p \in {"written", "released"} :
          /\ g.jvm = Group(c).jvm
          /\ groups' = [groups EXCEPT ![width.replay][c] = g]
          /\ process' = [process EXCEPT ![c] = p]
    <3>1. CASE WriteOutcome(c)
      <4>1. PICK m \in Manifests :
              groups' = [groups EXCEPT ![width.replay][c] = [Group(c) EXCEPT !.manifest = m]]
        BY <3>1 DEF WriteOutcome, Leaves
      <4>2. PICK g \in [manifest : Manifests, scratch : BOOLEAN, jvm : BOOLEAN] :
              g = [Group(c) EXCEPT !.manifest = m] /\ g.jvm = Group(c).jvm
        <5>1. m \in Manifests
          BY <4>1
        <5>2. \E g \in [manifest : Manifests, scratch : BOOLEAN, jvm : BOOLEAN] :
                /\ g = [Group(c) EXCEPT !.manifest = m]
                /\ g.scratch = Group(c).scratch /\ g.jvm = Group(c).jvm
          BY <5>1, GroupChange
        <5>. QED  BY <5>2, Zenon
      <4>3. groups' = [groups EXCEPT ![width.replay][c] = g]
        BY <4>1, <4>2, Zenon
      <4>4. process' = [process EXCEPT ![c] = "written"]
        BY <3>1 DEF WriteOutcome
      <4>. QED  BY <4>2, <4>3, <4>4
    <3>2. CASE ReleaseCell(c)
      <4>1. PICK m : m \in Manifests
        BY DEF Manifests
      <4>2. PICK g \in [manifest : Manifests, scratch : BOOLEAN, jvm : BOOLEAN] :
              g = [Group(c) EXCEPT !.scratch = FALSE] /\ g.jvm = Group(c).jvm
        BY <4>1, GroupChange, Zenon
      <4>3. groups' = [groups EXCEPT ![width.replay][c] = g]
        BY <3>2, <4>2, Zenon DEF ReleaseCell, Leaves
      <4>4. process' = [process EXCEPT ![c] = "released"]
        BY <3>2 DEF ReleaseCell
      <4>. QED  BY <4>2, <4>3, <4>4
    <3>. QED  BY <1>2, <3>1, <3>2
  <2>2. /\ process[c] \in Executing
        /\ UNCHANGED <<width, future, measured, replays, document, widthFaults>>
    BY <1>2 DEF WriteOutcome, ReleaseCell, Executing
  <2>3. /\ CellFiles
        /\ \A d \in WidthCell : Group(d)' = IF d = c THEN g ELSE Group(d)
    BY <2>1, <2>2, CellChange
  <2>4. document = <<>> /\ Ended # width.replay /\ future[c] = "running" /\ measured[c] = "none"
    BY <2>2, ExecutingCell DEF Executing
  <2>5. FuturesFit'
    BY <2>1, <2>2, <2>4 DEF WidthInv, WidthTyped, FuturesFit, Executing
  <2>6. ScratchInUse'
    <3>1. Group(c).jvm
      BY <2>2 DEF WidthInv, ScratchInUse, Alive, Executing
    <3>2. g.jvm
      BY <2>1, <3>1, Zenon
    <3>3. \A d \in WidthCell : d # c => Group(d)' = Group(d) /\ process'[d] = process[d]
      BY <2>1, <2>3 DEF WidthInv, WidthTyped
    <3>4. Group(c)' = g /\ process'[c] # "executes"
      BY <2>1, <2>3 DEF WidthInv, WidthTyped
    <3>. QED  BY <3>2, <3>3, <3>4 DEF WidthInv, ScratchInUse, Alive
  <2>7. \A d \in WidthCell : measured'[d] \in Measurable => Group(d)'.manifest = measured'[d]
    BY <2>2, <2>3, <2>4, WidthConstants DEF WidthInv, ManifestsFit
  <2>8. /\ future' \in [WidthCell -> {"queued", "running", "returned", "broken", "collected"}]
        /\ process' \in [WidthCell -> Executing \cup {"none", "terminated"}]
        /\ widthFaults' \in Nat /\ measured' \in [WidthCell -> Manifests \cup {"none"}]
        /\ \A d \in WidthCell : measured'[d] # "none" => future'[d] = "collected"
    BY <2>1, <2>2 DEF WidthInv, WidthTyped, ManifestsFit, Executing
  <2>. QED
    BY <2>2, <2>3, <2>4, <2>5, <2>6, <2>7, <2>8, WithinReplay
<1>. QED  BY <1>1, <1>2

\* A step that leaves the files alone.
LEMMA FilesStay ==
    ASSUME WidthInv, UNCHANGED <<width, groups>>
    PROVE  CellFiles /\ \A d \in WidthCell : Group(d)' = Group(d)
BY DEF WidthInv, WidthTyped, CellFiles, Group

LEMMA PoolSteps ==
    ASSUME WidthInv, NEW c \in WidthCell,
           ReturnCell(c) \/ ProcessDies(c) \/ ProcessGone(c)
    PROVE  WidthInv'
<1>1. UNCHANGED <<width, groups, measured, replays, document>> /\ widthFaults' \in Nat
  BY DEF WidthInv, WidthTyped, ReturnCell, ProcessDies, ProcessGone
<1>2. CellFiles /\ \A d \in WidthCell : Group(d)' = Group(d)
  BY <1>1, FilesStay
<1>3. process[c] # "none"
  BY DEF ReturnCell, ProcessDies, ProcessGone
<1>4. document = <<>> /\ Ended # width.replay
  BY <1>3, ExecutingCell
<1>5. /\ future' \in [WidthCell -> {"queued", "running", "returned", "broken", "collected"}]
      /\ process' \in [WidthCell -> Executing \cup {"none", "terminated"}]
  BY DEF WidthInv, WidthTyped, ReturnCell, ProcessDies, ProcessGone, BrokenFutures, Alive, Executing
<1>6. \A d \in WidthCell : future[d] = "collected" => future'[d] = "collected"
  BY DEF WidthInv, WidthTyped, ReturnCell, ProcessDies, ProcessGone, BrokenFutures
<1>7. \A d \in WidthCell :
        /\ process'[d] # "none" => process[d] # "none"
        /\ process'[d] \in Executing => process'[d] = process[d]
  BY DEF WidthInv, WidthTyped, ReturnCell, ProcessDies, ProcessGone, Alive, Executing
<1>8. FuturesFit'
  <2>1. CASE ReturnCell(c) \/ ProcessGone(c)
    BY <2>1 DEF WidthInv, WidthTyped, FuturesFit, ReturnCell, ProcessGone, Executing
  <2>2. CASE ProcessDies(c)
    BY <2>2 DEF WidthInv, WidthTyped, FuturesFit, ProcessDies, BrokenFutures, Alive, Executing
  <2>. QED  BY <2>1, <2>2
<1>9. ScratchInUse'
  BY <1>2, <1>7 DEF WidthInv, ScratchInUse, Alive, Executing
<1>10. /\ measured' \in [WidthCell -> Manifests \cup {"none"}]
       /\ \A d \in WidthCell : measured'[d] # "none" => future'[d] = "collected"
       /\ \A d \in WidthCell : measured'[d] \in Measurable => Group(d)'.manifest = measured'[d]
  BY <1>1, <1>2, <1>6 DEF WidthInv, WidthTyped, ManifestsFit
<1>. QED
  BY <1>1, <1>2, <1>4, <1>5, <1>8, <1>9, <1>10, WithinReplay

LEMMA CollectStep ==
    ASSUME WidthInv, NEW c \in WidthCell, Collect(c)
    PROVE  WidthInv'
<1>1. /\ UNCHANGED <<width, process, groups, replays, document, widthFaults>>
      /\ future' = [future EXCEPT ![c] = "collected"]
      /\ future[c] \in {"returned", "broken"} /\ width.phase = "run"
      /\ measured' = [measured EXCEPT ![c] = ManifestOf(c)]
  BY DEF Collect, Running
<1>2. CellFiles /\ \A d \in WidthCell : Group(d)' = Group(d)
  BY <1>1, FilesStay
<1>3. document = <<>> /\ Ended # width.replay
  BY <1>1 DEF WidthInv, DocumentFits, ReplaysFit
<1>4. PICK m \in Manifests : m = ManifestOf(c)
  BY DEF WidthInv, WidthTyped, ManifestOf, Group, Manifests
<1>5. m \in Measurable => m = Group(c).manifest
  BY <1>4, WidthConstants DEF ManifestOf
<1>6. FuturesFit'
  BY <1>1 DEF WidthInv, WidthTyped, FuturesFit, Executing
<1>7. ScratchInUse'
  BY <1>1, <1>2 DEF WidthInv, ScratchInUse, Alive
<1>8. /\ measured' \in [WidthCell -> Manifests \cup {"none"}]
      /\ future' \in [WidthCell -> {"queued", "running", "returned", "broken", "collected"}]
      /\ process' \in [WidthCell -> Executing \cup {"none", "terminated"}]
      /\ widthFaults' \in Nat
      /\ \A d \in WidthCell : measured'[d] # "none" => future'[d] = "collected"
      /\ \A d \in WidthCell : measured'[d] = IF d = c THEN m ELSE measured[d]
  BY <1>1, <1>4 DEF WidthInv, WidthTyped, ManifestsFit
<1>9. \A d \in WidthCell : measured'[d] \in Measurable => Group(d)'.manifest = measured'[d]
  BY <1>2, <1>5, <1>8 DEF WidthInv, ManifestsFit
<1>. QED
  BY <1>1, <1>2, <1>3, <1>6, <1>7, <1>8, <1>9, WithinReplay

\* The end of a replay: what was collected is appended, the files stay but for
\* the JVM's, and the next replay starts with files of its own.
LEMMA ReplayEnds ==
    ASSUME WidthInv, EndReplay
    PROVE  WidthInv'
<1>1. /\ width.phase = "run" /\ Ended < WidthReplays
      /\ \A c \in WidthCell : future[c] = "collected" /\ process[c] = "none"
      /\ replays' = Append(replays, measured)
      /\ UNCHANGED <<process, document, widthFaults>>
  BY DEF EndReplay, Running, Ended, Collected, PoolShutDown, Alive
<1>2. width.replay \in 1 .. WidthReplays /\ Ended \in Int /\ Ended >= 0
      /\ Ended = width.replay - 1
  <2>1. width.replay \in 1 .. WidthReplays /\ Ended \in Nat
    BY DEF WidthInv, WidthTyped, Ended
  <2>. QED  BY <1>1, <2>1, WidthConstants DEF WidthInv, ReplaysFit
<1>3. document = <<>>
  BY <1>1 DEF WidthInv, DocumentFits
<1>4. /\ replays' \in Seq([WidthCell -> Manifests \cup {"none"}]) /\ Ended' = width.replay
      /\ \A r \in 1 .. Ended : replays'[r] = replays[r]
      /\ replays'[width.replay] = measured
  BY <1>1, <1>2 DEF WidthInv, WidthTyped, Ended
<1>5. /\ groups' \in [1 .. WidthReplays ->
                      [WidthCell -> [manifest : Manifests, scratch : BOOLEAN, jvm : BOOLEAN]]]
      /\ \A r \in 1 .. WidthReplays, c \in WidthCell :
           groups'[r][c].manifest = groups[r][c].manifest
  <2>1. PICK row \in [WidthCell -> [manifest : Manifests, scratch : BOOLEAN, jvm : BOOLEAN]] :
          /\ \A c \in WidthCell : row[c].manifest = groups[width.replay][c].manifest
          /\ groups' = [groups EXCEPT ![width.replay] = row]
    <3>1. PICK old \in [WidthCell -> [manifest : Manifests, scratch : BOOLEAN, jvm : BOOLEAN]] :
            old = groups[width.replay]
      BY <1>2 DEF WidthInv, WidthTyped
    <3> DEFINE row == [c \in WidthCell |-> [old[c] EXCEPT !.jvm = FALSE]]
    <3>2. row \in [WidthCell -> [manifest : Manifests, scratch : BOOLEAN, jvm : BOOLEAN]]
          /\ \A c \in WidthCell : row[c].manifest = old[c].manifest
      OBVIOUS
    <3>3. groups' = [groups EXCEPT ![width.replay] = row]
      BY <3>1 DEF EndReplay
    <3> HIDE DEF row
    <3>. QED  BY <3>1, <3>2, <3>3
  <2>. QED  BY <1>2, <2>1 DEF WidthInv, WidthTyped
<1>6. ASSUME NEW r \in 1 .. Ended', NEW c \in WidthCell, replays'[r][c] \in Measurable
      PROVE  groups'[r][c].manifest = replays'[r][c]
  <2>2. r \in 1 .. WidthReplays /\ (r = width.replay \/ r \in 1 .. Ended)
    BY <1>2, <1>4, WidthConstants
  <2>3. CASE r = width.replay
    BY <1>4, <1>5, <1>6, <2>2, <2>3 DEF WidthInv, ManifestsFit, Group
  <2>4. CASE r \in 1 .. Ended
    BY <1>4, <1>5, <1>6, <2>2, <2>4 DEF WidthInv, ManifestsFit
  <2>. QED  BY <2>2, <2>3, <2>4
<1>7. DocumentFits' /\ DocumentTrue'
  BY <1>1, <1>3 DEF DocumentFits, DocumentTrue
<1>8. ScratchInUse'
  BY <1>1 DEF ScratchInUse, Alive
<1>9. CASE width.replay < WidthReplays
  <2>1. /\ width' = [width EXCEPT !.replay = width.replay + 1]
        /\ future' = [c \in WidthCell |-> "queued"] /\ measured' = [c \in WidthCell |-> "none"]
    BY <1>9 DEF EndReplay
  <2>2. width' \in [phase : {"run", "done", "dead"}, replay : 1 .. WidthReplays]
        /\ width'.replay = width.replay + 1
    BY <1>2, <1>9, <2>1, WidthConstants DEF WidthInv, WidthTyped
  <2>3. WidthTyped'
    BY <1>1, <1>4, <1>5, <2>1, <2>2 DEF WidthInv, WidthTyped
  <2>4. ReplaysFit' /\ FuturesFit'
    BY <1>1, <1>2, <1>4, <2>1, <2>2 DEF ReplaysFit, FuturesFit, Executing
  <2>5. ManifestsFit'
    BY <1>6, <2>1, WidthConstants DEF ManifestsFit
  <2>. QED  BY <1>7, <1>8, <2>3, <2>4, <2>5 DEF WidthInv
<1>10. CASE ~(width.replay < WidthReplays)
  <2>1. UNCHANGED <<width, future, measured>> /\ width.replay = WidthReplays
    BY <1>2, <1>10, WidthConstants DEF EndReplay
  <2>2. WidthTyped'
    BY <1>1, <1>4, <1>5, <2>1 DEF WidthInv, WidthTyped
  <2>3. ReplaysFit' /\ FuturesFit'
    BY <1>1, <1>2, <1>4, <2>1 DEF ReplaysFit, FuturesFit, Executing
  <2>4. \A c \in WidthCell : Group(c)'.manifest = Group(c).manifest
    BY <1>2, <1>5, <2>1 DEF Group
  <2>5. ManifestsFit'
    BY <1>6, <2>1, <2>4 DEF WidthInv, ManifestsFit
  <2>. QED  BY <1>7, <1>8, <2>2, <2>3, <2>5 DEF WidthInv
<1>. QED  BY <1>9, <1>10

\* As many complete cells as there are cells of all replays: all are complete.
LEMMA AllComplete ==
    ASSUME WidthInv, Ended = WidthReplays,
           Completed = WidthReplays * Cardinality(WidthCell)
    PROVE  \A r \in 1 .. WidthReplays, c \in WidthCell : replays[r][c] \in Measurable
<1> DEFINE All == (1 .. WidthReplays) \X WidthCell
           Some == {x \in All : x[2] \in CompleteCells(replays[x[1]])}
<1>1. IsFiniteSet(1 .. WidthReplays) /\ Cardinality(1 .. WidthReplays) = WidthReplays
  <2>1. 1 \in Int /\ WidthReplays \in Int /\ 1 <= WidthReplays
    BY WidthConstants
  <2>2. WidthReplays - 1 + 1 = WidthReplays
    BY <2>1
  <2>. QED  BY <2>1, <2>2, FS_Interval
<1>2. IsFiniteSet(All) /\ Cardinality(All) = WidthReplays * Cardinality(WidthCell)
  BY <1>1, WidthConstants, FS_Product
<1>3. Cardinality(Some) = Cardinality(All)
  BY <1>2 DEF Completed
<1>4. Some \subseteq All
  OBVIOUS
<1>5. Some = All
  BY <1>2, <1>3, <1>4, FS_Subset
<1>6. TAKE r \in 1 .. WidthReplays, c \in WidthCell
<1>7. <<r, c>> \in Some
  BY <1>5, <1>6
<1>. QED  BY <1>7 DEF CompleteCells

LEMMA RunEnds ==
    ASSUME WidthInv, FinishRun
    PROVE  WidthInv'
<1>1. /\ width.phase = "run" /\ Ended = WidthReplays
      /\ width' = [width EXCEPT !.phase = "done"]
      /\ UNCHANGED <<future, process, groups, measured, replays, widthFaults>>
  BY DEF FinishRun, Running, Ended, poolVars
<1>2. PICK says : says = IF Completed = WidthReplays * Cardinality(WidthCell)
                             THEN "measured-complete" ELSE "measured-incomplete"
  OBVIOUS
<1>3. document' = <<[state |-> says, matching |-> Matching, mismatches |-> Compared \ Matching]>>
  BY <1>2 DEF FinishRun
<1>4. width'.replay = width.replay /\ width'.phase = "done"
      /\ width' \in [phase : {"run", "done", "dead"}, replay : 1 .. WidthReplays]
  BY <1>1 DEF WidthInv, WidthTyped
<1>5. WidthTyped'
  BY <1>1, <1>4 DEF WidthInv, WidthTyped
<1>6. ReplaysFit' /\ FuturesFit' /\ ManifestsFit' /\ ScratchInUse'
  BY <1>1, <1>4 DEF WidthInv, ReplaysFit, FuturesFit, ManifestsFit, ScratchInUse, Ended, Group, Alive
<1>7. DocumentFits'
  BY <1>1, <1>3, <1>4 DEF DocumentFits, Ended
<1>8. ASSUME says = "measured-complete"
      PROVE  \A r \in 1 .. WidthReplays, c \in WidthCell :
               replays[r][c] \in Measurable /\ groups[r][c].manifest = replays[r][c]
  <2>1. Completed = WidthReplays * Cardinality(WidthCell)
    BY <1>2, <1>8
  <2>. QED  BY <1>1, <2>1, AllComplete DEF WidthInv, ManifestsFit
<1>9. ASSUME says = "measured-complete", Compared \ Matching = {},
             NEW r \in 1 .. WidthReplays, NEW c \in WidthCell
      PROVE  groups[r][c].manifest = groups[1][c].manifest
  <2>1. 1 \in 1 .. WidthReplays
    BY WidthConstants
  <2>2. CASE r = 1
    BY <2>2
  <2>3. CASE r # 1
    <3>1. r \in 2 .. Len(replays)
      BY <1>1, <1>9, <2>3, WidthConstants DEF Ended
    <3>2. <<r, c>> \in Compared
      BY <1>8, <1>9, <2>1, <3>1 DEF Compared, CompleteCells
    <3>3. <<r, c>> \in Matching
      BY <1>9, <3>2
    <3>4. replays[1][c] = replays[r][c]
      BY <3>3 DEF Matching
    <3>. QED  BY <1>8, <1>9, <2>1, <3>4
  <2>. QED  BY <2>2, <2>3
<1>10. DocumentTrue'
  <2>1. DOMAIN document' = {1} /\ document'[1].state = says
        /\ document'[1].mismatches = Compared \ Matching
    BY <1>3
  <2>2. UNCHANGED <<groups, replays>>
    BY <1>1
  <2>. QED  BY <1>8, <1>9, <2>1, <2>2 DEF DocumentTrue
<1>. QED  BY <1>5, <1>6, <1>7, <1>10 DEF WidthInv

LEMMA RunStops ==
    ASSUME WidthInv, NEW terminated \in BOOLEAN, StopRun(terminated)
    PROVE  WidthInv'
<1>1. /\ width.phase = "run" /\ width' = [width EXCEPT !.phase = "dead"]
      /\ UNCHANGED <<future, groups, measured, replays, document>>
      /\ process' = [c \in WidthCell |->
                       IF Alive(c) /\ terminated THEN "terminated" ELSE process[c]]
      /\ widthFaults' = widthFaults + 1
  BY DEF StopRun, Running
<1>2. width'.replay = width.replay /\ width'.phase = "dead"
      /\ width' \in [phase : {"run", "done", "dead"}, replay : 1 .. WidthReplays]
  BY <1>1 DEF WidthInv, WidthTyped
<1>3. document = <<>>
  BY <1>1 DEF WidthInv, DocumentFits
<1>4. WidthTyped'
  BY <1>1, <1>2 DEF WidthInv, WidthTyped, Executing
<1>5. \A c \in WidthCell :
        /\ process'[c] = "none" <=> process[c] = "none"
        /\ process'[c] \in Executing => process'[c] = process[c]
        /\ process'[c] = "terminated" =>
             process[c] = "terminated" \/ process[c] \in Executing
  BY <1>1 DEF WidthInv, WidthTyped, Alive, Executing
<1>6. FuturesFit'
  BY <1>1, <1>5 DEF WidthInv, FuturesFit
<1>7. ReplaysFit' /\ ManifestsFit'
  BY <1>1, <1>2, <1>5 DEF WidthInv, ReplaysFit, ManifestsFit, Ended, Group
<1>8. ScratchInUse'
  BY <1>1, <1>2, <1>5 DEF WidthInv, ScratchInUse, Alive, Group, Executing
<1>9. DocumentFits' /\ DocumentTrue'
  BY <1>1, <1>3 DEF DocumentFits, DocumentTrue
<1>. QED  BY <1>4, <1>6, <1>7, <1>8, <1>9 DEF WidthInv

LEMMA WidthInvStep == WidthInv /\ [WidthNext]_widthVars => WidthInv'
<1>. SUFFICES ASSUME WidthInv, [WidthNext]_widthVars PROVE WidthInv'
  OBVIOUS
<1>1. ASSUME NEW c \in WidthCell,
             TakeCell(c) \/ WriteOutcome(c) \/ ReleaseCell(c) \/ ReturnCell(c)
             \/ ProcessDies(c) \/ ProcessGone(c) \/ Collect(c)
      PROVE  WidthInv'
  BY <1>1, CellSteps, PoolSteps, CollectStep
<1>2. CASE EndReplay \/ FinishRun
  BY <1>2, ReplayEnds, RunEnds
<1>3. ASSUME NEW terminated \in BOOLEAN, StopRun(terminated)
      PROVE  WidthInv'
  BY <1>3, RunStops
<1>4. CASE UNCHANGED widthVars
  <2>1. UNCHANGED <<width, future, process, groups, measured, replays, document, widthFaults>>
    BY <1>4 DEF widthVars, poolVars
  <2>2. WidthTyped' /\ ReplaysFit' /\ FuturesFit' /\ DocumentFits'
    BY <2>1 DEF WidthInv, WidthTyped, ReplaysFit, FuturesFit, DocumentFits, Ended
  <2>3. ManifestsFit' /\ ScratchInUse'
    BY <2>1 DEF WidthInv, ManifestsFit, ScratchInUse, Ended, Group, Alive
  <2>4. DocumentTrue'
    BY <2>1 DEF WidthInv, DocumentTrue
  <2>. QED  BY <2>2, <2>3, <2>4 DEF WidthInv
<1>. QED  BY <1>1, <1>2, <1>3, <1>4 DEF WidthNext

LEMMA WidthFacts == WidthInv => WidthTrue /\ WidthTypeOK
<1>. SUFFICES ASSUME WidthInv PROVE WidthTrue /\ WidthTypeOK
  OBVIOUS
<1>1. Len(replays) <= WidthReplays
  <2>1. width.replay \in 1 .. WidthReplays /\ Len(replays) \in Nat
    BY DEF WidthInv, WidthTyped
  <2>. QED  BY <2>1, WidthConstants DEF WidthInv, ReplaysFit, Ended
<1>2. Len(document) <= 1
  <2>1. CASE document = <<>>
    BY <2>1
  <2>2. CASE document = <<document[1]>>
    <3>1. PICK row : row = document[1]
      OBVIOUS
    <3>2. document = <<row>>
      BY <2>2, <3>1
    <3>. QED  BY <3>2
  <2>. QED  BY <2>1, <2>2 DEF WidthInv, DocumentFits
<1>. QED
  BY <1>1, <1>2 DEF WidthInv, WidthTyped, WidthTrue, WidthTypeOK, Executing

-----------------------------------------------------------------------------
(* The schedule of windows. A window opens on its day and closes by the    *)
(* end of the next, so that the two dates that evaluate looks at are all   *)
(* that can be open, and a later date starts later. A claim that is        *)
(* executed under a cutoff has its alarm armed, or the signal of it        *)
(* pending; and the outbox lock is held by the worker whose notice is      *)
(* half written, at the end of the open line.                              *)

LEMMA DayFacts ==
    /\ DayLength \in Nat /\ DayLength >= 1
    /\ FirstHour \in Nat /\ LastHour \in Nat /\ DayLength <= FirstHour /\ FirstHour <= LastHour
    /\ \A n \in Int : n # NoClock /\ n # Inherit
<1>1. DayLength \in Nat \ {0} /\ {FirstHour, LastHour, MaxWindowFaults} \subseteq Nat
      /\ DayLength <= FirstHour /\ FirstHour <= LastHour
  BY WindowAssumption
<1>2. \A n \in Int : n \notin Marks
  BY Zenon, WindowAssumption
<1>. QED  BY <1>1, <1>2 DEF Marks

\* The hour of an earlier day and clock is earlier by the days between.
LEMMA DaysApart ==
    ASSUME NEW d \in Int, NEW e \in Int, d < e
    PROVE  /\ d * DayLength \in Int /\ e * DayLength \in Int
           /\ d * DayLength + DayLength <= e * DayLength
<1>. DEFINE L == DayLength
<1>1. L \in Nat /\ L >= 1
  BY DayFacts
<1>. HIDE DEF L
<1>2. PICK n \in Nat : e = d + 1 + n
  <2>1. e - d - 1 \in Nat /\ e = d + 1 + (e - d - 1)
    OBVIOUS
  <2>. QED  BY <2>1
<1>3. n * L >= 0 /\ n * L \in Int /\ d * L \in Int
  BY <1>1
<1>4. (d + 1 + n) * L = d * L + L + n * L
  BY <1>1
<1>5. e * L = d * L + L + n * L
  BY <1>2, <1>4
<1>6. d * L \in Int /\ e * L \in Int /\ d * L + L <= e * L
  BY <1>1, <1>3, <1>5
<1>. QED  BY <1>6 DEF L

LEMMA DaysLater ==
    ASSUME NEW d \in Int
    PROVE  /\ d * DayLength \in Int
           /\ (d + 1) * DayLength = d * DayLength + DayLength
           /\ (d + 8) * DayLength = d * DayLength + 8 * DayLength
<1>1. DayLength \in Int
  BY DayFacts
<1>. QED  BY <1>1

LEMMA DateFacts ==
    ASSUME NEW h \in Nat
    PROVE  /\ DateOf(h) \in Nat
           /\ DateOf(h) * DayLength <= h /\ h < DateOf(h) * DayLength + DayLength
BY DayFacts DEF DateOf

LEMMA ScheduleRowFacts ==
    ASSUME NEW s \in ScheduleRows, NEW date \in Nat
    PROVE  /\ RowOf(s, date).start \in Clocks /\ RowOf(s, date).stop \in Clocks
           /\ RowOf(s, date).cutoff \in Clocks \cup {NoClock}
<1>1. /\ s.start \in Clocks /\ s.stop \in Clocks /\ s.cutoff \in Clocks \cup {NoClock}
      /\ date \in DOMAIN s.overrides =>
           /\ s.overrides[date].start \in Clocks \cup {Inherit}
           /\ s.overrides[date].stop \in Clocks \cup {Inherit}
           /\ s.overrides[date].cutoff \in Clocks \cup {NoClock, Inherit}
  BY WindowAssumption DEF Marks
<1>2. CASE date \in DOMAIN s.overrides
  <2>. DEFINE row == [name \in {"start", "stop", "cutoff"} |-> Field(s.overrides[date], name, s)]
  <2>1. RowOf(s, date) = row
    BY <1>2 DEF RowOf
  <2>2. /\ row["start"] = Field(s.overrides[date], "start", s)
        /\ row["stop"] = Field(s.overrides[date], "stop", s)
        /\ row["cutoff"] = Field(s.overrides[date], "cutoff", s)
    OBVIOUS
  <2>3. /\ Field(s.overrides[date], "start", s) \in Clocks
        /\ Field(s.overrides[date], "stop", s) \in Clocks
        /\ Field(s.overrides[date], "cutoff", s) \in Clocks \cup {NoClock}
    BY <1>1, <1>2 DEF Field
  <2>. HIDE DEF row
  <2>. QED  BY <2>1, <2>2, <2>3
<1>3. CASE date \notin DOMAIN s.overrides
  BY <1>1, <1>3 DEF RowOf
<1>. QED  BY <1>2, <1>3

LEMMA BoundaryFacts ==
    ASSUME NEW date \in Nat, NEW start \in Clocks, NEW clock \in Clocks
    PROVE  /\ Boundary(date, start, clock) \in Int
           /\ Boundary(date, start, clock) < date * DayLength + 2 * DayLength
<1>1. CASE clock <= start
  <2>1. Boundary(date, start, clock) = date * DayLength + DayLength + clock
    BY <1>1, DaysLater DEF Boundary, HourOf
  <2>. QED  BY <2>1, DayFacts, DaysLater DEF Clocks
<1>2. CASE ~(clock <= start)
  <2>1. Boundary(date, start, clock) = date * DayLength + clock
    BY <1>2 DEF Boundary, HourOf
  <2>. QED  BY <2>1, DayFacts, DaysLater DEF Clocks
<1>. QED  BY <1>1, <1>2

\* A window opens on its day and closes by the end of the next one.
LEMMA WindowSpan ==
    ASSUME NEW s \in ScheduleRows, NEW date \in Nat
    PROVE  LET w == Window(s, date) IN
           /\ w.start \in Int /\ w.stop \in Int /\ EndOf(w) \in Int
           /\ date * DayLength <= w.start /\ w.start < date * DayLength + DayLength
           /\ EndOf(w) < date * DayLength + 2 * DayLength
           /\ w.enabled = EnabledOn(s, date)
<1>1. PICK start, stop, cutoff :
        start = RowOf(s, date).start /\ stop = RowOf(s, date).stop
        /\ cutoff = RowOf(s, date).cutoff
  OBVIOUS
<1>2. start \in Clocks /\ stop \in Clocks /\ cutoff \in Clocks \cup {NoClock}
  BY <1>1, ScheduleRowFacts
<1>3. /\ Window(s, date).start = date * DayLength + start
      /\ Window(s, date).stop = Boundary(date, start, stop)
      /\ Window(s, date).cutoff = IF cutoff = NoClock THEN NoClock
                                  ELSE Boundary(date, start, cutoff)
      /\ Window(s, date).enabled = EnabledOn(s, date)
  BY <1>1 DEF Window, HourOf
<1>4. /\ Boundary(date, start, stop) \in Int
      /\ Boundary(date, start, stop) < date * DayLength + 2 * DayLength
      /\ cutoff # NoClock => /\ Boundary(date, start, cutoff) \in Int
                             /\ Boundary(date, start, cutoff) < date * DayLength + 2 * DayLength
  BY <1>2, BoundaryFacts
<1>5. EndOf(Window(s, date)) \in {Boundary(date, start, stop)} \cup
        (IF cutoff = NoClock THEN {} ELSE {Boundary(date, start, cutoff)})
  BY <1>3, <1>4, DayFacts DEF EndOf
<1>6. date * DayLength \in Int
  BY DaysLater
<1>7. /\ date * DayLength <= date * DayLength + start
      /\ date * DayLength + start < date * DayLength + DayLength
      /\ date * DayLength + start \in Int
  BY <1>2, <1>6, DayFacts DEF Clocks
<1>. QED  BY <1>3, <1>4, <1>5, <1>7

\* The windows that are open are yesterday's and today's.
LEMMA OpenDates ==
    ASSUME NEW s \in ScheduleRows, NEW h \in Nat, NEW d \in Nat, OpenAt(Window(s, d), h)
    PROVE  d \in {DateOf(h) - 1, DateOf(h)}
<1>1. /\ d * DayLength <= h /\ h < d * DayLength + 2 * DayLength
      /\ DateOf(h) * DayLength <= h /\ h < DateOf(h) * DayLength + DayLength
      /\ DateOf(h) \in Nat /\ DayLength \in Nat
      /\ d * DayLength \in Int /\ DateOf(h) * DayLength \in Int
  <2>1. /\ d * DayLength <= Window(s, d).start /\ Window(s, d).start \in Int
        /\ EndOf(Window(s, d)) \in Int /\ EndOf(Window(s, d)) < d * DayLength + 2 * DayLength
    BY WindowSpan
  <2>2. Window(s, d).start <= h /\ h < EndOf(Window(s, d))
    BY DEF OpenAt
  <2>3. d * DayLength \in Int /\ DayLength \in Nat /\ 2 * DayLength \in Int
    BY DayFacts, DaysLater
  <2>4. /\ DateOf(h) * DayLength <= h /\ h < DateOf(h) * DayLength + DayLength
        /\ DateOf(h) \in Nat /\ DateOf(h) * DayLength \in Int
    BY DateFacts, DaysLater
  <2>. QED  BY <2>1, <2>2, <2>3, <2>4
<1>2. ~(DateOf(h) < d)
  BY <1>1, DaysApart
<1>3. ~(d + 1 < DateOf(h))
  <2>1. ASSUME d + 1 < DateOf(h) PROVE FALSE
    <3>1. (d + 1) * DayLength + DayLength <= DateOf(h) * DayLength
      BY <1>1, <2>1, DaysApart
    <3>. QED  BY <1>1, <3>1, DaysLater
  <2>. QED  BY <2>1
<1>4. DateOf(h) \in Nat
  BY DateFacts
<1>. QED  BY <1>2, <1>3, <1>4

LEMMA ActiveOpen ==
    ASSUME NEW s \in ScheduleRows, NEW h \in Nat, DayLength <= h
    PROVE  /\ DateOf(h) >= 1
           /\ ActiveDates(s, h) = {d \in 0 .. DateOf(h) + 9 : OpenAt(Window(s, d), h)}
<1>1. DateOf(h) \in Nat /\ DateOf(h) # 0
  BY DateFacts, DayFacts
<1>2. \A d : d \in {DateOf(h) - 1, DateOf(h)} => d \in 0 .. DateOf(h) + 9
  BY <1>1
<1>3. \A d \in 0 .. DateOf(h) + 9 : OpenAt(Window(s, d), h) => d \in {DateOf(h) - 1, DateOf(h)}
  BY <1>1, OpenDates
<1>. QED  BY <1>1, <1>2, <1>3 DEF ActiveDates

\* Of two windows the later one starts later.
LEMMA LaterStart ==
    ASSUME NEW s \in ScheduleRows, NEW d \in Nat, NEW e \in Nat, d < e
    PROVE  Window(s, d).start < Window(s, e).start
<1>1. /\ Window(s, d).start \in Int /\ Window(s, e).start \in Int
      /\ Window(s, d).start < d * DayLength + DayLength
      /\ e * DayLength <= Window(s, e).start
      /\ d * DayLength + DayLength <= e * DayLength
      /\ d * DayLength \in Int /\ e * DayLength \in Int /\ DayLength \in Int
  BY WindowSpan, DaysApart, DayFacts
<1>. QED  BY <1>1

LEMMA MaxOfDates ==
    ASSUME NEW h \in Nat, NEW S \in SUBSET {DateOf(h) - 1, DateOf(h)}, S # {}
    PROVE  Max(S) \in S /\ \A d \in S : d <= Max(S)
<1>1. DateOf(h) \in Nat
  BY DateFacts
<1>2. \E x \in S : \A y \in S : x >= y
  <2>1. CASE DateOf(h) \in S
    BY <1>1, <2>1
  <2>2. CASE DateOf(h) \notin S
    <3>1. PICK x \in S : x = DateOf(h) - 1
      BY <2>2
    <3>2. \A y \in S : y = x
      BY <2>2, <3>1
    <3>. QED  BY <1>1, <3>1, <3>2
  <2>. QED  BY <2>1, <2>2
<1>3. Max(S) \in S /\ \A y \in S : Max(S) >= y
  BY <1>2 DEF Max
<1>. QED  BY <1>1, <1>3

\* The next window starts within nine days.
LEMMA StartsLater ==
    ASSUME NEW s \in ScheduleRows, NEW h \in Nat
    PROVE  LaterStarts(s, h) =
             {Window(s, d).start : d \in {e \in 0 .. DateOf(h) + 8 :
                                            Window(s, e).enabled /\ Window(s, e).start > h}}
<1>1. /\ DateOf(h) \in Nat /\ DateOf(h) * DayLength <= h
      /\ h < DateOf(h) * DayLength + DayLength
      /\ DateOf(h) * DayLength \in Int /\ DayLength \in Nat
  BY DateFacts, DayFacts, DaysLater
<1>2. ASSUME NEW d \in 0 .. DateOf(h) + 8, Window(s, d).start > h
      PROVE  d \in DateOf(h) .. DateOf(h) + 8 /\ Window(s, d).start \in h + 1 .. h + 9 * DayLength
  <2>1. /\ Window(s, d).start \in Int /\ d * DayLength <= Window(s, d).start
        /\ Window(s, d).start < d * DayLength + DayLength /\ d * DayLength \in Int
    BY WindowSpan, DaysLater
  <2>2. ~(d < DateOf(h))
    <3>1. ASSUME d < DateOf(h) PROVE FALSE
      <4>1. d * DayLength + DayLength <= DateOf(h) * DayLength
        BY <1>1, <3>1, DaysApart
      <4>. QED  BY <1>1, <1>2, <2>1, <4>1
    <3>. QED  BY <3>1
  <2>3. d * DayLength <= DateOf(h) * DayLength + 8 * DayLength
    <3>1. CASE d = DateOf(h) + 8
      BY <1>1, <3>1, DaysLater
    <3>2. CASE d < DateOf(h) + 8
      <4>1. d * DayLength + DayLength <= (DateOf(h) + 8) * DayLength
        BY <1>1, <3>2, DaysApart
      <4>. QED  BY <1>1, <2>1, <4>1, DaysLater
    <3>. QED  BY <1>1, <3>1, <3>2
  <2>. QED  BY <1>1, <1>2, <2>1, <2>2, <2>3
<1>3. \A d \in 0 .. DateOf(h) + 8 : Window(s, d).enabled = EnabledOn(s, d)
  BY <1>1, WindowSpan
<1>4. ASSUME NEW x \in LaterStarts(s, h)
      PROVE  \E d \in 0 .. DateOf(h) + 8 :
               Window(s, d).enabled /\ Window(s, d).start > h /\ x = Window(s, d).start
  <2>1. PICK d \in DateOf(h) .. DateOf(h) + 8 :
          EnabledOn(s, d) /\ x = Window(s, d).start /\ x \in h + 1 .. h + 9 * DayLength
    BY <1>4 DEF LaterStarts
  <2>. QED  BY <1>1, <1>3, <2>1
<1>5. ASSUME NEW d \in 0 .. DateOf(h) + 8, Window(s, d).enabled, Window(s, d).start > h
      PROVE  Window(s, d).start \in LaterStarts(s, h)
  BY <1>2, <1>3, <1>5 DEF LaterStarts
<1>. QED  BY <1>4, <1>5

\* A set of naturals has a least one, and it is what Min chooses.
LEMMA MinOfStarts ==
    ASSUME NEW S \in SUBSET Nat, S # {}
    PROVE  Min(S) \in S /\ \A x \in S : Min(S) <= x
<1>. DEFINE R == OpToRel(<, Nat)
<1>1. IsWellFoundedOn(R, Nat)
  BY NatLessThanWellFounded
<1>2. \A x, y \in Nat : <<y, x>> \in R <=> y < x
  BY DEF OpToRel
<1>. HIDE DEF R
<1>3. PICK x \in S : \A y \in S : ~ (<<y, x>> \in R)
  BY <1>1, WFMin
<1>4. \A y \in S : x <= y
  <2>1. TAKE y \in S
  <2>2. x \in Nat /\ y \in Nat /\ ~(y < x)
    BY <1>2, <1>3
  <2>. QED  BY <2>2
<1>. QED  BY <1>4 DEF Min

\* What evaluate computes from two windows and nine days is so of all dates.
LEMMA ScheduleFacts ==
    ASSUME schedule \in ScheduleRows, hour \in Nat, DayLength <= hour
    PROVE  ScheduleExact
<1>. DEFINE W(d) == Window(schedule, d)
            open == {d \in 0 .. DateOf(hour) + 9 : OpenAt(W(d), hour)}
            later == {d \in 0 .. DateOf(hour) + 8 : W(d).enabled /\ W(d).start > hour}
            found == Evaluate(schedule, hour)
            active == ActiveDates(schedule, hour)
            starts == LaterStarts(schedule, hour)
<1>. SUFFICES ASSUME schedule.enabled
              PROVE  /\ found.allowed <=>
                          \E d \in open : hour < W(d).stop /\ \A e \in open : W(e).start <= W(d).start
                     /\ found.allowed /\ found.cutoff # NoClock => hour < found.cutoff
                     /\ IF later = {} THEN found.next = NoClock
                        ELSE /\ \E d \in later : found.next = W(d).start
                             /\ \A d \in later : found.next <= W(d).start
  BY DEF ScheduleExact
<1>1. active = open /\ active \subseteq {DateOf(hour) - 1, DateOf(hour)}
      /\ active \subseteq Nat /\ DateOf(hour) \in Nat
  BY ActiveOpen, DateFacts DEF ActiveDates
<1>2. PICK last : last = Max(active)
  OBVIOUS
<1>3. /\ found.allowed <=> active # {} /\ hour < W(last).stop
      /\ found.cutoff = IF active = {} THEN NoClock ELSE W(last).cutoff
      /\ found.next = IF starts = {} THEN NoClock ELSE Min(starts)
  BY <1>2 DEF Evaluate
<1>4. starts = {W(d).start : d \in later}
  BY StartsLater
<1>5. active # {} => last \in active /\ \A d \in active : d <= last
  BY <1>1, <1>2, MaxOfDates
<1>. HIDE DEF found, active, starts
<1>6. found.allowed <=>
        \E d \in open : hour < W(d).stop /\ \A e \in open : W(e).start <= W(d).start
  <2>1. ASSUME NEW d \in open, NEW e \in open, d < e
        PROVE  W(d).start < W(e).start /\ W(d).start \in Int /\ W(e).start \in Int
    BY <1>1, <2>1, LaterStart, WindowSpan
  <2>2. ASSUME NEW d \in open PROVE W(d).start \in Int /\ d \in Nat
    BY <1>1, <2>2, WindowSpan
  <2>. HIDE DEF W
  <2>3. ASSUME found.allowed
        PROVE  \E d \in open : hour < W(d).stop /\ \A e \in open : W(e).start <= W(d).start
    <3>1. last \in open /\ hour < W(last).stop
      BY <1>1, <1>3, <1>5, <2>3
    <3>2. \A e \in open : W(e).start <= W(last).start
      <4>1. TAKE e \in open
      <4>2. e = last \/ e < last
        BY <1>1, <1>5, <2>2, <3>1
      <4>3. W(e).start \in Int /\ W(last).start \in Int
        BY <2>2, <3>1
      <4>. QED  BY <2>1, <3>1, <4>2, <4>3
    <3>. QED  BY <3>1, <3>2
  <2>4. ASSUME NEW d \in open, hour < W(d).stop, \A e \in open : W(e).start <= W(d).start
        PROVE  found.allowed
    <3>1. last \in open /\ d <= last
      BY <1>1, <1>5
    <3>2. ~(d < last)
      BY <2>1, <2>4, <3>1
    <3>3. d = last
      BY <2>2, <3>1, <3>2
    <3>. QED  BY <1>1, <1>3, <2>4, <3>3
  <2>. QED  BY <2>3, <2>4
<1>7. found.allowed /\ found.cutoff # NoClock => hour < found.cutoff
  <2>1. ASSUME found.allowed, found.cutoff # NoClock PROVE hour < found.cutoff
    <3>1. OpenAt(W(last), hour) /\ found.cutoff = W(last).cutoff
      BY <1>1, <1>3, <1>5, <2>1
    <3>. QED  BY <2>1, <3>1 DEF OpenAt, EndOf
  <2>. QED  BY <2>1
<1>8. IF later = {} THEN found.next = NoClock
      ELSE /\ \E d \in later : found.next = W(d).start
           /\ \A d \in later : found.next <= W(d).start
  <2>1. CASE later = {}
    BY <1>3, <1>4, <2>1
  <2>2. CASE later # {}
    <3>1. starts # {} /\ starts \subseteq Nat
      <4>1. ASSUME NEW d \in later PROVE W(d).start \in Nat
        BY <1>1, <4>1, WindowSpan
      <4>. QED  BY <1>4, <2>2, <4>1
    <3>2. Min(starts) \in starts /\ \A x \in starts : Min(starts) <= x
      BY <3>1, MinOfStarts
    <3>. QED  BY <1>3, <1>4, <2>2, <3>1, <3>2
  <2>. QED  BY <2>1, <2>2
<1>. QED  BY <1>6, <1>7, <1>8

Held == InExecution \cup {"leased", "armed"}
UnderAlarm == InExecution \cup {"armed"}

\* What a process holds, as a record.
TimedRow(h) ==
    h \in [at : HandSteps, lease : {h.lease}, cutoff : {h.cutoff},
           timer : {"off", "armed", "fired"}, pending : BOOLEAN, hearts : {h.hearts},
           blocked : {h.blocked}, notice : BOOLEAN, half : BOOLEAN]

\* A claim made in a window with a cutoff has an alarm that is armed, or its
\* signal, as long as it is executed.
TimedFits(h) ==
    /\ TimedRow(h)
    /\ h.half => h.notice
    /\ h.at \in Held => h.lease # <<>>
    /\ h.at \in UnderAlarm /\ h.cutoff # NoClock => h.timer = "armed" \/ h.pending

\* Every part that was cut short is on the open line or spoiled one; the
\* writer that holds the lock wrote last.
OutboxFits ==
    /\ outbox \in [tail : Seq(Timed), spoiled : Nat, abandoned : Nat]
    /\ outboxLock = {w \in Timed : hands[w].half}
    /\ \A v, w \in Timed : hands[v].half /\ hands[w].half => v = w
    /\ \A w \in Timed : hands[w].half =>
         Len(outbox.tail) >= 1 /\ outbox.tail[Len(outbox.tail)] = w
    /\ outbox.spoiled + Len(outbox.tail)
         <= outbox.abandoned + IF outboxLock = {} THEN 0 ELSE 1

WindowInv ==
    /\ schedule \in ScheduleRows /\ hour \in FirstHour .. LastHour
    /\ hands = [w \in Timed |-> hands[w]] /\ \A w \in Timed : TimedFits(hands[w])
    /\ OutboxFits

LEMMA AwayFits ==
    ASSUME NEW at \in {"down", "stopped", "poll"}
    PROVE  TimedFits(Away(at)) /\ ~Away(at).half
BY DEF TimedFits, TimedRow, Away, HandSteps, Held, UnderAlarm, InExecution

LEMMA WindowStarts == WindowInit => WindowInv
<1>. SUFFICES ASSUME WindowInit PROVE WindowInv
  OBVIOUS
<1>1. PICK away : away = Away("down")
  OBVIOUS
<1>2. hands = [w \in Timed |-> away] /\ TimedFits(away) /\ ~away.half
  BY <1>1, AwayFits DEF WindowInit
<1>3. hour \in FirstHour .. LastHour
  BY DayFacts DEF WindowInit
<1>4. OutboxFits
  <2>1. \A w \in Timed : ~hands[w].half
    BY <1>2
  <2>2. outbox = [tail |-> <<>>, spoiled |-> 0, abandoned |-> 0] /\ outboxLock = {}
    BY DEF WindowInit
  <2>3. outbox \in [tail : Seq(Timed), spoiled : Nat, abandoned : Nat]
        /\ outbox.tail = <<>> /\ outbox.spoiled = 0 /\ outbox.abandoned = 0
    BY <2>2
  <2>4. outboxLock = {w \in Timed : hands[w].half}
    BY <2>1, <2>2
  <2>5. outbox.spoiled + Len(outbox.tail) <= outbox.abandoned + IF outboxLock = {} THEN 0 ELSE 1
    BY <2>2, <2>3
  <2>. QED  BY <2>1, <2>3, <2>4, <2>5 DEF OutboxFits
<1>. QED  BY <1>2, <1>3, <1>4 DEF WindowInit, WindowInv

\* A step of one process that leaves the outbox alone.
LEMMA TimedMoves ==
    ASSUME WindowInv, NEW w \in Timed, NEW hand, Set(w, hand), TimedFits(hand),
           hand.half <=> hands[w].half, UNCHANGED <<schedule, hour, notices>>
    PROVE  WindowInv'
<1>1. /\ hands' = [v \in Timed |-> hands'[v]] /\ hands'[w] = hand
      /\ \A v \in Timed : v # w => hands'[v] = hands[v]
  BY DEF WindowInv, Set
<1>2. \A v \in Timed : TimedFits(hands'[v]) /\ (hands'[v].half <=> hands[v].half)
  BY <1>1 DEF WindowInv
<1>3. UNCHANGED <<outbox, outboxLock, schedule, hour>>
  BY DEF notices
<1>4. OutboxFits'
  BY <1>2, <1>3 DEF WindowInv, OutboxFits
<1>. QED  BY <1>1, <1>2, <1>3, <1>4 DEF WindowInv

\* A process that is not writing a notice.
LEMMA TimedFacts ==
    ASSUME WindowInv, NEW w \in Timed
    PROVE  /\ TimedFits(hands[w]) /\ TimedRow(hands[w])
           /\ ~hands[w].notice => ~hands[w].half
BY DEF WindowInv, TimedFits

LEMMA LoopsFits ==
    ASSUME WindowInv, NEW w \in Timed
    PROVE  TimedFits(Loops(w)) /\ ~Loops(w).half
<1>0. PICK hearts : hearts = hands[w].hearts
  OBVIOUS
<1>1. PICK pending \in BOOLEAN : pending = hands[w].pending
  BY TimedFacts DEF TimedRow
<1>2. PICK row : row = Loops(w)
  OBVIOUS
<1>3. row = [Away("poll") EXCEPT !.hearts = hearts, !.pending = pending]
  BY <1>0, <1>1, <1>2 DEF Loops
<1>4. row = [at |-> "poll", lease |-> <<>>, cutoff |-> NoClock, timer |-> "off",
             pending |-> pending, hearts |-> hearts, blocked |-> {}, notice |-> FALSE,
             half |-> FALSE]
  BY <1>3 DEF Away
<1>5. TimedFits(row) /\ ~row.half
  BY <1>1, <1>4 DEF TimedFits, TimedRow, HandSteps, Held, UnderAlarm, InExecution
<1>. QED  BY <1>2, <1>5


LEMMA TimedLoopSteps ==
    ASSUME WindowInv, NEW w \in Timed,
           StartHand(w) \/ EvaluateOperations(w) \/ ClaimFindsNothing(w) \/ EndExecution(w)
    PROVE  WindowInv'
<1>1. PICK hand : hand = hands[w]
  OBVIOUS
<1>2. TimedFits(hand) /\ TimedRow(hand) /\ ~hand.notice /\ ~hand.half
  BY <1>1, TimedFacts
     DEF StartHand, EvaluateOperations, ClaimFindsNothing, EndExecution, AtStage
<1>3. UNCHANGED <<schedule, hour, notices>>
  BY DEF StartHand, EvaluateOperations, ClaimFindsNothing, EndExecution, LocalStep, LedgerStep
<1>4. PICK loops : loops = Loops(w) /\ TimedFits(loops) /\ ~loops.half
  BY LoopsFits
<1>5. CASE StartHand(w)
  BY <1>1, <1>2, <1>3, <1>5, AwayFits, TimedMoves DEF StartHand
<1>6. CASE ClaimFindsNothing(w) \/ EndExecution(w)
  BY <1>1, <1>2, <1>3, <1>4, <1>6, TimedMoves DEF ClaimFindsNothing, EndExecution
<1>7. CASE EvaluateOperations(w)
  <2>1. PICK cutoff : cutoff = Evaluate(schedule, hour).cutoff
    OBVIOUS
  <2>2. CASE Set(w, [loops EXCEPT !.at = "claim", !.cutoff = cutoff])
    <3>. DEFINE row == [loops EXCEPT !.at = "claim", !.cutoff = cutoff]
    <3>1. TimedFits(row) /\ ~row.half
      BY <1>4 DEF TimedFits, TimedRow, HandSteps, Held, UnderAlarm, InExecution
    <3>2. Set(w, row)
      BY <2>2
    <3>. HIDE DEF row
    <3>. QED  BY <1>1, <1>2, <1>3, <3>1, <3>2, TimedMoves
  <2>3. ASSUME NEW reasons, NEW notice \in BOOLEAN, hand.at = "poll",
               Set(w, [hand EXCEPT !.blocked = reasons, !.notice = notice])
        PROVE  WindowInv'
    <3>. DEFINE row == [hand EXCEPT !.blocked = reasons, !.notice = notice]
    <3>1. TimedFits(row) /\ ~row.half
      BY <1>2, <2>3 DEF TimedFits, TimedRow, HandSteps, Held, UnderAlarm, InExecution
    <3>2. Set(w, row)
      BY <2>3
    <3>. HIDE DEF row
    <3>. QED  BY <1>1, <1>2, <1>3, <3>1, <3>2, TimedMoves
  <2>4. PICK reasons : \/ Set(w, [loops EXCEPT !.at = "claim", !.cutoff = cutoff])
                       \/ Set(w, [hand EXCEPT !.blocked = reasons,
                                              !.notice = (reasons # hand.blocked)])
    BY <1>1, <1>4, <1>7, <2>1 DEF EvaluateOperations
  <2>5. hand.at = "poll"
    BY <1>1, <1>7 DEF EvaluateOperations, AtStage
  <2>. QED  BY <2>2, <2>3, <2>4, <2>5
<1>. QED  BY <1>5, <1>6, <1>7

LEMMA ExecutionSteps ==
    ASSUME WindowInv, NEW w \in Timed,
           ClaimInWindow(w) \/ ArmTimer(w) \/ EnterExecution(w) \/ ExecutionFails(w)
    PROVE  WindowInv'
<1>1. PICK hand : hand = hands[w]
  OBVIOUS
<1>2. TimedFits(hand) /\ TimedRow(hand) /\ ~hand.notice /\ ~hand.half
  BY <1>1, TimedFacts DEF ClaimInWindow, ArmTimer, EnterExecution, ExecutionFails, AtStage
<1>3. UNCHANGED <<schedule, hour, notices>>
  BY DEF ClaimInWindow, ArmTimer, EnterExecution, ExecutionFails, LocalStep, LedgerStep
<1>4. CASE ClaimInWindow(w)
  <2>1. PICK got : got # <<>> /\ Set(w, [hand EXCEPT !.at = "leased", !.lease = got])
    BY <1>1, <1>4 DEF ClaimInWindow
  <2>. DEFINE row == [hand EXCEPT !.at = "leased", !.lease = got]
  <2>2. TimedFits(row) /\ ~row.half
    BY <1>2, <2>1 DEF TimedFits, TimedRow, HandSteps, Held, UnderAlarm, InExecution
  <2>3. Set(w, row)
    BY <2>1
  <2>. HIDE DEF row
  <2>. QED  BY <1>1, <1>2, <1>3, <2>2, <2>3, TimedMoves
<1>5. CASE ArmTimer(w)
  <2>1. PICK timer \in {"off", "armed"} :
          (timer = "off" <=> hand.cutoff = NoClock)
          /\ Set(w, [hand EXCEPT !.at = "armed", !.timer = timer])
    BY <1>1, <1>5 DEF ArmTimer
  <2>2. hand.at = "leased"
    BY <1>1, <1>5 DEF ArmTimer, AtStage
  <2>. DEFINE row == [hand EXCEPT !.at = "armed", !.timer = timer]
  <2>3. TimedFits(row) /\ ~row.half
    BY <1>2, <2>1, <2>2 DEF TimedFits, TimedRow, HandSteps, Held, UnderAlarm, InExecution
  <2>4. Set(w, row)
    BY <2>1
  <2>. HIDE DEF row
  <2>. QED  BY <1>1, <1>2, <1>3, <2>3, <2>4, TimedMoves
<1>6. CASE EnterExecution(w) \/ ExecutionFails(w)
  <2>1. \E at \in InExecution \cup {"failing"} : \E hearts :
          /\ Set(w, [hand EXCEPT !.at = at, !.hearts = hearts])
          /\ at \in InExecution => hand.at \in UnderAlarm
    <3>1. ASSUME NEW at \in InExecution \cup {"failing"}, hand.at \in UnderAlarm,
                 Set(w, [hand EXCEPT !.at = at])
          PROVE  Set(w, [hand EXCEPT !.at = at, !.hearts = hand.hearts])
      <4>1. [hand EXCEPT !.at = at] = [hand EXCEPT !.at = at, !.hearts = hand.hearts]
        BY <1>2 DEF TimedRow
      <4>. QED  BY <3>1, <4>1
    <3>2. CASE ExecutionFails(w)
      BY <1>1, <3>1, <3>2 DEF ExecutionFails, AtStage, InExecution, UnderAlarm
    <3>3. CASE AtStage(w, "armed") /\ Set(w, [hands[w] EXCEPT !.at = "staged"])
      BY <1>1, <3>1, <3>3 DEF AtStage, InExecution, UnderAlarm
    <3>4. CASE AtStage(w, "beats") /\ Set(w, [hands[w] EXCEPT !.at = "executes"])
      BY <1>1, <3>1, <3>4 DEF AtStage, InExecution, UnderAlarm
    <3>5. CASE /\ AtStage(w, "staged")
               /\ Set(w, [hands[w] EXCEPT !.at = "beats", !.hearts = @ \cup {hands[w].lease}])
      BY <1>1, <3>5 DEF AtStage, InExecution, UnderAlarm
    <3>. QED  BY <1>6, <3>2, <3>3, <3>4, <3>5 DEF EnterExecution
  <2>2. PICK at \in InExecution \cup {"failing"} : \E hearts :
          /\ Set(w, [hand EXCEPT !.at = at, !.hearts = hearts])
          /\ at \in InExecution => hand.at \in UnderAlarm
    BY <2>1
  <2>3. PICK hearts : /\ Set(w, [hand EXCEPT !.at = at, !.hearts = hearts])
                      /\ at \in InExecution => hand.at \in UnderAlarm
    BY <2>2
  <2>. DEFINE row == [hand EXCEPT !.at = at, !.hearts = hearts]
  <2>4. TimedFits(row) /\ ~row.half
    BY <1>2, <2>3 DEF TimedFits, TimedRow, HandSteps, Held, UnderAlarm, InExecution
  <2>5. Set(w, row)
    BY <2>3
  <2>. HIDE DEF row
  <2>. QED  BY <1>1, <1>2, <1>3, <2>4, <2>5, TimedMoves
<1>. QED  BY <1>4, <1>5, <1>6

\* The end of a lease, and the alarm.
LEMMA ReportSteps ==
    ASSUME WindowInv, NEW w \in Timed,
           CompleteInWindow(w) \/ HandBack(w) \/ EndCut(w)
    PROVE  WindowInv'
<1>1. PICK hand : hand = hands[w]
  OBVIOUS
<1>2. TimedFits(hand) /\ TimedRow(hand) /\ ~hand.notice /\ ~hand.half
  BY <1>1, TimedFacts DEF CompleteInWindow, HandBack, EndCut, AtStage
<1>3. UNCHANGED <<schedule, hour, notices>>
  BY DEF CompleteInWindow, HandBack, EndCut, LocalStep, LedgerStep
<1>4. ASSUME NEW at \in {"reported", "cut"}, NEW notice \in BOOLEAN, NEW hearts,
             Set(w, [hand EXCEPT !.at = at, !.hearts = hearts, !.notice = notice])
      PROVE  WindowInv'
  <2>. DEFINE row == [hand EXCEPT !.at = at, !.hearts = hearts, !.notice = notice]
  <2>1. TimedFits(row) /\ ~row.half
    BY <1>2, <1>4 DEF TimedFits, TimedRow, HandSteps, Held, UnderAlarm, InExecution
  <2>2. Set(w, row)
    BY <1>4
  <2>. HIDE DEF row
  <2>. QED  BY <1>1, <1>2, <1>3, <2>1, <2>2, TimedMoves
<1>5. \A at, notice : /\ EndBeat(w, at) = [hand EXCEPT !.at = at, !.hearts = hand.hearts \ {hand.lease},
                                                       !.notice = hand.notice]
                      /\ [EndBeat(w, at) EXCEPT !.notice = notice]
                           = [hand EXCEPT !.at = at, !.hearts = hand.hearts \ {hand.lease},
                                          !.notice = notice]
  BY <1>1, <1>2 DEF EndBeat, TimedRow
<1>6. hand.notice \in BOOLEAN
  BY <1>2 DEF TimedRow
<1>7. CASE CompleteInWindow(w)
  <2>1. Set(w, EndBeat(w, "reported"))
    BY <1>7 DEF CompleteInWindow
  <2>2. Set(w, [hand EXCEPT !.at = "reported", !.hearts = hand.hearts \ {hand.lease},
                            !.notice = hand.notice])
    BY <1>5, <2>1, Zenon
  <2>. QED  BY <1>4, <1>6, <2>2
<1>8. CASE HandBack(w)
  <2>1. PICK at \in {"reported", "cut"} :
          Set(w, EndBeat(w, at)) \/ Set(w, [EndBeat(w, at) EXCEPT !.notice = TRUE])
    BY <1>8 DEF HandBack
  <2>2. PICK notice \in {TRUE, hand.notice} :
          Set(w, [hand EXCEPT !.at = at, !.hearts = hand.hearts \ {hand.lease},
                              !.notice = notice])
    BY <1>5, <2>1, Zenon
  <2>3. notice \in BOOLEAN
    BY <1>6
  <2>. QED  BY <1>4, <2>2, <2>3
<1>9. CASE EndCut(w)
  <2>1. PICK loops : loops = Loops(w) /\ TimedFits(loops) /\ ~loops.half
    BY LoopsFits
  <2>2. CASE Set(w, Away("stopped"))
    BY <1>1, <1>2, <1>3, <2>2, AwayFits, TimedMoves
  <2>3. CASE Set(w, [loops EXCEPT !.notice = TRUE])
    <3>. DEFINE row == [loops EXCEPT !.notice = TRUE]
    <3>1. TimedFits(row) /\ ~row.half
      BY <2>1 DEF TimedFits, TimedRow, HandSteps, Held, UnderAlarm, InExecution
    <3>2. Set(w, row)
      BY <2>3
    <3>. HIDE DEF row
    <3>. QED  BY <1>1, <1>2, <1>3, <3>1, <3>2, TimedMoves
  <2>. QED  BY <1>9, <2>1, <2>2, <2>3 DEF EndCut
<1>. QED  BY <1>7, <1>8, <1>9

\* A signal is on its way, from the timer or the operator.
LEMMA SignalSteps ==
    ASSUME WindowInv, NEW w \in Timed, FireTimer(w) \/ StopHand(w)
    PROVE  WindowInv'
<1>1. PICK hand : hand = hands[w]
  OBVIOUS
<1>2. TimedFits(hand) /\ TimedRow(hand)
  BY <1>1, TimedFacts
<1>3. UNCHANGED <<schedule, hour, notices>>
  BY DEF FireTimer, StopHand, LocalStep
<1>4. PICK timer \in {"off", "armed", "fired"} :
        Set(w, [hand EXCEPT !.timer = timer, !.pending = TRUE])
  <2>1. CASE FireTimer(w)
    BY <1>1, <2>1 DEF FireTimer
  <2>2. CASE StopHand(w)
    <3>1. [hand EXCEPT !.pending = TRUE] = [hand EXCEPT !.timer = hand.timer, !.pending = TRUE]
      BY <1>2 DEF TimedRow
    <3>2. hand.timer \in {"off", "armed", "fired"}
      BY <1>2 DEF TimedRow
    <3>. QED  BY <1>1, <2>2, <3>1, <3>2 DEF StopHand
  <2>. QED  BY <2>1, <2>2
<1>. DEFINE row == [hand EXCEPT !.timer = timer, !.pending = TRUE]
<1>5. TimedFits(row) /\ row.half = hand.half
  BY <1>2 DEF TimedFits, TimedRow, HandSteps, Held, UnderAlarm, InExecution
<1>6. Set(w, row)
  BY <1>4
<1>. HIDE DEF row
<1>. QED  BY <1>1, <1>3, <1>5, <1>6, TimedMoves

\* A step of one process that writes to the outbox, or stops doing so.
LEMMA OutboxMoves ==
    ASSUME WindowInv, NEW w \in Timed, NEW hand, Set(w, hand), TimedFits(hand),
           UNCHANGED <<schedule, hour>>,
           outbox' \in [tail : Seq(Timed), spoiled : Nat, abandoned : Nat],
           outboxLock' = IF hand.half THEN outboxLock \cup {w} ELSE outboxLock \ {w},
           hand.half => outboxLock = {},
           hand.half => Len(outbox'.tail) >= 1 /\ outbox'.tail[Len(outbox'.tail)] = w,
           outboxLock \ {w} # {} => outbox'.tail = outbox.tail,
           outbox'.spoiled + Len(outbox'.tail)
             <= outbox'.abandoned + IF outboxLock' = {} THEN 0 ELSE 1
    PROVE  WindowInv'
<1>1. /\ hands' = [v \in Timed |-> hands'[v]] /\ hands'[w] = hand
      /\ \A v \in Timed : v # w => hands'[v] = hands[v]
  BY DEF WindowInv, Set
<1>2. \A v \in Timed : TimedFits(hands'[v])
  BY <1>1 DEF WindowInv
<1>3. outboxLock = {v \in Timed : hands[v].half}
  BY DEF WindowInv, OutboxFits
<1>4. outboxLock' = {v \in Timed : hands'[v].half}
  <2>1. CASE hand.half
    BY <1>1, <1>3, <2>1
  <2>2. CASE ~hand.half
    BY <1>1, <1>3, <2>2
  <2>. QED  BY <2>1, <2>2
<1>5. \A u, v \in Timed : hands'[u].half /\ hands'[v].half => u = v
  BY <1>1, <1>3 DEF WindowInv, OutboxFits
<1>6. ASSUME NEW v \in Timed, hands'[v].half
      PROVE  Len(outbox'.tail) >= 1 /\ outbox'.tail[Len(outbox'.tail)] = v
  <2>1. CASE v = w
    BY <1>1, <1>6, <2>1
  <2>2. CASE v # w
    <3>1. hands[v].half /\ v \in outboxLock \ {w}
      BY <1>1, <1>3, <1>6, <2>2
    <3>2. outbox'.tail = outbox.tail
      BY <3>1
    <3>. QED  BY <3>1, <3>2 DEF WindowInv, OutboxFits
  <2>. QED  BY <2>1, <2>2
<1>7. OutboxFits'
  BY <1>4, <1>5, <1>6 DEF OutboxFits
<1>. QED  BY <1>1, <1>2, <1>7 DEF WindowInv

LEMMA OutboxFacts ==
    ASSUME WindowInv, NEW w \in Timed
    PROVE  \E t \in Seq(Timed), s \in Nat, a \in Nat :
             /\ outbox = [tail |-> t, spoiled |-> s, abandoned |-> a]
             /\ t = outbox.tail /\ s = outbox.spoiled /\ a = outbox.abandoned
             /\ s + Len(t) <= a + IF outboxLock = {} THEN 0 ELSE 1
             /\ hands[w].half => /\ outboxLock = {w}
                                 /\ Len(t) >= 1 /\ t[Len(t)] = w
             /\ ~hands[w].half => outboxLock \ {w} = outboxLock
<1>1. PICK t \in Seq(Timed), s \in Nat, a \in Nat :
        outbox = [tail |-> t, spoiled |-> s, abandoned |-> a]
        /\ t = outbox.tail /\ s = outbox.spoiled /\ a = outbox.abandoned
  BY DEF WindowInv, OutboxFits
<1>2. s + Len(t) <= a + IF outboxLock = {} THEN 0 ELSE 1
  BY <1>1 DEF WindowInv, OutboxFits
<1>3. hands[w].half => outboxLock = {w} /\ Len(t) >= 1 /\ t[Len(t)] = w
  BY <1>1 DEF WindowInv, OutboxFits
<1>4. ~hands[w].half => outboxLock \ {w} = outboxLock
  BY DEF WindowInv, OutboxFits
<1>. QED  BY <1>1, <1>2, <1>3, <1>4

\* A writer that is cut short: its part stays on the open line.
LEMMA CutSteps ==
    ASSUME WindowInv, NEW w \in Timed, TakeInterrupt(w) \/ KillHand(w)
    PROVE  WindowInv'
<1>1. CutShort(w) /\ UNCHANGED <<schedule, hour>>
  BY DEF TakeInterrupt, KillHand
<1>2. PICK hand : Set(w, hand) /\ TimedFits(hand) /\ ~hand.half
  <2>1. CASE KillHand(w)
    BY <2>1, AwayFits DEF KillHand
  <2>2. CASE TakeInterrupt(w)
    <3>1. PICK old : old = hands[w] /\ TimedFits(old) /\ TimedRow(old)
      BY TimedFacts
    <3>. DEFINE cut == [old EXCEPT !.pending = FALSE, !.notice = FALSE, !.half = FALSE]
    <3>2. cut \in [at : HandSteps, lease : {cut.lease}, cutoff : {cut.cutoff},
                   timer : {"off", "armed", "fired"}, pending : BOOLEAN,
                   hearts : {cut.hearts}, blocked : {cut.blocked}, notice : BOOLEAN,
                   half : BOOLEAN] /\ ~cut.half
      BY <3>1 DEF TimedRow
    <3>3. \/ Set(w, Away("stopped"))
          \/ \E at \in {"interrupted", "cut"} :
               \/ Set(w, [cut EXCEPT !.at = at])
               \/ Set(w, [cut EXCEPT !.at = at, !.hearts = cut.hearts \ {cut.lease}])
      BY <2>2, <3>1 DEF TakeInterrupt
    <3>. HIDE DEF cut
    <3>4. ASSUME NEW at \in {"interrupted", "cut"}, NEW hearts
          PROVE  /\ TimedFits([cut EXCEPT !.at = at]) /\ ~[cut EXCEPT !.at = at].half
                 /\ TimedFits([cut EXCEPT !.at = at, !.hearts = hearts])
                 /\ ~[cut EXCEPT !.at = at, !.hearts = hearts].half
      BY <3>2 DEF TimedFits, TimedRow, HandSteps, Held, UnderAlarm, InExecution
    <3>5. CASE Set(w, Away("stopped"))
      BY <3>5, AwayFits
    <3>6. ASSUME NEW at \in {"interrupted", "cut"},
                 \/ Set(w, [cut EXCEPT !.at = at])
                 \/ Set(w, [cut EXCEPT !.at = at, !.hearts = cut.hearts \ {cut.lease}])
          PROVE  \E hand : Set(w, hand) /\ TimedFits(hand) /\ ~hand.half
      BY <3>4, <3>6
    <3>. QED  BY <3>3, <3>5, <3>6
  <2>. QED  BY <2>1, <2>2
<1>3. PICK t \in Seq(Timed), s \in Nat, a \in Nat :
        /\ outbox = [tail |-> t, spoiled |-> s, abandoned |-> a] /\ t = outbox.tail
        /\ s + Len(t) <= a + IF outboxLock = {} THEN 0 ELSE 1
        /\ hands[w].half => outboxLock = {w}
        /\ ~hands[w].half => outboxLock \ {w} = outboxLock
  BY OutboxFacts
<1>4. PICK n \in {0, 1} : n = IF hands[w].half THEN 1 ELSE 0
  OBVIOUS
<1>5. outbox' = [tail |-> t, spoiled |-> s, abandoned |-> a + n]
      /\ outboxLock' = outboxLock \ {w}
  BY <1>1, <1>3, <1>4 DEF CutShort
<1>6. /\ outbox' \in [tail : Seq(Timed), spoiled : Nat, abandoned : Nat]
      /\ outbox'.tail = t /\ outbox'.spoiled = s /\ outbox'.abandoned = a + n
  BY <1>3, <1>4, <1>5
<1>7. s + Len(t) <= a + n + IF outboxLock' = {} THEN 0 ELSE 1
  BY <1>3, <1>4, <1>5
<1>. QED  BY <1>1, <1>2, <1>3, <1>5, <1>6, <1>7, OutboxMoves

LEMMA NoticeSteps ==
    ASSUME WindowInv, NEW w \in Timed, WriteNotice(w) \/ WritePart(w) \/ WriteRest(w)
    PROVE  WindowInv'
<1>1. UNCHANGED <<schedule, hour>>
  BY DEF WriteNotice, WritePart, WriteRest
<1>2. PICK old : old = hands[w] /\ TimedFits(old) /\ TimedRow(old)
  BY TimedFacts
<1>3. PICK t \in Seq(Timed), s \in Nat, a \in Nat :
        /\ outbox = [tail |-> t, spoiled |-> s, abandoned |-> a] /\ t = outbox.tail
        /\ s + Len(t) <= a + IF outboxLock = {} THEN 0 ELSE 1
        /\ hands[w].half => outboxLock = {w} /\ Len(t) >= 1 /\ t[Len(t)] = w
        /\ ~hands[w].half => outboxLock \ {w} = outboxLock
  BY OutboxFacts
<1>4. CASE WriteNotice(w) \/ WriteRest(w)
  <2>. DEFINE noted == [old EXCEPT !.notice = FALSE, !.half = FALSE]
  <2>1. TimedFits(noted) /\ ~noted.half
    BY <1>2 DEF TimedFits, TimedRow, HandSteps, Held, UnderAlarm, InExecution
  <2>2. Set(w, noted)
    BY <1>2, <1>4 DEF WriteNotice, WriteRest, Noted
  <2>. HIDE DEF noted
  <2>3. PICK n \in {0, 1} :
          /\ outbox' = [tail |-> <<>>, spoiled |-> s + n, abandoned |-> a]
          /\ n = 1 => t # IF WriteNotice(w) THEN <<>> ELSE <<w>>
    <3>1. CASE WriteNotice(w)
      <4>1. outbox' = [tail |-> <<>>, spoiled |-> s + (IF t = <<>> THEN 0 ELSE 1), abandoned |-> a]
        BY <1>3, <3>1 DEF WriteNotice, Appends
      <4>. QED  BY <3>1, <4>1
    <3>2. CASE ~WriteNotice(w)
      <4>1. outbox' = [tail |-> <<>>, spoiled |-> s + (IF t = <<w>> THEN 0 ELSE 1), abandoned |-> a]
        BY <1>3, <1>4, <3>2 DEF WriteRest, Appends
      <4>. QED  BY <3>2, <4>1
    <3>. QED  BY <3>1, <3>2
  <2>4. s + n <= a /\ outboxLock' = {} /\ outboxLock \ {w} = {}
    <3>1. CASE WriteNotice(w)
      <4>1. outboxLock = {} /\ outboxLock' = {}
        BY <3>1 DEF WriteNotice
      <4>2. t # <<>> => Len(t) >= 1
        BY <1>3
      <4>. QED  BY <1>3, <2>3, <3>1, <4>1, <4>2
    <3>2. CASE ~WriteNotice(w)
      <4>1. outboxLock = {w} /\ outboxLock' = {} /\ Len(t) >= 1 /\ t[Len(t)] = w
        BY <1>3, <1>4, <3>2 DEF WriteRest
      <4>2. t # <<w>> => Len(t) >= 2
        <5>1. ASSUME Len(t) = 1 PROVE t = <<w>>
          BY <4>1, <5>1
        <5>2. PICK k \in Nat : k = Len(t)
          OBVIOUS
        <5>3. CASE k = 1
          BY <5>1, <5>2, <5>3
        <5>4. CASE k # 1
          <6>1. k >= 2
            BY <4>1, <5>2, <5>4
          <6>. QED  BY <5>2, <6>1
        <5>. QED  BY <5>3, <5>4
      <4>. QED  BY <1>3, <2>3, <3>2, <4>1, <4>2
    <3>. QED  BY <3>1, <3>2
  <2>5. /\ outbox' \in [tail : Seq(Timed), spoiled : Nat, abandoned : Nat]
        /\ outbox'.tail = <<>> /\ outbox'.spoiled = s + n /\ outbox'.abandoned = a
        /\ Len(outbox'.tail) = 0
    BY <2>3
  <2>6. outbox'.spoiled + Len(outbox'.tail)
          <= outbox'.abandoned + IF outboxLock' = {} THEN 0 ELSE 1
    BY <2>4, <2>5
  <2>. QED  BY <1>1, <2>1, <2>2, <2>4, <2>5, <2>6, OutboxMoves
<1>5. CASE WritePart(w)
  <2>. DEFINE writes == [old EXCEPT !.half = TRUE]
  <2>1. TimedFits(writes) /\ writes.half
    BY <1>2, <1>5 DEF WritePart, TimedFits, TimedRow, HandSteps, Held, UnderAlarm, InExecution
  <2>2. Set(w, writes)
    BY <1>2, <1>5 DEF WritePart
  <2>. HIDE DEF writes
  <2>3. /\ outbox' = [tail |-> Append(t, w), spoiled |-> s, abandoned |-> a]
        /\ outboxLock = {} /\ outboxLock' = {w}
    BY <1>3, <1>5 DEF WritePart
  <2>4. /\ Append(t, w) \in Seq(Timed) /\ Len(Append(t, w)) = Len(t) + 1
        /\ Append(t, w)[Len(t) + 1] = w /\ Len(t) \in Nat
    OBVIOUS
  <2>5. /\ outbox' \in [tail : Seq(Timed), spoiled : Nat, abandoned : Nat]
        /\ outbox'.tail = Append(t, w) /\ outbox'.spoiled = s /\ outbox'.abandoned = a
    BY <2>3, <2>4
  <2>6. s + Len(t) + 1 <= a + 1 /\ outboxLock' # {}
    BY <1>3, <2>3, <2>4
  <2>7. outbox'.spoiled + Len(outbox'.tail)
          <= outbox'.abandoned + IF outboxLock' = {} THEN 0 ELSE 1
    BY <2>4, <2>5, <2>6
  <2>. QED  BY <1>1, <2>1, <2>2, <2>3, <2>4, <2>5, <2>7, OutboxMoves
<1>. QED  BY <1>4, <1>5

LEMMA WindowInvStep == WindowInv /\ [WindowNext]_windowVars => WindowInv'
<1>. SUFFICES ASSUME WindowInv, [WindowNext]_windowVars PROVE WindowInv'
  OBVIOUS
<1>1. ASSUME NEW w \in Timed, HandStep(w) \/ KillHand(w) \/ StopHand(w)
      PROVE  WindowInv'
  BY <1>1, TimedLoopSteps, ExecutionSteps, ReportSteps, SignalSteps, CutSteps, NoticeSteps
     DEF HandStep
<1>2. ASSUME UNCHANGED <<schedule, hands, notices>>, hour' \in FirstHour .. LastHour
      PROVE  WindowInv'
  BY <1>2 DEF WindowInv, OutboxFits, notices
<1>3. CASE HourPasses
  <2>1. hour' \in FirstHour .. LastHour
    BY <1>3, DayFacts DEF HourPasses, WindowInv
  <2>. QED  BY <1>2, <1>3, <2>1 DEF HourPasses
<1>4. CASE SyncWindowQueue \/ UNCHANGED windowVars
  BY <1>2, <1>4 DEF SyncWindowQueue, windowVars, WindowInv
<1>. QED  BY <1>1, <1>3, <1>4 DEF WindowNext

LEMMA WindowFacts == WindowInv => WindowTrue /\ WindowTypeOK
<1>. SUFFICES ASSUME WindowInv PROVE WindowTrue /\ WindowTypeOK
  OBVIOUS
<1>1. hour \in Nat /\ DayLength <= hour
  BY DayFacts DEF WindowInv
<1>2. ScheduleExact
  BY <1>1, ScheduleFacts DEF WindowInv
<1>3. WorkInWindow
  <2>. SUFFICES ASSUME NEW w \in Timed, hands[w].at \in InExecution,
                       hands[w].cutoff # NoClock, hour >= hands[w].cutoff
                PROVE  AlarmDue(w) \/ hands[w].pending
    BY DEF WorkInWindow
  <2>1. hands[w].timer = "armed" \/ hands[w].pending
    BY DEF WindowInv, TimedFits, UnderAlarm
  <2>. QED  BY <2>1 DEF AlarmDue
<1>4. OutboxWhole
  <2>1. PICK t \in Seq(Timed), s \in Nat, a \in Nat :
          /\ outbox = [tail |-> t, spoiled |-> s, abandoned |-> a]
          /\ t = outbox.tail /\ s = outbox.spoiled /\ a = outbox.abandoned
          /\ s + Len(t) <= a + IF outboxLock = {} THEN 0 ELSE 1
    BY DEF WindowInv, OutboxFits
  <2>2. outboxLock # {} => Len(t) >= 1
    BY <2>1 DEF WindowInv, OutboxFits
  <2>3. s <= a
    BY <2>1, <2>2
  <2>. QED  BY <2>1, <2>3 DEF OutboxWhole
<1>5. WindowTypeOK
  <2>1. \A w \in Timed :
          /\ hands[w].at \in HandSteps /\ hands[w].timer \in {"off", "armed", "fired"}
          /\ hands[w].half => hands[w].notice
          /\ hands[w].at \in InExecution => hands[w].lease # <<>>
    BY DEF WindowInv, TimedFits, TimedRow, Held
  <2>. QED  BY <2>1 DEF WindowInv, OutboxFits, WindowTypeOK
<1>. QED  BY <1>2, <1>3, <1>4, <1>5 DEF WindowTrue

-----------------------------------------------------------------------------
(* The control panel. What a snapshot and the cache have read lies         *)
(* between commits of the ledger of one campaign; and while a selection    *)
(* is being replaced no campaign is armed or at work, unless a             *)
(* synchronization meets the change.                                       *)

LedgerGeneration == [campaign : Campaign, commits : Nat]
SnapshotRow ==
    [kind : {"snapshot"}, at : {"generation", "look", "build", "rest", "store"},
     campaign : Campaign, since : Nat, generation : LedgerGeneration, first : Nat, last : Nat]
SyncRow == [kind : {"sync"}, at : {"sync"}, campaign : Campaign]
SelectRow == [kind : {"select"}, at : {"replace"}, campaign : Campaign]
RequestRow == SnapshotRow \cup SyncRow \cup SelectRow
KeptRow == [generation : LedgerGeneration, campaign : Campaign, first : Nat, last : Nat]
LedgerRow == [commits : Nat, armed : BOOLEAN, live : BOOLEAN]

Asks(q, kind) == requests[q] # <<>> /\ Req(q).kind = kind

PanelTyped ==
    /\ queueFile \in [Campaign -> {"armed", "disarmed"}]
    /\ chosen \in Campaign \cup {NoSelection}
    /\ ledgers \in [Campaign -> LedgerRow]
    /\ requests \in [Client -> {<<>>} \cup {<<r>> : r \in RequestRow}]
    /\ misled \in BOOLEAN
    /\ \A q, o \in Client : Asks(q, "select") /\ Asks(o, "select") => q = o

\* A snapshot is of the active campaign, and what it has read was there.
SnapshotFits(r) ==
    /\ r.campaign = ActiveCampaign /\ r.generation.campaign = r.campaign
    /\ r.since <= r.generation.commits
    /\ r.generation.commits <= ledgers[r.campaign].commits
    /\ r.at \in {"rest", "store"} =>
         r.generation.commits <= r.first /\ r.first <= ledgers[r.campaign].commits
    /\ r.at = "store" => r.first <= r.last /\ r.last <= ledgers[r.campaign].commits

CacheFits ==
    \/ projection = <<>>
    \/ \E r \in KeptRow :
         /\ projection = <<r>>
         /\ r.campaign = r.generation.campaign
         /\ r.first = r.last /\ r.first = r.generation.commits

SnapshotsFit ==
    \/ "snapshot" \in crossed
    \/ /\ ~misled /\ CacheFits
       /\ \A q \in Client : Asks(q, "snapshot") => SnapshotFits(Req(q))

\* A synchronization is of the active campaign, and while a selection is being
\* replaced no campaign is armed or at work.
SelectionFits ==
    \/ "sync" \in crossed
    \/ /\ \A c \in Campaign \ {ActiveCampaign} : SafeToLeave(c)
       /\ \A q \in Client : Asks(q, "sync") => Req(q).campaign = ActiveCampaign
       /\ \A q \in Client : Asks(q, "select") => \A c \in Campaign : SafeToLeave(c)

PanelInv == PanelTyped /\ SnapshotsFit /\ SelectionFits

LEMMA ActiveTyped ==
    ASSUME PanelInv PROVE ActiveCampaign \in Campaign
BY PanelAssumption DEF PanelInv, PanelTyped, ActiveCampaign

LEMMA PanelStarts == PanelInit => PanelInv
<1>. SUFFICES ASSUME PanelInit PROVE PanelInv
  OBVIOUS
<1>1. PanelTyped
  BY DEF PanelInit, PanelTyped, LedgerRow, Asks
<1>2. SnapshotsFit
  BY DEF PanelInit, SnapshotsFit, CacheFits, Asks
<1>3. SelectionFits
  BY DEF PanelInit, SelectionFits, Asks, SafeToLeave
<1>. QED  BY <1>1, <1>2, <1>3 DEF PanelInv

\* The request of a client, and what an answer or a new one leaves of others.
LEMMA RequestFacts ==
    ASSUME PanelInv, NEW q \in Client, requests[q] # <<>>
    PROVE  /\ requests[q] = <<Req(q)>> /\ Req(q) \in RequestRow
           /\ Req(q) \in SnapshotRow \/ Req(q) \in SyncRow \/ Req(q) \in SelectRow
           /\ Req(q).kind = "snapshot" => Req(q) \in SnapshotRow
           /\ Req(q).kind = "sync" => Req(q) \in SyncRow
           /\ Req(q).kind = "select" => Req(q) \in SelectRow
           /\ Req(q).at \in {"generation", "look", "build", "rest", "store"} => Req(q).kind = "snapshot"
           /\ Req(q).at = "sync" => Req(q).kind = "sync"
           /\ Req(q).at = "replace" => Req(q).kind = "select"
<1>1. PICK r \in RequestRow : requests[q] = <<r>>
  BY DEF PanelInv, PanelTyped
<1>2. Req(q) = r
  BY <1>1 DEF Req
<1>. QED  BY <1>1, <1>2 DEF RequestRow, SnapshotRow, SyncRow, SelectRow

LEMMA RequestChange ==
    ASSUME PanelInv, NEW q \in Client, NEW y \in {<<>>} \cup {<<r>> : r \in RequestRow},
           requests' = [requests EXCEPT ![q] = y]
    PROVE  /\ requests' \in [Client -> {<<>>} \cup {<<r>> : r \in RequestRow}]
           /\ requests'[q] = y
           /\ \A o \in Client : o # q => /\ requests'[o] = requests[o] /\ Req(o)' = Req(o)
                                         /\ \A kind : Asks(o, kind)' <=> Asks(o, kind)
BY DEF PanelInv, PanelTyped, Req, Asks

LEMMA AnswerChange ==
    ASSUME PanelInv, NEW q \in Client, Answered(q)
    PROVE  /\ requests' \in [Client -> {<<>>} \cup {<<r>> : r \in RequestRow}]
           /\ \A kind : ~Asks(q, kind)'
           /\ \A o \in Client : o # q => /\ Req(o)' = Req(o)
                                         /\ \A kind : Asks(o, kind)' <=> Asks(o, kind)
<1>1. <<>> \in {<<>>} \cup {<<r>> : r \in RequestRow}
  OBVIOUS
<1>2. requests' = [requests EXCEPT ![q] = <<>>]
  BY DEF Answered
<1>3. requests'[q] = <<>>
  BY <1>1, <1>2, RequestChange
<1>4. \A kind : ~Asks(q, kind)'
  BY <1>3 DEF Asks
<1>. QED  BY <1>1, <1>2, <1>4, RequestChange

LEMMA RowChange ==
    ASSUME PanelInv, NEW q \in Client, NEW row \in RequestRow, Becomes(q, row)
    PROVE  /\ requests' \in [Client -> {<<>>} \cup {<<r>> : r \in RequestRow}]
           /\ Req(q)' = row /\ \A kind : Asks(q, kind)' <=> row.kind = kind
           /\ \A o \in Client : o # q => /\ Req(o)' = Req(o)
                                         /\ \A kind : Asks(o, kind)' <=> Asks(o, kind)
<1>1. <<row>> \in {<<>>} \cup {<<r>> : r \in RequestRow}
  OBVIOUS
<1>2. requests' = [requests EXCEPT ![q] = <<row>>]
  BY DEF Becomes
<1>3. requests'[q] = <<row>>
  BY <1>1, <1>2, RequestChange
<1>4. Req(q)' = row /\ \A kind : Asks(q, kind)' <=> row.kind = kind
  BY <1>3 DEF Req, Asks
<1>. QED  BY <1>1, <1>2, <1>4, RequestChange

\* A step of a snapshot that is not answered yet.
LEMMA SnapshotMoves ==
    ASSUME PanelInv, NEW q \in Client, NEW row \in SnapshotRow, Becomes(q, row),
           requests[q] = <<>> \/ Req(q).kind = "snapshot",
           "snapshot" \notin crossed => SnapshotFits(row),
           UNCHANGED <<queueFile, chosen, ledgers, projection, crossed, misled, switches>>
    PROVE  PanelInv'
<1>1. row \in RequestRow /\ row.kind = "snapshot"
  BY DEF RequestRow, SnapshotRow
<1>2. /\ requests' \in [Client -> {<<>>} \cup {<<r>> : r \in RequestRow}]
      /\ Req(q)' = row /\ ~Asks(q, "sync")' /\ ~Asks(q, "select")'
      /\ \A o \in Client : o # q => /\ Req(o)' = Req(o)
                                    /\ \A kind : Asks(o, kind)' <=> Asks(o, kind)
  BY <1>1, RowChange
<1>3. PanelTyped'
  BY <1>2 DEF PanelInv, PanelTyped
<1>4. \A r : SnapshotFits(r)' <=> SnapshotFits(r)
  BY DEF SnapshotFits, ActiveCampaign
<1>5. SnapshotsFit'
  <2>1. CASE "snapshot" \in crossed
    BY <2>1 DEF SnapshotsFit
  <2>2. CASE "snapshot" \notin crossed
    <3>1. ~misled' /\ CacheFits'
      BY <2>2 DEF PanelInv, SnapshotsFit, CacheFits
    <3>2. ASSUME NEW o \in Client, Asks(o, "snapshot")' PROVE SnapshotFits(Req(o))'
      <4>1. CASE o = q
        <5>1. SnapshotFits(row)'
          BY <1>4, <2>2
        <5>. QED  BY <1>2, <4>1, <5>1 DEF SnapshotFits
      <4>2. CASE o # q
        <5>1. SnapshotFits(Req(o)) /\ Req(o)' = Req(o)
          BY <1>2, <2>2, <3>2, <4>2 DEF PanelInv, SnapshotsFit
        <5>. QED  BY <5>1 DEF SnapshotFits, ActiveCampaign
      <4>. QED  BY <4>1, <4>2
    <3>. QED  BY <3>1, <3>2 DEF SnapshotsFit
  <2>. QED  BY <2>1, <2>2
<1>6. SelectionFits'
  BY <1>2 DEF PanelInv, SelectionFits, ActiveCampaign, SafeToLeave
<1>. QED  BY <1>3, <1>5, <1>6 DEF PanelInv

\* The end of a snapshot, with what it keeps and what it told.
LEMMA SnapshotAnswers ==
    ASSUME PanelInv, NEW q \in Client, Answered(q), misled' \in BOOLEAN,
           "snapshot" \notin crossed => ~misled' /\ CacheFits',
           UNCHANGED <<queueFile, chosen, ledgers, crossed, switches>>
    PROVE  PanelInv'
<1>1. /\ requests' \in [Client -> {<<>>} \cup {<<r>> : r \in RequestRow}]
      /\ \A kind : ~Asks(q, kind)'
      /\ \A o \in Client : o # q => /\ Req(o)' = Req(o)
                                    /\ \A kind : Asks(o, kind)' <=> Asks(o, kind)
  BY AnswerChange
<1>2. PanelTyped'
  BY <1>1 DEF PanelInv, PanelTyped
<1>3. SnapshotsFit'
  <2>1. CASE "snapshot" \in crossed
    BY <2>1 DEF SnapshotsFit
  <2>2. CASE "snapshot" \notin crossed
    <3>1. ASSUME NEW o \in Client, Asks(o, "snapshot")' PROVE SnapshotFits(Req(o))'
      <4>1. SnapshotFits(Req(o)) /\ Req(o)' = Req(o)
        BY <1>1, <2>2, <3>1 DEF PanelInv, SnapshotsFit
      <4>. QED  BY <4>1 DEF SnapshotFits, ActiveCampaign
    <3>. QED  BY <2>2, <3>1 DEF SnapshotsFit
  <2>. QED  BY <2>1, <2>2
<1>4. SelectionFits'
  BY <1>1 DEF PanelInv, SelectionFits, ActiveCampaign, SafeToLeave
<1>. QED  BY <1>2, <1>3, <1>4 DEF PanelInv

\* A snapshot that has its generation, one that builds, one that is built.
LEMMA SnapshotSteps ==
    ASSUME PanelInv, NEW q \in Client,
           OpenSnapshot(q) \/ ReadGeneration(q) \/ BuildFirst(q) \/ BuildRest(q)
    PROVE  PanelInv'
<1>1. PICK g \in LedgerGeneration :
        g = Generation(ActiveCampaign) /\ g.campaign = ActiveCampaign
        /\ g.commits = ledgers[ActiveCampaign].commits
  <2>1. PICK c \in Campaign : c = ActiveCampaign
    BY ActiveTyped
  <2>2. ledgers[c].commits \in Nat
    BY DEF PanelInv, PanelTyped, LedgerRow
  <2>3. Generation(c) = [campaign |-> c, commits |-> ledgers[c].commits]
    BY DEF Generation
  <2>4. Generation(c) \in LedgerGeneration
    BY <2>2, <2>3 DEF LedgerGeneration
  <2>. QED  BY <2>1, <2>3, <2>4
<1>2. UNCHANGED <<queueFile, chosen, ledgers, projection, crossed, misled, switches>>
  BY DEF OpenSnapshot, ReadGeneration, BuildFirst, BuildRest
<1>3. CASE OpenSnapshot(q)
  <2>. DEFINE row == [kind |-> "snapshot", at |-> "generation", campaign |-> ActiveCampaign,
                      since |-> ledgers[ActiveCampaign].commits,
                      generation |-> g, first |-> 0, last |-> 0]
  <2>1. row \in SnapshotRow
    BY <1>1, ActiveTyped DEF PanelInv, PanelTyped, LedgerRow, SnapshotRow, LedgerGeneration
  <2>2. SnapshotFits(row)
    BY <1>1, ActiveTyped DEF PanelInv, PanelTyped, LedgerRow, SnapshotFits, LedgerGeneration
  <2>3. Becomes(q, row) /\ requests[q] = <<>>
    BY <1>1, <1>3 DEF OpenSnapshot
  <2>. QED  BY <1>2, <2>1, <2>2, <2>3, SnapshotMoves
<1>4. CASE ReadGeneration(q)
  <2>1. PICK r \in SnapshotRow : r = Req(q) /\ r.kind = "snapshot" /\ r.at = "generation"
    BY <1>4, RequestFacts DEF ReadGeneration, Requesting, Req, SnapshotRow
  <2>. DEFINE row == [r EXCEPT !.at = "look", !.generation = g]
  <2>2. row \in SnapshotRow /\ row.campaign = r.campaign /\ row.since = r.since
        /\ row.generation = g /\ row.at = "look"
    BY <1>1 DEF SnapshotRow
  <2>3. Becomes(q, row) /\ Asks(q, "snapshot")
    BY <1>1, <1>4, <2>1 DEF ReadGeneration, Asks, Requesting
  <2>. HIDE DEF row
  <2>4. ASSUME "snapshot" \notin crossed PROVE SnapshotFits(row)
    <3>1. SnapshotFits(r)
      BY <2>1, <2>3, <2>4 DEF PanelInv, SnapshotsFit
    <3>. QED
      BY <1>1, <2>2, <3>1, ActiveTyped
         DEF PanelInv, PanelTyped, LedgerRow, SnapshotFits, LedgerGeneration, SnapshotRow
  <2>. QED  BY <1>2, <2>1, <2>2, <2>3, <2>4, SnapshotMoves
<1>5. CASE BuildFirst(q) \/ BuildRest(q)
  <2>1. PICK r \in SnapshotRow : r = Req(q) /\ r.kind = "snapshot" /\ r.at \in {"build", "rest"}
    BY <1>5, RequestFacts DEF BuildFirst, BuildRest, Requesting, Req, SnapshotRow
  <2>2. PICK n \in Nat : n = ledgers[r.campaign].commits
    BY DEF PanelInv, PanelTyped, LedgerRow, SnapshotRow
  <2>3. PICK row \in SnapshotRow :
          /\ Becomes(q, row)
          /\ row.campaign = r.campaign /\ row.since = r.since /\ row.generation = r.generation
          /\ \/ row.at = "rest" /\ row.first = n
             \/ r.at = "rest" /\ row.at = "store" /\ row.first = r.first /\ row.last = n
    <3>1. CASE BuildFirst(q)
      <4>. DEFINE row == [r EXCEPT !.at = "rest", !.first = n]
      <4>1. row \in SnapshotRow /\ row.campaign = r.campaign /\ row.since = r.since
            /\ row.generation = r.generation /\ row.at = "rest" /\ row.first = n
        BY DEF SnapshotRow
      <4>2. Becomes(q, row)
        BY <2>1, <2>2, <3>1 DEF BuildFirst
      <4>. HIDE DEF row
      <4>. QED  BY <4>1, <4>2
    <3>2. CASE BuildRest(q)
      <4>. DEFINE row == [r EXCEPT !.at = "store", !.last = n]
      <4>1. row \in SnapshotRow /\ row.campaign = r.campaign /\ row.since = r.since
            /\ row.generation = r.generation /\ row.at = "store" /\ row.first = r.first
            /\ row.last = n
        BY DEF SnapshotRow
      <4>2. Becomes(q, row) /\ r.at = "rest"
        BY <2>1, <2>2, <3>2 DEF BuildRest, Requesting, Req
      <4>. HIDE DEF row
      <4>. QED  BY <4>1, <4>2
    <3>. QED  BY <1>5, <3>1, <3>2
  <2>4. Asks(q, "snapshot")
    BY <1>5, <2>1 DEF BuildFirst, BuildRest, Requesting, Asks
  <2>5. ASSUME "snapshot" \notin crossed PROVE SnapshotFits(row)
    <3>1. SnapshotFits(r)
      BY <2>1, <2>4, <2>5 DEF PanelInv, SnapshotsFit
    <3>. QED  BY <2>2, <2>3, <3>1 DEF SnapshotFits, SnapshotRow, LedgerGeneration
  <2>. QED  BY <1>2, <2>1, <2>3, <2>5, SnapshotMoves
<1>. QED  BY <1>3, <1>4, <1>5

LEMMA AnswerSteps ==
    ASSUME PanelInv, NEW q \in Client,
           RefuseRequest(q) \/ LookUp(q) \/ StoreProjection(q)
    PROVE  PanelInv'
<1>1. CASE RefuseRequest(q)
  <2>1. Answered(q) /\ UNCHANGED <<queueFile, chosen, ledgers, projection, crossed, misled, switches>>
    BY <1>1 DEF RefuseRequest
  <2>2. "snapshot" \notin crossed => ~misled' /\ CacheFits'
    BY <2>1 DEF PanelInv, SnapshotsFit, CacheFits
  <2>3. misled' \in BOOLEAN
    BY <2>1 DEF PanelInv, PanelTyped
  <2>. QED  BY <2>1, <2>2, <2>3, SnapshotAnswers
<1>2. CASE LookUp(q)
  <2>1. PICK r \in SnapshotRow : r = Req(q) /\ r.kind = "snapshot" /\ r.at = "look"
    BY <1>2, RequestFacts DEF LookUp, Requesting, Req, SnapshotRow
  <2>2. Asks(q, "snapshot")
    BY <1>2, <2>1 DEF LookUp, Requesting, Asks
  <2>3. CASE projection # <<>> /\ projection[1].generation = Req(q).generation
    <3>1. /\ Answered(q) /\ UNCHANGED <<queueFile, chosen, ledgers, projection, crossed, switches>>
          /\ misled' = (misled \/ Misleads(q, projection[1].campaign, projection[1].first))
      BY <1>2, <2>3 DEF LookUp
    <3>2. ASSUME "snapshot" \notin crossed PROVE ~misled' /\ CacheFits'
      <4>1. SnapshotFits(r) /\ ~misled /\ CacheFits
        BY <2>1, <2>2, <3>2 DEF PanelInv, SnapshotsFit
      <4>2. PICK k \in KeptRow : /\ projection = <<k>> /\ k.campaign = k.generation.campaign
                                 /\ k.first = k.last /\ k.first = k.generation.commits
        BY <2>3, <4>1 DEF CacheFits
      <4>3. projection[1] = k
        BY <4>2
      <4>4. k.generation = r.generation
        BY <2>1, <2>3, <4>3
      <4>5. ~Misleads(q, k.campaign, k.first)
        BY <2>1, <4>1, <4>2, <4>4
           DEF Misleads, SnapshotFits, SnapshotRow, KeptRow, LedgerGeneration
      <4>. QED  BY <3>1, <4>1, <4>3, <4>5 DEF CacheFits
    <3>3. misled' \in BOOLEAN
      BY <3>1 DEF PanelInv, PanelTyped
    <3>. QED  BY <3>1, <3>2, <3>3, SnapshotAnswers
  <2>4. CASE ~(projection # <<>> /\ projection[1].generation = Req(q).generation)
    <3>. DEFINE row == [r EXCEPT !.at = "build"]
    <3>1. row \in SnapshotRow /\ row.campaign = r.campaign /\ row.since = r.since
          /\ row.generation = r.generation /\ row.at = "build"
      BY DEF SnapshotRow
    <3>2. Becomes(q, row)
      BY <1>2, <2>1, <2>4 DEF LookUp
    <3>. HIDE DEF row
    <3>3. UNCHANGED <<queueFile, chosen, ledgers, projection, crossed, misled, switches>>
      BY <1>2, <2>4 DEF LookUp
    <3>4. ASSUME "snapshot" \notin crossed PROVE SnapshotFits(row)
      <4>1. SnapshotFits(r)
        BY <2>1, <2>2, <3>4 DEF PanelInv, SnapshotsFit
      <4>. QED  BY <3>1, <4>1 DEF SnapshotFits
    <3>. QED  BY <2>1, <3>1, <3>2, <3>3, <3>4, SnapshotMoves
  <2>. QED  BY <2>3, <2>4
<1>3. CASE StoreProjection(q)
  <2>1. PICK r \in SnapshotRow : r = Req(q) /\ r.kind = "snapshot" /\ r.at = "store"
    BY <1>3, RequestFacts DEF StoreProjection, Requesting, Req, SnapshotRow
  <2>2. Asks(q, "snapshot")
    BY <1>3, <2>1 DEF StoreProjection, Requesting, Asks
  <2>3. /\ Answered(q) /\ UNCHANGED <<queueFile, chosen, ledgers, crossed, switches>>
        /\ misled' = (misled \/ Misleads(q, r.campaign, r.first))
        /\ projection' = IF Keeps(r.generation)
                           THEN <<[generation |-> r.generation, campaign |-> r.campaign,
                                   first |-> r.first, last |-> r.last]>>
                           ELSE projection
    BY <1>3, <2>1 DEF StoreProjection
  <2>4. ASSUME "snapshot" \notin crossed PROVE ~misled' /\ CacheFits'
    <3>1. SnapshotFits(r) /\ ~misled /\ CacheFits
      BY <2>1, <2>2, <2>4 DEF PanelInv, SnapshotsFit
    <3>2. ~Misleads(q, r.campaign, r.first)
      BY <2>1, <3>1 DEF Misleads, SnapshotFits, SnapshotRow, LedgerGeneration
    <3>3. CacheFits'
      <4>1. CASE ~Keeps(r.generation)
        BY <2>3, <3>1, <4>1 DEF CacheFits
      <4>2. CASE Keeps(r.generation)
        <5>. DEFINE k == [generation |-> r.generation, campaign |-> r.campaign,
                          first |-> r.first, last |-> r.last]
        <5>1. k \in KeptRow
          BY DEF KeptRow, SnapshotRow
        <5>2. r.generation.commits = ledgers[r.campaign].commits
          BY <3>1, <4>2 DEF Keeps, Generation, SnapshotFits
        <5>3. k.campaign = k.generation.campaign
              /\ k.first = k.last /\ k.first = k.generation.commits
          BY <2>1, <3>1, <5>2
             DEF SnapshotFits, PanelInv, PanelTyped, LedgerRow, SnapshotRow, LedgerGeneration
        <5>4. projection' = <<k>>
          BY <2>3, <4>2
        <5>. HIDE DEF k
        <5>. QED  BY <5>1, <5>3, <5>4 DEF CacheFits
      <4>. QED  BY <4>1, <4>2
    <3>. QED  BY <2>3, <3>1, <3>2, <3>3
  <2>5. misled' \in BOOLEAN
    BY <2>3 DEF PanelInv, PanelTyped
  <2>. QED  BY <2>3, <2>4, <2>5, SnapshotAnswers
<1>. QED  BY <1>1, <1>2, <1>3

\* A commit of a ledger.
LEMMA CommitFacts ==
    ASSUME PanelInv, NEW c \in Campaign, NEW arms \in BOOLEAN, NEW lives \in BOOLEAN,
           Commit(c, arms, lives)
    PROVE  /\ ledgers' \in [Campaign -> LedgerRow]
           /\ ledgers'[c].armed = arms /\ ledgers'[c].live = lives
           /\ \A d \in Campaign : /\ ledgers[d].commits <= ledgers'[d].commits
                                  /\ d # c => ledgers'[d] = ledgers[d]
<1>1. PICK row \in LedgerRow : row = ledgers[c]
  BY DEF PanelInv, PanelTyped
<1>. DEFINE made == [commits |-> row.commits + 1, armed |-> arms, live |-> lives]
<1>2. made \in LedgerRow /\ row.commits <= made.commits /\ made.armed = arms /\ made.live = lives
  BY DEF LedgerRow
<1>3. ledgers' = [ledgers EXCEPT ![c] = made]
  BY <1>1 DEF Commit
<1>. HIDE DEF made
<1>. QED  BY <1>1, <1>2, <1>3 DEF PanelInv, PanelTyped, LedgerRow

\* What snapshots rely on survives every commit.
LEMMA CommitKeeps ==
    ASSUME PanelInv, UNCHANGED <<chosen, projection, misled>>,
           "snapshot" \in crossed => "snapshot" \in crossed',
           ledgers' \in [Campaign -> LedgerRow],
           \A d \in Campaign : ledgers[d].commits <= ledgers'[d].commits,
           \A o \in Client : Asks(o, "snapshot")' => Asks(o, "snapshot") /\ Req(o)' = Req(o)
    PROVE  SnapshotsFit'
<1>1. CASE "snapshot" \in crossed
  BY <1>1 DEF SnapshotsFit
<1>2. CASE "snapshot" \notin crossed
  <2>1. ASSUME NEW o \in Client, Asks(o, "snapshot")' PROVE SnapshotFits(Req(o))'
    <3>1. PICK r \in SnapshotRow : r = Req(o) /\ r = Req(o)'
      BY <2>1, RequestFacts DEF Asks
    <3>2. SnapshotFits(r)
      BY <1>2, <2>1, <3>1 DEF PanelInv, SnapshotsFit
    <3>3. /\ ledgers[r.campaign].commits \in Nat /\ ledgers'[r.campaign].commits \in Nat
          /\ ledgers[r.campaign].commits <= ledgers'[r.campaign].commits
          /\ r.since \in Nat /\ r.generation.commits \in Nat /\ r.first \in Nat /\ r.last \in Nat
      BY DEF PanelInv, PanelTyped, SnapshotRow, LedgerRow, LedgerGeneration
    <3>4. SnapshotFits(r)'
      BY <3>2, <3>3 DEF SnapshotFits, ActiveCampaign
    <3>. QED  BY <3>1, <3>4 DEF SnapshotFits
  <2>2. ~misled' /\ CacheFits'
    BY <1>2 DEF PanelInv, SnapshotsFit, CacheFits
  <2>. QED  BY <2>1, <2>2 DEF SnapshotsFit
<1>. QED  BY <1>1, <1>2

LEMMA SurroundingSteps ==
    ASSUME PanelInv, NEW c \in Campaign, EditQueue(c) \/ WorkOn(c)
    PROVE  PanelInv'
<1>1. CASE EditQueue(c)
  <2>1. UNCHANGED <<chosen, ledgers, projection, requests, crossed, misled, switches>>
    BY <1>1 DEF EditQueue
  <2>2. queueFile' \in [Campaign -> {"armed", "disarmed"}]
    BY <1>1 DEF EditQueue, PanelInv, PanelTyped
  <2>3. PanelTyped'
    BY <2>1, <2>2 DEF PanelInv, PanelTyped, Asks, Req
  <2>4. SnapshotsFit'
    BY <2>1 DEF PanelInv, SnapshotsFit, CacheFits, SnapshotFits, Asks, Req, ActiveCampaign
  <2>5. SelectionFits'
    BY <2>1 DEF PanelInv, SelectionFits, SafeToLeave, Asks, Req, ActiveCampaign
  <2>. QED  BY <2>3, <2>4, <2>5 DEF PanelInv
<1>2. CASE WorkOn(c)
  <2>1. /\ UNCHANGED <<queueFile, chosen, projection, requests, crossed, misled, switches>>
        /\ ~SafeToLeave(c)
    BY <1>2 DEF WorkOn, SafeToLeave
  <2>2. PICK arms \in BOOLEAN, lives \in BOOLEAN : Commit(c, arms, lives)
    <3>1. PICK row \in LedgerRow : row = ledgers[c]
      BY DEF PanelInv, PanelTyped
    <3>2. row.armed \in BOOLEAN /\ (~row.live) \in BOOLEAN
      BY DEF LedgerRow
    <3>3. Commit(c, row.armed, ~row.live)
      BY <1>2, <3>1 DEF WorkOn
    <3>. QED  BY <3>2, <3>3
  <2>3. /\ ledgers' \in [Campaign -> LedgerRow]
        /\ \A d \in Campaign : /\ ledgers[d].commits <= ledgers'[d].commits
                               /\ d # c => ledgers'[d] = ledgers[d]
    BY <2>2, CommitFacts
  <2>4. PanelTyped'
    BY <2>1, <2>3 DEF PanelInv, PanelTyped, Asks, Req
  <2>5. SnapshotsFit'
    <3>1. \A o \in Client : Asks(o, "snapshot")' => Asks(o, "snapshot") /\ Req(o)' = Req(o)
      BY <2>1 DEF Asks, Req
    <3>. QED  BY <2>1, <2>3, <3>1, CommitKeeps
  <2>6. SelectionFits'
    BY <2>1, <2>3 DEF PanelInv, SelectionFits, SafeToLeave, Asks, Req, ActiveCampaign
  <2>. QED  BY <2>4, <2>5, <2>6 DEF PanelInv
<1>. QED  BY <1>1, <1>2

LEMMA SyncSteps ==
    ASSUME PanelInv, NEW q \in Client, OpenSync(q) \/ SyncCampaign(q)
    PROVE  PanelInv'
<1>1. CASE OpenSync(q)
  <2>. DEFINE row == [kind |-> "sync", at |-> "sync", campaign |-> ActiveCampaign]
  <2>1. row \in SyncRow /\ row.kind = "sync" /\ row.campaign = ActiveCampaign
    BY ActiveTyped DEF SyncRow
  <2>2. /\ Becomes(q, row) /\ row \in RequestRow
        /\ UNCHANGED <<queueFile, chosen, ledgers, projection, crossed, misled, switches>>
    BY <1>1, <2>1 DEF OpenSync, RequestRow
  <2>. HIDE DEF row
  <2>3. /\ requests' \in [Client -> {<<>>} \cup {<<r>> : r \in RequestRow}]
        /\ Req(q)' = row /\ \A kind : Asks(q, kind)' <=> kind = "sync"
        /\ \A o \in Client : o # q => /\ Req(o)' = Req(o)
                                      /\ \A kind : Asks(o, kind)' <=> Asks(o, kind)
    BY <2>1, <2>2, RowChange
  <2>4. PanelTyped'
    BY <2>2, <2>3 DEF PanelInv, PanelTyped
  <2>5. SnapshotsFit'
    <3>1. \A o \in Client : Asks(o, "snapshot")' => Asks(o, "snapshot") /\ Req(o)' = Req(o)
      BY <2>3
    <3>2. ledgers' \in [Campaign -> LedgerRow]
          /\ \A d \in Campaign : ledgers[d].commits <= ledgers'[d].commits
      BY <2>2 DEF PanelInv, PanelTyped, LedgerRow
    <3>. QED  BY <2>2, <3>1, <3>2, CommitKeeps
  <2>6. SelectionFits'
    BY <2>1, <2>2, <2>3 DEF PanelInv, SelectionFits, SafeToLeave, ActiveCampaign
  <2>. QED  BY <2>4, <2>5, <2>6 DEF PanelInv
<1>2. CASE SyncCampaign(q)
  <2>1. PICK r \in SyncRow : r = Req(q) /\ Asks(q, "sync")
    BY <1>2, RequestFacts DEF SyncCampaign, Requesting, Asks, Req
  <2>2. PICK arms \in BOOLEAN, lives \in BOOLEAN : Commit(r.campaign, arms, lives)
    <3>1. (queueFile[r.campaign] = "armed") \in BOOLEAN /\ ledgers[r.campaign].live \in BOOLEAN
      BY DEF PanelInv, PanelTyped, LedgerRow, SyncRow
    <3>. QED  BY <1>2, <2>1, <3>1 DEF SyncCampaign
  <2>3. /\ Answered(q)
        /\ UNCHANGED <<queueFile, chosen, projection, misled, switches>>
        /\ crossed' = IF \E o \in Client : Requesting(o, "replace")
                        THEN crossed \cup {"sync"} ELSE crossed
    BY <1>2 DEF SyncCampaign
  <2>4. r.campaign \in Campaign
    BY DEF SyncRow
  <2>5. /\ ledgers' \in [Campaign -> LedgerRow]
        /\ \A d \in Campaign : /\ ledgers[d].commits <= ledgers'[d].commits
                               /\ d # r.campaign => ledgers'[d] = ledgers[d]
    BY <2>2, <2>4, CommitFacts
  <2>6. /\ requests' \in [Client -> {<<>>} \cup {<<x>> : x \in RequestRow}]
        /\ \A kind : ~Asks(q, kind)'
        /\ \A o \in Client : o # q => /\ Req(o)' = Req(o)
                                      /\ \A kind : Asks(o, kind)' <=> Asks(o, kind)
    BY <2>3, AnswerChange
  <2>7. PanelTyped'
    BY <2>3, <2>5, <2>6 DEF PanelInv, PanelTyped
  <2>8. SnapshotsFit'
    <3>1. \A o \in Client : Asks(o, "snapshot")' => Asks(o, "snapshot") /\ Req(o)' = Req(o)
      BY <2>6
    <3>. QED  BY <2>3, <2>5, <3>1, CommitKeeps
  <2>9. SelectionFits'
    <3>1. CASE "sync" \in crossed \/ \E o \in Client : Requesting(o, "replace")
      BY <2>3, <3>1 DEF SelectionFits
    <3>2. CASE "sync" \notin crossed /\ ~\E o \in Client : Requesting(o, "replace")
      <4>1. \A o \in Client : ~Asks(o, "select")
        BY <3>2, RequestFacts DEF Asks, Requesting, SelectRow, Req
      <4>2. r.campaign = ActiveCampaign
        BY <2>1, <3>2 DEF PanelInv, SelectionFits
      <4>. QED
        BY <2>3, <2>5, <2>6, <3>2, <4>1, <4>2
           DEF PanelInv, SelectionFits, SafeToLeave, ActiveCampaign
    <3>. QED  BY <3>1, <3>2
  <2>. QED  BY <2>7, <2>8, <2>9 DEF PanelInv
<1>. QED  BY <1>1, <1>2

LEMMA CheckStep ==
    ASSUME PanelInv, NEW q \in Client, NEW target \in Campaign, CheckSelection(q, target)
    PROVE  PanelInv'
<1>. DEFINE row == [kind |-> "select", at |-> "replace", campaign |-> target]
<1>1. row \in SelectRow /\ row.kind = "select"
  BY DEF SelectRow
<1>2. /\ Becomes(q, row) /\ row \in RequestRow
      /\ UNCHANGED <<queueFile, chosen, ledgers, projection, crossed, misled>>
      /\ SafeToLeave(ActiveCampaign) /\ ~SelectionLocked
  BY <1>1 DEF CheckSelection, RequestRow
<1>. HIDE DEF row
<1>3. /\ requests' \in [Client -> {<<>>} \cup {<<r>> : r \in RequestRow}]
      /\ \A kind : Asks(q, kind)' <=> kind = "select"
      /\ \A o \in Client : o # q => /\ Req(o)' = Req(o)
                                    /\ \A kind : Asks(o, kind)' <=> Asks(o, kind)
  BY <1>1, <1>2, RowChange
<1>4. \A o \in Client : ~Asks(o, "select")
  BY <1>2, RequestFacts DEF Asks, SelectionLocked, Requesting, SelectRow, Req
<1>5. PanelTyped'
  BY <1>2, <1>3, <1>4 DEF PanelInv, PanelTyped
<1>6. SnapshotsFit'
  <2>1. \A o \in Client : Asks(o, "snapshot")' => Asks(o, "snapshot") /\ Req(o)' = Req(o)
    BY <1>3
  <2>2. ledgers' \in [Campaign -> LedgerRow]
        /\ \A d \in Campaign : ledgers[d].commits <= ledgers'[d].commits
    BY <1>2 DEF PanelInv, PanelTyped, LedgerRow
  <2>. QED  BY <1>2, <2>1, <2>2, CommitKeeps
<1>7. SelectionFits'
  <2>1. CASE "sync" \in crossed
    BY <1>2, <2>1 DEF SelectionFits
  <2>2. CASE "sync" \notin crossed
    <3>1. \A c \in Campaign : SafeToLeave(c)
      BY <1>2, <2>2 DEF PanelInv, SelectionFits
    <3>2. \A c \in Campaign : SafeToLeave(c)'
      BY <1>2, <3>1 DEF SafeToLeave
    <3>3. ActiveCampaign' = ActiveCampaign
      BY <1>2 DEF ActiveCampaign
    <3>. QED  BY <1>3, <2>2, <3>2, <3>3 DEF PanelInv, SelectionFits
  <2>. QED  BY <2>1, <2>2
<1>. QED  BY <1>5, <1>6, <1>7 DEF PanelInv

\* A change of the selection: whoever works with paths of it has crossed.
LEMMA SelectionChange ==
    ASSUME PanelInv, NEW q \in Client,
           ReplaceSelection(q) \/ RemoveSelection
    PROVE  PanelInv'
<1>1. /\ UNCHANGED <<queueFile, ledgers, projection, misled>>
      /\ chosen' \in Campaign \cup {NoSelection}
  BY RequestFacts DEF PanelInv, PanelTyped, ReplaceSelection, RemoveSelection, Requesting, SelectRow
<1>2. /\ requests' \in [Client -> {<<>>} \cup {<<r>> : r \in RequestRow}]
      /\ \A o \in Client, kind \in {"snapshot", "sync", "select"} :
           Asks(o, kind)' => /\ Asks(o, kind) /\ Req(o)' = Req(o) /\ kind \in crossed'
  <2>1. CASE ReplaceSelection(q)
    <3>1. /\ requests' \in [Client -> {<<>>} \cup {<<r>> : r \in RequestRow}]
          /\ \A kind : ~Asks(q, kind)'
          /\ \A o \in Client : o # q => /\ Req(o)' = Req(o)
                                        /\ \A kind : Asks(o, kind)' <=> Asks(o, kind)
      BY <2>1, AnswerChange DEF ReplaceSelection
    <3>2. \A o \in Client \ {q}, kind \in {"snapshot", "sync", "select"} :
            Asks(o, kind) => kind \in crossed'
      BY <2>1 DEF ReplaceSelection, Met, Asks
    <3>. QED  BY <3>1, <3>2
  <2>2. CASE RemoveSelection
    BY <2>2 DEF PanelInv, PanelTyped, RemoveSelection, Asks, Req
  <2>. QED  BY <2>1, <2>2
<1>3. PanelTyped'
  BY <1>1, <1>2 DEF PanelInv, PanelTyped
<1>4. crossed \subseteq crossed'
  BY DEF ReplaceSelection, RemoveSelection
<1>5. SnapshotsFit'
  BY <1>1, <1>2, <1>4 DEF PanelInv, SnapshotsFit, CacheFits
<1>6. SelectionFits'
  <2>1. CASE "sync" \in crossed
    BY <1>4, <2>1 DEF SelectionFits
  <2>2. CASE "sync" \notin crossed
    <3>1. \A c \in Campaign : SafeToLeave(c)
      <4>1. CASE ReplaceSelection(q)
        <5>1. Asks(q, "select")
          BY <4>1, RequestFacts DEF ReplaceSelection, Requesting, Asks
        <5>. QED  BY <2>2, <5>1 DEF PanelInv, SelectionFits
      <4>2. CASE RemoveSelection
        BY <2>2, <4>2 DEF RemoveSelection, PanelInv, SelectionFits, ActiveCampaign
      <4>. QED  BY <4>1, <4>2
    <3>2. \A c \in Campaign : SafeToLeave(c)'
      BY <1>1, <3>1 DEF SafeToLeave
    <3>. QED  BY <1>2, <3>2 DEF SelectionFits
  <2>. QED  BY <2>1, <2>2
<1>. QED  BY <1>3, <1>5, <1>6 DEF PanelInv

LEMMA PanelInvStep == PanelInv /\ [PanelNext]_panelVars => PanelInv'
<1>. SUFFICES ASSUME PanelInv, [PanelNext]_panelVars PROVE PanelInv'
  OBVIOUS
<1>1. CASE RemoveSelection
  <2>1. CASE Client = {}
    BY <1>1, <2>1 DEF RemoveSelection, PanelInv, PanelTyped, SnapshotsFit, CacheFits,
        SelectionFits, ActiveCampaign, SafeToLeave, Asks, Req
  <2>2. CASE Client # {}
    BY <1>1, <2>2, SelectionChange
  <2>. QED  BY <2>1, <2>2
<1>2. ASSUME NEW c \in Campaign, EditQueue(c) \/ WorkOn(c)
      PROVE  PanelInv'
  BY <1>2, SurroundingSteps
<1>3. ASSUME NEW q \in Client,
             \/ OpenSnapshot(q) \/ RefuseRequest(q) \/ ReadGeneration(q) \/ LookUp(q)
             \/ BuildFirst(q) \/ BuildRest(q) \/ StoreProjection(q)
             \/ OpenSync(q) \/ SyncCampaign(q)
             \/ \E target \in Campaign : CheckSelection(q, target)
             \/ ReplaceSelection(q)
      PROVE  PanelInv'
  BY <1>3, SnapshotSteps, AnswerSteps, SyncSteps, CheckStep, SelectionChange
<1>4. CASE UNCHANGED panelVars
  <2>1. UNCHANGED <<queueFile, chosen, ledgers, projection, requests, crossed, misled, switches>>
    BY <1>4 DEF panelVars
  <2>2. PanelTyped'
    BY <2>1 DEF PanelInv, PanelTyped, Asks, Req
  <2>3. SnapshotsFit'
    BY <2>1 DEF PanelInv, SnapshotsFit, CacheFits, SnapshotFits, Asks, Req, ActiveCampaign
  <2>4. SelectionFits'
    BY <2>1 DEF PanelInv, SelectionFits, SafeToLeave, Asks, Req, ActiveCampaign
  <2>. QED  BY <2>2, <2>3, <2>4 DEF PanelInv
<1>. QED  BY <1>1, <1>2, <1>3, <1>4 DEF PanelNext

LEMMA PanelFacts == PanelInv => ProjectionsTrue /\ LeftIdle /\ PanelTypeOK
<1>. SUFFICES ASSUME PanelInv PROVE ProjectionsTrue /\ LeftIdle /\ PanelTypeOK
  OBVIOUS
<1>1. ProjectionsTrue
  BY DEF PanelInv, SnapshotsFit, CacheFits, ProjectionsTrue
<1>2. LeftIdle
  BY DEF PanelInv, SelectionFits, LeftIdle
<1>3. \A q \in Client : Len(requests[q]) <= 1
  <2>1. TAKE q \in Client
  <2>2. CASE requests[q] = <<>>
    BY <2>2
  <2>3. CASE requests[q] # <<>>
    <3>1. PICK r : requests[q] = <<r>>
      BY <2>3, RequestFacts
    <3>. QED  BY <3>1
  <2>. QED  BY <2>2, <2>3
<1>4. \A q, o \in Client : Requesting(q, "replace") /\ Requesting(o, "replace") => q = o
  BY RequestFacts DEF PanelInv, PanelTyped, Requesting, Asks, Req
<1>. QED  BY <1>1, <1>2, <1>3, <1>4 DEF PanelInv, PanelTyped, PanelTypeOK

-----------------------------------------------------------------------------
(* The scorer: what is kept of a stream are the winners of the rows that   *)
(* were culled, and the rows that were read and not culled wait in the     *)
(* chunk.                                                                  *)

\* The accepted rows of R for query q; w holds the winners among them.
AcceptedOf(pop, R, q) == {r \in R : r.query = q /\ Score(pop[r]) > 0}
WinnersOf(pop, w, R, q) ==
    /\ w.score \in Nat
    /\ \A r \in AcceptedOf(pop, R, q) : Score(pop[r]) <= w.score
    /\ w.matches = {<<r.id, r.index>> :
                      r \in {s \in AcceptedOf(pop, R, q) : Score(pop[s]) = w.score}}
    /\ w.score = 0 \/ w.matches # {}

\* The rows that wait in a chunk: the packed ones and those noted at them.
Waits(r, p) == r.query = p.row.query /\ r.id = p.row.id /\ r.index \in p.indexes
WaitingIn(c) == {r \in CandidateRow : \E n \in DOMAIN c : Waits(r, c[n])}
PackedRow == [row : CandidateRow, indexes : SUBSET IndexId]
WinnerRow == [score : Nat, matches : SUBSET ((1 .. Candidates) \X IndexId)]
PackedTrue(p) ==
    /\ p.row \in Present /\ p.row.index \in p.indexes
    /\ \A r \in CandidateRow : Waits(r, p) => population[r] = population[p.row]

ScoreTypes ==
    /\ population \in [CandidateRow -> ScoreInput \cup {NoRow}]
    /\ setting \in [engine : {1, 2}, chunk : Nat \ {0}, requested : {"cpu", "gpu"}]
    /\ stream \in Nat /\ 1 <= stream /\ stream <= Streams + 1
    /\ chunk \in Seq(PackedRow) /\ Len(chunk) <= setting.chunk
    /\ kept \in [QueryId -> WinnerRow]
    /\ gpuBatches \in Nat
    /\ results \in Seq([kept : [QueryId -> WinnerRow], device : {"cpu", "gpu"}])
    /\ Len(results) = stream - 1
    /\ match.phase \in {"stream", "done", "failed"}
ChunkTrue ==
    /\ cursor \subseteq Rows(stream)
    /\ \A n \in DOMAIN chunk : PackedTrue(chunk[n])
    /\ WaitingIn(chunk) \subseteq cursor
KeptTrue == \A q \in QueryId : WinnersOf(population, kept[q], cursor \ WaitingIn(chunk), q)
ResultsTrue ==
    \A n \in DOMAIN results : \A q \in QueryId : WinnersOf(population, results[n].kept[q], Rows(n), q)

\* A GPU that scored nothing of the stream left no score in it.
UsedHere == IF device = "gpu" /\ gpuBatches = 0 THEN {} ELSE {device}
DevicesTrue ==
    /\ device \in {"cpu", setting.requested}
    /\ \A n \in DOMAIN results : results[n].device \in {"cpu", setting.requested}
    /\ used \subseteq {results[n].device : n \in DOMAIN results} \cup UsedHere
    /\ stream > Streams => device = setting.requested /\ gpuBatches = 0

ScoreInv ==
    ScoreTypes /\ ChunkTrue /\ KeptTrue /\ ResultsTrue /\ DevicesTrue /\ MatchesExact

\* A bounded set of numbers has its Max, and a finite sequence a bound.
LEMMA MaxOfBounded ==
    ASSUME NEW S \in SUBSET Nat, S # {}, NEW b \in Nat, \A s \in S : s <= b
    PROVE  Max(S) \in S /\ \A s \in S : s <= Max(S)
<1>. DEFINE B == {n \in Nat : \A s \in S : s <= n}
<1>1. B \in SUBSET Nat /\ B # {}
  OBVIOUS
<1>2. Min(B) \in B /\ \A n \in B : Min(B) <= n
  BY <1>1, MinOfStarts
<1>3. PICK m : m = Min(B)
  OBVIOUS
<1>4. m \in Nat /\ (\A s \in S : s <= m) /\ \A n \in B : m <= n
  BY <1>2, <1>3
<1>5. m \in S
  <2>. SUFFICES ASSUME m \notin S PROVE FALSE
    OBVIOUS
  <2>1. \A s \in S : s <= m /\ s # m /\ s \in Nat
    BY <1>4
  <2>2. m > 0
    <3>1. PICK s \in S : TRUE
      OBVIOUS
    <3>. QED  BY <1>4, <2>1, <3>1
  <2>3. m - 1 \in B
    BY <1>4, <2>1, <2>2
  <2>. QED  BY <1>4, <2>3
<1>6. Max(S) \in S /\ \A s \in S : Max(S) >= s
  <2>1. \E x \in S : \A s \in S : x >= s
    BY <1>4, <1>5
  <2>. QED  BY <2>1 DEF Max
<1>. QED  BY <1>6

LEMMA SequenceBound ==
    ASSUME NEW n \in Nat, NEW f \in [1 .. n -> Nat]
    PROVE  \E b \in Nat : \A i \in 1 .. n : f[i] <= b
<1>. DEFINE Bounded(k) == \E b \in Nat : \A i \in 1 .. k : f[i] <= b
            Free == {k \in Nat : k <= n /\ ~Bounded(k)}
<1>1. Bounded(0)
  OBVIOUS
<1>2. \A k \in Nat : k < n /\ Bounded(k) => Bounded(k + 1)
  <2>1. SUFFICES ASSUME NEW k \in Nat, k < n, NEW b \in Nat, \A i \in 1 .. k : f[i] <= b
                 PROVE  Bounded(k + 1)
    OBVIOUS
  <2>2. f[k + 1] \in Nat
    BY <2>1
  <2>3. PICK c \in Nat : b <= c /\ f[k + 1] <= c
    BY <2>2
  <2>4. \A i \in 1 .. (k + 1) : f[i] <= c
    <3>1. TAKE i \in 1 .. (k + 1)
    <3>2. CASE i = k + 1
      BY <2>3, <3>2
    <3>3. CASE i # k + 1
      <4>1. i \in 1 .. k /\ i \in 1 .. n
        BY <2>1, <3>3
      <4>2. f[i] \in Nat /\ f[i] <= b
        BY <2>1, <4>1
      <4>. QED  BY <2>3, <4>2
    <3>. QED  BY <3>2, <3>3
  <2>. QED  BY <2>4
<1>. HIDE DEF Bounded
<1>3. Free = {}
  <2>1. SUFFICES ASSUME Free # {} PROVE FALSE
    OBVIOUS
  <2>2. Min(Free) \in Free /\ \A x \in Free : Min(Free) <= x
    <3>1. Free \in SUBSET Nat
      OBVIOUS
    <3>. QED  BY <2>1, <3>1, MinOfStarts
  <2>3. PICK k : k = Min(Free)
    OBVIOUS
  <2>4. k \in Nat /\ k <= n /\ ~Bounded(k) /\ \A x \in Free : k <= x
    BY <2>2, <2>3
  <2>5. k # 0 /\ k - 1 \in Nat /\ k - 1 < n /\ ~(k <= k - 1) /\ (k - 1) + 1 = k
    BY <1>1, <2>4
  <2>6. Bounded(k - 1)
    BY <2>4, <2>5
  <2>. QED  BY <1>2, <2>4, <2>5, <2>6
<1>4. Bounded(n)
  BY <1>3
<1>. QED  BY <1>4 DEF Bounded

LEMMA ScoreNat ==
    ASSUME NEW i \in ScoreInput
    PROVE  Score(i) \in Nat
<1>1. Units(i) \in Nat
  <2>1. i.units \in Nat /\ MediumUnits \in Nat
    BY ScoringAssumption DEF ScoreInput
  <2>2. PICK b \in Nat : i.units <= b /\ MediumUnits <= b
    BY <2>1
  <2>3. Max({i.units, MediumUnits}) \in {i.units, MediumUnits}
    <3>. DEFINE S == {i.units, MediumUnits}
    <3>1. S \in SUBSET Nat /\ S # {} /\ \A s \in S : s <= b
      BY <2>1, <2>2
    <3>. QED  BY <3>1, MaxOfBounded
  <2>. QED  BY <2>1, <2>3 DEF Units
<1>2. Units(i) + i.specific + i.child + i.parent \in Nat
  BY <1>1 DEF ScoreInput
<1>. QED  BY <1>2 DEF Score

LEMMA RowScore ==
    ASSUME population \in [CandidateRow -> ScoreInput \cup {NoRow}], NEW r \in Present
    PROVE  r \in CandidateRow /\ Score(population[r]) \in Nat
BY ScoreNat DEF Present

\* Culling a chunk keeps the winners of the rows culled before and of those
\* that waited in it.
LEMMA CullKeeps ==
    ASSUME population \in [CandidateRow -> ScoreInput \cup {NoRow}],
           NEW q \in QueryId, NEW D \in SUBSET Present, NEW w \in WinnerRow, WinnersOf(population, w, D, q),
           NEW c \in Seq(PackedRow), \A n \in DOMAIN c : PackedTrue(c[n])
    PROVE  Cull(w, c, q) \in WinnerRow /\ WinnersOf(population, Cull(w, c, q), D \cup WaitingIn(c), q)
<1>. DEFINE sc(n) == Score(population[c[n].row])
            S == {w.score} \cup {sc(n) : n \in AcceptedIn(c, q)}
            W == WaitingIn(c)
            R == D \cup W
<1>1. DOMAIN c = 1 .. Len(c) /\ Len(c) \in Nat
  OBVIOUS
<1>2. \A n \in DOMAIN c : /\ c[n] \in PackedRow /\ c[n].row \in CandidateRow
                          /\ c[n].indexes \subseteq IndexId /\ sc(n) \in Nat
  <2>1. TAKE n \in DOMAIN c
  <2>2. c[n] \in PackedRow
    BY <1>1
  <2>3. sc(n) \in Nat
    BY RowScore DEF PackedTrue
  <2>. QED  BY <2>2, <2>3 DEF PackedRow
<1>3. PICK b \in Nat : \A n \in DOMAIN c : sc(n) <= b
  <2>. DEFINE f == [n \in 1 .. Len(c) |-> sc(n)]
  <2>1. f \in [1 .. Len(c) -> Nat]
    BY <1>1, <1>2
  <2>2. PICK b \in Nat : \A n \in 1 .. Len(c) : f[n] <= b
    BY <1>1, <2>1, SequenceBound
  <2>. QED  BY <1>1, <2>2
<1>4. w.score \in Nat
  BY DEF WinnerRow
<1>5. PICK top : top = Max(S)
  OBVIOUS
<1>6. top \in S /\ top \in Nat /\ w.score <= top /\ \A n \in AcceptedIn(c, q) : sc(n) <= top
  <2>1. S \in SUBSET Nat /\ S # {}
    BY <1>2, <1>4 DEF AcceptedIn
  <2>2. PICK a \in Nat : b <= a /\ w.score <= a
    BY <1>4
  <2>3. \A s \in S : s <= a
    BY <1>2, <1>3, <2>2 DEF AcceptedIn
  <2>4. Max(S) \in S /\ \A s \in S : s <= Max(S)
    BY <2>1, <2>3, MaxOfBounded
  <2>. QED  BY <2>1, <2>4, <1>5
<1>. DEFINE best == {n \in AcceptedIn(c, q) : sc(n) = top}
            out == [score |-> top,
                    matches |-> (IF w.score = top THEN w.matches ELSE {})
                                  \cup UNION {{c[n].row.id} \X c[n].indexes : n \in best}]
<1>7. Cull(w, c, q) = out
  BY <1>5 DEF Cull
<1>8. \A n \in AcceptedIn(c, q) : n \in DOMAIN c /\ c[n].row.query = q /\ sc(n) > 0
  BY DEF AcceptedIn
<1>9. \A r \in W : r \in CandidateRow /\ \E n \in DOMAIN c : Waits(r, c[n]) /\ population[r] = population[c[n].row]
  BY DEF WaitingIn, PackedTrue
<1>10. \A r \in AcceptedOf(population, R, q) : Score(population[r]) \in Nat /\ Score(population[r]) <= top
  <2>1. TAKE r \in AcceptedOf(population, R, q)
  <2>2. r.query = q /\ Score(population[r]) > 0 /\ r \in R
    BY <2>1 DEF AcceptedOf
  <2>3. CASE r \in D
    <3>1. r \in AcceptedOf(population, D, q)
      BY <2>2, <2>3 DEF AcceptedOf
    <3>2. Score(population[r]) \in Nat /\ Score(population[r]) <= w.score
      BY <2>3, <3>1, RowScore DEF WinnersOf
    <3>. QED  BY <3>2, <1>4, <1>6
  <2>4. CASE r \in W
    <3>1. PICK n \in DOMAIN c : Waits(r, c[n]) /\ population[r] = population[c[n].row]
      BY <1>9, <2>4
    <3>2. n \in AcceptedIn(c, q)
      BY <2>2, <3>1 DEF AcceptedIn, Waits
    <3>. QED  BY <1>2, <1>6, <3>1, <3>2
  <2>. QED  BY <2>2, <2>3, <2>4
<1>11. \A x \in out.matches : \E r \in AcceptedOf(population, R, q) : x = <<r.id, r.index>> /\ Score(population[r]) = top
  <2>1. TAKE x \in out.matches
  <2>2. CASE w.score = top /\ x \in w.matches
    <3>1. PICK r \in AcceptedOf(population, D, q) : x = <<r.id, r.index>> /\ Score(population[r]) = w.score
      BY <2>2 DEF WinnersOf
    <3>2. r \in AcceptedOf(population, R, q)
      BY <3>1 DEF AcceptedOf
    <3>. QED  BY <2>2, <3>1, <3>2
  <2>3. CASE ~(w.score = top /\ x \in w.matches)
    <3>1. PICK n \in best : x \in {c[n].row.id} \X c[n].indexes
      BY <2>1, <2>3
    <3>2. PICK k \in c[n].indexes : x = <<c[n].row.id, k>>
      BY <3>1
    <3>3. /\ n \in DOMAIN c /\ c[n].row.query = q /\ sc(n) > 0 /\ sc(n) = top
          /\ c[n].row \in CandidateRow /\ k \in IndexId /\ c[n].row.id \in 1 .. Candidates
      BY <1>2, <1>8, <3>1, <3>2 DEF CandidateRow
    <3>. DEFINE r == [query |-> q, id |-> c[n].row.id, index |-> k]
    <3>4. r \in CandidateRow /\ Waits(r, c[n])
      BY <3>2, <3>3 DEF CandidateRow, Waits
    <3>5. r \in W /\ population[r] = population[c[n].row]
      BY <3>3, <3>4 DEF WaitingIn, PackedTrue
    <3>6. r.query = q /\ x = <<r.id, r.index>>
      BY <3>2
    <3>. HIDE DEF r
    <3>7. r \in AcceptedOf(population, R, q) /\ Score(population[r]) = top
      BY <3>3, <3>5, <3>6 DEF AcceptedOf
    <3>. QED  BY <3>6, <3>7
  <2>. QED  BY <2>2, <2>3
<1>12. \A r \in AcceptedOf(population, R, q) : Score(population[r]) = top => <<r.id, r.index>> \in out.matches
  <2>1. TAKE r \in AcceptedOf(population, R, q)
  <2>. SUFFICES ASSUME Score(population[r]) = top PROVE <<r.id, r.index>> \in out.matches
    OBVIOUS
  <2>2. r.query = q /\ Score(population[r]) > 0 /\ r \in R
    BY <2>1 DEF AcceptedOf
  <2>3. CASE r \in D
    <3>1. r \in AcceptedOf(population, D, q)
      BY <2>2, <2>3 DEF AcceptedOf
    <3>2. top <= w.score
      BY <3>1 DEF WinnersOf
    <3>3. w.score = top
      BY <1>4, <1>6, <3>2
    <3>. QED  BY <3>1, <3>3 DEF WinnersOf
  <2>4. CASE r \in W
    <3>1. PICK n \in DOMAIN c : Waits(r, c[n]) /\ population[r] = population[c[n].row]
      BY <1>9, <2>4
    <3>2. n \in best
      BY <2>2, <3>1 DEF AcceptedIn, Waits
    <3>3. <<r.id, r.index>> \in {c[n].row.id} \X c[n].indexes
      BY <3>1 DEF Waits
    <3>. QED  BY <3>2, <3>3
  <2>. QED  BY <2>2, <2>3, <2>4
<1>13. out.matches \subseteq (1 .. Candidates) \X IndexId
  <2>1. D \subseteq CandidateRow /\ W \subseteq CandidateRow
    BY DEF Present, WaitingIn
  <2>2. \A r \in CandidateRow : <<r.id, r.index>> \in (1 .. Candidates) \X IndexId
    BY DEF CandidateRow
  <2>. QED  BY <1>11, <2>1, <2>2 DEF AcceptedOf
<1>14. top = 0 \/ out.matches # {}
  <2>1. CASE w.score = top
    <3>1. w.score = 0 \/ w.matches # {}
      BY DEF WinnersOf
    <3>. QED  BY <2>1, <3>1
  <2>2. CASE w.score # top
    <3>1. PICK n \in AcceptedIn(c, q) : sc(n) = top
      BY <1>6, <2>2
    <3>2. n \in DOMAIN c /\ c[n].row.index \in c[n].indexes
      BY <1>8, <3>1 DEF PackedTrue
    <3>3. <<c[n].row.id, c[n].row.index>> \in UNION {{c[m].row.id} \X c[m].indexes : m \in best}
      BY <3>1, <3>2
    <3>. QED  BY <3>3
  <2>. QED  BY <2>1, <2>2
<1>15. out.score = top
  OBVIOUS
<1>. HIDE DEF out
<1>16. out.matches = {<<r.id, r.index>> : r \in {s \in AcceptedOf(population, R, q) : Score(population[s]) = top}}
  BY <1>11, <1>12
<1>17. WinnersOf(population, out, R, q)
  BY <1>6, <1>10, <1>14, <1>15, <1>16 DEF WinnersOf
<1>18. out \in WinnerRow
  BY <1>6, <1>13 DEF out, WinnerRow
<1>. QED  BY <1>7, <1>17, <1>18

LEMMA ScoreStarts == ScoringInit => ScoreInv
<1>. SUFFICES ASSUME ScoringInit PROVE ScoreInv
  OBVIOUS
<1>1. /\ population \in [CandidateRow -> ScoreInput \cup {NoRow}]
      /\ setting \in [engine : {1, 2}, chunk : Nat \ {0}, requested : {"cpu", "gpu"}]
      /\ setting.chunk \in Nat \ {0} /\ setting.requested \in {"cpu", "gpu"}
  BY ScoringAssumption DEF ScoringInit
<1>2. Streams \in Nat /\ 1 <= Streams
  BY ScoringAssumption DEF Streams
<1>3. chunk = <<>> /\ chunk \in Seq(PackedRow) /\ Len(chunk) = 0 /\ DOMAIN chunk = {}
  BY DEF ScoringInit
<1>4. results = <<>> /\ Len(results) = 0 /\ DOMAIN results = {}
      /\ results \in Seq([kept : [QueryId -> WinnerRow], device : {"cpu", "gpu"}])
  BY DEF ScoringInit
<1>5. ScoreTypes
  <2>1. kept \in [QueryId -> WinnerRow]
    BY DEF ScoringInit, Unmatched, WinnerRow
  <2>. QED  BY <1>1, <1>2, <1>3, <1>4, <2>1 DEF ScoringInit, ScoreTypes
<1>6. WaitingIn(chunk) = {} /\ cursor = {}
  BY <1>3 DEF WaitingIn, ScoringInit
<1>7. ChunkTrue
  BY <1>3, <1>6 DEF ChunkTrue
<1>8. KeptTrue
  BY <1>6 DEF ScoringInit, KeptTrue, WinnersOf, AcceptedOf, Unmatched
<1>9. ResultsTrue
  BY <1>4 DEF ResultsTrue
<1>10. DevicesTrue
  BY <1>1, <1>2, <1>4 DEF ScoringInit, DevicesTrue
<1>11. MatchesExact
  BY DEF ScoringInit, MatchesExact
<1>. QED  BY <1>5, <1>7, <1>8, <1>9, <1>10, <1>11 DEF ScoreInv

\* What the definitions read of the run stays as it is.
LEMMA ScoreFixed ==
    ASSUME UNCHANGED <<population, setting>>
    PROVE  /\ Present' = Present /\ Streams' = Streams
           /\ \A n : Rows(n)' = Rows(n)
           /\ \A p : PackedTrue(p)' = PackedTrue(p)
           /\ \A q : Winning(q)' = Winning(q)
<1>1. Present' = Present /\ Streams' = Streams
  BY DEF Present, Streams
<1>2. \A n : Rows(n)' = Rows(n)
  BY <1>1 DEF Rows
<1>3. \A p : PackedTrue(p)' = PackedTrue(p)
  BY <1>1 DEF PackedTrue
<1>4. \A q : Winning(q)' = Winning(q)
  BY <1>1 DEF Winning, AcceptedRows
<1>. QED  BY <1>1, <1>2, <1>3, <1>4

LEMMA StreamFacts ==
    ASSUME ScoreTypes
    PROVE  /\ Streams \in Nat /\ 1 <= Streams /\ Streams <= Indexes /\ Indexes \in Nat
           /\ setting.engine \in {1, 2} /\ setting.chunk \in Nat \ {0}
           /\ setting.requested \in {"cpu", "gpu"}
           /\ stream \in Nat /\ Len(chunk) \in Nat /\ DOMAIN chunk = 1 .. Len(chunk)
           /\ DOMAIN results = 1 .. (stream - 1)
           /\ \A n \in DOMAIN chunk : chunk[n] \in PackedRow
           /\ \A n \in DOMAIN results :
                results[n] \in [kept : [QueryId -> WinnerRow], device : {"cpu", "gpu"}]
<1>1. setting.engine \in {1, 2} /\ setting.chunk \in Nat \ {0} /\ setting.requested \in {"cpu", "gpu"}
  BY DEF ScoreTypes
<1>2. Streams \in Nat /\ 1 <= Streams /\ Streams <= Indexes /\ Indexes \in Nat
  BY ScoringAssumption DEF Streams
<1>3. /\ stream \in Nat /\ Len(chunk) \in Nat /\ DOMAIN chunk = 1 .. Len(chunk)
      /\ \A n \in DOMAIN chunk : chunk[n] \in PackedRow
  BY DEF ScoreTypes
<1>4. /\ DOMAIN results = 1 .. (stream - 1)
      /\ \A n \in DOMAIN results :
                results[n] \in [kept : [QueryId -> WinnerRow], device : {"cpu", "gpu"}]
  <2>. DEFINE Result == [kept : [QueryId -> WinnerRow], device : {"cpu", "gpu"}]
  <2>1. results \in Seq(Result) /\ Len(results) = stream - 1
    BY DEF ScoreTypes
  <2>. HIDE DEF Result
  <2>2. DOMAIN results = 1 .. Len(results) /\ \A n \in DOMAIN results : results[n] \in Result
    BY <2>1
  <2>. QED  BY <2>1, <2>2 DEF Result
<1>. QED  BY <1>1, <1>2, <1>3, <1>4

LEMMA PackKeeps ==
    ASSUME ScoreInv, Pack
    PROVE  ScoreInv'
<1>1. UNCHANGED <<population, setting, stream, kept, device, gpuBatches, results, used, match>>
  BY DEF Pack
<1>2. ScoreTypes /\ ChunkTrue /\ KeptTrue /\ ResultsTrue /\ DevicesTrue /\ MatchesExact
  BY DEF ScoreInv
<1>3. PICK r \in Ahead :
        LET equal == {n \in DOMAIN chunk : Duplicate(chunk[n], r)}
        IN  /\ chunk' = IF equal # {}
                          THEN [n \in DOMAIN chunk |->
                                  IF n \in equal
                                    THEN [chunk[n] EXCEPT !.indexes = @ \cup {r.index}]
                                    ELSE chunk[n]]
                          ELSE Append(chunk, [row |-> r, indexes |-> {r.index}])
            /\ cursor' = cursor \cup {r}
  BY DEF Pack
<1>4. r \in Rows(stream) /\ r \notin cursor /\ r \in Present /\ r \in CandidateRow
      /\ r.index \in IndexId
  BY DEF Ahead, Rows, Present, CandidateRow
<1>5. Len(chunk) < setting.chunk /\ setting.chunk \in Nat
  <2>1. Len(chunk) # setting.chunk
    BY DEF Pack, FlushDue
  <2>. QED  BY <1>2, <2>1, StreamFacts DEF ScoreTypes
<1>. DEFINE equal == {n \in DOMAIN chunk : Duplicate(chunk[n], r)}
            C == WaitingIn(chunk)
<1>6. \A n \in DOMAIN chunk : /\ chunk[n] \in PackedRow /\ PackedTrue(chunk[n])
                              /\ chunk[n].row \in CandidateRow /\ chunk[n].indexes \subseteq IndexId
  BY <1>2, StreamFacts DEF ChunkTrue, PackedRow
\* A row is its query, candidate and index.
<1>7. \A s \in CandidateRow : s.query = r.query /\ s.id = r.id /\ s.index = r.index => s = r
  BY <1>4 DEF CandidateRow
<1>8. /\ chunk' \in Seq(PackedRow) /\ Len(chunk') <= setting.chunk
      /\ \A n \in DOMAIN chunk' : PackedTrue(chunk'[n])
      /\ WaitingIn(chunk') = C \cup {r}
  <2>1. CASE equal # {}
    <3>. DEFINE out(n) == [chunk[n] EXCEPT !.indexes = @ \cup {r.index}]
    <3>1. chunk' = [n \in DOMAIN chunk |-> IF n \in equal THEN out(n) ELSE chunk[n]]
      BY <1>3, <2>1
    <3>2. \A n \in DOMAIN chunk : /\ out(n) \in PackedRow /\ out(n).row = chunk[n].row
                                  /\ out(n).indexes = chunk[n].indexes \cup {r.index}
      BY <1>4, <1>6 DEF PackedRow
    <3>. HIDE DEF out
    <3>3. \A n \in equal : /\ n \in DOMAIN chunk
                           /\ chunk[n].row.query = r.query /\ chunk[n].row.id = r.id
                           /\ population[chunk[n].row] = population[r]
      BY DEF Duplicate, SameInput
    <3>4. \A n \in equal : \A s \in CandidateRow : Waits(s, out(n)) <=> Waits(s, chunk[n]) \/ s = r
      BY <1>7, <3>2, <3>3 DEF Waits
    <3>5. DOMAIN chunk' = DOMAIN chunk /\ \A n \in DOMAIN chunk : chunk'[n] \in PackedRow
      BY <1>6, <3>1, <3>2
    <3>6. PICK k \in Nat : k = Len(chunk) /\ DOMAIN chunk = 1 .. k
      BY <1>2, StreamFacts
    <3>7. chunk' \in Seq(PackedRow) /\ Len(chunk') = k
      <4>1. chunk' \in [1 .. k -> PackedRow]
        BY <3>1, <3>5, <3>6
      <4>2. chunk' \in Seq(PackedRow)
        BY <3>6, <4>1
      <4>3. Len(chunk') \in Nat /\ DOMAIN chunk' = 1 .. Len(chunk')
        BY <4>2
      <4>. QED  BY <4>1, <4>2, <4>3, <3>6
    <3>8. \A n \in DOMAIN chunk : PackedTrue(chunk'[n])
      <4>1. TAKE n \in DOMAIN chunk
      <4>2. CASE n \in equal
        <5>1. chunk'[n] = out(n)
          BY <3>1, <4>2
        <5>2. \A s \in CandidateRow : Waits(s, out(n)) => population[s] = population[out(n).row]
          BY <1>6, <3>2, <3>3, <3>4, <4>2 DEF PackedTrue
        <5>. QED  BY <1>6, <3>2, <5>1, <5>2 DEF PackedTrue
      <4>3. CASE n \notin equal
        BY <1>6, <3>1, <4>3
      <4>. QED  BY <4>2, <4>3
    <3>9. \A s \in CandidateRow : s \in WaitingIn(chunk') <=> s \in C \/ s = r
      <4>1. TAKE s \in CandidateRow
      <4>2. ASSUME s \in WaitingIn(chunk') PROVE s \in C \/ s = r
        <5>1. PICK n \in DOMAIN chunk : Waits(s, chunk'[n])
          BY <3>5, <4>2 DEF WaitingIn
        <5>2. CASE n \in equal
          BY <3>1, <3>4, <5>1, <5>2 DEF WaitingIn
        <5>3. CASE n \notin equal
          BY <3>1, <5>1, <5>3 DEF WaitingIn
        <5>. QED  BY <5>2, <5>3
      <4>3. ASSUME s \in C PROVE s \in WaitingIn(chunk')
        <5>1. PICK n \in DOMAIN chunk : Waits(s, chunk[n])
          BY <4>3 DEF WaitingIn
        <5>2. Waits(s, chunk'[n])
          BY <3>1, <3>4, <5>1
        <5>. QED  BY <3>5, <5>1, <5>2 DEF WaitingIn
      <4>4. ASSUME s = r PROVE s \in WaitingIn(chunk')
        <5>1. PICK n \in equal : TRUE
          BY <2>1
        <5>2. n \in DOMAIN chunk /\ chunk'[n] = out(n) /\ Waits(s, out(n))
          BY <3>1, <3>4, <4>4, <5>1
        <5>. QED  BY <3>5, <5>2 DEF WaitingIn
      <4>. QED  BY <4>2, <4>3, <4>4
    <3>10. WaitingIn(chunk') = C \cup {r}
      BY <1>4, <3>9 DEF WaitingIn
    <3>. QED  BY <1>5, <3>5, <3>6, <3>7, <3>8, <3>10
  <2>2. CASE equal = {}
    <3>. DEFINE p == [row |-> r, indexes |-> {r.index}]
    <3>1. chunk' = Append(chunk, p)
      BY <1>3, <2>2
    <3>2. p \in PackedRow /\ p.row = r /\ p.indexes = {r.index}
      BY <1>4 DEF PackedRow
    <3>. HIDE DEF p
    <3>3. \A s \in CandidateRow : Waits(s, p) <=> s = r
      BY <1>7, <3>2 DEF Waits
    <3>4. PackedTrue(p)
      BY <1>4, <3>2, <3>3 DEF PackedTrue
    <3>5. PICK k \in Nat : k = Len(chunk) /\ DOMAIN chunk = 1 .. k
      BY <1>2, StreamFacts
    <3>6. /\ chunk' \in Seq(PackedRow) /\ Len(chunk') = k + 1 /\ DOMAIN chunk' = 1 .. (k + 1)
          /\ chunk'[k + 1] = p /\ \A n \in 1 .. k : chunk'[n] = chunk[n]
      BY <1>2, <3>1, <3>2, <3>5 DEF ScoreTypes
    <3>7. \A n \in DOMAIN chunk' : PackedTrue(chunk'[n])
      <4>1. TAKE n \in DOMAIN chunk'
      <4>2. CASE n = k + 1
        BY <3>4, <3>6, <4>2
      <4>3. CASE n # k + 1
        <5>1. n \in 1 .. k
          BY <3>6, <4>3
        <5>. QED  BY <1>6, <3>5, <3>6, <5>1
      <4>. QED  BY <4>2, <4>3
    <3>8. \A s \in CandidateRow : s \in WaitingIn(chunk') <=> s \in C \/ s = r
      <4>1. TAKE s \in CandidateRow
      <4>2. ASSUME s \in WaitingIn(chunk') PROVE s \in C \/ s = r
        <5>1. PICK n \in DOMAIN chunk' : Waits(s, chunk'[n])
          BY <4>2 DEF WaitingIn
        <5>2. CASE n = k + 1
          BY <3>3, <3>6, <5>1, <5>2
        <5>3. CASE n # k + 1
          <6>1. n \in 1 .. k
            BY <3>6, <5>3
          <6>. QED  BY <3>5, <3>6, <5>1, <6>1 DEF WaitingIn
        <5>. QED  BY <5>2, <5>3
      <4>3. ASSUME s \in C PROVE s \in WaitingIn(chunk')
        <5>1. PICK n \in 1 .. k : Waits(s, chunk[n])
          BY <3>5, <4>3 DEF WaitingIn
        <5>2. n \in DOMAIN chunk' /\ Waits(s, chunk'[n])
          BY <3>6, <5>1
        <5>. QED  BY <5>2 DEF WaitingIn
      <4>4. ASSUME s = r PROVE s \in WaitingIn(chunk')
        <5>1. k + 1 \in DOMAIN chunk' /\ Waits(s, chunk'[k + 1])
          BY <3>3, <3>6, <4>4
        <5>. QED  BY <5>1 DEF WaitingIn
      <4>. QED  BY <4>2, <4>3, <4>4
    <3>9. WaitingIn(chunk') = C \cup {r}
      BY <1>4, <3>8 DEF WaitingIn
    <3>. QED  BY <1>5, <3>5, <3>6, <3>7, <3>9
  <2>. QED  BY <2>1, <2>2
<1>9. cursor' = cursor \cup {r}
  BY <1>3
<1>10. cursor' \ WaitingIn(chunk') = cursor \ C
  BY <1>4, <1>8, <1>9
<1>11. ScoreTypes'
  BY <1>1, <1>2, <1>8, ScoreFixed DEF ScoreTypes
<1>12. WaitingIn(chunk)' = WaitingIn(chunk')
  BY DEF WaitingIn, Waits
<1>13. ChunkTrue'
  <2>1. cursor' \subseteq Rows(stream)'
    BY <1>1, <1>2, <1>4, <1>9, ScoreFixed DEF ChunkTrue, Rows
  <2>2. \A n \in DOMAIN chunk' : PackedTrue(chunk[n])'
    BY <1>1, <1>8, ScoreFixed DEF PackedTrue, Present, Waits
  <2>3. WaitingIn(chunk)' \subseteq cursor'
    BY <1>2, <1>8, <1>9, <1>12 DEF ChunkTrue
  <2>. QED  BY <2>1, <2>2, <2>3 DEF ChunkTrue
<1>14. KeptTrue'
  <2>1. \A q \in QueryId : WinnersOf(population, kept[q], cursor \ C, q)
    BY <1>2 DEF KeptTrue
  <2>2. (cursor \ WaitingIn(chunk))' = cursor \ C
    BY <1>10, <1>12
  <2>. QED  BY <1>1, <2>1, <2>2 DEF KeptTrue
<1>15. ResultsTrue'
  BY <1>1, <1>2 DEF ResultsTrue, Rows, Present
<1>16. DevicesTrue'
  BY <1>1, <1>2, ScoreFixed DEF DevicesTrue, UsedHere
<1>17. MatchesExact'
  BY <1>1, <1>2, ScoreFixed DEF MatchesExact
<1>. QED  BY <1>11, <1>13, <1>14, <1>15, <1>16, <1>17 DEF ScoreInv

LEMMA ScoreKeeps ==
    ASSUME ScoreInv, ScoreChunk \/ FallBack
    PROVE  ScoreInv'
<1>1. PICK d \in {device, "cpu"} :
        /\ ScoreOn(d) /\ (d = device \/ (d = "cpu" /\ device = "gpu" /\ gpuBatches = 0))
        /\ stream <= Streams
  BY DEF ScoreChunk, FallBack, MayFallBack, Streaming
<1>2. ScoreTypes /\ ChunkTrue /\ KeptTrue /\ ResultsTrue /\ DevicesTrue /\ MatchesExact
  BY DEF ScoreInv
<1>3. /\ UNCHANGED <<population, setting, stream, cursor, results, match>>
      /\ kept' = [q \in QueryId |-> Cull(kept[q], chunk, q)] /\ chunk' = <<>>
      /\ device' = d /\ used' = used \cup {d}
      /\ gpuBatches' = gpuBatches + (IF d = "gpu" THEN 1 ELSE 0)
  BY <1>1 DEF ScoreOn
<1>. DEFINE C == WaitingIn(chunk)
<1>4. \A q \in QueryId : /\ Cull(kept[q], chunk, q) \in WinnerRow
                         /\ WinnersOf(population, Cull(kept[q], chunk, q), cursor, q)
  <2>1. TAKE q \in QueryId
  <2>2. kept[q] \in WinnerRow /\ WinnersOf(population, kept[q], cursor \ C, q)
    BY <1>2 DEF ScoreTypes, KeptTrue
  <2>3. cursor \ C \in SUBSET Present /\ (cursor \ C) \cup C = cursor
    BY <1>2 DEF ChunkTrue, Rows
  <2>4. chunk \in Seq(PackedRow) /\ \A n \in DOMAIN chunk : PackedTrue(chunk[n])
    BY <1>2 DEF ScoreTypes, ChunkTrue
  <2>5. population \in [CandidateRow -> ScoreInput \cup {NoRow}]
    BY <1>2 DEF ScoreTypes
  <2>6. /\ Cull(kept[q], chunk, q) \in WinnerRow
        /\ WinnersOf(population, Cull(kept[q], chunk, q), (cursor \ C) \cup C, q)
    BY <2>2, <2>3, <2>4, <2>5, CullKeeps
  <2>. QED  BY <2>3, <2>6
<1>5. chunk' \in Seq(PackedRow) /\ Len(chunk') = 0 /\ DOMAIN chunk' = {}
  BY <1>3
<1>6. WaitingIn(chunk)' = {}
  BY <1>5 DEF WaitingIn
<1>7. ScoreTypes'
  <2>1. kept' \in [QueryId -> WinnerRow]
    BY <1>3, <1>4
  <2>2. gpuBatches' \in Nat
    BY <1>2, <1>3 DEF ScoreTypes
  <2>3. Len(chunk') <= setting.chunk
    BY <1>2, <1>5, StreamFacts
  <2>. QED  BY <1>2, <1>3, <1>5, <2>1, <2>2, <2>3, ScoreFixed DEF ScoreTypes
<1>8. ChunkTrue'
  BY <1>2, <1>3, <1>5, <1>6 DEF ChunkTrue, Rows, Present
<1>9. KeptTrue'
  <2>1. (cursor \ WaitingIn(chunk))' = cursor
    BY <1>3, <1>6
  <2>2. \A q \in QueryId : kept'[q] = Cull(kept[q], chunk, q)
    BY <1>3
  <2>3. \A q \in QueryId : WinnersOf(population, kept'[q], cursor, q)
    BY <1>4, <2>2
  <2>. QED  BY <1>3, <2>1, <2>3 DEF KeptTrue
<1>10. ResultsTrue'
  BY <1>3, <1>2 DEF ResultsTrue, Rows, Present
<1>11. DevicesTrue'
  <2>1. device \in {"cpu", setting.requested} /\ device' \in {"cpu", setting.requested}
    BY <1>1, <1>2, <1>3 DEF DevicesTrue
  <2>2. UsedHere \subseteq {device} /\ (device # d => UsedHere = {})
    BY <1>1 DEF UsedHere
  <2>3. UsedHere' = {d}
    <3>1. CASE d = "gpu"
      <4>1. gpuBatches' # 0
        BY <1>2, <1>3, <3>1 DEF ScoreTypes
      <4>. QED  BY <1>3, <4>1 DEF UsedHere
    <3>2. CASE d # "gpu"
      BY <1>3, <3>2 DEF UsedHere
    <3>. QED  BY <3>1, <3>2
  <2>4. used' \subseteq {results[n].device : n \in DOMAIN results} \cup {d}
    BY <1>2, <1>3, <2>2 DEF DevicesTrue
  <2>5. ~(stream > Streams)
    BY <1>1, <1>2, StreamFacts
  <2>. QED  BY <1>2, <1>3, <2>1, <2>3, <2>4, <2>5, ScoreFixed DEF DevicesTrue
<1>12. MatchesExact'
  <2>1. match.phase = "stream"
    BY DEF ScoreChunk, FallBack, Streaming
  <2>. QED  BY <1>3, <2>1 DEF MatchesExact
<1>. QED  BY <1>7, <1>8, <1>9, <1>10, <1>11, <1>12 DEF ScoreInv

LEMMA EndKeeps ==
    ASSUME ScoreInv, EndStream
    PROVE  ScoreInv'
<1>1. ScoreTypes /\ ChunkTrue /\ KeptTrue /\ ResultsTrue /\ DevicesTrue /\ MatchesExact
  BY DEF ScoreInv
<1>. DEFINE last == [kept |-> kept, device |-> device]
            Result == [kept : [QueryId -> WinnerRow], device : {"cpu", "gpu"}]
<1>2. /\ UNCHANGED <<population, setting, chunk, used, match>>
      /\ results' = Append(results, last) /\ stream' = stream + 1 /\ cursor' = {}
      /\ kept' = [q \in QueryId |-> Unmatched]
      /\ device' = setting.requested /\ gpuBatches' = 0
      /\ match.phase = "stream" /\ stream <= Streams
  BY DEF EndStream, Streaming
<1>3. chunk = <<>> /\ WaitingIn(chunk) = {} /\ cursor = Rows(stream)
  <2>1. Ahead = {} /\ chunk = <<>>
    BY DEF EndStream, FlushDue, AtEnd
  <2>2. DOMAIN chunk = {}
    BY <2>1
  <2>. QED  BY <1>1, <2>1, <2>2 DEF Ahead, ChunkTrue, WaitingIn
<1>4. device \in {"cpu", "gpu"} /\ setting.requested \in {"cpu", "gpu"}
      /\ device \in {"cpu", setting.requested}
  BY <1>1, StreamFacts DEF DevicesTrue
<1>5. last \in Result /\ last.kept = kept /\ last.device = device
  BY <1>1, <1>4 DEF ScoreTypes
<1>. HIDE DEF last
<1>6. PICK k \in Nat : k = Len(results) /\ stream = k + 1 /\ DOMAIN results = 1 .. k
  <2>1. Len(results) = stream - 1 /\ stream \in Nat /\ 1 <= stream
    BY <1>1 DEF ScoreTypes
  <2>2. DOMAIN results = 1 .. (stream - 1)
    BY <1>1, StreamFacts
  <2>. QED  BY <2>1, <2>2
<1>7. results \in Seq(Result)
  BY <1>1 DEF ScoreTypes
<1>. HIDE DEF Result
<1>8. /\ results' \in Seq(Result) /\ Len(results') = k + 1 /\ DOMAIN results' = 1 .. (k + 1)
      /\ results'[k + 1] = last /\ \A n \in 1 .. k : results'[n] = results[n]
  BY <1>2, <1>5, <1>6, <1>7
<1>9. WaitingIn(chunk)' = {}
  BY <1>2, <1>3 DEF WaitingIn, Waits
<1>10. ScoreTypes'
  <2>1. kept' \in [QueryId -> WinnerRow]
    BY <1>2 DEF Unmatched, WinnerRow
  <2>2. results' \in Seq([kept : [QueryId -> WinnerRow], device : {"cpu", "gpu"}])
    BY <1>8 DEF Result
  <2>3. stream' \in Nat /\ 1 <= stream' /\ stream' <= Streams + 1 /\ Len(results') = stream' - 1
    BY <1>1, <1>2, <1>6, <1>8, StreamFacts
  <2>. QED  BY <1>1, <1>2, <2>1, <2>2, <2>3, ScoreFixed DEF ScoreTypes
<1>11. ChunkTrue'
  BY <1>2, <1>3, <1>9 DEF ChunkTrue
<1>12. KeptTrue'
  <2>1. (cursor \ WaitingIn(chunk))' = {}
    BY <1>2
  <2>2. \A q \in QueryId : WinnersOf(population, Unmatched, {}, q)
    BY DEF WinnersOf, AcceptedOf, Unmatched
  <2>. QED  BY <1>2, <2>1, <2>2 DEF KeptTrue
<1>13. ResultsTrue'
  <2>1. \A q \in QueryId : WinnersOf(population, kept[q], Rows(stream), q)
    BY <1>1, <1>3 DEF KeptTrue
  <2>2. \A n \in 1 .. (k + 1) : \A q \in QueryId :
          WinnersOf(population, results'[n].kept[q], Rows(n), q)
    <3>1. TAKE n \in 1 .. (k + 1)
    <3>2. CASE n = k + 1
      BY <1>5, <1>6, <1>8, <2>1, <3>2
    <3>3. CASE n # k + 1
      <4>1. n \in 1 .. k
        BY <3>3
      <4>. QED  BY <1>1, <1>6, <1>8, <4>1 DEF ResultsTrue
    <3>. QED  BY <3>2, <3>3
  <2>. QED  BY <1>2, <1>8, <2>2 DEF ResultsTrue, Rows, Present
<1>14. DevicesTrue'
  <2>1. \A n \in 1 .. (k + 1) : results'[n].device \in {"cpu", setting.requested}
    <3>1. TAKE n \in 1 .. (k + 1)
    <3>2. CASE n = k + 1
      BY <1>4, <1>5, <1>8, <3>2
    <3>3. CASE n # k + 1
      <4>1. n \in 1 .. k
        BY <3>3
      <4>. QED  BY <1>1, <1>6, <1>8, <4>1 DEF DevicesTrue
    <3>. QED  BY <3>2, <3>3
  <2>2. used \subseteq {results'[n].device : n \in 1 .. (k + 1)}
    <3>1. SUFFICES ASSUME NEW d \in used PROVE d \in {results'[n].device : n \in 1 .. (k + 1)}
      OBVIOUS
    <3>2. CASE d = device
      BY <1>5, <1>8, <3>2
    <3>3. CASE d # device
      <4>1. PICK n \in 1 .. k : d = results[n].device
        BY <1>1, <1>6, <3>1, <3>3 DEF DevicesTrue, UsedHere
      <4>2. n \in 1 .. (k + 1) /\ results'[n].device = d
        BY <1>8, <4>1
      <4>. QED  BY <4>2
    <3>. QED  BY <3>2, <3>3
  <2>. QED  BY <1>2, <1>8, <2>1, <2>2 DEF DevicesTrue
<1>15. MatchesExact'
  BY <1>2 DEF MatchesExact
<1>. QED  BY <1>10, <1>11, <1>12, <1>13, <1>14, <1>15 DEF ScoreInv

\* What the streams kept, when all of them ended: the decision of the merge.
LEMMA MergeExact ==
    ASSUME ScoreInv, stream > Streams, NEW q \in QueryId
    PROVE  IF setting.engine = 1
             THEN Decide(q) = {<<r.id, 0>> : r \in Winning(q)}
             ELSE Decide(q) = {<<r.id, r.index>> : r \in Winning(q)}
<1>1. ScoreTypes /\ ResultsTrue
  BY DEF ScoreInv
<1>2. PICK k \in Nat : k = Streams /\ 1 <= k /\ DOMAIN results = 1 .. k
  <2>1. stream = Streams + 1
    BY <1>1, StreamFacts DEF ScoreTypes
  <2>. QED  BY <1>1, <2>1, StreamFacts
<1>. DEFINE won(n) == results[n].kept[q]
            sc(r) == Score(population[r])
<1>3. \A n \in 1 .. k : /\ WinnersOf(population, won(n), Rows(n), q)
                        /\ won(n) \in WinnerRow /\ won(n).score \in Nat
  BY <1>1, <1>2, StreamFacts DEF ResultsTrue, WinnerRow
<1>4. \A r \in Present : r \in CandidateRow /\ sc(r) \in Nat
  BY <1>1, RowScore DEF ScoreTypes
<1>5. CASE setting.engine # 1
  <2>1. Rows(1) = Present /\ k = 1
    BY <1>2, <1>5 DEF Rows, Streams
  <2>2. WinnersOf(population, won(1), Present, q) /\ won(1).score \in Nat
    BY <1>3, <2>1
  <2>3. AcceptedOf(population, Present, q) = AcceptedRows(q)
    BY DEF AcceptedOf, AcceptedRows
  <2>4. \A r \in AcceptedRows(q) : r \in Winning(q) <=> sc(r) = won(1).score
    <3>1. TAKE r \in AcceptedRows(q)
    <3>2. sc(r) \in Nat /\ sc(r) <= won(1).score /\ sc(r) > 0
      BY <1>4, <2>2, <2>3, <3>1 DEF WinnersOf, AcceptedRows
    <3>3. ASSUME sc(r) = won(1).score PROVE r \in Winning(q)
      <4>1. \A s \in AcceptedRows(q) : sc(s) \in Nat /\ sc(s) <= won(1).score
        BY <1>4, <2>2, <2>3 DEF WinnersOf, AcceptedRows
      <4>. QED  BY <3>1, <3>3, <4>1, <2>2 DEF Winning
    <3>4. ASSUME r \in Winning(q) PROVE sc(r) = won(1).score
      <4>1. won(1).matches # {}
        BY <2>2, <3>2 DEF WinnersOf
      <4>2. PICK s \in AcceptedRows(q) : sc(s) = won(1).score
        BY <2>2, <2>3, <4>1 DEF WinnersOf
      <4>3. sc(r) >= sc(s)
        BY <3>4, <4>2 DEF Winning
      <4>. QED  BY <3>2, <2>2, <4>2, <4>3
    <3>. QED  BY <3>3, <3>4
  <2>5. won(1).matches = {<<r.id, r.index>> : r \in Winning(q)}
    <3>1. won(1).matches = {<<r.id, r.index>> :
                              r \in {s \in AcceptedRows(q) : sc(s) = won(1).score}}
      BY <2>2, <2>3 DEF WinnersOf
    <3>2. {s \in AcceptedRows(q) : sc(s) = won(1).score} = Winning(q)
      BY <2>4 DEF Winning
    <3>. QED  BY <3>1, <3>2
  <2>6. Decide(q) = won(1).matches
    BY <1>5 DEF Decide
  <2>. QED  BY <1>5, <2>5, <2>6
<1>6. CASE setting.engine = 1
  <2>1. k = Indexes /\ \A n : Rows(n) = {r \in Present : r.index = n}
    BY <1>2, <1>6 DEF Rows, Streams
\* A row that is accepted is one of its index, and no better than its winner.
  <2>2. \A r \in AcceptedRows(q) :
          /\ r.index \in 1 .. k /\ r \in CandidateRow /\ sc(r) \in Nat /\ sc(r) > 0
          /\ r \in AcceptedOf(population, Rows(r.index), q) /\ sc(r) <= won(r.index).score
    <3>1. TAKE r \in AcceptedRows(q)
    <3>2. r \in Present /\ r \in CandidateRow /\ r.query = q /\ sc(r) > 0 /\ sc(r) \in Nat
      BY <1>4, <3>1 DEF AcceptedRows
    <3>3. r.index \in 1 .. k
      BY <2>1, <3>2 DEF CandidateRow, IndexId
    <3>4. r \in AcceptedOf(population, Rows(r.index), q)
      BY <2>1, <3>2 DEF AcceptedOf
    <3>. QED  BY <1>3, <3>2, <3>3, <3>4 DEF WinnersOf
\* What an index kept is the id of one of its rows, at the score of the index.
  <2>3. \A n \in 1 .. k : \A x \in won(n).matches :
          \E r \in AcceptedRows(q) : x = <<r.id, r.index>> /\ r.index = n /\ sc(r) = won(n).score
    <3>1. TAKE n \in 1 .. k
    <3>2. TAKE x \in won(n).matches
    <3>3. PICK r \in AcceptedOf(population, Rows(n), q) :
            x = <<r.id, r.index>> /\ sc(r) = won(n).score
      BY <1>3, <3>1, <3>2 DEF WinnersOf
    <3>4. r \in AcceptedRows(q) /\ r.index = n
      BY <2>1, <3>3 DEF AcceptedOf, AcceptedRows
    <3>. QED  BY <3>3, <3>4
  <2>4. \A r \in AcceptedRows(q) :
          sc(r) = won(r.index).score => <<r.id, r.index>> \in won(r.index).matches
    BY <1>3, <2>2 DEF WinnersOf
  <2>. DEFINE found == {x[1] : x \in UNION {results[n].kept[q].matches : n \in DOMAIN results}}
              winsIn(c) == {n \in DOMAIN results :
                              \E x \in IndexId : <<c, x>> \in results[n].kept[q].matches}
              scores(c) == {results[n].kept[q].score : n \in winsIn(c)}
  <2>5. PICK b \in Nat : \A n \in 1 .. k : won(n).score <= b
    <3>. DEFINE f == [n \in 1 .. k |-> won(n).score]
    <3>1. f \in [1 .. k -> Nat]
      BY <1>3
    <3>2. PICK b \in Nat : \A n \in 1 .. k : f[n] <= b
      BY <3>1, SequenceBound
    <3>. QED  BY <3>2
  <2>6. \A c \in found : /\ Best(q, c) \in scores(c) /\ \A s \in scores(c) : s <= Best(q, c)
                         /\ scores(c) \subseteq Nat
    <3>1. TAKE c \in found
    <3>2. PICK n \in 1 .. k : \E y \in won(n).matches : c = y[1]
      BY <1>2, <3>1
    <3>10. PICK x \in won(n).matches : c = x[1]
      BY <3>2
    <3>3. PICK r \in AcceptedRows(q) : x = <<r.id, r.index>> /\ r.index = n
      BY <2>3, <3>10
    <3>4. r.index \in IndexId /\ c = r.id
      BY <2>2, <3>10, <3>3 DEF CandidateRow
    <3>5. n \in winsIn(c)
      BY <1>2, <3>10, <3>3, <3>4
    <3>6. scores(c) # {} /\ scores(c) \in SUBSET Nat /\ \A s \in scores(c) : s <= b
      BY <1>2, <1>3, <2>5, <3>5
    <3>7. PICK top : top = Max(scores(c))
      OBVIOUS
    <3>8. top \in scores(c) /\ \A s \in scores(c) : s <= top
      <4>. HIDE DEF scores
      <4>. QED  BY <3>6, <3>7, MaxOfBounded
    <3>9. Best(q, c) = top
      BY <3>7 DEF Best
    <3>. QED  BY <3>6, <3>8, <3>9
  <2>7. \A r \in Winning(q) : /\ r \in AcceptedRows(q) /\ sc(r) = won(r.index).score
                              /\ \A n \in 1 .. k : won(n).score <= sc(r)
    <3>1. TAKE r \in Winning(q)
    <3>2. r \in AcceptedRows(q) /\ (\A s \in AcceptedRows(q) : sc(r) >= sc(s)) /\ sc(r) \in Nat
      BY <2>2, <3>1 DEF Winning
    <3>3. \A n \in 1 .. k : won(n).score <= sc(r)
      <4>1. TAKE n \in 1 .. k
      <4>2. CASE won(n).score = 0
        BY <3>2, <4>2
      <4>3. CASE won(n).score # 0
        <5>1. PICK x \in won(n).matches : TRUE
          BY <1>3, <4>1, <4>3 DEF WinnersOf
        <5>2. PICK s \in AcceptedRows(q) : sc(s) = won(n).score
          BY <2>3, <4>1, <5>1
        <5>3. sc(r) >= sc(s) /\ sc(s) \in Nat
          BY <2>2, <3>2, <5>2
        <5>. QED  BY <3>2, <5>2, <5>3
      <4>. QED  BY <4>2, <4>3
    <3>4. sc(r) <= won(r.index).score /\ won(r.index).score <= sc(r)
          /\ won(r.index).score \in Nat
      BY <1>3, <2>2, <3>2, <3>3
    <3>. QED  BY <3>2, <3>3, <3>4
\* A winner is kept by its index, and its candidate has the best score.
  <2>8. \A r \in Winning(q) : r.id \in found /\ Best(q, r.id) = sc(r)
    <3>1. TAKE r \in Winning(q)
    <3>2. /\ r \in AcceptedRows(q) /\ sc(r) = won(r.index).score /\ r.index \in 1 .. k
          /\ (\A n \in 1 .. k : won(n).score <= sc(r)) /\ sc(r) \in Nat /\ r \in CandidateRow
      BY <2>2, <2>7, <3>1
    <3>3. <<r.id, r.index>> \in won(r.index).matches
      BY <2>4, <3>2
    <3>4. r.id \in found
      <4>1. <<r.id, r.index>> \in UNION {results[n].kept[q].matches : n \in DOMAIN results}
        BY <1>2, <3>2, <3>3
      <4>. QED  BY <4>1
    <3>5. r.index \in winsIn(r.id)
      BY <1>2, <3>2, <3>3 DEF CandidateRow
    <3>6. sc(r) \in scores(r.id)
      BY <3>2, <3>5
    <3>7. \A s \in scores(r.id) : s <= sc(r)
      BY <1>2, <3>2
    <3>8. Best(q, r.id) \in scores(r.id) /\ sc(r) <= Best(q, r.id) /\ Best(q, r.id) \in Nat
      BY <2>6, <3>4, <3>6
    <3>9. Best(q, r.id) <= sc(r)
      <4>. HIDE DEF scores
      <4>. QED  BY <3>7, <3>8
    <3>. QED  BY <3>2, <3>4, <3>8, <3>9
  <2>9. \A c \in found : Best(q, c) \in Nat
    BY <2>6
  <2>10. \A c \in found : \A r \in Winning(q) : Best(q, c) <= sc(r)
    <3>1. TAKE c \in found
    <3>2. TAKE r \in Winning(q)
    <3>3. PICK n \in 1 .. k : Best(q, c) = won(n).score
      BY <1>2, <2>6, <3>1
    <3>. QED  BY <2>7, <3>2, <3>3
\* What is found at all is outscored by no row but a winner.
  <2>11. \A c \in found : Winning(q) # {}
    <3>1. TAKE c \in found
    <3>2. PICK r \in AcceptedRows(q) : TRUE
      BY <1>2, <2>3, <3>1
    <3>. DEFINE T == {won(n).score : n \in {i \in 1 .. k : won(i).score > 0}}
    <3>3. T \in SUBSET Nat /\ T # {} /\ \A s \in T : s <= b
      <4>1. won(r.index).score > 0 /\ r.index \in 1 .. k
        BY <1>3, <2>2, <3>2
      <4>. QED  BY <1>3, <2>5, <4>1
    <3>4. PICK top : top = Max(T)
      OBVIOUS
    <3>5. top \in T /\ \A s \in T : s <= top
      <4>. HIDE DEF T
      <4>. QED  BY <3>3, <3>4, MaxOfBounded
    <3>6. PICK n \in 1 .. k : won(n).score = top /\ won(n).score > 0 /\ won(n).score \in Nat
      BY <1>3, <3>5
    <3>7. PICK x \in won(n).matches : TRUE
      BY <1>3, <3>6 DEF WinnersOf
    <3>8. PICK s \in AcceptedRows(q) : sc(s) = top
      BY <2>3, <3>6, <3>7
    <3>9. \A u \in AcceptedRows(q) : sc(s) >= sc(u)
      <4>1. TAKE u \in AcceptedRows(q)
      <4>2. /\ won(u.index).score \in T /\ sc(u) \in Nat /\ won(u.index).score \in Nat
            /\ sc(u) <= won(u.index).score
        BY <1>3, <2>2, <4>1
      <4>3. won(u.index).score <= top
        <5>. HIDE DEF T
        <5>. QED  BY <3>5, <4>2
      <4>. QED  BY <3>6, <3>8, <4>2, <4>3
    <3>. QED  BY <3>8, <3>9 DEF Winning
  <2>12. \A c \in found : \A r \in Winning(q) :
           Best(q, c) = sc(r) => \E s \in Winning(q) : s.id = c
    <3>1. TAKE c \in found
    <3>2. TAKE r \in Winning(q)
    <3>. SUFFICES ASSUME Best(q, c) = sc(r) PROVE \E s \in Winning(q) : s.id = c
      OBVIOUS
    <3>3. PICK n \in winsIn(c) : Best(q, c) = won(n).score
      BY <2>6, <3>1
    <3>4. PICK x \in IndexId : <<c, x>> \in won(n).matches
      BY <3>3
    <3>5. PICK s \in AcceptedRows(q) : <<c, x>> = <<s.id, s.index>> /\ sc(s) = won(n).score
      BY <1>2, <2>3, <3>3, <3>4
    <3>6. \A u \in AcceptedRows(q) : sc(s) >= sc(u)
      BY <3>2, <3>3, <3>5 DEF Winning
    <3>. QED  BY <3>5, <3>6 DEF Winning
  <2>13. MergedIds(q) = {r.id : r \in Winning(q)}
    <3>1. MergedIds(q) = {c \in found : \A d \in found : Best(q, c) >= Best(q, d)}
      BY DEF MergedIds
    <3>. HIDE DEF found
    <3>2. ASSUME NEW r \in Winning(q) PROVE r.id \in MergedIds(q)
      <4>1. r.id \in found /\ Best(q, r.id) = sc(r) /\ sc(r) \in Nat
        BY <2>2, <2>7, <2>8
      <4>2. \A d \in found : Best(q, d) <= sc(r) /\ Best(q, d) \in Nat
        BY <2>9, <2>10
      <4>. QED  BY <3>1, <4>1, <4>2
    <3>3. ASSUME NEW c \in MergedIds(q) PROVE \E s \in Winning(q) : s.id = c
      <4>1. c \in found /\ \A d \in found : Best(q, c) >= Best(q, d)
        BY <3>1
      <4>2. PICK r \in Winning(q) : TRUE
        BY <2>11, <4>1
      <4>3. r.id \in found /\ Best(q, r.id) = sc(r) /\ sc(r) \in Nat
        BY <2>2, <2>7, <2>8
      <4>4. Best(q, c) = sc(r)
        BY <2>9, <2>10, <4>1, <4>2, <4>3
      <4>. QED  BY <2>12, <4>1, <4>2, <4>4
    <3>. QED  BY <3>2, <3>3
  <2>14. Decide(q) = {<<c, 0>> : c \in MergedIds(q)}
    BY <1>6 DEF Decide
  <2>15. Decide(q) = {<<r.id, 0>> : r \in Winning(q)}
    BY <2>13, <2>14
  <2>. QED  BY <1>6, <2>15
<1>. QED  BY <1>5, <1>6

LEMMA ScoreInvStep ==
    ASSUME ScoreInv, [ScoringNext]_scoringVars
    PROVE  ScoreInv'
<1>1. CASE Pack
  BY <1>1, PackKeeps
<1>2. CASE ScoreChunk \/ FallBack
  BY <1>2, ScoreKeeps
<1>3. CASE EndStream
  BY <1>3, EndKeeps
<1>4. ASSUME UNCHANGED <<population, setting, streamVars>>,
             match.phase = "stream", match'.phase \in {"done", "failed"},
             match'.phase = "done" =>
               /\ SameDevice /\ stream > Streams /\ match'.device = results[1].device
               /\ match'.decision = [q \in QueryId |-> Decide(q)]
      PROVE  ScoreInv'
  <2>1. ScoreTypes' /\ ChunkTrue' /\ KeptTrue' /\ ResultsTrue' /\ DevicesTrue'
    <3>1. ScoreTypes /\ ChunkTrue /\ KeptTrue /\ ResultsTrue /\ DevicesTrue
      BY DEF ScoreInv
    <3>2. WaitingIn(chunk)' = WaitingIn(chunk)
      BY <1>4 DEF WaitingIn, streamVars
    <3>3. ScoreTypes'
      BY <1>4, <3>1, ScoreFixed DEF ScoreTypes, streamVars
    <3>4. ChunkTrue'
      BY <1>4, <3>1, <3>2, ScoreFixed DEF ChunkTrue, streamVars, Rows, Present, PackedTrue
    <3>5. KeptTrue'
      BY <1>4, <3>1, <3>2 DEF KeptTrue, streamVars
    <3>6. ResultsTrue'
      BY <1>4, <3>1 DEF ResultsTrue, streamVars, Rows, Present
    <3>7. DevicesTrue'
      BY <1>4, <3>1, ScoreFixed DEF DevicesTrue, UsedHere, streamVars
    <3>. QED  BY <3>3, <3>4, <3>5, <3>6, <3>7
  <2>2. MatchesExact'
    <3>. SUFFICES ASSUME match'.phase = "done" PROVE MatchesExact'
      BY DEF MatchesExact
    <3>1. SameDevice /\ stream > Streams /\ match'.device = results[1].device
          /\ match'.decision = [q \in QueryId |-> Decide(q)]
      BY <1>4
    <3>2. used \subseteq {match'.device}
      <4>1. ScoreTypes /\ DevicesTrue
        BY DEF ScoreInv
      <4>2. 1 \in DOMAIN results
        BY <3>1, <4>1, StreamFacts DEF ScoreTypes
      <4>3. \A n \in DOMAIN results : results[n].device = results[1].device
        BY <3>1, <4>2 DEF SameDevice
      <4>4. UsedHere \subseteq {results[1].device}
        <5>1. device = setting.requested /\ gpuBatches = 0
          BY <3>1, <4>1 DEF DevicesTrue
        <5>2. results[1].device \in {"cpu", setting.requested}
              /\ setting.requested \in {"cpu", "gpu"}
          BY <4>1, <4>2, StreamFacts DEF DevicesTrue
        <5>. QED  BY <5>1, <5>2 DEF UsedHere
      <4>. QED  BY <3>1, <4>1, <4>3, <4>4 DEF DevicesTrue
    <3>3. \A q \in QueryId :
            IF setting.engine = 1
              THEN match'.decision[q] = {<<r.id, 0>> : r \in Winning(q)}
              ELSE match'.decision[q] = {<<r.id, r.index>> : r \in Winning(q)}
      BY <3>1, MergeExact
    <3>4. population' = population /\ setting' = setting /\ used' = used
      BY <1>4 DEF streamVars
    <3>. QED  BY <3>2, <3>3, <3>4, ScoreFixed DEF MatchesExact
  <2>. QED  BY <2>1, <2>2 DEF ScoreInv
<1>5. CASE GpuFails
  <2>1. match.phase \in {"stream", "done", "failed"} /\ match.phase = "stream"
    BY <1>5 DEF GpuFails, Streaming
  <2>2. match'.phase = "failed"
    BY <1>5, <2>1 DEF GpuFails
  <2>. QED  BY <1>4, <1>5, <2>1, <2>2 DEF GpuFails
<1>6. CASE Merge
  <2>1. match.phase = "stream" /\ stream > Streams /\ UNCHANGED <<population, setting, streamVars>>
    BY <1>6 DEF Merge
  <2>2. CASE SameDevice
    <3>1. match' = [phase |-> "done", decision |-> [q \in QueryId |-> Decide(q)],
                    device |-> results[1].device]
      BY <1>6, <2>2 DEF Merge
    <3>. QED  BY <1>4, <2>1, <2>2, <3>1
  <2>3. CASE ~SameDevice
    <3>1. match'.phase = "failed"
      BY <1>6, <2>1, <2>3 DEF Merge
    <3>. QED  BY <1>4, <2>1, <3>1
  <2>. QED  BY <2>2, <2>3
<1>7. CASE UNCHANGED scoringVars
  <2>1. UNCHANGED <<population, setting, streamVars>> /\ match' = match
    BY <1>7 DEF scoringVars
  <2>. QED
    <3>1. ScoreTypes /\ ChunkTrue /\ KeptTrue /\ ResultsTrue /\ DevicesTrue /\ MatchesExact
      BY DEF ScoreInv
    <3>2. WaitingIn(chunk)' = WaitingIn(chunk)
      BY <2>1 DEF WaitingIn, streamVars
    <3>3. ScoreTypes'
      BY <2>1, <3>1, ScoreFixed DEF ScoreTypes, streamVars
    <3>4. ChunkTrue'
      BY <2>1, <3>1, <3>2, ScoreFixed DEF ChunkTrue, streamVars, Rows, Present, PackedTrue
    <3>5. KeptTrue'
      BY <2>1, <3>1, <3>2 DEF KeptTrue, streamVars
    <3>6. ResultsTrue'
      BY <2>1, <3>1 DEF ResultsTrue, streamVars, Rows, Present
    <3>7. DevicesTrue'
      BY <2>1, <3>1, ScoreFixed DEF DevicesTrue, UsedHere, streamVars
    <3>8. MatchesExact'
      BY <2>1, <3>1, ScoreFixed DEF MatchesExact, streamVars
    <3>. QED  BY <3>3, <3>4, <3>5, <3>6, <3>7, <3>8 DEF ScoreInv
<1>. QED  BY <1>1, <1>2, <1>3, <1>5, <1>6, <1>7 DEF ScoringNext

LEMMA ScoreFacts ==
    ASSUME ScoreInv
    PROVE  ScoringTypeOK /\ MatchesExact
<1>1. ScoreTypes /\ ChunkTrue /\ DevicesTrue /\ MatchesExact
  BY DEF ScoreInv
<1>2. stream \in 1 .. (Indexes + 1) /\ Len(results) <= Streams
  BY <1>1, StreamFacts DEF ScoreTypes
<1>3. cursor \subseteq CandidateRow
  BY <1>1 DEF ChunkTrue, Rows, Present
<1>4. \A n \in DOMAIN chunk : chunk[n].row \in CandidateRow /\ chunk[n].indexes \subseteq IndexId
  BY <1>1, StreamFacts DEF PackedRow
<1>5. \A q \in QueryId : kept[q].matches \subseteq (1 .. Candidates) \X IndexId
  BY <1>1 DEF ScoreTypes, WinnerRow
<1>6. device \in {"cpu", "gpu"} /\ used \subseteq {"cpu", "gpu"}
  <2>1. \A n \in DOMAIN results : results[n].device \in {"cpu", "gpu"}
    BY <1>1, StreamFacts
  <2>2. device \in {"cpu", "gpu"}
    BY <1>1, StreamFacts DEF DevicesTrue
  <2>. QED  BY <1>1, <2>1, <2>2 DEF DevicesTrue, UsedHere
<1>. QED  BY <1>1, <1>2, <1>3, <1>4, <1>5, <1>6 DEF ScoreTypes, ScoringTypeOK

-----------------------------------------------------------------------------
(* The theorems.                                                           *)

\* Local workers are nothing but clients of an unattended queue: every step of
\* the detailed worker is one of the service or leaves the ledger alone, so
\* its limits, its order of blocks and its evidence hold under them too
\* (_run_worker, _execute_claim).
THEOREM WorkersServe == WorkerSpec => ServiceSpec
<1>1. WorkerInit => WorkerInv /\ Init
  BY InitWorker DEF WorkerInit
<1>2. WorkerInv /\ [WorkerNext]_workerVars => WorkerInv' /\ [ServiceNext]_vars
  BY WorkerInvStep DEF Served
<1>. QED  BY <1>1, <1>2, PTL DEF WorkerSpec, ServiceSpec

\* Workers execute only in blocks that are open, even when they claim from an
\* old block document; no attempt finds the directory of another; and what
\* the ledger calls complete is on disk, whatever is killed or loses power
\* (queue_cli.py, _run_worker, _execute_claim, _durably_publish).
THEOREM AttemptsSafe == RecordsSpec => []AttemptsSound
<1>. DEFINE RecordsInv == part = "worker" => WorkerInv
            recordsVars == <<part, workerVars, windowVars, panelVars, ecoVars, scoringVars,
                             widthVars, laneVars>>
<1>1. RecordsInit => RecordsInv
  BY InitWorker DEF RecordsInit
<1>2. RecordsInv /\ [RecordsNext]_recordsVars => RecordsInv'
  <2>. SUFFICES ASSUME RecordsInv, [RecordsNext]_recordsVars, part' = "worker"
                PROVE  WorkerInv'
    OBVIOUS
  <2>1. part = "worker"
    BY DEF RecordsNext, Only
  <2>2. [WorkerNext]_workerVars
    BY <2>1 DEF RecordsNext, Only
  <2>. QED  BY <2>1, <2>2, WorkerInvStep DEF Served
<1>3. RecordsInv => AttemptsSound
  BY WorkerFacts DEF AttemptsSound
<1>. QED  BY <1>1, <1>2, <1>3, PTL DEF RecordsSpec

\* A raw lane database holds what the ledgers of its cells list, and a compact
\* one every row of the raw database that it names, whatever any number of
\* compilers and compactors, removals and kills do between their calls; but
\* for an edit of the registry under a compiler, a ledger that is changed between
\* its digest and its reading, and a raw database that is removed and built
\* again under a compactor (lane_compiler.py, lane_database.py,
\* deduplicate_lane_db.py).
THEOREM LanesSafe == RecordsSpec => []LanesHold
<1>. DEFINE RecordsInv == part = "lanes" => LaneInv
            recordsVars == <<part, workerVars, windowVars, panelVars, ecoVars, scoringVars,
                             widthVars, laneVars>>
<1>1. RecordsInit => RecordsInv
  BY LaneStarts DEF RecordsInit
<1>2. RecordsInv /\ [RecordsNext]_recordsVars => RecordsInv'
  <2>. SUFFICES ASSUME RecordsInv, [RecordsNext]_recordsVars, part' = "lanes"
                PROVE  LaneInv'
    OBVIOUS
  <2>1. part = "lanes"
    BY DEF RecordsNext, Only
  <2>2. [LaneNext]_laneVars
    BY <2>1 DEF RecordsNext, Only
  <2>. QED  BY <2>1, <2>2, LaneInvStep
<1>3. RecordsInv => LanesHold
  BY LaneFacts DEF LanesHold
<1>. QED  BY <1>1, <1>2, <1>3, PTL DEF RecordsSpec

\* One analysis runs at a time, a complete case has its report, and a case that
\* is queued or running has somebody who will still write it, unless a process
\* was killed, found the lock of another one or overtook its starter: of any
\* number of cases, starters and analysts (start_ecological_case,
\* run_ecological_case).
THEOREM CasesSafe == RecordsSpec => []EcologicalHolds
<1>. DEFINE RecordsInv == part = "ecological" => EcoInv
            recordsVars == <<part, workerVars, windowVars, panelVars, ecoVars, scoringVars,
                             widthVars, laneVars>>
<1>1. RecordsInit => RecordsInv
  BY EcoStarts DEF RecordsInit
<1>2. RecordsInv /\ [RecordsNext]_recordsVars => RecordsInv'
  <2>. SUFFICES ASSUME RecordsInv, [RecordsNext]_recordsVars, part' = "ecological"
                PROVE  EcoInv'
    OBVIOUS
  <2>1. part = "ecological"
    BY DEF RecordsNext, Only
  <2>2. [EcologicalNext]_ecoVars
    BY <2>1 DEF RecordsNext, Only
  <2>. QED  BY <2>1, <2>2, EcoInvStep
<1>3. RecordsInv => EcologicalHolds
  BY EcoFacts DEF EcologicalHolds
<1>. QED  BY <1>1, <1>2, <1>3, PTL DEF RecordsSpec

\* A width run that is measured complete says what it left on disk in every
\* replay, and no process loses the files it uses: of any number of cells,
\* processes, replays and faults (width_run.py).
THEOREM WidthSafe == RecordsSpec => []WidthHolds
<1>. DEFINE RecordsInv == part = "width" => WidthInv
            recordsVars == <<part, workerVars, windowVars, panelVars, ecoVars, scoringVars,
                             widthVars, laneVars>>
<1>1. RecordsInit => RecordsInv
  BY WidthStarts DEF RecordsInit
<1>2. RecordsInv /\ [RecordsNext]_recordsVars => RecordsInv'
  <2>. SUFFICES ASSUME RecordsInv, [RecordsNext]_recordsVars, part' = "width"
                PROVE  WidthInv'
    OBVIOUS
  <2>1. part = "width"
    BY DEF RecordsNext, Only
  <2>2. [WidthNext]_widthVars
    BY <2>1 DEF RecordsNext, Only
  <2>. QED  BY <2>1, <2>2, WidthInvStep
<1>3. RecordsInv => WidthHolds
  BY WidthFacts DEF WidthHolds
<1>. QED  BY <1>1, <1>2, <1>3, PTL DEF RecordsSpec

\* What evaluate says of an hour from two windows is so of all of them, a cell
\* that runs past the cutoff of its window has its alarm due or the signal on
\* its way, and no line of the outbox is spoiled but by a writer that was cut
\* short: for every schedule, length of a day and number of workers
\* (SchedulePolicy.evaluate, _run_worker, emit_notification).
THEOREM WindowsSafe == RecordsSpec => []WindowHolds
<1>. DEFINE RecordsInv == part = "window" => WindowInv
            recordsVars == <<part, workerVars, windowVars, panelVars, ecoVars, scoringVars,
                             widthVars, laneVars>>
<1>1. RecordsInit => RecordsInv
  BY WindowStarts DEF RecordsInit
<1>2. RecordsInv /\ [RecordsNext]_recordsVars => RecordsInv'
  <2>. SUFFICES ASSUME RecordsInv, [RecordsNext]_recordsVars, part' = "window"
                PROVE  WindowInv'
    OBVIOUS
  <2>1. part = "window"
    BY DEF RecordsNext, Only
  <2>2. [WindowNext]_windowVars
    BY <2>1 DEF RecordsNext, Only
  <2>. QED  BY <2>1, <2>2, WindowInvStep
<1>3. RecordsInv => WindowHolds
  BY WindowFacts DEF WindowHolds
<1>. QED  BY <1>1, <1>2, <1>3, PTL DEF RecordsSpec

\* The cache keeps one state of the ledger that it is kept for and no answer is
\* of another ledger or older than its request; and a campaign that is not
\* selected is disarmed and has no live job, but for requests that a change of
\* the selection meets: of any number of campaigns, clients and commits
\* (cached_ledger_projection, select_campaign).
THEOREM PanelSafe == RecordsSpec => []PanelTrue
<1>. DEFINE RecordsInv == part = "panel" => PanelInv
            recordsVars == <<part, workerVars, windowVars, panelVars, ecoVars, scoringVars,
                             widthVars, laneVars>>
<1>1. RecordsInit => RecordsInv
  BY PanelStarts DEF RecordsInit
<1>2. RecordsInv /\ [RecordsNext]_recordsVars => RecordsInv'
  <2>. SUFFICES ASSUME RecordsInv, [RecordsNext]_recordsVars, part' = "panel"
                PROVE  PanelInv'
    OBVIOUS
  <2>1. part = "panel"
    BY DEF RecordsNext, Only
  <2>2. [PanelNext]_panelVars
    BY <2>1 DEF RecordsNext, Only
  <2>. QED  BY <2>1, <2>2, PanelInvStep
<1>3. RecordsInv => PanelTrue
  BY PanelFacts DEF PanelTrue
<1>. QED  BY <1>1, <1>2, <1>3, PTL DEF RecordsSpec

\* Whatever the engine, the size of the chunks, the order of the rows and the
\* moment the GPU fails, the decision of a query is the set of all its winners,
\* with every index that supplied one, and names the one device that scored: of
\* any number of functions, candidates and indexes (match_compact_population).
THEOREM ScoringSafe == RecordsSpec => []ScoringHolds
<1>. DEFINE RecordsInv == part = "scoring" => ScoreInv
            recordsVars == <<part, workerVars, windowVars, panelVars, ecoVars, scoringVars,
                             widthVars, laneVars>>
<1>1. RecordsInit => RecordsInv
  BY ScoreStarts DEF RecordsInit
<1>2. RecordsInv /\ [RecordsNext]_recordsVars => RecordsInv'
  <2>. SUFFICES ASSUME RecordsInv, [RecordsNext]_recordsVars, part' = "scoring"
                PROVE  ScoreInv'
    OBVIOUS
  <2>1. part = "scoring"
    BY DEF RecordsNext, Only
  <2>2. [ScoringNext]_scoringVars
    BY <2>1 DEF RecordsNext, Only
  <2>. QED  BY <2>1, <2>2, ScoreInvStep
<1>3. RecordsInv => ScoringHolds
  BY ScoreFacts DEF ScoringHolds
<1>. QED  BY <1>1, <1>2, <1>3, PTL DEF RecordsSpec

\* The rows, files, locks and processes of every part keep to what the code
\* writes, holds and starts: the types of any number of workers, windows,
\* clients, cases, rows, cells and lanes (queue_cli.py, operations_policy.py,
\* local_api.py, ecological_validation.py, fid_compact.py, width_run.py,
\* lane_compiler.py).
THEOREM RecordsTyped == RecordsSpec => []RecordsTypeOK
<1>. DEFINE RecordsInv == /\ part = "worker" => WorkerInv
                          /\ part = "window" => WindowInv
                          /\ part = "panel" => PanelInv
                          /\ part = "ecological" => EcoInv
                          /\ part = "scoring" => ScoreInv
                          /\ part = "width" => WidthInv
                          /\ part = "lanes" => LaneInv
            recordsVars == <<part, workerVars, windowVars, panelVars, ecoVars, scoringVars,
                             widthVars, laneVars>>
<1>1. RecordsInit => RecordsInv
  BY InitWorker, WindowStarts, PanelStarts, EcoStarts, ScoreStarts, WidthStarts,
     LaneStarts DEF RecordsInit
<1>2. RecordsInv /\ [RecordsNext]_recordsVars => RecordsInv'
  <2>. SUFFICES ASSUME RecordsInv, [RecordsNext]_recordsVars PROVE RecordsInv'
    OBVIOUS
  <2>1. part' = part
    BY DEF RecordsNext, Only
  <2>2. part = "worker" => WorkerInv'
    <3>1. part = "worker" => [WorkerNext]_workerVars
      BY DEF RecordsNext, Only
    <3>. QED  BY <3>1, WorkerInvStep DEF Served
  <2>3. part = "window" => WindowInv'
    <3>1. part = "window" => [WindowNext]_windowVars
      BY DEF RecordsNext, Only
    <3>. QED  BY <3>1, WindowInvStep
  <2>4. part = "panel" => PanelInv'
    <3>1. part = "panel" => [PanelNext]_panelVars
      BY DEF RecordsNext, Only
    <3>. QED  BY <3>1, PanelInvStep
  <2>5. part = "ecological" => EcoInv'
    <3>1. part = "ecological" => [EcologicalNext]_ecoVars
      BY DEF RecordsNext, Only
    <3>. QED  BY <3>1, EcoInvStep
  <2>6. part = "width" => WidthInv'
    <3>1. part = "width" => [WidthNext]_widthVars
      BY DEF RecordsNext, Only
    <3>. QED  BY <3>1, WidthInvStep
  <2>7. part = "lanes" => LaneInv'
    <3>1. part = "lanes" => [LaneNext]_laneVars
      BY DEF RecordsNext, Only
    <3>. QED  BY <3>1, LaneInvStep
  <2>8. part = "scoring" => ScoreInv'
    <3>1. part = "scoring" => [ScoringNext]_scoringVars
      BY DEF RecordsNext, Only
    <3>. QED  BY <3>1, ScoreInvStep
  <2>. QED  BY <2>1, <2>2, <2>3, <2>4, <2>5, <2>6, <2>7, <2>8
<1>3. RecordsInv => RecordsTypeOK
  BY WorkerFacts, WindowFacts, PanelFacts, EcoFacts, ScoreFacts, WidthFacts, LaneFacts
     DEF RecordsTypeOK
<1>. QED  BY <1>1, <1>2, <1>3, PTL DEF RecordsSpec
=============================================================================
