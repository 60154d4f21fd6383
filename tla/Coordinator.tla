---------------------------- MODULE Coordinator ----------------------------
(***************************************************************************)
(* The SQLite coordinator of coordinator.py.  Every public operation is    *)
(* one BEGIN IMMEDIATE transaction, so every action below is one atomic    *)
(* step; a call that raises rolls its transaction back and changes         *)
(* nothing, which is stuttering here.  Several worker processes, the two   *)
(* HTTP services and the operator's CLI call these operations in any       *)
(* order.  A worker presents the lease (job, generation) it was granted,   *)
(* however long ago that was.                                              *)
(***************************************************************************)
EXTENDS JobRow, FiniteSets, Functions

CONSTANTS
    Job,            \* stable job ids: (batch, plan digest, cell, factors)
    Batch,          \* batch ids
    NoBatch,        \* active_batch_id / lookahead_batch_id IS NULL
    BatchOf,        \* the batch of a job
    AuthorityOf,    \* batch, cell, factors, queue row and resolved cell: what
                    \* must be identical for a result to be carried forward
    Position,       \* the position of a job's row within its batch
    Planned,        \* the jobs whose queue row is 'planned', not 'blocked'
    Configs,        \* queue configurations an operator may synchronize
    Pools,          \* for each worker pool, the jobs it accepts
    AuthorityClass, \* failure classes 'authority-resolution:...'
    Admission,      \* schedule admission ids
    NoAdmission,    \* last_schedule_admission_id IS NULL
    MinimumIdleSlots,
    MaxGeneration,  \* bound: claims of one job
    MaxSpans        \* bound: stage spans of a job, over all its attempts

ConfigType ==
    [order : Seq(Batch), rows : SUBSET Job, armed : BOOLEAN, policy : Policies]

\* The rows of one plan name each cell and factor combination once, and a
\* row belongs to a batch that the configuration lists.
ASSUME JobAssumption ==
    /\ IsFiniteSet(Job)
    /\ NoBatch \notin Batch
    /\ NoAdmission \notin Admission
    /\ BatchOf \in [Job -> Batch]
    /\ AuthorityOf \in [Job -> Range(AuthorityOf)]
    /\ Position \in [Job -> Nat]
    /\ Planned \subseteq Job
    /\ Pools \subseteq SUBSET Job
    /\ AuthorityClass \subseteq FailureClass
    /\ MinimumIdleSlots \in Nat \ {0}
    /\ MaxGeneration \in Nat
    /\ MaxSpans \in Nat

\* batch_order contains each batch id exactly once.
ListedOnce(c) ==
    \A m, n \in 1..Len(c.order) : c.order[m] = c.order[n] => m = n

\* What sync_queue resolves before its transaction: the rows of the listed
\* batches, none of them twice.
RowsListed(c) ==
    /\ \A j \in c.rows : BatchOf[j] \in Range(c.order)
    /\ \A j, k \in c.rows : AuthorityOf[j] = AuthorityOf[k] => j = k

ASSUME ConfigAssumption ==
    /\ Configs \subseteq ConfigType
    /\ \A c \in Configs : ListedOnce(c) /\ RowsListed(c)

\* Equal authority includes an equal batch.
ASSUME AuthorityAssumption ==
    \A j, k \in Job : AuthorityOf[j] = AuthorityOf[k] => BatchOf[j] = BatchOf[k]

VARIABLES
    jobs,           \* jobs, attempts and stage_attempts
    quarantined,    \* jobs with an active pathological_cell_quarantines row
    order,          \* active batches, by position
    armed, paused, policy,                  \* coordinator_state: policy
    primary, lookahead, lastAdmission       \* coordinator_state: admissions

state == <<order, armed, paused, policy>>
admissions == <<primary, lookahead, lastAdmission>>
vars == <<jobs, quarantined, state, admissions>>

\* Every column of the jobs, attempts, stage_attempts and coordinator_state
\* tables keeps to the values its CHECK constraint in _create_schema allows,
\* whatever operation wrote it.
TypeOK ==
    /\ jobs \in [Job -> JobRows]
    /\ quarantined \subseteq Job
    /\ order \in Seq(Batch)
    /\ armed \in BOOLEAN
    /\ paused \in BOOLEAN
    /\ policy \in Policies
    /\ primary \in Batch \cup {NoBatch}
    /\ lookahead \in Batch \cup {NoBatch}
    /\ lastAdmission \in Admission \cup {NoAdmission}

\* The schema's defaults: an empty, disarmed queue.
Init ==
    /\ jobs = [j \in Job |-> AbsentRow]
    /\ quarantined = {}
    /\ order = <<>>
    /\ armed = FALSE
    /\ paused = FALSE
    /\ policy = [maxWorkers |-> 4, leaseSeconds |-> 3600, maxAttempts |-> 3,
                 backoff |-> 0, backoffMax |-> 0, threshold |-> 0]
    /\ primary = NoBatch
    /\ lookahead = NoBatch
    /\ lastAdmission = NoAdmission

-----------------------------------------------------------------------------
(* Queries.                                                                *)

ActiveBatches == Range(order)
PositionOf(b) == CHOOSE n \in 1..Len(order) : order[n] = b

\* Jobs of the synchronized queue that hold a worker slot.
ActiveLive(rows) ==
    {j \in Job : rows[j].active /\ BatchOf[j] \in ActiveBatches /\ Live(rows[j])}

AnyLive == \E j \in Job : Live(jobs[j])

\* Mutant: failed jobs keep their block open.
RemainingOrFailed(b) ==
    {j \in Job : /\ BatchOf[j] = b
                 /\ jobs[j].active
                 /\ jobs[j].state \in {"queued", "failed"} \cup LiveStates}

\* Work that keeps a block open.
Remaining(b) ==
    {j \in Job : /\ BatchOf[j] = b
                 /\ jobs[j].active
                 /\ jobs[j].state \in {"queued"} \cup LiveStates}

FailedJobs(b) ==
    {j \in Job : BatchOf[j] = b /\ jobs[j].active /\ jobs[j].state = "failed"}

\* The guard of every operator recovery: only between claims, and never
\* across another block's admission.
RecoveryAllowed(b) == ~armed /\ paused /\ primary \in {NoBatch, b}

-----------------------------------------------------------------------------
(* Synchronization and runtime policy.                                     *)

\* Mutant: quarantined failures are not carried.
CompleteCandidates(j) ==
    {k \in Job \ {j} : AuthorityOf[k] = AuthorityOf[j] /\ jobs[k].state = "complete"}

\* Terminal evidence that another plan generation left for the same work.
CarryCandidates(j) ==
    {k \in Job \ {j} :
        /\ AuthorityOf[k] = AuthorityOf[j]
        /\ \/ /\ jobs[k].state = "complete"
              /\ \E g \in 1..Len(jobs[k].attempts) :
                    jobs[k].attempts[g].state = "complete"
           \/ jobs[k].state = "failed" /\ k \in quarantined}

\* The jobs that take the place of row j: a job that is not yet in progress
\* yields to evidence from an earlier generation.
Carried(j) ==
    IF jobs[j].state \in {"absent", "queued", "blocked"} THEN CarryCandidates(j) ELSE {}

Unambiguous(c) == \A j \in c.rows : \A k, l \in Carried(j) : k = l

\* Mutant: a row stays selected next to the result it carries.
SelectedBoth(c) == c.rows \cup UNION {Carried(j) : j \in c.rows}

\* All batches and jobs are deactivated, then the configuration's rows are
\* activated, created or replaced by carried evidence.
Selected(c) ==
    {j \in c.rows : Carried(j) = {}} \cup UNION {Carried(j) : j \in c.rows}

\* Mutant: admissions outlive their batch.
KeepAlways(b, c) == b

KeepIfListed(b, c) == IF b \in Range(c.order) THEN b ELSE NoBatch

SyncQueue(c) ==
    /\ Unambiguous(c)
    /\ jobs' = [j \in Job |->
                  IF j \in Selected(c) /\ jobs[j].state = "absent"
                  THEN NewRow(j \in Planned)
                  ELSE [jobs[j] EXCEPT !.active = j \in Selected(c)]]
    /\ order' = c.order
    /\ armed' = c.armed
    /\ policy' = c.policy
    /\ primary' = KeepIfListed(primary, c)
    /\ lookahead' = KeepIfListed(lookahead, c)
    /\ UNCHANGED <<quarantined, paused, lastAdmission>>

ActiveJobs == {j \in Job : jobs[j].active}

\* Configuration c describes the synchronized queue: the same ordered
\* batches and as many rows as there are active jobs.
SameQueue(c) == c.order = order /\ Cardinality(c.rows) = Cardinality(ActiveJobs)

ReconfigureRuntime(c) ==
    /\ paused
    /\ \A j \in ActiveJobs : ~Live(jobs[j])
    /\ ActiveJobs # {}
    /\ SameQueue(c)
    /\ armed' = c.armed
    /\ policy' = c.policy
    /\ UNCHANGED <<jobs, quarantined, order, paused, admissions>>

DisarmForRecovery(c) ==
    /\ ~c.armed
    /\ paused
    /\ \E j \in ActiveJobs : Live(jobs[j])
    /\ SameQueue(c)
    /\ armed' = FALSE
    /\ UNCHANGED <<jobs, quarantined, order, paused, policy, admissions>>

Pause ==
    /\ ~paused
    /\ paused' = TRUE
    /\ UNCHANGED <<jobs, quarantined, order, armed, policy, admissions>>

Resume ==
    /\ paused
    /\ paused' = FALSE
    /\ UNCHANGED <<jobs, quarantined, order, armed, policy, admissions>>

-----------------------------------------------------------------------------
(* Block admission.                                                        *)

\* Mutant: ORDER BY position is missing.
AnyNextBlock(b, after) ==
    /\ b \in ActiveBatches
    /\ PositionOf(b) > after
    /\ Remaining(b) # {}

\* The first listed batch, after the given position, with work remaining.
IsNextBlock(b, after) ==
    /\ b \in ActiveBatches
    /\ PositionOf(b) > after
    /\ Remaining(b) # {}
    /\ \A d \in ActiveBatches :
          PositionOf(d) > after /\ Remaining(d) # {} => PositionOf(b) <= PositionOf(d)

\* A scheduled admission is used once unless the schedule chains batches.
StartNextBlock(b, id, scheduled, reentry) ==
    /\ armed /\ ~paused
    /\ primary = NoBatch
    /\ lookahead = NoBatch
    /\ ~(scheduled /\ ~reentry /\ lastAdmission = id)
    /\ IsNextBlock(b, 0)
    /\ primary' = b
    /\ lastAdmission' = IF scheduled THEN id ELSE lastAdmission
    /\ UNCHANGED <<jobs, quarantined, state, lookahead>>

AdmitLookaheadBlock(b) ==
    /\ armed /\ ~paused
    /\ primary # NoBatch
    /\ lookahead = NoBatch
    /\ \A j \in Job : BatchOf[j] = primary /\ jobs[j].active => jobs[j].state # "queued"
    /\ Cardinality({j \in ActiveJobs : Live(jobs[j])}) + MinimumIdleSlots
          <= policy.maxWorkers
    /\ primary \in ActiveBatches
    /\ IsNextBlock(b, PositionOf(primary))
    /\ lookahead' = b
    /\ UNCHANGED <<jobs, quarantined, state, primary, lastAdmission>>

FinishActiveBlockIfDrained ==
    /\ primary # NoBatch
    /\ primary \in ActiveBatches => Remaining(primary) = {}
    /\ primary' = lookahead
    /\ lookahead' = NoBatch
    /\ UNCHANGED <<jobs, quarantined, state, lastAdmission>>

-----------------------------------------------------------------------------
(* Leases.                                                                 *)

Recovered(rows) ==
    [j \in Job |-> IF Expired(rows[j]) THEN Expire(rows[j], policy) ELSE rows[j]]

\* Also the whole effect of a claim that finds nothing to lease: the
\* recovery it starts with is committed.
RecoverExpired ==
    /\ \E j \in Job : Expired(jobs[j])
    /\ jobs' = Recovered(jobs)
    /\ UNCHANGED <<quarantined, state, admissions>>

Claimable(rows, batches, pool) ==
    {j \in pool : /\ rows[j].active
                  /\ rows[j].state = "queued"
                  /\ rows[j].wait = 0
                  /\ BatchOf[j] \in ActiveBatches \cap batches}

\* ORDER BY batches.position, jobs.position.
ComesBefore(j, k) ==
    \/ PositionOf(BatchOf[j]) < PositionOf(BatchOf[k])
    \/ BatchOf[j] = BatchOf[k] /\ Position[j] < Position[k]

SlotFree(rows) == Cardinality(ActiveLive(rows)) < policy.maxWorkers

Claim(j, batches, pool) ==
    LET rows == Recovered(jobs) IN
    /\ armed /\ ~paused
    /\ j \in Claimable(rows, batches, pool)
    /\ SlotFree(rows)
    /\ \A k \in Claimable(rows, batches, pool) : ~ComesBefore(k, j)
    /\ rows[j].generation < MaxGeneration
    /\ jobs' = [rows EXCEPT ![j] = Grant(rows[j], policy)]
    /\ UNCHANGED <<quarantined, state, admissions>>

\* Mutants: any worker that ever leased the job; the newest worker, even
\* after its lease ended.
HoldsLeaseOfJob(j, g) == Live(jobs[j]) /\ jobs[j].ttl > 0
HoldsLeaseNewest(j, g) == jobs[j].generation = g

\* _require_lease_locked accepts the lease of generation g on job j.
HoldsLease(j, g) ==
    /\ Live(jobs[j])
    /\ jobs[j].generation = g
    /\ jobs[j].ttl > 0

\* A fenced write first recovers every other expired lease.
FencedWrite(j, row) ==
    /\ jobs' = [Recovered(jobs) EXCEPT ![j] = row]
    /\ UNCHANGED <<state, admissions>>

Renew(j, g) ==
    /\ HoldsLease(j, g)
    /\ FencedWrite(j, Extend(jobs[j], policy))
    /\ UNCHANGED quarantined

\* The spans of a job over all its attempts, which MaxSpans bounds.
SpanCount(r) ==
    Cardinality(UNION {{g} \X (1..Len(r.attempts[g].spans)) : g \in 1..Len(r.attempts)})

RecordStarted(j, g, stage) ==
    /\ HoldsLease(j, g)
    /\ ~HasOpenSpan(jobs[j], g)
    /\ SpanCount(jobs[j]) < MaxSpans
    /\ FencedWrite(j, StartSpan(jobs[j], g, stage))
    /\ UNCHANGED quarantined

RecordSkipped(j, g, stage) ==
    /\ HoldsLease(j, g)
    /\ ~HasOpenSpan(jobs[j], g)
    /\ SpanCount(jobs[j]) < MaxSpans
    /\ FencedWrite(j, SkipSpan(jobs[j], g, stage))
    /\ UNCHANGED quarantined

RecordEnded(j, g, stage, status) ==
    /\ HoldsLease(j, g)
    /\ OpenSpanIs(jobs[j], g, stage)
    /\ FencedWrite(j, EndSpan(jobs[j], g, stage, status))
    /\ UNCHANGED quarantined

Complete(j, g) ==
    /\ HoldsLease(j, g)
    /\ ~HasOpenSpan(jobs[j], g)
    /\ FencedWrite(j, Finish(jobs[j], g))
    /\ UNCHANGED quarantined

\* Terminal failures of one class in one batch reach the threshold.
CircuitOpens(rows, b, class) ==
    /\ policy.threshold > 0
    /\ class \in AuthorityClass
    /\ Cardinality({k \in Job : /\ BatchOf[k] = b
                                /\ b \in ActiveBatches
                                /\ rows[k].active
                                /\ rows[k].state = "failed"
                                /\ rows[k].failureClass = class})
          >= policy.threshold

\* Mutant: the circuit breaker counts before this failure is written.
FailCountedBefore(j, g, retryable, pathological, class) ==
    LET retry == ~pathological /\ retryable /\ Retries(jobs[j], policy) IN
    /\ HoldsLease(j, g)
    /\ pathological => j \notin quarantined
    /\ jobs' = [Recovered(jobs) EXCEPT ![j] = Abandon(jobs[j], g, policy, retry, class)]
    /\ quarantined' = IF pathological THEN quarantined \cup {j} ELSE quarantined
    /\ paused' = (paused \/ (~retry /\ CircuitOpens(jobs, BatchOf[j], class)))
    /\ UNCHANGED <<order, armed, policy, admissions>>

\* The partial unique index on active quarantines rejects a second row, and
\* with it the whole failure report.
Fail(j, g, retryable, pathological, class) ==
    LET retry == ~pathological /\ retryable /\ Retries(jobs[j], policy) IN
    /\ HoldsLease(j, g)
    /\ pathological => j \notin quarantined
    /\ jobs' = [Recovered(jobs) EXCEPT ![j] = Abandon(jobs[j], g, policy, retry, class)]
    /\ quarantined' = IF pathological THEN quarantined \cup {j} ELSE quarantined
    /\ paused' = (paused \/ (~retry /\ CircuitOpens(jobs', BatchOf[j], class)))
    /\ UNCHANGED <<order, armed, policy, admissions>>

-----------------------------------------------------------------------------
(* Operator recovery.  The expected counts and ids an operator passes are  *)
(* compared with the rows found, so they select nothing further.           *)

QuarantinePathologicalJobs(b, set) ==
    /\ RecoveryAllowed(b)
    /\ ~AnyLive
    /\ set # {}
    /\ \A j \in set : /\ BatchOf[j] = b
                      /\ jobs[j].active
                      /\ jobs[j].state \in {"queued", "failed"}
                      /\ j \notin quarantined
    /\ jobs' = [j \in Job |-> IF j \in set THEN Isolate(jobs[j]) ELSE jobs[j]]
    /\ quarantined' = quarantined \cup set
    /\ UNCHANGED <<state, admissions>>

ReleasePathologicalQuarantine(b) ==
    LET set == {j \in quarantined : BatchOf[j] = b} IN
    /\ ~armed /\ paused
    /\ ~AnyLive
    /\ set # {}
    /\ jobs' = [j \in Job |-> IF j \in set THEN Reopen(jobs[j]) ELSE jobs[j]]
    /\ quarantined' = quarantined \ set
    /\ UNCHANGED <<state, admissions>>

RequeueFailedBatch(b) ==
    /\ RecoveryAllowed(b)
    /\ ~AnyLive
    /\ b \in ActiveBatches
    /\ FailedJobs(b) # {}
    /\ jobs' = [j \in Job |-> IF j \in FailedJobs(b) THEN Reopen(jobs[j]) ELSE jobs[j]]
    /\ UNCHANGED <<quarantined, state, admissions>>

RequeueInterruptedBatch(b) ==
    /\ RecoveryAllowed(b)
    /\ AnyLive
    /\ \A j \in Job : Live(jobs[j]) => BatchOf[j] = b
    /\ b \in ActiveBatches
    /\ jobs' = [j \in Job |-> IF Live(jobs[j]) THEN Interrupt(jobs[j]) ELSE jobs[j]]
    /\ UNCHANGED <<quarantined, state, admissions>>

-----------------------------------------------------------------------------
Tick ==
    /\ \E j \in Job : jobs[j].ttl > 0 \/ jobs[j].wait > 0
    /\ jobs' = [j \in Job |-> Age(jobs[j])]
    /\ UNCHANGED <<quarantined, state, admissions>>

\* What a worker does with a lease of generation g that it was granted.
LeaseStep(j, g) ==
    \/ Renew(j, g)
    \/ \E stage \in Stage : \/ RecordStarted(j, g, stage)
                            \/ RecordSkipped(j, g, stage)
                            \/ \E status \in {"completed", "failed"} :
                                  RecordEnded(j, g, stage, status)
    \/ Complete(j, g)
    \/ \E retryable, pathological \in BOOLEAN, class \in FailureClass \cup {NoClass} :
          Fail(j, g, retryable, pathological, class)

BlockStep ==
    \/ \E b \in Batch, id \in Admission, scheduled, reentry \in BOOLEAN :
          StartNextBlock(b, id, scheduled, reentry)
    \/ \E b \in Batch : AdmitLookaheadBlock(b)
    \/ FinishActiveBlockIfDrained

ClaimStep ==
    \/ RecoverExpired
    \/ \E batches \in SUBSET Batch, pool \in Pools, j \in Job : Claim(j, batches, pool)

OperatorStep ==
    \/ \E c \in Configs : SyncQueue(c) \/ ReconfigureRuntime(c) \/ DisarmForRecovery(c)
    \/ Pause
    \/ Resume
    \/ \E b \in Batch : \/ \E set \in SUBSET Job : QuarantinePathologicalJobs(b, set)
                        \/ ReleasePathologicalQuarantine(b)
                        \/ RequeueFailedBatch(b)
                        \/ RequeueInterruptedBatch(b)

Next ==
    \/ Tick
    \/ ClaimStep
    \/ \E j \in Job : \E g \in 1..jobs[j].generation : LeaseStep(j, g)
    \/ BlockStep
    \/ OperatorStep

Spec == Init /\ [][Next]_vars

-----------------------------------------------------------------------------
(* Properties.                                                             *)

\* The jobs, attempts and stage_attempts tables agree on every job after any
\* sequence of claim, renew, record_stage, complete, fail, recover_expired
\* and the operator requeues: no live attempt without its lease, no open
\* stage of a lost attempt, one success.
LedgerConsistent == \A j \in Job : RowInv(jobs[j])

\* No operation rewrites the record of finished work: _require_lease_locked
\* keeps a worker that lost its lease out of the attempt of its successor,
\* and recovery (_recover_expired_locked, requeue_interrupted_batch) touches
\* only the open attempt.
EvidencePreserved == [][\A j \in Job : EvidenceKept(jobs[j], jobs'[j])]_vars

\* A completed job is never executed again: no requeue, release, refresh or
\* late fail moves it out of 'complete'.
CompleteIsFinal ==
    [][\A j \in Job : jobs[j].state = "complete" => jobs'[j].state = "complete"]_vars

\* The synchronized queue holds the same work once: a plan refresh
\* (sync_queue) that carries a result forward does not queue that work a second time.
OneJobPerAuthority ==
    \A j, k \in ActiveJobs : AuthorityOf[j] = AuthorityOf[k] => j = k

\* Finished work stays finished across plan generations: a job that a
\* sync_queue brings in is not waiting for execution when another
\* generation completed, or quarantined, the same work.
RefreshKeepsOutcome ==
    [][\A k \in ActiveJobs' \ ActiveJobs : \A j \in Job :
          /\ AuthorityOf[j] = AuthorityOf[k]
          /\ jobs[j].state = "complete" \/ (jobs[j].state = "failed" /\ j \in quarantined)
          => jobs'[k].state \notin {"queued", "blocked"}]_vars

\* Admitted blocks and active jobs belong to batches of the synchronized
\* queue: sync_queue clears an admission whose batch it drops.
BlocksListed ==
    /\ primary # NoBatch => primary \in ActiveBatches
    /\ lookahead # NoBatch => lookahead \in ActiveBatches
    /\ \A j \in ActiveJobs : BatchOf[j] \in ActiveBatches

\* start_next_block: "look-ahead admission exists without a primary block"
\* is the error of a state the operations should never reach.
LookaheadHasPrimary == lookahead # NoBatch => primary # NoBatch

\* A quarantined job stays terminally failed until its quarantine is
\* released (quarantine_pathological_jobs, fail).
QuarantineIsTerminal == \A j \in quarantined : jobs[j].state = "failed"
=============================================================================
