---------------------------- MODULE ServiceProofs ----------------------------
(***************************************************************************)
(* What an unattended queue promises for every number of jobs, batches,    *)
(* workers and claims: the limits of its policy, the circuit breaker, and  *)
(* the order of its blocks.                                                *)
(*                                                                         *)
(* Two facts carry the proof.  Once a queue is synchronized no job is      *)
(* opened again: a row that is neither queued nor leased stays so, so the  *)
(* work that remains in a block only shrinks.  And a leased row has no     *)
(* failure class, so a lease that expires cannot feed the circuit breaker  *)
(* behind its back: only fail adds to what the breaker counts, and fail    *)
(* asks it.                                                                *)
(*                                                                         *)
(* The last part shows that the coordinator implements the abstract lease  *)
(* service: a step grants or accepts one job while others lapse, or is an  *)
(* operator's reassignment.                                                *)
(***************************************************************************)
EXTENDS CoordinatorService, CoordinatorLease, CoordinatorProofs, FiniteSetTheorems

Unsettled(r) == r.state \in {"queued"} \cup LiveStates

FailedAs(r, class) == r.state = "failed" /\ r.failureClass = class

\* A row within its attempts: a queued one has one left, a leased one is not
\* classified.
WithinAttempts(r, p) ==
    /\ r.attemptCount <= p.maxAttempts
    /\ r.state = "queued" => r.attemptCount < p.maxAttempts
    /\ Live(r) => r.failureClass = NoClass

\* What the circuit breaker counts.
Counted(rows, b, class) ==
    {k \in Job : /\ BatchOf[k] = b
                 /\ b \in ActiveBatches
                 /\ rows[k].active
                 /\ rows[k].state = "failed"
                 /\ rows[k].failureClass = class}

RowsWithin == \A j \in Job : WithinAttempts(jobs[j], policy)

\* Before the synchronization there is nothing.
NothingYet ==
    order = <<>> =>
        /\ primary = NoBatch /\ lookahead = NoBatch
        /\ \A j \in Job : jobs[j].state = "absent" /\ ~jobs[j].active

\* The inductive invariant.
ServiceInv ==
    Inv /\ RowsWithin /\ NothingYet /\ WorkerLimit /\ CircuitHolds /\ BlocksInOrder

\* After the synchronization no job is opened again.
SettledStays ==
    [][order # <<>> => \A j \in Job : Unsettled(jobs'[j]) => Unsettled(jobs[j])]_vars

\* From r to s a row is not opened, not revived and not pushed past its
\* attempts.
Settles(r, s, p) ==
    /\ s.active = r.active
    /\ Unsettled(s) => Unsettled(r)
    /\ r.state = "absent" => s.state = "absent"
    /\ WithinAttempts(s, p)

NoNewLease(r, s) == Live(s) => Live(r)

NoNewFailure(r, s) == \A class \in FailureClass : FailedAs(s, class) => FailedAs(r, class)

\* A row that moves on without a new lease and without a classified failure.
Quiet(r, s, p) == Settles(r, s, p) /\ NoNewLease(r, s) /\ NoNewFailure(r, s)

-----------------------------------------------------------------------------
(* One row.                                                                *)

LEMMA QuietReflexive ==
    ASSUME NEW r, NEW p, WithinAttempts(r, p) PROVE Quiet(r, r, p)
BY DEF Quiet, Settles, NoNewLease, NoNewFailure

\* The transitions of a live row that count no failure of a class, and the
\* passing of time.
LEMMA QuietLemma ==
    ASSUME NEW r \in JobRows, NEW p \in Policies, WithinAttempts(r, p)
    PROVE  /\ Quiet(r, Age(r), p)
           /\ Live(r) => /\ Quiet(r, Expire(r, p), p)
                         /\ Quiet(r, Extend(r, p), p)
                         /\ \A g : Quiet(r, Finish(r, g), p)
<1>. USE DEF Quiet, Settles, NoNewLease, NoNewFailure, FailedAs, Unsettled, WithinAttempts,
             Live, LiveStates, JobRows, Policies
<1>1. Quiet(r, Age(r), p)
  BY DEF Age
<1>2. ASSUME Live(r) PROVE Quiet(r, Expire(r, p), p)
  BY <1>2, NullAssumption DEF Expire, Retries
<1>3. ASSUME Live(r) PROVE Quiet(r, Extend(r, p), p)
  BY <1>3 DEF Extend
<1>4. ASSUME Live(r), NEW g PROVE Quiet(r, Finish(r, g), p)
  BY <1>4 DEF Finish
<1>. QED  BY <1>1, <1>2, <1>3, <1>4

\* record_stage.
LEMMA QuietStage ==
    ASSUME NEW r \in JobRows, NEW p, WithinAttempts(r, p), Live(r), NEW g, NEW stage
    PROVE  /\ Quiet(r, StartSpan(r, g, stage), p)
           /\ Quiet(r, SkipSpan(r, g, stage), p)
           /\ \A status : Quiet(r, EndSpan(r, g, stage, status), p)
<1>1. ASSUME NEW spans, NEW current
      PROVE  Quiet(r, WithSpans(r, g, spans, current), p)
  BY DEF WithSpans, Quiet, Settles, NoNewLease, NoNewFailure, FailedAs, Unsettled,
         WithinAttempts, Live, LiveStates, JobRows
<1>2. Quiet(r, StartSpan(r, g, stage), p) /\ Quiet(r, SkipSpan(r, g, stage), p)
  BY <1>1, Zenon DEF StartSpan, SkipSpan
<1>3. ASSUME NEW status PROVE Quiet(r, EndSpan(r, g, stage, status), p)
  BY <1>1, Zenon DEF EndSpan
<1>. QED  BY <1>2, <1>3

\* claim: the row had an attempt left.
LEMMA GrantSettles ==
    ASSUME NEW r \in JobRows, NEW p \in Policies, WithinAttempts(r, p), r.state = "queued"
    PROVE  Settles(r, Grant(r, p), p) /\ NoNewFailure(r, Grant(r, p))
BY DEF Grant, Settles, NoNewFailure, FailedAs, Unsettled, WithinAttempts, Live, LiveStates,
       JobRows, Policies

\* fail: only the reported class is new, and only of a terminal failure.
LEMMA AbandonSettles ==
    ASSUME NEW r \in JobRows, NEW p \in Policies, WithinAttempts(r, p), Live(r),
           NEW g, NEW retry \in BOOLEAN, retry => Retries(r, p), NEW class
    PROVE  /\ Settles(r, Abandon(r, g, p, retry, class), p)
           /\ ~Live(Abandon(r, g, p, retry, class))
           /\ \A c : FailedAs(Abandon(r, g, p, retry, class), c) => ~retry /\ c = class
BY DEF Abandon, Retries, Settles, FailedAs, Unsettled, WithinAttempts, Live, LiveStates,
       JobRows, Policies

-----------------------------------------------------------------------------
(* One step, after the synchronization.                                    *)

\* What every such step does to the rows and leaves alone.
Steady ==
    /\ order' = order /\ policy' = policy
    /\ paused => paused'
    /\ \A k \in Job : Settles(jobs[k], jobs'[k], policy)

LEMMA RecoveredQuiet ==
    ASSUME Inv, RowsWithin
    PROVE  \A k \in Job : Quiet(jobs[k], Recovered(jobs)[k], policy)
<1>. TAKE k \in Job
<1>1. jobs[k] \in JobRows /\ policy \in Policies /\ WithinAttempts(jobs[k], policy)
  BY DEF Inv, TypeOK, RowsWithin
<1>2. CASE Expired(jobs[k])
  <2>1. Recovered(jobs)[k] = Expire(jobs[k], policy) /\ Live(jobs[k])
    BY <1>2 DEF Recovered, Expired
  <2>. QED  BY <1>1, <2>1, QuietLemma
<1>3. CASE ~Expired(jobs[k])
  <2>1. Recovered(jobs)[k] = jobs[k]
    BY <1>3 DEF Recovered
  <2>. QED  BY <1>1, <2>1, QuietReflexive
<1>. QED  BY <1>2, <1>3

\* A fenced write changes one row as its operation says, and recovers the
\* expired ones.
LEMMA FencedRows ==
    ASSUME Inv, NEW j \in Job, NEW row, jobs' = [Recovered(jobs) EXCEPT ![j] = row]
    PROVE  jobs'[j] = row /\ \A k \in Job \ {j} : jobs'[k] = Recovered(jobs)[k]
<1>1. Recovered(jobs) \in [Job -> JobRows]
  BY RecoveredLemma
<1>. HIDE DEF Recovered
<1>. QED  BY <1>1

LEMMA FencedQuiet ==
    ASSUME Inv, RowsWithin, NEW j \in Job, NEW row, Quiet(jobs[j], row, policy),
           jobs' = [Recovered(jobs) EXCEPT ![j] = row]
    PROVE  \A k \in Job : Quiet(jobs[k], jobs'[k], policy)
BY FencedRows, RecoveredQuiet

\* What a worker reports is quiet, but for a failure.
LEMMA ReportQuiet ==
    ASSUME Inv, RowsWithin, NEW j \in Job, NEW g,
           \/ Renew(j, g) \/ Complete(j, g)
           \/ \E stage \in Stage : \/ RecordStarted(j, g, stage)
                                   \/ RecordSkipped(j, g, stage)
                                   \/ \E status \in {"completed", "failed"} :
                                         RecordEnded(j, g, stage, status)
    PROVE  \A k \in Job : Quiet(jobs[k], jobs'[k], policy)
<1>1. HoldsLease(j, g)
  BY DEF Renew, Complete, RecordStarted, RecordSkipped, RecordEnded
<1>2. /\ jobs[j] \in JobRows /\ Live(jobs[j])
      /\ policy \in Policies /\ WithinAttempts(jobs[j], policy)
  BY <1>1 DEF Inv, TypeOK, RowsWithin, HoldsLease
<1>3. PICK row : Quiet(jobs[j], row, policy) /\ jobs' = [Recovered(jobs) EXCEPT ![j] = row]
  <2>1. CASE Renew(j, g)
    BY <1>2, <2>1, QuietLemma DEF Renew, FencedWrite
  <2>2. CASE Complete(j, g)
    BY <1>2, <2>2, QuietLemma DEF Complete, FencedWrite
  <2>3. ASSUME NEW stage \in Stage, RecordStarted(j, g, stage)
        PROVE  \E row : /\ Quiet(jobs[j], row, policy)
                        /\ jobs' = [Recovered(jobs) EXCEPT ![j] = row]
    BY <1>2, <2>3, QuietStage DEF RecordStarted, FencedWrite
  <2>4. ASSUME NEW stage \in Stage, RecordSkipped(j, g, stage)
        PROVE  \E row : /\ Quiet(jobs[j], row, policy)
                        /\ jobs' = [Recovered(jobs) EXCEPT ![j] = row]
    BY <1>2, <2>4, QuietStage DEF RecordSkipped, FencedWrite
  <2>5. ASSUME NEW stage \in Stage, NEW status \in {"completed", "failed"},
               RecordEnded(j, g, stage, status)
        PROVE  \E row : /\ Quiet(jobs[j], row, policy)
                        /\ jobs' = [Recovered(jobs) EXCEPT ![j] = row]
    BY <1>2, <2>5, QuietStage DEF RecordEnded, FencedWrite
  <2>. QED  BY <2>1, <2>2, <2>3, <2>4, <2>5
<1>. QED  BY <1>3, FencedQuiet

\* A failure settles its row; what the circuit breaker counts grows by that
\* row at most, in the class that was reported.
LEMMA FailSettles ==
    ASSUME Inv, RowsWithin, NEW j \in Job, NEW g, NEW retryable \in BOOLEAN,
           NEW pathological \in BOOLEAN, NEW class,
           Fail(j, g, retryable, pathological, class)
    PROVE  /\ \A k \in Job : Settles(jobs[k], jobs'[k], policy) /\ NoNewLease(jobs[k], jobs'[k])
           /\ \A k \in Job, c \in FailureClass :
                 FailedAs(jobs'[k], c) /\ ~FailedAs(jobs[k], c)
                     => /\ k = j /\ c = class
                        /\ CircuitOpens(jobs', BatchOf[j], class) => paused'
<1>. DEFINE retry == ~pathological /\ retryable /\ Retries(jobs[j], policy)
            row == Abandon(jobs[j], g, policy, retry, class)
<1>1. /\ HoldsLease(j, g)
      /\ jobs' = [Recovered(jobs) EXCEPT ![j] = row]
      /\ ~retry /\ CircuitOpens(jobs', BatchOf[j], class) => paused'
  BY DEF Fail
<1>2. /\ jobs[j] \in JobRows /\ Live(jobs[j])
      /\ policy \in Policies /\ WithinAttempts(jobs[j], policy)
  BY <1>1 DEF Inv, TypeOK, RowsWithin, HoldsLease
<1>3. retry \in BOOLEAN /\ (retry => Retries(jobs[j], policy))
  BY DEF Retries
<1>. HIDE DEF retry
<1>4. /\ Settles(jobs[j], row, policy)
      /\ ~Live(row)
      /\ \A c : FailedAs(row, c) => ~retry /\ c = class
  BY <1>2, <1>3, AbandonSettles
<1>. HIDE DEF row
<1>5. jobs'[j] = row /\ \A k \in Job \ {j} : jobs'[k] = Recovered(jobs)[k]
  BY <1>1, FencedRows
<1>6. \A k \in Job \ {j} : Quiet(jobs[k], jobs'[k], policy)
  BY <1>5, RecoveredQuiet
<1>7. \A k \in Job : Settles(jobs[k], jobs'[k], policy) /\ NoNewLease(jobs[k], jobs'[k])
  BY <1>4, <1>5, <1>6 DEF Quiet, NoNewLease
<1>8. ASSUME NEW k \in Job, NEW c \in FailureClass, FailedAs(jobs'[k], c), ~FailedAs(jobs[k], c)
      PROVE  k = j /\ c = class /\ (CircuitOpens(jobs', BatchOf[j], class) => paused')
  <2>1. k = j
    BY <1>6, <1>8 DEF Quiet, NoNewFailure
  <2>. QED  BY <1>1, <1>4, <1>5, <1>8, <2>1
<1>. QED  BY <1>7, <1>8

\* A claim adds one live row to those that the recovery left.
LEMMA ClaimSettles ==
    ASSUME Inv, RowsWithin, NEW j \in Job, NEW batches, NEW pool, Claim(j, batches, pool)
    PROVE  /\ \A k \in Job : /\ Settles(jobs[k], jobs'[k], policy)
                             /\ NoNewFailure(jobs[k], jobs'[k])
           /\ \A k \in Job \ {j} : jobs'[k] = Recovered(jobs)[k]
<1>. DEFINE rows == Recovered(jobs)
<1>1. /\ rows[j].state = "queued"
      /\ jobs' = [rows EXCEPT ![j] = Grant(rows[j], policy)]
  BY DEF Claim, Claimable
<1>2. /\ rows[j] \in JobRows /\ policy \in Policies
      /\ \A k \in Job : Quiet(jobs[k], rows[k], policy)
  BY RecoveredLemma, RecoveredQuiet DEF Sound, Inv, TypeOK
<1>3. jobs'[j] = Grant(rows[j], policy) /\ \A k \in Job \ {j} : jobs'[k] = rows[k]
  BY <1>1, FencedRows
<1>. HIDE DEF rows
<1>4. Settles(rows[j], jobs'[j], policy) /\ NoNewFailure(rows[j], jobs'[j])
  BY <1>1, <1>2, <1>3, GrantSettles DEF Quiet, Settles
<1>5. Settles(jobs[j], jobs'[j], policy) /\ NoNewFailure(jobs[j], jobs'[j])
  BY <1>2, <1>4 DEF Quiet, Settles, NoNewFailure
<1>. QED  BY <1>2, <1>3, <1>5 DEF Quiet, rows

-----------------------------------------------------------------------------
(* The synchronization.                                                    *)

LEMMA SyncRows ==
    ASSUME Inv, NothingYet, order = <<>>, NEW c \in Configs, SyncQueue(c)
    PROVE  \A k \in Job : /\ jobs'[k].state \in {"queued", "blocked", "absent"}
                          /\ jobs'[k].attemptCount = 0
                          /\ c.order = <<>> => jobs'[k].state = "absent" /\ ~jobs'[k].active
<1>. TAKE k \in Job
<1>1. jobs[k] \in JobRows /\ jobs[k].state = "absent" /\ jobs[k].attemptCount = 0
  <2>1. Sound(jobs[k]) /\ jobs[k].state = "absent"
    BY InvSound DEF NothingYet
  <2>. QED  BY <2>1 DEF Sound, RowInv, NeverAttempted, LeaseMatchesAttempt
<1>2. CASE k \in Selected(c)
  <2>1. jobs'[k] = NewRow(k \in Planned)
    BY <1>1, <1>2 DEF SyncQueue
  <2>2. c.order # <<>>
    <3>1. PICK j \in c.rows : TRUE
      BY <1>2, SelectedRow
    <3>2. BatchOf[j] \in Range(c.order)
      BY ConfigAssumption DEF RowsListed
    <3>. QED  BY <3>2 DEF Range
  <2>. QED  BY <2>1, <2>2 DEF NewRow
<1>3. CASE k \notin Selected(c)
  <2>1. jobs'[k] = [jobs[k] EXCEPT !.active = k \in Selected(c)]
    BY <1>3 DEF SyncQueue
  <2>2. (k \in Selected(c)) = FALSE
    BY <1>3
  <2>. QED  BY <1>1, <2>1, <2>2 DEF JobRows
<1>. QED  BY <1>2, <1>3

LEMMA SyncStep ==
    ASSUME ServiceInv, order = <<>>, NEW c \in Configs, SyncQueue(c)
    PROVE  /\ RowsWithin' /\ NothingYet' /\ WorkerLimit' /\ CircuitHolds' /\ BlocksInOrder'
<1>1. \A k \in Job : /\ jobs'[k].state \in {"queued", "blocked", "absent"}
                     /\ jobs'[k].attemptCount = 0
                     /\ c.order = <<>> => jobs'[k].state = "absent" /\ ~jobs'[k].active
  BY SyncRows DEF ServiceInv
<1>2. policy' \in Policies /\ order' = c.order
  BY SyncQueueType DEF SyncQueue, ServiceInv, Inv
<1>3. primary' = NoBatch /\ lookahead' = NoBatch
  BY DEF ServiceInv, NothingYet, SyncQueue, KeepIfListed
<1>4. RowsWithin' /\ NothingYet' /\ BlocksInOrder'
  BY <1>1, <1>2, <1>3
     DEF RowsWithin, WithinAttempts, NothingYet, BlocksInOrder, Live, LiveStates, Policies
<1>5. WorkerLimit'
  <2>1. ActiveLive(jobs)' = {}
    BY <1>1 DEF ActiveLive, Live, LiveStates
  <2>. QED  BY <1>2, <2>1, FS_EmptySet DEF WorkerLimit, Policies
<1>6. CircuitHolds'
  <2>. SUFFICES ASSUME NEW b, NEW class, CircuitOpens(jobs, b, class)' PROVE FALSE
    BY DEF CircuitHolds
  <2>1. /\ policy'.threshold > 0
        /\ Cardinality(Counted(jobs, b, class)') >= policy'.threshold
    BY DEF CircuitOpens, Counted
  <2>2. Counted(jobs, b, class)' = {}
    BY <1>1 DEF Counted
  <2>3. Cardinality(Counted(jobs, b, class)') = 0
    BY <2>2, FS_EmptySet
  <2>. QED  BY <1>2, <2>1, <2>3 DEF Policies
<1>. QED  BY <1>4, <1>5, <1>6

-----------------------------------------------------------------------------
(* Every other step.                                                       *)

LEMMA PositionLemma ==
    ASSUME TypeOK, NEW b \in ActiveBatches
    PROVE  PositionOf(b) \in 1..Len(order) /\ order[PositionOf(b)] = b
<1>1. \E n \in 1..Len(order) : order[n] = b
  BY DEF TypeOK, ActiveBatches, Range
<1>. QED  BY <1>1 DEF PositionOf

\* The steps of the service but the synchronization, and the rows they leave.
LEMMA RowsStep ==
    ASSUME Inv, RowsWithin, [ServiceNext]_vars, ~Synchronize
    PROVE  /\ \A k \in Job : Settles(jobs[k], jobs'[k], policy)
           /\ \/ \A k \in Job : NoNewLease(jobs[k], jobs'[k])
              \/ \E j \in Job : SlotFree(Recovered(jobs)) /\
                    \A k \in Job \ {j} : jobs'[k] = Recovered(jobs)[k]
           /\ \/ \A k \in Job : NoNewFailure(jobs[k], jobs'[k])
              \/ \E j \in Job : \E class : \A k \in Job, c \in FailureClass :
                    FailedAs(jobs'[k], c) /\ ~FailedAs(jobs[k], c)
                        => /\ k = j /\ c = class
                           /\ CircuitOpens(jobs', BatchOf[j], class) => paused'
           /\ order' = order /\ policy' = policy /\ (paused => paused')
<1>. DEFINE Goal == /\ \A k \in Job : Quiet(jobs[k], jobs'[k], policy)
                    /\ order' = order /\ policy' = policy /\ paused' = paused
<1>1. CASE Tick
  <2>1. \A k \in Job : jobs[k] \in JobRows /\ policy \in Policies /\ WithinAttempts(jobs[k], policy)
    BY DEF Inv, TypeOK, RowsWithin
  <2>2. \A k \in Job : jobs'[k] = Age(jobs[k])
    BY <1>1 DEF Tick
  <2>3. Goal
    BY <1>1, <2>1, <2>2, QuietLemma DEF Tick, state
  <2>. QED  BY <2>3 DEF Quiet
<1>2. CASE RecoverExpired
  <2>1. Goal
    BY <1>2, RecoveredQuiet DEF RecoverExpired, state
  <2>. QED  BY <2>1 DEF Quiet
<1>3. ASSUME NEW batches \in SUBSET Batch, NEW pool \in Pools, NEW j \in Job,
             Claim(j, batches, pool)
      PROVE  /\ \A k \in Job : Settles(jobs[k], jobs'[k], policy) /\ NoNewFailure(jobs[k], jobs'[k])
             /\ SlotFree(Recovered(jobs))
             /\ \A k \in Job \ {j} : jobs'[k] = Recovered(jobs)[k]
             /\ order' = order /\ policy' = policy /\ paused' = paused
  BY <1>3, ClaimSettles DEF Claim, state
<1>4. ASSUME NEW j \in Job, NEW g \in 1..jobs[j].generation, LeaseStep(j, g)
      PROVE  \/ Goal
             \/ /\ \A k \in Job : Settles(jobs[k], jobs'[k], policy) /\ NoNewLease(jobs[k], jobs'[k])
                /\ \E class : \A k \in Job, c \in FailureClass :
                      FailedAs(jobs'[k], c) /\ ~FailedAs(jobs[k], c)
                          => /\ k = j /\ c = class
                             /\ CircuitOpens(jobs', BatchOf[j], class) => paused'
                /\ order' = order /\ policy' = policy /\ (paused => paused')
  <2>1. ASSUME NEW retryable \in BOOLEAN, NEW pathological \in BOOLEAN,
               NEW class \in FailureClass \cup {NoClass},
               Fail(j, g, retryable, pathological, class)
        PROVE  /\ \A k \in Job : Settles(jobs[k], jobs'[k], policy) /\ NoNewLease(jobs[k], jobs'[k])
               /\ \A k \in Job, c \in FailureClass :
                     FailedAs(jobs'[k], c) /\ ~FailedAs(jobs[k], c)
                         => /\ k = j /\ c = class
                            /\ CircuitOpens(jobs', BatchOf[j], class) => paused'
               /\ order' = order /\ policy' = policy /\ (paused => paused')
    BY <2>1, FailSettles DEF Fail
  <2>2. CASE \/ Renew(j, g) \/ Complete(j, g)
             \/ \E stage \in Stage : \/ RecordStarted(j, g, stage)
                                     \/ RecordSkipped(j, g, stage)
                                     \/ \E status \in {"completed", "failed"} :
                                           RecordEnded(j, g, stage, status)
    <3>1. UNCHANGED state
      BY <2>2 DEF Renew, Complete, RecordStarted, RecordSkipped, RecordEnded, FencedWrite
    <3>. QED  BY <2>2, <3>1, ReportQuiet DEF state
  <2>. QED  BY <1>4, <2>1, <2>2 DEF LeaseStep
<1>5. CASE BlockStep \/ UNCHANGED vars
  <2>1. UNCHANGED <<jobs, state>>
    BY <1>5 DEF BlockStep, StartNextBlock, AdmitLookaheadBlock,
                FinishActiveBlockIfDrained, vars
  <2>2. Goal
    BY <2>1, QuietReflexive DEF RowsWithin, state
  <2>. QED  BY <2>2 DEF Quiet
<1>. QED  BY <1>1, <1>2, <1>3, <1>4, <1>5 DEF ServiceNext, ClaimStep, WorkerStep, Quiet

\* No lease beyond the limit: without a claim the live rows only become
\* fewer, and a claim counts them after its recovery.
LEMMA WorkerLimitStep ==
    ASSUME ServiceInv, [ServiceNext]_vars, ~Synchronize
    PROVE  WorkerLimit'
<1>1. Inv /\ RowsWithin /\ WorkerLimit
  BY DEF ServiceInv
<1>2. /\ \A k \in Job : Settles(jobs[k], jobs'[k], policy)
      /\ \/ \A k \in Job : NoNewLease(jobs[k], jobs'[k])
         \/ \E j \in Job : SlotFree(Recovered(jobs)) /\
               \A k \in Job \ {j} : jobs'[k] = Recovered(jobs)[k]
      /\ order' = order /\ policy' = policy
  BY <1>1, RowsStep
<1>3. policy.maxWorkers \in Nat
  BY <1>1 DEF Inv, TypeOK, Policies
<1>. DEFINE old == ActiveLive(jobs)
            swept == ActiveLive(Recovered(jobs))
            new == ActiveLive(jobs)'
<1>4. new = {k \in Job : jobs'[k].active /\ BatchOf[k] \in ActiveBatches /\ Live(jobs'[k])}
  BY <1>2 DEF ActiveLive, ActiveBatches
<1>5. /\ IsFiniteSet(old) /\ IsFiniteSet(swept) /\ IsFiniteSet(new)
      /\ Cardinality(old) \in Nat /\ Cardinality(swept) \in Nat /\ Cardinality(new) \in Nat
  <2>1. old \in SUBSET Job /\ swept \in SUBSET Job /\ new \in SUBSET Job
    BY <1>4 DEF ActiveLive
  <2>. HIDE DEF old, swept, new
  <2>. QED  BY <2>1, JobAssumption, FS_Subset, FS_CardinalityType
<1>6. CASE \A k \in Job : NoNewLease(jobs[k], jobs'[k])
  <2>1. new \subseteq old
    BY <1>2, <1>4, <1>6 DEF ActiveLive, NoNewLease, Settles
  <2>. HIDE DEF old, new
  <2>2. Cardinality(new) <= Cardinality(old)
    BY <1>5, <2>1, FS_Subset
  <2>. QED  BY <1>1, <1>2, <1>3, <1>5, <2>2 DEF WorkerLimit, old, new
<1>7. ASSUME NEW j \in Job, SlotFree(Recovered(jobs)),
             \A k \in Job \ {j} : jobs'[k] = Recovered(jobs)[k]
      PROVE  WorkerLimit'
  <2>1. new \subseteq swept \cup {j}
    BY <1>4, <1>7 DEF ActiveLive
  <2>2. Cardinality(swept) < policy.maxWorkers
    BY <1>7 DEF SlotFree
  <2>. HIDE DEF swept, new
  <2>3. Cardinality(new) <= Cardinality(swept) + 1
    <3>1. /\ IsFiniteSet(swept \cup {j})
          /\ Cardinality(swept \cup {j}) \in {Cardinality(swept), Cardinality(swept) + 1}
      BY <1>5, FS_AddElement
    <3>2. Cardinality(new) <= Cardinality(swept \cup {j})
      BY <2>1, <3>1, FS_Subset
    <3>. QED  BY <1>5, <3>1, <3>2
  <2>. QED  BY <1>2, <1>3, <1>5, <2>2, <2>3 DEF WorkerLimit, new
<1>. QED  BY <1>2, <1>6, <1>7

\* The circuit breaker: what it counts grows only by a failure that asks it.
LEMMA CircuitStep ==
    ASSUME ServiceInv, [ServiceNext]_vars, ~Synchronize
    PROVE  CircuitHolds'
<1>1. Inv /\ RowsWithin /\ CircuitHolds
  BY DEF ServiceInv
<1>2. /\ \A k \in Job : Settles(jobs[k], jobs'[k], policy)
      /\ \/ \A k \in Job : NoNewFailure(jobs[k], jobs'[k])
         \/ \E j \in Job : \E class : \A k \in Job, c \in FailureClass :
               FailedAs(jobs'[k], c) /\ ~FailedAs(jobs[k], c)
                   => /\ k = j /\ c = class
                      /\ CircuitOpens(jobs', BatchOf[j], class) => paused'
      /\ order' = order /\ policy' = policy /\ (paused => paused')
  BY <1>1, RowsStep
<1>3. policy.threshold \in Nat
  BY <1>1 DEF Inv, TypeOK, Policies
<1>. SUFFICES ASSUME NEW b \in ActiveBatches, NEW class \in FailureClass,
                     CircuitOpens(jobs, b, class)'
              PROVE  paused'
  BY <1>2 DEF CircuitHolds, ActiveBatches
<1>4. /\ policy.threshold > 0
      /\ class \in AuthorityClass
      /\ Cardinality(Counted(jobs', b, class)) >= policy.threshold
  BY <1>2 DEF CircuitOpens, Counted, ActiveBatches
<1>5. CASE \E k \in Job : /\ BatchOf[k] = b
                          /\ FailedAs(jobs'[k], class) /\ ~FailedAs(jobs[k], class)
  <2>1. CircuitOpens(jobs', b, class)
    BY <1>4 DEF CircuitOpens, Counted
  <2>. QED  BY <1>2, <1>5, <2>1 DEF NoNewFailure
<1>6. CASE \A k \in Job : BatchOf[k] = b /\ FailedAs(jobs'[k], class) => FailedAs(jobs[k], class)
  <2>1. Counted(jobs', b, class) \in SUBSET Counted(jobs, b, class)
    BY <1>2, <1>6 DEF Counted, FailedAs, Settles
  <2>2. Counted(jobs, b, class) \in SUBSET Job
    BY DEF Counted
  <2>3. /\ IsFiniteSet(Counted(jobs, b, class))
        /\ Cardinality(Counted(jobs', b, class)) <= Cardinality(Counted(jobs, b, class))
        /\ Cardinality(Counted(jobs, b, class)) \in Nat
        /\ Cardinality(Counted(jobs', b, class)) \in Nat
    BY <2>1, <2>2, JobAssumption, FS_Subset, FS_CardinalityType
  <2>4. Cardinality(Counted(jobs, b, class)) >= policy.threshold
    BY <1>3, <1>4, <2>3
  <2>5. CircuitOpens(jobs, b, class)
    BY <1>4, <2>4 DEF CircuitOpens, Counted
  <2>. QED  BY <1>1, <1>2, <2>5 DEF CircuitHolds
<1>. QED  BY <1>5, <1>6

\* What is left of a block only shrinks.
LEMMA RemainingShrinks ==
    ASSUME ServiceInv, [ServiceNext]_vars, ~Synchronize, NEW d
    PROVE  Remaining(d)' \subseteq Remaining(d)
<1>1. \A k \in Job : Settles(jobs[k], jobs'[k], policy)
  BY RowsStep DEF ServiceInv
<1>. QED  BY <1>1 DEF Remaining, Settles, Unsettled

\* Only a block step moves the admissions.
LEMMA AdmissionsRest ==
    ASSUME [ServiceNext]_vars, ~Synchronize, ~BlockStep
    PROVE  UNCHANGED admissions
<1>1. ASSUME NEW j \in Job, NEW g, LeaseStep(j, g)
      PROVE  UNCHANGED admissions
  BY <1>1 DEF LeaseStep, Renew, RecordStarted, RecordSkipped, RecordEnded, Complete,
              Fail, FencedWrite, state
<1>2. CASE Tick \/ ClaimStep \/ UNCHANGED vars
  BY <1>2 DEF Tick, ClaimStep, RecoverExpired, Claim, vars, admissions
<1>. QED  BY <1>1, <1>2 DEF ServiceNext, WorkerStep

\* Blocks are admitted in the order of the queue.
LEMMA BlockOrder ==
    ASSUME ServiceInv, BlockStep
    PROVE  BlocksInOrder'
<1>1. TypeOK /\ BlocksInOrder
  BY DEF ServiceInv, Inv
<1>2. \A d \in ActiveBatches : PositionOf(d) \in 1..Len(order) /\ order[PositionOf(d)] = d
  BY <1>1, PositionLemma
<1>3. Len(order) \in Nat
  BY <1>1 DEF TypeOK
<1>4. ASSUME NEW b \in Batch, NEW id \in Admission, NEW scheduled, NEW reentry,
             StartNextBlock(b, id, scheduled, reentry)
      PROVE  BlocksInOrder'
  <2>1. /\ primary' = b /\ lookahead' = NoBatch /\ order' = order /\ jobs' = jobs
        /\ IsNextBlock(b, 0)
    BY <1>4 DEF StartNextBlock, state
  <2>2. ASSUME NEW d \in ActiveBatches, PositionOf(d) < PositionOf(b)
        PROVE  Remaining(d) = {}
    BY <1>2, <1>3, <2>1, <2>2 DEF IsNextBlock
  <2>. QED  BY <2>1, <2>2 DEF BlocksInOrder, ActiveBatches, PositionOf, Remaining
<1>5. ASSUME NEW b \in Batch, AdmitLookaheadBlock(b)
      PROVE  BlocksInOrder'
  <2>1. /\ primary' = primary /\ lookahead' = b /\ order' = order /\ jobs' = jobs
        /\ primary # NoBatch /\ primary \in ActiveBatches
        /\ IsNextBlock(b, PositionOf(primary))
    BY <1>5 DEF AdmitLookaheadBlock, state
  <2>2. ASSUME NEW d \in ActiveBatches \ {primary}, PositionOf(d) < PositionOf(b)
        PROVE  Remaining(d) = {}
    <3>1. PositionOf(d) # PositionOf(primary)
      BY <1>2, <2>1
    <3>2. CASE PositionOf(d) > PositionOf(primary)
      BY <1>2, <1>3, <2>1, <2>2, <3>2 DEF IsNextBlock
    <3>3. CASE PositionOf(d) < PositionOf(primary)
      BY <1>1, <2>1, <3>3 DEF BlocksInOrder
    <3>. QED  BY <1>2, <1>3, <2>1, <3>1, <3>2, <3>3
  <2>3. PositionOf(primary) < PositionOf(b)
    BY <1>2, <1>3, <2>1 DEF IsNextBlock
  <2>. QED  BY <1>1, <2>1, <2>2, <2>3
            DEF BlocksInOrder, ActiveBatches, PositionOf, Remaining
<1>6. CASE FinishActiveBlockIfDrained
  <2>1. /\ primary' = lookahead /\ lookahead' = NoBatch /\ order' = order /\ jobs' = jobs
        /\ primary \in ActiveBatches => Remaining(primary) = {}
    BY <1>6 DEF FinishActiveBlockIfDrained, state
  <2>2. ASSUME lookahead # NoBatch, NEW d \in ActiveBatches,
               PositionOf(d) < PositionOf(lookahead)
        PROVE  Remaining(d) = {}
    BY <1>1, <2>1, <2>2 DEF BlocksInOrder
  <2>. QED  BY <2>1, <2>2 DEF BlocksInOrder, ActiveBatches, PositionOf, Remaining
<1>. QED  BY <1>4, <1>5, <1>6 DEF BlockStep

LEMMA OrderStep ==
    ASSUME ServiceInv, [ServiceNext]_vars, ~Synchronize
    PROVE  BlocksInOrder'
<1>1. CASE BlockStep
  BY <1>1, BlockOrder
<1>2. CASE ~BlockStep
  <2>1. /\ UNCHANGED admissions
        /\ order' = order
        /\ \A d : Remaining(d)' \subseteq Remaining(d)
    BY <1>2, AdmissionsRest, RemainingShrinks, RowsStep DEF ServiceInv
  <2>2. BlocksInOrder
    BY DEF ServiceInv
  <2>3. ActiveBatches' = ActiveBatches /\ \A d : PositionOf(d)' = PositionOf(d)
    BY <2>1 DEF ActiveBatches, PositionOf
  <2>4. primary' = primary /\ lookahead' = lookahead
    BY <2>1 DEF admissions
  <2>5. PositionOf(primary)' = PositionOf(primary) /\ PositionOf(lookahead)' = PositionOf(lookahead)
    BY <2>1, <2>4 DEF PositionOf
  <2>6. ASSUME NEW d \in ActiveBatches, Remaining(d) = {} PROVE Remaining(d)' = {}
    BY <2>1, <2>6
  <2>. QED  BY <2>2, <2>3, <2>4, <2>5, <2>6 DEF BlocksInOrder
<1>. QED  BY <1>1, <1>2

-----------------------------------------------------------------------------
(* The theorems.                                                           *)

LEMMA ServiceIsNext == ServiceNext => Next
BY DEF ServiceNext, Synchronize, WorkerStep, Next, OperatorStep

LEMMA InitService == Init => ServiceInv
<1>. SUFFICES ASSUME Init PROVE ServiceInv
  OBVIOUS
<1>1. Inv
  BY InitInv
<1>2. \A j \in Job : jobs[j].state = "absent" /\ ~jobs[j].active /\ jobs[j].attemptCount = 0
  BY DEF Init, AbsentRow, NewRow
<1>3. RowsWithin /\ NothingYet /\ BlocksInOrder /\ CircuitHolds
  BY <1>2 DEF Init, RowsWithin, WithinAttempts, NothingYet, BlocksInOrder, CircuitHolds,
              CircuitOpens, Live, LiveStates
<1>4. WorkerLimit
  <2>1. ActiveLive(jobs) = {}
    BY <1>2 DEF ActiveLive, Live, LiveStates
  <2>. QED  BY <2>1, FS_EmptySet DEF WorkerLimit, Init
<1>. QED  BY <1>1, <1>3, <1>4 DEF ServiceInv

LEMMA ServiceStep == ServiceInv /\ [ServiceNext]_vars => ServiceInv'
<1>. SUFFICES ASSUME ServiceInv, [ServiceNext]_vars PROVE ServiceInv'
  OBVIOUS
<1>1. Inv'
  BY ServiceIsNext, InvStep DEF ServiceInv
<1>2. CASE Synchronize
  BY <1>1, <1>2, SyncStep DEF Synchronize, ServiceInv
<1>3. CASE ~Synchronize
  <2>1. /\ \A k \in Job : Settles(jobs[k], jobs'[k], policy)
        /\ order' = order /\ policy' = policy
    BY <1>3, RowsStep DEF ServiceInv
  <2>2. RowsWithin'
    BY <2>1 DEF RowsWithin, Settles
  <2>3. NothingYet'
    <3>. SUFFICES ASSUME order = <<>>
                  PROVE  /\ primary' = NoBatch /\ lookahead' = NoBatch
                         /\ \A j \in Job : jobs'[j].state = "absent" /\ ~jobs'[j].active
      BY <2>1 DEF NothingYet
    <3>1. /\ primary = NoBatch /\ lookahead = NoBatch
          /\ \A j \in Job : jobs'[j].state = "absent" /\ ~jobs'[j].active
      BY <2>1 DEF ServiceInv, NothingYet, Settles
    <3>2. ~BlockStep
      BY <3>1 DEF BlockStep, StartNextBlock, AdmitLookaheadBlock,
                  FinishActiveBlockIfDrained, IsNextBlock, ActiveBatches, Range
    <3>. QED  BY <1>3, <3>1, <3>2, AdmissionsRest DEF admissions
  <2>. QED  BY <1>1, <1>3, <2>2, <2>3, WorkerLimitStep, CircuitStep, OrderStep DEF ServiceInv
<1>. QED  BY <1>2, <1>3

LEMMA ServiceInvHolds == ServiceSpec => []ServiceInv
BY InitService, ServiceStep, PTL DEF ServiceSpec

\* However claims, reports, expiries and recoveries of any number of workers
\* interleave, no more leases are out than the queue has workers, no job is
\* attempted more often than max_attempts, and terminal failures of a class
\* that reach the threshold find the queue paused (claim, fail,
\* _recover_expired_locked).
THEOREM ServiceLimitsSafe == ServiceSpec => []ServiceLimits
<1>1. ServiceInv => ServiceLimits
  BY DEF ServiceInv, ServiceLimits, RetryCap, RowsWithin, WithinAttempts
<1>. QED  BY <1>1, ServiceInvHolds, PTL

\* No block is skipped, and none is admitted before the one ahead of it has
\* drained, whatever the queue (start_next_block, admit_lookahead_block,
\* finish_active_block_if_drained).
THEOREM BlocksInOrderSafe == ServiceSpec => []BlocksInOrder
<1>1. ServiceInv => BlocksInOrder
  BY DEF ServiceInv
<1>. QED  BY <1>1, ServiceInvHolds, PTL

\* An unattended queue opens nothing again: a job that completed, failed or
\* was blocked is neither queued nor leased afterwards (no operator requeues).
THEOREM SettledStaysSafe == ServiceSpec => SettledStays
<1>1. ServiceInv /\ [ServiceNext]_vars =>
        [order # <<>> => \A j \in Job : Unsettled(jobs'[j]) => Unsettled(jobs[j])]_vars
  <2>. SUFFICES ASSUME ServiceInv, [ServiceNext]_vars, order # <<>>, NEW j \in Job,
                       Unsettled(jobs'[j])
                PROVE  Unsettled(jobs[j])
    OBVIOUS
  <2>. QED  BY RowsStep DEF ServiceInv, Settles, Synchronize
<1>. QED  BY <1>1, ServiceInvHolds, PTL DEF ServiceSpec, SettledStays

-----------------------------------------------------------------------------
(* The coordinator implements JobLease for every instance: the moves of    *)
(* the rows, then one transition of JobLease for each.                     *)

Same(r, s) == StatusOf(s) = StatusOf(r) /\ s.generation = r.generation

Lapse(r, s) == Live(r) /\ s.state \in {"queued", "failed"} /\ s.generation = r.generation

Regrant(r, s) ==
    /\ StatusOf(r) \in {"idle", "held"}
    /\ StatusOf(s) = "held" /\ s.generation = r.generation + 1

Accept(r, s) == Live(r) /\ s.state = "complete" /\ s.generation = r.generation

Reassign(r, s) ==
    /\ s.generation = r.generation
    /\ \/ StatusOf(r) = "idle" /\ StatusOf(s) = "dead"
       \/ StatusOf(r) = "dead" /\ StatusOf(s) = "idle"

\* The moves of the rows in one step of the coordinator.
LeaseMove ==
    \/ \A j \in Job : Same(jobs[j], jobs'[j])
    \/ \E j \in Job :
          /\ \/ Regrant(jobs[j], jobs'[j])
             \/ Accept(jobs[j], jobs'[j])
             \/ Lapse(jobs[j], jobs'[j])
             \/ Same(jobs[j], jobs'[j])
          /\ \A k \in Job \ {j} : Lapse(jobs[k], jobs'[k]) \/ Same(jobs[k], jobs'[k])
    \/ /\ \A j \in Job : ~Live(jobs[j])
       /\ \A j \in Job : Reassign(jobs[j], jobs'[j]) \/ Same(jobs[j], jobs'[j])

-----------------------------------------------------------------------------
(* Rows.                                                                   *)

\* The ledger of a sound row holds one result when it is complete, else none.
LEMMA ResultsLemma ==
    ASSUME NEW r, Sound(r)
    PROVE  ResultsOf(r) = IF StatusOf(r) = "done" THEN {r.generation} ELSE {}
<1>1. /\ Len(r.attempts) = r.generation /\ r.generation \in Nat
      /\ r.state = "complete" => r.generation > 0
      /\ \A g \in 1..r.generation :
            r.attempts[g].state = "complete" <=> g = r.generation /\ r.state = "complete"
  BY DEF Sound, RowInv, LeaseMatchesAttempt, OneSuccess, JobRows
<1>2. StatusOf(r) = "done" <=> r.state = "complete"
  BY DEF StatusOf, Live, LiveStates
<1>. QED  BY <1>1, <1>2 DEF ResultsOf

LEMMA StatusLemma ==
    ASSUME NEW r
    PROVE  /\ Live(r) <=> StatusOf(r) = "held"
           /\ r.state = "complete" => StatusOf(r) = "done"
           /\ r.state = "failed" => StatusOf(r) = "dead"
           /\ r.state \in {"queued", "absent", "blocked"} => StatusOf(r) = "idle"
           /\ StatusOf(r) \in {"idle", "held", "done", "dead"}
BY DEF StatusOf, Live, LiveStates

\* What each transition of a row is to its lease.
LEMMA RowMoves ==
    ASSUME NEW r \in JobRows
    PROVE  /\ Live(r) => \A p : Lapse(r, Expire(r, p))
           /\ \A p : Same(r, Extend(r, p))
           /\ \A p : /\ Grant(r, p).state = "leased"
                     /\ Grant(r, p).generation = r.generation + 1
           /\ Live(r) => \A g, spans, stage : Same(r, WithSpans(r, g, spans, stage))
           /\ Live(r) => \A g : Accept(r, Finish(r, g))
           /\ Live(r) => \A g, p, retry, class : Lapse(r, Abandon(r, g, p, retry, class))
           /\ Live(r) => Lapse(r, Interrupt(r))
           /\ Same(r, Age(r))
           /\ \A b : Same(r, [r EXCEPT !.active = b])
<1>. USE DEF JobRows
<1>1. Live(r) => \A p : Lapse(r, Expire(r, p))
  BY DEF Lapse, Expire
<1>2. \A p : /\ Grant(r, p).state = "leased"
             /\ Grant(r, p).generation = r.generation + 1
  BY DEF Grant
<1>3. \A p : Extend(r, p).state = r.state /\ Extend(r, p).generation = r.generation
  BY DEF Extend
<1>4. \A g, spans, stage : /\ WithSpans(r, g, spans, stage).state = "running"
                           /\ WithSpans(r, g, spans, stage).generation = r.generation
  BY DEF WithSpans
<1>5. Live(r) => \A g : Accept(r, Finish(r, g))
  BY DEF Accept, Finish
<1>6. Live(r) => \A g, p, retry, class : Lapse(r, Abandon(r, g, p, retry, class))
  BY DEF Lapse, Abandon
<1>7. Live(r) => Lapse(r, Interrupt(r))
  BY DEF Lapse, Interrupt
<1>8. Age(r).state = r.state /\ Age(r).generation = r.generation
  BY DEF Age
<1>9. \A b : /\ [r EXCEPT !.active = b].state = r.state
             /\ [r EXCEPT !.active = b].generation = r.generation
  OBVIOUS
<1>10. \A s : s.state = r.state /\ s.generation = r.generation => Same(r, s)
  BY DEF Same, StatusOf, Live
<1>11. Live(r) => \A s : s.state = "running" /\ s.generation = r.generation => Same(r, s)
  BY DEF Same, StatusOf, Live, LiveStates
<1>. QED  BY <1>1, <1>2, <1>3, <1>4, <1>5, <1>6, <1>7, <1>8, <1>9, <1>10, <1>11

\* Isolate moves queued work, and Reopen failed work, between idle and dead.
LEMMA OperatorMoves ==
    ASSUME NEW r \in JobRows, NEW s \in {Isolate(r), Reopen(r)}
    PROVE  Reassign(r, s) \/ Same(r, s)
<1>1. CASE s = Isolate(r) /\ r.state = "queued"
  <2>1. s.state = "failed" /\ s.generation = r.generation
    BY <1>1 DEF Isolate, JobRows
  <2>. QED  BY <1>1, <2>1, StatusLemma DEF Reassign
<1>2. CASE s = Reopen(r) /\ r.state = "failed"
  <2>1. s.state = "queued" /\ s.generation = r.generation
    BY <1>2 DEF Reopen, JobRows
  <2>. QED  BY <1>2, <2>1, StatusLemma DEF Reassign
<1>3. CASE s = r
  BY <1>3 DEF Same
<1>. QED  BY <1>1, <1>2, <1>3 DEF Isolate, Reopen

LEMMA RecoveredMoves ==
    ASSUME Inv
    PROVE  \A j \in Job : /\ Recovered(jobs)[j] \in JobRows
                          /\ \/ Lapse(jobs[j], Recovered(jobs)[j])
                             \/ Recovered(jobs)[j] = jobs[j]
<1>. TAKE j \in Job
<1>1. Recovered(jobs)[j] \in JobRows /\ jobs[j] \in JobRows
  BY RecoveredLemma DEF Sound, Inv, TypeOK
<1>. QED  BY <1>1, RowMoves DEF Recovered, Expired

\* A fenced write moves one row; leases that ran out lapse with it.
LEMMA FencedMove ==
    ASSUME Inv, NEW j \in Job, NEW row,
           jobs' = [Recovered(jobs) EXCEPT ![j] = row],
           \/ Regrant(jobs[j], row)
           \/ Accept(jobs[j], row)
           \/ Lapse(jobs[j], row)
           \/ Same(jobs[j], row)
    PROVE  LeaseMove
<1>1. Recovered(jobs) \in [Job -> JobRows]
  BY RecoveredLemma
<1>2. jobs'[j] = row /\ \A k \in Job \ {j} : jobs'[k] = Recovered(jobs)[k]
  <2>. HIDE DEF Recovered
  <2>. QED  BY <1>1
<1>3. ASSUME NEW k \in Job \ {j}
      PROVE  Lapse(jobs[k], jobs'[k]) \/ Same(jobs[k], jobs'[k])
  BY <1>2, RecoveredMoves DEF Same
<1>. QED  BY <1>2, <1>3 DEF LeaseMove

\* A step that leaves every row as it is, or lets some leases lapse.
LEMMA LapsesMove ==
    ASSUME \A j \in Job : Lapse(jobs[j], jobs'[j]) \/ Same(jobs[j], jobs'[j])
    PROVE  LeaseMove
BY DEF LeaseMove

-----------------------------------------------------------------------------
(* Steps.                                                                  *)

LEMMA LeaseStepMove ==
    ASSUME Inv, NEW j \in Job, NEW g, LeaseStep(j, g)
    PROVE  LeaseMove
<1>1. jobs[j] \in JobRows
  BY DEF Inv, TypeOK
<1>2. CASE Renew(j, g)
  <2>1. Same(jobs[j], Extend(jobs[j], policy))
    BY <1>1, RowMoves
  <2>. QED  BY <1>2, <2>1, FencedMove DEF Renew, FencedWrite
<1>3. ASSUME NEW spans, NEW stage, Live(jobs[j]),
             jobs' = [Recovered(jobs) EXCEPT ![j] = WithSpans(jobs[j], g, spans, stage)]
      PROVE  LeaseMove
  <2>1. Same(jobs[j], WithSpans(jobs[j], g, spans, stage))
    BY <1>1, <1>3, RowMoves
  <2>. QED  BY <1>3, <2>1, FencedMove
<1>4. ASSUME NEW stage \in Stage,
             \/ RecordStarted(j, g, stage)
             \/ RecordSkipped(j, g, stage)
             \/ \E status \in {"completed", "failed"} : RecordEnded(j, g, stage, status)
      PROVE  LeaseMove
  BY <1>3, <1>4 DEF RecordStarted, RecordSkipped, RecordEnded, FencedWrite, HoldsLease,
                    StartSpan, SkipSpan, EndSpan
<1>5. CASE Complete(j, g)
  <2>1. Accept(jobs[j], Finish(jobs[j], g))
    BY <1>1, <1>5, RowMoves DEF Complete, HoldsLease
  <2>. QED  BY <1>5, <2>1, FencedMove DEF Complete, FencedWrite
<1>6. ASSUME NEW retryable, NEW pathological, NEW class,
             Fail(j, g, retryable, pathological, class)
      PROVE  LeaseMove
  <2>. DEFINE retry == ~pathological /\ retryable /\ Retries(jobs[j], policy)
  <2>1. /\ jobs' = [Recovered(jobs) EXCEPT ![j] = Abandon(jobs[j], g, policy, retry, class)]
        /\ Live(jobs[j])
    BY <1>6 DEF Fail, HoldsLease
  <2>. HIDE DEF retry
  <2>2. Lapse(jobs[j], Abandon(jobs[j], g, policy, retry, class))
    BY <1>1, <2>1, RowMoves
  <2>. QED  BY <2>1, <2>2, FencedMove
<1>. QED  BY <1>2, <1>4, <1>5, <1>6 DEF LeaseStep

LEMMA ClaimMove ==
    ASSUME Inv, NEW j \in Job, NEW batches, NEW pool, Claim(j, batches, pool)
    PROVE  LeaseMove
<1>. DEFINE row == Recovered(jobs)[j]
<1>1. /\ row.state = "queued"
      /\ jobs' = [Recovered(jobs) EXCEPT ![j] = Grant(row, policy)]
  BY DEF Claim, Claimable
<1>2. row \in JobRows /\ (Lapse(jobs[j], row) \/ row = jobs[j])
  BY RecoveredMoves
<1>3. /\ Grant(row, policy).state = "leased"
      /\ Grant(row, policy).generation = row.generation + 1
  <2>. HIDE DEF row
  <2>. QED  BY <1>2, RowMoves
<1>4. Regrant(jobs[j], Grant(row, policy))
  <2>. HIDE DEF row
  <2>. QED  BY <1>1, <1>2, <1>3, StatusLemma DEF Regrant, Lapse, Live, LiveStates
<1>. QED  BY <1>1, <1>4, FencedMove

LEMMA OperatorStepMove ==
    ASSUME Inv, OperatorStep
    PROVE  LeaseMove
<1>0. \A j \in Job : jobs[j] \in JobRows
  BY DEF Inv, TypeOK
<1>1. ASSUME NEW c \in Configs, SyncQueue(c)
      PROVE  LeaseMove
  <2>1. ASSUME NEW j \in Job
        PROVE  Same(jobs[j], jobs'[j])
    <3>1. CASE j \in Selected(c) /\ jobs[j].state = "absent"
      <4>1. jobs'[j] = NewRow(j \in Planned)
        BY <1>1, <3>1 DEF SyncQueue
      <4>2. jobs'[j].state \in {"queued", "blocked"} /\ jobs'[j].generation = 0
        BY <4>1 DEF NewRow
      <4>3. jobs[j].generation = 0
        BY <3>1, InvSound DEF Sound, RowInv, NeverAttempted
      <4>. QED  BY <3>1, <4>2, <4>3, StatusLemma DEF Same
    <3>2. CASE ~(j \in Selected(c) /\ jobs[j].state = "absent")
      <4>1. jobs'[j] = [jobs[j] EXCEPT !.active = j \in Selected(c)]
        BY <1>1, <3>2 DEF SyncQueue
      <4>2. jobs'[j].state = jobs[j].state /\ jobs'[j].generation = jobs[j].generation
        BY <1>0, <4>1 DEF JobRows
      <4>. QED  BY <4>2 DEF Same, StatusOf, Live
    <3>. QED  BY <3>1, <3>2
  <2>. QED  BY <2>1 DEF LeaseMove
<1>2. CASE \/ \E c \in Configs : ReconfigureRuntime(c) \/ DisarmForRecovery(c)
           \/ Pause
           \/ Resume
  BY <1>2 DEF ReconfigureRuntime, DisarmForRecovery, Pause, Resume, LeaseMove, Same
<1>3. ASSUME NEW b \in Batch, NEW set \in SUBSET Job,
             \/ QuarantinePathologicalJobs(b, set)
             \/ ReleasePathologicalQuarantine(b)
             \/ RequeueFailedBatch(b)
      PROVE  LeaseMove
  <2>1. \A j \in Job : ~Live(jobs[j])
    BY <1>3 DEF QuarantinePathologicalJobs, ReleasePathologicalQuarantine,
                RequeueFailedBatch, AnyLive
  <2>2. ASSUME NEW j \in Job
        PROVE  jobs'[j] \in {jobs[j], Isolate(jobs[j]), Reopen(jobs[j])}
    BY <1>3, <2>2 DEF QuarantinePathologicalJobs, ReleasePathologicalQuarantine,
                      RequeueFailedBatch
  <2>3. ASSUME NEW j \in Job
        PROVE  Reassign(jobs[j], jobs'[j]) \/ Same(jobs[j], jobs'[j])
    BY <1>0, <2>2, OperatorMoves DEF Same
  <2>. QED  BY <2>1, <2>3 DEF LeaseMove
<1>4. ASSUME NEW b \in Batch, RequeueInterruptedBatch(b)
      PROVE  LeaseMove
  <2>1. jobs' = [j \in Job |-> IF Live(jobs[j]) THEN Interrupt(jobs[j]) ELSE jobs[j]]
    BY <1>4 DEF RequeueInterruptedBatch
  <2>2. ASSUME NEW j \in Job
        PROVE  Lapse(jobs[j], jobs'[j]) \/ Same(jobs[j], jobs'[j])
    BY <1>0, <2>1, RowMoves DEF Same
  <2>. QED  BY <2>2, LapsesMove
<1>. QED  BY <1>1, <1>2, <1>3, <1>4 DEF OperatorStep

LEMMA NextMove ==
    ASSUME Inv, [Next]_vars
    PROVE  LeaseMove
<1>0. \A j \in Job : jobs[j] \in JobRows
  BY DEF Inv, TypeOK
<1>1. CASE Tick
  <2>1. \A j \in Job : Same(jobs[j], jobs'[j])
    BY <1>0, <1>1, RowMoves DEF Tick
  <2>. QED  BY <2>1 DEF LeaseMove
<1>2. CASE RecoverExpired
  <2>1. \A j \in Job : Lapse(jobs[j], jobs'[j]) \/ Same(jobs[j], jobs'[j])
    BY <1>2, RecoveredMoves DEF RecoverExpired, Same
  <2>. QED  BY <2>1, LapsesMove
<1>3. CASE BlockStep \/ UNCHANGED vars
  BY <1>3 DEF BlockStep, StartNextBlock, AdmitLookaheadBlock,
              FinishActiveBlockIfDrained, vars, LeaseMove, Same
<1>4. CASE OperatorStep
  BY <1>4, OperatorStepMove
<1>5. ASSUME NEW batches \in SUBSET Batch, NEW pool \in Pools, NEW j \in Job,
             Claim(j, batches, pool)
      PROVE  LeaseMove
  BY <1>5, ClaimMove
<1>6. ASSUME NEW j \in Job, NEW g \in 1..jobs[j].generation, LeaseStep(j, g)
      PROVE  LeaseMove
  BY <1>6, LeaseStepMove
<1>. QED  BY <1>1, <1>2, <1>3, <1>4, <1>5, <1>6 DEF Next, ClaimStep

-----------------------------------------------------------------------------
(* The refinement.                                                         *)

\* A move of one row is the move of the same name of JobLease.
LEMMA MoveRefines ==
    ASSUME Inv, Inv', NEW j \in Job
    PROVE  /\ Same(jobs[j], jobs'[j]) => Lease!Rests(j)
           /\ Lapse(jobs[j], jobs'[j]) => Lease!Lapses(j)
           /\ Regrant(jobs[j], jobs'[j]) => Lease!Granted(j)
           /\ Accept(jobs[j], jobs'[j]) => Lease!Accepted(j)
           /\ Reassign(jobs[j], jobs'[j]) => Lease!Reassigned(j)
<1>1. /\ ResultsOf(jobs[j]) = IF StatusOf(jobs[j]) = "done" THEN {jobs[j].generation} ELSE {}
      /\ ResultsOf(jobs'[j]) = IF StatusOf(jobs'[j]) = "done" THEN {jobs'[j].generation} ELSE {}
  BY ResultsLemma DEF Inv, TypeOK, LedgerConsistent, Sound
<1>2. Lease!Rests(j) <=>
         /\ StatusOf(jobs'[j]) = StatusOf(jobs[j])
         /\ jobs'[j].generation = jobs[j].generation
         /\ ResultsOf(jobs'[j]) = ResultsOf(jobs[j])
  BY DEF Lease!Rests, Lease!Becomes
<1>3. Lease!Lapses(j) <=>
         /\ StatusOf(jobs[j]) = "held"
         /\ StatusOf(jobs'[j]) \in {"idle", "dead"}
         /\ jobs'[j].generation = jobs[j].generation
         /\ ResultsOf(jobs'[j]) = ResultsOf(jobs[j])
  BY DEF Lease!Lapses, Lease!Becomes
<1>4. Lease!Granted(j) <=>
         /\ StatusOf(jobs[j]) \in {"idle", "held"}
         /\ StatusOf(jobs'[j]) = "held"
         /\ jobs'[j].generation = jobs[j].generation + 1
         /\ ResultsOf(jobs'[j]) = ResultsOf(jobs[j])
  BY DEF Lease!Granted, Lease!Becomes
<1>5. Lease!Accepted(j) <=>
         /\ StatusOf(jobs[j]) = "held"
         /\ StatusOf(jobs'[j]) = "done"
         /\ jobs'[j].generation = jobs[j].generation
         /\ ResultsOf(jobs'[j]) = ResultsOf(jobs[j]) \cup {jobs[j].generation}
  BY DEF Lease!Accepted, Lease!Becomes
<1>6. Lease!Reassigned(j) <=>
         /\ \/ StatusOf(jobs[j]) = "idle" /\ StatusOf(jobs'[j]) = "dead"
            \/ StatusOf(jobs[j]) = "dead" /\ StatusOf(jobs'[j]) = "idle"
         /\ jobs'[j].generation = jobs[j].generation
         /\ ResultsOf(jobs'[j]) = ResultsOf(jobs[j])
  BY DEF Lease!Reassigned, Lease!Becomes
<1>7. Same(jobs[j], jobs'[j]) => Lease!Rests(j)
  BY <1>1, <1>2 DEF Same
<1>8. Lapse(jobs[j], jobs'[j]) => Lease!Lapses(j)
  BY <1>1, <1>3, StatusLemma DEF Lapse
<1>9. Regrant(jobs[j], jobs'[j]) => Lease!Granted(j)
  BY <1>1, <1>4 DEF Regrant
<1>10. Accept(jobs[j], jobs'[j]) => Lease!Accepted(j)
  BY <1>1, <1>5, StatusLemma DEF Accept
<1>11. Reassign(jobs[j], jobs'[j]) => Lease!Reassigned(j)
  BY <1>1, <1>6 DEF Reassign
<1>. QED  BY <1>7, <1>8, <1>9, <1>10, <1>11

LEMMA StepRefines ==
    ASSUME Inv, Inv', LeaseMove
    PROVE  [Lease!LeaseNext]_(Lease!leaseVars)
<1>1. CASE \A j \in Job : Same(jobs[j], jobs'[j])
  BY <1>1, MoveRefines DEF Lease!Rests, Lease!Becomes, Lease!leaseVars
<1>2. ASSUME NEW j \in Job,
             \/ Regrant(jobs[j], jobs'[j])
             \/ Accept(jobs[j], jobs'[j])
             \/ Lapse(jobs[j], jobs'[j])
             \/ Same(jobs[j], jobs'[j]),
             \A k \in Job \ {j} : Lapse(jobs[k], jobs'[k]) \/ Same(jobs[k], jobs'[k])
      PROVE  Lease!LeaseNext
  <2>1. Lease!WorkerCall
    BY <1>2, MoveRefines DEF Lease!WorkerCall
  <2>. QED  BY <2>1 DEF Lease!LeaseNext
<1>3. ASSUME \A j \in Job : ~Live(jobs[j]),
             \A j \in Job : Reassign(jobs[j], jobs'[j]) \/ Same(jobs[j], jobs'[j])
      PROVE  Lease!LeaseNext
  <2>1. Lease!OperatorCall
    BY <1>3, MoveRefines, StatusLemma DEF Lease!OperatorCall
  <2>. QED  BY <2>1 DEF Lease!LeaseNext
<1>. QED  BY <1>1, <1>2, <1>3 DEF LeaseMove

LEMMA InitRefines == Init => Lease!LeaseInit
<1>. SUFFICES ASSUME Init PROVE Lease!LeaseInit
  OBVIOUS
<1>1. ASSUME NEW j \in Job
      PROVE  /\ StatusOf(jobs[j]) = "idle" /\ jobs[j].generation = 0
             /\ ResultsOf(jobs[j]) = {}
  <2>1. /\ jobs[j].state = "absent" /\ jobs[j].generation = 0 /\ jobs[j].attempts = <<>>
    BY DEF Init, AbsentRow, NewRow
  <2>. QED  BY <2>1, StatusLemma DEF ResultsOf
<1>. QED  BY <1>1 DEF Lease!LeaseInit

\* The coordinator implements the abstract lease service: growing tokens,
\* one grant at a time, one result, and no reassignment under a lease.
THEOREM Refinement == Spec => ImplementsJobLease
<1>1. Inv /\ Inv' /\ [Next]_vars => [Lease!LeaseNext]_(Lease!leaseVars)
  BY NextMove, StepRefines
<1>. QED  BY <1>1, InitRefines, InvHolds, PTL
          DEF Spec, ImplementsJobLease, Lease!LeaseSpec
=============================================================================
