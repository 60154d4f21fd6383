------------------------------- MODULE JobRow -------------------------------
(***************************************************************************)
(* One row of the coordinator's `jobs` table together with the rows of     *)
(* `attempts` and `stage_attempts` that belong to it, and what each        *)
(* statement of coordinator.py does to that row.  The operators are pure:  *)
(* Coordinator.tla applies them inside its transactions.                   *)
(*                                                                         *)
(* Time is relative.  r.ttl is lease_expires_at - now and r.wait is        *)
(* eligible_at - now, both cut off at 0, which is all the code compares:   *)
(* a lease is expired when lease_expires_at <= now, a queued job may be    *)
(* claimed when eligible_at <= now.  A lease token is fresh at every claim *)
(* and is checked together with lease_generation, so the generation        *)
(* stands for both.                                                        *)
(***************************************************************************)
EXTENDS Naturals, Sequences

CONSTANTS
    Stage,          \* stage names a worker may report
    NoStage,        \* current_stage IS NULL
    FailureClass,   \* classified failures
    NoClass         \* failure_class IS NULL

OperatorQuarantine == "pathological:operator-quarantine"

ASSUME NullAssumption ==
    /\ NoStage \notin Stage
    /\ NoClass \notin FailureClass \cup {OperatorQuarantine}

LiveStates == {"leased", "running"}
JobStates == {"absent", "queued", "blocked", "complete", "failed"} \cup LiveStates
AttemptStates == {"complete", "failed", "expired"} \cup LiveStates
SpanStates == {"started", "completed", "failed", "skipped", "interrupted"}

Span == [stage : Stage, state : SpanStates]
Attempt == [state : AttemptStates, spans : Seq(Span)]

JobRows ==
    [state : JobStates, active : BOOLEAN, attemptCount : Nat, generation : Nat,
     wait : Nat, ttl : Nat, stage : Stage \cup {NoStage},
     failureClass : FailureClass \cup {NoClass, OperatorQuarantine},
     attempts : Seq(Attempt)]

\* The runtime policy a queue TOML configures.
Policies ==
    [maxWorkers : Nat \ {0}, leaseSeconds : Nat \ {0}, maxAttempts : Nat \ {0},
     backoff : Nat, backoffMax : Nat, threshold : Nat]

-----------------------------------------------------------------------------
Live(r) == r.state \in LiveStates

\* Mutant: only jobs that reported a stage are recovered.
ExpiredRunning(r) == r.state = "running" /\ r.ttl = 0

Expired(r) == Live(r) /\ r.ttl = 0

\* The attempts row WHERE lease_generation = g.
AttemptOf(r, g) == r.attempts[g]

\* The stage_attempts row of attempt g WHERE state = 'started'.
HasOpenSpan(r, g) ==
    \E i \in 1..Len(AttemptOf(r, g).spans) : AttemptOf(r, g).spans[i].state = "started"

OpenSpanIs(r, g, stage) ==
    \E i \in 1..Len(AttemptOf(r, g).spans) :
        AttemptOf(r, g).spans[i] = [stage |-> stage, state |-> "started"]

-----------------------------------------------------------------------------
(* min(maximum, base * 2 ** (attempt_count - 1)), 0 when backoff is off.   *)
RetryDelay(policy, attemptCount) ==
    LET doubled == policy.backoff * 2 ^ (attemptCount - 1)
    IN  IF policy.backoff = 0 \/ policy.backoffMax = 0 THEN 0
        ELSE IF doubled \in 0..policy.backoffMax THEN doubled
        ELSE policy.backoffMax

\* Mutant: the queue row's own status word is stored.
NewRowStatus(planned) ==
    [state |-> IF planned THEN "planned" ELSE "blocked", active |-> TRUE,
     attemptCount |-> 0, generation |-> 0, wait |-> 0, ttl |-> 0,
     stage |-> NoStage, failureClass |-> NoClass, attempts |-> <<>>]

\* A row that sync_queue inserts.
NewRow(planned) ==
    [state |-> IF planned THEN "queued" ELSE "blocked", active |-> TRUE,
     attemptCount |-> 0, generation |-> 0, wait |-> 0, ttl |-> 0,
     stage |-> NoStage, failureClass |-> NoClass, attempts |-> <<>>]

\* No row yet.
AbsentRow == [NewRow(TRUE) EXCEPT !.state = "absent", !.active = FALSE]

\* Every span left open by the fenced attempt becomes 'interrupted'.
CloseSpans(spans) ==
    [i \in DOMAIN spans |->
        IF spans[i].state = "started"
        THEN [stage |-> spans[i].stage, state |-> "interrupted"]
        ELSE spans[i]]

\* Attempt g ends in the given state, its open span closed.
EndAttempt(r, g, state) ==
    [r.attempts EXCEPT ![g] =
        [state |-> state, spans |-> CloseSpans(AttemptOf(r, g).spans)]]

Retries(r, policy) == r.attemptCount < policy.maxAttempts

-----------------------------------------------------------------------------
(* One operator per transition of a row.  What a worker reports is written *)
(* to the attempt of the generation g that the worker presents.            *)

\* Mutant: the attempts row is not ended with the job's lease.
ExpireJobOnly(r, policy) ==
    [r EXCEPT !.state = IF Retries(r, policy) THEN "queued" ELSE "failed",
              !.ttl = 0,
              !.stage = NoStage]

\* _recover_expired_locked on an expired row.
Expire(r, policy) ==
    [r EXCEPT !.state = IF Retries(r, policy) THEN "queued" ELSE "failed",
              !.ttl = 0,
              !.stage = NoStage,
              !.wait = IF Retries(r, policy)
                       THEN RetryDelay(policy, r.attemptCount) ELSE 0,
              !.attempts = EndAttempt(r, r.generation, "expired")]

\* claim: the job is leased and a new attempt is inserted.
Grant(r, policy) ==
    [r EXCEPT !.state = "leased",
              !.attemptCount = @ + 1,
              !.generation = @ + 1,
              !.ttl = policy.leaseSeconds,
              !.stage = NoStage,
              !.failureClass = NoClass,
              !.wait = 0,
              !.attempts = Append(@, [state |-> "leased", spans |-> <<>>])]

\* renew: only the expiry moves.
Extend(r, policy) == [r EXCEPT !.ttl = policy.leaseSeconds]

\* record_stage: the spans of the attempt become spans; any stage
\* transition makes the job and its attempt 'running'.
WithSpans(r, g, spans, stage) ==
    [r EXCEPT !.state = "running",
              !.stage = stage,
              !.attempts = [@ EXCEPT ![g] = [state |-> "running", spans |-> spans]]]

StartSpan(r, g, stage) ==
    LET span == [stage |-> stage, state |-> "started"]
    IN  WithSpans(r, g, Append(AttemptOf(r, g).spans, span), stage)

SkipSpan(r, g, stage) ==
    LET span == [stage |-> stage, state |-> "skipped"]
    IN  WithSpans(r, g, Append(AttemptOf(r, g).spans, span), NoStage)

EndSpan(r, g, stage, status) ==
    LET spans == AttemptOf(r, g).spans
    IN  WithSpans(r, g,
                  [i \in DOMAIN spans |-> IF spans[i].state = "started"
                                          THEN [stage |-> stage, state |-> status]
                                          ELSE spans[i]],
                  NoStage)

\* complete: the attempt's spans were all closed by the worker.
Finish(r, g) ==
    [r EXCEPT !.state = "complete",
              !.ttl = 0,
              !.stage = NoStage,
              !.attempts = [@ EXCEPT ![g] =
                                [state |-> "complete", spans |-> AttemptOf(r, g).spans]]]

\* fail: requeue while attempts remain, otherwise fail terminally.
Abandon(r, g, policy, retry, class) ==
    [r EXCEPT !.state = IF retry THEN "queued" ELSE "failed",
              !.ttl = 0,
              !.stage = NoStage,
              !.failureClass = class,
              !.wait = IF retry THEN RetryDelay(policy, r.attemptCount) ELSE 0,
              !.attempts = EndAttempt(r, g, "failed")]

\* quarantine_pathological_jobs: a queued job becomes terminal-failed, a
\* failed one is left as it is.
Isolate(r) ==
    IF r.state = "queued"
    THEN [r EXCEPT !.state = "failed", !.failureClass = OperatorQuarantine]
    ELSE r

\* Mutant: AND state = 'failed' is missing.
ReopenAny(r) == [r EXCEPT !.state = "queued", !.wait = 0, !.failureClass = NoClass]

\* requeue_failed_batch and release_pathological_quarantine.
Reopen(r) ==
    IF r.state = "failed"
    THEN [r EXCEPT !.state = "queued", !.wait = 0, !.failureClass = NoClass]
    ELSE r

\* requeue_interrupted_batch on a live row.
Interrupt(r) ==
    [r EXCEPT !.state = "queued",
              !.ttl = 0,
              !.stage = NoStage,
              !.failureClass = NoClass,
              !.wait = 0,
              !.attempts = EndAttempt(r, r.generation, "failed")]

\* One second passes.
Age(r) ==
    [r EXCEPT !.ttl = IF @ = 0 THEN 0 ELSE @ - 1,
              !.wait = IF @ = 0 THEN 0 ELSE @ - 1]

-----------------------------------------------------------------------------
(* What must hold of a row whatever happens to it.                         *)

\* A row is live exactly when its newest attempt, the one its generation
\* numbers, is, and then in the same state; every older attempt has ended.
\* Attempts are numbered without gaps (attempt_number = lease_generation).
LeaseMatchesAttempt(r) ==
    /\ Len(r.attempts) = r.generation
    /\ r.attemptCount = r.generation
    /\ \A g \in 1..r.generation :
          r.attempts[g].state \in LiveStates
              => g = r.generation /\ r.state = r.attempts[g].state
    /\ Live(r) => r.generation > 0 /\ r.attempts[r.generation].state = r.state

\* The lease columns are set only while the job is live (the CHECK of the
\* jobs table), so nobody can hold an unfenced lease on a job at rest.
LeaseColumns(r) == ~Live(r) => r.ttl = 0 /\ r.stage = NoStage

\* The job is complete exactly when its newest attempt is, and no other
\* attempt ever was: success is recorded once.
OneSuccess(r) ==
    /\ \A g \in 1..r.generation :
          r.attempts[g].state = "complete" <=> g = r.generation /\ r.state = "complete"
    /\ r.state = "complete" => r.generation > 0

\* An open span is the newest span of the newest attempt of a running job,
\* and it is the job's current stage; without one there is no current stage.
SpanDiscipline(r) ==
    /\ \A g \in 1..r.generation : \A i \in 1..Len(r.attempts[g].spans) :
          r.attempts[g].spans[i].state = "started"
              => /\ g = r.generation
                 /\ i = Len(r.attempts[g].spans)
                 /\ r.state = "running"
                 /\ r.stage = r.attempts[g].spans[i].stage
    /\ r.stage # NoStage => r.generation > 0 /\ OpenSpanIs(r, r.generation, r.stage)

\* Attempts belong to an inserted row, and a blocked row is never executed.
NeverAttempted(r) == r.state \in {"absent", "blocked"} => r.generation = 0

RowInv(r) ==
    /\ NeverAttempted(r)
    /\ LeaseMatchesAttempt(r)
    /\ LeaseColumns(r)
    /\ OneSuccess(r)
    /\ SpanDiscipline(r)

\* From r to s no evidence is lost: an ended attempt is never touched again,
\* nor is a closed span, and no attempt or span disappears.
EvidenceKept(r, s) ==
    /\ Len(r.attempts) <= Len(s.attempts)
    /\ \A g \in 1..Len(r.attempts) :
          /\ r.attempts[g].state \notin LiveStates => s.attempts[g] = r.attempts[g]
          /\ Len(r.attempts[g].spans) <= Len(s.attempts[g].spans)
          /\ \A i \in 1..Len(r.attempts[g].spans) :
                r.attempts[g].spans[i].state # "started"
                    => s.attempts[g].spans[i] = r.attempts[g].spans[i]
=============================================================================
