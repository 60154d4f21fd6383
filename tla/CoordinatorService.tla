------------------------- MODULE CoordinatorService -------------------------
(***************************************************************************)
(* A synchronized queue left to its workers: after one SyncQueue only      *)
(* workers and the block scheduler act, and no operator intervenes.  These *)
(* are the promises of an unattended night: limits, order, the circuit     *)
(* breaker, and that every job settles.                                    *)
(***************************************************************************)
EXTENDS Coordinator

Synchronize == order = <<>> /\ \E c \in Configs : SyncQueue(c)

WorkerStep == \E j \in Job : \E g \in 1..jobs[j].generation : LeaseStep(j, g)

RenewStep == \E j \in Job : \E g \in 1..jobs[j].generation : Renew(j, g)

ServiceNext == Synchronize \/ Tick \/ ClaimStep \/ WorkerStep \/ BlockStep

ServiceSpec == Init /\ [][ServiceNext]_vars

\* Workers poll for a claim and the wall clock advances.  Nothing obliges a
\* worker to finish: it may die.  Every command of an execution runs under a
\* timeout (pipeline.py, source_build.py), and in window mode the worker ends
\* itself at the hard cutoff, so no lease is renewed for ever.
ServiceFairness ==
    /\ WF_vars(Synchronize)
    /\ WF_vars(Tick)
    /\ WF_vars(ClaimStep)
    /\ WF_vars(BlockStep)
    /\ <>[][~RenewStep]_vars

FairServiceSpec == ServiceSpec /\ ServiceFairness

-----------------------------------------------------------------------------
\* Concurrent claims never hand out more leases than the queue allows, with
\* recovery of expired leases counted in the same transaction (claim).
WorkerLimit == Cardinality(ActiveLive(jobs)) <= policy.maxWorkers

\* Retries are capped: however failures, expiries and claims interleave, no
\* job is attempted more often than max_attempts (fail, _recover_expired).
RetryCap == order # <<>> => \A j \in Job : jobs[j].attemptCount <= policy.maxAttempts

\* Once a class of authority failures has reached the threshold in a batch
\* the queue is paused, whatever the other workers were doing (fail).
CircuitHolds ==
    \A b \in ActiveBatches, class \in FailureClass :
        CircuitOpens(jobs, b, class) => paused

\* No block is skipped: all listed batches before the primary block are
\* drained, and before the look-ahead block all but the primary.
BlocksInOrder ==
    /\ primary # NoBatch =>
          \A d \in ActiveBatches :
              PositionOf(d) < PositionOf(primary) => Remaining(d) = {}
    /\ lookahead # NoBatch =>
          /\ primary # NoBatch
          /\ PositionOf(primary) < PositionOf(lookahead)
          /\ \A d \in ActiveBatches \ {primary} :
                PositionOf(d) < PositionOf(lookahead) => Remaining(d) = {}

\* Every queued job is eventually complete or failed, although workers may
\* die at any time, unless the circuit breaker stopped the queue.
JobsSettle ==
    \A j \in Job : jobs[j].state = "queued" ~>
                      jobs[j].state \in {"complete", "failed"} \/ paused

\* An admitted block is eventually closed, and its successor promoted.
BlocksClose ==
    \A b \in Batch : primary = b ~> primary # b \/ paused

\* An unattended queue keeps to its policy under any interleaving of claims,
\* results and recoveries: the workers it admits at once, the attempts of a
\* job, and the circuit breaker (claim, fail, _recover_expired).
ServiceLimits == WorkerLimit /\ RetryCap /\ CircuitHolds
=============================================================================
