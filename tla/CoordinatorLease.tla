-------------------------- MODULE CoordinatorLease --------------------------
(***************************************************************************)
(* The coordinator implements JobLease: the rows of the jobs and attempts  *)
(* tables, read through StatusOf, generation and ResultsOf.                *)
(***************************************************************************)
EXTENDS Coordinator

\* A blocked row, or none, is waiting like a queued one: it is not granted
\* until a synchronization plans it.
StatusOf(r) ==
    CASE Live(r) -> "held"
      [] r.state = "complete" -> "done"
      [] r.state = "failed" -> "dead"
      [] OTHER -> "idle"

\* The attempts whose worker saw its completion accepted.
ResultsOf(r) == {g \in 1..Len(r.attempts) : r.attempts[g].state = "complete"}

Lease == INSTANCE JobLease WITH
            status <- [j \in Job |-> StatusOf(jobs[j])],
            fence <- [j \in Job |-> jobs[j].generation],
            results <- [j \in Job |-> ResultsOf(jobs[j])]

\* Claims hand out growing tokens one job at a time, a result is accepted
\* only from the newest token's holder and only once, and operators recover
\* jobs only while nobody holds one (claim, complete, fail, renew,
\* record_stage and the requeue and quarantine operations).
ImplementsJobLease == Lease!LeaseSpec
=============================================================================
