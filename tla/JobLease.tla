------------------------------ MODULE JobLease ------------------------------
(***************************************************************************)
(* What the coordinator promises about the execution of jobs, without its  *)
(* tables, batches, policies and clocks: a fencing token per job that only *)
(* grows, one holder at a time, and one accepted result per job, which is  *)
(* always that of the newest token.                                        *)
(***************************************************************************)
EXTENDS Naturals

CONSTANT Job

VARIABLES
    status,     \* idle: may be granted, held: leased, done, dead: failed
    fence,      \* the newest token granted, 0 when there is none
    results     \* the tokens whose result was accepted

leaseVars == <<status, fence, results>>

LeaseInit ==
    /\ status = [j \in Job |-> "idle"]
    /\ fence = [j \in Job |-> 0]
    /\ results = [j \in Job |-> {}]

\* The next status, token and results of one job.
Becomes(j, st, f, res) == status'[j] = st /\ fence'[j] = f /\ results'[j] = res

Rests(j) == Becomes(j, status[j], fence[j], results[j])

\* The holder failed, lost its lease, or was interrupted.
Lapses(j) ==
    /\ status[j] = "held"
    /\ \E st \in {"idle", "dead"} : Becomes(j, st, fence[j], results[j])

\* A job whose lease ran out may be granted again at once.
Granted(j) ==
    /\ status[j] \in {"idle", "held"}
    /\ Becomes(j, "held", fence[j] + 1, results[j])

Accepted(j) ==
    /\ status[j] = "held"
    /\ Becomes(j, "done", fence[j], results[j] \cup {fence[j]})

\* An operator kills waiting work or revives dead work.
Reassigned(j) ==
    \/ status[j] = "idle" /\ Becomes(j, "dead", fence[j], results[j])
    \/ status[j] = "dead" /\ Becomes(j, "idle", fence[j], results[j])

\* A worker's call, with which leases of others that ran out may lapse, or
\* an interruption of every holder.
WorkerCall ==
    \E j \in Job :
        /\ Granted(j) \/ Accepted(j) \/ Lapses(j) \/ Rests(j)
        /\ \A k \in Job \ {j} : Lapses(k) \/ Rests(k)

\* An operator reassigns work only when nobody holds a lease.
OperatorCall ==
    /\ \A j \in Job : status[j] # "held"
    /\ \A j \in Job : Reassigned(j) \/ Rests(j)

LeaseNext ==
    /\ WorkerCall \/ OperatorCall
    /\ status' = [j \in Job |-> status'[j]]
    /\ fence' = [j \in Job |-> fence'[j]]
    /\ results' = [j \in Job |-> results'[j]]

LeaseSpec == LeaseInit /\ [][LeaseNext]_leaseVars
=============================================================================
