------------------------------ MODULE MCRemote ------------------------------
(***************************************************************************)
(* One job that may be attempted twice and two remote workers, with one    *)
(* timeout, lost answer, failure, kill or restart at any step.             *)
(***************************************************************************)
EXTENDS RemoteWorker

CONSTANTS j1, b1, w1, w2, nightly, publication

MCPolicy ==
    [maxWorkers |-> 2, leaseSeconds |-> 1, maxAttempts |-> 2,
     backoff |-> 0, backoffMax |-> 0, threshold |-> 0]

MCBatchOf == [j \in Job |-> b1]
MCAuthorityOf == [j \in Job |-> j]
MCPosition == [j \in Job |-> 1]
MCPools == {Job}
MCConfigs ==
    {[order |-> <<b1>>, rows |-> Job, armed |-> TRUE, policy |-> MCPolicy]}
=============================================================================
