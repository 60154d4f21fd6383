------------------------------ MODULE MCLedger ------------------------------
(***************************************************************************)
(* Instance of Coordinator with one batch of one job and every operation:  *)
(* stages, retries, expiry, quarantine, and both operator requeues.        *)
(***************************************************************************)
EXTENDS CoordinatorLease

CONSTANTS j1, b1, compile, publish, nightly

MCPolicy ==
    [maxWorkers |-> 1, leaseSeconds |-> 2, maxAttempts |-> 2,
     backoff |-> 1, backoffMax |-> 1, threshold |-> 1]

MCJob == {j1}
MCBatchOf == [j \in MCJob |-> b1]
MCAuthorityOf == [j \in MCJob |-> 1]
MCPosition == [j \in MCJob |-> 1]
MCPools == {MCJob}
MCConfigs ==
    [order : {<<b1>>}, rows : {MCJob}, armed : BOOLEAN, policy : {MCPolicy}]
=============================================================================
