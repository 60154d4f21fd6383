------------------------------ MODULE MCRefresh ------------------------------
(***************************************************************************)
(* Plan refreshes: a1 and a2 are the same work in two plan generations of  *)
(* batch b1, x1 is the only job of batch b2, which waits for a worker of   *)
(* another pool.  The operator may synchronize either generation, drop b1, *)
(* and disarm the queue for recovery.                                      *)
(***************************************************************************)
EXTENDS Coordinator

CONSTANTS a1, a2, x1, b1, b2, nightly

MCPolicy ==
    [maxWorkers |-> 2, leaseSeconds |-> 1, maxAttempts |-> 1,
     backoff |-> 0, backoffMax |-> 0, threshold |-> 0]

MCJob == {a1, a2, x1}
MCBatchOf == [j \in MCJob |-> IF j = x1 THEN b2 ELSE b1]
MCAuthorityOf == [j \in MCJob |-> IF j = x1 THEN 2 ELSE 1]
MCPosition == [j \in MCJob |-> 1]
MCPools == {{a1, a2}}

Queue(batches, rows, arm) ==
    [order |-> batches, rows |-> rows, armed |-> arm, policy |-> MCPolicy]

MCConfigs ==
    {Queue(<<b1, b2>>, {a1, x1}, TRUE), Queue(<<b1, b2>>, {a2, x1}, TRUE),
     Queue(<<b2>>, {x1}, TRUE), Queue(<<b1, b2>>, {a2, x1}, FALSE)}
=============================================================================
