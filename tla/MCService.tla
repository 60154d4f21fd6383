------------------------------ MODULE MCService ------------------------------
(***************************************************************************)
(* Three batches: two jobs in b1, one blocked job in b2 (never any work),  *)
(* and one job in b3, shared by two workers' worth of slots.               *)
(***************************************************************************)
EXTENDS CoordinatorService

CONSTANTS j1, j2, j3, j4, b1, b2, b3, nightly, MaxWorkers, Threshold

MCPolicy ==
    [maxWorkers |-> MaxWorkers, leaseSeconds |-> 1, maxAttempts |-> 2,
     backoff |-> 1, backoffMax |-> 1, threshold |-> Threshold]

MCBatchOf == [j \in Job |-> IF j \in {j1, j2} THEN b1 ELSE IF j = j3 THEN b2 ELSE b3]
MCAuthorityOf == [j \in Job |-> j]
MCPosition == [j \in Job |-> IF j = j2 THEN 2 ELSE 1]
MCPlanned == Job \ {j3}
MCPools == {Job}
MCConfigs ==
    {[order |-> SelectSeq(<<b1, b2, b3>>, LAMBDA b : b \in Batch),
      rows |-> Job, armed |-> TRUE, policy |-> MCPolicy]}
=============================================================================
