------------------------------ MODULE MCWorker ------------------------------
(***************************************************************************)
(* Two workers on a queue of two batches of one job each: the second batch *)
(* is admitted as look-ahead while the first one runs.                     *)
(***************************************************************************)
EXTENDS QueueWorker, TLC

CONSTANTS j1, j2, b1, b2, w1, w2, nightly, publication, MaxAttempts

MCPolicy ==
    [maxWorkers |-> 2, leaseSeconds |-> 1, maxAttempts |-> MaxAttempts,
     backoff |-> 0, backoffMax |-> 0, threshold |-> 0]

MCBatchOf == [j \in Job |-> IF j = j1 THEN b1 ELSE b2]
MCAuthorityOf == [j \in Job |-> j]
MCPosition == [j \in Job |-> 1]
MCPools == {Job}
MCConfigs ==
    {[order |-> SelectSeq(<<b1, b2>>, LAMBDA b : b \in Batch),
      rows |-> Job, armed |-> TRUE, policy |-> MCPolicy]}
MCSymmetry == Permutations(Worker)
=============================================================================
