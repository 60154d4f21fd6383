------------------------------- MODULE MCLive -------------------------------
(***************************************************************************)
(* The two clients of a queue that must come to an end, in one run: a      *)
(* state is a state of one of them, the other rests in its initial state.  *)
(*                                                                         *)
(* Worker: MCWorker, a queue of two batches of one job each and a kill or  *)
(* a power loss.  Upload: artifacts of five bytes in chunks of two: full   *)
(* chunks, a short last one, and restarts in the middle of a chunk.        *)
(***************************************************************************)
EXTENDS MCWorker, RemoteUpload

VARIABLE part

Only(p) ==
    /\ part = p /\ part' = p
    /\ IF p = "worker" THEN TRUE ELSE UNCHANGED workerVars
    /\ IF p = "upload" THEN TRUE ELSE UNCHANGED uploadVars

LiveInit ==
    /\ part \in {"worker", "upload"}
    /\ WorkerInit /\ UploadInit

LiveNext ==
    \/ Only("worker") /\ WorkerNext
    \/ Only("upload") /\ UploadNext

liveVars == <<part, workerVars, uploadVars>>

\* WorkerFairness and UploadFairness, each of its own part: an action of the
\* other part is never enabled, and owes nothing.
LiveSpec ==
    /\ LiveInit /\ [][LiveNext]_liveVars
    /\ WF_liveVars(Only("worker") /\ SynchronizeQueue)
    /\ WF_liveVars(Only("worker") /\ Clock)
    /\ \A w \in Worker : /\ WF_liveVars(Only("worker") /\ Restart(w))
                          /\ WF_liveVars(Only("worker") /\ Works(w))
    /\ WF_liveVars(Only("upload") /\ Send)
    /\ WF_liveVars(Only("upload") /\ (ReceiveComplete \/ ReceiveNext \/ GiveUp))
    /\ WF_liveVars(Only("upload") /\ Handle)
=============================================================================
