---------------------------- MODULE RemoteWorker ----------------------------
(***************************************************************************)
(* Remote workers (remote_worker.py) and the handler threads of the worker *)
(* API (remote_api.py) on top of the coordinator.  A client waits for one  *)
(* call at a time and gives up on it after its timeout; the handler thread *)
(* of an abandoned call keeps running, next to the calls that the client   *)
(* makes afterwards.  Every coordinator operation is one transaction and   *)
(* everything between two of them may interleave.  An answer may be lost,  *)
(* a client or the API may die anywhere, and the host of the API may lose  *)
(* power.                                                                  *)
(*                                                                         *)
(* The three uploads of an attempt are one call here: RemoteUpload.tla is  *)
(* their protocol.  The schedule has finish_started_batch, enabled and     *)
(* chain_batches set, and tail_fill off (QueueWorker.tla has it on).       *)
(***************************************************************************)
EXTENDS Coordinator

CONSTANTS
    Worker,
    NoLease,
    Publication,    \* CellStage.PUBLICATION
    MaxFaults       \* bound: timeouts, lost answers, failures, kills, restarts

Leases == [job : Job, generation : 1..MaxGeneration]

ASSUME RemoteAssumption ==
    /\ Publication \in Stage
    /\ NoLease \notin Leases
    /\ MaxFaults \in Nat

VARIABLES
    client,     \* where each client is in main and execute_remote_lease
    held,       \* the lease a client executes
    beat,       \* its heartbeat thread: off, on, or failed (error is set)
    calls,      \* the handler threads of the API, and answers on their way
    staging,    \* remote-staging/<job>-g<generation> on the API's host
    final,      \* artifacts/runs/<job>/attempt-<generation> there
    faults

remote == <<client, held, beat, calls, staging, final>>
remoteVars == <<vars, remote, faults>>

\* The places where a client waits for an answer, and those of an attempt.
\* The service starts a client that has exited again (Restart=always): it
\* is back at claim.
Waiting == {"claiming", "uploading", "completing", "failing"}
Executing == {"build", "upload", "uploading", "complete", "completing", "fail", "failing"}
ClientStates == {"claim"} \cup Waiting \cup Executing

\* The next step of a handler; the last four are answers.
Answers == {"empty", "lease", "done", "refused"}
HandlerSteps ==
    {"look", "take", "finish", "mkdir", "renew", "store", "begin", "flush", "rename",
     "names", "ended", "broken", "report"} \cup Answers

\* waited: its client has not given up on it.
Calls ==
    [worker : Worker, lease : Leases \cup {NoLease}, step : HandlerSteps,
     waited : BOOLEAN, seen : SUBSET Batch, op : {"claim", "upload", "complete", "fail"}]

PerAttempt(S) == [Job -> [1..MaxGeneration -> S]]

\* A client executes a lease exactly between the claim's answer and the end
\* of the attempt, and it waits for exactly one call, however many it gave
\* up on before (execute_remote_lease).
RemoteTypeOK ==
    /\ client \in [Worker -> ClientStates]
    /\ held \in [Worker -> Leases \cup {NoLease}]
    /\ beat \in [Worker -> {"off", "on", "failed"}]
    /\ calls \subseteq Calls
    /\ staging \in PerAttempt({"none", "made", "filled"})
    /\ final \in PerAttempt({"none", "renamed", "durable"})
    /\ faults \in 0..MaxFaults
    /\ \A w \in Worker :
          /\ held[w] # NoLease <=> client[w] \in Executing
          /\ Cardinality({c \in calls : c.worker = w /\ c.waited})
                = IF client[w] \in Waiting THEN 1 ELSE 0

RemoteInit ==
    /\ Init
    /\ client = [w \in Worker |-> "claim"]
    /\ held = [w \in Worker |-> NoLease]
    /\ beat = [w \in Worker |-> "off"]
    /\ calls = {}
    /\ staging = [j \in Job |-> [g \in 1..MaxGeneration |-> "none"]]
    /\ final = [j \in Job |-> [g \in 1..MaxGeneration |-> "none"]]
    /\ faults = 0

Fault == faults < MaxFaults /\ faults' = faults + 1

-----------------------------------------------------------------------------
(* The client.                                                             *)

\* Client w moves to step next, at the end of its attempt or within it.
ClientGoes(w, next) ==
    /\ client' = [client EXCEPT ![w] = next]
    /\ held' = [held EXCEPT ![w] = IF next \in Executing THEN @ ELSE NoLease]
    /\ beat' = [beat EXCEPT ![w] = IF next \in Executing THEN @ ELSE "off"]

\* RemoteCoordinatorClient.request: operation op, sent from the first of
\* these places and waited for in the second.
Sends(w, from, op, to, first) ==
    /\ client[w] = from
    /\ ClientGoes(w, to)
    /\ calls' = calls \cup {[worker |-> w, lease |-> held[w], step |-> first,
                             waited |-> TRUE, seen |-> {}, op |-> op]}
    /\ UNCHANGED <<vars, staging, final, faults>>

Request(w) ==
    \/ Sends(w, "claim", "claim", "claiming", "look")
    \/ Sends(w, "upload", "upload", "uploading", "renew")
    \/ Sends(w, "complete", "complete", "completing", "renew")
    \/ Sends(w, "fail", "fail", "failing", "report")

\* Where the client goes on after an answer to op.
After(op, answer) ==
    CASE op = "claim" /\ answer = "lease"  -> "build"
      [] op = "upload" /\ answer = "done"  -> "complete"
      [] op \in {"upload", "complete"} /\ answer = "refused" -> "fail"
      [] OTHER -> "claim"

\* An answer arrives.  With a lease the attempt root is made and the
\* heartbeat starts.
Receive(c) ==
    /\ c.waited /\ c.step \in Answers
    /\ client' = [client EXCEPT ![c.worker] = After(c.op, c.step)]
    /\ held' = [held EXCEPT ![c.worker] =
                   IF After(c.op, c.step) \in Executing THEN c.lease ELSE NoLease]
    /\ beat' = [beat EXCEPT ![c.worker] =
                   IF c.step = "lease" THEN "on"
                   ELSE IF After(c.op, c.step) \in Executing THEN @ ELSE "off"]
    /\ calls' = calls \ {c}
    /\ UNCHANGED <<vars, staging, final, faults>>

\* Mutant: the client still listens to the call it gave up on.
WithoutStillHeard(c) == IF c.step \in Answers THEN calls \ {c} ELSE calls

\* The call without its client: an answer is lost, a running handler is not.
Without(c) ==
    IF c.step \in Answers THEN calls \ {c}
    ELSE (calls \ {c}) \cup {[c EXCEPT !.waited = FALSE]}

\* No answer in timeout_seconds, or the connection is lost: the client goes
\* on as after an error, which on a claim ends the program.
TimeOut(c) ==
    /\ c.waited
    /\ Fault
    /\ ClientGoes(c.worker, After(c.op, "refused"))
    /\ calls' = Without(c)
    /\ UNCHANGED <<vars, staging, final>>

\* run_cell returned a result; heartbeat.check() may raise.
BuildRemote(w) ==
    /\ client[w] = "build"
    /\ ClientGoes(w, IF beat[w] = "failed" THEN "fail" ELSE "upload")
    /\ UNCHANGED <<vars, calls, staging, final, faults>>

\* run_cell raised, or SIGTERM or the cutoff timer interrupts the attempt;
\* the handler of a call in flight is abandoned.
Disturbed(w) ==
    /\ client[w] \in Executing \ {"fail", "failing"}
    /\ Fault
    /\ ClientGoes(w, "fail")
    /\ calls' = IF client[w] \in Waiting
                THEN Without(CHOOSE c \in calls : c.worker = w /\ c.waited) ELSE calls
    /\ UNCHANGED <<vars, staging, final>>

\* SIGKILL, or a host that goes down.
KillClient(w) ==
    /\ client[w] # "claim"
    /\ Fault
    /\ ClientGoes(w, "claim")
    /\ calls' = IF client[w] \in Waiting
                THEN Without(CHOOSE c \in calls : c.worker = w /\ c.waited) ELSE calls
    /\ UNCHANGED <<vars, staging, final>>

\* _RemoteHeartbeat._run: the first error ends the thread.
BeatRemote(w) ==
    /\ beat[w] = "on"
    /\ IF HoldsLease(held[w].job, held[w].generation)
       THEN Renew(held[w].job, held[w].generation) /\ UNCHANGED <<remote, faults>>
       ELSE /\ beat' = [beat EXCEPT ![w] = "failed"]
            /\ UNCHANGED <<vars, client, held, calls, staging, final, faults>>

\* A renewal that got no answer, whether or not it was accepted.
BeatLost(w) ==
    /\ beat[w] = "on"
    /\ Fault
    /\ beat' = [beat EXCEPT ![w] = "failed"]
    /\ \/ Renew(held[w].job, held[w].generation)
       \/ UNCHANGED vars
    /\ UNCHANGED <<client, held, calls, staging, final>>

-----------------------------------------------------------------------------
(* The handler threads: one call c, one step.                              *)

At(c, op, step) == c.op = op /\ c.step = step

\* Call c goes on as d; nobody hears the answer of an abandoned call.
Becomes(c, d) ==
    /\ calls' = IF d.step \in Answers /\ ~d.waited THEN calls \ {c}
                ELSE (calls \ {c}) \cup {d}
    /\ UNCHANGED <<client, held, beat>>

Goes(c, step) == Becomes(c, [c EXCEPT !.step = step])

SetStaging(c, d) == staging' = [staging EXCEPT ![c.lease.job][c.lease.generation] = d]
SetFinal(c, d) == final' = [final EXCEPT ![c.lease.job][c.lease.generation] = d]
StagingOf(c) == staging[c.lease.job][c.lease.generation]
FinalOf(c) == final[c.lease.job][c.lease.generation]
Fenced(c) == HoldsLease(c.lease.job, c.lease.generation)

\* claim: read the block document; if no block is active, admit the next.
LookRemote(c) ==
    /\ At(c, "claim", "look")
    /\ \/ primary # NoBatch /\ UNCHANGED vars
       \/ \E b \in Batch, id \in Admission : StartNextBlock(b, id, TRUE, TRUE)
    /\ Becomes(c, [c EXCEPT !.step = "take", !.seen = {primary', lookahead'} \ {NoBatch}])
    /\ UNCHANGED <<staging, final, faults>>

\* claims_allowed is false: no block is active and none can be admitted.
GateRemote(c) ==
    /\ At(c, "claim", "look")
    /\ primary = NoBatch
    /\ ~armed \/ paused \/ \A b \in ActiveBatches : Remaining(b) = {}
    /\ Goes(c, "empty")
    /\ UNCHANGED <<vars, staging, final, faults>>

TakeRemote(c) ==
    /\ At(c, "claim", "take")
    /\ \E j \in Job :
          /\ Claim(j, c.seen, Job)
          /\ Becomes(c, [c EXCEPT !.step = "mkdir",
                                  !.lease = [job |-> j, generation |-> jobs'[j].generation]])
    /\ UNCHANGED <<staging, final, faults>>

\* Nothing to claim: the recovery of expired leases stands.
TakeNoneRemote(c) ==
    LET rows == Recovered(jobs) IN
    /\ At(c, "claim", "take")
    /\ ~armed \/ paused \/ ~SlotFree(rows) \/ Claimable(rows, c.seen, Job) = {}
    /\ jobs' = rows
    /\ Goes(c, "finish")
    /\ UNCHANGED <<quarantined, state, admissions, staging, final, faults>>

FinishBlockRemote(c) ==
    /\ At(c, "claim", "finish")
    /\ \/ FinishActiveBlockIfDrained
       \/ /\ primary = NoBatch \/ (primary \in ActiveBatches /\ Remaining(primary) # {})
          /\ UNCHANGED vars
    /\ Goes(c, "empty")
    /\ UNCHANGED <<staging, final, faults>>

\* _staging makes the attempt's directory; if it cannot, the fresh lease is
\* handed back at once.
MkdirRemote(c) ==
    /\ At(c, "claim", "mkdir")
    /\ \/ /\ SetStaging(c, IF StagingOf(c) = "none" THEN "made" ELSE StagingOf(c))
          /\ Goes(c, "lease")
          /\ UNCHANGED <<vars, faults>>
       \/ /\ Fault
          /\ Goes(c, "report")
          /\ UNCHANGED <<vars, staging>>
    /\ UNCHANGED final

HandBackRemote(c) ==
    /\ At(c, "claim", "report")
    /\ \/ Fail(c.lease.job, c.lease.generation, TRUE, FALSE, NoClass)
       \/ ~Fenced(c) /\ UNCHANGED vars
    /\ Goes(c, "refused")
    /\ UNCHANGED <<staging, final, faults>>

\* upload and complete first renew the lease.
RenewRemote(c) ==
    /\ c.step = "renew"
    /\ IF Fenced(c)
       THEN /\ Renew(c.lease.job, c.lease.generation)
            /\ Goes(c, IF c.op = "upload" THEN "store" ELSE "begin")
       ELSE Goes(c, "refused") /\ UNCHANGED vars
    /\ UNCHANGED <<staging, final, faults>>

\* The artifacts are stored; _staging makes a directory that has gone.
StoreRemote(c) ==
    /\ At(c, "upload", "store")
    /\ \/ SetStaging(c, "filled") /\ Goes(c, "done") /\ UNCHANGED faults
       \/ Fault /\ SetStaging(c, "made") /\ Goes(c, "refused")
    /\ UNCHANGED <<vars, final>>

\* complete: record the publication stage, ...
BeginRemote(c) ==
    /\ At(c, "complete", "begin")
    /\ IF Fenced(c)
       THEN RecordStarted(c.lease.job, c.lease.generation, Publication) /\ Goes(c, "flush")
       ELSE Goes(c, "refused") /\ UNCHANGED vars
    /\ UNCHANGED <<staging, final, faults>>

\* ... check that every material is there and flush it, ...
FlushRemote(c) ==
    /\ At(c, "complete", "flush")
    /\ Goes(c, IF FinalOf(c) = "none" /\ StagingOf(c) = "filled" THEN "rename" ELSE "broken")
    /\ UNCHANGED <<vars, staging, final, faults>>

\* Mutant: the materials are copied, not moved.
CopyRemote(c) ==
    /\ At(c, "complete", "rename")
    /\ SetFinal(c, "renamed")
    /\ Goes(c, "names")
    /\ UNCHANGED <<vars, staging, faults>>

\* ... os.replace the staging directory with the attempt directory, ...
RenameRemote(c) ==
    /\ At(c, "complete", "rename")
    /\ SetStaging(c, "none")
    /\ SetFinal(c, "renamed")
    /\ Goes(c, "names")
    /\ UNCHANGED <<vars, faults>>

\* Mutant: the names are flushed after the answer.
NamesUnflushed(c) ==
    /\ At(c, "complete", "names")
    /\ Goes(c, "ended")
    /\ UNCHANGED <<vars, staging, final, faults>>

\* ... and flush the new names.
NamesRemote(c) ==
    /\ At(c, "complete", "names")
    /\ SetFinal(c, "durable")
    /\ Goes(c, "ended")
    /\ UNCHANGED <<vars, staging, faults>>

\* The stage's end, completed or failed, then the job's.
EndedRemote(c) ==
    /\ c.step \in {"ended", "broken"}
    /\ IF Fenced(c)
       THEN RecordEnded(c.lease.job, c.lease.generation, Publication,
                        IF c.step = "ended" THEN "completed" ELSE "failed")
       ELSE UNCHANGED vars
    /\ Goes(c, IF Fenced(c) /\ c.step = "ended" THEN "report" ELSE "refused")
    /\ UNCHANGED <<staging, final, faults>>

ReportRemote(c) ==
    /\ At(c, "complete", "report")
    /\ IF Fenced(c)
       THEN Complete(c.lease.job, c.lease.generation) /\ Goes(c, "done")
       ELSE Goes(c, "refused") /\ UNCHANGED vars
    /\ UNCHANGED <<staging, final, faults>>

\* fail: the client's own words for what went wrong.
FailRemote(c) ==
    /\ At(c, "fail", "report")
    /\ \/ /\ \E retryable, pathological \in BOOLEAN :
                Fail(c.lease.job, c.lease.generation, retryable, pathological, NoClass)
          /\ Goes(c, "done")
       \/ ~Fenced(c) /\ Goes(c, "refused") /\ UNCHANGED vars
    /\ UNCHANGED <<staging, final, faults>>

\* An I/O error while the materials are published.
BreaksRemote(c) ==
    /\ c.op = "complete" /\ c.step \in {"flush", "rename", "names"}
    /\ Fault
    /\ Goes(c, "broken")
    /\ UNCHANGED <<vars, staging, final>>

\* The API stops with all its threads; its clients lose their connections.
\* A power loss may also undo a rename whose directories were not flushed.
ApiStops ==
    /\ calls # {}
    /\ Fault
    /\ calls' = {[c EXCEPT !.step = "refused"] : c \in {d \in calls : d.waited}}
    /\ \/ UNCHANGED <<staging, final>>
       \/ \E j \in Job, g \in 1..MaxGeneration :
             /\ final[j][g] = "renamed"
             /\ final' = [final EXCEPT ![j][g] = "none"]
             /\ staging' = [staging EXCEPT ![j][g] = "filled"]
    /\ UNCHANGED <<vars, client, held, beat>>

Handler(c) ==
    \/ LookRemote(c) \/ GateRemote(c) \/ TakeRemote(c)
    \/ TakeNoneRemote(c) \/ FinishBlockRemote(c) \/ MkdirRemote(c) \/ HandBackRemote(c)
    \/ RenewRemote(c) \/ StoreRemote(c) \/ BeginRemote(c) \/ FlushRemote(c)
    \/ RenameRemote(c) \/ NamesRemote(c) \/ EndedRemote(c) \/ ReportRemote(c)
    \/ FailRemote(c)

-----------------------------------------------------------------------------
SynchronizeRemote ==
    /\ order = <<>>
    /\ \E c \in Configs : SyncQueue(c)
    /\ UNCHANGED <<remote, faults>>

ClockRemote == Tick /\ UNCHANGED <<remote, faults>>

\* What a client does unless something stops it.
ClientWorks(w) ==
    \/ Request(w) \/ BuildRemote(w)
    \/ \E c \in calls : c.worker = w /\ Receive(c)

RemoteNext ==
    \/ SynchronizeRemote
    \/ ClockRemote
    \/ \E w \in Worker : ClientWorks(w) \/ BeatRemote(w) \/ BeatLost(w)
                            \/ Disturbed(w) \/ KillClient(w)
    \/ \E c \in calls : Handler(c) \/ TimeOut(c) \/ BreaksRemote(c)
    \/ ApiStops

RemoteSpec == RemoteInit /\ [][RemoteNext]_remoteVars

\* The services are started again (Restart=always), a handler thread runs to
\* its end, and so does a client's attempt.
FairRemoteSpec ==
    /\ RemoteSpec
    /\ WF_remoteVars(SynchronizeRemote)
    /\ WF_remoteVars(ClockRemote)
    /\ \A w \in Worker :
          /\ WF_remoteVars(ClientWorks(w))
          /\ WF_remoteVars(\E c \in calls : c.worker = w /\ Handler(c))

-----------------------------------------------------------------------------
\* A job is complete only with the attempt directory of that generation in
\* place and flushed (_durably_publish before complete), whatever calls of
\* this or another attempt are still running.
RemoteResultDurable ==
    \A j \in Job :
        jobs[j].state = "complete" => final[j][jobs[j].generation] = "durable"

\* No handler brings the private directory of a completed attempt back:
\* _staging would make it again for an upload that is stored after the
\* publication, but what is missing keeps the publication from its rename.
NoStagingLeft ==
    \A j \in Job :
        jobs[j].state = "complete" => staging[j][jobs[j].generation] = "none"

\* Every job settles although answers are lost, calls are abandoned while
\* the API still works on them, and clients die: what a client no longer
\* knows of is recovered by a later claim.
RemoteSettles ==
    \A j \in Job : jobs[j].state = "queued" ~> jobs[j].state \in {"complete", "failed"}
=============================================================================
