---------------------------- MODULE QueueWorker ----------------------------
(***************************************************************************)
(* Local queue workers (queue_cli.py, _run_worker and _execute_claim) on   *)
(* top of the coordinator: each worker looks at the execution block,       *)
(* claims from what it saw, executes the cell while a heartbeat thread     *)
(* renews the lease, publishes the attempt directory and reports.  Every   *)
(* coordinator call is one transaction, everything between two calls may   *)
(* interleave with the other workers; a worker may be killed or            *)
(* interrupted anywhere and the host may lose power.                       *)
(*                                                                         *)
(* The schedule has finish_started_batch, enabled and chain_batches set,   *)
(* as the queues that auto_batch_builder.py writes.  The stages of         *)
(* run_cell are one step; the publication stage is recorded.               *)
(***************************************************************************)
EXTENDS Coordinator

CONSTANTS
    Worker,
    NoLease,
    Publication,    \* CellStage.PUBLICATION
    MaxFaults       \* bound: kills, interrupts, I/O errors and power losses

\* The workers run without --pool: they claim any job.
ASSUME WorkerAssumption ==
    /\ Publication \in Stage
    /\ Job \in Pools
    /\ NoLease \notin [job : Job, generation : Nat]
    /\ MaxFaults \in Nat

VARIABLES
    pc,         \* where each worker is in _run_worker, _execute_claim
    seen,       \* claim_batches: the block document a worker last read
    lease,      \* the lease a worker executes
    beat,       \* the heartbeat thread: off, on, or failed (error is set)
    disk,       \* the attempt directory of each generation of each job
    faults

worker == <<pc, seen, lease, beat>>
workerVars == <<vars, worker, disk, faults>>

\* Steps of _execute_claim inside its try.
Guarded == {"build", "publish", "renew", "flush", "rename", "names", "ended", "report"}
Steps == Guarded \cup {"down", "stopped", "poll", "claim", "staging", "broken",
                       "cut", "failing", "interrupted", "finish"}

\* none, staged: private, synced: private and flushed, renamed: visible,
\* durable: visible even after a power loss.
Directory == {"none", "staged", "synced", "renamed", "durable"}

\* Every worker is at a step of the program, and holds a lease exactly while
\* it executes one (_run_worker).
WorkerTypeOK ==
    /\ pc \in [Worker -> Steps]
    /\ seen \in [Worker -> SUBSET Batch]
    /\ lease \in [Worker -> [job : Job, generation : 1..MaxGeneration] \cup {NoLease}]
    /\ beat \in [Worker -> {"off", "on", "failed"}]
    /\ disk \in [Job -> [1..MaxGeneration -> Directory]]
    /\ faults \in 0..MaxFaults
    /\ \A w \in Worker :
          lease[w] = NoLease <=> pc[w] \in {"down", "stopped", "poll", "claim", "finish"}

WorkerInit ==
    /\ Init
    /\ pc = [w \in Worker |-> "down"]
    /\ seen = [w \in Worker |-> {}]
    /\ lease = [w \in Worker |-> NoLease]
    /\ beat = [w \in Worker |-> "off"]
    /\ disk = [j \in Job |-> [g \in 1..MaxGeneration |-> "none"]]
    /\ faults = 0

JobOf(w) == lease[w].job
GenerationOf(w) == lease[w].generation
DirectoryOf(w) == disk[JobOf(w)][GenerationOf(w)]

Goto(w, step) == pc' = [pc EXCEPT ![w] = step]

SetDirectory(w, d) == disk' = [disk EXCEPT ![JobOf(w)][GenerationOf(w)] = d]

\* The worker gives its lease up and its heartbeat is stopped.
LeaveExecution(w, step) ==
    /\ Goto(w, step)
    /\ lease' = [lease EXCEPT ![w] = NoLease]
    /\ beat' = [beat EXCEPT ![w] = "off"]
    /\ UNCHANGED <<seen, disk>>

-----------------------------------------------------------------------------
(* The loop of _run_worker.                                                *)

\* Startup requires the synchronized queue.
Start(w) ==
    /\ pc[w] \in {"down", "stopped"}
    /\ armed /\ order # <<>>
    /\ Goto(w, "poll")
    /\ UNCHANGED <<vars, seen, lease, beat, disk, faults>>

\* An active block is found, possibly one that another worker just admitted.
Look(w) ==
    /\ pc[w] = "poll"
    /\ primary # NoBatch
    /\ seen' = [seen EXCEPT ![w] = {primary, lookahead} \ {NoBatch}]
    /\ Goto(w, "claim")
    /\ UNCHANGED <<vars, lease, beat, disk, faults>>

\* The schedule is open and no block is active: admit the next one.
Open(w) ==
    /\ pc[w] = "poll"
    /\ \E b \in Batch, id \in Admission :
          /\ StartNextBlock(b, id, TRUE, TRUE)
          /\ seen' = [seen EXCEPT ![w] = {b}]
    /\ Goto(w, "claim")
    /\ UNCHANGED <<lease, beat, disk, faults>>

\* Tail fill: admit a look-ahead block, or learn of the one admitted.
TailFill(w) ==
    /\ pc[w] = "claim"
    /\ Cardinality(seen[w]) = 1
    /\ \/ \E b \in Batch : AdmitLookaheadBlock(b)
       \/ /\ armed /\ ~paused
          /\ primary # NoBatch /\ lookahead # NoBatch
          /\ UNCHANGED vars
    /\ seen' = [seen EXCEPT ![w] = {primary', lookahead'}]
    /\ UNCHANGED <<pc, lease, beat, disk, faults>>

Take(w) ==
    /\ pc[w] = "claim"
    /\ \E j \in Job :
          /\ Claim(j, seen[w], Job)
          /\ lease' = [lease EXCEPT ![w] =
                          [job |-> j, generation |-> jobs'[j].generation]]
    /\ Goto(w, "staging")
    /\ UNCHANGED <<seen, beat, disk, faults>>

\* The claim returns nothing; its recovery of expired leases stands.
TakeNothing(w) ==
    LET rows == Recovered(jobs) IN
    /\ pc[w] = "claim"
    /\ ~armed \/ paused \/ ~SlotFree(rows) \/ Claimable(rows, seen[w], Job) = {}
    /\ jobs' = rows
    /\ Goto(w, "finish")
    /\ UNCHANGED <<quarantined, state, admissions, seen, lease, beat, disk, faults>>

\* Mutant: a worker whose claim was empty leaves the block to the others.
LeaveBlock(w) ==
    /\ pc[w] = "finish"
    /\ Goto(w, "poll")
    /\ UNCHANGED <<vars, seen, lease, beat, disk, faults>>

\* finish_active_block_if_drained, after an execution or an empty claim.
FinishBlock(w) ==
    /\ pc[w] = "finish"
    /\ \/ FinishActiveBlockIfDrained
       \/ /\ primary = NoBatch \/ (primary \in ActiveBatches /\ Remaining(primary) # {})
          /\ UNCHANGED vars
    /\ Goto(w, "poll")
    /\ UNCHANGED <<seen, lease, beat, disk, faults>>

-----------------------------------------------------------------------------
(* _execute_claim.                                                         *)

\* The worker presents its lease, and the coordinator accepts it.
Accepted(w) == lease[w] # NoLease /\ HoldsLease(JobOf(w), GenerationOf(w))

\* _staging_root: an attempt directory that exists already is an error
\* outside the try, which ends the worker.
MakeStaging(w) ==
    /\ pc[w] = "staging"
    /\ IF DirectoryOf(w) \in {"renamed", "durable"}
       THEN LeaveExecution(w, "stopped")
       ELSE /\ SetDirectory(w, "staged")
            /\ beat' = [beat EXCEPT ![w] = "on"]
            /\ Goto(w, "build")
            /\ UNCHANGED <<seen, lease>>
    /\ UNCHANGED <<vars, faults>>

\* The heartbeat thread renews, or gives up: the lease is lost, or the
\* database stayed locked for too long.
Beat(w) ==
    /\ beat[w] = "on"
    /\ Renew(JobOf(w), GenerationOf(w))
    /\ UNCHANGED <<worker, disk, faults>>

BeatFails(w) ==
    /\ beat[w] = "on"
    /\ \/ ~Accepted(w) /\ UNCHANGED faults
       \/ faults < MaxFaults /\ faults' = faults + 1
    /\ beat' = [beat EXCEPT ![w] = "failed"]
    /\ UNCHANGED <<vars, pc, seen, lease, disk>>

\* run_cell returned a result and the heartbeat is checked.
Build(w) ==
    /\ pc[w] = "build"
    /\ Goto(w, IF beat[w] = "failed" THEN "failing" ELSE "publish")
    /\ UNCHANGED <<vars, seen, lease, beat, disk, faults>>

\* progress() checks the heartbeat, then records the publication stage.
BeginPublication(w) ==
    /\ pc[w] = "publish"
    /\ beat[w] # "failed"
    /\ RecordStarted(JobOf(w), GenerationOf(w), Publication)
    /\ Goto(w, "renew")
    /\ UNCHANGED <<seen, lease, beat, disk, faults>>

RenewToPublish(w) ==
    /\ pc[w] = "renew"
    /\ Renew(JobOf(w), GenerationOf(w))
    /\ Goto(w, "flush")
    /\ UNCHANGED <<seen, lease, beat, disk, faults>>

\* _durably_publish: fsync the staged files and directories, ...
Flush(w) ==
    /\ pc[w] = "flush"
    /\ SetDirectory(w, "synced")
    /\ Goto(w, "rename")
    /\ UNCHANGED <<vars, seen, lease, beat, faults>>

\* Mutant: the new names are not flushed before the result is reported.
RenameAndReport(w) ==
    /\ pc[w] = "rename"
    /\ SetDirectory(w, "renamed")
    /\ Goto(w, "ended")
    /\ UNCHANGED <<vars, seen, lease, beat, faults>>

\* ... os.replace the staging directory with the attempt directory, ...
Rename(w) ==
    /\ pc[w] = "rename"
    /\ SetDirectory(w, "renamed")
    /\ Goto(w, "names")
    /\ UNCHANGED <<vars, seen, lease, beat, faults>>

\* ... and fsync the new names.
FlushNames(w) ==
    /\ pc[w] = "names"
    /\ SetDirectory(w, "durable")
    /\ Goto(w, "ended")
    /\ UNCHANGED <<vars, seen, lease, beat, faults>>

EndPublication(w) ==
    /\ pc[w] = "ended"
    /\ beat[w] # "failed"
    /\ RecordEnded(JobOf(w), GenerationOf(w), Publication, "completed")
    /\ Goto(w, "report")
    /\ UNCHANGED <<seen, lease, beat, disk, faults>>

\* Mutant: the worker keeps the lease it reported.
ReportAndKeep(w) ==
    /\ pc[w] = "report"
    /\ Complete(JobOf(w), GenerationOf(w))
    /\ Goto(w, "finish")
    /\ UNCHANGED <<seen, lease, beat, disk, faults>>

Report(w) ==
    /\ pc[w] = "report"
    /\ Complete(JobOf(w), GenerationOf(w))
    /\ LeaveExecution(w, "finish")
    /\ UNCHANGED faults

\* A coordinator call raises LeaseConflictError, or heartbeat.check() does.
Refused(w) ==
    /\ \/ pc[w] \in {"publish", "ended", "broken", "cut"} /\ (beat[w] = "failed" \/ ~Accepted(w))
       \/ pc[w] \in {"renew", "report"} /\ ~Accepted(w)
    /\ Goto(w, "failing")
    /\ UNCHANGED <<vars, seen, lease, beat, disk, faults>>

FailsAt(w, step) ==
    /\ faults < MaxFaults
    /\ faults' = faults + 1
    /\ Goto(w, step)
    /\ UNCHANGED <<vars, seen, lease, beat, disk>>

\* run_cell raises.
RunBreaks(w) == pc[w] = "build" /\ FailsAt(w, "failing")

\* Before the flush the result is refused, for a timing record that is not
\* whole or a material that is no file of the staging directory, ...
ResultRefused(w) == pc[w] = "flush" /\ FailsAt(w, "broken")

\* ... or for a seal that does not bind the materials and the timing.
SealRefused(w) == pc[w] = "flush" /\ FailsAt(w, "broken")

\* The file system fails.  The open publication stage is recorded as failed
\* first.
PublishBreaks(w) == pc[w] \in {"flush", "rename", "names"} /\ FailsAt(w, "broken")

Breaks(w) == RunBreaks(w) \/ ResultRefused(w) \/ SealRefused(w) \/ PublishBreaks(w)

\* If this is refused, Refused turns an interrupt into an ordinary failure.
RecordBroken(w) ==
    /\ pc[w] \in {"broken", "cut"}
    /\ beat[w] # "failed"
    /\ RecordEnded(JobOf(w), GenerationOf(w), Publication, "failed")
    /\ Goto(w, IF pc[w] = "broken" THEN "failing" ELSE "interrupted")
    /\ UNCHANGED <<seen, lease, beat, disk, faults>>

\* except Exception: report the failure; a lost lease is nobody's failure.
ReportFailure(w) ==
    /\ pc[w] = "failing"
    /\ \/ \E retryable \in BOOLEAN :
             Fail(JobOf(w), GenerationOf(w), retryable, FALSE, NoClass)
       \/ Fail(JobOf(w), GenerationOf(w), FALSE, TRUE, NoClass)
       \/ ~Accepted(w) /\ UNCHANGED vars
    /\ LeaveExecution(w, "finish")
    /\ UNCHANGED faults

\* SIGTERM in the try: an open publication stage is recorded as failed, the
\* job is handed back, then the worker exits.
Interrupted(w) ==
    /\ pc[w] \in Guarded
    /\ faults < MaxFaults
    /\ faults' = faults + 1
    /\ Goto(w, IF pc[w] \in {"renew", "flush", "rename", "names"} THEN "cut"
               ELSE "interrupted")
    /\ UNCHANGED <<vars, seen, lease, beat, disk>>

ReportInterrupt(w) ==
    /\ pc[w] = "interrupted"
    /\ \/ Fail(JobOf(w), GenerationOf(w), TRUE, FALSE, NoClass)
       \/ ~Accepted(w) /\ UNCHANGED vars
    /\ LeaveExecution(w, "stopped")
    /\ UNCHANGED faults

\* Nothing is reported after SIGKILL (the worker is down), nor after SIGTERM
\* or an exception outside the try (it exits by itself: stopped).
Kill(w) ==
    /\ pc[w] \notin {"down", "stopped"}
    /\ faults < MaxFaults
    /\ faults' = faults + 1
    /\ \E step \in {"down", "stopped"} : LeaveExecution(w, step)
    /\ UNCHANGED vars

\* Every worker stops; a rename whose directories were not flushed may be
\* lost.  The ledger is synchronous=FULL: its commits stay.
PowerLoss ==
    /\ faults < MaxFaults
    /\ faults' = faults + 1
    /\ pc' = [w \in Worker |-> "down"]
    /\ lease' = [w \in Worker |-> NoLease]
    /\ beat' = [w \in Worker |-> "off"]
    /\ \E lost \in BOOLEAN :
          disk' = [j \in Job |-> [g \in 1..MaxGeneration |->
                      IF disk[j][g] = "renamed" /\ lost THEN "synced" ELSE disk[j][g]]]
    /\ UNCHANGED <<vars, seen>>

-----------------------------------------------------------------------------
SynchronizeQueue ==
    /\ order = <<>>
    /\ \E c \in Configs : SyncQueue(c)
    /\ UNCHANGED <<worker, disk, faults>>

Clock == Tick /\ UNCHANGED <<worker, disk, faults>>

\* What a worker does unless something stops it.
Works(w) ==
    \/ Look(w) \/ Open(w) \/ TailFill(w) \/ Take(w) \/ TakeNothing(w) \/ FinishBlock(w)
    \/ MakeStaging(w) \/ Build(w) \/ BeginPublication(w) \/ RenewToPublish(w)
    \/ Flush(w) \/ Rename(w) \/ FlushNames(w) \/ EndPublication(w) \/ Report(w)
    \/ Refused(w) \/ RecordBroken(w) \/ ReportFailure(w) \/ ReportInterrupt(w)

Fault(w) == Breaks(w) \/ Interrupted(w) \/ Kill(w)

WorkerNext ==
    \/ SynchronizeQueue
    \/ Clock
    \/ \E w \in Worker : Start(w) \/ Works(w) \/ Beat(w) \/ BeatFails(w) \/ Fault(w)
    \/ PowerLoss

WorkerSpec == WorkerInit /\ [][WorkerNext]_workerVars

Restart(w) == pc[w] = "down" /\ Start(w)

\* systemd (Restart=on-abnormal) restarts a worker that a signal killed and
\* starts all after a boot, but leaves one that exited by itself, whatever
\* its status.  A running worker keeps going.
WorkerFairness ==
    /\ WF_workerVars(SynchronizeQueue)
    /\ WF_workerVars(Clock)
    /\ \A w \in Worker : WF_workerVars(Restart(w)) /\ WF_workerVars(Works(w))

-----------------------------------------------------------------------------
\* A completed job's attempt directory is there, and a power loss cannot
\* take it away: _durably_publish precedes complete, whatever became of the
\* other attempts.
ResultDurable ==
    \A j \in Job :
        jobs[j].state = "complete" => disk[j][jobs[j].generation] = "durable"

\* finish_started_batch: work is executed only in the admitted blocks, even
\* by a worker that claims from a block document it read earlier, and an
\* admitted block is not closed under an executing worker.
AdmittedWork ==
    \A j \in Job : Live(jobs[j]) => BatchOf[j] \in {primary, lookahead}

\* _staging_root's error "attempt publication already exists" never stops a
\* worker: a generation that left a directory behind is never leased again.
FreshAttempt ==
    \A w \in Worker : pc[w] = "staging" => DirectoryOf(w) = "none"

\* Every job settles although workers die: another worker's claim recovers
\* its lease, and drained blocks give way to the next one (_run_worker).
WorkSettles ==
    \A j \in Job : jobs[j].state = "queued" ~> jobs[j].state \in {"complete", "failed"}
=============================================================================
