--------------------------- MODULE ValidationRun ---------------------------
(***************************************************************************)
(* One machine-validation run (machine_validation_runner.py and            *)
(* machine_validation_state.py): a supervisor process prepares the         *)
(* positions, starts worker processes that claim positions through files   *)
(* created exclusively, restarts workers that die, kills those that exceed *)
(* the cell timeout, and reports; the operator starts, pauses, requeues    *)
(* and resumes.  They share only files: the status document, the claims,   *)
(* the results and the pause request.  Every file operation is a step of   *)
(* its own.                                                                *)
(*                                                                         *)
(* The run is a full one (with post-processing), and a failed cell does    *)
(* not stop its worker (continue_after_cell_failure is set in              *)
(* validation/machine-validation-runtime.toml).  Operator commands follow  *)
(* one another, and a resumption detaches.  A process id is the attempt of *)
(* a supervisor, or the attempt and slot of a worker: ids are not reused.  *)
(***************************************************************************)
EXTENDS Naturals, Sequences, FiniteSets

CONSTANTS
    Queue,            \* the positions in the order of _cost_aware_positions
    Slots,            \* as many as execution.workers
    TimeoutAttempts,  \* execution.cell_timeout_attempts
    MaxRestarts,      \* execution.maximum_worker_restarts
    None,             \* no claim, no worker
    MaxAttempts,      \* bound: supervisors started
    MaxFaults         \* bound: errors, failed cells, timeouts, crashes and kills

Turns == 1..Len(Queue)
Positions == {Queue[i] : i \in Turns}
Workers == (1..MaxAttempts) \X Slots

\* What load_runtime asks of the runtime's execution policy.
RuntimeAccepted ==
    /\ {TimeoutAttempts, MaxRestarts} \subseteq Nat \ {0}
    /\ Slots # {} /\ IsFiniteSet(Slots)

ASSUME ValidationAssumption ==
    /\ RuntimeAccepted
    /\ Queue \in Seq(Nat) /\ Queue # <<>>
    /\ MaxAttempts \in Nat \ {0} /\ MaxFaults \in Nat
    /\ None \notin Workers \cup [by : Workers, signed : BOOLEAN]

VARIABLES
    sup,        \* the supervisor: its step, attempt and local variables
    workers,    \* the worker processes and what the supervisor knows of them
    claims,     \* claims/<position>.json: a worker, once it wrote its pid
    result,     \* result.json of a unit; timeout: failed by cell-timeout
    timeouts,   \* archived cell-timeouts since the latest requeue receipt
    status,     \* status.json
    pause,      \* pause-request.json exists
    lock,       \* .runner.lock: the attempt of its owner, 0 when absent
    op,         \* the operator's command in progress
    orphaned,   \* a supervisor was killed and workers outlived it
    faults

files == <<claims, result, timeouts>>
validationVars == <<sup, workers, files, status, pause, lock, op, orphaned, faults>>

ActiveStates == {"queued", "preparing-index", "preparing-units", "running",
                 "pausing", "postprocessing", "retaining"}
StoppedStates == {"paused", "failed", "postprocess-failed", "complete"}
StatusType ==
    [state : ActiveStates \cup StoppedStates \cup {"not-started"}, by : 0..MaxAttempts,
     cells : {"unknown", "incomplete", "complete"}]
WorkerType ==
    [pc : {"none", "look", "try", "sign", "run", "report", "dead"},
     todo : SUBSET Turns, restarts : 0..MaxRestarts, finished : BOOLEAN, handled : BOOLEAN]

Supervisor(step, attempt) ==
    [pc |-> step, attempt |-> attempt, pending |-> {}, worker |-> None,
     victim |-> Queue[1], released |-> {}, overtaken |-> {}]
NoStatus == [state |-> "not-started", by |-> 0, cells |-> "unknown"]
NoCommand == [pc |-> "idle", doc |-> NoStatus]
NoWorker == [pc |-> "none", todo |-> {}, restarts |-> 0,
             finished |-> FALSE, handled |-> TRUE]

ValidationInit ==
    /\ sup = Supervisor("gone", 0)
    /\ workers = [w \in Workers |-> NoWorker]
    /\ claims = [p \in Positions |-> None]
    /\ result = [p \in Positions |-> "none"]
    /\ timeouts = [p \in Positions |-> 0]
    /\ status = NoStatus
    /\ pause = FALSE
    /\ lock = 0
    /\ op = NoCommand
    /\ orphaned = FALSE
    /\ faults = 0

Terminal(p) == result[p] # "none"
AllComplete == \A p \in Positions : result[p] = "complete"

\* complete_work_units against expected_work_units.
Counted == IF AllComplete THEN "complete" ELSE "incomplete"

\* A list of positions is kept as the set of their turns in the queue, whose
\* order it has: the head of the list is the foremost of them.
Foremost(turns) == CHOOSE i \in turns : \A j \in turns : i <= j
Cell(w) == Queue[Foremost(workers[w].todo)]
Alive(w) == workers[w].pc \notin {"none", "dead"}
Unsigned(w) == [by |-> w, signed |-> FALSE]
Signed(w) == [by |-> w, signed |-> TRUE]
Owns(w, p) == claims[p] = Signed(w)
Released(w) == [p \in Positions |-> IF Owns(w, p) THEN None ELSE claims[p]]

\* _validation_process_active: the pid is that of a live supervisor.
ProcessActive(attempt) == attempt # 0 /\ sup.attempt = attempt /\ sup.pc # "gone"

\* runtime_status: an active state without its process reads interrupted.
Reported ==
    IF status.state \in ActiveStates /\ ~ProcessActive(status.by)
    THEN "interrupted" ELSE status.state

Fault == faults < MaxFaults /\ faults' = faults + 1

-----------------------------------------------------------------------------
(* The supervisor (run_validation).                                        *)

At(step) == sup.pc = step
Goto(step) == sup' = [sup EXCEPT !.pc = step]
End == sup' = Supervisor("gone", sup.attempt)

WriteStatus(state) ==
    status' = [state |-> state, by |-> sup.attempt, cells |-> Counted]

Crew == {w \in Workers : w[1] = sup.attempt}

Stopped(ws) ==
    [w \in Workers |-> IF w \in ws /\ Alive(w)
                       THEN [workers[w] EXCEPT !.pc = "dead", !.todo = {}] ELSE workers[w]]

TakeLock ==
    /\ At("start") /\ lock = 0
    /\ lock' = sup.attempt
    /\ WriteStatus("preparing-index")
    /\ Goto("index")
    /\ UNCHANGED <<workers, files, pause, op, orphaned, faults>>

\* Signatures, archives or tools are missing, the production queue is busy, or
\* the disk or the memory is short: nothing is written yet.
EvidenceRefused == lock = 0 /\ Fault /\ UNCHANGED lock

\* An error before the try: of the evidence, of the lock that is there, or of
\* the first writes, which leaves the lock behind.
ExitEarly ==
    /\ At("start")
    /\ \/ EvidenceRefused
       \/ lock = 0 /\ Fault /\ lock' = sup.attempt
       \/ lock # 0 /\ UNCHANGED <<lock, faults>>
    /\ End
    /\ UNCHANGED <<workers, files, status, pause, op, orphaned>>

\* The reference index is there: select the pending positions and remove
\* all claims.
Plan ==
    /\ At("index")
    /\ sup' = [sup EXCEPT !.pc = "prepare",
                          !.pending = {i \in Turns : ~Terminal(Queue[i])}]
    /\ claims' = [p \in Positions |-> None]
    /\ UNCHANGED <<workers, result, timeouts, status, pause, lock, op, orphaned, faults>>

\* Prepare the units unless a pause is requested; the preparation of one
\* of them may fail.
Prepare ==
    /\ At("prepare")
    /\ \/ /\ pause \/ sup.pending = {}
          /\ UNCHANGED <<result, status, faults>>
       \/ /\ ~pause /\ sup.pending # {}
          /\ WriteStatus("preparing-units")
          /\ \/ UNCHANGED <<result, faults>>
             \/ /\ Fault
                /\ \E i \in sup.pending :
                      LET p == Queue[i] IN
                      result' = [result EXCEPT ![p] = IF Terminal(p) THEN @ ELSE "failed"]
    /\ Goto("spawn")
    /\ UNCHANGED <<workers, claims, timeouts, pause, lock, op, orphaned>>

Process(restarts) ==
    [pc |-> "look", todo |-> sup.pending, restarts |-> restarts,
     finished |-> FALSE, handled |-> FALSE]

Spawn ==
    /\ At("spawn")
    /\ \E started \in SUBSET Slots :
          /\ Cardinality(started) =
                IF pause THEN 0
                ELSE IF Cardinality(sup.pending) < Cardinality(Slots)
                     THEN Cardinality(sup.pending) ELSE Cardinality(Slots)
          /\ workers' = [w \in Workers |->
                            IF w \in Crew /\ w[2] \in started THEN Process(0) ELSE workers[w]]
    /\ Goto("loop")
    /\ UNCHANGED <<files, status, pause, lock, op, orphaned, faults>>

\* The loop looks at the pause request and then at its workers one by one;
\* here in any order, which only adds behaviours.
SeePause ==
    /\ At("loop") /\ pause
    /\ WriteStatus("pausing")
    /\ Goto("stopping")
    /\ UNCHANGED <<workers, files, pause, lock, op, orphaned, faults>>

StopCrew ==
    /\ At("stopping")
    /\ workers' = Stopped(Crew)
    /\ Goto("paused")
    /\ UNCHANGED <<files, status, pause, lock, op, orphaned, faults>>

WritePaused ==
    /\ At("paused")
    /\ WriteStatus("paused")
    /\ Goto("unlock")
    /\ UNCHANGED <<workers, files, pause, lock, op, orphaned, faults>>

\* _timed_out_position: the progress file names a position and its start.
SeeTimeout ==
    /\ At("loop")
    /\ \E w \in Crew :
          /\ workers[w].pc \in {"run", "report"}
          /\ Fault
          /\ sup' = [sup EXCEPT !.pc = "kill", !.worker = w, !.victim = Cell(w)]
    /\ UNCHANGED <<workers, files, status, pause, lock, op, orphaned>>

\* Mutant: the claims are released, the process group goes on.
ReleaseTimedOut ==
    /\ At("kill")
    /\ claims' = Released(sup.worker)
    /\ Goto("fail")
    /\ UNCHANGED <<workers, result, timeouts, status, pause, lock, op, orphaned, faults>>

\* Its whole process group is stopped, and then its claims are released.
KillTimedOut ==
    /\ At("kill")
    /\ workers' = Stopped({sup.worker})
    /\ claims' = Released(sup.worker)
    /\ Goto("fail")
    /\ UNCHANGED <<result, timeouts, status, pause, lock, op, orphaned, faults>>

\* _supervisor_failure keeps a result that it finds, but the position has
\* been claimable since KillTimedOut: another may be written before its own.
\* sup.overtaken remembers the results of workers that it destroyed so.
Overtaken(ps) == sup.overtaken \cup {p \in ps : result[p] \in {"complete", "failed"}}

CheckVictim ==
    /\ At("fail")
    /\ Goto(IF Terminal(sup.victim) THEN "archive" ELSE "write")
    /\ UNCHANGED <<workers, files, status, pause, lock, op, orphaned, faults>>

RecordTimeout ==
    /\ At("write")
    /\ result' = [result EXCEPT ![sup.victim] = "timeout"]
    /\ sup' = [sup EXCEPT !.pc = "archive", !.overtaken = Overtaken({sup.victim})]
    /\ UNCHANGED <<workers, claims, timeouts, status, pause, lock, op, orphaned, faults>>

\* The failure is archived, for another attempt, up to the allowance of the
\* generation; what the rename takes may be a later result.
NextAttempt(step) ==
    IF step = "move" THEN Goto(step) ELSE sup' = [sup EXCEPT !.pc = step, !.victim = Queue[1]]

AllowAttempt ==
    /\ At("archive")
    /\ NextAttempt(IF /\ timeouts[sup.victim] + 1 < TimeoutAttempts
                      /\ result[sup.victim] = "timeout"
                   THEN "move" ELSE "exit")
    /\ UNCHANGED <<workers, files, status, pause, lock, op, orphaned, faults>>

ArchiveTimeout ==
    /\ At("move")
    /\ result' = [result EXCEPT ![sup.victim] = "none"]
    /\ timeouts' = [timeouts EXCEPT ![sup.victim] =
                        IF result[sup.victim] = "timeout" THEN @ + 1 ELSE @]
    /\ sup' = [sup EXCEPT !.pc = "exit", !.victim = Queue[1],
                          !.overtaken = Overtaken({sup.victim})]
    /\ UNCHANGED <<workers, claims, status, pause, lock, op, orphaned, faults>>

SeeExit ==
    /\ \E w \in Crew :
          /\ \/ At("exit") /\ w = sup.worker
             \/ At("loop") /\ ~Alive(w) /\ ~workers[w].handled
          /\ sup' = [sup EXCEPT !.pc = "decide", !.worker = w,
                                !.released = {p \in Positions : Owns(w, p)}]
          /\ claims' = Released(w)
    /\ UNCHANGED <<workers, result, timeouts, status, pause, lock, op, orphaned, faults>>

\* The worker is replaced, given up, or failed on what it had claimed.
Disposed(replaced) ==
    LET w == workers[sup.worker]
        lost == {p \in sup.released : ~w.finished /\ ~replaced /\ ~Terminal(p)}
    IN
    IF lost # {}
    THEN sup' = [sup EXCEPT !.pc = "exhausted", !.released = lost] /\ UNCHANGED workers
    ELSE /\ sup' = [sup EXCEPT !.pc = "loop", !.released = {}, !.worker = None]
         /\ workers' = [workers EXCEPT ![sup.worker] =
                           IF replaced THEN Process(w.restarts + 1)
                           ELSE [w EXCEPT !.handled = TRUE]]

RemainingCells == {i \in sup.pending : ~Terminal(Queue[i])}

\* A worker that finished its list is done; another one is replaced while
\* work remains.
Decide ==
    /\ At("decide")
    /\ Disposed(/\ ~workers[sup.worker].finished /\ RemainingCells # {}
                /\ workers[sup.worker].restarts < MaxRestarts)
    /\ UNCHANGED <<files, status, pause, lock, op, orphaned, faults>>

FailClaimed ==
    /\ At("exhausted")
    /\ result' = [p \in Positions |-> IF p \in sup.released THEN "failed" ELSE result[p]]
    /\ workers' = [workers EXCEPT ![sup.worker] = [workers[sup.worker] EXCEPT !.handled = TRUE]]
    /\ sup' = [sup EXCEPT !.pc = "loop", !.released = {}, !.worker = None,
                          !.overtaken = Overtaken(sup.released)]
    /\ UNCHANGED <<claims, timeouts, status, pause, lock, op, orphaned, faults>>

\* A request made before the workers were to be started is always seen.
EndIteration ==
    /\ At("loop")
    /\ pause /\ sup.pending # {} => \E w \in Crew : workers[w] # NoWorker
    /\ IF \A w \in Crew : workers[w].handled
       THEN Goto("aggregate") /\ UNCHANGED status
       ELSE WriteStatus("running") /\ UNCHANGED sup
    /\ UNCHANGED <<workers, files, pause, lock, op, orphaned, faults>>

\* _aggregate: complete when every expected position is.
Aggregate ==
    /\ At("aggregate")
    /\ IF AllComplete
       THEN Goto("analyze") /\ WriteStatus("postprocessing")
       ELSE Goto("unlock") /\ WriteStatus("failed")
    /\ UNCHANGED <<workers, files, pause, lock, op, orphaned, faults>>

\* analyze_hashes, then the lock is given up for the retention collector.
Analyze ==
    /\ At("analyze")
    /\ WriteStatus("retaining")
    /\ lock' = 0
    /\ Goto("retain")
    /\ UNCHANGED <<workers, files, pause, op, orphaned, faults>>

Retain ==
    /\ At("retain")
    /\ WriteStatus("complete")
    /\ Goto("unlock")
    /\ UNCHANGED <<workers, files, pause, lock, op, orphaned, faults>>

\* except Exception: the workers are stopped first.
Breaks ==
    /\ sup.pc \notin {"gone", "start", "unlock"}
    /\ Fault
    /\ workers' = Stopped(Crew)
    /\ WriteStatus(IF sup.pc \in {"analyze", "retain"} THEN "postprocess-failed" ELSE "failed")
    /\ Goto("unlock")
    /\ UNCHANGED <<files, pause, lock, op, orphaned>>

Unlock ==
    /\ At("unlock")
    /\ lock' = 0
    /\ End
    /\ UNCHANGED <<workers, files, status, pause, op, orphaned, faults>>

-----------------------------------------------------------------------------
(* A worker process (_worker).                                             *)

Is(w, step) == workers[w].pc = step
Step(w, step) == workers' = [workers EXCEPT ![w] = [workers[w] EXCEPT !.pc = step]]
Leave(w) ==
    LET left == workers[w].todo \ {Foremost(workers[w].todo)} IN
    workers' = [workers EXCEPT ![w] =
                  [workers[w] EXCEPT !.todo = left, !.finished = left = {},
                                     !.pc = IF left = {} THEN "dead" ELSE "look"]]

\* A terminal result is looked for before the claim, ...
Look(w) ==
    /\ Is(w, "look")
    /\ IF Terminal(Cell(w)) THEN Leave(w) ELSE Step(w, "try")
    /\ UNCHANGED <<sup, files, status, pause, lock, op, orphaned, faults>>

\* ... the claim is created exclusively and names its owner only after that, ...
ClaimCell(w) ==
    /\ Is(w, "try")
    /\ IF claims[Cell(w)] = None
       THEN /\ claims' = [claims EXCEPT ![Cell(w)] = Unsigned(w)]
            /\ Step(w, "sign")
       ELSE Leave(w) /\ UNCHANGED claims
    /\ UNCHANGED <<sup, result, timeouts, status, pause, lock, op, orphaned, faults>>

\* Mutant: the result seen before the claim is trusted.
Trust(w) ==
    /\ Is(w, "sign")
    /\ claims' = [claims EXCEPT ![Cell(w)] = IF @ = Unsigned(w) THEN Signed(w) ELSE @]
    /\ Step(w, "run")
    /\ UNCHANGED <<sup, result, timeouts, status, pause, lock, op, orphaned, faults>>

\* ... and the result is looked for again once the claim is held.
Sign(w) ==
    /\ Is(w, "sign")
    /\ IF Terminal(Cell(w))
       THEN /\ claims' = [claims EXCEPT ![Cell(w)] =
                             IF @ = Unsigned(w) THEN None ELSE @]
            /\ Leave(w)
       ELSE /\ claims' = [claims EXCEPT ![Cell(w)] = IF @ = Unsigned(w) THEN Signed(w) ELSE @]
            /\ Step(w, "run")
    /\ UNCHANGED <<sup, result, timeouts, status, pause, lock, op, orphaned, faults>>

\* The result is written whatever another process wrote meanwhile.
EndCell(w) ==
    /\ Is(w, "run")
    /\ \/ result' = [result EXCEPT ![Cell(w)] = "complete"] /\ UNCHANGED faults
       \/ result' = [result EXCEPT ![Cell(w)] = "failed"] /\ Fault
    /\ Step(w, "report")
    /\ UNCHANGED <<sup, claims, timeouts, status, pause, lock, op, orphaned>>

\* The progress file names the position until it reads idle.
Release(w) ==
    /\ Is(w, "report")
    /\ claims' = [claims EXCEPT ![Cell(w)] = IF Owns(w, Cell(w)) THEN None ELSE @]
    /\ Leave(w)
    /\ UNCHANGED <<sup, result, timeouts, status, pause, lock, op, orphaned, faults>>

Die(w) ==
    /\ Alive(w)
    /\ Fault
    /\ workers' = Stopped({w})
    /\ UNCHANGED <<sup, files, status, pause, lock, op, orphaned>>

-----------------------------------------------------------------------------
(* The operator's commands, and the end of processes.                      *)

Idle == op = NoCommand
Command(step, doc) == op' = [pc |-> step, doc |-> doc]

\* start_validation, resume_validation: the status, then the process, then
\* the status with its pid.
Start ==
    /\ Idle /\ status.state = "not-started"
    /\ status' = [status EXCEPT !.state = "queued"]
    /\ Command("start", status')
    /\ UNCHANGED <<sup, workers, files, pause, lock, orphaned, faults>>

\* The conditions of resume_validation on the status and the results.
Resumable ==
    /\ Reported \in {"paused", "interrupted", "failed", "postprocess-failed"}
    /\ ~ProcessActive(status.by)
    /\ IF status.state = "postprocess-failed"
       THEN AllComplete ELSE status.cells = "incomplete"

ResumeRun ==
    /\ Idle /\ sup.attempt < MaxAttempts
    /\ Resumable
    /\ ~ProcessActive(lock)
    /\ lock' = 0
    /\ pause' = FALSE
    /\ status' = [status EXCEPT !.state = "queued", !.by = 0,
                     !.cells = IF status.state = "postprocess-failed" THEN "complete" ELSE @]
    /\ Command("resume", status')
    /\ UNCHANGED <<sup, workers, files, orphaned, faults>>

SpawnRun ==
    /\ op.pc \in {"start", "resume"}
    /\ sup' = Supervisor("start", sup.attempt + 1)
    /\ workers' = [w \in Workers |-> IF Alive(w) THEN workers[w] ELSE NoWorker]
    /\ Command(IF op.pc = "start" THEN "reread" ELSE "pid", op.doc)
    /\ UNCHANGED <<files, status, pause, lock, orphaned, faults>>

Reread ==
    /\ op.pc = "reread"
    /\ Command("pid", status)
    /\ UNCHANGED <<sup, workers, files, status, pause, lock, orphaned, faults>>

RecordPid ==
    /\ op.pc = "pid"
    /\ status' = [op.doc EXCEPT !.by = sup.attempt]
    /\ op' = NoCommand
    /\ UNCHANGED <<sup, workers, files, pause, lock, orphaned, faults>>

\* pause_validation of a stopped run ...
PauseStopped ==
    /\ Idle
    /\ \/ Reported = "interrupted"
       \/ status.state = "failed" /\ status.cells = "incomplete"
          /\ ~ProcessActive(status.by)
    /\ status' = [status EXCEPT !.state = "paused"]
    /\ UNCHANGED <<sup, workers, files, pause, lock, op, orphaned, faults>>

\* ... and of a running one, once in an attempt (a bound): the request, then
\* the status read before it.
RequestPause ==
    /\ Idle /\ ~pause
    /\ Reported \in {"queued", "preparing-index", "preparing-units", "running", "pausing"}
    /\ pause' = TRUE
    /\ Command("pausing", status)
    /\ UNCHANGED <<sup, workers, files, status, lock, orphaned, faults>>

WritePausing ==
    /\ op.pc = "pausing"
    /\ status' = [op.doc EXCEPT !.state = "pausing"]
    /\ op' = NoCommand
    /\ UNCHANGED <<sup, workers, files, pause, lock, orphaned, faults>>

\* requeue_failed_validation: the failed results of ps are archived, and
\* their timeout allowance begins again.
Requeue(ps) ==
    /\ Idle
    /\ Reported \in {"paused", "interrupted", "failed"}
    /\ ~ProcessActive(status.by)
    /\ \A p \in ps : result[p] \in {"failed", "timeout"}
    /\ result' = [p \in Positions |-> IF p \in ps THEN "none" ELSE result[p]]
    /\ timeouts' = [p \in Positions |-> IF p \in ps THEN 0 ELSE timeouts[p]]
    /\ status' = [status EXCEPT !.state = "paused",
                     !.cells = IF @ = "unknown" THEN @ ELSE "incomplete"]
    /\ UNCHANGED <<sup, workers, claims, pause, lock, op, orphaned, faults>>

\* The supervisor alone is killed; its workers, in sessions of their own, go on.
KillSupervisor ==
    /\ sup.pc # "gone" /\ Fault
    /\ End
    /\ orphaned' = (orphaned \/ \E w \in Workers : Alive(w))
    /\ UNCHANGED <<workers, files, status, pause, lock, op>>

\* The host, or the service all of it runs in, stops.
StopHost ==
    /\ sup.pc # "gone" /\ Fault
    /\ End
    /\ workers' = Stopped(Workers)
    /\ op' = NoCommand
    /\ UNCHANGED <<files, status, pause, lock, orphaned>>

-----------------------------------------------------------------------------
Supervises ==
    \/ TakeLock \/ ExitEarly \/ Plan \/ Prepare \/ Spawn \/ SeePause \/ StopCrew \/ WritePaused
    \/ SeeTimeout \/ KillTimedOut \/ CheckVictim \/ RecordTimeout
    \/ AllowAttempt \/ ArchiveTimeout \/ SeeExit \/ Decide \/ FailClaimed \/ EndIteration
    \/ Aggregate \/ Analyze \/ Retain \/ Unlock

\* All that a worker does by itself, but for the end of a cell.
Moves(w) ==
    Look(w) \/ ClaimCell(w) \/ Sign(w) \/ Release(w)

Operates ==
    \/ Start \/ ResumeRun \/ SpawnRun \/ Reread \/ RecordPid
    \/ PauseStopped \/ RequestPause \/ WritePausing
    \/ \E ps \in SUBSET Positions \ {{}} : Requeue(ps)

ValidationNext ==
    \/ Supervises \/ Breaks
    \/ \E w \in Workers : Moves(w) \/ EndCell(w) \/ Die(w)
    \/ Operates
    \/ KillSupervisor \/ StopHost

ValidationSpec == ValidationInit /\ [][ValidationNext]_validationVars

-----------------------------------------------------------------------------
\* The files and processes have the values that the code writes and reads.
ValidationTypeOK ==
    /\ sup.attempt \in 0..MaxAttempts
    /\ workers \in [Workers -> WorkerType]
    /\ claims \in [Positions -> [by : Workers, signed : BOOLEAN] \cup {None}]
    /\ result \in [Positions -> {"none", "complete", "failed", "timeout"}]
    /\ timeouts \in [Positions -> 0..(TimeoutAttempts - 1)]
    /\ status \in StatusType
    /\ lock \in 0..sup.attempt
    /\ \A p \in Positions : claims[p] # None => claims[p].by[1] <= sup.attempt

Runs(w, p) == workers[w].pc = "run" /\ Cell(w) = p

\* Workers of one supervisor never run the same position at the same time,
\* although their claims are released by themselves and by the supervisor,
\* after timeouts, exits and restarts (_claim_position, _release_worker_claims).
OneWorkerPerCell ==
    \A v, w \in Crew, p \in Positions : Runs(v, p) /\ Runs(w, p) => v = w

\* A complete result is lost to no worker, retry, requeue or resumption, and
\* to the supervisor only by what it writes or renames after it checked the
\* result of a position that it had released before (_worker's second look,
\* _supervisor_failure, _archive_failed_result); unless workers outlived
\* their supervisor.
CompleteKept ==
    [][\A p \in Positions :
          result[p] = "complete" /\ ~orphaned =>
              result'[p] = "complete" \/ p \in sup'.overtaken]_validationVars

\* A run that the operator may requeue or resume has no worker left, unless
\* it outlived its supervisor (pause_validation, run_validation).
StoppedIsStopped ==
    Reported \notin ActiveStates /\ ~orphaned => \A w \in Workers : ~Alive(w)

\* When the report is written every position has a result, unless a worker
\* slot used up its restarts, a worker died between the creation of its claim
\* and the writing of its pid, or the supervisor overtook its result
\* (run_validation).
NothingStranded ==
    At("aggregate") /\ ~orphaned =>
        \/ \A p \in Positions :
              \/ Terminal(p) \/ p \in sup.overtaken
              \/ claims[p] # None /\ ~claims[p].signed
        \/ \E w \in Crew : workers[w].restarts = MaxRestarts /\ ~workers[w].finished

\* What a run keeps to while its supervisor and its workers change its files:
\* one worker for a position, none left of a stopped run, nothing stranded in
\* a report (run_validation, _worker).
RunControlled == OneWorkerPerCell /\ StoppedIsStopped /\ NothingStranded

\* validation/README.md: an active status whose recorded parent process is
\* absent is reported as interrupted and can be resumed explicitly
\* (runtime_status, resume_validation).
InterruptedResumable ==
    Idle /\ Reported = "interrupted" /\ status.by # 0 => Resumable
=============================================================================
