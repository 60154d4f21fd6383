---------------------------- MODULE LinkedRetrofit ----------------------------
(***************************************************************************)
(* The linked-reference retrofit (linked_reference_retrofit.py): a run     *)
(* under a lock gives every worker a chunk of the tasks that have no valid *)
(* seal, stops workers whose task takes too long and starts them again,    *)
(* and seals the generation once every task is sealed.  Workers are        *)
(* processes in sessions of their own: a supervisor that is killed alone   *)
(* leaves them running.                                                    *)
(*                                                                         *)
(* Only the time of the active task is bounded, so a timeout may fire      *)
(* whenever a status file names one.  A process opens at most one attempt  *)
(* of a task: its pid names the attempt.                                   *)
(***************************************************************************)
EXTENDS Naturals, Sequences, FiniteSets

CONSTANTS
    Task, Slot,         \* tasks; the worker ids of a run
    Chunks,             \* _balanced_chunks: a set of tasks for every slot
    Canary,             \* the tasks of a canary run
    TimeoutRetries, FailureLimit,
    MaxPid,             \* bound: worker processes in the whole history
    MaxStops,           \* bound: kills of supervisors and hosts
    Nothing

ASSUME RetrofitAssumption ==
    /\ Canary \subseteq Task /\ IsFiniteSet(Slot)
    /\ Nothing \notin Task \cup Slot \cup {"canary", "full"}
    /\ Chunks \in [Slot -> SUBSET Task] /\ UNION {Chunks[s] : s \in Slot} = Task
    /\ \A s, u \in Slot : s # u => Chunks[s] \cap Chunks[u] = {}
    /\ TimeoutRetries \in Nat /\ FailureLimit \in Nat \ {0}
    /\ MaxPid \in Nat /\ MaxStops \in Nat

VARIABLES
    outputs,    \* whole outputs: task and attempt
    seals,      \* tasks/<task>/seal.json: the attempt it names; 0 is none
    generation, \* generation-seal.json: the task seals it names
    procs,      \* processes by pid
    statuses,   \* workers/<slot>/status.json
    supervisor, \* the run that holds the lock
    outlived,   \* history: a worker has survived its supervisor
    stops

retrofitVars == <<outputs, seals, generation, procs, statuses, supervisor,
                  outlived, stops>>

NoRun == [mode |-> Nothing, chunks |-> <<>>, pids |-> <<>>, timeouts |-> <<>>]

RetrofitInit ==
    /\ outputs = {} /\ seals = [t \in Task |-> 0]
    /\ generation = Nothing
    /\ procs = <<>>
    /\ statuses = [s \in Slot |-> [pid |-> 0, active |-> Nothing]]
    /\ supervisor = NoRun
    /\ outlived = FALSE /\ stops = 0

\* _valid_task_seal, whose digests cover the outputs.
ValidSeal(t) == <<t, seals[t]>> \in outputs

Dead == [slot |-> Nothing, todo |-> {}, task |-> Nothing, failed |-> 0, step |-> "gone"]
Lives(p) == p \in DOMAIN procs /\ procs[p].step # "gone"
Active == supervisor.mode # Nothing

RetrofitTypeOK ==
    /\ outputs \subseteq Task \X (1..Len(procs))
    /\ seals \in [Task -> 0..Len(procs)]
    /\ Len(procs) <= MaxPid
    /\ \A p \in DOMAIN procs :
          procs[p].step \in {"idle", "check", "build", "sealing", "clear", "gone"}
    /\ \A s \in Slot : statuses[s].pid \in 0..Len(procs)
    \* one process of a run for a slot, unless it outlived another run
    /\ ~outlived => Cardinality({p \in DOMAIN procs : Lives(p)}) <= Cardinality(Slot)
    /\ ~outlived =>
          \A p, q \in DOMAIN procs :
             Lives(p) /\ Lives(q) /\ p # q => procs[p].todo \cap procs[q].todo = {}

-----------------------------------------------------------------------------
(* worker, _run_task.                                                      *)

Proceed(p, step) == procs' = [procs EXCEPT ![p].step = step]
TaskOf(p) == procs[p].task
Writes(p, task) ==
    statuses' = [statuses EXCEPT ![procs[p].slot] = [pid |-> p, active |-> task]]
NoSupervision == UNCHANGED <<generation, supervisor, outlived, stops>>

\* The status file names the task that begins.
BeginTask(p) ==
    /\ procs[p].step = "idle"
    /\ \E t \in procs[p].todo :
          /\ procs' = [procs EXCEPT ![p] = [@ EXCEPT !.step = "check", !.task = t]]
          /\ Writes(p, t)
    /\ UNCHANGED <<outputs, seals>> /\ NoSupervision

\* A task that is sealed meanwhile is reused.
ReuseSeal(p) ==
    /\ procs[p].step = "check" /\ ValidSeal(TaskOf(p))
    /\ Proceed(p, "clear")
    /\ UNCHANGED <<outputs, seals, statuses>> /\ NoSupervision

\* _next_attempt: a directory with a number of its own.
OpenAttempt(p) ==
    /\ procs[p].step = "check" /\ ~ValidSeal(TaskOf(p))
    /\ Proceed(p, "build")
    /\ UNCHANGED <<outputs, seals, statuses>> /\ NoSupervision

\* Link, strip, analyse and export; the attempt's own seal.
BuildOutputs(p) ==
    /\ procs[p].step = "build"
    /\ outputs' = outputs \cup {<<TaskOf(p), p>>}
    /\ Proceed(p, "sealing")
    /\ UNCHANGED <<seals, statuses>> /\ NoSupervision

\* The task's seal replaces any other by a rename.
SealTask(p) ==
    /\ procs[p].step = "sealing"
    /\ seals' = [seals EXCEPT ![TaskOf(p)] = p]
    /\ Proceed(p, "clear")
    /\ UNCHANGED <<outputs, statuses>> /\ NoSupervision

\* An exception: the failure is archived; at the limit of identical ones the
\* circuit breaker opens and the worker leaves the rest of its chunk.
FailTask(p) ==
    /\ procs[p].step = "build"
    /\ \E open \in BOOLEAN :
          /\ open => procs[p].failed + 1 >= FailureLimit
          /\ procs' = [procs EXCEPT ![p] =
                [@ EXCEPT !.failed = procs[p].failed + 1, !.step = "clear",
                          !.todo = IF open THEN {TaskOf(p)} ELSE procs[p].todo]]
    /\ UNCHANGED <<outputs, seals, statuses>> /\ NoSupervision

\* The status file names no task; after the last one the process exits.
ClearTask(p) ==
    /\ procs[p].step = "clear"
    /\ procs' = [procs EXCEPT ![p] =
                      IF procs[p].todo = {TaskOf(p)} THEN Dead
                      ELSE [@ EXCEPT !.step = "idle", !.task = Nothing,
                                     !.todo = procs[p].todo \ {TaskOf(p)}]]
    /\ Writes(p, Nothing)
    /\ UNCHANGED <<outputs, seals>> /\ NoSupervision

\* The process dies by itself, out of memory or in Ghidra.
WorkerDies(p) ==
    /\ Lives(p) /\ stops < MaxStops
    /\ stops' = stops + 1 /\ procs' = [procs EXCEPT ![p] = Dead]
    /\ UNCHANGED <<outputs, seals, generation, statuses, supervisor, outlived>>

-----------------------------------------------------------------------------
(* run and _supervise_workers.                                             *)

NewWorker(s) == [slot |-> s, todo |-> supervisor'.chunks[s], task |-> Nothing,
                 failed |-> 0, step |-> "idle"]

\* Mutant: the status file of the slot is left as it was.
SpawnOnly(S) == UNCHANGED statuses

\* _spawn_worker_process writes the status of a slot before it starts.
ResetStatuses(S) ==
    statuses' = [s \in Slot |-> IF s \in S THEN [pid |-> 0, active |-> Nothing] ELSE statuses[s]]

\* The processes of the slots of a run; 0 is a slot that is done.
Running == {s \in DOMAIN supervisor.pids : supervisor.pids[s] # 0}

\* compile_plan: a task for every owner of every unit of the source run, all of
\* them complete; a canary run takes the reviewed few.
PendingTasks(mode) == IF mode = "canary" THEN Canary ELSE Task

\* preflight, the plan and the lock; a slot for every chunk with a task to do.
StartRun ==
    /\ ~Active
    /\ \E mode \in {"canary", "full"} :
          LET pending == {t \in PendingTasks(mode) : ~ValidSeal(t)}
              used == {s \in Slot : Chunks[s] \cap pending # {}} IN
          /\ pending # {}
          /\ \E order \in [1..Cardinality(used) -> used] :
                /\ \A s \in used : \E i \in DOMAIN order : order[i] = s
                /\ Len(procs) + Cardinality(used) <= MaxPid
                /\ supervisor' =
                      [mode |-> mode,
                       chunks |-> [s \in used |-> Chunks[s] \cap pending],
                       pids |-> [s \in used |-> Len(procs)
                                    + (CHOOSE i \in DOMAIN order : order[i] = s)],
                       timeouts |-> [t \in Task |-> 0]]
                /\ procs' = procs \o [i \in DOMAIN order |-> NewWorker(order[i])]
          /\ ResetStatuses(used)
    /\ UNCHANGED <<outputs, seals, generation, outlived, stops>>

\* A process that ended is not looked at again.
Collect(s) ==
    /\ Active /\ s \in Running /\ ~Lives(supervisor.pids[s])
    /\ supervisor' = [supervisor EXCEPT !.pids = [supervisor.pids EXCEPT ![s] = 0]]
    /\ UNCHANGED <<outputs, seals, generation, procs, statuses, outlived, stops>>

\* The status names a task that runs too long and is not sealed: terminate,
\* and kill after a grace period.
TimesOut(s) ==
    /\ Active /\ s \in Running /\ Lives(supervisor.pids[s])
    /\ statuses[s].active # Nothing /\ ~ValidSeal(statuses[s].active)

\* _stop_timed_out_process
WithoutProcess(p) == [procs EXCEPT ![p] = Dead]

\* The stopped worker is started again with its chunk, or given up.
StopTimedOut(s) ==
    /\ TimesOut(s)
    /\ LET t == statuses[s].active
           again == supervisor.timeouts[t] < TimeoutRetries
           gone == WithoutProcess(supervisor.pids[s]) IN
       /\ again => Len(procs) < MaxPid
       /\ supervisor' = [supervisor EXCEPT
                            !.timeouts = [supervisor.timeouts EXCEPT ![t] = @ + 1],
                            !.pids = [supervisor.pids EXCEPT
                                         ![s] = IF again THEN Len(procs) + 1 ELSE 0]]
       /\ procs' = IF again THEN Append(gone, NewWorker(s)) ELSE gone
       /\ ResetStatuses(IF again THEN {s} ELSE {})
    /\ UNCHANGED <<outputs, seals, generation, outlived, stops>>

AllSealed == \A t \in Task : ValidSeal(t)

\* _generation_seal: written once; another identity is refused.
SealGeneration ==
    /\ generation = Nothing /\ AllSealed
    /\ generation' = seals

\* All slots are done: the plan and the seals are read again.
FinishSupervision ==
    /\ Active /\ Running = {}
    /\ IF supervisor.mode = "full" /\ AllSealed /\ generation = Nothing
       THEN SealGeneration ELSE UNCHANGED generation
    /\ supervisor' = NoRun
    /\ UNCHANGED <<outputs, seals, procs, statuses, outlived, stops>>

\* A run that finds nothing to do only seals.
ResealRun ==
    /\ ~Active /\ SealGeneration
    /\ UNCHANGED <<outputs, seals, procs, statuses, supervisor, outlived, stops>>

\* The host stops; or only the supervisor is killed.
StopRun ==
    /\ Active /\ stops < MaxStops
    /\ stops' = stops + 1
    /\ supervisor' = NoRun
    /\ \/ /\ procs' = [p \in DOMAIN procs |-> Dead]
          /\ UNCHANGED outlived
       \/ /\ outlived' = (outlived \/ \E p \in DOMAIN procs : Lives(p))
          /\ UNCHANGED procs
    /\ UNCHANGED <<outputs, seals, generation, statuses>>

RetrofitNext ==
    \/ StartRun \/ FinishSupervision \/ ResealRun \/ StopRun
    \/ \E s \in Slot : Collect(s) \/ StopTimedOut(s)
    \/ \E p \in DOMAIN procs :
          \/ BeginTask(p) \/ ReuseSeal(p) \/ OpenAttempt(p) \/ BuildOutputs(p)
          \/ SealTask(p) \/ FailTask(p) \/ ClearTask(p) \/ WorkerDies(p)

RetrofitSpec == RetrofitInit /\ [][RetrofitNext]_retrofitVars

-----------------------------------------------------------------------------
\* A sealed generation has whole outputs of every task, whatever died before;
\* and it names the seals that are there, unless a worker survived its
\* supervisor: such a worker seals its task once more (_run_task looks for a
\* seal only before it builds), and the generation's digests are stale.
GenerationSealed ==
    generation # Nothing =>
        /\ AllSealed
        /\ outlived \/ generation = seals

\* A worker is stopped for a task that it has itself begun, never for what the
\* status file says of the process that it replaces; a worker that survived
\* its supervisor writes the same status file.
NoStaleTimeout ==
    \A s \in Slot : TimesOut(s) => outlived \/ statuses[s].pid = supervisor.pids[s]

\* A generation is sealed with all its tasks, and no worker is ended for a
\* task an earlier worker left behind (linked_reference_retrofit.py).
SealsHold == GenerationSealed /\ NoStaleTimeout
=============================================================================
