------------------------------ MODULE Retention ------------------------------
(***************************************************************************)
(* The retention collector (retention.py), its triggers in the worker loop *)
(* (queue_cli.py) and in the validation runner, and what they see of the   *)
(* ledger and of the directories that workers leave behind.                *)
(*                                                                         *)
(* The policy is the reviewed retention/policy.toml: bundles are retained, *)
(* identical retries collapse, successes wait for a lane receipt,          *)
(* automation applies its plans, workers are recycled and parked.  A plan  *)
(* is its content: two plans have one digest when they are equal; an       *)
(* operator's plan and apply are two commands of one process here.  A       *)
(* synchronization, which makes every plan stale, is left out.  The        *)
(* collector reads the holds, then the ledger, then the disk, while all of *)
(* them change.  Whether the queue is armed and not paused may change      *)
(* between any two steps.                                                  *)
(***************************************************************************)
EXTENDS Naturals, FiniteSets, Sequences, Functions

CONSTANTS
    QueueJob, Run,           \* queue jobs; machine-validation runs
    Error,              \* normalised failures (the fingerprint); also "expired"
    Oversized,          \* those whose evidence is too large or not regular files
    Hold,               \* the holds an operator may add: [job, attempts]
    Collector,          \* processes that collect ...
    TriggerOf,          \* ... drained workers, validation runners, operators
    NoPlan,
    MaxAttempt,         \* bound: attempts of a job
    MaxAccidents           \* bound: kills, I/O errors, writes of a fenced worker

ASSUME RetentionAssumption ==
    /\ Oversized \subseteq Error /\ "expired" \notin Error
    /\ \A h \in Hold : h.job \in QueueJob /\ h.attempts \subseteq 1..MaxAttempt
    /\ TriggerOf \in [Collector -> {"drained", "validation", "manual"}]
    /\ MaxAttempt \in Nat /\ MaxAccidents \in Nat

VARIABLES
    ledger,     \* rows of jobs: state, and the state and error of each attempt
    staging,    \* staging/<job>-g<generation>-*, as the worker left it
    published,  \* the work/ directory of the published attempt
    receipts,   \* jobs with a lane import receipt (external)
    holds,      \* retention/holds.toml
    bundles,    \* failure bundles: path (job, error, attempt), plan, attempts
    runs,       \* validation runs: status, worker-* scratch, composites, evidence
    collector,  \* what each process is doing
    accidents

retentionVars == <<ledger, staging, published, receipts, holds,
                   bundles, runs, collector, accidents>>
disk == <<staging, published, receipts, holds, bundles, runs>>

\* held and rows are what a compilation has read of the holds and the ledger;
\* promised (history) is what was held when the apply took the lock.
NotCollecting == [step |-> "idle", plan |-> NoPlan, held |-> {}, rows |-> NoPlan,
         promised |-> {}, todo |-> {}, left |-> {}]

\* collector_lock is held in these steps.
Compiling == {"planning", "reading", "replanning", "rereading"}
Locked == {"checked", "applying", "removing"} \cup Compiling
\* Mutant: flock is not asked.
LockIgnored == TRUE

LockFree == \A c \in Collector : collector[c].step \notin Locked

Ended == {"failed", "expired"}
OnDisk == {"whole", "changed", "partial"}

RetentionTypeOK ==
    /\ \A j \in QueueJob :
          /\ ledger[j].state \in {"queued", "leased", "complete", "failed"}
          /\ Len(ledger[j].attempts) <= MaxAttempt
          /\ \A g \in DOMAIN ledger[j].attempts :
                ledger[j].attempts[g] \in
                   [state : {"leased", "completed"} \cup Ended, error : Error \cup {"none", "expired"}]
    /\ staging \in [QueueJob -> [1..MaxAttempt -> {"none", "moved", "gone"} \cup OnDisk]]
    /\ published \in [QueueJob -> {"none", "whole", "pruned"}]
    /\ receipts \subseteq QueueJob /\ holds \subseteq Hold
    /\ \A r \in Run : runs[r].state \in {"running", "retaining", "complete", "failed"}
    /\ \A b, d \in bundles :     \* a bundle's directory is made once
          <<b.job, b.error, b.attempt>> = <<d.job, d.error, d.attempt>> => b = d
    /\ \A c \in Collector :
          collector[c].step \in Locked \cup {"idle", "planned", "parked"}
    /\ Cardinality({c \in Collector : collector[c].step \in Locked}) <= 1

RetentionInit ==
    /\ ledger = [j \in QueueJob |-> [state |-> "queued", attempts |-> <<>>]]
    /\ staging = [j \in QueueJob |-> [g \in 1..MaxAttempt |-> "none"]]
    /\ published = [j \in QueueJob |-> "none"]
    /\ receipts = {} /\ holds = {} /\ bundles = {}
    /\ runs = [r \in Run |-> [state |-> "running", scratch |-> FALSE, composites |-> FALSE,
                              bound |-> FALSE, retention |-> "none"]]
    /\ collector = [c \in Collector |-> NotCollecting]
    /\ accidents = 0

Accident == accidents < MaxAccidents /\ accidents' = accidents + 1

-----------------------------------------------------------------------------
(* What the collector reads: the coordinator's tables and the directories. *)

Newest(j) == Len(ledger[j].attempts)

\* A claim, and the worker that makes its private directory or dies before.
ClaimForWork(j) ==
    /\ ledger[j].state = "queued" /\ Newest(j) < MaxAttempt
    /\ ledger' = [ledger EXCEPT ![j].state = "leased",
                                ![j].attempts = Append(@, [state |-> "leased", error |-> "none"])]
    /\ \E d \in {"none", "whole"} : staging' = [staging EXCEPT ![j][Newest(j) + 1] = d]
    /\ UNCHANGED <<published, receipts, holds, bundles, runs, collector, accidents>>

\* fail, or the recovery of an expired lease; with or without a retry.
EndLeasedAttempt(j) ==
    /\ ledger[j].state = "leased"
    /\ \E e \in Error \cup {"expired"}, next \in {"queued", "failed"} :
          ledger' = [ledger EXCEPT ![j] =
                        [state |-> next, attempts |-> [@.attempts EXCEPT ![Newest(j)] =
                            [state |-> IF e = "expired" THEN e ELSE "failed", error |-> e]]]]
    /\ UNCHANGED <<disk, collector, accidents>>

\* The staging directory is published and the attempt completed.
CompleteAttempt(j) ==
    /\ ledger[j].state = "leased" /\ staging[j][Newest(j)] = "whole"
    /\ ledger' = [ledger EXCEPT ![j] =
                    [state |-> "complete",
                     attempts |-> [@.attempts EXCEPT ![Newest(j)].state = "completed"]]]
    /\ staging' = [staging EXCEPT ![j][Newest(j)] = "moved"]
    /\ published' = [published EXCEPT ![j] = "whole"]
    /\ UNCHANGED <<receipts, holds, bundles, runs, collector, accidents>>

RequeueFailed(j) ==
    /\ ledger[j].state = "failed"
    /\ ledger' = [ledger EXCEPT ![j] = [state |-> "queued", attempts |-> @.attempts]]
    /\ UNCHANGED <<disk, collector, accidents>>

AddHold ==
    /\ \E h \in Hold \ holds : holds' = holds \cup {h}
    /\ UNCHANGED <<ledger, staging, published, receipts, bundles, runs,
                   collector, accidents>>

\* A worker whose lease expired has not noticed and still writes.
LateWrite(j) ==
    /\ Accident
    /\ \E g \in DOMAIN ledger[j].attempts :
          /\ ledger[j].attempts[g].state = "expired" /\ staging[j][g] = "whole"
          /\ staging' = [staging EXCEPT ![j][g] = "changed"]
    /\ UNCHANGED <<ledger, published, receipts, holds, bundles, runs, collector>>

\* The lane importer (external) writes the receipt of a completed job.
ImportLane(j) ==
    /\ ledger[j].state = "complete"
    /\ receipts' = receipts \cup {j}
    /\ UNCHANGED <<ledger, staging, published, holds, bundles, runs,
                   collector, accidents>>

\* A validation run has written its report; scratch and composites are there.
FinishRun(r) ==
    /\ runs[r].state = "running"
    /\ \E bound \in BOOLEAN, s \in {"retaining", "failed"} :
          /\ bound => s = "retaining"
          /\ runs' = [runs EXCEPT ![r] = [@ EXCEPT !.state = s, !.scratch = TRUE,
                                                  !.composites = TRUE, !.bound = bound]]
    /\ UNCHANGED <<ledger, staging, published, receipts, holds, bundles,
                   collector, accidents>>

Environment ==
    \/ \E j \in QueueJob : \/ ClaimForWork(j) \/ EndLeasedAttempt(j)
                      \/ CompleteAttempt(j) \/ RequeueFailed(j) \/ LateWrite(j)
                      \/ ImportLane(j)
    \/ AddHold
    \/ \E r \in Run : FinishRun(r)

-----------------------------------------------------------------------------
(* compile_retention_plan, from the holds and the rows read before.        *)

\* RetentionHold.matches, of a job (no attempt) and of one attempt.
JobHeld(held, j) == \E h \in held : h.job = j
Held(held, j, g) == \E h \in held : h.job = j /\ (h.attempts = {} \/ g \in h.attempts)

\* work/ of verified successes with a receipt.
SuccessActions(held, rows) ==
    {[kind |-> "success", of |-> j, paths |-> {"work"}] :
        j \in {j \in QueueJob : /\ rows[j].state = "complete" /\ published[j] = "whole"
                           /\ ~JobHeld(held, j) /\ j \in receipts}}

\* Failed attempts whose one staging directory is there.
Candidates(held, rows, j) ==
    {g \in DOMAIN rows[j].attempts :
        rows[j].attempts[g].state \in Ended /\ staging[j][g] \in OnDisk
        /\ ~Held(held, j, g)}

Latest(G) == CHOOSE g \in G : \A h \in G : h <= g
ErrorOf(rows, j, g) == rows[j].attempts[g].error

\* Mutant: every earlier failure collapses into the newest.
AllCollapsible(held, rows, j) == Candidates(held, rows, j)

\* The representative and the retries with its fingerprint.
Collapsible(held, rows, j) ==
    {g \in Candidates(held, rows, j) :
        ErrorOf(rows, j, g) = ErrorOf(rows, j, Latest(Candidates(held, rows, j)))}

BundleActions(held, rows) ==
    LET Retries(j) == Collapsible(held, rows, j)
        Bundled == {j \in QueueJob :
                       /\ Candidates(held, rows, j) # {}
                       /\ ErrorOf(rows, j, Latest(Candidates(held, rows, j))) \notin Oversized}
    IN {[kind |-> "bundle", of |-> j, paths |-> Retries(j),
         error |-> ErrorOf(rows, j, Latest(Retries(j))),
         found |-> [g \in Retries(j) |-> staging[j][g]]] : j \in Bundled}

\* _validation_evidence_record: the status says complete, every unit counted.
VerifiedRuns == {r \in Run : runs[r].state = "complete"}

\* ... and every fold's signatures or receipt carry its relationship evidence:
\* its composites are disposable.
RelationshipComplete == {r \in VerifiedRuns : runs[r].bound}

ValidationActions ==
    {[kind |-> "scratch", of |-> r, paths |-> {"worker"}] :
        r \in {r \in VerifiedRuns : runs[r].scratch}}
    \cup
    {[kind |-> "composites", of |-> r, paths |-> {"composites"}] :
        r \in {r \in RelationshipComplete : runs[r].composites}}

\* _ledger_fingerprint: jobs by state, attempts.
LedgerFingerprint(rows) ==
    [states |-> [s \in {"queued", "leased", "complete", "failed"} |->
                    Cardinality({j \in QueueJob : rows[j].state = s})],
     attempts |-> FoldFunction(+, 0, [j \in QueueJob |-> Len(rows[j].attempts)])]

HeldAttempts(held, rows) ==
    [j \in QueueJob |->
        {g \in DOMAIN rows[j].attempts :
            /\ Held(held, j, g)
            /\ \/ rows[j].attempts[g].state \in Ended /\ staging[j][g] \in OnDisk
               \/ rows[j].state = "complete"}]

\* The plan: what it was read from, its actions, and what it keeps.
RetentionPlan(held, rows, trigger) ==
    LET all == trigger # "validation" IN
    [ledger |-> LedgerFingerprint(rows),
     actions |-> (IF all THEN SuccessActions(held, rows) \cup BundleActions(held, rows)
                 ELSE {})
                    \cup ValidationActions,
     kept |-> [held |-> IF all THEN HeldAttempts(held, rows) ELSE {},
               awaiting |-> IF all THEN {j \in QueueJob : rows[j].state = "complete"} \ receipts
                            ELSE {},
               runs |-> VerifiedRuns]]

-----------------------------------------------------------------------------
(* The collector.                                                          *)

CollectorStep(c, s) == collector' = [collector EXCEPT ![c].step = s]
Keep == UNCHANGED <<ledger, staging, published, receipts, holds, bundles, runs>>

\* Workers collect after the drain, runners after their report.
Drained == \A j \in QueueJob : ledger[j].state \in {"complete", "failed"}

Triggered(c) ==
    CASE TriggerOf[c] = "drained" -> Drained
      [] TriggerOf[c] = "validation" -> \E r \in Run : runs[r].state = "retaining"
      [] OTHER -> TRUE

\* The end of a collection, applied or not: a worker that ran it after the
\* drain replaces its process and parks (finally: recycle); a runner records
\* whether its own collection was applied (not when the collector was busy,
\* the plan above the ceiling, or the apply refused) and completes its run.
EndCollection(c, outcome) ==
    /\ collector' = [collector EXCEPT ![c] =
                        IF TriggerOf[c] = "drained" THEN [NotCollecting EXCEPT !.step = "parked"]
                        ELSE NotCollecting]
    /\ runs' = IF TriggerOf[c] # "validation" THEN runs
               ELSE [r \in Run |-> IF runs[r].state # "retaining" THEN runs[r]
                                   ELSE [runs[r] EXCEPT !.state = "complete",
                                                        !.retention = outcome]]

\* automatic_retention while another process holds the lock: a drained worker
\* is recycled all the same, and a runner completes its run.
Busy(c) ==
    /\ collector[c].step = "idle" /\ ~LockFree /\ TriggerOf[c] # "manual"
    /\ Triggered(c)
    /\ EndCollection(c, "not-applied")
    /\ UNCHANGED <<ledger, staging, published, receipts, holds, bundles, accidents>>

\* The lock is taken and the holds are read: a plan is compiled ...
StartPlan(c) ==
    /\ collector[c].step = "idle" /\ LockFree
    /\ Triggered(c)
    /\ collector' = [collector EXCEPT ![c] = [@ EXCEPT !.step = "planning", !.held = holds]]
    /\ Keep /\ UNCHANGED accidents

\* ... the disk is read, the plan written, and the lock released.
WritePlan(c) ==
    /\ collector[c].step = "reading"
    /\ collector' = [collector EXCEPT ![c] =
                        [@ EXCEPT !.step = "planned", !.held = {}, !.rows = NoPlan,
                           !.plan = RetentionPlan(collector[c].held, collector[c].rows,
                                                  TriggerOf[c])]]
    /\ Keep /\ UNCHANGED accidents

\* The plan is not applied: its estimate is above the automatic ceiling, or
\* the operator leaves it.
DropPlan(c) ==
    /\ collector[c].step = "planned"
    /\ EndCollection(c, "not-applied")
    /\ UNCHANGED <<ledger, staging, published, receipts, holds, bundles, accidents>>

\* _assert_apply_idle: nothing is leased, and what is queued is paused or
\* disarmed at this moment; the locks of runners cover running runs.
ApplyIdle == \A j \in QueueJob : ledger[j].state # "leased"
ApplyBusy == \E j \in QueueJob : ledger[j].state \in {"leased", "queued"}

\* The lock is taken and the queue found idle, or the apply is refused.
LockCollector(c) ==
    /\ collector[c].step = "planned" /\ LockFree
    /\ \/ /\ ApplyIdle /\ UNCHANGED runs
          /\ collector' = [collector EXCEPT ![c] = [@ EXCEPT !.step = "checked",
                                                            !.promised = holds]]
       \/ ApplyBusy /\ EndCollection(c, "not-applied")
    /\ UNCHANGED <<ledger, staging, published, receipts, holds, bundles, accidents>>

\* The plan is compiled again: the holds are read ...
ReadHolds(c) ==
    /\ collector[c].step = "checked"
    /\ collector' = [collector EXCEPT ![c] = [@ EXCEPT !.step = "replanning", !.held = holds]]
    /\ Keep /\ UNCHANGED accidents

\* ... then the ledger, and the disk while the plan is put together.
ReadLedger(c) ==
    /\ collector[c].step \in {"planning", "replanning"}
    /\ collector' = [collector EXCEPT ![c] = [@ EXCEPT !.rows = ledger,
                        !.step = IF collector[c].step = "planning" THEN "reading"
                                 ELSE "rereading"]]
    /\ Keep /\ UNCHANGED accidents

\* Mutant: the saved plan is applied whatever has changed.
StaleAccepted(c) == TRUE

\* The plan, compiled again, must be the saved one.
PlanIsCurrent(c) ==
    RetentionPlan(collector[c].held, collector[c].rows, TriggerOf[c]) = collector[c].plan

Recompile(c) ==
    /\ collector[c].step = "rereading"
    /\ \/ /\ PlanIsCurrent(c)
          /\ collector' = [collector EXCEPT ![c] = [@ EXCEPT !.step = "applying",
                              !.held = {}, !.rows = NoPlan, !.promised = {},
                              !.todo = collector[c].plan.actions]]
          /\ UNCHANGED runs
       \/ ~PlanIsCurrent(c) /\ EndCollection(c, "not-applied")
    /\ UNCHANGED <<ledger, staging, published, receipts, holds, bundles, accidents>>

Rank(a) == CASE a.kind = "success" -> 1 [] a.kind = "bundle" -> 2
             [] a.kind = "scratch" -> 3 [] OTHER -> 4

\* The next action of the plan: successes, bundles, then validation.
IsNextAction(c, a) ==
    a \in collector[c].todo /\ \A b \in collector[c].todo : Rank(a) <= Rank(b)

Removing(c, a) ==
    collector' = [collector EXCEPT ![c] = [@ EXCEPT !.step = "removing",
                        !.left = {[action |-> a, path |-> p] : p \in a.paths}]]

\* Another kind than a bundle goes straight to its paths.
StartPrune(c) ==
    /\ collector[c].step = "applying"
    /\ \E a \in collector[c].todo : IsNextAction(c, a) /\ a.kind # "bundle" /\ Removing(c, a)
    /\ Keep /\ UNCHANGED accidents

BundleOf(c, a) == [job |-> a.of, error |-> a.error, attempt |-> Latest(a.paths),
                   plan |-> collector[c].plan, attempts |-> a.paths]

BundleAt(a) == {b \in bundles : /\ b.job = a.of /\ b.error = a.error
                                /\ b.attempt = Latest(a.paths)}

\* _copy_bundle: a bundle that is there must be of this plan; the files must
\* still have the planned digests.  os.replace publishes it whole.
CopyBundle(c) ==
    /\ collector[c].step = "applying"
    /\ \E a \in collector[c].todo :
          /\ IsNextAction(c, a) /\ a.kind = "bundle"
          /\ IF BundleAt(a) # {}
             THEN /\ \A b \in BundleAt(a) : b.plan = collector[c].plan
                  /\ UNCHANGED bundles
             ELSE /\ staging[a.of][Latest(a.paths)] = a.found[Latest(a.paths)]
                  /\ bundles' = bundles \cup {BundleOf(c, a)}
          /\ Removing(c, a)
    /\ UNCHANGED <<ledger, staging, published, receipts, holds, runs, accidents>>

\* ... and otherwise the apply stops with an error, earlier actions done.
BundleRefused(c) ==
    /\ collector[c].step = "applying"
    /\ \E a \in collector[c].todo :
          /\ IsNextAction(c, a) /\ a.kind = "bundle"
          /\ IF BundleAt(a) # {} THEN \E b \in BundleAt(a) : b.plan # collector[c].plan
             ELSE staging[a.of][Latest(a.paths)] # a.found[Latest(a.paths)]
    /\ EndCollection(c, "not-applied")
    /\ UNCHANGED <<ledger, staging, published, receipts, holds, bundles, accidents>>

\* The paths of an action after `gone` is what is left of one of them.
Delete(a, p, gone) ==
    /\ staging' = IF a.kind # "bundle" \/ staging[a.of][p] \notin OnDisk THEN staging
                  ELSE [staging EXCEPT ![a.of][p] = gone]
    /\ published' = IF a.kind = "success" THEN [published EXCEPT ![a.of] = "pruned"] ELSE published
    /\ runs' = CASE a.kind = "scratch" -> [runs EXCEPT ![a.of].scratch = FALSE]
                 [] a.kind = "composites" -> [runs EXCEPT ![a.of].composites = FALSE]
                 [] OTHER -> runs

\* _remove_retention_target; after the last path the action is done.
RemovePath(c) ==
    /\ collector[c].step = "removing"
    /\ \E l \in collector[c].left :
          /\ Delete(l.action, l.path, "gone")
          /\ collector' = [collector EXCEPT ![c] =
                IF collector[c].left # {l} THEN [@ EXCEPT !.left = collector[c].left \ {l}]
                ELSE [@ EXCEPT !.step = "applying", !.left = {},
                               !.todo = collector[c].todo \ {l.action}]]
    /\ UNCHANGED <<ledger, receipts, holds, bundles, accidents>>

\* rmtree stops half-way through a failed attempt (an I/O error, or a fenced
\* worker that fills the directory): the apply ends there.
RemoveFails(c) ==
    /\ collector[c].step = "removing"
    /\ Accident
    /\ \E l \in collector[c].left :
          /\ l.action.kind = "bundle" /\ staging[l.action.of][l.path] \in OnDisk
          /\ staging' = [staging EXCEPT ![l.action.of][l.path] = "partial"]
    /\ EndCollection(c, "not-applied")
    /\ UNCHANGED <<ledger, published, receipts, holds, bundles>>

\* The state file is written and the lock released.
EndApply(c) ==
    /\ collector[c].step = "applying" /\ collector[c].todo = {}
    /\ EndCollection(c, "complete")
    /\ UNCHANGED <<ledger, staging, published, receipts, holds, bundles, accidents>>

\* A collecting process is killed: its lock goes with it, its worker starts
\* again without the session marker.  A killed runner is not modelled here
\* (ValidationRun.tla).
KillCollector(c) ==
    /\ collector[c].step \notin {"idle", "parked"} /\ TriggerOf[c] # "validation"
    /\ Accident
    /\ collector' = [collector EXCEPT ![c] = NotCollecting]
    /\ Keep

\* _park_recycled_terminal_worker: durable work wakes the worker.
Wake(c) ==
    /\ collector[c].step = "parked" /\ ~Drained
    /\ CollectorStep(c, "idle")
    /\ Keep /\ UNCHANGED accidents

Collects(c) ==
    \/ WritePlan(c) \/ LockCollector(c) \/ ReadHolds(c) \/ ReadLedger(c) \/ Recompile(c)
    \/ StartPrune(c) \/ CopyBundle(c) \/ BundleRefused(c) \/ RemovePath(c) \/ EndApply(c)

RetentionNext ==
    \/ Environment
    \/ \E c \in Collector :
          \/ Collects(c) \/ Busy(c) \/ StartPlan(c) \/ DropPlan(c)
          \/ RemoveFails(c) \/ KillCollector(c) \/ Wake(c)

RetentionSpec == RetentionInit /\ [][RetentionNext]_retentionVars

-----------------------------------------------------------------------------
\* What is left of a failed attempt is its bundle: its directory is touched
\* by nobody but a collector that wrote down the attempt's own failure before
\* (docs/operations/retention.md, _copy_bundle), through kills, half-removed
\* directories, requeues and stale plans.
EvidenceBundled ==
    \A j \in QueueJob : \A g \in DOMAIN ledger[j].attempts :
        staging[j][g] \in {"gone", "partial"} =>
            \E b \in bundles : /\ b.job = j /\ g \in b.attempts
                               /\ b.error = ledger[j].attempts[g].error

\* Nothing of an attempt that has not failed is removed, and of a success only
\* work/ and only with a receipt, although claims, requeues and completions
\* go on after the idle check of apply_retention_plan.
OnlyDisposable ==
    /\ \A j \in QueueJob : published[j] = "pruned" => j \in receipts
    /\ \A j \in QueueJob : \A g \in DOMAIN ledger[j].attempts :
          ledger[j].attempts[g].state \in {"leased", "completed"} =>
             staging[j][g] \notin {"gone", "partial"}
    /\ \A r \in Run :
          runs[r].state \in {"retaining", "failed"} => runs[r].scratch /\ runs[r].composites

\* Operator holds always win, as far as the code can keep it: a plan that goes
\* into force removes nothing that was held when its apply took the lock, whatever
\* was held when the plan was written and however the ledger and the disk have
\* changed since.  A hold added after compile_retention_plan has read holds.toml
\* (retention.py:1259) is not seen by that apply.
HoldsWin ==
    [][\A c \in Collector :
          collector[c].step = "rereading" /\ collector'[c].step = "applying" =>
             \A a \in collector[c].plan.actions :
                /\ a.kind = "bundle" => \A g \in a.paths : ~Held(collector[c].promised, a.of, g)
                /\ a.kind = "success" => ~JobHeld(collector[c].promised, a.of)]_retentionVars

\* validation/README.md: once relationship-complete truth is sealed, the
\* source runner prunes disposable composite binaries.
OwnRunPruned ==
    \A r \in Run :
        runs[r].retention = "complete" /\ runs[r].bound => ~runs[r].composites

\* A collection takes only what its plan may take, and only after the
\* evidence of a failure is in its bundle (retention.py: build and apply).
CollectionSafe == EvidenceBundled /\ OnlyDisposable
=============================================================================
