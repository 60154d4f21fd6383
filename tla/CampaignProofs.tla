--------------------------- MODULE CampaignProofs ---------------------------
(***************************************************************************)
(* Proofs about the campaigns of the machine validation: the linked        *)
(* reference retrofit, the build pipeline, the cells of a run, the         *)
(* qualification of recipes, and function matching.  Each part states an   *)
(* inductive invariant, proves that it holds first and that every action   *)
(* keeps it, and concludes the properties the runs of MCCampaigns check.   *)
(* The last part carries them to the composition, whose steps are each a   *)
(* step of one campaign that leaves the others alone.  The machine         *)
(* validation, its links and its hash evidence have a module of their own, *)
(* ValidationProofs.                                                       *)
(***************************************************************************)
EXTENDS MCCampaigns, ValidationProofs, FiniteSetTheorems, WellFoundedInduction, TLAPS

-----------------------------------------------------------------------------
\* The linked reference retrofit (linked_reference_retrofit.py).  The pool
\* gives each slot one process and one chunk of the tasks; what a process does
\* to the outputs and to its slot's status is kept beside the generation's seal.

WorkerSteps == {"idle", "check", "build", "sealing", "clear", "gone"}
WorkerRows == [slot : Slot \cup {Nothing}, todo : SUBSET Task, task : Task \cup {Nothing},
               failed : Nat, step : WorkerSteps]

\* The process of pid p, with row r: its outputs are there before it seals
\* them, it builds nothing any more once the generation is sealed, and it is
\* the process of its slot in the run, unless it outlived another run.
RowFits(p, r) ==
    /\ r.step # "gone" => r.slot \in Slot
    /\ r.step \in {"check", "build", "sealing", "clear"} => r.task \in r.todo
    /\ r.step = "sealing" => <<r.task, p>> \in outputs
    /\ generation # Nothing /\ ~outlived => r.step \notin {"build", "sealing"}
    /\ r.step # "gone" /\ ~outlived =>
          /\ r.slot \in DOMAIN supervisor.pids /\ supervisor.pids[r.slot] = p
          /\ r.todo \subseteq Chunks[r.slot]

IsSupervisor(x) ==
    /\ DOMAIN x = {"mode", "chunks", "pids", "timeouts"}
    /\ DOMAIN x.pids \subseteq Slot /\ DOMAIN x.chunks = DOMAIN x.pids
    /\ x.pids = [s \in DOMAIN x.pids |-> x.pids[s]]
    /\ \A s \in DOMAIN x.pids : x.pids[s] \in 0..Len(procs) /\ x.chunks[s] \subseteq Chunks[s]
    /\ IF x.mode = Nothing THEN x = NoRun ELSE x.timeouts \in [Task -> Nat]

\* A slot's status names a task only in the hand of the slot's process.
StatusFits(s) ==
    /\ statuses[s] \in [pid : 0..Len(procs), active : Task \cup {Nothing}]
    /\ ~outlived /\ s \in DOMAIN supervisor.pids /\ supervisor.pids[s] # 0 =>
          statuses[s].active = Nothing \/ statuses[s].pid = supervisor.pids[s]

FilesFit ==
    /\ outputs \subseteq Task \X (1..Len(procs)) /\ seals \in [Task -> 0..Len(procs)]
    /\ Len(procs) <= MaxPid /\ outlived \in BOOLEAN
    /\ DOMAIN statuses = Slot /\ statuses = [s \in Slot |-> statuses[s]]

RetrofitInv ==
    /\ FilesFit /\ procs \in Seq(WorkerRows) /\ IsSupervisor(supervisor)
    /\ GenerationSealed
    /\ \A p \in DOMAIN procs : RowFits(p, procs[p])
    /\ \A s \in Slot : StatusFits(s)

\* One process's row replaced in the sequence of the processes.
LEMMA RowReplaced ==
    ASSUME NEW rows \in Seq(WorkerRows), NEW p \in DOMAIN rows, NEW r \in WorkerRows,
           NEW new, new = [rows EXCEPT ![p] = r]
    PROVE  /\ new \in Seq(WorkerRows) /\ Len(new) = Len(rows) /\ DOMAIN new = DOMAIN rows
           /\ new[p] = r /\ \A q \in DOMAIN rows : q # p => new[q] = rows[q]
OBVIOUS

\* More outputs take nothing from a sealed generation.
LEMMA SealsStay ==
    ASSUME GenerationSealed, outputs \subseteq outputs',
           UNCHANGED <<generation, seals, outlived>>
    PROVE  GenerationSealed'
BY DEF GenerationSealed, AllSealed, ValidSeal

\* A process that is gone has a row like any other.
LEMMA DeadIsARow == Dead \in WorkerRows /\ Dead.step = "gone"
BY DEF Dead, WorkerRows, WorkerSteps

\* A step of one process, of which RowFits says the rest.
LEMMA WorkerFits ==
    ASSUME RetrofitAssumption, RetrofitInv, NEW p \in DOMAIN procs, NEW r \in WorkerRows,
           procs' = [procs EXCEPT ![p] = r], UNCHANGED <<generation, supervisor, outlived>>,
           outputs \subseteq outputs', outputs' \subseteq Task \X (1..Len(procs)),
           seals' \in [Task -> 0..Len(procs)], GenerationSealed', RowFits(p, r)',
           \/ statuses' = statuses
           \/ /\ procs[p].step # "gone"
              /\ \E t \in Task \cup {Nothing} : Writes(p, t)
    PROVE  RetrofitInv'
<1>1. /\ procs' \in Seq(WorkerRows) /\ Len(procs') = Len(procs) /\ DOMAIN procs' = DOMAIN procs
      /\ procs'[p] = r /\ \A q \in DOMAIN procs : q # p => procs'[q] = procs[q]
  BY RowReplaced DEF RetrofitInv
<1>2. IsSupervisor(supervisor)'
  BY <1>1 DEF RetrofitInv, IsSupervisor
<1>3. \A q \in DOMAIN procs' : RowFits(q, procs[q])'
  BY <1>1 DEF RetrofitInv, RowFits
<1>4. FilesFit' /\ \A s \in Slot : StatusFits(s)'
  <2>1. CASE statuses' = statuses
    BY <1>1, <2>1 DEF RetrofitInv, StatusFits, FilesFit
  <2>2. ASSUME procs[p].step # "gone", NEW t \in Task \cup {Nothing}, Writes(p, t)
        PROVE  FilesFit' /\ \A s \in Slot : StatusFits(s)'
    <3>1. RowFits(p, procs[p]) /\ procs[p].slot \in Slot /\ p \in 0..Len(procs)
      BY <2>2 DEF RetrofitInv, RowFits
    <3>2. FilesFit'
      BY <1>1, <2>2, <3>1 DEF RetrofitInv, FilesFit, Writes
    <3>3. ASSUME NEW s \in Slot PROVE StatusFits(s)'
      <4>1. CASE s = procs[p].slot
        BY <1>1, <2>2, <3>1, <4>1 DEF RetrofitInv, StatusFits, FilesFit, Writes, RowFits
      <4>2. CASE s # procs[p].slot
        BY <1>1, <2>2, <3>1, <4>2 DEF RetrofitInv, StatusFits, FilesFit, Writes
      <4> QED BY <4>1, <4>2
    <3> QED BY <3>2, <3>3
  <2> QED BY <2>1, <2>2
<1> QED BY <1>1, <1>2, <1>3, <1>4 DEF RetrofitInv

\* The steps of a worker: the next task, the look at its seal, the build of its
\* outputs, the seal, the failure, the clearing of the status, and its death.
LEMMA BeginTaskFits ==
    ASSUME RetrofitAssumption, RetrofitInv, NEW p \in DOMAIN procs, BeginTask(p)
    PROVE  RetrofitInv'
<1>1. PICK t \in procs[p].todo :
          /\ procs' = [procs EXCEPT ![p] = [procs[p] EXCEPT !.step = "check", !.task = t]]
          /\ Writes(p, t)
  BY DEF BeginTask
<1>2. PICK r : r = [procs[p] EXCEPT !.step = "check", !.task = t]
  OBVIOUS
<1>3. procs[p] \in WorkerRows /\ RowFits(p, procs[p]) /\ procs[p].step = "idle"
  BY DEF RetrofitInv, BeginTask
<1>4. r \in WorkerRows /\ t \in Task
  BY <1>2, <1>3 DEF WorkerRows, WorkerSteps
<1>5. RowFits(p, r)'
  BY <1>2, <1>3 DEF RowFits, BeginTask, NoSupervision, WorkerRows
<1>6. GenerationSealed'
  BY SealsStay DEF RetrofitInv, BeginTask, NoSupervision
<1> QED BY <1>1, <1>2, <1>3, <1>4, <1>5, <1>6, WorkerFits
        DEF RetrofitInv, FilesFit, BeginTask, NoSupervision

LEMMA CheckFits ==
    ASSUME RetrofitAssumption, RetrofitInv, NEW p \in DOMAIN procs,
           ReuseSeal(p) \/ OpenAttempt(p)
    PROVE  RetrofitInv'
<1>1. PICK r : r = [procs[p] EXCEPT !.step = IF ReuseSeal(p) THEN "clear" ELSE "build"]
  OBVIOUS
<1>2. procs[p] \in WorkerRows /\ RowFits(p, procs[p]) /\ procs[p].step = "check"
  BY DEF RetrofitInv, ReuseSeal, OpenAttempt
<1>3. procs' = [procs EXCEPT ![p] = r]
  BY <1>1, <1>2 DEF ReuseSeal, OpenAttempt, Proceed, RetrofitInv
<1>4. r \in WorkerRows
  BY <1>1, <1>2 DEF WorkerRows, WorkerSteps
<1>5. generation # Nothing /\ ~outlived => ReuseSeal(p)
  <2>1. procs[p].task \in Task
    BY <1>2 DEF RowFits, WorkerRows
  <2> QED BY <2>1 DEF RetrofitInv, GenerationSealed, AllSealed, OpenAttempt, TaskOf
<1>6. RowFits(p, r)'
  BY <1>1, <1>2, <1>5 DEF RowFits, ReuseSeal, OpenAttempt, NoSupervision, WorkerRows
<1>7. GenerationSealed'
  BY SealsStay DEF RetrofitInv, ReuseSeal, OpenAttempt, NoSupervision
<1> QED BY <1>3, <1>4, <1>6, <1>7, WorkerFits
        DEF RetrofitInv, FilesFit, ReuseSeal, OpenAttempt, NoSupervision

LEMMA BuildOutputsFits ==
    ASSUME RetrofitAssumption, RetrofitInv, NEW p \in DOMAIN procs, BuildOutputs(p)
    PROVE  RetrofitInv'
<1>1. PICK r : r = [procs[p] EXCEPT !.step = "sealing"]
  OBVIOUS
<1>2. procs[p] \in WorkerRows /\ RowFits(p, procs[p]) /\ procs[p].step = "build"
  BY DEF RetrofitInv, BuildOutputs
<1>3. r \in WorkerRows /\ procs[p].task \in Task /\ p \in 1..Len(procs)
  BY <1>1, <1>2 DEF WorkerRows, WorkerSteps, RowFits, RetrofitInv
<1>4. procs' = [procs EXCEPT ![p] = r]
  BY <1>1 DEF BuildOutputs, Proceed
<1>5. outputs' = outputs \cup {<<procs[p].task, p>>}
  BY DEF BuildOutputs, TaskOf
<1>6. RowFits(p, r)'
  BY <1>1, <1>2, <1>5 DEF RowFits, BuildOutputs, NoSupervision, WorkerRows
<1>7. GenerationSealed'
  BY <1>5, SealsStay DEF RetrofitInv, BuildOutputs, NoSupervision
<1>8. outputs' \subseteq Task \X (1..Len(procs))
  BY <1>3, <1>5 DEF RetrofitInv, FilesFit
<1> QED BY <1>3, <1>4, <1>5, <1>6, <1>7, <1>8, WorkerFits
        DEF RetrofitInv, FilesFit, BuildOutputs, NoSupervision

LEMMA SealTaskFits ==
    ASSUME RetrofitAssumption, RetrofitInv, NEW p \in DOMAIN procs, SealTask(p)
    PROVE  RetrofitInv'
<1>1. PICK r : r = [procs[p] EXCEPT !.step = "clear"]
  OBVIOUS
<1>2. procs[p] \in WorkerRows /\ RowFits(p, procs[p]) /\ procs[p].step = "sealing"
  BY DEF RetrofitInv, SealTask
<1>3. r \in WorkerRows /\ procs[p].task \in Task /\ p \in 1..Len(procs)
  <2>1. r \in WorkerRows
    BY <1>1, <1>2 DEF WorkerRows, WorkerSteps
  <2>2. procs[p].task \in Task
    BY <1>2 DEF WorkerRows, RowFits
  <2> QED BY <2>1, <2>2 DEF RetrofitInv
<1>4. procs' = [procs EXCEPT ![p] = r]
  BY <1>1 DEF SealTask, Proceed
<1>5. RowFits(p, r)'
  BY <1>1, <1>2 DEF RowFits, SealTask, NoSupervision, WorkerRows
<1>6. seals' = [seals EXCEPT ![procs[p].task] = p] /\ seals' \in [Task -> 0..Len(procs)]
  BY <1>3 DEF SealTask, TaskOf, RetrofitInv, FilesFit
<1>7. GenerationSealed'
  <2>1. <<procs[p].task, p>> \in outputs /\ (generation # Nothing => outlived)
    BY <1>2 DEF RowFits
  <2>2. AllSealed => AllSealed'
    BY <1>3, <1>6, <2>1 DEF AllSealed, ValidSeal, SealTask, RetrofitInv, FilesFit
  <2> QED BY <2>1, <2>2 DEF RetrofitInv, GenerationSealed, SealTask, NoSupervision
<1> QED BY <1>3, <1>4, <1>5, <1>6, <1>7, WorkerFits
        DEF RetrofitInv, FilesFit, SealTask, NoSupervision

LEMMA FailTaskFits ==
    ASSUME RetrofitAssumption, RetrofitInv, NEW p \in DOMAIN procs, FailTask(p)
    PROVE  RetrofitInv'
<1>1. PICK left \in {{procs[p].task}, procs[p].todo} :
          procs' = [procs EXCEPT ![p] = [procs[p] EXCEPT !.failed = procs[p].failed + 1,
                                                         !.step = "clear", !.todo = left]]
  BY DEF FailTask, TaskOf
<1>2. PICK r : r = [procs[p] EXCEPT !.failed = procs[p].failed + 1, !.step = "clear",
                                    !.todo = left]
  OBVIOUS
<1>3. procs[p] \in WorkerRows /\ RowFits(p, procs[p]) /\ procs[p].step = "build"
  BY DEF RetrofitInv, FailTask
<1>4. left \subseteq procs[p].todo /\ procs[p].task \in left
  BY <1>3 DEF RowFits
<1>5. r \in WorkerRows
  <2>1. left \in SUBSET Task /\ procs[p].failed + 1 \in Nat
    BY <1>3, <1>4 DEF WorkerRows
  <2>2. \A old \in WorkerRows, n \in Nat, todos \in SUBSET Task :
           [old EXCEPT !.failed = n, !.step = "clear", !.todo = todos] \in WorkerRows
    BY DEF WorkerRows, WorkerSteps
  <2> QED BY <1>2, <1>3, <2>1, <2>2
<1>6. RowFits(p, r)'
  BY <1>2, <1>3, <1>4 DEF RowFits, FailTask, NoSupervision, WorkerRows
<1>7. GenerationSealed'
  BY SealsStay DEF RetrofitInv, FailTask, NoSupervision
<1> QED BY <1>1, <1>2, <1>5, <1>6, <1>7, WorkerFits
        DEF RetrofitInv, FilesFit, FailTask, NoSupervision

LEMMA ClearTaskFits ==
    ASSUME RetrofitAssumption, RetrofitInv, NEW p \in DOMAIN procs, ClearTask(p)
    PROVE  RetrofitInv'
<1>1. PICK r : r = IF procs[p].todo = {TaskOf(p)} THEN Dead
                   ELSE [procs[p] EXCEPT !.step = "idle", !.task = Nothing,
                                         !.todo = procs[p].todo \ {TaskOf(p)}]
  OBVIOUS
<1>2. procs[p] \in WorkerRows /\ RowFits(p, procs[p]) /\ procs[p].step = "clear"
  BY DEF RetrofitInv, ClearTask
<1>3. procs' = [procs EXCEPT ![p] = r]
  BY <1>1 DEF ClearTask
<1>4. r \in WorkerRows
  BY <1>1, <1>2, DeadIsARow DEF WorkerRows, WorkerSteps
<1>5. RowFits(p, r)'
  BY <1>1, <1>2, DeadIsARow DEF RowFits, ClearTask, NoSupervision, WorkerRows
<1>6. GenerationSealed'
  BY SealsStay DEF RetrofitInv, ClearTask, NoSupervision
<1> QED BY <1>2, <1>3, <1>4, <1>5, <1>6, WorkerFits
        DEF RetrofitInv, FilesFit, ClearTask, NoSupervision

LEMMA WorkerDiesFits ==
    ASSUME RetrofitAssumption, RetrofitInv, NEW p \in DOMAIN procs, WorkerDies(p)
    PROVE  RetrofitInv'
<1>1. RowFits(p, Dead)'
  BY DeadIsARow DEF RowFits
<1>2. GenerationSealed'
  BY SealsStay DEF RetrofitInv, WorkerDies
<1> QED BY <1>1, <1>2, DeadIsARow, WorkerFits DEF RetrofitInv, FilesFit, WorkerDies

\* The processes of a run are numbered in the order of its slots: a sequence as
\* long as the set it lists takes each slot once.
LEMMA NumberedOnce ==
    ASSUME NEW S, IsFiniteSet(S), NEW ranking \in [1..Cardinality(S) -> S],
           \A s \in S : \E i \in DOMAIN ranking : ranking[i] = s
    PROVE  /\ Cardinality(S) \in Nat
           /\ \A i, j \in 1..Cardinality(S) : ranking[i] = ranking[j] => i = j
<1>1. Cardinality(S) \in Nat
  BY FS_CardinalityType
<1>2. IsFiniteSet(1..Cardinality(S)) /\ Cardinality(1..Cardinality(S)) = Cardinality(S)
  BY <1>1, FS_Interval
<1>3. ranking \in Surjection(1..Cardinality(S), S)
  BY DEF Surjection
<1>4. ranking \in Injection(1..Cardinality(S), S)
  BY <1>2, <1>3, FS_SurjSameCardinalityImpliesInj
<1> QED BY <1>1, <1>4 DEF Injection, IsInjective

\* Nothing lives without a run, unless it outlived one.
LEMMA NoneAlive ==
    ASSUME RetrofitInv, ~outlived, supervisor = NoRun \/ Running = {}
    PROVE  \A p \in DOMAIN procs : procs[p].step = "gone"
<1> SUFFICES ASSUME NEW p \in DOMAIN procs, procs[p].step # "gone" PROVE FALSE
  OBVIOUS
<1>1. /\ procs[p].slot \in DOMAIN supervisor.pids /\ supervisor.pids[procs[p].slot] = p
      /\ p # 0
  <2>1. RowFits(p, procs[p]) /\ procs \in Seq(WorkerRows)
    BY DEF RetrofitInv
  <2>2. p # 0
    BY <2>1
  <2> QED BY <2>1, <2>2 DEF RowFits
<1>2. CASE supervisor = NoRun
  <2>1. supervisor.pids = <<>>
    BY <1>2 DEF NoRun
  <2> QED BY <1>1, <2>1
<1>3. CASE Running = {}
  BY <1>1, <1>3 DEF Running
<1> QED BY <1>2, <1>3

\* A run starts, after whatever processes a killed run left.
LEMMA StartRunFits ==
    ASSUME RetrofitAssumption, RetrofitInv, StartRun
    PROVE  RetrofitInv'
<1>1. PICK mode \in {"canary", "full"} :
          LET pending == {t \in PendingTasks(mode) : ~ValidSeal(t)}
              used == {s \in Slot : Chunks[s] \cap pending # {}} IN
          /\ \E ranking \in [1..Cardinality(used) -> used] :
                /\ \A s \in used : \E i \in DOMAIN ranking : ranking[i] = s
                /\ Len(procs) + Cardinality(used) <= MaxPid
                /\ supervisor' =
                      [mode |-> mode,
                       chunks |-> [s \in used |-> Chunks[s] \cap pending],
                       pids |-> [s \in used |-> Len(procs)
                                    + (CHOOSE i \in DOMAIN ranking : ranking[i] = s)],
                       timeouts |-> [t \in Task |-> 0]]
                /\ procs' = procs \o [i \in DOMAIN ranking |-> NewWorker(ranking[i])]
          /\ ResetStatuses(used)
  BY DEF StartRun
<1> DEFINE pending == {t \in PendingTasks(mode) : ~ValidSeal(t)}
           used == {s \in Slot : Chunks[s] \cap pending # {}}
<1>2. PICK ranking \in [1..Cardinality(used) -> used] :
            /\ \A s \in used : \E i \in DOMAIN ranking : ranking[i] = s
            /\ Len(procs) + Cardinality(used) <= MaxPid
            /\ supervisor' =
                  [mode |-> mode, chunks |-> [s \in used |-> Chunks[s] \cap pending],
                   pids |-> [s \in used |-> Len(procs)
                                + (CHOOSE i \in DOMAIN ranking : ranking[i] = s)],
                   timeouts |-> [t \in Task |-> 0]]
            /\ procs' = procs \o [i \in DOMAIN ranking |-> NewWorker(ranking[i])]
            /\ ResetStatuses(used)
  BY <1>1
<1>used. pending \subseteq Task /\ used \subseteq Slot
  BY DEF PendingTasks, RetrofitAssumption
<1> HIDE <1>1 DEF pending, used
<1> DEFINE n == Cardinality(used)
           numberOf == [s \in used |-> CHOOSE i \in DOMAIN ranking : ranking[i] = s]
           new == [i \in 1..n |-> NewWorker(ranking[i])]
<1>3. n \in Nat /\ \A i, j \in 1..n : ranking[i] = ranking[j] => i = j
  <2>1. IsFiniteSet(used)
    BY <1>used, FS_Subset DEF RetrofitAssumption
  <2> QED BY <1>2, <2>1, NumberedOnce
<1>4. \A s \in used : numberOf[s] \in 1..n /\ ranking[numberOf[s]] = s
  BY <1>2
<1>5. \A i \in 1..n : ranking[i] \in used /\ numberOf[ranking[i]] = i
  BY <1>3, <1>4
<1>6. /\ supervisor'.mode = mode /\ mode # Nothing
      /\ DOMAIN supervisor' = {"mode", "chunks", "pids", "timeouts"}
      /\ supervisor'.chunks = [s \in used |-> Chunks[s] \cap pending]
      /\ supervisor'.pids = [s \in used |-> Len(procs) + numberOf[s]]
      /\ supervisor'.timeouts \in [Task -> Nat]
  BY <1>2 DEF RetrofitAssumption
<1>7. Len(procs) \in Nat /\ MaxPid \in Nat /\ Len(procs) + n <= MaxPid
  BY <1>2 DEF RetrofitInv, RetrofitAssumption
<1>8. \A i \in 1..n :
         /\ new[i] \in WorkerRows /\ new[i].slot = ranking[i] /\ new[i].step = "idle"
         /\ new[i].todo = Chunks[ranking[i]] \cap pending
  <2> TAKE i \in 1..n
  <2>1. new[i] = [slot |-> ranking[i], todo |-> Chunks[ranking[i]] \cap pending,
                  task |-> Nothing, failed |-> 0, step |-> "idle"]
    BY <1>5, <1>6 DEF NewWorker
  <2>2. ranking[i] \in Slot /\ Chunks[ranking[i]] \cap pending \subseteq Task
    BY <1>5, <1>used
  <2> QED BY <2>1, <2>2 DEF WorkerRows, WorkerSteps
<1>9. procs' = procs \o new
  BY <1>2, <1>3
<1> HIDE DEF numberOf, new, n
<1>10. new \in Seq(WorkerRows) /\ Len(new) = n
  BY <1>3, <1>8 DEF new
<1>11. /\ procs' \in Seq(WorkerRows) /\ Len(procs') = Len(procs) + n
       /\ \A p \in 1..Len(procs) : procs'[p] = procs[p]
       /\ \A i \in 1..n : procs'[Len(procs) + i] = new[i]
  <2>1. procs \in Seq(WorkerRows)
    BY DEF RetrofitInv
  <2>2. /\ procs \o new \in Seq(WorkerRows) /\ Len(procs \o new) = Len(procs) + Len(new)
        /\ \A p \in 1..Len(procs) : (procs \o new)[p] = procs[p]
        /\ \A i \in 1..Len(new) : (procs \o new)[Len(procs) + i] = new[i]
    <3>1. ASSUME NEW b \in Seq(WorkerRows)
          PROVE  /\ procs \o b \in Seq(WorkerRows) /\ Len(procs \o b) = Len(procs) + Len(b)
                 /\ \A p \in 1..Len(procs) : (procs \o b)[p] = procs[p]
                 /\ \A i \in 1..Len(b) : (procs \o b)[Len(procs) + i] = b[i]
      BY <2>1
    <3> QED BY <3>1, <1>10
  <2> QED BY <2>2, <1>9, <1>10
<1>12. IsSupervisor(supervisor)'
  BY <1>used, <1>4, <1>6, <1>7, <1>11, <1>3 DEF IsSupervisor, RetrofitAssumption
<1>13. FilesFit'
  <2>1. outputs' \subseteq Task \X (1..Len(procs')) /\ seals' \in [Task -> 0..Len(procs')]
    <3>1. 1..Len(procs) \subseteq 1..Len(procs') /\ 0..Len(procs) \subseteq 0..Len(procs')
      BY <1>3, <1>7, <1>11
    <3>2. outputs \subseteq Task \X (1..Len(procs)) /\ seals \in [Task -> 0..Len(procs)]
      BY DEF RetrofitInv, FilesFit
    <3>3. outputs \subseteq Task \X (1..Len(procs')) /\ seals \in [Task -> 0..Len(procs')]
      BY <3>1, <3>2
    <3> QED BY <3>3 DEF StartRun
  <2>2. Len(procs') <= MaxPid /\ outlived' \in BOOLEAN
    BY <1>7, <1>11 DEF RetrofitInv, FilesFit, StartRun
  <2>3. DOMAIN statuses' = Slot /\ statuses' = [s \in Slot |-> statuses'[s]]
    BY <1>2 DEF ResetStatuses
  <2> QED BY <2>1, <2>2, <2>3 DEF FilesFit
<1>14. GenerationSealed'
  BY SealsStay DEF RetrofitInv, StartRun
<1>15. ASSUME NEW p \in DOMAIN procs' PROVE RowFits(p, procs[p])'
  <2>1. CASE p \in 1..Len(procs)
    <3>1. RowFits(p, procs[p]) /\ (~outlived => procs[p].step = "gone")
      BY <2>1, NoneAlive DEF RetrofitInv, StartRun, Active, IsSupervisor
    <3> QED BY <2>1, <3>1, <1>11 DEF RowFits, StartRun
  <2>2. CASE p \notin 1..Len(procs)
    <3>1. PICK i \in 1..n : p = Len(procs) + i
      <4>1. p - Len(procs) \in 1..n /\ p = Len(procs) + (p - Len(procs))
        BY <2>2, <1>7, <1>3, <1>11
      <4> QED BY <4>1
    <3>2. procs'[p] = new[i] /\ ranking[i] \in used
      BY <3>1, <1>5, <1>11
    <3>3. ranking[i] \in DOMAIN supervisor'.pids /\ supervisor'.pids[ranking[i]] = p
      BY <3>1, <1>5, <1>6
    <3>4. /\ new[i].slot = ranking[i] /\ new[i].step = "idle"
          /\ new[i].todo \subseteq Chunks[ranking[i]] /\ ranking[i] \in Slot
      BY <3>2, <1>8, <1>used
    <3>5. "idle" \notin {"check", "build", "sealing", "clear", "gone"}
      OBVIOUS
    <3> QED BY <3>2, <3>3, <3>4, <3>5 DEF RowFits
  <2> QED BY <2>1, <2>2
<1>16. ASSUME NEW s \in Slot PROVE StatusFits(s)'
  <2>1. Len(procs') \in Nat /\ Len(procs) <= Len(procs')
    BY <1>3, <1>7, <1>11
  <2>2. CASE s \in used
    <3>1. statuses'[s] = [pid |-> 0, active |-> Nothing]
      BY <2>2, <1>2 DEF ResetStatuses
    <3> QED BY <2>1, <3>1 DEF StatusFits
  <2>3. CASE s \notin used
    <3>1. statuses'[s] = statuses[s] /\ s \notin DOMAIN supervisor'.pids
      BY <2>3, <1>2, <1>6 DEF ResetStatuses
    <3>2. StatusFits(s)
      BY DEF RetrofitInv
    <3> QED BY <2>1, <3>1, <3>2, <1>7 DEF StatusFits
  <2> QED BY <2>2, <2>3
<1> QED BY <1>11, <1>12, <1>13, <1>14, <1>15, <1>16 DEF RetrofitInv

\* The supervisor's steps: collecting what has ended, stopping a task that timed
\* out, the end of the run, and its stop.
LEMMA CollectFits ==
    ASSUME RetrofitAssumption, RetrofitInv, NEW s \in Slot, Collect(s)
    PROVE  RetrofitInv'
<1> DEFINE pids == [supervisor.pids EXCEPT ![s] = 0]
<1>1. /\ s \in DOMAIN supervisor.pids /\ supervisor.mode # Nothing
      /\ DOMAIN supervisor = {"mode", "chunks", "pids", "timeouts"}
      /\ ~Lives(supervisor.pids[s])
  BY DEF Collect, Running, Active, RetrofitInv, IsSupervisor
<1>2. /\ supervisor'.pids = pids /\ supervisor'.mode = supervisor.mode
      /\ supervisor'.chunks = supervisor.chunks
      /\ supervisor'.timeouts = supervisor.timeouts
      /\ DOMAIN supervisor' = DOMAIN supervisor
  BY <1>1 DEF Collect
<1>3. /\ DOMAIN pids = DOMAIN supervisor.pids /\ pids[s] = 0
      /\ \A u \in DOMAIN supervisor.pids : u # s => pids[u] = supervisor.pids[u]
      /\ pids = [u \in DOMAIN pids |-> pids[u]]
  BY <1>1
<1> HIDE DEF pids
<1>4. UNCHANGED <<outputs, seals, generation, procs, statuses, outlived>>
  BY DEF Collect
<1>5. IsSupervisor(supervisor)'
  BY <1>1, <1>2, <1>3, <1>4 DEF RetrofitInv, IsSupervisor
<1>6. FilesFit'
  BY <1>4 DEF RetrofitInv, FilesFit
<1>7. GenerationSealed'
  BY <1>4, SealsStay DEF RetrofitInv
<1>8. \A p \in DOMAIN procs' : RowFits(p, procs[p])'
  BY <1>1, <1>2, <1>3, <1>4 DEF RetrofitInv, RowFits, Lives
<1>9. \A u \in Slot : StatusFits(u)'
  BY <1>2, <1>3, <1>4 DEF RetrofitInv, StatusFits
<1> QED BY <1>4, <1>5, <1>6, <1>7, <1>8, <1>9 DEF RetrofitInv

LEMMA StopTimedOutFits ==
    ASSUME RetrofitAssumption, RetrofitInv, NEW s \in Slot, StopTimedOut(s)
    PROVE  RetrofitInv'
<1> DEFINE t == statuses[s].active
           again == supervisor.timeouts[t] < TimeoutRetries
           pid == IF again THEN Len(procs) + 1 ELSE 0
           pids == [supervisor.pids EXCEPT ![s] = pid]
           old == supervisor.pids[s]
           gone == [procs EXCEPT ![old] = Dead]
<1>1. /\ s \in DOMAIN supervisor.pids /\ supervisor.mode # Nothing
      /\ DOMAIN supervisor = {"mode", "chunks", "pids", "timeouts"}
      /\ supervisor.timeouts \in [Task -> Nat] /\ old \in DOMAIN procs /\ old # 0
      /\ procs[old].step # "gone" /\ t \in Task
  BY DEF StopTimedOut, TimesOut, Running, Active, RetrofitInv, IsSupervisor, Lives, StatusFits
<1>2. supervisor' = [supervisor EXCEPT
                        !.timeouts = [supervisor.timeouts EXCEPT ![t] = supervisor.timeouts[t] + 1],
                        !.pids = pids]
  BY DEF StopTimedOut
<1>3. /\ supervisor'.pids = pids /\ supervisor'.mode = supervisor.mode
      /\ supervisor'.chunks = supervisor.chunks
      /\ supervisor'.timeouts = [supervisor.timeouts EXCEPT ![t] = supervisor.timeouts[t] + 1]
      /\ DOMAIN supervisor' = DOMAIN supervisor
  BY <1>1, <1>2
<1>4. supervisor'.timeouts \in [Task -> Nat]
  BY <1>1, <1>3
<1>5. /\ DOMAIN pids = DOMAIN supervisor.pids /\ pids[s] = pid
      /\ \A u \in DOMAIN supervisor.pids : u # s => pids[u] = supervisor.pids[u]
      /\ pids = [u \in DOMAIN pids |-> pids[u]]
  BY <1>1
<1>6. /\ gone \in Seq(WorkerRows) /\ Len(gone) = Len(procs) /\ DOMAIN gone = DOMAIN procs
      /\ gone[old] = Dead /\ \A q \in DOMAIN procs : q # old => gone[q] = procs[q]
  BY <1>1, RowReplaced, DeadIsARow DEF RetrofitInv
<1>7. /\ procs' = IF again THEN Append(gone, NewWorker(s)) ELSE gone
      /\ again => Len(procs) < MaxPid
      /\ ResetStatuses(IF again THEN {s} ELSE {})
  BY DEF StopTimedOut, WithoutProcess
<1>8. /\ NewWorker(s) \in WorkerRows /\ NewWorker(s).step = "idle"
      /\ NewWorker(s).slot = s /\ NewWorker(s).todo \subseteq Chunks[s]
  <2>1. supervisor'.chunks[s] \subseteq Chunks[s] /\ Chunks[s] \subseteq Task
    BY <1>1, <1>3 DEF RetrofitInv, IsSupervisor, RetrofitAssumption
  <2> QED BY <2>1 DEF NewWorker, WorkerRows, WorkerSteps
<1>9. again \in BOOLEAN /\ pid = IF again THEN Len(procs) + 1 ELSE 0
  OBVIOUS
<1> HIDE DEF t, again, pid, pids, old, gone
<1>10. /\ Len(procs) \in Nat /\ MaxPid \in Nat /\ Len(procs) <= MaxPid
       /\ DOMAIN procs = 1..Len(procs)
  BY DEF RetrofitInv, FilesFit, RetrofitAssumption
<1>11. /\ procs' \in Seq(WorkerRows)
       /\ Len(procs') = IF again THEN Len(procs) + 1 ELSE Len(procs)
       /\ \A q \in 1..Len(procs) : procs'[q] = gone[q]
       /\ again => procs'[Len(procs) + 1] = NewWorker(s)
  BY <1>6, <1>7, <1>8, <1>9, <1>10
<1>12. UNCHANGED <<outputs, seals, generation, outlived>>
  BY DEF StopTimedOut
<1>13. IsSupervisor(supervisor)'
  <2>1. \A u \in DOMAIN pids : pids[u] \in 0..Len(procs')
    BY <1>5, <1>9, <1>10, <1>11 DEF RetrofitInv, IsSupervisor
  <2> QED BY <2>1, <1>1, <1>3, <1>4, <1>5 DEF RetrofitInv, IsSupervisor
<1>14. FilesFit'
  <2>1. Len(procs) <= Len(procs') /\ Len(procs') <= MaxPid /\ Len(procs') \in Nat
    BY <1>7, <1>9, <1>10, <1>11
  <2> QED BY <2>1, <1>7, <1>10, <1>12 DEF RetrofitInv, FilesFit, ResetStatuses
<1>15. GenerationSealed'
  BY <1>12, SealsStay DEF RetrofitInv
<1>16. ASSUME NEW p \in DOMAIN procs' PROVE RowFits(p, procs[p])'
  <2>1. CASE p \in DOMAIN procs /\ p # old
    <3>1. procs'[p] = procs[p] /\ RowFits(p, procs[p])
      BY <2>1, <1>6, <1>10, <1>11 DEF RetrofitInv
    <3>2. procs[p].step # "gone" /\ ~outlived => procs[p].slot # s
      BY <2>1, <3>1 DEF RowFits, old
    <3> QED BY <3>1, <3>2, <1>3, <1>5, <1>12 DEF RowFits
  <2>2. CASE p = old
    <3>1. procs'[p] = Dead
      BY <2>2, <1>1, <1>6, <1>10, <1>11
    <3> QED BY <3>1, DeadIsARow DEF RowFits
  <2>3. CASE p \notin DOMAIN procs
    <3>1. again /\ p = Len(procs) + 1 /\ procs'[p] = NewWorker(s)
      BY <2>3, <1>9, <1>10, <1>11
    <3> QED BY <3>1, <1>1, <1>3, <1>5, <1>8, <1>9 DEF RowFits
  <2> QED BY <2>1, <2>2, <2>3
<1>17. ASSUME NEW u \in Slot PROVE StatusFits(u)'
  <2>1. Len(procs') \in Nat /\ Len(procs) <= Len(procs')
    BY <1>9, <1>10, <1>11
  <2>2. CASE again /\ u = s
    BY <2>1, <2>2, <1>7, <1>10 DEF StatusFits, ResetStatuses
  <2>3. CASE ~again \/ u # s
    <3>1. statuses'[u] = statuses[u]
      BY <2>3, <1>7, <1>9 DEF ResetStatuses
    <3>2. StatusFits(u) /\ (u = s => pids[u] = 0)
      BY <2>3, <1>5, <1>9 DEF RetrofitInv
    <3> QED BY <2>1, <3>1, <3>2, <1>3, <1>5, <1>10, <1>12 DEF StatusFits
  <2> QED BY <1>9, <2>2, <2>3
<1> QED BY <1>11, <1>13, <1>14, <1>15, <1>16, <1>17 DEF RetrofitInv

LEMMA EndOfRunFits ==
    ASSUME RetrofitAssumption, RetrofitInv, FinishSupervision \/ ResealRun
    PROVE  RetrofitInv'
<1>1. UNCHANGED <<outputs, seals, procs, statuses, outlived>> /\ supervisor' = NoRun
  BY DEF FinishSupervision, ResealRun, RetrofitInv, IsSupervisor, Active
<1>2. ~outlived => \A p \in DOMAIN procs : procs[p].step = "gone"
  BY NoneAlive DEF FinishSupervision, ResealRun, RetrofitInv, IsSupervisor, Active
<1>3. \/ generation' = generation
      \/ AllSealed /\ generation' = seals
  BY DEF FinishSupervision, ResealRun, SealGeneration
<1>4. GenerationSealed'
  BY <1>1, <1>3 DEF RetrofitInv, GenerationSealed, AllSealed, ValidSeal
<1>5. IsSupervisor(supervisor)'
  BY <1>1 DEF IsSupervisor, NoRun
<1>6. \A p \in DOMAIN procs' : RowFits(p, procs[p])'
  BY <1>1, <1>2 DEF RetrofitInv, RowFits
<1>7. \A s \in Slot : StatusFits(s)'
  BY <1>1 DEF RetrofitInv, StatusFits, NoRun
<1>8. FilesFit'
  BY <1>1 DEF RetrofitInv, FilesFit
<1> QED BY <1>1, <1>4, <1>5, <1>6, <1>7, <1>8 DEF RetrofitInv

LEMMA StopRunFits ==
    ASSUME RetrofitAssumption, RetrofitInv, StopRun
    PROVE  RetrofitInv'
<1>1. UNCHANGED <<outputs, seals, generation, statuses>> /\ supervisor' = NoRun
  BY DEF StopRun
<1>2. /\ procs' \in Seq(WorkerRows) /\ Len(procs') = Len(procs) /\ DOMAIN procs' = DOMAIN procs
      /\ \A p \in DOMAIN procs : procs'[p] = procs[p] \/ procs'[p] = Dead
      /\ outlived' \in BOOLEAN /\ (outlived => outlived')
      /\ ~outlived' => \A p \in DOMAIN procs : procs'[p].step = "gone"
  <2>1. CASE procs' = [p \in DOMAIN procs |-> Dead] /\ UNCHANGED outlived
    BY <2>1, DeadIsARow DEF RetrofitInv, FilesFit
  <2>2. CASE outlived' = (outlived \/ \E p \in DOMAIN procs : Lives(p)) /\ UNCHANGED procs
    BY <2>2 DEF RetrofitInv, FilesFit, Lives
  <2> QED BY <2>1, <2>2 DEF StopRun
<1>3. GenerationSealed'
  BY <1>1, <1>2 DEF RetrofitInv, GenerationSealed, AllSealed, ValidSeal
<1>4. IsSupervisor(supervisor)'
  BY <1>1 DEF IsSupervisor, NoRun
<1>5. \A p \in DOMAIN procs' : RowFits(p, procs[p])'
  BY <1>1, <1>2, DeadIsARow DEF RetrofitInv, RowFits
<1>6. \A s \in Slot : StatusFits(s)'
  BY <1>1, <1>2 DEF RetrofitInv, StatusFits, NoRun
<1>7. FilesFit'
  BY <1>1, <1>2 DEF RetrofitInv, FilesFit
<1> QED BY <1>2, <1>3, <1>4, <1>5, <1>6, <1>7 DEF RetrofitInv

\* The invariant holds first, and every step keeps it.
LEMMA RetrofitStarts ==
    ASSUME RetrofitAssumption, RetrofitInit
    PROVE  RetrofitInv
<1>1. /\ procs = <<>> /\ Len(procs) = 0 /\ DOMAIN procs = {} /\ procs \in Seq(WorkerRows)
      /\ supervisor = NoRun /\ generation = Nothing /\ outputs = {} /\ outlived = FALSE
      /\ seals = [t \in Task |-> 0]
      /\ statuses = [s \in Slot |-> [pid |-> 0, active |-> Nothing]]
  BY DEF RetrofitInit
<1>2. FilesFit
  <2>1. seals \in [Task -> 0..Len(procs)] /\ Len(procs) <= MaxPid
    BY <1>1 DEF RetrofitAssumption
  <2>2. statuses = [s \in Slot |-> statuses[s]] /\ DOMAIN statuses = Slot
    BY <1>1
  <2> QED BY <1>1, <2>1, <2>2 DEF FilesFit
<1>3. IsSupervisor(supervisor)
  BY <1>1 DEF IsSupervisor, NoRun
<1>4. \A s \in Slot : StatusFits(s)
  BY <1>1 DEF StatusFits
<1> QED BY <1>1, <1>2, <1>3, <1>4 DEF RetrofitInv, GenerationSealed

LEMMA RetrofitStays ==
    ASSUME RetrofitAssumption, RetrofitInv, [RetrofitNext]_retrofitVars
    PROVE  RetrofitInv'
<1>1. CASE StartRun
  BY <1>1, StartRunFits
<1>2. CASE FinishSupervision \/ ResealRun
  BY <1>2, EndOfRunFits
<1>3. CASE StopRun
  BY <1>3, StopRunFits
<1>4. ASSUME NEW s \in Slot, Collect(s) \/ StopTimedOut(s) PROVE RetrofitInv'
  BY <1>4, CollectFits, StopTimedOutFits
<1>5. ASSUME NEW p \in DOMAIN procs,
             \/ BeginTask(p) \/ ReuseSeal(p) \/ OpenAttempt(p) \/ BuildOutputs(p)
             \/ SealTask(p) \/ FailTask(p) \/ ClearTask(p) \/ WorkerDies(p)
      PROVE  RetrofitInv'
  BY <1>5, BeginTaskFits, CheckFits, BuildOutputsFits, SealTaskFits, FailTaskFits,
     ClearTaskFits, WorkerDiesFits
<1>6. CASE UNCHANGED retrofitVars
  BY <1>6 DEF retrofitVars, RetrofitInv, FilesFit, IsSupervisor, GenerationSealed, AllSealed,
              ValidSeal, RowFits, StatusFits
<1> QED BY <1>1, <1>2, <1>3, <1>4, <1>5, <1>6 DEF RetrofitNext

\* A worker is stopped for a task of its own.
LEMMA NoStaleTimeoutThen ==
    ASSUME RetrofitInv
    PROVE  NoStaleTimeout
BY DEF RetrofitInv, NoStaleTimeout, TimesOut, Running, StatusFits

\* The types, and no more live workers than slots, of a run that nothing outlived.
LEMMA RetrofitTyped ==
    ASSUME RetrofitAssumption, RetrofitInv
    PROVE  RetrofitTypeOK
<1>1. /\ outputs \subseteq Task \X (1..Len(procs)) /\ seals \in [Task -> 0..Len(procs)]
      /\ Len(procs) <= MaxPid
      /\ \A p \in DOMAIN procs :
            procs[p].step \in {"idle", "check", "build", "sealing", "clear", "gone"}
      /\ \A s \in Slot : statuses[s].pid \in 0..Len(procs)
  <2>1. \A p \in DOMAIN procs : procs[p] \in WorkerRows
    BY DEF RetrofitInv
  <2>2. \A p \in DOMAIN procs :
           procs[p].step \in {"idle", "check", "build", "sealing", "clear", "gone"}
    BY <2>1 DEF WorkerRows, WorkerSteps
  <2>3. \A s \in Slot : statuses[s].pid \in 0..Len(procs)
    BY DEF RetrofitInv, StatusFits
  <2> QED BY <2>2, <2>3 DEF RetrofitInv, FilesFit
<1>2. ASSUME ~outlived
      PROVE  /\ Cardinality({p \in DOMAIN procs : Lives(p)}) <= Cardinality(Slot)
             /\ \A p, q \in DOMAIN procs :
                   Lives(p) /\ Lives(q) /\ p # q => procs[p].todo \cap procs[q].todo = {}
  <2>1. \A p \in DOMAIN procs : Lives(p) =>
           /\ procs[p].slot \in Slot /\ supervisor.pids[procs[p].slot] = p
           /\ procs[p].todo \subseteq Chunks[procs[p].slot]
    BY <1>2 DEF RetrofitInv, RowFits, Lives
  <2> DEFINE alive == {p \in DOMAIN procs : Lives(p)}
             slotOf == [p \in alive |-> procs[p].slot]
  <2>2. slotOf \in Injection(alive, Slot)
    BY <2>1 DEF Injection, IsInjective
  <2>3. Cardinality(alive) <= Cardinality(Slot)
    BY <2>2, FS_Injection DEF RetrofitAssumption
  <2>4. \A p, q \in DOMAIN procs :
           Lives(p) /\ Lives(q) /\ p # q => procs[p].todo \cap procs[q].todo = {}
    BY <2>1 DEF RetrofitAssumption
  <2> QED BY <2>3, <2>4
<1> QED BY <1>1, <1>2 DEF RetrofitTypeOK

\* SealsHold of the retrofit: a sealed generation has whole outputs of every task
\* and names the seals that are there, and no worker is ended for a task that an
\* earlier one left behind (linked_reference_retrofit.py).
THEOREM RetrofitSafe == RetrofitSpec => []SealsHold
<1>1. RetrofitInit => RetrofitInv
  BY RetrofitAssumption, RetrofitStarts
<1>2. RetrofitInv /\ [RetrofitNext]_retrofitVars => RetrofitInv'
  BY RetrofitAssumption, RetrofitStays
<1>3. RetrofitInv => SealsHold
  BY NoStaleTimeoutThen DEF RetrofitInv, SealsHold
<1> QED BY <1>1, <1>2, <1>3, PTL DEF RetrofitSpec

\* RetrofitTypeOK of the retrofit: its state is of its types, and unless a killed
\* run was outlived no more workers live than there are slots, and no two of
\* them have a task in common (linked_reference_retrofit.py).
THEOREM RetrofitTypeSafe == RetrofitSpec => []RetrofitTypeOK
<1>1. RetrofitInit => RetrofitInv
  BY RetrofitAssumption, RetrofitStarts
<1>2. RetrofitInv /\ [RetrofitNext]_retrofitVars => RetrofitInv'
  BY RetrofitAssumption, RetrofitStays
<1>3. RetrofitInv => RetrofitTypeOK
  BY RetrofitAssumption, RetrofitTyped
<1> QED BY <1>1, <1>2, <1>3, PTL DEF RetrofitSpec

-----------------------------------------------------------------------------
\* The build pipeline (pipeline.py).  Its phases walk the matrix cell by cell,
\* in order, so what a phase has done is known of each cell before `todo`.
\* A set of natural numbers has a least one (the library's well-founded minimum).
LEMMA LeastNatural ==
    ASSUME NEW T \in SUBSET Nat, T # {}
    PROVE  \E x \in T : \A y \in T : x <= y
<1> DEFINE R == OpToRel(<, Nat)
<1>1. IsWellFoundedOn(R, Nat)
  BY NatLessThanWellFounded
<1>2. \A x, y \in Nat : <<y, x>> \in R <=> y < x
  BY DEF OpToRel
<1> HIDE DEF R
<1>3. PICK x \in T : \A y \in T : ~ (<<y, x>> \in R)
  BY <1>1, WFMin
<1>4. ASSUME NEW y \in T PROVE x <= y
  <2>1. x \in Nat /\ y \in Nat /\ ~(y < x)
    BY <1>2, <1>3
  <2> QED BY <2>1
<1> QED BY <1>4

Statuses == {"requested", "built", "unsupported", "build_failed", "fid_failed", "complete"}
Reached == {"group", "populate", "validate", "publish", "record", "manifest"}

\* A cell of the group that is populated, and of the groups before and after.
CellFits(c) ==
    /\ records[c] = "built" => objects[c] = run
    /\ c[2] > group \/ (c[2] = group /\ phase \in {"group", "populate", "validate", "publish"}) =>
          records[c] # "complete"
    /\ phase \in {"group", "manifest", "populate", "validate"} \/ c[2] # group =>
          published[c] = IF records[c] = "complete" THEN run ELSE 0
    /\ c[2] = group /\ records[c] = "built" /\ phase \in {"populate", "validate"} /\ c \notin todo =>
          candidates[c] = run
    /\ c[2] = group /\ phase = "publish" =>
          /\ published[c] = IF records[c] = "built" /\ c \notin todo THEN run ELSE 0
          /\ c \in todo => candidates[c] = run
    /\ c[2] = group /\ phase = "record" =>
          published[c] = IF records[c] \in {"built", "complete"} THEN run ELSE 0

\* What is left of a phase.
LeftFits ==
    /\ phase \in {"build", "collect", "populate", "publish", "record"} => todo # {}
    /\ phase \in {"populate", "publish"} => todo \subseteq Available
    /\ phase = "validate" => todo = {} /\ Available # {}
    /\ phase = "record" => todo = Available

\* What a run has removed and built before its groups.
BuildsFit ==
    /\ phase \in {"clear manifest", "clear analysis manifest", "acquire", "extract", "build",
                  "collect", "seal", "load"} => published = NoObjects
    /\ phase \in {"clear work", "clear output", "clear manifest", "acquire", "extract"} =>
          records = Requested
    /\ phase \in {"build", "collect", "seal"} =>
          \A c \in Matrix : records[c] # "complete" /\ (records[c] = "built" => objects[c] = run)
    /\ phase = "collect" => objects[First(todo)] = run
    /\ phase \in Reached \cup {"acquire", "extract", "build", "collect", "seal", "load"} =>
          manifest = <<>>

\* The build of a staged job, the only one there is.
StagedFits ==
    /\ staged =>
          /\ \A c \in Matrix : objects[c] \in {0, run}
          /\ stagedBuild # <<>> => run # 0 /\ stagedBuild = <<[status |-> stagedBuild[1].status, of |-> run]>>
          /\ stagedBuild # <<>> => stagedBuild[1].status \in Statuses \ {"complete"}
          /\ phase \in Reached => stagedBuild # <<>>
    /\ phase \in {"clear analysis", "clear analysis manifest", "load"} => staged /\ stagedBuild # <<>>
    /\ phase = "seal" => staged
    /\ phase # "idle" => run # 0

DirectoryFits ==
    /\ staged \in BOOLEAN /\ run \in Nat /\ group \in Nat /\ todo \subseteq Matrix
    /\ records \in [Matrix -> Statuses] /\ objects \in [Matrix -> Nat]
    /\ candidates \in [Matrix -> Nat] /\ published \in [Matrix -> Nat]

PipelineInv ==
    /\ DirectoryFits /\ StagedFits /\ BuildsFit /\ LeftFits /\ ManifestHonest
    /\ phase \in Reached => \A c \in Matrix : CellFits(c)

\* The matrix of cells is finite, and of one cell in a staged build.
LEMMA MatrixIsFinite ==
    ASSUME PipelineAssumption
    PROVE  /\ IsFiniteSet(Matrix) /\ Matrix # {} /\ Matrix \subseteq Nat \X Nat
           /\ \A c \in Matrix : c[2] >= 1
           /\ staged => \A c \in Matrix : c = <<1, 1>>
<1>1. CASE staged
  <2>1. Matrix = {<<1, 1>>}
    BY <1>1 DEF Matrix
  <2>2. IsFiniteSet(Matrix)
    BY <2>1, FS_Singleton
  <2>3. \A c \in Matrix : c = <<1, 1>> /\ c[2] >= 1 /\ c \in Nat \X Nat
    BY <2>1
  <2> QED BY <2>1, <2>2, <2>3
<1>2. CASE ~staged
  <2>1. Matrix = (1..Libraries) \X (1..Groups)
    BY <1>2 DEF Matrix
  <2>2. IsFiniteSet(1..Libraries) /\ IsFiniteSet(1..Groups)
    BY FS_Interval DEF PipelineAssumption
  <2>3. IsFiniteSet((1..Libraries) \X (1..Groups))
    BY <2>2, FS_Product
  <2>4. <<1, 1>> \in Matrix
    BY <2>1 DEF PipelineAssumption
  <2>5. Matrix \subseteq Nat \X Nat /\ \A c \in Matrix : c[2] >= 1
    BY <2>1 DEF PipelineAssumption
  <2> QED BY <1>2, <2>1, <2>3, <2>4, <2>5
<1> QED BY <1>1, <1>2

\* The first cell of a set of cells is one of them.
LEMMA FirstIsThere ==
    ASSUME NEW cells, cells # {}, cells \subseteq Nat \X Nat
    PROVE  First(cells) \in cells
<1>1. PICK x \in {c[1] : c \in cells} : \A y \in {c[1] : c \in cells} : x <= y
  <2>1. {c[1] : c \in cells} \in SUBSET Nat /\ {c[1] : c \in cells} # {}
    OBVIOUS
  <2> QED BY <2>1, LeastNatural
<1> DEFINE row == {c[2] : c \in {d \in cells : d[1] = x}}
<1>2. PICK y \in row : \A z \in row : y <= z
  <2>1. row \in SUBSET Nat /\ row # {}
    OBVIOUS
  <2> QED BY <2>1, LeastNatural
<1>3. PICK c \in cells : c[1] = x /\ c[2] = y
  OBVIOUS
<1>4. \A d \in cells : c[1] < d[1] \/ (c[1] = d[1] /\ c[2] <= d[2])
  <2> TAKE d \in cells
  <2>1. c[1] <= d[1] /\ c[1] \in Nat /\ d[1] \in Nat
    BY <1>1, <1>3
  <2>2. d[1] = x => y <= d[2]
    BY <1>2
  <2> QED BY <2>1, <2>2, <1>3
<1> QED BY <1>4 DEF First

\* The next cell of a phase, and whether it is the last one.
LEMMA NextCell ==
    ASSUME PipelineAssumption, todo \subseteq Matrix, todo # {}
    PROVE  /\ First(todo) \in todo
           /\ Cardinality(todo) \in Nat /\ Cardinality(todo) # 0
           /\ Cardinality(todo) = 1 => todo = {First(todo)}
           /\ Cardinality(todo) # 1 => todo \ {First(todo)} # {}
<1>1. First(todo) \in todo
  BY FirstIsThere, MatrixIsFinite
<1>2. IsFiniteSet(todo) /\ Cardinality(todo) \in Nat
  BY MatrixIsFinite, FS_Subset, FS_CardinalityType
<1>3. Cardinality(todo) # 0
  BY <1>2, FS_EmptySet
<1>4. ASSUME Cardinality(todo) = 1 PROVE todo = {First(todo)}
  <2>1. PICK x : todo = {x}
    BY <1>2, <1>4, FS_Singleton
  <2> QED BY <1>1, <2>1
<1>5. ASSUME Cardinality(todo) # 1 PROVE todo \ {First(todo)} # {}
  <2>1. CASE todo = {First(todo)}
    BY <2>1, <1>5, FS_Singleton
  <2> QED BY <1>1, <2>1
<1> QED BY <1>1, <1>2, <1>3, <1>4, <1>5

\* The matrix is fixed by how the run was asked for.
LEMMA SameMatrix ==
    ASSUME UNCHANGED staged
    PROVE  Matrix' = Matrix /\ NoObjects' = NoObjects /\ Requested' = Requested
BY DEF Matrix, NoObjects, Requested

\* What a fresh directory holds is typed.
LEMMA NothingTyped == NoObjects \in [Matrix -> Nat] /\ Requested \in [Matrix -> Statuses]
BY DEF NoObjects, Requested, Statuses

\* The invariant holds first.
LEMMA PipelineStarts ==
    ASSUME PipelineAssumption, PipelineInit
    PROVE  PipelineInv
<1>1. NoObjects \in [Matrix -> Nat] /\ Requested \in [Matrix -> Statuses]
  BY NothingTyped
<1>2. DirectoryFits
  BY <1>1 DEF PipelineInit, DirectoryFits
<1>3. StagedFits
  BY DEF PipelineInit, StagedFits, NoObjects, Reached
<1>4. BuildsFit /\ LeftFits /\ ManifestHonest /\ phase \notin Reached
  BY DEF PipelineInit, BuildsFit, LeftFits, ManifestHonest, Reached
<1> QED BY <1>2, <1>3, <1>4 DEF PipelineInv

\* Nothing but the phase changes, on the way out of a run.
LEMMA GoneIdle ==
    ASSUME PipelineInv, phase' = "idle", todo' = {},
           UNCHANGED <<staged, group, run, records, objects, results>>
    PROVE  PipelineInv'
<1>1. UNCHANGED <<Matrix, NoObjects, Requested>>
  BY SameMatrix
<1>2. DirectoryFits'
  BY <1>1 DEF PipelineInv, DirectoryFits, results
<1>3. StagedFits'
  BY <1>1 DEF PipelineInv, StagedFits, results, Reached
<1>4. BuildsFit' /\ LeftFits' /\ phase' \notin Reached
  BY <1>1 DEF BuildsFit, LeftFits, Reached
<1>5. ManifestHonest'
  BY <1>1 DEF PipelineInv, ManifestHonest, results
<1> QED BY <1>2, <1>3, <1>4, <1>5 DEF PipelineInv

\* A run begins by clearing what an earlier one left, and reads its sources.
LEMMA BeginRunFits ==
    ASSUME PipelineAssumption, PipelineInv, BeginRun
    PROVE  PipelineInv'
<1>1. UNCHANGED <<Matrix, NoObjects, Requested>>
  BY SameMatrix DEF BeginRun
<1>2. DirectoryFits'
  <2>1. run' = run + 1 /\ records' = Requested /\ todo' = {}
        /\ UNCHANGED <<staged, group, objects, candidates, published>>
    BY DEF BeginRun, results, To
  <2>2. run \in Nat /\ staged \in BOOLEAN /\ group \in Nat
    BY DEF PipelineInv, DirectoryFits
  <2>3. run' \in Nat
    BY <2>1, <2>2
  <2> QED BY <1>1, <2>1, <2>2, <2>3, NothingTyped DEF PipelineInv, DirectoryFits
<1>3. StagedFits'
  <2>1. phase' = "clear work" /\ run' # 0
    <3>1. run \in Nat /\ run' = run + 1
      BY DEF BeginRun, PipelineInv, DirectoryFits
    <3>2. phase' = "clear work"
      BY DEF BeginRun, To
    <3>3. \A n \in Nat : n + 1 # 0
      OBVIOUS
    <3> QED BY <3>1, <3>2, <3>3
  <2>2. ASSUME staged PROVE stagedBuild = <<>> /\ \A c \in Matrix : objects[c] = 0
    BY <2>2 DEF BeginRun, PipelineInv, StagedFits
  <2> QED BY <1>1, <2>1, <2>2 DEF BeginRun, StagedFits, results, Reached
<1>4. BuildsFit' /\ LeftFits' /\ phase' \notin Reached
  BY <1>1 DEF BuildsFit, LeftFits, Reached, BeginRun, To
<1>5. ManifestHonest'
  BY <1>1 DEF PipelineInv, ManifestHonest, BeginRun, results
<1> QED BY <1>2, <1>3, <1>4, <1>5 DEF PipelineInv

LEMMA ClearWorkFits ==
    ASSUME PipelineAssumption, PipelineInv, ClearWork
    PROVE  PipelineInv'
<1>1. UNCHANGED <<Matrix, NoObjects, Requested>>
  BY SameMatrix DEF ClearWork
<1>2. DirectoryFits'
  BY <1>1 DEF PipelineInv, DirectoryFits, ClearWork, To, NoObjects
<1>3. StagedFits'
  BY <1>1 DEF PipelineInv, StagedFits, ClearWork, To, Reached, NoObjects
<1>4. BuildsFit' /\ LeftFits' /\ phase' \notin Reached
  BY <1>1 DEF PipelineInv, BuildsFit, LeftFits, Reached, ClearWork, To
<1>5. ManifestHonest'
  BY <1>1 DEF PipelineInv, ManifestHonest, ClearWork
<1> QED BY <1>2, <1>3, <1>4, <1>5 DEF PipelineInv

\* A database is removed before the manifest that names it.
LEMMA ClearDatabaseFits ==
    ASSUME PipelineAssumption, PipelineInv, ClearDatabase
    PROVE  PipelineInv'
<1>1. UNCHANGED <<Matrix, NoObjects, Requested>>
  BY SameMatrix DEF ClearDatabase
<1>2. PICK c \in Matrix : published' = [published EXCEPT ![c] = 0]
  BY DEF ClearDatabase
<1>3. /\ published' \in [Matrix -> Nat] /\ published'[c] = 0
      /\ \A d \in Matrix : d # c => published'[d] = published[d]
  BY <1>2 DEF PipelineInv, DirectoryFits
<1>4. /\ phase' = phase /\ phase \in {"clear output", "clear analysis"} /\ todo' = todo
      /\ UNCHANGED <<staged, group, run, records, objects, stagedBuild, candidates, manifest>>
  BY DEF ClearDatabase
<1>5. DirectoryFits'
  BY <1>1, <1>3, <1>4 DEF PipelineInv, DirectoryFits
<1>6. StagedFits'
  BY <1>1, <1>4 DEF PipelineInv, StagedFits, Reached
<1>7. BuildsFit' /\ LeftFits' /\ phase' \notin Reached
  BY <1>1, <1>4 DEF PipelineInv, BuildsFit, LeftFits, Reached
<1>8. ManifestHonest'
  <2>1. clearing'
    BY Zenon DEF ClearDatabase
  <2>2. ASSUME manifest # <<>>, NEW d \in Matrix, published[d] # 0
        PROVE  published[d] = IF manifest[1].status[d] = "complete" THEN manifest[1].of ELSE 0
    BY <2>2 DEF PipelineInv, ManifestHonest
  <2> QED BY <1>1, <1>3, <1>4, <2>1, <2>2 DEF ManifestHonest
<1> QED BY <1>5, <1>6, <1>7, <1>8 DEF PipelineInv

LEMMA ClearOutputFits ==
    ASSUME PipelineAssumption, PipelineInv, ClearOutput
    PROVE  PipelineInv'
<1>1. UNCHANGED <<Matrix, NoObjects, Requested>>
  BY SameMatrix DEF ClearOutput
<1>2. DirectoryFits'
  BY <1>1 DEF PipelineInv, DirectoryFits, ClearOutput, To, results
<1>3. StagedFits'
  BY <1>1 DEF PipelineInv, StagedFits, ClearOutput, To, Reached, results
<1>4. BuildsFit' /\ LeftFits' /\ phase' \notin Reached
  BY <1>1 DEF PipelineInv, BuildsFit, LeftFits, Reached, ClearOutput, To, results
<1>5. ManifestHonest'
  BY <1>1 DEF PipelineInv, ManifestHonest, ClearOutput, results
<1> QED BY <1>2, <1>3, <1>4, <1>5 DEF PipelineInv

LEMMA ClearManifestFits ==
    ASSUME PipelineAssumption, PipelineInv, ClearManifest
    PROVE  PipelineInv'
<1>1. UNCHANGED <<Matrix, NoObjects, Requested>>
  BY SameMatrix DEF ClearManifest
<1>2. DirectoryFits'
  BY <1>1 DEF PipelineInv, DirectoryFits, ClearManifest, To
<1>3. StagedFits'
  BY <1>1 DEF PipelineInv, StagedFits, ClearManifest, To, Reached
<1>4. BuildsFit' /\ LeftFits' /\ phase' \notin Reached
  BY <1>1 DEF PipelineInv, BuildsFit, LeftFits, Reached, ClearManifest, To
<1>5. ManifestHonest'
  BY DEF ManifestHonest, ClearManifest
<1> QED BY <1>2, <1>3, <1>4, <1>5 DEF PipelineInv

LEMMA SourcesFit ==
    ASSUME PipelineAssumption, PipelineInv, DownloadSource \/ ExtractSource
    PROVE  PipelineInv'
<1>1. UNCHANGED <<Matrix, NoObjects, Requested>>
  BY SameMatrix DEF DownloadSource, ExtractSource
<1>2. CASE To("idle", {})
  BY <1>2, GoneIdle DEF DownloadSource, ExtractSource, To
<1>3. CASE \/ To("extract", todo) \/ To("acquire", todo \ {First(todo)})
           \/ To("build", Matrix)
  <2>1. /\ phase \in {"acquire", "extract"} /\ phase' \in {"extract", "acquire", "build"}
        /\ todo' \subseteq Matrix /\ (phase' = "build" => todo' = Matrix)
        /\ UNCHANGED <<staged, group, run, records, objects, results>>
    BY <1>3 DEF DownloadSource, ExtractSource, To, PipelineInv, DirectoryFits
  <2>2. DirectoryFits'
    BY <2>1, <1>1 DEF PipelineInv, DirectoryFits, results
  <2>3. StagedFits'
    BY <2>1, <1>1 DEF PipelineInv, StagedFits, results, Reached
  <2>4. BuildsFit'
    BY <2>1, <1>1 DEF PipelineInv, BuildsFit, results, Reached, Requested
  <2>5. LeftFits' /\ phase' \notin Reached
    BY <2>1, MatrixIsFinite, <1>1 DEF LeftFits, Reached
  <2>6. ManifestHonest'
    BY <2>1, <1>1 DEF PipelineInv, ManifestHonest, results
  <2> QED BY <2>2, <2>3, <2>4, <2>5, <2>6 DEF PipelineInv
<1> QED BY <1>2, <1>3 DEF DownloadSource, ExtractSource

\* The loop of builds goes on after the next cell.
LEMMA BuiltFits ==
    ASSUME PipelineAssumption, PipelineInv, phase \in {"build", "collect"},
           NEW outcome \in {"built", "unsupported", "build_failed"},
           Built(First(todo), outcome),
           \/ UNCHANGED objects /\ (outcome = "built" => phase = "collect")
           \/ outcome = "build_failed" /\ objects' = [objects EXCEPT ![First(todo)] = run],
           UNCHANGED <<staged, run, results>>
    PROVE  PipelineInv'
<1> DEFINE c == First(todo)
<1>1. UNCHANGED <<Matrix, NoObjects, Requested>>
  BY SameMatrix
<1>2. /\ c \in todo /\ c \in Matrix /\ todo \subseteq Matrix
      /\ Cardinality(todo) > 1 => todo \ {c} # {}
  BY NextCell DEF PipelineInv, LeftFits, DirectoryFits
<1>3. /\ records' = [records EXCEPT ![c] = outcome] /\ todo' = todo \ {c} /\ group' = 1
      /\ phase' = IF Cardinality(todo) > 1 THEN "build" ELSE IF staged THEN "seal" ELSE "group"
      /\ phase' \in {"build", "seal", "group"}
  BY DEF Built, To
<1>4. \A d \in Matrix : objects'[d] = objects[d] \/ (d = c /\ objects'[d] = run /\ outcome # "built")
  BY DEF PipelineInv, DirectoryFits
<1>5. \A d \in Matrix : records'[d] = IF d = c THEN outcome ELSE records[d]
  BY <1>3 DEF PipelineInv, DirectoryFits
<1> HIDE DEF c
<1>6. DirectoryFits'
  BY <1>1, <1>2, <1>3 DEF PipelineInv, DirectoryFits, results, Statuses, c
<1>7. StagedFits'
  BY <1>1, <1>3, <1>4 DEF PipelineInv, StagedFits, results, Reached, DirectoryFits
<1>8. \A d \in Matrix : records'[d] # "complete" /\ (records'[d] = "built" => objects'[d] = run)
  BY <1>4, <1>5 DEF PipelineInv, BuildsFit, c
<1>9. BuildsFit' /\ LeftFits'
  BY <1>1, <1>2, <1>3, <1>8 DEF PipelineInv, BuildsFit, LeftFits, results, Reached
<1>10. ManifestHonest'
  BY <1>9, <1>3 DEF ManifestHonest, PipelineInv, BuildsFit, Reached, results
<1>11. ASSUME phase' = "group", NEW d \in Matrix' PROVE CellFits(d)'
  <2>1. published'[d] = 0
    BY <1>11, <1>1 DEF PipelineInv, BuildsFit, results, NoObjects
  <2> QED BY <2>1, <1>11, <1>1, <1>8 DEF CellFits
<1> QED BY <1>3, <1>6, <1>7, <1>9, <1>10, <1>11 DEF PipelineInv, Reached

\* The compilation of the cells, the collection of their objects, their seals.
LEMMA CompileCellFits ==
    ASSUME PipelineAssumption, PipelineInv, CompileCell
    PROVE  PipelineInv'
<1> DEFINE c == First(todo)
<1>1. UNCHANGED <<Matrix, NoObjects, Requested>> /\ phase = "build"
  BY SameMatrix DEF CompileCell
<1>2. CASE Built(c, "unsupported") /\ UNCHANGED objects
  BY <1>2, <1>1, BuiltFits DEF CompileCell
<1>3. CASE objects' = [objects EXCEPT ![c] = run] /\ Built(c, "build_failed")
  BY <1>3, <1>1, BuiltFits DEF CompileCell
<1>4. CASE /\ objects' = [objects EXCEPT ![c] = run]
           /\ To("collect", todo) /\ UNCHANGED <<records, group>>
  <2>1. c \in Matrix
    BY <1>1, NextCell DEF PipelineInv, LeftFits, DirectoryFits
  <2>2. /\ phase' = "collect" /\ todo' = todo
        /\ UNCHANGED <<staged, run, results, records, group>>
        /\ First(todo)' = c /\ objects'[c] = run
        /\ \A d \in Matrix : objects'[d] = objects[d] \/ objects'[d] = run
    BY <1>4, <2>1 DEF CompileCell, To, PipelineInv, DirectoryFits, First
  <2> HIDE DEF c
  <2>3. DirectoryFits'
    BY <1>1, <1>4, <2>2 DEF PipelineInv, DirectoryFits, results
  <2>4. StagedFits'
    BY <1>1, <2>2 DEF PipelineInv, StagedFits, results, Reached
  <2>5. BuildsFit' /\ LeftFits' /\ phase' \notin Reached
    BY <1>1, <2>2 DEF PipelineInv, BuildsFit, LeftFits, Reached, results
  <2>6. ManifestHonest'
    BY <1>1, <2>2 DEF PipelineInv, ManifestHonest, results
  <2> QED BY <2>3, <2>4, <2>5, <2>6 DEF PipelineInv
<1> QED BY <1>2, <1>3, <1>4 DEF CompileCell

LEMMA CollectObjectsFits ==
    ASSUME PipelineAssumption, PipelineInv, CollectObjects
    PROVE  PipelineInv'
BY BuiltFits DEF CollectObjects

LEMMA SealBuildFits ==
    ASSUME PipelineAssumption, PipelineInv, SealBuild
    PROVE  PipelineInv'
<1>1. UNCHANGED <<Matrix, NoObjects, Requested>> /\ phase = "seal" /\ phase' = "idle" /\ todo' = {}
  BY SameMatrix DEF SealBuild, To
<1>2. staged /\ stagedBuild' = <<[status |-> Alike(records), of |-> run]>>
  BY <1>1 DEF SealBuild, PipelineInv, StagedFits
<1>3. Alike(records) \in Statuses \ {"complete"}
  <2>1. (CHOOSE c \in Matrix : TRUE) \in Matrix
    BY MatrixIsFinite
  <2> QED BY <1>1, <2>1 DEF Alike, PipelineInv, BuildsFit, DirectoryFits
<1>4. DirectoryFits'
  BY <1>1 DEF PipelineInv, DirectoryFits, SealBuild
<1>5. StagedFits'
  BY <1>1, <1>2, <1>3 DEF PipelineInv, StagedFits, SealBuild, Reached
<1>6. BuildsFit' /\ LeftFits' /\ phase' \notin Reached
  BY <1>1 DEF BuildsFit, LeftFits, Reached
<1>7. ManifestHonest'
  BY <1>1 DEF PipelineInv, ManifestHonest, SealBuild
<1> QED BY <1>4, <1>5, <1>6, <1>7 DEF PipelineInv

\* Between the steps of a group: nothing else of the directory changes.
LEMMA GroupsFit ==
    ASSUME PipelineInv, phase \in Reached, phase' \in Reached,
           UNCHANGED <<staged, run, objects, stagedBuild, manifest>>,
           DirectoryFits', LeftFits', \A c \in Matrix : CellFits(c)'
    PROVE  PipelineInv'
<1>1. UNCHANGED <<Matrix, NoObjects, Requested>>
  BY SameMatrix
<1>2. StagedFits' /\ BuildsFit' /\ ManifestHonest'
  BY <1>1 DEF PipelineInv, StagedFits, BuildsFit, ManifestHonest, Reached
<1> QED BY <1>1, <1>2 DEF PipelineInv

\* The databases, group by group: populated, validated, published or failed.
LEMMA EnterGroupFits ==
    ASSUME PipelineAssumption, PipelineInv, EnterGroup
    PROVE  PipelineInv'
<1> DEFINE built == {c \in InGroup(group) : records[c] = "built"}
<1>1. UNCHANGED <<Matrix, NoObjects, Requested>> /\ phase = "group" /\ phase \in Reached
  BY SameMatrix DEF EnterGroup, Reached
<1>2. UNCHANGED <<staged, run, objects, stagedBuild, manifest, records, published>>
  BY DEF EnterGroup
<1>3. \A c \in Matrix : CellFits(c) /\ c[2] \in Nat
  BY <1>1, MatrixIsFinite DEF PipelineInv
<1>4. CASE group > LastGroup
  <2>1. phase' = "manifest" /\ todo' = {} /\ UNCHANGED <<group, candidates>>
    BY <1>4 DEF EnterGroup, To
  <2>2. DirectoryFits' /\ LeftFits'
    BY <1>1, <1>2, <2>1 DEF PipelineInv, DirectoryFits, LeftFits
  <2>3. \A c \in Matrix : CellFits(c)'
    BY <1>1, <1>2, <1>3, <2>1 DEF CellFits
  <2> QED BY <1>1, <1>2, <2>1, <2>2, <2>3, GroupsFit DEF Reached
<1>5. CASE ~(group > LastGroup) /\ built = {}
  <2>1. group' = group + 1 /\ UNCHANGED <<phase, todo, candidates>>
    BY <1>5 DEF EnterGroup
  <2>2. DirectoryFits' /\ LeftFits' /\ group \in Nat
    BY <1>1, <1>2, <2>1 DEF PipelineInv, DirectoryFits, LeftFits
  <2>3. \A c \in Matrix : CellFits(c)'
    BY <1>1, <1>2, <1>3, <2>1, <2>2 DEF CellFits
  <2> QED BY <1>1, <1>2, <2>1, <2>2, <2>3, GroupsFit DEF Reached
<1>6. CASE ~(group > LastGroup) /\ built # {}
  <2>1. /\ phase' = "populate" /\ todo' = built /\ UNCHANGED group
        /\ candidates' = [c \in Matrix |-> IF c[2] = group THEN 0 ELSE candidates[c]]
    BY <1>6 DEF EnterGroup, To
  <2>2. DirectoryFits' /\ LeftFits'
    BY <1>1, <1>2, <1>6, <2>1 DEF PipelineInv, DirectoryFits, LeftFits, Available, InGroup
  <2>3. \A c \in Matrix : CellFits(c)'
    BY <1>1, <1>2, <1>3, <2>1 DEF CellFits, InGroup
  <2> QED BY <1>1, <1>2, <2>1, <2>2, <2>3, GroupsFit DEF Reached
<1> QED BY <1>4, <1>5, <1>6 DEF EnterGroup

LEMMA PopulateFits ==
    ASSUME PipelineAssumption, PipelineInv, Populate
    PROVE  PipelineInv'
<1> DEFINE c == First(todo)
<1>1. UNCHANGED <<Matrix, NoObjects, Requested>> /\ phase = "populate" /\ phase \in Reached
  BY SameMatrix DEF Populate, Reached
<1>2. UNCHANGED <<staged, group, run, records, objects, stagedBuild, published, manifest>>
  BY DEF Populate
<1>3. \A d \in Matrix : CellFits(d)
  BY <1>1 DEF PipelineInv
<1>4. /\ c \in todo /\ c \in Matrix /\ todo \subseteq Matrix /\ todo \subseteq Available
      /\ Cardinality(todo) = 1 => todo = {c}
      /\ Cardinality(todo) # 1 => todo \ {c} # {}
  BY <1>1, NextCell DEF PipelineInv, LeftFits, DirectoryFits
<1>5. /\ candidates' = [candidates EXCEPT ![c] = objects[c]] /\ todo' = todo \ {c}
      /\ phase' = IF Cardinality(todo) = 1 THEN "validate" ELSE "populate"
  BY <1>4 DEF Populate, To
<1>6. \A d \in Matrix : candidates'[d] = IF d = c THEN objects[c] ELSE candidates[d]
  BY <1>5 DEF PipelineInv, DirectoryFits
<1>7. c[2] = group /\ records[c] = "built" /\ objects[c] = run
  BY <1>3, <1>4 DEF Available, InGroup, CellFits
<1> HIDE DEF c
<1>8. DirectoryFits'
  BY <1>1, <1>2, <1>4, <1>5 DEF PipelineInv, DirectoryFits
<1>9. LeftFits'
  BY <1>1, <1>2, <1>4, <1>5 DEF PipelineInv, LeftFits, Available, InGroup
<1>10. \A d \in Matrix : CellFits(d)'
  BY <1>1, <1>2, <1>3, <1>5, <1>6, <1>7 DEF CellFits
<1> QED BY <1>1, <1>2, <1>5, <1>8, <1>9, <1>10, GroupsFit DEF Reached

LEMMA ValidateGroupFits ==
    ASSUME PipelineAssumption, PipelineInv, ValidateGroup
    PROVE  PipelineInv'
<1>1. UNCHANGED <<Matrix, NoObjects, Requested>> /\ phase = "validate" /\ phase \in Reached
  BY SameMatrix DEF ValidateGroup, Reached
<1>2. /\ UNCHANGED <<staged, group, run, records, objects, stagedBuild, published, manifest,
                     candidates>>
      /\ phase' = "publish" /\ todo' = Available
  BY DEF ValidateGroup, To, results
<1>3. DirectoryFits'
  BY <1>1, <1>2 DEF PipelineInv, DirectoryFits, Available, InGroup
<1>4. LeftFits'
  BY <1>1, <1>2 DEF PipelineInv, LeftFits, Available, InGroup
<1>5. \A c \in Matrix : CellFits(c)'
  BY <1>1, <1>2 DEF PipelineInv, CellFits, Available, InGroup, LeftFits
<1> QED BY <1>1, <1>2, <1>3, <1>4, <1>5, GroupsFit DEF Reached

LEMMA PublishFits ==
    ASSUME PipelineAssumption, PipelineInv, Publish
    PROVE  PipelineInv'
<1> DEFINE c == First(todo)
<1>1. UNCHANGED <<Matrix, NoObjects, Requested>> /\ phase = "publish" /\ phase \in Reached
  BY SameMatrix DEF Publish, Reached
<1>2. UNCHANGED <<staged, group, run, records, objects, stagedBuild, manifest>>
  BY DEF Publish
<1>3. \A d \in Matrix : CellFits(d)
  BY <1>1 DEF PipelineInv
<1>4. /\ c \in todo /\ c \in Matrix /\ todo \subseteq Matrix /\ todo \subseteq Available
      /\ Cardinality(todo) = 1 => todo = {c}
      /\ Cardinality(todo) # 1 => todo \ {c} # {}
  BY <1>1, NextCell DEF PipelineInv, LeftFits, DirectoryFits
<1>5. /\ candidates' = [candidates EXCEPT ![c] = 0]
      /\ published' = [published EXCEPT ![c] = candidates[c]]
      /\ Cardinality(todo) = 1 => phase' = "record" /\ todo' = Available
      /\ Cardinality(todo) # 1 => phase' = "publish" /\ todo' = todo \ {c}
  BY <1>4 DEF Publish, To
<1>6. \A d \in Matrix : /\ candidates'[d] = IF d = c THEN 0 ELSE candidates[d]
                        /\ published'[d] = IF d = c THEN candidates[c] ELSE published[d]
  BY <1>5 DEF PipelineInv, DirectoryFits
<1>7. c[2] = group /\ records[c] = "built" /\ candidates[c] = run /\ c \in Available
  BY <1>1, <1>3, <1>4 DEF Available, InGroup, CellFits
<1> HIDE DEF c
<1>8. DirectoryFits'
  BY <1>1, <1>2, <1>4, <1>5 DEF PipelineInv, DirectoryFits, Available, InGroup
<1>9. LeftFits'
  BY <1>1, <1>2, <1>4, <1>5, <1>7 DEF PipelineInv, LeftFits, Available, InGroup
<1>10. ASSUME NEW d \in Matrix PROVE CellFits(d)'
  <2>1. CASE Cardinality(todo) = 1
    <3>1. records[d] = "complete" => d[2] # group
      BY <1>1, <1>3 DEF CellFits
    <3> QED BY <2>1, <3>1, <1>1, <1>2, <1>3, <1>4, <1>5, <1>6, <1>7 DEF CellFits, Available, InGroup
  <2>2. CASE Cardinality(todo) # 1
    BY <2>2, <1>1, <1>2, <1>3, <1>4, <1>5, <1>6, <1>7 DEF CellFits
  <2> QED BY <2>1, <2>2
<1> QED BY <1>1, <1>2, <1>5, <1>8, <1>9, <1>10, GroupsFit DEF Reached

LEMMA RecordCompleteFits ==
    ASSUME PipelineAssumption, PipelineInv, RecordComplete
    PROVE  PipelineInv'
<1> DEFINE c == First(todo)
<1>1. UNCHANGED <<Matrix, NoObjects, Requested>> /\ phase = "record" /\ phase \in Reached
  BY SameMatrix DEF RecordComplete, Reached
<1>2. UNCHANGED <<staged, run, objects, stagedBuild, manifest, candidates, published>>
  BY DEF RecordComplete, results
<1>3. \A d \in Matrix : CellFits(d) /\ d[2] \in Nat
  BY <1>1, MatrixIsFinite DEF PipelineInv
<1>4. /\ c \in todo /\ c \in Matrix /\ todo \subseteq Matrix /\ todo = Available
      /\ Cardinality(todo) = 1 => todo = {c}
      /\ Cardinality(todo) # 1 => todo \ {c} # {}
  BY <1>1, NextCell DEF PipelineInv, LeftFits, DirectoryFits
<1>5. /\ records' = [records EXCEPT ![c] = "complete"] /\ todo' = todo \ {c}
      /\ Cardinality(todo) = 1 => phase' = "group" /\ group' = group + 1
      /\ Cardinality(todo) # 1 => phase' = "record" /\ group' = group
  BY <1>4 DEF RecordComplete, To
<1>6. \A d \in Matrix : records'[d] = IF d = c THEN "complete" ELSE records[d]
  BY <1>5 DEF PipelineInv, DirectoryFits
<1>7. c[2] = group /\ records[c] = "built" /\ group \in Nat
  BY <1>1, <1>3, <1>4 DEF Available, InGroup, PipelineInv, DirectoryFits
<1> HIDE DEF c
<1>8. DirectoryFits'
  BY <1>1, <1>2, <1>4, <1>5, <1>7 DEF PipelineInv, DirectoryFits, Statuses
<1>9. LeftFits'
  BY <1>1, <1>2, <1>4, <1>5, <1>6, <1>7 DEF PipelineInv, LeftFits, Available, InGroup
<1>10. ASSUME NEW d \in Matrix PROVE CellFits(d)'
  <2>1. CASE Cardinality(todo) = 1
    <3>1. d[2] = group /\ d # c => records[d] # "built"
      BY <2>1, <1>4 DEF Available, InGroup
    <3> QED BY <2>1, <3>1, <1>1, <1>2, <1>3, <1>5, <1>6, <1>7 DEF CellFits
  <2>2. CASE Cardinality(todo) # 1
    BY <2>2, <1>1, <1>2, <1>3, <1>5, <1>6, <1>7 DEF CellFits
  <2> QED BY <2>1, <2>2
<1> QED BY <1>1, <1>2, <1>5, <1>8, <1>9, <1>10, GroupsFit DEF Reached

LEMMA FailGroupFits ==
    ASSUME PipelineAssumption, PipelineInv, FailGroup
    PROVE  PipelineInv'
<1>1. /\ UNCHANGED <<Matrix, NoObjects, Requested>>
      /\ phase \in {"populate", "validate", "publish", "record"} /\ phase \in Reached
  BY SameMatrix DEF FailGroup, Reached
<1>2. /\ UNCHANGED <<staged, run, objects, stagedBuild, manifest>>
      /\ phase' = "group" /\ todo' = {} /\ group' = group + 1
      /\ candidates' = [c \in Matrix |-> IF c[2] = group THEN 0 ELSE candidates[c]]
      /\ published' = [c \in Matrix |-> IF c[2] = group THEN 0 ELSE published[c]]
      /\ records' = [c \in Matrix |-> IF c[2] = group THEN FailStatus(records[c]) ELSE records[c]]
  BY DEF FailGroup, To
<1>3. \A c \in Matrix : CellFits(c) /\ c[2] \in Nat
  BY <1>1, MatrixIsFinite DEF PipelineInv
<1>4. group \in Nat /\ \A x \in Statuses : FailStatus(x) \in Statuses \ {"built", "complete"}
  BY DEF PipelineInv, DirectoryFits, FailStatus, Statuses
<1>5. DirectoryFits'
  BY <1>1, <1>2, <1>4 DEF PipelineInv, DirectoryFits
<1>6. LeftFits'
  BY <1>2 DEF LeftFits
<1>7. \A c \in Matrix : CellFits(c)'
  <2>1. \A c \in Matrix : records[c] \in Statuses
    BY DEF PipelineInv, DirectoryFits
  <2> QED BY <2>1, <1>1, <1>2, <1>3, <1>4 DEF CellFits
<1> QED BY <1>1, <1>2, <1>5, <1>6, <1>7, GroupsFit DEF Reached

\* The manifest, which is written once the groups are through, and its analysis.
LEMMA WriteManifestFits ==
    ASSUME PipelineAssumption, PipelineInv, WriteManifest
    PROVE  PipelineInv'
<1>1. /\ UNCHANGED <<Matrix, NoObjects, Requested>> /\ phase = "manifest" /\ phase \in Reached
      /\ UNCHANGED <<staged, group, run, records, objects, stagedBuild, candidates, published>>
      /\ phase' \in {"release", "idle"} /\ todo' = {}
  BY SameMatrix DEF WriteManifest, Reached, To
<1>2. \A c \in Matrix : published[c] = IF records[c] = "complete" THEN run ELSE 0
  BY <1>1 DEF PipelineInv, CellFits
<1>3. manifest' = <<[status |-> records, of |-> run]>>
  <2>1. staged => stagedBuild[1].of = run
    BY <1>1 DEF PipelineInv, StagedFits
  <2> QED BY <2>1 DEF WriteManifest
<1>4. ManifestHonest'
  BY <1>1, <1>2, <1>3 DEF ManifestHonest
<1>5. DirectoryFits'
  BY <1>1 DEF PipelineInv, DirectoryFits
<1>6. StagedFits'
  BY <1>1 DEF PipelineInv, StagedFits, Reached
<1>7. BuildsFit' /\ LeftFits' /\ phase' \notin Reached
  BY <1>1 DEF BuildsFit, LeftFits, Reached
<1> QED BY <1>4, <1>5, <1>6, <1>7 DEF PipelineInv

LEMMA AnalysisFits ==
    ASSUME PipelineAssumption, PipelineInv, ReleaseScratch \/ BeginAnalysis
    PROVE  PipelineInv'
<1>1. /\ UNCHANGED <<Matrix, NoObjects, Requested>>
      /\ UNCHANGED <<staged, group, run, records, stagedBuild, published, manifest, clearing>>
      /\ objects' = objects \/ objects' = NoObjects
      /\ candidates' = NoObjects /\ todo' = {}
      /\ phase' = "idle" \/ (phase' = "clear analysis" /\ staged /\ stagedBuild # <<>>)
  BY SameMatrix DEF ReleaseScratch, BeginAnalysis, To
<1>2. DirectoryFits'
  BY <1>1, NothingTyped DEF PipelineInv, DirectoryFits
<1>3. StagedFits'
  BY <1>1 DEF PipelineInv, StagedFits, Reached, NoObjects
<1>4. BuildsFit' /\ LeftFits' /\ phase' \notin Reached
  BY <1>1 DEF BuildsFit, LeftFits, Reached
<1>5. ManifestHonest'
  BY <1>1 DEF PipelineInv, ManifestHonest
<1> QED BY <1>2, <1>3, <1>4, <1>5 DEF PipelineInv

\* A later run of the pipeline takes up what the manifest says.
LEMMA LoadStateFits ==
    ASSUME PipelineAssumption, PipelineInv, LoadState
    PROVE  PipelineInv'
<1>1. /\ UNCHANGED <<Matrix, NoObjects, Requested>> /\ phase = "load"
      /\ UNCHANGED <<staged, run, objects, stagedBuild, candidates, published, manifest, clearing>>
  BY SameMatrix DEF LoadState, results
<1>2. staged /\ stagedBuild # <<>> /\ stagedBuild[1].status \in Statuses \ {"complete"}
  BY <1>1 DEF PipelineInv, StagedFits
<1>3. CASE To("idle", {}) /\ UNCHANGED <<records, group>>
  BY <1>1, <1>3, GoneIdle DEF To, results
<1>4. CASE /\ ~(stagedBuild[1].status = "built" /\ objects = NoObjects)
           /\ records' = [c \in Matrix |-> stagedBuild[1].status]
           /\ group' = 1 /\ To("group", {})
  <2>1. DirectoryFits'
    BY <1>1, <1>2, <1>4 DEF PipelineInv, DirectoryFits, To
  <2>2. StagedFits'
    BY <1>1, <1>2, <1>4 DEF PipelineInv, StagedFits, To, Reached
  <2>3. BuildsFit' /\ LeftFits'
    BY <1>1, <1>4 DEF PipelineInv, BuildsFit, LeftFits, To, Reached
  <2>4. ManifestHonest' /\ phase' = "group"
    BY <1>1, <1>4 DEF PipelineInv, ManifestHonest, To
  <2>5. stagedBuild[1].status = "built" => \A c \in Matrix : objects[c] = run
    <3>1. SUFFICES ASSUME objects # NoObjects PROVE \A c \in Matrix : objects[c] = run
      BY <1>4
    <3>2. PICK d \in Matrix : objects[d] # 0
      BY <3>1 DEF NoObjects, PipelineInv, DirectoryFits
    <3>3. objects[d] = run
      BY <3>2, <1>2 DEF PipelineInv, StagedFits
    <3> QED BY <3>3, <1>2, MatrixIsFinite
  <2>6. ASSUME NEW c \in Matrix PROVE CellFits(c)'
    <3>1. published[c] = 0
      BY <1>1 DEF PipelineInv, BuildsFit, NoObjects
    <3> QED BY <3>1, <2>4, <2>5, <1>1, <1>2, <1>4 DEF CellFits, To
  <2> QED BY <1>1, <2>1, <2>2, <2>3, <2>4, <2>6 DEF PipelineInv
<1> QED BY <1>3, <1>4 DEF LoadState

\* Every step of the pipeline keeps the invariant.
LEMMA PipelineStays ==
    ASSUME PipelineAssumption, PipelineInv, [PipelineNext]_pipelineVars
    PROVE  PipelineInv'
<1>1. CASE PipelineKilled
  BY <1>1, GoneIdle DEF PipelineKilled, To
<1>2. CASE UNCHANGED pipelineVars
  <2>1. UNCHANGED <<Matrix, NoObjects, Requested>>
    BY <1>2, SameMatrix DEF pipelineVars
  <2> QED BY <1>2, <2>1 DEF pipelineVars, PipelineInv, DirectoryFits, StagedFits, BuildsFit, LeftFits,
          ManifestHonest, CellFits, Reached, Available, InGroup, First
<1> QED BY <1>1, <1>2, BeginRunFits, ClearWorkFits, ClearDatabaseFits, ClearOutputFits,
        ClearManifestFits, SourcesFit,
        CompileCellFits, CollectObjectsFits, SealBuildFits, EnterGroupFits, PopulateFits,
        ValidateGroupFits, PublishFits, RecordCompleteFits, FailGroupFits, WriteManifestFits,
        AnalysisFits, LoadStateFits DEF PipelineNext

\* ManifestHonest of the build pipeline: a database that is published is that of
\* a cell the manifest says is complete, with the objects of the run or of the
\* staged build its row describes, and none is missing unless a run that starts
\* again has removed it and not yet the manifest (pipeline.py).
THEOREM PipelineSafe == PipelineSpec => []ManifestHonest
<1>1. PipelineInit => PipelineInv
  BY PipelineAssumption, PipelineStarts
<1>2. PipelineInv /\ [PipelineNext]_pipelineVars => PipelineInv'
  BY PipelineAssumption, PipelineStays
<1>3. PipelineInv => ManifestHonest
  BY DEF PipelineInv
<1> QED BY <1>1, <1>2, <1>3, PTL DEF PipelineSpec

-----------------------------------------------------------------------------
\* The cells of a run (cell_runner.py).
\* An attempt, when it has left the resolution, has built what it pins; a
\* review may have come between only where `surprised` says so.
AttemptTrue(d) ==
    /\ DOMAIN d = {"cell", "number", "at", "pins", "built", "surprised"}
    /\ d.at = "prepare" => d.built = d.pins
    /\ d.at \notin {"resolve", "prepare"} => d.built = d.pins \/ d.surprised

CellInv ==
    /\ \A p \in CellProcess : doing[p] = <<>> \/ \E d : doing[p] = <<d>> /\ AttemptTrue(d)
    /\ DOMAIN doing = CellProcess /\ SealsTrue

\* What a process does next, and a process that leaves its cell.
LEMMA DoingStays ==
    ASSUME CellInv, NEW p \in CellProcess, NEW d, Becomes(p, d), AttemptTrue(d),
           UNCHANGED sealedCells
    PROVE  CellInv'
BY DEF CellInv, Becomes, SealsTrue

LEMMA LeaveStays ==
    ASSUME CellInv, NEW p \in CellProcess, LeaveCell(p), UNCHANGED sealedCells
    PROVE  CellInv'
BY DEF CellInv, LeaveCell, SealsTrue

\* Every step of the cells keeps the invariant.
LEMMA CellStays ==
    ASSUME CellInv, [CellNext]_cellVars
    PROVE  CellInv'
<1>1. CASE Review \/ ResolveAgain \/ UNCHANGED cellVars
  BY <1>1 DEF Review, ResolveAgain, cellVars, CellInv, SealsTrue
<1>2. ASSUME NEW p \in CellProcess, EndCellProcess(p) \/ FailCell(p)
      PROVE  CellInv'
  BY <1>2, LeaveStays DEF EndCellProcess, FailCell
<1>3. ASSUME NEW p \in CellProcess, NEW c \in QueuedCell, BeginCell(p, c)
      PROVE  CellInv'
  <2>1. PICK d : d = [cell |-> c, number |-> executions', at |-> "resolve", pins |-> cellAt[c],
                      built |-> 0, surprised |-> FALSE]
    OBVIOUS
  <2>2. AttemptTrue(d)
    BY <2>1 DEF AttemptTrue
  <2> QED BY <1>3, <2>1, <2>2, DoingStays DEF BeginCell
<1>4. ASSUME NEW p \in CellProcess, ResolveCell(p)
      PROVE  CellInv'
  <2>1. PICK d : doing[p] = <<d>> /\ AttemptTrue(d)
    BY <1>4 DEF ResolveCell, Attempting, CellInv
  <2>2. PICK n : n = [d EXCEPT !.at = "prepare", !.built = Seen(p, KindAt(p))]
    OBVIOUS
  <2>3. Agrees(p, KindAt(p), d.pins) => AttemptTrue(n)
    BY <2>1, <2>2 DEF AttemptTrue, Agrees
  <2>4. Compare(p) /\ UNCHANGED sealedCells
    BY <1>4 DEF ResolveCell, ResolveNative, ResolveRuntime, ResolveSource, ResolveArchive
  <2> QED BY <2>1, <2>2, <2>3, <2>4, DoingStays, LeaveStays DEF Compare
<1>5. ASSUME NEW p \in CellProcess, PrepareArchive(p) \/ PrepareSource(p)
      PROVE  CellInv'
  <2>1. PICK d : doing[p] = <<d>> /\ AttemptTrue(d) /\ d.at = "prepare"
    BY <1>5 DEF PrepareArchive, PrepareSource, Prepares, Attempting, CellInv
  <2>2. PICK n : n = [d EXCEPT !.at = "select", !.built = reviewed,
                               !.surprised = reviewed # d.built]
    OBVIOUS
  <2>3. AttemptTrue(n)
    BY <2>1, <2>2 DEF AttemptTrue
  <2> QED BY <1>5, <2>1, <2>2, <2>3, DoingStays DEF PrepareArchive, PrepareSource, Prepares
<1>6. ASSUME NEW p \in CellProcess,
             \/ RunNative(p) \/ ExtractRuntime(p) \/ BuildMalware(p) \/ SelectObjects(p)
             \/ PopulateCell(p) \/ ExportRaw(p)
      PROVE  CellInv'
  <2>1. PICK at \in {"export", "select", "populate", "seal"} :
           /\ UNCHANGED sealedCells
           /\ Continue(p, at) \/ LeaveCell(p)
           /\ doing[p] # <<>> /\ doing[p][1].at # "resolve"
    BY <1>6 DEF RunNative, ExtractRuntime, BuildMalware, SelectObjects, PopulateCell,
                ExportRaw, Attempting
  <2>2. PICK d : doing[p] = <<d>> /\ AttemptTrue(d) /\ d.at # "resolve"
    BY <2>1 DEF CellInv
  <2>3. PICK n : n = [d EXCEPT !.at = at]
    OBVIOUS
  <2>4. AttemptTrue(n)
    BY <2>2, <2>3 DEF AttemptTrue
  <2>5. doing[p][1] = d
    BY <2>2
  <2>6. CASE Continue(p, at)
    <3>1. Becomes(p, n)
      BY <2>3, <2>5, <2>6 DEF Continue
    <3> QED BY <3>1, <2>1, <2>4, DoingStays
  <2>7. CASE LeaveCell(p)
    BY <2>1, <2>7, LeaveStays
  <2> QED BY <2>1, <2>6, <2>7
<1>7. ASSUME NEW p \in CellProcess, SealCell(p)
      PROVE  CellInv'
  <2>1. PICK d : doing[p] = <<d>> /\ AttemptTrue(d) /\ d.at = "seal"
    BY <1>7 DEF SealCell, Attempting, CellInv
  <2>2. PICK n : n = [d EXCEPT !.at = "sealed"]
    OBVIOUS
  <2>3. n.built = n.pins \/ n.surprised
    BY <2>1, <2>2 DEF AttemptTrue
  <2>4. sealedCells' = sealedCells \union {n}
    BY <1>7, <2>1, <2>2 DEF SealCell
  <2> QED BY <1>7, <2>3, <2>4 DEF SealCell, LeaveCell, CellInv, SealsTrue
<1> QED BY <1>1, <1>2, <1>3, <1>4, <1>5, <1>6, <1>7 DEF CellNext

\* SealsTrue of the cells: a sealed cell was built from what it pins, unless a
\* review came between its resolution and its build (cell_runner.py, run_cell).
THEOREM CellsSafe == CellSpec => []SealsTrue
<1>1. CellInit => CellInv
  BY DEF CellInit, CellInv, SealsTrue
<1>2. CellInv /\ [CellNext]_cellVars => CellInv'
  BY CellStays
<1>3. CellInv => SealsTrue
  BY DEF CellInv
<1> QED BY <1>1, <1>2, <1>3, PTL DEF CellSpec

-----------------------------------------------------------------------------
\* The qualification of recipes (recipe_qualification.py).  A row of a report
\* is of the report's inputs, or these were edited while a run of them was on;
\* the invariant is about the runs that did not overlap, which the code keeps
\* apart by no lock.
Results == [status : {"none", "built", "failed"}, of : Nat]

\* What is of content n is of the report's, or that content was edited away.
OfReport(report, n) == n = report.of \/ report.of \in editedAway
RowTrue(report, row) == row.status = "built" => OfReport(report, row.of)

ReportTrue(report) ==
    /\ DOMAIN report = {"of", "rows", "sealed"} /\ report.of \in Nat
    /\ report.rows \in [RecipeCell -> Results]
    /\ \A c \in RecipeCell : RowTrue(report, report.rows[c])

\* What run r keeps of cell c, which it has to itself.
BuilderFits(r, c) ==
    LET b == builders[r][c] report == recipeRuns[r].report IN
    /\ b \in [step : {"idle", "waits", "builds", "reads", "ends"}, of : Nat, row : Results]
    /\ b.step # "idle" => recipeRuns[r].on
    /\ b.step \in {"builds", "reads", "ends"} => OfReport(report, b.of)
    /\ b.step \in {"builds", "reads"} => scratch[c].there
    /\ b.step = "reads" /\ scratch[c].state.status # "none" => scratch[c].state.of = b.of
    /\ b.step = "ends" => RowTrue(report, b.row) /\ (b.row.status = "failed" => scratch[c].there)

RunFits(r) ==
    /\ recipeRuns[r] \in [on : BOOLEAN, report : {recipeRuns[r].report}]
    /\ recipeRuns[r].on =>
          /\ ReportTrue(recipeRuns[r].report) /\ OfReport(recipeRuns[r].report, inputs)
          /\ \/ recipeReport = <<>> /\ recipeRuns[r].report = NewReport(recipeRuns[r].report.of)
             \/ recipeReport = <<recipeRuns[r].report>>
          /\ \A q \in RecipeRunner : recipeRuns[q].on => q = r

\* The row of a failure has its directory, until the cell is tried again.
FailureFits(c) ==
    /\ recipeReport # <<>> /\ recipeKills = 0 /\ recipeReport[1].rows[c].status = "failed"
    /\ \A r \in RecipeRunner : builders[r][c].step \in {"idle", "waits"}
    => scratch[c].there

RecipeFiles ==
    /\ inputs \in Nat /\ recipeKills \in Nat
    /\ scratch \in [RecipeCell -> [there : BOOLEAN, state : Results]]
    /\ recipeReport # <<>> => recipeReport = <<recipeReport[1]>> /\ ReportTrue(recipeReport[1])
    /\ recipeRuns = [r \in RecipeRunner |-> recipeRuns[r]]
    /\ builders = [r \in RecipeRunner |-> [c \in RecipeCell |-> builders[r][c]]]

RecipeFits ==
    /\ recipeOverlap = FALSE /\ RecipeFiles
    /\ \A r \in RecipeRunner : RunFits(r)
    /\ \A r \in RecipeRunner, c \in RecipeCell : BuilderFits(r, c)
    /\ \A c \in RecipeCell : FailureFits(c)

RecipeInv == recipeOverlap = TRUE \/ RecipeFits

\* The results and the directories the recipes start with are typed.
LEMMA ResultsThere ==
    /\ NoResult \in Results /\ NoDirectory \in [there : BOOLEAN, state : Results]
    /\ EmptyDirectory \in [there : BOOLEAN, state : Results]
    /\ NoBuild \in [step : {"idle", "waits", "builds", "reads", "ends"}, of : Nat, row : Results]
    /\ NoBuild.step = "idle" /\ NoResult.status = "none"
BY DEF NoResult, NoDirectory, EmptyDirectory, NoBuild, Results

\* A new report says nothing that is not true.
LEMMA NewReportTrue ==
    ASSUME inputs \in Nat
    PROVE  /\ ReportTrue(NewReport(inputs)) /\ NewReport(inputs).of = inputs
           /\ \A c \in RecipeCell : NewReport(inputs).rows[c].status = "none"
BY DEF ReportTrue, NewReport, RowTrue, OfReport, NoResult, Results

\* The invariant holds first.
LEMMA RecipeStarts ==
    ASSUME RecipeInit
    PROVE  RecipeInv
<1>1. /\ \A r \in RecipeRunner : recipeRuns[r] = NotOn
      /\ \A r \in RecipeRunner, c \in RecipeCell : builders[r][c] = NoBuild
      /\ \A c \in RecipeCell : scratch[c] = NoDirectory
      /\ recipeReport = <<>>
  BY DEF RecipeInit
<1>2. RecipeFiles
  BY <1>1, ResultsThere DEF RecipeInit, RecipeFiles
<1>3. \A r \in RecipeRunner : RunFits(r)
  <2> TAKE r \in RecipeRunner
  <2>1. PICK report : recipeRuns[r] = [on |-> FALSE, report |-> report]
    BY <1>1 DEF NotOn
  <2> QED BY <2>1 DEF RunFits
<1>4. \A r \in RecipeRunner, c \in RecipeCell : BuilderFits(r, c)
  BY <1>1, ResultsThere DEF BuilderFits
<1>5. \A c \in RecipeCell : FailureFits(c)
  BY <1>1 DEF FailureFits
<1> QED BY <1>2, <1>3, <1>4, <1>5 DEF RecipeInv, RecipeFits, RecipeInit

\* One builder does a step, in the directory of its cell.
LEMMA BuilderSteps ==
    ASSUME RecipeFits, NEW r \in RecipeRunner, NEW c \in RecipeCell, NEW b,
           builders[r][c].step # "idle",
           builders' = [builders EXCEPT ![r][c] = b],
           NEW x \in [there : BOOLEAN, state : Results],
           scratch' = [scratch EXCEPT ![c] = x],
           UNCHANGED <<inputs, editedAway, recipeReport, recipeRuns, recipeOverlap, recipeKills>>,
           BuilderFits(r, c)', b.step \notin {"idle", "waits"}
    PROVE  RecipeFits'
<1>1. /\ \A q \in RecipeRunner, d \in RecipeCell :
            builders'[q][d] = IF q = r /\ d = c THEN b ELSE builders[q][d]
      /\ builders' = [q \in RecipeRunner |-> [d \in RecipeCell |-> builders'[q][d]]]
  <2>1. PICK old : old = builders
    OBVIOUS
  <2>2. PICK new : new = builders'
    OBVIOUS
  <2>3. old = [q \in RecipeRunner |-> [d \in RecipeCell |-> old[q][d]]]
    BY <2>1 DEF RecipeFits, RecipeFiles
  <2>4. new = [old EXCEPT ![r][c] = b]
    BY <2>1, <2>2
  <2>5. /\ \A q \in RecipeRunner, d \in RecipeCell :
              new[q][d] = IF q = r /\ d = c THEN b ELSE old[q][d]
        /\ new = [q \in RecipeRunner |-> [d \in RecipeCell |-> new[q][d]]]
    <3>1. \A q \in RecipeRunner : old[q] = [d \in RecipeCell |-> old[q][d]]
      BY <2>3
    <3>2. new[r] = [old[r] EXCEPT ![c] = b] /\ DOMAIN new = RecipeRunner
      BY <2>3, <2>4
    <3>3. \A q \in RecipeRunner : q # r => new[q] = old[q]
      BY <2>3, <2>4
    <3>4. /\ \A d \in RecipeCell : new[r][d] = IF d = c THEN b ELSE old[r][d]
          /\ new[r] = [d \in RecipeCell |-> new[r][d]]
      BY <3>1, <3>2
    <3>5. \A q \in RecipeRunner : new[q] = [d \in RecipeCell |-> new[q][d]]
      BY <3>1, <3>3, <3>4
    <3>6. new = [q \in RecipeRunner |-> new[q]]
      BY <3>2, <2>4, <2>3
    <3> QED BY <3>3, <3>4, <3>5, <3>6
  <2> QED BY <2>1, <2>2, <2>5
<1>2. /\ \A d \in RecipeCell : scratch'[d] = IF d = c THEN x ELSE scratch[d]
      /\ scratch' \in [RecipeCell -> [there : BOOLEAN, state : Results]]
  BY DEF RecipeFits, RecipeFiles
<1>3. RecipeFiles'
  BY <1>1, <1>2 DEF RecipeFits, RecipeFiles, ReportTrue, RowTrue, OfReport
<1>4. \A q \in RecipeRunner : RunFits(q)'
  BY DEF RecipeFits, RunFits, ReportTrue, RowTrue, OfReport
<1>5. recipeRuns[r].on
  BY DEF RecipeFits, BuilderFits
<1>6. ASSUME NEW q \in RecipeRunner, NEW d \in RecipeCell PROVE BuilderFits(q, d)'
  <2>1. CASE q = r /\ d = c
    BY <2>1
  <2>2. CASE d # c
    BY <2>2, <1>1, <1>2 DEF RecipeFits, BuilderFits, RowTrue, OfReport
  <2>3. CASE q # r
    <3>1. ~recipeRuns[q].on
      BY <2>3, <1>5 DEF RecipeFits, RunFits
    <3> QED BY <2>3, <3>1, <1>1 DEF RecipeFits, BuilderFits
  <2> QED BY <2>1, <2>2, <2>3
<1>7. ASSUME NEW d \in RecipeCell PROVE FailureFits(d)'
  <2>1. CASE d = c
    BY <2>1, <1>1 DEF FailureFits
  <2>2. CASE d # c
    BY <2>2, <1>1, <1>2 DEF RecipeFits, FailureFits
  <2> QED BY <2>1, <2>2
<1> QED BY <1>3, <1>4, <1>6, <1>7 DEF RecipeFits

\* The steps of a builder: the directory, the build, the failure, the reading of
\* the build's state, and the row.
LEMMA BeginRecipeFits ==
    ASSUME RecipeFits, NEW r \in RecipeRunner, NEW c \in RecipeCell, BeginRecipe(r, c)
    PROVE  RecipeFits'
<1>1. PICK b : b = [NoBuild EXCEPT !.step = "builds", !.of = inputs]
  OBVIOUS
<1>2. b = [step |-> "builds", of |-> inputs, row |-> NoResult]
  BY <1>1 DEF NoBuild
<1>3. builders' = [builders EXCEPT ![r][c] = b] /\ builders'[r][c] = b
  BY <1>1 DEF BeginRecipe, RecipeFits, RecipeFiles
<1>4. scratch' = [scratch EXCEPT ![c] = EmptyDirectory] /\ scratch'[c].there
  BY DEF BeginRecipe, EmptyDirectory, RecipeFits, RecipeFiles
<1>5. recipeRuns[r].on /\ OfReport(recipeRuns[r].report, inputs) /\ inputs \in Nat
  BY DEF RecipeFits, BuilderFits, RunFits, ReportTrue, BeginRecipe, Builds, RecipeFiles
<1>6. BuilderFits(r, c)'
  BY <1>2, <1>3, <1>4, <1>5, ResultsThere
     DEF BuilderFits, OfReport, BeginRecipe, recipeInputs
<1>7. builders[r][c].step # "idle" /\ b.step \notin {"idle", "waits"}
  BY <1>2 DEF BeginRecipe, Builds
<1> QED BY <1>3, <1>4, <1>6, <1>7, ResultsThere, BuilderSteps DEF BeginRecipe, recipeInputs

LEMMA BuildCellFits ==
    ASSUME RecipeFits, NEW r \in RecipeRunner, NEW c \in RecipeCell, BuildCell(r, c)
    PROVE  RecipeFits'
<1>1. PICK b : b = [step |-> "reads", of |-> builders[r][c].of, row |-> NoResult]
  OBVIOUS
<1>2. BuilderFits(r, c) /\ builders[r][c].step = "builds" /\ scratch[c].there
  BY DEF RecipeFits, BuilderFits, BuildCell, Builds
<1>3. PICK outcome \in {"built", "failed"} :
        scratch' = [scratch EXCEPT ![c] =
            [there |-> TRUE, state |-> [status |-> outcome, of |-> builders[r][c].of]]]
  BY <1>2 DEF BuildCell
<1>4. PICK x : x = [there |-> TRUE, state |-> [status |-> outcome, of |-> builders[r][c].of]]
  OBVIOUS
<1>5. x \in [there : BOOLEAN, state : Results] /\ scratch' = [scratch EXCEPT ![c] = x]
  BY <1>2, <1>3, <1>4 DEF BuilderFits, Results
<1>6. builders' = [builders EXCEPT ![r][c] = b] /\ builders'[r][c] = b /\ scratch'[c] = x
  BY <1>1, <1>5 DEF BuildCell, BuilderMoves, RecipeFits, RecipeFiles
<1>7. BuilderFits(r, c)'
  BY <1>1, <1>2, <1>4, <1>6, ResultsThere DEF BuilderFits, OfReport, BuildCell, recipeInputs
<1> QED BY <1>1, <1>2, <1>5, <1>6, <1>7, BuilderSteps DEF BuildCell, recipeInputs

LEMMA RaiseCellFits ==
    ASSUME RecipeFits, NEW r \in RecipeRunner, NEW c \in RecipeCell, RaiseCell(r, c)
    PROVE  RecipeFits'
<1>1. PICK b : b = [step |-> "ends", of |-> builders[r][c].of, row |-> FailedRecipe(r, c)]
  OBVIOUS
<1>2. BuilderFits(r, c) /\ builders[r][c].step = "builds" /\ scratch[c].there
  BY DEF RecipeFits, BuilderFits, RaiseCell, Builds
<1>3. scratch' = [scratch EXCEPT ![c] = scratch[c]]
      /\ scratch[c] \in [there : BOOLEAN, state : Results]
  BY DEF RecipeFits, RecipeFiles, RaiseCell, recipeFiles
<1>4. builders' = [builders EXCEPT ![r][c] = b] /\ builders'[r][c] = b /\ scratch' = scratch
  BY <1>1 DEF RaiseCell, BuilderMoves, RecipeFits, RecipeFiles, recipeFiles
<1>5. BuilderFits(r, c)'
  BY <1>1, <1>2, <1>4 
     DEF BuilderFits, RaiseCell, FailedRecipe, RowTrue, OfReport, Results, recipeInputs
<1> QED BY <1>1, <1>2, <1>3, <1>4, <1>5, BuilderSteps DEF RaiseCell, recipeFiles, recipeInputs

LEMMA ReadStateFits ==
    ASSUME RecipeFits, NEW r \in RecipeRunner, NEW c \in RecipeCell, ReadState(r, c)
    PROVE  RecipeFits'
<1>1. PICK b : b = [step |-> "ends", of |-> builders[r][c].of,
                    row |-> IF scratch[c].state.status = "none" THEN FailedRecipe(r, c)
                            ELSE scratch[c].state]
  OBVIOUS
<1>2. BuilderFits(r, c) /\ builders[r][c].step = "reads" /\ scratch[c].there
  BY DEF RecipeFits, BuilderFits, ReadState, Builds
<1>3. scratch[c] \in [there : BOOLEAN, state : Results]
  BY DEF RecipeFits, RecipeFiles
<1>4. PICK x : x = IF scratch[c].state.status = "built" THEN NoDirectory ELSE scratch[c]
  OBVIOUS
<1>5. x \in [there : BOOLEAN, state : Results] /\ scratch' = [scratch EXCEPT ![c] = x]
  BY <1>3, <1>4, ResultsThere DEF ReadState, RecipeFits, RecipeFiles
<1>6. builders' = [builders EXCEPT ![r][c] = b] /\ builders'[r][c] = b /\ scratch'[c] = x
  BY <1>1, <1>5 DEF ReadState, BuilderMoves, RecipeFits, RecipeFiles
<1>7. BuilderFits(r, c)'
  <2>1. /\ b.row \in Results /\ b.row.of = builders[r][c].of
        /\ b.row.status = "failed" => x.there
    BY <1>1, <1>2, <1>3, <1>4 DEF FailedRecipe, BuilderFits, Results
  <2>2. b.row.status = "built" => x = NoDirectory
    BY <1>1, <1>4 DEF FailedRecipe
  <2> QED BY <2>1, <1>1, <1>2, <1>6 DEF BuilderFits, ReadState, RowTrue, OfReport, recipeInputs
<1> QED BY <1>1, <1>2, <1>5, <1>6, <1>7, BuilderSteps DEF ReadState, recipeInputs

\* The row joins the report of its run, which is the report on disk.
LEMMA RecordCellFits ==
    ASSUME RecipeFits, NEW r \in RecipeRunner, NEW c \in RecipeCell, RecordCell(r, c)
    PROVE  RecipeFits'
<1> DEFINE old == recipeRuns[r].report
           row == builders[r][c].row
<1>1. /\ BuilderFits(r, c) /\ builders[r][c].step = "ends" /\ recipeRuns[r].on /\ RunFits(r)
      /\ row \in Results /\ ReportTrue(old)
  BY DEF RecipeFits, BuilderFits, RecordCell, Builds, RunFits
<1>2. PICK rows : rows = [old.rows EXCEPT ![c] = row]
  OBVIOUS
<1>3. PICK new : new = WithRow(old, c, row)
  OBVIOUS
<1>4. new = [old EXCEPT !.rows = rows, !.sealed = \A d \in RecipeCell : rows[d].status = "built"]
  BY <1>2, <1>3 DEF WithRow
<1>5. /\ DOMAIN new = {"of", "rows", "sealed"} /\ new.of = old.of /\ new.rows = rows
      /\ rows \in [RecipeCell -> Results] /\ rows[c] = row
      /\ \A d \in RecipeCell : d # c => rows[d] = old.rows[d]
  BY <1>1, <1>2, <1>4 DEF ReportTrue
<1>6. ReportTrue(new)
  BY <1>1, <1>5 DEF ReportTrue, RowTrue, OfReport, BuilderFits
<1>7. /\ recipeRuns' = [recipeRuns EXCEPT ![r].report = new] /\ recipeReport' = <<new>>
      /\ builders' = [builders EXCEPT ![r][c] = NoBuild]
      /\ UNCHANGED <<inputs, editedAway, scratch, recipeOverlap, recipeKills>>
  BY <1>3 DEF RecordCell, recipeInputs
<1>8. /\ recipeRuns' = [q \in RecipeRunner |-> recipeRuns'[q]]
      /\ recipeRuns'[r] = [on |-> TRUE, report |-> new]
      /\ \A q \in RecipeRunner : q # r => recipeRuns'[q] = recipeRuns[q] /\ ~recipeRuns[q].on
  BY <1>1, <1>7 DEF RecipeFits, RecipeFiles, RunFits
<1>9. /\ \A q \in RecipeRunner, d \in RecipeCell :
            builders'[q][d] = IF q = r /\ d = c THEN NoBuild ELSE builders[q][d]
      /\ builders' = [q \in RecipeRunner |-> [d \in RecipeCell |-> builders'[q][d]]]
  BY <1>7 DEF RecipeFits, RecipeFiles
<1> HIDE DEF old, row
<1>10. RecipeFiles'
  BY <1>6, <1>7, <1>8, <1>9 DEF RecipeFits, RecipeFiles, ReportTrue, RowTrue, OfReport
<1>11. ASSUME NEW q \in RecipeRunner PROVE RunFits(q)'
  <2>1. ReportTrue(new)'
    BY <1>6, <1>7 DEF ReportTrue, RowTrue, OfReport
  <2> QED BY <2>1, <1>5, <1>7, <1>8 DEF RecipeFits, RunFits, OfReport, old
<1>12. ASSUME NEW q \in RecipeRunner, NEW d \in RecipeCell PROVE BuilderFits(q, d)'
  <2>1. CASE q = r /\ d = c
    BY <2>1, <1>9, ResultsThere DEF BuilderFits
  <2>2. CASE q = r /\ d # c
    BY <2>2, <1>5, <1>7, <1>8, <1>9 DEF RecipeFits, BuilderFits, RowTrue, OfReport, old
  <2>3. CASE q # r
    BY <2>3, <1>8, <1>9 DEF RecipeFits, BuilderFits
  <2> QED BY <2>1, <2>2, <2>3
<1>13. ASSUME NEW d \in RecipeCell PROVE FailureFits(d)'
  <2>1. CASE d = c
    BY <2>1, <1>1, <1>5, <1>7 DEF FailureFits, BuilderFits, row
  <2>2. ASSUME d # c, rows[d].status = "failed", recipeKills = 0,
               \A q \in RecipeRunner : builders'[q][d].step \in {"idle", "waits"}
        PROVE  scratch[d].there
    <3>1. recipeReport = <<old>> \/ old = NewReport(old.of)
      BY <1>1 DEF RunFits, old
    <3>2. CASE recipeReport = <<old>>
      <4>1. recipeReport # <<>> /\ recipeReport[1].rows[d].status = "failed"
        BY <3>2, <2>2, <1>5
      <4>2. \A q \in RecipeRunner : builders[q][d].step \in {"idle", "waits"}
        BY <2>2, <1>9
      <4> QED BY <4>1, <4>2, <2>2 DEF RecipeFits, FailureFits
    <3>3. CASE old = NewReport(old.of)
      BY <3>3, <2>2, <1>5 DEF NewReport, NoResult
    <3> QED BY <3>1, <3>2, <3>3
  <2> QED BY <2>1, <2>2, <1>5, <1>7 DEF FailureFits
<1> QED BY <1>7, <1>10, <1>11, <1>12, <1>13 DEF RecipeFits

\* The steps of a run, and a review that changes the inputs under it.
LEMMA EndRecipesFits ==
    ASSUME RecipeFits, NEW r \in RecipeRunner, EndRecipes(r) \/ KillRecipes(r)
    PROVE  RecipeFits'
<1>1. /\ recipeRuns' = [recipeRuns EXCEPT ![r] = NotOn]
      /\ UNCHANGED <<inputs, editedAway, recipeReport, scratch, recipeOverlap>>
      /\ recipeKills' \in Nat /\ (recipeKills' = 0 => recipeKills = 0 /\ builders' = builders)
  BY DEF EndRecipes, KillRecipes, recipeFiles, recipeInputs, RecipeFits, RecipeFiles
<1>2. \A c \in RecipeCell : builders'[r][c] = NoBuild
  BY DEF EndRecipes, KillRecipes, RecipeFits, RecipeFiles
<1>3. /\ \A q \in RecipeRunner, d \in RecipeCell : q # r => builders'[q][d] = builders[q][d]
      /\ builders' = [q \in RecipeRunner |-> [d \in RecipeCell |-> builders'[q][d]]]
  BY DEF EndRecipes, KillRecipes, RecipeFits, RecipeFiles
<1>4. /\ recipeRuns' = [q \in RecipeRunner |-> recipeRuns'[q]] /\ recipeRuns'[r] = NotOn
      /\ \A q \in RecipeRunner : q # r => recipeRuns'[q] = recipeRuns[q]
  BY <1>1 DEF RecipeFits, RecipeFiles
<1>5. RecipeFiles'
  BY <1>1, <1>3, <1>4 DEF RecipeFits, RecipeFiles, ReportTrue, RowTrue, OfReport
<1>6. ASSUME NEW q \in RecipeRunner PROVE RunFits(q)'
  <2>1. CASE q = r
    BY <2>1, <1>4 DEF RunFits, NotOn
  <2>2. CASE q # r
    BY <2>2, <1>1, <1>4 DEF RecipeFits, RunFits, NotOn, ReportTrue, RowTrue, OfReport
  <2> QED BY <2>1, <2>2
<1>7. ASSUME NEW q \in RecipeRunner, NEW d \in RecipeCell PROVE BuilderFits(q, d)'
  <2>1. CASE q = r
    BY <2>1, <1>2, ResultsThere DEF BuilderFits
  <2>2. CASE q # r
    BY <2>2, <1>1, <1>3, <1>4 DEF RecipeFits, BuilderFits, RowTrue, OfReport
  <2> QED BY <2>1, <2>2
<1>8. \A d \in RecipeCell : FailureFits(d)'
  BY <1>1 DEF RecipeFits, FailureFits
<1> QED BY <1>1, <1>5, <1>6, <1>7, <1>8 DEF RecipeFits

LEMMA StartRecipesFits ==
    ASSUME RecipeFits, NEW r \in RecipeRunner, StartRecipes(r), recipeOverlap' # TRUE
    PROVE  RecipeFits'
<1>1. recipeOverlap' = FALSE /\ \A q \in RecipeRunner : ~recipeRuns[q].on
  BY DEF StartRecipes, RecipeFits
<1>2. \A q \in RecipeRunner, c \in RecipeCell : builders[q][c].step = "idle"
  BY <1>1 DEF RecipeFits, BuilderFits
<1>3. PICK report :
        /\ recipeRuns' = [recipeRuns EXCEPT ![r] = [on |-> TRUE, report |-> report]]
        /\ ReportTrue(report) /\ report.of = inputs
        /\ \/ recipeReport' = <<>> /\ report = NewReport(report.of)
           \/ recipeReport' = <<report>> /\ recipeReport' = recipeReport
        /\ UNCHANGED scratch
  BY NewReportTrue DEF StartRecipes, Current, RecipeFits, RecipeFiles, recipeFiles
<1>4. /\ recipeRuns' = [q \in RecipeRunner |-> recipeRuns'[q]]
      /\ recipeRuns'[r] = [on |-> TRUE, report |-> report]
      /\ \A q \in RecipeRunner : q # r => recipeRuns'[q] = recipeRuns[q]
  BY <1>3 DEF RecipeFits, RecipeFiles
<1>5. /\ \A c \in RecipeCell :
            builders'[r][c] = NoBuild \/ builders'[r][c] = [NoBuild EXCEPT !.step = "waits"]
      /\ \A q \in RecipeRunner, c \in RecipeCell : q # r => builders'[q][c] = builders[q][c]
      /\ builders' = [q \in RecipeRunner |-> [d \in RecipeCell |-> builders'[q][d]]]
  BY DEF StartRecipes, RecipeFits, RecipeFiles
<1>6. UNCHANGED <<inputs, editedAway, recipeKills>>
  BY DEF StartRecipes, recipeInputs
<1>7. RecipeFiles'
  BY <1>3, <1>4, <1>5, <1>6 DEF RecipeFits, RecipeFiles, ReportTrue, RowTrue, OfReport
<1>8. ASSUME NEW q \in RecipeRunner PROVE RunFits(q)'
  <2>1. CASE q = r
    <3>1. ReportTrue(report)'
      BY <1>3, <1>6 DEF ReportTrue, RowTrue, OfReport
    <3> QED BY <2>1, <3>1, <1>1, <1>3, <1>4, <1>6 DEF RunFits, OfReport
  <2>2. CASE q # r
    BY <2>2, <1>1, <1>4 DEF RecipeFits, RunFits
  <2> QED BY <2>1, <2>2
<1>9. ASSUME NEW q \in RecipeRunner, NEW d \in RecipeCell PROVE BuilderFits(q, d)'
  <2>1. [NoBuild EXCEPT !.step = "waits"] = [step |-> "waits", of |-> 0, row |-> NoResult]
    BY DEF NoBuild
  <2>2. CASE q = r
    BY <2>1, <2>2, <1>4, <1>5, ResultsThere DEF BuilderFits
  <2>3. CASE q # r
    BY <2>3, <1>2, <1>4, <1>5 DEF RecipeFits, BuilderFits
  <2> QED BY <2>2, <2>3
<1>10. ASSUME NEW d \in RecipeCell PROVE FailureFits(d)'
  BY <1>2, <1>3, <1>6 DEF RecipeFits, FailureFits
<1> QED BY <1>1, <1>7, <1>8, <1>9, <1>10 DEF RecipeFits

LEMMA ReviewInputsFits ==
    ASSUME RecipeFits, ReviewInputs
    PROVE  RecipeFits'
<1>1. /\ inputs' \in Nat /\ editedAway \subseteq editedAway'
      /\ \A r \in RecipeRunner :
            recipeRuns[r].on /\ recipeRuns[r].report.of = inputs => inputs \in editedAway'
      /\ UNCHANGED <<recipeReport, scratch, recipeRuns, builders, recipeOverlap, recipeKills>>
  BY DEF ReviewInputs, Current, Revision, recipeFiles, RecipeFits, RecipeFiles
<1>2. \A report : ReportTrue(report) => ReportTrue(report)'
  BY <1>1 DEF ReportTrue, RowTrue, OfReport
<1>3. RecipeFiles'
  BY <1>1, <1>2 DEF RecipeFits, RecipeFiles
<1>4. ASSUME NEW r \in RecipeRunner PROVE RunFits(r)'
  <2>1. recipeRuns[r].on => recipeRuns[r].report.of \in editedAway'
    BY <1>1 DEF RecipeFits, RunFits, OfReport
  <2> QED BY <2>1, <1>1, <1>2 DEF RecipeFits, RunFits, OfReport
<1>5. ASSUME NEW r \in RecipeRunner, NEW c \in RecipeCell PROVE BuilderFits(r, c)'
  BY <1>1 DEF RecipeFits, BuilderFits, RowTrue, OfReport
<1>6. \A c \in RecipeCell : FailureFits(c)'
  BY <1>1 DEF RecipeFits, FailureFits
<1> QED BY <1>1, <1>3, <1>4, <1>5, <1>6 DEF RecipeFits

\* Every step of the recipes keeps the invariant.
LEMMA RecipeStays ==
    ASSUME RecipeInv, [RecipeNext]_recipeVars
    PROVE  RecipeInv'
<1>1. CASE recipeOverlap = TRUE
  <2>1. recipeOverlap' = TRUE
    BY <1>1 DEF RecipeNext, recipeVars, StartRecipes, EndRecipes, KillRecipes, BeginRecipe,
                BuildCell, RaiseCell, ReadState, RecordCell, ReviewInputs
  <2> QED BY <2>1 DEF RecipeInv
<1>2. CASE recipeOverlap # TRUE
  <2> SUFFICES ASSUME recipeOverlap' # TRUE PROVE RecipeFits'
    BY DEF RecipeInv
  <2>1. RecipeFits
    BY <1>2 DEF RecipeInv
  <2>2. CASE ReviewInputs
    BY <2>1, <2>2, ReviewInputsFits
  <2>3. ASSUME NEW r \in RecipeRunner, StartRecipes(r) \/ EndRecipes(r) \/ KillRecipes(r)
        PROVE  RecipeFits'
    BY <2>1, <2>3, StartRecipesFits, EndRecipesFits
  <2>4. ASSUME NEW r \in RecipeRunner, NEW c \in RecipeCell,
               BeginRecipe(r, c) \/ BuildCell(r, c) \/ RaiseCell(r, c) \/ ReadState(r, c)
               \/ RecordCell(r, c)
        PROVE  RecipeFits'
    BY <2>1, <2>4, BeginRecipeFits, BuildCellFits, RaiseCellFits, ReadStateFits, RecordCellFits
  <2>5. CASE UNCHANGED recipeVars
    BY <2>1, <2>5 DEF recipeVars, recipeInputs, recipeFiles, RecipeFits, RecipeFiles,
                      RunFits, BuilderFits, FailureFits, ReportTrue, RowTrue, OfReport
  <2> QED BY <2>2, <2>3, <2>4, <2>5 DEF RecipeNext
<1> QED BY <1>1, <1>2

\* What the report promotes was built of the inputs as they are, and a failure
\* keeps its directory.
LEMMA RecipesTrueThen ==
    ASSUME RecipeInv
    PROVE  RecipesTrue
<1>1. SUFFICES ASSUME ~recipeOverlap, RecipeFits PROVE RecipesTrue
  BY DEF RecipeInv, RecipesTrue, PromotedAsBuilt, FailureEvidenceKept
<1>2. PromotedAsBuilt
  <2>1. SUFFICES ASSUME RecipesQualified, inputs \notin editedAway, NEW c \in RecipeCell
                 PROVE  recipeReport[1].rows[c].of = inputs
    BY DEF PromotedAsBuilt
  <2>2. /\ ReportTrue(recipeReport[1]) /\ recipeReport[1].of = inputs
        /\ recipeReport[1].rows[c].status = "built"
    BY <1>1, <2>1 DEF RecipesQualified, RecipeFits, RecipeFiles, Current
  <2> QED BY <2>1, <2>2 DEF ReportTrue, RowTrue, OfReport
<1>3. FailureEvidenceKept
  BY <1>1 DEF FailureEvidenceKept, RecipeFits, FailureFits
<1> QED BY <1>2, <1>3 DEF RecipesTrue

\* RecipesTrue of the recipe qualification: a recipe is promoted only as its
\* inputs were built, unless these were edited while a run of them was on and
\* brought back, and a failed cell keeps the directory of its failure, for runs
\* that did not overlap (recipe_qualification.py).
THEOREM RecipesSafe == RecipeSpec => []RecipesTrue
<1>1. RecipeInit => RecipeInv
  BY RecipeStarts
<1>2. RecipeInv /\ [RecipeNext]_recipeVars => RecipeInv'
  BY RecipeStays
<1>3. RecipeInv => RecipesTrue
  BY RecipesTrueThen
<1> QED BY <1>1, <1>2, <1>3, PTL DEF RecipeSpec

-----------------------------------------------------------------------------
(* Function matching (fid_matching_campaign.py).  Of the cases that a run  *)
(* expects, one that counts as qualified is of the run's authority, is     *)
(* ahead of a worker of the run, or the run's report is not clean; and     *)
(* what a finished, clean report counted nobody matches again while its    *)
(* authority is in force.                                                  *)

\* Numbers on a finite set have a bound, and a finite set of numbers its Max.
LEMMA FiniteBound ==
    ASSUME NEW S, IsFiniteSet(S), NEW f \in [S -> Nat]
    PROVE  \E b \in Nat : \A x \in S : f[x] <= b
<1>1. PICK n \in Nat : ExistsSurjection(1..n, S)
  BY FS_NatSurjection
<1>2. PICK g \in Surjection(1..n, S) : TRUE
  BY <1>1 DEF ExistsSurjection
<1>3. g \in [1..n -> S] /\ \A x \in S : \E i \in 1..n : g[i] = x
  BY <1>2 DEF Surjection
<1> DEFINE Below(k) == \E b \in Nat : \A i \in 1..k : f[g[i]] <= b
           Free == {k \in Nat : k <= n /\ ~Below(k)}
<1>4. Below(0)
  OBVIOUS
<1>5. \A k \in Nat : k < n /\ Below(k) => Below(k + 1)
  <2>1. SUFFICES ASSUME NEW k \in Nat, k < n, NEW b \in Nat, \A i \in 1..k : f[g[i]] <= b
                 PROVE  Below(k + 1)
    OBVIOUS
  <2>2. f[g[k + 1]] \in Nat
    BY <1>3, <2>1
  <2>3. PICK c \in Nat : b <= c /\ f[g[k + 1]] <= c
    BY <2>2
  <2>4. \A i \in 1..(k + 1) : f[g[i]] <= c
    <3>1. TAKE i \in 1..(k + 1)
    <3>2. CASE i = k + 1
      BY <2>3, <3>2
    <3>3. CASE i # k + 1
      <4>1. i \in 1..k /\ i \in 1..n
        BY <2>1, <3>3
      <4>2. f[g[i]] \in Nat /\ f[g[i]] <= b
        BY <1>3, <2>1, <4>1
      <4> QED BY <2>3, <4>2
    <3> QED BY <3>2, <3>3
  <2> QED BY <2>4
<1> HIDE DEF Below
<1>6. Free = {}
  <2>1. SUFFICES ASSUME Free # {} PROVE FALSE
    OBVIOUS
  <2>2. PICK k \in Free : \A x \in Free : k <= x
    <3>1. Free \in SUBSET Nat
      OBVIOUS
    <3> QED BY <2>1, <3>1, LeastNatural
  <2>3. k \in Nat /\ k <= n /\ ~Below(k) /\ \A x \in Free : k <= x
    BY <2>2
  <2>4. k # 0 /\ k - 1 \in Nat /\ k - 1 < n /\ ~(k <= k - 1) /\ (k - 1) + 1 = k
    BY <1>4, <2>3
  <2>5. Below(k - 1)
    BY <2>3, <2>4
  <2> QED BY <1>5, <2>3, <2>4, <2>5
<1>7. Below(n)
  BY <1>6
<1>8. PICK b \in Nat : \A i \in 1..n : f[g[i]] <= b
  BY <1>7 DEF Below
<1>9. \A x \in S : f[x] <= b
  BY <1>3, <1>8
<1> QED BY <1>9

LEMMA FiniteMax ==
    ASSUME NEW S \in SUBSET Nat, IsFiniteSet(S), S # {}
    PROVE  Max(S) \in S /\ \A x \in S : x <= Max(S)
<1> DEFINE f == [x \in S |-> x]
<1>1. PICK b \in Nat : \A x \in S : f[x] <= b
  <2>1. f \in [S -> Nat]
    OBVIOUS
  <2> HIDE DEF f
  <2> QED BY <2>1, FiniteBound
<1>2. \A x \in S : x \in Nat /\ x <= b
  BY <1>1
<1> HIDE DEF f
<1> DEFINE T == {b - x : x \in S}
<1>3. T \in SUBSET Nat /\ T # {}
  <2>1. \A x \in S : b - x \in Nat
    BY <1>2
  <2>2. T \subseteq Nat
    BY <2>1
  <2> QED BY <2>2
<1>4. PICK t \in T : \A u \in T : t <= u
  <2> HIDE DEF T
  <2> QED BY <1>3, LeastNatural
<1>5. PICK m \in S : t = b - m
  BY <1>4
<1>6. \A x \in S : m >= x
  <2>1. TAKE x \in S
  <2>2. b - m <= b - x
    BY <1>4, <1>5
  <2> QED BY <1>2, <1>5, <2>2
<1>7. Max(S) \in S /\ \A x \in S : Max(S) >= x
  BY <1>6 DEF Max
<1> QED BY <1>2, <1>7

\* A case that is left is the heaviest of them.
LEMMA HeadIsThere ==
    ASSUME CampaignAssumption, NEW w, matchers[w].todo \in SUBSET Cases, matchers[w].todo # {}
    PROVE  HeadCase(w) \in matchers[w].todo
<1>1. PICK S : S = matchers[w].todo
  OBVIOUS
<1>2. S \subseteq Cases /\ S # {} /\ S \subseteq Nat /\ WeightOf \in [Cases -> Nat \ {0}]
      /\ IsFiniteSet(Cases)
  BY <1>1 DEF CampaignAssumption, CampaignAccepted
<1>3. PICK b \in Nat : \A c \in Cases : WeightOf[c] <= b
  <2>1. WeightOf \in [Cases -> Nat]
    BY <1>2
  <2> QED BY <1>2, <2>1, FiniteBound
<1>4. \A c \in S : WeightOf[c] \in Nat /\ WeightOf[c] <= b /\ c \in Nat
  BY <1>2, <1>3
<1> DEFINE T == {b - WeightOf[c] : c \in S}
<1>5. T \in SUBSET Nat /\ T # {}
  <2>1. \A c \in S : b - WeightOf[c] \in Nat
    BY <1>4
  <2>2. T \subseteq Nat
    BY <2>1
  <2> QED BY <1>2, <2>2
<1>6. PICK t \in T : \A u \in T : t <= u
  <2> HIDE DEF T
  <2> QED BY <1>5, LeastNatural
<1> DEFINE U == {c \in S : b - WeightOf[c] = t}
<1>7. U \in SUBSET Nat /\ U # {}
  BY <1>4, <1>6
<1>8. PICK c \in U : \A d \in U : c <= d
  <2> HIDE DEF U
  <2> QED BY <1>7, LeastNatural
<1>9. \A d \in S \ {c} : Heavier(c, d)
  <2>1. TAKE d \in S \ {c}
  <2>2. c \in S /\ b - WeightOf[c] = t /\ t <= b - WeightOf[d]
    BY <1>6, <1>8
  <2>3. WeightOf[d] <= WeightOf[c] /\ WeightOf[c] \in Nat /\ WeightOf[d] \in Nat
    BY <1>4, <2>2
  <2>4. CASE WeightOf[d] = WeightOf[c]
    <3>1. d \in U /\ c <= d /\ c # d /\ c \in Nat /\ d \in Nat
      BY <1>4, <1>8, <2>2, <2>4
    <3> QED BY <2>4, <3>1 DEF Heavier
  <2>5. CASE WeightOf[d] # WeightOf[c]
    BY <2>3, <2>5 DEF Heavier
  <2> QED BY <2>4, <2>5
<1>10. \E x \in matchers[w].todo : \A d \in matchers[w].todo \ {x} : Heavier(x, d)
  BY <1>1, <1>8, <1>9
<1> QED BY <1>10 DEF HeadCase

LEMMA WorkersMost ==
    ASSUME CampaignAssumption
    PROVE  /\ Max({MatchWorkers, CanaryWorkers}) \in Nat
           /\ MatchWorkers \in Nat \ {0} /\ CanaryWorkers \in Nat \ {0}
           /\ MatchWorkers <= Max({MatchWorkers, CanaryWorkers})
           /\ CanaryWorkers <= Max({MatchWorkers, CanaryWorkers})
<1> DEFINE S == {MatchWorkers, CanaryWorkers}
<1>1. S \in SUBSET Nat /\ S # {} /\ MatchWorkers \in Nat \ {0} /\ CanaryWorkers \in Nat \ {0}
  BY DEF CampaignAssumption, CampaignAccepted
<1>2. PICK b \in Nat : MatchWorkers <= b /\ CanaryWorkers <= b
  BY <1>1
<1>3. IsFiniteSet(S)
  <2>1. \A s \in S : s <= b
    BY <1>2
  <2> QED BY <1>1, <2>1, FS_BoundedSetOfNaturals
<1>4. Max(S) \in S /\ \A x \in S : x <= Max(S)
  <2> HIDE DEF S
  <2> QED BY <1>1, <1>3, FiniteMax
<1> QED BY <1>1, <1>4

RunSteps == {"rest", "start", "wait", "publish", "report", "status"}
MatcherSteps == {"next", "archive", "match", "exit", "dead"}
Summaries == [authority : 1..authority, state : {"qualified", "mismatch"}, fallback : BOOLEAN]
MatcherRow == [mode : Modes, authority : 1..authority, todo : SUBSET Cases, step : MatcherSteps,
               orphan : BOOLEAN]
HoldsLock(r) == runners[r].step \notin {"rest", "start"}
ReportRow(report) == DOMAIN report = {"authority", "state", "counted", "clean"}

CampaignFiles ==
    /\ authority \in 1..MaxAuthority /\ failures \subseteq Cases
    /\ summaries \in [Cases -> Summaries \cup {Absent}]
    /\ evidence \in [Modes -> Nat] /\ reports = [m \in Modes |-> reports[m]]
    /\ campaign \in {"scheduled", "running", "complete", "failed"}
    /\ survived \in BOOLEAN /\ killed \in Nat
    /\ \A m \in Modes : reports[m] # Absent => reports[m].authority \in 1..authority

\* Who runs is of the authority in force and alone, and has the workers.
RunnerFits(r) ==
    LET x == runners[r] IN
    /\ x = [step |-> x.step, mode |-> x.mode, authority |-> x.authority, report |-> x.report]
    /\ x.step \in RunSteps
    /\ x.step # "rest" => x.mode \in Modes /\ x.authority = authority
    /\ x.step \in {"publish", "report", "status"} =>
          ReportRow(x.report) /\ x.report.authority = authority
RunnersFit ==
    /\ runners = [r \in Runner |-> runners[r]]
    /\ \A r \in Runner : RunnerFits(r)
    /\ \A r, q \in Runner : HoldsLock(r) /\ HoldsLock(q) => r = q

MatchersFit ==
    /\ matchers \in [DOMAIN matchers -> MatcherRow]
    /\ DOMAIN matchers \subseteq Nat /\ IsFiniteSet(DOMAIN matchers)
    /\ \A w \in DOMAIN matchers :
          /\ matchers[w].step = "exit" => matchers[w].todo = {}
          /\ matchers[w].step \in {"archive", "match"} => matchers[w].todo # {}
    /\ (\A r \in Runner : runners[r].step # "wait") => Mine = {}
    /\ IsFiniteSet(Mine) /\ Cardinality(Mine) <= Max({MatchWorkers, CanaryWorkers})

\* The rest is about the runs whose workers did not outlive a runner.  No case
\* is ahead of two workers, and the worker at a case has put away what was there.
ChunksFit ==
    /\ Mine = DOMAIN matchers
    /\ \A v, w \in DOMAIN matchers : v # w => matchers[v].todo \cap matchers[w].todo = {}
    /\ \A r \in Runner : runners[r].step = "wait" => \A w \in DOMAIN matchers :
          /\ matchers[w].authority = authority /\ matchers[w].mode = runners[r].mode
          /\ matchers[w].todo \subseteq Expected(runners[r].mode)
    /\ \A w \in DOMAIN matchers : matchers[w].step = "match" =>
          summaries[HeadCase(w)] = Absent /\ HeadCase(w) \notin failures
    /\ \A c \in failures : summaries[c] = Absent

\* A finished and clean report of the authority in force.
InForce(m) ==
    /\ reports[m] # Absent /\ Finished(reports[m]) /\ reports[m].clean
    /\ reports[m].authority = authority
InForceFits(m) ==
    InForce(m) =>
        /\ \A c \in Expected(m) :
              Reusable(c, authority) /\ \A w \in DOMAIN matchers : c \notin matchers[w].todo
        /\ evidence[m] = reports[m].evidence
        /\ \A r \in Runner : runners[r].mode = m => runners[r].step \notin {"wait", "publish", "report"}

\* What a case counts for.
CountsFor(kept, c, a) ==
    \/ kept[c] = Absent \/ kept[c].state # "qualified" \/ kept[c].fallback
    \/ SameText(kept[c].authority, a)
CasesCovered ==
    \A r \in Runner : runners[r].step = "wait" => \A c \in Expected(runners[r].mode) :
        \/ CountsFor(summaries, c, authority)
        \/ \E w \in DOMAIN matchers : c \in matchers[w].todo \/ matchers[w].step = "dead"

\* The report in hand, before it is written.
CountedFits ==
    \A r \in Runner :
        LET report == runners[r].report IN
        runners[r].step \in {"publish", "report"} /\ Finished(report) /\ report.clean =>
            /\ \A c \in Expected(runners[r].mode) : Reusable(c, authority)
            /\ \A b \in report.counted : SameText(b, authority)
ReportsTrue ==
    \A m \in Modes : reports[m] # Absent /\ Finished(reports[m]) /\ reports[m].clean =>
        \A b \in reports[m].counted : SameText(b, reports[m].authority)

MatchFits ==
    /\ CampaignFiles /\ RunnersFit /\ MatchersFit
    /\ ~survived => /\ ChunksFit /\ CasesCovered /\ CountedFits /\ ReportsTrue
                    /\ \A m \in Modes : InForceFits(m)

LEMMA MatchFacts ==
    ASSUME MatchFits
    PROVE  CampaignTypeOK /\ ReportsSound
<1>1. ReportsSound
  <2> SUFFICES ASSUME NEW m \in Modes, reports[m] # Absent, Finished(reports[m]),
                      reports[m].clean, ~survived
               PROVE  /\ \A b \in reports[m].counted : SameText(b, reports[m].authority)
                      /\ reports[m].authority = authority => evidence[m] = reports[m].evidence
    BY DEF ReportsSound
  <2>1. \A b \in reports[m].counted : SameText(b, reports[m].authority)
    BY DEF MatchFits, ReportsTrue
  <2>2. reports[m].authority = authority => evidence[m] = reports[m].evidence
    BY DEF MatchFits, InForceFits, InForce
  <2> QED BY <2>1, <2>2
<1>2. Cardinality({r \in Runner : runners[r].step \notin {"rest", "start"}}) <= 1
  <2> DEFINE On == {r \in Runner : runners[r].step \notin {"rest", "start"}}
  <2>1. CASE On = {}
    BY <2>1, FS_EmptySet
  <2>2. CASE On # {}
    <3>1. PICK r \in On : TRUE
      BY <2>2
    <3>2. On = {r}
      BY <3>1 DEF MatchFits, RunnersFit, HoldsLock
    <3>3. Cardinality(On) = 1
      BY <3>2, FS_Singleton
    <3> QED BY <3>3
  <2> QED BY <2>1, <2>2
<1>3. \A c \in Cases : summaries[c] # Absent => summaries[c] \in Summaries
  BY DEF MatchFits, CampaignFiles
<1>4. \A c \in failures : ~survived => summaries[c] = Absent
  BY DEF MatchFits, ChunksFit
<1> QED BY <1>1, <1>2, <1>3, <1>4 DEF CampaignTypeOK, MatchFits, CampaignFiles, MatchersFit, Summaries

LEMMA MatchStarts ==
    ASSUME CampaignAssumption, CampaignInit
    PROVE  MatchFits
<1>1. DOMAIN matchers = {} /\ Mine = {}
  BY DEF CampaignInit, Mine
<1>2. CampaignFiles
  <2>1. 1 \in 1..MaxAuthority
    BY DEF CampaignAssumption, CampaignAccepted
  <2> QED BY <2>1 DEF CampaignInit, CampaignFiles
<1>3. RunnersFit
  BY DEF CampaignInit, RunnersFit, RunnerFits, HoldsLock, Resting, RunSteps
<1>4. MatchersFit
  <2>1. IsFiniteSet({}) /\ Cardinality({}) = 0
    BY FS_EmptySet
  <2>2. Max({MatchWorkers, CanaryWorkers}) \in Nat
    BY WorkersMost
  <2>3. matchers \in [DOMAIN matchers -> MatcherRow]
    BY <1>1 DEF CampaignInit
  <2> QED BY <1>1, <2>1, <2>2, <2>3 DEF MatchersFit
<1>5. ChunksFit /\ CasesCovered /\ CountedFits /\ ReportsTrue /\ \A m \in Modes : InForceFits(m)
  <2>1. \A r \in Runner : runners[r].step = "rest"
    BY DEF CampaignInit, Resting
  <2>2. \A m \in Modes : reports[m] = Absent
    BY DEF CampaignInit
  <2> QED BY <1>1, <2>1, <2>2 DEF ChunksFit, CasesCovered, CountedFits, ReportsTrue, InForceFits,
          InForce, CampaignInit
<1> QED BY <1>2, <1>3, <1>4, <1>5 DEF MatchFits

\* The steps of a worker.
\* What a worker's step leaves: its row keeps its run, has no new case, and the
\* case at hand is the only one whose kept it touched.
LEMMA MatcherStays ==
    ASSUME CampaignAssumption, MatchFits, NEW w \in DOMAIN matchers, NEW row \in MatcherRow,
           NEW c0, matchers' = [matchers EXCEPT ![w] = row],
           row.mode = matchers[w].mode, row.authority = matchers[w].authority,
           row.orphan = matchers[w].orphan, row.todo \subseteq matchers[w].todo,
           matchers[w].step # "dead",
           row.step = "exit" => row.todo = {},
           row.step \in {"archive", "match"} => row.todo # {},
           CampaignQuiet, killed' \in Nat,
           failures' \subseteq Cases, summaries' \in [Cases -> Summaries \cup {Absent}],
           c0 \in matchers[w].todo \/ (summaries' = summaries /\ failures' = failures),
           \A c \in Cases : c # c0 => summaries'[c] = summaries[c] /\ (c \in failures' <=> c \in failures),
           ~survived =>
              /\ c0 \in failures' => summaries'[c0] = Absent
              /\ row.step = "match" => summaries'[HeadCase(w)'] = Absent /\ HeadCase(w)' \notin failures'
              /\ \A c \in matchers[w].todo \ row.todo :
                    row.step = "dead" \/ CountsFor(summaries', c, matchers[w].authority)
    PROVE  MatchFits'
<1>1. /\ CampaignFiles /\ RunnersFit /\ MatchersFit
      /\ UNCHANGED <<authority, runners, evidence, reports, campaign, survived>>
  BY DEF MatchFits, CampaignQuiet
<1>2. /\ matchers \in [DOMAIN matchers -> MatcherRow] /\ DOMAIN matchers' = DOMAIN matchers
      /\ matchers'[w] = row /\ matchers' \in [DOMAIN matchers -> MatcherRow]
      /\ \A v \in DOMAIN matchers : v # w => matchers'[v] = matchers[v]
  BY <1>1 DEF MatchersFit
<1>3. Mine' = Mine
  BY <1>2 DEF Mine
<1>4. CampaignFiles'
  <2>1. Summaries' = Summaries
    BY <1>1 DEF Summaries
  <2> QED BY <1>1, <2>1 DEF CampaignFiles
<1>5. RunnersFit'
  BY <1>1 DEF RunnersFit, RunnerFits, HoldsLock
<1>6. MatchersFit'
  <2>1. MatcherRow' = MatcherRow
    BY <1>1 DEF MatcherRow
  <2>2. \A v \in DOMAIN matchers :
          /\ matchers'[v].step = "exit" => matchers'[v].todo = {}
          /\ matchers'[v].step \in {"archive", "match"} => matchers'[v].todo # {}
    BY <1>1, <1>2 DEF MatchersFit
  <2> QED BY <1>1, <1>2, <1>3, <2>1, <2>2 DEF MatchersFit
<1>7. ASSUME ~survived
      PROVE  (/\ ChunksFit /\ CasesCovered /\ CountedFits /\ ReportsTrue
              /\ \A m \in Modes : InForceFits(m))'
  <2>1. ChunksFit /\ CasesCovered /\ CountedFits /\ ReportsTrue /\ \A m \in Modes : InForceFits(m)
    BY <1>7 DEF MatchFits
  <2>2. \A v \in DOMAIN matchers : matchers'[v].todo \subseteq matchers[v].todo
    BY <1>2
  <2>3. \A v \in DOMAIN matchers : v # w => c0 \notin matchers[v].todo \/ UNCHANGED <<summaries, failures>>
    BY <2>1 DEF ChunksFit
  <2>4. PICK r0 \in Runner : runners[r0].step = "wait"
    <3>1. w \in Mine
      BY <2>1 DEF ChunksFit
    <3> QED BY <1>1, <3>1 DEF MatchersFit
  <2>5. /\ matchers[w].authority = authority /\ matchers[w].todo \subseteq Cases
        /\ \A v \in DOMAIN matchers : matchers[v].todo \subseteq Cases
    BY <1>1, <1>2, <2>1, <2>4 DEF ChunksFit, MatcherRow
  <2>6. ChunksFit'
    <3>1. Mine' = DOMAIN matchers'
      BY <1>2, <1>3, <2>1 DEF ChunksFit
    <3>2. \A u, v \in DOMAIN matchers : u # v => matchers'[u].todo \cap matchers'[v].todo = {}
      BY <2>1, <2>2 DEF ChunksFit
    <3>3. \A r \in Runner : runners[r].step = "wait" => \A v \in DOMAIN matchers :
            /\ matchers'[v].authority = authority /\ matchers'[v].mode = runners[r].mode
            /\ matchers'[v].todo \subseteq Expected(runners[r].mode)
      <4>1. \A v \in DOMAIN matchers : /\ matchers'[v].authority = matchers[v].authority
                                       /\ matchers'[v].mode = matchers[v].mode
        BY <1>2
      <4> QED BY <2>1, <2>2, <4>1 DEF ChunksFit
    <3>4. \A v \in DOMAIN matchers : matchers'[v].step = "match" =>
            summaries'[HeadCase(v)'] = Absent /\ HeadCase(v)' \notin failures'
      <4>1. SUFFICES ASSUME NEW v \in DOMAIN matchers, v # w, matchers'[v].step = "match"
                     PROVE  summaries'[HeadCase(v)'] = Absent /\ HeadCase(v)' \notin failures'
        BY <1>2, <1>7
      <4>2. matchers'[v] = matchers[v] /\ HeadCase(v)' = HeadCase(v)
        BY <1>2, <4>1 DEF HeadCase
      <4>3. matchers[v].todo # {} /\ matchers[v].todo \subseteq Cases
        BY <1>1, <2>5, <4>1, <4>2 DEF MatchersFit
      <4>4. HeadCase(v) \in matchers[v].todo
        BY <4>3, HeadIsThere
      <4>5. summaries[HeadCase(v)] = Absent /\ HeadCase(v) \notin failures
        BY <2>1, <4>1, <4>2 DEF ChunksFit
      <4>6. UNCHANGED <<summaries, failures>> \/ HeadCase(v) # c0
        BY <2>3, <4>1, <4>4
      <4> QED BY <4>2, <4>3, <4>4, <4>5, <4>6
    <3>5. \A c \in failures' : summaries'[c] = Absent
      BY <1>7, <2>1 DEF ChunksFit
    <3> QED BY <1>1, <1>2, <3>1, <3>2, <3>3, <3>4, <3>5 DEF ChunksFit, Expected
  <2>7. CasesCovered'
    <3>1. SUFFICES ASSUME NEW r \in Runner, runners[r].step = "wait", NEW c \in Expected(runners[r].mode)
                   PROVE  \/ CountsFor(summaries', c, authority)
                          \/ \E v \in DOMAIN matchers : c \in matchers'[v].todo \/ matchers'[v].step = "dead"
      BY <1>1, <1>2 DEF CasesCovered, Expected, CountsFor
    <3>2. \/ CountsFor(summaries, c, authority)
          \/ \E v \in DOMAIN matchers : c \in matchers[v].todo \/ matchers[v].step = "dead"
      BY <2>1, <3>1 DEF CasesCovered
    <3>3. c \in Cases
      BY <3>1 DEF Expected, CampaignAssumption, CampaignAccepted
    <3>4. CASE \E v \in DOMAIN matchers : matchers[v].step = "dead"
      BY <1>2, <3>4
    <3>5. CASE c \in matchers[w].todo
      <4>1. CASE c \in row.todo
        BY <1>2, <4>1
      <4>2. CASE c \notin row.todo
        <5>1. row.step = "dead" \/ CountsFor(summaries', c, matchers[w].authority)
          BY <1>7, <3>5, <4>2
        <5>2. CountsFor(summaries', c, matchers[w].authority) => CountsFor(summaries', c, authority)
          BY <1>1, <1>2, <2>5 DEF CountsFor
        <5> QED BY <1>2, <5>1, <5>2
      <4> QED BY <4>1, <4>2
    <3>6. CASE \E v \in DOMAIN matchers : v # w /\ c \in matchers[v].todo
      BY <1>2, <3>6
    <3>7. CASE c \notin matchers[w].todo /\ CountsFor(summaries, c, authority)
      <4>1. summaries'[c] = summaries[c]
        BY <3>3, <3>7
      <4> QED BY <1>1, <3>7, <4>1 DEF CountsFor
    <3> QED BY <3>2, <3>4, <3>5, <3>6, <3>7
  <2>8. CountedFits'
    <3>1. \A r \in Runner : runners[r].step \notin {"publish", "report"}
      BY <1>1, <2>4 DEF RunnersFit, HoldsLock
    <3> QED BY <1>1, <3>1 DEF CountedFits
  <2>9. ReportsTrue'
    BY <1>1, <2>1 DEF ReportsTrue, Finished
  <2>10. \A m \in Modes : InForceFits(m)'
    <3>1. TAKE m \in Modes
    <3>2. SUFFICES ASSUME InForce(m) PROVE InForceFits(m)'
      BY <1>1 DEF InForceFits, InForce, Finished
    <3>3. /\ \A c \in Expected(m) :
                Reusable(c, authority) /\ \A v \in DOMAIN matchers : c \notin matchers[v].todo
          /\ evidence[m] = reports[m].evidence
          /\ \A r \in Runner : runners[r].mode = m => runners[r].step \notin {"wait", "publish", "report"}
      BY <2>1, <3>1, <3>2 DEF InForceFits
    <3>4. \A c \in Expected(m) : c \in Cases /\ summaries'[c] = summaries[c]
      BY <3>3 DEF Expected, CampaignAssumption, CampaignAccepted
    <3>5. \A c \in Expected(m) : Reusable(c, authority)'
      BY <1>1, <3>3, <3>4 DEF Reusable
    <3>6. \A c \in Expected(m) : \A v \in DOMAIN matchers' : c \notin matchers'[v].todo
      BY <1>2, <2>2, <3>3
    <3> QED BY <1>1, <3>3, <3>5, <3>6 DEF InForceFits, Expected
  <2> QED BY <2>6, <2>7, <2>8, <2>9, <2>10
<1> QED BY <1>1, <1>4, <1>5, <1>6, <1>7 DEF MatchFits

LEMMA MatcherFacts ==
    ASSUME CampaignAssumption, MatchFits, NEW w \in DOMAIN matchers
    PROVE  /\ matchers[w] \in MatcherRow /\ matchers[w].todo \in SUBSET Cases
           /\ matchers[w].todo # {} => HeadCase(w) \in matchers[w].todo
           /\ matchers[w].step \in {"archive", "match"} => matchers[w].todo # {}
           /\ killed \in Nat /\ failures \subseteq Cases
           /\ summaries \in [Cases -> Summaries \cup {Absent}]
<1>1. matchers[w] \in MatcherRow /\ matchers[w].todo \in SUBSET Cases
  BY DEF MatchFits, MatchersFit, MatcherRow
<1>2. matchers[w].todo # {} => HeadCase(w) \in matchers[w].todo
  BY <1>1, HeadIsThere
<1> QED BY <1>1, <1>2 DEF MatchFits, MatchersFit, CampaignFiles

LEMMA WorkerStays ==
    ASSUME CampaignAssumption, MatchFits, NEW w \in DOMAIN matchers,
           LookAtCase(w) \/ ArchiveCase(w) \/ EndMatch(w) \/ ExitMatcher(w) \/ MatcherDies(w)
    PROVE  MatchFits'
<1> DEFINE moved(s) == [matchers[w] EXCEPT !.step = s]
           done == [matchers[w] EXCEPT !.todo = @ \ {HeadCase(w)}, !.step = "next"]
<1>1. /\ matchers[w] \in MatcherRow /\ matchers[w].todo \in SUBSET Cases
      /\ matchers[w].todo # {} => HeadCase(w) \in matchers[w].todo
      /\ matchers[w].step \in {"archive", "match"} => matchers[w].todo # {}
      /\ killed \in Nat /\ failures \subseteq Cases
      /\ summaries \in [Cases -> Summaries \cup {Absent}]
  BY MatcherFacts
<1>2. \A s \in MatcherSteps :
        /\ moved(s) \in MatcherRow /\ moved(s).step = s /\ moved(s).todo = matchers[w].todo
        /\ moved(s).mode = matchers[w].mode /\ moved(s).authority = matchers[w].authority
        /\ moved(s).orphan = matchers[w].orphan
  BY <1>1 DEF MatcherRow
<1>3. /\ done \in MatcherRow /\ done.step = "next" /\ done.todo = matchers[w].todo \ {HeadCase(w)}
      /\ done.mode = matchers[w].mode /\ done.authority = matchers[w].authority
      /\ done.orphan = matchers[w].orphan
  BY <1>1 DEF MatcherRow, MatcherSteps
<1>4. \A s : MatcherMoves(w, s) => matchers' = [matchers EXCEPT ![w] = moved(s)]
  BY DEF MatcherMoves
<1>5. DropCase(w) => matchers' = [matchers EXCEPT ![w] = done]
  <2>1. SUFFICES ASSUME DropCase(w) PROVE matchers' = [matchers EXCEPT ![w] = done]
    OBVIOUS
  <2>2. matchers' = [matchers EXCEPT ![w].todo = @ \ {HeadCase(w)}, ![w].step = "next"]
    BY <2>1 DEF DropCase
  <2>3. matchers'[w] = done
    BY <1>1, <2>2
  <2>4. matchers' = [v \in DOMAIN matchers |-> IF v = w THEN done ELSE matchers[v]]
    BY <1>1, <2>2, <2>3
  <2> QED BY <2>4
<1> HIDE DEF moved, done
<1>6. CASE LookAtCase(w)
  <2>1. matchers[w].step = "next" /\ matchers[w].todo # {} /\ CampaignQuiet
        /\ UNCHANGED <<summaries, failures, killed>>
    BY <1>6 DEF LookAtCase
  <2>2. CASE Reusable(HeadCase(w), matchers[w].authority)
    <3>1. matchers' = [matchers EXCEPT ![w] = done]
      BY <1>5, <1>6, <2>2 DEF LookAtCase
    <3>2. \A c \in {HeadCase(w)} : CountsFor(summaries', c, matchers[w].authority)
      BY <2>1, <2>2 DEF CountsFor, Reusable
    <3>3. \A c \in matchers[w].todo \ done.todo : c = HeadCase(w)
      BY <1>3
    <3>4. ~survived => (HeadCase(w) \in failures => summaries[HeadCase(w)] = Absent)
      BY DEF MatchFits, ChunksFit
    <3>5. \A c \in matchers[w].todo \ done.todo : CountsFor(summaries', c, matchers[w].authority)
      BY <3>2, <3>3
    <3> QED BY <1>1, <1>3, <2>1, <3>1, <3>4, <3>5, MatcherStays
  <2>3. CASE ~Reusable(HeadCase(w), matchers[w].authority)
    <3>1. matchers' = [matchers EXCEPT ![w] = moved("archive")]
      BY <1>4, <1>6, <2>3 DEF LookAtCase
    <3>2. ~survived => (HeadCase(w) \in failures => summaries[HeadCase(w)] = Absent)
      BY DEF MatchFits, ChunksFit
    <3>3. /\ moved("archive") \in MatcherRow /\ moved("archive").step = "archive"
          /\ moved("archive").todo = matchers[w].todo
          /\ moved("archive").mode = matchers[w].mode
          /\ moved("archive").authority = matchers[w].authority
          /\ moved("archive").orphan = matchers[w].orphan
      BY <1>2 DEF MatcherSteps
    <3> QED BY <1>1, <2>1, <3>1, <3>2, <3>3, MatcherStays
  <2> QED BY <2>2, <2>3
<1>7. CASE ArchiveCase(w)
  <2>1. /\ matchers[w].step = "archive" /\ CampaignQuiet /\ UNCHANGED killed
        /\ summaries' = [summaries EXCEPT ![HeadCase(w)] = Absent]
        /\ failures' = failures \ {HeadCase(w)}
        /\ matchers' = [matchers EXCEPT ![w] = moved("match")]
    BY <1>4, <1>7 DEF ArchiveCase
  <2>2. HeadCase(w) \in matchers[w].todo /\ HeadCase(w) \in Cases
    BY <1>1, <2>1
  <2>3. /\ moved("match") \in MatcherRow /\ moved("match").step = "match"
        /\ moved("match").todo = matchers[w].todo
        /\ moved("match").mode = matchers[w].mode
        /\ moved("match").authority = matchers[w].authority
        /\ moved("match").orphan = matchers[w].orphan
    BY <1>2 DEF MatcherSteps
  <2>4. HeadCase(w)' = HeadCase(w)
    <3>1. matchers'[w].todo = matchers[w].todo
      BY <1>1, <2>1, <2>3
    <3> QED BY <3>1 DEF HeadCase
  <2>5. summaries' \in [Cases -> Summaries \cup {Absent}] /\ summaries'[HeadCase(w)] = Absent
    BY <1>1, <2>1, <2>2
  <2>6. \A c \in Cases : c # HeadCase(w) =>
          summaries'[c] = summaries[c] /\ (c \in failures' <=> c \in failures)
    BY <1>1, <2>1
  <2> QED BY <1>1, <2>1, <2>2, <2>3, <2>4, <2>5, <2>6, MatcherStays
<1>8. CASE EndMatch(w)
  <2>1. /\ matchers[w].step = "match" /\ CampaignQuiet /\ UNCHANGED killed
        /\ matchers' = [matchers EXCEPT ![w] = done]
    BY <1>5, <1>8 DEF EndMatch
  <2>2. HeadCase(w) \in matchers[w].todo /\ HeadCase(w) \in Cases
    BY <1>1, <2>1
  <2>3. \A c \in matchers[w].todo \ done.todo : c = HeadCase(w)
    BY <1>3
  <2>4. ~survived => summaries[HeadCase(w)] = Absent /\ HeadCase(w) \notin failures
    BY <2>1 DEF MatchFits, ChunksFit
  <2>5. matchers'[w].authority = matchers[w].authority
    BY <1>1, <1>3, <2>1
  <2>6. ASSUME NEW s \in {"qualified", "mismatch"}, NEW fallback \in BOOLEAN, UNCHANGED failures,
               summaries' = [summaries EXCEPT ![HeadCase(w)] =
                   [authority |-> matchers[w].authority, state |-> s, fallback |-> fallback]]
        PROVE  MatchFits'
    <3> DEFINE summary == [authority |-> matchers[w].authority, state |-> s, fallback |-> fallback]
    <3>1. summary \in Summaries /\ summary.authority = matchers[w].authority
      BY <1>1 DEF Summaries, MatcherRow
    <3>2. summaries' = [summaries EXCEPT ![HeadCase(w)] = summary]
      BY <2>6
    <3> HIDE DEF summary
    <3>3. summaries' \in [Cases -> Summaries \cup {Absent}] /\ summaries'[HeadCase(w)] = summary
          /\ \A c \in Cases : c # HeadCase(w) => summaries'[c] = summaries[c]
      BY <1>1, <2>2, <3>1, <3>2
    <3>5. \A c \in matchers[w].todo \ done.todo : CountsFor(summaries', c, matchers[w].authority)
      BY <2>3, <2>5, <3>1, <3>3 DEF CountsFor, SameText
    <3> QED BY <1>1, <1>3, <2>1, <2>2, <2>4, <2>6, <3>3, <3>5, MatcherStays
  <2>7. ASSUME failures' = failures \cup {HeadCase(w)}, UNCHANGED summaries
        PROVE  MatchFits'
    <3>1. ~survived => \A c \in matchers[w].todo \ done.todo : CountsFor(summaries', c, matchers[w].authority)
      BY <2>3, <2>4, <2>7 DEF CountsFor
    <3>2. failures' \subseteq Cases
      BY <1>1, <2>2, <2>7
    <3> QED BY <1>1, <1>3, <2>1, <2>2, <2>4, <2>7, <3>1, <3>2, MatcherStays
  <2> QED BY <1>8, <2>6, <2>7 DEF EndMatch
<1>9. CASE ExitMatcher(w)
  <2>1. /\ matchers[w].step = "next" /\ matchers[w].todo = {} /\ CampaignQuiet
        /\ UNCHANGED <<summaries, failures, killed>>
        /\ matchers' = [matchers EXCEPT ![w] = moved("exit")]
    BY <1>4, <1>9 DEF ExitMatcher
  <2>2. /\ moved("exit") \in MatcherRow /\ moved("exit").step = "exit"
        /\ moved("exit").todo = matchers[w].todo
        /\ moved("exit").mode = matchers[w].mode
        /\ moved("exit").authority = matchers[w].authority
        /\ moved("exit").orphan = matchers[w].orphan
    BY <1>2 DEF MatcherSteps
  <2>3. ~survived => (HeadCase(w) \in failures => summaries[HeadCase(w)] = Absent)
    BY DEF MatchFits, ChunksFit
  <2> QED BY <1>1, <2>1, <2>2, <2>3, MatcherStays
<1>10. CASE MatcherDies(w)
  <2>1. /\ matchers[w].step \notin {"exit", "dead"} /\ CampaignQuiet /\ killed' = killed + 1
        /\ UNCHANGED <<summaries, failures>>
        /\ matchers' = [matchers EXCEPT ![w] = moved("dead")]
    BY <1>4, <1>10 DEF MatcherDies, Exited
  <2>2. /\ moved("dead") \in MatcherRow /\ moved("dead").step = "dead"
        /\ moved("dead").todo = matchers[w].todo
        /\ moved("dead").mode = matchers[w].mode
        /\ moved("dead").authority = matchers[w].authority
        /\ moved("dead").orphan = matchers[w].orphan
    BY <1>2 DEF MatcherSteps
  <2>3. ~survived => (HeadCase(w) \in failures => summaries[HeadCase(w)] = Absent)
    BY DEF MatchFits, ChunksFit
  <2>4. killed' \in Nat
    BY <1>1, <2>1
  <2> QED BY <1>1, <2>1, <2>2, <2>3, <2>4, MatcherStays
<1> QED BY <1>6, <1>7, <1>8, <1>9, <1>10

\* The steps of a run.
\* What holds of a runner that holds the lock, and of its workers.
LEMMA LockFacts ==
    ASSUME MatchFits
    PROVE  /\ \A r \in Runner : runners[r].step \in RunSteps
           /\ \A r, q \in Runner : HoldsLock(r) /\ q # r => runners[q].step \in {"rest", "start"}
           /\ (\A q \in Runner : runners[q].step # "wait") => Mine = {}
           /\ ~survived => (Mine = {} => DOMAIN matchers = {})
<1>1. \A r \in Runner : runners[r].step \in RunSteps
  BY DEF MatchFits, RunnersFit, RunnerFits
<1>2. \A r, q \in Runner : HoldsLock(r) /\ q # r => runners[q].step \in {"rest", "start"}
  BY DEF MatchFits, RunnersFit, HoldsLock
<1>3. (\A q \in Runner : runners[q].step # "wait") => Mine = {}
  BY DEF MatchFits, MatchersFit
<1>4. ~survived => (Mine = {} => DOMAIN matchers = {})
  BY DEF MatchFits, ChunksFit
<1> QED BY <1>1, <1>2, <1>3, <1>4

\* A runner that is at rest, or has asked and holds no lock yet.
LEMMA RunnerRests ==
    ASSUME CampaignAssumption, MatchFits, NEW r \in Runner,
           runners[r].step \in {"rest", "start", "status"},
           runners' = [runners EXCEPT ![r] = runners'[r]],
           runners'[r] = Resting \/ \E m \in Modes :
              runners'[r] = [step |-> "start", mode |-> m, authority |-> authority, report |-> Absent],
           UNCHANGED <<authority, summaries, failures, matchers, evidence, reports, survived, killed>>,
           campaign' \in {"scheduled", "running", "complete", "failed"}
    PROVE  MatchFits'
<1>1. /\ CampaignFiles /\ RunnersFit /\ MatchersFit
      /\ UNCHANGED <<authority, summaries, failures, matchers, evidence, reports, survived, killed>>
  BY DEF MatchFits
<1> DEFINE row == runners'[r]
<1>2. /\ row = [step |-> row.step, mode |-> row.mode, authority |-> row.authority,
                         report |-> row.report]
      /\ row.step \in {"rest", "start"}
      /\ row.step # "rest" => row.mode \in Modes /\ row.authority = authority
  <2>1. CASE row = Resting
    BY <2>1 DEF Resting
  <2>2. ASSUME NEW m \in Modes,
               row = [step |-> "start", mode |-> m, authority |-> authority, report |-> Absent]
        PROVE  /\ row = [step |-> row.step, mode |-> row.mode, authority |-> row.authority,
                         report |-> row.report]
               /\ row.step \in {"rest", "start"}
               /\ row.step # "rest" => row.mode \in Modes /\ row.authority = authority
    BY <2>2
  <2>3. row = Resting \/ \E m \in Modes :
          row = [step |-> "start", mode |-> m, authority |-> authority, report |-> Absent]
    OBVIOUS
  <2> HIDE DEF row
  <2> QED BY <2>1, <2>2, <2>3
<1>3. /\ runners'[r] = row /\ runners' = [q \in Runner |-> runners'[q]]
      /\ \A q \in Runner : q # r => runners'[q] = runners[q]
  BY <1>1 DEF RunnersFit
<1>4. \A q \in Runner : runners'[q].step \in {"wait", "publish", "report", "status"} =>
         q # r /\ runners'[q] = runners[q]
  BY <1>2, <1>3
<1>5. CampaignFiles'
  <2>1. Summaries' = Summaries
    BY <1>1 DEF Summaries
  <2> QED BY <1>1, <2>1 DEF CampaignFiles
<1>6. RunnersFit'
  <2>1. \A q \in Runner : RunnerFits(q)'
    <3>1. RunnerFits(r)'
      BY <1>1, <1>2, <1>3 DEF RunnerFits, RunSteps
    <3>2. \A q \in Runner : q # r => RunnerFits(q)'
      BY <1>1, <1>3 DEF RunnersFit, RunnerFits
    <3> QED BY <3>1, <3>2
  <2>2. \A q \in Runner : HoldsLock(q)' => HoldsLock(q)
    BY <1>2, <1>3 DEF HoldsLock
  <2> QED BY <1>1, <1>3, <2>1, <2>2 DEF RunnersFit
<1>7. MatchersFit'
  <2>1. MatcherRow' = MatcherRow /\ Mine' = Mine
    BY <1>1 DEF MatcherRow, Mine
  <2>2. (\A q \in Runner : runners'[q].step # "wait") => \A q \in Runner : runners[q].step # "wait"
    BY <1>3
  <2> QED BY <1>1, <2>1, <2>2 DEF MatchersFit
<1>8. ASSUME ~survived
      PROVE  (/\ ChunksFit /\ CasesCovered /\ CountedFits /\ ReportsTrue
              /\ \A m \in Modes : InForceFits(m))'
  <2>1. ChunksFit /\ CasesCovered /\ CountedFits /\ ReportsTrue /\ \A m \in Modes : InForceFits(m)
    BY <1>8 DEF MatchFits
  <2>2. ChunksFit'
    BY <1>1, <1>4, <2>1 DEF ChunksFit, Mine, Expected, HeadCase, Heavier
  <2>3. CasesCovered'
    BY <1>1, <1>4, <2>1 DEF CasesCovered, Expected
  <2>4. CountedFits'
    BY <1>1, <1>4, <2>1 DEF CountedFits, Expected, Reusable, Finished
  <2>5. ReportsTrue'
    BY <1>1, <2>1 DEF ReportsTrue, Finished
  <2>6. \A m \in Modes : InForceFits(m)'
    BY <1>1, <1>4, <2>1 DEF InForceFits, InForce, Finished, Expected, Reusable
  <2> QED BY <2>2, <2>3, <2>4, <2>5, <2>6
<1> QED BY <1>1, <1>5, <1>6, <1>7, <1>8 DEF MatchFits

LEMMA AskStays ==
    ASSUME CampaignAssumption, MatchFits, NEW r \in Runner, Schedule(r) \/ Operate(r) \/ EndCampaign(r)
    PROVE  MatchFits'
<1>1. runners = [q \in Runner |-> runners[q]] /\ campaign \in {"scheduled", "running", "complete", "failed"}
  BY DEF MatchFits, CampaignFiles, RunnersFit
<1>2. \A m : Asks(r, m) => /\ runners' = [runners EXCEPT ![r] = runners'[r]]
                           /\ runners'[r] = [step |-> "start", mode |-> m, authority |-> authority,
                                             report |-> Absent]
  BY <1>1 DEF Asks, Resting
<1>3. runners' = [runners EXCEPT ![r] = Resting] =>
        runners'[r] = Resting /\ runners' = [runners EXCEPT ![r] = runners'[r]]
  BY <1>1
<1>4. /\ runners[r].step \in {"rest", "status"}
      /\ (\E m \in Modes : Asks(r, m)) \/ runners' = [runners EXCEPT ![r] = Resting]
      /\ UNCHANGED <<authority, summaries, failures, matchers, evidence, reports, survived, killed>>
      /\ campaign' \in {"scheduled", "running", "complete", "failed"}
  <2>1. CASE Schedule(r)
    BY <1>1, <2>1 DEF Schedule, Modes
  <2>2. CASE Operate(r)
    BY <1>1, <2>2 DEF Operate
  <2>3. CASE EndCampaign(r)
    BY <2>3 DEF EndCampaign, Modes
  <2> QED BY <2>1, <2>2, <2>3
<1>5. runners' = [runners EXCEPT ![r] = runners'[r]]
  BY <1>2, <1>3, <1>4
<1>6. runners'[r] = Resting \/ \E m \in Modes :
        runners'[r] = [step |-> "start", mode |-> m, authority |-> authority, report |-> Absent]
  BY <1>2, <1>3, <1>4
<1> QED BY <1>4, <1>5, <1>6, RunnerRests

LEMMA NextNumbers ==
    ASSUME NEW a \in Nat, NEW n \in Nat
    PROVE  /\ \A x \in {a + i : i \in 1..n} : x \in Nat /\ x > a
           /\ IsFiniteSet({a + i : i \in 1..n}) /\ Cardinality({a + i : i \in 1..n}) <= n
<1> DEFINE new == {a + i : i \in 1..n}
<1>1. new = (a + 1)..(a + n)
  <2>1. \A x \in (a + 1)..(a + n) : x - a \in 1..n /\ x = a + (x - a)
    OBVIOUS
  <2>2. \A x \in new : x \in (a + 1)..(a + n)
    OBVIOUS
  <2> QED BY <2>1, <2>2
<1> HIDE DEF new
<1>2. PICK b, c \in Int : b = a + 1 /\ c = a + n
  OBVIOUS
<1>3. IsFiniteSet(b..c) /\ Cardinality(b..c) = IF b <= c THEN c - b + 1 ELSE 0
  BY FS_Interval
<1>4. Cardinality(b..c) <= n
  BY <1>2, <1>3
<1>5. new = b..c
  BY <1>1, <1>2
<1>6. IsFiniteSet(new) /\ Cardinality(new) <= n
  BY <1>3, <1>4, <1>5
<1>7. \A x \in new : x \in Nat /\ x > a
  BY <1>1
<1> QED BY <1>6, <1>7 DEF new

LEMMA NotAbove ==
    ASSUME NEW S \in SUBSET Nat, NEW m \in Nat, \A x \in S : x <= m, NEW y \in Nat, y > m
    PROVE  y \notin S
OBVIOUS

\* The number from which new workers count, and how many they are.
LEMMA WorkerNumbers ==
    ASSUME CampaignAssumption, MatchersFit, NEW m \in Modes,
           NEW left \in SUBSET Cases, NEW count, count = ChunkCount(left, WorkersOf(m)),
           NEW last, last = Max({0} \cup DOMAIN matchers)
    PROVE  /\ last \in Nat /\ \A w \in DOMAIN matchers : w <= last
           /\ count \in Nat /\ count <= Max({MatchWorkers, CanaryWorkers})
<1>1. last \in Nat /\ \A w \in DOMAIN matchers : w <= last
  <2> DEFINE S == {0} \cup DOMAIN matchers
  <2>1. IsFiniteSet(DOMAIN matchers) /\ DOMAIN matchers \subseteq Nat
    BY DEF MatchersFit
  <2>2. IsFiniteSet(S)
    BY <2>1, FS_Singleton, FS_Union
  <2>3. S \in SUBSET Nat /\ S # {}
    BY <2>1
  <2>4. last = Max(S)
    OBVIOUS
  <2> HIDE DEF S
  <2>5. last \in S /\ \A x \in S : x <= last
    BY <2>2, <2>3, <2>4, FiniteMax
  <2> USE DEF S
  <2> QED BY <2>3, <2>5
<1>2. count \in Nat /\ count <= WorkersOf(m)
  <2>1. WorkersOf(m) \in Nat
    BY WorkersMost DEF WorkersOf
  <2>2. Cardinality(left) \in Nat
    <3>1. IsFiniteSet(left)
      BY FS_Subset DEF CampaignAssumption, CampaignAccepted
    <3> QED BY <3>1, FS_CardinalityType
  <2> QED BY <2>1, <2>2 DEF ChunkCount
<1>3. Max({MatchWorkers, CanaryWorkers}) \in Nat /\ WorkersOf(m) \in Nat
      /\ WorkersOf(m) <= Max({MatchWorkers, CanaryWorkers})
  BY WorkersMost DEF WorkersOf
<1>4. \A x, y, z \in Nat : x <= y /\ y <= z => x <= z
  OBVIOUS
<1>5. count <= Max({MatchWorkers, CanaryWorkers})
  BY <1>2, <1>3, <1>4
<1> QED BY <1>1, <1>2, <1>5

\* The lock is had: nobody waits for workers, and there are none of a run.
LEMMA StartStays ==
    ASSUME CampaignAssumption, MatchFits, NEW r \in Runner, StartCampaign(r)
    PROVE  MatchFits'
<1> DEFINE m == runners[r].mode
           a == runners[r].authority
           left == Pending(m, a)
           count == ChunkCount(left, WorkersOf(m))
           last == Max({0} \cup DOMAIN matchers)
           new == {last + i : i \in 1..count}
<1>1. /\ CampaignFiles /\ RunnersFit /\ MatchersFit
      /\ runners[r].step = "start" /\ m \in Modes /\ a = authority
      /\ UNCHANGED <<authority, summaries, failures, evidence, reports, survived, killed>>
  BY DEF MatchFits, StartCampaign, RunnersFit, RunnerFits
<1>2. CASE ~LockIsFree \/ (left = {} /\ TerminalReport(m, a))
  <2>1. runners' = [runners EXCEPT ![r] = Resting] /\ UNCHANGED <<matchers, campaign>>
    BY <1>2 DEF StartCampaign
  <2>2. runners'[r] = Resting /\ runners' = [runners EXCEPT ![r] = runners'[r]]
    BY <1>1, <2>1 DEF RunnersFit
  <2>3. campaign \in {"scheduled", "running", "complete", "failed"}
    BY <1>1 DEF CampaignFiles
  <2> QED BY <1>1, <2>1, <2>2, <2>3, RunnerRests
<1>3. CASE LockIsFree /\ ~(left = {} /\ TerminalReport(m, a))
  <2>1. PICK to \in BalancedChunks(left, WorkersOf(m)) : SpawnMatchers(m, a, to, count)
    BY <1>3 DEF StartCampaign
  <2>2. RunnerMoves(r, "wait") /\ campaign' = "running"
    BY <1>3 DEF StartCampaign
  <2>3. to \in [left -> 1..count] /\ left \subseteq Cases /\ left \subseteq Expected(m)
    BY <2>1 DEF BalancedChunks, Pending, Expected, CampaignAssumption, CampaignAccepted
  <2>4. \A q \in Runner : runners[q].step \in {"rest", "start"}
    BY <1>3 DEF LockIsFree
  <2>5. Mine = {} /\ (~survived => DOMAIN matchers = {})
    BY <2>4, LockFacts
  <2>6. /\ last \in Nat /\ count \in Nat /\ new \subseteq Nat /\ new \cap DOMAIN matchers = {}
        /\ IsFiniteSet(new) /\ IsFiniteSet(DOMAIN matchers \cup new)
        /\ Cardinality(new) <= Max({MatchWorkers, CanaryWorkers})
    <3>1. left \in SUBSET Cases
      BY <2>3
    <3>2. PICK k0, t0 : k0 = m /\ t0 = left
      OBVIOUS
    <3>3. t0 \in SUBSET Cases /\ k0 \in Modes
      BY <1>1, <3>1, <3>2
    <3>4. count = ChunkCount(t0, WorkersOf(k0))
      BY <3>2
    <3> HIDE DEF m, left, count, last
    <3>5. PICK n0, l0 : n0 = ChunkCount(t0, WorkersOf(k0)) /\ l0 = Max({0} \cup DOMAIN matchers)
      OBVIOUS
    <3>6. PICK w0 : w0 = {l0 + i : i \in 1..n0}
      OBVIOUS
    <3>7. /\ l0 \in Nat /\ \A w \in DOMAIN matchers : w <= l0
          /\ n0 \in Nat /\ n0 <= Max({MatchWorkers, CanaryWorkers})
      <4>1. MatchersFit
        BY <1>1
      <4> QED BY <3>3, <3>5, <4>1, WorkerNumbers
    <3>8. /\ \A x \in w0 : x \in Nat /\ x > l0
          /\ IsFiniteSet(w0) /\ Cardinality(w0) <= n0
      BY <3>6, <3>7, NextNumbers
    <3>9. w0 \subseteq Nat /\ w0 \cap DOMAIN matchers = {}
      <4>1. DOMAIN matchers \in SUBSET Nat
        BY <1>1 DEF MatchersFit
      <4>2. \A x \in w0 : x \notin DOMAIN matchers
        BY <3>7, <3>8, <4>1, NotAbove
      <4> QED BY <3>8, <4>2
    <3>10. IsFiniteSet(DOMAIN matchers \cup w0)
      BY <1>1, <3>8, FS_Union DEF MatchersFit
    <3>11. Cardinality(w0) <= Max({MatchWorkers, CanaryWorkers})
      <4>1. Max({MatchWorkers, CanaryWorkers}) \in Nat /\ Cardinality(w0) \in Nat
        BY <3>8, WorkersMost, FS_CardinalityType
      <4> QED BY <3>7, <3>8, <4>1
    <3>12. last = l0 /\ count = n0
      BY <3>4, <3>5 DEF last
    <3> QED BY <3>6, <3>7, <3>8, <3>9, <3>10, <3>11, <3>12
  <2> DEFINE chunk(w) == {c \in DOMAIN to : to[c] = w - last}
  <2>7. matchers' = [w \in DOMAIN matchers \cup new |->
                        IF w \in new THEN Matcher(m, a, chunk(w)) ELSE matchers[w]]
    BY <2>1 DEF SpawnMatchers
  <2>8. \A w \in new : Matcher(m, a, chunk(w)) \in MatcherRow
    <3>1. authority \in 1..authority
      BY <1>1 DEF CampaignFiles, CampaignAssumption, CampaignAccepted
    <3>2. \A w : chunk(w) \in SUBSET Cases
      BY <2>3
    <3> HIDE DEF m, a, chunk
    <3> QED BY <1>1, <3>1, <3>2 DEF MatcherRow, Matcher, MatcherSteps
  <2> HIDE DEF new, chunk
  <2>9. /\ DOMAIN matchers' = DOMAIN matchers \cup new
        /\ \A w \in new : matchers'[w] = Matcher(m, a, chunk(w))
        /\ \A w \in DOMAIN matchers : matchers'[w] = matchers[w]
    BY <2>6, <2>7
  <2>10. \A w \in new : /\ matchers'[w].mode = m /\ matchers'[w].authority = a
                        /\ matchers'[w].todo = chunk(w) /\ matchers'[w].step = "next"
                        /\ matchers'[w].orphan = FALSE
    BY <2>9 DEF Matcher
  <2>11. Mine' = new
    <3>1. \A w \in DOMAIN matchers : matchers[w].orphan
      BY <2>5 DEF Mine
    <3> QED BY <2>9, <2>10, <3>1 DEF Mine
  <2>12. /\ runners' = [q \in Runner |-> runners'[q]]
         /\ runners'[r] = [step |-> "wait", mode |-> runners[r].mode, authority |-> runners[r].authority,
                           report |-> runners[r].report]
         /\ \A q \in Runner : q # r => runners'[q] = runners[q]
    BY <1>1, <2>2 DEF RunnerMoves, RunnersFit, RunnerFits
  <2>13. \A q \in Runner : runners'[q].step \in {"wait", "publish", "report", "status"} => q = r
    BY <2>4, <2>12
  <2>14. CampaignFiles'
    <3>1. Summaries' = Summaries
      BY <1>1 DEF Summaries
    <3> QED BY <1>1, <2>2, <3>1 DEF CampaignFiles
  <2>15. RunnersFit'
    <3>1. \A q \in Runner : RunnerFits(q)'
      <4>1. RunnerFits(r)'
        BY <1>1, <2>12 DEF RunnerFits, RunSteps
      <4>2. \A q \in Runner : q # r => RunnerFits(q)'
        BY <1>1, <2>12 DEF RunnersFit, RunnerFits
      <4> QED BY <4>1, <4>2
    <3>2. \A q \in Runner : HoldsLock(q)' => q = r
      BY <2>4, <2>12 DEF HoldsLock
    <3> QED BY <2>12, <3>1, <3>2 DEF RunnersFit
  <2>16. MatchersFit'
    <3>1. MatcherRow' = MatcherRow
      BY <1>1 DEF MatcherRow
    <3>2. \A w \in DOMAIN matchers' : matchers'[w] \in MatcherRow
      BY <1>1, <2>8, <2>9 DEF MatchersFit
    <3>3. matchers' \in [DOMAIN matchers' -> MatcherRow]
      <4>1. matchers' = [w \in DOMAIN matchers' |-> matchers'[w]]
        BY <2>7, <2>9
      <4> QED BY <3>2, <4>1
    <3>4. DOMAIN matchers' \subseteq Nat /\ IsFiniteSet(DOMAIN matchers')
      BY <1>1, <2>6, <2>9 DEF MatchersFit
    <3>5. \A w \in DOMAIN matchers' :
            /\ matchers'[w].step = "exit" => matchers'[w].todo = {}
            /\ matchers'[w].step \in {"archive", "match"} => matchers'[w].todo # {}
      BY <1>1, <2>9, <2>10 DEF MatchersFit
    <3>6. runners'[r].step = "wait"
      BY <2>12
    <3> QED BY <2>6, <2>11, <3>1, <3>3, <3>4, <3>5, <3>6 DEF MatchersFit
  <2>17. ASSUME ~survived
         PROVE  (/\ ChunksFit /\ CasesCovered /\ CountedFits /\ ReportsTrue
                 /\ \A k \in Modes : InForceFits(k))'
    <3>1. ChunksFit /\ CasesCovered /\ CountedFits /\ ReportsTrue /\ \A k \in Modes : InForceFits(k)
      BY <2>17 DEF MatchFits
    <3>2. DOMAIN matchers' = new
      BY <2>5, <2>9, <2>17
    <3>3. ChunksFit'
      <4>1. \A v, w \in new : v # w => matchers'[v].todo \cap matchers'[w].todo = {}
        <5>1. \A v, w \in new : v # w => chunk(v) \cap chunk(w) = {}
          <6>1. \A v, w, l \in Nat : v # w => v - l # w - l
            OBVIOUS
          <6>2. \A v, w \in new : v # w => v - last # w - last
            <7>1. new \subseteq Nat /\ last \in Nat
              BY <2>6
            <7> HIDE DEF last
            <7> QED BY <6>1, <7>1
          <6> QED BY <6>2 DEF chunk
        <5> QED BY <2>10, <5>1
      <4>2. \A w \in new : chunk(w) \subseteq Expected(m)
        BY <2>3 DEF chunk
      <4>3. \A q \in Runner : runners'[q].step = "wait" => \A w \in DOMAIN matchers' :
              /\ matchers'[w].authority = authority /\ matchers'[w].mode = runners'[q].mode
              /\ matchers'[w].todo \subseteq Expected(runners'[q].mode)
        BY <1>1, <2>10, <2>12, <2>13, <3>2, <4>2
      <4> QED BY <1>1, <2>10, <2>11, <3>1, <3>2, <4>1, <4>3 DEF ChunksFit, Expected
    <3>4. CasesCovered'
      <4>1. SUFFICES ASSUME NEW c \in Expected(m)
                     PROVE  \/ CountsFor(summaries, c, authority)
                            \/ \E w \in new : c \in chunk(w)
        BY <1>1, <2>10, <2>12, <2>13, <3>2 DEF CasesCovered, Expected, CountsFor
      <4>2. CASE Reusable(c, a)
        BY <1>1, <4>2 DEF Reusable, CountsFor
      <4>3. CASE ~Reusable(c, a)
        <5>1. c \in left
          BY <4>1, <4>3 DEF Pending
        <5>2. to[c] \in 1..count /\ c \in DOMAIN to
          BY <2>3, <5>1
        <5>3. last + to[c] \in new
          BY <5>2 DEF new
        <5>4. to[c] = (last + to[c]) - last
          BY <2>6, <5>2
        <5>5. c \in chunk(last + to[c])
          BY <5>2, <5>4 DEF chunk
        <5> QED BY <5>3, <5>5
      <4> QED BY <4>2, <4>3
    <3>5. CountedFits'
      BY <2>12, <2>13 DEF CountedFits
    <3>6. ReportsTrue'
      BY <1>1, <3>1 DEF ReportsTrue, Finished
    <3>7. \A k \in Modes : InForceFits(k)'
      <4>1. TAKE k \in Modes
      <4>2. SUFFICES ASSUME InForce(k) PROVE InForceFits(k)'
        BY <1>1 DEF InForceFits, InForce, Finished
      <4>3. /\ \A c \in Expected(k) : Reusable(c, authority)
            /\ evidence[k] = reports[k].evidence
        BY <3>1, <4>1, <4>2 DEF InForceFits
      <4>4. k # m
        <5>1. SUFFICES ASSUME k = m PROVE FALSE
          OBVIOUS
        <5>2. left = {} /\ TerminalReport(m, a)
          BY <1>1, <4>2, <4>3, <5>1 DEF Pending, TerminalReport, InForce, SameDigests
        <5> QED BY <1>3, <5>2
      <4>5. \A c \in Expected(k) : \A w \in new : c \notin chunk(w)
        BY <1>1, <2>3, <4>3 DEF chunk, Pending
      <4>6. \A c \in Expected(k) : \A w \in DOMAIN matchers' : c \notin matchers'[w].todo
        BY <2>10, <3>2, <4>5
      <4>7. \A q \in Runner : runners'[q].mode = k => runners'[q].step \notin {"wait", "publish", "report"}
        BY <2>12, <2>13, <4>4
      <4> QED BY <1>1, <4>3, <4>6, <4>7 DEF InForceFits, Expected, Reusable
    <3> QED BY <3>3, <3>4, <3>5, <3>6, <3>7
  <2> QED BY <1>1, <2>14, <2>15, <2>16, <2>17 DEF MatchFits
<1> QED BY <1>2, <1>3

\* The lock is kept: a runner that holds it goes on, and the rest of what
\* the runners are stays.
LEMMA HolderGoesOn ==
    ASSUME MatchFits, NEW r \in Runner, HoldsLock(r), authority' = authority,
           runners' = [runners EXCEPT ![r] = runners'[r]],
           runners'[r] = [step |-> runners'[r].step, mode |-> runners[r].mode,
                          authority |-> runners[r].authority, report |-> runners'[r].report],
           runners'[r].step \in {"wait", "publish", "report", "status"},
           runners'[r].step \in {"publish", "report", "status"} =>
              ReportRow(runners'[r].report) /\ runners'[r].report.authority = authority
    PROVE  /\ RunnersFit'
           /\ runners'[r].mode = runners[r].mode /\ runners[r].mode \in Modes
           /\ \A q \in Runner : q # r => runners'[q] = runners[q] /\ runners[q].step \in {"rest", "start"}
<1>1. RunnersFit /\ runners[r].step # "rest"
  BY DEF MatchFits, HoldsLock
<1>2. runners' = [q \in Runner |-> runners'[q]] /\ \A q \in Runner : q # r => runners'[q] = runners[q]
  BY <1>1 DEF RunnersFit
<1>3. \A q \in Runner : q # r => runners[q].step \in {"rest", "start"}
  BY LockFacts
<1>4. runners'[r].mode = runners[r].mode /\ runners'[r].authority = runners[r].authority
  <2>1. PICK x : x = runners'[r]
    OBVIOUS
  <2>2. x = [step |-> x.step, mode |-> runners[r].mode, authority |-> runners[r].authority,
             report |-> x.report]
    BY <2>1
  <2> QED BY <2>1, <2>2
<1>5. runners[r].mode \in Modes /\ runners[r].authority = authority
  BY <1>1 DEF RunnersFit, RunnerFits
<1>6. \A q \in Runner : RunnerFits(q)'
  <2>1. RunnerFits(r)'
    BY <1>4, <1>5 DEF RunnerFits, RunSteps
  <2>2. \A q \in Runner : q # r => RunnerFits(q)'
    BY <1>1, <1>2 DEF RunnersFit, RunnerFits
  <2> QED BY <2>1, <2>2
<1>7. \A q \in Runner : HoldsLock(q)' => q = r
  BY <1>2, <1>3 DEF HoldsLock
<1>8. RunnersFit'
  BY <1>2, <1>6, <1>7 DEF RunnersFit
<1> QED BY <1>2, <1>3, <1>4, <1>5, <1>8

\* What a finished report of cases counted.
LEMMA CountedIs ==
    ASSUME NEW m \in Modes, NEW a, Finished(AggregateCases(m, a)), AggregateCases(m, a).clean,
           \A c \in Expected(m) : CountsFor(summaries, c, a)
    PROVE  /\ \A c \in Expected(m) : Reusable(c, a)
           /\ AggregateCases(m, a).counted = {summaries[c].authority : c \in Expected(m)}
<1>1. Qualified(m) = Expected(m)
  BY DEF Finished, AggregateCases
<1>2. \A c \in Qualified(m) : ~summaries[c].fallback
  BY DEF AggregateCases
<1>3. \A c \in Expected(m) : summaries[c] # Absent /\ summaries[c].state = "qualified"
  BY <1>1 DEF Qualified
<1>4. \A c \in Expected(m) : Reusable(c, a)
  BY <1>1, <1>2, <1>3 DEF Reusable, CountsFor
<1>5. AggregateCases(m, a).counted = {summaries[c].authority : c \in Qualified(m)}
  BY DEF AggregateCases
<1> QED BY <1>1, <1>4, <1>5

LEMMA AggregateStays ==
    ASSUME CampaignAssumption, MatchFits, NEW r \in Runner, AggregateRun(r)
    PROVE  MatchFits'
<1> DEFINE m == runners[r].mode
           cases == AggregateCases(m, authority)
           alive == \A w \in Mine : matchers[w].step # "dead"
<1>1. /\ CampaignFiles /\ RunnersFit /\ MatchersFit /\ runners[r].step = "wait"
      /\ UNCHANGED <<authority, summaries, failures, evidence, reports, campaign, survived, killed>>
      /\ matchers' = [w \in DOMAIN matchers \ Mine |-> matchers[w]]
      /\ \A w \in Mine : Exited(w)
      /\ m \in Modes /\ runners[r].authority = authority
  BY DEF MatchFits, AggregateRun, RunnersFit, RunnerFits
<1> DEFINE report == [cases EXCEPT !.clean = @ /\ alive]
<1>2. runners' = [runners EXCEPT ![r].step = "publish", ![r].report = report]
  BY <1>1 DEF AggregateRun
<1>3. /\ DOMAIN report = {"authority", "state", "counted", "clean"}
      /\ report.authority = authority /\ report.state = cases.state
      /\ report.counted = cases.counted /\ report.clean = (cases.clean /\ alive)
  BY DEF AggregateCases
<1> HIDE DEF report, cases
<1>4. /\ runners'[r] = [step |-> "publish", mode |-> runners[r].mode,
                        authority |-> runners[r].authority, report |-> report]
      /\ runners' = [runners EXCEPT ![r] = runners'[r]]
  <2>1. /\ runners = [q \in Runner |-> runners[q]]
        /\ runners[r] = [step |-> runners[r].step, mode |-> runners[r].mode,
                         authority |-> runners[r].authority, report |-> runners[r].report]
    BY <1>1 DEF RunnersFit, RunnerFits
  <2> DEFINE row == [step |-> "publish", mode |-> runners[r].mode,
                     authority |-> runners[r].authority, report |-> report]
  <2>2. runners'[r] = [[runners[r] EXCEPT !.step = "publish"] EXCEPT !.report = report]
    BY <1>2, <2>1
  <2>3. runners'[r] = row
    BY <2>1, <2>2
  <2>4. runners' = [q \in Runner |-> IF q = r THEN runners'[r] ELSE runners[q]]
    BY <1>2, <2>1
  <2> QED BY <2>1, <2>3, <2>4
<1>5. runners'[r].step = "publish" /\ runners'[r].report = report /\ HoldsLock(r)
  BY <1>1, <1>4 DEF HoldsLock
<1>6. /\ RunnersFit' /\ runners'[r].mode = m
      /\ \A q \in Runner : q # r => runners'[q] = runners[q] /\ runners[q].step \in {"rest", "start"}
  BY <1>1, <1>3, <1>4, <1>5, HolderGoesOn DEF ReportRow
<1>7. Mine' = {} /\ DOMAIN matchers' = DOMAIN matchers \ Mine
      /\ \A w \in DOMAIN matchers' : matchers'[w] = matchers[w]
  BY <1>1 DEF Mine
<1>8. CampaignFiles'
  <2>1. Summaries' = Summaries
    BY <1>1 DEF Summaries
  <2> QED BY <1>1, <2>1 DEF CampaignFiles
<1>9. MatchersFit'
  <2>1. MatcherRow' = MatcherRow
    BY <1>1 DEF MatcherRow
  <2>2. matchers' \in [DOMAIN matchers' -> MatcherRow]
    BY <1>1, <1>7 DEF MatchersFit
  <2>3. DOMAIN matchers' \subseteq Nat /\ IsFiniteSet(DOMAIN matchers')
    BY <1>1, <1>7, FS_Subset DEF MatchersFit
  <2>4. IsFiniteSet({}) /\ Cardinality({}) <= Max({MatchWorkers, CanaryWorkers})
    BY WorkersMost, FS_EmptySet
  <2>5. \A w \in DOMAIN matchers' :
          /\ matchers'[w].step = "exit" => matchers'[w].todo = {}
          /\ matchers'[w].step \in {"archive", "match"} => matchers'[w].todo # {}
    BY <1>1, <1>7 DEF MatchersFit
  <2> QED BY <1>7, <2>1, <2>2, <2>3, <2>4, <2>5 DEF MatchersFit
<1>10. ASSUME ~survived
       PROVE  (/\ ChunksFit /\ CasesCovered /\ CountedFits /\ ReportsTrue
               /\ \A k \in Modes : InForceFits(k))'
  <2>1. ChunksFit /\ CasesCovered /\ CountedFits /\ ReportsTrue /\ \A k \in Modes : InForceFits(k)
    BY <1>10 DEF MatchFits
  <2>2. Mine = DOMAIN matchers /\ DOMAIN matchers' = {}
    BY <1>7, <2>1 DEF ChunksFit
  <2>3. \A q \in Runner : runners'[q].step # "wait"
    BY <1>5, <1>6
  <2>4. ChunksFit'
    BY <1>1, <1>7, <2>1, <2>2, <2>3 DEF ChunksFit
  <2>5. CasesCovered'
    BY <2>3 DEF CasesCovered
  <2>6. CountedFits'
    <3>1. SUFFICES ASSUME Finished(report), report.clean
                   PROVE  /\ \A c \in Expected(m) : Reusable(c, authority)
                          /\ \A b \in report.counted : SameText(b, authority)
      BY <1>1, <1>5, <1>6 DEF CountedFits, Expected, Reusable, Finished
    <3>2. Finished(cases) /\ cases.clean /\ alive
      BY <1>3, <3>1 DEF Finished
    <3>3. \A w \in DOMAIN matchers : matchers[w].step # "dead" /\ matchers[w].todo = {}
      BY <1>1, <2>2, <3>2 DEF Exited, MatchersFit
    <3>4. \A c \in Expected(m) : CountsFor(summaries, c, authority)
      BY <1>1, <2>1, <3>3 DEF CasesCovered
    <3>5. PICK k, a : k = m /\ a = authority
      OBVIOUS
    <3>6. /\ \A c \in Expected(m) : Reusable(c, authority)
          /\ cases.counted = {summaries[c].authority : c \in Expected(m)}
      <4>1. k \in Modes /\ cases = AggregateCases(k, a) /\ \A c \in Expected(k) : CountsFor(summaries, c, a)
        BY <1>1, <3>4, <3>5 DEF cases
      <4>2. Finished(AggregateCases(k, a)) /\ AggregateCases(k, a).clean
        BY <3>2, <4>1
      <4> HIDE DEF m
      <4> QED BY <3>5, <4>1, <4>2, CountedIs
    <3>7. \A c \in Expected(m) : SameText(summaries[c].authority, authority)
      BY <3>6 DEF Reusable
    <3> QED BY <1>3, <3>6, <3>7
  <2>7. ReportsTrue'
    BY <1>1, <2>1 DEF ReportsTrue, Finished
  <2>8. \A k \in Modes : InForceFits(k)'
    <3>1. TAKE k \in Modes
    <3>2. SUFFICES ASSUME InForce(k) PROVE InForceFits(k)'
      BY <1>1 DEF InForceFits, InForce, Finished
    <3>3. /\ \A c \in Expected(k) : Reusable(c, authority)
          /\ evidence[k] = reports[k].evidence
          /\ k # m
      BY <1>1, <2>1, <3>1, <3>2 DEF InForceFits
    <3>4. \A q \in Runner : runners'[q].mode = k => runners'[q].step \notin {"wait", "publish", "report"}
      BY <1>6, <3>3
    <3> QED BY <1>1, <2>2, <3>3, <3>4 DEF InForceFits, Expected, Reusable
  <2> QED BY <2>4, <2>5, <2>6, <2>7, <2>8
<1> QED BY <1>1, <1>6, <1>8, <1>9, <1>10 DEF MatchFits

\* Nobody waits for workers, and only runners, evidence and reports change.
LEMMA EvidenceStays ==
    ASSUME CampaignAssumption, MatchFits, RunnersFit',
           \A q \in Runner : runners[q].step # "wait" /\ runners'[q].step # "wait",
           UNCHANGED <<authority, summaries, failures, matchers, campaign, survived, killed>>,
           evidence' \in [Modes -> Nat], reports' = [k \in Modes |-> reports'[k]],
           \A k \in Modes : reports'[k] # Absent => reports'[k].authority \in 1..authority,
           ~survived => CountedFits' /\ ReportsTrue' /\ \A k \in Modes : InForceFits(k)'
    PROVE  MatchFits'
<1>1. CampaignFiles /\ MatchersFit
  BY DEF MatchFits
<1>2. CampaignFiles'
  <2>1. Summaries' = Summaries
    BY DEF Summaries
  <2> QED BY <1>1, <2>1 DEF CampaignFiles
<1>3. MatchersFit'
  <2>1. MatcherRow' = MatcherRow /\ Mine' = Mine
    BY DEF MatcherRow, Mine
  <2> QED BY <1>1, <2>1 DEF MatchersFit
<1>4. ASSUME ~survived PROVE ChunksFit' /\ CasesCovered'
  <2>1. ChunksFit
    BY <1>4 DEF MatchFits
  <2>2. Mine' = Mine /\ \A w \in DOMAIN matchers : HeadCase(w)' = HeadCase(w)
    BY DEF Mine, HeadCase
  <2>3. ChunksFit'
    BY <2>1, <2>2 DEF ChunksFit
  <2> QED BY <2>3 DEF CasesCovered
<1> QED BY <1>2, <1>3, <1>4 DEF MatchFits

LEMMA PublishStays ==
    ASSUME CampaignAssumption, MatchFits, NEW r \in Runner, PublishEvidence(r)
    PROVE  MatchFits'
<1> DEFINE next == Max({evidence[m] : m \in Modes}) + 1
<1>1. /\ CampaignFiles /\ RunnersFit /\ runners[r].step = "publish" /\ HoldsLock(r)
      /\ evidence' = [evidence EXCEPT ![runners[r].mode] = next] /\ RunnerMoves(r, "report")
      /\ UNCHANGED <<authority, summaries, failures, matchers, reports, campaign, survived, killed>>
  BY DEF MatchFits, PublishEvidence, HoldsLock
<1>2. /\ runners = [q \in Runner |-> runners[q]]
      /\ runners[r] = [step |-> runners[r].step, mode |-> runners[r].mode,
                       authority |-> runners[r].authority, report |-> runners[r].report]
      /\ runners[r].mode \in Modes
      /\ ReportRow(runners[r].report) /\ runners[r].report.authority = authority
  BY <1>1 DEF RunnersFit, RunnerFits
<1>3. runners' = [runners EXCEPT ![r] = runners'[r]]
      /\ runners'[r] = [step |-> "report", mode |-> runners[r].mode,
                        authority |-> runners[r].authority, report |-> runners[r].report]
  BY <1>1, <1>2 DEF RunnerMoves
<1>4. runners'[r].step = "report" /\ runners'[r].report = runners[r].report
  BY <1>3
<1>5. /\ RunnersFit' /\ runners'[r].mode = runners[r].mode
      /\ \A q \in Runner : q # r => runners'[q] = runners[q] /\ runners[q].step \in {"rest", "start"}
  BY <1>1, <1>2, <1>3, <1>4, HolderGoesOn
<1>6. next \in Nat
  <2> DEFINE S == {evidence[m] : m \in Modes}
  <2>1. /\ S = {evidence["canary"]} \cup {evidence["full"]}
        /\ evidence["canary"] \in Nat /\ evidence["full"] \in Nat
    BY <1>1 DEF CampaignFiles, Modes
  <2>2. IsFiniteSet(S)
    <3>1. IsFiniteSet({evidence["canary"]}) /\ IsFiniteSet({evidence["full"]})
      BY FS_Singleton
    <3>2. IsFiniteSet({evidence["canary"]} \cup {evidence["full"]})
      BY <3>1, FS_Union
    <3> HIDE DEF S
    <3> QED BY <2>1, <3>2
  <2>3. S \in SUBSET Nat /\ S # {}
    BY <2>1
  <2>4. Max(S) \in S
    <3> HIDE DEF S
    <3> QED BY <2>2, <2>3, FiniteMax
  <2>5. Max(S) \in Nat
    BY <2>1, <2>4
  <2> QED BY <2>5
<1> HIDE DEF next
<1>7. evidence' \in [Modes -> Nat] /\ \A k \in Modes : k # runners[r].mode => evidence'[k] = evidence[k]
  BY <1>1, <1>2, <1>6 DEF CampaignFiles
<1>8. \A q \in Runner : runners[q].step # "wait" /\ runners'[q].step # "wait"
  BY <1>1, <1>4, <1>5
<1>9. ASSUME ~survived
      PROVE  CountedFits' /\ ReportsTrue' /\ \A k \in Modes : InForceFits(k)'
  <2>1. CountedFits /\ ReportsTrue /\ \A k \in Modes : InForceFits(k)
    BY <1>9 DEF MatchFits
  <2>2. CountedFits'
    BY <1>1, <1>4, <1>5, <2>1 DEF CountedFits, Expected, Reusable, Finished
  <2>3. ReportsTrue'
    BY <1>1, <2>1 DEF ReportsTrue, Finished
  <2>4. \A k \in Modes : InForceFits(k)'
    <3>1. TAKE k \in Modes
    <3>2. SUFFICES ASSUME InForce(k) PROVE InForceFits(k)'
      BY <1>1 DEF InForceFits, InForce, Finished
    <3>3. /\ \A c \in Expected(k) :
                Reusable(c, authority) /\ \A w \in DOMAIN matchers : c \notin matchers[w].todo
          /\ evidence[k] = reports[k].evidence /\ k # runners[r].mode
      BY <1>1, <2>1, <3>1, <3>2 DEF InForceFits
    <3>4. \A q \in Runner : runners'[q].mode = k => runners'[q].step \notin {"wait", "publish", "report"}
      BY <1>5, <3>3
    <3> QED BY <1>1, <1>7, <3>3, <3>4 DEF InForceFits, Expected, Reusable
  <2> QED BY <2>2, <2>3, <2>4
<1> QED BY <1>1, <1>5, <1>7, <1>8, <1>9, EvidenceStays DEF CampaignFiles

LEMMA ReportStays ==
    ASSUME CampaignAssumption, MatchFits, NEW r \in Runner, WriteReport(r)
    PROVE  MatchFits'
<1> DEFINE m == runners[r].mode
           report == runners[r].report
           written == [f \in DOMAIN report \cup {"evidence"} |->
                          IF f = "evidence" THEN evidence[m] ELSE report[f]]
<1>1. /\ CampaignFiles /\ RunnersFit /\ runners[r].step = "report" /\ HoldsLock(r)
      /\ reports' = [reports EXCEPT ![m] = written] /\ RunnerMoves(r, "status")
      /\ UNCHANGED <<authority, summaries, failures, matchers, evidence, campaign, survived, killed>>
  BY DEF MatchFits, WriteReport, HoldsLock
<1>2. /\ runners = [q \in Runner |-> runners[q]]
      /\ runners[r] = [step |-> runners[r].step, mode |-> runners[r].mode,
                       authority |-> runners[r].authority, report |-> runners[r].report]
      /\ m \in Modes
      /\ ReportRow(report) /\ report.authority = authority
  BY <1>1 DEF RunnersFit, RunnerFits
<1>3. runners' = [runners EXCEPT ![r] = runners'[r]]
      /\ runners'[r] = [step |-> "status", mode |-> runners[r].mode,
                        authority |-> runners[r].authority, report |-> runners[r].report]
  BY <1>1, <1>2 DEF RunnerMoves
<1>4. runners'[r].step = "status" /\ runners'[r].report = runners[r].report
  BY <1>3
<1>5. /\ RunnersFit' /\ runners'[r].mode = runners[r].mode
      /\ \A q \in Runner : q # r => runners'[q] = runners[q] /\ runners[q].step \in {"rest", "start"}
  BY <1>1, <1>2, <1>3, <1>4, HolderGoesOn
<1>6. /\ written.authority = authority /\ written.state = report.state /\ written.clean = report.clean
      /\ written.counted = report.counted /\ written.evidence = evidence[m]
  BY <1>2 DEF ReportRow
<1>7. /\ reports' = [k \in Modes |-> reports'[k]] /\ reports'[m] = written
      /\ \A k \in Modes : k # m => reports'[k] = reports[k]
  BY <1>1, <1>2 DEF CampaignFiles
<1> HIDE DEF written
<1>8. \A q \in Runner : runners[q].step # "wait" /\ runners'[q].step # "wait"
  BY <1>1, <1>4, <1>5
<1>9. \A k \in Modes : reports'[k] # Absent => reports'[k].authority \in 1..authority
  BY <1>1, <1>6, <1>7 DEF CampaignFiles, CampaignAssumption, CampaignAccepted
<1>10. ASSUME ~survived
       PROVE  CountedFits' /\ ReportsTrue' /\ \A k \in Modes : InForceFits(k)'
  <2>1. CountedFits /\ ReportsTrue /\ \A k \in Modes : InForceFits(k)
    BY <1>10 DEF MatchFits
  <2>2. DOMAIN matchers = {}
    BY <1>8, <1>10, LockFacts
  <2>3. CountedFits'
    BY <1>4, <1>5 DEF CountedFits
  <2>4. Finished(report) /\ report.clean =>
          /\ \A c \in Expected(m) : Reusable(c, authority)
          /\ \A b \in report.counted : SameText(b, authority)
    BY <1>1, <2>1 DEF CountedFits
  <2>5. Finished(written) => Finished(report)
    BY <1>6 DEF Finished
  <2>6. ReportsTrue'
    <3>1. SUFFICES ASSUME NEW k \in Modes, reports'[k] # Absent, Finished(reports'[k]), reports'[k].clean
                   PROVE  \A b \in reports'[k].counted : SameText(b, reports'[k].authority)
      BY DEF ReportsTrue, Finished
    <3>2. CASE k = m
      BY <1>6, <1>7, <2>4, <2>5, <3>1, <3>2
    <3>3. CASE k # m
      BY <1>7, <2>1, <3>1, <3>3 DEF ReportsTrue
    <3> QED BY <3>2, <3>3
  <2>7. \A k \in Modes : InForceFits(k)'
    <3>1. TAKE k \in Modes
    <3>2. CASE k = m
      <4>1. SUFFICES ASSUME Finished(written), written.clean PROVE InForceFits(k)'
        BY <1>7, <3>2 DEF InForceFits, InForce, Finished
      <4>2. \A c \in Expected(m) : Reusable(c, authority)
        BY <1>6, <2>4, <2>5, <4>1
      <4>3. \A q \in Runner : runners'[q].step \notin {"wait", "publish", "report"}
        BY <1>4, <1>5
      <4> QED BY <1>1, <1>6, <1>7, <2>2, <3>2, <4>2, <4>3 DEF InForceFits, Expected, Reusable
    <3>3. CASE k # m
      <4>1. SUFFICES ASSUME InForce(k) PROVE InForceFits(k)'
        BY <1>1, <1>7, <3>3 DEF InForceFits, InForce, Finished
      <4>2. /\ \A c \in Expected(k) : Reusable(c, authority)
            /\ evidence[k] = reports[k].evidence
        BY <2>1, <3>1, <4>1 DEF InForceFits
      <4>3. \A q \in Runner : runners'[q].step \notin {"wait", "publish", "report"}
        BY <1>4, <1>5
      <4> QED BY <1>1, <1>7, <2>2, <3>3, <4>2, <4>3 DEF InForceFits, Expected, Reusable
    <3> QED BY <3>2, <3>3
  <2> QED BY <2>3, <2>6, <2>7
<1>11. evidence' \in [Modes -> Nat]
  BY <1>1 DEF CampaignFiles
<1> QED BY <1>1, <1>5, <1>7, <1>8, <1>9, <1>10, <1>11, EvidenceStays

LEMMA StopStays ==
    ASSUME CampaignAssumption, MatchFits, NEW r \in Runner, StopCampaign(r)
    PROVE  MatchFits'
<1> DEFINE rest == {v \in DOMAIN matchers : ~Exited(v)}
<1>1. /\ CampaignFiles /\ RunnersFit /\ MatchersFit /\ HoldsLock(r)
      /\ killed' = killed + 1 /\ runners' = [runners EXCEPT ![r] = Resting]
      /\ survived' = (survived \/ \E w \in Mine : ~Exited(w))
      /\ matchers' = [w \in rest |-> [matchers[w] EXCEPT !.orphan = TRUE]]
      /\ UNCHANGED <<authority, summaries, failures, evidence, reports, campaign>>
  BY DEF MatchFits, StopCampaign, HoldsLock
<1>2. /\ runners' = [q \in Runner |-> runners'[q]] /\ runners'[r] = Resting
      /\ \A q \in Runner : q # r => runners'[q] = runners[q] /\ runners[q].step \in {"rest", "start"}
  BY <1>1, LockFacts DEF RunnersFit
<1>3. \A q \in Runner : runners'[q].step \in {"rest", "start"}
  BY <1>2 DEF Resting
<1>4. CampaignFiles'
  <2>1. Summaries' = Summaries
    BY <1>1 DEF Summaries
  <2> QED BY <1>1, <2>1 DEF CampaignFiles
<1>5. RunnersFit'
  <2>1. RunnerFits(r)'
    BY <1>2 DEF RunnerFits, Resting, RunSteps
  <2>2. \A q \in Runner : q # r => RunnerFits(q)'
    BY <1>1, <1>2 DEF RunnersFit, RunnerFits
  <2>3. \A q \in Runner : ~HoldsLock(q)'
    BY <1>3 DEF HoldsLock
  <2> QED BY <1>2, <2>1, <2>2, <2>3 DEF RunnersFit
<1>6. /\ DOMAIN matchers' = rest /\ rest \subseteq DOMAIN matchers
      /\ \A w \in rest : /\ matchers'[w] \in MatcherRow /\ matchers'[w].orphan
                         /\ matchers'[w].step = matchers[w].step /\ matchers'[w].todo = matchers[w].todo
  <2>1. \A w \in DOMAIN matchers : matchers[w] \in MatcherRow
    BY <1>1 DEF MatchersFit
  <2> QED BY <1>1, <2>1 DEF MatcherRow
<1>7. Mine' = {}
  BY <1>6 DEF Mine
<1>8. MatchersFit'
  <2>1. MatcherRow' = MatcherRow
    BY <1>1 DEF MatcherRow
  <2>2. matchers' \in [DOMAIN matchers' -> MatcherRow]
    BY <1>1, <1>6
  <2>3. DOMAIN matchers' \subseteq Nat /\ IsFiniteSet(DOMAIN matchers')
    BY <1>1, <1>6, FS_Subset DEF MatchersFit
  <2>4. IsFiniteSet({}) /\ Cardinality({}) <= Max({MatchWorkers, CanaryWorkers})
    BY WorkersMost, FS_EmptySet
  <2>5. \A w \in DOMAIN matchers' :
          /\ matchers'[w].step = "exit" => matchers'[w].todo = {}
          /\ matchers'[w].step \in {"archive", "match"} => matchers'[w].todo # {}
    BY <1>1, <1>6 DEF MatchersFit
  <2> QED BY <1>7, <2>1, <2>2, <2>3, <2>4, <2>5 DEF MatchersFit
<1>9. survived' \in BOOLEAN /\ killed' \in Nat
  BY <1>1 DEF CampaignFiles
<1>10. ASSUME ~survived'
       PROVE  (/\ ChunksFit /\ CasesCovered /\ CountedFits /\ ReportsTrue
               /\ \A k \in Modes : InForceFits(k))'
  <2>1. ~survived /\ \A w \in Mine : Exited(w)
    BY <1>1, <1>10
  <2>2. ChunksFit /\ ReportsTrue /\ \A k \in Modes : InForceFits(k)
    BY <2>1 DEF MatchFits
  <2>3. DOMAIN matchers' = {}
    BY <1>6, <2>1, <2>2 DEF ChunksFit
  <2>4. ChunksFit'
    BY <1>1, <1>3, <1>7, <2>2, <2>3 DEF ChunksFit
  <2>5. CasesCovered' /\ CountedFits'
    BY <1>3 DEF CasesCovered, CountedFits
  <2>6. ReportsTrue'
    BY <1>1, <2>2 DEF ReportsTrue, Finished
  <2>7. \A k \in Modes : InForceFits(k)'
    BY <1>1, <1>3, <2>2, <2>3 DEF InForceFits, InForce, Finished, Expected, Reusable
  <2> QED BY <2>4, <2>5, <2>6, <2>7
<1> QED BY <1>4, <1>5, <1>8, <1>9, <1>10 DEF MatchFits

LEMMA AuthorityStays ==
    ASSUME CampaignAssumption, MatchFits, ChangeAuthority
    PROVE  MatchFits'
<1>1. /\ CampaignFiles /\ RunnersFit /\ MatchersFit
      /\ \A r \in Runner : runners[r].step = "rest"
      /\ authority' \in 1..MaxAuthority /\ EditOf[authority'] = authority
      /\ UNCHANGED <<summaries, failures, matchers, runners, evidence, reports, campaign, survived, killed>>
  BY DEF MatchFits, ChangeAuthority
<1>2. /\ authority \in Nat /\ authority' \in 1..MaxAuthority
      /\ 1..authority \subseteq 1..authority' /\ authority' \notin 1..authority
  BY <1>1 DEF CampaignFiles, CampaignAssumption, CampaignAccepted
<1>3. Summaries \subseteq Summaries' /\ MatcherRow \subseteq MatcherRow'
  BY <1>2 DEF Summaries, MatcherRow
<1>4. CampaignFiles'
  <2>1. summaries' \in [Cases -> Summaries' \cup {Absent}]
    BY <1>1, <1>3 DEF CampaignFiles
  <2>2. \A m \in Modes : reports'[m] # Absent => reports'[m].authority \in 1..authority'
    BY <1>1, <1>2 DEF CampaignFiles
  <2> QED BY <1>1, <1>2, <2>1, <2>2 DEF CampaignFiles
<1>5. RunnersFit'
  BY <1>1 DEF RunnersFit, RunnerFits, HoldsLock
<1>6. MatchersFit'
  <2>1. Mine' = Mine
    BY <1>1 DEF Mine
  <2>2. matchers' \in [DOMAIN matchers' -> MatcherRow']
    BY <1>1, <1>3 DEF MatchersFit
  <2> QED BY <1>1, <2>1, <2>2 DEF MatchersFit
<1>7. ASSUME ~survived
      PROVE  (/\ ChunksFit /\ CasesCovered /\ CountedFits /\ ReportsTrue
              /\ \A k \in Modes : InForceFits(k))'
  <2>1. ChunksFit /\ ReportsTrue
    BY <1>7 DEF MatchFits
  <2>2. Mine = {} /\ DOMAIN matchers = {}
    BY <1>1, <1>7, LockFacts
  <2>3. ChunksFit'
    BY <1>1, <2>1, <2>2 DEF ChunksFit, Mine
  <2>4. CasesCovered' /\ CountedFits'
    BY <1>1 DEF CasesCovered, CountedFits
  <2>5. ReportsTrue'
    BY <1>1, <2>1 DEF ReportsTrue, Finished
  <2>6. \A k \in Modes : ~InForce(k)'
    BY <1>1, <1>2 DEF InForce, CampaignFiles
  <2> QED BY <2>3, <2>4, <2>5, <2>6 DEF InForceFits
<1> QED BY <1>1, <1>4, <1>5, <1>6, <1>7 DEF MatchFits

LEMMA MatchInvStep ==
    ASSUME CampaignAssumption, MatchFits, [CampaignNext]_campaignVars
    PROVE  MatchFits'
<1>1. ASSUME NEW r \in Runner,
             \/ Schedule(r) \/ Operate(r) \/ StartCampaign(r) \/ AggregateRun(r)
             \/ PublishEvidence(r) \/ WriteReport(r) \/ EndCampaign(r) \/ StopCampaign(r)
      PROVE  MatchFits'
  BY <1>1, AskStays, StartStays, AggregateStays, PublishStays, ReportStays, StopStays
<1>2. ASSUME NEW w \in DOMAIN matchers,
             LookAtCase(w) \/ ArchiveCase(w) \/ EndMatch(w) \/ ExitMatcher(w) \/ MatcherDies(w)
      PROVE  MatchFits'
  BY <1>2, WorkerStays
<1>3. CASE ChangeAuthority
  BY <1>3, AuthorityStays
<1>4. CASE UNCHANGED campaignVars
  <2>1. UNCHANGED <<authority, summaries, failures, matchers, runners, evidence, reports,
                    campaign, survived, killed>>
    BY <1>4 DEF campaignVars
  <2>2. /\ Mine' = Mine /\ Summaries' = Summaries /\ MatcherRow' = MatcherRow
        /\ \A w : HeadCase(w)' = HeadCase(w)
    BY <2>1 DEF Mine, Summaries, MatcherRow, HeadCase
  <2>3. CampaignFiles' /\ RunnersFit' /\ MatchersFit'
    BY <2>1, <2>2 DEF MatchFits, CampaignFiles, RunnersFit, RunnerFits, HoldsLock, MatchersFit
  <2>4. ASSUME ~survived
        PROVE  (/\ ChunksFit /\ CasesCovered /\ CountedFits /\ ReportsTrue
                /\ \A k \in Modes : InForceFits(k))'
    <3>1. ChunksFit /\ CasesCovered /\ CountedFits /\ ReportsTrue /\ \A k \in Modes : InForceFits(k)
      BY <2>4 DEF MatchFits
    <3>2. ChunksFit'
      BY <2>1, <2>2, <3>1 DEF ChunksFit
    <3>3. CasesCovered' /\ CountedFits' /\ ReportsTrue'
      BY <2>1, <3>1 DEF CasesCovered, CountedFits, ReportsTrue, Expected, Reusable, Finished
    <3>4. \A k \in Modes : InForceFits(k)'
      BY <2>1, <3>1 DEF InForceFits, InForce, Finished, Expected, Reusable
    <3> QED BY <3>2, <3>3, <3>4
  <2> QED BY <2>1, <2>3, <2>4 DEF MatchFits
<1> QED BY <1>1, <1>2, <1>3, <1>4 DEF CampaignNext

\* ReportsSound of function matching: what a finished, clean report counted is
\* of its method and, unless its campaign is the default one, of its campaign,
\* and until the next edit the evidence in place is the one it names
\* (fid_matching_campaign.py).
THEOREM MatchingSound == CampaignSpec => []ReportsSound
<1>1. CampaignInit => MatchFits
  BY CampaignAssumption, MatchStarts
<1>2. MatchFits /\ [CampaignNext]_campaignVars => MatchFits'
  BY CampaignAssumption, MatchInvStep
<1>3. MatchFits => ReportsSound
  BY MatchFacts
<1> QED BY <1>1, <1>2, <1>3, PTL DEF CampaignSpec

\* CampaignTypeOK of function matching, whether or not workers outlived their
\* run: one run at a time has the lock, no more workers than the limits allow are
\* of a run, and a case that failed has no summary (fid_matching_campaign.py).
THEOREM MatchingTyped == CampaignSpec => []CampaignTypeOK
<1>1. CampaignInit => MatchFits
  BY CampaignAssumption, MatchStarts
<1>2. MatchFits /\ [CampaignNext]_campaignVars => MatchFits'
  BY CampaignAssumption, MatchInvStep
<1>3. MatchFits => CampaignTypeOK
  BY MatchFacts
<1> QED BY <1>1, <1>2, <1>3, PTL DEF CampaignSpec

-----------------------------------------------------------------------------
\* The types of the build pipeline (pipeline.py).

\* How far the counters of the pipeline go: a group is at work only if it is
\* one of the plan's.
CountsFit ==
    /\ group \in 0..LastGroup + 1 /\ run \in 0..MaxRuns
    /\ objects \in [Matrix -> 0..MaxRuns] /\ candidates \in [Matrix -> 0..MaxRuns]
    /\ published \in [Matrix -> 0..MaxRuns]
    /\ Len(stagedBuild) <= 1 /\ Len(manifest) <= 1

LEMMA GroupAtWork ==
    ASSUME PipelineAssumption, PipelineInv,
           phase \in {"populate", "validate", "publish", "record"}
    PROVE  group \in 1..LastGroup
<1>1. PICK c \in Matrix : c[2] = group
  <2>1. Available # {}
    BY DEF PipelineInv, LeftFits
  <2> QED BY <2>1 DEF Available, InGroup
<1>2. c[2] \in 1..LastGroup
  BY DEF Matrix, LastGroup, PipelineAssumption
<1> QED BY <1>1, <1>2

LEMMA EmptyAndOne == Len(<<>>) = 0 /\ \A x : Len(<<x>>) = 1
  OBVIOUS

LEMMA CountsStep ==
    ASSUME PipelineAssumption, PipelineInv, CountsFit, [PipelineNext]_pipelineVars
    PROVE  CountsFit'
<1>1. UNCHANGED <<Matrix, NoObjects, LastGroup>>
  <2>1. staged' = staged
    BY DEF PipelineNext, pipelineVars, BeginRun, ClearWork, ClearDatabase, ClearOutput, ClearManifest,
       DownloadSource, ExtractSource, CompileCell, CollectObjects, SealBuild, EnterGroup, Populate,
       ValidateGroup, Publish, RecordComplete, FailGroup, WriteManifest, ReleaseScratch,
       BeginAnalysis, LoadState, PipelineKilled
  <2> QED BY <2>1, SameMatrix DEF LastGroup
<1>2. /\ NoObjects \in [Matrix -> 0..MaxRuns]
      /\ LastGroup \in Nat \ {0} /\ MaxRuns \in Nat \ {0} /\ group \in Nat /\ run \in Nat
      /\ 0 \in 0..MaxRuns /\ 1 \in 0..LastGroup + 1
  <2>1. LastGroup \in Nat \ {0} /\ MaxRuns \in Nat \ {0}
    BY DEF LastGroup, PipelineAssumption
  <2>2. group \in Nat /\ run \in Nat
    BY <2>1 DEF CountsFit
  <2>3. 0 \in 0..MaxRuns /\ 1 \in 0..LastGroup + 1
    BY <2>1
  <2> QED BY <2>1, <2>2, <2>3 DEF NoObjects
<1>3. CASE BeginRun
  <2>1. run' \in 0..MaxRuns
    <3>1. run < MaxRuns /\ run' = run + 1
      BY <1>3 DEF BeginRun
    <3>2. run \in Nat /\ MaxRuns \in Nat
      BY <1>2
    <3> QED BY <3>1, <3>2
  <2>2. UNCHANGED <<group, objects, stagedBuild, candidates, published, manifest>>
    BY <1>3 DEF BeginRun, results
  <2> QED BY <1>1, <2>1, <2>2 DEF CountsFit
<1>4. CASE \/ ClearWork \/ ClearDatabase \/ ClearOutput \/ ClearManifest
           \/ ReleaseScratch \/ BeginAnalysis
  <2>1. /\ UNCHANGED <<group, run, stagedBuild>>
        /\ objects' \in {objects, NoObjects} /\ candidates' \in {candidates, NoObjects}
        /\ manifest' \in {manifest, <<>>}
    BY <1>4 DEF ClearWork, ClearDatabase, ClearOutput, ClearManifest, ReleaseScratch,
       BeginAnalysis, results
  <2>2. \/ published' = published
        \/ \E c \in Matrix : published' = [published EXCEPT ![c] = 0]
    BY <1>4 DEF ClearWork, ClearDatabase, ClearOutput, ClearManifest, ReleaseScratch,
       BeginAnalysis, results
  <2>3. published' \in [Matrix -> 0..MaxRuns]
    BY <2>2, <1>2 DEF CountsFit
  <2>4. Len(manifest') <= 1
    BY <2>1, EmptyAndOne DEF CountsFit
  <2> QED BY <2>1, <2>3, <2>4, <1>1, <1>2 DEF CountsFit
<1>5. CASE \/ DownloadSource \/ ExtractSource \/ ValidateGroup \/ PipelineKilled
           \/ UNCHANGED pipelineVars
  BY <1>5, <1>1, <1>2 DEF DownloadSource, ExtractSource, ValidateGroup, PipelineKilled, results,
     pipelineVars, CountsFit
<1>6. CASE CompileCell \/ CollectObjects
  <2>1. /\ UNCHANGED <<run, candidates, published, stagedBuild, manifest>>
        /\ group' = group \/ group' = 1
    BY <1>6 DEF CompileCell, CollectObjects, Built, results
  <2>2. objects' = objects \/ objects' = [objects EXCEPT ![First(todo)] = run]
    BY <1>6 DEF CompileCell, CollectObjects
  <2>3. objects' \in [Matrix -> 0..MaxRuns]
    BY <2>2 DEF CountsFit
  <2> QED BY <1>1, <1>2, <2>1, <2>3 DEF CountsFit
<1>7. CASE SealBuild \/ WriteManifest
  <2>1. UNCHANGED <<group, run, objects, candidates, published>>
    BY <1>7 DEF SealBuild, WriteManifest
  <2>2. CASE SealBuild
    <3>1. PICK x : stagedBuild' = <<x>> /\ manifest' = manifest
      BY <2>2 DEF SealBuild
    <3> QED BY <3>1, <1>1, <2>1 DEF CountsFit
  <2>3. CASE WriteManifest
    <3>1. PICK x : manifest' = <<x>> /\ stagedBuild' = stagedBuild
      BY <2>3 DEF WriteManifest
    <3> QED BY <3>1, <1>1, <2>1 DEF CountsFit
  <2> QED BY <1>7, <2>2, <2>3
<1>8. CASE EnterGroup
  <2>1. /\ UNCHANGED <<run, objects, stagedBuild, published, manifest>>
        /\ group' = group \/ (group <= LastGroup /\ group' = group + 1)
        /\ candidates' = candidates
              \/ candidates' = [c \in Matrix |-> IF c[2] = group THEN 0 ELSE candidates[c]]
    BY <1>8, <1>2 DEF EnterGroup
  <2>2. candidates' \in [Matrix -> 0..MaxRuns]
    BY <2>1, <1>2 DEF CountsFit
  <2>3. group' \in 0..LastGroup + 1
    BY <2>1, <1>2 DEF CountsFit
  <2> QED BY <1>1, <2>1, <2>2, <2>3 DEF CountsFit
<1>9. CASE Populate \/ Publish
  <2>1. UNCHANGED <<group, run, objects, stagedBuild, manifest>>
    BY <1>9 DEF Populate, Publish
  <2>2. First(todo) \in Matrix
    BY <1>9, NextCell DEF PipelineInv, LeftFits, DirectoryFits, Populate, Publish
  <2> DEFINE c == First(todo)
  <2>3. /\ candidates' = [candidates EXCEPT ![c] = objects[c]] /\ published' = published
        \/ /\ candidates' = [candidates EXCEPT ![c] = 0]
           /\ published' = [published EXCEPT ![c] = candidates[c]]
    BY <1>9 DEF Populate, Publish
  <2> HIDE DEF c
  <2>4. candidates' \in [Matrix -> 0..MaxRuns] /\ published' \in [Matrix -> 0..MaxRuns]
    BY <2>2, <2>3, <1>2 DEF CountsFit, c
  <2> QED BY <1>1, <2>1, <2>4 DEF CountsFit
<1>10. CASE RecordComplete \/ FailGroup
  <2>1. group \in 1..LastGroup
    BY <1>10, GroupAtWork DEF RecordComplete, FailGroup
  <2>2. /\ UNCHANGED <<run, objects, stagedBuild, manifest>>
        /\ group' = group \/ group' = group + 1
    BY <1>10 DEF RecordComplete, FailGroup, results
  <2>3. candidates' \in [Matrix -> 0..MaxRuns] /\ published' \in [Matrix -> 0..MaxRuns]
    <3>1. \/ candidates' = candidates /\ published' = published
          \/ /\ candidates' = [c \in Matrix |-> IF c[2] = group THEN 0 ELSE candidates[c]]
             /\ published' = [c \in Matrix |-> IF c[2] = group THEN 0 ELSE published[c]]
      BY <1>10 DEF RecordComplete, FailGroup, results
    <3>2. \A f \in [Matrix -> 0..MaxRuns] :
             [c \in Matrix |-> IF c[2] = group THEN 0 ELSE f[c]] \in [Matrix -> 0..MaxRuns]
      BY <1>2
    <3>3. candidates \in [Matrix -> 0..MaxRuns] /\ published \in [Matrix -> 0..MaxRuns]
      BY DEF CountsFit
    <3> QED BY <3>1, <3>2, <3>3
  <2>4. group' \in 0..LastGroup + 1
    BY <2>1, <2>2, <1>2
  <2> QED BY <1>1, <2>2, <2>3, <2>4 DEF CountsFit
<1>11. CASE LoadState
  <2>1. UNCHANGED <<run, objects, stagedBuild, candidates, published, manifest>>
    BY <1>11 DEF LoadState, results
  <2>2. group' = group \/ group' = 1
    BY <1>11 DEF LoadState
  <2> QED BY <1>1, <1>2, <2>1, <2>2 DEF CountsFit
<1> QED BY <1>3, <1>4, <1>5, <1>6, <1>7, <1>8, <1>9, <1>10, <1>11 DEF PipelineNext

\* PipelineTypeOK: the counts of the pipeline stay within the plan and its runs.
LEMMA PipelineCounts ==
    ASSUME PipelineInv, CountsFit
    PROVE  PipelineTypeOK
  BY DEF PipelineInv, DirectoryFits, CountsFit, PipelineTypeOK

LEMMA CountsStart ==
    ASSUME PipelineAssumption, PipelineInit
    PROVE  CountsFit
<1>1. LastGroup \in Nat \ {0} /\ NoObjects \in [Matrix -> 0..MaxRuns] /\ MaxRuns \in Nat
  BY DEF LastGroup, PipelineAssumption, NoObjects
<1> QED BY <1>1 DEF PipelineInit, CountsFit

\* PipelineTypeOK of the build pipeline: a group, a run and the objects, candidates
\* and databases of its cells are within the plan and the runs begun, and a build
\* is staged and a manifest written once at most (pipeline.py).
THEOREM PipelineTyped == PipelineSpec => []PipelineTypeOK
<1>1. PipelineInit => PipelineInv /\ CountsFit
  BY PipelineAssumption, PipelineStarts, CountsStart
<1>2. PipelineInv /\ CountsFit /\ [PipelineNext]_pipelineVars => PipelineInv' /\ CountsFit'
  BY PipelineAssumption, PipelineStays, CountsStep
<1>3. PipelineInv /\ CountsFit => PipelineTypeOK
  BY PipelineCounts
<1> QED BY <1>1, <1>2, <1>3, PTL DEF PipelineSpec

-----------------------------------------------------------------------------
\* The types of the cells (cell_runner.py).

\* Attempts are numbered as they begin: no number is used twice, and the JVM of
\* a process works in the directory of one of them.
NumbersFit ==
    /\ executions \in Nat /\ jvmOf \in [CellProcess -> 0..executions]
    /\ \A p \in CellProcess : doing[p] # <<>> =>
          /\ doing[p][1].number \in 1..executions
          /\ \A q \in CellProcess : q # p /\ doing[q] # <<>> =>
                doing[q][1].number # doing[p][1].number
          /\ \A s \in sealedCells : s.number # doing[p][1].number
    /\ \A s \in sealedCells : s.number \in 1..executions
    /\ \A s, t \in sealedCells : s.number = t.number => s = t

\* An attempt goes on, or ends, under its number.
LEMMA NumbersKept ==
    ASSUME CellInv, NumbersFit, UNCHANGED <<executions, sealedCells>>,
           jvmOf' \in [CellProcess -> 0..executions],
           \A q \in CellProcess : doing'[q] # <<>> =>
              doing[q] # <<>> /\ doing'[q][1].number = doing[q][1].number
    PROVE  NumbersFit'
  BY DEF NumbersFit

LEMMA NumbersStay ==
    ASSUME CellInv, NumbersFit, [CellNext]_cellVars
    PROVE  NumbersFit'
<1>1. DOMAIN doing = CellProcess /\ jvmOf \in [CellProcess -> 0..executions]
  BY DEF CellInv, NumbersFit
<1>2. CASE Review \/ ResolveAgain \/ UNCHANGED cellVars
  <2>1. UNCHANGED <<doing, jvmOf, executions, sealedCells>>
    BY <1>2 DEF Review, ResolveAgain, cellVars
  <2> QED BY <2>1, <1>1, NumbersKept
<1>3. ASSUME NEW p \in CellProcess, EndCellProcess(p) \/ FailCell(p)
      PROVE  NumbersFit'
  <2>1. /\ UNCHANGED <<executions, sealedCells>> /\ doing' = [doing EXCEPT ![p] = <<>>]
        /\ jvmOf' = jvmOf \/ jvmOf' = [jvmOf EXCEPT ![p] = 0]
    BY <1>3 DEF EndCellProcess, FailCell, LeaveCell
  <2>2. jvmOf' \in [CellProcess -> 0..executions]
    BY <1>1, <2>1 DEF NumbersFit
  <2>3. \A q \in CellProcess : doing'[q] # <<>> => doing'[q] = doing[q]
    BY <1>1, <2>1
  <2> QED BY <2>1, <2>2, <2>3, NumbersKept
<1>4. ASSUME NEW p \in CellProcess, NEW c \in QueuedCell, BeginCell(p, c)
      PROVE  NumbersFit'
  <2> DEFINE d == [cell |-> c, number |-> executions', at |-> "resolve", pins |-> cellAt[c],
                   built |-> 0, surprised |-> FALSE]
  <2>1. /\ UNCHANGED <<jvmOf, sealedCells>> /\ executions' = executions + 1
        /\ doing' = [doing EXCEPT ![p] = <<d>>]
    BY <1>4 DEF BeginCell, Becomes
  <2>2. d.number = executions + 1
    BY <2>1
  <2> HIDE DEF d
  <2>3. \A q \in CellProcess : doing'[q] = IF q = p THEN <<d>> ELSE doing[q]
    BY <1>1, <2>1
  <2>4. executions \in Nat /\ executions' \in Nat /\ \A n \in 0..executions : n \in 0..executions'
    BY <2>1 DEF NumbersFit
  <2>5. \A n \in 1..executions : n \in 1..executions' /\ n # d.number
    BY <2>1, <2>2, <2>4
  <2>6. d.number \in 1..executions'
    BY <2>1, <2>2, <2>4
  <2>7. jvmOf' \in [CellProcess -> 0..executions']
    BY <2>1, <2>4 DEF NumbersFit
  <2>8. <<d>>[1] = d /\ <<d>> # <<>>
    OBVIOUS
  <2> QED BY <2>1, <2>3, <2>4, <2>5, <2>6, <2>7, <2>8 DEF NumbersFit
<1>5. ASSUME NEW p \in CellProcess,
             \/ ResolveCell(p) \/ RunNative(p) \/ PrepareArchive(p) \/ PrepareSource(p)
             \/ ExtractRuntime(p) \/ BuildMalware(p) \/ SelectObjects(p) \/ PopulateCell(p)
             \/ ExportRaw(p)
      PROVE  NumbersFit'
  <2>1. PICK d : doing[p] = <<d>> /\ AttemptTrue(d)
    BY <1>5 DEF CellInv, ResolveCell, RunNative, PrepareArchive, PrepareSource, ExtractRuntime,
       BuildMalware, SelectObjects, PopulateCell, ExportRaw, Attempting, Prepares
  <2>2. doing[p][1] = d /\ doing[p] # <<>>
    BY <2>1
  <2>3. UNCHANGED <<executions, sealedCells>>
    BY <1>5 DEF ResolveCell, RunNative, PrepareArchive, PrepareSource, ExtractRuntime,
       BuildMalware, SelectObjects, PopulateCell, ExportRaw, Prepares
  <2>4. jvmOf' = jvmOf \/ jvmOf' = [jvmOf EXCEPT ![p] = IF @ = 0 THEN d.number ELSE @]
    BY <1>5, <2>2 DEF ResolveCell, RunNative, PrepareArchive, PrepareSource, ExtractRuntime,
       BuildMalware, SelectObjects, PopulateCell, ExportRaw, Prepares, StartsJvm
  <2>5. d.number \in 0..executions
    BY <2>2 DEF NumbersFit
  <2>6. jvmOf' \in [CellProcess -> 0..executions]
    BY <1>1, <2>4, <2>5
  <2>7. \/ doing' = [doing EXCEPT ![p] = <<>>]
        \/ \E e : doing' = [doing EXCEPT ![p] = <<e>>] /\ e.number = d.number
    <3>1. CASE RunNative(p) \/ ExtractRuntime(p) \/ BuildMalware(p) \/ SelectObjects(p)
               \/ PopulateCell(p) \/ ExportRaw(p)
      <4>1. \A at : [d EXCEPT !.at = at].number = d.number
        BY <2>1 DEF AttemptTrue
      <4>2. LeaveCell(p) \/ \E at : Becomes(p, [d EXCEPT !.at = at])
        BY <3>1, <2>2 DEF RunNative, ExtractRuntime, BuildMalware, SelectObjects,
           PopulateCell, ExportRaw, Continue
      <4>3. ASSUME NEW at, Becomes(p, [d EXCEPT !.at = at])
            PROVE  \E e : doing' = [doing EXCEPT ![p] = <<e>>] /\ e.number = d.number
        <5>1. PICK e : e = [d EXCEPT !.at = at]
          OBVIOUS
        <5>2. e.number = d.number /\ Becomes(p, e)
          BY <5>1, <4>1, <4>3
        <5> QED BY <5>2 DEF Becomes
      <4> QED BY <4>2, <4>3 DEF LeaveCell
    <3>2. CASE PrepareArchive(p) \/ PrepareSource(p)
      <4>1. \A b, s : [d EXCEPT !.at = "select", !.built = b, !.surprised = s].number = d.number
        BY <2>1 DEF AttemptTrue
      <4>2. PICK e : e = [d EXCEPT !.at = "select", !.built = reviewed,
                                   !.surprised = reviewed # d.built]
        OBVIOUS
      <4>3. Becomes(p, e) /\ e.number = d.number
        BY <3>2, <2>2, <4>1, <4>2 DEF PrepareArchive, PrepareSource, Prepares
      <4> QED BY <4>3 DEF Becomes
    <3>3. CASE ResolveCell(p)
      <4>1. \A b : [d EXCEPT !.at = "prepare", !.built = b].number = d.number
        BY <2>1 DEF AttemptTrue
      <4>2. Compare(p)
        BY <3>3 DEF ResolveCell, ResolveNative, ResolveRuntime, ResolveSource, ResolveArchive
      <4>3. PICK e : e = [d EXCEPT !.at = "prepare", !.built = Seen(p, KindAt(p))]
        OBVIOUS
      <4>4. e.number = d.number /\ (Becomes(p, e) \/ LeaveCell(p))
        BY <4>1, <4>2, <4>3, <2>2 DEF Compare
      <4> QED BY <4>4 DEF Becomes, LeaveCell
    <3> QED BY <1>5, <3>1, <3>2, <3>3
  <2>8. \A q \in CellProcess : doing'[q] # <<>> =>
           doing[q] # <<>> /\ doing'[q][1].number = doing[q][1].number
    BY <1>1, <2>2, <2>7
  <2> QED BY <2>3, <2>6, <2>8, NumbersKept
<1>6. ASSUME NEW p \in CellProcess, SealCell(p)
      PROVE  NumbersFit'
  <2>1. PICK d : doing[p] = <<d>> /\ AttemptTrue(d)
    BY <1>6 DEF CellInv, SealCell, Attempting
  <2>2. doing[p][1] = d /\ doing[p] # <<>>
    BY <2>1
  <2> DEFINE s == [d EXCEPT !.at = "sealed"]
  <2>3. /\ UNCHANGED <<executions, jvmOf>> /\ sealedCells' = sealedCells \union {s}
        /\ doing' = [doing EXCEPT ![p] = <<>>]
    BY <1>6, <2>2 DEF SealCell, LeaveCell
  <2>4. s.number = d.number
    BY <2>1 DEF AttemptTrue
  <2> HIDE DEF s
  <2>5. \A q \in CellProcess : doing'[q] = IF q = p THEN <<>> ELSE doing[q]
    BY <1>1, <2>3
  <2> QED BY <2>2, <2>3, <2>4, <2>5 DEF NumbersFit
<1> QED BY <1>2, <1>3, <1>4, <1>5, <1>6 DEF CellNext

\* CellTypeOK: as many cells are sealed as attempts were begun, at most.
LEMMA CellsNumbered ==
    ASSUME CellInv, NumbersFit
    PROVE  CellTypeOK
<1>1. ASSUME NEW p \in CellProcess PROVE Len(doing[p]) <= 1
  <2>1. PICK d : doing[p] = <<>> \/ doing[p] = <<d>>
    BY DEF CellInv
  <2>2. CASE doing[p] = <<>>
    BY <2>2
  <2>3. CASE doing[p] = <<d>>
    BY <2>3
  <2> QED BY <2>1, <2>2, <2>3
<1>2. Cardinality(sealedCells) <= executions
  <2> DEFINE f == [s \in sealedCells |-> s.number]
  <2>1. IsFiniteSet(1..executions) /\ Cardinality(1..executions) = executions
    BY FS_Interval DEF NumbersFit
  <2>2. f \in Injection(sealedCells, 1..executions)
    BY DEF NumbersFit, Injection, IsInjective
  <2>3. Cardinality(sealedCells) <= Cardinality(1..executions)
    BY <2>1, <2>2, FS_Injection
  <2> QED BY <2>1, <2>3
<1> QED BY <1>1, <1>2 DEF CellTypeOK, NumbersFit

LEMMA NumbersStart ==
    ASSUME CellInit
    PROVE  NumbersFit
  BY DEF CellInit, NumbersFit

\* CellTypeOK of the execution of cells: no more cells are sealed than attempts
\* were begun, and a process is at one at most (cell_runner.py, run_cell).
THEOREM CellsTyped == CellSpec => []CellTypeOK
<1>1. CellInit => CellInv /\ NumbersFit
  BY NumbersStart DEF CellInit, CellInv, SealsTrue
<1>2. CellInv /\ NumbersFit /\ [CellNext]_cellVars => CellInv' /\ NumbersFit'
  BY CellStays, NumbersStay
<1>3. CellInv /\ NumbersFit => CellTypeOK
  BY CellsNumbered
<1> QED BY <1>1, <1>2, <1>3, PTL DEF CellSpec

-----------------------------------------------------------------------------
\* The types of the recipe qualification (recipe_qualification.py).

\* A run that is not on has nothing under way; what a directory holds is of a
\* revision of the inputs, or nothing.
DirectoriesFit ==
    /\ inputs \in Revision /\ editedAway \subseteq Revision
    /\ scratch \in [RecipeCell -> [there : BOOLEAN, state : Result]]
    /\ \A c \in RecipeCell : ~scratch[c].there => scratch[c] = NoDirectory
    /\ DOMAIN recipeRuns = RecipeRunner /\ DOMAIN builders = RecipeRunner
    /\ \A r \in RecipeRunner :
          /\ DOMAIN recipeRuns[r] = {"on", "report"} /\ DOMAIN builders[r] = RecipeCell
          /\ \A c \in RecipeCell :
                /\ builders[r][c].of \in 0..MaxInputs
                /\ ~recipeRuns[r].on => builders[r][c] = NoBuild

\* The directories and results the steps of a builder leave.
LEMMA DirectoriesThere ==
    ASSUME RecipeAssumption
    PROVE  /\ NoDirectory \in [there : BOOLEAN, state : Result]
           /\ EmptyDirectory \in [there : BOOLEAN, state : Result]
           /\ EmptyDirectory.there /\ ~NoDirectory.there
           /\ NoBuild.step = "idle" /\ NoBuild.of \in 0..MaxInputs
           /\ \A n : [NoBuild EXCEPT !.step = n].of \in 0..MaxInputs
           /\ \A s \in {"built", "failed"}, n \in 0..MaxInputs :
                 [there |-> TRUE, state |-> [status |-> s, of |-> n]]
                    \in [there : BOOLEAN, state : Result]
<1>1. 0 \in 0..MaxInputs
  BY DEF RecipeAssumption
<1> QED BY <1>1 DEF NoDirectory, EmptyDirectory, NoBuild, NoResult, Result

LEMMA DirectoriesStart ==
    ASSUME RecipeAssumption, RecipeInit
    PROVE  DirectoriesFit
<1>1. /\ DOMAIN recipeRuns = RecipeRunner /\ DOMAIN builders = RecipeRunner
      /\ \A r \in RecipeRunner : recipeRuns[r] = NotOn /\ DOMAIN builders[r] = RecipeCell
      /\ \A r \in RecipeRunner, c \in RecipeCell : builders[r][c] = NoBuild
      /\ scratch = [c \in RecipeCell |-> NoDirectory] /\ inputs \in Revision
      /\ editedAway = {}
  BY DEF RecipeInit, Revision, RecipeAssumption
<1>2. DOMAIN NotOn = {"on", "report"}
  BY DEF NotOn
<1> QED BY <1>1, <1>2, DirectoriesThere DEF DirectoriesFit

\* A step of the builder of cell c in run r, which is on.
LEMMA BuilderKeepsDirectories ==
    ASSUME RecipeAssumption, DirectoriesFit, NEW r \in RecipeRunner, NEW c \in RecipeCell,
           NEW b, b.of \in 0..MaxInputs, builders[r][c].step # "idle",
           builders' = [builders EXCEPT ![r][c] = b], inputs' = inputs, editedAway' = editedAway,
           \/ UNCHANGED recipeRuns
           \/ \E report : recipeRuns' = [recipeRuns EXCEPT ![r].report = report],
           \/ UNCHANGED scratch
           \/ \E x \in [there : BOOLEAN, state : Result] :
                 scratch' = [scratch EXCEPT ![c] = x] /\ (~x.there => x = NoDirectory)
    PROVE  DirectoriesFit'
<1>1. PICK old, new : old = builders /\ new = builders'
  OBVIOUS
<1>2. DOMAIN old = RecipeRunner /\ \A q \in RecipeRunner : DOMAIN old[q] = RecipeCell
  BY <1>1 DEF DirectoriesFit
<1>3. new = [old EXCEPT ![r][c] = b]
  BY <1>1
<1>4. /\ DOMAIN new = RecipeRunner /\ \A q \in RecipeRunner : DOMAIN new[q] = RecipeCell
      /\ \A q \in RecipeRunner, d \in RecipeCell :
            new[q][d] = IF q = r /\ d = c THEN b ELSE old[q][d]
  BY <1>2, <1>3, EntryReplaced
<1>5. recipeRuns[r].on
  BY DirectoriesThere DEF DirectoriesFit
<1>6. /\ DOMAIN recipeRuns' = RecipeRunner
      /\ \A q \in RecipeRunner :
            DOMAIN recipeRuns'[q] = {"on", "report"} /\ recipeRuns'[q].on = recipeRuns[q].on
  BY DEF DirectoriesFit
<1>7. /\ scratch' \in [RecipeCell -> [there : BOOLEAN, state : Result]]
      /\ \A d \in RecipeCell : ~scratch'[d].there => scratch'[d] = NoDirectory
  BY DEF DirectoriesFit
<1> QED BY <1>1, <1>4, <1>5, <1>6, <1>7 DEF DirectoriesFit

LEMMA DirectoriesStay ==
    ASSUME RecipeAssumption, DirectoriesFit, [RecipeNext]_recipeVars
    PROVE  DirectoriesFit'
<1>1. CASE UNCHANGED recipeVars
  BY <1>1 DEF recipeVars, recipeInputs, recipeFiles, DirectoriesFit
<1>2. CASE ReviewInputs
  <2>1. inputs' \in Revision /\ editedAway' \subseteq Revision
    BY <1>2 DEF ReviewInputs, DirectoriesFit
  <2> QED BY <1>2, <2>1 DEF ReviewInputs, recipeFiles, DirectoriesFit
<1>3. ASSUME NEW r \in RecipeRunner, StartRecipes(r)
      PROVE  DirectoriesFit'
  <2>1. PICK report : recipeRuns' = [recipeRuns EXCEPT ![r] = [on |-> TRUE, report |-> report]]
    BY <1>3 DEF StartRecipes
  <2>2. UNCHANGED <<inputs, editedAway, scratch>>
    BY <1>3 DEF StartRecipes, recipeFiles, recipeInputs
  <2>3. PICK row : /\ builders' = [builders EXCEPT ![r] = row] /\ DOMAIN row = RecipeCell
                   /\ \A c \in RecipeCell : row[c].of \in 0..MaxInputs
    <3> DEFINE row == [c \in RecipeCell |->
            IF recipeRuns'[r].report.rows[c].status = "built" THEN NoBuild
            ELSE [NoBuild EXCEPT !.step = "waits"]]
    <3>1. builders' = [builders EXCEPT ![r] = row]
      BY <1>3 DEF StartRecipes
    <3>2. \A c \in RecipeCell : row[c].of \in 0..MaxInputs
      BY DirectoriesThere
    <3> QED BY <3>1, <3>2
  <2>4. recipeRuns'[r].on /\ DOMAIN recipeRuns'[r] = {"on", "report"}
    BY <2>1 DEF DirectoriesFit
  <2> QED BY <2>1, <2>2, <2>3, <2>4 DEF DirectoriesFit
<1>4. ASSUME NEW r \in RecipeRunner, EndRecipes(r) \/ KillRecipes(r)
      PROVE  DirectoriesFit'
  <2>1. UNCHANGED <<inputs, editedAway, scratch>> /\ recipeRuns' = [recipeRuns EXCEPT ![r] = NotOn]
    BY <1>4 DEF EndRecipes, KillRecipes, recipeFiles, recipeInputs
  <2>2. /\ DOMAIN builders' = RecipeRunner
        /\ \A q \in RecipeRunner : DOMAIN builders'[q] = RecipeCell
        /\ \A q \in RecipeRunner, c \in RecipeCell :
              builders'[q][c] = IF q = r THEN NoBuild ELSE builders[q][c]
    BY <1>4 DEF EndRecipes, KillRecipes, DirectoriesFit
  <2>3. DOMAIN NotOn = {"on", "report"}
    BY DEF NotOn
  <2> QED BY <2>1, <2>2, <2>3, DirectoriesThere DEF DirectoriesFit
<1>5. ASSUME NEW r \in RecipeRunner, NEW c \in RecipeCell,
             BeginRecipe(r, c) \/ BuildCell(r, c) \/ RaiseCell(r, c) \/ ReadState(r, c)
             \/ RecordCell(r, c)
      PROVE  DirectoriesFit'
  <2>1. builders[r][c].step # "idle"
    BY <1>5 DEF BeginRecipe, BuildCell, RaiseCell, ReadState, RecordCell, Builds
  <2>2. builders[r][c].of \in 0..MaxInputs /\ inputs \in 0..MaxInputs
    BY DEF DirectoriesFit, Revision, RecipeAssumption
  <2>3. PICK b : b.of \in 0..MaxInputs /\ builders' = [builders EXCEPT ![r][c] = b]
    <3>1. CASE BeginRecipe(r, c)
      <4>1. [NoBuild EXCEPT !.step = "builds", !.of = inputs].of = inputs
        BY DEF NoBuild
      <4> QED BY <3>1, <4>1, <2>2 DEF BeginRecipe
    <3>2. CASE RecordCell(r, c)
      BY <3>2, DirectoriesThere DEF RecordCell
    <3>3. ASSUME NEW step, NEW row, BuilderMoves(r, c, step, row)
          PROVE  \E e : e.of \in 0..MaxInputs /\ builders' = [builders EXCEPT ![r][c] = e]
      <4>1. [step |-> step, of |-> builders[r][c].of, row |-> row].of \in 0..MaxInputs
        BY <2>2
      <4> QED BY <3>3, <4>1 DEF BuilderMoves
    <3> QED BY <1>5, <3>1, <3>2, <3>3 DEF BuildCell, RaiseCell, ReadState
  <2>4. \/ UNCHANGED recipeRuns
        \/ \E report : recipeRuns' = [recipeRuns EXCEPT ![r].report = report]
    BY <1>5 DEF BeginRecipe, BuildCell, RaiseCell, ReadState, RecordCell
  <2>5. \/ UNCHANGED scratch
        \/ \E x \in [there : BOOLEAN, state : Result] :
              scratch' = [scratch EXCEPT ![c] = x] /\ (~x.there => x = NoDirectory)
    <3>1. CASE BeginRecipe(r, c)
      BY <3>1, DirectoriesThere DEF BeginRecipe
    <3>2. CASE BuildCell(r, c)
      <4>1. PICK s \in {"built", "failed"} :
               scratch' = [scratch EXCEPT ![c] =
                  IF scratch[c].there
                  THEN [there |-> TRUE, state |-> [status |-> s, of |-> builders[r][c].of]]
                  ELSE scratch[c]]
        BY <3>2 DEF BuildCell
      <4>2. CASE scratch[c].there
        <5>1. PICK x : x = [there |-> TRUE, state |-> [status |-> s, of |-> builders[r][c].of]]
          OBVIOUS
        <5>2. x \in [there : BOOLEAN, state : Result] /\ x.there
          BY <5>1, <2>2, DirectoriesThere
        <5> QED BY <4>1, <4>2, <5>1, <5>2
      <4>3. CASE ~scratch[c].there
        BY <4>1, <4>3 DEF DirectoriesFit
      <4> QED BY <4>2, <4>3
    <3>3. CASE RaiseCell(r, c) \/ RecordCell(r, c)
      BY <3>3 DEF RaiseCell, RecordCell, recipeFiles
    <3>4. CASE ReadState(r, c)
      BY <3>4, DirectoriesThere DEF ReadState
    <3> QED BY <1>5, <3>1, <3>2, <3>3, <3>4
  <2>6. inputs' = inputs /\ editedAway' = editedAway
    BY <1>5 DEF recipeInputs, BeginRecipe, BuildCell, RaiseCell, ReadState, RecordCell
  <2> QED BY <2>1, <2>3, <2>4, <2>5, <2>6, BuilderKeepsDirectories
<1> QED BY <1>1, <1>2, <1>3, <1>4, <1>5 DEF RecipeNext

LEMMA DirectoriesTyped ==
    ASSUME DirectoriesFit
    PROVE  RecipeTypeOK
  BY DEF DirectoriesFit, RecipeTypeOK

\* RecipeTypeOK of the recipe qualification: a directory that is not there holds
\* no result, and only a run that is on has builders at work
\* (recipe_qualification.py).
THEOREM RecipesTyped == RecipeSpec => []RecipeTypeOK
<1>1. RecipeInit => DirectoriesFit
  BY RecipeAssumption, DirectoriesStart
<1>2. DirectoriesFit /\ [RecipeNext]_recipeVars => DirectoriesFit'
  BY RecipeAssumption, DirectoriesStay
<1>3. DirectoriesFit => RecipeTypeOK
  BY DirectoriesTyped
<1> QED BY <1>1, <1>2, <1>3, PTL DEF RecipeSpec

-----------------------------------------------------------------------------
\* The campaigns together.
\* A step of the campaigns is a step of one of them, and none of the others.
LEMMA CampaignsStep ==
    ASSUME CampaignsNext \/ UNCHANGED <<part, vars, validationVars, retrofitVars, campaignVars,
                             pipelineVars, cellVars, linkVars, recipeVars, hashVars>>
    PROVE  /\ [RetrofitNext]_retrofitVars /\ [PipelineNext]_pipelineVars
           /\ [CellNext]_cellVars /\ [LinkNext]_linkVars /\ [RecipeNext]_recipeVars
           /\ [CampaignNext]_campaignVars /\ [ValidationNext]_validationVars
           /\ [HashNext]_hashVars
<1>1. CASE UNCHANGED <<part, vars, validationVars, retrofitVars, campaignVars,
                       pipelineVars, cellVars, linkVars, recipeVars, hashVars>>
  BY <1>1
<1>2. CASE \/ Only("service")
           \/ Only("validation") /\ ValidationNext
           \/ Only("hashes") /\ HashNext
  BY <1>2 DEF Only
<1>3. CASE Only("retrofit") /\ RetrofitNext
  BY <1>3 DEF Only
<1>4. CASE Only("pipeline") /\ PipelineNext
  BY <1>4 DEF Only
<1>5. CASE Only("cells") /\ CellNext
  BY <1>5 DEF Only
<1>6. CASE Only("links") /\ LinkNext
  BY <1>6 DEF Only
<1>7. CASE Only("recipes") /\ RecipeNext
  BY <1>7 DEF Only
<1>8. CASE Only("matching") /\ CampaignNext
  BY <1>8 DEF Only
<1> QED BY <1>1, <1>2, <1>3, <1>4, <1>5, <1>6, <1>7, <1>8 DEF CampaignsNext

LEMMA CampaignsAre ==
    CampaignsSpec => /\ RetrofitSpec /\ PipelineSpec /\ CellSpec /\ LinkSpec /\ RecipeSpec
                     /\ CampaignSpec /\ ValidationSpec /\ HashSpec
<1>1. CampaignsInit => /\ RetrofitInit /\ PipelineInit /\ CellInit /\ LinkInit /\ RecipeInit
                       /\ CampaignInit /\ ValidationInit /\ HashInit
  BY DEF CampaignsInit
<1>2. [CampaignsNext]_<<part, vars, validationVars, retrofitVars, campaignVars,
                        pipelineVars, cellVars, linkVars, recipeVars, hashVars>>
      => /\ [RetrofitNext]_retrofitVars /\ [PipelineNext]_pipelineVars
         /\ [CellNext]_cellVars /\ [LinkNext]_linkVars /\ [RecipeNext]_recipeVars
         /\ [CampaignNext]_campaignVars /\ [ValidationNext]_validationVars
         /\ [HashNext]_hashVars
  BY CampaignsStep
<1> QED BY <1>1, <1>2, PTL DEF CampaignsSpec, RetrofitSpec, PipelineSpec, CellSpec, LinkSpec,
        RecipeSpec, CampaignSpec, ValidationSpec, HashSpec

\* OutputsTrue of every campaign: what the build pipeline's manifest lists is
\* what was published, but for what a run that starts again has begun to remove
\* (pipeline.py), and a sealed cell was built from what it pins (cell_runner.py,
\* run_cell).
THEOREM OutputsSafe == CampaignsSpec => []OutputsTrue
<1>1. ManifestHonest /\ SealsTrue => OutputsTrue
  BY DEF OutputsTrue
<1> QED BY <1>1, CampaignsAre, PipelineSafe, CellsSafe, PTL

\* QualificationsTrue of every campaign: what the link and the recipe
\* qualification seal is true of what they qualified, unless recipes were edited
\* under a run and brought back, and a hash report is of a batch of the index
\* (machine_validation_links.py, recipe_qualification.py,
\* machine_validation_hashes.py).
THEOREM QualificationsSafe == CampaignsSpec => []QualificationsTrue
<1>1. LinksTrue /\ RecipesTrue /\ ReportBacked => QualificationsTrue
  BY DEF QualificationsTrue
<1> QED BY <1>1, CampaignsAre, LinksSafe, RecipesSafe, ReportsBacked, PTL

\* MatchingHolds of every campaign: the finished reports of function matching are
\* sound (fid_matching_campaign.py).
THEOREM MatchingSafe == CampaignsSpec => []MatchingHolds
<1>1. ReportsSound => MatchingHolds
  BY DEF MatchingHolds
<1> QED BY <1>1, CampaignsAre, MatchingSound, PTL

\* CampaignsTypeOK of every campaign: the files, locks and processes of the
\* validation, the retrofit, the matching, the pipeline, the cells, the two
\* qualifications and the hash evidence are what the code of each of them writes,
\* holds and starts.
THEOREM CampaignsTyped == CampaignsSpec => []CampaignsTypeOK
<1>1. /\ ValidationTypeOK /\ RetrofitTypeOK /\ CampaignTypeOK /\ PipelineTypeOK /\ CellTypeOK
      /\ LinkTypeOK /\ RecipeTypeOK /\ HashTypeOK
      => CampaignsTypeOK
  BY DEF CampaignsTypeOK
<1> QED BY <1>1, CampaignsAre, ValidationTypeCorrect, RetrofitTypeSafe, MatchingTyped,
        PipelineTyped, CellsTyped, LinksTypeSafe, RecipesTyped, EvidenceTyped, PTL
=============================================================================
