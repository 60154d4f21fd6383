-------------------------- MODULE ValidationProofs --------------------------
(***************************************************************************)
(* What a validation run keeps to, for any queue, slots, restarts, faults  *)
(* and supervisors: two workers of a supervisor never run one position, no *)
(* complete result is lost, a run that is stopped has no worker left, and  *)
(* nothing is stranded when the report is written.                         *)
(*                                                                         *)
(* Three facts carry the proof.  A worker at work on a position has signed *)
(* the claim that is there, and only its own supervisor takes it away,     *)
(* after it has stopped the worker (ClaimFits).  The operator acts only    *)
(* when the supervisor is gone, because the status names it from its first *)
(* write to its last (OperatorFits).  And every position has, until the    *)
(* report, a result or somebody who is still to see to it: a worker that   *)
(* has it ahead, a worker that died and is to be replaced, or a claim that *)
(* nobody has signed (Covered).  The last two are about runs that no       *)
(* worker outlived.                                                        *)
(*                                                                         *)
(* The second part is about the qualification of links, where the marker   *)
(* of a fold, written last, says what is true of its files, and the third  *)
(* about the hash evidence of the runs: a report is of a batch that the    *)
(* index holds, and the index takes in no run twice.                       *)
(***************************************************************************)
EXTENDS ValidationRun, LinkQualification, HashEvidence, FiniteSetTheorems, WellFoundedInduction, TLAPS

Before == {"start", "index", "prepare", "spawn"}
Handling == {"fail", "write", "archive", "move", "exit"}
Holding == Handling \cup {"decide", "exhausted"}
Watching == {"loop", "stopping", "kill"} \cup Holding
Commands == {"idle", "start", "resume", "reread", "pid", "pausing"}
SupervisorSteps == Before \cup Watching \cup
                   {"paused", "aggregate", "analyze", "retain", "unlock", "gone"}
SupervisorType ==
    [pc : SupervisorSteps, attempt : 0..MaxAttempts, pending : SUBSET Turns,
     worker : Workers \cup {None}, victim : Positions, released : SUBSET Positions,
     overtaken : SUBSET Positions]
CellResults == {"none", "complete", "failed", "timeout"}

\* A worker's row: the workers of the attempts so far have rows, and one at
\* work has positions ahead.
CrewRowFits(w, r) ==
    /\ r \in WorkerType
    /\ r.pc = "none" <=> r = NoWorker
    /\ r.pc # "none" => w[1] <= sup.attempt
    /\ r.pc \notin {"none", "dead"} => r.todo # {} /\ ~r.finished /\ ~r.handled

\* The files of a run and the processes that write them.
RunFilesFit ==
    /\ sup \in SupervisorType /\ (sup.pc # "gone" => sup.attempt # 0)
    /\ DOMAIN workers = Workers /\ workers = [w \in Workers |-> workers[w]]
    /\ claims \in [Positions -> [by : Workers, signed : BOOLEAN] \cup {None}]
    /\ result \in [Positions -> CellResults] /\ timeouts \in [Positions -> 0..(TimeoutAttempts - 1)]
    /\ lock \in 0..sup.attempt
    /\ \A p \in Positions : claims[p] # None => claims[p].by[1] <= sup.attempt

\* What a worker's step knows of its claim; before the spawn there are none.
ClaimFits(w) ==
    /\ sup.pc \in Before => workers[w] = NoWorker
    /\ Is(w, "sign") => claims[Cell(w)] = Unsigned(w)
    /\ workers[w].pc \in {"run", "report"} => Owns(w, Cell(w))

\* The status names the supervisor from its first write to its last, so that
\* a command, which needs an inactive run, finds no supervisor.
OperatorFits ==
    /\ status \in StatusType /\ op \in [pc : Commands, doc : StatusType]
    /\ sup.pc \notin {"gone", "start"} => status.by = sup.attempt
    /\ sup.pc # "gone" /\ op.pc \notin {"reread", "pid"} => status.by = sup.attempt
    /\ sup.pc # "gone" /\ op.pc = "pausing" => op.doc.by = sup.attempt
    /\ op.pc \in {"start", "resume"} =>
         /\ sup.pc = "gone" /\ sup.attempt < MaxAttempts
         /\ status.state \in ActiveStates /\ op.doc.state \in ActiveStates
    /\ status.state = "not-started" => sup.attempt = 0 /\ sup.pc = "gone"
    /\ sup.pc \notin {"unlock", "gone"} =>
         /\ status.state \in ActiveStates
         /\ op.pc \in {"pid", "pausing"} => op.doc.state \in ActiveStates
    /\ op.pc \in {"reread", "pid", "pausing"} =>
         op.doc.state # "not-started" /\ status.state # "not-started"

\* The supervisor at the disposal of a worker, which has ended by then.
SupFits ==
    /\ sup.pc \in Holding \cup {"kill"} => sup.worker \in Crew /\ ~workers[sup.worker].handled
    /\ sup.pc \in Holding => ~Alive(sup.worker)
    /\ sup.pc = "move" => timeouts[sup.victim] + 1 < TimeoutAttempts
    /\ sup.pc \in {"decide", "exhausted"} => \A p \in Positions : ~Owns(sup.worker, p)
    /\ sup.pc = "exhausted" => ~workers[sup.worker].finished

\* A position is settled when its result is final, or when the supervisor has
\* overwritten a complete one.
Settled(p) == Terminal(p) \/ p \in sup.overtaken
Ended(p) == result[p] \in {"complete", "failed"} \/ p \in sup.overtaken
Pends(p) == \E i \in sup.pending : Queue[i] = p
Ahead(w, p) == \E i \in workers[w].todo : Queue[i] = p

Begun == \E w \in Crew : workers[w] # NoWorker
UsedUp == \E w \in Crew : /\ workers[w].handled /\ ~workers[w].finished
                          /\ workers[w].restarts = MaxRestarts
Covers(w, p) == ~workers[w].handled /\ ~workers[w].finished /\ (Alive(w) => Ahead(w, p))
\* Somebody is still to see to a position that is not settled.
Covered(p) ==
    \/ Settled(p)
    \/ claims[p] # None /\ ~claims[p].signed
    \/ UsedUp \/ \E w \in Crew : Covers(w, p)

\* A worker's work, in a run that no worker outlived.
CrewWorkFits(w) ==
    /\ Alive(w) => w \in Crew /\ sup.pc \in Watching /\ workers[w].todo \subseteq sup.pending
    /\ Is(w, "run") => result[Cell(w)] # "complete"
    /\ Is(w, "report") => Ended(Cell(w))
    /\ \A p \in Positions : Owns(w, p) /\ sup.pc \in Watching =>
          IF Alive(w) THEN workers[w].pc \in {"run", "report"} /\ p = Cell(w)
          ELSE ~workers[w].handled /\ ~workers[w].finished

\* The position whose worker is stopped for its time.
VictimFits ==
    /\ sup.pc \in {"kill", "fail", "write", "archive", "move"} => Pends(sup.victim)
    /\ sup.pc \in {"kill", "fail", "write", "archive", "move"} =>
          \/ ~Alive(sup.worker) /\ ~workers[sup.worker].finished
          \/ Ended(sup.victim)
          \/ sup.pc = "kill" /\ Is(sup.worker, "run") /\ Cell(sup.worker) = sup.victim

\* The run as a whole, unless a worker outlived its supervisor.
SupervisionFits ==
    /\ \A w \in Workers : CrewWorkFits(w)
    /\ VictimFits
    /\ sup.pc \in {"prepare", "spawn", "aggregate"} \cup Watching =>
         /\ \A p \in Positions : Settled(p) \/ Pends(p)
         /\ \A p \in Positions : claims[p] # None => claims[p].by \in Crew
    /\ sup.pc \in {"prepare", "spawn"} => \A p \in Positions : claims[p] = None
    /\ sup.pc \in {"aggregate"} \cup Watching =>
         Begun \/ sup.pending = {} \/ (pause /\ sup.pc # "aggregate")
    /\ sup.pc \in {"aggregate"} \cup Watching /\ Begun =>
         \A p \in Positions : Covered(p)
    /\ sup.pc = "exhausted" =>
         \/ workers[sup.worker].restarts = MaxRestarts
         \/ \A p \in Positions : Settled(p)
    /\ sup.pc = "aggregate" => \A w \in Crew : workers[w].handled

\* The inductive invariant.
ValidationInv ==
    /\ RunFilesFit /\ OperatorFits
    /\ \A w \in Workers : CrewRowFits(w, workers[w])
    /\ \A w \in Crew : ClaimFits(w)
    /\ SupFits
    /\ orphaned \/ SupervisionFits

-----------------------------------------------------------------------------
\* A set of naturals has a least element, which Foremost chooses.
LEMMA LeastNumber ==
    ASSUME NEW T \in SUBSET Nat, T # {}
    PROVE  \E x \in T : \A y \in T : x <= y
<1> DEFINE R == OpToRel(<, Nat)
<1>1. IsWellFoundedOn(R, Nat)
  BY NatLessThanWellFounded
<1>2. \A x, y \in Nat : <<y, x>> \in R <=> y < x
  BY DEF OpToRel
<1> HIDE DEF R
<1>3. PICK x \in T : \A y \in T : ~ (<<y, x>> \in R)
  BY <1>1, WFMin
<1>4. ASSUME NEW y \in T PROVE x <= y
  <2>1. x \in Nat /\ y \in Nat /\ ~(y < x)
    BY <1>2, <1>3
  <2> QED BY <2>1
<1> QED BY <1>4

\* Every position of the queue file has a turn, and every turn a position.
LEMMA QueueFits ==
    ASSUME ValidationAssumption
    PROVE  /\ Turns \subseteq Nat /\ 1 \in Turns
           /\ \A i \in Turns : Queue[i] \in Positions
           /\ \A p \in Positions : \E i \in Turns : Queue[i] = p
<1>1. Len(Queue) \in Nat /\ Len(Queue) # 0
  BY DEF ValidationAssumption, RuntimeAccepted
<1> QED BY <1>1 DEF Turns, Positions

\* The head of a worker's list is one of its positions.
LEMMA ForemostIsThere ==
    ASSUME ValidationAssumption, NEW turns \in SUBSET Turns, turns # {}
    PROVE  Foremost(turns) \in turns
<1>1. turns \in SUBSET Nat
  BY QueueFits
<1>2. \E i \in turns : \A j \in turns : i <= j
  BY <1>1, LeastNumber
<1> QED BY <1>2 DEF Foremost

\* A worker at work has a cell, which is ahead of it (the loop over the
\* positions in _worker).
LEMMA CellIsAhead ==
    ASSUME ValidationAssumption, NEW w \in Workers, CrewRowFits(w, workers[w]), Alive(w)
    PROVE  /\ Foremost(workers[w].todo) \in workers[w].todo
           /\ Cell(w) \in Positions /\ Ahead(w, Cell(w))
           /\ ~workers[w].finished /\ ~workers[w].handled /\ w[1] <= sup.attempt
           /\ workers[w] # NoWorker
<1>1. workers[w].todo \in SUBSET Turns /\ workers[w].todo # {}
  BY DEF CrewRowFits, WorkerType, Alive
<1>2. Foremost(workers[w].todo) \in workers[w].todo
  BY <1>1, ForemostIsThere
<1> QED BY <1>1, <1>2, QueueFits DEF Cell, Ahead, CrewRowFits, Alive

\* A worker's step writes its own row and no other.
LEMMA OneRow ==
    ASSUME RunFilesFit, NEW w \in Workers, NEW r, workers' = [workers EXCEPT ![w] = r]
    PROVE  /\ workers'[w] = r /\ \A v \in Workers : v # w => workers'[v] = workers[v]
           /\ DOMAIN workers' = Workers /\ workers' = [v \in Workers |-> workers'[v]]
<1>1. PICK old : old = workers
  OBVIOUS
<1>2. old = [v \in Workers |-> old[v]]
  BY <1>1 DEF RunFilesFit
<1>3. PICK new : new = workers'
  OBVIOUS
<1>4. new = [old EXCEPT ![w] = r]
  BY <1>1, <1>3
<1>5. new[w] = r /\ (\A v \in Workers : v # w => new[v] = old[v]) /\ new = [v \in Workers |-> new[v]]
  BY <1>2, <1>4
<1> QED BY <1>1, <1>3, <1>5

\* A claim names its worker, and a signed claim is not an unsigned one.
LEMMA ClaimValues ==
    ASSUME ValidationAssumption, NEW v \in Workers, NEW w \in Workers
    PROVE  /\ {Signed(w), Unsigned(w)} \subseteq [by : Workers, signed : BOOLEAN]
           /\ None \notin {Signed(w), Unsigned(w)} /\ Signed(v) # Unsigned(w)
           /\ v # w => Signed(v) # Signed(w) /\ Unsigned(v) # Unsigned(w)
           /\ Signed(w).by = w /\ Unsigned(w).by = w
           /\ Signed(w).signed /\ ~Unsigned(w).signed
<1>1. {Signed(w), Unsigned(w)} \subseteq [by : Workers, signed : BOOLEAN]
  BY DEF Signed, Unsigned
<1>2. None \notin {Signed(w), Unsigned(w)}
  BY <1>1 DEF ValidationAssumption, RuntimeAccepted
<1>3. Signed(w).by = w /\ Unsigned(w).by = w /\ Signed(v).by = v /\ Unsigned(v).by = v
      /\ Signed(w).signed /\ Signed(v).signed /\ ~Unsigned(w).signed
  BY DEF Signed, Unsigned
<1> QED BY <1>1, <1>2, <1>3

\* A worker's own step, which writes at most its cell's claim and result.
WorkStep(w, r, p, k, s) ==
    /\ p = Cell(w)
    /\ workers' = [workers EXCEPT ![w] = r]
    /\ claims' = [claims EXCEPT ![p] = k] /\ result' = [result EXCEPT ![p] = s]
    /\ UNCHANGED <<sup, timeouts, status, pause, lock, op, orphaned>>
    /\ CrewRowFits(w, r) /\ ~r.handled /\ r.pc # "none"
    /\ k = claims[p] \/ {k, claims[p]} \subseteq {None, Unsigned(w), Signed(w)}
    /\ s = result[p] \/ (s \in {"complete", "failed"} /\ Is(w, "run"))
    /\ w \in Crew => ClaimFits(w)'
    /\ Is(w, "run") => s \in {"complete", "failed"} \/ (r.pc = "dead" /\ ~r.finished)
    /\ orphaned \/ CrewWorkFits(w)'
    /\ orphaned \/ \A q \in Positions : Covers(w, q) \/ q = p => Covered(q)'

\* A worker's own step keeps the invariant.
LEMMA CrewStep ==
    ASSUME ValidationAssumption, ValidationInv, NEW w \in Workers, Alive(w), NEW r,
           NEW p \in Positions, NEW k, NEW s, WorkStep(w, r, p, k, s)
    PROVE  ValidationInv'
<1> USE DEF Alive, Is, WorkStep
<1>1. RunFilesFit /\ OperatorFits /\ SupFits /\ (\A v \in Workers : CrewRowFits(v, workers[v]))
      /\ (\A v \in Crew : ClaimFits(v)) /\ (orphaned \/ SupervisionFits)
  BY DEF ValidationInv
<1>2. /\ workers'[w] = r /\ \A v \in Workers : v # w => workers'[v] = workers[v]
      /\ DOMAIN workers' = Workers /\ workers' = [v \in Workers |-> workers'[v]]
  BY <1>1, OneRow
<1>3. Crew' = Crew /\ Crew \subseteq Workers
  BY DEF Crew
<1>4. /\ claims'[p] = k /\ \A q \in Positions : q # p => claims'[q] = claims[q]
      /\ result'[p] = s /\ \A q \in Positions : q # p => result'[q] = result[q]
  BY <1>1 DEF RunFilesFit
<1>5. \A v \in Workers : v # w => Cell(v)' = Cell(v)
  BY <1>2 DEF Cell
<1>6. w[1] <= sup.attempt /\ Cell(w) \in Positions
  BY <1>1, CellIsAhead
<1>7. RunFilesFit'
  <2>1. k \in [by : Workers, signed : BOOLEAN] \cup {None}
    BY <1>1, ClaimValues DEF RunFilesFit
  <2>2. k # None => k.by[1] <= sup.attempt
    BY <1>1, <1>6, ClaimValues DEF RunFilesFit
  <2>3. s \in CellResults
    BY <1>1 DEF RunFilesFit, CellResults
  <2>4. claims' \in [Positions -> [by : Workers, signed : BOOLEAN] \cup {None}]
        /\ result' \in [Positions -> CellResults]
    BY <1>1, <2>1, <2>3 DEF RunFilesFit
  <2>5. \A q \in Positions : claims'[q] # None => claims'[q].by[1] <= sup.attempt
    BY <1>1, <1>4, <2>2 DEF RunFilesFit
  <2> QED BY <1>1, <1>2, <2>4, <2>5 DEF RunFilesFit
<1>8. OperatorFits'
  BY <1>1 DEF OperatorFits
<1>9. \A v \in Workers : CrewRowFits(v, workers[v])'
  BY <1>1, <1>2 DEF CrewRowFits
<1>10. \A v \in Workers, q \in Positions : v # w => (Owns(v, q)' <=> Owns(v, q))
  BY <1>4, ClaimValues DEF Owns
<1>11. \A v \in Crew : ClaimFits(v)'
  <2>1. ASSUME NEW v \in Crew, v # w PROVE ClaimFits(v)'
    <3>1. ClaimFits(v) /\ workers'[v] = workers[v] /\ Cell(v)' = Cell(v)
      BY <1>1, <1>2, <1>3, <1>5, <2>1
    <3>2. ASSUME Is(v, "sign") PROVE claims'[Cell(v)] = Unsigned(v)
      <4>1. Cell(v) \in Positions /\ claims[Cell(v)] = Unsigned(v)
        BY <1>1, <1>3, <3>1, <3>2, CellIsAhead DEF ClaimFits
      <4> QED BY <1>3, <1>4, <2>1, <4>1, ClaimValues
    <3>3. ASSUME workers[v].pc \in {"run", "report"} PROVE Owns(v, Cell(v))'
      <4>1. Cell(v) \in Positions /\ Owns(v, Cell(v))
        BY <1>1, <1>3, <3>1, <3>3, CellIsAhead DEF ClaimFits
      <4> QED BY <1>3, <1>5, <1>10, <2>1, <4>1 DEF Owns
    <3> QED BY <3>1, <3>2, <3>3 DEF ClaimFits
  <2> QED BY <1>3, <2>1
<1>12. SupFits'
  <2>1. sup.pc \in Holding => sup.worker # w /\ sup.worker \in Workers
    BY <1>1, <1>3 DEF SupFits
  <2>2. sup.pc \in {"decide", "exhausted"} => sup.pc \in Holding
    BY DEF Holding
  <2> QED BY <1>1, <1>2, <1>3, <1>10, <2>1, <2>2 DEF SupFits
<1>13. ASSUME ~orphaned PROVE SupervisionFits'
  <2>1. SupervisionFits /\ CrewWorkFits(w) /\ CrewWorkFits(w)' /\ w \in Crew /\ sup.pc \in Watching
    BY <1>1, <1>13 DEF SupervisionFits, CrewWorkFits
  <2>2. \A q \in Positions : (Settled(q) => Settled(q)') /\ (Ended(q) => Ended(q)')
        /\ (Pends(q)' <=> Pends(q))
    BY <1>4 DEF Settled, Ended, Pends, Terminal
  <2>3. ASSUME NEW v \in Workers, v # w PROVE CrewWorkFits(v)'
    <3>1. CrewWorkFits(v) /\ workers'[v] = workers[v] /\ Cell(v)' = Cell(v)
      BY <1>2, <1>5, <2>1, <2>3 DEF SupervisionFits
    <3>2. Alive(v) => v \in Crew /\ Cell(v) \in Positions
      BY <1>1, <3>1, CellIsAhead DEF CrewWorkFits
    <3>3. ASSUME Is(v, "run") PROVE result'[Cell(v)] # "complete"
      <4>1. CASE Cell(v) = p /\ Is(w, "run")
        <5>1. Owns(v, p) /\ Owns(w, p)
          BY <1>1, <2>1, <3>2, <3>3, <4>1 DEF ClaimFits
        <5>2. Signed(v) # Signed(w)
          BY <2>3, ClaimValues
        <5> QED BY <5>1, <5>2 DEF Owns
      <4>2. CASE ~(Cell(v) = p /\ Is(w, "run"))
        BY <1>4, <3>1, <3>2, <3>3, <4>2 DEF CrewWorkFits
      <4> QED BY <4>1, <4>2
    <3>4. Is(v, "report") => Ended(Cell(v))'
      <4>1. Is(v, "report") => Ended(Cell(v))
        BY <3>1 DEF CrewWorkFits
      <4>2. Is(v, "report") => Ended(Cell(v))'
        BY <1>4, <1>5, <2>3, <3>2, <4>1 DEF Ended
      <4> QED BY <4>2
    <3>5. \A q \in Positions : Owns(v, q)' <=> Owns(v, q)
      BY <1>10, <2>3
    <3> QED BY <1>3, <3>1, <3>3, <3>4, <3>5 DEF CrewWorkFits
  <2>4. VictimFits'
    <3>1. VictimFits /\ sup.victim \in Positions
      BY <1>1, <2>1 DEF SupervisionFits, RunFilesFit, SupervisorType
    <3>2. sup.pc \in {"fail", "write", "archive", "move"} =>
             sup.worker # w /\ workers'[sup.worker] = workers[sup.worker]
      BY <1>1, <1>2, <1>3 DEF SupFits, Holding, Handling
    <3>3. sup.pc = "kill" => sup.worker \in Workers
      BY <1>1, <1>3 DEF SupFits
    <3>4. CASE sup.pc \in {"fail", "write", "archive", "move"}
      BY <2>2, <3>1, <3>2, <3>4 DEF VictimFits
    <3>5. CASE sup.pc = "kill" /\ sup.worker # w
      BY <1>2, <1>5, <2>2, <3>1, <3>3, <3>5 DEF VictimFits
    <3>6. CASE sup.pc = "kill" /\ sup.worker = w
      BY <1>2, <1>4, <2>2, <3>1, <3>6 DEF VictimFits, Ended
    <3> QED BY <3>4, <3>5, <3>6 DEF VictimFits
  <2>5. \A q \in Positions : claims'[q] # None => claims'[q].by \in Crew
    <3>1. \A q \in Positions : claims[q] # None => claims[q].by \in Crew
      BY <2>1 DEF SupervisionFits
    <3> QED BY <1>4, <2>1, <3>1, ClaimValues
  <2>6. Begun'
    BY <1>2, <1>3, <2>1, <1>9 DEF Begun, CrewRowFits
  <2>7. Begun => \A q \in Positions : Covered(q)'
    <3>1. SUFFICES ASSUME Begun, NEW q \in Positions, q # p, Covered(q), ~Covers(w, q)
                   PROVE  Covered(q)'
      BY <1>13, <2>1 DEF SupervisionFits
    <3>2. claims'[q] = claims[q]
      BY <1>4, <3>1
    <3>3. ASSUME NEW v \in Crew, Covers(v, q) PROVE Covers(v, q)'
      BY <1>2, <1>3, <3>1, <3>3 DEF Covers, Ahead
    <3>4. UsedUp => UsedUp'
      <4>1. ~workers[w].handled
        BY <1>1, CellIsAhead
      <4> QED BY <1>2, <1>3, <4>1 DEF UsedUp
    <3> QED BY <1>3, <2>2, <3>1, <3>2, <3>3, <3>4 DEF Covered
  <2>8. sup.pc = "exhausted" =>
           \/ workers'[sup.worker].restarts = MaxRestarts
           \/ \A q \in Positions : Settled(q)'
    <3>1. sup.pc = "exhausted" => sup.worker # w /\ sup.worker \in Workers
      BY <1>1, <1>3 DEF SupFits, Holding
    <3> QED BY <1>2, <2>1, <2>2, <3>1 DEF SupervisionFits
  <2>9. sup.pc # "aggregate" /\ sup.pc \notin {"prepare", "spawn"}
    BY <2>1 DEF Watching, Holding, Handling
  <2>10. Begun
    BY <1>1, <2>1, CellIsAhead DEF Begun
  <2>11. \A q \in Positions : Settled(q)' \/ Pends(q)'
    BY <2>1, <2>2 DEF SupervisionFits
  <2> QED BY <1>3, <2>1, <2>3, <2>4, <2>5, <2>6, <2>7, <2>8, <2>9, <2>10, <2>11 DEF SupervisionFits
<1> QED BY <1>3, <1>7, <1>8, <1>9, <1>11, <1>12, <1>13 DEF ValidationInv

\* What a worker knows when it acts.
LEMMA WorkerKnows ==
    ASSUME ValidationAssumption, ValidationInv, NEW w \in Workers, Alive(w)
    PROVE  /\ RunFilesFit /\ CrewRowFits(w, workers[w]) /\ workers[w] \in WorkerType
           /\ w \in Crew => ClaimFits(w) /\ sup.pc \notin Before
           /\ Cell(w) \in Positions /\ Ahead(w, Cell(w))
           /\ ~workers[w].finished /\ ~workers[w].handled
           /\ ~orphaned => SupervisionFits /\ CrewWorkFits(w) /\ w \in Crew /\ sup.pc \in Watching
                           /\ \A p \in Positions : claims[p] # None => claims[p].by \in Crew
<1>1. /\ RunFilesFit /\ CrewRowFits(w, workers[w]) /\ (w \in Crew => ClaimFits(w))
      /\ orphaned \/ SupervisionFits
  BY DEF ValidationInv
<1>2. ~orphaned => CrewWorkFits(w)
  BY <1>1 DEF SupervisionFits
<1>3. ~orphaned => w \in Crew /\ sup.pc \in Watching
  BY <1>2 DEF CrewWorkFits
<1>4. ~orphaned => \A p \in Positions : claims[p] # None => claims[p].by \in Crew
  BY <1>1, <1>3 DEF SupervisionFits
<1> QED BY <1>1, <1>2, <1>3, <1>4, CellIsAhead DEF ClaimFits, CrewRowFits, NoWorker, Alive

\* The rest of the list, or the end of the worker.
LEMMA LeaveRow ==
    ASSUME ValidationAssumption, RunFilesFit, NEW w \in Workers, CrewRowFits(w, workers[w]),
           Alive(w), Leave(w)
    PROVE  \E r : /\ workers' = [workers EXCEPT ![w] = r] /\ CrewRowFits(w, r)
                  /\ ~r.handled /\ r.pc \in {"look", "dead"} /\ (r.pc = "dead" <=> r.finished)
                  /\ r.todo = workers[w].todo \ {Foremost(workers[w].todo)}
                  /\ r.finished <=> r.todo = {}
<1>1. PICK old : old = workers[w]
  OBVIOUS
<1>2. old \in WorkerType /\ ~old.handled /\ w[1] <= sup.attempt
  BY <1>1 DEF CrewRowFits, Alive
<1>3. PICK left : left = old.todo \ {Foremost(old.todo)}
  OBVIOUS
<1>4. PICK r : r = [old EXCEPT !.todo = left, !.finished = left = {},
                               !.pc = IF left = {} THEN "dead" ELSE "look"]
  OBVIOUS
<1>5. /\ r \in WorkerType /\ r.todo = left /\ (r.finished <=> left = {}) /\ ~r.handled
      /\ r.pc = IF left = {} THEN "dead" ELSE "look"
  <2>1. left \subseteq Turns
    BY <1>2, <1>3 DEF WorkerType
  <2> QED BY <1>2, <1>4, <2>1 DEF WorkerType
<1>6. workers' = [workers EXCEPT ![w] = r]
  BY <1>1, <1>3, <1>4 DEF Leave
<1>7. CrewRowFits(w, r)
  <2>1. r # NoWorker
    BY <1>5 DEF NoWorker
  <2> QED BY <1>2, <1>5, <2>1 DEF CrewRowFits
<1> QED BY <1>1, <1>3, <1>5, <1>6, <1>7

\* Another step of the same cell.
LEMMA StepRow ==
    ASSUME ValidationAssumption, RunFilesFit, NEW w \in Workers, CrewRowFits(w, workers[w]),
           Alive(w), NEW step \in {"look", "try", "sign", "run", "report"}, Step(w, step)
    PROVE  \E r : /\ workers' = [workers EXCEPT ![w] = r] /\ CrewRowFits(w, r) /\ r.pc = step
                  /\ ~r.handled /\ ~r.finished /\ r.todo = workers[w].todo
<1>1. PICK old : old = workers[w]
  OBVIOUS
<1>2. /\ old \in WorkerType /\ ~old.handled /\ w[1] <= sup.attempt
      /\ old.todo # {} /\ ~old.finished
  BY <1>1 DEF CrewRowFits, Alive
<1>3. PICK r : r = [old EXCEPT !.pc = step]
  OBVIOUS
<1>4. /\ r \in WorkerType /\ r.todo = old.todo /\ (r.finished <=> old.finished)
      /\ (r.handled <=> old.handled) /\ r.pc = step
  BY <1>2, <1>3 DEF WorkerType
<1>5. workers' = [workers EXCEPT ![w] = r]
  BY <1>1, <1>3 DEF Step
<1>6. CrewRowFits(w, r)
  <2>1. r # NoWorker
    BY <1>4 DEF NoWorker
  <2> QED BY <1>2, <1>4, <2>1 DEF CrewRowFits
<1> QED BY <1>1, <1>2, <1>4, <1>5, <1>6

\* A worker that leaves a settled cell, or one that another is to see to.
LEMMA Leaves ==
    ASSUME ValidationAssumption, ValidationInv, NEW w \in Workers, Alive(w), Leave(w),
           NEW p \in Positions, p = Cell(w), NEW k, claims' = [claims EXCEPT ![p] = k],
           UNCHANGED <<sup, result, timeouts, status, pause, lock, op, orphaned>>,
           k = claims[p] \/ (claims[p] \in {Unsigned(w), Signed(w)} /\ k = None),
           ~Is(w, "run"), Is(w, "report") => k # Signed(w),
           \/ orphaned \/ Settled(p) \/ (claims[p] # None /\ k = claims[p] /\ ~claims[p].signed)
           \/ \E v \in Crew : v # w /\ Covers(v, p)
    PROVE  ValidationInv'
<1> USE DEF Alive, Is
<1>1. /\ RunFilesFit /\ CrewRowFits(w, workers[w]) /\ workers[w] \in WorkerType
      /\ w \in Crew => ClaimFits(w) /\ sup.pc \notin Before
      /\ Ahead(w, p) /\ ~workers[w].finished /\ ~workers[w].handled
      /\ ~orphaned => SupervisionFits /\ CrewWorkFits(w) /\ w \in Crew /\ sup.pc \in Watching
  BY WorkerKnows
<1>2. PICK r : /\ workers' = [workers EXCEPT ![w] = r] /\ CrewRowFits(w, r)
               /\ ~r.handled /\ r.pc \in {"look", "dead"} /\ (r.pc = "dead" <=> r.finished)
               /\ r.todo = workers[w].todo \ {Foremost(workers[w].todo)}
               /\ r.finished <=> r.todo = {}
  BY <1>1, LeaveRow
<1>3. /\ workers'[w] = r /\ \A v \in Workers : v # w => workers'[v] = workers[v]
      /\ Crew' = Crew /\ Crew \subseteq Workers
  BY <1>1, <1>2, OneRow DEF Crew
<1>4. PICK s : s = result[p]
  OBVIOUS
<1>5. result' = [result EXCEPT ![p] = s]
  <2>1. result \in [Positions -> CellResults]
    BY <1>1 DEF RunFilesFit
  <2> QED BY <1>4, <2>1
<1>6. claims'[p] = k /\ \A q \in Positions : q # p => claims'[q] = claims[q]
  BY <1>1 DEF RunFilesFit
<1>7. k = claims[p] \/ {k, claims[p]} \subseteq {None, Unsigned(w), Signed(w)}
  OBVIOUS
<1>8. w \in Crew => ClaimFits(w)'
  BY <1>1, <1>2, <1>3 DEF ClaimFits
<1>9. ASSUME ~orphaned PROVE CrewWorkFits(w)'
  <2>1. workers'[w].todo \subseteq sup.pending /\ w \in Crew' /\ sup'.pc \in Watching
    BY <1>1, <1>2, <1>3, <1>9 DEF CrewWorkFits
  <2>2. ASSUME NEW q \in Positions, Owns(w, q)' PROVE workers'[w].pc = "dead" /\ FALSE
    <3>1. Signed(w) # None /\ Signed(w) # Unsigned(w)
      BY ClaimValues
    <3>2. Owns(w, q)
      BY <1>6, <2>2, <3>1 DEF Owns, Signed
    <3>3. workers[w].pc = "report" /\ q = p
      BY <1>1, <1>9, <3>2 DEF CrewWorkFits
    <3> QED BY <1>6, <2>2, <3>3 DEF Owns, Signed
  <2> QED BY <1>2, <1>3, <2>1, <2>2 DEF CrewWorkFits
<1>10. ASSUME ~orphaned, NEW q \in Positions, Covers(w, q) \/ q = p PROVE Covered(q)'
  <2>1. CASE q # p
    <3>1. PICK i \in workers[w].todo : Queue[i] = q
      BY <1>10, <2>1 DEF Covers, Ahead
    <3>2. i # Foremost(workers[w].todo)
      BY <2>1, <3>1 DEF Cell
    <3>3. i \in r.todo /\ ~r.finished
      BY <1>2, <3>1, <3>2
    <3>4. Covers(w, q)'
      BY <1>2, <1>3, <3>1, <3>3 DEF Covers, Ahead
    <3> QED BY <1>1, <1>3, <1>10, <3>4 DEF Covered
  <2>2. CASE q = p /\ Settled(p)
    BY <2>2 DEF Covered, Settled, Terminal
  <2>3. CASE q = p /\ claims[p] # None /\ k = claims[p] /\ ~claims[p].signed
    BY <1>6, <2>3 DEF Covered
  <2>4. CASE q = p /\ \E v \in Crew : v # w /\ Covers(v, p)
    <3>1. PICK v \in Crew : v # w /\ Covers(v, p)
      BY <2>4
    <3>2. Covers(v, p)'
      BY <1>3, <3>1 DEF Covers, Ahead
    <3> QED BY <1>3, <2>4, <3>1, <3>2 DEF Covered
  <2> QED BY <1>10, <2>1, <2>2, <2>3, <2>4
<1>11. WorkStep(w, r, p, k, s)
  BY <1>2, <1>4, <1>5, <1>7, <1>8, <1>9, <1>10 DEF WorkStep
<1> QED BY <1>11, CrewStep

\* A worker that goes on with its cell.
StaysAt(w, step, p, k, s) ==
    /\ Alive(w) /\ Step(w, step) /\ p = Cell(w)
    /\ claims' = [claims EXCEPT ![p] = k] /\ result' = [result EXCEPT ![p] = s]
    /\ UNCHANGED <<sup, timeouts, status, pause, lock, op, orphaned>>
    /\ k = claims[p] \/ {k, claims[p]} \subseteq {None, Unsigned(w), Signed(w)}
    /\ s = result[p] \/ (s \in {"complete", "failed"} /\ Is(w, "run"))
    /\ w \in Crew /\ step = "sign" => k = Unsigned(w)
    /\ w \in Crew /\ step \in {"run", "report"} => k = Signed(w)
    /\ ~orphaned /\ k = Signed(w) => step \in {"run", "report"}
    /\ step = "run" => s # "complete"
    /\ step = "report" => s \in {"complete", "failed"}
    /\ Is(w, "run") => s \in {"complete", "failed"}

\* A worker that stays at its cell, with the claim or the result it wrote.
LEMMA Stays ==
    ASSUME ValidationAssumption, ValidationInv, NEW w \in Workers, NEW p \in Positions,
           NEW k, NEW s, NEW step \in {"look", "try", "sign", "run", "report"},
           StaysAt(w, step, p, k, s)
    PROVE  ValidationInv'
<1> USE DEF Alive, Is, StaysAt
<1>1. /\ RunFilesFit /\ CrewRowFits(w, workers[w]) /\ workers[w] \in WorkerType
      /\ w \in Crew => ClaimFits(w) /\ sup.pc \notin Before
      /\ Ahead(w, p) /\ ~workers[w].finished /\ ~workers[w].handled
      /\ ~orphaned => SupervisionFits /\ CrewWorkFits(w) /\ w \in Crew /\ sup.pc \in Watching
  BY WorkerKnows
<1>2. PICK r : /\ workers' = [workers EXCEPT ![w] = r] /\ CrewRowFits(w, r) /\ r.pc = step
               /\ ~r.handled /\ ~r.finished /\ r.todo = workers[w].todo
  BY <1>1, StepRow
<1>3. /\ workers'[w] = r /\ \A v \in Workers : v # w => workers'[v] = workers[v]
      /\ Crew' = Crew /\ Crew \subseteq Workers
  BY <1>1, <1>2, OneRow DEF Crew
<1>4. Cell(w)' = p
  BY <1>2, <1>3 DEF Cell
<1>5. /\ claims'[p] = k /\ \A q \in Positions : q # p => claims'[q] = claims[q]
      /\ result'[p] = s
  BY <1>1 DEF RunFilesFit
<1>6. w \in Crew => ClaimFits(w)'
  <2>1. w \in Crew /\ step \in {"run", "report"} => Owns(w, p)'
    BY <1>5 DEF Owns, Signed
  <2>2. w \in Crew /\ step = "sign" => claims'[p] = Unsigned(w)
    BY <1>5
  <2> QED BY <1>1, <1>2, <1>3, <1>4, <2>1, <2>2 DEF ClaimFits
<1>7. ASSUME ~orphaned PROVE CrewWorkFits(w)'
  <2>1. workers'[w].todo \subseteq sup.pending /\ w \in Crew' /\ sup'.pc \in Watching
    BY <1>1, <1>2, <1>3, <1>7 DEF CrewWorkFits
  <2>2. ASSUME NEW q \in Positions, Owns(w, q)'
        PROVE  step \in {"run", "report"} /\ q = p
    <3>1. CASE q = p
      <4>1. k = Signed(w)
        BY <1>5, <2>2, <3>1 DEF Owns, Signed
      <4> QED BY <1>7, <3>1, <4>1
    <3>2. CASE q # p
      <4>1. Owns(w, q)
        BY <1>5, <2>2, <3>2 DEF Owns, Signed
      <4> QED BY <1>1, <1>7, <3>2, <4>1 DEF CrewWorkFits
    <3> QED BY <3>1, <3>2
  <2>3. step = "report" => Ended(p)'
    BY <1>5 DEF Ended
  <2>4. step = "run" => result'[p] # "complete"
    BY <1>5
  <2> QED BY <1>2, <1>3, <1>4, <2>1, <2>2, <2>3, <2>4 DEF CrewWorkFits
<1>8. ASSUME ~orphaned, NEW q \in Positions, Covers(w, q) \/ q = p PROVE Covered(q)'
  <2>1. Ahead(w, q)
    BY <1>1, <1>8 DEF Covers
  <2>2. Covers(w, q)'
    BY <1>2, <1>3, <2>1 DEF Covers, Ahead
  <2> QED BY <1>1, <1>3, <1>8, <2>2 DEF Covered
<1>9. WorkStep(w, r, p, k, s)
  BY <1>2, <1>6, <1>7, <1>8 DEF WorkStep
<1> QED BY <1>9, CrewStep

\* The entries of one cell, which a step may leave as they are.
LEMMA SameEntries ==
    ASSUME RunFilesFit, NEW p \in Positions
    PROVE  /\ claims = [claims EXCEPT ![p] = claims[p]]
           /\ result = [result EXCEPT ![p] = result[p]]
<1>1. result \in [Positions -> CellResults]
      /\ claims \in [Positions -> [by : Workers, signed : BOOLEAN] \cup {None}]
  BY DEF RunFilesFit
<1> QED BY <1>1

\* A worker looks at its cell and passes it over, or goes for the claim.
LEMMA LookStep ==
    ASSUME ValidationAssumption, ValidationInv, NEW w \in Workers, Look(w)
    PROVE  ValidationInv'
<1> USE DEF Alive, Is
<1>1. /\ RunFilesFit /\ (w \in Crew => ClaimFits(w)) /\ Cell(w) \in Positions
      /\ ~orphaned => CrewWorkFits(w) /\ sup.pc \in Watching
  BY WorkerKnows DEF Look
<1>2. PICK p \in Positions : p = Cell(w)
  BY <1>1
<1>3. PICK k, s : k = claims[p] /\ s = result[p]
  OBVIOUS
<1>4. claims' = [claims EXCEPT ![p] = k] /\ result' = [result EXCEPT ![p] = s]
  BY <1>1, <1>3, SameEntries DEF Look, files
<1>5. /\ UNCHANGED <<sup, result, timeouts, status, pause, lock, op, orphaned>>
      /\ ~Is(w, "run") /\ ~Is(w, "report") /\ Alive(w)
  BY DEF Look, files
<1>6. CASE Terminal(Cell(w))
  <2>1. Settled(p) /\ Leave(w)
    BY <1>2, <1>6 DEF Settled, Look
  <2> QED BY <1>2, <1>3, <1>4, <1>5, <2>1, Leaves
<1>7. CASE ~Terminal(Cell(w))
  <2>1. Step(w, "try")
    BY <1>7 DEF Look
  <2>2. ~orphaned => k # Signed(w)
    BY <1>1, <1>2, <1>3, <1>5 DEF CrewWorkFits, Owns
  <2>3. StaysAt(w, "try", p, k, s)
    BY <1>2, <1>3, <1>4, <1>5, <2>1, <2>2 DEF StaysAt
  <2> QED BY <2>3, Stays
<1> QED BY <1>6, <1>7

\* The exclusive creation of the claim file, or a claim found there.
LEMMA ClaimCellStep ==
    ASSUME ValidationAssumption, ValidationInv, NEW w \in Workers, ClaimCell(w)
    PROVE  ValidationInv'
<1> USE DEF Alive, Is
<1>1. /\ RunFilesFit /\ (w \in Crew => ClaimFits(w)) /\ Cell(w) \in Positions
      /\ ~workers[w].finished /\ ~workers[w].handled
      /\ ~orphaned => SupervisionFits /\ CrewWorkFits(w) /\ w \in Crew /\ sup.pc \in Watching
                      /\ \A q \in Positions : claims[q] # None => claims[q].by \in Crew
  BY WorkerKnows DEF ClaimCell
<1>2. PICK p \in Positions : p = Cell(w)
  BY <1>1
<1>3. PICK s : s = result[p]
  OBVIOUS
<1>4. result' = [result EXCEPT ![p] = s]
  BY <1>1, <1>3, SameEntries DEF ClaimCell
<1>5. /\ UNCHANGED <<sup, result, timeouts, status, pause, lock, op, orphaned>>
      /\ ~Is(w, "run") /\ ~Is(w, "report") /\ Alive(w)
  BY DEF ClaimCell
<1>6. CASE claims[Cell(w)] = None
  <2>1. PICK k : k = Unsigned(w)
    OBVIOUS
  <2>2. claims' = [claims EXCEPT ![p] = k] /\ Step(w, "sign")
    BY <1>2, <1>6, <2>1 DEF ClaimCell
  <2>3. k # Signed(w) /\ {k, claims[p]} \subseteq {None, Unsigned(w), Signed(w)}
    BY <1>2, <1>6, <2>1, ClaimValues
  <2>4. StaysAt(w, "sign", p, k, s)
    BY <1>2, <1>3, <1>4, <1>5, <2>1, <2>2, <2>3 DEF StaysAt
  <2> QED BY <2>4, Stays
<1>7. CASE claims[Cell(w)] # None
  <2>1. PICK k : k = claims[p]
    OBVIOUS
  <2>2. claims' = [claims EXCEPT ![p] = k] /\ Leave(w)
    BY <1>1, <1>7, <2>1, SameEntries DEF ClaimCell
  <2>3. ASSUME ~orphaned, claims[p].signed PROVE \E v \in Crew : v # w /\ Covers(v, p)
    <3>1. PICK v \in Crew : v = claims[p].by
      BY <1>1, <1>2, <1>7, <2>3
    <3>2. v \in Workers /\ claims[p] \in [by : Workers, signed : BOOLEAN]
      BY <1>1, <1>2, <1>7 DEF RunFilesFit, Crew
    <3>3. Owns(v, p)
      BY <2>3, <3>1, <3>2 DEF Owns, Signed
    <3>4. v # w
      BY <1>1, <1>5, <2>3, <3>3 DEF CrewWorkFits
    <3>5. CrewWorkFits(v) /\ CrewRowFits(v, workers[v])
      BY <1>1, <2>3, <3>2 DEF SupervisionFits, ValidationInv
    <3>6. CASE Alive(v)
      <4>1. p = Cell(v)
        BY <1>1, <2>3, <3>3, <3>5, <3>6 DEF CrewWorkFits
      <4>2. Ahead(v, Cell(v)) /\ ~workers[v].finished /\ ~workers[v].handled
        BY <3>2, <3>5, <3>6, CellIsAhead
      <4> QED BY <3>4, <4>1, <4>2 DEF Covers
    <3>7. CASE ~Alive(v)
      <4>1. ~workers[v].finished /\ ~workers[v].handled
        BY <1>1, <2>3, <3>3, <3>5, <3>7 DEF CrewWorkFits
      <4> QED BY <3>4, <3>7, <4>1 DEF Covers
    <3> QED BY <3>6, <3>7
  <2> QED BY <1>2, <1>5, <1>7, <2>1, <2>2, <2>3, Leaves
<1> QED BY <1>6, <1>7

\* The worker writes its name into the claim, and looks at the result again.
LEMMA SignStep ==
    ASSUME ValidationAssumption, ValidationInv, NEW w \in Workers, Sign(w)
    PROVE  ValidationInv'
<1> USE DEF Alive, Is
<1>1. /\ RunFilesFit /\ (w \in Crew => ClaimFits(w)) /\ Cell(w) \in Positions
      /\ ~orphaned => CrewWorkFits(w) /\ w \in Crew
  BY WorkerKnows DEF Sign
<1>2. PICK p \in Positions : p = Cell(w)
  BY <1>1
<1>3. PICK s : s = result[p]
  OBVIOUS
<1>4. result' = [result EXCEPT ![p] = s]
  BY <1>1, <1>3, SameEntries DEF Sign
<1>5. /\ UNCHANGED <<sup, result, timeouts, status, pause, lock, op, orphaned>>
      /\ ~Is(w, "run") /\ ~Is(w, "report") /\ Alive(w)
  BY DEF Sign
<1>6. w \in Crew => claims[p] = Unsigned(w)
  BY <1>1, <1>2 DEF ClaimFits, Sign
<1>7. CASE Terminal(Cell(w))
  <2>1. PICK k : k = IF claims[p] = Unsigned(w) THEN None ELSE claims[p]
    OBVIOUS
  <2>2. claims' = [claims EXCEPT ![p] = k] /\ Leave(w)
    BY <1>2, <1>7, <2>1 DEF Sign
  <2>3. k = claims[p] \/ (claims[p] \in {Unsigned(w), Signed(w)} /\ k = None)
    BY <2>1
  <2>4. Settled(p)
    BY <1>2, <1>7 DEF Settled
  <2> QED BY <1>2, <1>5, <2>2, <2>3, <2>4, Leaves
<1>8. CASE ~Terminal(Cell(w))
  <2>1. PICK k : k = IF claims[p] = Unsigned(w) THEN Signed(w) ELSE claims[p]
    OBVIOUS
  <2>2. claims' = [claims EXCEPT ![p] = k] /\ Step(w, "run")
    BY <1>2, <1>8, <2>1 DEF Sign
  <2>3. k = claims[p] \/ {k, claims[p]} \subseteq {None, Unsigned(w), Signed(w)}
    BY <2>1
  <2>4. s # "complete"
    BY <1>2, <1>3, <1>8 DEF Terminal
  <2>5. StaysAt(w, "run", p, k, s)
    BY <1>2, <1>3, <1>4, <1>5, <1>6, <2>1, <2>2, <2>3, <2>4 DEF StaysAt
  <2> QED BY <2>5, Stays
<1> QED BY <1>7, <1>8

\* The worker writes the cell's result.
LEMMA EndCellStep ==
    ASSUME ValidationAssumption, ValidationInv, NEW w \in Workers, EndCell(w)
    PROVE  ValidationInv'
<1> USE DEF Alive, Is
<1>1. /\ RunFilesFit /\ (w \in Crew => ClaimFits(w)) /\ Cell(w) \in Positions
      /\ ~orphaned => CrewWorkFits(w) /\ w \in Crew
  BY WorkerKnows DEF EndCell
<1>2. PICK p \in Positions : p = Cell(w)
  BY <1>1
<1>3. PICK k : k = claims[p]
  OBVIOUS
<1>4. claims' = [claims EXCEPT ![p] = k]
  BY <1>1, <1>3, SameEntries DEF EndCell
<1>5. PICK s \in {"complete", "failed"} : result' = [result EXCEPT ![p] = s]
  BY <1>2 DEF EndCell
<1>6. w \in Crew => k = Signed(w)
  BY <1>1, <1>2, <1>3 DEF ClaimFits, Owns, EndCell
<1>7. StaysAt(w, "report", p, k, s)
  BY <1>2, <1>3, <1>4, <1>5, <1>6 DEF StaysAt, EndCell
<1> QED BY <1>7, Stays

\* The worker removes its claim and goes on to the next position.
LEMMA ReleaseStep ==
    ASSUME ValidationAssumption, ValidationInv, NEW w \in Workers, Release(w)
    PROVE  ValidationInv'
<1> USE DEF Alive, Is
<1>1. /\ Cell(w) \in Positions
      /\ ~orphaned => CrewWorkFits(w) /\ w \in Crew
  BY WorkerKnows DEF Release
<1>2. PICK p \in Positions : p = Cell(w)
  BY <1>1
<1>3. PICK k : k = IF Owns(w, p) THEN None ELSE claims[p]
  OBVIOUS
<1>4. claims' = [claims EXCEPT ![p] = k] /\ Leave(w)
  BY <1>2, <1>3 DEF Release
<1>5. k # Signed(w)
  BY <1>3, ClaimValues DEF Owns
<1>6. k = claims[p] \/ (claims[p] \in {Unsigned(w), Signed(w)} /\ k = None)
  BY <1>3 DEF Owns
<1>7. orphaned \/ Settled(p)
  BY <1>1, <1>2 DEF CrewWorkFits, Ended, Settled, Terminal, Release
<1>8. /\ UNCHANGED <<sup, result, timeouts, status, pause, lock, op, orphaned>>
      /\ ~Is(w, "run") /\ Alive(w)
  BY DEF Release
<1> QED BY <1>2, <1>4, <1>5, <1>6, <1>7, <1>8, Leaves

\* A worker dies at any of its steps, and leaves its claim.
LEMMA DieStep ==
    ASSUME ValidationAssumption, ValidationInv, NEW w \in Workers, Die(w)
    PROVE  ValidationInv'
<1> USE DEF Alive, Is
<1>1. /\ RunFilesFit /\ CrewRowFits(w, workers[w]) /\ workers[w] \in WorkerType
      /\ w \in Crew => ClaimFits(w) /\ sup.pc \notin Before
      /\ Cell(w) \in Positions /\ Ahead(w, Cell(w))
      /\ ~workers[w].finished /\ ~workers[w].handled
      /\ ~orphaned => SupervisionFits /\ CrewWorkFits(w) /\ w \in Crew /\ sup.pc \in Watching
  BY WorkerKnows DEF Die
<1>2. PICK p \in Positions : p = Cell(w)
  BY <1>1
<1>3. PICK k, s : k = claims[p] /\ s = result[p]
  OBVIOUS
<1>4. claims' = [claims EXCEPT ![p] = k] /\ result' = [result EXCEPT ![p] = s]
  BY <1>1, <1>3, SameEntries DEF Die, files
<1>5. PICK r : r = [workers[w] EXCEPT !.pc = "dead", !.todo = {}]
  OBVIOUS
<1>6. r \in WorkerType /\ r.pc = "dead" /\ ~r.handled /\ ~r.finished
  BY <1>1, <1>5 DEF WorkerType
<1>7. workers' = [workers EXCEPT ![w] = r]
  <2>1. \A v \in Workers : v \in {w} /\ Alive(v) <=> v = w
    BY DEF Die
  <2>2. PICK old : old = workers
    OBVIOUS
  <2>3. DOMAIN old = Workers /\ old = [v \in Workers |-> old[v]]
    BY <1>1, <2>2 DEF RunFilesFit
  <2>4. workers' = [v \in Workers |-> IF v = w THEN r ELSE old[v]]
    BY <1>5, <2>1, <2>2 DEF Die, Stopped
  <2>5. workers' = [old EXCEPT ![w] = r]
    BY <2>3, <2>4
  <2> QED BY <2>2, <2>5
<1>8. workers'[w] = r /\ Crew' = Crew
  BY <1>1, <1>7, OneRow DEF Crew, Die
<1>9. CrewRowFits(w, r)
  <2>1. r # NoWorker
    BY <1>6 DEF NoWorker
  <2> QED BY <1>1, <1>6, <2>1 DEF CrewRowFits, Die
<1>10. w \in Crew => ClaimFits(w)'
  BY <1>1, <1>6, <1>8 DEF ClaimFits, Die
<1>11. ~orphaned => CrewWorkFits(w)'
  BY <1>6, <1>8 DEF CrewWorkFits
<1>12. ASSUME ~orphaned, NEW q \in Positions PROVE Covered(q)'
  <2>1. Covers(w, q)'
    BY <1>6, <1>8 DEF Covers
  <2> QED BY <1>1, <1>8, <1>12, <2>1 DEF Covered
<1>13. WorkStep(w, r, p, k, s)
  BY <1>2, <1>3, <1>4, <1>6, <1>7, <1>9, <1>10, <1>11, <1>12 DEF WorkStep, Die, files
<1> QED BY <1>13, CrewStep DEF Die

\* What stopping some of the workers leaves of them.
LEMMA StoppedRows ==
    ASSUME ValidationAssumption, RunFilesFit, \A w \in Workers : CrewRowFits(w, workers[w]),
           NEW ws, workers' = Stopped(ws)
    PROVE  /\ DOMAIN workers' = Workers /\ workers' = [w \in Workers |-> workers'[w]]
           /\ \A w \in Workers :
                 /\ CrewRowFits(w, workers'[w]) /\ (workers'[w] = NoWorker <=> workers[w] = NoWorker)
                 /\ workers'[w].handled = workers[w].handled
                 /\ workers'[w].finished = workers[w].finished
                 /\ workers'[w].restarts = workers[w].restarts
                 /\ w \in ws => ~Alive(w)'
                 /\ workers'[w] = workers[w] \/ (w \in ws /\ Alive(w) /\ ~Alive(w)')
<1>1. PICK new : new = Stopped(ws)
  OBVIOUS
<1>2. DOMAIN new = Workers /\ new = [w \in Workers |-> new[w]]
  BY <1>1 DEF Stopped
<1>3. ASSUME NEW w \in Workers
      PROVE  /\ CrewRowFits(w, new[w]) /\ (new[w] = NoWorker <=> workers[w] = NoWorker)
             /\ new[w].handled = workers[w].handled /\ new[w].finished = workers[w].finished
             /\ new[w].restarts = workers[w].restarts
             /\ w \in ws => new[w].pc \in {"none", "dead"}
             /\ new[w] = workers[w] \/ (w \in ws /\ Alive(w) /\ new[w].pc = "dead")
  <2>1. PICK r : r = workers[w]
    OBVIOUS
  <2>2. CASE w \in ws /\ Alive(w)
    <3>1. r \in WorkerType /\ w[1] <= sup.attempt /\ r.pc \notin {"none", "dead"}
      BY <2>1, <2>2 DEF CrewRowFits, Alive
    <3>2. new[w] = [r EXCEPT !.pc = "dead", !.todo = {}]
      BY <1>1, <2>1, <2>2 DEF Stopped
    <3>3. /\ new[w] \in WorkerType /\ new[w].pc = "dead" /\ new[w].handled = r.handled
          /\ new[w].finished = r.finished /\ new[w].restarts = r.restarts
      BY <3>1, <3>2 DEF WorkerType
    <3>4. new[w] # NoWorker /\ r # NoWorker
      BY <3>1, <3>3 DEF NoWorker
    <3> QED BY <2>1, <2>2, <3>1, <3>3, <3>4 DEF CrewRowFits
  <2>3. CASE ~(w \in ws /\ Alive(w))
    <3>1. new[w] = workers[w]
      BY <1>1, <2>3 DEF Stopped
    <3> QED BY <2>3, <3>1 DEF Alive
  <2> QED BY <2>2, <2>3
<1>4. workers' = new
  BY <1>1
<1> QED BY <1>2, <1>3, <1>4 DEF Alive

-----------------------------------------------------------------------------
\* The status between the first and the last step of a supervisor.
LEMMA OperatorWaits ==
    ASSUME OperatorFits, sup.pc \notin {"gone"}, sup'.pc # "gone",
           sup'.attempt = sup.attempt, UNCHANGED op,
           sup'.pc # "unlock" => sup.pc # "unlock",
           \/ status' = status /\ (sup.pc = "start" => sup'.pc = "start")
           \/ /\ status' \in StatusType /\ status'.by = sup.attempt
              /\ status'.state # "not-started"
              /\ sup'.pc # "unlock" => status'.state \in ActiveStates
    PROVE  OperatorFits'
<1>1. op.pc \notin {"start", "resume"} /\ status.state # "not-started"
  BY DEF OperatorFits
<1> QED BY <1>1 DEF OperatorFits

\* A supervisor that ends leaves the status it wrote.
LEMMA OperatorAfter ==
    ASSUME ValidationAssumption, OperatorFits, sup.pc # "gone",
           sup' = Supervisor("gone", sup.attempt), UNCHANGED status,
           op' = op \/ op' = NoCommand
    PROVE  OperatorFits'
<1>1. op.pc \notin {"start", "resume"} /\ status.state # "not-started"
  BY DEF OperatorFits
<1>2. sup'.pc = "gone" /\ sup'.attempt = sup.attempt
  BY DEF Supervisor
<1>3. NoCommand \in [pc : Commands, doc : StatusType] /\ NoCommand.pc = "idle"
  <2>1. MaxAttempts \in Nat
    BY DEF ValidationAssumption, RuntimeAccepted
  <2> QED BY <2>1 DEF NoCommand, NoStatus, Commands, StatusType
<1> QED BY <1>1, <1>2, <1>3 DEF OperatorFits

\* A status that the supervisor writes names it.
LEMMA WrittenFits ==
    ASSUME RunFilesFit, NEW state \in ActiveStates \cup StoppedStates, WriteStatus(state)
    PROVE  /\ status' \in StatusType /\ status'.by = sup.attempt /\ status'.state = state
           /\ status'.state # "not-started"
<1>1. sup.attempt \in 0..MaxAttempts /\ Counted \in {"unknown", "incomplete", "complete"}
  BY DEF RunFilesFit, SupervisorType, Counted
<1> QED BY <1>1 DEF WriteStatus, StatusType, ActiveStates, StoppedStates

\* A step of the supervisor that touches neither the workers nor their files.
LEMMA SupervisorStep ==
    ASSUME ValidationAssumption, ValidationInv,
           UNCHANGED <<workers, claims, result, timeouts, pause, op, orphaned>>,
           sup' \in SupervisorType, sup'.attempt = sup.attempt, lock' \in 0..sup.attempt,
           sup'.pending = sup.pending, sup'.overtaken = sup.overtaken,
           sup.pc # "gone", sup'.pc \notin {"gone", "exhausted"}, OperatorFits',
           sup'.pc \in Before => sup.pc \in Before,
           sup'.pc \in Watching \cup {"aggregate"} => sup.pc \in Watching,
           sup'.pc \notin {"prepare", "spawn"}, SupFits', orphaned \/ VictimFits',
           sup'.pc \notin Watching => orphaned \/ \A w \in Workers : ~Alive(w),
           sup'.pc = "aggregate" =>
              \/ orphaned
              \/ (Begun \/ sup.pending = {}) /\ \A w \in Crew : workers[w].handled
    PROVE  ValidationInv'
<1>1. RunFilesFit /\ (\A w \in Workers : CrewRowFits(w, workers[w])) /\ (\A w \in Crew : ClaimFits(w))
      /\ (orphaned \/ SupervisionFits)
  BY DEF ValidationInv
<1>2. Crew' = Crew /\ Crew \subseteq Workers
  BY DEF Crew
<1>3. RunFilesFit'
  <2>1. sup'.attempt # 0
    BY <1>1 DEF RunFilesFit
  <2> QED BY <1>1, <2>1 DEF RunFilesFit
<1>4. \A w \in Workers : CrewRowFits(w, workers[w])'
  BY <1>1 DEF CrewRowFits
<1>5. \A w \in Crew' : ClaimFits(w)'
  BY <1>1, <1>2 DEF ClaimFits, Is, Alive, Cell, Owns
<1>6. ASSUME ~orphaned PROVE SupervisionFits'
  <2>1. SupervisionFits
    BY <1>1, <1>6
  <2>2. \A p \in Positions : (Settled(p)' <=> Settled(p)) /\ (Ended(p)' <=> Ended(p))
                             /\ (Pends(p)' <=> Pends(p)) /\ (Covered(p)' <=> Covered(p))
    BY <1>2 DEF Settled, Ended, Pends, Covered, Terminal, UsedUp, Covers, Ahead, Alive
  <2>3. ASSUME NEW w \in Workers PROVE CrewWorkFits(w)'
    <3>1. CrewWorkFits(w) /\ Cell(w)' = Cell(w)
      BY <2>1 DEF SupervisionFits, Cell
    <3>2. Alive(w) => Cell(w) \in Positions
      BY <1>1, CellIsAhead
    <3>3. \A p \in Positions : Owns(w, p)' <=> Owns(w, p)
      BY DEF Owns
    <3>4. workers[w].pc = "report" => Ended(Cell(w))'
      BY <2>2, <3>1, <3>2 DEF CrewWorkFits, Is, Alive
    <3> QED BY <1>2, <1>6, <3>1, <3>3, <3>4 DEF CrewWorkFits, Is, Alive
  <2>4. Begun' <=> Begun
    BY <1>2 DEF Begun
  <2>5. sup'.pc \in {"aggregate"} \cup Watching =>
           /\ Begun \/ sup.pending = {} \/ (pause /\ sup'.pc # "aggregate")
           /\ Begun => \A p \in Positions : Covered(p)
    BY <1>6, <2>1 DEF SupervisionFits, Watching, Holding, Handling
  <2>6. sup'.pc \in {"aggregate"} \cup Watching =>
           /\ \A p \in Positions : Settled(p) \/ Pends(p)
           /\ \A p \in Positions : claims[p] # None => claims[p].by \in Crew
    BY <2>1 DEF SupervisionFits
  <2>7. VictimFits' /\ (sup'.pc = "aggregate" => \A w \in Crew : workers[w].handled)
    BY <1>6
  <2> QED BY <1>2, <2>2, <2>3, <2>4, <2>5, <2>6, <2>7 DEF SupervisionFits
<1> QED BY <1>2, <1>3, <1>4, <1>5, <1>6 DEF ValidationInv

\* The end of the supervisor.
LEMMA SupervisorEnd ==
    ASSUME ValidationAssumption, ValidationInv, sup.pc # "gone",
           sup' = Supervisor("gone", sup.attempt), lock' \in 0..sup.attempt,
           UNCHANGED <<claims, result, timeouts, status>>,
           op' = op \/ op' = NoCommand, workers' = workers \/ workers' = Stopped(Workers),
           orphaned' \/ \A w \in Workers : ~Alive(w)'
    PROVE  ValidationInv'
<1>1. RunFilesFit /\ OperatorFits /\ (\A w \in Workers : CrewRowFits(w, workers[w]))
      /\ (\A w \in Crew : ClaimFits(w))
  BY DEF ValidationInv
<1>2. sup'.pc = "gone" /\ sup'.attempt = sup.attempt /\ sup' \in SupervisorType
  <2>1. Queue[1] \in Positions /\ sup.attempt \in 0..MaxAttempts
    BY <1>1, QueueFits DEF RunFilesFit, SupervisorType
  <2> QED BY <2>1 DEF Supervisor, SupervisorType, SupervisorSteps
<1>3. Crew' = Crew /\ Crew \subseteq Workers
  BY <1>2 DEF Crew
<1>4. DOMAIN workers' = Workers /\ workers' = [w \in Workers |-> workers'[w]]
      /\ \A w \in Workers : workers'[w] = workers[w] \/ workers'[w].pc \in {"none", "dead"}
  <2>1. CASE workers' = workers
    BY <1>1, <2>1 DEF RunFilesFit
  <2>2. CASE workers' = Stopped(Workers)
    BY <1>1, <2>2, StoppedRows DEF Alive
  <2> QED BY <2>1, <2>2
<1>5. \A w \in Workers : CrewRowFits(w, workers[w])'
  <2>1. ASSUME workers' = Stopped(Workers) PROVE \A w \in Workers : CrewRowFits(w, workers'[w])
    BY <1>1, <2>1, StoppedRows
  <2> QED BY <1>1, <1>2, <2>1 DEF CrewRowFits
<1>6. RunFilesFit'
  BY <1>1, <1>2, <1>4 DEF RunFilesFit
<1>7. OperatorFits'
  BY <1>1, OperatorAfter
<1>8. \A w \in Crew' : ClaimFits(w)'
  <2>1. ASSUME NEW w \in Crew PROVE ClaimFits(w)'
    <3>1. CASE workers'[w] = workers[w]
      BY <1>1, <1>2, <3>1 DEF ClaimFits, Is, Cell, Owns, Before
    <3>2. CASE workers'[w].pc \in {"none", "dead"}
      BY <1>2, <3>2 DEF ClaimFits, Is, Before
    <3> QED BY <1>3, <1>4, <3>1, <3>2
  <2> QED BY <1>3, <2>1
<1>9. SupFits'
  BY <1>2 DEF SupFits, Holding, Handling
<1>10. ASSUME ~orphaned' PROVE SupervisionFits'
  <2>1. \A w \in Workers : ~Alive(w)'
    BY <1>10
  <2>2. \A w \in Workers : CrewWorkFits(w)'
    BY <1>2, <2>1 DEF CrewWorkFits, Is, Alive, Watching, Holding, Handling
  <2> QED BY <1>2, <2>2 DEF SupervisionFits, VictimFits, Watching, Holding, Handling
<1> QED BY <1>3, <1>5, <1>6, <1>7, <1>8, <1>9, <1>10 DEF ValidationInv

\* A step of the supervisor that only moves on keeps what it holds.
LEMMA GotoFits ==
    ASSUME RunFilesFit, NEW step \in SupervisorSteps, Goto(step)
    PROVE  /\ sup' \in SupervisorType /\ sup'.pc = step /\ sup'.attempt = sup.attempt
           /\ sup'.pending = sup.pending /\ sup'.overtaken = sup.overtaken
           /\ sup'.worker = sup.worker /\ sup'.victim = sup.victim
           /\ sup'.released = sup.released
<1>1. sup \in SupervisorType
  BY DEF RunFilesFit
<1> QED BY <1>1 DEF Goto, SupervisorType

\* Outside the watch of a supervisor no worker of the run is alive.
LEMMA NoneAtWork ==
    ASSUME ValidationInv, sup.pc \notin Watching
    PROVE  orphaned \/ \A w \in Workers : ~Alive(w)
BY DEF ValidationInv, SupervisionFits, CrewWorkFits

\* The steps that only write the status or move on.
LEMMA PhaseSteps ==
    ASSUME ValidationAssumption, ValidationInv,
           \/ TakeLock \/ SeePause \/ WritePaused \/ EndIteration \/ Aggregate
           \/ Analyze \/ Retain
    PROVE  ValidationInv'
<1>1. RunFilesFit /\ OperatorFits /\ SupFits /\ (orphaned \/ SupervisionFits) /\ sup.attempt \in Nat
      /\ lock \in 0..sup.attempt
  BY DEF ValidationInv, RunFilesFit, SupervisorType
<1> DEFINE Plain == {"index", "stopping", "unlock", "aggregate", "loop", "analyze", "retain"}
<1>2. /\ sup'.pc \in Plain /\ sup' \in SupervisorType /\ sup'.attempt = sup.attempt
      /\ sup'.pending = sup.pending /\ sup'.overtaken = sup.overtaken
  <2>1. Goto("loop") \/ \E step \in Plain : Goto(step)
    <3>1. ASSUME UNCHANGED sup, sup.pc = "loop" PROVE Goto("loop")
      <4>1. sup \in SupervisorType
        BY <1>1 DEF RunFilesFit
      <4> QED BY <3>1, <4>1 DEF Goto, SupervisorType
    <3> QED BY <3>1 DEF TakeLock, SeePause, WritePaused, EndIteration, Aggregate, Analyze,
                        Retain, At
  <2>2. PICK step \in Plain : Goto(step)
    BY <2>1
  <2>3. step \in SupervisorSteps
    BY DEF SupervisorSteps, Before, Watching
  <2> QED BY <1>1, <2>2, <2>3, GotoFits
<1>3. \/ \E state \in ActiveStates \cup StoppedStates :
             WriteStatus(state) /\ (state \in ActiveStates \/ sup'.pc = "unlock")
      \/ status' = status /\ sup.pc = "loop"
  <2>1. sup \in SupervisorType
    BY <1>1 DEF RunFilesFit
  <2>2. Goto("unlock") => sup'.pc = "unlock"
    BY <2>1 DEF Goto, SupervisorType
  <2>3. {"preparing-index", "pausing", "running", "postprocessing", "retaining"}
            \subseteq ActiveStates
        /\ {"paused", "failed", "complete"} \subseteq StoppedStates
    BY DEF ActiveStates, StoppedStates
  <2>4. CASE TakeLock
    BY <2>3, <2>4 DEF TakeLock
  <2>5. CASE SeePause
    BY <2>3, <2>5 DEF SeePause
  <2>6. CASE WritePaused \/ Retain
    BY <2>2, <2>3, <2>6 DEF WritePaused, Retain
  <2>7. CASE EndIteration
    BY <2>3, <2>7 DEF EndIteration, At
  <2>8. CASE Aggregate
    BY <2>2, <2>3, <2>8 DEF Aggregate
  <2>9. CASE Analyze
    BY <2>3, <2>9 DEF Analyze
  <2> QED BY <2>4, <2>5, <2>6, <2>7, <2>8, <2>9
<1>4. /\ sup.pc \in {"start", "loop", "paused", "aggregate", "analyze", "retain"}
      /\ sup'.pc = "index" <=> sup.pc = "start"
      /\ sup'.pc \in {"loop", "stopping", "aggregate"} <=> sup.pc = "loop"
      /\ UNCHANGED <<workers, claims, result, timeouts, pause, op, orphaned>>
      /\ lock' \in 0..sup.attempt
  <2>1. sup \in SupervisorType
    BY <1>1 DEF RunFilesFit
  <2> QED BY <1>1, <2>1 DEF TakeLock, SeePause, WritePaused, EndIteration, Aggregate, Analyze,
                     Retain, At, Goto, files, SupervisorType
<1>5. OperatorFits'
  <2>1. CASE status' = status /\ sup.pc = "loop"
    BY <1>1, <1>2, <1>4, <2>1, OperatorWaits
  <2>2. ASSUME NEW state \in ActiveStates \cup StoppedStates, WriteStatus(state),
               state \in ActiveStates \/ sup'.pc = "unlock"
        PROVE  OperatorFits'
    <3>1. /\ status' \in StatusType /\ status'.by = sup.attempt /\ status'.state = state
          /\ status'.state # "not-started"
      BY <1>1, <2>2, WrittenFits
    <3> QED BY <1>1, <1>2, <1>4, <2>2, <3>1, OperatorWaits
  <2> QED BY <1>3, <2>1, <2>2
<1>6. SupFits' /\ VictimFits'
  BY <1>2 DEF SupFits, VictimFits, Holding, Handling
<1>7. sup'.pc \notin Watching => orphaned \/ \A w \in Workers : ~Alive(w)
  <2>1. CASE sup.pc \notin Watching
    BY <2>1, NoneAtWork
  <2>2. CASE sup.pc \in Watching /\ sup'.pc \notin Watching
    <3>1. sup.pc = "loop" /\ sup'.pc = "aggregate"
      BY <1>4, <2>2 DEF Watching, Holding, Handling
    <3>2. \A w \in Crew : workers[w].handled
      BY <1>2, <3>1 DEF TakeLock, SeePause, WritePaused, EndIteration, Aggregate, Analyze,
                        Retain, At, Goto, SupervisorType, WriteStatus
    <3>3. \A w \in Workers : Alive(w) => ~workers[w].handled
      BY DEF ValidationInv, CrewRowFits, Alive
    <3>4. orphaned \/ \A w \in Workers : Alive(w) => w \in Crew
      BY <1>1 DEF SupervisionFits, CrewWorkFits
    <3> QED BY <3>2, <3>3, <3>4
  <2> QED BY <2>1, <2>2
<1>8. sup'.pc = "aggregate" =>
         orphaned \/ ((Begun \/ sup.pending = {}) /\ \A w \in Crew : workers[w].handled)
  <2>1. ASSUME sup'.pc = "aggregate", ~orphaned
        PROVE  (Begun \/ sup.pending = {}) /\ \A w \in Crew : workers[w].handled
    <3>1. sup.pc = "loop"
      BY <1>4, <2>1
    <3>2. EndIteration /\ Goto("aggregate")
      BY <1>2, <2>1, <3>1 DEF TakeLock, SeePause, WritePaused, EndIteration, Aggregate,
                  Analyze, Retain, At, Goto, SupervisorType
    <3>3. (\A w \in Crew : workers[w].handled) /\ (pause /\ sup.pending # {} => Begun)
      BY <1>2, <2>1, <3>1, <3>2 DEF EndIteration, Begun
    <3>4. Begun \/ sup.pending = {} \/ pause
      BY <1>1, <2>1, <3>1 DEF SupervisionFits, Watching
    <3> QED BY <3>3, <3>4
  <2> QED BY <2>1
<1>9. /\ sup'.pc \in Before => sup.pc \in Before
      /\ sup'.pc \in Watching \cup {"aggregate"} => sup.pc \in Watching
      /\ sup'.pc \notin {"prepare", "spawn", "gone", "exhausted"} /\ sup.pc # "gone"
  BY <1>2, <1>4 DEF Before, Watching, Holding, Handling
<1> QED BY <1>2, <1>4, <1>5, <1>6, <1>7, <1>8, <1>9, SupervisorStep

\* The supervisor ends: at once, at the end of its run, killed, or with its host.
LEMMA EndSteps ==
    ASSUME ValidationAssumption, ValidationInv, ExitEarly \/ Unlock \/ KillSupervisor \/ StopHost
    PROVE  ValidationInv'
<1>1. RunFilesFit /\ \A w \in Workers : CrewRowFits(w, workers[w])
  BY DEF ValidationInv
<1>2. /\ sup.pc # "gone" /\ sup' = Supervisor("gone", sup.attempt)
      /\ UNCHANGED <<claims, result, timeouts, status>>
      /\ op' = op \/ op' = NoCommand
      /\ workers' = workers \/ (StopHost /\ workers' = Stopped(Workers))
  BY DEF ExitEarly, EvidenceRefused, Unlock, KillSupervisor, StopHost, At, End, files
<1>3. lock' \in 0..sup.attempt
  <2>1. lock \in 0..sup.attempt /\ sup.attempt \in Nat
    BY <1>1 DEF RunFilesFit, SupervisorType
  <2> QED BY <2>1 DEF ExitEarly, EvidenceRefused, Unlock, KillSupervisor, StopHost
<1>4. orphaned' \/ \A w \in Workers : ~Alive(w)'
  <2>1. CASE ExitEarly \/ Unlock
    <3>1. sup.pc \notin Watching /\ UNCHANGED <<orphaned, workers>>
      BY <2>1 DEF ExitEarly, EvidenceRefused, Unlock, At, Watching, Holding, Handling
    <3> QED BY <3>1, NoneAtWork DEF Alive
  <2>2. CASE KillSupervisor
    BY <2>2 DEF KillSupervisor, Alive
  <2>3. CASE StopHost
    <3>1. workers' = Stopped(Workers)
      BY <2>3 DEF StopHost
    <3> QED BY <1>1, <3>1, StoppedRows
  <2> QED BY <2>1, <2>2, <2>3
<1> QED BY <1>2, <1>3, <1>4, SupervisorEnd

\* The steps that choose a worker or a position to see to.
LEMMA ChoiceSteps ==
    ASSUME ValidationAssumption, ValidationInv, SeeTimeout \/ CheckVictim \/ AllowAttempt
    PROVE  ValidationInv'
<1> USE DEF Alive, Is
<1>1. RunFilesFit /\ OperatorFits /\ SupFits /\ (orphaned \/ SupervisionFits) /\ sup \in SupervisorType
      /\ lock \in 0..sup.attempt /\ (\A w \in Workers : CrewRowFits(w, workers[w]))
  BY DEF ValidationInv, RunFilesFit
<1>2. UNCHANGED <<workers, claims, result, timeouts, status, pause, op, orphaned, lock>>
  BY DEF SeeTimeout, CheckVictim, AllowAttempt, files
<1>3. CASE SeeTimeout
  <2>1. PICK w \in Crew : /\ sup.pc = "loop" /\ workers[w].pc \in {"run", "report"}
                          /\ sup' = [sup EXCEPT !.pc = "kill", !.worker = w, !.victim = Cell(w)]
    BY <1>3 DEF SeeTimeout, At
  <2>2. w \in Workers /\ Cell(w) \in Positions /\ Ahead(w, Cell(w)) /\ ~workers[w].handled
    BY <1>1, <2>1, CellIsAhead DEF Crew
  <2>3. /\ sup' \in SupervisorType /\ sup'.pc = "kill" /\ sup'.attempt = sup.attempt
        /\ sup'.pending = sup.pending /\ sup'.overtaken = sup.overtaken
        /\ sup'.worker = w /\ sup'.victim = Cell(w)
    BY <1>1, <2>1, <2>2 DEF SupervisorType, SupervisorSteps, Watching
  <2>4. OperatorFits'
    BY <1>1, <1>2, <2>1, <2>3, OperatorWaits
  <2>5. SupFits'
    BY <1>2, <2>1, <2>2, <2>3 DEF SupFits, Holding, Handling, Crew
  <2>6. ASSUME ~orphaned PROVE VictimFits'
    <3>1. CrewWorkFits(w) /\ workers[w].todo \subseteq sup.pending
      BY <1>1, <2>1, <2>2, <2>6 DEF SupervisionFits, CrewWorkFits
    <3>2. Pends(Cell(w))'
      BY <1>2, <2>2, <2>3, <3>1 DEF Pends, Ahead, Cell
    <3>3. \/ Ended(Cell(w))'
          \/ Is(w, "run") /\ Cell(w)' = Cell(w)
      BY <1>2, <2>1, <2>3, <3>1 DEF CrewWorkFits, Ended, Cell
    <3>4. Cell(w)' = Cell(w)
      BY <1>2 DEF Cell
    <3> QED BY <1>2, <2>3, <3>2, <3>3, <3>4 DEF VictimFits
  <2> QED BY <1>1, <1>2, <2>1, <2>3, <2>4, <2>5, <2>6, SupervisorStep
             DEF Before, Watching, Holding, Handling
<1>4. ASSUME NEW v \in Positions, NEW step \in Handling,
             sup' = [sup EXCEPT !.pc = step, !.victim = v],
             sup.pc \in {"fail", "archive"}, v = sup.victim \/ step = "exit",
             step = "move" => timeouts[sup.victim] + 1 < TimeoutAttempts
      PROVE  ValidationInv'
  <2>1. /\ sup' \in SupervisorType /\ sup'.pc = step /\ sup'.attempt = sup.attempt
        /\ sup'.pending = sup.pending /\ sup'.overtaken = sup.overtaken
        /\ sup'.worker = sup.worker /\ sup'.victim = v
    <3>1. step \in SupervisorSteps
      BY DEF SupervisorSteps, Watching, Holding
    <3> QED BY <1>1, <1>4, <3>1 DEF SupervisorType
  <2>2. OperatorFits'
    BY <1>1, <1>2, <1>4, <2>1, OperatorWaits DEF Handling
  <2>3. SupFits'
    BY <1>1, <1>2, <1>4, <2>1 DEF SupFits, Holding, Handling, Crew
  <2>4. ASSUME ~orphaned PROVE VictimFits'
    <3>1. CASE step = "exit"
      BY <2>1, <3>1 DEF VictimFits
    <3>2. CASE step # "exit"
      <4>1. Ended(sup.victim)' <=> Ended(sup.victim)
        BY <1>2, <1>4, <2>1, <3>2 DEF Ended
      <4>2. Pends(sup.victim)' <=> Pends(sup.victim)
        BY <1>4, <2>1, <3>2 DEF Pends
      <4> QED BY <1>1, <1>2, <1>4, <2>1, <2>4, <3>2, <4>1, <4>2 DEF VictimFits, SupervisionFits, Handling
    <3> QED BY <3>1, <3>2
  <2> QED BY <1>1, <1>2, <1>4, <2>1, <2>2, <2>3, <2>4, SupervisorStep
             DEF Before, Watching, Holding, Handling
<1>5. CASE CheckVictim
  <2>1. PICK step \in {"archive", "write"} : sup' = [sup EXCEPT !.pc = step]
    BY <1>5 DEF CheckVictim, Goto
  <2>2. sup' = [sup EXCEPT !.pc = step, !.victim = sup.victim] /\ sup.victim \in Positions
    BY <1>1, <2>1 DEF SupervisorType
  <2> QED BY <1>4, <1>5, <2>1, <2>2 DEF CheckVictim, At, Handling
<1>6. CASE AllowAttempt
  <2>1. CASE timeouts[sup.victim] + 1 < TimeoutAttempts /\ result[sup.victim] = "timeout"
    <3>1. sup' = [sup EXCEPT !.pc = "move"]
      BY <1>6, <2>1 DEF AllowAttempt, NextAttempt, Goto
    <3>2. sup' = [sup EXCEPT !.pc = "move", !.victim = sup.victim] /\ sup.victim \in Positions
      BY <1>1, <3>1 DEF SupervisorType
    <3> QED BY <1>4, <1>6, <2>1, <3>2 DEF AllowAttempt, At, Handling
  <2>2. CASE ~(timeouts[sup.victim] + 1 < TimeoutAttempts /\ result[sup.victim] = "timeout")
    <3>1. sup' = [sup EXCEPT !.pc = "exit", !.victim = Queue[1]] /\ Queue[1] \in Positions
      BY <1>6, <2>2, QueueFits DEF AllowAttempt, NextAttempt
    <3> QED BY <1>4, <1>6, <3>1 DEF AllowAttempt, At, Handling
  <2> QED BY <2>1, <2>2
<1> QED BY <1>3, <1>5, <1>6

\* A step of the supervisor at its workers: it takes claims away from workers
\* that are not at work, or ends positions, and may start a worker anew.
RowMoves(w) ==
    /\ CrewRowFits(w, workers'[w]) /\ (workers[w] # NoWorker => workers'[w] # NoWorker)
    /\ \/ workers'[w] = workers[w]
       \/ /\ ~Alive(w)' /\ workers'[w].handled = workers[w].handled
          /\ workers'[w].finished = workers[w].finished
       \/ /\ w \in Crew /\ (\A p \in Positions : ~Owns(w, p))
          /\ Alive(w)' => workers'[w].pc = "look" /\ workers'[w].todo = sup.pending
ClaimMoves(p) ==
    \/ claims'[p] = claims[p]
    \/ claims'[p] = None /\ \E w \in Workers : Owns(w, p) /\ ~Alive(w)'
ResultMoves(p) ==
    (result'[p] = "complete" => result[p] = "complete") /\ (Ended(p) => Ended(p)')
StillCovered == \A p \in Positions : (Settled(p)' \/ Pends(p)) /\ Covered(p)'
FilesMove ==
    /\ DOMAIN workers' = Workers /\ workers' = [w \in Workers |-> workers'[w]]
    /\ claims' \in [Positions -> [by : Workers, signed : BOOLEAN] \cup {None}]
    /\ result' \in [Positions -> CellResults]
    /\ timeouts' \in [Positions -> 0..(TimeoutAttempts - 1)]

\* A step of the supervisor at its watch keeps the invariant, when it ends
\* workers, takes away claims of workers that ended, replaces a worker by one
\* that has all of the run ahead, or writes the results of its victim.
LEMMA WatchStep ==
    ASSUME ValidationAssumption, ValidationInv,
           UNCHANGED <<status, pause, op, orphaned, lock>>,
           sup' \in SupervisorType, sup'.attempt = sup.attempt, sup'.pending = sup.pending,
           sup.pc \in Watching, sup'.pc \in Watching, FilesMove,
           \A w \in Workers : RowMoves(w),
           \A p \in Positions : ClaimMoves(p) /\ ResultMoves(p),
           SupFits', orphaned \/ VictimFits', orphaned \/ (Begun /\ StillCovered),
           \/ orphaned \/ sup'.pc # "exhausted"
           \/ workers'[sup'.worker].restarts = MaxRestarts
           \/ \A p \in Positions : Settled(p)'
    PROVE  ValidationInv'
<1>1. RunFilesFit /\ OperatorFits /\ (\A w \in Workers : CrewRowFits(w, workers[w]))
      /\ (\A w \in Crew : ClaimFits(w)) /\ (orphaned \/ SupervisionFits)
  BY DEF ValidationInv
<1>2. Crew' = Crew /\ Crew \subseteq Workers
  BY DEF Crew
<1>3. \A p \in Positions : claims'[p] # None => claims'[p] = claims[p]
  BY DEF ClaimMoves
<1>4. RunFilesFit'
  <2>1. sup'.pc # "gone" => sup'.attempt # 0
    BY <1>1 DEF RunFilesFit, Watching, Holding, Handling
  <2>2. \A p \in Positions : claims'[p] # None => claims'[p].by[1] <= sup'.attempt
    BY <1>1, <1>3 DEF RunFilesFit
  <2>3. lock' \in 0..sup'.attempt
    BY <1>1 DEF RunFilesFit
  <2> QED BY <2>1, <2>2, <2>3 DEF RunFilesFit, FilesMove
<1>5. OperatorFits'
  BY <1>1, OperatorWaits DEF Watching, Holding, Handling
<1>6. \A w \in Workers : CrewRowFits(w, workers[w])'
  BY DEF CrewRowFits, RowMoves
<1>7. \A w \in Workers, p \in Positions : Owns(w, p)' => Owns(w, p)
  <2>1. \A w \in Workers : Signed(w) # None
    BY ClaimValues
  <2> QED BY <1>3, <2>1 DEF Owns, Signed
<1>8. ASSUME NEW w \in Workers, Alive(w)', NEW p \in Positions, Owns(w, p) PROVE Owns(w, p)'
  <2>1. ASSUME NEW v \in Workers, Owns(v, p) PROVE v = w
    <3>1. v # w => Signed(v) # Signed(w)
      BY ClaimValues
    <3> QED BY <1>8, <2>1, <3>1 DEF Owns
  <2>2. claims'[p] = claims[p]
    BY <1>8, <2>1 DEF ClaimMoves
  <2> QED BY <1>8, <2>2 DEF Owns, Signed
<1>9. ASSUME NEW w \in Workers, NEW p \in Positions, claims[p] = Unsigned(w)
      PROVE  claims'[p] = Unsigned(w)
  <2>1. \A v \in Workers : ~Owns(v, p)
    BY <1>9, ClaimValues DEF Owns
  <2> QED BY <1>9, <2>1 DEF ClaimMoves
<1>10. ASSUME NEW w \in Crew PROVE ClaimFits(w)'
  <2>1. ClaimFits(w) /\ w \in Workers /\ CrewRowFits(w, workers[w])
    BY <1>1, <1>2, <1>10
  <2>2. CASE workers'[w] = workers[w]
    <3>1. Cell(w)' = Cell(w)
      BY <2>2 DEF Cell
    <3>2. Alive(w) => Cell(w) \in Positions
      BY <2>1, CellIsAhead
    <3>3. Is(w, "sign")' => claims'[Cell(w)] = Unsigned(w)
      <4>1. ASSUME Is(w, "sign")' PROVE claims'[Cell(w)] = Unsigned(w)
        <5>1. claims[Cell(w)] = Unsigned(w) /\ Cell(w) \in Positions
          BY <2>1, <2>2, <3>2, <4>1 DEF ClaimFits, Is, Alive
        <5> QED BY <1>9, <2>1, <5>1
      <4> QED BY <4>1
    <3>4. workers'[w].pc \in {"run", "report"} => claims'[Cell(w)] = Signed(w)
      <4>1. ASSUME workers'[w].pc \in {"run", "report"} PROVE claims'[Cell(w)] = Signed(w)
        <5>1. Owns(w, Cell(w)) /\ Cell(w) \in Positions /\ Alive(w)'
          BY <2>1, <2>2, <3>2, <4>1 DEF ClaimFits, Alive
        <5> QED BY <1>8, <2>1, <5>1 DEF Owns, Signed
      <4> QED BY <4>1
    <3> QED BY <2>2, <3>1, <3>3, <3>4
            DEF ClaimFits, Is, Before, Watching, Holding, Handling, Unsigned, Owns, Signed
  <2>3. CASE ~Alive(w)' \/ workers'[w].pc = "look"
    BY <2>3 DEF ClaimFits, Is, Alive, Before, Watching, Holding, Handling
  <2> QED BY <2>1, <2>2, <2>3 DEF RowMoves
<1>11. ASSUME ~orphaned PROVE SupervisionFits'
  <2>1. SupervisionFits
    BY <1>1, <1>11
  <2>2. ASSUME NEW w \in Workers PROVE CrewWorkFits(w)'
    <3>1. CrewWorkFits(w) /\ CrewRowFits(w, workers[w]) /\ workers[w].todo \subseteq Turns
      BY <1>1, <2>1 DEF SupervisionFits, CrewRowFits, WorkerType
    <3>2. CASE workers'[w] = workers[w]
      <4>1. Cell(w)' = Cell(w) /\ (Alive(w)' <=> Alive(w))
        BY <3>2 DEF Cell, Alive
      <4>2. Alive(w) => Cell(w) \in Positions
        BY <3>1, CellIsAhead
      <4>3. Is(w, "report")' => Ended(Cell(w))'
        BY <3>1, <3>2, <4>1, <4>2 DEF CrewWorkFits, Is, Alive, ResultMoves
      <4>4. Is(w, "run")' => result'[Cell(w)] # "complete"
        BY <3>1, <3>2, <4>2 DEF CrewWorkFits, Is, Alive, ResultMoves
      <4> QED BY <1>2, <1>7, <3>1, <3>2, <4>1, <4>3, <4>4 DEF CrewWorkFits, Is
    <3>3. CASE ~Alive(w)' /\ workers'[w].handled = workers[w].handled
               /\ workers'[w].finished = workers[w].finished
      <4>1. ASSUME NEW p \in Positions, Owns(w, p)'
            PROVE  ~workers'[w].handled /\ ~workers'[w].finished
        <5>1. Owns(w, p)
          BY <1>7, <4>1
        <5>2. CASE Alive(w)
          BY <3>1, <3>3, <5>2 DEF CrewRowFits, Alive
        <5>3. CASE ~Alive(w)
          BY <3>1, <3>3, <5>1, <5>3 DEF CrewWorkFits
        <5> QED BY <5>2, <5>3
      <4> QED BY <3>3, <4>1 DEF CrewWorkFits, Is, Alive
    <3>4. CASE w \in Crew /\ (\A p \in Positions : ~Owns(w, p))
               /\ (Alive(w)' => workers'[w].pc = "look" /\ workers'[w].todo = sup.pending)
      BY <1>2, <1>7, <3>4 DEF CrewWorkFits, Is, Alive
    <3> QED BY <3>2, <3>3, <3>4 DEF RowMoves
  <2>3. Begun'
    BY <1>2, <1>11 DEF Begun, RowMoves
  <2>4. \A p \in Positions : Settled(p)' \/ Pends(p)'
    BY <1>11 DEF Pends, StillCovered
  <2>5. \A p \in Positions : claims'[p] # None => claims'[p].by \in Crew
    BY <1>3, <2>1 DEF SupervisionFits
  <2>6. sup'.pc \notin {"aggregate", "prepare", "spawn"}
    BY DEF Watching, Holding, Handling
  <2>7. \A p \in Positions : Covered(p)'
    BY <1>11 DEF StillCovered
  <2> QED BY <1>2, <1>11, <2>7, <2>2, <2>3, <2>4, <2>5, <2>6 DEF SupervisionFits
<1> QED BY <1>2, <1>4, <1>5, <1>6, <1>10, <1>11 DEF ValidationInv

\* What the supervisor knows while it watches its workers.
LEMMA SupervisorKnows ==
    ASSUME ValidationAssumption, ValidationInv, sup.pc \in Watching
    PROVE  /\ RunFilesFit /\ SupFits /\ \A w \in Workers : CrewRowFits(w, workers[w])
           /\ Crew \subseteq Workers /\ sup \in SupervisorType
           /\ \A w \in Crew : ~workers[w].handled => Begun
           /\ ~orphaned => /\ SupervisionFits /\ VictimFits
                           /\ \A w \in Workers : CrewWorkFits(w)
                           /\ \A p \in Positions : Settled(p) \/ Pends(p)
                           /\ Begun => \A p \in Positions : Covered(p)
<1>1. /\ RunFilesFit /\ SupFits /\ (\A w \in Workers : CrewRowFits(w, workers[w]))
      /\ orphaned \/ SupervisionFits
  BY DEF ValidationInv
<1>2. \A w \in Crew : ~workers[w].handled => Begun
  BY DEF Begun, NoWorker
<1>3. ~orphaned => /\ VictimFits /\ \A w \in Workers : CrewWorkFits(w)
                   /\ \A p \in Positions : Settled(p) \/ Pends(p)
                   /\ Begun => \A p \in Positions : Covered(p)
  BY <1>1 DEF SupervisionFits
<1> QED BY <1>1, <1>2, <1>3 DEF Crew, RunFilesFit

\* Only the claims of the worker that ended are removed.
LEMMA ReleasedFits ==
    ASSUME ValidationAssumption, RunFilesFit, NEW w \in Workers, claims' = Released(w), ~Alive(w)'
    PROVE  /\ claims' \in [Positions -> [by : Workers, signed : BOOLEAN] \cup {None}]
           /\ \A p \in Positions : ClaimMoves(p) /\ claims'[p] # Signed(w)
           /\ \A p \in Positions : claims[p] # None /\ ~claims[p].signed => claims'[p] = claims[p]
<1>1. claims \in [Positions -> [by : Workers, signed : BOOLEAN] \cup {None}]
  BY DEF RunFilesFit
<1>2. \A p \in Positions : claims'[p] = IF Owns(w, p) THEN None ELSE claims[p]
  BY DEF Released
<1>3. claims' \in [Positions -> [by : Workers, signed : BOOLEAN] \cup {None}]
  BY <1>1 DEF Released
<1>4. Signed(w) # None /\ Signed(w).signed
  BY ClaimValues
<1> QED BY <1>2, <1>3, <1>4 DEF ClaimMoves, Owns

\* The worker over its time is stopped before its claim is removed.
LEMMA KillTimedOutStep ==
    ASSUME ValidationAssumption, ValidationInv, KillTimedOut
    PROVE  ValidationInv'
<1>1. /\ sup.pc = "kill" /\ sup.pc \in Watching
      /\ UNCHANGED <<result, timeouts, status, pause, lock, op, orphaned>>
  BY DEF KillTimedOut, At, Watching
<1>2. /\ RunFilesFit /\ SupFits /\ \A w \in Workers : CrewRowFits(w, workers[w])
      /\ Crew \subseteq Workers /\ \A w \in Crew : ~workers[w].handled => Begun
      /\ ~orphaned => /\ SupervisionFits /\ VictimFits
                      /\ \A p \in Positions : Settled(p) \/ Pends(p)
                      /\ Begun => \A p \in Positions : Covered(p)
  BY <1>1, SupervisorKnows
<1>3. PICK w \in Crew : w = sup.worker
  BY <1>1, <1>2 DEF SupFits
<1>4. ~workers[w].handled /\ w \in Workers /\ Begun
  BY <1>1, <1>2, <1>3 DEF SupFits
<1>5. /\ sup' \in SupervisorType /\ sup'.pc = "fail" /\ sup'.attempt = sup.attempt
      /\ sup'.pending = sup.pending /\ sup'.overtaken = sup.overtaken
      /\ sup'.worker = w /\ sup'.victim = sup.victim
  BY <1>2, <1>3, GotoFits DEF KillTimedOut, SupervisorSteps, Watching, Holding, Handling
<1>6. /\ DOMAIN workers' = Workers /\ workers' = [v \in Workers |-> workers'[v]]
      /\ \A v \in Workers :
            /\ CrewRowFits(v, workers'[v]) /\ (workers'[v] = NoWorker <=> workers[v] = NoWorker)
            /\ workers'[v].handled = workers[v].handled
            /\ workers'[v].finished = workers[v].finished
            /\ workers'[v].restarts = workers[v].restarts
            /\ v \in {w} => ~Alive(v)'
            /\ workers'[v] = workers[v] \/ (v \in {w} /\ Alive(v) /\ ~Alive(v)')
  <2>1. workers' = Stopped({w})
    BY <1>3 DEF KillTimedOut
  <2> QED BY <1>2, <2>1, StoppedRows
<1>7. /\ claims' \in [Positions -> [by : Workers, signed : BOOLEAN] \cup {None}]
      /\ \A p \in Positions : ClaimMoves(p)
      /\ \A p \in Positions : claims[p] # None /\ ~claims[p].signed => claims'[p] = claims[p]
  <2>1. claims' = Released(w) /\ ~Alive(w)'
    BY <1>3, <1>4, <1>6 DEF KillTimedOut
  <2> QED BY <1>2, <1>4, <2>1, ReleasedFits
<1>8. \A v \in Workers : RowMoves(v)
  BY <1>6 DEF RowMoves
<1>9. FilesMove /\ \A p \in Positions : ResultMoves(p)
  BY <1>1, <1>2, <1>5, <1>6, <1>7 DEF FilesMove, ResultMoves, Ended, RunFilesFit
<1>10. SupFits'
  <2>1. ~Alive(w)' /\ ~workers'[w].handled /\ w \in Crew'
    BY <1>4, <1>5, <1>6 DEF Crew
  <2> QED BY <1>5, <2>1 DEF SupFits, Alive
<1>11. ASSUME ~orphaned PROVE VictimFits'
  <2>1. Pends(sup.victim)'
    BY <1>1, <1>2, <1>5, <1>11 DEF VictimFits, Pends
  <2>2. \/ ~workers[w].finished \/ Ended(sup.victim)
    BY <1>1, <1>2, <1>3, <1>4, <1>11 DEF VictimFits, CrewRowFits, Alive, Is
  <2>3. \/ ~Alive(w)' /\ ~workers'[w].finished
        \/ Ended(sup.victim)'
    BY <1>1, <1>4, <1>5, <1>6, <2>2 DEF Ended
  <2> QED BY <1>5, <2>1, <2>3 DEF VictimFits, Alive
<1>12. ASSUME ~orphaned, NEW p \in Positions PROVE (Settled(p)' \/ Pends(p)) /\ Covered(p)'
  <2>1. Settled(p)' <=> Settled(p)
    BY <1>1, <1>5 DEF Settled, Terminal
  <2>2. Crew' = Crew
    BY <1>5 DEF Crew
  <2>3. UsedUp => UsedUp'
    BY <1>2, <1>6, <2>2 DEF UsedUp
  <2>4. \A v \in Crew : Covers(v, p) => Covers(v, p)'
    BY <1>2, <1>6 DEF Covers, Ahead, Alive
  <2>5. Covered(p) /\ (Settled(p) \/ Pends(p))
    BY <1>2, <1>4, <1>12
  <2> QED BY <1>7, <2>1, <2>2, <2>3, <2>4, <2>5 DEF Covered
<1>13. orphaned \/ (Begun /\ StillCovered)
  BY <1>4, <1>12 DEF StillCovered
<1> QED BY <1>1, <1>5, <1>7, <1>8, <1>9, <1>10, <1>11, <1>13, WatchStep
           DEF Watching, Holding, Handling

\* A worker's exit is seen, and the claims it left are removed.
LEMMA SeeExitStep ==
    ASSUME ValidationAssumption, ValidationInv, SeeExit
    PROVE  ValidationInv'
<1>1. PICK w \in Crew :
         /\ \/ sup.pc = "exit" /\ w = sup.worker
            \/ sup.pc = "loop" /\ ~Alive(w) /\ ~workers[w].handled
         /\ sup' = [sup EXCEPT !.pc = "decide", !.worker = w,
                               !.released = {p \in Positions : Owns(w, p)}]
         /\ claims' = Released(w)
  BY DEF SeeExit, At
<1>2. /\ sup.pc \in Watching
      /\ UNCHANGED <<workers, result, timeouts, status, pause, lock, op, orphaned>>
  BY <1>1 DEF SeeExit, Watching, Holding, Handling
<1>3. /\ RunFilesFit /\ SupFits /\ \A v \in Workers : CrewRowFits(v, workers[v])
      /\ Crew \subseteq Workers /\ \A v \in Crew : ~workers[v].handled => Begun
      /\ sup \in SupervisorType
      /\ ~orphaned => /\ \A p \in Positions : Settled(p) \/ Pends(p)
                      /\ Begun => \A p \in Positions : Covered(p)
  BY <1>2, SupervisorKnows
<1>4. w \in Workers /\ ~Alive(w) /\ ~workers[w].handled /\ Begun
  BY <1>1, <1>3 DEF SupFits, Holding, Handling
<1>5. /\ sup' \in SupervisorType /\ sup'.pc = "decide" /\ sup'.attempt = sup.attempt
      /\ sup'.pending = sup.pending /\ sup'.overtaken = sup.overtaken /\ sup'.worker = w
  <2>1. {p \in Positions : Owns(w, p)} \in SUBSET Positions
    OBVIOUS
  <2> QED BY <1>1, <1>3, <1>4, <2>1
          DEF SupervisorType, SupervisorSteps, Watching, Holding
<1>6. /\ claims' \in [Positions -> [by : Workers, signed : BOOLEAN] \cup {None}]
      /\ \A p \in Positions : ClaimMoves(p) /\ claims'[p] # Signed(w)
      /\ \A p \in Positions : claims[p] # None /\ ~claims[p].signed => claims'[p] = claims[p]
  <2>1. ~Alive(w)'
    BY <1>2, <1>4 DEF Alive
  <2> QED BY <1>1, <1>3, <1>4, <2>1, ReleasedFits
<1>7. (\A v \in Workers : RowMoves(v)) /\ \A p \in Positions : ResultMoves(p)
  <2>1. \A v \in Workers : CrewRowFits(v, workers'[v])
    BY <1>2, <1>3
  <2> QED BY <1>2, <1>5, <2>1 DEF RowMoves, ResultMoves, Ended
<1>8. FilesMove
  BY <1>2, <1>3, <1>6 DEF FilesMove, RunFilesFit
<1>9. SupFits' /\ VictimFits'
  <2>1. \A p \in Positions : ~Owns(w, p)'
    BY <1>6 DEF Owns, Signed
  <2>2. w \in Crew' /\ ~Alive(w)' /\ ~workers'[w].handled
    BY <1>2, <1>4, <1>5 DEF Crew, Alive
  <2>3. \A p \in Positions : ~(claims'[p] = Signed(w))
    BY <1>6
  <2> QED BY <1>5, <2>2, <2>3 DEF SupFits, VictimFits, Owns, Signed, Alive
<1>10. ASSUME ~orphaned, NEW p \in Positions PROVE (Settled(p)' \/ Pends(p)) /\ Covered(p)'
  <2>1. (Settled(p)' <=> Settled(p)) /\ Crew' = Crew
    BY <1>2, <1>5 DEF Settled, Terminal, Crew
  <2>2. (UsedUp' <=> UsedUp) /\ \A v \in Crew : Covers(v, p)' <=> Covers(v, p)
    BY <1>2, <2>1 DEF UsedUp, Covers, Ahead, Alive
  <2>3. Covered(p) /\ (Settled(p) \/ Pends(p))
    BY <1>3, <1>4, <1>10
  <2> QED BY <1>6, <2>1, <2>2, <2>3 DEF Covered
<1>11. orphaned \/ (Begun /\ StillCovered)
  BY <1>4, <1>10 DEF StillCovered
<1> QED BY <1>2, <1>5, <1>6, <1>7, <1>8, <1>9, <1>11, WatchStep
           DEF Watching, Holding, Handling

\* The supervisor writes or renames a result over another.
LEMMA TimeoutSteps ==
    ASSUME ValidationAssumption, ValidationInv, RecordTimeout \/ ArchiveTimeout
    PROVE  ValidationInv'
<1>1. PICK v \in Positions : v = sup.victim
  BY DEF ValidationInv, RunFilesFit, SupervisorType
<1>2. /\ sup.pc \in {"write", "move"} /\ sup.pc \in Watching
      /\ UNCHANGED <<workers, claims, status, pause, lock, op, orphaned>>
  BY DEF RecordTimeout, ArchiveTimeout, At, Watching, Holding, Handling
<1>3. /\ RunFilesFit /\ SupFits /\ \A w \in Workers : CrewRowFits(w, workers[w])
      /\ Crew \subseteq Workers /\ \A w \in Crew : ~workers[w].handled => Begun
      /\ sup \in SupervisorType
      /\ ~orphaned => /\ VictimFits
                      /\ \A p \in Positions : Settled(p) \/ Pends(p)
                      /\ Begun => \A p \in Positions : Covered(p)
  BY <1>2, SupervisorKnows
<1>4. PICK w \in Crew : w = sup.worker
  BY <1>2, <1>3 DEF SupFits, Holding, Handling
<1>5. ~workers[w].handled /\ ~Alive(w) /\ w \in Workers /\ Begun
  BY <1>2, <1>3, <1>4 DEF SupFits, Holding, Handling
<1>6. PICK s : /\ s = IF sup.pc = "write" THEN "timeout" ELSE "none"
               /\ result' = [result EXCEPT ![v] = s]
  BY <1>1 DEF RecordTimeout, ArchiveTimeout, At
<1>7. s \in CellResults \ {"complete"} /\ result' \in [Positions -> CellResults]
      /\ result'[v] = s /\ \A p \in Positions : p # v => result'[p] = result[p]
  BY <1>3, <1>6 DEF RunFilesFit, CellResults
<1>8. /\ sup' \in SupervisorType /\ sup'.attempt = sup.attempt
      /\ sup'.pending = sup.pending /\ sup'.worker = w
      /\ sup'.overtaken = Overtaken({v}) /\ sup'.overtaken \subseteq Positions
      /\ sup'.pc = IF sup.pc = "write" THEN "archive" ELSE "exit"
      /\ sup.pc = "write" => sup'.victim = v
  <2>1. Overtaken({v}) \in SUBSET Positions /\ Queue[1] \in Positions
    BY <1>3, QueueFits DEF Overtaken, SupervisorType
  <2> QED BY <1>1, <1>3, <1>4, <2>1
          DEF RecordTimeout, ArchiveTimeout, At, SupervisorType, SupervisorSteps, Watching,
              Holding, Handling
<1>9. \A p \in Positions : ResultMoves(p)
  <2>1. ASSUME NEW p \in Positions, Ended(p) PROVE Ended(p)'
    BY <1>7, <1>8, <2>1 DEF Ended, Overtaken
  <2> QED BY <1>7, <2>1 DEF ResultMoves
<1>10. FilesMove
  <2>1. timeouts' \in [Positions -> 0..(TimeoutAttempts - 1)]
    <3>1. timeouts \in [Positions -> 0..(TimeoutAttempts - 1)] /\ TimeoutAttempts \in Nat
      BY <1>3 DEF RunFilesFit, ValidationAssumption, RuntimeAccepted
    <3>2. CASE RecordTimeout
      BY <3>1, <3>2 DEF RecordTimeout
    <3>3. CASE ArchiveTimeout
      <4>1. timeouts[v] + 1 < TimeoutAttempts /\ timeouts[v] \in Nat
        BY <1>1, <1>3, <3>1, <3>3 DEF SupFits, ArchiveTimeout, At
      <4>2. PICK n : /\ n \in {timeouts[v], timeouts[v] + 1}
                     /\ timeouts' = [timeouts EXCEPT ![v] = n]
        BY <1>1, <3>3 DEF ArchiveTimeout
      <4>3. n \in 0..(TimeoutAttempts - 1)
        BY <3>1, <4>1, <4>2
      <4> QED BY <3>1, <4>2, <4>3
    <3> QED BY <3>2, <3>3
  <2> QED BY <1>2, <1>3, <1>7, <2>1 DEF FilesMove, RunFilesFit
<1>11. SupFits'
  <2>1. ~Alive(w)' /\ ~workers'[w].handled /\ w \in Crew'
    BY <1>2, <1>5, <1>8 DEF Alive, Crew
  <2> QED BY <1>2, <1>8, <2>1 DEF SupFits, Alive
<1>12. ASSUME ~orphaned
       PROVE  /\ Pends(v) /\ (~workers[w].finished \/ Ended(v))
  BY <1>1, <1>2, <1>3, <1>4, <1>12 DEF VictimFits
<1>13. ASSUME ~orphaned PROVE VictimFits'
  <2>1. CASE sup.pc = "move"
    BY <1>8, <2>1 DEF VictimFits
  <2>2. CASE sup.pc = "write"
    <3>1. Pends(sup.victim)'
      BY <1>8, <1>12, <1>13, <2>2 DEF Pends
    <3>2. ~workers'[w].finished \/ Ended(sup.victim)'
      BY <1>2, <1>8, <1>9, <1>12, <1>13, <2>2 DEF ResultMoves, Ended
    <3>3. ~Alive(w)'
      BY <1>2, <1>5 DEF Alive
    <3> QED BY <1>8, <3>1, <3>2, <3>3 DEF VictimFits, Alive
  <2> QED BY <1>2, <2>1, <2>2
<1>14. ASSUME ~orphaned, NEW p \in Positions PROVE (Settled(p)' \/ Pends(p)) /\ Covered(p)'
  <2>1. Crew' = Crew /\ (UsedUp' <=> UsedUp)
    BY <1>2, <1>8 DEF UsedUp, Crew
  <2>2. \A u \in Crew : Covers(u, p)' <=> Covers(u, p)
    BY <1>2 DEF Covers, Ahead, Alive
  <2>3. Covered(p) /\ (Settled(p) \/ Pends(p))
    BY <1>3, <1>5, <1>14
  <2>4. CASE p # v
    <3>1. Settled(p) => Settled(p)'
      BY <1>7, <1>8, <2>4 DEF Settled, Terminal, Overtaken
    <3> QED BY <1>2, <2>1, <2>2, <2>3, <3>1 DEF Covered
  <2>5. CASE p = v
    <3>1. Pends(p) /\ (~workers[w].finished \/ Ended(p))
      BY <1>12, <1>14, <2>5
    <3>2. ~workers[w].finished => Covers(w, p)'
      BY <1>2, <1>5 DEF Covers, Alive
    <3>3. Ended(p) => Settled(p)'
      BY <1>7, <1>8, <2>5 DEF Ended, Settled, Overtaken
    <3> QED BY <2>1, <3>1, <3>2, <3>3 DEF Covered
  <2> QED BY <2>4, <2>5
<1>15. orphaned \/ (Begun /\ StillCovered)
  BY <1>5, <1>14 DEF StillCovered
<1>16. (\A u \in Workers : RowMoves(u)) /\ \A p \in Positions : ClaimMoves(p)
  <2>1. \A u \in Workers : CrewRowFits(u, workers'[u])
    BY <1>2, <1>3
  <2> QED BY <1>2, <2>1 DEF RowMoves, ClaimMoves
<1> QED BY <1>2, <1>8, <1>9, <1>10, <1>11, <1>13, <1>15, <1>16, WatchStep
           DEF Watching, Holding, Handling

\* What the disposal of a worker may change.
LEMMA DisposalFits ==
    ASSUME ValidationAssumption, ValidationInv, sup.pc \in {"decide", "exhausted"},
           NEW w \in Crew, w = sup.worker, NEW r, workers' = [workers EXCEPT ![w] = r],
           CrewRowFits(w, r), r # NoWorker,
           \/ r = workers[w]
           \/ Alive(w)' => r.pc = "look" /\ r.todo = sup.pending
    PROVE  /\ \A u \in Workers : RowMoves(u)
           /\ DOMAIN workers' = Workers /\ workers' = [u \in Workers |-> workers'[u]]
           /\ workers'[w] = r /\ \A u \in Workers : u # w => workers'[u] = workers[u]
           /\ \A u \in Crew : u # w => \A p \in Positions : Covers(u, p)' <=> Covers(u, p)
<1>1. sup.pc \in Watching
  BY DEF Watching, Holding
<1>2. /\ RunFilesFit /\ SupFits /\ \A u \in Workers : CrewRowFits(u, workers[u])
      /\ Crew \subseteq Workers
  BY <1>1, SupervisorKnows
<1>3. /\ workers'[w] = r /\ \A u \in Workers : u # w => workers'[u] = workers[u]
      /\ DOMAIN workers' = Workers /\ workers' = [u \in Workers |-> workers'[u]]
  BY <1>2, OneRow
<1>4. \A p \in Positions : ~Owns(w, p)
  BY <1>2 DEF SupFits
<1>5. \A u \in Workers : RowMoves(u)
  BY <1>2, <1>3, <1>4 DEF RowMoves
<1>6. \A u \in Crew : u # w => \A p \in Positions : Covers(u, p)' <=> Covers(u, p)
  BY <1>2, <1>3 DEF Covers, Ahead, Alive
<1> QED BY <1>3, <1>5, <1>6

\* A worker that ended is done with, replaced, or out of restarts.
LEMMA DecideStep ==
    ASSUME ValidationAssumption, ValidationInv, Decide
    PROVE  ValidationInv'
<1>1. /\ sup.pc = "decide" /\ sup.pc \in Watching
      /\ UNCHANGED <<claims, result, timeouts, status, pause, lock, op, orphaned>>
  BY DEF Decide, At, Watching, Holding, files
<1>2. /\ RunFilesFit /\ SupFits /\ \A w \in Workers : CrewRowFits(w, workers[w])
      /\ Crew \subseteq Workers /\ \A w \in Crew : ~workers[w].handled => Begun
      /\ sup \in SupervisorType
      /\ ~orphaned => /\ \A p \in Positions : Settled(p) \/ Pends(p)
                      /\ Begun => \A p \in Positions : Covered(p)
  BY <1>1, SupervisorKnows
<1>3. PICK w \in Crew : w = sup.worker
  BY <1>1, <1>2 DEF SupFits, Holding
<1>4. ~workers[w].handled /\ ~Alive(w) /\ w \in Workers /\ Begun /\ workers[w] \in WorkerType
      /\ CrewRowFits(w, workers[w])
  BY <1>1, <1>2, <1>3 DEF SupFits, Holding, CrewRowFits
<1> DEFINE replaced == /\ ~workers[w].finished /\ RemainingCells # {}
                       /\ workers[w].restarts < MaxRestarts
           lost == {p \in sup.released : ~workers[w].finished /\ ~replaced /\ ~Terminal(p)}
<1>5. /\ \A p \in Positions : ClaimMoves(p) /\ (ResultMoves(p) \/ sup'.overtaken # sup.overtaken)
      /\ claims' \in [Positions -> [by : Workers, signed : BOOLEAN] \cup {None}]
      /\ result' \in [Positions -> CellResults]
      /\ timeouts' \in [Positions -> 0..(TimeoutAttempts - 1)]
  BY <1>1, <1>2 DEF ClaimMoves, ResultMoves, Ended, RunFilesFit
<1>6. \A p \in Positions : ~Owns(w, p)
  BY <1>1, <1>2, <1>3 DEF SupFits
<1>7. ASSUME ~orphaned, ~workers[w].finished, ~replaced
      PROVE  workers[w].restarts = MaxRestarts \/ \A p \in Positions : Settled(p)
  <2>1. workers[w].restarts \in 0..MaxRestarts /\ MaxRestarts \in Nat
    BY <1>4 DEF WorkerType, ValidationAssumption, RuntimeAccepted
  <2>2. CASE RemainingCells # {}
    BY <1>7, <2>1, <2>2
  <2>3. CASE RemainingCells = {}
    BY <1>2, <1>7, <2>3 DEF RemainingCells, Pends, Settled
  <2> QED BY <2>2, <2>3
<1>8. CASE lost # {}
  <2>1. /\ sup' = [sup EXCEPT !.pc = "exhausted", !.released = lost] /\ UNCHANGED workers
        /\ ~workers[w].finished /\ ~replaced
    BY <1>3, <1>8 DEF Decide, Disposed
  <2>2. /\ sup' \in SupervisorType /\ sup'.pc = "exhausted" /\ sup'.attempt = sup.attempt
        /\ sup'.pending = sup.pending /\ sup'.overtaken = sup.overtaken /\ sup'.worker = w
    <3>1. lost \in SUBSET Positions
      BY <1>2 DEF SupervisorType
    <3> HIDE DEF lost, replaced
    <3> QED BY <1>2, <1>3, <2>1, <3>1 DEF SupervisorType, SupervisorSteps, Watching, Holding
  <2>3. SupFits' /\ VictimFits'
    <3>1. /\ w \in Crew' /\ ~Alive(w)' /\ ~workers'[w].handled /\ ~workers'[w].finished
          /\ \A p \in Positions : claims'[p] # Signed(w)
      BY <1>1, <1>4, <1>6, <2>1, <2>2 DEF Crew, Alive, Owns
    <3> QED BY <2>2, <3>1 DEF SupFits, VictimFits, Alive, Owns, Signed
  <2>4. ASSUME ~orphaned, NEW p \in Positions PROVE (Settled(p)' \/ Pends(p)) /\ Covered(p)'
    <3>1. /\ (Settled(p)' <=> Settled(p)) /\ Crew' = Crew /\ (UsedUp' <=> UsedUp)
          /\ \A u \in Crew : Covers(u, p)' <=> Covers(u, p)
      BY <1>1, <2>1, <2>2 DEF Settled, Terminal, Crew, UsedUp, Covers, Ahead, Alive
    <3>2. Covered(p) /\ (Settled(p) \/ Pends(p))
      BY <1>2, <1>4, <2>4
    <3> QED BY <1>1, <3>1, <3>2 DEF Covered
  <2>5. orphaned \/ workers'[sup'.worker].restarts = MaxRestarts
        \/ \A p \in Positions : Settled(p)'
    BY <1>1, <1>7, <2>1, <2>2 DEF Settled, Terminal
  <2>6. (\A u \in Workers : RowMoves(u)) /\ \A p \in Positions : ClaimMoves(p) /\ ResultMoves(p)
    <3>1. \A u \in Workers : CrewRowFits(u, workers'[u])
      BY <1>2, <2>1
    <3> QED BY <1>5, <2>1, <2>2, <3>1 DEF RowMoves
  <2>7. FilesMove
    BY <1>2, <1>5, <2>1 DEF FilesMove, RunFilesFit
  <2>8. orphaned \/ (Begun /\ StillCovered)
    BY <1>4, <2>4 DEF StillCovered
  <2> QED BY <1>1, <2>2, <2>3, <2>5, <2>6, <2>7, <2>8, WatchStep
             DEF Watching, Holding
<1>9. CASE lost = {}
  <2>1. PICK r : r = IF replaced THEN Process(workers[w].restarts + 1)
                     ELSE [workers[w] EXCEPT !.handled = TRUE]
    OBVIOUS
  <2>2. /\ sup' = [sup EXCEPT !.pc = "loop", !.released = {}, !.worker = None]
        /\ workers' = [workers EXCEPT ![w] = r]
    BY <1>3, <1>9, <2>1 DEF Decide, Disposed
  <2>3. /\ sup' \in SupervisorType /\ sup'.pc = "loop" /\ sup'.attempt = sup.attempt
        /\ sup'.pending = sup.pending /\ sup'.overtaken = sup.overtaken
    BY <1>2, <2>2 DEF SupervisorType, SupervisorSteps, Watching
  <2>4. ASSUME replaced
        PROVE  /\ CrewRowFits(w, r) /\ r # NoWorker /\ r.pc = "look" /\ r.todo = sup.pending
               /\ ~r.finished /\ ~r.handled
    <3>1. r = Process(workers[w].restarts + 1) /\ workers[w].restarts + 1 \in 0..MaxRestarts
      BY <1>4, <2>1, <2>4 DEF WorkerType, ValidationAssumption, RuntimeAccepted
    <3>2. sup.pending \in SUBSET Turns /\ sup.pending # {} /\ sup.attempt \in Nat
      BY <1>2, <2>4 DEF SupervisorType, RemainingCells
    <3>3. r \in WorkerType /\ r.pc = "look" /\ r.todo = sup.pending /\ ~r.finished /\ ~r.handled
      BY <3>1, <3>2 DEF Process, WorkerType
    <3>4. CrewRowFits(w, r) /\ r # NoWorker
      <4>1. r # NoWorker
        BY <3>3 DEF NoWorker
      <4>2. w[1] <= sup.attempt
        BY <3>2 DEF Crew
      <4> QED BY <3>2, <3>3, <4>1, <4>2 DEF CrewRowFits
    <3> QED BY <3>3, <3>4
  <2>5. ASSUME ~replaced
        PROVE  /\ CrewRowFits(w, r) /\ r # NoWorker /\ r.pc = "dead" /\ r.handled
               /\ r.finished = workers[w].finished /\ r.restarts = workers[w].restarts
    <3>1. PICK old \in WorkerType : old = workers[w]
      BY <1>4
    <3>2. old.pc = "dead" /\ w[1] <= sup.attempt
      BY <1>4, <3>1 DEF CrewRowFits, Alive, NoWorker
    <3>3. r = [old EXCEPT !.handled = TRUE]
      BY <2>1, <2>5, <3>1
    <3>4. r \in WorkerType /\ r.pc = "dead" /\ r.handled /\ r.finished = old.finished
          /\ r.restarts = old.restarts
      BY <3>1, <3>2, <3>3 DEF WorkerType
    <3> QED BY <3>1, <3>2, <3>4 DEF CrewRowFits, NoWorker
  <2>6. CrewRowFits(w, r) /\ r # NoWorker
    BY <2>4, <2>5
  <2>7. r = workers[w] \/ (Alive(w)' => r.pc = "look" /\ r.todo = sup.pending)
    <3>1. workers'[w] = r
      BY <1>2, <1>4, <2>2, OneRow
    <3> QED BY <2>4, <2>5, <3>1 DEF Alive
  <2>8. /\ \A u \in Workers : RowMoves(u)
        /\ DOMAIN workers' = Workers /\ workers' = [u \in Workers |-> workers'[u]]
        /\ workers'[w] = r /\ \A u \in Workers : u # w => workers'[u] = workers[u]
        /\ \A u \in Crew : u # w => \A p \in Positions : Covers(u, p)' <=> Covers(u, p)
    BY <1>1, <1>3, <2>2, <2>6, <2>7, DisposalFits
  <2>9. FilesMove /\ \A p \in Positions : ClaimMoves(p) /\ ResultMoves(p)
    BY <1>5, <2>3, <2>8 DEF FilesMove
  <2>10. SupFits' /\ VictimFits'
    BY <2>3 DEF SupFits, VictimFits, Holding, Handling
  <2>11. ASSUME ~orphaned, NEW p \in Positions PROVE (Settled(p)' \/ Pends(p)) /\ Covered(p)'
    <3>1. (Settled(p)' <=> Settled(p)) /\ Crew' = Crew
      BY <1>1, <2>3 DEF Settled, Terminal, Crew
    <3>2. Covered(p) /\ (Settled(p) \/ Pends(p))
      BY <1>2, <1>4, <2>11
    <3>3. UsedUp => UsedUp'
      BY <1>2, <1>4, <2>8, <3>1 DEF UsedUp
    <3>4. CASE replaced
      <4>1. Pends(p) => Covers(w, p)'
        BY <2>4, <2>8, <3>4 DEF Covers, Ahead, Pends
      <4> QED BY <1>1, <3>1, <3>2, <4>1 DEF Covered
    <3>5. CASE ~replaced /\ workers[w].finished
      <4>1. ~Covers(w, p)
        BY <3>5 DEF Covers
      <4>2. \A u \in Crew : Covers(u, p) => Covers(u, p)'
        BY <2>8, <4>1
      <4> QED BY <1>1, <3>1, <3>2, <3>3, <4>2 DEF Covered
    <3>6. CASE ~replaced /\ ~workers[w].finished
      <4>1. workers[w].restarts = MaxRestarts => UsedUp'
        BY <2>5, <2>8, <3>1, <3>6 DEF UsedUp
      <4>2. workers[w].restarts = MaxRestarts \/ Settled(p)
        BY <1>7, <2>11, <3>6
      <4> QED BY <3>1, <3>2, <4>1, <4>2 DEF Covered
    <3> QED BY <3>4, <3>5, <3>6
  <2>12. orphaned \/ (Begun /\ StillCovered)
    BY <1>4, <2>11 DEF StillCovered
  <2> QED BY <1>1, <2>3, <2>8, <2>9, <2>10, <2>12, WatchStep DEF Watching
<1> QED BY <1>8, <1>9

\* The cells of a worker out of restarts are failed, where they have no result.
LEMMA FailClaimedStep ==
    ASSUME ValidationAssumption, ValidationInv, FailClaimed
    PROVE  ValidationInv'
<1>1. /\ sup.pc = "exhausted" /\ sup.pc \in Watching
      /\ UNCHANGED <<claims, timeouts, status, pause, lock, op, orphaned>>
  BY DEF FailClaimed, At, Watching, Holding, files
<1>2. /\ RunFilesFit /\ SupFits /\ \A w \in Workers : CrewRowFits(w, workers[w])
      /\ Crew \subseteq Workers /\ \A w \in Crew : ~workers[w].handled => Begun
      /\ sup \in SupervisorType
      /\ ~orphaned => /\ SupervisionFits /\ \A p \in Positions : Settled(p) \/ Pends(p)
                      /\ Begun => \A p \in Positions : Covered(p)
  BY <1>1, SupervisorKnows
<1>3. PICK w \in Crew : w = sup.worker
  BY <1>1, <1>2 DEF SupFits, Holding
<1>4. /\ ~workers[w].handled /\ ~Alive(w) /\ w \in Workers /\ Begun /\ workers[w] \in WorkerType
      /\ CrewRowFits(w, workers[w]) /\ ~workers[w].finished
  BY <1>1, <1>2, <1>3 DEF SupFits, Holding, CrewRowFits
<1>5. PICK r : r = [workers[w] EXCEPT !.handled = TRUE]
  OBVIOUS
<1>6. /\ CrewRowFits(w, r) /\ r # NoWorker /\ r.pc = "dead" /\ r.handled
      /\ r.finished = workers[w].finished /\ r.restarts = workers[w].restarts
  <2>1. PICK old \in WorkerType : old = workers[w]
    BY <1>4
  <2>2. old.pc = "dead" /\ w[1] <= sup.attempt
    BY <1>4, <2>1 DEF CrewRowFits, Alive, NoWorker
  <2>3. r = [old EXCEPT !.handled = TRUE]
    BY <1>5, <2>1
  <2>4. r \in WorkerType /\ r.pc = "dead" /\ r.handled /\ r.finished = old.finished
        /\ r.restarts = old.restarts
    BY <2>1, <2>2, <2>3 DEF WorkerType
  <2> QED BY <2>1, <2>2, <2>4 DEF CrewRowFits, NoWorker
<1>7. workers' = [workers EXCEPT ![w] = r]
  BY <1>3, <1>5 DEF FailClaimed
<1>8. workers'[w] = r
  BY <1>2, <1>4, <1>7, OneRow
<1>9. Alive(w)' => r.pc = "look" /\ r.todo = sup.pending
  BY <1>6, <1>8 DEF Alive
<1>10. /\ \A u \in Workers : RowMoves(u)
       /\ DOMAIN workers' = Workers /\ workers' = [u \in Workers |-> workers'[u]]
       /\ \A u \in Workers : u # w => workers'[u] = workers[u]
       /\ \A u \in Crew : u # w => \A p \in Positions : Covers(u, p)' <=> Covers(u, p)
  BY <1>1, <1>3, <1>6, <1>7, <1>9, DisposalFits
<1>11. /\ sup' \in SupervisorType /\ sup'.pc = "loop" /\ sup'.attempt = sup.attempt
       /\ sup'.pending = sup.pending /\ sup'.overtaken = Overtaken(sup.released)
  <2>1. Overtaken(sup.released) \in SUBSET Positions
    BY <1>2 DEF Overtaken, SupervisorType
  <2> QED BY <1>2, <2>1 DEF FailClaimed, SupervisorType, SupervisorSteps, Watching
<1>12. \A p \in Positions : result'[p] = IF p \in sup.released THEN "failed" ELSE result[p]
  BY DEF FailClaimed
<1>13. \A p \in Positions : ClaimMoves(p) /\ ResultMoves(p)
  BY <1>1, <1>11, <1>12 DEF ClaimMoves, ResultMoves, Ended, Overtaken
<1>14. FilesMove
  <2>1. result' \in [Positions -> CellResults]
    BY <1>2 DEF FailClaimed, RunFilesFit, CellResults
  <2> QED BY <1>1, <1>2, <1>10, <2>1 DEF FilesMove, RunFilesFit
<1>15. SupFits' /\ VictimFits'
  BY <1>11 DEF SupFits, VictimFits, Holding, Handling
<1>16. ASSUME ~orphaned, NEW p \in Positions PROVE (Settled(p)' \/ Pends(p)) /\ Covered(p)'
  <2>1. (Settled(p) => Settled(p)') /\ Crew' = Crew
    BY <1>11, <1>12 DEF Settled, Terminal, Crew, Overtaken
  <2>2. Covered(p) /\ (Settled(p) \/ Pends(p))
    BY <1>2, <1>4, <1>16
  <2>3. workers[w].restarts = MaxRestarts \/ Settled(p)
    BY <1>1, <1>2, <1>3, <1>16 DEF SupervisionFits
  <2>4. workers[w].restarts = MaxRestarts => UsedUp'
    BY <1>4, <1>6, <1>8, <2>1 DEF UsedUp
  <2> QED BY <2>1, <2>2, <2>3, <2>4 DEF Covered
<1>17. orphaned \/ (Begun /\ StillCovered)
  BY <1>4, <1>16 DEF StillCovered
<1> QED BY <1>1, <1>10, <1>11, <1>13, <1>14, <1>15, <1>17, WatchStep DEF Watching

\* The supervisor stops all that it started.
LEMMA StopSteps ==
    ASSUME ValidationAssumption, ValidationInv, StopCrew \/ Breaks
    PROVE  ValidationInv'
<1>1. /\ RunFilesFit /\ OperatorFits /\ \A w \in Workers : CrewRowFits(w, workers[w])
      /\ orphaned \/ SupervisionFits
  BY DEF ValidationInv
<1>2. /\ workers' = Stopped(Crew) /\ sup.pc \notin {"gone", "start", "unlock"}
      /\ UNCHANGED <<claims, result, timeouts, pause, lock, op, orphaned>>
  BY DEF StopCrew, Breaks, At, files
<1>3. /\ sup' \in SupervisorType /\ sup'.pc \in {"paused", "unlock"}
      /\ sup'.attempt = sup.attempt
      /\ sup'.pc = "paused" => StopCrew
  <2>1. \E step \in {"paused", "unlock"} : Goto(step) /\ (step = "paused" => StopCrew)
    BY DEF StopCrew, Breaks
  <2>2. {"paused", "unlock"} \subseteq SupervisorSteps
    BY DEF SupervisorSteps
  <2> QED BY <1>1, <2>1, <2>2, GotoFits
<1>4. Crew' = Crew /\ Crew \subseteq Workers
  BY <1>3 DEF Crew
<1>5. /\ DOMAIN workers' = Workers /\ workers' = [w \in Workers |-> workers'[w]]
      /\ \A w \in Workers :
            /\ CrewRowFits(w, workers'[w]) /\ (workers'[w] = NoWorker <=> workers[w] = NoWorker)
            /\ workers'[w].handled = workers[w].handled
            /\ workers'[w].finished = workers[w].finished
            /\ workers'[w].restarts = workers[w].restarts
            /\ w \in Crew => ~Alive(w)'
            /\ workers'[w] = workers[w] \/ (w \in Crew /\ Alive(w) /\ ~Alive(w)')
  BY <1>1, <1>2, StoppedRows
<1>6. RunFilesFit'
  BY <1>1, <1>2, <1>3, <1>5 DEF RunFilesFit
<1>7. OperatorFits'
  <2>1. CASE StopCrew
    BY <1>1, <1>2, <1>3, <2>1, OperatorWaits DEF StopCrew
  <2>2. CASE Breaks
    <3>1. PICK state \in {"postprocess-failed", "failed"} : WriteStatus(state)
      BY <2>2 DEF Breaks
    <3>2. state \in ActiveStates \cup StoppedStates
      BY <3>1 DEF StoppedStates
    <3>3. /\ status' \in StatusType /\ status'.by = sup.attempt
          /\ status'.state # "not-started"
      BY <1>1, <3>1, <3>2, WrittenFits
    <3>4. sup'.pc = "unlock"
      BY <1>1, <2>2, GotoFits DEF Breaks, SupervisorSteps
    <3> QED BY <1>1, <1>2, <1>3, <3>3, <3>4, OperatorWaits
  <2> QED BY <2>1, <2>2
<1>8. \A w \in Workers : CrewRowFits(w, workers[w])'
  BY <1>3, <1>5 DEF CrewRowFits
<1>9. \A w \in Crew' : ClaimFits(w)'
  BY <1>3, <1>4, <1>5 DEF ClaimFits, Is, Alive, Before
<1>10. SupFits'
  BY <1>3 DEF SupFits, Holding, Handling
<1>11. ASSUME ~orphaned PROVE SupervisionFits'
  <2>1. \A w \in Workers : ~Alive(w)'
    <3>1. \A w \in Workers : Alive(w) => w \in Crew
      BY <1>1, <1>11 DEF SupervisionFits, CrewWorkFits
    <3> QED BY <1>5, <3>1 DEF Alive
  <2>2. \A w \in Workers : CrewWorkFits(w)'
    BY <1>3, <2>1 DEF CrewWorkFits, Is, Alive, Watching, Holding, Handling
  <2> QED BY <1>3, <2>2 DEF SupervisionFits, VictimFits, Watching, Holding, Handling
<1> QED BY <1>2, <1>6, <1>7, <1>8, <1>9, <1>10, <1>11 DEF ValidationInv

\* Before the workers are started.
LEMMA BeforeFits ==
    ASSUME ValidationAssumption, ValidationInv, sup.pc \in Before
    PROVE  /\ RunFilesFit /\ OperatorFits /\ \A w \in Workers : CrewRowFits(w, workers[w])
           /\ Crew \subseteq Workers /\ sup \in SupervisorType
           /\ \A w \in Crew : workers[w] = NoWorker /\ ~Alive(w)
           /\ ~orphaned => SupervisionFits /\ \A w \in Workers : ~Alive(w)
<1>1. sup.pc \notin Watching
  BY DEF Before, Watching, Holding, Handling
<1>2. orphaned \/ \A w \in Workers : ~Alive(w)
  BY <1>1, NoneAtWork
<1> QED BY <1>2 DEF ValidationInv, RunFilesFit, ClaimFits, Crew, Alive, NoWorker

\* The positions are chosen and prepared.
LEMMA PrepareSteps ==
    ASSUME ValidationAssumption, ValidationInv, Plan \/ Prepare
    PROVE  ValidationInv'
<1>1. /\ sup.pc \in {"index", "prepare"} /\ sup.pc \in Before
      /\ UNCHANGED <<workers, timeouts, pause, lock, op, orphaned>>
  BY DEF Plan, Prepare, At, Before
<1>2. /\ RunFilesFit /\ OperatorFits /\ \A w \in Workers : CrewRowFits(w, workers[w])
      /\ Crew \subseteq Workers /\ sup \in SupervisorType
      /\ \A w \in Crew : workers[w] = NoWorker /\ ~Alive(w)
      /\ ~orphaned => SupervisionFits /\ \A w \in Workers : ~Alive(w)
  BY <1>1, BeforeFits
<1>3. /\ sup' \in SupervisorType /\ sup'.attempt = sup.attempt
      /\ sup'.overtaken = sup.overtaken
      /\ sup'.pc = IF sup.pc = "index" THEN "prepare" ELSE "spawn"
      /\ sup'.pending = IF sup.pc = "index" THEN {i \in Turns : ~Terminal(Queue[i])}
                                            ELSE sup.pending
  <2>1. CASE Plan
    BY <1>2, <2>1 DEF Plan, At, SupervisorType, SupervisorSteps, Before
  <2>2. CASE Prepare
    <3>1. Goto("spawn") /\ sup.pc = "prepare" /\ "spawn" \in SupervisorSteps
      BY <2>2 DEF Prepare, At, SupervisorSteps, Before
    <3> QED BY <1>2, <3>1, GotoFits
  <2> QED BY <2>1, <2>2
<1>4. /\ claims' \in [Positions -> [by : Workers, signed : BOOLEAN] \cup {None}]
      /\ result' \in [Positions -> CellResults]
      /\ \A p \in Positions : claims'[p] = None \/ claims'[p] = claims[p]
      /\ \A p \in Positions : Terminal(p) => Terminal(p)'
      /\ sup.pc = "index" => claims' = [p \in Positions |-> None]
      /\ sup.pc = "prepare" => UNCHANGED claims
  <2>1. claims \in [Positions -> [by : Workers, signed : BOOLEAN] \cup {None}]
        /\ result \in [Positions -> CellResults]
    BY <1>2 DEF RunFilesFit
  <2>2. CASE Plan
    BY <2>1, <2>2 DEF Plan, At, Terminal
  <2>3. CASE Prepare
    <3>1. sup.pc = "prepare" /\ UNCHANGED claims
      BY <2>3 DEF Prepare, At
    <3>2. CASE result' = result
      BY <2>1, <3>1, <3>2 DEF Terminal
    <3>3. CASE result' # result
      <4>1. PICK p \in Positions, s \in CellResults :
               /\ result' = [result EXCEPT ![p] = s] /\ (Terminal(p) => s = result[p])
        <5>1. PICK i \in sup.pending :
                 result' = [result EXCEPT ![Queue[i]] =
                               IF Terminal(Queue[i]) THEN result[Queue[i]] ELSE "failed"]
          BY <2>3, <3>3 DEF Prepare
        <5>2. Queue[i] \in Positions
          BY <1>2, <5>1, QueueFits DEF SupervisorType
        <5>3. PICK s : s = IF Terminal(Queue[i]) THEN result[Queue[i]] ELSE "failed"
          OBVIOUS
        <5>4. s \in CellResults
          BY <2>1, <5>2, <5>3 DEF CellResults
        <5> QED BY <5>1, <5>2, <5>3, <5>4
      <4>3. result' \in [Positions -> CellResults]
        BY <2>1, <4>1
      <4>4. \A q \in Positions : Terminal(q) => Terminal(q)'
        BY <2>1, <4>1 DEF Terminal
      <4> QED BY <2>1, <3>1, <4>3, <4>4
    <3> QED BY <3>2, <3>3
  <2> QED BY <2>2, <2>3
<1>5. RunFilesFit'
  BY <1>1, <1>2, <1>3, <1>4 DEF RunFilesFit
<1>6. OperatorFits'
  <2>1. status' = status \/ WriteStatus("preparing-units")
    BY DEF Plan, Prepare
  <2>2. CASE WriteStatus("preparing-units")
    <3>1. status' \in StatusType /\ status'.by = sup.attempt /\ status'.state = "preparing-units"
          /\ status'.state # "not-started"
      BY <1>2, <2>2, WrittenFits DEF ActiveStates
    <3> QED BY <1>1, <1>2, <1>3, <3>1, OperatorWaits DEF ActiveStates
  <2>3. CASE status' = status
    BY <1>1, <1>2, <1>3, <2>3, OperatorWaits
  <2> QED BY <2>1, <2>2, <2>3
<1>7. \A w \in Workers : CrewRowFits(w, workers[w])'
  BY <1>1, <1>2, <1>3 DEF CrewRowFits
<1>8. Crew' = Crew /\ \A w \in Crew' : ClaimFits(w)'
  <2>1. Crew' = Crew
    BY <1>3 DEF Crew
  <2> QED BY <1>1, <1>2, <2>1 DEF ClaimFits, Is, NoWorker
<1>9. SupFits'
  BY <1>3 DEF SupFits, Holding, Handling
<1>10. ASSUME ~orphaned PROVE SupervisionFits'
  <2>1. \A w \in Workers : CrewWorkFits(w)'
    BY <1>1, <1>2, <1>3, <1>10 DEF CrewWorkFits, Is, Alive, Watching, Holding, Handling
  <2>2. ASSUME NEW p \in Positions PROVE Settled(p)' \/ Pends(p)'
    <3>1. PICK i \in Turns : Queue[i] = p
      BY QueueFits
    <3>2. CASE sup.pc = "index"
      BY <1>3, <1>4, <3>1, <3>2 DEF Settled, Pends, Terminal
    <3>3. CASE sup.pc = "prepare"
      <4>1. Settled(p) \/ Pends(p)
        BY <1>2, <1>10, <3>3 DEF SupervisionFits
      <4> QED BY <1>3, <1>4, <3>3, <4>1 DEF Settled, Pends
    <3> QED BY <1>1, <3>2, <3>3
  <2>3. \A p \in Positions : claims'[p] = None
    BY <1>1, <1>2, <1>4, <1>10 DEF SupervisionFits
  <2> QED BY <1>3, <2>1, <2>2, <2>3 DEF SupervisionFits, VictimFits, Watching, Holding, Handling
<1> QED BY <1>1, <1>5, <1>6, <1>7, <1>8, <1>9, <1>10 DEF ValidationInv

\* The workers are started, as many as there are positions and slots.
LEMMA SpawnStep ==
    ASSUME ValidationAssumption, ValidationInv, Spawn
    PROVE  ValidationInv'
<1>1. /\ sup.pc = "spawn" /\ sup.pc \in Before
      /\ UNCHANGED <<claims, result, timeouts, status, pause, lock, op, orphaned>>
  BY DEF Spawn, At, Before, files
<1>2. /\ RunFilesFit /\ OperatorFits /\ \A w \in Workers : CrewRowFits(w, workers[w])
      /\ Crew \subseteq Workers /\ sup \in SupervisorType
      /\ \A w \in Crew : workers[w] = NoWorker /\ ~Alive(w)
      /\ ~orphaned => SupervisionFits /\ \A w \in Workers : ~Alive(w)
  BY <1>1, BeforeFits
<1>3. /\ sup' \in SupervisorType /\ sup'.pc = "loop" /\ sup'.attempt = sup.attempt
      /\ sup'.pending = sup.pending /\ sup'.overtaken = sup.overtaken
  BY <1>2, GotoFits DEF Spawn, SupervisorSteps, Watching
<1>4. PICK started \in SUBSET Slots :
         /\ Cardinality(started) = IF pause THEN 0
                ELSE IF Cardinality(sup.pending) < Cardinality(Slots)
                     THEN Cardinality(sup.pending) ELSE Cardinality(Slots)
         /\ workers' = [w \in Workers |->
                           IF w \in Crew /\ w[2] \in started THEN Process(0) ELSE workers[w]]
  BY DEF Spawn
<1>5. started = {} <=> pause \/ sup.pending = {}
  <2>1. IsFiniteSet(Slots) /\ Slots # {}
    BY DEF ValidationAssumption, RuntimeAccepted
  <2>2. IsFiniteSet(started) /\ Cardinality(started) \in Nat
    BY <2>1, FS_Subset, FS_CardinalityType
  <2>3. IsFiniteSet(Turns)
    <3>1. 1 \in Int /\ Len(Queue) \in Int
      BY DEF ValidationAssumption, RuntimeAccepted
    <3> QED BY <3>1, FS_Interval DEF Turns
  <2>4. IsFiniteSet(sup.pending)
    <3>1. sup.pending \in SUBSET Turns
      BY <1>2 DEF SupervisorType
    <3> QED BY <2>3, <3>1, FS_Subset
  <2>5. Cardinality(Slots) \in Nat /\ Cardinality(Slots) # 0
        /\ Cardinality(sup.pending) \in Nat
    BY <2>1, <2>4, FS_CardinalityType, FS_EmptySet
  <2>6. Cardinality(sup.pending) = 0 <=> sup.pending = {}
    BY <2>4, FS_EmptySet
  <2>7. Cardinality(started) = 0 <=> started = {}
    BY <2>2, FS_EmptySet
  <2> QED BY <1>4, <2>5, <2>6, <2>7
<1>6. \A w \in Workers :
         workers'[w] = IF w \in Crew /\ w[2] \in started THEN Process(0) ELSE workers[w]
  BY <1>4
<1>7. DOMAIN workers' = Workers /\ workers' = [w \in Workers |-> workers'[w]]
  <2>1. PICK new : new = workers'
    OBVIOUS
  <2>2. new = [w \in Workers |->
                  IF w \in Crew /\ w[2] \in started THEN Process(0) ELSE workers[w]]
    BY <1>4, <2>1
  <2>3. DOMAIN new = Workers /\ new = [w \in Workers |-> new[w]]
    BY <2>2
  <2> QED BY <2>1, <2>3
<1>8. /\ Process(0) \in WorkerType /\ Process(0).pc = "look" /\ Process(0).todo = sup.pending
      /\ ~Process(0).finished /\ ~Process(0).handled /\ Process(0) # NoWorker
  <2>1. sup.pending \in SUBSET Turns /\ 0 \in 0..MaxRestarts
    BY <1>2 DEF SupervisorType, ValidationAssumption, RuntimeAccepted
  <2> QED BY <2>1 DEF Process, WorkerType, NoWorker
<1>9. Crew' = Crew
  BY <1>3 DEF Crew
<1>10. \A w \in Workers : CrewRowFits(w, workers[w])'
  <2>1. ASSUME NEW w \in Crew, w[2] \in started PROVE CrewRowFits(w, Process(0))
    <3>1. sup.attempt \in Nat /\ w[1] = sup.attempt /\ sup.pending # {}
      BY <1>2, <1>5, <2>1 DEF SupervisorType, Crew
    <3> QED BY <1>8, <3>1 DEF CrewRowFits
  <2>2. \A w \in Workers : CrewRowFits(w, workers'[w])
    BY <1>2, <1>6, <2>1
  <2> QED BY <1>3, <2>2 DEF CrewRowFits
<1>11. RunFilesFit'
  BY <1>1, <1>2, <1>3, <1>7 DEF RunFilesFit
<1>12. OperatorFits'
  BY <1>1, <1>2, <1>3, OperatorWaits
<1>13. \A w \in Crew' : ClaimFits(w)'
  <2>1. \A w \in Crew : workers'[w].pc \in {"none", "look"}
    BY <1>2, <1>6, <1>8 DEF NoWorker
  <2> QED BY <1>3, <1>9, <2>1 DEF ClaimFits, Is, Before
<1>14. SupFits'
  BY <1>3 DEF SupFits, Holding, Handling
<1>15. ASSUME ~orphaned PROVE SupervisionFits'
  <2>1. \A p \in Positions : claims[p] = None
    BY <1>1, <1>2, <1>15 DEF SupervisionFits
  <2>2. \A w \in Workers, p \in Positions : claims'[p] # Signed(w)
    BY <1>1, <2>1, ClaimValues
  <2>3. ASSUME NEW w \in Workers PROVE CrewWorkFits(w)'
    <3>1. Alive(w)' => w \in Crew /\ workers'[w].todo = sup.pending /\ workers'[w].pc = "look"
      BY <1>2, <1>6, <1>8, <1>15 DEF Alive
    <3>2. workers'[w].pc \notin {"run", "report"}
      BY <3>1 DEF Alive
    <3> QED BY <1>3, <1>9, <2>2, <3>1, <3>2
            DEF CrewWorkFits, Is, Owns, Signed, Alive, Watching
  <2>4. \A p \in Positions : Settled(p)' \/ Pends(p)'
    <3>1. \A p \in Positions : Settled(p) \/ Pends(p)
      BY <1>1, <1>2, <1>15 DEF SupervisionFits
    <3> QED BY <1>1, <1>3, <3>1 DEF Settled, Pends, Terminal
  <2>5. CASE started = {}
    <3>1. ~Begun'
      BY <1>2, <1>6, <1>9, <2>5 DEF Begun
    <3>2. sup'.pending = {} \/ pause'
      BY <1>1, <1>3, <1>5, <2>5
    <3> QED BY <1>1, <1>3, <2>1, <2>3, <2>4, <3>1, <3>2 DEF SupervisionFits, VictimFits
  <2>6. CASE started # {}
    <3>1. PICK slot \in started : slot \in Slots
      BY <2>6
    <3>2. PICK w \in Crew : w[2] = slot
      <4>1. sup.attempt \in 1..MaxAttempts
        BY <1>1, <1>2 DEF RunFilesFit, SupervisorType, ValidationAssumption, RuntimeAccepted
      <4>2. <<sup.attempt, slot>> \in Crew
        BY <3>1, <4>1 DEF Crew, Workers
      <4> QED BY <4>2
    <3>3. w \in Crew' /\ workers'[w] = Process(0)
      BY <1>2, <1>6, <1>9, <3>1, <3>2
    <3>4. Begun'
      BY <1>8, <3>3 DEF Begun
    <3>5. ASSUME NEW p \in Positions PROVE Covered(p)'
      <4>1. Pends(p)' => Covers(w, p)'
        BY <1>3, <1>8, <3>3 DEF Covers, Ahead, Pends
      <4> QED BY <2>4, <3>3, <4>1 DEF Covered
    <3> QED BY <1>1, <1>3, <2>1, <2>3, <2>4, <3>4, <3>5 DEF SupervisionFits, VictimFits
  <2> QED BY <2>5, <2>6
<1> QED BY <1>1, <1>10, <1>11, <1>12, <1>13, <1>14, <1>15 DEF ValidationInv

-----------------------------------------------------------------------------
\* A run without its process has no supervisor.
LEMMA GoneFits ==
    ASSUME ValidationAssumption, ValidationInv, Idle, ~ProcessActive(status.by)
    PROVE  sup.pc = "gone"
<1>1. RunFilesFit /\ OperatorFits /\ op.pc = "idle"
  BY DEF ValidationInv, Idle, NoCommand
<1>2. sup.pc # "gone" => status.by = sup.attempt /\ sup.attempt # 0
  BY <1>1 DEF OperatorFits, RunFilesFit
<1> QED BY <1>2 DEF ProcessActive

\* The operator without a command.
LEMMA NoCommandFits ==
    ASSUME ValidationAssumption
    PROVE  NoCommand \in [pc : Commands, doc : StatusType] /\ NoCommand.pc = "idle"
<1>1. MaxAttempts \in Nat
  BY DEF ValidationAssumption, RuntimeAccepted
<1> QED BY <1>1 DEF NoCommand, NoStatus, Commands, StatusType

\* A command changes the status, the request and the lock, and the results
\* only of a run without a supervisor.
LEMMA CommandStep ==
    ASSUME ValidationAssumption, ValidationInv, OperatorFits',
           UNCHANGED <<sup, workers, claims, orphaned>>, lock' \in 0..sup.attempt,
           sup.pc = "gone" \/ (UNCHANGED <<result, timeouts>> /\ (pause => pause')),
           result' \in [Positions -> CellResults],
           timeouts' \in [Positions -> 0..(TimeoutAttempts - 1)]
    PROVE  ValidationInv'
<1>1. RunFilesFit /\ (\A w \in Workers : CrewRowFits(w, workers[w])) /\ (\A w \in Crew : ClaimFits(w))
      /\ SupFits /\ (orphaned \/ SupervisionFits)
  BY DEF ValidationInv
<1>2. RunFilesFit' /\ Crew' = Crew
  BY <1>1 DEF RunFilesFit, Crew
<1>3. \A w \in Workers : CrewRowFits(w, workers[w])'
  BY <1>1 DEF CrewRowFits
<1>4. \A w \in Crew' : ClaimFits(w)'
  BY <1>1, <1>2 DEF ClaimFits, Is, Cell, Owns, Unsigned, Signed
<1>5. CASE sup.pc = "gone"
  <2>1. SupFits'
    BY <1>5 DEF SupFits, Holding, Handling
  <2>2. ASSUME ~orphaned PROVE SupervisionFits'
    <3>1. \A w \in Workers : ~Alive(w)
      BY <1>1, <1>5, <2>2 DEF SupervisionFits, CrewWorkFits, Watching, Holding, Handling
    <3>2. \A w \in Workers : CrewWorkFits(w)'
      BY <1>5, <3>1 DEF CrewWorkFits, Is, Alive, Watching, Holding, Handling
    <3> QED BY <1>5, <3>2 DEF SupervisionFits, VictimFits, Watching, Holding, Handling
  <2> QED BY <1>2, <1>3, <1>4, <2>1, <2>2 DEF ValidationInv
<1>6. CASE UNCHANGED <<result, timeouts>> /\ (pause => pause')
  <2>1. SupFits'
    BY <1>1, <1>2, <1>6 DEF SupFits, Alive, Owns, Signed
  <2>2. ASSUME ~orphaned PROVE SupervisionFits'
    <3>1. ASSUME NEW w \in Workers PROVE CrewWorkFits(w)'
      BY <1>1, <1>2, <1>6, <2>2 DEF SupervisionFits, CrewWorkFits, Is, Alive, Cell, Ended, Owns, Signed
    <3>2. VictimFits'
      BY <1>1, <1>6, <2>2 DEF SupervisionFits, VictimFits, Pends, Ended, Alive, Is, Cell
    <3>3. \A p \in Positions : (Settled(p)' <=> Settled(p)) /\ (Pends(p)' <=> Pends(p))
                               /\ (Covered(p)' <=> Covered(p))
      BY <1>2, <1>6 DEF Settled, Pends, Covered, Terminal, UsedUp, Covers, Ahead, Alive
    <3>4. Begun' <=> Begun
      BY <1>2 DEF Begun
    <3> QED BY <1>1, <1>2, <1>6, <2>2, <3>1, <3>2, <3>3, <3>4 DEF SupervisionFits
  <2> QED BY <1>2, <1>3, <1>4, <2>1, <2>2 DEF ValidationInv
<1> QED BY <1>5, <1>6

\* The commands of the operator, step by step: start, resume and pause.
LEMMA CommandSteps ==
    ASSUME ValidationAssumption, ValidationInv,
           \/ Start \/ ResumeRun \/ Reread \/ RecordPid
           \/ PauseStopped \/ RequestPause \/ WritePausing
    PROVE  ValidationInv'
<1>1. RunFilesFit /\ OperatorFits /\ sup.attempt \in 0..MaxAttempts /\ MaxAttempts \in Nat \ {0}
      /\ status \in StatusType /\ op \in [pc : Commands, doc : StatusType]
      /\ lock \in 0..sup.attempt
      /\ result \in [Positions -> CellResults] /\ timeouts \in [Positions -> 0..(TimeoutAttempts - 1)]
  BY DEF ValidationInv, RunFilesFit, OperatorFits, SupervisorType, ValidationAssumption, RuntimeAccepted
<1>2. UNCHANGED <<sup, workers, claims, result, timeouts, orphaned>>
  BY DEF Start, ResumeRun, Reread, RecordPid, PauseStopped, RequestPause, WritePausing, files
<1>3. Idle => op.pc = "idle"
  BY DEF Idle, NoCommand
<1>4. NoCommand \in [pc : Commands, doc : StatusType] /\ NoCommand.pc = "idle"
  BY NoCommandFits
<1>5. CASE Start
  <2>1. sup.pc = "gone" /\ sup.attempt = 0
    BY <1>1, <1>5 DEF Start, OperatorFits
  <2>2. status' \in StatusType /\ status'.state = "queued"
    BY <1>1, <1>5 DEF Start, StatusType, ActiveStates
  <2>3. op' \in [pc : Commands, doc : StatusType] /\ op'.pc = "start" /\ op'.doc = status'
    BY <1>5, <2>2 DEF Start, Command, Commands
  <2>4. OperatorFits'
    BY <1>1, <1>2, <2>1, <2>2, <2>3 DEF OperatorFits, ActiveStates
  <2> QED BY <1>1, <1>2, <1>5, <2>1, <2>4, CommandStep DEF Start
<1>6. CASE ResumeRun
  <2>1. sup.pc = "gone" /\ sup.attempt < MaxAttempts
    BY <1>6, GoneFits DEF ResumeRun, Resumable
  <2>2. status' \in StatusType /\ status'.state = "queued"
    <3>1. PICK cells \in {"unknown", "incomplete", "complete"} :
             status' = [status EXCEPT !.state = "queued", !.by = 0, !.cells = cells]
      BY <1>1, <1>6 DEF ResumeRun, StatusType
    <3>2. 0 \in 0..MaxAttempts /\ "queued" \in ActiveStates
      BY <1>1 DEF ActiveStates
    <3> QED BY <1>1, <3>1, <3>2 DEF StatusType
  <2>3. op' \in [pc : Commands, doc : StatusType] /\ op'.pc = "resume" /\ op'.doc = status'
    BY <1>6, <2>2 DEF ResumeRun, Command, Commands
  <2>4. OperatorFits'
    BY <1>1, <1>2, <2>1, <2>2, <2>3 DEF OperatorFits, ActiveStates
  <2>5. lock' \in 0..sup.attempt
    BY <1>1, <1>6 DEF ResumeRun
  <2> QED BY <1>1, <1>2, <2>1, <2>4, <2>5, CommandStep
<1>7. CASE Reread
  <2>1. op' \in [pc : Commands, doc : StatusType] /\ op'.pc = "pid" /\ op'.doc = status
        /\ op.pc = "reread" /\ UNCHANGED <<status, pause, lock>>
    BY <1>1, <1>7 DEF Reread, Command, Commands
  <2>2. OperatorFits'
    BY <1>1, <1>2, <2>1 DEF OperatorFits
  <2> QED BY <1>1, <1>2, <2>1, <2>2, CommandStep
<1>8. CASE RecordPid
  <2>1. status' \in StatusType /\ status'.state = op.doc.state /\ status'.by = sup.attempt
    BY <1>1, <1>8 DEF RecordPid, StatusType
  <2>2. op' = NoCommand /\ op.pc = "pid" /\ UNCHANGED <<pause, lock>>
    BY <1>8 DEF RecordPid
  <2>3. OperatorFits'
    BY <1>1, <1>2, <1>4, <2>1, <2>2 DEF OperatorFits
  <2> QED BY <1>1, <1>2, <2>2, <2>3, CommandStep
<1>9. CASE PauseStopped
  <2>1. ~ProcessActive(status.by) /\ Idle /\ UNCHANGED <<op, pause, lock>>
    <3>1. "interrupted" \notin ActiveStates \cup StoppedStates \cup {"not-started"}
      BY DEF ActiveStates, StoppedStates
    <3>2. status.state # "interrupted"
      BY <1>1, <3>1 DEF StatusType
    <3> QED BY <1>9, <3>2 DEF PauseStopped, Reported
  <2>2. sup.pc = "gone"
    BY <2>1, GoneFits
  <2>3. status' \in StatusType /\ status'.state = "paused"
    BY <1>1, <1>9 DEF PauseStopped, StatusType, StoppedStates
  <2>4. OperatorFits'
    BY <1>1, <1>2, <1>3, <2>1, <2>2, <2>3 DEF OperatorFits
  <2> QED BY <1>1, <1>2, <2>1, <2>4, CommandStep
<1>10. CASE RequestPause
  <2>1. /\ op' \in [pc : Commands, doc : StatusType] /\ op'.pc = "pausing" /\ op'.doc = status
        /\ op.pc = "idle" /\ UNCHANGED <<status, lock>> /\ pause'
    BY <1>1, <1>3, <1>10 DEF RequestPause, Command, Commands
  <2>2. status.state # "not-started"
    BY <1>10 DEF RequestPause, Reported
  <2>3. OperatorFits'
    BY <1>1, <1>2, <2>1, <2>2 DEF OperatorFits
  <2> QED BY <1>1, <1>2, <2>1, <2>3, CommandStep
<1>11. CASE WritePausing
  <2>1. status' \in StatusType /\ status'.state = "pausing" /\ status'.by = op.doc.by
    BY <1>1, <1>11 DEF WritePausing, StatusType, ActiveStates
  <2>2. op' = NoCommand /\ op.pc = "pausing" /\ UNCHANGED <<pause, lock>>
    BY <1>11 DEF WritePausing
  <2>3. OperatorFits'
    BY <1>1, <1>2, <1>4, <2>1, <2>2 DEF OperatorFits, ActiveStates
  <2> QED BY <1>1, <1>2, <2>2, <2>3, CommandStep
<1> QED BY <1>5, <1>6, <1>7, <1>8, <1>9, <1>10, <1>11

\* Failed positions are put back in the queue of a run that has stopped.
LEMMA RequeueStep ==
    ASSUME ValidationAssumption, ValidationInv, NEW ps \in SUBSET Positions, Requeue(ps)
    PROVE  ValidationInv'
<1>1. RunFilesFit /\ OperatorFits /\ status \in StatusType /\ op.pc = "idle"
      /\ lock \in 0..sup.attempt
  BY DEF ValidationInv, RunFilesFit, OperatorFits, Requeue, Idle, NoCommand
<1>2. sup.pc = "gone"
  BY GoneFits DEF Requeue
<1>3. /\ UNCHANGED <<sup, workers, claims, orphaned, op, lock>>
      /\ result' \in [Positions -> CellResults]
      /\ timeouts' \in [Positions -> 0..(TimeoutAttempts - 1)]
  <2>1. TimeoutAttempts \in Nat \ {0}
    BY DEF ValidationAssumption, RuntimeAccepted
  <2> QED BY <1>1, <2>1 DEF Requeue, RunFilesFit, CellResults
<1>4. status' \in StatusType /\ status'.state = "paused"
  <2>1. PICK cells \in {"unknown", "incomplete", "complete"} :
           status' = [status EXCEPT !.state = "paused", !.cells = cells]
    BY <1>1 DEF Requeue, StatusType
  <2> QED BY <1>1, <2>1 DEF StatusType, StoppedStates
<1>5. OperatorFits'
  BY <1>1, <1>2, <1>3, <1>4 DEF OperatorFits
<1> QED BY <1>1, <1>2, <1>3, <1>5, CommandStep

\* The next supervisor finds no worker of its own.
LEMMA SpawnRunStep ==
    ASSUME ValidationAssumption, ValidationInv, SpawnRun
    PROVE  ValidationInv'
<1>1. RunFilesFit /\ OperatorFits /\ (\A w \in Workers : CrewRowFits(w, workers[w]))
      /\ (orphaned \/ SupervisionFits)
  BY DEF ValidationInv
<1>2. sup.pc = "gone" /\ sup.attempt < MaxAttempts /\ sup.attempt \in Nat /\ MaxAttempts \in Nat
      /\ UNCHANGED <<claims, result, timeouts, status, pause, lock, orphaned>>
      /\ op.pc \in {"start", "resume"}
  BY <1>1 DEF SpawnRun, OperatorFits, RunFilesFit, SupervisorType, ValidationAssumption,
     RuntimeAccepted, files
<1>3. sup'.pc = "start" /\ sup'.attempt = sup.attempt + 1 /\ sup' \in SupervisorType
  <2>1. Queue[1] \in Positions
    BY QueueFits
  <2> QED BY <1>2, <2>1
          DEF SpawnRun, Supervisor, SupervisorType, SupervisorSteps, Before
<1>4. /\ op' \in [pc : Commands, doc : StatusType] /\ op'.pc \in {"reread", "pid"}
      /\ op'.doc = op.doc
  BY <1>1 DEF SpawnRun, OperatorFits, Command, Commands
<1>5. /\ DOMAIN workers' = Workers /\ workers' = [w \in Workers |-> workers'[w]]
      /\ \A w \in Workers : workers'[w] = IF Alive(w) THEN workers[w] ELSE NoWorker
  <2>1. PICK new : new = workers'
    OBVIOUS
  <2>2. new = [w \in Workers |-> IF Alive(w) THEN workers[w] ELSE NoWorker]
    BY <2>1 DEF SpawnRun
  <2>3. DOMAIN new = Workers /\ new = [w \in Workers |-> new[w]]
        /\ \A w \in Workers : new[w] = IF Alive(w) THEN workers[w] ELSE NoWorker
    BY <2>2
  <2> QED BY <2>1, <2>3
<1>6. RunFilesFit'
  <2>1. \A p \in Positions : claims[p] # None => claims[p].by[1] <= sup'.attempt
    <3>1. ASSUME NEW p \in Positions, claims[p] # None PROVE claims[p].by[1] <= sup'.attempt
      <4>1. claims[p].by[1] \in Nat /\ claims[p].by[1] <= sup.attempt
        BY <1>1, <3>1 DEF RunFilesFit, Workers
      <4> QED BY <1>2, <1>3, <4>1
    <3> QED BY <3>1
  <2>2. lock' \in 0..sup'.attempt
    BY <1>1, <1>2, <1>3 DEF RunFilesFit
  <2> QED BY <1>1, <1>2, <1>3, <1>5, <2>1, <2>2 DEF RunFilesFit
<1>7. OperatorFits'
  BY <1>1, <1>2, <1>3, <1>4 DEF OperatorFits, ActiveStates
<1>8. ASSUME NEW w \in Workers PROVE CrewRowFits(w, workers[w])'
  <2>1. CrewRowFits(w, workers[w]) /\ w[1] \in Nat
    BY <1>1 DEF Workers
  <2>2. NoWorker \in WorkerType /\ NoWorker.pc = "none"
    BY DEF NoWorker, WorkerType, ValidationAssumption, RuntimeAccepted
  <2>3. CASE Alive(w)
    BY <1>2, <1>3, <1>5, <2>1, <2>3 DEF CrewRowFits
  <2>4. CASE ~Alive(w)
    BY <1>5, <2>2, <2>4 DEF CrewRowFits
  <2> QED BY <2>3, <2>4
<1>9. ASSUME NEW w \in Crew' PROVE ClaimFits(w)'
  <2>1. w \in Workers /\ w[1] = sup.attempt + 1
    BY <1>3, <1>9 DEF Crew
  <2>2. ~Alive(w)
    BY <1>1, <1>2, <2>1 DEF CrewRowFits, Alive
  <2>3. workers'[w] = NoWorker
    BY <1>5, <2>1, <2>2
  <2> QED BY <2>3 DEF ClaimFits, Is, NoWorker
<1>10. SupFits'
  BY <1>3 DEF SupFits, Holding, Handling
<1>11. ASSUME ~orphaned PROVE SupervisionFits'
  <2>1. \A w \in Workers : ~Alive(w)
    BY <1>1, <1>2, <1>11 DEF SupervisionFits, CrewWorkFits, Watching, Holding, Handling
  <2>2. \A w \in Workers : workers'[w] = NoWorker
    BY <1>5, <2>1
  <2>3. \A w \in Workers : CrewWorkFits(w)'
    BY <1>3, <2>2 DEF CrewWorkFits, Is, Alive, NoWorker, Watching, Holding, Handling
  <2> QED BY <1>3, <2>3 DEF SupervisionFits, VictimFits, Watching, Holding, Handling
<1> QED BY <1>2, <1>6, <1>7, <1>8, <1>9, <1>10, <1>11 DEF ValidationInv

-----------------------------------------------------------------------------
\* The invariant holds before the first command.
LEMMA InitFits ==
    ASSUME ValidationAssumption, ValidationInit
    PROVE  ValidationInv
<1>1. MaxAttempts \in Nat \ {0} /\ TimeoutAttempts \in Nat \ {0} /\ MaxRestarts \in Nat
  BY DEF ValidationAssumption, RuntimeAccepted
<1>2. sup \in SupervisorType /\ sup.pc = "gone" /\ sup.attempt = 0
  <2>1. Queue[1] \in Positions
    BY QueueFits
  <2> QED BY <1>1, <2>1 DEF ValidationInit, Supervisor, SupervisorType, SupervisorSteps
<1>3. /\ DOMAIN workers = Workers /\ workers = [w \in Workers |-> workers[w]]
      /\ \A w \in Workers : workers[w] = NoWorker
  BY DEF ValidationInit
<1>4. NoWorker \in WorkerType /\ NoWorker.pc = "none"
  BY <1>1 DEF NoWorker, WorkerType
<1>5. RunFilesFit
  BY <1>1, <1>2, <1>3 DEF ValidationInit, RunFilesFit, CellResults
<1>6. OperatorFits
  <2>1. NoStatus \in StatusType /\ NoStatus.state = "not-started"
    BY <1>1 DEF NoStatus, StatusType
  <2> QED BY <1>2, <2>1, NoCommandFits DEF ValidationInit, OperatorFits
<1>7. \A w \in Workers : CrewRowFits(w, workers[w])
  BY <1>3, <1>4 DEF CrewRowFits
<1>8. Crew \subseteq Workers /\ \A w \in Crew : ClaimFits(w)
  BY <1>3, <1>4 DEF Crew, ClaimFits, Is
<1>9. SupFits
  BY <1>2 DEF SupFits, Holding, Handling
<1>10. SupervisionFits
  BY <1>2, <1>3, <1>4
     DEF SupervisionFits, CrewWorkFits, VictimFits, Is, Alive, Watching, Holding, Handling
<1> QED BY <1>5, <1>6, <1>7, <1>8, <1>9, <1>10 DEF ValidationInv

\* The invariant is about the variables of the run alone.
LEMMA StutterFits ==
    ASSUME ValidationInv, UNCHANGED validationVars
    PROVE  ValidationInv'
<1>1. UNCHANGED <<sup, workers, claims, result, timeouts, status, pause, lock, op, orphaned>>
  BY DEF validationVars, files
<1>2. /\ RunFilesFit' = RunFilesFit /\ OperatorFits' = OperatorFits /\ Crew' = Crew
      /\ \A w \in Workers : CrewRowFits(w, workers[w])' = CrewRowFits(w, workers[w])
  BY <1>1 DEF RunFilesFit, OperatorFits, Crew, CrewRowFits
<1>3. \A w \in Workers : Cell(w)' = Cell(w) /\ Alive(w)' = Alive(w)
                          /\ \A p \in Positions : Owns(w, p)' = Owns(w, p)
  BY <1>1 DEF Cell, Alive, Owns, Signed
<1>4. \A w \in Crew : ClaimFits(w)' = ClaimFits(w)
  BY <1>1 DEF ClaimFits, Is, Owns, Signed, Unsigned, Cell
<1>5. SupFits' = SupFits
  BY <1>1, <1>2 DEF SupFits, Alive, Owns, Signed
<1>6. \A p \in Positions : /\ Settled(p)' = Settled(p) /\ Pends(p)' = Pends(p)
                           /\ Covered(p)' = Covered(p)
  BY <1>1, <1>2 DEF Settled, Pends, Covered, Terminal, UsedUp, Covers, Ahead, Alive
<1>7. \A w \in Workers : CrewWorkFits(w)' = CrewWorkFits(w)
  BY <1>1, <1>2 DEF CrewWorkFits, Is, Alive, Cell, Ended, Owns, Signed
<1>8. VictimFits' = VictimFits
  BY <1>1 DEF VictimFits, Pends, Ended, Alive, Is, Cell
<1>9. Begun' = Begun
  BY <1>1, <1>2 DEF Begun
<1>10. SupervisionFits' = SupervisionFits
  BY <1>1, <1>2, <1>6, <1>7, <1>8, <1>9 DEF SupervisionFits
<1> QED BY <1>1, <1>2, <1>4, <1>5, <1>10 DEF ValidationInv, Crew

\* Every step of the supervisor, the workers, the operator and the host keeps
\* the invariant.
LEMMA NextFits ==
    ASSUME ValidationAssumption, ValidationInv, [ValidationNext]_validationVars
    PROVE  ValidationInv'
<1>1. CASE Supervises
  BY <1>1, PhaseSteps, EndSteps, PrepareSteps, SpawnStep, StopSteps, ChoiceSteps,
     KillTimedOutStep, TimeoutSteps, SeeExitStep, DecideStep, FailClaimedStep DEF Supervises
<1>2. CASE Breaks
  BY <1>2, StopSteps
<1>3. ASSUME NEW w \in Workers, Moves(w) \/ EndCell(w) \/ Die(w) PROVE ValidationInv'
  BY <1>3, LookStep, ClaimCellStep, SignStep, ReleaseStep, EndCellStep, DieStep DEF Moves
<1>4. CASE Operates
  BY <1>4, CommandSteps, SpawnRunStep, RequeueStep DEF Operates
<1>5. CASE KillSupervisor \/ StopHost
  BY <1>5, EndSteps
<1>6. CASE UNCHANGED validationVars
  BY <1>6, StutterFits
<1> QED BY <1>1, <1>2, <1>3, <1>4, <1>5, <1>6 DEF ValidationNext

\* The inductive invariant holds throughout (run_validation, _worker and the
\* commands of machine_validation_runner.py), with any number of slots,
\* positions, attempts, restarts and timeouts.
THEOREM ValidationInvariant == ValidationSpec => []ValidationInv
<1>1. ValidationInit => ValidationInv
  BY InitFits, ValidationAssumption
<1>2. ValidationInv /\ [ValidationNext]_validationVars => ValidationInv'
  BY NextFits, ValidationAssumption
<1> QED BY <1>1, <1>2, PTL DEF ValidationSpec

\* The invariant implies the types.
LEMMA InvTyped ==
    ASSUME ValidationInv
    PROVE  ValidationTypeOK
<1>1. RunFilesFit /\ OperatorFits /\ \A w \in Workers : CrewRowFits(w, workers[w])
  BY DEF ValidationInv
<1>2. workers \in [Workers -> WorkerType]
  BY <1>1 DEF RunFilesFit, CrewRowFits
<1> QED BY <1>1, <1>2
    DEF RunFilesFit, OperatorFits, SupervisorType, CellResults, ValidationTypeOK

\* The invariant implies the three promises of a run.
LEMMA InvControlled ==
    ASSUME ValidationAssumption, ValidationInv
    PROVE  RunControlled
<1>1. /\ RunFilesFit /\ OperatorFits /\ \A w \in Workers : CrewRowFits(w, workers[w])
      /\ \A w \in Crew : ClaimFits(w)
      /\ orphaned \/ SupervisionFits
  BY DEF ValidationInv
<1>2. OneWorkerPerCell
  <2>1. ASSUME NEW v \in Crew, NEW w \in Crew, NEW p \in Positions, Runs(v, p), Runs(w, p)
        PROVE  v = w
    <3>1. Owns(v, p) /\ Owns(w, p)
      BY <1>1, <2>1 DEF Runs, ClaimFits
    <3>2. v \in Workers /\ w \in Workers
      BY DEF Crew
    <3>3. v # w => Signed(v) # Signed(w)
      BY <3>2, ClaimValues
    <3> QED BY <3>1, <3>3 DEF Owns
  <2> QED BY <2>1 DEF OneWorkerPerCell
<1>3. StoppedIsStopped
  <2>1. SUFFICES ASSUME Reported \notin ActiveStates, ~orphaned, NEW w \in Workers, Alive(w)
                 PROVE  FALSE
    BY DEF StoppedIsStopped
  <2>2. sup.pc \in Watching
    BY <1>1, <2>1 DEF SupervisionFits, CrewWorkFits
  <2>3. sup.pc \notin {"gone", "start", "unlock"}
    BY <2>2 DEF Watching, Holding, Handling
  <2>4. status.state \in ActiveStates /\ status.by = sup.attempt /\ sup.attempt # 0
    BY <1>1, <2>3 DEF OperatorFits, RunFilesFit
  <2>5. ProcessActive(status.by)
    BY <2>3, <2>4 DEF ProcessActive
  <2> QED BY <2>1, <2>4, <2>5 DEF Reported
<1>4. NothingStranded
  <2>1. SUFFICES ASSUME At("aggregate"), ~orphaned
                 PROVE  \/ \A p \in Positions :
                              \/ Terminal(p) \/ p \in sup.overtaken
                              \/ claims[p] # None /\ ~claims[p].signed
                        \/ \E w \in Crew : workers[w].restarts = MaxRestarts /\ ~workers[w].finished
    BY DEF NothingStranded
  <2>2. /\ sup.pc = "aggregate" /\ \A w \in Crew : workers[w].handled
        /\ Begun \/ sup.pending = {}
        /\ Begun => \A p \in Positions : Covered(p)
        /\ \A p \in Positions : Settled(p) \/ Pends(p)
    BY <1>1, <2>1 DEF SupervisionFits, At
  <2>3. CASE Begun
    <3>1. \A p \in Positions : Settled(p) \/ (claims[p] # None /\ ~claims[p].signed) \/ UsedUp
      BY <2>2, <2>3 DEF Covered, Covers
    <3>2. CASE UsedUp
      BY <3>2 DEF UsedUp
    <3>3. CASE ~UsedUp
      BY <3>1, <3>3 DEF Settled
    <3> QED BY <3>2, <3>3
  <2>4. CASE sup.pending = {}
    BY <2>2, <2>4 DEF Pends, Settled
  <2> QED BY <2>2, <2>3, <2>4
<1> QED BY <1>2, <1>3, <1>4 DEF RunControlled

\* The records of a run, its claims, its results and its status stay within
\* their types.
THEOREM ValidationTypeCorrect == ValidationSpec => []ValidationTypeOK
<1>1. ValidationInv => ValidationTypeOK
  BY InvTyped
<1> QED BY <1>1, ValidationInvariant, PTL

\* Two workers of a supervisor never run one position, a run that is reported
\* stopped has no worker left, and the report is written only when nothing is
\* left that a worker was still to see to (_claim_position,
\* _terminate_worker_groups and the loop of run_validation).
THEOREM ValidationRunControlled == ValidationSpec => []RunControlled
<1>1. ValidationInv => RunControlled
  BY InvControlled, ValidationAssumption
<1> QED BY <1>1, ValidationInvariant, PTL

\* The steps that write a result.
LEMMA CompleteStays ==
    ASSUME ValidationAssumption, ValidationInv, ValidationNext, ~orphaned,
           NEW p \in Positions, result[p] = "complete"
    PROVE  result'[p] = "complete" \/ p \in sup'.overtaken
<1>1. /\ RunFilesFit /\ SupervisionFits /\ (\A w \in Workers : CrewRowFits(w, workers[w]))
      /\ sup \in SupervisorType
      /\ result \in [Positions -> CellResults]
  BY DEF ValidationInv, RunFilesFit
<1>2. CASE UNCHANGED result
  BY <1>2
<1>3. CASE Prepare
  <2>1. ASSUME result' # result PROVE result'[p] = "complete"
    <3>1. PICK i \in sup.pending :
             result' = [result EXCEPT ![Queue[i]] =
                           IF Terminal(Queue[i]) THEN result[Queue[i]] ELSE "failed"]
      BY <1>3, <2>1 DEF Prepare
    <3> QED BY <1>1, <3>1 DEF Terminal
  <2> QED BY <2>1
<1>4. CASE RecordTimeout \/ ArchiveTimeout
  <2>1. p # sup.victim => result'[p] = "complete"
    BY <1>1, <1>4 DEF RecordTimeout, ArchiveTimeout
  <2>2. sup'.overtaken = Overtaken({sup.victim})
    BY <1>1, <1>4 DEF RecordTimeout, ArchiveTimeout, SupervisorType
  <2> QED BY <2>1, <2>2 DEF Overtaken
<1>5. CASE FailClaimed
  <2>1. sup'.overtaken = Overtaken(sup.released)
    BY <1>1, <1>5 DEF FailClaimed, SupervisorType
  <2>2. p \notin sup.released => result'[p] = "complete"
    BY <1>5 DEF FailClaimed
  <2> QED BY <2>1, <2>2 DEF Overtaken
<1>6. ASSUME NEW w \in Workers, EndCell(w) PROVE result'[p] = "complete"
  <2>1. result[Cell(w)] # "complete"
    BY <1>1, <1>6 DEF EndCell, SupervisionFits, CrewWorkFits
  <2> QED BY <1>1, <1>6, <2>1 DEF EndCell
<1>7. ASSUME NEW ps \in SUBSET Positions, Requeue(ps) PROVE result'[p] = "complete"
  BY <1>7 DEF Requeue
<1>8. ASSUME Supervises \/ Breaks
      PROVE  UNCHANGED result \/ Prepare \/ RecordTimeout \/ ArchiveTimeout \/ FailClaimed
  BY <1>8 DEF Supervises, TakeLock, ExitEarly, EvidenceRefused, Plan, Spawn, SeePause, StopCrew, WritePaused,
     SeeTimeout, KillTimedOut, CheckVictim, AllowAttempt, SeeExit, Decide, EndIteration,
     Aggregate, Analyze, Retain, Unlock, Breaks, files
<1>9. ASSUME NEW w \in Workers, Moves(w) \/ Die(w) PROVE UNCHANGED result
  BY <1>9 DEF Moves, Look, ClaimCell, Sign, Release, Die, files
<1>10. ASSUME Operates
       PROVE  UNCHANGED result \/ \E ps \in SUBSET Positions : Requeue(ps)
  BY <1>10 DEF Operates, Start, ResumeRun, SpawnRun, Reread, RecordPid, PauseStopped,
     RequestPause, WritePausing, files
<1>11. KillSupervisor \/ StopHost => UNCHANGED result
  BY DEF KillSupervisor, StopHost, files
<1> QED BY <1>2, <1>3, <1>4, <1>5, <1>6, <1>7, <1>8, <1>9, <1>10, <1>11 DEF ValidationNext

\* No step takes a complete result away, but one that the supervisor overtook
\* (RecordTimeout, ArchiveTimeout and FailClaimed write a result they read
\* before; Requeue and Prepare leave the complete ones).
THEOREM ValidationCompleteKept == ValidationSpec => CompleteKept
<1>1. ValidationInv /\ [ValidationNext]_validationVars =>
        [\A p \in Positions :
            result[p] = "complete" /\ ~orphaned =>
                result'[p] = "complete" \/ p \in sup'.overtaken]_validationVars
  BY CompleteStays, ValidationAssumption
<1> QED BY <1>1, ValidationInvariant, PTL DEF ValidationSpec, CompleteKept

-----------------------------------------------------------------------------
\* The qualification of links (machine_validation_links.py).  The marker of a
\* fold is written last, by rename, and never again: the invariant says what it
\* names, and that whoever makes an image shares its number with nobody.
Places == {"generation", "run"}

\* A marker, once there, names a genuine image, and the files of the fold are
\* that image, or what a power loss made of it.
FoldFits(p, c) ==
    LET f == folds[p][c] IN
    /\ DOMAIN f = {"truth", "query", "audit", "marker"}
    /\ f.marker # <<>> =>
          \E m : /\ f.marker = <<m>> /\ m.truth \in 1..links /\ Genuine(m)
                 /\ {f.truth, f.query} \subseteq {m.truth, Torn}
    /\ accidents.losses = 0 => f.truth # Torn /\ f.query # Torn

\* A thread that makes an image: no marker names it yet, and no other thread
\* makes the same.
Making(w, c) == threads[w][c] \in {"audit", "strip", "mark"}
ImageFresh(w, c) ==
    LET n == Fold(w, c).truth IN
    /\ n \in 1..links /\ n \notin rejected
    /\ \A p \in Places, d \in LinkCell :
          folds[p][d].marker # <<>> => folds[p][d].marker[1].truth # n
    /\ \A v \in Preparer, d \in LinkCell :
          Making(v, d) /\ Fold(v, d).truth = n => v = w /\ d = c

ThreadFits(w, c) ==
    LET f == Fold(w, c) IN
    /\ threads[w][c] = "link" \/ Making(w, c) => f.marker = <<>>
    /\ Making(w, c) => ImageFresh(w, c)
    /\ threads[w][c] \in {"strip", "mark"} => f.audit = f.truth
    /\ threads[w][c] = "mark" => f.query = f.truth
    /\ threads[w][c] = "read" => f.marker # <<>>

\* One qualifier at most is at work; one that is gone has left linkers only.
AtWork(r) == qualifying[r].on \/ \E c \in LinkCell : threads[r][c] # "idle"
QualifierFits(r) ==
    /\ DOMAIN qualifying[r] = {"on", "rows", "pending", "batch", "failures", "open"}
    /\ ~qualifying[r].on => \A c \in LinkCell : threads[r][c] \in {"idle", "link"}
    /\ qualifying[r].on =>
          /\ qualifying[r].rows = Recorded
          /\ \A c \in LinkCell : threads[r][c] # "idle" => c \in qualifying[r].batch
    /\ \A q \in Qualifier : AtWork(r) /\ AtWork(q) => q = r

ValidatorFits ==
    \A c \in LinkCell :
        /\ validating.phase = "idle" => threads[Validator][c] \in {"idle", "link"}
        /\ validating.phase \in {"reuse", "copied"} => threads[Validator][c] = "idle"

\* A row of a qualified cell is the marker of its fold.
ReportFits ==
    /\ linkReport # <<>> =>
          \E report : /\ linkReport = <<report>>
                      /\ report.state = "qualified" => AllQualified(report.rows)
    /\ DOMAIN Recorded = LinkCell
    /\ \A c \in LinkCell :
          Recorded[c].status = "qualified" =>
             /\ Recorded[c].image = folds["generation"][c].marker
             /\ folds["generation"][c].marker # <<>>

LinkFiles ==
    /\ links \in 0..MaxLinks /\ accidents.losses \in Nat
    /\ rejected \subseteq 1..links
    /\ folds = [p \in Places |-> [c \in LinkCell |-> folds[p][c]]]
    /\ threads = [w \in Preparer |-> [c \in LinkCell |-> threads[w][c]]]
    /\ qualifying = [r \in Qualifier |-> qualifying[r]]
    /\ validating.phase \in {"idle", "reuse", "copied", "prepare"}
    /\ DOMAIN validating = {"phase", "reusing"}
    /\ DOMAIN accidents = {"kills", "losses", "admissions"}

LinkFits ==
    /\ overlapped = FALSE /\ LinkFiles /\ ReportFits /\ ValidatorFits
    /\ \A p \in Places, c \in LinkCell : FoldFits(p, c)
    /\ \A w \in Preparer, c \in LinkCell : ThreadFits(w, c)
    /\ \A r \in Qualifier : QualifierFits(r)

LinkInv == overlapped = TRUE \/ LinkFits

\* What a thread's step does to the folds and to the threads.
Holds(w, c, f) ==
    /\ folds' = [p \in Places |-> [d \in LinkCell |-> folds'[p][d]]]
    /\ folds'[PlaceOf(w)][c] = f
    /\ \A p \in Places, d \in LinkCell :
          p # PlaceOf(w) \/ d # c => folds'[p][d] = folds[p][d]
Steps(w, c, step) ==
    /\ threads' = [v \in Preparer |-> [d \in LinkCell |-> threads'[v][d]]]
    /\ threads'[w][c] = step
    /\ \A v \in Preparer, d \in LinkCell :
          v # w \/ d # c => threads'[v][d] = threads[v][d]

\* Every preparer's folds are in one of two places.
LEMMA Placed == \A w : PlaceOf(w) \in Places
BY DEF PlaceOf, Places

\* A fold written, as a fact about each fold.
LEMMA Written ==
    ASSUME LinkFits, NEW w \in Preparer, NEW c \in LinkCell, NEW f, Write(w, c, f)
    PROVE  Holds(w, c, f)
<1>1. PICK old : old = folds
  OBVIOUS
<1>2. PICK new : new = folds'
  OBVIOUS
<1>3. PICK place : place = PlaceOf(w) /\ place \in Places
  BY Placed
<1>4. old = [p \in Places |-> [d \in LinkCell |-> old[p][d]]]
  BY <1>1 DEF LinkFits, LinkFiles
<1>5. new = [old EXCEPT ![place][c] = f]
  BY <1>1, <1>2, <1>3 DEF Write
<1>6. \A p \in Places : old[p] = [d \in LinkCell |-> old[p][d]]
  BY <1>4
<1>7. new[place] = [old[place] EXCEPT ![c] = f] /\ DOMAIN new = Places
  BY <1>3, <1>4, <1>5
<1>8. \A p \in Places : p # place => new[p] = old[p]
  BY <1>4, <1>5
<1>9. /\ \A d \in LinkCell : new[place][d] = IF d = c THEN f ELSE old[place][d]
      /\ new[place] = [d \in LinkCell |-> new[place][d]]
  BY <1>3, <1>6, <1>7
<1>10. \A p \in Places : new[p] = [d \in LinkCell |-> new[p][d]]
  BY <1>6, <1>8, <1>9
<1>11. new = [p \in Places |-> new[p]]
  BY <1>4, <1>5
<1>12. new = [p \in Places |-> [d \in LinkCell |-> new[p][d]]]
  BY <1>10, <1>11
<1> QED BY <1>1, <1>2, <1>3, <1>8, <1>9, <1>12 DEF Holds

\* No fold written, as the same fact.
LEMMA FoldKept ==
    ASSUME LinkFits, NEW w \in Preparer, NEW c \in LinkCell, folds' = folds
    PROVE  Holds(w, c, Fold(w, c))
BY DEF Holds, LinkFits, LinkFiles, Fold

\* A thread's step, as a fact about each thread.
LEMMA Stepped ==
    ASSUME LinkFits, NEW w \in Preparer, NEW c \in LinkCell, NEW step, ToStep(w, c, step)
    PROVE  Steps(w, c, step)
<1>1. PICK old : old = threads
  OBVIOUS
<1>2. PICK new : new = threads'
  OBVIOUS
<1>3. old = [v \in Preparer |-> [d \in LinkCell |-> old[v][d]]]
  BY <1>1 DEF LinkFits, LinkFiles
<1>4. new = [old EXCEPT ![w][c] = step]
  BY <1>1, <1>2 DEF ToStep
<1>5. \A v \in Preparer : old[v] = [d \in LinkCell |-> old[v][d]]
  BY <1>3
<1>6. new[w] = [old[w] EXCEPT ![c] = step] /\ DOMAIN new = Preparer
  BY <1>3, <1>4
<1>7. \A v \in Preparer : v # w => new[v] = old[v]
  BY <1>3, <1>4
<1>8. /\ \A d \in LinkCell : new[w][d] = IF d = c THEN step ELSE old[w][d]
      /\ new[w] = [d \in LinkCell |-> new[w][d]]
  BY <1>5, <1>6
<1>9. \A v \in Preparer : new[v] = [d \in LinkCell |-> new[v][d]]
  BY <1>5, <1>7, <1>8
<1>10. new = [v \in Preparer |-> new[v]]
  BY <1>3, <1>4
<1>11. new = [v \in Preparer |-> [d \in LinkCell |-> new[v][d]]]
  BY <1>9, <1>10
<1> QED BY <1>1, <1>2, <1>7, <1>8, <1>11 DEF Steps

\* No two threads work on one fold.
LEMMA Apart ==
    ASSUME LinkAssumption, LinkFits, NEW v \in Preparer, NEW w \in Preparer, NEW c \in LinkCell,
           NEW d \in LinkCell, threads[v][d] # "idle", threads[w][c] # "idle",
           PlaceOf(v) = PlaceOf(w)
    PROVE  v = w
BY DEF LinkAssumption, LinkFits, QualifierFits, AtWork, PlaceOf, Preparer

\* The thread of w on cell c makes a step, with f the fold it leaves: the
\* other folds and threads keep to what they have.
WorkDone(w, c, f, step) ==
    /\ Holds(w, c, f) /\ Steps(w, c, step) /\ threads[w][c] # "idle"
    /\ UNCHANGED <<accidents, overlapped>>
    /\ \/ /\ links' = links
          /\ step \in {"audit", "strip", "mark"} => Making(w, c) /\ f.truth = Fold(w, c).truth
       \/ links' = links + 1 /\ links < MaxLinks /\ f.truth = links + 1 /\ f.marker = <<>>
    /\ \/ rejected' = rejected
       \/ Making(w, c) /\ rejected' = rejected \cup {Fold(w, c).truth} /\ step = "idle"
    /\ \/ f.marker = Fold(w, c).marker
       \/ Making(w, c) /\ f.marker # <<>> /\ f.marker[1].truth = Fold(w, c).truth /\ step = "read"
    /\ step = "link" \/ step \in {"audit", "strip", "mark"} => f.marker = <<>>
    /\ step \in {"strip", "mark"} => f.audit = f.truth
    /\ step = "mark" => f.query = f.truth
    /\ step = "read" => f.marker # <<>>

\* One thread's work leaves the other folds true, and the other threads.
LEMMA OtherFoldsFit ==
    ASSUME LinkAssumption, LinkFits, NEW w \in Preparer, NEW c \in LinkCell, NEW f, NEW step,
           WorkDone(w, c, f, step), NEW p \in Places, NEW d \in LinkCell,
           p # PlaceOf(w) \/ d # c
    PROVE  FoldFits(p, d)'
<1>1. folds'[p][d] = folds[p][d] /\ FoldFits(p, d) /\ ThreadFits(w, c) /\ links \in Nat
  BY DEF WorkDone, Holds, LinkFits, LinkFiles
<1>2. CASE folds[p][d].marker = <<>>
  BY <1>1, <1>2 DEF FoldFits, WorkDone
<1>3. CASE folds[p][d].marker # <<>>
  <2>1. PICK m : /\ folds[p][d].marker = <<m>> /\ m.truth \in 1..links /\ Genuine(m)
                 /\ {folds[p][d].truth, folds[p][d].query} \subseteq {m.truth, Torn}
    BY <1>1, <1>3 DEF FoldFits
  <2>2. m.truth \in 1..links'
    BY <1>1, <2>1 DEF WorkDone
  <2>3. m.truth \notin rejected'
    <3>1. folds[p][d].marker[1] = m /\ m.truth \notin rejected
      BY <2>1 DEF Genuine
    <3>2. Making(w, c) => m.truth # Fold(w, c).truth
      BY <1>1, <1>3, <3>1 DEF ThreadFits, ImageFresh
    <3> QED BY <3>1, <3>2 DEF WorkDone
  <2>4. Genuine(m)'
    BY <2>1, <2>3 DEF Genuine, Torn
  <2> QED BY <1>1, <2>1, <2>2, <2>4 DEF FoldFits, WorkDone, Torn
<1> QED BY <1>2, <1>3

LEMMA OtherThreadsFit ==
    ASSUME LinkAssumption, LinkFits, NEW w \in Preparer, NEW c \in LinkCell, NEW f, NEW step,
           WorkDone(w, c, f, step), NEW v \in Preparer, NEW d \in LinkCell, v # w \/ d # c
    PROVE  ThreadFits(v, d)'
<1>1. threads'[v][d] = threads[v][d] /\ ThreadFits(v, d) /\ ThreadFits(w, c) /\ links \in Nat
  BY DEF WorkDone, Steps, LinkFits, LinkFiles
<1>2. CASE threads[v][d] = "idle"
  BY <1>1, <1>2 DEF ThreadFits, Making
<1>3. CASE threads[v][d] # "idle"
  <2>1. PlaceOf(v) # PlaceOf(w) \/ d # c
    BY <1>3, Apart DEF WorkDone
  <2>2. Fold(v, d)' = Fold(v, d)
    BY <2>1, Placed DEF WorkDone, Holds, Fold
  <2>3. ASSUME Making(v, d) PROVE ImageFresh(v, d)'
    <3>1. PICK n : n = Fold(v, d).truth
      OBVIOUS
    <3>2. /\ n \in 1..links /\ n \notin rejected
          /\ \A q \in Places, e \in LinkCell :
                folds[q][e].marker # <<>> => folds[q][e].marker[1].truth # n
          /\ \A u \in Preparer, e \in LinkCell :
                Making(u, e) /\ Fold(u, e).truth = n => u = v /\ e = d
      BY <1>1, <2>3, <3>1 DEF ThreadFits, ImageFresh
    <3>3. Making(w, c) => Fold(w, c).truth # n
      BY <3>2
    <3>4. n \in 1..links' /\ n \notin rejected'
      BY <1>1, <3>2, <3>3 DEF WorkDone
    <3>5. ASSUME NEW q \in Places, NEW e \in LinkCell, folds'[q][e].marker # <<>>
          PROVE  folds'[q][e].marker[1].truth # n
      <4>1. CASE q = PlaceOf(w) /\ e = c
        <5>1. folds'[q][e] = f /\ Fold(w, c) = folds[q][e]
          BY <4>1 DEF WorkDone, Holds, Fold
        <5> QED BY <5>1, <3>2, <3>3, <3>5 DEF WorkDone
      <4>2. CASE q # PlaceOf(w) \/ e # c
        BY <4>2, <3>2, <3>5 DEF WorkDone, Holds
      <4> QED BY <4>1, <4>2
    <3>6. ASSUME NEW u \in Preparer, NEW e \in LinkCell,
                 Making(u, e)', Fold(u, e)'.truth = n
          PROVE  u = v /\ e = d
      <4>1. CASE u = w /\ e = c
        <5>1. Fold(u, e)' = f /\ threads'[u][e] = step
          BY <4>1 DEF WorkDone, Holds, Fold, Steps
        <5>2. step \in {"audit", "strip", "mark"}
          BY <5>1, <3>6 DEF Making
        <5> QED BY <5>1, <5>2, <3>2, <3>3, <3>6, <1>1 DEF WorkDone
      <4>2. CASE u # w \/ e # c
        <5>1. threads'[u][e] = threads[u][e] /\ Making(u, e)
          BY <4>2, <3>6 DEF WorkDone, Steps, Making
        <5>2. PlaceOf(u) # PlaceOf(w) \/ e # c
          BY <4>2, <5>1, Apart DEF WorkDone, Making
        <5>3. Fold(u, e)' = Fold(u, e)
          BY <5>2, Placed DEF WorkDone, Holds, Fold
        <5> QED BY <5>1, <5>3, <3>2, <3>6
      <4> QED BY <4>1, <4>2
    <3> QED BY <3>1, <3>4, <3>5, <3>6, <2>2 DEF ImageFresh
  <2> QED BY <1>1, <2>2, <2>3 DEF ThreadFits, Making
<1> QED BY <1>2, <1>3

\* The thread's own step keeps what is known of it.
LEMMA OwnThreadFits ==
    ASSUME LinkAssumption, LinkFits, NEW w \in Preparer, NEW c \in LinkCell, NEW f, NEW step,
           WorkDone(w, c, f, step)
    PROVE  ThreadFits(w, c)'
<1>1. /\ threads'[w][c] = step /\ Fold(w, c)' = f /\ ThreadFits(w, c) /\ links \in Nat
      /\ Fold(w, c) = folds[PlaceOf(w)][c]
  BY DEF WorkDone, Steps, Holds, LinkFits, LinkFiles, Fold
<1>2. ASSUME step \in {"audit", "strip", "mark"} PROVE ImageFresh(w, c)'
  <2>1. f.marker = <<>> /\ rejected' = rejected
    BY <1>2 DEF WorkDone
  <2>2. \A q \in Places, e \in LinkCell : q # PlaceOf(w) \/ e # c => folds'[q][e] = folds[q][e]
    BY DEF WorkDone, Holds
  <2>3. ASSUME NEW u \in Preparer, NEW e \in LinkCell, Making(u, e)', u # w \/ e # c
        PROVE  Making(u, e) /\ Fold(u, e)' = Fold(u, e)
    <3>1. threads'[u][e] = threads[u][e] /\ Making(u, e)
      BY <2>3 DEF WorkDone, Steps, Making
    <3>2. PlaceOf(u) # PlaceOf(w) \/ e # c
      BY <2>3, <3>1, Apart DEF WorkDone, Making
    <3> QED BY <3>1, <3>2, Placed DEF WorkDone, Holds, Fold
  <2>4. CASE /\ links' = links
             /\ Making(w, c) /\ f.truth = Fold(w, c).truth
    <3>1. ImageFresh(w, c)
      BY <1>1, <2>4 DEF ThreadFits
    <3>2. \A q \in Places, e \in LinkCell :
             folds'[q][e].marker # <<>> => folds'[q][e].marker[1].truth # f.truth
      BY <1>1, <2>1, <2>2, <2>4, <3>1 DEF ImageFresh, Fold
    <3>3. \A u \in Preparer, e \in LinkCell :
             Making(u, e)' /\ Fold(u, e)'.truth = f.truth => u = w /\ e = c
      BY <2>3, <2>4, <3>1 DEF ImageFresh
    <3> QED BY <1>1, <2>1, <2>4, <3>1, <3>2, <3>3 DEF ImageFresh
  <2>5. CASE links' = links + 1 /\ links < MaxLinks /\ f.truth = links + 1
    <3>1. ASSUME NEW q \in Places, NEW e \in LinkCell, folds[q][e].marker # <<>>
          PROVE  folds[q][e].marker[1].truth # links + 1
      <4>1. folds[q][e].marker[1].truth \in 1..links
        BY <3>1 DEF LinkFits, FoldFits
      <4> QED BY <4>1, <1>1
    <3>2. \A q \in Places, e \in LinkCell :
             folds'[q][e].marker # <<>> => folds'[q][e].marker[1].truth # f.truth
      <4>1. folds'[PlaceOf(w)][c] = f
        BY DEF WorkDone, Holds
      <4> QED BY <4>1, <2>1, <2>2, <2>5, <3>1
    <3>3. ASSUME NEW u \in Preparer, NEW e \in LinkCell, Making(u, e)',
                 Fold(u, e)'.truth = f.truth, u # w \/ e # c
          PROVE  FALSE
      <4>1. Making(u, e) /\ Fold(u, e).truth = links + 1
        BY <2>3, <2>5, <3>3
      <4>2. Fold(u, e).truth \in 1..links
        BY <4>1 DEF LinkFits, ThreadFits, ImageFresh
      <4> QED BY <4>1, <4>2, <1>1
    <3>4. f.truth \in 1..links'
      BY <1>1, <2>5
    <3>5. f.truth \notin rejected'
      BY <1>1, <2>1, <2>5 DEF LinkFits, LinkFiles
    <3> QED BY <1>1, <3>2, <3>3, <3>4, <3>5 DEF ImageFresh
  <2> QED BY <2>4, <2>5, <1>2 DEF WorkDone
<1>3. Making(w, c)' <=> step \in {"audit", "strip", "mark"}
  BY <1>1 DEF Making
<1>4. /\ step = "link" \/ step \in {"audit", "strip", "mark"} => f.marker = <<>>
      /\ step \in {"strip", "mark"} => f.audit = f.truth
      /\ step = "mark" => f.query = f.truth
      /\ step = "read" => f.marker # <<>>
  BY DEF WorkDone
<1> QED BY <1>1, <1>2, <1>3, <1>4 DEF ThreadFits

\* What is left of a step of a thread, once its own fold is looked at.
LEMMA WorkStays ==
    ASSUME LinkAssumption, LinkFits, NEW w \in Preparer, NEW c \in LinkCell, NEW f, NEW step,
           WorkDone(w, c, f, step), FoldFits(PlaceOf(w), c)'
    PROVE  /\ \A p \in Places, d \in LinkCell : FoldFits(p, d)'
           /\ \A v \in Preparer, d \in LinkCell : ThreadFits(v, d)'
           /\ \A d \in LinkCell :
                 folds["generation"][d].marker # <<>>
                 => folds'["generation"][d].marker = folds["generation"][d].marker
           /\ overlapped' = FALSE
           /\ links' \in 0..MaxLinks /\ accidents' = accidents /\ rejected' \subseteq 1..links'
           /\ folds' = [p \in Places |-> [d \in LinkCell |-> folds'[p][d]]]
           /\ threads' = [v \in Preparer |-> [d \in LinkCell |-> threads'[v][d]]]
<1>1. \A p \in Places, d \in LinkCell : FoldFits(p, d)'
  BY OtherFoldsFit, Placed
<1>2. \A v \in Preparer, d \in LinkCell : ThreadFits(v, d)'
  BY OtherThreadsFit, OwnThreadFits
<1>3. ThreadFits(w, c) /\ links \in 0..MaxLinks /\ rejected \subseteq 1..links
  BY DEF LinkFits, LinkFiles
<1>4. \A d \in LinkCell :
         folds["generation"][d].marker # <<>>
         => folds'["generation"][d].marker = folds["generation"][d].marker
  <2> TAKE d \in LinkCell
  <2>1. CASE PlaceOf(w) = "generation" /\ d = c
    BY <1>3, <2>1 DEF WorkDone, Holds, ThreadFits, Fold
  <2>2. CASE PlaceOf(w) # "generation" \/ d # c
    BY <2>2 DEF WorkDone, Holds, Places
  <2> QED BY <2>1, <2>2
<1>5. links' \in 0..MaxLinks /\ links <= links'
  BY <1>3, LinkAssumption DEF WorkDone, LinkAssumption
<1>6. rejected' \subseteq 1..links'
  <2>1. Making(w, c) => Fold(w, c).truth \in 1..links
    BY <1>3 DEF ThreadFits, ImageFresh
  <2>2. rejected' \subseteq 1..links
    BY <1>3, <2>1 DEF WorkDone
  <2> QED BY <1>3, <1>5, <2>2
<1>7. accidents' = accidents /\ overlapped' = FALSE
  BY DEF WorkDone, LinkFits, LinkFiles
<1>8. /\ folds' = [p \in Places |-> [d \in LinkCell |-> folds'[p][d]]]
      /\ threads' = [v \in Preparer |-> [d \in LinkCell |-> threads'[v][d]]]
  BY DEF WorkDone, Holds, Steps
<1> QED BY <1>1, <1>2, <1>4, <1>5, <1>6, <1>7, <1>8

\* A step that leaves the report alone.
LEMMA WorkFits ==
    ASSUME LinkAssumption, LinkFits, NEW w \in Preparer, NEW c \in LinkCell, NEW f, NEW step,
           WorkDone(w, c, f, step), FoldFits(PlaceOf(w), c)',
           UNCHANGED <<linkReport, qualifying, validating>>, Proceeds(w) \/ step = "idle"
    PROVE  LinkFits'
<1>1. Recorded' = Recorded
  BY DEF Recorded, NotRunning
<1>2. ReportFits'
  BY <1>1, WorkStays DEF LinkFits, ReportFits
<1>3. \A v \in Preparer, d \in LinkCell :
         threads'[v][d] = IF v = w /\ d = c THEN step ELSE threads[v][d]
  BY DEF WorkDone, Steps
<1>4. threads[w][c] # "idle"
  BY DEF WorkDone
<1>5. ASSUME NEW r \in Qualifier PROVE QualifierFits(r)'
  <2>1. r \in Preparer /\ r # Validator
    BY DEF Preparer, LinkAssumption
  <2>2. \A q \in Qualifier : AtWork(q)' => AtWork(q)
    BY <1>3, <1>4 DEF AtWork, Preparer
  <2>3. ~qualifying[r].on => \A d \in LinkCell : threads'[r][d] \in {"idle", "link"}
    BY <2>1, <1>3 DEF Proceeds, LinkFits, QualifierFits
  <2>4. qualifying[r].on =>
           \A d \in LinkCell : threads'[r][d] # "idle" => d \in qualifying[r].batch
    BY <2>1, <1>3, <1>4 DEF LinkFits, QualifierFits
  <2> QED BY <1>1, <2>2, <2>3, <2>4 DEF LinkFits, QualifierFits
<1>6. ValidatorFits'
  BY <1>3, <1>4 DEF LinkFits, ValidatorFits, Proceeds, Preparer
<1> QED BY <1>2, <1>5, <1>6, WorkStays DEF LinkFits, LinkFiles

\* A thread past the link belongs to a preparer that is at work.
LEMMA Busy ==
    ASSUME LinkAssumption, LinkFits, NEW w \in Preparer, NEW c \in LinkCell,
           threads[w][c] \notin {"idle", "link"}
    PROVE  Proceeds(w)
BY DEF Proceeds, LinkFits, LinkFiles, QualifierFits, ValidatorFits, Preparer, LinkAssumption

\* A marker that is there loads.
LEMMA LoadsAMarker ==
    ASSUME LinkAssumption, LinkFits, NEW p \in Places, NEW c \in LinkCell
    PROVE  Loads(folds[p][c]) <=> folds[p][c].marker # <<>>
<1>1. FoldFits(p, c) /\ links \in 0..MaxLinks /\ MaxLinks \in Nat
  BY DEF LinkFits, LinkFiles, LinkAssumption
<1> QED BY <1>1 DEF FoldFits, Loads, Torn, Nothing0

\* The steps of a thread: the look at the fold, the link, the audit, the
\* stripping, the marker.
LEMMA LookAtFoldFits ==
    ASSUME LinkAssumption, LinkFits, NEW w \in Preparer, NEW c \in LinkCell, LookAtFold(w, c)
    PROVE  LinkFits'
<1>1. PICK step : step = IF Loads(Fold(w, c)) THEN "read" ELSE "link"
  OBVIOUS
<1>2. PICK f : f = Fold(w, c) /\ f = folds[PlaceOf(w)][c]
  BY DEF Fold
<1>3. f.marker # <<>> <=> step = "read"
  BY <1>1, <1>2, LoadsAMarker, Placed
<1>4. Holds(w, c, f) /\ Steps(w, c, step)
  BY <1>1, <1>2, FoldKept, Stepped DEF LookAtFold, linkFiles
<1>5. WorkDone(w, c, f, step)
  BY <1>1, <1>2, <1>3, <1>4 DEF WorkDone, LookAtFold, AtStep
<1>6. FoldFits(PlaceOf(w), c)'
  BY Placed DEF LookAtFold, linkFiles, LinkFits, FoldFits, Genuine, Torn
<1>7. Proceeds(w)
  BY Busy DEF LookAtFold, AtStep
<1> QED BY <1>5, <1>6, <1>7, WorkFits DEF LookAtFold, linkFiles

LEMMA LinkStepFits ==
    ASSUME LinkAssumption, LinkFits, NEW w \in Preparer, NEW c \in LinkCell, Link(w, c)
    PROVE  LinkFits'
<1>1. PICK step : step = IF Proceeds(w) THEN "audit" ELSE "idle"
  OBVIOUS
<1>2. PICK old : old = Fold(w, c) /\ old = folds[PlaceOf(w)][c]
  BY DEF Fold
<1>3. PICK f : f = [old EXCEPT !.truth = links + 1]
  OBVIOUS
<1>4. FoldFits(PlaceOf(w), c) /\ ThreadFits(w, c) /\ links \in Nat /\ links < MaxLinks
      /\ MaxLinks \in Nat
  BY Placed DEF LinkFits, LinkFiles, Link, LinkAssumption
<1>5. /\ DOMAIN f = {"truth", "query", "audit", "marker"} /\ f.truth = links + 1
      /\ f.marker = <<>> /\ f.marker = old.marker /\ f.query = old.query
  BY <1>2, <1>3, <1>4 DEF FoldFits, ThreadFits, Link, AtStep
<1>6. Holds(w, c, f) /\ Steps(w, c, step)
  BY <1>1, <1>2, <1>3, Written, Stepped DEF Link
<1>7. WorkDone(w, c, f, step)
  BY <1>1, <1>2, <1>4, <1>5, <1>6 DEF WorkDone, Link, AtStep
<1>8. FoldFits(PlaceOf(w), c)'
  BY <1>2, <1>4, <1>5, <1>6 DEF Holds, FoldFits, Torn, Link
<1> QED BY <1>1, <1>7, <1>8, WorkFits DEF Link

LEMMA AuditFits ==
    ASSUME LinkAssumption, LinkFits, NEW w \in Preparer, NEW c \in LinkCell, Audit(w, c)
    PROVE  LinkFits'
<1>1. PICK old : old = Fold(w, c) /\ old = folds[PlaceOf(w)][c]
  BY DEF Fold
<1>2. PICK f : f = [old EXCEPT !.audit = old.truth]
  OBVIOUS
<1>3. FoldFits(PlaceOf(w), c) /\ ThreadFits(w, c) /\ Making(w, c)
  BY Placed DEF LinkFits, Audit, AtStep, Making
<1>4. /\ DOMAIN f = {"truth", "query", "audit", "marker"} /\ f.truth = old.truth
      /\ f.audit = f.truth /\ f.marker = <<>> /\ f.marker = old.marker /\ f.query = old.query
  BY <1>1, <1>2, <1>3 DEF FoldFits, ThreadFits
<1>5. Holds(w, c, f) /\ Steps(w, c, "strip")
  BY <1>1, <1>2, Written, Stepped DEF Audit
<1>6. WorkDone(w, c, f, "strip")
  BY <1>1, <1>3, <1>4, <1>5 DEF WorkDone, Audit, AtStep
<1>7. FoldFits(PlaceOf(w), c)'
  BY <1>1, <1>3, <1>4, <1>5 DEF Holds, FoldFits, Torn, Audit
<1>8. Proceeds(w)
  BY Busy DEF Audit, AtStep
<1> QED BY <1>6, <1>7, <1>8, WorkFits DEF Audit

LEMMA StripFits ==
    ASSUME LinkAssumption, LinkFits, NEW w \in Preparer, NEW c \in LinkCell, Strip(w, c)
    PROVE  LinkFits'
<1>1. PICK old : old = Fold(w, c) /\ old = folds[PlaceOf(w)][c]
  BY DEF Fold
<1>2. PICK f : f = [old EXCEPT !.query = old.truth]
  OBVIOUS
<1>3. FoldFits(PlaceOf(w), c) /\ ThreadFits(w, c) /\ Making(w, c)
  BY Placed DEF LinkFits, Strip, AtStep, Making
<1>4. /\ DOMAIN f = {"truth", "query", "audit", "marker"} /\ f.truth = old.truth
      /\ f.audit = f.truth /\ f.marker = <<>> /\ f.marker = old.marker /\ f.query = f.truth
  BY <1>1, <1>2, <1>3 DEF FoldFits, ThreadFits, Strip, AtStep
<1>5. Holds(w, c, f) /\ Steps(w, c, "mark")
  BY <1>1, <1>2, Written, Stepped DEF Strip
<1>6. WorkDone(w, c, f, "mark")
  BY <1>1, <1>3, <1>4, <1>5 DEF WorkDone, Strip, AtStep
<1>7. FoldFits(PlaceOf(w), c)'
  BY <1>1, <1>3, <1>4, <1>5 DEF Holds, FoldFits, Torn, Strip
<1>8. Proceeds(w)
  BY Busy DEF Strip, AtStep
<1> QED BY <1>6, <1>7, <1>8, WorkFits DEF Strip

LEMMA MarkFits ==
    ASSUME LinkAssumption, LinkFits, NEW w \in Preparer, NEW c \in LinkCell, Mark(w, c)
    PROVE  LinkFits'
<1>1. PICK old : old = Fold(w, c) /\ old = folds[PlaceOf(w)][c]
  BY DEF Fold
<1>2. PICK m : m = [truth |-> old.truth, query |-> old.query, audit |-> old.audit]
  OBVIOUS
<1>3. PICK f : f = [old EXCEPT !.marker = <<m>>]
  OBVIOUS
<1>4. /\ FoldFits(PlaceOf(w), c) /\ ThreadFits(w, c) /\ Making(w, c) /\ threads[w][c] = "mark"
      /\ links \in 0..MaxLinks /\ MaxLinks \in Nat
  BY Placed DEF LinkFits, LinkFiles, LinkAssumption, Mark, AtStep, Making
<1>5. /\ DOMAIN f = {"truth", "query", "audit", "marker"} /\ f.truth = old.truth
      /\ f.query = old.query /\ f.marker = <<m>>
  BY <1>1, <1>3, <1>4 DEF FoldFits
<1>6. /\ old.audit = old.truth /\ old.query = old.truth /\ old.truth \in 1..links
      /\ old.truth \notin rejected
  BY <1>1, <1>4 DEF ThreadFits, ImageFresh
<1>7. Holds(w, c, f) /\ Steps(w, c, "read")
  BY <1>1, <1>2, <1>3, Written, Stepped DEF Mark, ImageOf
<1>8. WorkDone(w, c, f, "read")
  BY <1>1, <1>2, <1>4, <1>5, <1>7 DEF WorkDone, Mark
<1>9. Genuine(m)'
  BY <1>2, <1>4, <1>6 DEF Genuine, Torn, Mark
<1>10. FoldFits(PlaceOf(w), c)'
  BY <1>1, <1>2, <1>4, <1>5, <1>6, <1>7, <1>9 DEF Holds, FoldFits, Torn, Mark
<1>11. Proceeds(w)
  BY <1>4, Busy
<1> QED BY <1>8, <1>10, <1>11, WorkFits DEF Mark

\* A future completes with a row, which is true of the cell's fold.
LEMMA CompletionFits ==
    ASSUME LinkAssumption, LinkFits, NEW r \in Qualifier, NEW c \in LinkCell, NEW f,
           NEW row, NEW counts, WorkDone(r, c, f, "idle"), FoldFits("generation", c)',
           qualifying[r].on, Completes(r, c, row, counts), UNCHANGED validating,
           row.status = "qualified" => row.image = f.marker /\ f.marker # <<>>
    PROVE  LinkFits'
<1>1. PlaceOf(r) = "generation" /\ r \in Preparer /\ r # Validator
  BY DEF PlaceOf, LinkAssumption, Preparer
<1>2. PICK q : q = qualifying[r]
  OBVIOUS
<1>3. PICK rows : rows = [q.rows EXCEPT ![c] = row]
  OBVIOUS
<1>4. q.rows = Recorded /\ DOMAIN Recorded = LinkCell
  BY <1>2 DEF LinkFits, QualifierFits, ReportFits
<1>5. PICK open : open = \E p \in Fingerprint : counts[p] >= IdenticalFailureLimit
  OBVIOUS
<1>6. PICK new : new = [q EXCEPT !.rows = rows, !.batch = q.batch \ {c},
                                 !.failures = counts, !.open = open]
  OBVIOUS
<1>7. qualifying' = [qualifying EXCEPT ![r] = new] /\ linkReport' = Summary(rows, open)
  BY <1>2, <1>3, <1>5, <1>6 DEF Completes
<1>8. /\ DOMAIN new = {"on", "rows", "pending", "batch", "failures", "open"}
      /\ new.on /\ new.rows = rows /\ new.batch = q.batch \ {c}
  BY <1>2, <1>6 DEF LinkFits, QualifierFits
<1>9. /\ qualifying'[r] = new /\ qualifying' = [x \in Qualifier |-> qualifying'[x]]
      /\ \A x \in Qualifier : x # r => qualifying'[x] = qualifying[x]
  BY <1>7 DEF LinkFits, LinkFiles
<1>10. \A v \in Preparer, d \in LinkCell :
          threads'[v][d] = IF v = r /\ d = c THEN "idle" ELSE threads[v][d]
  BY DEF WorkDone, Steps
<1>11. PICK report : linkReport' = <<report>> /\ report.rows = rows
                     /\ (report.state = "qualified" => AllQualified(rows))
  BY <1>7 DEF Summary
<1>12. Recorded' = rows
  BY <1>11 DEF Recorded
<1>13. folds'["generation"][c] = f
  BY <1>1 DEF WorkDone, Holds
<1>14. ReportFits'
  <2>1. \A d \in LinkCell : rows[d] = IF d = c THEN row ELSE Recorded[d]
    BY <1>3, <1>4
  <2>2. DOMAIN rows = LinkCell
    BY <1>3, <1>4
  <2>3. ASSUME NEW d \in LinkCell, rows[d].status = "qualified"
        PROVE  rows[d].image = folds'["generation"][d].marker
               /\ folds'["generation"][d].marker # <<>>
    <3>1. CASE d = c
      BY <2>1, <2>3, <3>1, <1>13
    <3>2. CASE d # c
      BY <2>1, <2>3, <3>2, <1>1, WorkStays DEF LinkFits, ReportFits
    <3> QED BY <3>1, <3>2
  <2> QED BY <2>2, <2>3, <1>11, <1>12 DEF ReportFits
<1>15. ASSUME NEW x \in Qualifier PROVE QualifierFits(x)'
  <2>1. x \in Preparer
    BY DEF Preparer
  <2>2. \A y \in Qualifier : AtWork(y)' => AtWork(y)
    BY <1>8, <1>9, <1>10 DEF AtWork, Preparer
  <2>3. AtWork(r)
    BY DEF AtWork
  <2>4. CASE x = r
    BY <2>1, <2>2, <2>4, <1>2, <1>8, <1>9, <1>10, <1>12 DEF LinkFits, QualifierFits
  <2>5. CASE x # r
    <3>1. ~qualifying[x].on /\ QualifierFits(x)
      BY <2>3, <2>5 DEF LinkFits, QualifierFits, AtWork
    <3> QED BY <2>1, <2>2, <2>5, <3>1, <1>9, <1>10 DEF LinkFits, QualifierFits
  <2> QED BY <2>4, <2>5
<1>16. ValidatorFits'
  BY <1>1, <1>10 DEF LinkFits, ValidatorFits, Preparer
<1>17. /\ \A p \in Places, d \in LinkCell : FoldFits(p, d)'
       /\ \A v \in Preparer, d \in LinkCell : ThreadFits(v, d)'
       /\ links' \in 0..MaxLinks /\ accidents' = accidents /\ rejected' \subseteq 1..links'
       /\ folds' = [p \in Places |-> [d \in LinkCell |-> folds'[p][d]]]
       /\ threads' = [v \in Preparer |-> [d \in LinkCell |-> threads'[v][d]]]
       /\ overlapped' = FALSE
  BY <1>1, WorkStays
<1>18. LinkFiles'
  BY <1>9, <1>17 DEF LinkFits, LinkFiles
<1> QED BY <1>14, <1>15, <1>16, <1>17, <1>18 DEF LinkFits

LEMMA QualifyFits ==
    ASSUME LinkAssumption, LinkFits, NEW r \in Qualifier, NEW c \in LinkCell, Qualify(r, c)
    PROVE  LinkFits'
<1>1. r \in Preparer /\ r # Validator /\ PlaceOf(r) = "generation"
  BY DEF PlaceOf, LinkAssumption, Preparer
<1>2. PICK f : f = Fold(r, c) /\ f = folds["generation"][c]
  BY <1>1 DEF Fold
<1>3. f.marker # <<>> /\ qualifying[r].on
  BY <1>1, <1>2, Busy DEF Qualify, AtStep, LinkFits, ThreadFits, Proceeds
<1>4. Holds(r, c, f) /\ Steps(r, c, "idle")
  BY <1>1, <1>2, FoldKept, Stepped DEF Qualify, Completes
<1>5. WorkDone(r, c, f, "idle")
  BY <1>2, <1>4 DEF WorkDone, Qualify, AtStep
<1>6. FoldFits("generation", c)'
  BY DEF Qualify, LinkFits, FoldFits, Genuine, Torn, Places
<1>7. PICK row : row = QualifiedAs(f.marker)
  OBVIOUS
<1>8. PICK counts : counts = qualifying[r].failures
  OBVIOUS
<1>9. row.image = f.marker
  BY <1>7 DEF QualifiedAs
<1> QED BY <1>2, <1>3, <1>5, <1>6, <1>7, <1>8, <1>9, CompletionFits DEF Qualify

\* A link, an audit or a stripping that fails, by a qualifier or by the run.
LEMMA FailedWork ==
    ASSUME LinkAssumption, LinkFits, NEW w \in Preparer, NEW c \in LinkCell,
           threads[w][c] \in {"link", "audit", "strip", "read"}, ToStep(w, c, "idle"),
           UNCHANGED <<links, overlapped, accidents>>,
           IF AtStep(w, c, "audit")
             THEN /\ rejected' = rejected \cup {Fold(w, c).truth}
                  /\ Write(w, c, [Fold(w, c) EXCEPT !.audit = Fold(w, c).truth])
             ELSE UNCHANGED <<folds, rejected>>
    PROVE  \E f : WorkDone(w, c, f, "idle") /\ FoldFits(PlaceOf(w), c)'
<1>1. PICK old : old = Fold(w, c) /\ old = folds[PlaceOf(w)][c]
  BY DEF Fold
<1>2. Steps(w, c, "idle")
  BY Stepped
<1>3. FoldFits(PlaceOf(w), c) /\ ThreadFits(w, c)
  BY Placed DEF LinkFits
<1>4. CASE ~AtStep(w, c, "audit")
  <2>1. Holds(w, c, old)
    BY <1>1, <1>4, FoldKept
  <2>2. WorkDone(w, c, old, "idle")
    BY <1>1, <1>2, <1>4, <2>1 DEF WorkDone
  <2>3. FoldFits(PlaceOf(w), c)'
    BY <1>3, <1>4 DEF FoldFits, Genuine, Torn
  <2> QED BY <2>2, <2>3
<1>5. CASE AtStep(w, c, "audit")
  <2>1. PICK f : f = [old EXCEPT !.audit = old.truth]
    OBVIOUS
  <2>2. Holds(w, c, f)
    BY <1>1, <1>5, <2>1, Written
  <2>3. /\ DOMAIN f = {"truth", "query", "audit", "marker"} /\ f.truth = old.truth
        /\ f.marker = <<>> /\ f.marker = old.marker /\ f.query = old.query
    BY <1>1, <1>3, <1>5, <2>1 DEF FoldFits, ThreadFits, AtStep, Making
  <2>4. WorkDone(w, c, f, "idle")
    BY <1>1, <1>2, <1>5, <2>2, <2>3 DEF WorkDone, AtStep, Making
  <2>5. FoldFits(PlaceOf(w), c)'
    BY <1>1, <1>3, <2>2, <2>3 DEF Holds, FoldFits, Torn
  <2> QED BY <2>4, <2>5
<1> QED BY <1>4, <1>5

\* A thread that fails, for the qualifier and for the validation.
LEMMA FailLinkFits ==
    ASSUME LinkAssumption, LinkFits, NEW r \in Qualifier, NEW c \in LinkCell, FailLink(r, c)
    PROVE  LinkFits'
<1>1. r \in Preparer /\ PlaceOf(r) = "generation"
  BY DEF PlaceOf, LinkAssumption, Preparer
<1>2. PICK p \in Fingerprint :
        Completes(r, c, FailedAs(p), [qualifying[r].failures EXCEPT ![p] = @ + 1])
  BY DEF FailLink
<1>3. PICK f : WorkDone(r, c, f, "idle") /\ FoldFits("generation", c)'
  BY <1>1, <1>2, FailedWork DEF FailLink, Completes
<1>4. PICK counts : counts = [qualifying[r].failures EXCEPT ![p] = @ + 1]
  OBVIOUS
<1>5. PICK row : row = FailedAs(p)
  OBVIOUS
<1>6. row.status # "qualified"
  BY <1>5 DEF FailedAs
<1> QED BY <1>2, <1>3, <1>4, <1>5, <1>6, CompletionFits DEF FailLink

LEMMA EndFoldFits ==
    ASSUME LinkAssumption, LinkFits, NEW c \in LinkCell, EndFold(c)
    PROVE  LinkFits'
<1>1. Validator \in Preparer
  BY DEF Preparer
<1>2. PICK f : WorkDone(Validator, c, f, "idle") /\ FoldFits(PlaceOf(Validator), c)'
  BY <1>1, FailedWork DEF EndFold
<1> QED BY <1>1, <1>2, WorkFits DEF EndFold

\* Nothing is written to a fold; threads stop, or begin.
LEMMA Quiet ==
    ASSUME LinkFits, UNCHANGED <<folds, links, rejected>>, accidents'.losses = accidents.losses,
           \A v \in Preparer, d \in LinkCell :
              threads'[v][d] = threads[v][d] \/ threads'[v][d] \in {"idle", "check"}
    PROVE  /\ \A p \in Places, d \in LinkCell : FoldFits(p, d)'
           /\ \A v \in Preparer, d \in LinkCell : ThreadFits(v, d)'
<1>1. \A p \in Places, d \in LinkCell : FoldFits(p, d)'
  BY DEF LinkFits, FoldFits, Genuine, Torn
<1>2. \A v \in Preparer, d \in LinkCell : Making(v, d)' => Making(v, d)
  BY DEF Making
<1>3. \A v \in Preparer, d \in LinkCell : Fold(v, d)' = Fold(v, d)
  BY DEF Fold
<1>4. ASSUME NEW v \in Preparer, NEW d \in LinkCell PROVE ThreadFits(v, d)'
  <2>1. ThreadFits(v, d)
    BY DEF LinkFits
  <2>2. Making(v, d)' => ImageFresh(v, d)'
    BY <1>2, <1>3, <2>1 DEF ThreadFits, ImageFresh
  <2> QED BY <1>2, <1>3, <2>1, <2>2 DEF ThreadFits
<1> QED BY <1>1, <1>4

\* The rows stay true where no marker they name has changed.
LEMMA SameReport ==
    ASSUME LinkFits, UNCHANGED linkReport,
           \A d \in LinkCell :
              folds["generation"][d].marker # <<>>
              => folds'["generation"][d].marker = folds["generation"][d].marker
    PROVE  ReportFits' /\ Recorded' = Recorded
<1>1. Recorded' = Recorded
  BY DEF Recorded, NotRunning
<1> QED BY <1>1 DEF LinkFits, ReportFits

\* The steps of a qualifier: its start, its batches and its end.
LEMMA StartQualifierFits ==
    ASSUME LinkAssumption, LinkFits, NEW r \in Qualifier, StartQualifier(r),
           overlapped' # TRUE
    PROVE  LinkFits'
<1>1. /\ overlapped' = FALSE /\ \A q \in Qualifier : ~AtWork(q)
      /\ UNCHANGED <<folds, linkReport, threads, validating, links, rejected, accidents>>
  BY DEF StartQualifier, LinkFits, OthersAtWork, AtWork, linkFiles
<1>2. PICK new :
        /\ new = [NotRunning EXCEPT !.on = TRUE, !.rows = Recorded,
            !.pending = SelectSeq(LinkQueue, LAMBDA c : Recorded[c].status # "qualified")]
        /\ qualifying' = [qualifying EXCEPT ![r] = new]
  BY DEF StartQualifier
<1>3. new.on /\ new.rows = Recorded
      /\ DOMAIN new = {"on", "rows", "pending", "batch", "failures", "open"}
  BY <1>2 DEF NotRunning
<1>4. /\ qualifying'[r] = new /\ qualifying' = [x \in Qualifier |-> qualifying'[x]]
      /\ \A x \in Qualifier : x # r => qualifying'[x] = qualifying[x]
  BY <1>2 DEF LinkFits, LinkFiles
<1>5. ReportFits' /\ Recorded' = Recorded
  BY <1>1, SameReport
<1>6. \A x \in Qualifier, c \in LinkCell : threads'[x][c] = "idle"
  BY <1>1 DEF AtWork
<1>7. ASSUME NEW x \in Qualifier PROVE QualifierFits(x)'
  <2>1. \A y \in Qualifier : AtWork(y)' => y = r
    BY <1>1, <1>4, <1>6 DEF AtWork
  <2>2. CASE x = r
    BY <2>1, <2>2, <1>3, <1>4, <1>5, <1>6 DEF QualifierFits
  <2>3. CASE x # r
    BY <2>1, <2>3, <1>1, <1>4, <1>6 DEF LinkFits, QualifierFits, AtWork
  <2> QED BY <2>2, <2>3
<1>8. ValidatorFits'
  BY <1>1 DEF LinkFits, ValidatorFits
<1> QED BY <1>1, <1>4, <1>5, <1>7, <1>8, Quiet DEF LinkFits, LinkFiles

LEMMA StartBatchFits ==
    ASSUME LinkAssumption, LinkFits, NEW r \in Qualifier, StartBatch(r)
    PROVE  LinkFits'
<1>1. PICK q : q = qualifying[r]
  OBVIOUS
<1>2. PICK batch : batch = ToSet(NextBatch(q))
  OBVIOUS
<1>3. PICK new : /\ new = [q EXCEPT !.batch = batch,
                   !.pending = SubSeq(q.pending, Len(NextBatch(q)) + 1, Len(q.pending))]
                 /\ qualifying' = [qualifying EXCEPT ![r] = new]
  BY <1>1, <1>2 DEF StartBatch
<1>4. /\ q.on /\ q.batch = {}
      /\ threads' = [threads EXCEPT ![r] =
           [c \in LinkCell |-> IF c \in batch THEN "check" ELSE threads[r][c]]]
      /\ UNCHANGED <<folds, linkReport, validating, links, rejected, overlapped, accidents>>
  BY <1>1, <1>2 DEF StartBatch, BatchMayStart, linkFiles
<1>5. r \in Preparer /\ r # Validator
  BY DEF Preparer, LinkAssumption
<1>6. /\ \A c \in LinkCell : threads'[r][c] = IF c \in batch THEN "check" ELSE "idle"
      /\ \A v \in Preparer, c \in LinkCell : v # r => threads'[v][c] = threads[v][c]
      /\ threads' = [v \in Preparer |-> [d \in LinkCell |-> threads'[v][d]]]
  <2>1. \A c \in LinkCell : threads[r][c] = "idle"
    BY <1>1, <1>4 DEF LinkFits, QualifierFits
  <2>2. threads = [v \in Preparer |-> [d \in LinkCell |-> threads[v][d]]]
    BY DEF LinkFits, LinkFiles
  <2> QED BY <2>1, <2>2, <1>4, <1>5
<1>7. /\ new.on /\ new.rows = q.rows /\ new.batch = batch
      /\ DOMAIN new = {"on", "rows", "pending", "batch", "failures", "open"}
  BY <1>1, <1>3, <1>4 DEF LinkFits, QualifierFits
<1>8. /\ qualifying'[r] = new /\ qualifying' = [x \in Qualifier |-> qualifying'[x]]
      /\ \A x \in Qualifier : x # r => qualifying'[x] = qualifying[x]
  BY <1>3 DEF LinkFits, LinkFiles
<1>9. ReportFits' /\ Recorded' = Recorded
  BY <1>4, SameReport
<1>10. ASSUME NEW x \in Qualifier PROVE QualifierFits(x)'
  <2>1. x \in Preparer /\ \A y \in Qualifier : y \in Preparer
    BY DEF Preparer
  <2>2. AtWork(r)
    BY <1>1, <1>4 DEF AtWork
  <2>3. \A y \in Qualifier : AtWork(y)' => AtWork(y)
    BY <2>1, <2>2, <1>6, <1>8 DEF AtWork
  <2>4. CASE x = r
    BY <2>2, <2>3, <2>4, <1>1, <1>4, <1>6, <1>7, <1>8, <1>9 DEF LinkFits, QualifierFits
  <2>5. CASE x # r
    <3>1. ~qualifying[x].on /\ QualifierFits(x)
      BY <2>2, <2>5 DEF LinkFits, QualifierFits, AtWork
    <3> QED BY <2>1, <2>3, <2>5, <3>1, <1>6, <1>8 DEF LinkFits, QualifierFits
  <2> QED BY <2>4, <2>5
<1>11. ValidatorFits'
  BY <1>4, <1>5, <1>6 DEF LinkFits, ValidatorFits, Preparer
<1>12. \A v \in Preparer, d \in LinkCell :
          threads'[v][d] = threads[v][d] \/ threads'[v][d] \in {"idle", "check"}
  BY <1>6
<1>13. /\ \A p \in Places, d \in LinkCell : FoldFits(p, d)'
       /\ \A v \in Preparer, d \in LinkCell : ThreadFits(v, d)'
  BY <1>4, <1>12, Quiet
<1>14. LinkFiles' /\ overlapped' = FALSE
  BY <1>4, <1>6, <1>8 DEF LinkFits, LinkFiles
<1> QED BY <1>9, <1>10, <1>11, <1>13, <1>14 DEF LinkFits

LEMMA FinishQualifierFits ==
    ASSUME LinkAssumption, LinkFits, NEW r \in Qualifier, FinishQualifier(r)
    PROVE  LinkFits'
<1>1. PICK q : q = qualifying[r]
  OBVIOUS
<1>2. /\ q.on /\ q.batch = {} /\ linkReport' = Summary(q.rows, q.open)
      /\ qualifying' = [qualifying EXCEPT ![r] = NotRunning]
      /\ UNCHANGED <<folds, threads, validating, links, rejected, overlapped, accidents>>
  BY <1>1 DEF FinishQualifier
<1>3. q.rows = Recorded
  BY <1>1, <1>2 DEF LinkFits, QualifierFits
<1>4. PICK report : linkReport' = <<report>> /\ report.rows = Recorded
                    /\ (report.state = "qualified" => AllQualified(Recorded))
  BY <1>2, <1>3 DEF Summary
<1>5. Recorded' = Recorded
  BY <1>4 DEF Recorded
<1>6. ReportFits'
  BY <1>2, <1>4, <1>5 DEF LinkFits, ReportFits
<1>7. \A c \in LinkCell : threads[r][c] = "idle"
  BY <1>1, <1>2 DEF LinkFits, QualifierFits
<1>8. /\ qualifying'[r] = NotRunning /\ qualifying' = [x \in Qualifier |-> qualifying'[x]]
      /\ \A x \in Qualifier : x # r => qualifying'[x] = qualifying[x]
      /\ ~NotRunning.on
      /\ DOMAIN NotRunning = {"on", "rows", "pending", "batch", "failures", "open"}
  BY <1>2 DEF LinkFits, LinkFiles, NotRunning
<1>9. ASSUME NEW x \in Qualifier PROVE QualifierFits(x)'
  <2>1. \A y \in Qualifier : AtWork(y)' => AtWork(y)
    BY <1>2, <1>8 DEF AtWork
  <2>2. CASE x = r
    BY <2>1, <2>2, <1>2, <1>7, <1>8 DEF LinkFits, QualifierFits
  <2>3. CASE x # r
    BY <2>1, <2>3, <1>2, <1>5, <1>8 DEF LinkFits, QualifierFits
  <2> QED BY <2>2, <2>3
<1>10. ValidatorFits'
  BY <1>2 DEF LinkFits, ValidatorFits
<1>11. /\ \A p \in Places, d \in LinkCell : FoldFits(p, d)'
       /\ \A v \in Preparer, d \in LinkCell : ThreadFits(v, d)'
  BY <1>2, Quiet
<1>12. LinkFiles' /\ overlapped' = FALSE
  BY <1>2, <1>8 DEF LinkFits, LinkFiles
<1> QED BY <1>6, <1>9, <1>10, <1>11, <1>12 DEF LinkFits

\* The validation run's own steps: its phase, its threads, and what it takes
\* over into the folds of the run.
LEMMA ValidatorSteps ==
    ASSUME LinkAssumption, LinkFits, UNCHANGED <<linkReport, qualifying>>,
           \A v \in Qualifier, d \in LinkCell : threads'[v][d] = threads[v][d],
           threads' = [v \in Preparer |-> [d \in LinkCell |-> threads'[v][d]]],
           folds'["generation"] = folds["generation"],
           folds' = [p \in Places |-> [d \in LinkCell |-> folds'[p][d]]],
           overlapped' = FALSE, UNCHANGED <<links, rejected>>,
           accidents'.losses = accidents.losses, DOMAIN accidents' = DOMAIN accidents,
           validating'.phase \in {"idle", "reuse", "copied", "prepare"},
           DOMAIN validating' = {"phase", "reusing"},
           ValidatorFits',
           \A p \in Places, d \in LinkCell : FoldFits(p, d)',
           \A v \in Preparer, d \in LinkCell : ThreadFits(v, d)'
    PROVE  LinkFits'
<1>1. ReportFits' /\ Recorded' = Recorded
  BY SameReport
<1>2. \A r \in Qualifier : QualifierFits(r)'
  BY <1>1 DEF LinkFits, QualifierFits, AtWork
<1> QED BY <1>1, <1>2 DEF LinkFits, LinkFiles

\* The steps of the validation that uses the folds.
LEMMA PhaseFits ==
    ASSUME LinkAssumption, LinkFits, overlapped' # TRUE,
           \/ Admit \/ BeginPreparation \/ EndValidation
           \/ \E c \in LinkCell : SkipFold(c)
    PROVE  LinkFits'
<1>1. /\ UNCHANGED <<folds, linkReport, qualifying, links, rejected>> /\ overlapped' = FALSE
      /\ accidents'.losses = accidents.losses /\ DOMAIN accidents' = DOMAIN accidents
  <2>1. CASE Admit
    BY <2>1 DEF Admit, linkFiles, LinkFits, LinkFiles
  <2>2. CASE BeginPreparation \/ EndValidation
    BY <2>2 DEF BeginPreparation, EndValidation, linkFiles, LinkFits
  <2>3. ASSUME NEW c \in LinkCell, SkipFold(c)
        PROVE  /\ UNCHANGED <<folds, linkReport, qualifying, links, rejected>>
               /\ overlapped' = FALSE /\ accidents' = accidents
    BY <2>3 DEF SkipFold, linkFiles, LinkFits
  <2> QED BY <2>1, <2>2, <2>3
<1>2. /\ \A v \in Qualifier, d \in LinkCell : threads'[v][d] = threads[v][d]
      /\ threads' = [v \in Preparer |-> [d \in LinkCell |-> threads'[v][d]]]
      /\ \A v \in Preparer, d \in LinkCell :
           threads'[v][d] = threads[v][d] \/ threads'[v][d] \in {"idle", "check"}
  <2>1. CASE UNCHANGED threads
    BY <2>1 DEF LinkFits, LinkFiles
  <2>2. CASE threads' = [threads EXCEPT ![Validator] = [c \in LinkCell |-> "check"]]
    <3>1. Validator \in Preparer /\ Validator \notin Qualifier /\ Qualifier \subseteq Preparer
      BY DEF Preparer, LinkAssumption
    <3> QED BY <2>2, <3>1 DEF LinkFits, LinkFiles
  <2> QED BY <2>1, <2>2 DEF Admit, BeginPreparation, EndValidation, SkipFold
<1>3. /\ validating'.phase \in {"idle", "reuse", "copied", "prepare"}
      /\ DOMAIN validating' = {"phase", "reusing"} /\ ValidatorFits'
  <2>1. CASE Admit
    BY <2>1, <1>1 DEF Admit, ValidatorFits, AtStep
  <2>2. CASE BeginPreparation
    BY <2>2 DEF BeginPreparation, LinkFits, LinkFiles, ValidatorFits
  <2>3. CASE EndValidation
    BY <2>3 DEF EndValidation, ValidatorFits, AtRest, AtStep
  <2>4. ASSUME NEW c \in LinkCell, SkipFold(c)
        PROVE  /\ validating' = [phase |-> "reuse", reusing |-> Tail(validating.reusing)]
               /\ ValidatorFits'
    BY <2>4 DEF SkipFold, NextFold, Taking, LinkFits, ValidatorFits
  <2> QED BY <2>1, <2>2, <2>3, <2>4
<1>4. folds' = [p \in Places |-> [d \in LinkCell |-> folds'[p][d]]]
  BY <1>1 DEF LinkFits, LinkFiles
<1> QED BY <1>1, <1>2, <1>3, <1>4, Quiet, ValidatorSteps

\* A fold that is taken over, with its marker or without.
LEMMA TakingFits ==
    ASSUME LinkAssumption, LinkFits, NEW c \in LinkCell, CopyFiles(c) \/ EndCopy(c)
    PROVE  LinkFits'
<1>1. /\ Validator \in Preparer /\ PlaceOf(Validator) = "run"
      /\ \A r \in Qualifier : PlaceOf(r) = "generation"
  BY DEF Preparer, PlaceOf, LinkAssumption
<1>2. PICK source : source = folds["generation"][c]
  OBVIOUS
<1>3. PICK f : /\ f \in {source, [source EXCEPT !.marker = <<>>]}
               /\ Write(Validator, c, f)
  BY <1>2 DEF CopyFiles, EndCopy, Source
<1>4. Holds(Validator, c, f)
  BY <1>1, <1>3, Written
<1>5. /\ \A d \in LinkCell : threads[Validator][d] = "idle"
      /\ validating.phase \in {"reuse", "copied"} /\ validating'.phase \in {"reuse", "copied"}
      /\ DOMAIN validating' = {"phase", "reusing"}
      /\ UNCHANGED <<linkReport, qualifying, threads, links, rejected, overlapped, accidents>>
  BY DEF CopyFiles, EndCopy, Taking, NextFold, LinkFits, LinkFiles, ValidatorFits
<1>6. FoldFits("generation", c)
  BY DEF LinkFits, Places
<1>7. /\ DOMAIN f = {"truth", "query", "audit", "marker"} /\ f.truth = source.truth
      /\ f.query = source.query /\ f.marker \in {source.marker, <<>>}
  BY <1>2, <1>3, <1>6 DEF FoldFits
<1>8. /\ folds'["run"][c] = f /\ folds'["generation"] = folds["generation"]
      /\ folds' = [p \in Places |-> [d \in LinkCell |-> folds'[p][d]]]
      /\ \A p \in Places, d \in LinkCell : p # "run" \/ d # c => folds'[p][d] = folds[p][d]
  <2>1. \A d \in LinkCell : folds'["generation"][d] = folds["generation"][d]
    BY <1>1, <1>4 DEF Holds, Places
  <2>2. folds'["generation"] = [d \in LinkCell |-> folds'["generation"][d]]
    BY <1>4 DEF Holds, Places
  <2>3. folds["generation"] = [d \in LinkCell |-> folds["generation"][d]]
    BY DEF LinkFits, LinkFiles, Places
  <2> QED BY <1>1, <1>4, <2>1, <2>2, <2>3 DEF Holds
<1>9. ASSUME NEW p \in Places, NEW d \in LinkCell PROVE FoldFits(p, d)'
  <2>1. CASE p = "run" /\ d = c
    BY <2>1, <1>2, <1>5, <1>6, <1>7, <1>8 DEF FoldFits, Genuine, Torn
  <2>2. CASE p # "run" \/ d # c
    BY <2>2, <1>5, <1>8 DEF LinkFits, FoldFits, Genuine, Torn
  <2> QED BY <2>1, <2>2
<1>10. ASSUME NEW v \in Preparer, NEW d \in LinkCell PROVE ThreadFits(v, d)'
  <2>1. CASE threads[v][d] = "idle"
    BY <2>1, <1>5 DEF ThreadFits, Making
  <2>2. CASE threads[v][d] # "idle"
    <3>1. ThreadFits(v, d) /\ v # Validator /\ v \in Qualifier
      BY <2>2, <1>5 DEF LinkFits, Preparer
    <3>2. Fold(v, d)' = Fold(v, d) /\ threads' = threads
      BY <3>1, <1>1, <1>5, <1>8 DEF Fold
    <3>3. ASSUME Making(v, d) PROVE ImageFresh(v, d)'
      <4>1. PICK n : n = Fold(v, d).truth
        OBVIOUS
      <4>2. ImageFresh(v, d)
        BY <3>1, <3>3 DEF ThreadFits
      <4>3. \A p \in Places, e \in LinkCell :
               folds'[p][e].marker # <<>> => folds'[p][e].marker[1].truth # n
        <5>1. "generation" \in Places /\ \A p \in Places, e \in LinkCell :
                 folds[p][e].marker # <<>> => folds[p][e].marker[1].truth # n
          BY <4>1, <4>2 DEF ImageFresh, Places
        <5> QED BY <5>1, <1>2, <1>7, <1>8
      <4>4. \A u \in Preparer, e \in LinkCell :
               Making(u, e)' => Making(u, e) /\ Fold(u, e)' = Fold(u, e)
        BY <1>1, <1>5, <1>8 DEF Making, Fold, Preparer
      <4> QED BY <3>2, <4>1, <4>2, <4>3, <4>4, <1>5 DEF ImageFresh
    <3> QED BY <3>1, <3>2, <3>3 DEF ThreadFits, Making
  <2> QED BY <2>1, <2>2
<1>11. ValidatorFits' /\ \A v \in Qualifier, d \in LinkCell : threads'[v][d] = threads[v][d]
  BY <1>5 DEF LinkFits, ValidatorFits
<1>12. threads' = [v \in Preparer |-> [d \in LinkCell |-> threads'[v][d]]]
  BY <1>5 DEF LinkFits, LinkFiles
<1>13. overlapped' = FALSE
  BY <1>5 DEF LinkFits
<1> QED BY <1>5, <1>8, <1>9, <1>10, <1>11, <1>12, <1>13, ValidatorSteps

\* A preparer that is killed leaves its linkers; a power loss leaves nobody.
LEMMA KillPreparerFits ==
    ASSUME LinkAssumption, LinkFits, NEW w \in Preparer, KillPreparer(w)
    PROVE  LinkFits'
<1>1. /\ threads' = Halted(w)
      /\ UNCHANGED <<folds, linkReport, links, rejected, overlapped>>
      /\ accidents' = [accidents EXCEPT !.kills = accidents.kills + 1]
  BY DEF KillPreparer, linkFiles
<1>2. /\ \A d \in LinkCell : threads'[w][d] = IF threads[w][d] = "link" THEN "link" ELSE "idle"
      /\ \A v \in Preparer, d \in LinkCell : v # w => threads'[v][d] = threads[v][d]
      /\ threads' = [v \in Preparer |-> [d \in LinkCell |-> threads'[v][d]]]
  BY <1>1 DEF Halted, LinkFits, LinkFiles
<1>3. accidents'.losses = accidents.losses /\ DOMAIN accidents' = DOMAIN accidents
  BY <1>1 DEF LinkFits, LinkFiles
<1>4. \A v \in Preparer, d \in LinkCell :
         threads'[v][d] = threads[v][d] \/ threads'[v][d] \in {"idle", "check"}
  BY <1>2
<1>5. /\ \A p \in Places, d \in LinkCell : FoldFits(p, d)'
      /\ \A v \in Preparer, d \in LinkCell : ThreadFits(v, d)'
  BY <1>1, <1>3, <1>4, Quiet
<1>6. ReportFits' /\ Recorded' = Recorded
  BY <1>1, SameReport
<1>7. CASE w = Validator
  <2>1. validating' = AtRest /\ UNCHANGED qualifying
    BY <1>7 DEF KillPreparer
  <2>2. ValidatorFits'
    BY <2>1, <1>2, <1>7 DEF ValidatorFits, AtRest
  <2>3. \A v \in Qualifier, d \in LinkCell : threads'[v][d] = threads[v][d]
    BY <1>2, <1>7 DEF Preparer, LinkAssumption
  <2>4. \A r \in Qualifier : QualifierFits(r)'
    BY <2>1, <2>3, <1>6 DEF LinkFits, QualifierFits, AtWork
  <2>5. LinkFiles' /\ overlapped' = FALSE
    BY <2>1, <1>1, <1>2, <1>3 DEF LinkFits, LinkFiles, AtRest
  <2> QED BY <2>2, <2>4, <2>5, <1>5, <1>6 DEF LinkFits
<1>8. CASE w # Validator
  <2>1. /\ w \in Qualifier /\ qualifying[w].on /\ UNCHANGED validating
        /\ qualifying' = [qualifying EXCEPT ![w] = NotRunning]
    BY <1>8 DEF KillPreparer, Preparer
  <2>2. ValidatorFits'
    BY <2>1, <1>2, <1>8 DEF LinkFits, ValidatorFits, Preparer
  <2>3. /\ qualifying'[w] = NotRunning /\ qualifying' = [x \in Qualifier |-> qualifying'[x]]
        /\ \A x \in Qualifier : x # w => qualifying'[x] = qualifying[x]
        /\ ~NotRunning.on
        /\ DOMAIN NotRunning = {"on", "rows", "pending", "batch", "failures", "open"}
    BY <2>1 DEF LinkFits, LinkFiles, NotRunning
  <2>4. ASSUME NEW x \in Qualifier PROVE QualifierFits(x)'
    <3>1. x \in Preparer /\ \A y \in Qualifier : y \in Preparer
      BY DEF Preparer
    <3>2. \A y \in Qualifier : AtWork(y)' => AtWork(y)
      BY <3>1, <2>1, <2>3, <1>2 DEF AtWork
    <3>3. CASE x = w
      BY <3>2, <3>3, <2>3, <1>2 DEF LinkFits, QualifierFits
    <3>4. CASE x # w
      BY <3>1, <3>2, <3>4, <2>3, <1>2, <1>6 DEF LinkFits, QualifierFits
    <3> QED BY <3>3, <3>4
  <2>5. LinkFiles' /\ overlapped' = FALSE
    BY <2>1, <2>3, <1>1, <1>2, <1>3 DEF LinkFits, LinkFiles
  <2> QED BY <2>2, <2>4, <2>5, <1>5, <1>6 DEF LinkFits
<1> QED BY <1>7, <1>8

\* A power loss may tear the images of a fold, which are not flushed.
LEMMA PowerFits ==
    ASSUME LinkAssumption, LinkFits, PowerFails
    PROVE  LinkFits'
<1>1. /\ accidents' = [accidents EXCEPT !.losses = accidents.losses + 1]
      /\ qualifying' = [r \in Qualifier |-> NotRunning] /\ validating' = AtRest
      /\ threads' = [w \in Preparer |-> [c \in LinkCell |-> "idle"]]
      /\ UNCHANGED <<linkReport, links, rejected, overlapped>>
  BY DEF PowerFails
<1>2. accidents.losses \in Nat /\ links \in 0..MaxLinks /\ MaxLinks \in Nat
  BY DEF LinkFits, LinkFiles, LinkAssumption
<1>3. accidents'.losses \in Nat /\ accidents'.losses # 0 /\ DOMAIN accidents' = DOMAIN accidents
  BY <1>1, <1>2 DEF LinkFits, LinkFiles
<1>4. PICK place \in Places, c \in LinkCell : \E t, q :
        /\ t \in MayTear(folds[place][c].truth) /\ q \in MayTear(folds[place][c].query)
        /\ folds' = [folds EXCEPT ![place][c] = [folds[place][c] EXCEPT !.truth = t, !.query = q]]
  <2>1. DOMAIN folds = Places
    BY DEF LinkFits, LinkFiles
  <2> QED BY <2>1 DEF PowerFails
<1>5. PICK old : old = folds[place][c]
  OBVIOUS
<1>6. PICK t, q :
        /\ t \in MayTear(old.truth) /\ q \in MayTear(old.query)
        /\ folds' = [folds EXCEPT ![place][c] = [old EXCEPT !.truth = t, !.query = q]]
  BY <1>4, <1>5
<1>7. PICK f : f = [old EXCEPT !.truth = t, !.query = q]
  OBVIOUS
<1>8. /\ folds' = [p \in Places |-> [d \in LinkCell |-> folds'[p][d]]] /\ folds'[place][c] = f
      /\ \A p \in Places, d \in LinkCell : p # place \/ d # c => folds'[p][d] = folds[p][d]
  <2>1. PICK before : before = folds
    OBVIOUS
  <2>2. PICK after : after = folds'
    OBVIOUS
  <2>3. before = [p \in Places |-> [d \in LinkCell |-> before[p][d]]]
    BY <2>1 DEF LinkFits, LinkFiles
  <2>4. after = [before EXCEPT ![place][c] = f]
    BY <2>1, <2>2, <1>6, <1>7
  <2>5. \A p \in Places : before[p] = [d \in LinkCell |-> before[p][d]]
    BY <2>3
  <2>6. after[place] = [before[place] EXCEPT ![c] = f] /\ DOMAIN after = Places
    BY <2>3, <2>4
  <2>7. \A p \in Places : p # place => after[p] = before[p]
    BY <2>3, <2>4
  <2>8. /\ \A d \in LinkCell : after[place][d] = IF d = c THEN f ELSE before[place][d]
        /\ after[place] = [d \in LinkCell |-> after[place][d]]
    BY <2>5, <2>6
  <2>9. \A p \in Places : after[p] = [d \in LinkCell |-> after[p][d]]
    BY <2>5, <2>7, <2>8
  <2>10. after = [p \in Places |-> after[p]]
    BY <2>3, <2>4
  <2>11. after = [p \in Places |-> [d \in LinkCell |-> after[p][d]]]
    BY <2>9, <2>10
  <2> QED BY <2>1, <2>2, <2>7, <2>8, <2>11
<1>9. FoldFits(place, c) /\ DOMAIN f = {"truth", "query", "audit", "marker"}
      /\ f.truth = t /\ f.query = q /\ f.marker = old.marker
  BY <1>5, <1>7 DEF LinkFits, FoldFits
<1>10. ASSUME NEW p \in Places, NEW d \in LinkCell PROVE FoldFits(p, d)'
  <2>1. CASE p = place /\ d = c
    <3>1. ASSUME f.marker # <<>>
          PROVE  \E m : /\ f.marker = <<m>> /\ m.truth \in 1..links /\ Genuine(m)
                        /\ {f.truth, f.query} \subseteq {m.truth, Torn}
      <4>1. PICK m : /\ old.marker = <<m>> /\ m.truth \in 1..links /\ Genuine(m)
                     /\ {old.truth, old.query} \subseteq {m.truth, Torn}
        BY <3>1, <1>5, <1>9 DEF FoldFits
      <4>2. old.truth # 0 /\ old.query # 0
        BY <4>1, <1>2 DEF Torn
      <4>3. t \in {old.truth, Torn} /\ q \in {old.query, Torn}
        BY <4>2, <1>6 DEF MayTear, Nothing0
      <4> QED BY <4>1, <4>3, <1>9
    <3> QED BY <3>1, <2>1, <1>1, <1>3, <1>8, <1>9 DEF FoldFits, Genuine, Torn
  <2>2. CASE p # place \/ d # c
    BY <2>2, <1>1, <1>3, <1>8 DEF LinkFits, FoldFits, Genuine, Torn
  <2> QED BY <2>1, <2>2
<1>11. \A v \in Preparer, d \in LinkCell : ThreadFits(v, d)'
  BY <1>1 DEF ThreadFits, Making
<1>12. ReportFits' /\ Recorded' = Recorded
  <2>1. "generation" \in Places
    BY DEF Places
  <2> QED BY <2>1, <1>1, <1>5, <1>8, <1>9, SameReport
<1>13. ASSUME NEW r \in Qualifier PROVE QualifierFits(r)'
  <2>1. \A y \in Qualifier : y \in Preparer /\ qualifying'[y] = NotRunning /\ ~NotRunning.on
        /\ DOMAIN NotRunning = {"on", "rows", "pending", "batch", "failures", "open"}
    BY <1>1 DEF Preparer, NotRunning
  <2> QED BY <2>1, <1>1 DEF QualifierFits, AtWork
<1>14. ValidatorFits'
  BY <1>1 DEF ValidatorFits, AtRest, Preparer
<1>15. LinkFiles' /\ overlapped' = FALSE
  BY <1>1, <1>3, <1>8 DEF LinkFits, LinkFiles, AtRest
<1> QED BY <1>10, <1>11, <1>12, <1>13, <1>14, <1>15 DEF LinkFits

\* The invariant holds first, and every step keeps it.
LEMMA LinkStarts ==
    ASSUME LinkAssumption, LinkInit
    PROVE  LinkInv
<1>1. /\ folds = [p \in Places |-> [c \in LinkCell |-> NoFold]] /\ linkReport = <<>>
      /\ qualifying = [r \in Qualifier |-> NotRunning]
      /\ threads = [w \in Preparer |-> [c \in LinkCell |-> "idle"]]
      /\ validating = [phase |-> "idle", reusing |-> <<>>]
      /\ links = 0 /\ rejected = {} /\ overlapped = FALSE
      /\ accidents = [kills |-> 0, losses |-> 0, admissions |-> 0]
  BY DEF LinkInit, AtRest, Places
<1>2. MaxLinks \in Nat
  BY DEF LinkAssumption
<1>3. LinkFiles
  BY <1>1, <1>2 DEF LinkFiles
<1>4. \A p \in Places, c \in LinkCell : FoldFits(p, c)
  BY <1>1, <1>2 DEF FoldFits, NoFold, Torn, Nothing0
<1>5. \A w \in Preparer, c \in LinkCell : ThreadFits(w, c)
  BY <1>1 DEF ThreadFits, Making
<1>6. ASSUME NEW r \in Qualifier PROVE QualifierFits(r)
  <2>1. \A y \in Qualifier : y \in Preparer /\ qualifying[y] = NotRunning /\ ~NotRunning.on
        /\ DOMAIN NotRunning = {"on", "rows", "pending", "batch", "failures", "open"}
    BY <1>1 DEF Preparer, NotRunning
  <2> QED BY <2>1, <1>1 DEF QualifierFits, AtWork
<1>7. ReportFits
  <2>1. Recorded = [c \in LinkCell |-> NotTried]
    BY <1>1 DEF Recorded, NotRunning
  <2> QED BY <2>1, <1>1 DEF ReportFits, NotTried
<1>8. ValidatorFits
  BY <1>1 DEF ValidatorFits, Preparer
<1> QED BY <1>1, <1>3, <1>4, <1>5, <1>6, <1>7, <1>8 DEF LinkInv, LinkFits

LEMMA LinkStays ==
    ASSUME LinkAssumption, LinkInv, [LinkNext]_linkVars
    PROVE  LinkInv'
<1>1. CASE overlapped = TRUE
  <2>1. overlapped' = TRUE
    BY <1>1 DEF LinkNext, linkVars, LookAtFold, Link, Audit, Strip, Mark, StartQualifier,
         StartBatch, FinishQualifier, Qualify, FailLink, Admit, BeginPreparation,
         EndValidation, SkipFold, CopyFiles, EndCopy, EndFold, KillPreparer, PowerFails
  <2> QED BY <2>1 DEF LinkInv
<1>2. CASE overlapped # TRUE
  <2> SUFFICES ASSUME overlapped' # TRUE PROVE LinkFits'
    BY DEF LinkInv
  <2>1. LinkFits
    BY <1>2 DEF LinkInv
  <2>2. ASSUME NEW w \in Preparer, NEW c \in LinkCell,
               LookAtFold(w, c) \/ Link(w, c) \/ Audit(w, c) \/ Strip(w, c) \/ Mark(w, c)
        PROVE  LinkFits'
    BY <2>1, <2>2, LookAtFoldFits, LinkStepFits, AuditFits, StripFits, MarkFits
  <2>3. ASSUME NEW r \in Qualifier, StartQualifier(r) \/ StartBatch(r) \/ FinishQualifier(r)
        PROVE  LinkFits'
    BY <2>1, <2>3, StartQualifierFits, StartBatchFits, FinishQualifierFits
  <2>4. ASSUME NEW r \in Qualifier, NEW c \in LinkCell, Qualify(r, c) \/ FailLink(r, c)
        PROVE  LinkFits'
    BY <2>1, <2>4, QualifyFits, FailLinkFits
  <2>5. CASE \/ Admit \/ BeginPreparation \/ EndValidation
             \/ \E c \in LinkCell : SkipFold(c)
    BY <2>1, <2>5, PhaseFits
  <2>6. ASSUME NEW c \in LinkCell, CopyFiles(c) \/ EndCopy(c) \/ EndFold(c)
        PROVE  LinkFits'
    BY <2>1, <2>6, TakingFits, EndFoldFits
  <2>7. ASSUME NEW w \in Preparer, KillPreparer(w) PROVE LinkFits'
    BY <2>1, <2>7, KillPreparerFits
  <2>8. CASE PowerFails
    BY <2>1, <2>8, PowerFits
  <2>9. CASE UNCHANGED linkVars
    <3>1. UNCHANGED <<folds, linkReport, qualifying, threads, validating, links, rejected,
                      overlapped, accidents>>
      BY <2>9 DEF linkVars, linkFiles
    <3>2. ReportFits' /\ Recorded' = Recorded
      BY <2>1, <3>1, SameReport
    <3>3. \A r \in Qualifier : QualifierFits(r)'
      BY <2>1, <3>1, <3>2 DEF LinkFits, QualifierFits, AtWork
    <3>4. /\ \A p \in Places, d \in LinkCell : FoldFits(p, d)'
          /\ \A v \in Preparer, d \in LinkCell : ThreadFits(v, d)'
      BY <2>1, <3>1, Quiet
    <3>5. LinkFiles' /\ ValidatorFits' /\ overlapped' = FALSE
      BY <2>1, <3>1 DEF LinkFits, LinkFiles, ValidatorFits
    <3> QED BY <3>2, <3>3, <3>4, <3>5 DEF LinkFits
  <2> QED BY <2>2, <2>3, <2>4, <2>5, <2>6, <2>7, <2>8, <2>9 DEF LinkNext
<1> QED BY <1>1, <1>2

\* The four parts of LinksTrue follow.
LEMMA LinksTrueThen ==
    ASSUME LinkAssumption, LinkInv
    PROVE  LinksTrue
<1>1. SUFFICES ASSUME ~overlapped, LinkFits PROVE LinksTrue
  BY DEF LinkInv, LinksTrue, SealTrue, SealedIsSatisfied, FoldsTrue, QualifiedOnce
<1>2. "generation" \in Places /\ "run" \in Places
  BY DEF Places
<1>3. ASSUME ReportSealed, NEW c \in LinkCell
      PROVE  \E m : /\ Recorded[c].image = <<m>> /\ folds["generation"][c].marker = <<m>>
                    /\ Genuine(m)
                    /\ {folds["generation"][c].truth, folds["generation"][c].query}
                       \subseteq {m.truth, Torn}
  <2>1. Recorded[c].status = "qualified"
    BY <1>1, <1>3 DEF ReportSealed, Recorded, LinkFits, ReportFits, AllQualified
  <2> QED BY <2>1, <1>1, <1>2 DEF LinkFits, ReportFits, FoldFits
<1>4. SealTrue
  BY <1>3 DEF SealTrue, Satisfied
<1>5. SealedIsSatisfied
  <2>1. SUFFICES ASSUME ReportSealed, accidents.losses = 0, NEW c \in LinkCell
                 PROVE  Verified(c)
    BY DEF SealedIsSatisfied, Satisfied
  <2>2. PICK m : /\ Recorded[c].image = <<m>> /\ folds["generation"][c].marker = <<m>>
                 /\ Genuine(m)
                 /\ {folds["generation"][c].truth, folds["generation"][c].query}
                    \subseteq {m.truth, Torn}
    BY <2>1, <1>3
  <2>3. folds["generation"][c].truth = m.truth /\ folds["generation"][c].query = m.truth
    BY <2>1, <2>2, <1>1, <1>2 DEF LinkFits, FoldFits
  <2>4. folds["generation"][c].marker # <<>>
    BY <2>2
  <2>5. Loads(folds["generation"][c])
    BY <2>4, <1>1, <1>2, LoadsAMarker
  <2>6. Recorded[c].image[1] = m /\ folds["generation"][c].marker[1] = m /\ m.query = m.truth
    BY <2>2 DEF Genuine
  <2> QED BY <2>3, <2>5, <2>6 DEF Verified
<1>6. FoldsTrue
  <2>1. \A c \in LinkCell : Fold(Validator, c) = folds["run"][c]
    BY DEF Fold, PlaceOf
  <2>2. ASSUME NEW c \in LinkCell, Loads(folds["run"][c])
        PROVE  LET f == folds["run"][c] IN
               /\ Genuine(f.marker[1]) /\ {f.truth, f.query} \subseteq {f.marker[1].truth, Torn}
    BY <2>2, <1>1, <1>2 DEF Loads, LinkFits, FoldFits
  <2> QED BY <2>1, <2>2 DEF FoldsTrue
<1>7. QualifiedOnce
  <2>1. SUFFICES ASSUME NEW r \in Qualifier, NEW c \in LinkCell, AtStep(r, c, "link")
                 PROVE  Recorded[c].status # "qualified"
    BY DEF QualifiedOnce
  <2>2. PlaceOf(r) = "generation" /\ r \in Preparer
    BY DEF PlaceOf, Preparer, LinkAssumption
  <2>3. folds["generation"][c].marker = <<>>
    BY <2>1, <2>2, <1>1 DEF AtStep, LinkFits, ThreadFits, Fold
  <2> QED BY <2>3, <1>1 DEF LinkFits, ReportFits
<1> QED BY <1>4, <1>5, <1>6, <1>7 DEF LinksTrue

\* LinksTrue of the link qualification: a sealed report is true of the folds, a
\* marker names an audited image, and a cell that is qualified is never linked
\* again, for qualifiers that did not overlap (machine_validation_links.py).
THEOREM LinksSafe == LinkSpec => []LinksTrue
<1>1. LinkInit => LinkInv
  BY LinkAssumption, LinkStarts
<1>2. LinkInv /\ [LinkNext]_linkVars => LinkInv'
  BY LinkAssumption, LinkStays
<1>3. LinkInv => LinksTrue
  BY LinkAssumption, LinksTrueThen
<1> QED BY <1>1, <1>2, <1>3, PTL DEF LinkSpec

\* The types of the link qualification.

\* One entry of a table replaced.
LEMMA EntryReplaced ==
    ASSUME NEW R, NEW C, NEW r \in R, NEW c \in C, NEW b, NEW old, NEW new,
           DOMAIN old = R, \A q \in R : DOMAIN old[q] = C,
           new = [old EXCEPT ![r][c] = b]
    PROVE  /\ DOMAIN new = R /\ \A q \in R : DOMAIN new[q] = C
           /\ \A q \in R, d \in C : new[q][d] = IF q = r /\ d = c THEN b ELSE old[q][d]
  OBVIOUS


\* The files of a fold: an image is one of those linked, or torn, or not there,
\* and there is one marker at most.
FoldTyped(f) ==
    /\ DOMAIN f = {"truth", "query", "audit", "marker"}
    /\ f.truth \in 0..Torn /\ f.query \in 0..Torn /\ f.audit \in 0..Torn
    /\ f.marker = <<>> \/ \E m : f.marker = <<m>>

FoldSteps == {"idle", "queued", "check", "link", "audit", "strip", "mark", "read"}

FoldsAre ==
    /\ links \in Nat /\ links <= MaxLinks
    /\ DOMAIN folds = Places /\ \A p \in Places : DOMAIN folds[p] = LinkCell
    /\ \A p \in Places, c \in LinkCell : FoldTyped(folds[p][c])

ThreadsAre == threads \in [Preparer -> [LinkCell -> FoldSteps]]

ReportsAre ==
    /\ linkReport = <<>> \/ \E report : linkReport = <<report>>
    /\ overlapped \in BOOLEAN /\ DOMAIN qualifying = Qualifier
    /\ \A r \in Qualifier :
          /\ DOMAIN qualifying[r] = {"on", "rows", "pending", "batch", "failures", "open"}
          /\ ~overlapped /\ ~qualifying[r].on => qualifying[r] = NotRunning
    /\ DOMAIN validating = {"phase", "reusing"}
    /\ validating.phase \in {"idle", "reuse", "copied", "prepare"}

LEMMA FoldChanged ==
    ASSUME NEW f, FoldTyped(f), NEW n \in 0..Torn, NEW k \in 0..Torn, NEW m
    PROVE  /\ FoldTyped([f EXCEPT !.truth = n]) /\ FoldTyped([f EXCEPT !.query = n])
           /\ FoldTyped([f EXCEPT !.audit = n]) /\ FoldTyped([f EXCEPT !.marker = <<m>>])
           /\ FoldTyped([f EXCEPT !.marker = <<>>])
           /\ FoldTyped([f EXCEPT !.truth = n, !.query = k])
  BY DEF FoldTyped

\* One fold replaced.
LEMMA FoldReplaced ==
    ASSUME FoldsAre, NEW p \in Places, NEW c \in LinkCell, NEW f, FoldTyped(f),
           folds' = [folds EXCEPT ![p][c] = f], links' \in Nat, links' <= MaxLinks
    PROVE  FoldsAre'
<1>1. PICK old, new : old = folds /\ new = folds'
  OBVIOUS
<1>2. DOMAIN old = Places /\ \A q \in Places : DOMAIN old[q] = LinkCell
  BY <1>1 DEF FoldsAre
<1>3. new = [old EXCEPT ![p][c] = f]
  BY <1>1
<1>4. /\ DOMAIN new = Places /\ \A q \in Places : DOMAIN new[q] = LinkCell
      /\ \A q \in Places, d \in LinkCell :
            new[q][d] = IF q = p /\ d = c THEN f ELSE old[q][d]
  BY <1>2, <1>3, EntryReplaced
<1> QED BY <1>1, <1>4 DEF FoldsAre

\* One thread goes on.
LEMMA ThreadReplaced ==
    ASSUME ThreadsAre, NEW w \in Preparer, NEW c \in LinkCell, NEW step \in FoldSteps,
           ToStep(w, c, step)
    PROVE  ThreadsAre'
  BY DEF ThreadsAre, ToStep

LEMMA PlaceIsThere == \A w : PlaceOf(w) \in Places
  BY DEF PlaceOf, Places

\* The folds after a step of a thread, of the admission or of a power loss.
LEMMA FoldsStay ==
    ASSUME LinkAssumption, FoldsAre, [LinkNext]_linkVars
    PROVE  FoldsAre'
<1>1. Torn \in Nat /\ 0 \in 0..Torn /\ links \in 0..Torn /\ MaxLinks \in Nat
  BY DEF Torn, LinkAssumption, FoldsAre
<1>2. \A w \in Preparer, c \in LinkCell : FoldTyped(Fold(w, c)) /\ FoldTyped(Source(c))
  BY PlaceIsThere DEF FoldsAre, Fold, Source, Places
<1>3. ASSUME NEW w \in Preparer, NEW c \in LinkCell, Link(w, c)
      PROVE  FoldsAre'
  <2>1. links' \in Nat /\ links' <= MaxLinks /\ links + 1 \in 0..Torn
    BY <1>1, <1>3 DEF Link, FoldsAre, Torn
  <2>2. FoldTyped([Fold(w, c) EXCEPT !.truth = links + 1])
    BY <1>1, <1>2, <2>1, FoldChanged
  <2> QED BY <1>3, <2>1, <2>2, FoldReplaced, PlaceIsThere DEF Link, Write
<1>4. ASSUME NEW w \in Preparer, NEW c \in LinkCell, NEW f, FoldTyped(f), Write(w, c, f),
             links' = links
      PROVE  FoldsAre'
  <2>1. links' \in Nat /\ links' <= MaxLinks
    BY <1>4 DEF FoldsAre
  <2> QED BY <1>4, <2>1, FoldReplaced, PlaceIsThere DEF Write
<1>5. ASSUME NEW w \in Preparer, NEW c \in LinkCell, Audit(w, c) \/ Strip(w, c) \/ Mark(w, c)
      PROVE  FoldsAre'
  <2>1. Fold(w, c).truth \in 0..Torn
    BY <1>2 DEF FoldTyped
  <2>2. \E f : FoldTyped(f) /\ Write(w, c, f)
    BY <1>2, <1>5, <2>1, FoldChanged, <1>1 DEF Audit, Strip, Mark
  <2> QED BY <1>4, <1>5, <2>2 DEF Audit, Strip, Mark
<1>6. ASSUME NEW w \in Preparer, NEW c \in LinkCell,
             FailLink(w, c) \/ (w = Validator /\ EndFold(c))
      PROVE  FoldsAre'
  <2>1. Fold(w, c).truth \in 0..Torn
    BY <1>2 DEF FoldTyped
  <2>2. UNCHANGED folds \/ \E f : FoldTyped(f) /\ Write(w, c, f)
    BY <1>2, <1>6, <2>1, FoldChanged, <1>1 DEF FailLink, EndFold
  <2>3. links' = links
    BY <1>6 DEF FailLink, EndFold
  <2> QED BY <1>4, <2>2, <2>3 DEF FoldsAre
<1>7. ASSUME NEW c \in LinkCell, CopyFiles(c) \/ EndCopy(c)
      PROVE  FoldsAre'
  <2>1. Validator \in Preparer /\ links' = links
    BY <1>7 DEF Preparer, CopyFiles, EndCopy
  <2>2. \E f : FoldTyped(f) /\ Write(Validator, c, f)
    BY <1>1, <1>2, <1>7, <2>1, FoldChanged DEF CopyFiles, EndCopy
  <2> QED BY <1>4, <2>1, <2>2
<1>8. CASE PowerFails
  <2>1. PICK p \in Places, c \in LinkCell :
           \E t \in MayTear(folds[p][c].truth), q \in MayTear(folds[p][c].query) :
              folds' = [folds EXCEPT ![p][c] = [folds[p][c] EXCEPT !.truth = t, !.query = q]]
    BY <1>8 DEF PowerFails, FoldsAre
  <2>2. PICK t \in MayTear(folds[p][c].truth), q \in MayTear(folds[p][c].query) :
           folds' = [folds EXCEPT ![p][c] = [folds[p][c] EXCEPT !.truth = t, !.query = q]]
    BY <2>1
  <2>3. FoldTyped(folds[p][c])
    BY DEF FoldsAre
  <2>4. t \in 0..Torn /\ q \in 0..Torn
    BY <1>1, <2>2, <2>3 DEF MayTear, FoldTyped, Nothing0
  <2>5. FoldTyped([folds[p][c] EXCEPT !.truth = t, !.query = q])
    BY <2>3, <2>4, FoldChanged
  <2>6. links' \in Nat /\ links' <= MaxLinks
    BY <1>8 DEF PowerFails, FoldsAre
  <2> QED BY <2>2, <2>5, <2>6, FoldReplaced
<1>9. CASE UNCHANGED <<folds, links>>
  BY <1>9 DEF FoldsAre
<1>10. CASE UNCHANGED linkVars
  BY <1>9, <1>10 DEF linkVars, linkFiles
<1>11. ASSUME NEW r \in Qualifier,
              StartQualifier(r) \/ StartBatch(r) \/ FinishQualifier(r)
              \/ \E c \in LinkCell : Qualify(r, c)
       PROVE  FoldsAre'
  BY <1>9, <1>11 DEF StartQualifier, StartBatch, FinishQualifier, Qualify, linkFiles
<1>12. CASE \/ Admit \/ BeginPreparation \/ EndValidation
            \/ \E c \in LinkCell : SkipFold(c)
            \/ \E w \in Preparer : KillPreparer(w)
            \/ \E w \in Preparer, c \in LinkCell : LookAtFold(w, c)
  BY <1>9, <1>12 DEF Admit, BeginPreparation, EndValidation, SkipFold, KillPreparer, LookAtFold,
     linkFiles
<1>13. Qualifier \subseteq Preparer /\ Validator \in Preparer
  BY DEF Preparer
<1>14. ASSUME NEW w \in Preparer, NEW c \in LinkCell,
              LookAtFold(w, c) \/ Link(w, c) \/ Audit(w, c) \/ Strip(w, c) \/ Mark(w, c)
       PROVE  FoldsAre'
  BY <1>3, <1>5, <1>12, <1>14
<1>15. ASSUME NEW r \in Qualifier,
              \/ StartQualifier(r) \/ StartBatch(r) \/ FinishQualifier(r)
              \/ \E c \in LinkCell : Qualify(r, c) \/ FailLink(r, c)
       PROVE  FoldsAre'
  BY <1>6, <1>11, <1>13, <1>15
<1>16. ASSUME NEW c \in LinkCell, SkipFold(c) \/ CopyFiles(c) \/ EndCopy(c) \/ EndFold(c)
       PROVE  FoldsAre'
  BY <1>6, <1>7, <1>12, <1>13, <1>16
<1> QED BY <1>8, <1>10, <1>12, <1>14, <1>15, <1>16 DEF LinkNext

\* The threads after a step.
LEMMA ThreadsStay ==
    ASSUME ThreadsAre, [LinkNext]_linkVars
    PROVE  ThreadsAre'
<1>1. {"idle", "check", "read", "link", "audit", "strip", "mark"} \subseteq FoldSteps
  BY DEF FoldSteps
<1>2. Qualifier \subseteq Preparer /\ Validator \in Preparer
  BY DEF Preparer
<1>3. ASSUME NEW w \in Preparer, NEW c \in LinkCell,
             LookAtFold(w, c) \/ Link(w, c) \/ Audit(w, c) \/ Strip(w, c) \/ Mark(w, c)
      PROVE  ThreadsAre'
  <2>1. \E step \in FoldSteps : ToStep(w, c, step)
    BY <1>1, <1>3 DEF LookAtFold, Link, Audit, Strip, Mark
  <2> QED BY <2>1, ThreadReplaced
<1>4. ASSUME NEW r \in Qualifier, NEW c \in LinkCell, Qualify(r, c) \/ FailLink(r, c)
      PROVE  ThreadsAre'
  <2>1. ToStep(r, c, "idle")
    BY <1>4 DEF Qualify, FailLink, Completes
  <2> QED BY <1>1, <1>2, <2>1, ThreadReplaced
<1>5. ASSUME NEW c \in LinkCell, EndFold(c)
      PROVE  ThreadsAre'
  BY <1>1, <1>2, <1>5, ThreadReplaced DEF EndFold
<1>6. ASSUME NEW w \in Preparer, NEW row, threads' = [threads EXCEPT ![w] = row],
             row \in [LinkCell -> FoldSteps]
      PROVE  ThreadsAre'
  BY <1>6 DEF ThreadsAre
<1>7. ASSUME NEW r \in Qualifier, StartBatch(r)
      PROVE  ThreadsAre'
  <2> DEFINE row == [c \in LinkCell |-> IF c \in ToSet(NextBatch(qualifying[r])) THEN "check"
                                        ELSE threads[r][c]]
  <2>1. threads' = [threads EXCEPT ![r] = row]
    BY <1>7 DEF StartBatch
  <2>2. row \in [LinkCell -> FoldSteps]
    BY <1>1, <1>2 DEF ThreadsAre
  <2> HIDE DEF row
  <2> QED BY <1>2, <1>6, <2>1, <2>2
<1>8. ASSUME NEW w \in Preparer, KillPreparer(w)
      PROVE  ThreadsAre'
  <2> DEFINE row == [c \in LinkCell |-> IF threads[w][c] = "link" THEN "link" ELSE "idle"]
  <2>1. threads' = [threads EXCEPT ![w] = row]
    BY <1>8 DEF KillPreparer, Halted
  <2>2. row \in [LinkCell -> FoldSteps]
    BY <1>1
  <2> HIDE DEF row
  <2> QED BY <1>6, <2>1, <2>2
<1>9. CASE BeginPreparation
  <2> DEFINE row == [c \in LinkCell |-> "check"]
  <2>1. threads' = [threads EXCEPT ![Validator] = row]
    BY <1>9 DEF BeginPreparation
  <2>2. row \in [LinkCell -> FoldSteps]
    BY <1>1
  <2> HIDE DEF row
  <2> QED BY <1>2, <1>6, <2>1, <2>2
<1>10. CASE PowerFails
  BY <1>1, <1>10 DEF PowerFails, ThreadsAre
<1>11. CASE UNCHANGED threads
  BY <1>11 DEF ThreadsAre
<1>12. CASE \/ UNCHANGED linkVars \/ Admit \/ EndValidation
            \/ \E r \in Qualifier : StartQualifier(r) \/ FinishQualifier(r)
            \/ \E c \in LinkCell : SkipFold(c) \/ CopyFiles(c) \/ EndCopy(c)
  BY <1>11, <1>12 DEF linkVars, Admit, EndValidation, StartQualifier, FinishQualifier, SkipFold,
     CopyFiles, EndCopy
<1> QED BY <1>3, <1>4, <1>5, <1>7, <1>8, <1>9, <1>10, <1>12 DEF LinkNext

\* A qualifier goes on, or ends.
LEMMA QualifierReplaced ==
    ASSUME ReportsAre, NEW r \in Qualifier, NEW q,
           DOMAIN q = {"on", "rows", "pending", "batch", "failures", "open"},
           q.on = TRUE \/ q = NotRunning \/ overlapped,
           qualifying' = [qualifying EXCEPT ![r] = q], UNCHANGED validating,
           linkReport' = linkReport \/ \E report : linkReport' = <<report>>,
           overlapped' \in BOOLEAN, overlapped => overlapped'
    PROVE  ReportsAre'
  BY DEF ReportsAre

LEMMA ReportsStay ==
    ASSUME LinkAssumption, LinkInv, ReportsAre, [LinkNext]_linkVars
    PROVE  ReportsAre'
<1> DEFINE Fields == {"on", "rows", "pending", "batch", "failures", "open"}
<1>1. DOMAIN NotRunning = Fields /\ overlapped \in BOOLEAN
  BY DEF NotRunning, ReportsAre
<1>2. ASSUME NEW r \in Qualifier, StartQualifier(r)
      PROVE  ReportsAre'
  <2>1. PICK q : /\ q = [NotRunning EXCEPT !.on = TRUE, !.rows = Recorded,
                    !.pending = SelectSeq(LinkQueue, LAMBDA c : Recorded[c].status # "qualified")]
                 /\ qualifying' = [qualifying EXCEPT ![r] = q]
    BY <1>2 DEF StartQualifier
  <2>2. DOMAIN q = Fields /\ q.on = TRUE
    BY <2>1 DEF NotRunning
  <2>3. /\ UNCHANGED <<validating, linkReport>> /\ overlapped' \in BOOLEAN
        /\ overlapped => overlapped'
    BY <1>1, <1>2 DEF StartQualifier, linkFiles
  <2> QED BY <2>1, <2>2, <2>3, QualifierReplaced
<1>3. ASSUME NEW r \in Qualifier, StartBatch(r)
      PROVE  ReportsAre'
  <2>1. PICK q : /\ q = [qualifying[r] EXCEPT !.batch = ToSet(NextBatch(qualifying[r])),
                    !.pending = SubSeq(qualifying[r].pending, Len(NextBatch(qualifying[r])) + 1,
                                       Len(qualifying[r].pending))]
                 /\ qualifying' = [qualifying EXCEPT ![r] = q]
    BY <1>3 DEF StartBatch
  <2>2. DOMAIN q = Fields /\ q.on = qualifying[r].on
    BY <2>1 DEF ReportsAre
  <2>3. qualifying[r].on /\ UNCHANGED <<validating, linkReport, overlapped>>
    BY <1>3 DEF StartBatch, linkFiles
  <2>4. q.on = TRUE \/ q = NotRunning \/ overlapped
    BY <2>2, <2>3
  <2> QED BY <1>1, <2>1, <2>2, <2>3, <2>4, QualifierReplaced
<1>4. ASSUME NEW r \in Qualifier, NEW c \in LinkCell, Qualify(r, c) \/ FailLink(r, c)
      PROVE  ReportsAre'
  <2>1. PICK q, report :
           /\ DOMAIN q = DOMAIN qualifying[r] /\ (q.on = qualifying[r].on)
           /\ qualifying' = [qualifying EXCEPT ![r] = q] /\ linkReport' = <<report>>
    <3>1. PICK row, counts : Completes(r, c, row, counts)
      BY <1>4 DEF Qualify, FailLink
    <3>2. PICK rows, open :
             /\ qualifying' = [qualifying EXCEPT ![r] = [qualifying[r] EXCEPT !.rows = rows,
                   !.batch = qualifying[r].batch \ {c}, !.failures = counts, !.open = open]]
             /\ linkReport' = Summary(rows, open)
      BY <3>1 DEF Completes
    <3>3. PICK q : q = [qualifying[r] EXCEPT !.rows = rows,
                   !.batch = qualifying[r].batch \ {c}, !.failures = counts, !.open = open]
      OBVIOUS
    <3>4. DOMAIN q = DOMAIN qualifying[r] /\ (q.on = qualifying[r].on)
      BY <3>3 DEF ReportsAre
    <3>5. \E report : linkReport' = <<report>>
      BY <3>2 DEF Summary
    <3> QED BY <3>2, <3>3, <3>4, <3>5
  <2>2. UNCHANGED <<validating, overlapped>>
    BY <1>4 DEF Qualify, FailLink
  <2>3. ~overlapped => qualifying[r].on
    <3>1. SUFFICES ASSUME ~overlapped PROVE qualifying[r].on
      OBVIOUS
    <3>2. QualifierFits(r)
      BY <3>1 DEF LinkInv, LinkFits
    <3> QED BY <1>4, <3>2 DEF QualifierFits, Qualify, FailLink, AtStep
  <2>4. overlapped \/ q.on = TRUE
    <3>1. CASE ~overlapped
      <4>1. QualifierFits(r)
        BY <3>1 DEF LinkInv, LinkFits
      <4> QED BY <2>1, <2>3, <3>1
    <3> QED BY <3>1
  <2>5. DOMAIN q = Fields
    BY <2>1 DEF ReportsAre
  <2> QED BY <1>1, <2>1, <2>2, <2>4, <2>5, QualifierReplaced
<1>5. ASSUME NEW r \in Qualifier, FinishQualifier(r)
      PROVE  ReportsAre'
  <2>1. \E report : linkReport' = <<report>>
    BY <1>5 DEF FinishQualifier, Summary
  <2>2. qualifying' = [qualifying EXCEPT ![r] = NotRunning] /\ UNCHANGED <<validating, overlapped>>
    BY <1>5 DEF FinishQualifier
  <2> QED BY <1>1, <2>1, <2>2, QualifierReplaced
<1>6. ASSUME NEW w \in Preparer, KillPreparer(w)
      PROVE  ReportsAre'
  <2>1. UNCHANGED <<linkReport, overlapped>>
    BY <1>6 DEF KillPreparer, linkFiles
  <2>2. CASE w = Validator
    <3>1. validating' = AtRest /\ UNCHANGED qualifying
      BY <1>6, <2>2 DEF KillPreparer
    <3> QED BY <2>1, <3>1 DEF ReportsAre, AtRest
  <2>3. CASE w # Validator
    <3>1. w \in Qualifier /\ qualifying' = [qualifying EXCEPT ![w] = NotRunning]
      BY <1>6, <2>3 DEF KillPreparer, Preparer
    <3>2. UNCHANGED validating
      BY <1>6, <2>3 DEF KillPreparer
    <3> QED BY <1>1, <2>1, <3>1, <3>2, QualifierReplaced
  <2> QED BY <2>2, <2>3
<1>7. ASSUME NEW v, validating' = v, DOMAIN v = {"phase", "reusing"},
             v.phase \in {"idle", "reuse", "copied", "prepare"},
             UNCHANGED <<linkReport, qualifying>>, overlapped' \in BOOLEAN, overlapped => overlapped'
      PROVE  ReportsAre'
  BY <1>7 DEF ReportsAre
<1>8. CASE \/ Admit \/ BeginPreparation \/ EndValidation
           \/ \E c \in LinkCell : SkipFold(c) \/ CopyFiles(c) \/ EndCopy(c)
  <2>1. UNCHANGED <<linkReport, qualifying>>
    BY <1>8 DEF Admit, BeginPreparation, EndValidation, SkipFold, CopyFiles, EndCopy, linkFiles
  <2>2. overlapped' \in BOOLEAN /\ (overlapped => overlapped')
    BY <1>1, <1>8 DEF Admit, BeginPreparation, EndValidation, SkipFold, CopyFiles, EndCopy
  <2>3. \A x : /\ DOMAIN [phase |-> "reuse", reusing |-> x] = {"phase", "reusing"}
               /\ [phase |-> "reuse", reusing |-> x].phase = "reuse"
    OBVIOUS
  <2>4. /\ DOMAIN AtRest = {"phase", "reusing"} /\ AtRest.phase = "idle"
    BY DEF AtRest
  <2>5. \A n \in {"copied", "prepare"} :
           /\ DOMAIN [validating EXCEPT !.phase = n] = {"phase", "reusing"}
           /\ [validating EXCEPT !.phase = n].phase = n
    BY DEF ReportsAre
  <2>6. \E v : /\ validating' = v /\ DOMAIN v = {"phase", "reusing"}
               /\ v.phase \in {"idle", "reuse", "copied", "prepare"}
    BY <1>8, <2>3, <2>4, <2>5
       DEF Admit, BeginPreparation, EndValidation, SkipFold, CopyFiles, EndCopy, NextFold
  <2> QED BY <1>7, <2>1, <2>2, <2>6
<1>9. CASE PowerFails
  <2>1. /\ UNCHANGED <<linkReport, overlapped>> /\ validating' = AtRest
        /\ qualifying' = [r \in Qualifier |-> NotRunning]
    BY <1>9 DEF PowerFails
  <2> QED BY <1>1, <2>1 DEF ReportsAre, AtRest
<1>10. CASE UNCHANGED <<linkReport, qualifying, validating, overlapped>>
  BY <1>10 DEF ReportsAre
<1>11. CASE UNCHANGED linkVars
  BY <1>10, <1>11 DEF linkVars, linkFiles
<1>12. ASSUME NEW w \in Preparer, NEW c \in LinkCell,
              LookAtFold(w, c) \/ Link(w, c) \/ Audit(w, c) \/ Strip(w, c) \/ Mark(w, c)
       PROVE  ReportsAre'
  BY <1>10, <1>12 DEF LookAtFold, Link, Audit, Strip, Mark, linkFiles
<1>13. ASSUME NEW c \in LinkCell, EndFold(c)
       PROVE  ReportsAre'
  BY <1>10, <1>13 DEF EndFold
<1>14. ASSUME NEW r \in Qualifier,
              \/ StartQualifier(r) \/ StartBatch(r) \/ FinishQualifier(r)
              \/ \E c \in LinkCell : Qualify(r, c) \/ FailLink(r, c)
       PROVE  ReportsAre'
  BY <1>2, <1>3, <1>4, <1>5, <1>14
<1>15. ASSUME NEW c \in LinkCell, SkipFold(c) \/ CopyFiles(c) \/ EndCopy(c) \/ EndFold(c)
       PROVE  ReportsAre'
  BY <1>8, <1>13, <1>15
<1> QED BY <1>6, <1>8, <1>9, <1>11, <1>12, <1>14, <1>15 DEF LinkNext

\* The folds, threads and reports first.
LEMMA LinksStart ==
    ASSUME LinkAssumption, LinkInit
    PROVE  FoldsAre /\ ThreadsAre /\ ReportsAre
<1>1. MaxLinks \in Nat /\ 0 \in 0..Torn
  BY DEF LinkAssumption, Torn
<1>2. FoldTyped(NoFold)
  BY <1>1 DEF FoldTyped, NoFold, Nothing0
<1>3. FoldsAre
  BY <1>1, <1>2 DEF LinkInit, FoldsAre, Places
<1>4. ThreadsAre
  BY DEF LinkInit, ThreadsAre, FoldSteps
<1>5. ReportsAre
  BY DEF LinkInit, ReportsAre, NotRunning, AtRest
<1> QED BY <1>3, <1>4, <1>5

LEMMA LinksTyped ==
    ASSUME FoldsAre, ThreadsAre, ReportsAre
    PROVE  LinkTypeOK
<1>1. ASSUME NEW s, s = <<>> \/ \E x : s = <<x>>
      PROVE  Len(s) <= 1
  <2>1. CASE s = <<>>
    BY <2>1
  <2>2. ASSUME NEW x, s = <<x>> PROVE Len(s) <= 1
    BY <2>2
  <2> QED BY <1>1, <2>1, <2>2
<1>2. ASSUME NEW p \in DOMAIN folds, NEW c \in LinkCell
      PROVE  /\ {folds[p][c].truth, folds[p][c].query, folds[p][c].audit} \subseteq 0 .. Torn
             /\ Len(folds[p][c].marker) <= 1
  <2>1. FoldTyped(folds[p][c])
    BY <1>2 DEF FoldsAre
  <2>2. Len(folds[p][c].marker) <= 1
    BY <1>1, <2>1 DEF FoldTyped
  <2> QED BY <2>1, <2>2 DEF FoldTyped
<1>3. Len(linkReport) <= 1
  BY <1>1 DEF ReportsAre
<1> QED BY <1>2, <1>3 DEF LinkTypeOK, ReportsAre, ThreadsAre, FoldSteps

\* LinkTypeOK of the link qualification: the files of a fold are images that were
\* linked, or torn, and a qualifier that is not on has nothing under way, unless
\* two of them overlapped (machine_validation_links.py).
THEOREM LinksTypeSafe == LinkSpec => []LinkTypeOK
<1>1. LinkInit => LinkInv /\ FoldsAre /\ ThreadsAre /\ ReportsAre
  BY LinkAssumption, LinkStarts, LinksStart
<1>2. LinkInv /\ FoldsAre /\ ThreadsAre /\ ReportsAre /\ [LinkNext]_linkVars
      => LinkInv' /\ FoldsAre' /\ ThreadsAre' /\ ReportsAre'
  BY LinkAssumption, LinkStays, FoldsStay, ThreadsStay, ReportsStay
<1>3. FoldsAre /\ ThreadsAre /\ ReportsAre => LinkTypeOK
  BY LinksTyped
<1> QED BY <1>1, <1>2, <1>3, PTL DEF LinkSpec

-----------------------------------------------------------------------------
\* The hash evidence (machine_validation_hashes.py, corpus_hash_index.py).  The
\* analyses of several runs share an index; each has a number, and what it wrote
\* or opened carries it.

HashStates == {"measured", "postprocessing", "postprocess-failed", "complete"}

RowFields == {"run", "number", "at", "status", "source", "taken", "fresh", "work", "ordinal", "last"}

\* The row of an analysis: of a run, with the status that it read.
RowTyped(row) == DOMAIN row = RowFields /\ row.run \in HashRun /\ row.status \in HashStates

AnalysesFit ==
    /\ hashStatus \in [HashRun -> HashStates] /\ sources \in [HashRun -> 1..(1 + MaxRevisions)]
    /\ DOMAIN hashJobs = HashJob
    /\ \A j \in HashJob : hashJobs[j] = <<>> \/ \E row : hashJobs[j] = <<row>> /\ RowTyped(row)

\* The analysis j goes on with another row, or ends.
LEMMA AnalysisReplaced ==
    ASSUME AnalysesFit, NEW j \in HashJob, NEW x, hashJobs' = [hashJobs EXCEPT ![j] = x],
           x = <<>> \/ \E row : x = <<row>> /\ RowTyped(row),
           hashStatus' \in [HashRun -> HashStates], UNCHANGED sources
    PROVE  AnalysesFit'
  BY DEF AnalysesFit

\* An analysis at work has a row.
LEMMA AnalysisRow ==
    ASSUME AnalysesFit, NEW j \in HashJob, hashJobs[j] # <<>>
    PROVE  hashJobs[j] = <<Row(j)>> /\ RowTyped(Row(j))
<1>1. PICK row : hashJobs[j] = <<row>> /\ RowTyped(row)
  BY DEF AnalysesFit
<1> QED BY <1>1 DEF Row

\* Where an analysis goes is a change of its row.
LEMMA RowGoes ==
    ASSUME AnalysesFit, NEW j \in HashJob, hashJobs[j] # <<>>, NEW where, GoesTo(j, where)
    PROVE  AndThen(j, [Row(j) EXCEPT !.at = where])
<1>1. PICK row : hashJobs[j] = <<row>> /\ row = Row(j)
  BY AnalysisRow
<1>2. [hashJobs[j] EXCEPT ![1].at = where] = <<[row EXCEPT !.at = where]>>
  BY <1>1
<1>3. hashJobs' = [hashJobs EXCEPT ![j] = [hashJobs[j] EXCEPT ![1].at = where]]
  BY DEF GoesTo
<1> QED BY <1>1, <1>2, <1>3 DEF AndThen

\* A row that is like another one but for where it is and what it read.
LEMMA RowChanged ==
    ASSUME NEW row, RowTyped(row)
    PROVE  /\ \A a : RowTyped([row EXCEPT !.at = a])
           /\ \A a, b : RowTyped([row EXCEPT !.at = a, !.source = b])
           /\ \A a, b : RowTyped([row EXCEPT !.at = a, !.ordinal = b])
           /\ \A a, b : RowTyped([row EXCEPT !.at = a, !.last = b])
           /\ \A a, b : RowTyped([row EXCEPT !.at = a, !.work = b])
           /\ \A a, b, c, d : RowTyped([row EXCEPT !.at = a, !.fresh = b, !.work = c, !.taken = d])
  BY DEF RowTyped, RowFields

\* The steps that leave the status and the sources alone and go on with the row.
LEMMA AnalysisGoes ==
    ASSUME AnalysesFit, NEW j \in HashJob, hashJobs[j] # <<>>, UNCHANGED <<hashStatus, sources>>,
           \/ \E a : AndThen(j, [Row(j) EXCEPT !.at = a])
           \/ \E a, b : AndThen(j, [Row(j) EXCEPT !.at = a, !.source = b])
           \/ \E a, b : AndThen(j, [Row(j) EXCEPT !.at = a, !.ordinal = b])
           \/ \E a, b : AndThen(j, [Row(j) EXCEPT !.at = a, !.last = b])
           \/ \E a, b : AndThen(j, [Row(j) EXCEPT !.at = a, !.work = b])
           \/ \E a, b, c, d : AndThen(j, [Row(j) EXCEPT !.at = a, !.fresh = b, !.work = c, !.taken = d])
    PROVE  AnalysesFit'
<1>1. PICK old : old = Row(j) /\ RowTyped(old)
  BY AnalysisRow
<1>2. \E row : RowTyped(row) /\ AndThen(j, row)
  BY <1>1, RowChanged
<1>3. PICK row : RowTyped(row) /\ AndThen(j, row)
  BY <1>2
<1>4. hashStatus' \in [HashRun -> HashStates]
  BY DEF AnalysesFit
<1> QED BY <1>3, <1>4, AnalysisReplaced DEF AndThen

LEMMA AnalysesStart ==
    ASSUME EvidenceAssumption, HashInit
    PROVE  AnalysesFit
<1>1. PICK done \in {{}} \union {{e} : e \in Earlier} :
         /\ hashStatus = [r \in HashRun |->
              CASE r \in done -> "complete"
                [] r \in FailedBefore \ done -> "postprocess-failed"
                [] OTHER -> "measured"]
         /\ sources = [r \in HashRun |-> 1] /\ hashJobs = [j \in HashJob |-> <<>>]
  BY DEF HashInit
<1>2. 1 \in 1..(1 + MaxRevisions)
  BY DEF EvidenceAssumption
<1> QED BY <1>1, <1>2 DEF AnalysesFit, HashStates

\* An analysis ends, whichever way.
LEMMA AnalysisEnds ==
    ASSUME AnalysesFit, NEW j \in HashJob, hashJobs[j] # <<>>, NEW ended \in HashStates,
           EndAnalyse(j, ended)
    PROVE  AnalysesFit'
<1>1. hashStatus' \in [HashRun -> HashStates]
  BY DEF EndAnalyse, AnalysesFit
<1> QED BY <1>1, AnalysisReplaced DEF EndAnalyse

LEMMA AnalysesStep ==
    ASSUME EvidenceAssumption, AnalysesFit, [HashNext]_hashVars
    PROVE  AnalysesFit'
<1>1. CASE UNCHANGED hashVars
  BY <1>1 DEF hashVars, AnalysesFit
<1>2. ASSUME NEW r \in HashRun, ReviseSource(r)
      PROVE  AnalysesFit'
  <2>1. sources' \in [HashRun -> 1..(1 + MaxRevisions)]
    BY <1>2 DEF ReviseSource, AnalysesFit, EvidenceAssumption
  <2> QED BY <1>2, <2>1 DEF ReviseSource, AnalysesFit
<1>3. ASSUME NEW j \in HashJob, NEW r \in HashRun, BeginAnalyse(j, r)
      PROVE  AnalysesFit'
  <2>1. hashStatus' \in [HashRun -> HashStates]
    BY <1>3 DEF BeginAnalyse, AnalysesFit, HashStates
  <2>2. PICK row : /\ row = [run |-> r, number |-> analyses', at |-> "resolve",
                         status |-> hashStatus'[r], source |-> 0, taken |-> 0, fresh |-> FALSE,
                         work |-> <<>>, ordinal |-> 0, last |-> Empty.totals]
                   /\ AndThen(j, row)
    BY <1>3 DEF BeginAnalyse
  <2>3. RowTyped(row)
    BY <2>1, <2>2 DEF RowTyped, RowFields
  <2> QED BY <1>3, <2>1, <2>2, <2>3, AnalysisReplaced DEF BeginAnalyse, AndThen
<1>4. ASSUME NEW j \in HashJob,
             ResolveEvidence(j) \/ CompleteAnalyse(j) \/ FailAnalyse(j) \/ KillAnalyse(j)
      PROVE  AnalysesFit'
  <2>1. hashJobs[j] # <<>> /\ {"complete", "postprocess-failed"} \subseteq HashStates
    BY <1>4 DEF ResolveEvidence, CompleteAnalyse, FailAnalyse, KillAnalyse, JobAt, HashStates
  <2>2. CASE \E ended \in {"complete", "postprocess-failed"} : EndAnalyse(j, ended)
    BY <2>1, <2>2, AnalysisEnds
  <2>3. CASE AndThen(j, [Row(j) EXCEPT !.at = "create", !.source = sources[RunOf(j)]])
             /\ UNCHANGED <<hashStatus, sources>>
    BY <2>1, <2>3, AnalysisGoes
  <2>4. CASE KillAnalyse(j)
    BY <2>4, AnalysisReplaced DEF KillAnalyse, AnalysesFit
  <2> QED BY <1>4, <2>2, <2>3, <2>4 DEF ResolveEvidence, CompleteAnalyse, FailAnalyse
<1>5. ASSUME NEW j \in HashJob,
             \/ CreatePartial(j) \/ ClassifyFolds(j) \/ RenameEvidence(j) \/ InstallIndex(j)
             \/ WriteHashReport(j)
      PROVE  AnalysesFit'
  <2>1. hashJobs[j] # <<>> /\ UNCHANGED <<hashStatus, sources>> /\ \E a : GoesTo(j, a)
    BY <1>5 DEF CreatePartial, ClassifyFolds, RenameEvidence, InstallIndex, WriteHashReport, JobAt
  <2> QED BY <2>1, RowGoes, AnalysisGoes
<1>6. ASSUME NEW j \in HashJob, OpenIndex(j) \/ LookForBatch(j) \/ ReadOrdinal(j) \/ ReadLast(j)
      PROVE  AnalysesFit'
  <2>1. hashJobs[j] # <<>> /\ UNCHANGED <<hashStatus, sources>>
    BY <1>6 DEF OpenIndex, LookForBatch, ReadOrdinal, ReadLast, JobAt
  <2>2. CASE \E a : GoesTo(j, a)
    BY <2>1, <2>2, RowGoes, AnalysisGoes
  <2>3. CASE \/ \E a, b : AndThen(j, [Row(j) EXCEPT !.at = a, !.ordinal = b])
             \/ \E a, b : AndThen(j, [Row(j) EXCEPT !.at = a, !.last = b])
             \/ \E a, b, c, d :
                   AndThen(j, [Row(j) EXCEPT !.at = a, !.fresh = b, !.work = c, !.taken = d])
    BY <2>1, <2>3, AnalysisGoes
  <2> QED BY <1>6, <2>2, <2>3 DEF OpenIndex, LookForBatch, ReadOrdinal, ReadLast
<1>7. ASSUME NEW j \in HashJob, AdmitBatch(j)
      PROVE  AnalysesFit'
  <2>1. hashJobs[j] # <<>> /\ UNCHANGED <<hashStatus, sources>>
    BY <1>7 DEF AdmitBatch, JobAt
  <2>2. (\E a, b : AndThen(j, [Row(j) EXCEPT !.at = a, !.work = b])) \/ \E a : GoesTo(j, a)
    BY <1>7 DEF AdmitBatch
  <2> QED BY <2>1, <2>2, RowGoes, AnalysisGoes
<1>8. ASSUME NEW j \in HashJob, WriteHashStatus(j)
      PROVE  AnalysesFit'
  <2>1. hashJobs[j] # <<>> /\ UNCHANGED sources /\ GoesTo(j, "end")
    BY <1>8 DEF WriteHashStatus, JobAt
  <2>2. RowTyped(Row(j))
    BY <2>1, AnalysisRow
  <2>3. hashStatus' \in [HashRun -> HashStates]
    BY <1>8, <2>2 DEF WriteHashStatus, RowTyped, AnalysesFit
  <2>4. AndThen(j, [Row(j) EXCEPT !.at = "end"])
    BY <2>1, RowGoes
  <2>5. PICK row : AndThen(j, row) /\ RowTyped(row)
    BY <2>2, <2>4, RowChanged
  <2> QED BY <2>1, <2>3, <2>5, AnalysisReplaced DEF AndThen
<1> QED BY <1>1, <1>2, <1>3, <1>4, <1>5, <1>6, <1>7, <1>8 DEF HashNext

\* HashTypeOK of the analyses.
LEMMA AnalysesTyped ==
    ASSUME AnalysesFit
    PROVE  HashTypeOK
<1>1. \A j \in HashJob : hashJobs[j] # <<>> => RunOf(j) \in HashRun
  BY AnalysisRow DEF RunOf, RowTyped
<1> QED BY <1>1 DEF AnalysesFit, HashTypeOK, HashStates

\* Ordinal n of the index is a batch of run r with this source.
BatchIs(n, r, source) ==
    /\ index # <<>> /\ n \in DOMAIN index[1].batches
    /\ index[1].batches[n].run = r /\ index[1].batches[n].source = source

IndexTyped(base) ==
    DOMAIN base = {"batches", "cache", "totals"} /\ base.batches \in Seq([run : HashRun, source : Nat])

EvidenceFiles == {partialFile[r] : r \in HashRun} \union {evidenceFile[r] : r \in HashRun}

\* A file is of an analysis that has begun.
FileTyped(f) ==
    f = <<>> \/ \E file : /\ f = <<file>> /\ DOMAIN file = {"by", "source", "sealed"}
                          /\ file.by \in Nat /\ file.by <= analyses /\ file.source \in Nat

Opened == {"look", "ordinal", "last", "admit", "install", "report"}

\* What the row of an analysis says of the files, the index and the reports.
RowBacked(row) ==
    /\ row.number \in Nat \ {0} /\ row.number <= analyses
    /\ row.source \in Nat /\ row.taken \in Nat
    /\ row.status = "complete" \/ row.at \in {"status", "end"} => hashReport[row.run] # <<>>
    /\ \A f \in EvidenceFiles : f # <<>> /\ f[1].by = row.number =>
          row.at \notin {"resolve", "create"} /\ f[1].source = row.source
    /\ row.at = "open" => evidenceFile[row.run] # <<>>
    /\ row.at \in Opened => row.taken = row.source \/ row.run \in mixed
    /\ row.at \in {"look", "ordinal", "last", "admit"} =>
          IF row.fresh THEN row.work = <<Empty>> ELSE index # <<>>
    /\ row.at = "install" =>
          \E base : /\ row.work = <<base>> /\ IndexTyped(base) /\ row.ordinal \in DOMAIN base.batches
                    /\ base.batches[row.ordinal] = [run |-> row.run, source |-> row.taken]
    /\ row.at = "report" => overwritten \/ BatchIs(row.ordinal, row.run, row.taken)

\* What a report says is in the index.
Backed(r, ordinal, source) ==
    \/ overwritten
    \/ \E taken : BatchIs(ordinal, r, taken) /\ (taken = source \/ r \in mixed)

FilesAre ==
    /\ analyses \in Nat /\ overwritten \in BOOLEAN
    /\ DOMAIN partialFile = HashRun /\ DOMAIN evidenceFile = HashRun /\ DOMAIN hashReport = HashRun
    /\ \A r \in HashRun : FileTyped(partialFile[r]) /\ FileTyped(evidenceFile[r])
    /\ index = <<>> \/ \E base : index = <<base>> /\ IndexTyped(base)

ReportsStand ==
    \A r \in HashRun :
        /\ hashStatus[r] = "complete" => hashReport[r] # <<>>
        /\ \/ hashReport[r] = <<>>
           \/ \E source, ordinal : /\ hashReport[r] = <<[source |-> source, ordinal |-> ordinal]>>
                                   /\ Backed(r, ordinal, source)

RowsStand ==
    /\ \A j \in HashJob : hashJobs[j] # <<>> => RowBacked(Row(j))
    /\ \A j, k \in HashJob :
          hashJobs[j] # <<>> /\ hashJobs[k] # <<>> /\ j # k => Row(j).number # Row(k).number

EvidenceInv == AnalysesFit /\ FilesAre /\ ReportsStand /\ RowsStand

\* Nothing that a row relies on is taken back.
IndexGrows ==
    /\ index # <<>> => index' # <<>>
    /\ \/ index = <<>> \/ overwritten'
       \/ \A n \in DOMAIN index[1].batches :
             n \in DOMAIN index'[1].batches /\ index'[1].batches[n] = index[1].batches[n]

EvidenceGrows ==
    /\ analyses' \in Nat /\ analyses <= analyses' /\ mixed \subseteq mixed'
    /\ overwritten => overwritten'
    /\ \A r \in HashRun : /\ hashReport[r] # <<>> => hashReport'[r] # <<>>
                          /\ evidenceFile[r] # <<>> => evidenceFile'[r] # <<>>
    /\ IndexGrows

\* Every file there is was there before, but for its seal, or is of analysis n.
FilesComeFrom(n, source) ==
    \A f \in EvidenceFiles' : f # <<>> =>
        \/ \E g \in EvidenceFiles : g # <<>> /\ g[1].by = f[1].by /\ g[1].source = f[1].source
        \/ f[1].by = n /\ f[1].source = source

LEMMA BatchStays ==
    ASSUME IndexGrows, NEW n, NEW r, NEW source, BatchIs(n, r, source)
    PROVE  overwritten' \/ BatchIs(n, r, source)'
<1>1. PICK old, new : old = index /\ new = index'
  OBVIOUS
<1> QED BY <1>1 DEF IndexGrows, BatchIs

LEMMA StaysBacked ==
    ASSUME EvidenceGrows, NEW r, NEW ordinal, NEW source, Backed(r, ordinal, source)
    PROVE  Backed(r, ordinal, source)'
<1>1. CASE overwritten
  BY <1>1 DEF EvidenceGrows, Backed
<1>2. ASSUME NEW taken, BatchIs(ordinal, r, taken), taken = source \/ r \in mixed
      PROVE  Backed(r, ordinal, source)'
  BY <1>2, BatchStays DEF EvidenceGrows, Backed
<1> QED BY <1>1, <1>2 DEF Backed

\* The row of an analysis that the step is not of.
LEMMA RowStays ==
    ASSUME EvidenceGrows, FilesAre, NEW n, NEW source, FilesComeFrom(n, source), NEW row, RowTyped(row),
           RowBacked(row), row.number # n
    PROVE  RowBacked(row)'
<1>1. /\ row.number \in Nat \ {0} /\ row.number <= analyses'
      /\ row.source \in Nat /\ row.taken \in Nat
  BY DEF RowBacked, EvidenceGrows, FilesAre
<1>2. row.status = "complete" \/ row.at \in {"status", "end"} => hashReport'[row.run] # <<>>
  BY DEF RowBacked, EvidenceGrows, RowTyped
<1>3. \A f \in EvidenceFiles' : f # <<>> /\ f[1].by = row.number =>
          row.at \notin {"resolve", "create"} /\ f[1].source = row.source
  BY DEF RowBacked, FilesComeFrom
<1>4. /\ row.at \in Opened => row.taken = row.source \/ row.run \in mixed'
      /\ row.at = "open" => evidenceFile'[row.run] # <<>>
  BY DEF RowBacked, EvidenceGrows, RowTyped
<1>5. row.at \in {"look", "ordinal", "last", "admit"} =>
          IF row.fresh THEN row.work = <<Empty>> ELSE index' # <<>>
  BY DEF RowBacked, EvidenceGrows, IndexGrows
<1>6. row.at = "install" =>
          \E base : /\ row.work = <<base>> /\ IndexTyped(base) /\ row.ordinal \in DOMAIN base.batches
                    /\ base.batches[row.ordinal] = [run |-> row.run, source |-> row.taken]
  BY DEF RowBacked
<1>7. row.at = "report" => overwritten' \/ BatchIs(row.ordinal, row.run, row.taken)'
  BY BatchStays DEF RowBacked, EvidenceGrows
<1> QED BY <1>1, <1>2, <1>3, <1>4, <1>5, <1>6, <1>7 DEF RowBacked

\* The reports that a step does not write.
LEMMA ReportsStayBacked ==
    ASSUME EvidenceGrows, ReportsStand, UNCHANGED hashReport,
           \A r \in HashRun : hashStatus'[r] = "complete" =>
              hashStatus[r] = "complete" \/ hashReport[r] # <<>>
    PROVE  ReportsStand'
<1> SUFFICES ASSUME NEW r \in HashRun
             PROVE  /\ hashStatus'[r] = "complete" => hashReport'[r] # <<>>
                    /\ \/ hashReport'[r] = <<>>
                       \/ \E source, ordinal :
                             /\ hashReport'[r] = <<[source |-> source, ordinal |-> ordinal]>>
                             /\ Backed(r, ordinal, source)'
  BY DEF ReportsStand
<1>1. hashStatus'[r] = "complete" => hashReport'[r] # <<>>
  BY DEF ReportsStand
<1>2. CASE hashReport[r] = <<>>
  BY <1>1, <1>2
<1>3. CASE hashReport[r] # <<>>
  <2>1. PICK source, ordinal : /\ hashReport[r] = <<[source |-> source, ordinal |-> ordinal]>>
                               /\ Backed(r, ordinal, source)
    BY <1>3 DEF ReportsStand
  <2>2. Backed(r, ordinal, source)'
    BY <2>1, StaysBacked
  <2>3. hashReport'[r] = <<[source |-> source, ordinal |-> ordinal]>>
    BY <2>1
  <2> QED BY <1>1, <2>2, <2>3
<1> QED BY <1>2, <1>3

\* The step of analysis j, whose next row is `row`, or none.
LEMMA RowsFollow ==
    ASSUME EvidenceInv, EvidenceGrows, NEW j \in HashJob, NEW source,
           NEW n, FilesComeFrom(n, source),
           \A k \in HashJob : k # j /\ hashJobs[k] # <<>> => Row(k).number # n,
           NEW x, hashJobs' = [hashJobs EXCEPT ![j] = x],
           x # <<>> => \E row : x = <<row>> /\ row.number = n /\ RowBacked(row)'
    PROVE  RowsStand'
<1>1. \A k \in HashJob : hashJobs'[k] = IF k = j THEN x ELSE hashJobs[k]
  BY DEF EvidenceInv, AnalysesFit
<1>2. ASSUME NEW k \in HashJob, k # j, hashJobs[k] # <<>>
      PROVE  /\ hashJobs'[k] # <<>> /\ Row(k)' = Row(k) /\ RowBacked(Row(k))' /\ Row(k)'.number # n
  <2>1. PICK row : row = Row(k) /\ RowTyped(row)
    BY <1>2, AnalysisRow DEF EvidenceInv
  <2>2. RowBacked(row) /\ row.number # n
    BY <1>2, <2>1 DEF EvidenceInv, RowsStand
  <2>3. RowBacked(row)'
    BY <2>1, <2>2, RowStays DEF EvidenceInv
  <2>4. Row(k)' = row /\ hashJobs'[k] # <<>>
    BY <1>1, <1>2, <2>1 DEF Row
  <2>5. RowBacked(Row(k))'
    BY <2>3, <2>4
  <2> QED BY <2>1, <2>2, <2>4, <2>5
<1>3. ASSUME x # <<>>
      PROVE  Row(j)'.number = n /\ RowBacked(Row(j))'
  <2>1. PICK row : x = <<row>> /\ row.number = n /\ RowBacked(row)'
    BY <1>3
  <2>2. Row(j)' = row
    BY <1>1, <2>1 DEF Row
  <2> QED BY <2>1, <2>2
<1>4. \A k \in HashJob : hashJobs'[k] # <<>> => RowBacked(Row(k))'
  BY <1>1, <1>2, <1>3
<1>5. ASSUME NEW k \in HashJob, NEW l \in HashJob, hashJobs'[k] # <<>>, hashJobs'[l] # <<>>, k # l
      PROVE  Row(k)'.number # Row(l)'.number
  <2>1. CASE k # j /\ l # j
    <3>1. Row(k)' = Row(k) /\ Row(l)' = Row(l) /\ hashJobs[k] # <<>> /\ hashJobs[l] # <<>>
      BY <1>1, <1>2, <1>5, <2>1
    <3> QED BY <1>5, <3>1 DEF EvidenceInv, RowsStand
  <2>2. CASE k = j
    BY <1>1, <1>2, <1>3, <1>5, <2>2
  <2>3. CASE l = j
    BY <1>1, <1>2, <1>3, <1>5, <2>3
  <2> QED BY <2>1, <2>2, <2>3
<1> QED BY <1>4, <1>5 DEF RowsStand

\* The number of an analysis is nobody else's.
LEMMA NumberOwn ==
    ASSUME EvidenceInv, NEW j \in HashJob, hashJobs[j] # <<>>, NEW n, n = Row(j).number
    PROVE  \A k \in HashJob : k # j /\ hashJobs[k] # <<>> => Row(k).number # n
  BY DEF EvidenceInv, RowsStand

\* A step that writes no file, no report and no index.
LEMMA NothingWritten ==
    ASSUME EvidenceInv, UNCHANGED <<Files, index, hashReport, overwritten>>,
           analyses' \in Nat, analyses <= analyses', mixed \subseteq mixed'
    PROVE  /\ EvidenceGrows /\ FilesAre'
           /\ \A n, source : FilesComeFrom(n, source)
<1>1. EvidenceGrows
  BY DEF EvidenceGrows, IndexGrows, EvidenceInv, Files
<1>2. \A r \in HashRun : FileTyped(partialFile[r])' /\ FileTyped(evidenceFile[r])'
  <2> SUFFICES ASSUME NEW r \in HashRun
               PROVE  FileTyped(partialFile[r])' /\ FileTyped(evidenceFile[r])'
    OBVIOUS
  <2>1. FileTyped(partialFile[r]) /\ FileTyped(evidenceFile[r]) /\ analyses \in Nat
    BY DEF EvidenceInv, FilesAre
  <2>2. partialFile'[r] = partialFile[r] /\ evidenceFile'[r] = evidenceFile[r]
    BY DEF Files
  <2> QED BY <2>1, <2>2 DEF FileTyped
<1>3. FilesAre'
  BY <1>2 DEF EvidenceInv, FilesAre, Files
<1>4. EvidenceFiles' = EvidenceFiles
  BY DEF EvidenceFiles, Files
<1> QED BY <1>1, <1>3, <1>4 DEF FilesComeFrom

\* Such a step of analysis j, after which it goes on as `x` says.
LEMMA RowOnly ==
    ASSUME EvidenceInv, AnalysesFit', NEW j \in HashJob, hashJobs[j] # <<>>,
           UNCHANGED <<Files, index, hashReport, overwritten, analyses>>, mixed \subseteq mixed',
           \A r \in HashRun : hashStatus'[r] = "complete" =>
              hashStatus[r] = "complete" \/ hashReport[r] # <<>>,
           NEW x, hashJobs' = [hashJobs EXCEPT ![j] = x],
           x # <<>> => \E row : x = <<row>> /\ row.number = Row(j).number /\ RowBacked(row)'
    PROVE  EvidenceInv'
<1>1. analyses' \in Nat /\ analyses <= analyses'
  BY DEF EvidenceInv, FilesAre
<1>2. EvidenceGrows /\ FilesAre' /\ \A n, source : FilesComeFrom(n, source)
  BY <1>1, NothingWritten
<1>3. ReportsStand'
  BY <1>2, ReportsStayBacked DEF EvidenceInv
<1>4. PICK n : n = Row(j).number
  OBVIOUS
<1>5. FilesComeFrom(n, 0) /\ (x # <<>> => \E row : x = <<row>> /\ row.number = n /\ RowBacked(row)')
  BY <1>2, <1>4
<1>6. \A k \in HashJob : k # j /\ hashJobs[k] # <<>> => Row(k).number # n
  BY <1>4, NumberOwn
<1>7. RowsStand'
  BY <1>2, <1>5, <1>6, RowsFollow
<1> QED BY <1>2, <1>3, <1>7 DEF EvidenceInv

LEMMA EndKeeps ==
    ASSUME EvidenceInv, AnalysesFit', NEW j \in HashJob, hashJobs[j] # <<>>, NEW ended,
           EndAnalyse(j, ended), ended = "complete" => hashReport[RunOf(j)] # <<>>
    PROVE  EvidenceInv'
<1>1. /\ UNCHANGED <<Files, index, hashReport, overwritten, analyses, mixed>>
      /\ hashJobs' = [hashJobs EXCEPT ![j] = <<>>]
  BY DEF EndAnalyse, History
<1>2. \A r \in HashRun : hashStatus'[r] = "complete" =>
              hashStatus[r] = "complete" \/ hashReport[r] # <<>>
  BY DEF EndAnalyse, EvidenceInv, AnalysesFit
<1> QED BY <1>1, <1>2, RowOnly

\* A step of the analysis that only reads and goes on.
LEMMA ReadsKeep ==
    ASSUME EvidenceInv, AnalysesFit', NEW j \in HashJob, hashJobs[j] # <<>>,
           UNCHANGED <<Files, index, hashReport, overwritten, analyses>>, mixed \subseteq mixed',
           UNCHANGED hashStatus, NEW row, AndThen(j, row), row.number = Row(j).number,
           RowBacked(row)'
    PROVE  EvidenceInv'
<1>1. PICK x : x = <<row>>
  OBVIOUS
<1>2. hashJobs' = [hashJobs EXCEPT ![j] = x]
  BY <1>1 DEF AndThen
<1> QED BY <1>1, <1>2, RowOnly

LEMMA BeginKeeps ==
    ASSUME EvidenceInv, AnalysesFit', NEW j \in HashJob, NEW r \in HashRun, BeginAnalyse(j, r)
    PROVE  EvidenceInv'
<1>1. /\ UNCHANGED <<Files, index, hashReport, overwritten, mixed>>
      /\ analyses' = analyses + 1 /\ hashJobs[j] = <<>>
  BY DEF BeginAnalyse, History
<1>2. analyses \in Nat /\ analyses' \in Nat /\ analyses <= analyses' /\ analyses' > analyses
  BY <1>1 DEF EvidenceInv, FilesAre
<1>3. EvidenceGrows /\ FilesAre' /\ \A n, source : FilesComeFrom(n, source)
  BY <1>1, <1>2, NothingWritten
<1>4. \A q \in HashRun : hashStatus'[q] = "complete" => hashStatus[q] = "complete"
  BY DEF BeginAnalyse, EvidenceInv, AnalysesFit
<1>5. ReportsStand'
  BY <1>1, <1>3, <1>4, ReportsStayBacked DEF EvidenceInv
<1>6. PICK row, n : /\ n = analyses'
                    /\ row = [run |-> r, number |-> n, at |-> "resolve",
                         status |-> hashStatus'[r], source |-> 0, taken |-> 0, fresh |-> FALSE,
                         work |-> <<>>, ordinal |-> 0, last |-> Empty.totals]
                    /\ AndThen(j, row)
  BY DEF BeginAnalyse
<1>7. \A f \in EvidenceFiles : f # <<>> => f[1].by # n
  <2> SUFFICES ASSUME NEW f \in EvidenceFiles, f # <<>>
               PROVE  f[1].by # n
    OBVIOUS
  <2>1. FileTyped(f)
    BY DEF EvidenceFiles, EvidenceInv, FilesAre
  <2>2. PICK file : f = <<file>> /\ file.by \in Nat /\ file.by <= analyses
    BY <2>1 DEF FileTyped
  <2> QED BY <1>2, <1>6, <2>2
<1>8. EvidenceFiles' = EvidenceFiles
  BY <1>1 DEF EvidenceFiles, Files
<1>9. RowBacked(row)'
  <2>1. row.status = "complete" => hashReport'[row.run] # <<>>
    BY <1>1, <1>4, <1>6 DEF EvidenceInv, ReportsStand
  <2>2. /\ row.number = n /\ row.source = 0 /\ row.taken = 0 /\ row.at = "resolve"
    BY <1>6
  <2>3. row.number \in Nat \ {0} /\ row.number <= analyses'
    BY <1>1, <1>2, <1>6, <2>2
  <2>4. \A f \in EvidenceFiles' : f # <<>> => f[1].by # row.number
    BY <1>7, <1>8, <2>2
  <2> QED BY <2>1, <2>2, <2>3, <2>4 DEF RowBacked, Opened
<1>10. \A k \in HashJob : k # j /\ hashJobs[k] # <<>> => Row(k).number # n
  <2> SUFFICES ASSUME NEW k \in HashJob, hashJobs[k] # <<>>
               PROVE  Row(k).number # n
    OBVIOUS
  <2>1. Row(k).number \in Nat /\ Row(k).number <= analyses
    BY DEF EvidenceInv, RowsStand, RowBacked
  <2> QED BY <1>2, <1>6, <2>1
<1>11. PICK x : x = <<row>>
  OBVIOUS
<1>12. hashJobs' = [hashJobs EXCEPT ![j] = x] /\ row.number = n
  BY <1>6, <1>11 DEF AndThen
<1>13. RowsStand'
  BY <1>3, <1>9, <1>10, <1>11, <1>12, RowsFollow
<1> QED BY <1>3, <1>5, <1>13 DEF EvidenceInv

LEMMA ResolveKeeps ==
    ASSUME EvidenceInv, EvidenceAssumption, AnalysesFit', NEW j \in HashJob, ResolveEvidence(j)
    PROVE  EvidenceInv'
<1>1. hashJobs[j] # <<>> /\ Row(j).at = "resolve"
  BY DEF ResolveEvidence, JobAt, Row
<1>2. CASE hashReport[RunOf(j)] # <<>> /\ EndAnalyse(j, "complete")
  BY <1>1, <1>2, EndKeeps
<1>3. CASE /\ AndThen(j, [Row(j) EXCEPT !.at = "create", !.source = sources[RunOf(j)]])
           /\ UNCHANGED <<hashStatus, Files, index, hashReport, overwritten, analyses, mixed>>
  <2>1. PICK old : old = Row(j) /\ RowTyped(old) /\ RowBacked(old)
    BY <1>1, AnalysisRow DEF EvidenceInv, RowsStand
  <2>2. PICK row : row = [old EXCEPT !.at = "create", !.source = sources[RunOf(j)]]
    OBVIOUS
  <2>3. /\ row.number = old.number /\ row.run = old.run /\ row.status = old.status
        /\ row.taken = old.taken /\ row.at = "create" /\ row.source \in Nat
    <3>1. sources[RunOf(j)] \in Nat
      BY <2>1, EvidenceAssumption DEF EvidenceInv, AnalysesFit, RunOf, RowTyped
    <3> QED BY <2>1, <2>2, <3>1 DEF RowTyped, RowFields
  <2>4. EvidenceFiles' = EvidenceFiles
    BY <1>3 DEF EvidenceFiles, Files
  <2>5. \A f \in EvidenceFiles : f # <<>> => f[1].by # old.number
    BY <1>1, <2>1 DEF RowBacked
  <2>6. RowBacked(row)'
    BY <1>3, <2>1, <2>3, <2>4, <2>5 DEF RowBacked, Opened
  <2> QED BY <1>1, <1>3, <2>1, <2>2, <2>3, <2>6, ReadsKeep
<1> QED BY <1>2, <1>3 DEF ResolveEvidence, History

\* An index with one more batch.
LEMMA OneMoreBatch ==
    ASSUME NEW base, IndexTyped(base), NEW r \in HashRun, NEW source \in Nat, NEW last,
           NEW new, new = WithBatch(base, r, source, last), NEW n, n = Len(base.batches) + 1
    PROVE  /\ IndexTyped(new) /\ n \in DOMAIN new.batches
           /\ new.batches[n] = [run |-> r, source |-> source]
           /\ \A i \in DOMAIN base.batches :
                 i \in DOMAIN new.batches /\ new.batches[i] = base.batches[i]
<1>1. PICK b : b = [run |-> r, source |-> source]
  OBVIOUS
<1>2. b \in [run : HashRun, source : Nat]
  BY <1>1
<1>3. new.batches = Append(base.batches, b) /\ DOMAIN new = {"batches", "cache", "totals"}
  BY <1>1 DEF WithBatch
<1>4. base.batches \in Seq([run : HashRun, source : Nat])
  BY DEF IndexTyped
<1>5. PICK s : s = base.batches
  OBVIOUS
<1>6. Append(s, b) \in Seq([run : HashRun, source : Nat])
  BY <1>2, <1>4, <1>5
<1>7. /\ n \in DOMAIN Append(s, b) /\ Append(s, b)[n] = b
      /\ \A i \in DOMAIN s : i \in DOMAIN Append(s, b) /\ Append(s, b)[i] = s[i]
  BY <1>4, <1>5
<1> QED BY <1>1, <1>3, <1>5, <1>6, <1>7 DEF IndexTyped

\* The empty index.
LEMMA EmptyTyped == IndexTyped(Empty) /\ Empty.batches = <<>> /\ Len(Empty.batches) = 0
  BY DEF Empty, IndexTyped

\* The index that an analysis works on, before its batch is admitted.
LEMMA BaseTyped ==
    ASSUME EvidenceInv, NEW j \in HashJob, hashJobs[j] # <<>>,
           Row(j).at \in {"look", "ordinal", "last", "admit"}
    PROVE  /\ IndexTyped(Base(j))
           /\ IF Row(j).fresh THEN Base(j) = Empty ELSE index = <<Base(j)>>
<1>1. RowBacked(Row(j))
  BY DEF EvidenceInv, RowsStand
<1>2. CASE Row(j).fresh
  <2>1. Row(j).work = <<Empty>>
    BY <1>1, <1>2 DEF RowBacked
  <2>2. Base(j) = Empty
    BY <1>2, <2>1 DEF Base
  <2> QED BY <1>2, <2>2, EmptyTyped
<1>3. CASE ~Row(j).fresh
  <2>1. index # <<>>
    BY <1>1, <1>3 DEF RowBacked
  <2>2. PICK base : index = <<base>> /\ IndexTyped(base)
    BY <2>1 DEF EvidenceInv, FilesAre
  <2>3. Base(j) = base
    BY <1>3, <2>2 DEF Base
  <2> QED BY <1>3, <2>2, <2>3
<1> QED BY <1>2, <1>3

LEMMA OpenKeeps ==
    ASSUME EvidenceInv, AnalysesFit', NEW j \in HashJob, OpenIndex(j)
    PROVE  EvidenceInv'
<1>1. hashJobs[j] # <<>> /\ Row(j).at = "open"
  BY DEF OpenIndex, JobAt, Row
<1>2. PICK old : old = Row(j) /\ RowTyped(old) /\ RowBacked(old)
  BY <1>1, AnalysisRow DEF EvidenceInv, RowsStand
<1>3. evidenceFile[old.run] # <<>> /\ FileTyped(evidenceFile[old.run])
  BY <1>1, <1>2 DEF RowBacked, RowTyped, EvidenceInv, FilesAre
<1>4. PICK file : evidenceFile[old.run] = <<file>> /\ file.by \in Nat /\ file.source \in Nat
  BY <1>3 DEF FileTyped
<1>5. PICK fresh, row : /\ fresh = (index = <<>>)
                        /\ row = [old EXCEPT !.at = "look", !.fresh = fresh, !.work = <<Empty>>,
                                             !.taken = file.source]
  OBVIOUS
<1>6. /\ UNCHANGED <<Files, index, hashReport, overwritten, analyses, hashStatus>>
      /\ mixed' = IF file.by = old.number THEN mixed ELSE mixed \union {old.run}
      /\ AndThen(j, [Row(j) EXCEPT !.at = "look", !.fresh = index = <<>>, !.work = <<Empty>>,
                                   !.taken = file.source])
  BY <1>2, <1>4 DEF OpenIndex, RunOf
<1>7. AndThen(j, row)
  BY <1>2, <1>5, <1>6
<1>8. /\ row.number = old.number /\ row.run = old.run /\ row.status = old.status /\ row.at = "look"
      /\ row.source = old.source /\ row.taken = file.source /\ row.work = <<Empty>>
      /\ row.fresh = fresh
  BY <1>2, <1>5 DEF RowTyped, RowFields
<1>9. EvidenceFiles' = EvidenceFiles
  BY <1>6 DEF EvidenceFiles, Files
<1>10. file.source = old.source \/ old.run \in mixed'
  <2>1. evidenceFile[old.run] \in EvidenceFiles
    BY <1>2 DEF EvidenceFiles, RowTyped
  <2>2. file.by = old.number => file.source = old.source
    BY <1>2, <1>4, <2>1 DEF RowBacked
  <2> QED BY <1>6, <2>2
<1>11. \A f \in EvidenceFiles : f # <<>> /\ f[1].by = old.number => f[1].source = old.source
  BY <1>2 DEF RowBacked
<1>12. row.fresh \/ index' # <<>>
  BY <1>5, <1>6, <1>8
<1>13. RowBacked(row)'
  BY <1>2, <1>4, <1>6, <1>8, <1>9, <1>10, <1>11, <1>12 DEF RowBacked, Opened
<1>14. mixed \subseteq mixed'
  BY <1>6
<1> QED BY <1>1, <1>2, <1>6, <1>7, <1>8, <1>13, <1>14, ReadsKeep

LEMMA LookKeeps ==
    ASSUME EvidenceInv, AnalysesFit', NEW j \in HashJob, LookForBatch(j)
    PROVE  EvidenceInv'
<1>1. hashJobs[j] # <<>> /\ Row(j).at = "look"
  BY DEF LookForBatch, JobAt, Row
<1>2. PICK old : old = Row(j) /\ RowTyped(old) /\ RowBacked(old)
  BY <1>1, AnalysisRow DEF EvidenceInv, RowsStand
<1>3. UNCHANGED <<Files, index, hashReport, overwritten, analyses, hashStatus, mixed>>
  BY DEF LookForBatch, History
<1>4. EvidenceFiles' = EvidenceFiles
  BY <1>3 DEF EvidenceFiles, Files
<1>5. CASE GoesTo(j, "ordinal")
  <2>1. PICK row : row = [old EXCEPT !.at = "ordinal"]
    OBVIOUS
  <2>2. AndThen(j, row)
    BY <1>1, <1>2, <1>5, <2>1, RowGoes DEF EvidenceInv
  <2>3. /\ row.number = old.number /\ row.run = old.run /\ row.status = old.status
        /\ row.at = "ordinal" /\ row.source = old.source /\ row.taken = old.taken
        /\ row.work = old.work /\ row.fresh = old.fresh
    BY <1>2, <2>1 DEF RowTyped, RowFields
  <2>4. RowBacked(row)'
    BY <1>1, <1>2, <1>3, <1>4, <2>3 DEF RowBacked, Opened
  <2> QED BY <1>1, <1>2, <1>3, <2>2, <2>3, <2>4, ReadsKeep
<1>6. ASSUME NEW n, n \in Known(Base(j), RunOf(j), Row(j).taken),
             AndThen(j, [Row(j) EXCEPT !.at = "report", !.ordinal = n])
      PROVE  EvidenceInv'
  <2>1. PICK base : base = Base(j)
    OBVIOUS
  <2>2. n \in DOMAIN base.batches /\ base.batches[n] = [run |-> old.run, source |-> old.taken]
    BY <1>2, <1>6, <2>1 DEF Known, RunOf
  <2>3. index = <<base>>
    <3>1. ~(base = Empty)
      BY <2>2, EmptyTyped
    <3> QED BY <1>1, <2>1, <3>1, BaseTyped
  <2>4. BatchIs(n, old.run, old.taken)
    BY <2>2, <2>3 DEF BatchIs
  <2>5. PICK row : row = [old EXCEPT !.at = "report", !.ordinal = n]
    OBVIOUS
  <2>6. /\ row.number = old.number /\ row.run = old.run /\ row.status = old.status
        /\ row.at = "report" /\ row.source = old.source /\ row.taken = old.taken
        /\ row.ordinal = n
    BY <1>2, <2>5 DEF RowTyped, RowFields
  <2>7. BatchIs(row.ordinal, row.run, row.taken)'
    BY <1>3, <2>4, <2>6 DEF BatchIs
  <2>8. RowBacked(row)'
    BY <1>1, <1>2, <1>3, <1>4, <2>6, <2>7 DEF RowBacked, Opened
  <2> QED BY <1>1, <1>2, <1>3, <1>6, <2>5, <2>6, <2>8, ReadsKeep
<1> QED BY <1>5, <1>6 DEF LookForBatch

LEMMA OrdinalKeeps ==
    ASSUME EvidenceInv, AnalysesFit', NEW j \in HashJob, ReadOrdinal(j) \/ ReadLast(j)
    PROVE  EvidenceInv'
<1>1. hashJobs[j] # <<>> /\ Row(j).at \in {"ordinal", "last"}
  BY DEF ReadOrdinal, ReadLast, JobAt, Row
<1>2. PICK old : old = Row(j) /\ RowTyped(old) /\ RowBacked(old)
  BY <1>1, AnalysisRow DEF EvidenceInv, RowsStand
<1>3. UNCHANGED <<Files, index, hashReport, overwritten, analyses, hashStatus, mixed>>
  BY DEF ReadOrdinal, ReadLast, History
<1>4. EvidenceFiles' = EvidenceFiles
  BY <1>3 DEF EvidenceFiles, Files
<1>5. PICK row : /\ \/ \E n : row = [old EXCEPT !.at = "last", !.ordinal = n]
                    \/ \E n : row = [old EXCEPT !.at = "admit", !.last = n]
                 /\ AndThen(j, row)
  BY <1>2 DEF ReadOrdinal, ReadLast
<1>6. /\ row.number = old.number /\ row.run = old.run /\ row.status = old.status
      /\ row.at \in {"last", "admit"} /\ row.source = old.source /\ row.taken = old.taken
      /\ row.work = old.work /\ row.fresh = old.fresh
  BY <1>2, <1>5 DEF RowTyped, RowFields
<1>7. RowBacked(row)'
  BY <1>1, <1>2, <1>3, <1>4, <1>6 DEF RowBacked, Opened
<1> QED BY <1>1, <1>2, <1>3, <1>5, <1>6, <1>7, ReadsKeep

\* The admission of a batch in the index.
LEMMA AdmitKeeps ==
    ASSUME EvidenceInv, AnalysesFit', NEW j \in HashJob, AdmitBatch(j)
    PROVE  EvidenceInv'
<1>1. hashJobs[j] # <<>> /\ Row(j).at = "admit"
  BY DEF AdmitBatch, JobAt, Row
<1>2. PICK old, base : /\ old = Row(j) /\ RowTyped(old) /\ RowBacked(old)
                       /\ base = Base(j) /\ IndexTyped(base)
                       /\ IF old.fresh THEN base = Empty ELSE index = <<base>>
  BY <1>1, AnalysisRow, BaseTyped DEF EvidenceInv, RowsStand
<1>3. PICK admitted : admitted = WithBatch(base, old.run, old.taken, old.last)
  OBVIOUS
<1>4. UNCHANGED <<Files, hashReport, overwritten, analyses, hashStatus, mixed>>
  BY DEF AdmitBatch, History
<1>5. EvidenceFiles' = EvidenceFiles
  BY <1>4 DEF EvidenceFiles, Files
<1>6. old.ordinal = Len(base.batches) + 1
  BY <1>2 DEF AdmitBatch, Admits, OrdinalFree
<1>7. /\ IndexTyped(admitted) /\ old.ordinal \in DOMAIN admitted.batches
      /\ admitted.batches[old.ordinal] = [run |-> old.run, source |-> old.taken]
      /\ \A i \in DOMAIN base.batches :
            i \in DOMAIN admitted.batches /\ admitted.batches[i] = base.batches[i]
  <2>1. old.run \in HashRun /\ old.taken \in Nat
    BY <1>2 DEF RowTyped, RowBacked
  <2> QED BY <1>2, <1>3, <1>6, <2>1, OneMoreBatch
<1>8. CASE old.fresh
  <2>1. PICK row : row = [old EXCEPT !.at = "install", !.work = <<admitted>>]
    OBVIOUS
  <2>2. AndThen(j, row) /\ UNCHANGED index
    BY <1>2, <1>3, <1>8, <2>1 DEF AdmitBatch, RunOf
  <2>3. /\ row.number = old.number /\ row.run = old.run /\ row.status = old.status
        /\ row.at = "install" /\ row.source = old.source /\ row.taken = old.taken
        /\ row.ordinal = old.ordinal /\ row.work = <<admitted>>
    BY <1>2, <2>1 DEF RowTyped, RowFields
  <2>4. RowBacked(row)'
    BY <1>1, <1>2, <1>4, <1>5, <1>7, <2>2, <2>3 DEF RowBacked, Opened
  <2> QED BY <1>1, <1>2, <1>4, <2>2, <2>3, <2>4, ReadsKeep
<1>9. CASE ~old.fresh
  <2>1. index = <<base>> /\ index' = <<admitted>> /\ GoesTo(j, "report")
    BY <1>2, <1>3, <1>9 DEF AdmitBatch, RunOf
  <2>2. PICK row : row = [old EXCEPT !.at = "report"]
    OBVIOUS
  <2>3. AndThen(j, row)
    BY <1>1, <1>2, <2>1, <2>2, RowGoes DEF EvidenceInv
  <2>4. /\ row.number = old.number /\ row.run = old.run /\ row.status = old.status
        /\ row.at = "report" /\ row.source = old.source /\ row.taken = old.taken
        /\ row.ordinal = old.ordinal
    BY <1>2, <2>2 DEF RowTyped, RowFields
  <2>5. IndexGrows
    BY <1>7, <2>1 DEF IndexGrows
  <2>6. EvidenceGrows
    BY <1>4, <2>5 DEF EvidenceGrows, EvidenceInv, FilesAre, Files
  <2>7. FilesAre'
    <3>1. \A r \in HashRun : FileTyped(partialFile[r])' /\ FileTyped(evidenceFile[r])'
      BY <1>4 DEF EvidenceInv, FilesAre, FileTyped, Files
    <3>2. \E b : index' = <<b>> /\ IndexTyped(b)
      BY <1>7, <2>1
    <3> QED BY <1>4, <3>1, <3>2 DEF EvidenceInv, FilesAre, Files
  <2>8. \A n, source : FilesComeFrom(n, source)
    BY <1>5 DEF FilesComeFrom
  <2>9. ReportsStand'
    BY <1>4, <2>6, ReportsStayBacked DEF EvidenceInv
  <2>10. BatchIs(row.ordinal, row.run, row.taken)'
    BY <1>7, <2>1, <2>4 DEF BatchIs
  <2>11. RowBacked(row)'
    BY <1>1, <1>2, <1>4, <1>5, <2>4, <2>10 DEF RowBacked, Opened
  <2>12. PICK x, n : x = <<row>> /\ n = Row(j).number
    OBVIOUS
  <2>13. hashJobs' = [hashJobs EXCEPT ![j] = x] /\ row.number = n
    BY <1>2, <2>3, <2>4, <2>12 DEF AndThen
  <2>14. \A k \in HashJob : k # j /\ hashJobs[k] # <<>> => Row(k).number # n
    BY <1>1, <2>12, NumberOwn
  <2>15. RowsStand'
    BY <2>6, <2>8, <2>11, <2>12, <2>13, <2>14, RowsFollow
  <2> QED BY <2>7, <2>9, <2>15 DEF EvidenceInv
<1> QED BY <1>8, <1>9

\* The first index is installed.
LEMMA InstallKeeps ==
    ASSUME EvidenceInv, AnalysesFit', NEW j \in HashJob, InstallIndex(j)
    PROVE  EvidenceInv'
<1>1. hashJobs[j] # <<>> /\ Row(j).at = "install"
  BY DEF InstallIndex, JobAt, Row
<1>2. PICK old : old = Row(j) /\ RowTyped(old) /\ RowBacked(old)
  BY <1>1, AnalysisRow DEF EvidenceInv, RowsStand
<1>3. PICK base : /\ old.work = <<base>> /\ IndexTyped(base) /\ old.ordinal \in DOMAIN base.batches
                  /\ base.batches[old.ordinal] = [run |-> old.run, source |-> old.taken]
  BY <1>1, <1>2 DEF RowBacked
<1>4. /\ UNCHANGED <<Files, hashReport, analyses, hashStatus, mixed>>
      /\ index' = <<base>> /\ overwritten' = (overwritten \/ index # <<>>)
      /\ GoesTo(j, "report")
  BY <1>2, <1>3 DEF InstallIndex
<1>5. EvidenceFiles' = EvidenceFiles
  BY <1>4 DEF EvidenceFiles, Files
<1>6. EvidenceGrows
  <2>1. IndexGrows
    BY <1>4 DEF IndexGrows
  <2> QED BY <1>4, <2>1 DEF EvidenceGrows, EvidenceInv, FilesAre, Files
<1>7. FilesAre'
  <2>1. \A r \in HashRun : FileTyped(partialFile[r])' /\ FileTyped(evidenceFile[r])'
    BY <1>4 DEF EvidenceInv, FilesAre, FileTyped, Files
  <2>2. overwritten' \in BOOLEAN
    BY <1>4 DEF EvidenceInv, FilesAre
  <2> QED BY <1>3, <1>4, <2>1, <2>2 DEF EvidenceInv, FilesAre, Files
<1>8. \A n, source : FilesComeFrom(n, source)
  BY <1>5 DEF FilesComeFrom
<1>9. ReportsStand'
  BY <1>4, <1>6, ReportsStayBacked DEF EvidenceInv
<1>10. PICK row : row = [old EXCEPT !.at = "report"]
  OBVIOUS
<1>11. AndThen(j, row)
  BY <1>1, <1>2, <1>4, <1>10, RowGoes DEF EvidenceInv
<1>12. /\ row.number = old.number /\ row.run = old.run /\ row.status = old.status
       /\ row.at = "report" /\ row.source = old.source /\ row.taken = old.taken
       /\ row.ordinal = old.ordinal
  BY <1>2, <1>10 DEF RowTyped, RowFields
<1>13. BatchIs(row.ordinal, row.run, row.taken)'
  BY <1>3, <1>4, <1>12 DEF BatchIs
<1>14. RowBacked(row)'
  BY <1>1, <1>2, <1>4, <1>5, <1>12, <1>13 DEF RowBacked, Opened
<1>15. PICK x, n : x = <<row>> /\ n = Row(j).number
  OBVIOUS
<1>16. hashJobs' = [hashJobs EXCEPT ![j] = x] /\ row.number = n
  BY <1>2, <1>11, <1>12, <1>15 DEF AndThen
<1>17. \A k \in HashJob : k # j /\ hashJobs[k] # <<>> => Row(k).number # n
  BY <1>1, <1>15, NumberOwn
<1>18. RowsStand'
  BY <1>6, <1>8, <1>14, <1>15, <1>16, <1>17, RowsFollow
<1> QED BY <1>7, <1>9, <1>18 DEF EvidenceInv

\* The report is written.
LEMMA ReportKeeps ==
    ASSUME EvidenceInv, AnalysesFit', NEW j \in HashJob, WriteHashReport(j)
    PROVE  EvidenceInv'
<1>1. hashJobs[j] # <<>> /\ Row(j).at = "report"
  BY DEF WriteHashReport, JobAt, Row
<1>2. PICK old : old = Row(j) /\ RowTyped(old) /\ RowBacked(old)
  BY <1>1, AnalysisRow DEF EvidenceInv, RowsStand
<1>3. PICK report : report = <<[source |-> old.source, ordinal |-> old.ordinal]>>
  OBVIOUS
<1>4. /\ UNCHANGED <<Files, analyses, hashStatus, index, overwritten, mixed>>
      /\ hashReport' = [hashReport EXCEPT ![old.run] = report] /\ GoesTo(j, "status")
  BY <1>2, <1>3 DEF WriteHashReport, History, RunOf
<1>5. EvidenceFiles' = EvidenceFiles
  BY <1>4 DEF EvidenceFiles, Files
<1>6. report # <<>> /\ DOMAIN hashReport = HashRun /\ old.run \in HashRun
  BY <1>2, <1>3 DEF EvidenceInv, FilesAre, RowTyped
<1>7. \A r \in HashRun : hashReport'[r] = IF r = old.run THEN report ELSE hashReport[r]
  BY <1>4, <1>6
<1>8. EvidenceGrows
  BY <1>4, <1>6, <1>7 DEF EvidenceGrows, IndexGrows, EvidenceInv, FilesAre, Files
<1>9. FilesAre'
  <2>1. \A r \in HashRun : FileTyped(partialFile[r])' /\ FileTyped(evidenceFile[r])'
    BY <1>4 DEF EvidenceInv, FilesAre, FileTyped, Files
  <2> QED BY <1>4, <2>1 DEF EvidenceInv, FilesAre, Files
<1>10. \A n, source : FilesComeFrom(n, source)
  BY <1>5 DEF FilesComeFrom
<1>11. Backed(old.run, old.ordinal, old.source)'
  <2>1. overwritten \/ BatchIs(old.ordinal, old.run, old.taken)
    BY <1>1, <1>2 DEF RowBacked
  <2>2. old.taken = old.source \/ old.run \in mixed
    BY <1>1, <1>2 DEF RowBacked, Opened
  <2>3. Backed(old.run, old.ordinal, old.source)
    BY <2>1, <2>2 DEF Backed
  <2> QED BY <1>8, <2>3, StaysBacked
<1>12. ReportsStand'
  <2> SUFFICES ASSUME NEW r \in HashRun
               PROVE  /\ hashStatus'[r] = "complete" => hashReport'[r] # <<>>
                      /\ \/ hashReport'[r] = <<>>
                         \/ \E source, ordinal :
                               /\ hashReport'[r] = <<[source |-> source, ordinal |-> ordinal]>>
                               /\ Backed(r, ordinal, source)'
    BY DEF ReportsStand
  <2>1. CASE r = old.run
    <3>1. hashReport'[r] = report
      BY <1>7, <2>1
    <3> QED BY <1>3, <1>6, <1>11, <2>1, <3>1
  <2>2. CASE r # old.run
    <3>1. hashReport'[r] = hashReport[r] /\ hashStatus'[r] = hashStatus[r]
      BY <1>4, <1>7, <2>2
    <3>2. CASE hashReport[r] = <<>>
      BY <3>1, <3>2 DEF EvidenceInv, ReportsStand
    <3>3. CASE hashReport[r] # <<>>
      <4>1. PICK source, ordinal : /\ hashReport[r] = <<[source |-> source, ordinal |-> ordinal]>>
                                   /\ Backed(r, ordinal, source)
        BY <3>3 DEF EvidenceInv, ReportsStand
      <4>2. Backed(r, ordinal, source)'
        BY <1>8, <4>1, StaysBacked
      <4> QED BY <3>1, <3>3, <4>1, <4>2
    <3> QED BY <3>2, <3>3
  <2> QED BY <2>1, <2>2
<1>13. PICK row : row = [old EXCEPT !.at = "status"]
  OBVIOUS
<1>14. AndThen(j, row)
  BY <1>1, <1>2, <1>4, <1>13, RowGoes DEF EvidenceInv
<1>15. /\ row.number = old.number /\ row.run = old.run /\ row.status = old.status
       /\ row.at = "status" /\ row.source = old.source /\ row.taken = old.taken
  BY <1>2, <1>13 DEF RowTyped, RowFields
<1>16. hashReport'[row.run] # <<>>
  BY <1>6, <1>7, <1>15
<1>17. RowBacked(row)'
  BY <1>1, <1>2, <1>4, <1>5, <1>15, <1>16 DEF RowBacked, Opened
<1>18. PICK x, n : x = <<row>> /\ n = Row(j).number
  OBVIOUS
<1>19. hashJobs' = [hashJobs EXCEPT ![j] = x] /\ row.number = n
  BY <1>2, <1>14, <1>15, <1>18 DEF AndThen
<1>20. \A k \in HashJob : k # j /\ hashJobs[k] # <<>> => Row(k).number # n
  BY <1>1, <1>18, NumberOwn
<1>21. RowsStand'
  BY <1>8, <1>10, <1>17, <1>18, <1>19, <1>20, RowsFollow
<1> QED BY <1>9, <1>12, <1>21 DEF EvidenceInv

\* A step that writes a file of the evidence, but neither a report nor the index.
LEMMA FileWritten ==
    ASSUME EvidenceInv, AnalysesFit', NEW j \in HashJob, hashJobs[j] # <<>>,
           UNCHANGED <<hashReport, analyses, hashStatus, index, overwritten, mixed>>,
           NEW where \in {"classify", "rename", "open"}, GoesTo(j, where),
           DOMAIN partialFile' = HashRun, DOMAIN evidenceFile' = HashRun,
           \A r \in HashRun : FileTyped(partialFile'[r]) /\ FileTyped(evidenceFile'[r]),
           \A r \in HashRun : evidenceFile[r] # <<>> => evidenceFile'[r] # <<>>,
           where = "open" => evidenceFile'[RunOf(j)] # <<>>,
           FilesComeFrom(Row(j).number, Row(j).source)
    PROVE  EvidenceInv'
<1>1. PICK old : old = Row(j) /\ RowTyped(old) /\ RowBacked(old)
  BY AnalysisRow DEF EvidenceInv, RowsStand
<1>2. EvidenceGrows
  BY DEF EvidenceGrows, IndexGrows, EvidenceInv, FilesAre
<1>3. \A f : FileTyped(f) => FileTyped(f)'
  BY DEF FileTyped
<1>4. FilesAre'
  <2>1. \A r \in HashRun : FileTyped(partialFile[r])' /\ FileTyped(evidenceFile[r])'
    BY DEF FileTyped
  <2> QED BY <2>1 DEF EvidenceInv, FilesAre
<1>5. ReportsStand'
  BY <1>2, ReportsStayBacked DEF EvidenceInv
<1>6. PICK row : row = [old EXCEPT !.at = where]
  OBVIOUS
<1>7. AndThen(j, row)
  BY <1>1, <1>6, RowGoes DEF EvidenceInv
<1>8. /\ row.number = old.number /\ row.run = old.run /\ row.status = old.status
      /\ row.at = where /\ row.source = old.source /\ row.taken = old.taken
  BY <1>1, <1>6 DEF RowTyped, RowFields
<1>9. \A f \in EvidenceFiles' : f # <<>> /\ f[1].by = row.number => f[1].source = row.source
  BY <1>1, <1>8 DEF FilesComeFrom, RowBacked
<1>10. row.at = "open" => evidenceFile'[row.run] # <<>>
  BY <1>1, <1>8 DEF RunOf
<1>11. /\ row.number \in Nat \ {0} /\ row.number <= analyses' /\ row.source \in Nat
       /\ row.taken \in Nat
       /\ row.status = "complete" => hashReport'[row.run] # <<>>
  BY <1>1, <1>8 DEF RowBacked
<1>12. row.at \in {"classify", "rename", "open"}
  BY <1>8
<1>13. RowBacked(row)'
  BY <1>9, <1>10, <1>11, <1>12 DEF RowBacked, Opened
<1>14. PICK x, n, source : x = <<row>> /\ n = Row(j).number /\ source = Row(j).source
  OBVIOUS
<1>15. hashJobs' = [hashJobs EXCEPT ![j] = x] /\ row.number = n /\ FilesComeFrom(n, source)
  BY <1>1, <1>7, <1>8, <1>14 DEF AndThen
<1>16. \A k \in HashJob : k # j /\ hashJobs[k] # <<>> => Row(k).number # n
  BY <1>14, NumberOwn
<1>17. RowsStand'
  BY <1>2, <1>13, <1>14, <1>15, <1>16, RowsFollow
<1> QED BY <1>4, <1>5, <1>17 DEF EvidenceInv

LEMMA CreateKeeps ==
    ASSUME EvidenceInv, AnalysesFit', NEW j \in HashJob, CreatePartial(j)
    PROVE  EvidenceInv'
<1>1. hashJobs[j] # <<>> /\ Row(j).at = "create"
  BY DEF CreatePartial, JobAt, Row
<1>2. PICK old : old = Row(j) /\ RowTyped(old) /\ RowBacked(old)
  BY <1>1, AnalysisRow DEF EvidenceInv, RowsStand
<1>3. PICK file, new : /\ file = [by |-> old.number, source |-> old.source, sealed |-> FALSE]
                       /\ new = <<file>>
  OBVIOUS
<1>4. /\ UNCHANGED <<hashReport, analyses, hashStatus, index, overwritten, mixed, evidenceFile>>
      /\ partialFile' = [partialFile EXCEPT ![old.run] = new] /\ GoesTo(j, "classify")
  BY <1>2, <1>3 DEF CreatePartial, History, RunOf
<1>5. /\ DOMAIN partialFile = HashRun /\ DOMAIN evidenceFile = HashRun /\ old.run \in HashRun
      /\ \A r \in HashRun : partialFile'[r] = IF r = old.run THEN new ELSE partialFile[r]
  BY <1>2, <1>4 DEF EvidenceInv, FilesAre, RowTyped
<1>6. FileTyped(new)
  BY <1>2, <1>3 DEF FileTyped, RowBacked
<1>7. \A r \in HashRun : FileTyped(partialFile'[r]) /\ FileTyped(evidenceFile'[r])
  BY <1>4, <1>5, <1>6 DEF EvidenceInv, FilesAre
<1>8. FilesComeFrom(old.number, old.source)
  <2>1. \A f \in EvidenceFiles' : f \in EvidenceFiles \/ f = new
    BY <1>4, <1>5 DEF EvidenceFiles
  <2>2. new[1].by = old.number /\ new[1].source = old.source
    BY <1>3
  <2> QED BY <2>1, <2>2 DEF FilesComeFrom
<1> QED BY <1>1, <1>2, <1>4, <1>5, <1>7, <1>8, FileWritten

LEMMA ClassifyKeeps ==
    ASSUME EvidenceInv, AnalysesFit', NEW j \in HashJob, ClassifyFolds(j)
    PROVE  EvidenceInv'
<1>1. hashJobs[j] # <<>> /\ Row(j).at = "classify"
  BY DEF ClassifyFolds, JobAt, Row
<1>2. PICK old : old = Row(j) /\ RowTyped(old) /\ RowBacked(old)
  BY <1>1, AnalysisRow DEF EvidenceInv, RowsStand
<1>3. /\ UNCHANGED <<hashReport, analyses, hashStatus, index, overwritten, mixed>>
      /\ partialFile' = [partialFile EXCEPT ![old.run] = Sealed(j, partialFile[old.run])]
      /\ evidenceFile' = [evidenceFile EXCEPT ![old.run] = Sealed(j, evidenceFile[old.run])]
      /\ GoesTo(j, "rename")
  BY <1>2 DEF ClassifyFolds, History, RunOf
<1>4. /\ DOMAIN partialFile = HashRun /\ DOMAIN evidenceFile = HashRun /\ old.run \in HashRun
      /\ \A r \in HashRun :
            /\ partialFile'[r] = IF r = old.run THEN Sealed(j, partialFile[r]) ELSE partialFile[r]
            /\ evidenceFile'[r] = IF r = old.run THEN Sealed(j, evidenceFile[r]) ELSE evidenceFile[r]
  BY <1>2, <1>3 DEF EvidenceInv, FilesAre, RowTyped
<1>5. ASSUME NEW f, FileTyped(f)
      PROVE  /\ FileTyped(Sealed(j, f))
             /\ IF f = <<>> THEN Sealed(j, f) = <<>>
                ELSE /\ Sealed(j, f) # <<>> /\ Sealed(j, f)[1].by = f[1].by
                     /\ Sealed(j, f)[1].source = f[1].source
  <2>1. CASE f = <<>>
    BY <1>5, <2>1 DEF Sealed
  <2>2. CASE f # <<>>
    <3>1. PICK file : /\ f = <<file>> /\ DOMAIN file = {"by", "source", "sealed"}
                      /\ file.by \in Nat /\ file.by <= analyses /\ file.source \in Nat
      BY <1>5, <2>2 DEF FileTyped
    <3>2. PICK new : new = [file EXCEPT !.sealed = TRUE]
      OBVIOUS
    <3>3. /\ DOMAIN new = {"by", "source", "sealed"} /\ new.by = file.by
          /\ new.source = file.source
      BY <3>1, <3>2
    <3>4. Sealed(j, f) = <<new>> \/ Sealed(j, f) = <<file>>
      BY <3>1, <3>2 DEF Sealed
    <3>5. FileTyped(<<new>>)
      BY <3>1, <3>3 DEF FileTyped
    <3>6. <<new>>[1] = new /\ <<file>>[1] = file /\ <<new>> # <<>> /\ <<file>> # <<>>
      OBVIOUS
    <3> QED BY <1>5, <2>2, <3>1, <3>3, <3>4, <3>5, <3>6
  <2> QED BY <2>1, <2>2
<1>6. \A r \in HashRun : FileTyped(partialFile[r]) /\ FileTyped(evidenceFile[r])
  BY DEF EvidenceInv, FilesAre
<1>7. \A r \in HashRun : FileTyped(partialFile'[r]) /\ FileTyped(evidenceFile'[r])
  BY <1>4, <1>5, <1>6
<1>8. \A r \in HashRun : evidenceFile[r] # <<>> => evidenceFile'[r] # <<>>
  BY <1>4, <1>5, <1>6
<1>9. FilesComeFrom(old.number, old.source)
  <2>1. \A f \in EvidenceFiles' : \E g \in EvidenceFiles : f = g \/ f = Sealed(j, g)
    BY <1>4 DEF EvidenceFiles
  <2>2. \A g \in EvidenceFiles : FileTyped(g)
    BY <1>6 DEF EvidenceFiles
  <2> QED BY <1>5, <2>1, <2>2 DEF FilesComeFrom
<1>10. DOMAIN partialFile' = HashRun /\ DOMAIN evidenceFile' = HashRun
  BY <1>3, <1>4
<1> QED BY <1>1, <1>2, <1>3, <1>7, <1>8, <1>9, <1>10, FileWritten

LEMMA RenameKeeps ==
    ASSUME EvidenceInv, AnalysesFit', NEW j \in HashJob, RenameEvidence(j)
    PROVE  EvidenceInv'
<1>1. hashJobs[j] # <<>> /\ Row(j).at = "rename"
  BY DEF RenameEvidence, JobAt, Row
<1>2. PICK old : old = Row(j) /\ RowTyped(old) /\ RowBacked(old)
  BY <1>1, AnalysisRow DEF EvidenceInv, RowsStand
<1>3. /\ UNCHANGED <<hashReport, analyses, hashStatus, index, overwritten, mixed>>
      /\ partialFile' = [partialFile EXCEPT ![old.run] = <<>>]
      /\ evidenceFile' = [evidenceFile EXCEPT ![old.run] = partialFile[old.run]]
      /\ partialFile[old.run] # <<>> /\ GoesTo(j, "open")
  BY <1>2 DEF RenameEvidence, History, RunOf
<1>4. /\ DOMAIN partialFile = HashRun /\ DOMAIN evidenceFile = HashRun /\ old.run \in HashRun
      /\ \A r \in HashRun :
            /\ partialFile'[r] = IF r = old.run THEN <<>> ELSE partialFile[r]
            /\ evidenceFile'[r] = IF r = old.run THEN partialFile[r] ELSE evidenceFile[r]
  BY <1>2, <1>3 DEF EvidenceInv, FilesAre, RowTyped
<1>5. FileTyped(<<>>) /\ \A r \in HashRun : FileTyped(partialFile[r]) /\ FileTyped(evidenceFile[r])
  BY DEF EvidenceInv, FilesAre, FileTyped
<1>6. /\ \A r \in HashRun : FileTyped(partialFile'[r]) /\ FileTyped(evidenceFile'[r])
      /\ \A r \in HashRun : evidenceFile[r] # <<>> => evidenceFile'[r] # <<>>
      /\ evidenceFile'[old.run] # <<>>
  BY <1>3, <1>4, <1>5
<1>7. FilesComeFrom(old.number, old.source)
  <2>1. \A f \in EvidenceFiles' : f = <<>> \/ f \in EvidenceFiles
    BY <1>4 DEF EvidenceFiles
  <2> QED BY <2>1 DEF FilesComeFrom
<1>8. DOMAIN partialFile' = HashRun /\ DOMAIN evidenceFile' = HashRun
  BY <1>3, <1>4
<1> QED BY <1>1, <1>2, <1>3, <1>6, <1>7, <1>8, FileWritten DEF RunOf

\* The last steps of an analysis, and its end by a failure or a kill.
LEMMA StatusKeeps ==
    ASSUME EvidenceInv, AnalysesFit', NEW j \in HashJob, WriteHashStatus(j)
    PROVE  EvidenceInv'
<1>1. hashJobs[j] # <<>> /\ Row(j).at = "status"
  BY DEF WriteHashStatus, JobAt, Row
<1>2. PICK old : old = Row(j) /\ RowTyped(old) /\ RowBacked(old)
  BY <1>1, AnalysisRow DEF EvidenceInv, RowsStand
<1>3. /\ UNCHANGED <<Files, index, hashReport, overwritten, analyses, mixed>>
      /\ hashStatus' = [hashStatus EXCEPT ![old.run] = old.status] /\ GoesTo(j, "end")
  BY <1>2 DEF WriteHashStatus, History, RunOf
<1>4. EvidenceFiles' = EvidenceFiles
  BY <1>3 DEF EvidenceFiles, Files
<1>5. PICK row : row = [old EXCEPT !.at = "end"]
  OBVIOUS
<1>6. AndThen(j, row)
  BY <1>1, <1>2, <1>3, <1>5, RowGoes DEF EvidenceInv
<1>7. /\ row.number = old.number /\ row.run = old.run /\ row.status = old.status
      /\ row.at = "end" /\ row.source = old.source /\ row.taken = old.taken
  BY <1>2, <1>5 DEF RowTyped, RowFields
<1>8. RowBacked(row)'
  BY <1>1, <1>2, <1>3, <1>4, <1>7 DEF RowBacked, Opened
<1>9. \A r \in HashRun : hashStatus'[r] = "complete" =>
              hashStatus[r] = "complete" \/ hashReport[r] # <<>>
  BY <1>1, <1>2, <1>3 DEF EvidenceInv, AnalysesFit, RowBacked
<1>10. PICK x : x = <<row>>
  OBVIOUS
<1>11. hashJobs' = [hashJobs EXCEPT ![j] = x] /\ row.number = Row(j).number
  BY <1>2, <1>6, <1>7, <1>10 DEF AndThen
<1> QED BY <1>1, <1>3, <1>8, <1>9, <1>10, <1>11, RowOnly

LEMMA EndsKeep ==
    ASSUME EvidenceInv, AnalysesFit', NEW j \in HashJob,
           CompleteAnalyse(j) \/ FailAnalyse(j) \/ KillAnalyse(j)
    PROVE  EvidenceInv'
<1>1. CASE CompleteAnalyse(j)
  <2>1. hashJobs[j] # <<>> /\ Row(j).at = "end" /\ EndAnalyse(j, "complete")
    BY <1>1 DEF CompleteAnalyse, JobAt, Row
  <2>2. hashReport[RunOf(j)] # <<>>
    BY <2>1 DEF EvidenceInv, RowsStand, RowBacked, RunOf
  <2> QED BY <2>1, <2>2, EndKeeps
<1>2. CASE FailAnalyse(j)
  BY <1>2, EndKeeps DEF FailAnalyse
<1>3. CASE KillAnalyse(j)
  <2>1. /\ hashJobs[j] # <<>> /\ UNCHANGED <<Files, index, hashReport, overwritten, analyses, mixed>>
        /\ hashJobs' = [hashJobs EXCEPT ![j] = <<>>] /\ UNCHANGED hashStatus
    BY <1>3 DEF KillAnalyse, History
  <2> QED BY <2>1, RowOnly
<1> QED BY <1>1, <1>2, <1>3

\* The first states.
LEMMA EvidenceStart ==
    ASSUME EvidenceAssumption, HashInit
    PROVE  EvidenceInv
<1>1. AnalysesFit
  BY AnalysesStart
<1>2. PICK done \in {{}} \union {{e} : e \in Earlier} :
        /\ hashStatus = [r \in HashRun |->
              CASE r \in done -> "complete"
                [] r \in FailedBefore \ done -> "postprocess-failed"
                [] OTHER -> "measured"]
        /\ partialFile = [r \in HashRun |-> <<>>]
        /\ evidenceFile = [r \in HashRun |->
              IF r \in done THEN <<[by |-> 0, source |-> 1, sealed |-> TRUE]>> ELSE <<>>]
        /\ hashReport = [r \in HashRun |->
              IF r \in done THEN <<[source |-> 1, ordinal |-> 1]>> ELSE <<>>]
        /\ index = IF done = {} THEN <<>>
                   ELSE <<WithBatch(Empty, CHOOSE e \in done : TRUE, 1, Empty.totals)>>
        /\ hashJobs = [j \in HashJob |-> <<>>]
        /\ overwritten = FALSE /\ analyses = 0
  BY DEF HashInit
<1>3. PICK report, file, old : /\ report = <<[source |-> 1, ordinal |-> 1]>>
                               /\ old = [by |-> 0, source |-> 1, sealed |-> TRUE] /\ file = <<old>>
  OBVIOUS
<1>4. RowsStand
  BY <1>2 DEF RowsStand
<1>5. FileTyped(file) /\ FileTyped(<<>>) /\ report # <<>>
  BY <1>2, <1>3 DEF FileTyped
<1>6. \A r \in HashRun : FileTyped(partialFile[r]) /\ FileTyped(evidenceFile[r])
  BY <1>2, <1>3, <1>5
<1>7. CASE done = {}
  BY <1>1, <1>2, <1>4, <1>6, <1>7 DEF EvidenceInv, FilesAre, ReportsStand
<1>8. CASE done # {}
  <2>1. PICK e \in HashRun : done = {e} /\ (CHOOSE d \in done : TRUE) = e
    BY <1>2, <1>8 DEF EvidenceAssumption
  <2>2. PICK base : base = WithBatch(Empty, e, 1, Empty.totals)
    OBVIOUS
  <2>3. /\ IndexTyped(base) /\ 1 \in DOMAIN base.batches
        /\ base.batches[1] = [run |-> e, source |-> 1]
    <3>1. 1 = Len(Empty.batches) + 1 /\ 1 \in Nat
      BY EmptyTyped
    <3> QED BY <2>2, <3>1, EmptyTyped, OneMoreBatch
  <2>4. index = <<base>>
    BY <1>2, <1>8, <2>1, <2>2
  <2>5. BatchIs(1, e, 1)
    BY <2>3, <2>4 DEF BatchIs
  <2>6. FilesAre
    BY <1>2, <1>6, <2>3, <2>4 DEF FilesAre
  <2>7. \A r \in HashRun : /\ hashReport[r] = IF r = e THEN report ELSE <<>>
                           /\ hashStatus[r] = "complete" => r = e
    BY <1>2, <1>3, <2>1
  <2>8. Backed(e, 1, 1)
    BY <2>5 DEF Backed
  <2>9. ReportsStand
    BY <1>3, <1>5, <2>7, <2>8 DEF ReportsStand
  <2> QED BY <1>1, <1>4, <2>6, <2>9 DEF EvidenceInv
<1> QED BY <1>7, <1>8

LEMMA EvidenceStep ==
    ASSUME EvidenceAssumption, EvidenceInv, [HashNext]_hashVars
    PROVE  EvidenceInv'
<1>1. AnalysesFit'
  BY AnalysesStep DEF EvidenceInv
<1>2. ASSUME UNCHANGED <<hashStatus, Files, hashReport, index, hashJobs, overwritten, mixed, analyses>>
      PROVE  EvidenceInv'
  <2>1. analyses' \in Nat /\ analyses <= analyses' /\ mixed \subseteq mixed'
    BY <1>2 DEF EvidenceInv, FilesAre
  <2>2. EvidenceGrows /\ FilesAre' /\ \A n, source : FilesComeFrom(n, source)
    BY <1>2, <2>1, NothingWritten
  <2>3. ReportsStand'
    BY <1>2, <2>2, ReportsStayBacked DEF EvidenceInv
  <2>4. EvidenceFiles' = EvidenceFiles
    BY <1>2 DEF EvidenceFiles, Files
  <2>5. \A row : RowBacked(row) => RowBacked(row)'
    BY <1>2, <2>4 DEF RowBacked, BatchIs, Files
  <2>6. \A j \in HashJob : Row(j)' = Row(j)
    BY <1>2 DEF Row
  <2>7. RowsStand'
    <3>1. ASSUME NEW j \in HashJob, hashJobs[j] # <<>>
          PROVE  RowBacked(Row(j))'
      <4>1. PICK row : row = Row(j)
        OBVIOUS
      <4>2. RowBacked(row)'
        BY <2>5, <3>1, <4>1 DEF EvidenceInv, RowsStand
      <4>3. Row(j)' = row
        BY <2>6, <4>1
      <4> QED BY <4>2, <4>3
    <3> QED BY <1>2, <2>6, <3>1 DEF EvidenceInv, RowsStand
  <2> QED BY <1>1, <2>2, <2>3, <2>7 DEF EvidenceInv
<1>3. CASE UNCHANGED hashVars \/ \E r \in HashRun : ReviseSource(r)
  BY <1>2, <1>3 DEF hashVars, ReviseSource, Files, History
<1>4. ASSUME NEW j \in HashJob,
             \/ \E r \in HashRun : BeginAnalyse(j, r)
             \/ ResolveEvidence(j) \/ CreatePartial(j) \/ ClassifyFolds(j) \/ RenameEvidence(j)
             \/ OpenIndex(j) \/ LookForBatch(j) \/ ReadOrdinal(j) \/ ReadLast(j) \/ AdmitBatch(j)
             \/ InstallIndex(j) \/ WriteHashReport(j) \/ WriteHashStatus(j) \/ CompleteAnalyse(j)
             \/ FailAnalyse(j) \/ KillAnalyse(j)
      PROVE  EvidenceInv'
  BY <1>1, <1>4, BeginKeeps, ResolveKeeps, CreateKeeps, ClassifyKeeps, RenameKeeps, OpenKeeps,
     LookKeeps, OrdinalKeeps, AdmitKeeps, InstallKeeps, ReportKeeps, StatusKeeps, EndsKeep
<1> QED BY <1>3, <1>4 DEF HashNext

LEMMA EvidenceBacked ==
    ASSUME EvidenceInv
    PROVE  HashTypeOK /\ ReportBacked
<1>1. HashTypeOK
  BY AnalysesTyped DEF EvidenceInv
<1>2. ASSUME NEW r \in HashRun, hashReport[r] # <<>>
      PROVE  \/ overwritten
             \/ /\ index # <<>> /\ hashReport[r][1].ordinal \in DOMAIN index[1].batches
                /\ index[1].batches[hashReport[r][1].ordinal].run = r
                /\ \/ r \in mixed
                   \/ index[1].batches[hashReport[r][1].ordinal].source = hashReport[r][1].source
  <2>1. PICK source, ordinal : /\ hashReport[r] = <<[source |-> source, ordinal |-> ordinal]>>
                               /\ Backed(r, ordinal, source)
    BY <1>2 DEF EvidenceInv, ReportsStand
  <2>2. hashReport[r][1].ordinal = ordinal /\ hashReport[r][1].source = source
    BY <2>1
  <2> QED BY <2>1, <2>2 DEF Backed, BatchIs
<1>3. ReportBacked
  BY <1>2 DEF EvidenceInv, ReportsStand, ReportBacked
<1> QED BY <1>1, <1>3

LEMMA EvidenceInvariant == HashSpec => []EvidenceInv
<1>1. HashInit => EvidenceInv
  BY EvidenceAssumption, EvidenceStart
<1>2. EvidenceInv /\ [HashNext]_hashVars => EvidenceInv'
  BY EvidenceAssumption, EvidenceStep
<1> QED BY <1>1, <1>2, PTL DEF HashSpec

\* HashTypeOK of the analyses: the states of the runs and the revisions of what
\* they are analysed from are those that are written, and an analysis is of a
\* run (machine_validation_hashes.py).
THEOREM EvidenceTyped == HashSpec => []HashTypeOK
<1> QED BY EvidenceBacked, EvidenceInvariant, PTL

\* ReportBacked of the hash reports: however analyses of the runs interleave,
\* fail, are killed and repeated, a report stands on a batch of its run that is
\* in the index, and a run is complete only with its report (analyze_hashes,
\* update_corpus_hash_index).
THEOREM ReportsBacked == HashSpec => []ReportBacked
<1> QED BY EvidenceBacked, EvidenceInvariant, PTL

\* The batches of an index are of different runs, which have no owner in common.
OwnersApart(base) ==
    \A i, k \in DOMAIN base.batches : i # k =>
        /\ base.batches[i].run # base.batches[k].run
        /\ RunOwners(base.batches[i].run) \intersect RunOwners(base.batches[k].run) = {}

ApartInv ==
    /\ \A base : index = <<base>> => OwnersApart(base)
    /\ \A j \in HashJob : hashJobs[j] # <<>> /\ Row(j).at = "install" =>
          \A base : Row(j).work = <<base>> => OwnersApart(base)

\* One batch more, of a run that the index has not taken in.
LEMMA ApartStill ==
    ASSUME NEW base, IndexTyped(base), OwnersApart(base), NEW r \in HashRun, NEW source \in Nat, NEW last,
           \A b \in BatchesOf(base) : b.run # r, ~Repeats(base, r),
           NEW new, new = WithBatch(base, r, source, last)
    PROVE  OwnersApart(new)
<1>1. PICK s, b : s = base.batches /\ b = [run |-> r, source |-> source]
  OBVIOUS
<1>2. new.batches = Append(s, b) /\ s \in Seq([run : HashRun, source : Nat])
  BY <1>1 DEF WithBatch, IndexTyped
<1>3. /\ DOMAIN Append(s, b) = 1..(Len(s) + 1) /\ Append(s, b)[Len(s) + 1] = b
      /\ \A i \in 1..Len(s) : Append(s, b)[i] = s[i]
      /\ DOMAIN s = 1..Len(s) /\ Len(s) \in Nat
  BY <1>2
<1>4. ASSUME NEW i \in 1..Len(s)
      PROVE  /\ s[i].run # r /\ RunOwners(s[i].run) \intersect RunOwners(r) = {}
             /\ RunOwners(r) \intersect RunOwners(s[i].run) = {}
  <2>1. s[i] \in BatchesOf(base)
    BY <1>1, <1>3 DEF BatchesOf
  <2> QED BY <2>1 DEF Repeats
<1>5. ASSUME NEW i \in 1..(Len(s) + 1), NEW k \in 1..(Len(s) + 1), i # k
      PROVE  /\ Append(s, b)[i].run # Append(s, b)[k].run
             /\ RunOwners(Append(s, b)[i].run) \intersect RunOwners(Append(s, b)[k].run) = {}
  <2>1. b.run = r
    BY <1>1
  <2>2. CASE i \in 1..Len(s) /\ k \in 1..Len(s)
    BY <1>1, <1>3, <1>5, <2>2 DEF OwnersApart
  <2>3. CASE i = Len(s) + 1 /\ k \in 1..Len(s)
    BY <1>3, <1>4, <2>1, <2>3
  <2>4. CASE k = Len(s) + 1 /\ i \in 1..Len(s)
    BY <1>3, <1>4, <2>1, <2>4
  <2>5. (i \in 1..Len(s) \/ i = Len(s) + 1) /\ (k \in 1..Len(s) \/ k = Len(s) + 1)
    BY <1>3
  <2> QED BY <1>5, <2>2, <2>3, <2>4, <2>5
<1>6. PICK t : t = new.batches /\ t = Append(s, b)
  BY <1>2
<1>7. DOMAIN t = 1..(Len(s) + 1)
  BY <1>3, <1>6
<1>8. \A i, k \in DOMAIN t : i # k =>
          t[i].run # t[k].run /\ RunOwners(t[i].run) \intersect RunOwners(t[k].run) = {}
  BY <1>5, <1>6, <1>7
<1> QED BY <1>6, <1>8 DEF OwnersApart

LEMMA EmptyApart == OwnersApart(Empty)
  BY EmptyTyped DEF OwnersApart

\* The rows of the analyses that have an index to install, after a step.
LEMMA RowsToInstall ==
    ASSUME AnalysesFit, HashNext, NEW j \in HashJob, hashJobs'[j] # <<>>, Row(j)'.at = "install"
    PROVE  hashJobs'[j] = hashJobs[j] \/ (AdmitBatch(j) /\ Row(j).fresh)
<1>1. CASE hashJobs' = hashJobs
  BY <1>1
<1>2. ASSUME NEW k \in HashJob, k # j, NEW x, hashJobs' = [hashJobs EXCEPT ![k] = x]
      PROVE  hashJobs'[j] = hashJobs[j]
  BY <1>2 DEF AnalysesFit
<1>3. ASSUME NEW k \in HashJob, NEW where, GoesTo(k, where)
      PROVE  \E x : hashJobs' = [hashJobs EXCEPT ![k] = x]
  BY <1>3 DEF GoesTo
<1>4. ASSUME NEW row, AndThen(j, row)
      PROVE  Row(j)' = row
  BY <1>4 DEF AndThen, AnalysesFit, Row
<1>5. ASSUME NEW where, GoesTo(j, where), hashJobs[j] # <<>>
      PROVE  where = "install"
  <2>1. AndThen(j, [Row(j) EXCEPT !.at = where])
    BY <1>5, RowGoes
  <2>2. RowTyped(Row(j))
    BY <1>5, AnalysisRow
  <2>3. Row(j)' = [Row(j) EXCEPT !.at = where]
    BY <1>4, <2>1
  <2> QED BY <2>2, <2>3 DEF RowTyped, RowFields
<1>6. ASSUME NEW k \in HashJob, k # j,
             \/ \E r \in HashRun : BeginAnalyse(k, r)
             \/ ResolveEvidence(k) \/ CreatePartial(k) \/ ClassifyFolds(k) \/ RenameEvidence(k)
             \/ OpenIndex(k) \/ LookForBatch(k) \/ ReadOrdinal(k) \/ ReadLast(k) \/ AdmitBatch(k)
             \/ InstallIndex(k) \/ WriteHashReport(k) \/ WriteHashStatus(k) \/ CompleteAnalyse(k)
             \/ FailAnalyse(k) \/ KillAnalyse(k)
      PROVE  hashJobs'[j] = hashJobs[j]
  <2>1. \E x : hashJobs' = [hashJobs EXCEPT ![k] = x]
    BY <1>3, <1>6 DEF BeginAnalyse, ResolveEvidence, CreatePartial, ClassifyFolds, RenameEvidence,
       OpenIndex, LookForBatch, ReadOrdinal, ReadLast, AdmitBatch, InstallIndex, WriteHashReport,
       WriteHashStatus, CompleteAnalyse, FailAnalyse, KillAnalyse, EndAnalyse, AndThen
  <2> QED BY <1>2, <1>6, <2>1
<1>7. CASE \E r \in HashRun : ReviseSource(r)
  BY <1>1, <1>7 DEF ReviseSource
<1>8. ASSUME \/ CompleteAnalyse(j) \/ FailAnalyse(j) \/ KillAnalyse(j)
             \/ (ResolveEvidence(j) /\ EndAnalyse(j, "complete"))
      PROVE  FALSE
  <2>1. hashJobs' = [hashJobs EXCEPT ![j] = <<>>]
    BY <1>8 DEF CompleteAnalyse, FailAnalyse, KillAnalyse, EndAnalyse
  <2> QED BY <2>1 DEF AnalysesFit
<1>9. ASSUME NEW row, AndThen(j, row), row.at # "install"
      PROVE  FALSE
  BY <1>4, <1>9
<1>10. ASSUME NEW r \in HashRun, BeginAnalyse(j, r)
       PROVE  FALSE
  <2>1. PICK row : /\ row = [run |-> r, number |-> analyses', at |-> "resolve",
                         status |-> hashStatus'[r], source |-> 0, taken |-> 0, fresh |-> FALSE,
                         work |-> <<>>, ordinal |-> 0, last |-> Empty.totals]
                   /\ AndThen(j, row)
    BY <1>10 DEF BeginAnalyse
  <2> QED BY <1>9, <2>1
<1>11. ASSUME \/ CreatePartial(j) \/ ClassifyFolds(j) \/ RenameEvidence(j) \/ InstallIndex(j)
              \/ WriteHashReport(j) \/ WriteHashStatus(j)
       PROVE  FALSE
  <2>1. hashJobs[j] # <<>> /\ \E where : GoesTo(j, where) /\ where # "install"
    BY <1>11 DEF CreatePartial, ClassifyFolds, RenameEvidence, InstallIndex, WriteHashReport,
       WriteHashStatus, JobAt
  <2> QED BY <1>5, <2>1
<1>12. ASSUME \/ ResolveEvidence(j) /\ ~EndAnalyse(j, "complete")
              \/ OpenIndex(j) \/ LookForBatch(j) \/ ReadOrdinal(j) \/ ReadLast(j)
       PROVE  FALSE
  <2>1. hashJobs[j] # <<>>
    BY <1>12 DEF ResolveEvidence, OpenIndex, LookForBatch, ReadOrdinal, ReadLast, JobAt
  <2>2. PICK old : old = Row(j) /\ RowTyped(old)
    BY <2>1, AnalysisRow
  <2>3. CASE ResolveEvidence(j) /\ ~EndAnalyse(j, "complete")
    <3>1. PICK row : row = [old EXCEPT !.at = "create", !.source = sources[RunOf(j)]] /\ AndThen(j, row)
      BY <2>2, <2>3 DEF ResolveEvidence
    <3>2. row.at # "install"
      BY <2>2, <3>1 DEF RowTyped, RowFields
    <3> QED BY <1>9, <3>1, <3>2
  <2>4. CASE OpenIndex(j)
    <3>1. PICK row, fresh, work, taken :
              /\ row = [old EXCEPT !.at = "look", !.fresh = fresh, !.work = work, !.taken = taken]
              /\ AndThen(j, row)
      BY <2>2, <2>4 DEF OpenIndex
    <3>2. row.at # "install"
      BY <2>2, <3>1 DEF RowTyped, RowFields
    <3> QED BY <1>9, <3>1, <3>2
  <2>5. CASE LookForBatch(j) /\ ~GoesTo(j, "ordinal")
    <3>1. PICK row, n : row = [old EXCEPT !.at = "report", !.ordinal = n] /\ AndThen(j, row)
      BY <2>2, <2>5 DEF LookForBatch
    <3>2. row.at # "install"
      BY <2>2, <3>1 DEF RowTyped, RowFields
    <3> QED BY <1>9, <3>1, <3>2
  <2>6. CASE ReadOrdinal(j) \/ ReadLast(j)
    <3>1. PICK row, n : /\ \/ row = [old EXCEPT !.at = "last", !.ordinal = n]
                           \/ row = [old EXCEPT !.at = "admit", !.last = n]
                        /\ AndThen(j, row)
      BY <2>2, <2>6 DEF ReadOrdinal, ReadLast
    <3>2. row.at # "install"
      BY <2>2, <3>1 DEF RowTyped, RowFields
    <3> QED BY <1>9, <3>1, <3>2
  <2> QED BY <1>5, <1>12, <2>1, <2>3, <2>4, <2>5, <2>6
<1>13. CASE AdmitBatch(j)
  <2>1. hashJobs[j] # <<>>
    BY <1>13 DEF AdmitBatch, JobAt
  <2>2. Row(j).fresh \/ GoesTo(j, "report")
    BY <1>13 DEF AdmitBatch
  <2> QED BY <1>5, <1>13, <2>1, <2>2
<1> QED BY <1>6, <1>7, <1>8, <1>10, <1>11, <1>12, <1>13 DEF HashNext

\* Where the index comes from, after a step.
LEMMA IndexFrom ==
    ASSUME HashNext
    PROVE  \/ UNCHANGED index
           \/ \E j \in HashJob : AdmitBatch(j) /\ ~Row(j).fresh
           \/ \E j \in HashJob : InstallIndex(j)
<1>1. CASE \E r \in HashRun : ReviseSource(r)
  BY <1>1 DEF ReviseSource
<1>2. ASSUME NEW j \in HashJob,
             \/ \E r \in HashRun : BeginAnalyse(j, r)
             \/ CreatePartial(j) \/ ClassifyFolds(j) \/ RenameEvidence(j)
             \/ OpenIndex(j) \/ LookForBatch(j) \/ ReadOrdinal(j) \/ ReadLast(j)
      PROVE  UNCHANGED index
  BY <1>2 DEF BeginAnalyse, CreatePartial, ClassifyFolds, RenameEvidence, OpenIndex, LookForBatch,
     ReadOrdinal, ReadLast
<1>3. ASSUME NEW j \in HashJob,
             \/ ResolveEvidence(j) \/ WriteHashReport(j) \/ WriteHashStatus(j) \/ CompleteAnalyse(j)
             \/ FailAnalyse(j) \/ KillAnalyse(j)
      PROVE  UNCHANGED index
  BY <1>3 DEF ResolveEvidence, WriteHashReport, WriteHashStatus, CompleteAnalyse, FailAnalyse,
     KillAnalyse, EndAnalyse
<1>4. ASSUME NEW j \in HashJob, AdmitBatch(j), Row(j).fresh
      PROVE  UNCHANGED index
  BY <1>4 DEF AdmitBatch
<1> QED BY <1>1, <1>2, <1>3, <1>4 DEF HashNext

\* The batch that an analysis admits leaves the batches apart.
LEMMA AdmitsApart ==
    ASSUME EvidenceInv, ApartInv, NEW j \in HashJob, AdmitBatch(j)
    PROVE  OwnersApart(WithBatch(Base(j), RunOf(j), Row(j).taken, Row(j).last))
<1>1. hashJobs[j] # <<>> /\ Row(j).at = "admit"
  BY DEF AdmitBatch, JobAt, Row
<1>2. PICK old, base : /\ old = Row(j) /\ RowTyped(old) /\ RowBacked(old)
                       /\ base = Base(j) /\ IndexTyped(base)
                       /\ IF old.fresh THEN base = Empty ELSE index = <<base>>
  BY <1>1, AnalysisRow, BaseTyped DEF EvidenceInv, RowsStand
<1>3. OwnersApart(base)
  BY <1>2, EmptyApart DEF ApartInv
<1>4. (\A b \in BatchesOf(base) : b.run # old.run) /\ ~Repeats(base, old.run)
  BY <1>2 DEF AdmitBatch, Admits, RunOf
<1>5. old.run \in HashRun /\ old.taken \in Nat
  BY <1>2 DEF RowTyped, RowBacked
<1>6. PICK new : new = WithBatch(base, old.run, old.taken, old.last)
  OBVIOUS
<1>7. OwnersApart(new)
  BY <1>2, <1>3, <1>4, <1>5, <1>6, ApartStill
<1> QED BY <1>2, <1>6, <1>7 DEF RunOf

LEMMA ApartKept ==
    ASSUME EvidenceInv, ApartInv, [HashNext]_hashVars
    PROVE  ApartInv'
<1>1. CASE UNCHANGED hashVars
  BY <1>1 DEF hashVars, ApartInv, Row
<1>2. CASE HashNext
  <2>1. ASSUME NEW base, index' = <<base>>
        PROVE  OwnersApart(base)
    <3>1. CASE UNCHANGED index
      BY <2>1, <3>1 DEF ApartInv
    <3>2. ASSUME NEW j \in HashJob, AdmitBatch(j), ~Row(j).fresh
          PROVE  OwnersApart(base)
      <4>1. index' = <<WithBatch(Base(j), RunOf(j), Row(j).taken, Row(j).last)>>
        BY <3>2 DEF AdmitBatch
      <4>2. base = WithBatch(Base(j), RunOf(j), Row(j).taken, Row(j).last)
        BY <2>1, <4>1
      <4> QED BY <3>2, <4>2, AdmitsApart
    <3>3. ASSUME NEW j \in HashJob, InstallIndex(j)
          PROVE  OwnersApart(base)
      <4>1. hashJobs[j] # <<>> /\ Row(j).at = "install" /\ Row(j).work = <<base>>
        BY <2>1, <3>3 DEF InstallIndex, JobAt, Row
      <4> QED BY <4>1 DEF ApartInv
    <3> QED BY <1>2, <3>1, <3>2, <3>3, IndexFrom
  <2>2. ASSUME NEW j \in HashJob, hashJobs'[j] # <<>>, Row(j)'.at = "install", NEW base,
               Row(j)'.work = <<base>>
        PROVE  OwnersApart(base)
    <3>1. CASE hashJobs'[j] = hashJobs[j]
      <4>1. Row(j)' = Row(j)
        BY <3>1 DEF Row
      <4> QED BY <2>2, <3>1, <4>1 DEF ApartInv
    <3>2. CASE AdmitBatch(j) /\ Row(j).fresh
      <4>1. hashJobs[j] # <<>>
        BY <3>2 DEF AdmitBatch, JobAt
      <4>2. PICK old, admitted, row :
                /\ old = Row(j) /\ RowTyped(old)
                /\ admitted = WithBatch(Base(j), RunOf(j), Row(j).taken, Row(j).last)
                /\ row = [old EXCEPT !.at = "install", !.work = <<admitted>>] /\ AndThen(j, row)
        BY <3>2, <4>1, AnalysisRow DEF AdmitBatch, EvidenceInv
      <4>3. row.work = <<admitted>>
        BY <4>2 DEF RowTyped, RowFields
      <4>4. Row(j)' = row
        BY <4>2 DEF AndThen, EvidenceInv, AnalysesFit, Row
      <4>5. base = admitted
        BY <2>2, <4>3, <4>4
      <4> QED BY <3>2, <4>2, <4>5, AdmitsApart
    <3> QED BY <1>2, <2>2, <3>1, <3>2, RowsToInstall DEF EvidenceInv
  <2> QED BY <2>1, <2>2 DEF ApartInv
<1> QED BY <1>1, <1>2

LEMMA ApartAtFirst ==
    ASSUME EvidenceAssumption, HashInit
    PROVE  ApartInv
<1>1. PICK done \in {{}} \union {{e} : e \in Earlier} :
        /\ index = IF done = {} THEN <<>>
                   ELSE <<WithBatch(Empty, CHOOSE e \in done : TRUE, 1, Empty.totals)>>
        /\ hashJobs = [j \in HashJob |-> <<>>]
  BY DEF HashInit
<1>2. ASSUME NEW base, index = <<base>>
      PROVE  OwnersApart(base)
  <2>1. done # {}
    BY <1>1, <1>2
  <2>2. PICK e \in HashRun : (CHOOSE d \in done : TRUE) = e
    BY <1>1, <2>1 DEF EvidenceAssumption
  <2>3. base = WithBatch(Empty, e, 1, Empty.totals)
    BY <1>1, <1>2, <2>1, <2>2
  <2>4. BatchesOf(Empty) = {}
    BY EmptyTyped DEF BatchesOf
  <2>5. ~Repeats(Empty, e) /\ 1 \in Nat
    BY <2>4 DEF Repeats
  <2> QED BY <2>3, <2>4, <2>5, EmptyTyped, EmptyApart, ApartStill
<1> QED BY <1>1, <1>2 DEF ApartInv

\* Batches of different runs are as many as their runs.
LEMMA ApartRuns ==
    ASSUME FilesAre, ApartInv
    PROVE  RunsApart
<1> SUFFICES ASSUME NEW base, index = <<base>>, IndexTyped(base), OwnersApart(base),
                    NEW runs, runs = {b.run : b \in BatchesOf(base)}
             PROVE  /\ Cardinality(runs) = Len(base.batches)
                    /\ \A r, o \in runs : r # o => RunOwners(r) \intersect RunOwners(o) = {}
  BY DEF FilesAre, ApartInv, RunsApart
<1>1. PICK s, n, f : /\ s = base.batches /\ s \in Seq([run : HashRun, source : Nat]) /\ n = Len(s)
                     /\ f = [i \in 1..n |-> s[i].run]
  BY DEF IndexTyped
<1>2. /\ n \in Nat /\ DOMAIN s = 1..n
      /\ \A i, k \in 1..n : i # k => s[i].run # s[k].run
                                   /\ RunOwners(s[i].run) \intersect RunOwners(s[k].run) = {}
  <2>1. n \in Nat /\ DOMAIN s = 1..n
    BY <1>1
  <2> QED BY <1>1, <2>1 DEF OwnersApart
<1>3. /\ runs = {s[i].run : i \in 1..n}
      /\ f \in Surjection(1..n, runs) /\ f \in Injection(1..n, runs)
  <2>1. runs = {s[i].run : i \in 1..n}
    BY <1>1, <1>2 DEF BatchesOf
  <2>2. f \in [1..n -> runs] /\ \A i \in 1..n : f[i] = s[i].run
    BY <1>1, <2>1
  <2>3. f \in Surjection(1..n, runs)
    BY <2>1, <2>2 DEF Surjection
  <2>4. \A i, k \in 1..n : f[i] = f[k] => i = k
    BY <1>2, <2>2
  <2>5. f \in Injection(1..n, runs)
    BY <2>2, <2>4 DEF Injection, IsInjective
  <2> QED BY <2>1, <2>3, <2>5
<1>4. IsFiniteSet(1..n) /\ Cardinality(1..n) = n
  BY <1>1, FS_Interval
<1>5. Cardinality(runs) = n
  BY <1>3, <1>4, FS_Surjection
<1> QED BY <1>1, <1>2, <1>3, <1>5

\* RunsApart of the corpus index: however analyses interleave, fail, are killed
\* and repeated, the index takes in no run twice and no two runs with an owner in
\* common, although a batch is looked for before the transaction that adds one
\* (update_corpus_hash_index).
THEOREM RunsStayApart == HashSpec => []RunsApart
<1>1. HashInit => ApartInv
  BY EvidenceAssumption, ApartAtFirst
<1>2. EvidenceInv /\ ApartInv /\ [HashNext]_hashVars => ApartInv'
  BY ApartKept
<1>3. EvidenceInv /\ ApartInv => RunsApart
  BY ApartRuns DEF EvidenceInv
<1> QED BY <1>1, <1>2, <1>3, EvidenceInvariant, PTL DEF HashSpec
=============================================================================
