----------------------------- MODULE MCRecords -----------------------------
(***************************************************************************)
(* What the farm writes down, in one run: the execution of a job and its   *)
(* publication, the workers on a schedule of windows, the control panel,   *)
(* the ecological cases, the scoring of candidates, a width run and the    *)
(* lane databases: a state is a state of one of them and the others rest   *)
(* in their initial states.  Only the two kinds of workers share           *)
(* variables, those of the coordinator.                                    *)
(*                                                                         *)
(* Worker: one job, two workers, three attempts, two faults at any step.   *)
(* Window: the same job and workers, three hours around midnight under     *)
(* overnight, overridden, switched off and refused schedules, one kill or  *)
(* stop.                                                                   *)
(* Panel: two campaigns, two clients, one switch.  Ecological: two cases,  *)
(* two starters, two analysts and one kill.                                *)
(* Scoring: two functions of a query, two candidates in two indexes, every *)
(* population of four inputs, chunks of one and three rows.  Width: two    *)
(* cells in two processes, two replays, one fault.  Lanes: two compilers   *)
(* and a compactor, three cells, one edit of the registry, one ledger that *)
(* changes at any time, one removal and one kill.                          *)
(* Answers that cross a selection are not explored further: PanelTrue      *)
(* exempts them.                                                           *)
(***************************************************************************)
EXTENDS MCWorker, WindowWorker, ControlPanel, Ecological, FidScoring, WidthRun,
    LaneDatabase

CONSTANTS q1, q2, e1, e2, h1, h2, a1, a2,
          x1, x2, c1, c2, c3, p1, p2, p3

VARIABLE part

MCSchedule(days, start, stop, cutoff, overrides) ==
    [enabled |-> TRUE, finish |-> FALSE, chain |-> FALSE, tail |-> FALSE, days |-> days,
     start |-> start, stop |-> stop, cutoff |-> cutoff, overrides |-> overrides]
MCOverride(enabled, start, stop, cutoff) ==
    2 :> [enabled |-> enabled, start |-> start, stop |-> stop, cutoff |-> cutoff]
MCScheduleRows ==
    {MCSchedule(0 .. 6, 2, 1, 1, <<>>),
     MCSchedule({1, 2}, 1, 0, 1, MCOverride(TRUE, 0, 1, 2)),
     MCSchedule({1, 2}, 2, 0, 1, MCOverride(FALSE, Inherit, Inherit, Inherit)),
     MCSchedule({1, 2}, 1, 0, 2, <<>>),
     [MCSchedule({1, 2}, 1, 2, NoClock, <<>>) EXCEPT !.finish = TRUE],
     [MCSchedule({1, 2}, 1, 2, 0, <<>>) EXCEPT !.enabled = FALSE]}

MCInput(units, specific, child, flags) ==
    [units |-> units, specific |-> specific, child |-> child, parent |-> 0, flags |-> flags]
MCInputs ==
    {MCInput(1, 1, 0, {}), MCInput(1, 0, 1, {}), MCInput(1, 1, 1, {}),
     MCInput(1, 0, 1, {"force_specific"})}
MCPopulations ==
    {[r \in CandidateRow |->
        IF p[r.id, r.index] = NoRow THEN NoRow
        ELSE IF r.query = 1 THEN p[r.id, r.index] ELSE MCInput(1, 1, 0, {})] :
       p \in [(1 .. Candidates) \X IndexId -> MCInputs \cup {NoRow}]}

MCLaneCells == <<c1, c2, c3>>
MCCellsOf == <<{c1, c2}, {c1, c3}>>
MCLedgerOf == (c1 :> <<"s", "s">>) @@ (c2 :> <<"s">>) @@ (c3 :> <<"t">>)

MCRecordsBound == crossed = {}

Only(p) ==
    /\ part = p /\ part' = p
    /\ IF p = "worker" THEN TRUE ELSE UNCHANGED <<worker, disk, faults>>
    /\ IF p = "window" THEN TRUE ELSE UNCHANGED <<schedule, hour, hands, notices, windowFaults>>
    /\ IF p \in {"worker", "window"} THEN TRUE ELSE UNCHANGED vars
    /\ IF p = "panel" THEN TRUE ELSE UNCHANGED panelVars
    /\ IF p = "ecological" THEN TRUE ELSE UNCHANGED ecoVars
    /\ IF p = "scoring" THEN TRUE ELSE UNCHANGED scoringVars
    /\ IF p = "width" THEN TRUE ELSE UNCHANGED widthVars
    /\ IF p = "lanes" THEN TRUE ELSE UNCHANGED laneVars

RecordsInit ==
    /\ part \in {"worker", "window", "panel", "ecological", "scoring", "width", "lanes"}
    /\ WorkerInit /\ WindowInit /\ PanelInit /\ EcologicalInit
    /\ part # "window" => schedule = MCSchedule(0 .. 6, 2, 1, 1, <<>>)
    /\ part # "scoring" => /\ population = [r \in CandidateRow |-> NoRow]
                           /\ setting = [engine |-> 1, chunk |-> 1, requested |-> "cpu"]
    /\ ScoringInit /\ WidthInit /\ LaneInit

RecordsNext ==
    \/ Only("worker") /\ WorkerNext
    \/ Only("window") /\ WindowNext
    \/ Only("panel") /\ PanelNext
    \/ Only("ecological") /\ EcologicalNext
    \/ Only("scoring") /\ ScoringNext
    \/ Only("width") /\ WidthNext
    \/ Only("lanes") /\ LaneNext

RecordsSpec ==
    RecordsInit
    /\ [][RecordsNext]_<<part, workerVars, windowVars, panelVars, ecoVars, scoringVars,
                        widthVars, laneVars>>

-----------------------------------------------------------------------------
\* The rows, files, locks and processes of every part keep to what its code
\* writes, holds and starts.
RecordsTypeOK ==
    /\ part = "worker" => WorkerTypeOK
    /\ part = "window" => WindowTypeOK
    /\ part = "panel" => PanelTypeOK
    /\ part = "ecological" => EcologicalTypeOK
    /\ part = "scoring" => ScoringTypeOK
    /\ part = "width" => WidthTypeOK
    /\ part = "lanes" => LaneTypeOK

\* What the control panel answers and leaves behind: ProjectionsTrue of its
\* snapshots and LeftIdle of a campaign that is no longer selected (local_api.py,
\* campaign_registry.py).
PanelTrue == part = "panel" => ProjectionsTrue /\ LeftIdle

\* What a worker does with its attempts: AdmittedWork in the blocks that are
\* open, FreshAttempt in directories of their own, ResultDurable on disk before
\* the ledger says so (queue_cli.py).
AttemptsSound == part = "worker" => AdmittedWork /\ FreshAttempt /\ ResultDurable

\* WindowTrue of the workers on a schedule of windows (operations_policy.py,
\* queue_cli.py), and below the properties of the other parts, in their states.
WindowHolds == part = "window" => WindowTrue

\* CasesSettled of the ecological cases (ecological_validation.py).
EcologicalHolds == part = "ecological" => CasesSettled

\* MatchesExact of the scoring of candidates (fid_compact.py, fid_matching.py).
ScoringHolds == part = "scoring" => MatchesExact

\* WidthTrue of a width run (width_run.py).
WidthHolds == part = "width" => WidthTrue

\* LanesExact of the lane databases (lane_compiler.py, lane_database.py).
LanesHold == part = "lanes" => LanesExact
=============================================================================
