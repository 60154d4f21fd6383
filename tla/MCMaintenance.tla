---------------------------- MODULE MCMaintenance ----------------------------
(***************************************************************************)
(* What operators do to a queue and its results, in one run: plan          *)
(* refreshes, retention, export, toolchain and source commands share no    *)
(* variable, a state is a state of one of them and the others rest in      *)
(* their initial states.                                                   *)
(*                                                                         *)
(* Refresh: the configurations of MCRefresh.  Retention: one job of two    *)
(* attempts, a drained worker and a validation runner that collect, and a  *)
(* hold on the first attempt.  Export: two populations, one kill and one   *)
(* package.                                                                *)
(* Toolchains: a route whose review changes the root and the composition.  *)
(* Sources: two candidates, two locks of which the second pins one of      *)
(* them, two pullers.                                                      *)
(***************************************************************************)
EXTENDS MCRefresh, Retention, DatabaseExport, Toolchains, SourceAcquisition

CONSTANTS c1, c2, q1, pack1, k1, k2

VARIABLE part

MCHold == {[job |-> q1, attempts |-> {1}]}
MCTriggerOf == [c \in Collector |-> IF c = c1 THEN "drained" ELSE "validation"]

MCRevisions == <<[pack |-> pack1, root |-> 1, composition |-> TRUE],
                 [pack |-> pack1, root |-> 2, composition |-> FALSE]>>

MCPinOf == <<[k \in Candidate |-> IF k = k1 THEN 1 ELSE 2],
             [k \in Candidate |-> IF k = k1 THEN 1 ELSE Unresolved]>>

Only(p) ==
    /\ part = p /\ part' = p
    /\ IF p = "refresh" THEN TRUE ELSE UNCHANGED vars
    /\ IF p = "retention" THEN TRUE ELSE UNCHANGED retentionVars
    /\ IF p = "export" THEN TRUE ELSE UNCHANGED exportVars
    /\ IF p = "toolchains" THEN TRUE ELSE UNCHANGED toolVars
    /\ IF p = "sources" THEN TRUE ELSE UNCHANGED sourceVars

MaintenanceInit ==
    /\ part \in {"refresh", "retention", "export", "toolchains", "sources"}
    /\ Init /\ RetentionInit /\ ExportInit /\ ToolchainsInit /\ AcquisitionInit

MaintenanceNext ==
    \/ Only("refresh") /\ Next
    \/ Only("retention") /\ RetentionNext
    \/ Only("export") /\ ExportNext
    \/ Only("toolchains") /\ ToolchainsNext
    \/ Only("sources") /\ AcquisitionNext

MaintenanceSpec ==
    MaintenanceInit
    /\ [][MaintenanceNext]_<<part, vars, retentionVars, exportVars, toolVars,
                          sourceVars>>

-----------------------------------------------------------------------------
\* The directories, bundles, snapshots, packages, toolchain stores and receipts
\* that the operators' commands leave are what their code writes and reads.
MaintenanceTypeOK ==
    /\ part = "retention" => RetentionTypeOK
    /\ part = "export" => ExportTypeOK
    /\ part = "toolchains" => ToolchainsTypeOK
    /\ part = "sources" => AcquisitionTypeOK

\* What is kept for later use is what it claims to be: PackageSound of a package
\* and its safeguard, ToolsGenuine of the toolchain store (database_export.py,
\* toolchain_prepare.py, toolchain_qualification.py).
StoresSound ==
    /\ part = "export" => PackageSound
    /\ part = "toolchains" => ToolsGenuine
=============================================================================
