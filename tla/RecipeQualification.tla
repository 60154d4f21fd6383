------------------------ MODULE RecipeQualification ------------------------
(***************************************************************************)
(* The recipe qualification that a width batch needs before it is promoted *)
(* (recipe_qualification.py): a run builds every cell (a recipe on a       *)
(* route) in a directory of the cell, keeps the rows in an evidence file   *)
(* that names the digest of the inputs, and seals it when every cell was   *)
(* built; a run continues the evidence of its own inputs, and archives     *)
(* other evidence only when told to.                                       *)
(*                                                                         *)
(* The inputs (authority, batch, width, recipes, implementation) are one   *)
(* content, which the code compares by its digests; an edit may bring an   *)
(* earlier content back.  Metrics, compiler and archive digests of a row   *)
(* are left out.                                                           *)
(***************************************************************************)
EXTENDS Naturals, FiniteSets

CONSTANTS RecipeCell, RecipeRunner, RecipeWorkers,
          MaxInputs,        \* bound: contents of the inputs
          MaxRecipeEdits,       \* bound: edits of the inputs
          MaxRecipeStarts, MaxRecipeKills

ASSUME RecipeAssumption ==
    MaxInputs \in Nat \ {0} /\ {MaxRecipeEdits, MaxRecipeStarts, MaxRecipeKills} \subseteq Nat

VARIABLES inputs,       \* the content in force
          editedAway,   \* history: contents that were edited while a run of them was on
          recipeEdits,
          recipeReport, \* the report: <<>> or <<[of, rows, sealed]>>
          history,      \* archived reports
          scratch,      \* [RecipeCell -> its directory]
          recipeRuns,   \* [RecipeRunner -> [on, report]]
          builders,     \* [RecipeRunner -> [RecipeCell -> [step, of, row]]]
          recipeOverlap,\* two runs were going at the same time
          recipeStarts, recipeKills

recipeFiles == <<recipeReport, history, scratch>>
recipeInputs == <<inputs, editedAway, recipeEdits>>
recipeVars == <<recipeInputs, recipeFiles, recipeRuns, builders, recipeOverlap,
                recipeStarts, recipeKills>>

Revision == 1 .. MaxInputs
NoResult == [status |-> "none", of |-> 0]
NoDirectory == [there |-> FALSE, state |-> NoResult]
EmptyDirectory == [there |-> TRUE, state |-> NoResult]
NewReport(plan) == [of |-> plan, rows |-> [c \in RecipeCell |-> NoResult], sealed |-> FALSE]
NotOn == [on |-> FALSE, report |-> NewReport(1)]
NoBuild == [step |-> "idle", of |-> 0, row |-> NoResult]

-----------------------------------------------------------------------------
RecipeInit ==
    /\ inputs = 1 /\ editedAway = {} /\ recipeEdits = 0
    /\ recipeReport = <<>> /\ history = {}
    /\ scratch = [c \in RecipeCell |-> NoDirectory]
    /\ recipeRuns = [r \in RecipeRunner |-> NotOn]
    /\ builders = [r \in RecipeRunner |-> [c \in RecipeCell |-> NoBuild]]
    /\ recipeOverlap = FALSE /\ recipeStarts = 0 /\ recipeKills = 0

Result == [status : {"none", "built", "failed"}, of : 0 .. MaxInputs]
RecipeTypeOK ==
    /\ inputs \in Revision /\ editedAway \subseteq Revision
    /\ \A r \in RecipeRunner : ~recipeRuns[r].on =>
         \A c \in RecipeCell : builders[r][c] = NoBuild
    /\ scratch \in [RecipeCell -> [there : BOOLEAN, state : Result]]
    /\ \A c \in RecipeCell : ~scratch[c].there => scratch[c] = NoDirectory

-----------------------------------------------------------------------------
\* _summarize: sealed once every cell is built.
WithRow(report, c, row) ==
    LET rows == [report.rows EXCEPT ![c] = row]
    IN  [report EXCEPT !.rows = rows,
                       !.sealed = \A d \in RecipeCell : rows[d].status = "built"]

\* The report names the plan's inputs: _load_report, recipe_qualification_status.
Current(report, plan) == report.of = plan

\* _load_report and _archive_stale_report; without --restart-stale a run
\* refuses other evidence.
StartRecipes(r) ==
    /\ ~recipeRuns[r].on /\ recipeStarts < MaxRecipeStarts
    /\ \/ /\ recipeReport = <<>>
          /\ recipeRuns' = [recipeRuns EXCEPT ![r] = [on |-> TRUE, report |-> NewReport(inputs)]]
          /\ UNCHANGED recipeFiles
       \/ /\ recipeReport # <<>> /\ Current(recipeReport[1], inputs)
          /\ recipeRuns' = [recipeRuns EXCEPT ![r] = [on |-> TRUE, report |-> recipeReport[1]]]
          /\ UNCHANGED recipeFiles
       \/ /\ recipeReport # <<>> /\ ~Current(recipeReport[1], inputs)
          /\ history' = history \cup {recipeReport[1]}
          /\ recipeReport' = <<>>
          /\ recipeRuns' = [recipeRuns EXCEPT ![r] = [on |-> TRUE, report |-> NewReport(inputs)]]
          /\ UNCHANGED scratch
    /\ builders' = [builders EXCEPT ![r] =
         [c \in RecipeCell |->
            IF recipeRuns'[r].report.rows[c].status = "built" THEN NoBuild
            ELSE [NoBuild EXCEPT !.step = "waits"]]]
    /\ recipeOverlap' = (recipeOverlap \/ \E q \in RecipeRunner : recipeRuns[q].on)
    /\ recipeStarts' = recipeStarts + 1
    /\ UNCHANGED <<recipeInputs, recipeKills>>

Builds(r, c, step) == builders[r][c].step = step
BuilderMoves(r, c, step, row) ==
    builders' = [builders EXCEPT ![r][c] = [step |-> step, of |-> builders[r][c].of, row |-> row]]
Working(r) == {c \in RecipeCell : builders[r][c].step \notin {"idle", "waits", "ends"}}

\* _run_cell: the directory of an earlier attempt goes, and the configuration
\* is read from the recipes as they are now.
BeginRecipe(r, c) ==
    /\ Builds(r, c, "waits") /\ Cardinality(Working(r)) < RecipeWorkers
    /\ scratch' = [scratch EXCEPT ![c] = EmptyDirectory]
    /\ builders' = [builders EXCEPT ![r][c] = [NoBuild EXCEPT !.step = "builds", !.of = inputs]]
    /\ UNCHANGED <<recipeInputs, recipeReport, history, recipeRuns, recipeOverlap, recipeStarts, recipeKills>>

\* execute_build_stage leaves the state of the cell, or raises.
BuildCell(r, c) ==
    /\ Builds(r, c, "builds")
    /\ \E status \in {"built", "failed"} :
         scratch' = [scratch EXCEPT ![c] =
            IF scratch[c].there
            THEN [there |-> TRUE, state |-> [status |-> status, of |-> builders[r][c].of]]
            ELSE scratch[c]]
    /\ BuilderMoves(r, c, "reads", NoResult)
    /\ UNCHANGED <<recipeInputs, recipeReport, history, recipeRuns, recipeOverlap, recipeStarts, recipeKills>>

\* The build raises: a row without a state, of a directory that stays.
FailedRecipe(r, c) == [status |-> "failed", of |-> builders[r][c].of]
RaiseCell(r, c) ==
    /\ Builds(r, c, "builds")
    /\ BuilderMoves(r, c, "ends", FailedRecipe(r, c))
    /\ UNCHANGED <<recipeInputs, recipeFiles, recipeRuns, recipeOverlap, recipeStarts, recipeKills>>

\* _result_from_state: without a state file the row is a pipeline error; the
\* directory of a built cell is removed.
ReadState(r, c) ==
    LET state == scratch[c].state IN
    /\ Builds(r, c, "reads")
    /\ BuilderMoves(r, c, "ends", IF state.status = "none" THEN FailedRecipe(r, c) ELSE state)
    /\ scratch' = IF state.status = "built" THEN [scratch EXCEPT ![c] = NoDirectory] ELSE scratch
    /\ UNCHANGED <<recipeInputs, recipeReport, history, recipeRuns, recipeOverlap, recipeStarts, recipeKills>>

\* A future completes: the row replaces the earlier ones and the report is
\* written.
RecordCell(r, c) ==
    LET report == WithRow(recipeRuns[r].report, c, builders[r][c].row) IN
    /\ Builds(r, c, "ends")
    /\ recipeRuns' = [recipeRuns EXCEPT ![r].report = report]
    /\ recipeReport' = <<report>>
    /\ builders' = [builders EXCEPT ![r][c] = NoBuild]
    /\ UNCHANGED <<recipeInputs, history, scratch, recipeOverlap, recipeStarts, recipeKills>>

EndRecipes(r) ==
    /\ recipeRuns[r].on /\ \A c \in RecipeCell : builders[r][c] = NoBuild
    /\ recipeRuns' = [recipeRuns EXCEPT ![r] = NotOn]
    /\ UNCHANGED <<recipeInputs, recipeFiles, builders, recipeOverlap, recipeStarts, recipeKills>>

KillRecipes(r) ==
    /\ recipeRuns[r].on /\ recipeKills < MaxRecipeKills
    /\ recipeRuns' = [recipeRuns EXCEPT ![r] = NotOn]
    /\ builders' = [builders EXCEPT ![r] = [c \in RecipeCell |-> NoBuild]]
    /\ recipeKills' = recipeKills + 1
    /\ UNCHANGED <<recipeInputs, recipeFiles, recipeOverlap, recipeStarts>>

\* A recipe, the authority or the implementation is edited, perhaps back.
ReviewInputs ==
    /\ recipeEdits < MaxRecipeEdits /\ recipeEdits' = recipeEdits + 1
    /\ inputs' \in Revision \ {inputs}
    /\ editedAway' = IF \E r \in RecipeRunner :
                          recipeRuns[r].on /\ Current(recipeRuns[r].report, inputs)
                     THEN editedAway \cup {inputs} ELSE editedAway
    /\ UNCHANGED <<recipeFiles, recipeRuns, builders, recipeOverlap, recipeStarts, recipeKills>>

RecipeNext ==
    \/ \E r \in RecipeRunner :
         \/ StartRecipes(r) \/ EndRecipes(r) \/ KillRecipes(r)
         \/ \E c \in RecipeCell :
              BeginRecipe(r, c) \/ BuildCell(r, c) \/ RaiseCell(r, c) \/ ReadState(r, c)
              \/ RecordCell(r, c)
    \/ ReviewInputs

RecipeSpec == RecipeInit /\ [][RecipeNext]_recipeVars

-----------------------------------------------------------------------------
\* recipe_qualification_status: the gate of qualification_pipeline.py.
RecipesQualified ==
    /\ recipeReport # <<>> /\ Current(recipeReport[1], inputs)
    /\ recipeReport[1].sealed
    /\ \A c \in RecipeCell : recipeReport[1].rows[c].status = "built"

\* A batch is promoted on builds of the inputs that are there now, although
\* inputs are edited and edited back between and during runs, and the evidence
\* of their content is continued (recipe_qualification.py, _load_report); unless
\* that content was edited while a run of it was on, whose later cells read what
\* they found (_run_cell).
PromotedAsBuilt ==
    RecipesQualified /\ ~recipeOverlap /\ inputs \notin editedAway =>
        \A c \in RecipeCell : recipeReport[1].rows[c].of = inputs

\* The directory named as failure evidence is there until the cell is tried
\* again (_result_from_state, _run_cell), unless a run was killed after that
\* retry removed it and before the row of the retry was written.
FailureEvidenceKept ==
    \A c \in RecipeCell :
        /\ recipeReport # <<>> /\ ~recipeOverlap /\ recipeKills = 0
        /\ \A r \in RecipeRunner : builders[r][c].step \in {"idle", "waits"}
        /\ recipeReport[1].rows[c].status = "failed"
        => scratch[c].there

\* What the recipe gate passes and what it keeps (recipe_qualification.py).
RecipesTrue == PromotedAsBuilt /\ FailureEvidenceKept
=============================================================================
