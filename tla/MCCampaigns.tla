----------------------------- MODULE MCCampaigns -----------------------------
(***************************************************************************)
(* Unattended campaigns, in one run: the queue, machine validation, the    *)
(* linked-reference retrofit, function matching, the build pipeline, the   *)
(* execution of cells, the two qualifications and the hash evidence share  *)
(* no variable, a state is a state of one of them and the others rest in   *)
(* their initial states.  Nothing else differs from the models on their    *)
(* own.                                                                    *)
(*                                                                         *)
(* Service: the queue of MCService.  Validation: two positions, two worker *)
(* slots, a run and its resumption.  Retrofit: a task for each of two      *)
(* slots.  Matching: two cases, one of them the canary's, a scheduled      *)
(* runner and an operator, an edit of the authority to one that names no   *)
(* reference or to one that does.  Pipeline: two groups of two libraries,  *)
(* three runs and one kill.  Cells: one of each kind, a queue worker that  *)
(* keeps its resolver, a remote one that does not, one review.  Links: two *)
(* cells in batches of one, two qualifiers, a validation run, a kill and a *)
(* power loss.  Recipes: two cells, two runs, two edits of the inputs,     *)
(* perhaps back.  Hashes: three runs, of which one was analysed before and *)
(* one failed before, and three analyses.                                  *)
(* States with workers that outlived their supervisor in an earlier run,   *)
(* and with two qualifiers at work, are not explored further: the          *)
(* properties exempt them.                                                 *)
(***************************************************************************)
EXTENDS MCService, ValidationRun, LinkedRetrofit, MatchingCampaign, Pipeline,
    CellExecution, LinkQualification, RecipeQualification, HashEvidence, TLC

CONSTANTS t1, t2, u1, u2, r1, r2, local, remote, q1, q2, validator, k1, k2,
          z0, z1, z2, o1, o2, o3, o4, o5, g1, g2, analyst1, analyst2, analyst3

VARIABLE part

MCQueue == <<1, 2>>
MCChunks == [s \in Slot |-> IF s = u1 THEN {t1} ELSE {t2}]
MCWeightOf == [c \in Cases |-> 4 - c]
MCTextOf == <<1, 2, 3>>
MCMethodOf == <<1, 1, 1>>
MCPopulationOf == <<1, 1, 1>>
MCEditOf == <<0, 1, 1>>
MCKindOf == [c \in QueuedCell |-> c]
MCLinkQueue == <<1, 2>>

MCExact == (o1 :> {g2}) @@ (o2 :> {}) @@ (o3 :> {g1}) @@ (o4 :> {g1}) @@ (o5 :> {g1})
MCFoldsOf ==
    (z0 :> {[present |-> {o5}, asked |-> {g1}]})
    @@ (z1 :> {[present |-> {o1}, asked |-> {g2}], [present |-> {o2}, asked |-> {}]})
    @@ (z2 :> {[present |-> {o3}, asked |-> {g1}], [present |-> {o4}, asked |-> {g2}]})
MCRoleOf == (analyst1 :> "runner") @@ (analyst2 :> "schedule") @@ (analyst3 :> "operator")

MCBound == (orphaned => sup.attempt = 1) /\ ~survived /\ ~overlapped /\ ~recipeOverlap

Only(p) ==
    /\ part = p /\ part' = p
    /\ IF p = "service" THEN TRUE ELSE UNCHANGED vars
    /\ IF p = "validation" THEN TRUE ELSE UNCHANGED validationVars
    /\ IF p = "retrofit" THEN TRUE ELSE UNCHANGED retrofitVars
    /\ IF p = "matching" THEN TRUE ELSE UNCHANGED campaignVars
    /\ IF p = "pipeline" THEN TRUE ELSE UNCHANGED pipelineVars
    /\ IF p = "cells" THEN TRUE ELSE UNCHANGED cellVars
    /\ IF p = "links" THEN TRUE ELSE UNCHANGED linkVars
    /\ IF p = "recipes" THEN TRUE ELSE UNCHANGED recipeVars
    /\ IF p = "hashes" THEN TRUE ELSE UNCHANGED hashVars

CampaignsInit ==
    /\ part \in {"service", "validation", "retrofit", "matching", "pipeline", "cells",
                 "links", "recipes", "hashes"}
    /\ Init /\ ValidationInit /\ RetrofitInit /\ CampaignInit /\ PipelineInit /\ CellInit
    /\ LinkInit /\ RecipeInit /\ HashInit
    /\ part # "hashes" => index = <<>>
    /\ part # "pipeline" => staged

CampaignsNext ==
    \/ Only("service") /\ ServiceNext
    \/ Only("validation") /\ ValidationNext
    \/ Only("retrofit") /\ RetrofitNext
    \/ Only("matching") /\ CampaignNext
    \/ Only("pipeline") /\ PipelineNext
    \/ Only("cells") /\ CellNext
    \/ Only("links") /\ LinkNext
    \/ Only("recipes") /\ RecipeNext
    \/ Only("hashes") /\ HashNext

CampaignsSpec ==
    CampaignsInit
    /\ [][CampaignsNext]_<<part, vars, validationVars, retrofitVars, campaignVars,
                        pipelineVars, cellVars, linkVars, recipeVars, hashVars>>

-----------------------------------------------------------------------------
\* The files, locks and processes of every campaign keep to what its code
\* writes, holds and starts.
CampaignsTypeOK ==
    /\ part = "validation" => ValidationTypeOK
    /\ part = "retrofit" => RetrofitTypeOK
    /\ part = "matching" => CampaignTypeOK
    /\ part = "pipeline" => PipelineTypeOK
    /\ part = "cells" => CellTypeOK
    /\ part = "links" => LinkTypeOK
    /\ part = "recipes" => RecipeTypeOK
    /\ part = "hashes" => HashTypeOK

\* ReportsSound of function matching (fid_matching_campaign.py).
MatchingHolds == part = "matching" => ReportsSound

\* What a build and a cell publish is what they name: ManifestHonest of the
\* pipeline's manifest and SealsTrue of a sealed cell (cell_runner.py,
\* pipeline.py).
OutputsTrue ==
    /\ part = "pipeline" => ManifestHonest
    /\ part = "cells" => SealsTrue

\* What a sealed qualification says is true of what it qualified, and stays
\* true of what the validation run takes over: LinksTrue of the linked images
\* (machine_validation_links.py), RecipesTrue of the builds that promote a
\* batch (recipe_qualification.py), ReportBacked of the hash reports of a run
\* (machine_validation_hashes.py).
QualificationsTrue ==
    /\ part = "links" => LinksTrue
    /\ part = "recipes" => RecipesTrue
    /\ part = "hashes" => ReportBacked

\* What the hash analyses add up to: IndexExact of the corpus index
\* (corpus_hash_index.py).
HashesTrue == part = "hashes" => IndexExact
=============================================================================
