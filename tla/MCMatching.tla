------------------------------ MODULE MCMatching ------------------------------
(***************************************************************************)
(* Two cases, one of them the canary's, and the schedule alone: one        *)
(* authority, one kill.                                                    *)
(***************************************************************************)
EXTENDS MatchingCampaign

MCWeightOf == [c \in Cases |-> 4 - c]
MCPopulationOf == <<1>>
MCDigestOf == <<1>>
MCEditOf == <<0>>
=============================================================================
