----------------------------- MODULE MCRetention -----------------------------
(***************************************************************************)
(* One validation run and the runner that collects after it: the least     *)
(* instance in which a run keeps the composites it should have pruned.     *)
(***************************************************************************)
EXTENDS Retention

MCTriggerOf == [c \in Collector |-> "validation"]
=============================================================================
