--------------------------- MODULE MCStageWorker ---------------------------
(* Small instances of StageWorker for TLC. *)
EXTENDS StageWorker, TLC

Symmetry == Permutations(Consumers) \cup Permutations(Partitions) \cup Permutations(Events)
=============================================================================
