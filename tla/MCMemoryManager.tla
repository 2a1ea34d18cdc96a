--------------------------- MODULE MCMemoryManager ---------------------------
(* Instances of MemoryManager for TLC.                                      *)
EXTENDS MemoryManager, TLC

(* No property tells two calls of Start or of Stop apart.                   *)
Symmetry == Permutations(Starters) \cup Permutations(Stoppers)

==============================================================================
