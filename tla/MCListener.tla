----------------------------- MODULE MCListener -----------------------------
(* Instances of Listener for TLC.                                           *)
EXTENDS Listener, TLC

(* No safety property tells listeners, streams or callers apart.            *)
Symmetry == Permutations(Listeners) \cup Permutations(Streams) \cup Permutations(Callers)

=============================================================================
