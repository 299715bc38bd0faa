--------------------------- MODULE MCReplayCache ---------------------------
(* ReplayCache for TLC: connections and sequences are interchangeable.      *)
EXTENDS ReplayCache, TLC

Symmetry == Permutations(Conns) \cup Permutations(Sequences)
=============================================================================
