--------------------------- MODULE MCSuchATricky1 ----------------------------
(* SuchATricky1 for TLC: the sessions are alike, up to the byte orders of     *)
(* their clients, which Init chooses freely.                                  *)
EXTENDS SuchATricky1, TLC

Symmetry == Permutations(Sessions)
=============================================================================
