---------------------------- MODULE MCFpgaSelect ----------------------------
(* Two selects, two loads and two versions of the open bitstream. *)
EXTENDS FpgaSelect, TLC

CONSTANTS s1, s2, l1, l2, d1, d2

TwoSelectors == {s1, s2}
TwoLoaders == {l1, l2}
TwoDigests == {d1, d2}

Symmetry == Permutations(TwoSelectors) \cup Permutations(TwoLoaders) \cup Permutations(TwoDigests)
=============================================================================
