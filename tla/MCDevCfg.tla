------------------------------ MODULE MCDevCfg ------------------------------
(* Two programs and a file of one header byte, a two-byte sync word and three
   more bytes, in writes of two bytes, too short for the sync word, and of four,
   which leave an odd byte behind the header. *)
EXTENDS DevCfg, TLC

CONSTANTS p1, p2

TwoProcs == {p1, p2}
SomeChunks == {2, 4}

Symmetry == Permutations(TwoProcs)
=============================================================================
