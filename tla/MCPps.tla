-------------------------------- MODULE MCPps --------------------------------
(* Two threads, a FIFO small enough to overflow; codes of 4 bits for the 8 of the part. *)
EXTENDS SmallIoctls, TLC

CONSTANTS t1, t2

TwoThreads == {t1, t2}
TwoCodes == {<<0, 0, 0, 1>>, <<1, 0, 1, 0>>}

Symmetry == Permutations(TwoThreads)
=============================================================================
