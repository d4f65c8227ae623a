----------------------------- MODULE MCZynqSdr -----------------------------
(* One process with two threads, and a second process that competes for the
   device; RX and one or two waterfall channels. *)
EXTENDS ZynqSdr, TLC

CONSTANTS p1, p2, t1, t2, t3, w0, w1, b1, b2, b3, d1, d2

ThreeThreads == {t1, t2, t3}
Owners == [t \in ThreeThreads |-> IF t = t3 THEN p2 ELSE p1]
Owners2 == [t \in {t1, t2} |-> p1]

\* The threads of p1, the waterfall channels, the buffers and the decimation
\* factors are interchangeable.
Symmetry == Permutations({t1, t2}) \cup Permutations({w0, w1})
              \cup Permutations({b1, b2, b3}) \cup Permutations({d1, d2})
=============================================================================
