--------------------------- MODULE MCStreamRing ---------------------------
(* A ring of three two-byte bursts: requests that split a burst, that end at
   the ring end and that span the wrap. *)
EXTENDS StreamRing

OddAndFull == {3, 6}
=============================================================================
