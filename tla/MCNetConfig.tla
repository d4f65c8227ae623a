---------------------------- MODULE MCNetConfig ----------------------------
(* An instance of NetConfig with interchangeable addresses and names. *)
EXTENDS NetConfig, TLC

Interchangeable == Permutations(Addrs) \cup Permutations(Names)
=============================================================================
