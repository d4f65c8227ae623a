--------------------------- MODULE MCWifiConfig ---------------------------
(* An instance of WifiConfig with interchangeable applies and contents. *)
EXTENDS WifiConfig, TLC

Interchangeable == Permutations(Applies) \cup Permutations(Contents)
=============================================================================
