----------------------------- MODULE MCNetwork -----------------------------
(* An instance of both network helpers.  They share no state: each is explored while the
   other has not been asked for anything, as no property looks at both. *)
EXTENDS NetConfig, WifiConfig, TLC

NetworkInit == Init /\ WifiInit

NetworkNext ==
  \/ requests = 0 /\ faults = 0 /\ Next /\ UNCHANGED wifi
  \/ cmds = 0 /\ WifiNext /\ UNCHANGED vars

NetworkSpec == NetworkInit /\ [][NetworkNext]_<<vars, wifi>>

Interchangeable ==
  Permutations(Addrs) \cup Permutations(Names) \cup Permutations(Applies)
    \cup Permutations(Contents)
=============================================================================
