----------------------------- MODULE MCBootChain -----------------------------
(* Three kernel versions, two boot files, two newer versions of them. *)
EXTENDS BootChain

TwoFiles == <<"boot.bin", "boot.scr">>
=============================================================================
