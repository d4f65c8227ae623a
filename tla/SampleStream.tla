---------------------------- MODULE SampleStream ----------------------------
(***************************************************************************)
(* What one RX or waterfall stream promises to the program that reads it,  *)
(* with the DMA ring, the producer counter and the read offset abstracted  *)
(* away: the bytes of one engine run come out in order, each exactly once, *)
(* until either the reader falls more than Capacity bytes behind or a read *)
(* call fails half way.  After that nothing is promised until the engine   *)
(* is started again.                                                       *)
(*                                                                         *)
(* A byte is identified by its position in the engine run, so "in order,   *)
(* exactly once" is got = <<0, 1, 2, ...>>.                                *)
(***************************************************************************)
EXTENDS Integers, Sequences

CONSTANTS
  Capacity,   \* bytes the stream may run ahead of the reader
  Burst       \* bytes the engine produces at a time

VARIABLES
  made,       \* bytes produced since the engine was last started
  got,        \* what read calls have reported since then
  lossy       \* the promise no longer holds in this run

vars == <<made, got, lossy>>

Init == made = 0 /\ got = <<>> /\ lossy = FALSE

\* An arm, a re-arm or a decimation change starts a new run.  By the time the
\* reader is let in again the engine may already have run past Capacity.
Restart == made' = 0 /\ got' = <<>> /\ lossy' = FALSE

\* The promise may be given up only when the backlog exceeds the capacity.
Make ==
  /\ made' = made + Burst
  /\ lossy' \in {lossy, made' > Len(got) + Capacity \/ lossy}
  /\ UNCHANGED got

\* A successful read call of n bytes.
Deliver ==
  /\ \E n \in 1 .. made :
       /\ Len(got') = Len(got) + n
       /\ SubSeq(got', 1, Len(got)) = got
       /\ ~lossy => /\ Len(got') <= made
                    /\ \A k \in Len(got) + 1 .. Len(got') : got'[k] = k - 1
  /\ UNCHANGED <<made, lossy>>

\* A read call that fails after it has moved the read position.
Fail == lossy' = TRUE /\ UNCHANGED <<made, got>>

Next == Restart \/ Make \/ Deliver \/ Fail

Spec == Init /\ [][Next]_vars
=============================================================================
