----------------------------- MODULE SmallIoctls -----------------------------
(***************************************************************************)
(* The ioctls that take several device accesses without a ring: PPS_START  *)
(* and PPS_READ (Pps) and AD8370_SET (Dsa), on one file and its one mutex. *)
(* A step of one leaves the other's device alone.                          *)
(***************************************************************************)
EXTENDS Pps

CONSTANTS Width, Least, Codes

ASSUME DsaAssumption ==
  /\ Width \in Nat /\ Least \in 1 .. Width
  /\ Codes \subseteq [1 .. Width -> {0, 1}]

VARIABLES at, code, left, clk, latch, data, shift, bits, att, asked

D == INSTANCE Dsa

IoInit == Init /\ D!Init

\* zynqsdr_ioctl admits one thread; the pulse's edges come when they come, and
\* the file is closed only when no ioctl is in progress.
IoNext ==
  \/ Next /\ UNCHANGED <<at, code, left, clk, latch, data, shift, bits, att, asked>>
  \/ D!Next /\ UNCHANGED <<unit, edges, since, pc, got, lost, starts>>

IoSpec == IoInit /\ [][IoNext]_<<vars, D!vars>>

\* See Dsa.
AttenuatorAsAsked == D!AttenuatorAsAsked
=============================================================================
