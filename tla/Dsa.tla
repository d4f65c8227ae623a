-------------------------------- MODULE Dsa --------------------------------
(***************************************************************************)
(* AD8370_SET (zynqsdr.c, zynqsdr_dsa_write) sets the step attenuator by   *)
(* moving three GPIO lines one at a time; the part (web888_pl.c, gpio_in)  *)
(* only sees their edges: a rising clock shifts the data line in, a rising *)
(* latch takes over what has been shifted.  Nothing but the file's mutex   *)
(* keeps the edges of two calls apart.                                     *)
(***************************************************************************)
EXTENDS Integers

CONSTANTS
  Threads,    \* threads of the process that has the device open
  Width,      \* bits sent per call (8)
  Least,      \* fewer bits before a latch edge are ignored (6)
  Codes       \* attenuator codes the program asks for, each Width bits, the first
              \* the most significant

VARIABLES
  lock,             \* the file's mutex is held
  at,               \* per thread: where its AD8370_SET is
  code,             \* per thread: the code it sends
  left,             \* per thread: how many of its bits are still to send
  clk, latch, data, \* the lines
  shift, bits,      \* the part's shift register, and edges since the last latch
  att,              \* the code it applies
  asked             \* history: the code of the last call that returned

caller == <<at, code, left>>
part   == <<clk, latch, data, shift, bits, att>>
vars   == <<lock, caller, part, asked>>

Code == [1 .. Width -> {0, 1}]

Start == [i \in 1 .. Width |-> 0]      \* the attenuation after power-up, 0 dB

Init ==
  /\ lock = FALSE
  /\ at = [t \in Threads |-> "user"]
  /\ code = [t \in Threads |-> Start] /\ left = [t \in Threads |-> 0]
  /\ clk = 0 /\ latch = 0 /\ data = 0      \* GPIOD_OUT_LOW
  /\ shift = Start /\ bits = 0 /\ att = Start /\ asked = Start

Goto(t, from, to) == at[t] = from /\ at' = [at EXCEPT ![t] = to]

\* The part: an edge on the clock line ...
Clock(level) ==
  /\ clk' = level
  /\ IF clk = 0 /\ level = 1
       THEN /\ shift' = [i \in 1 .. Width |-> IF i < Width THEN shift[i + 1] ELSE data]
            /\ bits' = bits + 1
       ELSE UNCHANGED <<shift, bits>>
  /\ UNCHANGED <<latch, data, att>>

\* ... and one on the latch line.
Latch(level) ==
  /\ latch' = level
  /\ IF latch = 0 /\ level = 1
       THEN /\ att' = IF bits >= Least THEN shift ELSE att
            /\ shift' = Start /\ bits' = 0
       ELSE UNCHANGED <<shift, bits, att>>
  /\ UNCHANGED <<clk, data>>

\* Fault: AD8370_SET does not wait for the mutex.
EnterUnlocked(t) ==
  /\ Goto(t, "user", "low") /\ lock' = TRUE
  /\ \E c \in Codes : code' = [code EXCEPT ![t] = c]
  /\ left' = [left EXCEPT ![t] = Width]
  /\ UNCHANGED <<part, asked>>

\* The ioctl takes the mutex; an argument above 255 is refused before anything moves.
Enter(t) ==
  /\ Goto(t, "user", "low") /\ ~lock /\ lock' = TRUE
  /\ \E c \in Codes : code' = [code EXCEPT ![t] = c]
  /\ left' = [left EXCEPT ![t] = Width]
  /\ UNCHANGED <<part, asked>>

\* Latch low, then clock low.
LatchLow(t) ==
  /\ Goto(t, "low", "clkLow")
  /\ Latch(0)
  /\ UNCHANGED <<lock, code, left, asked>>

\* The clock goes low, before the first bit and after each.
ClockLow(t) ==
  /\ Goto(t, "clkLow", IF left[t] = 0 THEN "latch" ELSE "data")
  /\ Clock(0)
  /\ UNCHANGED <<lock, code, left, asked>>

\* Bits go out from the most significant one down.
SetData(t) ==
  /\ Goto(t, "data", "clkHigh")
  /\ data' = code[t][Width - left[t] + 1]
  /\ left' = [left EXCEPT ![t] = left[t] - 1]
  /\ UNCHANGED <<lock, code, clk, latch, shift, bits, att, asked>>

ClockHigh(t) ==
  /\ Goto(t, "clkHigh", "clkLow")
  /\ Clock(1)
  /\ UNCHANGED <<lock, code, left, asked>>

\* The latch goes high and the call returns.
Return(t) ==
  /\ Goto(t, "latch", "user") /\ lock' = FALSE
  /\ Latch(1)
  /\ asked' = code[t]
  /\ UNCHANGED <<code, left>>

DsaStep(t) ==
  Enter(t) \/ LatchLow(t) \/ ClockLow(t) \/ SetData(t) \/ ClockHigh(t) \/ Return(t)

Next == \E t \in Threads : DsaStep(t)

Spec == Init /\ [][Next]_vars
-----------------------------------------------------------------------------
\* The part applies the code of the last call that returned, all of it and at every
\* instant: a call in progress, or two that contend, never leave it a mixture.
AttenuatorAsAsked == att = asked
=============================================================================
