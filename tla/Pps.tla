-------------------------------- MODULE Pps --------------------------------
(***************************************************************************)
(* The PPS unit of the PL (web888_pl.c: pps_update, pps_push, pps_read and *)
(* the CTRL_PPS edges of ctrl_changed) under the ioctls PPS_START and      *)
(* PPS_READ (zynqsdr.c).  The unit counts ADC clocks between two edges of  *)
(* the GPS pulse and queues the counts in a FIFO of 16; PPS_READ polls the *)
(* fill level in the status page and then pops the FIFO, two bus accesses  *)
(* that only the file's mutex keeps together.                              *)
(*                                                                         *)
(* A sample is identified by the number of the edge that ended its         *)
(* measurement; `since', `got' and `lost' are history variables.            *)
(***************************************************************************)
EXTENDS Integers, Sequences

CONSTANTS
  Threads,    \* threads of the process that has the device open
  Depth,      \* entries of the FIFO (WEB888_PPS_DEPTH, 16)
  MaxEdges,   \* bound: edges of the pulse
  MaxStarts   \* bound: PPS_START calls and reopens

ASSUME PpsAssumption == Depth \in Nat \ {0} /\ MaxEdges \in Nat /\ MaxStarts \in Nat

VARIABLES
  on,      \* the reset bit of the unit (pps_en)
  armed,   \* an edge has been seen since the bit rose (pps_armed)
  fifo,    \* the queued samples
  edges,   \* edges so far
  since,   \* edges at the last rise of the bit
  lock,    \* the file's mutex is held
  pc,      \* per thread: where its ioctl is
  got,     \* the samples PPS_READ has returned since the last rise
  lost,    \* a sample has gone with a failed PPS_READ since the last rise
  starts

unit == <<on, armed, fifo>>
vars == <<unit, edges, since, lock, pc, got, lost, starts>>

NoSample == 0     \* what a pop of the empty FIFO reads as

Init ==
  /\ on = FALSE /\ armed = FALSE /\ fifo = <<>>
  /\ edges = 0 /\ since = 0 /\ got = <<>> /\ lost = FALSE /\ starts = 0
  /\ lock = FALSE /\ pc = [t \in Threads |-> "user"]

\* Fault: a full FIFO gives up its oldest sample.
PushOver(e) ==
  IF ~on \/ ~armed THEN fifo
  ELSE IF Len(fifo) < Depth THEN Append(fifo, e) ELSE Append(Tail(fifo), e)

\* pps_push: the first edge after the bit rose only starts a measurement, and
\* a sample that finds the FIFO full is lost.
Push(e) == IF on /\ armed /\ Len(fifo) < Depth THEN Append(fifo, e) ELSE fifo

Edge ==
  /\ edges < MaxEdges
  /\ edges' = edges + 1
  /\ fifo' = Push(edges')
  /\ armed' = (armed \/ on)
  /\ UNCHANGED <<on, since, lock, pc, got, lost, starts>>

Step(t, from, to) == pc[t] = from /\ pc' = [pc EXCEPT ![t] = to]

\* PPS_START: the bit goes low, which stops the unit but keeps the FIFO, ...
StartLow(t) ==
  /\ Step(t, "user", "low") /\ ~lock /\ starts < MaxStarts
  /\ lock' = TRUE /\ starts' = starts + 1
  /\ on' = FALSE /\ armed' = FALSE
  /\ UNCHANGED <<fifo, edges, since, got, lost>>

\* ... and stays low when the argument is 0 ...
StartOff(t) ==
  /\ Step(t, "low", "user") /\ lock' = FALSE
  /\ UNCHANGED <<unit, edges, since, got, lost, starts>>

\* Fault: the rising bit leaves the FIFO alone.
RiseKeeps(t) ==
  /\ Step(t, "low", "user") /\ lock' = FALSE
  /\ on' = TRUE /\ armed' = FALSE /\ fifo' = fifo
  /\ since' = edges /\ got' = <<>> /\ lost' = FALSE
  /\ UNCHANGED <<edges, starts>>

\* ... or rises after 215 us, which empties the FIFO.
StartOn(t) ==
  /\ Step(t, "low", "user") /\ lock' = FALSE
  /\ on' = TRUE /\ armed' = FALSE /\ fifo' = <<>>
  /\ since' = edges /\ got' = <<>> /\ lost' = FALSE
  /\ UNCHANGED <<edges, starts>>

\* PPS_READ: a fill level of 0 is -EBUSY and changes nothing; otherwise ...
ReadCount(t) ==
  /\ fifo # <<>> /\ Step(t, "user", "pop") /\ ~lock
  /\ lock' = TRUE
  /\ UNCHANGED <<unit, edges, since, got, lost, starts>>

\* ... the word at the head of the FIFO is popped and returned.
ReadPop(t) ==
  /\ Step(t, "pop", "user") /\ lock' = FALSE
  /\ got' = Append(got, IF fifo = <<>> THEN NoSample ELSE Head(fifo))
  /\ fifo' = IF fifo = <<>> THEN fifo ELSE Tail(fifo)
  /\ UNCHANGED <<on, armed, edges, since, lost, starts>>

\* ... or lost, when it cannot be copied to the caller (-EFAULT).
ReadFault(t) ==
  /\ Step(t, "pop", "user") /\ lock' = FALSE
  /\ lost' = TRUE
  /\ fifo' = IF fifo = <<>> THEN fifo ELSE Tail(fifo)
  /\ UNCHANGED <<on, armed, edges, since, got, starts>>

\* The file is closed and the device opened again: open clears the register.
Reopen ==
  /\ ~lock /\ \A t \in Threads : pc[t] = "user"
  /\ starts < MaxStarts /\ starts' = starts + 1
  /\ on' = FALSE /\ armed' = FALSE
  /\ UNCHANGED <<fifo, edges, since, lock, pc, got, lost>>

Next ==
  \/ Edge \/ Reopen
  \/ \E t \in Threads : \/ StartLow(t) \/ StartOff(t) \/ StartOn(t)
                        \/ ReadCount(t) \/ ReadPop(t) \/ ReadFault(t)

Spec == Init /\ [][Next]_vars
-----------------------------------------------------------------------------
TypeOK ==
  /\ on \in BOOLEAN /\ armed \in BOOLEAN /\ fifo \in Seq(1 .. MaxEdges)
  /\ Len(fifo) <= Depth
  /\ edges \in 0 .. MaxEdges /\ since \in 0 .. MaxEdges /\ starts \in 0 .. MaxStarts
  /\ lock \in BOOLEAN /\ pc \in [Threads -> {"user", "low", "pop"}]
  /\ got \in Seq(0 .. MaxEdges) /\ lost \in BOOLEAN

\* What PPS_READ returns after PPS_START(1) was measured between two edges that both
\* came after it: nothing of an earlier session, no partial second, and never the
\* 0 of an empty FIFO, although the fill level and the FIFO are two accesses and
\* other threads read and restart the unit (the mutex of zynqsdr_ioctl).
WholeSeconds == \A k \in 1 .. Len(got) : got[k] >= since + 2

\* The readers together get each sample once and in order; a FIFO that overflowed
\* has kept the oldest, so that the first Depth samples come without a gap, unless a
\* call could not deliver one it had popped.
SamplesInOrder ==
  \A k \in 1 .. Len(got) :
    /\ k > 1 => got[k] > got[k - 1]
    /\ k <= Depth /\ ~lost => got[k] = since + 1 + k
=============================================================================
