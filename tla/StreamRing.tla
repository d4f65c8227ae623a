----------------------------- MODULE StreamRing -----------------------------
(***************************************************************************)
(* The data path of one stream of /dev/zynqsdr: an engine of the PL        *)
(* (web888_pl.c, stream_start / stream_put) bus-masters bursts into a      *)
(* coherent ring and publishes a burst counter in the status page; the     *)
(* ioctls RX_READ and WF_READ (zynqsdr.c, zynqsdr_stream_read) compare the *)
(* counter with the driver's byte offset and copy.  Nothing else           *)
(* synchronises the two: the counter has no wrap bit and there is no       *)
(* interrupt.  RX_START, WF_START and the reset pulse of WF_PARAM restart  *)
(* the engine at the head of the ring and resynchronise the offset.        *)
(*                                                                         *)
(* The per-file mutex makes the ioctls of one stream sequential, so one    *)
(* program counter stands for whichever thread holds it (ZynqSdr models    *)
(* the mutex); the engine interleaves with every step.  A byte is          *)
(* identified by its position in the engine run that wrote it.             *)
(*                                                                         *)
(* pbase, cbase, out, lapped and dropped are history variables.            *)
(***************************************************************************)
EXTENDS Integers, Sequences

CONSTANTS
  Burst,      \* bytes per DMA burst (BURST, 128)
  NBursts,    \* bursts in the ring (0x7fc00 / 128 = 4088)
  Lengths,    \* request lengths of the read ioctls
  Limit,      \* bytes of a one-shot block
  MaxMade,    \* bound: bytes one engine run may produce
  MaxStarts,  \* bound: engine starts
  MaxFaults   \* bound: read calls that meet a bad user pointer

ASSUME RingAssumption ==
  /\ Burst \in Nat \ {0}
  /\ NBursts \in Nat \ {0}
  /\ Lengths \subseteq Nat \ {0}
  /\ Limit \in Nat
  /\ MaxMade \in Nat /\ MaxStarts \in Nat /\ MaxFaults \in Nat

VARIABLES
  run,        \* the engine is producing (st->run in the PL)
  oneshot,    \* the run is a one-shot block, not a continuous stream
  ptr,        \* burst counter published in the status page
  ring,       \* ring[i]: the byte stored at ring address i, or Stale
  armed,      \* st->armed
  offset,     \* st->offset: read position, in bytes
  pc,         \* where the ioctl that holds the mutex is
  remaining,  \* bytes the call still wants
  done,       \* bytes of the chunks the call has completed
  chunk,      \* size of the chunk being copied
  cpos,       \* bytes of that chunk copied so far
  pbase,      \* run position of the first byte of the engine's current lap
  cbase,      \* the same for the reader
  out,        \* bytes handed to the program since the last resync
  lapped,     \* the engine has overwritten a byte not yet copied
  dropped,    \* a failing call has discarded chunks it had consumed
  starts, faults

hw    == <<run, oneshot, ptr, ring, pbase>>
call  == <<pc, remaining, done, chunk, cpos>>
drv   == <<armed, offset, cbase>>
ghost == <<out, lapped, dropped>>
vars  == <<hw, call, drv, ghost, starts, faults>>

RingBytes == Burst * NBursts
Slots     == 0 .. RingBytes - 1
Stale     == -1     \* written by an earlier engine run, or never
Fifo      == ptr * Burst              \* ioread16(fifo_reg) << 7
Made      == pbase + Fifo             \* bytes produced by this engine run
Pos       == cbase + offset + cpos    \* run position of the next byte to copy

Smaller(a, b) == IF a <= b THEN a ELSE b

\* A one-shot block that stops one burst early (a fault TLC must notice).
BlockOpenShort(made) == ~oneshot \/ made + Burst < Limit

\* The engine goes on after `made' bytes: for ever, or until the block is full.
BlockOpen(made) == ~oneshot \/ made < Limit

Init ==
  /\ run = FALSE /\ oneshot = FALSE /\ ptr = 0 /\ ring = [i \in Slots |-> Stale] /\ pbase = 0
  /\ pc = "idle" /\ remaining = 0 /\ done = 0 /\ chunk = 0 /\ cpos = 0
  /\ armed = FALSE /\ offset = 0 /\ cbase = 0
  /\ out = <<>> /\ lapped = FALSE /\ dropped = FALSE
  /\ starts = 0 /\ faults = 0
-----------------------------------------------------------------------------
(* The engine. *)

\* stream_put: one burst goes to memory and the counter advances modulo the
\* ring; a one-shot engine stops by itself when its block is complete.
Produce ==
  /\ run
  /\ Made + Burst <= MaxMade
  /\ ring' = [i \in Slots |->
                IF i \in Fifo .. Fifo + Burst - 1 THEN pbase + i ELSE ring[i]]
  /\ ptr' = (ptr + 1) % NBursts
  /\ pbase' = IF ptr + 1 = NBursts THEN pbase + RingBytes ELSE pbase
  /\ run' = BlockOpen(Made + Burst)
  /\ lapped' = (lapped \/ (pc # "resync" /\ Made + Burst > Pos + RingBytes))
  /\ UNCHANGED <<oneshot, call, drv, out, dropped, starts, faults>>
-----------------------------------------------------------------------------
(* Arming, re-arming and the WF_PARAM pulse. *)

\* The channel's reset bit is cleared: the engine stops where it is.
StopEngine ==
  /\ pc = "idle" /\ starts < MaxStarts
  /\ run' = FALSE
  /\ pc' = "stopped"
  /\ starts' = starts + 1
  /\ UNCHANGED <<oneshot, ptr, ring, pbase, remaining, done, chunk, cpos, drv, ghost,
                 faults>>

\* dma_alloc_coherent failed on the first arm: -ENOMEM with the engine stopped.
ArmFails ==
  /\ pc = "stopped" /\ ~armed
  /\ pc' = "idle"
  /\ UNCHANGED <<hw, remaining, done, chunk, cpos, drv, ghost, starts, faults>>

\* The reset bit is set: the engine re-enters the ring at its head.  What the
\* ring holds is from now on left over from an earlier run.  RX streams for ever;
\* a waterfall channel produces a block or a stream, by its mode.
StartEngine ==
  /\ pc = "stopped"
  /\ run' = TRUE /\ oneshot' \in BOOLEAN /\ ptr' = 0 /\ pbase' = 0
  /\ ring' = [i \in Slots |-> Stale]
  /\ pc' = "resync"
  /\ UNCHANGED <<remaining, done, chunk, cpos, drv, ghost, starts, faults>>

\* The fault of a re-arm that forgets the consumer offset.
ResyncKeepsOffset ==
  /\ pc = "resync"
  /\ armed' = TRUE /\ UNCHANGED <<offset, cbase>>
  /\ out' = <<>> /\ lapped' = (Made > RingBytes) /\ dropped' = FALSE
  /\ pc' = "idle"
  /\ UNCHANGED <<hw, remaining, done, chunk, cpos, starts, faults>>

\* The consumer offset follows the engine back to the head, later than the
\* engine by however long the ioctl was preempted.
Resync ==
  /\ pc = "resync"
  /\ armed' = TRUE /\ offset' = 0 /\ cbase' = 0
  /\ out' = <<>> /\ lapped' = (Made > RingBytes) /\ dropped' = FALSE
  /\ pc' = "idle"
  /\ UNCHANGED <<hw, remaining, done, chunk, cpos, starts, faults>>
-----------------------------------------------------------------------------
(* RX_READ and WF_READ.  A read of a stream that was never armed returns 0
   bytes and changes nothing. *)

Call ==
  /\ pc = "idle" /\ armed
  /\ remaining' \in Lengths
  /\ pc' = "poll"
  /\ UNCHANGED <<hw, done, chunk, cpos, drv, ghost, starts, faults>>

\* The counter is behind the offset after a wrap: copy to the ring end first.
Poll ==
  /\ pc = "poll" /\ remaining > 0 /\ Fifo # offset
  /\ chunk' = Smaller(IF Fifo > offset THEN Fifo - offset ELSE RingBytes - offset,
                      remaining)
  /\ pc' = "copy"
  /\ UNCHANGED <<hw, remaining, done, cpos, drv, ghost, starts, faults>>

\* copy_to_user, a byte at a time: the engine may write between any two.
CopyByte ==
  /\ pc = "copy" /\ cpos < chunk
  /\ out' = Append(out, ring[offset + cpos])
  /\ cpos' = cpos + 1
  /\ UNCHANGED <<hw, pc, remaining, done, chunk, drv, lapped, dropped, starts, faults>>

\* Fault: the offset returns to the head after any copy that started behind the wrap,
\* even one the request cut short.
ChunkDoneToHead ==
  /\ pc = "copy" /\ cpos = chunk
  /\ offset' = IF Fifo < offset THEN 0 ELSE (offset + chunk) % RingBytes
  /\ cbase' = IF Fifo < offset \/ offset + chunk = RingBytes THEN cbase + RingBytes ELSE cbase
  /\ done' = done + chunk /\ remaining' = remaining - chunk
  /\ chunk' = 0 /\ cpos' = 0
  /\ pc' = "poll"
  /\ UNCHANGED <<hw, armed, ghost, starts, faults>>

ChunkDone ==
  /\ pc = "copy" /\ cpos = chunk
  /\ offset' = (offset + chunk) % RingBytes
  /\ cbase' = IF offset + chunk = RingBytes THEN cbase + RingBytes ELSE cbase
  /\ done' = done + chunk
  /\ remaining' = remaining - chunk
  /\ chunk' = 0 /\ cpos' = 0
  /\ pc' = "poll"
  /\ UNCHANGED <<hw, armed, ghost, starts, faults>>

\* The fault of a read that copies one chunk per call and stops at the wrap.
ReturnAfterOne ==
  /\ pc = "poll" /\ (remaining = 0 \/ Fifo = offset \/ done > 0)
  /\ pc' = "idle" /\ remaining' = 0 /\ done' = 0
  /\ UNCHANGED <<hw, chunk, cpos, drv, ghost, starts, faults>>

\* The request is filled, or the counter equals the offset: a short read.
Return ==
  /\ pc = "poll" /\ (remaining = 0 \/ Fifo = offset)
  /\ pc' = "idle" /\ remaining' = 0 /\ done' = 0
  /\ UNCHANGED <<hw, chunk, cpos, drv, ghost, starts, faults>>

\* -EFAULT, from the copy of a chunk or from writing `readed' back: the call
\* reports nothing, and the chunks it had completed stay consumed.  A chunk cut
\* short will be copied again, from slots the engine may have reused meanwhile.
Fault ==
  /\ faults < MaxFaults
  /\ \/ pc = "copy" /\ cpos < chunk
     \/ pc = "poll" /\ (remaining = 0 \/ Fifo = offset)
  /\ pc' = "idle" /\ remaining' = 0 /\ done' = 0 /\ chunk' = 0 /\ cpos' = 0
  /\ out' = SubSeq(out, 1, Len(out) - done - cpos)
  /\ dropped' = (dropped \/ done > 0)
  /\ lapped' = (lapped \/ Made > cbase + offset + RingBytes)
  /\ faults' = faults + 1
  /\ UNCHANGED <<hw, drv, starts>>
-----------------------------------------------------------------------------
Ioctl ==
  \/ StopEngine \/ ArmFails \/ StartEngine \/ Resync
  \/ Call \/ Poll \/ CopyByte \/ ChunkDone \/ Return \/ Fault

Next == Produce \/ Ioctl

Spec == Init /\ [][Next]_vars

\* The engine runs off the ADC clock, an ioctl that has started runs to its
\* end, and the data pump calls the read ioctl again after every short read.
\* Nothing obliges a program to arm, and no fault need happen.
Fairness ==
  /\ WF_vars(Produce)
  /\ WF_vars(StartEngine) /\ WF_vars(Resync)
  /\ WF_vars(Call) /\ WF_vars(Poll) /\ WF_vars(CopyByte)
  /\ WF_vars(ChunkDone) /\ WF_vars(Return)

LiveSpec == Spec /\ Fairness
-----------------------------------------------------------------------------
(* Properties. *)

TypeOK ==
  /\ run \in BOOLEAN /\ oneshot \in BOOLEAN /\ ptr \in 0 .. NBursts - 1 /\ pbase \in Nat
  /\ ring \in [Slots -> Int]
  /\ pc \in {"idle", "stopped", "resync", "poll", "copy"}
  /\ remaining \in Nat /\ done \in Nat /\ chunk \in Nat /\ cpos \in Nat
  /\ armed \in BOOLEAN /\ offset \in Slots /\ cbase \in Nat
  /\ out \in Seq(Int) /\ lapped \in BOOLEAN /\ dropped \in BOOLEAN
  /\ starts \in Nat /\ faults \in Nat

\* Unless the engine lapped the reader or a failing call discarded data, the
\* program receives the bytes of the current run in order, none missing and
\* none twice, across ring wraps, partial reads and re-arms
\* (zynqsdr_stream_read against stream_put).
InOrder == ~lapped /\ ~dropped => \A k \in 1 .. Len(out) : out[k] = k - 1

\* Even after an overrun no byte of an earlier engine run is handed out as
\* data of the current one: the hazard fix S1 (resync on every re-arm) is for.
FreshOnly == \A k \in 1 .. Len(out) : out[k] # Stale

\* An undetected overrun skips whole rings: each byte keeps its place modulo
\* the ring size, so framing survives an overrun exactly when the ring is a
\* multiple of the frame.  (The ring, 0x7fc00 bytes, is not a multiple of the
\* 96-byte frame of 12 channels.)
WholeRingSkips ==
  ~dropped => \A k \in 1 .. Len(out) : (out[k] - (k - 1)) % RingBytes = 0

\* A read call that ends short has met an empty ring or one exactly full,
\* which the counter cannot tell apart; it never gives up with data before
\* the wrap or after it.
ShortReadDrained ==
  [][pc = "poll" /\ pc' = "idle" /\ remaining > 0 /\ ~lapped
       => Made - Pos \in {0, RingBytes}]_vars

\* A one-shot block that fits the ring is delivered whole to a program that
\* keeps reading, unless it is restarted or one of its calls fails.
BlockDelivered ==
  \A s \in 1 .. MaxStarts :
    (starts = s /\ pc = "idle" /\ armed /\ oneshot)
      ~> (starts > s \/ Len(out) = Limit \/ dropped)
-----------------------------------------------------------------------------
(* The abstract stream this data path implements. *)

Reported == SubSeq(out, 1, Len(out) - done - cpos)

Promise == INSTANCE SampleStream WITH
  Capacity <- RingBytes,
  made     <- Made,
  got      <- IF pc = "resync" THEN <<>> ELSE Reported,
  lossy    <- IF pc = "resync" THEN Made > RingBytes ELSE lapped \/ dropped

\* The ring, the counter and the offset implement the promised stream.
ImplementsStream == Promise!Spec
=============================================================================
