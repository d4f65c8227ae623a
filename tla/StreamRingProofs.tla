-------------------------- MODULE StreamRingProofs --------------------------
(***************************************************************************)
(* What StreamRing's runs check on a ring of a few bursts, proved for every *)
(* burst size, ring size, request length and block length.                 *)
(*                                                                         *)
(* InOrder is not inductive: that a copied byte is the next one depends on *)
(* what the ring holds, on where the reader is relative to the engine and  *)
(* on the chunk having been computed from an older counter.  IInv states   *)
(* these three facts.                                                      *)
(***************************************************************************)
EXTENDS StreamRing, TLAPS

\* Behind the write position lies the current lap, ahead of it the lap before.
RingContents ==
  \A i \in Slots :
    ring[i] = IF i < Fifo THEN pbase + i
              ELSE IF pbase = 0 THEN Stale ELSE pbase - RingBytes + i

\* What the fields of a call hold at each point of it.
CallShape ==
  /\ pc \in {"idle", "stopped", "resync"} => done = 0
  /\ pc # "copy" => chunk = 0 /\ cpos = 0
  /\ pc = "copy" => /\ cpos <= chunk /\ chunk <= remaining
                    /\ offset + chunk <= RingBytes
  /\ done + cpos <= Len(out)

\* The reader is on the engine's lap and has nothing beyond the counter in
\* hand, or it is at least one lap behind; a whole number of laps separate them.
ReaderBehind ==
  /\ pbase % RingBytes = 0
  /\ pc # "resync" =>
       /\ (pbase - cbase) % RingBytes = 0
       /\ \/ pbase = cbase /\ offset + chunk <= Fifo
          \/ pbase >= cbase + RingBytes
       /\ ~lapped => Made <= Pos + RingBytes

\* The bytes handed out, as far as the reader's position accounts for them.
OutMatches ==
  /\ ~dropped => Len(out) = Pos
  /\ \A k \in 1 .. Len(out) : out[k] \in Nat
  /\ WholeRingSkips
  /\ InOrder

IInv == TypeOK /\ RingContents /\ CallShape /\ ReaderBehind /\ OutMatches
-----------------------------------------------------------------------------
(* Division with remainder: facts the provers do not find by themselves when the
   modulus is a parameter. *)

\* What \div and % mean.
LEMMA Division ==
  ASSUME NEW n \in Nat \ {0}, NEW x \in Int
  PROVE  /\ x \div n \in Int
         /\ x % n \in 0 .. n - 1
         /\ x = n * (x \div n) + (x % n)
  OBVIOUS

\* A multiple of n strictly between -n and n is zero.
LEMMA SmallMultiple ==
  ASSUME NEW n \in Nat \ {0}, NEW q \in Int, -n < n * q, n * q < n
  PROVE  q = 0
<1>1. CASE q >= 1
  <2>1. n * q >= n  BY <1>1
  <2>. QED BY <2>1
<1>2. CASE q <= -1
  <2>1. n * q <= -n  BY <1>2
  <2>. QED BY <2>1
<1>. QED BY <1>1, <1>2

\* The remainder is the only one: n*q + r has remainder r.
LEMMA Remainder ==
  ASSUME NEW n \in Nat \ {0}, NEW q \in Int, NEW r \in 0 .. n - 1
  PROVE  (n * q + r) % n = r
<1>. DEFINE x == n * q + r
            d == x \div n
            m == x % n
<1>0. x \in Int  OBVIOUS
<1>1. d \in Int /\ m \in 0 .. n - 1 /\ x = n * d + m  BY <1>0, Division
<1>2. n * (q - d) = m - r  BY <1>1
<1>3. q - d \in Int /\ -n < n * (q - d) /\ n * (q - d) < n  BY <1>1, <1>2
<1>4. q - d = 0  BY <1>3, SmallMultiple
<1>5. m = r  BY <1>1, <1>2, <1>4
<1>. QED BY <1>5

\* Going once around changes nothing.
LEMMA AddModulus ==
  ASSUME NEW n \in Nat \ {0}, NEW x \in Int
  PROVE  (x + n) % n = x % n
<1>. DEFINE d == x \div n
            m == x % n
<1>1. d \in Int /\ m \in 0 .. n - 1 /\ x = n * d + m  BY Division
<1>2. x + n = n * (d + 1) + m  BY <1>1
<1>3. \A q \in Int : (n * q + m) % n = m  BY <1>1, Remainder
<1>4. d + 1 \in Int  BY <1>1
<1>5. (n * (d + 1) + m) % n = m  BY <1>3, <1>4
<1>. QED BY <1>2, <1>5

LEMMA SubModulus ==
  ASSUME NEW n \in Nat \ {0}, NEW x \in Int
  PROVE  (x - n) % n = x % n
<1>1. \A y \in Int : (y + n) % n = y % n  BY AddModulus
<1>2. x - n \in Int /\ (x - n) + n = x  OBVIOUS
<1>. QED BY <1>1, <1>2

\* One step along a ring of n places.
LEMMA RingStep ==
  ASSUME NEW n \in Nat \ {0}, NEW x \in 0 .. n
  PROVE  x % n = IF x = n THEN 0 ELSE x
  OBVIOUS

\* A positive multiple of n is at least n.
LEMMA PositiveMultiple ==
  ASSUME NEW n \in Nat \ {0}, NEW x \in Nat, x % n = 0, x > 0
  PROVE  x >= n
  OBVIOUS
-----------------------------------------------------------------------------
(* Arithmetic of the ring. *)

LEMMA RingSize == RingBytes \in Nat \ {0}
  BY RingAssumption DEF RingBytes

\* The byte value of the counter stays inside the ring, leaves room for a
\* burst, and advances by one burst or wraps to 0.
LEMMA FifoStep ==
  ASSUME ptr \in 0 .. NBursts - 1
  PROVE  /\ Fifo \in Nat
         /\ Fifo + Burst <= RingBytes
         /\ (ptr + 1) % NBursts \in 0 .. NBursts - 1
         /\ ptr + 1 # NBursts => ((ptr + 1) % NBursts) * Burst = Fifo + Burst
         /\ ptr + 1 = NBursts => /\ ((ptr + 1) % NBursts) * Burst = 0
                                 /\ Fifo + Burst = RingBytes
<1>. USE RingAssumption
<1>1. ptr + 1 \in 0 .. NBursts  OBVIOUS
<1>2. (ptr + 1) % NBursts = IF ptr + 1 = NBursts THEN 0 ELSE ptr + 1
  BY <1>1, RingStep
<1>3. Fifo \in Nat  BY DEF Fifo
<1>4. Fifo + Burst = (ptr + 1) * Burst  BY DEF Fifo
<1>5. (ptr + 1) * Burst <= RingBytes  BY DEF RingBytes
<1>6. ptr + 1 = NBursts => (ptr + 1) * Burst = RingBytes  BY DEF RingBytes
<1>. QED BY <1>2, <1>3, <1>4, <1>5, <1>6

\* What the reader finds at its position, when the chunk in hand says there is
\* a byte to copy: a byte of the current run, in its place modulo the ring, and
\* the very next one unless the reader was lapped.
LEMMA NextByte ==
  ASSUME TypeOK, RingContents, CallShape, ReaderBehind, pc = "copy", cpos < chunk
  PROVE  /\ offset + cpos \in Slots
         /\ ring[offset + cpos] \in Nat
         /\ (ring[offset + cpos] - Pos) % RingBytes = 0
         /\ ~lapped => ring[offset + cpos] = Pos
<1>. USE RingSize, RingAssumption DEF TypeOK, Slots
<1>. DEFINE i == offset + cpos
<1>1. i \in Slots  BY DEF CallShape
<1>2. Fifo \in Nat  BY FifoStep
<1>3. ring[i] = IF i < Fifo THEN pbase + i
                ELSE IF pbase = 0 THEN Stale ELSE pbase - RingBytes + i
  BY <1>1 DEF RingContents
<1>4. (pbase - cbase) % RingBytes = 0  BY DEF ReaderBehind
<1>5. (pbase - cbase - RingBytes) % RingBytes = 0
  <2>1. \A x \in Int : (x - RingBytes) % RingBytes = x % RingBytes  BY SubModulus
  <2>2. pbase - cbase \in Int  OBVIOUS
  <2>. QED BY <1>4, <2>1, <2>2
<1>6. CASE pbase = cbase /\ offset + chunk <= Fifo
  <2>1. i < Fifo  BY <1>2, <1>6
  <2>2. ring[i] = Pos  BY <1>3, <1>6, <2>1 DEF Pos
  <2>3. ring[i] - Pos = pbase - cbase  BY <1>3, <1>6, <2>1, <2>2 DEF Pos
  <2>. QED BY <1>1, <1>4, <1>6, <2>2, <2>3 DEF Pos
<1>7. CASE pbase >= cbase + RingBytes
  <2>1. pbase # 0  BY <1>7
  <2>2. ring[i] \in Nat  BY <1>3, <1>7, <2>1, <1>1
  <2>3. ring[i] - Pos = pbase - cbase \/ ring[i] - Pos = pbase - cbase - RingBytes
    BY <1>3, <2>1, <1>1 DEF Pos
  <2>4. ASSUME ~lapped  PROVE ring[i] = Pos
    <3>1. pbase + Fifo <= Pos + RingBytes  BY <2>4 DEF ReaderBehind, Made
    <3>2. Pos = cbase + i /\ i < RingBytes  BY <1>1 DEF Pos
    <3>3. pbase < cbase + RingBytes + RingBytes  BY <1>2, <3>1, <3>2
    <3>4. pbase - cbase - RingBytes \in Nat  BY <1>7
    <3>5. pbase - cbase - RingBytes = 0
      <4>1. \A x \in Nat : x % RingBytes = 0 /\ x > 0 => x >= RingBytes
        BY PositiveMultiple
      <4>. DEFINE d == pbase - cbase - RingBytes
      <4>2. d \in Nat /\ d < RingBytes /\ d % RingBytes = 0
        BY <1>5, <3>3, <3>4
      <4>. HIDE DEF d
      <4>3. d > 0 => d >= RingBytes  BY <4>1, <4>2
      <4>4. d = 0
        <5>1. RingBytes \in Nat  BY RingSize
        <5>. QED BY <4>2, <4>3, <5>1
      <4>. QED BY <4>4 DEF d
    <3>6. i >= Fifo  BY <1>2, <3>1, <3>2, <3>5
    <3>. QED BY <1>2, <1>3, <2>1, <3>2, <3>5, <3>6
  <2>. QED BY <1>1, <1>4, <1>5, <2>2, <2>3, <2>4
<1>. QED BY <1>6, <1>7 DEF ReaderBehind
-----------------------------------------------------------------------------
(* The invariant is inductive: one lemma per action that moves data. *)

LEMMA InitIInv == Init => IInv
<1>. SUFFICES ASSUME Init PROVE IInv  OBVIOUS
<1>. USE RingSize, RingAssumption DEF Init
<1>1. Fifo = 0  BY DEF Fifo
<1>2. TypeOK
  <2>1. ring \in [Slots -> Int]  BY DEF Stale
  <2>2. 0 \in Slots /\ 0 \in 0 .. NBursts - 1  BY DEF Slots
  <2>. QED BY <2>1, <2>2 DEF TypeOK
<1>3. RingContents  BY <1>1 DEF RingContents, Slots
<1>4. CallShape  BY DEF CallShape
<1>5. ReaderBehind
  <2>1. 0 % RingBytes = 0  BY RingStep
  <2>2. pbase - cbase = 0  OBVIOUS
  <2>. QED BY <1>1, <2>1, <2>2 DEF ReaderBehind, Made, Pos
<1>6. OutMatches  BY DEF OutMatches, WholeRingSkips, InOrder, Pos
<1>. QED BY <1>2, <1>3, <1>4, <1>5, <1>6 DEF IInv

LEMMA ProduceStep == IInv /\ Produce => IInv'
<1>. SUFFICES ASSUME IInv, Produce PROVE IInv'  OBVIOUS
<1>. USE RingSize, RingAssumption DEF IInv
<1>0. /\ ptr \in 0 .. NBursts - 1 /\ pbase \in Nat /\ cbase \in Nat
      /\ offset \in Slots /\ chunk \in Nat /\ cpos \in Nat /\ lapped \in BOOLEAN
  BY DEF TypeOK
<1>1. /\ Fifo \in Nat /\ Fifo + Burst <= RingBytes
      /\ ptr' \in 0 .. NBursts - 1
      /\ ptr + 1 # NBursts => Fifo' = Fifo + Burst /\ pbase' = pbase
      /\ ptr + 1 = NBursts => /\ Fifo' = 0 /\ Fifo + Burst = RingBytes
                              /\ pbase' = pbase + RingBytes
  BY <1>0, FifoStep DEF Produce, Fifo
<1>2. UNCHANGED <<pc, remaining, done, chunk, cpos, armed, offset, cbase, out, dropped>>
  BY DEF Produce, call, drv
<1>3. TypeOK'
  <2>1. ring' \in [Slots -> Int]  BY <1>0, <1>1 DEF Produce, TypeOK, Slots
  <2>2. pbase' \in Nat  BY <1>0, <1>1
  <2>3. run' \in BOOLEAN  BY Zenon DEF Produce, BlockOpen
  <2>. QED BY <1>1, <2>1, <2>2, <2>3 DEF TypeOK, Produce, call, drv
<1>4. RingContents'
  <2>. SUFFICES ASSUME NEW i \in Slots
                PROVE  ring'[i] = IF i < Fifo' THEN pbase' + i
                                  ELSE IF pbase' = 0 THEN Stale
                                  ELSE pbase' - RingBytes + i
    BY DEF RingContents, Slots, RingBytes, Stale
  <2>1. ring'[i] = IF i \in Fifo .. Fifo + Burst - 1 THEN pbase + i ELSE ring[i]
    BY DEF Produce
  <2>2. ring[i] = IF i < Fifo THEN pbase + i
                  ELSE IF pbase = 0 THEN Stale ELSE pbase - RingBytes + i
    BY DEF RingContents
  <2>3. i \in Nat /\ i < RingBytes  BY DEF Slots
  <2>. QED BY <1>0, <1>1, <2>1, <2>2, <2>3
<1>5. CallShape'
  BY <1>2 DEF CallShape, RingBytes
<1>6. ReaderBehind'
  <2>1. pbase' % RingBytes = 0
    <3>1. \A x \in Int : (x + RingBytes) % RingBytes = x % RingBytes  BY AddModulus
    <3>2. pbase % RingBytes = 0  BY DEF ReaderBehind
    <3>3. pbase' = pbase \/ pbase' = pbase + RingBytes  BY <1>0, <1>1
    <3>4. pbase \in Int  BY <1>0
    <3>5. (pbase + RingBytes) % RingBytes = pbase % RingBytes  BY <3>1, <3>4
    <3>. QED BY <3>2, <3>3, <3>5
  <2>2. ASSUME pc # "resync"
        PROVE  /\ (pbase' - cbase') % RingBytes = 0
               /\ \/ pbase' = cbase' /\ offset' + chunk' <= Fifo'
                  \/ pbase' >= cbase' + RingBytes
               /\ ~lapped' => Made' <= Pos' + RingBytes
    <3>1. (pbase' - cbase) % RingBytes = 0
      <4>1. \A x \in Int : (x + RingBytes) % RingBytes = x % RingBytes  BY AddModulus
      <4>2. pbase - cbase \in Int /\ (pbase - cbase) % RingBytes = 0
        BY <1>0, <2>2 DEF ReaderBehind
      <4>3. pbase' - cbase = pbase - cbase \/ pbase' - cbase = (pbase - cbase) + RingBytes
        BY <1>0, <1>1
      <4>. QED BY <4>1, <4>2, <4>3
    <3>2. \/ pbase = cbase /\ offset + chunk <= Fifo
          \/ pbase >= cbase + RingBytes
      BY <2>2 DEF ReaderBehind
    <3>3. \/ pbase' = cbase /\ offset + chunk <= Fifo'
          \/ pbase' >= cbase + RingBytes
      BY <1>0, <1>1, <3>2 DEF Slots
    <3>4. Made' = Made + Burst  BY <1>0, <1>1 DEF Made
    <3>5. Pos' = Pos  BY <1>2 DEF Pos
    <3>6. ~lapped' => ~(Made + Burst > Pos + RingBytes)
      BY <2>2 DEF Produce
    <3>7. Made \in Nat /\ Pos \in Nat  BY <1>0, <1>1 DEF Made, Pos, Slots
    <3>8. ~lapped' => Made' <= Pos' + RingBytes
      BY <3>4, <3>5, <3>6, <3>7
    <3>. QED BY <1>2, <3>1, <3>3, <3>8
  <2>3. RingBytes' = RingBytes  BY DEF RingBytes
  <2>. QED BY <1>2, <2>1, <2>2, <2>3 DEF ReaderBehind
<1>7. OutMatches'
  <2>1. lapped => lapped'  BY <1>0 DEF Produce
  <2>2. Pos' = Pos /\ RingBytes' = RingBytes  BY <1>2 DEF Pos, RingBytes
  <2>. QED BY <1>2, <2>1, <2>2 DEF OutMatches, WholeRingSkips, InOrder
<1>. QED BY <1>3, <1>4, <1>5, <1>6, <1>7

\* Starting the engine empties the ring; the reader is out of the way until
\* its offset has followed.
LEMMA StartEngineStep == IInv /\ StartEngine => IInv'
<1>. SUFFICES ASSUME IInv, StartEngine PROVE IInv'  OBVIOUS
<1>. USE RingSize, RingAssumption DEF IInv
<1>0. RingBytes' = RingBytes  BY DEF RingBytes
<1>1. UNCHANGED <<remaining, done, chunk, cpos, armed, offset, cbase, out, lapped,
                  dropped, starts, faults>>
  BY DEF StartEngine, drv, ghost
<1>2. Fifo' = 0  BY DEF StartEngine, Fifo
<1>3. TypeOK'
  <2>1. ring' \in [Slots -> Int]  BY DEF StartEngine, Stale
  <2>. QED BY <1>1, <2>1 DEF TypeOK, StartEngine
<1>4. RingContents'  BY <1>2 DEF RingContents, StartEngine, Slots, RingBytes, Stale
<1>5. CallShape'  BY <1>0, <1>1 DEF CallShape, StartEngine
<1>6. ReaderBehind'
  <2>1. 0 % RingBytes = 0  BY RingStep
  <2>. QED BY <1>0, <2>1 DEF ReaderBehind, StartEngine
<1>7. OutMatches'
  BY <1>0, <1>1 DEF OutMatches, WholeRingSkips, InOrder, Pos
<1>. QED BY <1>3, <1>4, <1>5, <1>6, <1>7

LEMMA ResyncStep == IInv /\ Resync => IInv'
<1>. SUFFICES ASSUME IInv, Resync PROVE IInv'  OBVIOUS
<1>. USE RingSize, RingAssumption DEF IInv
<1>0. RingBytes' = RingBytes  BY DEF RingBytes
<1>1. UNCHANGED <<run, oneshot, ptr, ring, pbase, remaining, done, chunk, cpos, starts, faults>>
  BY DEF Resync, hw
<1>2. /\ ptr \in 0 .. NBursts - 1 /\ pbase \in Nat
      /\ chunk = 0 /\ cpos = 0 /\ done = 0
  BY DEF TypeOK, CallShape, Resync
<1>3. Fifo' = Fifo /\ Made' = Made  BY <1>1 DEF Fifo, Made
<1>4. TypeOK'
  <2>1. 0 \in Slots  BY DEF Slots
  <2>. QED BY <1>1, <2>1 DEF TypeOK, Resync, Slots
<1>5. RingContents'  BY <1>0, <1>1, <1>3 DEF RingContents, Slots
<1>6. CallShape'  BY <1>1, <1>2 DEF CallShape, Resync
<1>7. ReaderBehind'
  <2>1. pbase % RingBytes = 0  BY DEF ReaderBehind
  <2>2. pbase = 0 \/ pbase >= RingBytes
    BY <1>2, <2>1, PositiveMultiple
  <2>3. Fifo \in Nat /\ Made \in Nat  BY <1>2, FifoStep DEF Made
  <2>4. Pos' = 0  BY <1>1, <1>2 DEF Pos, Resync
  <2>5. ~lapped' => Made <= RingBytes
    <3>1. ~lapped' => ~(Made > RingBytes)  BY Zenon DEF Resync
    <3>. QED BY <2>3, <3>1
  <2>6. cbase' = 0 /\ offset' = 0 /\ pbase' = pbase /\ chunk' = 0  BY <1>1, <1>2 DEF Resync
  <2>7. pbase' - cbase' = pbase  BY <1>2, <2>6
  <2>. QED BY <1>0, <1>2, <1>3, <2>1, <2>2, <2>3, <2>4, <2>5, <2>6, <2>7 DEF ReaderBehind
<1>8. OutMatches'
  <2>1. out' = <<>> /\ Pos' = 0  BY <1>1, <1>2 DEF Pos, Resync
  <2>. QED BY <2>1 DEF OutMatches, WholeRingSkips, InOrder
<1>. QED BY <1>4, <1>5, <1>6, <1>7, <1>8

\* The chunk never reaches past the counter on the engine's own lap, nor past
\* the end of the ring.
LEMMA PollStep == IInv /\ Poll => IInv'
<1>. SUFFICES ASSUME IInv, Poll PROVE IInv'  OBVIOUS
<1>. USE RingSize, RingAssumption DEF IInv
<1>0. RingBytes' = RingBytes  BY DEF RingBytes
<1>1. UNCHANGED <<run, oneshot, ptr, ring, pbase, remaining, done, cpos, armed, offset, cbase,
                  out, lapped, dropped, starts, faults>>
  BY DEF Poll, hw, drv, ghost
<1>2. /\ ptr \in 0 .. NBursts - 1 /\ pbase \in Nat /\ cbase \in Nat
      /\ offset \in Nat /\ offset < RingBytes /\ remaining \in Nat /\ remaining > 0
      /\ chunk = 0 /\ cpos = 0
  BY DEF TypeOK, CallShape, Poll, Slots
<1>3. Fifo \in Nat /\ Fifo < RingBytes  BY <1>2, FifoStep
<1>4. /\ chunk' \in Nat /\ chunk' <= remaining /\ offset + chunk' <= RingBytes
      /\ Fifo > offset => offset + chunk' <= Fifo
  BY <1>2, <1>3 DEF Poll, Smaller
<1>5. UNCHANGED <<Fifo, Made, Pos>>  BY <1>1 DEF Fifo, Made, Pos
<1>6. TypeOK'  BY <1>1, <1>4 DEF TypeOK, Poll, Slots
<1>7. RingContents'  BY <1>0, <1>1, <1>5 DEF RingContents, Slots
<1>8. CallShape'  BY <1>0, <1>1, <1>2, <1>4 DEF CallShape, Poll
<1>9. ReaderBehind'
  <2>1. pbase = cbase => Fifo > offset  BY <1>2, <1>3 DEF ReaderBehind, Poll
  <2>. QED BY <1>0, <1>1, <1>2, <1>4, <1>5, <2>1 DEF ReaderBehind, Poll
<1>10. OutMatches'  BY <1>0, <1>1, <1>5 DEF OutMatches, WholeRingSkips, InOrder
<1>. QED BY <1>6, <1>7, <1>8, <1>9, <1>10

LEMMA CopyByteStep == IInv /\ CopyByte => IInv'
<1>. SUFFICES ASSUME IInv, CopyByte PROVE IInv'  OBVIOUS
<1>. USE RingSize, RingAssumption DEF IInv
<1>0. RingBytes' = RingBytes  BY DEF RingBytes
<1>1. UNCHANGED <<run, oneshot, ptr, ring, pbase, pc, remaining, done, chunk, armed, offset,
                  cbase, lapped, dropped, starts, faults>>
  BY DEF CopyByte, hw, drv
<1>2. /\ cbase \in Nat /\ offset \in Nat /\ cpos \in Nat /\ chunk \in Nat
      /\ out \in Seq(Int) /\ done \in Nat /\ pbase \in Nat /\ Fifo \in Nat
  BY FifoStep DEF TypeOK, Slots
<1>3. cpos' = cpos + 1 /\ cpos < chunk /\ pc = "copy"  BY DEF CopyByte
<1>4. UNCHANGED <<Fifo, Made>> /\ Pos' = Pos + 1
  BY <1>1, <1>2, <1>3 DEF Fifo, Made, Pos
<1>5. DEFINE b == ring[offset + cpos]
<1>6. /\ b \in Nat /\ (b - Pos) % RingBytes = 0
      /\ ~lapped => b = Pos
  BY <1>3, NextByte
<1>7. /\ out' \in Seq(Int) /\ Len(out') = Len(out) + 1
      /\ \A k \in 1 .. Len(out') : out'[k] = IF k = Len(out) + 1 THEN b ELSE out[k]
      /\ Len(out) \in Nat
  BY <1>2, <1>6 DEF CopyByte
<1>. HIDE DEF b
<1>8. TypeOK'  BY <1>1, <1>2, <1>3, <1>7 DEF TypeOK, Slots
<1>9. RingContents'  BY <1>0, <1>1, <1>4 DEF RingContents, Slots
<1>10. CallShape'  BY <1>0, <1>1, <1>2, <1>3, <1>7 DEF CallShape
<1>11. ReaderBehind'
  <2>1. Pos \in Nat /\ Made \in Nat  BY <1>2 DEF Pos, Made
  <2>. QED BY <1>0, <1>1, <1>2, <1>3, <1>4, <2>1 DEF ReaderBehind
<1>12. OutMatches'
  <2>1. ~dropped' => Len(out') = Pos'  BY <1>1, <1>4, <1>7 DEF OutMatches
  <2>2. \A k \in 1 .. Len(out') : out'[k] \in Nat  BY <1>6, <1>7 DEF OutMatches
  <2>3. WholeRingSkips'
    <3>. SUFFICES ASSUME ~dropped, NEW k \in 1 .. Len(out')
                  PROVE  (out'[k] - (k - 1)) % RingBytes = 0
      BY <1>0, <1>1 DEF WholeRingSkips
    <3>1. CASE k = Len(out) + 1
      <4>1. k - 1 = Pos  BY <1>7, <3>1 DEF OutMatches
      <4>. QED BY <1>6, <1>7, <3>1, <4>1
    <3>2. CASE k # Len(out) + 1
      BY <1>7, <3>2 DEF OutMatches, WholeRingSkips
    <3>. QED BY <3>1, <3>2
  <2>4. InOrder'  BY <1>1, <1>6, <1>7 DEF OutMatches, InOrder
  <2>. QED BY <2>1, <2>2, <2>3, <2>4 DEF OutMatches
<1>. QED BY <1>8, <1>9, <1>10, <1>11, <1>12

LEMMA ChunkDoneStep == IInv /\ ChunkDone => IInv'
<1>. SUFFICES ASSUME IInv, ChunkDone PROVE IInv'  OBVIOUS
<1>. USE RingSize, RingAssumption DEF IInv
<1>0. RingBytes' = RingBytes  BY DEF RingBytes
<1>1. UNCHANGED <<run, oneshot, ptr, ring, pbase, armed, out, lapped, dropped, starts, faults>>
  BY DEF ChunkDone, hw, ghost
<1>2. /\ pbase \in Nat /\ cbase \in Nat /\ offset \in Nat /\ offset < RingBytes
      /\ remaining \in Nat /\ done \in Nat /\ cpos \in Nat
      /\ cpos = chunk /\ chunk <= remaining /\ offset + chunk <= RingBytes
      /\ pc = "copy" /\ pc' = "poll" /\ chunk' = 0 /\ cpos' = 0
      /\ done' = done + chunk /\ remaining' = remaining - chunk
  BY DEF TypeOK, CallShape, ChunkDone, Slots
<1>3. /\ offset' = IF offset + chunk = RingBytes THEN 0 ELSE offset + chunk
      /\ cbase' = IF offset + chunk = RingBytes THEN cbase + RingBytes ELSE cbase
  <2>1. offset + chunk \in 0 .. RingBytes  BY <1>2
  <2>. QED BY <2>1, RingStep DEF ChunkDone
<1>4. Fifo \in Nat /\ Fifo < RingBytes  BY FifoStep DEF TypeOK
<1>5. UNCHANGED <<Fifo, Made, Pos>>
  BY <1>1, <1>2, <1>3 DEF Fifo, Made, Pos
<1>6. TypeOK'  BY <1>1, <1>2, <1>3 DEF TypeOK, Slots
<1>7. RingContents'  BY <1>0, <1>1, <1>5 DEF RingContents, Slots
<1>8. CallShape'  BY <1>1, <1>2 DEF CallShape
<1>9. ReaderBehind'
  <2>1. (pbase - cbase) % RingBytes = 0  BY <1>2 DEF ReaderBehind
  <2>2. (pbase - cbase - RingBytes) % RingBytes = 0
    <3>1. \A x \in Int : (x - RingBytes) % RingBytes = x % RingBytes  BY SubModulus
    <3>2. pbase - cbase \in Int  BY <1>2
    <3>. QED BY <2>1, <3>1, <3>2
  <2>3. (pbase - cbase') % RingBytes = 0
    <3>1. pbase - cbase' = pbase - cbase \/ pbase - cbase' = pbase - cbase - RingBytes
      BY <1>2, <1>3
    <3>. QED BY <2>1, <2>2, <3>1
  <2>4. CASE pbase = cbase /\ offset + chunk <= Fifo
    BY <1>0, <1>1, <1>2, <1>3, <1>4, <1>5, <2>3, <2>4 DEF ReaderBehind
  <2>5. CASE pbase >= cbase + RingBytes
    <3>. DEFINE d == pbase - cbase - RingBytes
    <3>1. d \in Nat /\ d % RingBytes = 0  BY <1>2, <2>2, <2>5
    <3>2. d = 0 \/ d >= RingBytes  BY <3>1, PositiveMultiple
    <3>3. \/ pbase = cbase' /\ offset' + chunk' <= Fifo
          \/ pbase >= cbase' + RingBytes
      BY <1>2, <1>3, <1>4, <2>5, <3>2
    <3>. QED BY <1>0, <1>1, <1>2, <1>5, <2>3, <3>3 DEF ReaderBehind
  <2>. QED BY <1>2, <2>4, <2>5 DEF ReaderBehind
<1>10. OutMatches'  BY <1>0, <1>1, <1>5 DEF OutMatches, WholeRingSkips, InOrder
<1>. QED BY <1>6, <1>7, <1>8, <1>9, <1>10

LEMMA FaultStep == IInv /\ Fault => IInv'
<1>. SUFFICES ASSUME IInv, Fault PROVE IInv'  OBVIOUS
<1>. USE RingSize, RingAssumption DEF IInv
<1>0. RingBytes' = RingBytes  BY DEF RingBytes
<1>1. UNCHANGED <<run, oneshot, ptr, ring, pbase, armed, offset, cbase, starts>>
  BY DEF Fault, hw, drv
<1>2. /\ pbase \in Nat /\ cbase \in Nat /\ offset \in Nat /\ chunk \in Nat
      /\ done \in Nat /\ cpos \in Nat /\ out \in Seq(Int) /\ Fifo \in Nat
      /\ done + cpos <= Len(out) /\ pc # "resync"
      /\ lapped \in BOOLEAN /\ dropped \in BOOLEAN
  BY FifoStep DEF TypeOK, CallShape, Fault, Slots
<1>3. pc' = "idle" /\ remaining' = 0 /\ done' = 0 /\ chunk' = 0 /\ cpos' = 0
  BY DEF Fault
<1>. DEFINE n == Len(out) - done - cpos
<1>4. n \in Nat /\ n <= Len(out) /\ Len(out) \in Nat  BY <1>2
<1>5. /\ out' \in Seq(Int) /\ Len(out') = n
      /\ \A k \in 1 .. n : out'[k] = out[k]
  BY <1>2, <1>4 DEF Fault
<1>6. UNCHANGED <<Fifo, Made>> /\ Pos' = cbase + offset /\ Made \in Nat
  BY <1>1, <1>2, <1>3 DEF Fifo, Made, Pos
<1>7. ~dropped' => ~dropped /\ done = 0
  <2>1. ~dropped' => ~dropped /\ ~(done > 0)  BY <1>2, Zenon DEF Fault
  <2>. QED BY <1>2, <2>1
<1>8. ~lapped' => ~lapped /\ ~(Made > cbase + offset + RingBytes)
  BY <1>2, Zenon DEF Fault
<1>. HIDE DEF n
<1>9. TypeOK'
  <2>1. lapped' \in BOOLEAN /\ dropped' \in BOOLEAN /\ faults' \in Nat
    BY <1>2 DEF Fault, TypeOK
  <2>. QED BY <1>1, <1>3, <1>5, <2>1 DEF TypeOK, Slots
<1>10. RingContents'  BY <1>0, <1>1, <1>6 DEF RingContents, Slots
<1>11. CallShape'  BY <1>3, <1>4, <1>5 DEF CallShape
<1>12. ReaderBehind'
  BY <1>0, <1>1, <1>2, <1>3, <1>6, <1>8 DEF ReaderBehind
<1>13. OutMatches'
  <2>1. ~dropped' => Len(out') = Pos'
    BY <1>2, <1>5, <1>6, <1>7 DEF OutMatches, Pos, n
  <2>2. \A k \in 1 .. Len(out') : out'[k] = out[k] /\ k \in 1 .. Len(out)
    BY <1>4, <1>5
  <2>. QED BY <1>0, <1>7, <1>8, <2>1, <2>2 DEF OutMatches, WholeRingSkips, InOrder
<1>. QED BY <1>9, <1>10, <1>11, <1>12, <1>13

\* The remaining actions move the program counter and little else.
LEMMA ControlStep ==
  IInv /\ (StopEngine \/ ArmFails \/ Call \/ Return \/ UNCHANGED vars) => IInv'
<1>. SUFFICES ASSUME IInv, StopEngine \/ ArmFails \/ Call \/ Return \/ UNCHANGED vars
              PROVE  IInv'
  OBVIOUS
<1>. USE RingSize, RingAssumption DEF IInv
<1>0. RingBytes' = RingBytes  BY DEF RingBytes
<1>1. /\ UNCHANGED <<ptr, ring, pbase, armed, offset, cbase, chunk, cpos, out,
                     lapped, dropped>>
      /\ pc' \in {"idle", "stopped", "poll"} \/ pc' = pc
      /\ pc # "resync" \/ pc' = pc
      /\ pc # "copy" \/ pc' = pc
      /\ pc' = "resync" => pc = "resync"
      /\ pc' = "copy" => pc = "copy" /\ remaining' = remaining
      /\ done' = done \/ done' = 0
      /\ pc' \in {"idle", "stopped"} /\ pc' # pc => done' = 0 \/ pc \in {"idle", "stopped"}
  BY DEF StopEngine, ArmFails, Call, Return, vars, hw, call, drv, ghost
<1>2. UNCHANGED <<Fifo, Made, Pos>>  BY <1>1 DEF Fifo, Made, Pos
<1>3. TypeOK'
  <2>1. CASE StopEngine
    <3>1. oneshot' = oneshot /\ run' = FALSE  BY <2>1 DEF StopEngine
    <3>2. oneshot \in BOOLEAN  BY DEF TypeOK
    <3>3. oneshot' \in BOOLEAN /\ run' \in BOOLEAN  BY <3>1, <3>2, Zenon
    <3>. QED BY <2>1, <3>3 DEF TypeOK, StopEngine, drv, ghost, Slots
  <2>2. CASE ArmFails  BY <2>2 DEF TypeOK, ArmFails, hw, drv, ghost, Slots
  <2>3. CASE Call  BY <2>3 DEF TypeOK, Call, hw, drv, ghost, Slots
  <2>4. CASE Return  BY <2>4 DEF TypeOK, Return, hw, drv, ghost, Slots
  <2>5. CASE UNCHANGED vars
    BY <2>5 DEF TypeOK, vars, hw, call, drv, ghost, Slots
  <2>. QED BY <2>1, <2>2, <2>3, <2>4, <2>5
<1>4. RingContents'  BY <1>0, <1>1, <1>2 DEF RingContents, Slots
<1>5. CallShape'
  <2>1. Len(out) \in Nat /\ done \in Nat /\ cpos \in Nat  BY DEF TypeOK
  <2>2. CASE StopEngine  BY <1>0, <2>2 DEF CallShape, StopEngine, drv, ghost
  <2>3. CASE ArmFails  BY <1>0, <2>3 DEF CallShape, ArmFails, drv, ghost
  <2>4. CASE Call  BY <1>0, <2>4 DEF CallShape, Call, drv, ghost
  <2>5. CASE Return  BY <1>0, <2>1, <2>5 DEF CallShape, Return, drv, ghost
  <2>6. CASE UNCHANGED vars  BY <1>0, <2>6 DEF CallShape, vars, call, drv, ghost
  <2>. QED BY <2>2, <2>3, <2>4, <2>5, <2>6
<1>6. ReaderBehind'  BY <1>0, <1>1, <1>2 DEF ReaderBehind
<1>7. OutMatches'  BY <1>0, <1>1, <1>2 DEF OutMatches, WholeRingSkips, InOrder
<1>. QED BY <1>3, <1>4, <1>5, <1>6, <1>7
-----------------------------------------------------------------------------
\* IInv holds in every reachable state, for every value of the constants.
THEOREM Inductive == Spec => []IInv
<1>1. IInv /\ [Next]_vars => IInv'
  BY ProduceStep, StartEngineStep, ResyncStep, PollStep, CopyByteStep,
     ChunkDoneStep, FaultStep, ControlStep DEF Next, Ioctl
<1>. QED BY InitIInv, <1>1, PTL DEF Spec

\* Every variable keeps its type: the offset stays inside the ring, the
\* counter below the number of bursts.
THEOREM TypeCorrect == Spec => []TypeOK
<1>1. IInv => TypeOK  BY DEF IInv
<1>. QED BY Inductive, <1>1, PTL

\* A program whose reads keep up and do not fault sees the bytes of the run in
\* order, each once.
THEOREM ReadsInOrder == Spec => []InOrder
<1>1. IInv => InOrder  BY DEF IInv, OutMatches
<1>. QED BY Inductive, <1>1, PTL

\* No re-arm lets bytes of an earlier run through.
THEOREM ReadsFresh == Spec => []FreshOnly
<1>1. IInv => FreshOnly  BY DEF IInv, OutMatches, FreshOnly, Stale
<1>. QED BY Inductive, <1>1, PTL

\* An overrun loses whole rings, never part of one.
THEOREM LosesWholeRings == Spec => []WholeRingSkips
<1>1. IInv => WholeRingSkips  BY DEF IInv, OutMatches
<1>. QED BY Inductive, <1>1, PTL

\* A short read leaves nothing behind, or exactly one ring.
THEOREM ShortReads == Spec => ShortReadDrained
<1>1. ASSUME IInv, [Next]_vars, pc = "poll", pc' = "idle", remaining > 0, ~lapped
      PROVE  Made - Pos \in {0, RingBytes}
  <2>. USE RingSize
  <2>1. Fifo = offset
    <3>1. remaining \in Nat  BY <1>1 DEF IInv, TypeOK
    <3>. QED
      BY <1>1, <3>1 DEF Next, Ioctl, Produce, StopEngine, ArmFails, StartEngine, Resync,
           Call, Poll, CopyByte, ChunkDone, Return, Fault, vars, call
  <2>2. /\ pbase \in Nat /\ cbase \in Nat /\ offset \in Nat /\ cpos = 0
        /\ (pbase - cbase) % RingBytes = 0
        /\ pbase = cbase \/ pbase >= cbase + RingBytes
        /\ Made <= Pos + RingBytes
    BY <1>1 DEF IInv, TypeOK, CallShape, ReaderBehind, Slots
  <2>3. Made - Pos = pbase - cbase  BY <2>1, <2>2 DEF Made, Pos
  <2>4. pbase <= cbase + RingBytes  BY <2>1, <2>2 DEF Made, Pos
  <2>. QED BY <2>2, <2>3, <2>4
<1>2. IInv /\ [Next]_vars
        => [pc = "poll" /\ pc' = "idle" /\ remaining > 0 /\ ~lapped
              => Made - Pos \in {0, RingBytes}]_vars
  BY <1>1
<1>. QED BY Inductive, <1>2, PTL DEF Spec, ShortReadDrained
-----------------------------------------------------------------------------
(* The ring, the counter and the offset implement SampleStream: every step of
   the data path is a step of the promised stream or leaves what it shows as it is. *)

\* What a call has done it has done since the offset was last at the head.
Consumed == done <= cbase + offset

\* A call has never taken more than the reader has moved on since the last re-arm
\* (`done' and the offset advance together in zynqsdr_stream_read).
THEOREM CallsConsume == Spec => []Consumed
<1>1. Init => Consumed  BY DEF Init, Consumed
<1>2. ASSUME IInv, Consumed, [Next]_vars PROVE Consumed'
  <2> USE RingSize DEF Consumed
  <2>1. /\ done \in Nat /\ chunk \in Nat /\ cbase \in Nat /\ offset \in Nat
        /\ offset + chunk <= RingBytes \/ pc # "copy"
        /\ pc = "resync" => done = 0
    BY <1>2 DEF IInv, TypeOK, CallShape, Slots
  <2>2. CASE Resync  BY <2>1, <2>2 DEF Resync
  <2>3. CASE ChunkDone
    <3>1. (offset + chunk) % RingBytes = IF offset + chunk = RingBytes THEN 0 ELSE offset + chunk
      <4>1. offset + chunk \in 0 .. RingBytes  BY <2>1, <2>3 DEF ChunkDone
      <4> QED BY <4>1, RingStep
    <3> QED BY <1>2, <2>1, <2>3, <3>1 DEF ChunkDone
  <2>4. CASE Return \/ Fault  BY <2>1, <2>4 DEF Return, Fault, drv
  <2>5. CASE Produce \/ StopEngine \/ ArmFails \/ StartEngine \/ Call \/ Poll \/ CopyByte \/ UNCHANGED vars
    BY <1>2, <2>5 DEF Produce, StopEngine, ArmFails, StartEngine, Call, Poll, CopyByte, vars,
       hw, call, drv
  <2> QED BY <1>2, <2>2, <2>3, <2>4, <2>5 DEF Next, Ioctl
<1> QED BY <1>1, <1>2, Inductive, PTL DEF Spec

\* What the stream's variables are in terms of the driver's.
AbsGot   == IF pc = "resync" THEN <<>> ELSE Reported
AbsLossy == IF pc = "resync" THEN Made > RingBytes ELSE lapped \/ dropped

\* The bytes reported are those handed out before the call in progress.
LEMMA ReportedBytes ==
  ASSUME IInv
  PROVE  /\ Len(out) - done - cpos \in Nat /\ Len(out) \in Nat
         /\ Reported \in Seq(Int) /\ Len(Reported) = Len(out) - done - cpos
         /\ \A k \in 1 .. Len(Reported) : Reported[k] = out[k]
<1>1. /\ out \in Seq(Int) /\ done \in Nat /\ cpos \in Nat /\ done + cpos <= Len(out)
  BY DEF IInv, TypeOK, CallShape
<1> DEFINE n == Len(out) - done - cpos
<1>2. n \in Nat /\ n <= Len(out) /\ Len(out) \in Nat  BY <1>1
<1> HIDE DEF n
<1>3. /\ SubSeq(out, 1, n) \in Seq(Int) /\ Len(SubSeq(out, 1, n)) = n
      /\ \A k \in 1 .. n : SubSeq(out, 1, n)[k] = out[k]
  BY <1>1, <1>2
<1> QED BY <1>2, <1>3 DEF Reported, n

\* The reader has never taken more than the engine has made.
LEMMA ReaderWithin ==
  ASSUME IInv, pc # "resync"
  PROVE  Pos \in Nat /\ Made \in Nat /\ Pos <= Made
<1> USE RingSize
<1>1. /\ pbase \in Nat /\ cbase \in Nat /\ offset \in Nat /\ offset < RingBytes
      /\ chunk \in Nat /\ cpos \in Nat /\ Fifo \in Nat
  BY FifoStep DEF IInv, TypeOK, Slots
<1>2. cpos <= chunk /\ offset + chunk <= RingBytes
  BY <1>1 DEF IInv, CallShape
<1>3. \/ pbase = cbase /\ offset + chunk <= Fifo
      \/ pbase >= cbase + RingBytes
  BY DEF IInv, ReaderBehind
<1> QED BY <1>1, <1>2, <1>3 DEF Pos, Made

\* A burst is a Make.
LEMMA ProduceMakes ==
  ASSUME IInv, Produce
  PROVE  Promise!Make
<1> USE RingSize, RingAssumption
<1>0. /\ ptr \in 0 .. NBursts - 1 /\ pbase \in Nat /\ lapped \in BOOLEAN /\ dropped \in BOOLEAN
  BY DEF IInv, TypeOK
<1>1. Made \in Nat /\ Made' = Made + Burst
  <2>1. /\ Fifo \in Nat
        /\ ptr + 1 # NBursts => Fifo' = Fifo + Burst /\ pbase' = pbase
        /\ ptr + 1 = NBursts => /\ Fifo' = 0 /\ Fifo + Burst = RingBytes
                                /\ pbase' = pbase + RingBytes
    BY <1>0, FifoStep DEF Produce, Fifo
  <2> QED BY <1>0, <2>1 DEF Made
<1>2. RingBytes' = RingBytes /\ UNCHANGED <<pc, done, cpos, out, dropped>>
  BY DEF Produce, call, RingBytes
<1>3. AbsGot' = AbsGot  BY <1>2 DEF AbsGot, Reported
<1>4. AbsLossy' \in {AbsLossy, Made' > Len(AbsGot) + RingBytes \/ AbsLossy}
  <2>1. CASE pc = "resync"
    <3>1. AbsGot = <<>> /\ Len(AbsGot) = 0  BY <2>1 DEF AbsGot
    <3>2. AbsLossy <=> Made > RingBytes  BY <2>1 DEF AbsLossy
    <3>3. AbsLossy' <=> Made' > RingBytes  BY <1>2, <2>1 DEF AbsLossy
    <3>4. AbsLossy' <=> (Made' > Len(AbsGot) + RingBytes \/ AbsLossy)
      BY <1>1, <3>1, <3>2, <3>3
    <3> QED BY <1>2, <2>1, <3>4 DEF AbsLossy
  <2>2. CASE pc # "resync"
    <3>1. AbsGot = Reported  BY <2>2 DEF AbsGot
    <3>2. AbsLossy <=> lapped \/ dropped  BY <2>2 DEF AbsLossy
    <3>3. AbsLossy' <=> lapped' \/ dropped  BY <1>2, <2>2 DEF AbsLossy
    <3>4. lapped' <=> lapped \/ Made + Burst > Pos + RingBytes
      BY <2>2 DEF Produce
    <3>5. ~dropped => Len(Reported) <= Pos
      BY ReportedBytes, ReaderWithin, <2>2 DEF IInv, OutMatches, TypeOK
    <3>6. Pos \in Nat /\ Len(Reported) \in Nat  BY ReportedBytes, ReaderWithin, <2>2
    <3>7. Made + Burst > Pos + RingBytes /\ ~dropped => Made' > Len(Reported) + RingBytes
      BY <1>1, <3>5, <3>6
    <3>8. \/ AbsLossy' <=> AbsLossy
          \/ AbsLossy' <=> (Made' > Len(AbsGot) + RingBytes \/ AbsLossy)
      BY <3>1, <3>2, <3>3, <3>4, <3>7
    <3>9. AbsLossy \in BOOLEAN /\ AbsLossy' \in BOOLEAN
      BY <1>0, <1>2, <2>2, <3>4 DEF AbsLossy, Produce
    <3> QED BY <3>8, <3>9
  <2> QED BY <2>1, <2>2
<1> QED BY <1>1, <1>3, <1>4 DEF Promise!Make, AbsGot, AbsLossy

\* A successful read call of done bytes is a Deliver; an empty one shows nothing.
LEMMA ReturnDelivers ==
  ASSUME IInv, Consumed, Return
  PROVE  [Promise!Next]_(Promise!vars)
<1>1. /\ pc = "poll" /\ pc' = "idle" /\ done' = 0 /\ cpos' = 0
      /\ UNCHANGED <<ptr, pbase, out, lapped, dropped>>
  BY DEF Return, hw, drv, ghost, IInv, CallShape
<1>2. /\ out \in Seq(Int) /\ done \in Nat /\ cpos = 0 /\ chunk = 0
      /\ offset \in Nat /\ cbase \in Nat /\ Len(out) \in Nat
  BY <1>1 DEF IInv, TypeOK, CallShape, Slots
<1>3. Made' = Made /\ Fifo' = Fifo  BY <1>1 DEF Made, Fifo
<1>4. Reported' = out
  <2>1. SubSeq(out, 1, Len(out)) = out  BY <1>2
  <2>2. Len(out') - done' - cpos' = Len(out)  BY <1>1, <1>2
  <2> QED BY <1>1, <2>1, <2>2 DEF Reported
<1>5. /\ AbsGot = Reported /\ AbsGot' = out /\ AbsLossy = (lapped \/ dropped)
      /\ AbsLossy' = AbsLossy
  BY <1>1, <1>4 DEF AbsGot, AbsLossy
<1>6. CASE done = 0
  <2>1. Reported = out
    <3>1. SubSeq(out, 1, Len(out)) = out  BY <1>2
    <3>2. Len(out) - done - cpos = Len(out)  BY <1>2, <1>6
    <3> QED BY <3>1, <3>2 DEF Reported
  <2> QED BY <1>3, <1>5, <2>1 DEF Promise!vars, AbsGot, AbsLossy
<1>7. CASE done > 0
  <2>1. Pos = cbase + offset /\ Pos \in Nat /\ Made \in Nat /\ Pos <= Made
    BY <1>1, <1>2, ReaderWithin DEF Pos
  <2>2. done \in 1 .. Made  BY <1>2, <1>7, <2>1 DEF Consumed
  <2>3. Len(AbsGot') = Len(AbsGot) + done  BY <1>2, <1>5, ReportedBytes
  <2>4. SubSeq(AbsGot', 1, Len(AbsGot)) = AbsGot
    BY <1>2, <1>5, ReportedBytes DEF Reported
  <2>5. ASSUME ~AbsLossy
        PROVE  /\ Len(AbsGot') <= Made
               /\ \A k \in Len(AbsGot) + 1 .. Len(AbsGot') : AbsGot'[k] = k - 1
    <3>1. ~lapped /\ ~dropped  BY <1>5, <2>5
    <3>2. Len(out) = Pos /\ \A k \in 1 .. Len(out) : out[k] = k - 1
      BY <3>1 DEF IInv, OutMatches, InOrder
    <3>3. Len(AbsGot) \in Nat  BY <1>5, ReportedBytes
    <3> QED BY <1>2, <1>5, <2>1, <3>2, <3>3
  <2>6. Promise!Deliver
    BY <1>3, <1>5, <2>2, <2>3, <2>4, <2>5 DEF Promise!Deliver, AbsGot, AbsLossy
  <2> QED BY <2>6 DEF Promise!Next
<1> QED BY <1>2, <1>6, <1>7

\* A call that fails after it has consumed, or whose bytes have been overtaken
\* when it gives them back, ends the promise; any other failure shows nothing.
LEMMA FaultFails ==
  ASSUME IInv, Fault
  PROVE  [Promise!Next]_(Promise!vars)
<1>1. /\ pc # "resync" /\ pc' = "idle" /\ done' = 0 /\ cpos' = 0
      /\ out' = Reported /\ UNCHANGED <<ptr, pbase>>
      /\ dropped' = (dropped \/ done > 0)
      /\ lapped' = (lapped \/ Made > cbase + offset + RingBytes)
  BY DEF Fault, hw, Reported
<1>2. Made' = Made /\ Fifo' = Fifo  BY <1>1 DEF Made, Fifo
<1>3. Reported' = Reported
  <2>1. Reported \in Seq(Int) /\ Len(Reported) \in Nat  BY ReportedBytes
  <2>2. SubSeq(Reported, 1, Len(Reported)) = Reported  BY <2>1
  <2>3. Len(out') - done' - cpos' = Len(Reported)  BY <1>1, <2>1
  <2> QED BY <1>1, <2>2, <2>3 DEF Reported
<1>4. /\ AbsGot = Reported /\ AbsGot' = Reported
      /\ AbsLossy = (lapped \/ dropped) /\ AbsLossy' = (lapped' \/ dropped')
  BY <1>1, <1>3 DEF AbsGot, AbsLossy
<1>5. AbsLossy \in BOOLEAN /\ AbsLossy' \in BOOLEAN /\ (AbsLossy => AbsLossy')
  BY <1>1, <1>4 DEF IInv, TypeOK
<1>6. CASE AbsLossy' = TRUE
  BY <1>2, <1>4, <1>6 DEF Promise!Next, Promise!Fail, AbsGot, AbsLossy
<1>7. CASE AbsLossy' = AbsLossy
  BY <1>2, <1>4, <1>7 DEF Promise!vars, AbsGot, AbsLossy
<1> QED BY <1>5, <1>6, <1>7

\* The other steps of an ioctl: StartEngine is a Restart, the rest show nothing.
LEMMA OtherSteps ==
  ASSUME IInv,
         \/ StopEngine \/ ArmFails \/ StartEngine \/ Resync \/ Call \/ Poll \/ CopyByte
         \/ ChunkDone \/ UNCHANGED vars
  PROVE  [Promise!Next]_(Promise!vars)
<1> USE RingSize
<1>0. /\ out \in Seq(Int) /\ Len(out) \in Nat /\ done \in Nat /\ cpos \in Nat /\ chunk \in Nat
      /\ ring \in [Slots -> Int]
      /\ pc \in {"idle", "stopped", "resync"} => done = 0
      /\ pc # "copy" => chunk = 0 /\ cpos = 0
  BY DEF IInv, TypeOK, CallShape
<1>1. CASE StartEngine
  <2>1. Made' = 0 /\ AbsGot' = <<>> /\ pc' = "resync"
    BY <1>1, RingAssumption DEF StartEngine, Made, Fifo, AbsGot
  <2>2. AbsLossy' = FALSE  BY <2>1 DEF AbsLossy, RingBytes
  <2> QED BY <2>1, <2>2 DEF Promise!Next, Promise!Restart, AbsGot, AbsLossy
<1>2. CASE ~StartEngine
  <2>1. UNCHANGED Made
    BY <1>2 DEF StopEngine, ArmFails, Resync, Call, Poll, CopyByte, ChunkDone, vars, hw,
       Made, Fifo
  <2>2. UNCHANGED <<AbsGot, AbsLossy>>
    <3>1. CASE Resync
      <4>1. pc = "resync" /\ pc' = "idle" /\ out' = <<>> /\ done' = 0 /\ cpos' = 0
        BY <1>0, <3>1 DEF Resync
      <4>2. Reported' = <<>>  BY <4>1 DEF Reported
      <4>3. lapped' \/ dropped' <=> Made > RingBytes  BY <3>1 DEF Resync
      <4>4. AbsLossy' <=> AbsLossy  BY <4>1, <4>3 DEF AbsLossy
      <4>5. AbsLossy \in BOOLEAN /\ AbsLossy' \in BOOLEAN
        BY <4>1, <3>1 DEF AbsLossy, Resync
      <4> QED BY <4>1, <4>2, <4>4, <4>5 DEF AbsGot
    <3>2. CASE CopyByte
      <4>1. /\ pc = "copy" /\ UNCHANGED <<pc, done, lapped, dropped>> /\ cpos' = cpos + 1
            /\ out' = Append(out, ring[offset + cpos]) /\ ring[offset + cpos] \in Int
        BY <3>2, NextByte DEF CopyByte, IInv
      <4>2. Len(out') - done' - cpos' = Len(out) - done - cpos  BY <1>0, <4>1
      <4>3. Len(out) - done - cpos \in Nat /\ Len(out) - done - cpos <= Len(out)
        BY <1>0, ReportedBytes
      <4> DEFINE n == Len(out) - done - cpos
      <4> HIDE DEF n
      <4>4. SubSeq(out', 1, n) = SubSeq(out, 1, n)
        BY <1>0, <4>1, <4>3 DEF n
      <4>5. Reported' = Reported  BY <4>2, <4>4 DEF Reported, n
      <4> QED BY <4>1, <4>5 DEF AbsGot, AbsLossy
    <3>3. CASE ChunkDone
      <4>1. /\ pc = "copy" /\ pc' = "poll" /\ UNCHANGED <<out, lapped, dropped>>
            /\ done' = done + chunk /\ cpos = chunk /\ cpos' = 0
        BY <3>3 DEF ChunkDone, ghost
      <4>2. Len(out') - done' - cpos' = Len(out) - done - cpos  BY <1>0, <4>1
      <4>3. Reported' = Reported  BY <4>1, <4>2 DEF Reported
      <4> QED BY <4>1, <4>3 DEF AbsGot, AbsLossy
    <3>4. CASE StopEngine \/ ArmFails \/ Call \/ Poll \/ UNCHANGED vars
      <4>1. /\ UNCHANGED <<out, done, cpos, lapped, dropped>>
            /\ pc = "resync" <=> pc' = "resync"
        BY <3>4 DEF StopEngine, ArmFails, Call, Poll, vars, call, ghost
      <4>2. UNCHANGED RingBytes  BY DEF RingBytes
      <4> QED BY <2>1, <4>1, <4>2 DEF AbsGot, AbsLossy, Reported
    <3> QED BY <1>2, <3>1, <3>2, <3>3, <3>4
  <2> QED BY <2>1, <2>2 DEF Promise!vars, AbsGot, AbsLossy
<1> QED BY <1>1, <1>2

\* The refinement: whatever the engine and the ioctls do, the program that reads
\* sees the stream SampleStream promises (zynqsdr_stream_read, stream_put).
THEOREM StreamImplemented == Spec => ImplementsStream
<1>1. Init => Promise!Init
  <2> SUFFICES ASSUME Init PROVE Promise!Init  OBVIOUS
  <2>1. Made = 0  BY RingAssumption DEF Init, Made, Fifo
  <2>2. Reported = <<>>  BY DEF Init, Reported
  <2> QED BY <2>1, <2>2 DEF Init, Promise!Init
<1>2. ASSUME IInv, Consumed, [Next]_vars PROVE [Promise!Next]_(Promise!vars)
  <2>1. CASE Produce  BY <1>2, <2>1, ProduceMakes DEF Promise!Next
  <2>2. CASE Return  BY <1>2, <2>2, ReturnDelivers
  <2>3. CASE Fault  BY <1>2, <2>3, FaultFails
  <2> QED BY <1>2, <2>1, <2>2, <2>3, OtherSteps DEF Next, Ioctl
<1> QED BY <1>1, <1>2, Inductive, CallsConsume, PTL DEF Spec, ImplementsStream, Promise!Spec
=============================================================================
