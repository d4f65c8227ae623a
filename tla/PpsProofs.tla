------------------------------ MODULE PpsProofs ------------------------------
(***************************************************************************)
(* Proofs about SmallIoctls, for every set of threads, every FIFO depth,   *)
(* every width of the attenuator's code and every number of edges: what    *)
(* the samples PPS_READ returns are, and what the attenuator applies.      *)
(*                                                                         *)
(* The mutex is one for both devices, so that each one's invariant needs   *)
(* only that no step of the other comes in between (OneCall).              *)
(***************************************************************************)
EXTENDS SmallIoctls, SequenceTheorems, TLAPS

\* The mutex: at most one thread is inside a call, and only while it is held.
Mutex ==
  /\ \A t \in Threads : pc[t] # "user" => lock
  /\ \A t, u \in Threads : pc[t] # "user" /\ pc[u] # "user" => t = u

\* What the poll of the fill level has seen still holds when the FIFO is popped.
PollHolds == \A t \in Threads : pc[t] = "pop" => fifo # <<>>

\* The unit measures only edges that came after the bit rose.
Measuring == since <= edges /\ (armed => on /\ since + 1 <= edges)

Queued == \A k \in 1 .. Len(fifo) : fifo[k] >= since + 2

Returned == \A k \in 1 .. Len(got) : got[k] # NoSample /\ got[k] >= since + 2

IInv == TypeOK /\ Mutex /\ PollHolds /\ Measuring /\ Queued /\ Returned

\* The initial state satisfies the invariant (a fresh unit, no call).
LEMMA Initially == Init => IInv
<1> SUFFICES ASSUME Init PROVE IInv  OBVIOUS
<1>1. /\ fifo = <<>> /\ fifo \in Seq(1 .. MaxEdges) /\ Len(fifo) = 0
      /\ got = <<>> /\ got \in Seq(0 .. MaxEdges) /\ Len(got) = 0
  BY DEF Init
<1>2. TypeOK
  <2>1. 0 \in 0 .. MaxEdges /\ 0 \in 0 .. MaxStarts /\ 0 <= Depth  BY PpsAssumption
  <2>2. pc \in [Threads -> {"user", "low", "pop"}]  BY DEF Init
  <2> QED BY <1>1, <2>1, <2>2 DEF Init, TypeOK
<1>3. Mutex /\ PollHolds /\ Measuring  BY DEF Init, Mutex, PollHolds, Measuring
<1>4. Queued /\ Returned  BY <1>1 DEF Queued, Returned
<1> QED BY <1>2, <1>3, <1>4 DEF IInv

\* An edge may queue one more sample, measured since the bit rose (pps_update).
LEMMA EdgeStep == IInv /\ Edge => IInv'
<1> SUFFICES ASSUME IInv, Edge PROVE IInv'  OBVIOUS
<1> USE PpsAssumption DEF IInv
<1>1. fifo \in Seq(1 .. MaxEdges) /\ edges + 1 \in 1 .. MaxEdges /\ edges' = edges + 1
  BY DEF Edge, TypeOK
<1>2. CASE on /\ armed /\ Len(fifo) < Depth
  <2>1. fifo' = Append(fifo, edges + 1)  BY <1>1, <1>2 DEF Edge, Push
  <2>2. /\ fifo' \in Seq(1 .. MaxEdges) /\ Len(fifo') = Len(fifo) + 1
        /\ \A k \in 1 .. Len(fifo) : fifo'[k] = fifo[k]
        /\ fifo'[Len(fifo) + 1] = edges + 1
    BY <1>1, <2>1
  <2>3. TypeOK'  BY <1>1, <1>2, <2>2 DEF TypeOK, Edge
  <2>4. Mutex'  BY DEF Mutex, Edge
  <2>8. Measuring'
    <3>1. on'  BY <1>2 DEF Edge
    <3>2. since' = since /\ since + 1 <= edges  BY <1>2 DEF Edge, Measuring
    <3>3. since + 1 <= edges' /\ since <= edges'  BY <1>1, <3>2 DEF TypeOK
    <3> QED BY <3>1, <3>2, <3>3 DEF Measuring
  <2>5. PollHolds'  BY <2>2, <1>1 DEF PollHolds, TypeOK
  <2>6. Queued'
    <3>1. since' = since /\ since + 1 <= edges /\ since \in Int /\ edges \in Int
      BY <1>2 DEF Edge, Measuring, TypeOK
    <3>2. Len(fifo) \in Nat /\ edges + 1 >= since + 2  BY <1>1, <3>1
    <3> QED BY <2>2, <3>1, <3>2 DEF Queued
  <2>7. Returned'  BY DEF Returned, Edge
  <2> QED BY <2>3, <2>4, <2>5, <2>6, <2>7, <2>8
<1>3. CASE ~(on /\ armed /\ Len(fifo) < Depth)
  <2>1. fifo' = fifo  BY <1>3 DEF Edge, Push
  <2>2. TypeOK'  BY <1>1, <2>1 DEF TypeOK, Edge
  <2>3. Measuring'
    <3>1. armed' => on  BY DEF Edge, Measuring
    <3> QED BY <3>1, <1>1 DEF Measuring, Edge, TypeOK
  <2> QED BY <2>1, <2>2, <2>3 DEF Mutex, PollHolds, Queued, Returned, Edge
<1> QED BY <1>2, <1>3

\* PPS_START and its two endings.
LEMMA StartStep ==
  ASSUME NEW t \in Threads, IInv, StartLow(t) \/ StartOff(t) \/ StartOn(t)
  PROVE  IInv'
<1> USE PpsAssumption DEF IInv
<1>1. pc' \in [Threads -> {"user", "low", "pop"}]
  BY DEF TypeOK, StartLow, StartOff, StartOn, Step
<1>2. Mutex'
  BY DEF Mutex, TypeOK, StartLow, StartOff, StartOn, Step
<1>3. PollHolds'
  BY DEF PollHolds, Mutex, TypeOK, StartLow, StartOff, StartOn, Step, unit
<1>4. CASE StartLow(t) \/ StartOff(t)
  <2>1. TypeOK'
    <3>1. starts' \in 0 .. MaxStarts  BY <1>4 DEF TypeOK, StartLow, StartOff
    <3>2. on' \in BOOLEAN /\ armed' \in BOOLEAN /\ lock' \in BOOLEAN
      BY <1>4 DEF TypeOK, StartLow, StartOff, unit
    <3>3. UNCHANGED <<fifo, edges, since, got, lost>>  BY <1>4 DEF StartLow, StartOff, unit
    <3> QED BY <1>1, <3>1, <3>2, <3>3 DEF TypeOK
  <2>2. Measuring'  BY <1>4 DEF Measuring, StartLow, StartOff, unit
  <2>3. Queued' /\ Returned'  BY <1>4 DEF Queued, Returned, StartLow, StartOff, unit
  <2> QED BY <1>2, <1>3, <2>1, <2>2, <2>3
<1>5. CASE StartOn(t)
  <2>1. /\ fifo' = <<>> /\ fifo' \in Seq(1 .. MaxEdges) /\ Len(fifo') = 0
        /\ got' = <<>> /\ got' \in Seq(0 .. MaxEdges) /\ Len(got') = 0
    BY <1>5 DEF StartOn
  <2>2. TypeOK'
    <3>1. 0 <= Depth  OBVIOUS
    <3>2. UNCHANGED <<edges, starts>> /\ since' = edges  BY <1>5 DEF StartOn
    <3>3. on' \in BOOLEAN /\ armed' \in BOOLEAN /\ lock' \in BOOLEAN
         /\ lost' \in BOOLEAN
      BY <1>5 DEF StartOn
    <3> QED BY <1>1, <2>1, <3>1, <3>2, <3>3 DEF TypeOK
  <2>3. Measuring'  BY <1>5 DEF Measuring, StartOn, TypeOK
  <2>4. Queued' /\ Returned'  BY <2>1 DEF Queued, Returned
  <2> QED BY <1>2, <1>3, <2>2, <2>3, <2>4
<1> QED BY <1>4, <1>5

\* PPS_READ: the poll, and the pop of what the poll has seen.
LEMMA ReadStep ==
  ASSUME NEW t \in Threads, IInv, ReadCount(t) \/ ReadPop(t) \/ ReadFault(t)
  PROVE  IInv'
<1> USE PpsAssumption DEF IInv
<1>1. pc' \in [Threads -> {"user", "low", "pop"}]
  BY DEF TypeOK, ReadCount, ReadPop, ReadFault, Step
<1>2. Mutex'
  BY DEF Mutex, TypeOK, ReadCount, ReadPop, ReadFault, Step
<1>3. CASE ReadCount(t)
  BY <1>1, <1>2, <1>3
  DEF ReadCount, Step, unit, TypeOK, PollHolds, Measuring, Queued, Returned
<1>4. CASE ReadPop(t)
  <2>1. fifo # <<>>  BY <1>4 DEF ReadPop, Step, PollHolds
  <2>2. fifo' = Tail(fifo) /\ got' = Append(got, Head(fifo))  BY <1>4, <2>1 DEF ReadPop
  <2>3. /\ fifo \in Seq(1 .. MaxEdges) /\ got \in Seq(0 .. MaxEdges)
        /\ Len(fifo) <= Depth
    BY DEF TypeOK
  <2>4. /\ fifo' \in Seq(1 .. MaxEdges) /\ Len(fifo') = Len(fifo) - 1
        /\ \A k \in 1 .. Len(fifo') : fifo'[k] = fifo[k + 1]
        /\ Head(fifo) = fifo[1] /\ Head(fifo) \in 1 .. MaxEdges
    BY <2>1, <2>2, <2>3
  <2>5. /\ got' \in Seq(0 .. MaxEdges) /\ Len(got') = Len(got) + 1
        /\ \A k \in 1 .. Len(got) : got'[k] = got[k]
        /\ got'[Len(got) + 1] = fifo[1]
    BY <2>2, <2>3, <2>4
  <2>6. TypeOK'
    <3>1. Len(fifo') <= Depth  BY <2>3, <2>4
    <3> QED BY <1>1, <1>4, <2>4, <2>5, <3>1 DEF TypeOK, ReadPop
  <2>7. PollHolds'  BY <1>4, <1>2 DEF PollHolds, Mutex, ReadPop, Step, TypeOK
  <2>8. Measuring'  BY <1>4 DEF Measuring, ReadPop
  <2>9. Queued'  BY <1>4, <2>3, <2>4 DEF Queued, ReadPop
  <2>10. fifo[1] # NoSample /\ fifo[1] >= since + 2
    BY <2>1, <2>3, <2>4 DEF Queued, NoSample
  <2>11. Returned'
    <3>1. since' = since  BY <1>4 DEF ReadPop
    <3>2. Len(got) \in Nat  BY <2>3
    <3>3. \A k \in 1 .. Len(got) : got[k] # NoSample /\ got[k] >= since + 2
      BY DEF Returned
    <3>4. ASSUME NEW k \in 1 .. Len(got')
          PROVE  got'[k] # NoSample /\ got'[k] >= since' + 2
      <4>1. CASE k = Len(got) + 1  BY <4>1, <2>5, <2>10, <3>1
      <4>2. CASE k # Len(got) + 1
        <5>1. k \in 1 .. Len(got)  BY <4>2, <2>5, <3>2
        <5>2. got'[k] = got[k]  BY <5>1, <2>5
        <5> QED BY <5>1, <5>2, <3>1, <3>3
      <4> QED BY <4>1, <4>2
    <3> QED BY <3>4 DEF Returned
  <2> QED BY <1>2, <2>6, <2>7, <2>8, <2>9, <2>11
<1>5. CASE ReadFault(t)
  <2>1. fifo # <<>>  BY <1>5 DEF ReadFault, Step, PollHolds
  <2>2. fifo \in Seq(1 .. MaxEdges) /\ Len(fifo) <= Depth  BY DEF TypeOK
  <2>3. /\ fifo' \in Seq(1 .. MaxEdges) /\ Len(fifo') = Len(fifo) - 1
        /\ \A k \in 1 .. Len(fifo') : fifo'[k] = fifo[k + 1]
    BY <1>5, <2>1, <2>2 DEF ReadFault
  <2>4. TypeOK'
    <3>1. Len(fifo') <= Depth  BY <2>2, <2>3
    <3>2. lost' \in BOOLEAN /\ lock' \in BOOLEAN  BY <1>5 DEF ReadFault
    <3> QED BY <1>1, <1>5, <2>3, <3>1, <3>2 DEF TypeOK, ReadFault
  <2>5. PollHolds'  BY <1>5, <1>2 DEF PollHolds, Mutex, ReadFault, Step, TypeOK
  <2>6. Measuring' /\ Returned'  BY <1>5 DEF Measuring, Returned, ReadFault
  <2>7. Queued'  BY <1>5, <2>2, <2>3 DEF Queued, ReadFault
  <2> QED BY <1>2, <2>4, <2>5, <2>6, <2>7
<1> QED BY <1>3, <1>4, <1>5

\* Closing and reopening stops the unit and leaves the FIFO as it is.
LEMMA ReopenStep == IInv /\ Reopen => IInv'
<1> SUFFICES ASSUME IInv, Reopen PROVE IInv'  OBVIOUS
<1> USE DEF IInv
<1>1. starts' \in 0 .. MaxStarts  BY PpsAssumption DEF Reopen, TypeOK
<1>2. TypeOK'  BY <1>1 DEF Reopen, TypeOK
<1>3. Measuring'  BY DEF Reopen, Measuring
<1> QED BY <1>2, <1>3 DEF Reopen, Mutex, PollHolds, Queued, Returned

\* No step of the PPS unit breaks its invariant.
LEMMA PpsStep == IInv /\ Next => IInv'
  BY EdgeStep, StartStep, ReadStep, ReopenStep DEF Next
-----------------------------------------------------------------------------
(* The order of the samples. *)

\* The samples returned and then those queued come from rising edges, the latest at
\* most the present one.
Rising ==
  /\ \A k, m \in 1 .. Len(got) : k < m => got[k] < got[m]
  /\ \A k, m \in 1 .. Len(fifo) : k < m => fifo[k] < fifo[m]
  /\ \A k \in 1 .. Len(got), m \in 1 .. Len(fifo) : got[k] < fifo[m]
  /\ \A k \in 1 .. Len(got) : got[k] <= edges
  /\ \A m \in 1 .. Len(fifo) : fifo[m] <= edges

\* Those among the first Depth of a start come one edge after the other.
Gapless ==
  ~lost =>
    /\ \A k \in 1 .. Len(got) : k <= Depth => got[k] = since + 1 + k
    /\ \A m \in 1 .. Len(fifo) : Len(got) + m <= Depth => fifo[m] = since + 1 + Len(got) + m

\* As long as there are fewer, no edge since the first has gone by without a sample.
Counting ==
  on => IF ~armed THEN edges = since /\ fifo = <<>> /\ got = <<>>
        ELSE ~lost /\ Len(got) + Len(fifo) < Depth
               => edges = since + 1 + Len(got) + Len(fifo)

InOrder == Rising /\ Gapless /\ Counting

LEMMA InOrderInit == Init => InOrder
  BY DEF Init, InOrder, Rising, Gapless, Counting

\* The lengths and the elements are numbers.
LEMMA Numbers ==
  ASSUME TypeOK
  PROVE  /\ Len(got) \in Nat /\ Len(fifo) \in Nat /\ Depth \in Nat \ {0}
         /\ edges \in Nat /\ since \in Nat
         /\ \A k \in 1 .. Len(got) : got[k] \in Nat
         /\ \A k \in 1 .. Len(fifo) : fifo[k] \in Nat
<1>1. got \in Seq(0 .. MaxEdges) /\ fifo \in Seq(1 .. MaxEdges)  BY DEF TypeOK
<1>2. \A k \in 1 .. Len(got) : got[k] \in 0 .. MaxEdges  BY <1>1, ElementOfSeq
<1>3. \A k \in 1 .. Len(fifo) : fifo[k] \in 1 .. MaxEdges  BY <1>1, ElementOfSeq
<1>4. edges \in 0 .. MaxEdges /\ since \in 0 .. MaxEdges  BY DEF TypeOK
<1>. QED BY <1>1, <1>2, <1>3, <1>4, PpsAssumption

\* A sample that is queued is later than all before it, and the next one if the unit
\* has queued every one so far.
LEMMA EdgeInOrder == IInv /\ InOrder /\ Edge => InOrder'
<1>. SUFFICES ASSUME IInv, InOrder, Edge PROVE InOrder'  OBVIOUS
<1>1. /\ edges' = edges + 1 /\ armed' = (armed \/ on)
      /\ UNCHANGED <<on, since, got, lost>>
  BY DEF Edge
<1>2. TypeOK  BY DEF IInv
<1>3. fifo \in Seq(1 .. MaxEdges) /\ on \in BOOLEAN /\ armed \in BOOLEAN  BY <1>2 DEF TypeOK
<1>n. /\ Len(got) \in Nat /\ Len(fifo) \in Nat /\ Depth \in Nat \ {0}
      /\ edges \in Nat /\ since \in Nat
      /\ \A k \in 1 .. Len(got) : got[k] \in Nat
      /\ \A k \in 1 .. Len(fifo) : fifo[k] \in Nat
  BY <1>2, Numbers
<1>4. CASE on /\ armed /\ Len(fifo) < Depth
  <2>1. fifo' = Append(fifo, edges + 1)  BY <1>1, <1>4 DEF Edge, Push
  <2>2. /\ Len(fifo') = Len(fifo) + 1
        /\ \A k \in 1 .. Len(fifo) : fifo'[k] = fifo[k]
        /\ fifo'[Len(fifo) + 1] = edges + 1
    BY <1>3, <2>1
  <2>3. Rising'
    <3>1. \A m \in 1 .. Len(fifo') :
            (m \in 1 .. Len(fifo) /\ fifo'[m] = fifo[m])
              \/ (m = Len(fifo) + 1 /\ fifo'[m] = edges + 1)
      BY <1>2, <2>2, <1>n
    <3>2. \A k, m \in 1 .. Len(fifo') : k < m => fifo'[k] < fifo'[m]
      BY <1>2, <2>2, <3>1, <1>n DEF InOrder, Rising
    <3>3. \A k \in 1 .. Len(got), m \in 1 .. Len(fifo') : got[k] < fifo'[m]
      BY <1>2, <2>2, <3>1, <1>n DEF InOrder, Rising
    <3>4. \A m \in 1 .. Len(fifo') : fifo'[m] <= edges'
      BY <1>1, <1>2, <2>2, <3>1, <1>n DEF InOrder, Rising
    <3>5. \A k \in 1 .. Len(got) : got[k] <= edges'
      BY <1>1, <1>2, <1>n DEF InOrder, Rising
    <3>6. \A k, m \in 1 .. Len(got) : k < m => got[k] < got[m]
      BY DEF InOrder, Rising
    <3>. QED BY <1>1, <3>2, <3>3, <3>4, <3>5, <3>6 DEF Rising
  <2>4. Gapless'
    <3>. SUFFICES ASSUME ~lost PROVE Gapless'  BY <1>1 DEF Gapless
    <3>1. \A k \in 1 .. Len(got) : k <= Depth => got[k] = since + 1 + k
      BY DEF InOrder, Gapless
    <3>2. ASSUME NEW m \in 1 .. Len(fifo'), Len(got) + m <= Depth
          PROVE  fifo'[m] = since + 1 + Len(got) + m
      <4>1. CASE m \in 1 .. Len(fifo)
        BY <2>2, <3>2, <4>1 DEF InOrder, Gapless
      <4>2. CASE m = Len(fifo) + 1
        <5>1. Len(got) + Len(fifo) < Depth  BY <1>2, <3>2, <4>2, <1>n
        <5>2. edges = since + 1 + Len(got) + Len(fifo)
          BY <1>4, <5>1 DEF InOrder, Counting
        <5>. QED BY <1>2, <2>2, <4>2, <5>2, <1>n
      <4>. QED BY <1>2, <2>2, <4>1, <4>2, <1>n
    <3>. QED BY <1>1, <3>1, <3>2 DEF Gapless
  <2>5. Counting'
    <3>. SUFFICES ASSUME ~lost, Len(got) + Len(fifo') < Depth
                  PROVE  edges' = since + 1 + Len(got) + Len(fifo')
      BY <1>1, <1>4 DEF Counting
    <3>1. edges = since + 1 + Len(got) + Len(fifo)
      BY <1>2, <1>4, <2>2, <1>n DEF InOrder, Counting
    <3>. QED BY <1>1, <1>2, <2>2, <3>1, <1>n
  <2>. QED BY <2>3, <2>4, <2>5 DEF InOrder
<1>5. CASE ~(on /\ armed /\ Len(fifo) < Depth)
  <2>1. fifo' = fifo  BY <1>5 DEF Edge, Push
  <2>2. Rising'
    BY <1>1, <1>2, <2>1, <1>n DEF InOrder, Rising
  <2>3. Gapless'  BY <1>1, <2>1 DEF InOrder, Gapless
  <2>4. Counting'
    <3>1. CASE on /\ armed
      <4>1. armed' = TRUE  BY <1>1, <3>1
      <4>2. ~(Len(fifo) < Depth)  BY <1>5, <3>1
      <4>3. ~(Len(got) + Len(fifo) < Depth)  BY <1>n, <4>2
      <4>. QED BY <1>1, <2>1, <4>1, <4>3 DEF Counting
    <3>2. CASE on /\ ~armed
      <4>1. edges = since /\ fifo = <<>> /\ got = <<>>  BY <3>2 DEF InOrder, Counting
      <4>2. Len(got) = 0 /\ Len(fifo) = 0 /\ armed' = TRUE  BY <1>1, <1>3, <3>2, <4>1
      <4>3. edges' = since + 1 + Len(got) + Len(fifo)  BY <1>1, <1>n, <4>1, <4>2
      <4>. QED BY <1>1, <2>1, <4>2, <4>3 DEF Counting
    <3>3. CASE ~on  BY <1>1, <3>3 DEF Counting
    <3>. QED BY <3>1, <3>2, <3>3
  <2>. QED BY <2>2, <2>3, <2>4 DEF InOrder
<1>. QED BY <1>4, <1>5

\* The reader's own steps: samples go from the head of the FIFO to the reader, or are
\* lost; a start begins anew.
LEMMA CallsInOrder == IInv /\ InOrder /\ Next => InOrder'
<1>. SUFFICES ASSUME IInv, InOrder, Next PROVE InOrder'  OBVIOUS
<1>1. CASE Edge  BY <1>1, EdgeInOrder
<1>2. CASE Reopen
  BY <1>2 DEF Reopen, InOrder, Rising, Gapless, Counting
<1>3. ASSUME NEW t \in Threads, StartLow(t) \/ StartOff(t) \/ ReadCount(t) PROVE InOrder'
  <2>1. UNCHANGED <<fifo, edges, since, got, lost>> /\ (on' => on /\ armed' = armed)
    BY <1>3 DEF StartLow, StartOff, ReadCount, unit
  <2>. QED BY <2>1 DEF InOrder, Rising, Gapless, Counting
<1>4. ASSUME NEW t \in Threads, StartOn(t) PROVE InOrder'
  <2>1. /\ on' = TRUE /\ armed' = FALSE /\ fifo' = <<>> /\ since' = edges /\ got' = <<>>
        /\ edges' = edges
    BY <1>4 DEF StartOn
  <2>2. Len(got') = 0 /\ Len(fifo') = 0  BY <2>1
  <2>. QED BY <2>1, <2>2 DEF InOrder, Rising, Gapless, Counting
<1>5. ASSUME NEW t \in Threads, ReadPop(t) \/ ReadFault(t) PROVE InOrder'
  <2>1. TypeOK /\ fifo # <<>>  BY <1>5 DEF IInv, PollHolds, ReadPop, ReadFault, Step
  <2>2. /\ fifo \in Seq(1 .. MaxEdges) /\ got \in Seq(0 .. MaxEdges)
        /\ UNCHANGED <<on, armed, edges, since>>
        /\ fifo' = Tail(fifo)
    BY <1>5, <2>1 DEF TypeOK, ReadPop, ReadFault
  <2>n. /\ Len(got) \in Nat /\ Len(fifo) \in Nat /\ Depth \in Nat \ {0}
        /\ edges \in Nat /\ since \in Nat
        /\ \A k \in 1 .. Len(got) : got[k] \in Nat
        /\ \A k \in 1 .. Len(fifo) : fifo[k] \in Nat
    BY <2>1, Numbers
  <2>3. /\ Len(fifo') = Len(fifo) - 1 /\ Len(fifo) \in Nat \ {0}
        /\ \A k \in 1 .. Len(fifo') : k + 1 \in 1 .. Len(fifo) /\ fifo'[k] = fifo[k + 1]
    BY <2>1, <2>2
  <2>4. \A k, m \in 1 .. Len(fifo') : k < m => fifo'[k] < fifo'[m]
    <3>1. \A k, m \in 1 .. Len(fifo') : k < m => k + 1 < m + 1  BY <2>2, <2>3
    <3>. QED BY <2>3, <3>1 DEF InOrder, Rising
  <2>5. \A m \in 1 .. Len(fifo') : fifo'[m] <= edges'
    BY <2>2, <2>3 DEF InOrder, Rising
  <2>6. CASE ReadPop(t)
    <3>1. got' = Append(got, Head(fifo)) /\ lost' = lost  BY <2>1, <2>6 DEF ReadPop
    <3>2. /\ Len(got') = Len(got) + 1 /\ got'[Len(got) + 1] = fifo[1]
          /\ \A k \in 1 .. Len(got) : got'[k] = got[k]
      BY <2>1, <2>2, <3>1
    <3>3. /\ Len(got) \in Nat
          /\ \A k \in 1 .. Len(got') :
               (k \in 1 .. Len(got) /\ got'[k] = got[k])
                 \/ (k = Len(got) + 1 /\ got'[k] = fifo[1])
      BY <2>2, <3>2
    <3>4. 1 \in 1 .. Len(fifo)  BY <2>3
    <3>5. Rising'
      <4>1. \A k, m \in 1 .. Len(got') : k < m => got'[k] < got'[m]
        BY <2>1, <3>2, <3>3, <3>4, <2>n DEF InOrder, Rising
      <4>2. \A m \in 1 .. Len(fifo') : fifo[1] < fifo'[m]
        <5>1. \A m \in 1 .. Len(fifo') : 1 < m + 1  BY <2>3
        <5>. QED BY <2>3, <3>4, <5>1 DEF InOrder, Rising
      <4>3. \A k \in 1 .. Len(got'), m \in 1 .. Len(fifo') : got'[k] < fifo'[m]
        BY <2>3, <3>3, <4>2 DEF InOrder, Rising
      <4>4. \A k \in 1 .. Len(got') : got'[k] <= edges'
        BY <2>2, <3>3, <3>4 DEF InOrder, Rising
      <4>. QED BY <2>4, <2>5, <4>1, <4>3, <4>4 DEF Rising
    <3>6. Gapless'
      <4>. SUFFICES ASSUME ~lost PROVE Gapless'  BY <3>1 DEF Gapless
      <4>1. \A k \in 1 .. Len(got') : k <= Depth => got'[k] = since + 1 + k
        <5>1. Len(got) + 1 <= Depth => fifo[1] = since + 1 + Len(got) + 1
          BY <3>4 DEF InOrder, Gapless
        <5>2. \A k \in 1 .. Len(got) : k <= Depth => got[k] = since + 1 + k
          BY DEF InOrder, Gapless
        <5>3. ASSUME NEW k \in 1 .. Len(got'), k <= Depth PROVE got'[k] = since + 1 + k
          <6>1. CASE k \in 1 .. Len(got) /\ got'[k] = got[k]  BY <5>2, <5>3, <6>1
          <6>2. CASE k = Len(got) + 1 /\ got'[k] = fifo[1]
            <7>1. since + 1 + Len(got) + 1 = since + 1 + k  BY <2>n, <6>2
            <7>. QED BY <5>1, <5>3, <6>2, <7>1
          <6>. QED BY <3>3, <6>1, <6>2
        <5>. QED BY <5>3
      <4>2. ASSUME NEW m \in 1 .. Len(fifo'), Len(got') + m <= Depth
            PROVE  fifo'[m] = since + 1 + Len(got') + m
        <5>1. Len(got) + (m + 1) <= Depth  BY <2>1, <3>2, <4>2, <2>n
        <5>2. fifo[m + 1] = since + 1 + Len(got) + (m + 1)
          BY <2>3, <5>1 DEF InOrder, Gapless
        <5>. QED BY <2>1, <2>3, <3>2, <5>2, <2>n
      <4>. QED BY <2>2, <4>1, <4>2 DEF Gapless
    <3>7. Counting'
      <4>1. ~(on /\ ~armed)  BY <2>1 DEF InOrder, Counting
      <4>2. Len(got') + Len(fifo') = Len(got) + Len(fifo)
        BY <2>1, <2>3, <3>2, <2>n
      <4>3. since + 1 + Len(got') + Len(fifo') = since + 1 + Len(got) + Len(fifo)
        BY <2>1, <2>3, <3>2, <2>n
      <4>. QED BY <2>2, <3>1, <4>1, <4>2, <4>3 DEF InOrder, Counting
    <3>. QED BY <3>5, <3>6, <3>7 DEF InOrder
  <2>7. CASE ReadFault(t)
    <3>1. lost' = TRUE /\ got' = got  BY <2>7 DEF ReadFault
    <3>2. Rising'
      <4>1. \A k \in 1 .. Len(got), m \in 1 .. Len(fifo') : got[k] < fifo'[m]
        BY <2>3 DEF InOrder, Rising
      <4>. QED BY <2>2, <2>4, <2>5, <3>1, <4>1 DEF InOrder, Rising
    <3>3. Gapless'  BY <3>1 DEF Gapless
    <3>4. Counting'
      <4>1. ~(on /\ ~armed)  BY <2>1 DEF InOrder, Counting
      <4>. QED BY <2>2, <3>1, <4>1 DEF Counting
    <3>. QED BY <3>2, <3>3, <3>4 DEF InOrder
  <2>. QED BY <1>5, <2>6, <2>7
<1>. QED BY <1>1, <1>2, <1>3, <1>4, <1>5 DEF Next
-----------------------------------------------------------------------------
(* The attenuator. *)

\* The last k bits that the part has shifted in are the first k of the code.
Sent(t, k) == \A i \in 1 .. k : shift[Width - k + i] = code[t][i]

DsaTypes ==
  /\ at \in [Threads -> {"user", "low", "clkLow", "data", "clkHigh", "latch"}]
  /\ code \in [Threads -> D!Code] /\ left \in [Threads -> 0 .. Width]
  /\ clk \in {0, 1} /\ latch \in {0, 1} /\ data \in {0, 1}
  /\ shift \in D!Code /\ bits \in Nat

DsaIdle == clk = 0 /\ bits = 0

\* AD8370_SET, step by step.
Sending(t) ==
  /\ at[t] = "low" => DsaIdle /\ left[t] = Width
  /\ at[t] \in {"clkLow", "data"} => bits = Width - left[t] /\ Sent(t, bits)
  /\ at[t] \in {"data", "latch"} => clk = 0
  /\ at[t] = "data" => left[t] # 0
  /\ at[t] = "clkHigh" =>
       /\ clk = 0 /\ bits = Width - left[t] - 1 /\ left[t] # Width /\ Sent(t, bits)
       /\ data = code[t][bits + 1]
  /\ at[t] = "latch" => bits = Width /\ Sent(t, bits)
  /\ at[t] \in {"clkLow", "data", "clkHigh", "latch"} => latch = 0

\* One mutex for the two devices: at most one thread is in a call, of either.
OneCall ==
  /\ \A t \in Threads : at[t] # "user" => lock
  /\ \A t, u \in Threads : at[t] # "user" /\ at[u] # "user" => t = u
  /\ \A t, u \in Threads : ~(pc[t] # "user" /\ at[u] # "user")

DsaInv ==
  /\ DsaTypes /\ att = asked
  /\ (\A t \in Threads : at[t] = "user") => DsaIdle
  /\ \A t \in Threads : Sending(t)

DsaVars == <<at, code, left, clk, latch, data, shift, bits, att, asked>>

LEMMA DsaInit == D!Init => DsaInv /\ \A t \in Threads : at[t] = "user"
<1>. SUFFICES ASSUME D!Init PROVE DsaInv /\ \A t \in Threads : at[t] = "user"  OBVIOUS
<1>1. D!Start \in D!Code  BY DEF D!Start, D!Code
<1>2. 0 \in 0 .. Width  BY DsaAssumption
<1>3. DsaTypes  BY <1>1, <1>2 DEF D!Init, DsaTypes
<1>. QED BY <1>3 DEF D!Init, DsaInv, DsaIdle, Sending

\* A call that begins finds the part as the last one left it: clock low, nothing
\* shifted in.
LEMMA EnterAlone ==
  ASSUME DsaInv, OneCall, NEW t \in Threads, D!Enter(t)
  PROVE  DsaInv' /\ (\A u \in Threads : u # t => at'[u] = "user")
<1>. USE DEF DsaInv, DsaTypes
<1>1. /\ at[t] = "user" /\ at' = [at EXCEPT ![t] = "low"] /\ lock = FALSE
      /\ left' = [left EXCEPT ![t] = Width]
      /\ UNCHANGED <<clk, latch, data, shift, bits, att, asked>>
  BY DEF D!Enter, D!Goto, D!part
<1>2. \A u \in Threads : at[u] = "user"  BY <1>1 DEF OneCall
<1>3. PICK c \in Codes : code' = [code EXCEPT ![t] = c]  BY DEF D!Enter
<1>4. c \in D!Code /\ Width \in 0 .. Width  BY DsaAssumption DEF D!Code
<1>5. DsaTypes'  BY <1>1, <1>3, <1>4
<1>6. DsaIdle /\ DsaIdle'  BY <1>1, <1>2 DEF DsaIdle
<1>7. \A u \in Threads : u # t => at'[u] = "user"  BY <1>1, <1>2
<1>8. \A u \in Threads : Sending(u)'
  <2>1. ASSUME NEW u \in Threads, u # t PROVE Sending(u)'
    BY <1>7, <2>1 DEF Sending
  <2>2. at'[t] = "low" /\ left'[t] = Width  BY <1>1
  <2>3. Sending(t)'  BY <1>6, <2>2 DEF Sending
  <2>. QED BY <2>1, <2>3
<1>9. att' = asked'  BY <1>1
<1>. QED BY <1>5, <1>6, <1>7, <1>8, <1>9

\* The other steps are those of the only call in progress, and send the next bit.
LEMMA SendBit ==
  ASSUME DsaInv, OneCall, NEW t \in Threads,
         D!LatchLow(t) \/ D!ClockLow(t) \/ D!SetData(t) \/ D!ClockHigh(t) \/ D!Return(t)
  PROVE  DsaInv' /\ (\A u \in Threads : u # t => at'[u] = "user")
<1>. USE DEF DsaInv, DsaTypes
<1>1. at[t] # "user" /\ \A u \in Threads : u # t => at[u] = "user"
  BY DEF OneCall, D!LatchLow, D!ClockLow, D!SetData, D!ClockHigh, D!Return, D!Goto
<1>2. PICK w \in {"user", "clkLow", "data", "clkHigh", "latch"} :
        at' = [at EXCEPT ![t] = w]
  BY DEF D!LatchLow, D!ClockLow, D!SetData, D!ClockHigh, D!Return, D!Goto
<1>3. at'[t] = w /\ \A u \in Threads : u # t => at'[u] = "user"  BY <1>1, <1>2
<1>4. \A u \in Threads : u # t => Sending(u)'  BY <1>3 DEF Sending
<1>5. at' \in [Threads -> {"user", "low", "clkLow", "data", "clkHigh", "latch"}]
  BY <1>2
<1>6. /\ Width \in Nat /\ Least \in 1 .. Width /\ left[t] \in 0 .. Width /\ bits \in Nat
      /\ Sending(t) /\ code[t] \in D!Code /\ code' = code
  BY DsaAssumption DEF D!LatchLow, D!ClockLow, D!SetData, D!ClockHigh, D!Return
<1>7. CASE D!LatchLow(t)
  <2>1. /\ at[t] = "low" /\ w = "clkLow" /\ latch' = 0
        /\ UNCHANGED <<code, left, asked, clk, data, shift, bits, att>>
    BY <1>3, <1>5, <1>7 DEF D!LatchLow, D!Goto, D!Latch
  <2>2. bits = 0 /\ left[t] = Width  BY <1>6, <2>1 DEF Sending, DsaIdle
  <2>3. bits = Width - left[t] /\ Sent(t, bits)'  BY <1>6, <2>1, <2>2 DEF Sent
  <2>4. Sending(t)'  BY <1>3, <2>1, <2>3 DEF Sending
  <2>. QED BY <1>3, <1>4, <1>5, <2>1, <2>4
<1>8. CASE D!ClockLow(t)
  <2>1. /\ at[t] = "clkLow" /\ w = IF left[t] = 0 THEN "latch" ELSE "data"
        /\ clk' = 0
        /\ UNCHANGED <<code, left, asked, latch, data, shift, bits, att>>
    BY <1>3, <1>5, <1>8 DEF D!ClockLow, D!Goto, D!Clock
  <2>2. bits = Width - left[t] /\ Sent(t, bits) /\ latch = 0
    BY <1>6, <2>1 DEF Sending
  <2>3. Sent(t, bits)'  BY <2>1, <2>2 DEF Sent
  <2>4. Sending(t)'  BY <1>3, <1>6, <2>1, <2>2, <2>3 DEF Sending
  <2>. QED BY <1>3, <1>4, <1>5, <2>1, <2>4
<1>9. CASE D!SetData(t)
  <2>1. /\ at[t] = "data" /\ w = "clkHigh"
        /\ data' = code[t][Width - left[t] + 1]
        /\ left' = [left EXCEPT ![t] = left[t] - 1]
        /\ UNCHANGED <<code, asked, latch, clk, shift, bits, att>>
    BY <1>3, <1>5, <1>9 DEF D!SetData, D!Goto
  <2>2. bits = Width - left[t] /\ Sent(t, bits) /\ latch = 0 /\ clk = 0 /\ left[t] # 0
    BY <1>6, <2>1 DEF Sending
  <2>3. left[t] - 1 \in 0 .. Width /\ bits + 1 \in 1 .. Width  BY <1>6, <2>2
  <2>4. left'[t] = left[t] - 1 /\ left' \in [Threads -> 0 .. Width]  BY <2>1, <2>3
  <2>5. data' = code[t][bits + 1] /\ data' \in {0, 1}
    <3>1. Width - left[t] + 1 = bits + 1  BY <1>6, <2>2
    <3>. QED BY <1>6, <2>1, <2>3, <3>1 DEF D!Code
  <2>6. Sent(t, bits)'  BY <2>1, <2>2 DEF Sent
  <2>7. bits = Width - left'[t] - 1 /\ left'[t] # Width  BY <1>6, <2>2, <2>4
  <2>8. Sending(t)'  BY <1>3, <2>1, <2>2, <2>5, <2>6, <2>7 DEF Sending
  <2>. QED BY <1>3, <1>4, <1>5, <2>1, <2>4, <2>5, <2>8
<1>10. CASE D!ClockHigh(t)
  <2>1. at[t] = "clkHigh" /\ w = "clkLow"
        /\ UNCHANGED <<code, left, asked, latch, data, att>>
    BY <1>3, <1>5, <1>10 DEF D!ClockHigh, D!Goto, D!Clock
  <2>2. /\ clk = 0 /\ bits = Width - left[t] - 1 /\ left[t] # Width /\ Sent(t, bits)
        /\ data = code[t][bits + 1] /\ latch = 0
    BY <1>6, <2>1 DEF Sending
  <2>3. /\ clk' = 1 /\ bits' = bits + 1
        /\ shift' = [i \in 1 .. Width |-> IF i < Width THEN shift[i + 1] ELSE data]
    BY <1>10, <2>2 DEF D!ClockHigh, D!Clock
  <2>4. shift' \in D!Code
    <3>1. \A i \in 1 .. Width : i < Width => i + 1 \in 1 .. Width  BY <1>6
    <3>. QED BY <2>3, <3>1 DEF D!Code
  <2>5. bits' = Width - left[t]  BY <1>6, <2>2, <2>3
  <2>6. Sent(t, bits)'
    <3>1. ASSUME NEW i \in 1 .. bits + 1
          PROVE  shift'[Width - (bits + 1) + i] = code[t][i]
      <4>1. Width - (bits + 1) + i \in 1 .. Width  BY <1>6, <2>2
      <4>2. CASE i = bits + 1
        <5>1. Width - (bits + 1) + i = Width  BY <1>6, <4>2
        <5>. QED BY <1>6, <2>2, <2>3, <4>1, <4>2, <5>1
      <4>3. CASE i # bits + 1
        <5>1. /\ i \in 1 .. bits /\ Width - (bits + 1) + i < Width
              /\ Width - (bits + 1) + i + 1 = Width - bits + i
          BY <1>6, <4>3
        <5>2. shift[Width - bits + i] = code[t][i]  BY <2>2, <5>1 DEF Sent
        <5>. QED BY <2>3, <4>1, <5>1, <5>2
      <4>. QED BY <4>2, <4>3
    <3>. QED BY <1>6, <2>3, <3>1 DEF Sent
  <2>7. Sending(t)'  BY <1>3, <2>1, <2>2, <2>5, <2>6 DEF Sending
  <2>. QED BY <1>3, <1>4, <1>5, <2>1, <2>3, <2>4, <2>7
<1>11. CASE D!Return(t)
  <2>1. /\ at[t] = "latch" /\ w = "user" /\ asked' = code[t]
        /\ UNCHANGED <<code, left, clk, data>>
    BY <1>3, <1>5, <1>11 DEF D!Return, D!Goto, D!Latch
  <2>2. clk = 0 /\ bits = Width /\ Sent(t, bits) /\ latch = 0
    BY <1>6, <2>1 DEF Sending
  <2>3. latch' = 1 /\ att' = shift /\ shift' = D!Start /\ bits' = 0
    BY <1>6, <1>11, <2>2 DEF D!Return, D!Latch
  <2>4. shift = code[t]
    <3>1. \A i \in 1 .. Width : shift[i] = code[t][i]
      <4>1. ASSUME NEW i \in 1 .. Width PROVE Width - Width + i = i  BY <1>6
      <4>2. \A i \in 1 .. Width : shift[Width - Width + i] = code[t][i]
        BY <2>2 DEF Sent
      <4>. QED BY <4>1, <4>2
    <3>. QED BY <1>6, <3>1 DEF D!Code
  <2>5. D!Start \in D!Code  BY DEF D!Start, D!Code
  <2>6. Sending(t)'  BY <1>3, <2>1 DEF Sending
  <2>7. DsaIdle'  BY <2>1, <2>2, <2>3 DEF DsaIdle
  <2>. QED BY <1>3, <1>4, <1>5, <2>1, <2>3, <2>4, <2>5, <2>6, <2>7
<1>. QED BY <1>7, <1>8, <1>9, <1>10, <1>11
-----------------------------------------------------------------------------
(* Both devices, on one file. *)

IoInv == IInv /\ InOrder /\ DsaInv /\ OneCall

\* A call on the PPS unit begins when the mutex is free and ends by giving it back.
LEMMA PpsTurn == IoInv /\ Next /\ UNCHANGED DsaVars => IoInv'
<1>. SUFFICES ASSUME IoInv, Next, UNCHANGED DsaVars PROVE IoInv'  OBVIOUS
<1>. USE DEF IoInv
<1>1. IInv' /\ InOrder'  BY PpsStep, CallsInOrder
<1>2. DsaInv'  BY DEF DsaVars, DsaInv, DsaTypes, DsaIdle, Sending, Sent, D!Code
<1>3. OneCall'
  <2>1. CASE UNCHANGED <<lock, pc>>  BY <2>1 DEF OneCall, DsaVars
  <2>2. ASSUME NEW t \in Threads, ~lock \/ pc[t] # "user" PROVE OneCall'
    <3>1. \A u \in Threads : at'[u] = "user"  BY <2>2 DEF OneCall, DsaVars
    <3>. QED BY <3>1 DEF OneCall
  <2>. QED BY <2>1, <2>2 DEF Next, Edge, Reopen, StartLow, StartOff, StartOn, ReadCount,
                 ReadPop, ReadFault, Step
<1>. QED BY <1>1, <1>2, <1>3

LEMMA DsaTurn ==
  IoInv /\ D!Next /\ UNCHANGED <<unit, edges, since, pc, got, lost, starts>> => IoInv'
<1>. SUFFICES ASSUME IoInv, D!Next, UNCHANGED <<unit, edges, since, pc, got, lost, starts>>
              PROVE  IoInv'
  OBVIOUS
<1>. USE DEF IoInv
<1>1. PICK t \in Threads : D!DsaStep(t)  BY DEF D!Next
<1>2. DsaInv' /\ \A u \in Threads : u # t => at'[u] = "user"
  BY <1>1, EnterAlone, SendBit DEF D!DsaStep
<1>3. \A u \in Threads : pc[u] = "user"
  <2>1. CASE D!Enter(t)  BY <2>1 DEF D!Enter, IInv, Mutex
  <2>2. CASE at[t] # "user"  BY <2>2 DEF OneCall
  <2>. QED BY <1>1, <2>1, <2>2 DEF D!DsaStep, D!LatchLow, D!ClockLow, D!SetData, D!ClockHigh,
                 D!Return, D!Goto
<1>4. lock' \in BOOLEAN /\ (at'[t] # "user" => lock')
  <2>1. CASE D!Enter(t)  BY <2>1 DEF D!Enter
  <2>2. CASE D!LatchLow(t) \/ D!ClockLow(t) \/ D!SetData(t) \/ D!ClockHigh(t)
    BY <2>2 DEF D!LatchLow, D!ClockLow, D!SetData, D!ClockHigh, D!Goto, OneCall, IInv, TypeOK
  <2>3. CASE D!Return(t)
    BY <2>3 DEF D!Return, D!Goto, DsaInv, DsaTypes
  <2>. QED BY <1>1, <2>1, <2>2, <2>3 DEF D!DsaStep
<1>5. IInv'
  BY <1>3, <1>4 DEF IInv, TypeOK, Mutex, PollHolds, Measuring, Queued, Returned, unit
<1>6. InOrder'  BY DEF InOrder, Rising, Gapless, Counting, unit
<1>7. OneCall'  BY <1>2, <1>3, <1>4 DEF OneCall
<1>. QED BY <1>2, <1>5, <1>6, <1>7

\* The invariant is inductive: it holds in every reachable state.
THEOREM IoInductive == IoSpec => []IoInv
<1>1. IoInit => IoInv
  <2>. SUFFICES ASSUME IoInit PROVE IoInv  OBVIOUS
  <2>1. IInv /\ InOrder  BY Initially, InOrderInit DEF IoInit
  <2>2. DsaInv /\ \A t \in Threads : at[t] = "user"  BY DsaInit DEF IoInit
  <2>. QED BY <2>1, <2>2 DEF IoInv, OneCall
<1>2. ASSUME IoInv, [IoNext]_<<vars, D!vars>> PROVE IoInv'
  <2>1. CASE UNCHANGED <<vars, D!vars>>
    <3>1. IInv'
      BY <1>2, <2>1 DEF vars, unit, IoInv, IInv, TypeOK, Mutex, PollHolds, Measuring, Queued,
           Returned
    <3>2. InOrder'
      BY <1>2, <2>1 DEF vars, unit, IoInv, InOrder, Rising, Gapless, Counting
    <3>3. UNCHANGED <<lock, pc, DsaVars>>
      BY <2>1 DEF vars, D!vars, D!caller, D!part, DsaVars
    <3>4. DsaInv' /\ OneCall'
      BY <1>2, <3>3 DEF IoInv, DsaVars, DsaInv, DsaTypes, DsaIdle, Sending, Sent, D!Code,
           OneCall
    <3>. QED BY <3>1, <3>2, <3>4 DEF IoInv
  <2>2. CASE IoNext
    BY <1>2, <2>2, PpsTurn, DsaTurn DEF IoNext, DsaVars
  <2>. QED BY <1>2, <2>1, <2>2
<1>. QED BY <1>1, <1>2, PTL DEF IoSpec

\* The variables keep their types and the FIFO its bound (pps_push's test).
THEOREM PpsTypes == IoSpec => []TypeOK
<1>1. IoInv => TypeOK  BY DEF IoInv, IInv
<1>. QED BY IoInductive, <1>1, PTL

\* Every sample returned was measured wholly after the last PPS_START(1), so none is
\* the 0 of an empty FIFO: the mutex of zynqsdr_ioctl keeps poll and pop together.
THEOREM ReadsAreWholeSeconds == IoSpec => []WholeSeconds
<1>1. IoInv => WholeSeconds  BY DEF IoInv, IInv, Returned, WholeSeconds
<1>. QED BY IoInductive, <1>1, PTL

\* The readers together get the samples in order, each once; the first Depth of a
\* start come without a gap unless a call could not deliver one.
THEOREM ReadsInOrder == IoSpec => []SamplesInOrder
<1>1. IoInv => SamplesInOrder
  <2>. SUFFICES ASSUME IoInv, NEW k \in 1 .. Len(got)
                PROVE  /\ k > 1 => got[k] > got[k - 1]
                       /\ k <= Depth /\ ~lost => got[k] = since + 1 + k
    BY DEF SamplesInOrder
  <2>1. TypeOK  BY DEF IoInv, IInv
  <2>2. Len(got) \in Nat /\ \A m \in 1 .. Len(got) : got[m] \in Nat  BY <2>1, Numbers
  <2>3. k > 1 => k - 1 \in 1 .. Len(got) /\ k - 1 < k  BY <2>2
  <2>. QED BY <2>2, <2>3 DEF IoInv, InOrder, Rising, Gapless
<1>. QED BY IoInductive, <1>1, PTL

\* The part applies the code of the last AD8370_SET that returned, at every moment.
THEOREM AttenuatorFollows == IoSpec => []AttenuatorAsAsked
<1>1. IoInv => AttenuatorAsAsked
  BY DEF IoInv, DsaInv, AttenuatorAsAsked, D!AttenuatorAsAsked
<1>. QED BY IoInductive, <1>1, PTL
=============================================================================
