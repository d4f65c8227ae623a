--------------------------- MODULE ZynqSdrProofs ---------------------------
(***************************************************************************)
(* The control plane of ZynqSdr, proved for every finite set of processes, *)
(* any number of threads, waterfall channels, buffers and decimations.     *)
(*                                                                         *)
(* First the open gate.  It is an atomic counter, not a lock: it is also   *)
(* incremented by the opens it turns away, and decremented by the failing  *)
(* ones in any order with the release.  That it never lets two processes   *)
(* in follows from the counter being, at every moment, the number of       *)
(* processes between their increment and their decrement.                  *)
(*                                                                         *)
(* Then the registers, under the file's mutex.  With one process let in,   *)
(* the mutex makes the ioctl in progress the only one, so that the         *)
(* invariant says, step by step, what an ioctl has changed already; what   *)
(* it is not working on agrees between registers, driver and engines       *)
(* throughout, and everything does once it is done (Sound).                *)
(***************************************************************************)
EXTENDS ZynqSdr, FiniteSetTheorems, TLAPS

Active == {p \in Procs : fd[p] # "none"}

\* p has the device, or has passed the gate and is about to have it.
Winner(p) ==
  \/ fd[p] \in Holding
  \/ \E t \in Threads : Owner[t] = p /\ pc[t] = "opened"

GateTypes ==
  /\ fd \in [Procs -> Holding \cup {"none", "opening"}]
  /\ pc \in [Threads -> Steps]
  /\ openCount \in Nat

\* One thread per process is in open, and its process is marked so.
OneOpening ==
  /\ \A t \in Threads : pc[t] \in Opening => fd[Owner[t]] = "opening"
  /\ \A t, u \in Threads :
       pc[t] \in Opening /\ pc[u] \in Opening /\ Owner[t] = Owner[u] => t = u

CountExact == openCount = Cardinality(Active)

OneWinner == \A p, q \in Procs : Winner(p) /\ Winner(q) => p = q

GateInv == GateTypes /\ OneOpening /\ CountExact /\ OneWinner
-----------------------------------------------------------------------------
\* The count of processes, when one comes or goes.
LEMMA ActiveFinite == IsFiniteSet(Active) /\ Cardinality(Active) \in Nat
<1>1. Active \subseteq Procs  BY DEF Active
<1>. QED BY <1>1, DevAssumption, FS_Subset, FS_CardinalityType

LEMMA OneMore ==
  ASSUME NEW p \in Procs, p \notin Active, Active' = Active \cup {p}
  PROVE  Cardinality(Active') = Cardinality(Active) + 1
  BY ActiveFinite, FS_AddElement

LEMMA OneLess ==
  ASSUME NEW p \in Procs, p \in Active, Active' = Active \ {p}
  PROVE  Cardinality(Active') = Cardinality(Active) - 1
  BY ActiveFinite, FS_RemoveElement

\* Everything that is neither an open nor a close leaves the gate alone: it
\* moves at most one thread, from and to steps outside open.
LEMMA GateUntouched ==
  ASSUME GateTypes, NEW t \in Threads, Enter(t) \/ Acquire(t) \/ Handler(t)
  PROVE  /\ UNCHANGED sw
         /\ pc[t] \notin Opening
         /\ \E w \in Steps \ Opening : pc' = [pc EXCEPT ![t] = w]
<1>. USE DEF At, Goto, Steps, Opening, sw
<1>1. CASE Enter(t)  BY <1>1 DEF Enter
<1>2. CASE Acquire(t)
  <2>1. PICK o \in Ops : pc' = [pc EXCEPT ![t] = FirstStep[o.k]]
    BY <1>2 DEF Acquire
  <2>2. o.k \in {"start", "param", "pps", "other"}  BY DEF Ops
  <2>3. FirstStep[o.k] \in {"clrR", "param", "ppsR", "unlock"}  BY <2>2 DEF FirstStep
  <2>. QED BY <1>2, <2>1, <2>3 DEF Acquire
<1>3. CASE Handler(t)
  BY <1>3 DEF Handler, ClearRead, ClearWrite, Alloc, AllocFails, ModeRead, ModeWrite,
       Address, SetRead, SetWrite, Param, PulseRead, PulseLow, PulseHigh, PpsRead,
       PpsLow, PpsHigh, Unlock, Read
<1>. QED BY <1>1, <1>2, <1>3

LEMMA QuietStep ==
  ASSUME GateInv, NEW t \in Threads, Enter(t) \/ Acquire(t) \/ Handler(t)
  PROVE  GateInv'
<1>1. /\ fd' = fd /\ openCount' = openCount
      /\ pc[t] \notin Opening
  BY GateUntouched DEF GateInv, sw
<1>2. PICK w \in Steps \ Opening : pc' = [pc EXCEPT ![t] = w]
  BY GateUntouched DEF GateInv
<1>3. \A u \in Threads : /\ pc'[u] \in Opening <=> pc[u] \in Opening
                         /\ pc'[u] = "opened" <=> pc[u] = "opened"
  BY <1>1, <1>2 DEF GateInv, GateTypes, Opening
<1>4. GateTypes'  BY <1>1, <1>2 DEF GateInv, GateTypes
<1>5. OneOpening'  BY <1>1, <1>3 DEF GateInv, OneOpening
<1>6. CountExact'  BY <1>1 DEF GateInv, CountExact, Active
<1>7. OneWinner'  BY <1>1, <1>3 DEF GateInv, OneWinner, Winner
<1>. QED BY <1>4, <1>5, <1>6, <1>7 DEF GateInv

\* The increment: a result of 1 means nobody was between increment and decrement.
LEMMA OpenCountStep ==
  ASSUME GateInv, NEW t \in Threads, OpenCount(t)
  PROVE  GateInv'
<1>. DEFINE p == Owner[t]
<1>. USE DevAssumption
<1>1. p \in Procs /\ pc[t] = "user" /\ fd[p] = "none"
  BY DEF OpenCount, At
<1>2. /\ fd' = [fd EXCEPT ![p] = "opening"]
      /\ openCount' = openCount + 1
      /\ pc' = [pc EXCEPT ![t] = IF openCount' = 1 THEN "opened" ELSE "busy"]
  BY DEF OpenCount, Goto
<1>. HIDE DEF p
<1>3. p = Owner[t]  BY DEF p
<1>4. GateTypes'  BY <1>1, <1>2 DEF GateInv, GateTypes, Steps, Opening
<1>5. CountExact'
  <2>1. p \notin Active /\ Active' = Active \cup {p}
    BY <1>1, <1>2 DEF Active, GateInv, GateTypes
  <2>. QED BY <1>1, <1>2, <2>1, OneMore DEF GateInv, CountExact
<1>6. OneOpening'
  <2>1. \A u \in Threads : u # t /\ pc'[u] \in Opening =>
           pc[u] \in Opening /\ Owner[u] # p /\ fd'[Owner[u]] = "opening"
    BY <1>1, <1>2 DEF GateInv, GateTypes, OneOpening
  <2>2. fd'[p] = "opening"  BY <1>1, <1>2 DEF GateInv, GateTypes
  <2>3. \A u \in Threads : pc'[u] \in Opening => fd'[Owner[u]] = "opening"
    BY <1>3, <2>1, <2>2
  <2>4. \A u, v \in Threads :
          pc'[u] \in Opening /\ pc'[v] \in Opening /\ Owner[u] = Owner[v] => u = v
    BY <1>3, <2>1 DEF GateInv, OneOpening
  <2>. QED BY <2>3, <2>4 DEF OneOpening
<1>7. OneWinner'
  <2>1. CASE openCount' = 1
    <3>1. Cardinality(Active) = 0
      BY <1>2, <2>1 DEF GateInv, GateTypes, CountExact
    <3>2. Active = {}  BY <3>1, ActiveFinite, FS_EmptySet
    <3>3. \A q \in Procs : fd[q] = "none"  BY <3>2 DEF Active
    <3>4. \A q \in Procs : fd'[q] \in Holding => FALSE
      BY <1>1, <1>2, <3>3 DEF GateInv, GateTypes, Holding
    <3>5. \A u \in Threads : pc'[u] = "opened" => u = t
      BY <1>2, <3>3 DEF GateInv, GateTypes, OneOpening, Opening
    <3>. QED BY <3>4, <3>5 DEF OneWinner, Winner
  <2>2. CASE openCount' # 1
    <3>1. \A u \in Threads : pc'[u] = "opened" => pc[u] = "opened"
      BY <1>2, <2>2 DEF GateInv, GateTypes
    <3>2. \A q \in Procs : fd'[q] \in Holding => fd[q] \in Holding
      BY <1>1, <1>2 DEF GateInv, GateTypes, Holding
    <3>. QED BY <3>1, <3>2 DEF GateInv, OneWinner, Winner
  <2>. QED BY <2>1, <2>2
<1>. QED BY <1>4, <1>5, <1>6, <1>7 DEF GateInv

LEMMA OpenFailsStep ==
  ASSUME GateInv, NEW t \in Threads, OpenFails(t)
  PROVE  GateInv'
<1>. DEFINE p == Owner[t]
<1>. USE DevAssumption
<1>1. p \in Procs /\ pc[t] \in Opening /\ fd[p] = "opening"
  BY DEF OpenFails, At, Opening, GateInv, OneOpening
<1>2. /\ fd' = [fd EXCEPT ![p] = "none"] /\ openCount' = openCount - 1
      /\ pc' = [pc EXCEPT ![t] = "user"]
  BY DEF OpenFails, Goto
<1>. HIDE DEF p
<1>3. p = Owner[t]  BY DEF p
<1>4. p \in Active /\ Active' = Active \ {p}
  BY <1>1, <1>2 DEF Active, GateInv, GateTypes
<1>5. CountExact'  BY <1>1, <1>2, <1>4, OneLess DEF GateInv, CountExact
<1>6. GateTypes'
  <2>1. openCount' \in Nat
    <3>1. Active' \subseteq Procs  BY DEF Active
    <3>2. IsFiniteSet(Active')  BY <3>1, FS_Subset
    <3>. QED BY <1>5, <3>2, FS_CardinalityType DEF CountExact
  <2>. QED BY <1>1, <1>2, <2>1 DEF GateInv, GateTypes, Steps
<1>7. \A u \in Threads : pc'[u] \in Opening => /\ pc'[u] = pc[u] /\ u # t
                                               /\ Owner[u] # p
  BY <1>1, <1>2, <1>3 DEF GateInv, GateTypes, OneOpening, Opening
<1>8. OneOpening'
  BY <1>1, <1>2, <1>7 DEF GateInv, GateTypes, OneOpening
<1>9. OneWinner'
  <2>1. \A q \in Procs : fd'[q] \in Holding => fd[q] \in Holding
    BY <1>1, <1>2 DEF GateInv, GateTypes, Holding
  <2>2. \A u \in Threads : pc'[u] = "opened" => pc[u] = "opened"
    BY <1>7 DEF Opening
  <2>. QED BY <2>1, <2>2 DEF GateInv, OneWinner, Winner
<1>. QED BY <1>5, <1>6, <1>8, <1>9 DEF GateInv

\* The thread that passed the gate turns its pass into the open file.
LEMMA OpenResetStep ==
  ASSUME GateInv, NEW t \in Threads, OpenReset(t)
  PROVE  GateInv'
<1>. DEFINE p == Owner[t]
<1>. USE DevAssumption
<1>1. p \in Procs /\ pc[t] = "opened" /\ fd[p] = "opening"
  BY DEF OpenReset, At, Opening, GateInv, OneOpening
<1>2. /\ fd' = [fd EXCEPT ![p] = "live"] /\ openCount' = openCount
      /\ pc' = [pc EXCEPT ![t] = "user"]
  BY DEF OpenReset, Goto
<1>. HIDE DEF p
<1>3. p = Owner[t]  BY DEF p
<1>4. GateTypes'  BY <1>1, <1>2 DEF GateInv, GateTypes, Steps, Holding
<1>5. CountExact'
  <2>1. Active' = Active  BY <1>1, <1>2 DEF Active, GateInv, GateTypes
  <2>. QED BY <1>2, <2>1 DEF GateInv, CountExact
<1>6. \A u \in Threads : pc'[u] \in Opening => /\ pc'[u] = pc[u] /\ u # t
                                               /\ Owner[u] # p
  BY <1>1, <1>2, <1>3 DEF GateInv, GateTypes, OneOpening, Opening
<1>7. OneOpening'  BY <1>1, <1>2, <1>6 DEF GateInv, GateTypes, OneOpening
<1>8. OneWinner'
  <2>1. Winner(p)  BY <1>1, <1>3 DEF Winner
  <2>2. \A q \in Procs : Winner(q)' => q = p \/ Winner(q)
    BY <1>1, <1>2, <1>6 DEF GateInv, GateTypes, Winner, Opening
  <2>. QED BY <1>1, <2>1, <2>2 DEF GateInv, OneWinner
<1>. QED BY <1>4, <1>5, <1>7, <1>8 DEF GateInv

\* Close and the steps of release change a holder's state and, last, its count.
LEMMA ReleaseStep ==
  ASSUME GateInv, NEW p \in Procs, Close(p) \/ Release(p)
  PROVE  GateInv'
<1>. USE DevAssumption
<1>1. pc' = pc
  BY DEF Close, Release, ReleaseClear, ReleaseReset, ReleaseFree, ReleaseCount, thr
<1>2. CASE ReleaseCount(p)
  <2>1. /\ fd[p] = "freed" /\ fd' = [fd EXCEPT ![p] = "none"]
        /\ openCount' = openCount - 1
    BY <1>2 DEF ReleaseCount
  <2>2. p \in Active /\ Active' = Active \ {p}
    BY <2>1 DEF Active, GateInv, GateTypes
  <2>3. CountExact'  BY <2>1, <2>2, OneLess DEF GateInv, CountExact
  <2>4. openCount' \in Nat
    <3>1. Active' \subseteq Procs  BY DEF Active
    <3>2. IsFiniteSet(Active')  BY <3>1, FS_Subset
    <3>. QED BY <2>3, <3>2, FS_CardinalityType DEF CountExact
  <2>5. GateTypes'  BY <1>1, <2>1, <2>4 DEF GateInv, GateTypes
  <2>6. OneOpening'  BY <1>1, <2>1 DEF GateInv, GateTypes, OneOpening
  <2>7. OneWinner'
    BY <1>1, <2>1 DEF GateInv, GateTypes, OneWinner, Winner, Holding
  <2>. QED BY <2>3, <2>5, <2>6, <2>7 DEF GateInv
<1>3. CASE Close(p) \/ ReleaseClear(p) \/ ReleaseReset(p) \/ ReleaseFree(p)
  <2>1. /\ openCount' = openCount /\ fd[p] \in Holding
        /\ \E w \in Holding : fd' = [fd EXCEPT ![p] = w]
    BY <1>3 DEF Close, ReleaseClear, ReleaseReset, ReleaseFree, Holding
  <2>2. Active' = Active  BY <2>1 DEF Active, GateInv, GateTypes, Holding
  <2>3. CountExact'  BY <2>1, <2>2 DEF GateInv, CountExact
  <2>4. GateTypes'  BY <1>1, <2>1 DEF GateInv, GateTypes
  <2>5. OneOpening'
    BY <1>1, <2>1 DEF GateInv, GateTypes, OneOpening, Holding
  <2>6. OneWinner'
    <3>1. \A q \in Procs : fd'[q] \in Holding <=> fd[q] \in Holding
      BY <2>1 DEF GateInv, GateTypes
    <3>. QED BY <1>1, <3>1 DEF GateInv, OneWinner, Winner
  <2>. QED BY <2>3, <2>4, <2>5, <2>6 DEF GateInv
<1>. QED BY <1>2, <1>3 DEF Release
-----------------------------------------------------------------------------
LEMMA GateInit == Init => GateInv
<1>. SUFFICES ASSUME Init PROVE GateInv  OBVIOUS
<1>1. Active = {}  BY DEF Init, Active
<1>2. openCount = Cardinality(Active)  BY <1>1, FS_EmptySet DEF Init
<1>. QED
  BY <1>2, DevAssumption DEF Init, GateInv, GateTypes, OneOpening, CountExact, OneWinner,
       Winner, Steps, Opening, Holding

\* The counter is the number of processes in open, holding the file or releasing
\* it, and at most one of them has passed the gate: in every reachable state.
THEOREM GateInductive == Spec => []GateInv
<1>1. GateInv /\ [Next]_vars => GateInv'
  <2>. SUFFICES ASSUME GateInv, [Next]_vars PROVE GateInv'  OBVIOUS
  <2>1. ASSUME NEW t \in Threads, Open(t) PROVE GateInv'
    BY <2>1, OpenCountStep, OpenFailsStep, OpenResetStep DEF Open
  <2>2. ASSUME NEW t \in Threads, Enter(t) \/ Acquire(t) \/ Handler(t) PROVE GateInv'
    BY <2>2, QuietStep
  <2>3. ASSUME NEW p \in Procs, Close(p) \/ Release(p) PROVE GateInv'
    BY <2>3, ReleaseStep
  <2>4. CASE BlockDone \/ UNCHANGED vars
    BY <2>4 DEF BlockDone, vars, sw, thr, GateInv, GateTypes, OneOpening, CountExact,
         Active, OneWinner, Winner
  <2>. QED BY <2>1, <2>2, <2>3, <2>4 DEF Next
<1>. QED BY GateInit, <1>1, PTL DEF Spec

\* Never two processes with the device, whatever their number.
THEOREM OneOpenerAtATime == Spec => []SingleOpener
<1>1. GateInv => SingleOpener
  BY DEF GateInv, OneWinner, Winner, SingleOpener
<1>. QED BY GateInductive, <1>1, PTL

\* When nobody is in open or release and nobody has the device, the counter is 0,
\* so that the next open succeeds: failing opens do not use the device up.
THEOREM CounterReturnsToZero ==
  Spec => []((\A p \in Procs : fd[p] = "none") => openCount = 0)
<1>1. GateInv => ((\A p \in Procs : fd[p] = "none") => openCount = 0)
  <2>. SUFFICES ASSUME GateInv, \A p \in Procs : fd[p] = "none" PROVE openCount = 0
    OBVIOUS
  <2>1. Active = {}  BY DEF Active
  <2>. QED BY <2>1, FS_EmptySet DEF GateInv, CountExact
<1>. QED BY GateInductive, <1>1, PTL
-----------------------------------------------------------------------------
(* The registers, the engines and the rings, under the file's mutex. *)

\* The file is there and an ioctl may be in progress on it.
Using == {"live", "closing"}

StartSteps == {"clrR", "clrW", "alloc", "modeR", "modeW", "addr", "setR", "setW"}
ParamSteps == {"param", "pulseR", "pulseLo", "pulseHi"}
PpsSteps   == {"ppsR", "ppsLo", "ppsHi"}
Locked     == StartSteps \cup ParamSteps \cup PpsSteps \cup {"unlock"}

StartOps == [k : {"start"}, s : {Rx}, d : Decims, cont : {FALSE}]
              \cup [k : {"start"}, s : WF, d : {None}, cont : BOOLEAN]
ParamOps == [k : {"param"}, s : WF, d : Decims \cup {None}]
PpsOps   == [k : {"pps"}, on : BOOLEAN]
OtherOps == [k : {"other"}]

\* The command that a thread is carrying out fits the step it is at.
OpFits ==
  \A t \in Threads :
    /\ pc[t] \in StartSteps => op[t] \in StartOps
    /\ pc[t] \in ParamSteps => op[t] \in ParamOps
    /\ pc[t] \in PpsSteps => op[t] \in PpsOps
    /\ pc[t] \in {"modeR", "modeW"} => op[t].s \in WF

\* The mutex belongs to the thread that is inside an ioctl, and ioctls are called
\* on open files only.
Mutex ==
  /\ \A t \in Threads : pc[t] \in Locked => lock[Owner[t]] = t /\ fd[Owner[t]] \in Using
  /\ \A t \in Threads : pc[t] = "lock" => fd[Owner[t]] \in Using
  /\ \A p \in Procs : lock[p] # None =>
       lock[p] \in Threads /\ Owner[lock[p]] = p /\ pc[lock[p]] \in Locked

\* A process without a file has nothing.
Clean ==
  \A p \in Procs : fd[p] \in {"none", "opening", "freed"} =>
    /\ \A s \in Streams : cpu[p][s] = None /\ ~armed[p][s] /\ decim[p][s] = None
    /\ ~ppsOn[p]

\* A buffer that is allocated is the ring of one stream, and the other way round.
Owned ==
  /\ \A b \in Bufs : owner[b] # None =>
       \E p \in Procs, s \in Streams : owner[b] = <<p, s>> /\ cpu[p][s] = b

\* An engine whose reset bit is 0 is idle.
Engines == \A s \in Streams : s \notin reset => eng[s] = Idle

\* Release has stopped the engines if it had to.
RxStopped ==
  \A p \in Procs : fd[p] = "reset" /\ armed[p][Rx] => \A s \in Streams : ~eng[s].run

\* At every moment: armed streams have their ring and the registers point to it; a
\* running engine writes there, in the mode asked for.
Common(p) ==
  /\ \A s \in Streams : armed[p][s] => cpu[p][s] # None /\ addr[s] = cpu[p][s] /\ len[s]
  /\ \A s \in Streams : eng[s].run =>
       armed[p][s] /\ eng[s].buf = cpu[p][s] /\ eng[s].full
  /\ \A s \in WF : eng[s].run => eng[s].oneshot = cont[p][s]
  /\ decim[p][Rx] # None => armed[p][Rx]

\* Except for the bits and streams X that an ioctl is working on: registers, driver
\* and engines agree.
Sound(p, X) ==
  /\ \A s \in Streams \ X :
       /\ s \in reset <=> armed[p][s]
       /\ cpu[p][s] # None => armed[p][s]
       /\ decim[p][s] # None => /\ dreg[s] = decim[p][s]
                                /\ eng[s].run => eng[s].d = decim[p][s]
  /\ \A s \in WF \ X : armed[p][s] => (s \in mode) = cont[p][s]
  /\ Pps \notin X => (Pps \in reset <=> ppsOn[p])

\* What the ioctl of t is working on.
Target(t) ==
  IF pc[t] \in {"clrR", "clrW", "param", "ppsR", "ppsLo", "unlock"} THEN {}
  ELSE IF pc[t] = "ppsHi" THEN {Pps}
  ELSE {op[t].s}

\* RX_START and WF_START, step by step.
Starting(t, p, s) ==
  /\ first[t] = ~armed[p][s]
  /\ pc[t] \in {"clrW", "setW"} => tmp[t] = reset
  /\ pc[t] \notin {"clrR", "clrW"} =>
       /\ s \notin reset
       /\ cpu[p][s] # None => armed[p][s] \/ pc[t] # "alloc"
       /\ s = Rx => dreg[s] = op[t].d
       /\ s \in WF => /\ cont[p][s] = op[t].cont
                      /\ decim[p][s] # None => dreg[s] = decim[p][s]
  /\ pc[t] \in {"modeR", "modeW", "addr", "setR", "setW"} => cpu[p][s] # None
  /\ pc[t] = "modeW" => tmp[t] = mode
  /\ pc[t] \in {"addr", "setR", "setW"} /\ s \in WF => (s \in mode) = cont[p][s]
  /\ pc[t] \in {"setR", "setW"} => addr[s] = cpu[p][s] /\ len[s]

\* WF_PARAM: the cache and the register have been set, the engine is told by a pulse.
Pulsing(t, p, s) ==
  /\ armed[p][s] /\ (s \in mode) = cont[p][s]
  /\ decim[p][s] = op[t].d /\ dreg[s] = op[t].d
  /\ pc[t] \in {"pulseR", "pulseLo"} => s \in reset
  /\ pc[t] = "pulseLo" => tmp[t] = reset
  /\ pc[t] = "pulseHi" => s \notin reset /\ tmp[t] = reset \cup {s}

\* PPS_START.
PpsPulsing(t, p) ==
  /\ pc[t] = "ppsLo" => tmp[t] = reset
  /\ pc[t] = "ppsHi" => ppsOn[p] /\ tmp[t] \cup {Pps} = reset \cup {Pps}

Working(t) ==
  /\ Sound(Owner[t], Target(t))
  /\ pc[t] \in StartSteps => Starting(t, Owner[t], op[t].s)
  /\ pc[t] \in ParamSteps \ {"param"} => Pulsing(t, Owner[t], op[t].s)
  /\ pc[t] \in PpsSteps => PpsPulsing(t, Owner[t])

Files ==
  /\ \A p \in Procs : fd[p] \in Using => Common(p) /\ (lock[p] = None => Sound(p, {}))
  /\ \A t \in Threads : pc[t] \in Locked => Working(t)

IInv == TypeOK /\ GateInv /\ OpFits /\ Mutex /\ Clean /\ Owned /\ Engines /\ RxStopped /\ Files
-----------------------------------------------------------------------------
(* The commands. *)

LEMMA CommandKinds == Ops = StartOps \cup ParamOps \cup PpsOps \cup OtherOps
  BY DEF Ops, StartOps, ParamOps, PpsOps, OtherOps

LEMMA StartCommand ==
  ASSUME NEW o \in StartOps
  PROVE  /\ o.k = "start" /\ o.s \in Streams /\ o.cont \in BOOLEAN
         /\ o.s = Rx => o.d \in Decims
  BY DevAssumption DEF StartOps, Streams

LEMMA ParamCommand ==
  ASSUME NEW o \in ParamOps
  PROVE  o.k = "param" /\ o.s \in WF /\ o.s \in Streams /\ o.s # Rx /\ o.d \in Decims \cup {None}
  BY DevAssumption DEF ParamOps, Streams

LEMMA PpsCommand ==
  ASSUME NEW o \in PpsOps
  PROVE  o.k = "pps" /\ o.on \in BOOLEAN
  BY DEF PpsOps
-----------------------------------------------------------------------------
(* The ioctl in progress. *)

\* It is the only one, and its process the only one with the device.
LEMMA Alone ==
  ASSUME IInv, NEW t \in Threads, pc[t] \in Locked
  PROVE  /\ Owner[t] \in Procs /\ lock[Owner[t]] = t /\ fd[Owner[t]] \in Using
         /\ \A q \in Procs : fd[q] \in Holding => q = Owner[t]
         /\ \A u \in Threads : pc[u] \in Locked => u = t
         /\ Common(Owner[t]) /\ Working(t)
<1>1. Owner[t] \in Procs  BY DevAssumption
<1>2. lock[Owner[t]] = t /\ fd[Owner[t]] \in Using  BY DEF IInv, Mutex
<1>3. ASSUME NEW q \in Procs, fd[q] \in Holding PROVE q = Owner[t]
  <2>1. fd[Owner[t]] \in Holding  BY <1>2 DEF Using, Holding
  <2>. QED BY <1>1, <1>3, <2>1 DEF IInv, GateInv, OneWinner, Winner
<1>4. ASSUME NEW u \in Threads, pc[u] \in Locked PROVE u = t
  <2>1. lock[Owner[u]] = u /\ fd[Owner[u]] \in Using /\ Owner[u] \in Procs
    BY <1>4, DevAssumption DEF IInv, Mutex
  <2>2. Owner[u] = Owner[t]  BY <1>3, <2>1 DEF Using, Holding
  <2>. QED BY <1>2, <2>1, <2>2
<1>5. Common(Owner[t]) /\ Working(t)  BY <1>1, <1>2 DEF IInv, Files
<1>. QED BY <1>1, <1>2, <1>3, <1>4, <1>5

\* A step of it that keeps the mutex leaves the other processes' files alone, so that
\* the invariant is a matter of its own.
LEMMA IoctlFrame ==
  ASSUME IInv, NEW t \in Threads, pc[t] \in Locked, NEW w \in Locked,
         pc' = [pc EXCEPT ![t] = w],
         UNCHANGED <<openCount, fd, lock, op>>,
         \A q \in Procs : q # Owner[t] =>
           cpu'[q] = cpu[q] /\ armed'[q] = armed[q] /\ decim'[q] = decim[q]
             /\ ppsOn'[q] = ppsOn[q],
         w \in StartSteps => pc[t] \in StartSteps,
         w \in ParamSteps => pc[t] \in ParamSteps,
         w \in PpsSteps => pc[t] \in PpsSteps,
         w \in {"modeR", "modeW"} => op[t].s \in WF,
         TypeOK', GateInv', Owned', Engines', Common(Owner[t])', Working(t)'
  PROVE  IInv'
<1>1. /\ Owner[t] \in Procs /\ lock[Owner[t]] = t /\ fd[Owner[t]] \in Using
      /\ \A q \in Procs : fd[q] \in Holding => q = Owner[t]
      /\ \A u \in Threads : pc[u] \in Locked => u = t
  BY Alone
<1>2. /\ pc'[t] = w /\ \A u \in Threads : u # t => pc'[u] = pc[u]
  BY DEF IInv, TypeOK
<1>3. OpFits'  BY <1>2 DEF IInv, OpFits
<1>4. Mutex'
  <2>1. ASSUME NEW u \in Threads, pc'[u] \in Locked
        PROVE  lock'[Owner[u]] = u /\ fd'[Owner[u]] \in Using
    BY <1>1, <1>2, <2>1
  <2>2. ASSUME NEW u \in Threads, pc'[u] = "lock" PROVE fd'[Owner[u]] \in Using
    <3>1. u # t  BY <1>2, <2>2 DEF Locked, StartSteps, ParamSteps, PpsSteps
    <3>. QED BY <1>2, <2>2, <3>1 DEF IInv, Mutex
  <2>3. ASSUME NEW q \in Procs, lock'[q] # None
        PROVE  lock'[q] \in Threads /\ Owner[lock'[q]] = q /\ pc'[lock'[q]] \in Locked
    BY <1>2, <2>3 DEF IInv, Mutex
  <2>. QED BY <2>1, <2>2, <2>3 DEF Mutex
<1>5. Clean'
  <2>1. \A q \in Procs : fd[q] \in {"none", "opening", "freed"} => q # Owner[t]
    BY <1>1 DEF Using
  <2>. QED BY <2>1 DEF IInv, Clean
<1>6. RxStopped'
  <2>1. \A q \in Procs : fd[q] # "reset"  BY <1>1 DEF Using, Holding
  <2>. QED BY <2>1 DEF RxStopped
<1>7. Files'
  <2>1. ASSUME NEW q \in Procs, fd'[q] \in Using
        PROVE  Common(q)' /\ (lock'[q] = None => Sound(q, {})')
    <3>1. q = Owner[t]  BY <1>1, <2>1 DEF Using, Holding
    <3>2. lock'[q] # None  BY <1>1, <3>1, DevAssumption
    <3>. QED BY <3>1, <3>2
  <2>2. ASSUME NEW u \in Threads, pc'[u] \in Locked PROVE Working(u)'
    <3>1. u = t  BY <1>1, <1>2, <2>2
    <3>. QED BY <3>1
  <2>. QED BY <2>1, <2>2 DEF Files
<1>. QED BY <1>3, <1>4, <1>5, <1>6, <1>7 DEF IInv

\* What writing the reset register does to the engines.
LEMMA Written ==
  ASSUME TypeOK, Engines, NEW bits \in SUBSET (Streams \cup {Pps}), WriteReset(bits)
  PROVE  /\ reset' = bits /\ Engines'
         /\ eng' \in [Streams -> [run : BOOLEAN, buf : Bufs \cup {None}, full : BOOLEAN,
                                  oneshot : BOOLEAN, d : Decims \cup {None}]]
         /\ \A s \in Streams : s \notin bits => eng'[s] = Idle /\ ~eng'[s].run
         /\ \A s \in Streams : (s \in bits <=> s \in reset) => eng'[s] = eng[s]
         /\ \A s \in Streams : s \in bits /\ s \notin reset =>
              /\ eng'[s].run /\ eng'[s].buf = addr[s] /\ eng'[s].full = len[s]
              /\ (eng'[s].oneshot <=> s \in mode) /\ eng'[s].d = dreg[s]
<1>1. reset' = bits  BY DEF WriteReset
<1>2. ASSUME NEW s \in Streams
      PROVE  eng'[s] = IF s \in bits \ reset
                         THEN [run |-> TRUE, buf |-> addr[s], full |-> len[s],
                               oneshot |-> s \in mode, d |-> dreg[s]]
                       ELSE IF s \in reset \ bits THEN Idle
                       ELSE eng[s]
  BY DEF WriteReset
<1>3. Idle \in [run : BOOLEAN, buf : Bufs \cup {None}, full : BOOLEAN,
                oneshot : BOOLEAN, d : Decims \cup {None}] /\ ~Idle.run
  BY DEF Idle
<1>4. ASSUME NEW s \in Streams
      PROVE  eng'[s] \in [run : BOOLEAN, buf : Bufs \cup {None}, full : BOOLEAN,
                          oneshot : BOOLEAN, d : Decims \cup {None}]
  <2>1. addr[s] \in Bufs \cup {None} /\ len[s] \in BOOLEAN /\ dreg[s] \in Decims \cup {None}
    BY DEF TypeOK
  <2>2. eng[s] \in [run : BOOLEAN, buf : Bufs \cup {None}, full : BOOLEAN,
                    oneshot : BOOLEAN, d : Decims \cup {None}]
    BY DEF TypeOK
  <2>3. (s \in mode) \in BOOLEAN  OBVIOUS
  <2>4. CASE s \in bits \ reset
    <3>1. eng'[s] = [run |-> TRUE, buf |-> addr[s], full |-> len[s],
                     oneshot |-> s \in mode, d |-> dreg[s]]
      BY <1>2, <2>4
    <3>. HIDE DEF TypeOK
    <3>. QED BY ONLY <2>1, <2>3, <3>1, SMTT(20)
  <2>5. CASE s \in reset \ bits  BY <1>2, <1>3, <2>5
  <2>6. CASE s \notin bits \ reset /\ s \notin reset \ bits  BY <1>2, <2>2, <2>6
  <2>. QED BY <2>4, <2>5, <2>6
<1>5. eng' \in [Streams -> [run : BOOLEAN, buf : Bufs \cup {None}, full : BOOLEAN,
                            oneshot : BOOLEAN, d : Decims \cup {None}]]
  <2>1. eng' = [s \in Streams |-> eng'[s]]  BY DEF WriteReset
  <2>. QED BY <1>4, <2>1
<1>6. \A s \in Streams : s \notin bits => eng'[s] = Idle /\ ~eng'[s].run
  BY <1>2, <1>3 DEF Engines
<1>7. \A s \in Streams : (s \in bits <=> s \in reset) => eng'[s] = eng[s]
  BY <1>2, <1>6 DEF Engines
<1>8. ASSUME NEW s \in Streams, s \in bits, s \notin reset
      PROVE  /\ eng'[s].run /\ eng'[s].buf = addr[s] /\ eng'[s].full = len[s]
             /\ (eng'[s].oneshot <=> s \in mode) /\ eng'[s].d = dreg[s]
  <2>. DEFINE m == s \in mode
  <2>1. eng'[s] = [run |-> TRUE, buf |-> addr[s], full |-> len[s],
                   oneshot |-> m, d |-> dreg[s]]
    BY <1>2, <1>8
  <2>. HIDE DEF m
  <2>2. /\ eng'[s].run = TRUE /\ eng'[s].buf = addr[s] /\ eng'[s].full = len[s]
        /\ eng'[s].oneshot = m /\ eng'[s].d = dreg[s]
    BY <2>1
  <2>. QED BY <2>2 DEF m
<1>9. Engines'  BY <1>1, <1>6 DEF Engines
<1>. QED BY <1>1, <1>5, <1>6, <1>7, <1>8, <1>9

\* A stream's bit that was 0 is set: its engine starts, the others go on.
LEMMA Raised ==
  ASSUME TypeOK, Engines, NEW s \in Streams, s \notin reset, WriteReset(reset \cup {s})
  PROVE  /\ reset' = reset \cup {s} /\ Engines'
         /\ eng' \in [Streams -> [run : BOOLEAN, buf : Bufs \cup {None}, full : BOOLEAN,
                                  oneshot : BOOLEAN, d : Decims \cup {None}]]
         /\ \A x \in Streams : x # s => eng'[x] = eng[x]
         /\ eng'[s].run /\ eng'[s].buf = addr[s] /\ eng'[s].full = len[s]
         /\ (eng'[s].oneshot <=> s \in mode) /\ eng'[s].d = dreg[s]
<1>1. PICK bits \in SUBSET (Streams \cup {Pps}) : bits = reset \cup {s}  BY DEF TypeOK
<1>2. WriteReset(bits)  BY <1>1
<1>3. /\ reset' = bits /\ Engines'
      /\ eng' \in [Streams -> [run : BOOLEAN, buf : Bufs \cup {None}, full : BOOLEAN,
                               oneshot : BOOLEAN, d : Decims \cup {None}]]
      /\ \A x \in Streams : (x \in bits <=> x \in reset) => eng'[x] = eng[x]
  BY <1>2, Written
<1>4. /\ eng'[s].run /\ eng'[s].buf = addr[s] /\ eng'[s].full = len[s]
      /\ (eng'[s].oneshot <=> s \in mode) /\ eng'[s].d = dreg[s]
  <2>1. s \in bits /\ s \notin reset  BY <1>1
  <2>. QED BY <1>2, <2>1, Written
<1>. QED BY <1>1, <1>3, <1>4

\* Writes that leave the streams' bits as they are leave the engines as they are.
LEMMA PpsWritten ==
  ASSUME TypeOK, Engines, NEW bits \in SUBSET (Streams \cup {Pps}), WriteReset(bits),
         \A s \in Streams : s \in bits <=> s \in reset
  PROVE  reset' = bits /\ Engines' /\ eng' = eng
<1>1. reset' = bits /\ Engines' /\ \A s \in Streams : eng'[s] = eng[s]  BY Written
<1>2. eng' = [s \in Streams |-> eng'[s]]  BY DEF WriteReset
<1>3. eng = [s \in Streams |-> eng[s]]  BY DEF TypeOK
<1>. QED BY <1>1, <1>2, <1>3

\* A register read changes nothing but what the thread knows.
LEMMA RegisterRead ==
  ASSUME IInv, NEW t \in Threads, NEW from \in Locked, NEW to \in Locked,
         NEW value \in SUBSET (Streams \cup {Pps}), Read(t, from, value, to), GateInv',
         to \in StartSteps => from \in StartSteps,
         to \in ParamSteps => from \in ParamSteps,
         to \in PpsSteps => from \in PpsSteps,
         to \in {"modeR", "modeW"} => op[t].s \in WF,
         Working(t)'
  PROVE  IInv'
<1>. USE DEF Read, At, Goto
<1>1. pc[t] \in Locked /\ pc' = [pc EXCEPT ![t] = to]  OBVIOUS
<1>2. TypeOK'
  <2>1. to \in Steps  BY DEF Locked, StartSteps, ParamSteps, PpsSteps, Steps
  <2>. QED BY <2>1 DEF IInv, TypeOK, sw, file, regs
<1>3. Owned' /\ Engines' /\ Common(Owner[t])'
  BY Alone, <1>1 DEF IInv, Owned, Engines, Common, file, regs
<1>. QED BY <1>1, <1>2, <1>3, IoctlFrame DEF sw, file, regs

\* RX_START and WF_START read the reset register twice, WF_START the mode register.
LEMMA StartReads ==
  ASSUME IInv, NEW t \in Threads, ClearRead(t) \/ ModeRead(t) \/ SetRead(t)
  PROVE  IInv'
<1>. DEFINE p == Owner[t]
            s == op[t].s
<1>0. GateInv'  BY QuietStep DEF IInv, Handler
<1>1. pc[t] \in StartSteps /\ pc[t] \in Locked
  BY DEF ClearRead, ModeRead, SetRead, Read, At, StartSteps, Locked
<1>2. Sound(p, Target(t)) /\ Starting(t, p, s)  BY <1>1, Alone DEF Working
<1>3. op[t] \in StartOps /\ op[t].s \in Streams
  BY <1>1, StartCommand DEF IInv, OpFits
<1>4. /\ reset \in SUBSET (Streams \cup {Pps}) /\ mode \in SUBSET (Streams \cup {Pps})
      /\ tmp \in [Threads -> SUBSET (Streams \cup {Pps})] /\ pc \in [Threads -> Steps]
  BY DEF IInv, TypeOK, Streams
<1>5. CASE ClearRead(t)
  <2>1. pc[t] = "clrR" /\ pc'[t] = "clrW" /\ tmp'[t] = reset
        /\ UNCHANGED <<sw, file, op, first, regs, owner>>
    BY <1>4, <1>5 DEF ClearRead, Read, At, Goto
  <2>2. Sound(p, {})'  BY <1>2, <2>1 DEF Sound, Target, file, regs
  <2>3. Starting(t, p, s)'  BY <1>2, <2>1 DEF Starting, file, regs
  <2>4. Working(t)'
    BY <2>1, <2>2, <2>3 DEF Working, Target, ParamSteps, PpsSteps
  <2>. QED BY <1>0, <1>4, <1>5, <2>4, RegisterRead
        DEF ClearRead, Locked, StartSteps, ParamSteps, PpsSteps
<1>6. CASE ModeRead(t)
  <2>1. pc[t] = "modeR" /\ pc'[t] = "modeW" /\ tmp'[t] = mode
        /\ UNCHANGED <<sw, file, op, first, regs, owner>>
    BY <1>4, <1>6 DEF ModeRead, Read, At, Goto
  <2>2. Sound(p, {s})'  BY <1>2, <2>1 DEF Sound, Target, file, regs
  <2>3. Starting(t, p, s)'  BY <1>2, <2>1 DEF Starting, file, regs
  <2>4. Working(t)'
    BY <2>1, <2>2, <2>3 DEF Working, Target, ParamSteps, PpsSteps
  <2>5. op[t].s \in WF  BY <2>1 DEF IInv, OpFits
  <2>. QED BY <1>0, <1>4, <1>6, <2>4, <2>5, RegisterRead
        DEF ModeRead, Locked, StartSteps, ParamSteps, PpsSteps
<1>7. CASE SetRead(t)
  <2>1. pc[t] = "setR" /\ pc'[t] = "setW" /\ tmp'[t] = reset
        /\ UNCHANGED <<sw, file, op, first, regs, owner>>
    BY <1>4, <1>7 DEF SetRead, Read, At, Goto
  <2>2. Sound(p, {s})'  BY <1>2, <2>1 DEF Sound, Target, file, regs
  <2>3. Starting(t, p, s)'  BY <1>2, <2>1 DEF Starting, file, regs
  <2>4. Working(t)'
    BY <2>1, <2>2, <2>3 DEF Working, Target, ParamSteps, PpsSteps
  <2>. QED BY <1>0, <1>4, <1>7, <2>4, RegisterRead
        DEF SetRead, Locked, StartSteps, ParamSteps, PpsSteps
<1>. QED BY <1>5, <1>6, <1>7

\* WF_PARAM and PPS_START read it before their pulse.
LEMMA PulseReads ==
  ASSUME IInv, NEW t \in Threads, PulseRead(t) \/ PpsRead(t)
  PROVE  IInv'
<1>. DEFINE p == Owner[t]
            s == op[t].s
<1>0. GateInv'  BY QuietStep DEF IInv, Handler
<1>4. /\ reset \in SUBSET (Streams \cup {Pps})
      /\ tmp \in [Threads -> SUBSET (Streams \cup {Pps})] /\ pc \in [Threads -> Steps]
  BY DEF IInv, TypeOK, Streams
<1>5. CASE PulseRead(t)
  <2>1. pc[t] = "pulseR" /\ pc'[t] = "pulseLo" /\ tmp'[t] = reset
        /\ UNCHANGED <<sw, file, op, first, regs, owner>>
    BY <1>4, <1>5 DEF PulseRead, Read, At, Goto
  <2>2. Sound(p, Target(t)) /\ Pulsing(t, p, s)
    BY <2>1, Alone DEF Working, Locked, ParamSteps
  <2>3. Sound(p, {s})'  BY <2>1, <2>2 DEF Sound, Target, file, regs
  <2>4. Pulsing(t, p, s)'  BY <2>1, <2>2 DEF Pulsing, file, regs
  <2>5. Working(t)'
    BY <2>1, <2>3, <2>4 DEF Working, Target, StartSteps, PpsSteps
  <2>. QED BY <1>0, <1>4, <1>5, <2>5, RegisterRead
        DEF PulseRead, Locked, StartSteps, ParamSteps, PpsSteps
<1>6. CASE PpsRead(t)
  <2>1. pc[t] = "ppsR" /\ pc'[t] = "ppsLo" /\ tmp'[t] = reset
        /\ UNCHANGED <<sw, file, op, first, regs, owner>>
    BY <1>4, <1>6 DEF PpsRead, Read, At, Goto
  <2>2. Sound(p, Target(t))
    BY <2>1, Alone DEF Working, Locked, PpsSteps
  <2>3. Sound(p, {})'  BY <2>1, <2>2 DEF Sound, Target, file, regs
  <2>4. PpsPulsing(t, p)'  BY <2>1 DEF PpsPulsing, file, regs
  <2>5. Working(t)'
    BY <2>1, <2>3, <2>4 DEF Working, Target, StartSteps, ParamSteps
  <2>. QED BY <1>0, <1>4, <1>6, <2>5, RegisterRead
        DEF PpsRead, Locked, StartSteps, ParamSteps, PpsSteps
<1>. QED BY <1>5, <1>6

LEMMA Update ==
  ASSUME NEW P, NEW S, NEW V, NEW f \in [P -> [S -> V]], NEW p \in P, NEW s \in S, NEW v \in V,
         NEW g, g = [f EXCEPT ![p][s] = v]
  PROVE  /\ g \in [P -> [S -> V]] /\ g[p][s] = v
         /\ \A x \in S : x # s => g[p][x] = f[p][x]
         /\ \A q \in P : q # p => g[q] = f[q]
  OBVIOUS

\* The stream is stopped, whatever it was doing, and what is asked for is noted.
LEMMA ClearWriteStep ==
  ASSUME IInv, NEW t \in Threads, ClearWrite(t)
  PROVE  IInv'
<1>. PICK p : p = Owner[t]  OBVIOUS
<1>. PICK s : s = op[t].s  OBVIOUS
<1>1. pc[t] = "clrW" /\ pc' = [pc EXCEPT ![t] = "alloc"]
      /\ UNCHANGED <<openCount, fd, lock, op, cpu, armed, decim, ppsOn, tmp, first,
                     addr, len, mode, owner>>
  BY DEF ClearWrite, At, Goto, sw
<1>2. pc[t] \in Locked /\ pc[t] \in StartSteps /\ "alloc" \in StartSteps /\ "alloc" \in Locked
  BY <1>1 DEF Locked, StartSteps
<1>3. /\ op[t] \in StartOps /\ s \in Streams /\ op[t].cont \in BOOLEAN
      /\ s = Rx => op[t].d \in Decims
  BY <1>2, StartCommand DEF IInv, OpFits
<1>4. p \in Procs /\ Common(p) /\ Sound(p, {}) /\ Starting(t, p, s)
  BY <1>1, <1>2, Alone DEF Working, Target
<1>5. tmp[t] = reset  BY <1>1, <1>4 DEF Starting
<1>6. /\ reset \in SUBSET (Streams \cup {Pps}) /\ pc \in [Threads -> Steps]
      /\ cont \in [Procs -> [Streams -> BOOLEAN]] /\ dreg \in [Streams -> Decims \cup {None}]
  BY DEF IInv, TypeOK
<1>7. pc'[t] = "alloc" /\ pc' \in [Threads -> Steps]  BY <1>1, <1>6 DEF Steps
<1>8. /\ WriteReset(reset \ {s}) /\ cont' = [cont EXCEPT ![p][s] = op[t].cont]
      /\ dreg' = IF s = Rx THEN [dreg EXCEPT ![Rx] = op[t].d] ELSE dreg
  BY <1>5 DEF ClearWrite
<1>9. /\ reset' = reset \ {s} /\ Engines'
      /\ eng' \in [Streams -> [run : BOOLEAN, buf : Bufs \cup {None}, full : BOOLEAN,
                               oneshot : BOOLEAN, d : Decims \cup {None}]]
      /\ ~eng'[s].run
      /\ \A x \in Streams : x # s => eng'[x] = eng[x]
  <2>1. reset \ {s} \in SUBSET (Streams \cup {Pps})  BY <1>6
  <2>2. TypeOK /\ Engines  BY DEF IInv
  <2>. QED BY <1>3, <1>8, <2>1, <2>2, Written
<1>10. /\ cont' \in [Procs -> [Streams -> BOOLEAN]] /\ cont'[p][s] = op[t].cont
       /\ \A x \in Streams : x # s => cont'[p][x] = cont[p][x]
  BY <1>3, <1>4, <1>6, <1>8, Update
<1>11. /\ dreg' \in [Streams -> Decims \cup {None}]
       /\ \A x \in Streams : x # s => dreg'[x] = dreg[x]
       /\ s = Rx => dreg'[s] = op[t].d
       /\ s \in WF => dreg'[s] = dreg[s]
  BY <1>3, <1>6, <1>8, DevAssumption
<1>12. TypeOK'
  BY <1>1, <1>6, <1>7, <1>9, <1>10, <1>11 DEF IInv, TypeOK
<1>13. Owned'  BY <1>1 DEF IInv, Owned
<1>14. Common(p)'
  BY <1>1, <1>3, <1>4, <1>9, <1>10 DEF Common, Streams
<1>15. Sound(p, {s})'
  <2>1. ASSUME NEW x \in Streams \ {s}
        PROVE  /\ x \in reset' <=> armed'[p][x]
               /\ cpu'[p][x] # None => armed'[p][x]
               /\ decim'[p][x] # None => /\ dreg'[x] = decim'[p][x]
                                         /\ eng'[x].run => eng'[x].d = decim'[p][x]
    BY <1>1, <1>4, <1>9, <1>11 DEF Sound
  <2>2. ASSUME NEW x \in WF \ {s}, armed'[p][x] PROVE (x \in mode') = cont'[p][x]
    BY <1>1, <1>4, <1>10, <2>2 DEF Sound, Streams
  <2>3. Pps \notin {s} => (Pps \in reset' <=> ppsOn'[p])
    BY <1>1, <1>4, <1>9 DEF Sound
  <2>. QED BY <2>1, <2>2, <2>3 DEF Sound
<1>16. Starting(t, p, s)'
  <2>1. cpu[p][s] # None => armed[p][s]  BY <1>3, <1>4 DEF Sound
  <2>2. decim[p][s] # None => dreg[s] = decim[p][s]  BY <1>3, <1>4 DEF Sound
  <2>3. first'[t] = ~armed'[p][s]  BY <1>1, <1>4 DEF Starting
  <2>4. s \notin reset' /\ (cpu'[p][s] # None => armed'[p][s])  BY <1>1, <1>9, <2>1
  <2>5. s = Rx => dreg'[s] = op'[t].d  BY <1>1, <1>11
  <2>6. s \in WF => /\ cont'[p][s] = op'[t].cont
                    /\ decim'[p][s] # None => dreg'[s] = decim'[p][s]
    BY <1>1, <1>10, <1>11, <2>2
  <2>. QED BY <1>7, <2>3, <2>4, <2>5, <2>6 DEF Starting
<1>17. Working(t)'
  BY <1>1, <1>7, <1>15, <1>16 DEF Working, Target, ParamSteps, PpsSteps
<1>18. GateInv'  BY QuietStep DEF IInv, Handler
<1>19. "alloc" \notin {"modeR", "modeW"} /\ "alloc" \notin ParamSteps \cup PpsSteps
  BY DEF ParamSteps, PpsSteps
<1>. QED
  BY <1>1, <1>2, <1>9, <1>12, <1>13, <1>14, <1>17, <1>18, <1>19, IoctlFrame

\* A ring that is got is free before, and a stream without one was not armed.
LEMMA AllocStep ==
  ASSUME IInv, NEW t \in Threads, Alloc(t)
  PROVE  IInv'
<1>. PICK p : p = Owner[t]  OBVIOUS
<1>. PICK s : s = op[t].s  OBVIOUS
<1>. DEFINE w == IF s = Rx THEN "addr" ELSE "modeR"
<1>1. pc[t] = "alloc" /\ pc' = [pc EXCEPT ![t] = w]
      /\ UNCHANGED <<openCount, fd, lock, op, armed, decim, cont, ppsOn, tmp, first,
                     reset, addr, len, mode, dreg, eng>>
  BY DEF Alloc, At, Goto, sw, regs
<1>2. pc[t] \in Locked /\ pc[t] \in StartSteps /\ w \in StartSteps /\ w \in Locked
  BY <1>1 DEF Locked, StartSteps
<1>3. op[t] \in StartOps /\ s \in Streams
  BY <1>2, StartCommand DEF IInv, OpFits
<1>4. p \in Procs /\ Common(p) /\ Sound(p, {s}) /\ Starting(t, p, s)
  BY <1>1, <1>2, Alone DEF Working, Target
<1>5. /\ pc \in [Threads -> Steps] /\ cpu \in [Procs -> [Streams -> Bufs \cup {None}]]
      /\ owner \in [Bufs -> (Procs \X Streams) \cup {None}]
  BY DEF IInv, TypeOK
<1>6. pc'[t] = w /\ pc' \in [Threads -> Steps]  BY <1>1, <1>5 DEF Steps
<1>8. /\ cpu' \in [Procs -> [Streams -> Bufs \cup {None}]]
      /\ owner' \in [Bufs -> (Procs \X Streams) \cup {None}]
      /\ cpu'[p][s] # None
      /\ cpu[p][s] # None => cpu'[p][s] = cpu[p][s]
      /\ \A x \in Streams : x # s => cpu'[p][x] = cpu[p][x]
      /\ \A q \in Procs : q # p => cpu'[q] = cpu[q]
      /\ Owned'
  <2>1. CASE cpu[p][s] # None /\ UNCHANGED <<cpu, owner>>
    BY <2>1, <1>5 DEF IInv, Owned
  <2>2. CASE cpu[p][s] = None /\ ~UNCHANGED <<cpu, owner>>
    <3>1. PICK b \in Bufs : /\ owner[b] = None
                            /\ owner' = [owner EXCEPT ![b] = <<p, s>>]
                            /\ cpu' = [cpu EXCEPT ![p][s] = b]
      BY <2>2 DEF Alloc
    <3>2. b # None  BY DevAssumption
    <3>3. /\ cpu' \in [Procs -> [Streams -> Bufs \cup {None}]] /\ cpu'[p][s] = b
          /\ \A x \in Streams : x # s => cpu'[p][x] = cpu[p][x]
          /\ \A q \in Procs : q # p => cpu'[q] = cpu[q]
      BY <1>3, <1>4, <1>5, <3>1, Update
    <3>4. /\ owner' \in [Bufs -> (Procs \X Streams) \cup {None}] /\ owner'[b] = <<p, s>>
          /\ \A c \in Bufs : c # b => owner'[c] = owner[c]
      BY <1>3, <1>4, <1>5, <3>1
    <3>5. ASSUME NEW c \in Bufs, owner'[c] # None
          PROVE  \E q \in Procs, x \in Streams : owner'[c] = <<q, x>> /\ cpu'[q][x] = c
      <4>1. CASE c = b  BY <1>3, <1>4, <3>3, <3>4, <4>1
      <4>2. CASE c # b
        <5>1. owner[c] # None /\ owner'[c] = owner[c]  BY <3>4, <3>5, <4>2
        <5>2. PICK q \in Procs, x \in Streams : owner[c] = <<q, x>> /\ cpu[q][x] = c
          BY <5>1 DEF IInv, Owned
        <5>3. ~(q = p /\ x = s)  BY <2>2, <5>2, DevAssumption
        <5>4. cpu'[q][x] = cpu[q][x]  BY <3>3, <5>3
        <5>. QED BY <5>1, <5>2, <5>4
      <4>. QED BY <4>1, <4>2
    <3>6. Owned'  BY <3>5 DEF Owned
    <3>. QED BY <2>2, <3>2, <3>3, <3>4, <3>6
  <2>3. \/ cpu[p][s] # None /\ UNCHANGED <<cpu, owner>>
        \/ cpu[p][s] = None /\ ~UNCHANGED <<cpu, owner>>
        \/ cpu[p][s] = None /\ UNCHANGED <<cpu, owner>>
    BY DEF Alloc
  <2>4. CASE cpu[p][s] = None /\ UNCHANGED <<cpu, owner>>
    <3>1. PICK b \in Bufs : cpu' = [cpu EXCEPT ![p][s] = b]
      BY <2>4 DEF Alloc
    <3>2. cpu'[p][s] = b  BY <1>3, <1>4, <1>5, <3>1, Update
    <3>. QED BY <2>4, <3>2, DevAssumption
  <2>. QED BY <2>1, <2>2, <2>3, <2>4
<1>9. TypeOK'  BY <1>1, <1>6, <1>8 DEF IInv, TypeOK
<1>10. Common(p)'
  <2>1. cpu[p][s] = None => ~armed[p][s]  BY <1>3, <1>4 DEF Common
  <2>2. \A x \in Streams : armed[p][x] => cpu'[p][x] = cpu[p][x]
    BY <1>8, <2>1
  <2>. QED BY <1>1, <1>4, <2>2 DEF Common
<1>11. Sound(p, {s})'
  BY <1>1, <1>4, <1>8 DEF Sound
<1>12. Starting(t, p, s)'
  <2>1. pc'[t] \in {"addr", "setR", "setW"} => s \notin WF
    BY <1>6, DevAssumption
  <2>2. pc'[t] \notin {"clrW", "setW", "setR", "modeW", "alloc"}  BY <1>6
  <2>. QED BY <1>1, <1>4, <1>8, <2>1, <2>2 DEF Starting
<1>13. Working(t)'
  BY <1>1, <1>6, <1>11, <1>12 DEF Working, Target, ParamSteps, PpsSteps
<1>14. GateInv' /\ Engines'
  BY <1>1, QuietStep DEF IInv, Handler, Engines
<1>15. w \notin ParamSteps \cup PpsSteps /\ (w \in {"modeR", "modeW"} => s \in WF)
  BY <1>3 DEF ParamSteps, PpsSteps, Streams
<1>. QED
  BY <1>1, <1>2, <1>8, <1>9, <1>10, <1>13, <1>14, <1>15, IoctlFrame

\* A start that finds no memory leaves the stream stopped and never armed.
LEMMA AllocFailsStep ==
  ASSUME IInv, NEW t \in Threads, AllocFails(t)
  PROVE  IInv'
<1>. PICK p : p = Owner[t]  OBVIOUS
<1>. PICK s : s = op[t].s  OBVIOUS
<1>1. pc[t] = "alloc" /\ pc' = [pc EXCEPT ![t] = "unlock"] /\ cpu[p][s] = None
      /\ UNCHANGED <<openCount, fd, file, op, tmp, first, regs, owner>>
  BY DEF AllocFails, At, Goto, sw
<1>2. pc[t] \in Locked /\ pc[t] \in StartSteps /\ "unlock" \in Locked
      /\ "unlock" \notin StartSteps \cup ParamSteps \cup PpsSteps
  BY <1>1 DEF Locked, StartSteps, ParamSteps, PpsSteps
<1>3. op[t] \in StartOps /\ s \in Streams
  BY <1>2, StartCommand DEF IInv, OpFits
<1>4. p \in Procs /\ Common(p) /\ Sound(p, {s}) /\ Starting(t, p, s)
  BY <1>1, <1>2, Alone DEF Working, Target
<1>5. pc'[t] = "unlock" /\ TypeOK'
  BY <1>1 DEF IInv, TypeOK, Steps, file, regs
<1>6. Owned' /\ Engines' /\ Common(p)'
  BY <1>1, <1>4 DEF IInv, Owned, Engines, Common, file, regs
<1>7. ~armed[p][s] /\ s \notin reset /\ ~eng[s].run /\ (s = Rx => decim[p][s] = None)
  BY <1>1, <1>3, <1>4 DEF Common, Starting
<1>8. decim[p][s] # None => dreg[s] = decim[p][s]
  BY <1>1, <1>3, <1>4, <1>7 DEF Starting, Streams
<1>9. Sound(p, {})'
  <2>1. Sound(p, {})
    <3>1. ASSUME NEW x \in Streams
          PROVE  /\ x \in reset <=> armed[p][x]
                 /\ cpu[p][x] # None => armed[p][x]
                 /\ decim[p][x] # None => /\ dreg[x] = decim[p][x]
                                          /\ eng[x].run => eng[x].d = decim[p][x]
      BY <1>1, <1>4, <1>7, <1>8 DEF Sound
    <3>2. \A x \in WF : armed[p][x] => (x \in mode) = cont[p][x]
      BY <1>4, <1>7 DEF Sound
    <3>3. Pps # s  BY <1>3, DevAssumption
    <3>4. Pps \in reset <=> ppsOn[p]  BY <1>4, <3>3 DEF Sound
    <3>. QED BY <3>1, <3>2, <3>4 DEF Sound
  <2>. QED BY <1>1, <2>1 DEF Sound, file, regs
<1>10. Working(t)'
  BY <1>2, <1>5, <1>9 DEF Working, Target
<1>11. GateInv'  BY QuietStep DEF IInv, Handler
<1>. QED
  BY <1>1, <1>2, <1>5, <1>6, <1>10, <1>11, IoctlFrame DEF file

\* The mode register is written back with one channel's bit changed.
LEMMA ModeWriteStep ==
  ASSUME IInv, NEW t \in Threads, ModeWrite(t)
  PROVE  IInv'
<1>. PICK p : p = Owner[t]  OBVIOUS
<1>. PICK s : s = op[t].s  OBVIOUS
<1>1. /\ pc[t] = "modeW" /\ pc' = [pc EXCEPT ![t] = "addr"]
      /\ mode' = IF op[t].cont THEN tmp[t] \cup {s} ELSE tmp[t] \ {s}
      /\ UNCHANGED <<openCount, fd, file, op, tmp, first, reset, addr, len, dreg, eng, owner>>
  BY DEF ModeWrite, At, Goto, sw
<1>2. pc[t] \in Locked /\ pc[t] \in StartSteps /\ "addr" \in Locked /\ "addr" \in StartSteps
      /\ "addr" \notin ParamSteps \cup PpsSteps
  BY <1>1 DEF Locked, StartSteps, ParamSteps, PpsSteps
<1>3. op[t] \in StartOps /\ s \in Streams /\ op[t].cont \in BOOLEAN
  BY <1>2, StartCommand DEF IInv, OpFits
<1>4. p \in Procs /\ Common(p) /\ Sound(p, {s}) /\ Starting(t, p, s)
  BY <1>1, <1>2, Alone DEF Working, Target
<1>5. tmp[t] = mode /\ s \in WF /\ cont[p][s] = op[t].cont
  BY <1>1, <1>4 DEF Starting, IInv, OpFits
<1>6. pc'[t] = "addr" /\ pc' \in [Threads -> Steps]
  BY <1>1 DEF IInv, TypeOK, Steps
<1>7. /\ mode' \subseteq WF
      /\ (s \in mode') = cont[p][s]
      /\ \A x : x # s => (x \in mode' <=> x \in mode)
  BY <1>1, <1>3, <1>5 DEF IInv, TypeOK
<1>8. TypeOK'
  BY <1>1, <1>6, <1>7 DEF IInv, TypeOK, file
<1>9. Owned' /\ Engines' /\ Common(p)'
  BY <1>1, <1>4 DEF IInv, Owned, Engines, Common, file
<1>10. Sound(p, {s})'
  <2>1. \A x \in WF \ {s} : armed[p][x] => (x \in mode') = cont[p][x]
    BY <1>4, <1>7 DEF Sound
  <2>. QED BY <1>1, <1>4, <2>1 DEF Sound, file
<1>11. Starting(t, p, s)'
  <2>1. pc'[t] \notin {"clrW", "setW", "setR", "modeW", "alloc"}  BY <1>6
  <2>2. (s \in mode') = cont'[p][s]  BY <1>1, <1>7 DEF file
  <2>3. /\ first'[t] = ~armed'[p][s] /\ s \notin reset'
        /\ s = Rx => dreg'[s] = op'[t].d
        /\ cont'[p][s] = op'[t].cont
        /\ decim'[p][s] # None => dreg'[s] = decim'[p][s]
        /\ cpu'[p][s] # None
    BY <1>1, <1>4, <1>5 DEF Starting, file
  <2>. QED BY <2>1, <2>2, <2>3 DEF Starting
<1>12. Working(t)'
  BY <1>1, <1>2, <1>6, <1>10, <1>11 DEF Working, Target
<1>13. GateInv'  BY QuietStep DEF IInv, Handler
<1>. QED
  BY <1>1, <1>2, <1>8, <1>9, <1>12, <1>13, IoctlFrame DEF file

\* The address and the length are programmed once; later starts find them there.
LEMMA AddressStep ==
  ASSUME IInv, NEW t \in Threads, Address(t)
  PROVE  IInv'
<1>. PICK p : p = Owner[t]  OBVIOUS
<1>. PICK s : s = op[t].s  OBVIOUS
<1>1. /\ pc[t] = "addr" /\ pc' = [pc EXCEPT ![t] = "setR"]
      /\ IF first[t] THEN /\ addr' = [addr EXCEPT ![s] = cpu[p][s]]
                          /\ len' = [len EXCEPT ![s] = TRUE]
                     ELSE UNCHANGED <<addr, len>>
      /\ UNCHANGED <<openCount, fd, file, op, tmp, first, reset, mode, dreg, eng, owner>>
  BY DEF Address, At, Goto, sw
<1>2. pc[t] \in Locked /\ pc[t] \in StartSteps /\ "setR" \in Locked /\ "setR" \in StartSteps
      /\ "setR" \notin ParamSteps \cup PpsSteps
  BY <1>1 DEF Locked, StartSteps, ParamSteps, PpsSteps
<1>3. op[t] \in StartOps /\ s \in Streams
  BY <1>2, StartCommand DEF IInv, OpFits
<1>4. p \in Procs /\ Common(p) /\ Sound(p, {s}) /\ Starting(t, p, s)
  BY <1>1, <1>2, Alone DEF Working, Target
<1>5. pc'[t] = "setR" /\ pc' \in [Threads -> Steps] /\ cpu[p][s] \in Bufs \cup {None}
  BY <1>1, <1>3, <1>4 DEF IInv, TypeOK, Steps
<1>6. /\ addr' \in [Streams -> Bufs \cup {None}] /\ len' \in [Streams -> BOOLEAN]
      /\ addr'[s] = cpu[p][s] /\ len'[s]
      /\ \A x \in Streams : armed[p][x] => addr'[x] = addr[x] /\ len'[x] = len[x]
  <2>1. addr \in [Streams -> Bufs \cup {None}] /\ len \in [Streams -> BOOLEAN]
    BY DEF IInv, TypeOK
  <2>2. first[t] = ~armed[p][s]  BY <1>4 DEF Starting
  <2>3. CASE first[t]  BY <1>1, <1>3, <1>5, <2>1, <2>2, <2>3
  <2>4. CASE ~first[t]
    <3>1. armed[p][s]
      <4>1. armed[p][s] \in BOOLEAN  BY <1>3, <1>4 DEF IInv, TypeOK
      <4>. QED BY <2>2, <2>4, <4>1
    <3>2. addr[s] = cpu[p][s] /\ len[s]  BY <1>3, <1>4, <3>1 DEF Common
    <3>. QED BY <1>1, <2>1, <2>4, <3>2
  <2>. QED BY <2>3, <2>4
<1>7. TypeOK'
  BY <1>1, <1>5, <1>6 DEF IInv, TypeOK, file
<1>8. Owned' /\ Engines' /\ Common(p)'
  BY <1>1, <1>4, <1>6 DEF IInv, Owned, Engines, Common, file
<1>9. Sound(p, {s})'  BY <1>1, <1>4 DEF Sound, file
<1>10. Starting(t, p, s)'
  <2>1. pc'[t] \notin {"clrW", "setW", "modeW", "alloc"}  BY <1>5
  <2>2. /\ first'[t] = ~armed'[p][s] /\ s \notin reset'
        /\ s = Rx => dreg'[s] = op'[t].d
        /\ s \in WF => /\ cont'[p][s] = op'[t].cont
                       /\ decim'[p][s] # None => dreg'[s] = decim'[p][s]
                       /\ (s \in mode') = cont'[p][s]
        /\ cpu'[p][s] # None
    BY <1>1, <1>4 DEF Starting, file
  <2>. QED BY <1>1, <1>6, <2>1, <2>2 DEF Starting, file
<1>11. Working(t)'
  BY <1>1, <1>2, <1>5, <1>9, <1>10 DEF Working, Target
<1>12. GateInv'  BY QuietStep DEF IInv, Handler
<1>. QED
  BY <1>1, <1>2, <1>7, <1>8, <1>11, <1>12, IoctlFrame DEF file

\* The engine starts, and latches the ring, the mode and the decimation of its stream.
LEMMA SetWriteStep ==
  ASSUME IInv, NEW t \in Threads, SetWrite(t)
  PROVE  IInv'
<1>. PICK p : p = Owner[t]  OBVIOUS
<1>. PICK s : s = op[t].s  OBVIOUS
<1>1. /\ pc[t] = "setW" /\ pc' = [pc EXCEPT ![t] = "unlock"]
      /\ WriteReset(tmp[t] \cup {s})
      /\ armed' = [armed EXCEPT ![p][s] = TRUE]
      /\ decim' = IF s = Rx THEN [decim EXCEPT ![p][Rx] = op[t].d] ELSE decim
      /\ UNCHANGED <<openCount, fd, lock, cpu, cont, ppsOn, op, tmp, first,
                     addr, len, mode, dreg, owner>>
  BY DEF SetWrite, At, Goto, sw
<1>2. pc[t] \in Locked /\ pc[t] \in StartSteps /\ "unlock" \in Locked
      /\ "unlock" \notin StartSteps \cup ParamSteps \cup PpsSteps
  BY <1>1 DEF Locked, StartSteps, ParamSteps, PpsSteps
<1>3. op[t] \in StartOps /\ s \in Streams /\ (s = Rx => op[t].d \in Decims)
  BY <1>2, StartCommand DEF IInv, OpFits
<1>4. p \in Procs /\ Common(p) /\ Sound(p, {s}) /\ Starting(t, p, s)
  BY <1>1, <1>2, Alone DEF Working, Target
<1>5. tmp[t] = reset /\ s \notin reset /\ cpu[p][s] # None /\ addr[s] = cpu[p][s] /\ len[s]
      /\ (s \in WF => (s \in mode) = cont[p][s])
  BY <1>1, <1>4 DEF Starting
<1>6. pc'[t] = "unlock" /\ pc' \in [Threads -> Steps]
  BY <1>1 DEF IInv, TypeOK, Steps
<1>7. /\ reset' = reset \cup {s} /\ Engines'
      /\ eng' \in [Streams -> [run : BOOLEAN, buf : Bufs \cup {None}, full : BOOLEAN,
                               oneshot : BOOLEAN, d : Decims \cup {None}]]
      /\ \A x \in Streams : x # s => eng'[x] = eng[x]
      /\ eng'[s].run /\ eng'[s].buf = addr[s] /\ eng'[s].full = len[s]
      /\ (eng'[s].oneshot <=> s \in mode) /\ eng'[s].d = dreg[s]
  <2>1. TypeOK /\ Engines /\ WriteReset(reset \cup {s})  BY <1>1, <1>5 DEF IInv
  <2>. QED BY <1>3, <1>5, <2>1, Raised
<1>8. /\ armed' \in [Procs -> [Streams -> BOOLEAN]] /\ armed'[p][s] = TRUE
      /\ \A x \in Streams : x # s => armed'[p][x] = armed[p][x]
      /\ \A q \in Procs : q # p => armed'[q] = armed[q]
  BY <1>1, <1>3, <1>4, Update DEF IInv, TypeOK
<1>9. /\ decim' \in [Procs -> [Streams -> Decims \cup {None}]]
      /\ \A x \in Streams : x # s => decim'[p][x] = decim[p][x]
      /\ \A q \in Procs : q # p => decim'[q] = decim[q]
      /\ decim'[p][s] # None => dreg[s] = decim'[p][s]
  <2>1. decim \in [Procs -> [Streams -> Decims \cup {None}]]  BY DEF IInv, TypeOK
  <2>2. CASE s = Rx
    <3>1. dreg[s] = op[t].d  BY <1>1, <1>4, <2>2 DEF Starting
    <3>. QED BY <1>1, <1>3, <1>4, <2>1, <2>2, <3>1, Update
  <2>3. CASE s # Rx
    <3>1. s \in WF  BY <1>3, <2>3 DEF Streams
    <3>. QED BY <1>1, <1>4, <2>1, <2>3, <3>1 DEF Starting
  <2>. QED BY <2>2, <2>3
<1>10. TypeOK'
  BY <1>1, <1>3, <1>6, <1>7, <1>8, <1>9 DEF IInv, TypeOK
<1>11. Owned'  BY <1>1 DEF IInv, Owned
<1>12. Common(p)'
  <2>1. \A x \in Streams :
          armed'[p][x] => cpu'[p][x] # None /\ addr'[x] = cpu'[p][x] /\ len'[x]
    BY <1>1, <1>4, <1>5, <1>8 DEF Common
  <2>2. \A x \in Streams : eng'[x].run =>
          armed'[p][x] /\ eng'[x].buf = cpu'[p][x] /\ eng'[x].full
    <3>1. eng'[s].buf = cpu[p][s] /\ eng'[s].full = TRUE
      <4>1. len[s] \in BOOLEAN  BY <1>3 DEF IInv, TypeOK
      <4>. QED BY <1>5, <1>7, <4>1
    <3>2. \A x \in Streams : x # s /\ eng'[x].run =>
            armed'[p][x] /\ eng'[x].buf = cpu'[p][x] /\ eng'[x].full
      BY <1>1, <1>4, <1>7, <1>8 DEF Common
    <3>. QED BY <1>1, <1>8, <3>1, <3>2
  <2>3. \A x \in WF : eng'[x].run => eng'[x].oneshot = cont'[p][x]
    <3>1. s \in WF => eng'[s].oneshot = cont[p][s]
      <4>1. eng'[s].oneshot \in BOOLEAN /\ cont[p][s] \in BOOLEAN
        BY <1>3, <1>4, <1>7 DEF IInv, TypeOK
      <4>. QED BY <1>5, <1>7, <4>1
    <3>2. \A x \in WF : x # s /\ eng'[x].run => eng'[x].oneshot = cont'[p][x]
      BY <1>1, <1>4, <1>7 DEF Common, Streams
    <3>. QED BY <1>1, <3>1, <3>2
  <2>4. decim'[p][Rx] # None => armed'[p][Rx]
    BY <1>4, <1>8, <1>9 DEF Common, Streams
  <2>. QED BY <2>1, <2>2, <2>3, <2>4 DEF Common
<1>13. Sound(p, {})'
  <2>1. ASSUME NEW x \in Streams
        PROVE  /\ x \in reset' <=> armed'[p][x]
               /\ cpu'[p][x] # None => armed'[p][x]
               /\ decim'[p][x] # None => /\ dreg'[x] = decim'[p][x]
                                         /\ eng'[x].run => eng'[x].d = decim'[p][x]
    BY <1>1, <1>4, <1>7, <1>8, <1>9 DEF Sound
  <2>2. ASSUME NEW x \in WF, armed'[p][x] PROVE (x \in mode') = cont'[p][x]
    BY <1>1, <1>4, <1>5, <1>8, <2>2 DEF Sound, Streams
  <2>3. Pps \in reset' <=> ppsOn'[p]
    BY <1>1, <1>3, <1>4, <1>7, DevAssumption DEF Sound
  <2>. QED BY <2>1, <2>2, <2>3 DEF Sound
<1>14. Working(t)'
  BY <1>2, <1>6, <1>13 DEF Working, Target
<1>15. GateInv'  BY QuietStep DEF IInv, Handler
<1>. QED
  BY <1>1, <1>2, <1>7, <1>8, <1>9, <1>10, <1>11, <1>12, <1>14, <1>15, IoctlFrame

\* The register, the cache and, if the PL follows it, the engine take the new value;
\* an armed engine that has not yet is about to be restarted.
LEMMA ParamStep ==
  ASSUME IInv, NEW t \in Threads, Param(t)
  PROVE  IInv'
<1>. PICK p : p = Owner[t]  OBVIOUS
<1>. PICK s : s = op[t].s  OBVIOUS
<1>1. /\ pc[t] = "param"
      /\ UNCHANGED <<openCount, fd, lock, cpu, armed, cont, ppsOn, op, tmp, first,
                     reset, addr, len, mode, owner>>
  BY DEF Param, At, sw
<1>2. pc[t] \in Locked /\ pc[t] \in ParamSteps
  BY <1>1 DEF Locked, ParamSteps
<1>3. op[t] \in ParamOps /\ s \in Streams /\ s \in WF /\ s # Rx /\ op[t].d \in Decims \cup {None}
  BY <1>2, ParamCommand DEF IInv, OpFits
<1>4. p \in Procs /\ Common(p) /\ Sound(p, {})
  BY <1>1, <1>2, Alone DEF Working, Target
<1>5. PICK w \in {"pulseR", "unlock"} : pc' = [pc EXCEPT ![t] = w]
  BY DEF Param, Goto
<1>6. /\ w \in Locked /\ w \notin StartSteps \cup PpsSteps
      /\ pc'[t] = w /\ pc' \in [Threads -> Steps]
      /\ w \notin {"modeR", "modeW"}
  BY <1>5 DEF IInv, TypeOK, Steps, Locked, StartSteps, ParamSteps, PpsSteps
<1>7. CASE pc' = [pc EXCEPT ![t] = "unlock"] /\ UNCHANGED <<decim, dreg, eng>>
  <2>1. w = "unlock" /\ UNCHANGED <<decim, dreg, eng>>
    <3>1. pc' = [pc EXCEPT ![t] = "unlock"] /\ UNCHANGED <<decim, dreg, eng>>
      BY <1>7
    <3>2. pc'[t] = "unlock"  BY <3>1 DEF IInv, TypeOK
    <3>. QED BY <1>6, <3>1, <3>2
  <2>2. TypeOK'  BY <1>1, <1>6, <2>1 DEF IInv, TypeOK
  <2>3. Owned' /\ Engines' /\ Common(p)'
    BY <1>1, <1>4, <2>1 DEF IInv, Owned, Engines, Common
  <2>4. Sound(p, {})'  BY <1>1, <1>4, <2>1 DEF Sound
  <2>5. Working(t)'
    BY <1>1, <1>6, <2>1, <2>4 DEF Working, Target, ParamSteps
  <2>6. GateInv'  BY QuietStep DEF IInv, Handler
  <2>. QED
    BY <1>1, <1>2, <1>5, <1>6, <2>1, <2>2, <2>3, <2>5, <2>6, IoctlFrame
<1>8. CASE ~(pc' = [pc EXCEPT ![t] = "unlock"] /\ UNCHANGED <<decim, dreg, eng>>)
  <2>. DEFINE pulse == decim[p][s] # op[t].d /\ armed[p][s]
  <2>1. /\ decim' = [decim EXCEPT ![p][s] = op[t].d]
        /\ dreg' = [dreg EXCEPT ![s] = op[t].d]
        /\ \/ UNCHANGED eng
           \/ eng[s].run /\ eng' = [eng EXCEPT ![s].d = op[t].d]
        /\ pc' = [pc EXCEPT ![t] = IF pulse THEN "pulseR" ELSE "unlock"]
    BY <1>8 DEF Param, Goto
  <2>2. w = IF pulse THEN "pulseR" ELSE "unlock"
    <3>. HIDE DEF pulse
    <3>1. pc'[t] = IF pulse THEN "pulseR" ELSE "unlock"  BY <2>1 DEF IInv, TypeOK
    <3>. QED BY <1>6, <3>1
  <2>3. /\ decim' \in [Procs -> [Streams -> Decims \cup {None}]] /\ decim'[p][s] = op[t].d
        /\ \A x \in Streams : x # s => decim'[p][x] = decim[p][x]
        /\ \A q \in Procs : q # p => decim'[q] = decim[q]
    <3>1. decim \in [Procs -> [Streams -> Decims \cup {None}]]  BY DEF IInv, TypeOK
    <3>2. op[t].d \in Decims \cup {None}  BY <1>3
    <3>. QED BY <1>3, <1>4, <2>1, <3>1, <3>2, Update
  <2>4. /\ dreg' \in [Streams -> Decims \cup {None}] /\ dreg'[s] = op[t].d
        /\ \A x \in Streams : x # s => dreg'[x] = dreg[x]
    BY <1>3, <2>1 DEF IInv, TypeOK
  <2>5. /\ eng' \in [Streams -> [run : BOOLEAN, buf : Bufs \cup {None}, full : BOOLEAN,
                                 oneshot : BOOLEAN, d : Decims \cup {None}]]
        /\ \A x \in Streams : x # s => eng'[x] = eng[x]
        /\ eng'[s].run = eng[s].run /\ eng'[s].buf = eng[s].buf
        /\ eng'[s].full = eng[s].full /\ eng'[s].oneshot = eng[s].oneshot
        /\ eng'[s].d = eng[s].d \/ eng'[s].d = op[t].d
        /\ ~eng[s].run => eng'[s] = eng[s]
    <3>1. eng \in [Streams -> [run : BOOLEAN, buf : Bufs \cup {None}, full : BOOLEAN,
                               oneshot : BOOLEAN, d : Decims \cup {None}]]
      BY DEF IInv, TypeOK
    <3>2. CASE UNCHANGED eng  BY <3>1, <3>2
    <3>3. CASE eng[s].run /\ eng' = [eng EXCEPT ![s].d = op[t].d]
      BY <1>3, <3>1, <3>3
    <3>. QED BY <2>1, <3>2, <3>3
  <2>6. TypeOK'  BY <1>1, <1>6, <2>3, <2>4, <2>5 DEF IInv, TypeOK
  <2>7. Owned'  BY <1>1 DEF IInv, Owned
  <2>8. Engines'
    <3>1. s \notin reset => ~eng[s].run  BY <1>3 DEF IInv, Engines, Idle
    <3>. QED BY <1>1, <2>5, <3>1 DEF IInv, Engines
  <2>9. Common(p)'
    <3>1. \A x \in Streams :
            armed'[p][x] => cpu'[p][x] # None /\ addr'[x] = cpu'[p][x] /\ len'[x]
      BY <1>1, <1>4 DEF Common
    <3>2. \A x \in Streams : /\ eng'[x].run = eng[x].run /\ eng'[x].buf = eng[x].buf
                             /\ eng'[x].full = eng[x].full /\ eng'[x].oneshot = eng[x].oneshot
      BY <2>5
    <3>3. \A x \in Streams : eng'[x].run =>
            armed'[p][x] /\ eng'[x].buf = cpu'[p][x] /\ eng'[x].full
      BY <1>1, <1>4, <3>2 DEF Common
    <3>4. \A x \in WF : eng'[x].run => eng'[x].oneshot = cont'[p][x]
      BY <1>1, <1>4, <3>2 DEF Common, Streams
    <3>5. decim'[p][Rx] # None => armed'[p][Rx]
      BY <1>1, <1>3, <1>4, <2>3 DEF Common, Streams
    <3>. QED BY <3>1, <3>3, <3>4, <3>5 DEF Common
  <2>10. \A x \in Streams \ {s} :
           /\ x \in reset' <=> armed'[p][x]
           /\ cpu'[p][x] # None => armed'[p][x]
           /\ decim'[p][x] # None => /\ dreg'[x] = decim'[p][x]
                                     /\ eng'[x].run => eng'[x].d = decim'[p][x]
    BY <1>1, <1>4, <2>3, <2>4, <2>5 DEF Sound
  <2>11. \A x \in WF : armed'[p][x] => (x \in mode') = cont'[p][x]
    BY <1>1, <1>4 DEF Sound
  <2>12. Pps \in reset' <=> ppsOn'[p]  BY <1>1, <1>4 DEF Sound
  <2>13. (s \in reset <=> armed[p][s]) /\ (cpu[p][s] # None => armed[p][s])
    BY <1>3, <1>4 DEF Sound
  <2>14. Working(t)'
    <3>1. CASE pulse
      <4>1. pc'[t] = "pulseR"  BY <1>6, <2>2, <3>1
      <4>2. Sound(p, {s})'  BY <2>10, <2>11, <2>12 DEF Sound
      <4>3. Pulsing(t, p, s)'
        <5>1. armed'[p][s] /\ (s \in mode') = cont'[p][s]  BY <1>1, <1>3, <2>11, <3>1
        <5>2. decim'[p][s] = op'[t].d /\ dreg'[s] = op'[t].d  BY <1>1, <2>3, <2>4
        <5>3. s \in reset'  BY <1>1, <2>13, <3>1
        <5>. QED BY <4>1, <5>1, <5>2, <5>3 DEF Pulsing
      <4>. QED BY <1>1, <1>6, <4>1, <4>2, <4>3 DEF Working, Target
    <3>2. CASE ~pulse
      <4>1. pc'[t] = "unlock"  BY <1>6, <2>2, <3>2
      <4>2. ASSUME decim'[p][s] # None, eng'[s].run PROVE eng'[s].d = decim'[p][s]
        <5>1. armed[p][s]  BY <1>3, <1>4, <2>5, <4>2 DEF Common
        <5>2. decim[p][s] = op[t].d  BY <3>2, <5>1
        <5>3. eng[s].d = op[t].d
          BY <1>3, <1>4, <2>3, <2>5, <4>2, <5>2 DEF Sound
        <5>. QED BY <2>3, <2>5, <5>3
      <4>3. Sound(p, {})'
        BY <1>1, <2>3, <2>4, <2>10, <2>11, <2>12, <2>13, <4>2 DEF Sound
      <4>. QED BY <1>1, <1>6, <4>1, <4>3 DEF Working, Target, ParamSteps
    <3>. QED BY <3>1, <3>2
  <2>15. GateInv'  BY QuietStep DEF IInv, Handler
  <2>. QED
    BY <1>1, <1>2, <1>5, <1>6, <2>3, <2>6, <2>7, <2>8, <2>9, <2>14, <2>15, IoctlFrame
<1>. QED BY <1>7, <1>8

\* The pulse takes the bit of an armed channel down and remembers the register.
LEMMA PulseLowStep ==
  ASSUME IInv, NEW t \in Threads, PulseLow(t)
  PROVE  IInv'
<1>. PICK p : p = Owner[t]  OBVIOUS
<1>. PICK s : s = op[t].s  OBVIOUS
<1>1. /\ pc[t] = "pulseLo" /\ pc' = [pc EXCEPT ![t] = "pulseHi"]
      /\ WriteReset(tmp[t] \ {s})
      /\ UNCHANGED <<openCount, fd, file, op, tmp, first, addr, len, mode, dreg, owner>>
  BY DEF PulseLow, At, Goto, sw
<1>2. /\ pc[t] \in Locked /\ pc[t] \in ParamSteps \ {"param"}
      /\ "pulseHi" \in Locked /\ "pulseHi" \in ParamSteps
      /\ "pulseHi" \notin StartSteps \cup PpsSteps
  BY <1>1 DEF Locked, StartSteps, ParamSteps, PpsSteps
<1>3. s \in Streams /\ s \in WF  BY <1>2, ParamCommand DEF IInv, OpFits
<1>4. p \in Procs /\ Common(p) /\ Sound(p, {s}) /\ Pulsing(t, p, s)
  BY <1>1, <1>2, Alone DEF Working, Target
<1>5. tmp[t] = reset /\ s \in reset  BY <1>1, <1>4 DEF Pulsing
<1>6. pc'[t] = "pulseHi" /\ pc' \in [Threads -> Steps]
  BY <1>1 DEF IInv, TypeOK, Steps
<1>7. /\ reset' = reset \ {s} /\ Engines' /\ ~eng'[s].run
      /\ eng' \in [Streams -> [run : BOOLEAN, buf : Bufs \cup {None}, full : BOOLEAN,
                               oneshot : BOOLEAN, d : Decims \cup {None}]]
      /\ \A x \in Streams : x # s => eng'[x] = eng[x]
  <2>1. reset \ {s} \in SUBSET (Streams \cup {Pps})  BY DEF IInv, TypeOK
  <2>2. TypeOK /\ Engines /\ WriteReset(reset \ {s})  BY <1>1, <1>5 DEF IInv
  <2>. QED BY <1>3, <2>1, <2>2, Written
<1>8. TypeOK'  BY <1>1, <1>6, <1>7 DEF IInv, TypeOK, file
<1>9. Owned' /\ Common(p)'
  BY <1>1, <1>4, <1>7 DEF IInv, Owned, Common, Streams, file
<1>10. Sound(p, {s})'  BY <1>1, <1>4, <1>7 DEF Sound, file
<1>11. Pulsing(t, p, s)'  BY <1>1, <1>4, <1>5, <1>6, <1>7 DEF Pulsing, file
<1>12. Working(t)'
  BY <1>1, <1>2, <1>6, <1>10, <1>11 DEF Working, Target
<1>13. GateInv'  BY QuietStep DEF IInv, Handler
<1>. QED
  BY <1>1, <1>2, <1>7, <1>8, <1>9, <1>12, <1>13, IoctlFrame DEF file

\* The engine starts again, with the decimation that the register holds by now.
LEMMA PulseHighStep ==
  ASSUME IInv, NEW t \in Threads, PulseHigh(t)
  PROVE  IInv'
<1>. PICK p : p = Owner[t]  OBVIOUS
<1>. PICK s : s = op[t].s  OBVIOUS
<1>1. /\ pc[t] = "pulseHi" /\ pc' = [pc EXCEPT ![t] = "unlock"]
      /\ WriteReset(tmp[t] \cup {s})
      /\ UNCHANGED <<openCount, fd, file, op, tmp, first, addr, len, mode, dreg, owner>>
  BY DEF PulseHigh, At, Goto, sw
<1>2. /\ pc[t] \in Locked /\ pc[t] \in ParamSteps \ {"param"} /\ "unlock" \in Locked
      /\ "unlock" \notin StartSteps \cup ParamSteps \cup PpsSteps
  BY <1>1 DEF Locked, StartSteps, ParamSteps, PpsSteps
<1>3. s \in Streams /\ s \in WF  BY <1>2, ParamCommand DEF IInv, OpFits
<1>4. p \in Procs /\ Common(p) /\ Sound(p, {s}) /\ Pulsing(t, p, s)
  BY <1>1, <1>2, Alone DEF Working, Target
<1>5. /\ s \notin reset /\ WriteReset(reset \cup {s})
      /\ armed[p][s] /\ (s \in mode) = cont[p][s]
      /\ decim[p][s] = op[t].d /\ dreg[s] = op[t].d
  <2>1. tmp[t] = reset \cup {s}  BY <1>1, <1>4 DEF Pulsing
  <2>2. tmp[t] \cup {s} = reset \cup {s}  BY <2>1
  <2>. QED BY <1>1, <1>4, <2>2 DEF Pulsing
<1>6. pc'[t] = "unlock" /\ pc' \in [Threads -> Steps]
  BY <1>1 DEF IInv, TypeOK, Steps
<1>7. /\ reset' = reset \cup {s} /\ Engines'
      /\ eng' \in [Streams -> [run : BOOLEAN, buf : Bufs \cup {None}, full : BOOLEAN,
                               oneshot : BOOLEAN, d : Decims \cup {None}]]
      /\ \A x \in Streams : x # s => eng'[x] = eng[x]
      /\ eng'[s].run /\ eng'[s].buf = addr[s] /\ eng'[s].full = len[s]
      /\ (eng'[s].oneshot <=> s \in mode) /\ eng'[s].d = dreg[s]
  <2>1. TypeOK /\ Engines  BY DEF IInv
  <2>. QED BY <1>3, <1>5, <2>1, Raised
<1>8. TypeOK'  BY <1>1, <1>3, <1>6, <1>7 DEF IInv, TypeOK, file
<1>9. Owned'  BY <1>1 DEF IInv, Owned, file
<1>10. Common(p)'
  <2>1. addr[s] = cpu[p][s] /\ len[s]  BY <1>3, <1>4, <1>5 DEF Common
  <2>2. eng'[s].buf = cpu[p][s] /\ eng'[s].full = TRUE
    <3>1. len[s] \in BOOLEAN  BY <1>3 DEF IInv, TypeOK
    <3>. QED BY <1>7, <2>1, <3>1
  <2>3. eng'[s].oneshot = cont[p][s]
    <3>1. eng'[s].oneshot \in BOOLEAN /\ cont[p][s] \in BOOLEAN
      BY <1>3, <1>4, <1>7 DEF IInv, TypeOK
    <3>. QED BY <1>5, <1>7, <3>1
  <2>4. \A x \in Streams : eng'[x].run => armed[p][x] /\ eng'[x].buf = cpu[p][x] /\ eng'[x].full
    <3>1. \A x \in Streams : x # s /\ eng'[x].run =>
             armed[p][x] /\ eng'[x].buf = cpu[p][x] /\ eng'[x].full
      BY <1>4, <1>7 DEF Common
    <3>. QED BY <1>5, <2>2, <3>1
  <2>5. \A x \in WF : eng'[x].run => eng'[x].oneshot = cont[p][x]
    <3>1. \A x \in WF : x # s /\ eng'[x].run => eng'[x].oneshot = cont[p][x]
      BY <1>4, <1>7 DEF Common, Streams
    <3>. QED BY <2>3, <3>1
  <2>. QED BY <1>1, <1>4, <2>4, <2>5 DEF Common, file
<1>11. Sound(p, {})'
  <2>1. ASSUME NEW x \in Streams
        PROVE  /\ x \in reset' <=> armed[p][x]
               /\ cpu[p][x] # None => armed[p][x]
               /\ decim[p][x] # None => /\ dreg[x] = decim[p][x]
                                        /\ eng'[x].run => eng'[x].d = decim[p][x]
    BY <1>4, <1>5, <1>7 DEF Sound
  <2>2. \A x \in WF : armed[p][x] => (x \in mode) = cont[p][x]
    BY <1>4, <1>5 DEF Sound
  <2>3. Pps \in reset' <=> ppsOn[p]
    BY <1>3, <1>4, <1>7, DevAssumption DEF Sound
  <2>. QED BY <1>1, <2>1, <2>2, <2>3 DEF Sound, file
<1>12. Working(t)'
  BY <1>2, <1>6, <1>11 DEF Working, Target
<1>13. GateInv'  BY QuietStep DEF IInv, Handler
<1>. QED
  BY <1>1, <1>2, <1>7, <1>8, <1>9, <1>10, <1>12, <1>13, IoctlFrame DEF file

\* The PPS bit shares the register with the streams and changes none of theirs.
LEMMA PpsLowStep ==
  ASSUME IInv, NEW t \in Threads, PpsLow(t)
  PROVE  IInv'
<1>. PICK p : p = Owner[t]  OBVIOUS
<1>. PICK w : w = IF op[t].on THEN "ppsHi" ELSE "unlock"  OBVIOUS
<1>1. /\ pc[t] = "ppsLo" /\ pc' = [pc EXCEPT ![t] = w]
      /\ WriteReset(tmp[t] \ {Pps}) /\ ppsOn' = [ppsOn EXCEPT ![p] = op[t].on]
      /\ UNCHANGED <<openCount, fd, lock, cpu, armed, decim, cont, op, tmp, first,
                     addr, len, mode, dreg, owner>>
  BY DEF PpsLow, At, Goto, sw
<1>2. /\ pc[t] \in Locked /\ pc[t] \in PpsSteps /\ w \in Locked
      /\ w \notin StartSteps \cup ParamSteps
  BY <1>1 DEF Locked, StartSteps, ParamSteps, PpsSteps
<1>3. op[t].on \in BOOLEAN  BY <1>2, PpsCommand DEF IInv, OpFits
<1>4. p \in Procs /\ Common(p) /\ Sound(p, {}) /\ PpsPulsing(t, p)
  BY <1>1, <1>2, Alone DEF Working, Target
<1>5. tmp[t] = reset  BY <1>1, <1>4 DEF PpsPulsing
<1>6. pc'[t] = w /\ pc' \in [Threads -> Steps]
  BY <1>1 DEF IInv, TypeOK, Steps
<1>7. reset' = reset \ {Pps} /\ Engines' /\ eng' = eng
  <2>1. reset \ {Pps} \in SUBSET (Streams \cup {Pps})  BY DEF IInv, TypeOK
  <2>2. TypeOK /\ Engines /\ WriteReset(reset \ {Pps})  BY <1>1, <1>5 DEF IInv
  <2>3. \A s \in Streams : s \in reset \ {Pps} <=> s \in reset  BY DevAssumption
  <2>. QED BY <2>1, <2>2, <2>3, PpsWritten
<1>8. /\ ppsOn' \in [Procs -> BOOLEAN] /\ ppsOn'[p] = op[t].on
      /\ \A q \in Procs : q # p => ppsOn'[q] = ppsOn[q]
  BY <1>1, <1>3, <1>4 DEF IInv, TypeOK
<1>9. TypeOK'  BY <1>1, <1>6, <1>7, <1>8 DEF IInv, TypeOK
<1>10. Owned' /\ Common(p)'
  BY <1>1, <1>4, <1>7 DEF IInv, Owned, Common
<1>11. /\ \A x \in Streams :
            /\ x \in reset' <=> armed[p][x]
            /\ cpu[p][x] # None => armed[p][x]
            /\ decim[p][x] # None => /\ dreg[x] = decim[p][x]
                                     /\ eng[x].run => eng[x].d = decim[p][x]
       /\ \A x \in WF : armed[p][x] => (x \in mode) = cont[p][x]
  BY <1>4, <1>7, DevAssumption DEF Sound
<1>12. Working(t)'
  <2>1. CASE op[t].on
    <3>1. pc'[t] = "ppsHi"  BY <1>6, <2>1
    <3>2. Sound(p, {Pps})'
      <4>1. Streams \ {Pps} = Streams /\ WF \ {Pps} = WF  BY DevAssumption DEF Streams
      <4>. QED BY <1>1, <1>7, <1>11, <4>1 DEF Sound
    <3>3. PpsPulsing(t, p)'
      BY <1>1, <1>5, <1>7, <1>8, <2>1, <3>1 DEF PpsPulsing
    <3>. QED BY <1>2, <1>6, <3>1, <3>2, <3>3 DEF Working, Target
  <2>2. CASE ~op[t].on
    <3>1. pc'[t] = "unlock"  BY <1>6, <2>2
    <3>2. ~ppsOn'[p] /\ Pps \notin reset'  BY <1>7, <1>8, <2>2
    <3>3. Sound(p, {})'  BY <1>1, <1>7, <1>11, <3>2 DEF Sound
    <3>. QED BY <3>1, <3>3 DEF Working, Target, StartSteps, ParamSteps, PpsSteps
  <2>. QED BY <2>1, <2>2
<1>13. GateInv'  BY QuietStep DEF IInv, Handler
<1>14. w \notin {"modeR", "modeW"}  OBVIOUS
<1>. QED
  BY <1>1, <1>2, <1>7, <1>8, <1>9, <1>10, <1>12, <1>13, <1>14, IoctlFrame

LEMMA PpsHighStep ==
  ASSUME IInv, NEW t \in Threads, PpsHigh(t)
  PROVE  IInv'
<1>. PICK p : p = Owner[t]  OBVIOUS
<1>1. /\ pc[t] = "ppsHi" /\ pc' = [pc EXCEPT ![t] = "unlock"]
      /\ WriteReset(tmp[t] \cup {Pps})
      /\ UNCHANGED <<openCount, fd, file, op, tmp, first, addr, len, mode, dreg, owner>>
  BY DEF PpsHigh, At, Goto, sw
<1>2. /\ pc[t] \in Locked /\ pc[t] \in PpsSteps /\ "unlock" \in Locked
      /\ "unlock" \notin StartSteps \cup ParamSteps \cup PpsSteps
  BY <1>1 DEF Locked, StartSteps, ParamSteps, PpsSteps
<1>3. p \in Procs /\ Common(p) /\ Sound(p, {Pps}) /\ PpsPulsing(t, p)
  BY <1>1, <1>2, Alone DEF Working, Target
<1>4. WriteReset(reset \cup {Pps}) /\ ppsOn[p]
  BY <1>1, <1>3 DEF PpsPulsing
<1>5. pc'[t] = "unlock" /\ pc' \in [Threads -> Steps]
  BY <1>1 DEF IInv, TypeOK, Steps
<1>6. reset' = reset \cup {Pps} /\ Engines' /\ eng' = eng
  <2>1. reset \cup {Pps} \in SUBSET (Streams \cup {Pps})  BY DEF IInv, TypeOK
  <2>2. TypeOK /\ Engines  BY DEF IInv
  <2>3. \A s \in Streams : s \in reset \cup {Pps} <=> s \in reset  BY DevAssumption
  <2>. QED BY <1>4, <2>1, <2>2, <2>3, PpsWritten
<1>7. TypeOK'  BY <1>1, <1>5, <1>6 DEF IInv, TypeOK, file
<1>8. Owned' /\ Common(p)'
  BY <1>1, <1>3, <1>6 DEF IInv, Owned, Common, file
<1>9. Sound(p, {})'
  <2>1. Streams \ {Pps} = Streams /\ WF \ {Pps} = WF  BY DevAssumption DEF Streams
  <2>2. \A x \in Streams :
            /\ x \in reset' <=> armed[p][x]
            /\ cpu[p][x] # None => armed[p][x]
            /\ decim[p][x] # None => /\ dreg[x] = decim[p][x]
                                     /\ eng[x].run => eng[x].d = decim[p][x]
    BY <1>3, <1>6, <2>1, DevAssumption DEF Sound
  <2>3. \A x \in WF : armed[p][x] => (x \in mode) = cont[p][x]
    BY <1>3, <2>1 DEF Sound
  <2>. QED BY <1>1, <1>4, <1>6, <2>2, <2>3 DEF Sound, file
<1>10. Working(t)'
  BY <1>2, <1>5, <1>9 DEF Working, Target
<1>11. GateInv'  BY QuietStep DEF IInv, Handler
<1>. QED
  BY <1>1, <1>2, <1>6, <1>7, <1>8, <1>10, <1>11, IoctlFrame DEF file
-----------------------------------------------------------------------------
(* The mutex. *)

LEMMA UnlockStep ==
  ASSUME IInv, NEW t \in Threads, Unlock(t)
  PROVE  IInv'
<1>. PICK p : p = Owner[t]  OBVIOUS
<1>1. /\ pc[t] = "unlock" /\ pc' = [pc EXCEPT ![t] = "user"]
      /\ lock' = [lock EXCEPT ![p] = None] /\ op' = [op EXCEPT ![t] = NoOp]
      /\ tmp' = [tmp EXCEPT ![t] = {}] /\ first' = [first EXCEPT ![t] = FALSE]
      /\ UNCHANGED <<openCount, fd, cpu, armed, decim, cont, ppsOn, regs, owner>>
  BY DEF Unlock, At, Goto, sw
<1>2. pc[t] \in Locked  BY <1>1 DEF Locked
<1>3. /\ p \in Procs /\ fd[p] \in Using /\ Common(p) /\ Sound(p, {})
      /\ \A q \in Procs : fd[q] \in Holding => q = p
      /\ \A u \in Threads : pc[u] \in Locked => u = t
  BY <1>1, <1>2, Alone DEF Working, Target
<1>4. /\ pc'[t] = "user" /\ \A u \in Threads : u # t => pc'[u] = pc[u]
      /\ "user" \notin Locked
  BY <1>1 DEF IInv, TypeOK, Locked, StartSteps, ParamSteps, PpsSteps
<1>5. \A u \in Threads : pc'[u] \notin Locked  BY <1>3, <1>4
<1>6. TypeOK'  BY <1>1 DEF IInv, TypeOK, Steps, regs
<1>7. GateInv'  BY QuietStep DEF IInv, Handler
<1>8. OpFits'
  BY <1>5 DEF OpFits, Locked, StartSteps, ParamSteps, PpsSteps
<1>9. Mutex'
  <2>1. \A u \in Threads : pc'[u] = "lock" => fd'[Owner[u]] \in Using
    BY <1>1, <1>4 DEF IInv, Mutex
  <2>2. ASSUME NEW q \in Procs, lock'[q] # None PROVE FALSE
    <3>1. q # p /\ lock[q] # None  BY <1>1, <1>3, <2>2 DEF IInv, TypeOK
    <3>2. lock[q] \in Threads /\ Owner[lock[q]] = q /\ pc[lock[q]] \in Locked
      BY <3>1 DEF IInv, Mutex
    <3>. QED BY <1>3, <3>1, <3>2
  <2>. QED BY <1>5, <2>1, <2>2 DEF Mutex
<1>10. Clean' /\ Owned' /\ Engines' /\ RxStopped'
  BY <1>1 DEF IInv, Clean, Owned, Engines, RxStopped, regs
<1>11. Files'
  <2>1. ASSUME NEW q \in Procs, fd'[q] \in Using PROVE Common(q)' /\ Sound(q, {})'
    <3>1. q = p  BY <1>1, <1>3, <2>1 DEF Using, Holding
    <3>2. Common(p)'  BY <1>1, <1>3 DEF Common, regs
    <3>3. Sound(p, {})'  BY <1>1, <1>3 DEF Sound, regs
    <3>. QED BY <3>1, <3>2, <3>3
  <2>. QED BY <1>5, <2>1 DEF Files
<1>. QED BY <1>6, <1>7, <1>8, <1>9, <1>10, <1>11 DEF IInv

LEMMA EnterStep ==
  ASSUME IInv, NEW t \in Threads, Enter(t)
  PROVE  IInv'
<1>1. /\ pc[t] = "user" /\ pc' = [pc EXCEPT ![t] = "lock"] /\ fd[Owner[t]] = "live"
      /\ UNCHANGED <<sw, file, op, tmp, first, regs, owner>>
  BY DEF Enter, At, Goto
<1>2. /\ pc'[t] = "lock" /\ \A u \in Threads : u # t => pc'[u] = pc[u]
      /\ "lock" \notin Locked /\ "user" \notin Locked
  BY <1>1 DEF IInv, TypeOK, Locked, StartSteps, ParamSteps, PpsSteps
<1>3. \A u \in Threads : pc'[u] \in Locked => u # t /\ pc'[u] = pc[u]  BY <1>2
<1>4. TypeOK'  BY <1>1 DEF IInv, TypeOK, Steps, sw, file, regs
<1>5. GateInv'  BY QuietStep DEF IInv
<1>6. OpFits'
  BY <1>1, <1>2 DEF IInv, OpFits, StartSteps, ParamSteps, PpsSteps
<1>7. Mutex'
  <2>1. \A u \in Threads : pc'[u] \in Locked => lock'[Owner[u]] = u /\ fd'[Owner[u]] \in Using
    BY <1>1, <1>3 DEF IInv, Mutex, sw, file
  <2>2. \A u \in Threads : pc'[u] = "lock" => fd'[Owner[u]] \in Using
    BY <1>1, <1>2 DEF IInv, Mutex, sw, Using
  <2>3. ASSUME NEW q \in Procs, lock'[q] # None
        PROVE  lock'[q] \in Threads /\ Owner[lock'[q]] = q /\ pc'[lock'[q]] \in Locked
    <3>1. lock[q] \in Threads /\ Owner[lock[q]] = q /\ pc[lock[q]] \in Locked
      BY <1>1, <2>3 DEF IInv, Mutex, file
    <3>. QED BY <1>1, <1>2, <3>1 DEF file
  <2>. QED BY <2>1, <2>2, <2>3 DEF Mutex
<1>8. Clean' /\ Owned' /\ Engines' /\ RxStopped'
  BY <1>1 DEF IInv, Clean, Owned, Engines, RxStopped, sw, file, regs
<1>9. Files'
  <2>1. ASSUME NEW q \in Procs, fd'[q] \in Using
        PROVE  Common(q)' /\ (lock'[q] = None => Sound(q, {})')
    <3>1. Common(q) /\ (lock[q] = None => Sound(q, {}))
      BY <1>1, <2>1 DEF IInv, Files, sw
    <3>2. Common(q)'  BY <1>1, <3>1 DEF Common, file, regs
    <3>3. lock'[q] = None => Sound(q, {})'  BY <1>1, <3>1 DEF Sound, file, regs
    <3>. QED BY <3>2, <3>3
  <2>2. ASSUME NEW u \in Threads, pc'[u] \in Locked PROVE Working(u)'
    <3>1. pc'[u] = pc[u] /\ Working(u)  BY <1>3, <2>2 DEF IInv, Files
    <3>2. UNCHANGED <<op, tmp, first, file, regs>>  BY <1>1
    <3>3. Target(u)' = Target(u)  BY <3>1, <3>2 DEF Target
    <3>4. Sound(Owner[u], Target(u))'
      BY <3>1, <3>2, <3>3 DEF Working, Sound, file, regs
    <3>5. pc'[u] \in StartSteps => Starting(u, Owner[u], op[u].s)'
      BY <3>1, <3>2 DEF Working, Starting, file, regs
    <3>6. pc'[u] \in ParamSteps \ {"param"} => Pulsing(u, Owner[u], op[u].s)'
      BY <3>1, <3>2 DEF Working, Pulsing, file, regs
    <3>7. pc'[u] \in PpsSteps => PpsPulsing(u, Owner[u])'
      BY <3>1, <3>2 DEF Working, PpsPulsing, file, regs
    <3>. QED BY <3>4, <3>5, <3>6, <3>7 DEF Working
  <2>. QED BY <2>1, <2>2 DEF Files
<1>. QED BY <1>4, <1>5, <1>6, <1>7, <1>8, <1>9 DEF IInv

\* The mutex is free, so that no ioctl is in progress and the file is sound.
LEMMA AcquireStep ==
  ASSUME IInv, NEW t \in Threads, Acquire(t)
  PROVE  IInv'
<1>. PICK p : p = Owner[t]  OBVIOUS
<1>1. PICK o \in Ops :
        /\ op' = [op EXCEPT ![t] = o]
        /\ first' = [first EXCEPT ![t] =
             o.k = "start" /\ IF o.s = Rx THEN cpu[p][Rx] = None ELSE ~armed[p][o.s]]
        /\ pc' = [pc EXCEPT ![t] = FirstStep[o.k]]
  BY DEF Acquire, Goto
<1>2. /\ pc[t] = "lock" /\ lock[p] = None /\ lock' = [lock EXCEPT ![p] = t]
      /\ UNCHANGED <<sw, cpu, armed, decim, cont, ppsOn, tmp, regs, owner>>
  BY DEF Acquire, At
<1>3. /\ p \in Procs /\ fd[p] \in Using /\ Common(p) /\ Sound(p, {})
  BY <1>2, DevAssumption DEF IInv, Mutex, Files
<1>4. \A q \in Procs : fd[q] \in Holding => q = p
  <2>1. Winner(p)  BY <1>3 DEF Winner, Using, Holding
  <2>. QED BY <1>3, <2>1 DEF IInv, GateInv, OneWinner, Winner
<1>5. ASSUME NEW u \in Threads, pc[u] \in Locked PROVE FALSE
  <2>1. lock[Owner[u]] = u /\ fd[Owner[u]] \in Using /\ Owner[u] \in Procs
    BY <1>5, DevAssumption DEF IInv, Mutex
  <2>2. Owner[u] = p  BY <1>4, <2>1 DEF Using, Holding
  <2>. QED BY <1>2, <2>1, <2>2, DevAssumption
<1>6. PICK w \in {"clrR", "param", "ppsR", "unlock"} :
        /\ w = FirstStep[o.k]
        /\ w = "clrR" => o \in StartOps
        /\ w = "param" => o \in ParamOps
        /\ w = "ppsR" => o \in PpsOps
  <2>1. CASE o \in StartOps
    <3>1. o.k = "start"  BY <2>1, StartCommand
    <3>2. FirstStep[o.k] = "clrR"  BY <3>1 DEF FirstStep
    <3>. QED BY <2>1, <3>2
  <2>2. CASE o \in ParamOps
    <3>1. o.k = "param"  BY <2>2, ParamCommand
    <3>2. FirstStep[o.k] = "param"  BY <3>1 DEF FirstStep
    <3>. QED BY <2>2, <3>2
  <2>3. CASE o \in PpsOps
    <3>1. o.k = "pps"  BY <2>3, PpsCommand
    <3>2. FirstStep[o.k] = "ppsR"  BY <3>1 DEF FirstStep
    <3>. QED BY <2>3, <3>2
  <2>4. CASE o \in OtherOps
    <3>1. o.k = "other"  BY <2>4 DEF OtherOps
    <3>2. FirstStep[o.k] = "unlock"  BY <3>1 DEF FirstStep
    <3>. QED BY <3>2
  <2>. QED BY <2>1, <2>2, <2>3, <2>4, CommandKinds
<1>7. /\ pc'[t] = w /\ op'[t] = o
      /\ \A u \in Threads : u # t => pc'[u] = pc[u] /\ op'[u] = op[u]
      /\ w \in Locked /\ pc' \in [Threads -> Steps]
  BY <1>1, <1>6 DEF IInv, TypeOK, Steps, Locked, StartSteps, ParamSteps, PpsSteps
<1>8. \A u \in Threads : pc'[u] \in Locked => u = t  BY <1>5, <1>7
<1>9. TypeOK'
  <2>1. op' \in [Threads -> Ops \cup {NoOp}]  BY <1>1 DEF IInv, TypeOK
  <2>2. first' \in [Threads -> BOOLEAN]
    <3>. DEFINE f == o.k = "start" /\ IF o.s = Rx THEN cpu[p][Rx] = None ELSE ~armed[p][o.s]
    <3>1. first' = [first EXCEPT ![t] = f]  BY <1>1
    <3>2. f \in BOOLEAN  OBVIOUS
    <3>. HIDE DEF f
    <3>. QED BY <3>1, <3>2 DEF IInv, TypeOK
  <2>3. lock' \in [Procs -> Threads \cup {None}]  BY <1>2, <1>3 DEF IInv, TypeOK
  <2>. QED BY <1>2, <1>7, <2>1, <2>2, <2>3 DEF IInv, TypeOK, sw, regs
<1>10. GateInv'  BY QuietStep DEF IInv
<1>11. OpFits'
  BY <1>6, <1>7, <1>8 DEF OpFits, Locked, StartSteps, ParamSteps, PpsSteps
<1>12. Mutex'
  <2>1. lock'[p] = t /\ \A q \in Procs : q # p => lock'[q] = lock[q]
    BY <1>2, <1>3 DEF IInv, TypeOK
  <2>2. \A u \in Threads : pc'[u] = "lock" => fd'[Owner[u]] \in Using
    BY <1>2, <1>7 DEF IInv, Mutex, sw
  <2>3. ASSUME NEW q \in Procs, lock'[q] # None PROVE q = p
    <3>1. q # p => pc[lock[q]] \in Locked /\ lock[q] \in Threads
      BY <2>1, <2>3 DEF IInv, Mutex
    <3>. QED BY <1>5, <3>1
  <2>. QED BY <1>2, <1>3, <1>7, <1>8, <2>1, <2>2, <2>3 DEF Mutex, sw
<1>13. Clean' /\ Owned' /\ Engines' /\ RxStopped'
  BY <1>2 DEF IInv, Clean, Owned, Engines, RxStopped, sw, regs
<1>14. Common(p)' /\ Sound(p, {})'
  BY <1>2, <1>3 DEF Common, Sound, regs
<1>15. Working(t)'
  <2>1. Target(t)' = {}  BY <1>7 DEF Target
  <2>2. Sound(Owner[t], Target(t))'  BY <1>14, <2>1
  <2>3. w = "clrR" => Starting(t, p, o.s)'
    <3>. SUFFICES ASSUME w = "clrR" PROVE Starting(t, p, o.s)'  OBVIOUS
    <3>1. o.k = "start" /\ o.s \in Streams  BY <1>6, StartCommand
    <3>2. armed[p][o.s] \in BOOLEAN  BY <1>3, <3>1 DEF IInv, TypeOK
    <3>3. cpu[p][o.s] = None <=> ~armed[p][o.s]  BY <1>3, <3>1 DEF Common, Sound
    <3>. DEFINE f == o.k = "start" /\ IF o.s = Rx THEN cpu[p][Rx] = None ELSE ~armed[p][o.s]
    <3>4. f = ~armed[p][o.s]  BY <3>1, <3>2, <3>3
    <3>5. first' = [first EXCEPT ![t] = f]  BY <1>1
    <3>. HIDE DEF f
    <3>6. first'[t] = f  BY <3>5 DEF IInv, TypeOK
    <3>. QED BY <1>2, <1>7, <3>4, <3>6 DEF Starting
  <2>. QED
    BY <1>7, <2>2, <2>3 DEF Working, StartSteps, ParamSteps, PpsSteps, PpsPulsing
<1>16. Files'
  <2>1. ASSUME NEW q \in Procs, fd'[q] \in Using
        PROVE  Common(q)' /\ (lock'[q] = None => Sound(q, {})')
    <3>1. q = p  BY <1>2, <1>4, <2>1 DEF Using, Holding, sw
    <3>. QED BY <1>14, <3>1
  <2>. QED BY <1>8, <1>15, <2>1 DEF Files
<1>. QED BY <1>9, <1>10, <1>11, <1>12, <1>13, <1>16 DEF IInv
-----------------------------------------------------------------------------
(* Open and release. *)

\* While a process is between the gate and the file, or has begun to take the file
\* down, no ioctl is in progress or waiting.
LEMMA NoIoctl ==
  ASSUME IInv, NEW p \in Procs, Winner(p), fd[p] \notin Using
  PROVE  /\ \A q \in Procs : fd[q] \notin Using /\ lock[q] = None
         /\ \A u \in Threads : pc[u] \notin Locked \cup {"lock"}
<1>1. ASSUME NEW q \in Procs, fd[q] \in Using PROVE FALSE
  <2>1. Winner(q)  BY <1>1 DEF Winner, Using, Holding
  <2>2. q = p  BY <2>1 DEF IInv, GateInv, OneWinner
  <2>. QED BY <1>1, <2>2
<1>2. ASSUME NEW u \in Threads, pc[u] \in Locked \cup {"lock"} PROVE FALSE
  <2>1. fd[Owner[u]] \in Using /\ Owner[u] \in Procs
    BY <1>2, DevAssumption DEF IInv, Mutex
  <2>. QED BY <1>1, <2>1
<1>3. \A q \in Procs : lock[q] = None  BY <1>2 DEF IInv, Mutex
<1>. QED BY <1>1, <1>2, <1>3

\* Steps that move a process through open or close, and change nothing else.
LEMMA GateFrame ==
  ASSUME IInv, GateInv', UNCHANGED <<file, op, tmp, first, regs, owner>>,
         \A u \in Threads : pc'[u] \in Locked \cup {"lock"} => pc'[u] = pc[u],
         \A u \in Threads : pc[u] \in Locked => pc'[u] = pc[u],
         \A q \in Procs : fd'[q] \in Using <=> fd[q] \in Using,
         \A q \in Procs : fd'[q] \in {"none", "opening", "freed"} =>
           fd[q] \in {"none", "opening", "freed"},
         \A q \in Procs : fd'[q] = "reset" => fd[q] = "reset"
  PROVE  IInv'
<1>1. TypeOK'  BY DEF IInv, TypeOK, GateInv, GateTypes, file, regs
<1>2. OpFits'
  <2>1. StartSteps \cup ParamSteps \cup PpsSteps \cup {"modeR", "modeW"} \subseteq Locked
    BY DEF Locked, StartSteps
  <2>2. \A u \in Threads :
          pc'[u] \in StartSteps \cup ParamSteps \cup PpsSteps \cup {"modeR", "modeW"} =>
            pc'[u] = pc[u]
    BY <2>1
  <2>. QED BY <2>2 DEF IInv, OpFits
<1>3. Mutex'
  <2>1. \A u \in Threads : pc'[u] \in Locked => lock'[Owner[u]] = u /\ fd'[Owner[u]] \in Using
    BY DevAssumption DEF IInv, Mutex, file
  <2>2. \A u \in Threads : pc'[u] = "lock" => fd'[Owner[u]] \in Using
    BY DevAssumption DEF IInv, Mutex
  <2>3. \A q \in Procs : lock'[q] # None =>
          lock'[q] \in Threads /\ Owner[lock'[q]] = q /\ pc'[lock'[q]] \in Locked
    BY DEF IInv, Mutex, file
  <2>. QED BY <2>1, <2>2, <2>3 DEF Mutex
<1>4. Clean' /\ Owned' /\ Engines' /\ RxStopped'
  BY DEF IInv, Clean, Owned, Engines, RxStopped, file, regs
<1>5. Files'
  <2>1. ASSUME NEW q \in Procs, fd'[q] \in Using
        PROVE  Common(q)' /\ (lock'[q] = None => Sound(q, {})')
    <3>1. Common(q) /\ (lock[q] = None => Sound(q, {}))  BY <2>1 DEF IInv, Files
    <3>2. Common(q)'  BY <3>1 DEF Common, file, regs
    <3>3. lock'[q] = None => Sound(q, {})'  BY <3>1 DEF Sound, file, regs
    <3>. QED BY <3>2, <3>3
  <2>2. ASSUME NEW u \in Threads, pc'[u] \in Locked PROVE Working(u)'
    <3>1. pc'[u] = pc[u] /\ Working(u)  BY <2>2 DEF IInv, Files
    <3>2. Target(u)' = Target(u)  BY <3>1 DEF Target
    <3>3. Sound(Owner[u], Target(u))'
      BY <3>1, <3>2 DEF Working, Sound, file, regs
    <3>4. pc'[u] \in StartSteps => Starting(u, Owner[u], op[u].s)'
      BY <3>1 DEF Working, Starting, file, regs
    <3>5. pc'[u] \in ParamSteps \ {"param"} => Pulsing(u, Owner[u], op[u].s)'
      BY <3>1 DEF Working, Pulsing, file, regs
    <3>6. pc'[u] \in PpsSteps => PpsPulsing(u, Owner[u])'
      BY <3>1 DEF Working, PpsPulsing, file, regs
    <3>. QED BY <3>3, <3>4, <3>5, <3>6 DEF Working
  <2>. QED BY <2>1, <2>2 DEF Files
<1>. QED BY <1>1, <1>2, <1>3, <1>4, <1>5 DEF IInv

LEMMA OpeningSteps ==
  ASSUME IInv, NEW t \in Threads, OpenCount(t) \/ OpenFails(t)
  PROVE  IInv'
<1>. PICK p \in Procs : p = Owner[t]  BY DevAssumption
<1>1. GateInv'  BY OpenCountStep, OpenFailsStep DEF IInv
<1>2. UNCHANGED <<file, op, tmp, first, regs, owner>>
  BY DEF OpenCount, OpenFails
<1>3. PICK v \in {"none", "opening"}, w \in {"user", "opened", "busy"} :
        /\ fd' = [fd EXCEPT ![p] = v] /\ pc' = [pc EXCEPT ![t] = w]
        /\ pc[t] \in {"user", "opened", "busy"}
        /\ fd[p] \in {"none", "opening"}
  BY DEF OpenCount, OpenFails, At, Goto, IInv, GateInv, OneOpening, Opening
<1>4. /\ fd'[p] = v /\ \A q \in Procs : q # p => fd'[q] = fd[q]
      /\ pc'[t] = w /\ \A u \in Threads : u # t => pc'[u] = pc[u]
      /\ {"user", "opened", "busy"} \cap (Locked \cup {"lock"}) = {}
  BY <1>3 DEF IInv, TypeOK, Locked, StartSteps, ParamSteps, PpsSteps
<1>5. /\ \A u \in Threads : pc'[u] \in Locked \cup {"lock"} => pc'[u] = pc[u]
      /\ \A u \in Threads : pc[u] \in Locked => pc'[u] = pc[u]
  BY <1>3, <1>4
<1>6. /\ \A q \in Procs : fd'[q] \in Using <=> fd[q] \in Using
      /\ \A q \in Procs : fd'[q] \in {"none", "opening", "freed"} =>
           fd[q] \in {"none", "opening", "freed"}
      /\ \A q \in Procs : fd'[q] = "reset" => fd[q] = "reset"
  BY <1>3, <1>4 DEF Using
<1>. QED BY <1>1, <1>2, <1>5, <1>6, GateFrame

\* The first and the last step of a close.
LEMMA ClosingSteps ==
  ASSUME IInv, NEW p \in Procs, Close(p) \/ ReleaseCount(p)
  PROVE  IInv'
<1>1. GateInv'  BY ReleaseStep DEF IInv, Release
<1>2. UNCHANGED <<file, thr, regs, owner>>
  BY DEF Close, ReleaseCount
<1>3. \/ fd[p] = "live" /\ fd' = [fd EXCEPT ![p] = "closing"]
      \/ fd[p] = "freed" /\ fd' = [fd EXCEPT ![p] = "none"]
  BY DEF Close, ReleaseCount
<1>4. /\ \A q \in Procs : fd'[q] \in Using <=> fd[q] \in Using
      /\ \A q \in Procs : fd'[q] \in {"none", "opening", "freed"} =>
           fd[q] \in {"none", "opening", "freed"}
      /\ \A q \in Procs : fd'[q] = "reset" => fd[q] = "reset"
  BY <1>3 DEF Using, IInv, TypeOK
<1>. QED BY <1>1, <1>2, <1>4, GateFrame DEF thr

\* The file starts from nothing, with every engine stopped.
LEMMA OpenResetSound ==
  ASSUME IInv, NEW t \in Threads, OpenReset(t)
  PROVE  IInv'
<1>. PICK p \in Procs : p = Owner[t]  BY DevAssumption
<1>1. /\ pc[t] = "opened" /\ fd[p] = "opening"
      /\ pc' = [pc EXCEPT ![t] = "user"] /\ fd' = [fd EXCEPT ![p] = "live"]
      /\ WriteReset({})
      /\ UNCHANGED <<openCount, file, op, tmp, first, addr, len, mode, dreg, owner>>
  BY DEF OpenReset, At, Goto, IInv, GateInv, OneOpening, Opening
<1>2. /\ \A q \in Procs : fd[q] \notin Using /\ lock[q] = None
      /\ \A u \in Threads : pc[u] \notin Locked \cup {"lock"}
  BY <1>1, NoIoctl DEF Winner, Using
<1>3. /\ reset' = {} /\ Engines' /\ \A s \in Streams : ~eng'[s].run
      /\ eng' \in [Streams -> [run : BOOLEAN, buf : Bufs \cup {None}, full : BOOLEAN,
                               oneshot : BOOLEAN, d : Decims \cup {None}]]
  <2>1. TypeOK /\ Engines  BY DEF IInv
  <2>. QED BY <1>1, <2>1, Written
<1>4. /\ fd'[p] = "live" /\ \A q \in Procs : q # p => fd'[q] = fd[q]
      /\ \A u \in Threads : pc'[u] \notin Locked \cup {"lock"}
  BY <1>1, <1>2 DEF IInv, TypeOK, Locked, StartSteps, ParamSteps, PpsSteps
<1>5. GateInv'  BY OpenResetStep DEF IInv
<1>6. TypeOK'
  <2>1. /\ fd' \in [Procs -> Holding \cup {"none", "opening"}] /\ pc' \in [Threads -> Steps]
    BY <1>5 DEF GateInv, GateTypes
  <2>. QED BY <1>1, <1>3, <2>1 DEF IInv, TypeOK, file
<1>7. OpFits'
  BY <1>4 DEF OpFits, Locked, StartSteps, ParamSteps, PpsSteps
<1>8. Mutex'  BY <1>1, <1>2, <1>4 DEF Mutex, file
<1>9. Clean' /\ Owned'
  BY <1>1, <1>4 DEF IInv, Clean, Owned, file
<1>10. RxStopped'  BY <1>3 DEF RxStopped
<1>11. /\ \A s \in Streams : cpu[p][s] = None /\ ~armed[p][s] /\ decim[p][s] = None
       /\ ~ppsOn[p]
  BY <1>1 DEF IInv, Clean
<1>12. Common(p)'
  BY <1>1, <1>3, <1>11 DEF Common, Streams, file
<1>13. Sound(p, {})'
  BY <1>1, <1>3, <1>11 DEF Sound, Streams, file
<1>14. Files'
  <2>1. ASSUME NEW q \in Procs, fd'[q] \in Using PROVE q = p
    BY <1>2, <1>4, <2>1
  <2>. QED BY <1>4, <1>12, <1>13, <2>1 DEF Files
<1>. QED
  BY <1>3, <1>5, <1>6, <1>7, <1>8, <1>9, <1>10, <1>14 DEF IInv

\* Steps of release, when no ioctl is in progress and the file is not to be used again.
LEMMA ReleaseFrame ==
  ASSUME IInv, GateInv', TypeOK', Clean', Owned', Engines', RxStopped', pc' = pc,
         \A u \in Threads : pc[u] \notin Locked \cup {"lock"},
         \A q \in Procs : lock'[q] = None,
         \A q \in Procs : fd'[q] \notin Using
  PROVE  IInv'
<1>1. OpFits'  BY DEF OpFits, Locked, StartSteps, ParamSteps, PpsSteps
<1>2. Mutex'  BY DEF Mutex
<1>3. Files'  BY DEF Files
<1>. QED BY <1>1, <1>2, <1>3 DEF IInv

LEMMA ReleaseClearStep ==
  ASSUME IInv, NEW p \in Procs, ReleaseClear(p)
  PROVE  IInv'
<1>1. /\ fd[p] = "closing" /\ fd' = [fd EXCEPT ![p] = "cleared"]
      /\ \A t \in Threads : Owner[t] = p => pc[t] = "user"
      /\ len' = [s \in Streams |-> len[s] /\ ~armed[p][s]]
      /\ UNCHANGED <<openCount, file, thr, reset, addr, mode, dreg, eng, owner>>
  BY DEF ReleaseClear, At
<1>2. \A q \in Procs : fd[q] \in Holding => q = p
  <2>1. Winner(p)  BY <1>1 DEF Winner, Holding
  <2>. QED BY <2>1 DEF IInv, GateInv, OneWinner, Winner
<1>3. fd'[p] = "cleared" /\ \A q \in Procs : q # p => fd'[q] = fd[q]
  BY <1>1 DEF IInv, TypeOK
<1>4. ASSUME NEW u \in Threads, pc[u] \in Locked \cup {"lock"} PROVE FALSE
  <2>1. fd[Owner[u]] \in Using /\ Owner[u] \in Procs
    BY <1>4, DevAssumption DEF IInv, Mutex
  <2>2. Owner[u] = p  BY <1>2, <2>1 DEF Using, Holding
  <2>. QED BY <1>1, <1>4, <2>2 DEF Locked, StartSteps, ParamSteps, PpsSteps
<1>5. \A q \in Procs : lock[q] = None  BY <1>4 DEF IInv, Mutex
<1>6. GateInv'  BY ReleaseStep DEF IInv, Release
<1>7. TypeOK'
  <2>1. len' \in [Streams -> BOOLEAN]  BY <1>1
  <2>. QED BY <1>1, <1>3, <1>6, <2>1 DEF IInv, TypeOK, GateInv, GateTypes, file, thr
<1>8. Clean' /\ Owned' /\ Engines'
  BY <1>1, <1>3 DEF IInv, Clean, Owned, Engines, file
<1>9. RxStopped'
  BY <1>2, <1>3 DEF RxStopped, Holding
<1>10. \A q \in Procs : fd'[q] \notin Using
  BY <1>2, <1>3 DEF Using, Holding
<1>. QED
  BY <1>1, <1>4, <1>5, <1>6, <1>7, <1>8, <1>9, <1>10, ReleaseFrame DEF file, thr

LEMMA ReleaseResetStep ==
  ASSUME IInv, NEW p \in Procs, ReleaseReset(p)
  PROVE  IInv'
<1>1. /\ fd[p] = "cleared" /\ fd' = [fd EXCEPT ![p] = "reset"]
      /\ IF armed[p][Rx] THEN WriteReset({}) ELSE UNCHANGED <<reset, eng>>
      /\ UNCHANGED <<openCount, file, thr, addr, len, mode, dreg, owner>>
  BY DEF ReleaseReset
<1>2. Winner(p) /\ fd[p] \notin Using  BY <1>1 DEF Winner, Holding, Using
<1>3. \A q \in Procs : fd[q] \in Holding => q = p
  BY <1>2 DEF IInv, GateInv, OneWinner, Winner
<1>4. /\ \A q \in Procs : fd[q] \notin Using /\ lock[q] = None
      /\ \A u \in Threads : pc[u] \notin Locked \cup {"lock"}
  BY <1>2, NoIoctl
<1>5. fd'[p] = "reset" /\ \A q \in Procs : q # p => fd'[q] = fd[q]
  BY <1>1 DEF IInv, TypeOK
<1>6. /\ reset' \subseteq Streams \cup {Pps} /\ Engines'
      /\ eng' \in [Streams -> [run : BOOLEAN, buf : Bufs \cup {None}, full : BOOLEAN,
                               oneshot : BOOLEAN, d : Decims \cup {None}]]
      /\ armed[p][Rx] => \A s \in Streams : ~eng'[s].run
  <2>1. CASE armed[p][Rx]
    <3>1. TypeOK /\ Engines /\ WriteReset({})  BY <1>1, <2>1 DEF IInv
    <3>. QED BY <3>1, Written
  <2>2. CASE ~armed[p][Rx]
    BY <1>1, <2>2 DEF IInv, TypeOK, Engines
  <2>. QED BY <2>1, <2>2
<1>7. GateInv'  BY ReleaseStep DEF IInv, Release
<1>8. TypeOK'
  BY <1>1, <1>6, <1>7 DEF IInv, TypeOK, GateInv, GateTypes, file, thr
<1>9. Clean' /\ Owned'
  BY <1>1, <1>5 DEF IInv, Clean, Owned, file
<1>10. RxStopped'
  BY <1>1, <1>3, <1>5, <1>6 DEF RxStopped, Holding, file
<1>11. \A q \in Procs : fd'[q] \notin Using
  BY <1>4, <1>5 DEF Using
<1>. QED
  BY <1>1, <1>4, <1>6, <1>7, <1>8, <1>9, <1>10, <1>11, ReleaseFrame DEF file, thr

\* The buffers of the file's rings, and no others, go back.
LEMMA ReleaseFreeStep ==
  ASSUME IInv, NEW p \in Procs, ReleaseFree(p)
  PROVE  IInv'
<1>1. /\ fd[p] = "reset" /\ fd' = [fd EXCEPT ![p] = "freed"]
      /\ owner' = [b \in Bufs |->
                     IF b \in {cpu[p][s] : s \in Streams} THEN None ELSE owner[b]]
      /\ cpu' = [cpu EXCEPT ![p] = [s \in Streams |-> None]]
      /\ armed' = [armed EXCEPT ![p] = [s \in Streams |-> FALSE]]
      /\ decim' = [decim EXCEPT ![p] = [s \in Streams |-> None]]
      /\ cont' = [cont EXCEPT ![p] = [s \in Streams |-> FALSE]]
      /\ ppsOn' = [ppsOn EXCEPT ![p] = FALSE]
      /\ UNCHANGED <<openCount, lock, thr, regs>>
  BY DEF ReleaseFree
<1>2. Winner(p) /\ fd[p] \notin Using  BY <1>1 DEF Winner, Holding, Using
<1>3. \A q \in Procs : fd[q] \in Holding => q = p
  BY <1>2 DEF IInv, GateInv, OneWinner, Winner
<1>4. /\ \A q \in Procs : fd[q] \notin Using /\ lock[q] = None
      /\ \A u \in Threads : pc[u] \notin Locked \cup {"lock"}
  BY <1>2, NoIoctl
<1>5. fd'[p] = "freed" /\ \A q \in Procs : q # p => fd'[q] = fd[q]
  BY <1>1 DEF IInv, TypeOK
<1>6. GateInv'  BY ReleaseStep DEF IInv, Release
<1>7. /\ cpu' \in [Procs -> [Streams -> Bufs \cup {None}]]
      /\ armed' \in [Procs -> [Streams -> BOOLEAN]]
      /\ decim' \in [Procs -> [Streams -> Decims \cup {None}]]
      /\ cont' \in [Procs -> [Streams -> BOOLEAN]]
      /\ ppsOn' \in [Procs -> BOOLEAN]
      /\ \A s \in Streams : cpu'[p][s] = None /\ ~armed'[p][s] /\ decim'[p][s] = None
      /\ ~ppsOn'[p]
      /\ \A q \in Procs : q # p => /\ cpu'[q] = cpu[q] /\ armed'[q] = armed[q]
                                   /\ decim'[q] = decim[q] /\ ppsOn'[q] = ppsOn[q]
  BY <1>1 DEF IInv, TypeOK
<1>8. TypeOK'
  <2>1. owner' \in [Bufs -> (Procs \X Streams) \cup {None}]  BY <1>1 DEF IInv, TypeOK
  <2>. QED BY <1>1, <1>6, <1>7, <2>1 DEF IInv, TypeOK, GateInv, GateTypes, thr, regs
<1>9. Clean'  BY <1>5, <1>7 DEF IInv, Clean
<1>10. Owned'
  <2>1. ASSUME NEW b \in Bufs, owner'[b] # None
        PROVE  \E q \in Procs, x \in Streams : owner'[b] = <<q, x>> /\ cpu'[q][x] = b
    <3>1. owner'[b] = owner[b] /\ \A s \in Streams : cpu[p][s] # b  BY <1>1, <2>1
    <3>2. PICK q \in Procs, x \in Streams : owner[b] = <<q, x>> /\ cpu[q][x] = b
      BY <2>1, <3>1 DEF IInv, Owned
    <3>3. q # p  BY <3>1, <3>2
    <3>. QED BY <1>7, <3>1, <3>2, <3>3
  <2>. QED BY <2>1 DEF Owned
<1>11. Engines'  BY <1>1 DEF IInv, Engines, regs
<1>12. RxStopped'  BY <1>3, <1>5 DEF RxStopped, Holding
<1>13. \A q \in Procs : fd'[q] \notin Using  BY <1>4, <1>5 DEF Using
<1>. QED
  BY <1>1, <1>4, <1>6, <1>8, <1>9, <1>10, <1>11, <1>12, <1>13, ReleaseFrame DEF thr
-----------------------------------------------------------------------------
(* The engines stop by themselves, or nothing happens. *)

LEMMA BlockDoneStep ==
  ASSUME IInv, BlockDone \/ UNCHANGED vars
  PROVE  IInv'
<1>1. UNCHANGED <<sw, file, thr, reset, addr, len, mode, dreg, owner>>
  BY DEF BlockDone, vars, regs
<1>2. /\ eng' \in [Streams -> [run : BOOLEAN, buf : Bufs \cup {None}, full : BOOLEAN,
                               oneshot : BOOLEAN, d : Decims \cup {None}]]
      /\ \A s \in Streams : eng'[s] = Idle \/ eng'[s] = eng[s]
  <2>1. eng \in [Streams -> [run : BOOLEAN, buf : Bufs \cup {None}, full : BOOLEAN,
                             oneshot : BOOLEAN, d : Decims \cup {None}]]
    BY DEF IInv, TypeOK
  <2>2. Idle \in [run : BOOLEAN, buf : Bufs \cup {None}, full : BOOLEAN,
                  oneshot : BOOLEAN, d : Decims \cup {None}]
    BY DEF Idle
  <2>3. (\E s \in WF : eng' = [eng EXCEPT ![s] = Idle]) \/ eng' = eng
    BY DEF BlockDone, vars, regs
  <2>. QED BY <2>1, <2>2, <2>3 DEF Streams
<1>3. \A s \in Streams : eng'[s].run => eng'[s] = eng[s]
  BY <1>2 DEF Idle
<1>4. TypeOK'  BY <1>1, <1>2 DEF IInv, TypeOK, sw, file, thr
<1>5. GateInv'
  BY <1>1 DEF IInv, GateInv, GateTypes, OneOpening, CountExact, Active, OneWinner, Winner,
       sw, thr
<1>6. OpFits' /\ Mutex' /\ Clean' /\ Owned'
  BY <1>1 DEF IInv, OpFits, Mutex, Clean, Owned, sw, file, thr
<1>7. Engines'  BY <1>1, <1>2 DEF IInv, Engines
<1>8. RxStopped'  BY <1>1, <1>3 DEF IInv, RxStopped, sw, file
<1>9. ASSUME NEW p \in Procs, Common(p) PROVE Common(p)'
  BY <1>1, <1>3, <1>9 DEF Common, Streams, file
<1>10. ASSUME NEW p \in Procs, NEW X, Sound(p, X) PROVE Sound(p, X)'
  BY <1>1, <1>3, <1>10 DEF Sound, file
<1>11. ASSUME NEW u \in Threads, Working(u) PROVE Working(u)'
  <2>1. Target(u)' = Target(u)  BY <1>1 DEF Target, thr
  <2>2. Sound(Owner[u], Target(u))'
    <3>1. PICK X : X = Target(u)  OBVIOUS
    <3>2. Sound(Owner[u], X)'  BY <1>10, <1>11, <3>1, DevAssumption DEF Working
    <3>. QED BY <2>1, <3>1, <3>2
  <2>3. pc'[u] \in StartSteps => Starting(u, Owner[u], op[u].s)'
    BY <1>1, <1>11 DEF Working, Starting, file, thr
  <2>4. pc'[u] \in ParamSteps \ {"param"} => Pulsing(u, Owner[u], op[u].s)'
    BY <1>1, <1>11 DEF Working, Pulsing, file, thr
  <2>5. pc'[u] \in PpsSteps => PpsPulsing(u, Owner[u])'
    BY <1>1, <1>11 DEF Working, PpsPulsing, file, thr
  <2>. QED BY <2>2, <2>3, <2>4, <2>5 DEF Working
<1>12. Files'
  BY <1>1, <1>9, <1>10, <1>11 DEF IInv, Files, sw, file, thr
<1>. QED BY <1>4, <1>5, <1>6, <1>7, <1>8, <1>12 DEF IInv

LEMMA FilesInit == Init => IInv
<1>. SUFFICES ASSUME Init PROVE IInv  OBVIOUS
<1>. USE DevAssumption
<1>1. Idle \in [run : BOOLEAN, buf : Bufs \cup {None}, full : BOOLEAN,
                oneshot : BOOLEAN, d : Decims \cup {None}] /\ ~Idle.run
  BY DEF Idle
<1>2. TypeOK  BY <1>1 DEF Init, TypeOK, Steps
<1>3. GateInv  BY GateInit
<1>4. \A t \in Threads : pc[t] \notin Locked \cup {"lock"}
  BY DEF Init, Locked, StartSteps, ParamSteps, PpsSteps
<1>5. OpFits  BY <1>4 DEF OpFits, Locked, StartSteps
<1>6. Mutex  BY <1>4 DEF Init, Mutex
<1>7. Clean /\ Owned /\ Engines /\ RxStopped
  BY <1>1 DEF Init, Clean, Owned, Engines, RxStopped
<1>8. Files
  <2>1. \A p \in Procs : fd[p] \notin Using  BY DEF Init, Using
  <2>. QED BY <1>4, <2>1 DEF Files
<1>. QED BY <1>2, <1>3, <1>5, <1>6, <1>7, <1>8 DEF IInv

LEMMA StepKeepsIInv == IInv /\ [Next]_vars => IInv'
<1>. SUFFICES ASSUME IInv, [Next]_vars PROVE IInv'  OBVIOUS
<1>1. ASSUME NEW t \in Threads, Open(t) PROVE IInv'
  BY <1>1, OpeningSteps, OpenResetSound DEF Open
<1>2. ASSUME NEW t \in Threads, Enter(t) \/ Acquire(t) PROVE IInv'
  BY <1>2, EnterStep, AcquireStep
<1>3. ASSUME NEW t \in Threads, Handler(t) PROVE IInv'
  <2>1. CASE ClearRead(t) \/ ModeRead(t) \/ SetRead(t)  BY <2>1, StartReads
  <2>2. CASE PulseRead(t) \/ PpsRead(t)  BY <2>2, PulseReads
  <2>3. CASE ClearWrite(t)  BY <2>3, ClearWriteStep
  <2>4. CASE Alloc(t)  BY <2>4, AllocStep
  <2>5. CASE AllocFails(t)  BY <2>5, AllocFailsStep
  <2>6. CASE ModeWrite(t)  BY <2>6, ModeWriteStep
  <2>7. CASE Address(t)  BY <2>7, AddressStep
  <2>8. CASE SetWrite(t)  BY <2>8, SetWriteStep
  <2>9. CASE Param(t)  BY <2>9, ParamStep
  <2>10. CASE PulseLow(t) \/ PulseHigh(t)  BY <2>10, PulseLowStep, PulseHighStep
  <2>11. CASE PpsLow(t) \/ PpsHigh(t)  BY <2>11, PpsLowStep, PpsHighStep
  <2>12. CASE Unlock(t)  BY <2>12, UnlockStep
  <2>. QED BY <1>3, <2>1, <2>2, <2>3, <2>4, <2>5, <2>6, <2>7, <2>8, <2>9, <2>10, <2>11,
              <2>12 DEF Handler
<1>4. ASSUME NEW p \in Procs, Close(p) \/ Release(p) PROVE IInv'
  BY <1>4, ClosingSteps, ReleaseClearStep, ReleaseResetStep, ReleaseFreeStep DEF Release
<1>5. CASE BlockDone \/ UNCHANGED vars  BY <1>5, BlockDoneStep
<1>. QED BY <1>1, <1>2, <1>3, <1>4, <1>5 DEF Next

\* The invariant of the control plane: however the ioctls of any number of threads,
\* the opens and releases of any number of processes and the engines interleave.
THEOREM ControlPlaneInductive == Spec => []IInv
  BY FilesInit, StepKeepsIInv, PTL DEF Spec

\* Every variable has its type at every step.
THEOREM ControlPlaneTypes == Spec => []TypeOK
<1>1. IInv => TypeOK  BY DEF IInv
<1>. QED BY ControlPlaneInductive, <1>1, PTL

\* No read-modify-write of the reset register loses another call's bit: between two
\* ioctls it holds the armed streams and the PPS unit if started, and nothing else.
THEOREM NoLostBit == Spec => []ResetMatchesIntent
<1>1. IInv => ResetMatchesIntent
  <2>. SUFFICES ASSUME IInv, NEW p \in Procs, fd[p] = "live", lock[p] = None
                PROVE  reset = {s \in Streams : armed[p][s]}
                                 \cup (IF ppsOn[p] THEN {Pps} ELSE {})
    BY DEF ResetMatchesIntent
  <2>1. Sound(p, {})  BY DEF IInv, Files, Using
  <2>2. reset \subseteq Streams \cup {Pps}  BY DEF IInv, TypeOK
  <2>3. \A s \in Streams : s \in reset <=> armed[p][s]  BY <2>1 DEF Sound
  <2>4. Pps \in reset <=> ppsOn[p]  BY <2>1 DEF Sound
  <2>. QED BY <2>2, <2>3, <2>4, DevAssumption
<1>. QED BY ControlPlaneInductive, <1>1, PTL

\* While a file is open, a running engine writes to the ring that the reads of its
\* stream copy from, and knows its length.
THEOREM EngineOnItsRing == Spec => []EngineFeedsReader
<1>1. IInv => EngineFeedsReader
  <2>. SUFFICES ASSUME IInv, NEW p \in Procs, fd[p] = "live", NEW s \in Streams, eng[s].run
                PROVE  eng[s].buf = cpu[p][s] /\ eng[s].buf # None /\ eng[s].full
    BY DEF EngineFeedsReader
  <2>1. Common(p)  BY DEF IInv, Files, Using
  <2>. QED BY <2>1 DEF Common
<1>. QED BY ControlPlaneInductive, <1>1, PTL

\* Between two ioctls the decimation (unless it is 0) and the mode last asked for are
\* the ones that the registers hold and that a running engine works with.
THEOREM SettingsReachTheEngine == Spec => []SettingsInForce
<1>1. IInv => SettingsInForce
  <2>. SUFFICES ASSUME IInv, NEW p \in Procs, fd[p] = "live", lock[p] = None
                PROVE  /\ \A s \in Streams :
                            eng[s].run /\ decim[p][s] # None => eng[s].d = decim[p][s]
                       /\ \A s \in WF : armed[p][s] =>
                            /\ (s \in mode) = cont[p][s]
                            /\ eng[s].run => eng[s].oneshot = cont[p][s]
    BY DEF SettingsInForce
  <2>1. Sound(p, {}) /\ Common(p)  BY DEF IInv, Files, Using
  <2>. QED BY <2>1 DEF Sound, Common
<1>. QED BY ControlPlaneInductive, <1>1, PTL

\* When no process is in open or release or has the device, no ring is allocated and
\* the next open passes the gate.
THEOREM EverythingGivenBack == Spec => []NothingLeaks
<1>1. IInv => NothingLeaks
  <2>. SUFFICES ASSUME IInv, \A p \in Procs : fd[p] = "none"
                PROVE  openCount = 0 /\ \A b \in Bufs : owner[b] = None
    BY DEF NothingLeaks
  <2>1. Active = {}  BY DEF Active
  <2>2. openCount = 0  BY <2>1, FS_EmptySet DEF IInv, GateInv, CountExact
  <2>3. ASSUME NEW b \in Bufs, owner[b] # None PROVE FALSE
    <3>1. PICK p \in Procs, s \in Streams : cpu[p][s] = b
      BY <2>3 DEF IInv, Owned
    <3>2. cpu[p][s] = None  BY DEF IInv, Clean
    <3>. QED BY <3>1, <3>2, DevAssumption
  <2>. QED BY <2>2, <2>3
<1>. QED BY ControlPlaneInductive, <1>1, PTL

\* The step that frees the rings of a session that had armed RX finds every engine
\* stopped, and starts none.
THEOREM StoppedBeforeFree == Spec => RxStoppedBeforeFree
<1>1. IInv /\ [Next]_vars =>
        [\A p \in Procs : fd[p] = "reset" /\ armed[p][Rx] /\ fd'[p] = "freed"
           => \A s \in Streams : ~eng'[s].run]_vars
  <2>. SUFFICES ASSUME IInv, Next, NEW p \in Procs, fd[p] = "reset", armed[p][Rx],
                       fd'[p] = "freed"
                PROVE  \A s \in Streams : ~eng'[s].run
    BY DEF vars, sw, regs
  <2>1. \A s \in Streams : ~eng[s].run  BY DEF IInv, RxStopped
  <2>2. eng' = eng
    <3>. USE DEF IInv, TypeOK
    <3>1. ASSUME NEW t \in Threads, Enter(t) \/ Acquire(t) \/ Handler(t) PROVE FALSE
      BY <3>1, GateUntouched DEF GateInv, sw
    <3>2. ASSUME NEW t \in Threads, Open(t) PROVE FALSE
      BY <3>2, DevAssumption DEF Open, OpenCount, OpenFails, OpenReset
    <3>3. ASSUME NEW q \in Procs, Close(q) \/ ReleaseClear(q) \/ ReleaseReset(q)
                                    \/ ReleaseCount(q)
          PROVE  FALSE
      BY <3>3 DEF Close, ReleaseClear, ReleaseReset, ReleaseCount
    <3>4. ASSUME NEW q \in Procs, ReleaseFree(q) PROVE eng' = eng
      BY <3>4 DEF ReleaseFree, regs
    <3>5. CASE BlockDone  BY <3>5 DEF BlockDone, sw
    <3>. QED BY <3>1, <3>2, <3>3, <3>4, <3>5 DEF Next, Release
  <2>. QED BY <2>1, <2>2
<1>. QED BY ControlPlaneInductive, <1>1, PTL DEF Spec, RxStoppedBeforeFree
=============================================================================
