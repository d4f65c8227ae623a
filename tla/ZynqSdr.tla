------------------------------ MODULE ZynqSdr ------------------------------
(***************************************************************************)
(* The control plane of /dev/zynqsdr (zynqsdr.c) together with the stream  *)
(* engines of the PL it drives (web888_pl.c): who may have the device      *)
(* open, how the ioctls of several threads share the reset, address, mode  *)
(* and decimation registers, and when an engine writes into memory.        *)
(*                                                                         *)
(* The register bus has no read-modify-write: every ioread16 and iowrite16 *)
(* of the reset and mode registers is a step of its own, so that what      *)
(* keeps two ioctls from losing each other's bits is the per-file mutex    *)
(* and nothing in the model.  An engine latches its ring address, ring     *)
(* length and mode on the rising edge of its reset bit and writes to that  *)
(* address until the bit falls or its block is complete.                   *)
(*                                                                         *)
(* The VFS (not in this repository) calls release once the descriptor is   *)
(* closed and no ioctl on the file is in flight; the `stop' flag, which    *)
(* release sets for ioctls that overlap it, therefore is never seen by one *)
(* and is not a variable.  What a read copies is StreamRing's subject.     *)
(***************************************************************************)
EXTENDS Integers, FiniteSets

CONSTANTS
  Procs,      \* processes that may open the device
  Threads,    \* their threads
  Owner,      \* the process of each thread
  Rx, WF,     \* the RX stream and the waterfall channels
  Pps,        \* the reset bit of the PPS unit
  Bufs,       \* coherent buffers dma_alloc_coherent may return
  Decims,     \* decimation factors the ioctls accept
  None        \* no buffer, no thread; of a decimation, the value 0 (not set)

Streams == {Rx} \cup WF

ASSUME DevAssumption ==
  /\ IsFiniteSet(Procs)
  /\ Owner \in [Threads -> Procs]
  /\ Rx \notin WF /\ Pps \notin Streams
  /\ None \notin Procs \cup Threads \cup Bufs \cup Decims

VARIABLES
  openCount,  \* zdev->open_count
  fd,         \* per process: where its file is between open and release
  lock,       \* zfile->lock: the thread holding it
  cpu,        \* st->cpu / st->dma: the ring a stream owns
  armed,      \* st->armed
  decim,      \* zfile->rx_decimate, zfile->wf_decimate
  cont,       \* zfile->wf_continuous
  pc, op,     \* per thread: the step it is at and the ioctl it is in
  tmp,        \* per thread: the register value it has read
  first,      \* per thread: this start is the stream's first arm
  reset,      \* CFG RESET: the set of bits that are 1
  addr, len,  \* CFG DMA_ADDR, and whether LEN holds the ring's length
  mode,       \* CFG WF_CONT: the channels whose bit is 1
  dreg,       \* CFG RX_DECIMATE, WF_DECIM
  eng,        \* per stream: what its running engine has latched, or Idle
  owner,      \* what a buffer is allocated to, or None
  ppsOn       \* history: the last PPS_START of the file asked for running

sw   == <<openCount, fd>>
file == <<lock, cpu, armed, decim, cont, ppsOn>>
thr  == <<pc, op, tmp, first>>
regs == <<reset, addr, len, mode, dreg, eng>>
vars == <<sw, file, thr, regs, owner>>

\* The file of process p exists in these states, from its open's register
\* write to its release's last step.
Holding == {"live", "closing", "cleared", "reset", "freed"}

\* The commands.  WF_PARAM takes any decimation, 0 included; `other' is an ioctl
\* that leaves these variables alone: a read, RX_PARAM, the GPIO, attenuator and
\* identity commands, and whatever is refused for its argument.
Ops ==
  [k : {"start"}, s : {Rx}, d : Decims, cont : {FALSE}]
    \cup [k : {"start"}, s : WF, d : {None}, cont : BOOLEAN]
    \cup [k : {"param"}, s : WF, d : Decims \cup {None}]
    \cup [k : {"pps"}, on : BOOLEAN]
    \cup [k : {"other"}]

NoOp == [k |-> "none"]
Idle == [run |-> FALSE, buf |-> None, full |-> FALSE, oneshot |-> FALSE, d |-> None]

Init ==
  /\ openCount = 0 /\ fd = [p \in Procs |-> "none"]
  /\ lock = [p \in Procs |-> None]
  /\ cpu = [p \in Procs |-> [s \in Streams |-> None]]
  /\ armed = [p \in Procs |-> [s \in Streams |-> FALSE]]
  /\ decim = [p \in Procs |-> [s \in Streams |-> None]]
  /\ cont = [p \in Procs |-> [s \in Streams |-> FALSE]]
  /\ ppsOn = [p \in Procs |-> FALSE]
  /\ pc = [t \in Threads |-> "user"] /\ op = [t \in Threads |-> NoOp]
  /\ tmp = [t \in Threads |-> {}] /\ first = [t \in Threads |-> FALSE]
  /\ reset = {} /\ mode = {}
  /\ addr = [s \in Streams |-> None] /\ len = [s \in Streams |-> FALSE]
  /\ dreg = [s \in Streams |-> None]
  /\ eng = [s \in Streams |-> Idle]
  /\ owner = [b \in Bufs |-> None]
-----------------------------------------------------------------------------
(* The PL. *)

\* cfg_write of CTRL, ctrl_changed: falling bits stop engines, rising bits start
\* them with what the registers hold now.  Mode bit 1 selects one block, bit 0 a
\* continuous stream.
WriteReset(bits) ==
  /\ reset' = bits
  /\ eng' = [s \in Streams |->
       IF s \in bits \ reset
         THEN [run |-> TRUE, buf |-> addr[s], full |-> len[s],
               oneshot |-> s \in mode, d |-> dreg[s]]
       ELSE IF s \in reset \ bits THEN Idle
       ELSE eng[s]]

\* wf_produce: a one-shot engine stops by itself, its reset bit still set.
BlockDone ==
  /\ \E s \in WF : /\ eng[s].run /\ eng[s].oneshot
                   /\ eng' = [eng EXCEPT ![s] = Idle]
  /\ UNCHANGED <<sw, file, thr, reset, addr, len, mode, dreg, owner>>
-----------------------------------------------------------------------------
(* open and release. *)

At(t, where) == pc[t] = where
Goto(t, where) == pc' = [pc EXCEPT ![t] = where]

\* Fault: the gate tests the value before the increment (atomic_fetch_inc).
OpenCountOld(t) ==
  /\ At(t, "user") /\ fd[Owner[t]] = "none"
  /\ openCount' = openCount + 1
  /\ fd' = [fd EXCEPT ![Owner[t]] = "opening"]
  /\ Goto(t, IF openCount <= 1 THEN "opened" ELSE "busy")
  /\ UNCHANGED <<file, op, tmp, first, regs, owner>>

\* atomic_inc_return decides in one step; everything after it is interleaved.
OpenCount(t) ==
  /\ At(t, "user") /\ fd[Owner[t]] = "none"
  /\ openCount' = openCount + 1
  /\ fd' = [fd EXCEPT ![Owner[t]] = "opening"]
  /\ Goto(t, IF openCount' = 1 THEN "opened" ELSE "busy")
  /\ UNCHANGED <<file, op, tmp, first, regs, owner>>

\* Faults: a failing open keeps its count, or gives it back on two paths.
OpenFailsKeeps(t) ==
  /\ At(t, "busy") \/ At(t, "opened")
  /\ fd' = [fd EXCEPT ![Owner[t]] = "none"]
  /\ Goto(t, "user")
  /\ UNCHANGED <<openCount, file, op, tmp, first, regs, owner>>

OpenFailsTwice(t) ==
  /\ At(t, "busy") \/ At(t, "opened")
  /\ openCount' = openCount - 2
  /\ fd' = [fd EXCEPT ![Owner[t]] = "none"]
  /\ Goto(t, "user")
  /\ UNCHANGED <<file, op, tmp, first, regs, owner>>

\* -EBUSY, and -ENOMEM when kzalloc fails: the count is given back.
OpenFails(t) ==
  /\ At(t, "busy") \/ At(t, "opened")
  /\ openCount' = openCount - 1
  /\ fd' = [fd EXCEPT ![Owner[t]] = "none"]
  /\ Goto(t, "user")
  /\ UNCHANGED <<file, op, tmp, first, regs, owner>>

\* A zeroed file, and all engines stopped.
OpenReset(t) ==
  /\ At(t, "opened")
  /\ WriteReset({})
  /\ fd' = [fd EXCEPT ![Owner[t]] = "live"]
  /\ Goto(t, "user")
  /\ UNCHANGED <<openCount, file, op, tmp, first, addr, len, mode, dreg, owner>>

\* close(2), or the process dies; ioctls in flight keep the file.
Close(p) ==
  /\ fd[p] = "live"
  /\ fd' = [fd EXCEPT ![p] = "closing"]
  /\ UNCHANGED <<openCount, file, thr, regs, owner>>

\* zynqsdr_release: the start bytes of every armed stream are cleared ...
ReleaseClear(p) ==
  /\ fd[p] = "closing"
  /\ \A t \in Threads : Owner[t] = p => At(t, "user")
  /\ len' = [s \in Streams |-> len[s] /\ ~armed[p][s]]
  /\ fd' = [fd EXCEPT ![p] = "cleared"]
  /\ UNCHANGED <<openCount, file, thr, reset, addr, mode, dreg, eng, owner>>

\* Fault: release relies on the next open to stop the engines.
ReleaseNoReset(p) ==
  /\ fd[p] = "cleared"
  /\ fd' = [fd EXCEPT ![p] = "reset"]
  /\ UNCHANGED <<openCount, file, thr, regs, owner>>

\* ... the engines are stopped, but only if RX was armed ...
ReleaseReset(p) ==
  /\ fd[p] = "cleared"
  /\ IF armed[p][Rx] THEN WriteReset({}) ELSE UNCHANGED <<reset, eng>>
  /\ fd' = [fd EXCEPT ![p] = "reset"]
  /\ UNCHANGED <<openCount, file, thr, addr, len, mode, dreg, owner>>

\* ... the rings are freed with the file's state ...
ReleaseFree(p) ==
  /\ fd[p] = "reset"
  /\ owner' = [b \in Bufs |-> IF b \in {cpu[p][s] : s \in Streams} THEN None ELSE owner[b]]
  /\ cpu' = [cpu EXCEPT ![p] = [s \in Streams |-> None]]
  /\ armed' = [armed EXCEPT ![p] = [s \in Streams |-> FALSE]]
  /\ decim' = [decim EXCEPT ![p] = [s \in Streams |-> None]]
  /\ cont' = [cont EXCEPT ![p] = [s \in Streams |-> FALSE]]
  /\ ppsOn' = [ppsOn EXCEPT ![p] = FALSE]
  /\ fd' = [fd EXCEPT ![p] = "freed"]
  /\ UNCHANGED <<openCount, lock, thr, regs>>

\* ... and the device may be opened again.
ReleaseCount(p) ==
  /\ fd[p] = "freed"
  /\ openCount' = openCount - 1
  /\ fd' = [fd EXCEPT ![p] = "none"]
  /\ UNCHANGED <<file, thr, regs, owner>>
-----------------------------------------------------------------------------
(* ioctl: the mutex, then one of the handlers. *)

Enter(t) ==
  /\ At(t, "user") /\ fd[Owner[t]] = "live"
  /\ Goto(t, "lock")
  /\ UNCHANGED <<sw, file, op, tmp, first, regs, owner>>

FirstStep == [start |-> "clrR", param |-> "param", pps |-> "ppsR", other |-> "unlock"]

\* Fault: the handlers run without the mutex.
AcquireNoWait(t) ==
  LET p == Owner[t] IN
  /\ At(t, "lock")
  /\ \E o \in Ops :
       /\ op' = [op EXCEPT ![t] = o]
       /\ first' = [first EXCEPT ![t] =
            o.k = "start" /\ IF o.s = Rx THEN cpu[p][Rx] = None ELSE ~armed[p][o.s]]
       /\ Goto(t, FirstStep[o.k])
  /\ UNCHANGED <<sw, file, tmp, regs, owner>>

\* The command and its argument matter from here on, so they are chosen here.
Acquire(t) ==
  LET p == Owner[t] IN
  /\ At(t, "lock") /\ lock[p] = None
  /\ lock' = [lock EXCEPT ![p] = t]
  /\ \E o \in Ops :
       /\ op' = [op EXCEPT ![t] = o]
       /\ first' = [first EXCEPT ![t] =
            o.k = "start" /\ IF o.s = Rx THEN cpu[p][Rx] = None ELSE ~armed[p][o.s]]
       /\ Goto(t, FirstStep[o.k])
  /\ UNCHANGED <<sw, cpu, armed, decim, cont, ppsOn, tmp, regs, owner>>

Unlock(t) ==
  /\ At(t, "unlock")
  /\ lock' = [lock EXCEPT ![Owner[t]] = None]
  /\ op' = [op EXCEPT ![t] = NoOp]
  /\ tmp' = [tmp EXCEPT ![t] = {}]
  /\ first' = [first EXCEPT ![t] = FALSE]
  /\ Goto(t, "user")
  /\ UNCHANGED <<sw, cpu, armed, decim, cont, ppsOn, regs, owner>>

\* A register read: of the reset register or of the mode register.
Read(t, here, value, there) ==
  /\ At(t, here)
  /\ tmp' = [tmp EXCEPT ![t] = value]
  /\ Goto(t, there)
  /\ UNCHANGED <<sw, file, op, first, regs, owner>>

\* RX_START and WF_START: stop the engine (for RX also program the rate, for a
\* waterfall channel note the mode asked for), ...
ClearRead(t) == Read(t, "clrR", reset, "clrW")

ClearWrite(t) ==
  /\ At(t, "clrW")
  /\ WriteReset(tmp[t] \ {op[t].s})
  /\ dreg' = IF op[t].s = Rx THEN [dreg EXCEPT ![Rx] = op[t].d] ELSE dreg
  /\ cont' = [cont EXCEPT ![Owner[t]][op[t].s] = op[t].cont]
  /\ Goto(t, "alloc")
  /\ UNCHANGED <<sw, lock, cpu, armed, decim, ppsOn, op, tmp, first, addr, len, mode, owner>>

\* ... zynqsdr_stream_arm: get the ring on the first arm, keep it afterwards, ...
Alloc(t) ==
  LET p == Owner[t]  s == op[t].s IN
  /\ At(t, "alloc")
  /\ \/ cpu[p][s] # None /\ UNCHANGED <<cpu, owner>>
     \/ /\ cpu[p][s] = None
        /\ \E b \in Bufs : /\ owner[b] = None
                           /\ owner' = [owner EXCEPT ![b] = <<p, s>>]
                           /\ cpu' = [cpu EXCEPT ![p][s] = b]
  /\ Goto(t, IF s = Rx THEN "addr" ELSE "modeR")
  /\ UNCHANGED <<sw, lock, armed, decim, cont, ppsOn, op, tmp, first, regs>>

\* Fault: the start is tried again until there is memory.
AllocRetries(t) ==
  /\ At(t, "alloc") /\ cpu[Owner[t]][op[t].s] = None
  /\ Goto(t, "clrR")
  /\ UNCHANGED <<sw, file, op, tmp, first, regs, owner>>

\* ... or -ENOMEM, the engine left stopped, ...
AllocFails(t) ==
  /\ At(t, "alloc") /\ cpu[Owner[t]][op[t].s] = None
  /\ Goto(t, "unlock")
  /\ UNCHANGED <<sw, file, op, tmp, first, regs, owner>>

\* ... for a waterfall channel set or clear its mode bit, ...
ModeRead(t) == Read(t, "modeR", mode, "modeW")

ModeWrite(t) ==
  /\ At(t, "modeW")
  /\ mode' = IF op[t].cont THEN tmp[t] \cup {op[t].s} ELSE tmp[t] \ {op[t].s}
  /\ Goto(t, "addr")
  /\ UNCHANGED <<sw, file, op, tmp, first, reset, addr, len, dreg, eng, owner>>

\* Fault: the length is left as the last release cleared it.
AddressNoLen(t) ==
  LET s == op[t].s IN
  /\ At(t, "addr")
  /\ addr' = IF first[t] THEN [addr EXCEPT ![s] = cpu[Owner[t]][s]] ELSE addr
  /\ Goto(t, "setR")
  /\ UNCHANGED <<sw, file, op, tmp, first, reset, len, mode, dreg, eng, owner>>

\* ... on the first arm program the ring's address and length, ...
Address(t) ==
  LET s == op[t].s IN
  /\ At(t, "addr")
  /\ IF first[t] THEN /\ addr' = [addr EXCEPT ![s] = cpu[Owner[t]][s]]
                      /\ len' = [len EXCEPT ![s] = TRUE]
                 ELSE UNCHANGED <<addr, len>>
  /\ Goto(t, "setR")
  /\ UNCHANGED <<sw, file, op, tmp, first, reset, mode, dreg, eng, owner>>

\* ... and start the engine.
SetRead(t) == Read(t, "setR", reset, "setW")

SetWrite(t) ==
  LET p == Owner[t]  s == op[t].s IN
  /\ At(t, "setW")
  /\ WriteReset(tmp[t] \cup {s})
  /\ armed' = [armed EXCEPT ![p][s] = TRUE]
  /\ decim' = IF s = Rx THEN [decim EXCEPT ![p][Rx] = op[t].d] ELSE decim
  /\ Goto(t, "unlock")
  /\ UNCHANGED <<sw, lock, cpu, cont, ppsOn, op, tmp, first, addr, len, mode, dreg, owner>>

\* Fault (BUG 3): the running engine is not told of the new decimation.
ParamNoPulse(t) ==
  LET p == Owner[t]  s == op[t].s IN
  /\ At(t, "param")
  /\ decim' = [decim EXCEPT ![p][s] = op[t].d]
  /\ dreg' = [dreg EXCEPT ![s] = op[t].d]
  /\ Goto(t, "unlock")
  /\ UNCHANGED <<sw, lock, cpu, armed, cont, ppsOn, op, tmp, first,
                 reset, addr, len, mode, eng, owner>>

\* WF_PARAM: nothing when the cached decimation and frequency are the same;
\* otherwise program the registers and, if the decimation differs and the channel
\* is armed, pulse its reset bit.  The cache starts at 0, so asking for 0 first is
\* no change.  The emulated PL follows the register while its engine runs, the
\* bitstream does not (BUG 3).
Param(t) ==
  LET p == Owner[t]  s == op[t].s IN
  /\ At(t, "param")
  /\ \/ /\ decim[p][s] = op[t].d
        /\ Goto(t, "unlock") /\ UNCHANGED <<decim, dreg, eng>>
     \/ /\ decim' = [decim EXCEPT ![p][s] = op[t].d]
        /\ dreg' = [dreg EXCEPT ![s] = op[t].d]
        /\ \/ UNCHANGED eng
           \/ eng[s].run /\ eng' = [eng EXCEPT ![s].d = op[t].d]
        /\ Goto(t, IF decim[p][s] # op[t].d /\ armed[p][s] THEN "pulseR" ELSE "unlock")
  /\ UNCHANGED <<sw, lock, cpu, armed, cont, ppsOn, op, tmp, first,
                 reset, addr, len, mode, owner>>

PulseRead(t) == Read(t, "pulseR", reset, "pulseLo")

\* The value read before the pulse is written back after the 215 us delay.
PulseLow(t) ==
  /\ At(t, "pulseLo")
  /\ WriteReset(tmp[t] \ {op[t].s})
  /\ Goto(t, "pulseHi")
  /\ UNCHANGED <<sw, file, op, tmp, first, addr, len, mode, dreg, owner>>

PulseHigh(t) ==
  /\ At(t, "pulseHi")
  /\ WriteReset(tmp[t] \cup {op[t].s})
  /\ Goto(t, "unlock")
  /\ UNCHANGED <<sw, file, op, tmp, first, addr, len, mode, dreg, owner>>

\* PPS_START: the same pulse on the PPS bit, left low when the argument is 0.
PpsRead(t) == Read(t, "ppsR", reset, "ppsLo")

PpsLow(t) ==
  /\ At(t, "ppsLo")
  /\ WriteReset(tmp[t] \ {Pps})
  /\ ppsOn' = [ppsOn EXCEPT ![Owner[t]] = op[t].on]
  /\ Goto(t, IF op[t].on THEN "ppsHi" ELSE "unlock")
  /\ UNCHANGED <<sw, lock, cpu, armed, decim, cont, op, tmp, first, addr, len, mode, dreg, owner>>

PpsHigh(t) ==
  /\ At(t, "ppsHi")
  /\ WriteReset(tmp[t] \cup {Pps})
  /\ Goto(t, "unlock")
  /\ UNCHANGED <<sw, file, op, tmp, first, addr, len, mode, dreg, owner>>
-----------------------------------------------------------------------------
\* The steps of an ioctl that holds the mutex.
Handler(t) ==
  \/ ClearRead(t) \/ ClearWrite(t) \/ Alloc(t) \/ AllocFails(t)
  \/ ModeRead(t) \/ ModeWrite(t) \/ Address(t) \/ SetRead(t) \/ SetWrite(t)
  \/ Param(t) \/ PulseRead(t) \/ PulseLow(t) \/ PulseHigh(t)
  \/ PpsRead(t) \/ PpsLow(t) \/ PpsHigh(t) \/ Unlock(t)

Open(t) == OpenCount(t) \/ OpenFails(t) \/ OpenReset(t)

Release(p) == ReleaseClear(p) \/ ReleaseReset(p) \/ ReleaseFree(p) \/ ReleaseCount(p)

Next ==
  \/ \E t \in Threads : Open(t) \/ Enter(t) \/ Acquire(t) \/ Handler(t)
  \/ \E p \in Procs : Close(p) \/ Release(p)
  \/ BlockDone

Spec == Init /\ [][Next]_vars

\* System calls run to their end once begun; the mutex, contended for ever, is
\* granted infinitely often to each waiter (Linux hands it to the first waiter
\* when it is bypassed too long).  Programs need not call anything.
Fairness ==
  /\ \A t \in Threads : /\ WF_vars(Handler(t))
                        /\ SF_vars(Acquire(t))
                        /\ WF_vars(OpenFails(t) \/ OpenReset(t))
  /\ \A p \in Procs : WF_vars(Release(p))

LiveSpec == Spec /\ Fairness
-----------------------------------------------------------------------------
(* Properties. *)

\* The steps of a thread: in open, outside any call, waiting for the mutex, and
\* the steps of the ioctls.
Opening == {"opened", "busy"}
Steps == Opening \cup {"user", "lock", "unlock", "clrR", "clrW", "alloc", "modeR", "modeW",
                       "addr", "setR", "setW", "param", "pulseR", "pulseLo", "pulseHi",
                       "ppsR", "ppsLo", "ppsHi"}

TypeOK ==
  /\ pc \in [Threads -> Steps]
  /\ openCount \in Nat
  /\ fd \in [Procs -> Holding \cup {"none", "opening"}]
  /\ lock \in [Procs -> Threads \cup {None}]
  /\ cpu \in [Procs -> [Streams -> Bufs \cup {None}]]
  /\ armed \in [Procs -> [Streams -> BOOLEAN]]
  /\ decim \in [Procs -> [Streams -> Decims \cup {None}]]
  /\ cont \in [Procs -> [Streams -> BOOLEAN]]
  /\ ppsOn \in [Procs -> BOOLEAN]
  /\ op \in [Threads -> Ops \cup {NoOp}]
  /\ tmp \in [Threads -> SUBSET (Streams \cup {Pps})]
  /\ first \in [Threads -> BOOLEAN]
  /\ reset \subseteq Streams \cup {Pps} /\ mode \subseteq WF
  /\ addr \in [Streams -> Bufs \cup {None}] /\ len \in [Streams -> BOOLEAN]
  /\ dreg \in [Streams -> Decims \cup {None}]
  /\ eng \in [Streams -> [run : BOOLEAN, buf : Bufs \cup {None}, full : BOOLEAN,
                          oneshot : BOOLEAN, d : Decims \cup {None}]]
  /\ owner \in [Bufs -> (Procs \X Streams) \cup {None}]

\* However open calls, failing opens and releases interleave on the counter, at
\* most one process has the device (zynqsdr_open's atomic_inc_return gate).
SingleOpener ==
  \A p, q \in Procs : fd[p] \in Holding /\ fd[q] \in Holding => p = q

\* Nothing leaks: when no system call is in progress and no descriptor open, the
\* counter is back to 0, so the device can be opened, and no ring is allocated.
NothingLeaks ==
  (\A p \in Procs : fd[p] = "none") => openCount = 0 /\ \A b \in Bufs : owner[b] = None

\* Between two ioctls the reset register says exactly what the program asked
\* for: no start, pulse or PPS call has undone another thread's, no bit of an
\* earlier session survives, and a failed start leaves its bit clear.
ResetMatchesIntent ==
  \A p \in Procs : fd[p] = "live" /\ lock[p] = None =>
    reset = {s \in Streams : armed[p][s]} \cup (IF ppsOn[p] THEN {Pps} ELSE {})

\* While a file is open, an engine that runs writes to the very ring its
\* stream's reads copy from, and wraps where they wrap.
EngineFeedsReader ==
  \A p \in Procs : fd[p] = "live" =>
    \A s \in Streams : eng[s].run =>
      /\ eng[s].buf = cpu[p][s] /\ eng[s].buf # None /\ eng[s].full

\* What a program has set is in force: a running engine works at the decimation
\* last asked for, although the bitstream ignores the register while it runs
\* (BUG 3), and starting one channel leaves the mode of the other, in the register
\* they share and in its running engine.  Nothing is said of a decimation of 0,
\* which the cache cannot tell from none asked for.
SettingsInForce ==
  \A p \in Procs : fd[p] = "live" /\ lock[p] = None =>
    /\ \A s \in Streams : eng[s].run /\ decim[p][s] # None => eng[s].d = decim[p][s]
    /\ \A s \in WF : armed[p][s] => /\ (s \in mode) = cont[p][s]
                                    /\ eng[s].run => eng[s].oneshot = cont[p][s]

\* An engine whose ring has been freed no longer writes, provided the session
\* had armed RX at some time; see NoDmaAfterRelease for the sessions that had not.
RxStoppedBeforeFree ==
  [][\A p \in Procs : fd[p] = "reset" /\ armed[p][Rx] /\ fd'[p] = "freed"
       => \A s \in Streams : ~eng'[s].run]_vars

\* The file header's description of release, without that proviso: "clear all
\* start bytes, zero the reset register, dma_free_coherent() every allocated ring".
NoDmaAfterRelease ==
  \A s \in Streams : eng[s].run => owner[eng[s].buf] # None

\* Every ioctl, of whatever command, returns, also those that wait for the mutex
\* behind a failing one, and every closed file is released.
CallsReturn ==
  /\ \A t \in Threads : At(t, "lock") ~> At(t, "user")
  /\ \A p \in Procs : fd[p] = "closing" ~> fd[p] = "none"
=============================================================================
