-------------------------------- MODULE DevCfg --------------------------------
(***************************************************************************)
(* /dev/xdevcfg (xilinx_devcfg.c), through which every bitstream reaches   *)
(* the PL: open isolates and resets the PL, each write hands whole words   *)
(* to the PCAP by DMA and keeps the odd bytes for the next one, an         *)
(* interrupt reports the end of a DMA, release reconnects the PL.  write   *)
(* and read hold the driver's mutex and spin on dma_done for at most a     *)
(* second; the interrupt handler and release do not take it, and the       *)
(* sysfs attribute is_partial_bitstream changes at any time.               *)
(*                                                                         *)
(* A byte of the program's file is its position, 1, 2, ...; the file has   *)
(* Header bytes before its sync word.  Refusals that change nothing        *)
(* (-EBUSY, an interrupted wait for the mutex, -EINVAL) are stutters.      *)
(***************************************************************************)
EXTENDS Integers, Sequences

CONSTANTS
  Procs,      \* programs that open the device
  Word,       \* bytes of a PCAP word, and of the sync word (4)
  Header,     \* bytes of the file before the sync word
  Size,       \* bytes of the file
  Chunks,     \* sizes of the writes
  MaxFaults,  \* bound: DMAs that fail or do not end in time
  None

ASSUME DevCfgAssumption ==
  /\ Word \in Nat \ {0} /\ Header \in Nat /\ Size \in Nat /\ MaxFaults \in Nat
  /\ Chunks \subseteq Nat \ {0}
  /\ None \notin Procs /\ \A f \in SUBSET {"done", "someErrors", "allErrors"} : f # None

VARIABLES
  sem,        \* drvdata->sem: the program in open, write or read
  isOpen,     \* drvdata->is_open
  partial,    \* drvdata->is_partial_bitstream
  residue,    \* drvdata->residue_buf: 0 .. Word - 1 bytes
  dmaDone,    \* drvdata->dma_done
  errStatus,  \* drvdata->error_status
  pc,         \* per program: where it is
  ppos,       \* the file position
  count,      \* bytes of the write in progress
  data,       \* its words, ready for the DMA
  shifters,   \* the level shifters between PS and PL are on
  pr,         \* PCAP_PR: partial reconfiguration through the PCAP
  sts,        \* INT_STS, the bits the handler looks at
  enabled,    \* INT_MASK lets them through
  irq,        \* what the handler has read, or None when it is not running
  doneSet,    \* the handler has seen to dma_done
  queue,      \* DMA commands not ended: the words, and whether the buffer is allocated
  fabric,     \* bytes the PCAP has taken since the last open
  base,       \* history: bytes of the file's head that were stripped
  unsure,     \* history: a DMA failed, or one given up may still be running
  toggled,    \* history: the attribute was changed while the device was open
  used,       \* history: a full download has been closed
  faults

driver == <<isOpen, partial, residue>>
result == <<dmaDone, errStatus>>
call   == <<ppos, count, data>>
pl     == <<shifters, pr>>
intr   == <<sts, enabled, irq, doneSet>>
pcap   == <<queue, fabric>>
ghost  == <<base, unsure, toggled, used, faults>>
vars   == <<sem, driver, result, pc, call, pl, intr, pcap, ghost>>

Garbage == -1     \* read from a buffer that has been freed

Init ==
  /\ sem = None /\ isOpen = FALSE /\ partial = FALSE /\ residue = <<>>
  /\ dmaDone = FALSE /\ errStatus = FALSE
  /\ pc = [p \in Procs |-> "closed"] /\ ppos = 0 /\ count = 0 /\ data = <<>>
  /\ shifters \in BOOLEAN /\ pr = FALSE
  /\ sts = {} /\ enabled = FALSE /\ irq = None /\ doneSet = FALSE
  /\ queue = <<>> /\ fabric = <<>>
  /\ base = 0 /\ unsure = FALSE /\ toggled = FALSE /\ used = FALSE /\ faults = 0

Goto(p, from, to) == pc[p] = from /\ pc' = [pc EXCEPT ![p] = to]
-----------------------------------------------------------------------------
(* open and release. *)

\* Fault: open does not look at is_open.
OpenAnyway(p) ==
  /\ Goto(p, "closed", "reset") /\ sem = None /\ sem' = p
  /\ isOpen' = TRUE /\ residue' = <<>>
  /\ IF partial THEN pr' = TRUE /\ UNCHANGED shifters
                ELSE shifters' = FALSE /\ UNCHANGED pr
  /\ UNCHANGED <<partial, result, call, intr, pcap, ghost>>

\* Under the mutex: the open gate, then partial mode or isolation of the PL, ...
Open(p) ==
  /\ Goto(p, "closed", "reset") /\ sem = None /\ sem' = p
  /\ ~isOpen /\ isOpen' = TRUE /\ residue' = <<>>
  /\ IF partial THEN pr' = TRUE /\ UNCHANGED shifters
                ELSE shifters' = FALSE /\ UNCHANGED pr
  /\ UNCHANGED <<partial, result, call, intr, pcap, ghost>>

\* ... and the reset of the PL.  A new download begins, with what an earlier
\* one has left running still in the queue.  The three waits for PCFG_INIT have
\* no limit in the code and hold the mutex: this step is their end, which a PL
\* that never raises or drops the line would not let come.
ResetPl(p) ==
  /\ Goto(p, "reset", "open") /\ sem' = None
  /\ fabric' = <<>>
  /\ unsure' = (queue # <<>> \/ sts # {} \/ irq # None)
  /\ UNCHANGED <<driver, result, call, pl, intr, queue, base, toggled, used, faults>>

\* release, without the mutex: the PL is reconnected, by what is_partial_bitstream
\* says now; odd bytes that are left over are only reported.
Release(p) ==
  /\ Goto(p, "open", "release")
  /\ IF partial THEN pr' = FALSE /\ UNCHANGED <<shifters, used>>
                ELSE shifters' = TRUE /\ used' = TRUE /\ UNCHANGED pr
  /\ UNCHANGED <<sem, driver, result, call, intr, pcap, base, unsure, toggled, faults>>

Released(p) ==
  /\ Goto(p, "release", "closed")
  /\ isOpen' = FALSE
  /\ ppos' = 0 /\ base' = 0 /\ fabric' = <<>>
  /\ UNCHANGED <<sem, partial, residue, result, count, data, pl, intr, queue, unsure,
                 toggled, used, faults>>

\* A write to the attribute is_partial_bitstream.
SetPartial ==
  /\ partial' = ~partial
  /\ toggled' = (toggled \/ isOpen)
  /\ UNCHANGED <<sem, isOpen, residue, result, pc, call, pl, intr, pcap, base, unsure,
                 used, faults>>
-----------------------------------------------------------------------------
(* write. *)

\* The bytes of the file behind the first a, up to the b-th.
Run(a, b) == [k \in 1 .. b - a |-> a + k]

Drop(s, n) == SubSeq(s, n + 1, Len(s))

\* The sync word begins behind the first i bytes; a match that ends the buffer
\* is not looked for.
SyncAt(s, i) == \A j \in 1 .. Word : s[i + j] = Header + j

HasSync(s) == ppos = 0 /\ Len(s) > Word /\ \E i \in 0 .. Len(s) - Word - 1 : SyncAt(s, i)

SyncPos(s) == CHOOSE i \in 0 .. Len(s) - Word - 1 : SyncAt(s, i)

\* The odd bytes of the last call, followed by the program's.
Gathered == residue \o Run(ppos, ppos + count)

\* What is left once the header, if it is there, has been removed.
Stripped(s) == IF HasSync(s) THEN Drop(s, SyncPos(s)) ELSE s

\* The bytes of s that fill whole words.
Whole(s) == Len(s) - (Len(s) % Word)

\* The mutex, the buffer and the program's bytes; a program writes on from ppos.
Write(p) ==
  /\ pc[p] = "open" /\ sem = None /\ sem' = p
  /\ pc' = [pc EXCEPT ![p] = "gather"]
  /\ count' \in {n \in Chunks : ppos + n <= Size}
  /\ UNCHANGED <<driver, result, ppos, data, pl, intr, pcap, ghost>>

\* Fault: a refused write returns without giving the mutex back.
WriteKeepsMutex(p) ==
  /\ Goto(p, "gather", "open") /\ sem' = sem /\ count' = 0
  /\ UNCHANGED <<driver, result, ppos, data, pl, intr, pcap, ghost>>

\* No buffer, a bad pointer, or a header for another device: nothing has changed.
WriteRefused(p) ==
  /\ Goto(p, "gather", "open") /\ sem' = None /\ count' = 0
  /\ UNCHANGED <<driver, result, ppos, data, pl, intr, pcap, ghost>>

\* Fault: the odd bytes are not put before the program's.
GatherAlone(p) ==
  /\ Goto(p, "gather", "arm")
  /\ LET k == Run(ppos, ppos + count)  s == Stripped(k)
     IN /\ data' = SubSeq(s, 1, Whole(s)) /\ residue' = Drop(s, Whole(s))
        /\ base' = IF HasSync(k) THEN SyncPos(k) ELSE base
  /\ UNCHANGED <<sem, isOpen, partial, result, ppos, count, pl, intr, pcap, unsure,
                 toggled, used, faults>>

\* The header is stripped from the first write of a download, and the odd bytes
\* are put aside, before the DMA.
Gather(p) ==
  /\ Goto(p, "gather", "arm")
  /\ LET s == Stripped(Gathered)
     IN data' = SubSeq(s, 1, Whole(s)) /\ residue' = Drop(s, Whole(s))
  /\ base' = IF HasSync(Gathered) THEN SyncPos(Gathered) ELSE base
  /\ UNCHANGED <<sem, isOpen, partial, result, ppos, count, pl, intr, pcap, unsure,
                 toggled, used, faults>>

\* Old interrupts are cleared and new ones let through, ...
Arm(p) ==
  /\ Goto(p, "arm", "start")
  /\ sts' = {} /\ enabled' = TRUE
  /\ UNCHANGED <<sem, driver, result, call, pl, irq, doneSet, pcap, ghost>>

\* Fault: dma_done still says that the DMA before has ended.
StartOld(p) ==
  /\ Goto(p, "start", "spin")
  /\ UNCHANGED result
  /\ queue' = Append(queue, [data |-> data, held |-> TRUE]) /\ data' = <<>>
  /\ UNCHANGED <<sem, driver, ppos, count, pl, intr, fabric, ghost>>

\* ... dma_done is reset and the DMA started, also with no word at all.
Start(p) ==
  /\ Goto(p, "start", "spin")
  /\ dmaDone' = FALSE /\ errStatus' = FALSE
  /\ queue' = Append(queue, [data |-> data, held |-> TRUE]) /\ data' = <<>>
  /\ UNCHANGED <<sem, driver, ppos, count, pl, intr, fabric, ghost>>

\* dma_free_coherent: the commands still in the queue lose their memory.
Freed == [k \in 1 .. Len(queue) |-> [queue[k] EXCEPT !.held = FALSE]]

\* dma_done is seen: the interrupts are masked, the buffer freed, and the file
\* position moves unless the handler has already noted an error.
WriteDone(p) ==
  /\ Goto(p, "spin", "open") /\ sem' = None
  /\ dmaDone
  /\ enabled' = FALSE /\ queue' = Freed
  /\ ppos' = IF errStatus THEN ppos ELSE ppos + count
  /\ count' = 0
  /\ UNCHANGED <<driver, result, data, pl, sts, irq, doneSet, fabric, ghost>>

\* A second has passed (-ETIMEDOUT, of write and read), perhaps in the very moment the
\* DMA ends: the buffer is freed, the interrupts stay enabled and the odd bytes put aside.
Timeout(p) ==
  /\ pc[p] \in {"spin", "readSpin"} /\ pc' = [pc EXCEPT ![p] = "open"] /\ sem' = None
  /\ faults < MaxFaults
  /\ queue' = Freed
  /\ unsure' = TRUE /\ faults' = faults + 1 /\ count' = 0
  /\ UNCHANGED <<driver, result, ppos, data, pl, intr, fabric, base, toggled, used>>
-----------------------------------------------------------------------------
(* read: the configuration is read back by the same engine. *)

Read(p) ==
  /\ Goto(p, "open", "readArm") /\ sem = None /\ sem' = p
  /\ dmaDone' = FALSE /\ errStatus' = FALSE
  /\ UNCHANGED <<driver, call, pl, intr, pcap, ghost>>

\* Here dma_done is reset first.
ReadStart(p) ==
  /\ Goto(p, "readArm", "readSpin")
  /\ sts' = {} /\ enabled' = TRUE
  /\ queue' = Append(queue, [data |-> <<>>, held |-> TRUE])
  /\ UNCHANGED <<sem, driver, result, call, pl, irq, doneSet, fabric, ghost>>

ReadDone(p) ==
  /\ Goto(p, "readSpin", "open") /\ sem' = None
  /\ dmaDone
  /\ enabled' = FALSE /\ queue' = Freed
  /\ UNCHANGED <<driver, result, call, pl, sts, irq, doneSet, fabric, ghost>>
-----------------------------------------------------------------------------
(* The engine and the interrupt handler. *)

\* A command ends: all of its words have been taken.
DmaEnds ==
  /\ queue # <<>>
  /\ queue' = Tail(queue)
  /\ fabric' = fabric \o IF Head(queue).held THEN Head(queue).data
                         ELSE [k \in 1 .. Len(Head(queue).data) |-> Garbage]
  /\ sts' = sts \cup {"done"}
  /\ UNCHANGED <<sem, driver, result, pc, call, pl, enabled, irq, doneSet, ghost>>

\* A command ends with an error: some of the error bits are set, perhaps all.
DmaFails ==
  /\ queue # <<>> /\ faults < MaxFaults
  /\ queue' = Tail(queue)
  /\ \E f \in {"someErrors", "allErrors"} : sts' = sts \cup {"done", f}
  /\ unsure' = TRUE /\ faults' = faults + 1
  /\ UNCHANGED <<sem, driver, result, pc, call, pl, enabled, irq, doneSet, fabric,
                 base, toggled, used>>

\* The handler, on either CPU: the bits are read and cleared, ...
Interrupt ==
  /\ enabled /\ sts # {} /\ irq = None
  /\ irq' = sts /\ sts' = {}
  /\ UNCHANGED <<sem, driver, result, pc, call, pl, enabled, doneSet, pcap, ghost>>

\* ... dma_done is set, ...
NoteDone ==
  /\ irq # None /\ ~doneSet
  /\ doneSet' = TRUE
  /\ dmaDone' = (dmaDone \/ "done" \in irq)
  /\ UNCHANGED <<sem, driver, errStatus, pc, call, pl, sts, enabled, irq, pcap, ghost>>

\* ... and then error_status, if every error bit is set.
NoteError ==
  /\ irq # None /\ doneSet
  /\ irq' = None /\ doneSet' = FALSE
  /\ errStatus' = (errStatus \/ "allErrors" \in irq)
  /\ UNCHANGED <<sem, driver, dmaDone, pc, call, pl, sts, enabled, pcap, ghost>>
-----------------------------------------------------------------------------
\* The steps of a system call that has begun.
Inside(p) ==
  \/ ResetPl(p) \/ Released(p)
  \/ WriteRefused(p) \/ Gather(p) \/ Arm(p) \/ Start(p) \/ WriteDone(p)
  \/ ReadStart(p) \/ ReadDone(p) \/ Timeout(p)

Handler == Interrupt \/ NoteDone \/ NoteError

Next ==
  \/ \E p \in Procs : Open(p) \/ Write(p) \/ Read(p) \/ Release(p) \/ Inside(p)
  \/ SetPartial \/ DmaEnds \/ DmaFails \/ Handler

Spec == Init /\ [][Next]_vars

\* System calls that have begun and interrupts run on; for an open this takes a PL
\* that answers the polls of PCFG_INIT (ResetPl).  A DMA need not end: then
\* the clock does, as long as the bound on faults lets it, and beyond the bound
\* the engine is taken to end its commands.
Fairness ==
  /\ \A p \in Procs : WF_vars(Inside(p))
  /\ WF_vars(Handler) /\ WF_vars(DmaEnds)

LiveSpec == Spec /\ Fairness
-----------------------------------------------------------------------------
TypeOK ==
  /\ sem \in Procs \cup {None}
  /\ isOpen \in BOOLEAN /\ partial \in BOOLEAN
  /\ dmaDone \in BOOLEAN /\ errStatus \in BOOLEAN
  /\ pc \in [Procs -> {"closed", "reset", "open", "release", "gather", "arm", "start",
                       "spin", "readArm", "readSpin"}]
  /\ ppos \in Nat /\ count \in Nat /\ base \in Nat /\ faults \in Nat
  /\ residue \in Seq(Int) /\ data \in Seq(Int) /\ fabric \in Seq(Int)
  /\ queue \in Seq([data : Seq(Int), held : BOOLEAN])
  /\ shifters \in BOOLEAN /\ pr \in BOOLEAN
  /\ sts \subseteq {"done", "someErrors", "allErrors"}
  /\ irq \in (SUBSET {"done", "someErrors", "allErrors"}) \cup {None}
  /\ enabled \in BOOLEAN /\ doneSet \in BOOLEAN
  /\ unsure \in BOOLEAN /\ toggled \in BOOLEAN /\ used \in BOOLEAN

\* However a file is cut into writes, and although calls are refused and repeated,
\* the PCAP has taken the file's bytes from the sync word on in order, in whole
\* words, each once, and the driver holds back only what does not fill a word; until
\* a DMA fails or is given up.
StreamExact ==
  sem = None /\ isOpen /\ ~unsure =>
    /\ fabric \o residue = Run(base, ppos)
    /\ Len(fabric) % Word = 0 /\ Len(residue) < Word

\* No buffer is freed under a DMA, except by a call that gave up waiting.
BufferHeld == unsure \/ \A k \in 1 .. Len(queue) : queue[k].held

\* The PL is isolated while a full bitstream is downloaded, connected when nobody has
\* the device open, and in partial mode exactly during partial downloads, unless the
\* attribute is changed while the device is open.
Isolation ==
  toggled
  \/ /\ (\E p \in Procs : pc[p] \notin {"closed", "release"}) =>
          pr = partial /\ (~partial => ~shifters)
     /\ (\A p \in Procs : pc[p] = "closed") => ~pr /\ (used => shifters)

\* Every system call returns and gives the mutex back, however a DMA ends or does not,
\* provided the PL answers the unlimited polls of an open (Fairness).
CallsReturn ==
  \A p \in Procs :
    /\ (pc[p] \notin {"closed", "open"}) ~> (pc[p] \in {"closed", "open"})
    /\ (sem = p) ~> (sem # p)
=============================================================================
