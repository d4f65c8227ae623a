----------------------------- MODULE DevCfgProofs -----------------------------
(***************************************************************************)
(* Proofs about DevCfg for any number of programs, any word, header and    *)
(* file size and any way of cutting the file into writes.                  *)
(***************************************************************************)
EXTENDS DevCfg, SequenceTheorems, TLAPS

\* The steps taken under the driver's mutex.
Locked == {"reset", "gather", "arm", "start", "spin", "readArm", "readSpin"}

PcSteps == Locked \cup {"closed", "open", "release"}
\* The mutex, and the open gate: at most one program has the device.
Exclusive ==
  /\ \A p \in Procs : pc[p] \in Locked => sem = p
  /\ sem # None => pc[sem] \in Locked
  /\ \A p \in Procs : pc[p] # "closed" => isOpen
  /\ \A p, q \in Procs : pc[p] # "closed" /\ pc[q] # "closed" => p = q

\* Isolation, with what a partial download inherits and release establishes.
Isolated ==
  toggled
  \/ /\ (\E p \in Procs : pc[p] \notin {"closed", "release"}) =>
          pr = partial /\ (~partial => ~shifters) /\ (partial /\ used => shifters)
     /\ (\A p \in Procs : pc[p] \in {"closed", "release"}) => ~pr /\ (used => shifters)

\* Where the program that holds the mutex is.
Phase == IF sem = None THEN "none" ELSE pc[sem]

\* No byte of the present download has been written.
Fresh == \A p \in Procs : pc[p] \in {"closed", "reset"}

\* What the variables hold outside the calls that use them.
Locals ==
  /\ irq = None => ~doneSet
  /\ Fresh => ppos = 0 /\ base = 0
  /\ Phase = "reset" => residue = <<>>
  /\ Phase \notin {"arm", "start"} => data = <<>>
  /\ Phase \notin {"gather", "arm", "start", "spin"} => count = 0

\* The handler is not running, or has done all but return.
HandlerIdle == (irq = None /\ ~doneSet) \/ (irq = {"done"} /\ doneSet)

\* Between two transfers.
Rest == queue = <<>> /\ sts = {} /\ HandlerIdle

\* During a transfer: it runs, has ended, is being noted, or has been.
Transfer ==
  \/ Len(queue) = 1 /\ queue[1].held /\ sts = {} /\ HandlerIdle /\ ~dmaDone
  \/ queue = <<>> /\ sts = {"done"} /\ HandlerIdle /\ ~dmaDone
  \/ queue = <<>> /\ sts = {} /\ irq = {"done"} /\ ~doneSet /\ ~dmaDone
  \/ Rest /\ dmaDone

\* As long as no DMA has failed or been given up, at most one runs, its buffer is
\* there, and the interrupt of no other one is under way.
Quiet ==
  ~unsure =>
    /\ Fresh => fabric = <<>>
    /\ Phase \in {"spin", "readSpin"} => Transfer /\ ~errStatus
    /\ Phase \notin {"spin", "readSpin"} => Rest
    /\ Phase = "readArm" => ~dmaDone /\ ~errStatus

\* The words that a write has prepared or handed to the engine.
Sending == IF queue = <<>> THEN data ELSE queue[1].data

\* The position that the download has got to, or will have once the write returns.
Target == IF Phase \in {"arm", "start", "spin"} THEN ppos + count ELSE ppos

\* What the PCAP has, what is on its way and what is put aside make up the file.
Fits ==
  isOpen /\ ~unsure =>
    /\ (fabric \o Sending) \o residue = Run(base, Target) /\ base <= Target
    /\ Len(fabric) % Word = 0 /\ Len(Sending) % Word = 0 /\ Len(residue) < Word

IInv == TypeOK /\ Exclusive /\ Isolated /\ Locals /\ Quiet /\ Fits
-----------------------------------------------------------------------------
(* The sequences. *)

LEMMA RunSeq ==
  ASSUME NEW a \in Int, NEW b \in Int, a <= b
  PROVE  /\ Run(a, b) \in Seq(Int) /\ Len(Run(a, b)) = b - a
         /\ \A k \in 1 .. b - a : Run(a, b)[k] = a + k
<1>1. Run(a, b) \in [1 .. b - a -> Int]  BY DEF Run
<1>. QED BY <1>1 DEF Run

LEMMA RunConcat ==
  ASSUME NEW a \in Int, NEW b \in Int, NEW c \in Int, a <= b, b <= c
  PROVE  Run(a, b) \o Run(b, c) = Run(a, c)
<1>1. PICK s : s = Run(a, b)  OBVIOUS
<1>2. PICK t : t = Run(b, c)  OBVIOUS
<1>3. PICK u : u = Run(a, c)  OBVIOUS
<1>4. /\ s \in Seq(Int) /\ Len(s) = b - a /\ \A k \in 1 .. b - a : s[k] = a + k
  BY <1>1, RunSeq
<1>5. /\ t \in Seq(Int) /\ Len(t) = c - b /\ \A k \in 1 .. c - b : t[k] = b + k
  BY <1>2, RunSeq
<1>6. /\ u \in Seq(Int) /\ Len(u) = c - a /\ \A k \in 1 .. c - a : u[k] = a + k
  <2>1. a <= c  OBVIOUS
  <2>. QED BY <1>3, <2>1, RunSeq
<1>7. /\ s \o t \in Seq(Int)
      /\ Len(s \o t) = Len(s) + Len(t)
      /\ \A i \in 1 .. Len(s) + Len(t) : (s \o t)[i] =
                     IF i <= Len(s) THEN s[i] ELSE t[i - Len(s)]
  BY <1>4, <1>5, ConcatProperties
<1>8. Len(s \o t) = Len(u)  BY <1>4, <1>5, <1>6, <1>7
<1>9. \A k \in 1 .. Len(s \o t) : (s \o t)[k] = u[k]
  <2>. TAKE k \in 1 .. Len(s \o t)
  <2>1. k \in 1 .. c - a  BY <1>6, <1>8
  <2>2. CASE k <= b - a  BY <1>4, <1>5, <1>6, <1>7, <2>1, <2>2
  <2>3. CASE ~(k <= b - a)
    <3>1. k - (b - a) \in 1 .. c - b  BY <2>1, <2>3
    <3>2. (s \o t)[k] = t[k - (b - a)]  BY <1>4, <1>5, <1>7, <2>1, <2>3
    <3>. QED BY <1>5, <1>6, <2>1, <3>1, <3>2
  <2>. QED BY <2>2, <2>3
<1>10. s \o t = u  BY <1>6, <1>7, <1>8, <1>9, SeqEqual
<1>. QED BY <1>1, <1>2, <1>3, <1>10

\* A sequence cut in two.
LEMMA Cut ==
  ASSUME NEW s \in Seq(Int), NEW n \in 0 .. Len(s)
  PROVE  /\ SubSeq(s, 1, n) \in Seq(Int) /\ Len(SubSeq(s, 1, n)) = n
         /\ Drop(s, n) \in Seq(Int) /\ Len(Drop(s, n)) = Len(s) - n
         /\ \A k \in 1 .. Len(s) - n : Drop(s, n)[k] = s[n + k]
         /\ SubSeq(s, 1, n) \o Drop(s, n) = s
<1>0. Len(s) \in Nat /\ \A i \in 1 .. Len(s) : s[i] \in Int  BY LenProperties, ElementOfSeq
<1>1. SubSeq(s, 1, n) \in Seq(Int) /\ Len(SubSeq(s, 1, n)) = n
  <2>1. \A i \in 1 .. n : s[i] \in Int  BY <1>0
  <2>. QED BY <2>1, SubSeqProperties
<1>2. Drop(s, n) \in Seq(Int) /\ Len(Drop(s, n)) = Len(s) - n
      /\ \A k \in 1 .. Len(s) - n : Drop(s, n)[k] = s[n + k]
  <2>1. \A i \in n + 1 .. Len(s) : s[i] \in Int  BY <1>0
  <2>2. n + 1 \in Int /\ Len(s) \in Int  BY <1>0
  <2>3. /\ SubSeq(s, n + 1, Len(s)) \in Seq(Int)
        /\ Len(SubSeq(s, n + 1, Len(s)))
             = IF n + 1 <= Len(s) THEN Len(s) - (n + 1) + 1 ELSE 0
        /\ \A i \in 1 .. Len(s) - (n + 1) + 1 :
             SubSeq(s, n + 1, Len(s))[i] = s[(n + 1) + i - 1]
    BY <2>1, <2>2, SubSeqProperties
  <2>. QED BY <1>0, <2>3 DEF Drop
<1>3. SubSeq(s, 1, n) \o SubSeq(s, n + 1, Len(s)) = SubSeq(s, 1, Len(s))
  <2>1. \A m \in 1 .. Len(s) + 1 : \A k \in m - 1 .. Len(s) : \A l \in k .. Len(s) :
          SubSeq(s, m, k) \o SubSeq(s, k + 1, l) = SubSeq(s, m, l)
    BY ConcatAdjacentSubSeq
  <2>2. 1 \in 1 .. Len(s) + 1 /\ n \in 1 - 1 .. Len(s) /\ Len(s) \in n .. Len(s)  BY <1>0
  <2>. QED BY <2>1, <2>2
<1>4. SubSeq(s, 1, Len(s)) = s  BY SubSeqFull
<1>. QED BY <1>1, <1>2, <1>3, <1>4 DEF Drop

\* A run without its first bytes is a run.
LEMMA RunDrop ==
  ASSUME NEW a \in Int, NEW b \in Int, NEW n \in 0 .. b - a
  PROVE  Drop(Run(a, b), n) = Run(a + n, b)
<1>1. PICK s : s = Run(a, b)  OBVIOUS
<1>2. PICK t : t = Run(a + n, b)  OBVIOUS
<1>3. s \in Seq(Int) /\ Len(s) = b - a /\ \A k \in 1 .. b - a : s[k] = a + k
  <2>1. a <= b  OBVIOUS
  <2>. QED BY <1>1, <2>1, RunSeq
<1>4. t \in Seq(Int) /\ Len(t) = b - (a + n)
      /\ \A k \in 1 .. b - (a + n) : t[k] = (a + n) + k
  <2>1. a + n \in Int /\ a + n <= b  OBVIOUS
  <2>. QED BY <1>2, <2>1, RunSeq
<1>5. n \in 0 .. Len(s)  BY <1>3
<1>6. Drop(s, n) \in Seq(Int) /\ Len(Drop(s, n)) = Len(s) - n
      /\ \A k \in 1 .. Len(s) - n : Drop(s, n)[k] = s[n + k]  BY <1>3, <1>5, Cut
<1>7. Len(Drop(s, n)) = Len(t)  BY <1>3, <1>4, <1>6
<1>8. \A k \in 1 .. Len(Drop(s, n)) : Drop(s, n)[k] = t[k]  BY <1>3, <1>4, <1>6, <1>7
<1>9. Drop(s, n) = t  BY <1>4, <1>6, <1>7, <1>8, SeqEqual
<1>. QED BY <1>1, <1>2, <1>9

\* What \div and % mean, and that a number of whole words has no remainder.
LEMMA Words ==
  ASSUME NEW w \in Nat \ {0}, NEW x \in Int
  PROVE  /\ x \div w \in Int /\ x % w \in 0 .. w - 1
         /\ x = w * (x \div w) + (x % w)
         /\ (w * x) % w = 0
<1>1. \A y \in Int : y \div w \in Int /\ y % w \in 0 .. w - 1 /\ y = w * (y \div w) + (y % w)
  OBVIOUS
<1>. DEFINE y == w * x  d == y \div w  m == y % w
<1>2. y \in Int  OBVIOUS
<1>3. d \in Int /\ m \in 0 .. w - 1 /\ y = w * d + m  BY <1>1, <1>2
<1>4. w * (x - d) = m  BY <1>3
<1>. DEFINE e == x - d
<1>5. e \in Int /\ w * e = m  BY <1>3, <1>4
<1>. HIDE DEF e, d, m
<1>6. e = 0
  <2>1. CASE e >= 1
    <3>1. w * e >= w  BY <1>5, <2>1
    <3>. QED BY <1>3, <1>5, <3>1
  <2>2. CASE e <= -1
    <3>1. w * e <= -w  BY <1>5, <2>2
    <3>. QED BY <1>3, <1>5, <3>1
  <2>. QED BY <1>5, <2>1, <2>2
<1>7. m = 0  BY <1>5, <1>6
<1>. QED BY <1>1, <1>7 DEF m

\* Cutting at a whole number of words.
LEMMA CutWords ==
  ASSUME DevCfgAssumption, NEW s \in Seq(Int)
  PROVE  /\ Whole(s) \in 0 .. Len(s) /\ Whole(s) % Word = 0
         /\ Len(s) - Whole(s) < Word
<1>. DEFINE n == Len(s)  q == n \div Word
<1>0. Word \in Nat \ {0} /\ n \in Nat  BY LenProperties DEF DevCfgAssumption
<1>. HIDE DEF n
<1>1. q \in Int /\ n % Word \in 0 .. Word - 1 /\ n = Word * q + (n % Word)
  BY <1>0, Words
<1>2. q >= 0
  <2>1. CASE q <= -1
    <3>1. Word * q <= -Word  BY <1>0, <1>1, <2>1
    <3>. QED BY <1>0, <1>1, <3>1
  <2>. QED BY <1>1, <2>1
<1>3. Word * q >= 0  BY <1>0, <1>1, <1>2
<1>4. (Word * q) % Word = 0  BY <1>0, <1>1, Words
<1>. QED BY <1>0, <1>1, <1>3, <1>4 DEF Whole, n
-----------------------------------------------------------------------------
(* Types. *)

LEMMA InitTypeOK == Init => TypeOK
<1>. SUFFICES ASSUME Init PROVE TypeOK  OBVIOUS
<1>1. pc \in [Procs -> PcSteps]  BY DEF Init, PcSteps, Locked
<1>2. /\ residue \in Seq(Int) /\ data \in Seq(Int) /\ fabric \in Seq(Int)
      /\ queue \in Seq([data : Seq(Int), held : BOOLEAN])
  BY DEF Init
<1>. QED BY <1>1, <1>2 DEF Init, TypeOK, PcSteps, Locked

\* What a write gathers, and what is left of it without the header.
LEMMA GatherSeq ==
  ASSUME DevCfgAssumption, TypeOK
  PROVE  /\ Run(ppos, ppos + count) \in Seq(Int) /\ Gathered \in Seq(Int)
         /\ HasSync(Gathered) => SyncPos(Gathered) \in 0 .. Len(Gathered) - Word - 1
         /\ Stripped(Gathered) \in Seq(Int)
<1>1. /\ ppos \in Int /\ ppos + count \in Int /\ ppos <= ppos + count
      /\ residue \in Seq(Int) /\ Word \in Nat
  BY DEF TypeOK, DevCfgAssumption
<1>2. Run(ppos, ppos + count) \in Seq(Int)  BY <1>1, RunSeq
<1>3. PICK g : g = Gathered  OBVIOUS
<1>4. g \in Seq(Int)  BY <1>1, <1>2, <1>3, ConcatProperties DEF Gathered
<1>5. HasSync(g) => SyncPos(g) \in 0 .. Len(g) - Word - 1  BY DEF HasSync, SyncPos
<1>6. HasSync(g) => SyncPos(g) \in 0 .. Len(g)
  <2>1. Len(g) \in Nat  BY <1>4, LenProperties
  <2>. QED BY <1>1, <1>5, <2>1
<1>7. HasSync(g) => Drop(g, SyncPos(g)) \in Seq(Int)  BY <1>4, <1>6, Cut
<1>. QED BY <1>2, <1>3, <1>4, <1>5, <1>7 DEF Stripped

LEMMA GatherType ==
  ASSUME DevCfgAssumption, TypeOK, NEW p \in Procs, Gather(p)
  PROVE  data' \in Seq(Int) /\ residue' \in Seq(Int) /\ base' \in Nat
<1>1. PICK s : s = Stripped(Gathered)  OBVIOUS
<1>2. s \in Seq(Int) /\ Whole(s) \in 0 .. Len(s)  BY <1>1, GatherSeq, CutWords
<1>3. SubSeq(s, 1, Whole(s)) \in Seq(Int) /\ Drop(s, Whole(s)) \in Seq(Int)
  BY <1>2, Cut
<1>4. base' \in Nat
  <2>1. HasSync(Gathered) => SyncPos(Gathered) \in Nat
    <3>1. Len(Gathered) \in Nat /\ Word \in Nat
      BY GatherSeq, LenProperties DEF DevCfgAssumption
    <3>. QED BY <3>1, GatherSeq
  <2>. QED BY <2>1 DEF Gather, TypeOK
<1>. QED BY <1>1, <1>3, <1>4 DEF Gather

\* The queue, when a command is added and when the first one ends.
LEMMA QueueType ==
  ASSUME TypeOK
  PROVE  /\ Freed \in Seq([data : Seq(Int), held : BOOLEAN]) /\ Len(Freed) = Len(queue)
         /\ \A d \in Seq(Int) : /\ Append(queue, [data |-> d, held |-> TRUE])
                                     \in Seq([data : Seq(Int), held : BOOLEAN])
         /\ queue # <<>> => /\ Tail(queue) \in Seq([data : Seq(Int), held : BOOLEAN])
                            /\ Head(queue) \in [data : Seq(Int), held : BOOLEAN]
<1>1. PICK S : S = [data : Seq(Int), held : BOOLEAN]  OBVIOUS
<1>2. queue \in Seq(S) /\ Len(queue) \in Nat /\ \A k \in 1 .. Len(queue) : queue[k] \in S
  BY <1>1, LenProperties, ElementOfSeq DEF TypeOK
<1>3. \A k \in 1 .. Len(queue) : [queue[k] EXCEPT !.held = FALSE] \in S  BY <1>1, <1>2
<1>4. Freed \in [1 .. Len(queue) -> S]  BY <1>3 DEF Freed
<1>5. Freed \in Seq(S) /\ Len(Freed) = Len(queue)  BY <1>2, <1>4
<1>6. \A d \in Seq(Int) : Append(queue, [data |-> d, held |-> TRUE]) \in Seq(S)
  <2>. TAKE d \in Seq(Int)
  <2>1. [data |-> d, held |-> TRUE] \in S  BY <1>1
  <2>. QED BY <1>2, <2>1
<1>7. queue # <<>> => Tail(queue) \in Seq(S) /\ Head(queue) \in S
  BY <1>2, HeadTailProperties
<1>. QED BY <1>1, <1>5, <1>6, <1>7

LEMMA PcType ==
  ASSUME TypeOK, NEW p \in Procs, NEW a, NEW b \in PcSteps, Goto(p, a, b)
  PROVE  pc' \in [Procs -> PcSteps]
BY DEF TypeOK, Goto, PcSteps, Locked

LEMMA TypeStep == DevCfgAssumption /\ TypeOK /\ [Next]_vars => TypeOK'
<1>. SUFFICES ASSUME DevCfgAssumption, TypeOK, [Next]_vars PROVE TypeOK'  OBVIOUS
<1>. USE DEF vars, driver, result, call, pl, intr, pcap, ghost
<1>0. <<>> \in Seq(Int)  OBVIOUS
<1>1. ASSUME NEW p \in Procs, Open(p) PROVE TypeOK'
  BY <1>0, <1>1 DEF TypeOK, Open, Goto
<1>2. ASSUME NEW p \in Procs, ResetPl(p) PROVE TypeOK'
  BY <1>0, <1>2 DEF TypeOK, ResetPl, Goto
<1>3. ASSUME NEW p \in Procs, Release(p) PROVE TypeOK'
  <2>1. shifters' \in BOOLEAN /\ pr' \in BOOLEAN /\ used' \in BOOLEAN
    BY <1>3 DEF TypeOK, Release
  <2>2. pc' \in [Procs -> PcSteps]  BY <1>3 DEF TypeOK, Release, Goto, PcSteps, Locked
  <2>. QED BY <1>3, <2>1, <2>2 DEF TypeOK, Release, PcSteps, Locked
<1>4. ASSUME NEW p \in Procs, Released(p) PROVE TypeOK'
  <2>1. pc' \in [Procs -> PcSteps]  BY <1>4 DEF TypeOK, Released, Goto, PcSteps, Locked
  <2>2. ppos' \in Nat /\ base' \in Nat /\ fabric' \in Seq(Int)
    BY <1>0, <1>4 DEF Released
  <2>3. /\ isOpen' \in BOOLEAN
        /\ UNCHANGED <<sem, partial, residue, dmaDone, errStatus, count, data, shifters, pr,
                       sts, enabled, irq, doneSet, queue, unsure, toggled, used, faults>>
    BY <1>4 DEF Released
  <2>. HIDE DEF vars, driver, result, call, pl, intr, pcap, ghost
  <2>. QED BY <2>1, <2>2, <2>3 DEF TypeOK, PcSteps, Locked
<1>5. ASSUME NEW p \in Procs, Write(p) PROVE TypeOK'
  BY <1>5 DEF TypeOK, Write, DevCfgAssumption
<1>6. ASSUME NEW p \in Procs, WriteRefused(p) PROVE TypeOK'
  BY <1>6 DEF TypeOK, WriteRefused, Goto
<1>7. ASSUME NEW p \in Procs, Gather(p) PROVE TypeOK'
  <2>1. data' \in Seq(Int) /\ residue' \in Seq(Int) /\ base' \in Nat  BY <1>7, GatherType
  <2>. QED BY <1>7, <2>1 DEF TypeOK, Gather, Goto
<1>8. ASSUME NEW p \in Procs, Arm(p) PROVE TypeOK'
  BY <1>8 DEF TypeOK, Arm, Goto
<1>9. ASSUME NEW p \in Procs, Start(p) PROVE TypeOK'
  <2>1. queue' \in Seq([data : Seq(Int), held : BOOLEAN])
    BY <1>9, QueueType DEF Start, TypeOK
  <2>. QED BY <1>0, <1>9, <2>1 DEF TypeOK, Start, Goto
<1>10. ASSUME NEW p \in Procs, WriteDone(p) PROVE TypeOK'
  <2>1. queue' \in Seq([data : Seq(Int), held : BOOLEAN])
    BY <1>10, QueueType DEF WriteDone
  <2>2. ppos' \in Nat /\ count' \in Nat  BY <1>10 DEF WriteDone, TypeOK
  <2>. QED BY <1>10, <2>1, <2>2 DEF TypeOK, WriteDone, Goto
<1>11. ASSUME NEW p \in Procs, Timeout(p) PROVE TypeOK'
  <2>1. queue' \in Seq([data : Seq(Int), held : BOOLEAN])
    BY <1>11, QueueType DEF Timeout
  <2>. QED BY <1>11, <2>1 DEF TypeOK, Timeout
<1>12. ASSUME NEW p \in Procs, Read(p) PROVE TypeOK'
  BY <1>12 DEF TypeOK, Read, Goto
<1>13. ASSUME NEW p \in Procs, ReadStart(p) PROVE TypeOK'
  <2>1. queue' \in Seq([data : Seq(Int), held : BOOLEAN])
    BY <1>0, <1>13, QueueType DEF ReadStart
  <2>. QED BY <1>13, <2>1 DEF TypeOK, ReadStart, Goto
<1>14. ASSUME NEW p \in Procs, ReadDone(p) PROVE TypeOK'
  <2>1. queue' \in Seq([data : Seq(Int), held : BOOLEAN])
    BY <1>14, QueueType DEF ReadDone
  <2>. QED BY <1>14, <2>1 DEF TypeOK, ReadDone, Goto
<1>15. CASE SetPartial  BY <1>15 DEF TypeOK, SetPartial
<1>16. CASE DmaEnds
  <2>1. PICK h \in [data : Seq(Int), held : BOOLEAN] : h = Head(queue)
    BY <1>16, QueueType DEF DmaEnds
  <2>2. h.data \in Seq(Int)  BY <2>1
  <2>3. [k \in 1 .. Len(h.data) |-> Garbage] \in Seq(Int)
    <3>1. Len(h.data) \in Nat  BY <2>2, LenProperties
    <3>2. -1 \in Int  OBVIOUS
    <3>. QED BY <3>1, <3>2 DEF Garbage
  <2>4. PICK d \in Seq(Int) : d = IF h.held THEN h.data
                                  ELSE [k \in 1 .. Len(h.data) |-> Garbage]
    BY <2>2, <2>3
  <2>5. fabric' = fabric \o d  BY <1>16, <2>1, <2>4 DEF DmaEnds
  <2>6. fabric' \in Seq(Int)  BY <2>4, <2>5, ConcatProperties DEF TypeOK
  <2>7. queue' \in Seq([data : Seq(Int), held : BOOLEAN])
    BY <1>16, QueueType DEF DmaEnds
  <2>. QED BY <1>16, <2>6, <2>7 DEF TypeOK, DmaEnds
<1>17. CASE DmaFails
  <2>1. queue' \in Seq([data : Seq(Int), held : BOOLEAN])
    BY <1>17, QueueType DEF DmaFails
  <2>. QED BY <1>17, <2>1 DEF TypeOK, DmaFails
<1>18. CASE Interrupt  BY <1>18 DEF TypeOK, Interrupt
<1>19. CASE NoteDone  BY <1>19 DEF TypeOK, NoteDone
<1>20. CASE NoteError  BY <1>20 DEF TypeOK, NoteError
<1>21. CASE UNCHANGED vars  BY <1>21 DEF TypeOK
<1>. QED BY <1>1, <1>2, <1>3, <1>4, <1>5, <1>6, <1>7, <1>8, <1>9, <1>10, <1>11, <1>12, <1>13,
            <1>14, <1>15, <1>16, <1>17, <1>18, <1>19, <1>20, <1>21 DEF Next, Inside, Handler

-----------------------------------------------------------------------------
(* The mutex, the open gate and the isolation of the PL. *)

\* The program that is in a call has the mutex, and the device.
LEMMA Owner ==
  ASSUME Exclusive, DevCfgAssumption, NEW p \in Procs
  PROVE  /\ pc[p] \in Locked => sem = p /\ Phase = pc[p]
         /\ pc[p] # "closed" => isOpen /\ \A q \in Procs : q # p => pc[q] = "closed"
BY DEF Exclusive, Phase, DevCfgAssumption, Locked

LEMMA ExclusiveStep == DevCfgAssumption /\ TypeOK /\ Exclusive /\ [Next]_vars => Exclusive'
<1>. SUFFICES ASSUME DevCfgAssumption, TypeOK, Exclusive, [Next]_vars PROVE Exclusive'  OBVIOUS
<1>. USE DEF vars, driver, result, call, pl, intr, pcap, ghost
<1>1. ASSUME NEW p \in Procs, Open(p) PROVE Exclusive'
  BY <1>1 DEF DevCfgAssumption, TypeOK, Exclusive, Locked, Open, Goto
<1>2. ASSUME NEW p \in Procs, ResetPl(p) PROVE Exclusive'
  BY <1>2 DEF DevCfgAssumption, TypeOK, Exclusive, Locked, ResetPl, Goto
<1>3. ASSUME NEW p \in Procs, Release(p) PROVE Exclusive'
  BY <1>3 DEF DevCfgAssumption, TypeOK, Exclusive, Locked, Release, Goto
<1>4. ASSUME NEW p \in Procs, Released(p) PROVE Exclusive'
  BY <1>4 DEF DevCfgAssumption, TypeOK, Exclusive, Locked, Released, Goto
<1>5. ASSUME NEW p \in Procs, Write(p) PROVE Exclusive'
  BY <1>5 DEF DevCfgAssumption, TypeOK, Exclusive, Locked, Write, Goto
<1>6. ASSUME NEW p \in Procs, WriteRefused(p) PROVE Exclusive'
  BY <1>6 DEF DevCfgAssumption, TypeOK, Exclusive, Locked, WriteRefused, Goto
<1>7. ASSUME NEW p \in Procs, Gather(p) PROVE Exclusive'
  BY <1>7 DEF DevCfgAssumption, TypeOK, Exclusive, Locked, Gather, Goto
<1>8. ASSUME NEW p \in Procs, Arm(p) PROVE Exclusive'
  BY <1>8 DEF DevCfgAssumption, TypeOK, Exclusive, Locked, Arm, Goto
<1>9. ASSUME NEW p \in Procs, Start(p) PROVE Exclusive'
  BY <1>9 DEF DevCfgAssumption, TypeOK, Exclusive, Locked, Start, Goto
<1>10. ASSUME NEW p \in Procs, WriteDone(p) PROVE Exclusive'
  BY <1>10 DEF DevCfgAssumption, TypeOK, Exclusive, Locked, WriteDone, Goto
<1>11. ASSUME NEW p \in Procs, Timeout(p) PROVE Exclusive'
  BY <1>11 DEF DevCfgAssumption, TypeOK, Exclusive, Locked, Timeout, Goto
<1>12. ASSUME NEW p \in Procs, Read(p) PROVE Exclusive'
  BY <1>12 DEF DevCfgAssumption, TypeOK, Exclusive, Locked, Read, Goto
<1>13. ASSUME NEW p \in Procs, ReadStart(p) PROVE Exclusive'
  BY <1>13 DEF DevCfgAssumption, TypeOK, Exclusive, Locked, ReadStart, Goto
<1>14. ASSUME NEW p \in Procs, ReadDone(p) PROVE Exclusive'
  BY <1>14 DEF DevCfgAssumption, TypeOK, Exclusive, Locked, ReadDone, Goto
<1>15. CASE SetPartial  BY <1>15 DEF DevCfgAssumption, TypeOK, Exclusive, Locked, SetPartial
<1>16. CASE DmaEnds  BY <1>16 DEF DevCfgAssumption, TypeOK, Exclusive, Locked, DmaEnds
<1>17. CASE DmaFails  BY <1>17 DEF DevCfgAssumption, TypeOK, Exclusive, Locked, DmaFails
<1>18. CASE Interrupt  BY <1>18 DEF DevCfgAssumption, TypeOK, Exclusive, Locked, Interrupt
<1>19. CASE NoteDone  BY <1>19 DEF DevCfgAssumption, TypeOK, Exclusive, Locked, NoteDone
<1>20. CASE NoteError  BY <1>20 DEF DevCfgAssumption, TypeOK, Exclusive, Locked, NoteError
<1>21. CASE UNCHANGED vars  BY <1>21 DEF DevCfgAssumption, TypeOK, Exclusive, Locked
<1>. QED BY <1>1, <1>2, <1>3, <1>4, <1>5, <1>6, <1>7, <1>8, <1>9, <1>10, <1>11, <1>12,
            <1>13, <1>14, <1>15, <1>16, <1>17, <1>18, <1>19, <1>20, <1>21 DEF Next, Inside, Handler

LEMMA IsolatedStep == TypeOK /\ Exclusive /\ Isolated /\ [Next]_vars => Isolated'
<1>. SUFFICES ASSUME TypeOK, Exclusive, Isolated, [Next]_vars PROVE Isolated'  OBVIOUS
<1>. USE DEF vars, driver, result, call, pl, intr, pcap, ghost
<1>1. ASSUME NEW p \in Procs, Open(p) PROVE Isolated'
  <2>1. \A q \in Procs : pc[q] = "closed"  BY <1>1 DEF Open, Exclusive
  <2>2. toggled \/ (~pr /\ (used => shifters))  BY <2>1 DEF Isolated
  <2>3. toggled' = toggled /\ used' = used /\ partial' = partial  BY <1>1 DEF Open
  <2>4. pc'[p] = "reset"  BY <1>1 DEF Open, Goto, TypeOK
  <2>5. CASE partial
    <3>1. pr' = TRUE /\ shifters' = shifters  BY <1>1, <2>5 DEF Open
    <3>. QED BY <2>2, <2>3, <2>4, <2>5, <3>1 DEF Isolated
  <2>6. CASE ~partial
    <3>1. shifters' = FALSE /\ pr' = pr  BY <1>1, <2>6 DEF Open
    <3>2. ~partial' /\ ~shifters' /\ (~toggled => ~pr')  BY <2>2, <2>3, <2>6, <3>1
    <3>3. pr' \in BOOLEAN /\ partial' \in BOOLEAN  BY <2>3, <3>1 DEF TypeOK
    <3>4. ~toggled => pr' = partial'  BY <3>2, <3>3
    <3>. QED BY <2>3, <2>4, <3>2, <3>4 DEF Isolated
  <2>. QED BY <2>5, <2>6
<1>2. ASSUME NEW p \in Procs, ResetPl(p) PROVE Isolated'
  BY <1>2 DEF TypeOK, Exclusive, Isolated, ResetPl, Goto
<1>3. ASSUME NEW p \in Procs, Release(p) PROVE Isolated'
  BY <1>3 DEF TypeOK, Exclusive, Isolated, Release, Goto
<1>4. ASSUME NEW p \in Procs, Released(p) PROVE Isolated'
  BY <1>4 DEF TypeOK, Exclusive, Isolated, Released, Goto
<1>5. ASSUME NEW p \in Procs, Write(p) PROVE Isolated'
  BY <1>5 DEF TypeOK, Exclusive, Isolated, Write, Goto
<1>6. ASSUME NEW p \in Procs, WriteRefused(p) PROVE Isolated'
  BY <1>6 DEF TypeOK, Exclusive, Isolated, WriteRefused, Goto
<1>7. ASSUME NEW p \in Procs, Gather(p) PROVE Isolated'
  BY <1>7 DEF TypeOK, Exclusive, Isolated, Gather, Goto
<1>8. ASSUME NEW p \in Procs, Arm(p) PROVE Isolated'
  BY <1>8 DEF TypeOK, Exclusive, Isolated, Arm, Goto
<1>9. ASSUME NEW p \in Procs, Start(p) PROVE Isolated'
  BY <1>9 DEF TypeOK, Exclusive, Isolated, Start, Goto
<1>10. ASSUME NEW p \in Procs, WriteDone(p) PROVE Isolated'
  BY <1>10 DEF TypeOK, Exclusive, Isolated, WriteDone, Goto
<1>11. ASSUME NEW p \in Procs, Timeout(p) PROVE Isolated'
  BY <1>11 DEF TypeOK, Exclusive, Isolated, Timeout, Goto
<1>12. ASSUME NEW p \in Procs, Read(p) PROVE Isolated'
  BY <1>12 DEF TypeOK, Exclusive, Isolated, Read, Goto
<1>13. ASSUME NEW p \in Procs, ReadStart(p) PROVE Isolated'
  BY <1>13 DEF TypeOK, Exclusive, Isolated, ReadStart, Goto
<1>14. ASSUME NEW p \in Procs, ReadDone(p) PROVE Isolated'
  BY <1>14 DEF TypeOK, Exclusive, Isolated, ReadDone, Goto
<1>15. CASE SetPartial  BY <1>15 DEF TypeOK, Exclusive, Isolated, SetPartial
<1>16. CASE DmaEnds  BY <1>16 DEF TypeOK, Exclusive, Isolated, DmaEnds
<1>17. CASE DmaFails  BY <1>17 DEF TypeOK, Exclusive, Isolated, DmaFails
<1>18. CASE Interrupt  BY <1>18 DEF TypeOK, Exclusive, Isolated, Interrupt
<1>19. CASE NoteDone  BY <1>19 DEF TypeOK, Exclusive, Isolated, NoteDone
<1>20. CASE NoteError  BY <1>20 DEF TypeOK, Exclusive, Isolated, NoteError
<1>21. CASE UNCHANGED vars  BY <1>21 DEF TypeOK, Exclusive, Isolated
<1>. QED BY <1>1, <1>2, <1>3, <1>4, <1>5, <1>6, <1>7, <1>8, <1>9, <1>10, <1>11, <1>12,
            <1>13, <1>14, <1>15, <1>16, <1>17, <1>18, <1>19, <1>20, <1>21 DEF Next, Inside, Handler

\* How each step moves the program that has the mutex, and whether the download is fresh.
LEMMA Moves ==
  ASSUME DevCfgAssumption, TypeOK, Exclusive, NEW p \in Procs
  PROVE  /\ Open(p) => Phase = "none" /\ Phase' = "reset" /\ Fresh /\ Fresh'
         /\ ResetPl(p) => Phase = "reset" /\ Phase' = "none" /\ Fresh /\ ~Fresh'
         /\ Release(p) => Phase = "none" /\ Phase' = "none" /\ ~Fresh /\ ~Fresh'
         /\ Released(p) => Phase = "none" /\ Phase' = "none" /\ ~Fresh /\ Fresh'
         /\ Write(p) => Phase = "none" /\ Phase' = "gather" /\ ~Fresh /\ ~Fresh'
         /\ WriteRefused(p) => Phase = "gather" /\ Phase' = "none" /\ ~Fresh /\ ~Fresh'
         /\ Gather(p) => Phase = "gather" /\ Phase' = "arm" /\ ~Fresh /\ ~Fresh'
         /\ Arm(p) => Phase = "arm" /\ Phase' = "start" /\ ~Fresh /\ ~Fresh'
         /\ Start(p) => Phase = "start" /\ Phase' = "spin" /\ ~Fresh /\ ~Fresh'
         /\ WriteDone(p) => Phase = "spin" /\ Phase' = "none" /\ ~Fresh /\ ~Fresh'
         /\ Timeout(p) => Phase \in {"spin", "readSpin"} /\ Phase' = "none" /\ ~Fresh /\ ~Fresh'
         /\ Read(p) => Phase = "none" /\ Phase' = "readArm" /\ ~Fresh /\ ~Fresh'
         /\ ReadStart(p) => Phase = "readArm" /\ Phase' = "readSpin" /\ ~Fresh /\ ~Fresh'
         /\ ReadDone(p) => Phase = "readSpin" /\ Phase' = "none" /\ ~Fresh /\ ~Fresh'
<1>. USE DEF vars, driver, result, call, pl, intr, pcap, ghost
<1>1. ASSUME Open(p) PROVE Phase = "none" /\ Phase' = "reset" /\ Fresh /\ Fresh'
  BY <1>1 DEF Open, Goto, Phase, Fresh, Exclusive, Locked, TypeOK, DevCfgAssumption
<1>2. ASSUME ResetPl(p) PROVE Phase = "reset" /\ Phase' = "none" /\ Fresh /\ ~Fresh'
  BY <1>2 DEF ResetPl, Goto, Phase, Fresh, Exclusive, Locked, TypeOK, DevCfgAssumption
<1>3. ASSUME Release(p) PROVE Phase = "none" /\ Phase' = "none" /\ ~Fresh /\ ~Fresh'
  BY <1>3 DEF Release, Goto, Phase, Fresh, Exclusive, Locked, TypeOK, DevCfgAssumption
<1>4. ASSUME Released(p) PROVE Phase = "none" /\ Phase' = "none" /\ ~Fresh /\ Fresh'
  BY <1>4 DEF Released, Goto, Phase, Fresh, Exclusive, Locked, TypeOK, DevCfgAssumption
<1>5. ASSUME Write(p) PROVE Phase = "none" /\ Phase' = "gather" /\ ~Fresh /\ ~Fresh'
  BY <1>5 DEF Write, Goto, Phase, Fresh, Exclusive, Locked, TypeOK, DevCfgAssumption
<1>6. ASSUME WriteRefused(p) PROVE Phase = "gather" /\ Phase' = "none" /\ ~Fresh /\ ~Fresh'
  BY <1>6 DEF WriteRefused, Goto, Phase, Fresh, Exclusive, Locked, TypeOK, DevCfgAssumption
<1>7. ASSUME Gather(p) PROVE Phase = "gather" /\ Phase' = "arm" /\ ~Fresh /\ ~Fresh'
  BY <1>7 DEF Gather, Goto, Phase, Fresh, Exclusive, Locked, TypeOK, DevCfgAssumption
<1>8. ASSUME Arm(p) PROVE Phase = "arm" /\ Phase' = "start" /\ ~Fresh /\ ~Fresh'
  BY <1>8 DEF Arm, Goto, Phase, Fresh, Exclusive, Locked, TypeOK, DevCfgAssumption
<1>9. ASSUME Start(p) PROVE Phase = "start" /\ Phase' = "spin" /\ ~Fresh /\ ~Fresh'
  BY <1>9 DEF Start, Goto, Phase, Fresh, Exclusive, Locked, TypeOK, DevCfgAssumption
<1>10. ASSUME WriteDone(p) PROVE Phase = "spin" /\ Phase' = "none" /\ ~Fresh /\ ~Fresh'
  BY <1>10 DEF WriteDone, Goto, Phase, Fresh, Exclusive, Locked, TypeOK, DevCfgAssumption
<1>11. ASSUME Timeout(p) PROVE Phase \in {"spin", "readSpin"} /\ Phase' = "none" /\ ~Fresh /\ ~Fresh'
  BY <1>11 DEF Timeout, Goto, Phase, Fresh, Exclusive, Locked, TypeOK, DevCfgAssumption
<1>12. ASSUME Read(p) PROVE Phase = "none" /\ Phase' = "readArm" /\ ~Fresh /\ ~Fresh'
  BY <1>12 DEF Read, Goto, Phase, Fresh, Exclusive, Locked, TypeOK, DevCfgAssumption
<1>13. ASSUME ReadStart(p) PROVE Phase = "readArm" /\ Phase' = "readSpin" /\ ~Fresh /\ ~Fresh'
  BY <1>13 DEF ReadStart, Goto, Phase, Fresh, Exclusive, Locked, TypeOK, DevCfgAssumption
<1>14. ASSUME ReadDone(p) PROVE Phase = "readSpin" /\ Phase' = "none" /\ ~Fresh /\ ~Fresh'
  BY <1>14 DEF ReadDone, Goto, Phase, Fresh, Exclusive, Locked, TypeOK, DevCfgAssumption
<1>. QED BY <1>1, <1>2, <1>3, <1>4, <1>5, <1>6, <1>7, <1>8, <1>9, <1>10, <1>11, <1>12, <1>13, <1>14

LEMMA Stays == ASSUME UNCHANGED <<sem, pc>> PROVE Phase' = Phase /\ (Fresh' <=> Fresh)
BY DEF Phase, Fresh

-----------------------------------------------------------------------------
(* Outside the calls. *)

LEMMA LocalsStep == DevCfgAssumption /\ TypeOK /\ Exclusive /\ Locals /\ [Next]_vars => Locals'
<1>. SUFFICES ASSUME DevCfgAssumption, TypeOK, Exclusive, Locals, [Next]_vars PROVE Locals'  OBVIOUS
<1>. USE DEF vars, driver, result, call, pl, intr, pcap, ghost
<1>1. ASSUME NEW p \in Procs, Open(p) PROVE Locals'
  BY <1>1, Moves DEF Locals, Open
<1>2. ASSUME NEW p \in Procs, ResetPl(p) PROVE Locals'
  BY <1>2, Moves DEF Locals, ResetPl
<1>3. ASSUME NEW p \in Procs, Release(p) PROVE Locals'
  BY <1>3, Moves DEF Locals, Release
<1>4. ASSUME NEW p \in Procs, Released(p) PROVE Locals'
  BY <1>4, Moves DEF Locals, Released
<1>5. ASSUME NEW p \in Procs, Write(p) PROVE Locals'
  BY <1>5, Moves DEF Locals, Write
<1>6. ASSUME NEW p \in Procs, WriteRefused(p) PROVE Locals'
  BY <1>6, Moves DEF Locals, WriteRefused
<1>7. ASSUME NEW p \in Procs, Gather(p) PROVE Locals'
  BY <1>7, Moves DEF Locals, Gather
<1>8. ASSUME NEW p \in Procs, Arm(p) PROVE Locals'
  BY <1>8, Moves DEF Locals, Arm
<1>9. ASSUME NEW p \in Procs, Start(p) PROVE Locals'
  BY <1>9, Moves DEF Locals, Start
<1>10. ASSUME NEW p \in Procs, WriteDone(p) PROVE Locals'
  BY <1>10, Moves DEF Locals, WriteDone
<1>11. ASSUME NEW p \in Procs, Timeout(p) PROVE Locals'
  BY <1>11, Moves DEF Locals, Timeout
<1>12. ASSUME NEW p \in Procs, Read(p) PROVE Locals'
  BY <1>12, Moves DEF Locals, Read
<1>13. ASSUME NEW p \in Procs, ReadStart(p) PROVE Locals'
  BY <1>13, Moves DEF Locals, ReadStart
<1>14. ASSUME NEW p \in Procs, ReadDone(p) PROVE Locals'
  BY <1>14, Moves DEF Locals, ReadDone
<1>15. CASE SetPartial  BY <1>15, Stays DEF Locals, SetPartial
<1>16. CASE DmaEnds  BY <1>16, Stays DEF Locals, DmaEnds
<1>17. CASE DmaFails  BY <1>17, Stays DEF Locals, DmaFails
<1>18. CASE Interrupt
  <2>1. irq' # None
    <3>1. sts \in SUBSET {"done", "someErrors", "allErrors"}  BY DEF TypeOK
    <3>. QED BY <1>18, <3>1 DEF Interrupt, DevCfgAssumption
  <2>. QED BY <1>18, <2>1, Stays DEF Locals, Interrupt
<1>19. CASE NoteDone  BY <1>19, Stays DEF Locals, NoteDone
<1>20. CASE NoteError  BY <1>20, Stays DEF Locals, NoteError
<1>21. CASE UNCHANGED vars  BY <1>21, Stays DEF Locals
<1>. QED BY <1>1, <1>2, <1>3, <1>4, <1>5, <1>6, <1>7, <1>8, <1>9, <1>10, <1>11, <1>12,
            <1>13, <1>14, <1>15, <1>16, <1>17, <1>18, <1>19, <1>20, <1>21 DEF Next, Inside, Handler

-----------------------------------------------------------------------------
(* One transfer at a time. *)

LEMMA QueueSeq == TypeOK => queue \in Seq([data : Seq(Int), held : BOOLEAN])
BY DEF TypeOK

\* While a transfer runs, the download is not fresh.
LEMMA NotFresh ==
  ASSUME TypeOK, Phase \in {"gather", "arm", "start", "spin", "readArm", "readSpin"}
  PROVE  ~Fresh
BY DEF TypeOK, Phase, Fresh

LEMMA QuietStep == DevCfgAssumption /\ TypeOK /\ Exclusive /\ Locals /\ Quiet /\ [Next]_vars => Quiet'
<1>. SUFFICES ASSUME DevCfgAssumption, TypeOK, Exclusive, Locals, Quiet, [Next]_vars PROVE Quiet'  OBVIOUS
<1>. USE DEF vars, driver, result, call, pl, intr, pcap, ghost
<1>1. ASSUME NEW p \in Procs, Open(p) PROVE Quiet'
  BY <1>1, Moves DEF Quiet, Rest, HandlerIdle, Open
<1>2. ASSUME NEW p \in Procs, ResetPl(p) PROVE Quiet'
  <2>1. ~unsure' => Rest'
    BY <1>2 DEF ResetPl, Rest, HandlerIdle, Locals
  <2>. QED BY <1>2, <2>1, Moves DEF Quiet, ResetPl
<1>3. ASSUME NEW p \in Procs, Release(p) PROVE Quiet'
  BY <1>3, Moves DEF Quiet, Rest, HandlerIdle, Release
<1>4. ASSUME NEW p \in Procs, Released(p) PROVE Quiet'
  BY <1>4, Moves DEF Quiet, Rest, HandlerIdle, Released
<1>5. ASSUME NEW p \in Procs, Write(p) PROVE Quiet'
  BY <1>5, Moves DEF Quiet, Rest, HandlerIdle, Write
<1>6. ASSUME NEW p \in Procs, WriteRefused(p) PROVE Quiet'
  BY <1>6, Moves DEF Quiet, Rest, HandlerIdle, WriteRefused
<1>7. ASSUME NEW p \in Procs, Gather(p) PROVE Quiet'
  BY <1>7, Moves DEF Quiet, Rest, HandlerIdle, Gather
<1>8. ASSUME NEW p \in Procs, Arm(p) PROVE Quiet'
  BY <1>8, Moves DEF Quiet, Rest, HandlerIdle, Arm
<1>9. ASSUME NEW p \in Procs, Start(p) PROVE Quiet'
  <2>1. ~unsure => Rest  BY <1>9, Moves DEF Quiet
  <2>2. ~unsure => Transfer' /\ ~errStatus'
    BY <1>9, <2>1 DEF Start, Rest, Transfer, HandlerIdle, TypeOK
  <2>. QED BY <1>9, <2>2, Moves DEF Quiet, Start
<1>10. ASSUME NEW p \in Procs, WriteDone(p) PROVE Quiet'
  <2>1. ~unsure => Rest  BY <1>10, Moves DEF Quiet, Transfer, WriteDone
  <2>2. ~unsure => Rest'
    <3>1. queue = <<>> => Freed = <<>>  BY DEF Freed
    <3>. QED BY <1>10, <2>1, <3>1 DEF WriteDone, Rest, HandlerIdle
  <2>. QED BY <1>10, <2>2, Moves DEF Quiet, WriteDone
<1>11. ASSUME NEW p \in Procs, Timeout(p) PROVE Quiet'
  BY <1>11 DEF Timeout, Quiet
<1>12. ASSUME NEW p \in Procs, Read(p) PROVE Quiet'
  BY <1>12, Moves DEF Quiet, Rest, HandlerIdle, Read
<1>13. ASSUME NEW p \in Procs, ReadStart(p) PROVE Quiet'
  <2>1. ~unsure => Rest /\ ~dmaDone /\ ~errStatus  BY <1>13, Moves DEF Quiet
  <2>2. ~unsure => Transfer' /\ ~errStatus'
    BY <1>13, <2>1 DEF ReadStart, Rest, Transfer, HandlerIdle, TypeOK
  <2>. QED BY <1>13, <2>2, Moves DEF Quiet, ReadStart
<1>14. ASSUME NEW p \in Procs, ReadDone(p) PROVE Quiet'
  <2>1. ~unsure => Rest  BY <1>14, Moves DEF Quiet, Transfer, ReadDone
  <2>2. ~unsure => Rest'
    <3>1. queue = <<>> => Freed = <<>>  BY DEF Freed
    <3>. QED BY <1>14, <2>1, <3>1 DEF ReadDone, Rest, HandlerIdle
  <2>. QED BY <1>14, <2>2, Moves DEF Quiet, ReadDone
<1>15. CASE SetPartial
  BY <1>15, Stays DEF Quiet, Rest, HandlerIdle, Transfer, SetPartial
<1>16. CASE DmaEnds
  <2>1. ~unsure => /\ Phase \in {"spin", "readSpin"} /\ ~errStatus /\ ~Fresh
                   /\ Len(queue) = 1 /\ sts = {} /\ HandlerIdle /\ ~dmaDone
    BY <1>16, NotFresh DEF DmaEnds, Quiet, Rest, Transfer
  <2>2. ~unsure => Tail(queue) = <<>>
    <3>. SUFFICES ASSUME ~unsure PROVE Tail(queue) = <<>>  OBVIOUS
    <3>1. queue # <<>>  BY <2>1
    <3>2. Len(Tail(queue)) = 0
      <4>1. Len(Tail(queue)) = Len(queue) - 1  BY <3>1, QueueSeq, HeadTailProperties
      <4>. QED BY <2>1, <4>1
    <3>3. \A q \in Seq([data : Seq(Int), held : BOOLEAN]) : q # <<>> => Len(q) # 0
      BY EmptySeq
    <3>. QED BY <3>1, <3>2, <3>3, QueueType
  <2>3. ~unsure => Transfer'
    BY <1>16, <2>1, <2>2 DEF DmaEnds, Transfer, HandlerIdle
  <2>. QED BY <1>16, <2>1, <2>3, Stays DEF Quiet, DmaEnds
<1>17. CASE DmaFails
  BY <1>17 DEF DmaFails, Quiet
<1>18. CASE Interrupt
  <2>1. ~unsure => /\ Phase \in {"spin", "readSpin"} /\ ~errStatus
                   /\ queue = <<>> /\ sts = {"done"} /\ HandlerIdle /\ ~dmaDone
    BY <1>18 DEF Interrupt, Quiet, Rest, Transfer
  <2>2. ~unsure => Transfer'
    <3>1. {"done"} \in SUBSET {"done", "someErrors", "allErrors"}  OBVIOUS
    <3>2. {"done"} # None  BY <3>1 DEF DevCfgAssumption
    <3>. QED BY <1>18, <2>1, <3>2 DEF Interrupt, Transfer, HandlerIdle
  <2>. QED BY <1>18, <2>1, <2>2, Stays DEF Quiet, Interrupt
<1>19. CASE NoteDone
  <2>1. ~unsure => /\ Phase \in {"spin", "readSpin"} /\ ~errStatus
                   /\ queue = <<>> /\ sts = {} /\ irq = {"done"}
    BY <1>19 DEF NoteDone, Quiet, Rest, Transfer, HandlerIdle
  <2>2. ~unsure => Transfer'
    BY <1>19, <2>1 DEF NoteDone, Transfer, Rest, HandlerIdle
  <2>. QED BY <1>19, <2>1, <2>2, Stays DEF Quiet, NoteDone
<1>20. CASE NoteError
  <2>1. ~unsure => irq = {"done"}
    BY <1>20 DEF NoteError, Quiet, Rest, Transfer, HandlerIdle
  <2>2. ~unsure => HandlerIdle /\ HandlerIdle'
    BY <1>20, <2>1 DEF NoteError, HandlerIdle
  <2>3. ~unsure => errStatus' = errStatus
    BY <1>20, <2>1 DEF NoteError, TypeOK
  <2>4. ~unsure => (Rest => Rest') /\ (Transfer => Transfer')
    BY <1>20, <2>1, <2>2 DEF NoteError, Rest, Transfer
  <2>. QED BY <1>20, <2>3, <2>4, Stays DEF Quiet, NoteError
<1>21. CASE UNCHANGED vars  BY <1>21, Stays DEF Quiet, Rest, HandlerIdle, Transfer
<1>. QED BY <1>1, <1>2, <1>3, <1>4, <1>5, <1>6, <1>7, <1>8, <1>9, <1>10, <1>11, <1>12,
            <1>13, <1>14, <1>15, <1>16, <1>17, <1>18, <1>19, <1>20, <1>21 DEF Next, Inside, Handler

-----------------------------------------------------------------------------
(* The stream. *)

LEMMA Associative ==
  ASSUME NEW s \in Seq(Int), NEW t \in Seq(Int), NEW u \in Seq(Int)
  PROVE  (s \o t) \o u = s \o (t \o u)
OBVIOUS

\* An empty download.
LEMMA NothingSent ==
  ASSUME DevCfgAssumption
  PROVE  /\ (<<>> \o <<>>) \o <<>> = Run(0, 0)
         /\ Len(<<>>) % Word = 0 /\ Len(<<>>) < Word
<1>1. Word \in Nat \ {0}  BY DEF DevCfgAssumption
<1>2. Run(0, 0) \in Seq(Int) /\ Len(Run(0, 0)) = 0  BY RunSeq
<1>3. Run(0, 0) = <<>>  BY <1>2, EmptySeq
<1>4. <<>> \in Seq(Int) /\ <<>> \o <<>> = <<>>  BY ConcatEmptySeq
<1>5. 0 % Word = 0  BY <1>1
<1>. QED BY <1>1, <1>3, <1>4, <1>5, EmptySeq

LEMMA WholeSum ==
  ASSUME DevCfgAssumption, NEW a \in Nat, NEW b \in Nat, a % Word = 0, b % Word = 0
  PROVE  (a + b) % Word = 0
<1>. DEFINE x == a \div Word  y == b \div Word
<1>1. Word \in Nat \ {0} /\ a \in Int /\ b \in Int  BY DEF DevCfgAssumption
<1>2. x \in Int /\ y \in Int /\ a = Word * x + (a % Word) /\ b = Word * y + (b % Word)
  BY <1>1, Words
<1>3. a + b = Word * (x + y)  BY <1>1, <1>2
<1>4. x + y \in Int  BY <1>1, <1>2
<1>. HIDE DEF x, y
<1>5. \A q \in Int : (Word * q) % Word = 0  BY <1>1, Words
<1>. QED BY <1>3, <1>4, <1>5

\* A write gathers the file's next bytes, without the header if it is the first.
LEMMA GatherFits ==
  ASSUME DevCfgAssumption, TypeOK, base <= ppos, fabric \o residue = Run(base, ppos),
         NEW b, b = IF HasSync(Gathered) THEN SyncPos(Gathered) ELSE base
  PROVE  b \in Nat /\ b <= ppos + count
         /\ fabric \o Stripped(Gathered) = Run(b, ppos + count)
<1>0. /\ ppos \in Int /\ count \in Nat /\ base \in Int /\ Word \in Nat
      /\ fabric \in Seq(Int) /\ residue \in Seq(Int)
  BY DEF TypeOK, DevCfgAssumption
<1>1. PICK n : n = Run(ppos, ppos + count)  OBVIOUS
<1>2. PICK g : g = Gathered  OBVIOUS
<1>3. n \in Seq(Int) /\ g \in Seq(Int) /\ g = residue \o n
  BY <1>1, <1>2, GatherSeq DEF Gathered
<1>4. fabric \o g = Run(base, ppos + count)
  <2>1. (fabric \o residue) \o n = fabric \o (residue \o n)
    BY <1>0, <1>3, Associative
  <2>2. Run(base, ppos) \o Run(ppos, ppos + count) = Run(base, ppos + count)
    <3>1. ppos <= ppos + count /\ ppos + count \in Int  BY <1>0
    <3>. QED BY <1>0, <3>1, RunConcat
  <2>. QED BY <1>1, <1>3, <2>1, <2>2
<1>5. CASE ~HasSync(g)
  <2>1. b = base /\ Stripped(g) = g  BY <1>2, <1>5 DEF Stripped
  <2>. QED BY <1>0, <1>2, <1>4, <2>1 DEF TypeOK
<1>6. CASE HasSync(g)
  <2>1. ppos = 0 /\ base = 0  BY <1>0, <1>6 DEF HasSync, TypeOK
  <2>2. fabric = <<>>
    <3>1. Len(fabric \o residue) = 0  BY <2>1, RunSeq
    <3>2. Len(fabric \o residue) = Len(fabric) + Len(residue)  BY <1>0, ConcatProperties
    <3>3. Len(fabric) \in Nat /\ Len(residue) \in Nat  BY <1>0, LenProperties
    <3>4. Len(fabric) = 0  BY <3>1, <3>2, <3>3
    <3>. QED BY <1>0, <3>4, EmptySeq
  <2>3. g = Run(0, count)
    <3>1. <<>> \o g = g  BY <1>3, ConcatEmptySeq
    <3>2. 0 + count = count  BY <1>0
    <3>. QED BY <1>4, <2>1, <2>2, <3>1, <3>2
  <2>4. Len(g) = count  BY <1>0, <2>3, RunSeq
  <2>5. b = SyncPos(g) /\ b \in 0 .. count
    <3>1. SyncPos(g) \in 0 .. Len(g) - Word - 1  BY <1>2, <1>6, GatherSeq
    <3>. QED BY <1>0, <1>2, <1>6, <2>4, <3>1
  <2>6. Drop(Run(0, count), b) = Run(0 + b, count)
    <3>1. \A i \in 0 .. count - 0 : Drop(Run(0, count), i) = Run(0 + i, count)
      BY <1>0, RunDrop
    <3>2. b \in 0 .. count - 0  BY <1>0, <2>5
    <3>. QED BY <3>1, <3>2
  <2>7. Stripped(g) = Run(b, count)
    <3>1. 0 + b = b  BY <1>0, <2>5
    <3>. QED BY <1>6, <2>3, <2>5, <2>6, <3>1 DEF Stripped
  <2>8. fabric \o Stripped(g) = Run(b, ppos + count)
    <3>1. b <= count /\ ppos + count = count /\ b \in Int  BY <1>0, <2>1, <2>5
    <3>2. Run(b, count) \in Seq(Int)
      <4>1. b \in Int /\ count \in Int /\ b <= count  BY <1>0, <3>1
      <4>. QED BY <4>1, RunSeq
    <3>3. <<>> \o Run(b, count) = Run(b, count)  BY <3>2, ConcatEmptySeq
    <3>. QED BY <2>2, <2>7, <3>1, <3>3
  <2>. QED BY <1>0, <1>2, <2>1, <2>5, <2>8
<1>. QED BY <1>5, <1>6

LEMMA FitsStep == DevCfgAssumption /\ TypeOK /\ Exclusive /\ Locals /\ Quiet /\ Fits /\ [Next]_vars => Fits'
<1>. SUFFICES ASSUME DevCfgAssumption, TypeOK, Exclusive, Locals, Quiet, Fits, [Next]_vars PROVE Fits'  OBVIOUS
<1>. USE DEF vars, driver, result, call, pl, intr, pcap, ghost
<1>1. ASSUME NEW p \in Procs, Open(p) PROVE Fits'
  <2>1. ~unsure => fabric' = <<>> /\ queue' = <<>> /\ data' = <<>> /\ residue' = <<>>
    BY <1>1, Moves DEF Open, Quiet, Rest, Locals
  <2>2. ppos' = 0 /\ base' = 0 /\ Target' = 0  BY <1>1, Moves DEF Open, Locals, Target
  <2>3. unsure' = unsure  BY <1>1 DEF Open
  <2>4. ASSUME ~unsure' 
        PROVE  /\ (fabric' \o Sending') \o residue' = Run(base', Target')
               /\ base' <= Target'
               /\ Len(fabric') % Word = 0 /\ Len(Sending') % Word = 0
               /\ Len(residue') < Word
    <3>1. fabric' = <<>> /\ Sending' = <<>> /\ residue' = <<>>  BY <2>1, <2>3, <2>4 DEF Sending
    <3>. QED BY <2>2, <3>1, NothingSent
  <2>. QED BY <2>4 DEF Fits
<1>2. ASSUME NEW p \in Procs, ResetPl(p) PROVE Fits'
  <2>1. ~unsure' => fabric' = <<>> /\ queue' = <<>> /\ data' = <<>> /\ residue' = <<>>
    BY <1>2, Moves DEF ResetPl, Locals
  <2>2. ppos' = 0 /\ base' = 0 /\ Target' = 0  BY <1>2, Moves DEF ResetPl, Locals, Target
  <2>4. ASSUME ~unsure' 
        PROVE  /\ (fabric' \o Sending') \o residue' = Run(base', Target')
               /\ base' <= Target'
               /\ Len(fabric') % Word = 0 /\ Len(Sending') % Word = 0
               /\ Len(residue') < Word
    <3>1. fabric' = <<>> /\ Sending' = <<>> /\ residue' = <<>>  BY <2>1, <2>4 DEF Sending
    <3>. QED BY <2>2, <3>1, NothingSent
  <2>. QED BY <2>4 DEF Fits
<1>3. ASSUME NEW p \in Procs, Release(p) PROVE Fits'
  BY <1>3, Moves DEF Fits, Sending, Target, Release
<1>4. ASSUME NEW p \in Procs, Released(p) PROVE Fits'
  BY <1>4 DEF Released, Fits
<1>5. ASSUME NEW p \in Procs, Write(p) PROVE Fits'
  BY <1>5, Moves DEF Fits, Sending, Target, Write
<1>6. ASSUME NEW p \in Procs, WriteRefused(p) PROVE Fits'
  BY <1>6, Moves DEF Fits, Sending, Target, WriteRefused
<1>7. ASSUME NEW p \in Procs, Gather(p) PROVE Fits'
  <2>. SUFFICES ASSUME isOpen, ~unsure
       PROVE  /\ (fabric' \o Sending') \o residue' = Run(base', Target') /\ base' <= Target'
              /\ Len(fabric') % Word = 0 /\ Len(Sending') % Word = 0 /\ Len(residue') < Word
    BY <1>7 DEF Fits, Gather
  <2>1. queue = <<>> /\ data = <<>> /\ Target = ppos /\ Target' = ppos + count
    BY <1>7, Moves DEF Quiet, Rest, Locals, Target, Gather
  <2>2. fabric \in Seq(Int) /\ residue \in Seq(Int)  BY DEF TypeOK
  <2>3. fabric \o residue = Run(base, ppos) /\ base <= ppos /\ Len(fabric) % Word = 0
    BY <2>1, <2>2, ConcatEmptySeq DEF Fits, Sending
  <2>4. PICK s : s = Stripped(Gathered)  OBVIOUS
  <2>5. s \in Seq(Int) /\ fabric \o s = Run(base', ppos + count) /\ base' <= ppos + count
    <3>1. base' = IF HasSync(Gathered) THEN SyncPos(Gathered) ELSE base  BY <1>7 DEF Gather
    <3>. QED BY <2>3, <2>4, <3>1, GatherFits, GatherSeq
  <2>6. PICK n \in 0 .. Len(s) : n = Whole(s)  BY <2>5, CutWords
  <2>7. n % Word = 0 /\ Len(s) - n < Word  BY <2>5, <2>6, CutWords
  <2>8. data' = SubSeq(s, 1, n) /\ residue' = Drop(s, n)  BY <1>7, <2>4, <2>6 DEF Gather
  <2>9. /\ data' \in Seq(Int) /\ Len(data') = n /\ residue' \in Seq(Int)
        /\ Len(residue') = Len(s) - n /\ data' \o residue' = s
    BY <2>5, <2>6, <2>8, Cut
  <2>10. (fabric \o data') \o residue' = fabric \o (data' \o residue')
    BY <2>2, <2>9, Associative
  <2>11. fabric' = fabric /\ Sending' = data'  BY <1>7, <2>1 DEF Gather, Sending
  <2>. QED BY <2>1, <2>3, <2>5, <2>7, <2>9, <2>10, <2>11
<1>8. ASSUME NEW p \in Procs, Arm(p) PROVE Fits'
  BY <1>8, Moves DEF Fits, Sending, Target, Arm
<1>9. ASSUME NEW p \in Procs, Start(p) PROVE Fits'
  <2>1. Target' = Target  BY <1>9, Moves DEF Start, Target
  <2>2. ~unsure => Sending' = Sending
    <3>1. ~unsure => queue = <<>>  BY <1>9, Moves DEF Quiet, Rest
    <3>. QED BY <1>9, <3>1 DEF Start, Sending
  <2>. QED BY <1>9, <2>1, <2>2 DEF Start, Fits
<1>10. ASSUME NEW p \in Procs, WriteDone(p) PROVE Fits'
  <2>1. ~unsure => queue = <<>> /\ ~errStatus
    BY <1>10, Moves DEF Quiet, Rest, Transfer, WriteDone
  <2>2. queue = <<>> => Freed = <<>>  BY DEF Freed
  <2>3. ~unsure => Target' = Target  BY <1>10, <2>1, Moves DEF WriteDone, Target
  <2>4. ~unsure => Sending' = Sending  BY <1>10, <2>1, <2>2 DEF WriteDone, Sending
  <2>. QED BY <1>10, <2>3, <2>4 DEF WriteDone, Fits
<1>11. ASSUME NEW p \in Procs, Timeout(p) PROVE Fits'
  BY <1>11 DEF Timeout, Fits
<1>12. ASSUME NEW p \in Procs, Read(p) PROVE Fits'
  BY <1>12, Moves DEF Fits, Sending, Target, Read
<1>13. ASSUME NEW p \in Procs, ReadStart(p) PROVE Fits'
  <2>1. Target' = Target  BY <1>13, Moves DEF ReadStart, Target
  <2>2. ~unsure => Sending' = Sending
    <3>1. ~unsure => queue = <<>> /\ data = <<>>  BY <1>13, Moves DEF Quiet, Rest, Locals
    <3>. QED BY <1>13, <3>1 DEF ReadStart, Sending
  <2>. QED BY <1>13, <2>1, <2>2 DEF ReadStart, Fits
<1>14. ASSUME NEW p \in Procs, ReadDone(p) PROVE Fits'
  <2>1. ~unsure => queue = <<>>  BY <1>14, Moves DEF Quiet, Rest, Transfer, ReadDone
  <2>2. queue = <<>> => Freed = <<>>  BY DEF Freed
  <2>3. Target' = Target  BY <1>14, Moves DEF ReadDone, Target
  <2>4. ~unsure => Sending' = Sending  BY <1>14, <2>1, <2>2 DEF ReadDone, Sending
  <2>. QED BY <1>14, <2>3, <2>4 DEF ReadDone, Fits
<1>15. CASE SetPartial  BY <1>15, Stays DEF Fits, Sending, Target, SetPartial
<1>16. CASE DmaEnds
  <2>. SUFFICES ASSUME isOpen, ~unsure
       PROVE  /\ (fabric' \o Sending') \o residue' = Run(base', Target') /\ base' <= Target'
              /\ Len(fabric') % Word = 0 /\ Len(Sending') % Word = 0 /\ Len(residue') < Word
    BY <1>16 DEF Fits, DmaEnds
  <2>1. Phase \in {"spin", "readSpin"} /\ Len(queue) = 1 /\ queue[1].held
    BY <1>16 DEF DmaEnds, Quiet, Rest, Transfer
  <2>2. PICK d : d = queue[1].data  OBVIOUS
  <2>3. d \in Seq(Int) /\ Head(queue) = queue[1] /\ queue # <<>>
    <3>1. queue[1] \in [data : Seq(Int), held : BOOLEAN]
      <4>1. 1 \in 1 .. Len(queue)  BY <2>1
      <4>. QED BY <4>1, QueueSeq, ElementOfSeq
    <3>. QED BY <1>16, <2>2, <3>1 DEF DmaEnds
  <2>4. fabric' = fabric \o d  BY <1>16, <2>1, <2>2, <2>3 DEF DmaEnds
  <2>5. queue' = <<>>
    <3>1. Len(Tail(queue)) = 0
      <4>1. Len(Tail(queue)) = Len(queue) - 1  BY <2>3, QueueSeq, HeadTailProperties
      <4>. QED BY <2>1, <4>1
    <3>2. \A q \in Seq([data : Seq(Int), held : BOOLEAN]) : q # <<>> => Len(q) # 0
      BY EmptySeq
    <3>. QED BY <1>16, <2>3, <3>1, <3>2, QueueType DEF DmaEnds
  <2>6. Sending = d /\ Sending' = <<>>
    <3>1. data = <<>> /\ data' = data  BY <1>16, <2>1 DEF Locals, DmaEnds
    <3>. QED BY <2>2, <2>3, <2>5, <3>1 DEF Sending
  <2>7. UNCHANGED <<residue, base, Target>>
    BY <1>16, Stays DEF DmaEnds, Target
  <2>8. fabric \in Seq(Int)  BY DEF TypeOK
  <2>9. fabric' \o <<>> = fabric' /\ Len(fabric') = Len(fabric) + Len(d)
    <3>1. fabric \o d \in Seq(Int)  BY <2>3, <2>8, ConcatProperties
    <3>. QED BY <2>3, <2>4, <2>8, <3>1, ConcatProperties, ConcatEmptySeq
  <2>10. Len(fabric') % Word = 0 /\ Len(Sending') % Word = 0
    <3>1. Len(fabric) \in Nat /\ Len(d) \in Nat  BY <2>3, <2>8, LenProperties
    <3>2. Len(fabric) % Word = 0 /\ Len(d) % Word = 0  BY <2>6 DEF Fits
    <3>3. (Len(fabric) + Len(d)) % Word = 0  BY <3>1, <3>2, WholeSum
    <3>. QED BY <2>6, <2>9, <3>3, NothingSent
  <2>. QED BY <2>4, <2>6, <2>7, <2>9, <2>10 DEF Fits
<1>17. CASE DmaFails
  BY <1>17 DEF DmaFails, Fits
<1>18. CASE Interrupt  BY <1>18, Stays DEF Fits, Sending, Target, Interrupt
<1>19. CASE NoteDone  BY <1>19, Stays DEF Fits, Sending, Target, NoteDone
<1>20. CASE NoteError  BY <1>20, Stays DEF Fits, Sending, Target, NoteError
<1>21. CASE UNCHANGED vars  BY <1>21, Stays DEF Fits, Sending, Target
<1>. QED BY <1>1, <1>2, <1>3, <1>4, <1>5, <1>6, <1>7, <1>8, <1>9, <1>10, <1>11, <1>12,
            <1>13, <1>14, <1>15, <1>16, <1>17, <1>18, <1>19, <1>20, <1>21 DEF Next, Inside, Handler
-----------------------------------------------------------------------------
(* The theorems. *)

LEMMA InitIInv == DevCfgAssumption /\ Init => IInv
<1>. SUFFICES ASSUME DevCfgAssumption, Init PROVE IInv  OBVIOUS
<1>1. TypeOK  BY InitTypeOK
<1>2. Exclusive /\ Isolated  BY DEF Init, Exclusive, Isolated, Locked
<1>3. Phase = "none"  BY DEF Init, Phase
<1>4. Locals  BY <1>3 DEF Init, Locals
<1>5. Quiet  BY <1>3 DEF Init, Quiet, Rest, HandlerIdle
<1>6. Fits  BY DEF Init, Fits
<1>. QED BY <1>1, <1>2, <1>4, <1>5, <1>6 DEF IInv

\* The inductive invariant: types, the gate, the isolation, and the stream with all
\* that is on its way between the file and the PCAP.
THEOREM Inductive == Spec => []IInv
<1>1. Init => IInv  BY InitIInv, DevCfgAssumption
<1>2. IInv /\ [Next]_vars => IInv'
  BY TypeStep, ExclusiveStep, IsolatedStep, LocalsStep, QuietStep, FitsStep, DevCfgAssumption
     DEF IInv
<1>. QED BY <1>1, <1>2, PTL DEF Spec

\* Every variable keeps its type.
THEOREM DevCfgTypes == Spec => []TypeOK
<1>1. IInv => TypeOK  BY DEF IInv
<1>. QED BY <1>1, Inductive, PTL

\* At most one program has the device at a time.
THEOREM OneProgram ==
  Spec => [](\A p, q \in Procs : pc[p] # "closed" /\ pc[q] # "closed" => p = q)
<1>1. IInv => \A p, q \in Procs : pc[p] # "closed" /\ pc[q] # "closed" => p = q
  BY DEF IInv, Exclusive
<1>. QED BY <1>1, Inductive, PTL

\* The PCAP has taken exactly the file's bytes from the sync word on, in whole words,
\* for any file, header and way of cutting it into writes.
THEOREM StreamReachesPcap == Spec => []StreamExact
<1>1. IInv => StreamExact
  <2>. SUFFICES ASSUME IInv, sem = None, isOpen, ~unsure
       PROVE  /\ fabric \o residue = Run(base, ppos)
              /\ Len(fabric) % Word = 0 /\ Len(residue) < Word
    BY DEF StreamExact
  <2>1. Phase = "none"  BY DEF Phase
  <2>2. Sending = <<>> /\ Target = ppos
    BY <2>1 DEF IInv, Quiet, Rest, Locals, Sending, Target
  <2>3. fabric \o <<>> = fabric  BY ConcatEmptySeq DEF IInv, TypeOK
  <2>. QED BY <2>2, <2>3 DEF IInv, Fits
<1>. QED BY <1>1, Inductive, PTL

\* No buffer is freed under a DMA, except by a call that gave up waiting.
THEOREM BuffersHeld == Spec => []BufferHeld
<1>1. IInv => BufferHeld
  <2>. SUFFICES ASSUME IInv, ~unsure, NEW k \in 1 .. Len(queue) PROVE queue[k].held
    BY DEF BufferHeld
  <2>1. Len(<<>>) = 0  BY EmptySeq
  <2>2. Len(queue) = 1 /\ queue[1].held
    BY <2>1 DEF IInv, Quiet, Rest, Transfer
  <2>. QED BY <2>2
<1>. QED BY <1>1, Inductive, PTL

\* The PL is isolated during a full download and connected again after it.
THEOREM PlIsolated == Spec => []Isolation
<1>1. IInv => Isolation  BY DEF IInv, Isolated, Isolation
<1>. QED BY <1>1, Inductive, PTL
=============================================================================
