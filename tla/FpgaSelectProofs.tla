-------------------------- MODULE FpgaSelectProofs --------------------------
(* Proofs about FpgaSelect, for every number of selects, loads and versions of
   the open bitstream: consent is per artifact, a selection has its snapshot, and
   a load leaves in the PL what it reports. *)
EXTENDS FpgaSelect, TLAPS

\* One constant-level fact the steps need: the names of profiles are no digests.
LEMMA Names ==
  /\ \A d \in Digests : d # None /\ d \notin {"stock", "ng", "blank", "other"}
  /\ \A s \in Selectors : s \in Procs /\ s \notin Loaders
  /\ \A l \in Loaders : l \in Procs /\ l \notin Selectors
  /\ \A l \in Loaders : l # None
  BY SelectAssumption DEF Procs

\* The part of the types the two invariants rest on.
Types ==
  /\ pc \in [Procs -> SelectSteps \cup LoadSteps \cup {"idle"}]
  /\ seen \in [Procs -> Digests \cup {None, "stock", "ng"}]
  /\ tmp \in [Procs -> Digests \cup {None}]
  /\ src \in Digests /\ ack \in Digests \cup {None}
  /\ sel \in {None, "empty", "stock", "ng"} /\ snap \in Digests \cup {None}

\* Where a select is on its way to a snapshot, and what it may carry there.
Carried(s) ==
  /\ pc[s] \in {"hash", "copy"} => seen[s] \in consented
  /\ pc[s] = "copy" => raced \/ src = seen[s]
  /\ pc[s] = "rename" => tmp[s] \in Digests /\ (raced \/ tmp[s] \in consented)

Consent1 ==
  /\ ack \in consented \cup {None}
  /\ \A s \in Selectors : Carried(s)
  /\ ConsentedOnly

\* Selects that do not overlap: one at a time, and what it has done so far.
Staged ==
  ~overlap =>
    /\ \A s, q \in Selectors : pc[s] # "idle" /\ pc[q] # "idle" => s = q
    /\ \A s \in Selectors : /\ pc[s] = "persistNg" => snap # None
                            /\ pc[s] = "remove" => sel # "ng"
    /\ SnapshotWhenSelected

IInv == Types /\ Consent1 /\ Staged

LEMMA SelectingStep ==
  ASSUME NEW s \in Selectors, IInv, Selecting(s)
  PROVE  IInv'
<1> USE Names DEF IInv
<1>1. Types'
  BY DEF Types, Selecting, Select, ReadAck, Hash, Copy, Rename, Persist, Remove, Step,
         SelectSteps, LoadSteps, files, world, procs, ghost
<1>2. Consent1'
  <2>1. CASE Select(s)
    BY <2>1 DEF Select, Types, Consent1, Carried, ConsentedOnly, Step, files, world
  <2>2. CASE ReadAck(s)
    BY <2>2 DEF ReadAck, Types, Consent1, Carried, ConsentedOnly, Step, files, world, ghost
  <2>3. CASE Hash(s)
    BY <2>3 DEF Hash, Types, Consent1, Carried, ConsentedOnly, Step, files, world, ghost
  <2>4. CASE Copy(s)
    BY <2>4 DEF Copy, Types, Consent1, Carried, ConsentedOnly, Step, files, world, ghost
  <2>5. CASE Rename(s)
    BY <2>5 DEF Rename, Types, Consent1, Carried, ConsentedOnly, Step, files, world, ghost
  <2>6. CASE Persist(s)
    BY <2>6 DEF Persist, Types, Consent1, Carried, ConsentedOnly, Step, files, world, ghost
  <2>7. CASE Remove(s)
    BY <2>7 DEF Remove, Types, Consent1, Carried, ConsentedOnly, Step, files, world, ghost
  <2> QED BY <2>1, <2>2, <2>3, <2>4, <2>5, <2>6, <2>7 DEF Selecting
<1>3. Staged'
  <2>1. CASE Select(s)
    BY <2>1 DEF Select, Types, Staged, SnapshotWhenSelected, Step, files, world
  <2>2. CASE ReadAck(s)
    BY <2>2 DEF ReadAck, Types, Staged, SnapshotWhenSelected, Step, files, world, ghost
  <2>3. CASE Hash(s)
    BY <2>3 DEF Hash, Types, Staged, SnapshotWhenSelected, Step, files, world, ghost
  <2>4. CASE Copy(s)
    BY <2>4 DEF Copy, Types, Staged, SnapshotWhenSelected, Step, files, world, ghost
  <2>5. CASE Rename(s)
    BY <2>5 DEF Rename, Types, Consent1, Carried, Staged, SnapshotWhenSelected, Step, world, ghost
  <2>6. CASE Persist(s)
    BY <2>6 DEF Persist, Types, Staged, SnapshotWhenSelected, Step, world, ghost
  <2>7. CASE Remove(s)
    BY <2>7 DEF Remove, Types, Staged, SnapshotWhenSelected, Step, world, ghost
  <2> QED BY <2>1, <2>2, <2>3, <2>4, <2>5, <2>6, <2>7 DEF Selecting
<1> QED BY <1>1, <1>2, <1>3

LEMMA LoadingStep ==
  ASSUME NEW l \in Loaders, IInv, Loading(l)
  PROVE  IInv'
<1> USE Names DEF IInv
<1>1. /\ UNCHANGED <<files, world, tmp, ghost>>
      /\ \A s \in Selectors : pc'[s] = pc[s] /\ seen'[s] = seen[s]
  BY DEF Types, Loading, Load, Lock, CheckConflict, ReadSelection, Verify, OpenDev, Write,
         Poll, Exit, Step, procs
<1>2. pc' \in [Procs -> SelectSteps \cup LoadSteps \cup {"idle"}]
  BY DEF Types, Loading, Load, Lock, CheckConflict, ReadSelection, Verify, OpenDev, Write,
         Poll, Exit, Step, SelectSteps, LoadSteps
<1>3. Types'
  <2>1. seen' \in [Procs -> Digests \cup {None, "stock", "ng"}]
    BY DEF Types, Loading, Load, Lock, CheckConflict, ReadSelection, Verify, OpenDev, Write,
           Poll
  <2> QED BY <1>1, <1>2, <2>1 DEF Types, files, world
<1>4. pl' \in {pl, "blank", "stock", snap}
  BY DEF Types, Loading, Load, Lock, CheckConflict, ReadSelection, Verify, OpenDev, Write,
         Poll, Source
<1>5. Consent1'
  BY <1>1, <1>4 DEF Consent1, Carried, ConsentedOnly, Types, files, world, ghost
<1>6. Staged'
  BY <1>1 DEF Staged, SnapshotWhenSelected, files, world, ghost
<1> QED BY <1>3, <1>5, <1>6

\* A killed select or load leaves its files as they are.
LEMMA KillStep ==
  ASSUME NEW p \in Procs, IInv, Kill(p)
  PROVE  IInv'
<1> USE Names DEF IInv
<1>1. Types'  BY DEF Types, Kill, Exit, files, world
<1>2. Consent1'
  BY DEF Types, Kill, Exit, Consent1, Carried, ConsentedOnly, files, world, ghost
<1>3. Staged'
  BY DEF Types, Kill, Exit, Staged, SnapshotWhenSelected, files, world, ghost
<1> QED BY <1>1, <1>2, <1>3

\* What goes on around the script.
LEMMA WorldStep ==
  ASSUME IInv, Upgrade \/ Consent \/ PostInst \/ OtherMoves \/ PowerCut
  PROVE  IInv'
<1> USE Names DEF IInv
<1>1. CASE Upgrade
  BY <1>1 DEF Upgrade, Types, Consent1, Carried, ConsentedOnly, Staged,
              SnapshotWhenSelected, files, procs
<1>2. CASE Consent
  BY <1>2 DEF Consent, Types, Consent1, Carried, ConsentedOnly, Staged,
              SnapshotWhenSelected, files, procs
<1>3. CASE PostInst
  BY <1>3 DEF PostInst, Types, Consent1, Carried, ConsentedOnly, Staged,
              SnapshotWhenSelected, world, procs, ghost
<1>4. CASE OtherMoves
  BY <1>4 DEF OtherMoves, Types, Consent1, Carried, ConsentedOnly, Staged,
              SnapshotWhenSelected, files, procs, ghost
<1>5. CASE PowerCut
  BY <1>5 DEF PowerCut, Types, Consent1, Carried, ConsentedOnly, Staged,
              SnapshotWhenSelected, files, ghost
<1> QED BY <1>1, <1>2, <1>3, <1>4, <1>5

\* The invariant is inductive: it holds in every reachable state.
THEOREM SelectInductive == Spec => []IInv
<1>1. Init => IInv
  <2> SUFFICES ASSUME Init PROVE IInv  OBVIOUS
  <2>1. \A p \in Procs : pc[p] = "idle"  BY DEF Init
  <2>2. Types  BY DEF Init, Types
  <2>3. {snap, pl} \cap Digests = {}  BY Names DEF Init
  <2>4. Consent1  BY <2>1, <2>3, Names DEF Init, Consent1, Carried, ConsentedOnly
  <2>5. Staged
    <3>1. sel # "ng"  BY SelectAssumption DEF Init
    <3> QED BY <2>1, <3>1, Names DEF Staged, SnapshotWhenSelected
  <2> QED BY <2>2, <2>4, <2>5 DEF IInv
<1>2. ASSUME IInv, [Next]_vars PROVE IInv'
  <2>1. CASE UNCHANGED vars
    BY <1>2, <2>1 DEF vars, files, world, procs, ghost, IInv, Types, Consent1, Carried,
                      ConsentedOnly, Staged, SnapshotWhenSelected
  <2>2. CASE Next
    BY <1>2, <2>2, SelectingStep, LoadingStep, KillStep, WorldStep DEF Next
  <2> QED BY <1>2, <2>1, <2>2
<1> QED BY <1>1, <1>2, PTL DEF Spec

\* No bitstream is staged or in the PL without consent to its digest, unless an
\* upgrade falls between the digest check and the copy (select_experimental).
THEOREM OnlyConsented == Spec => []ConsentedOnly
<1>1. IInv => ConsentedOnly  BY DEF IInv, Consent1
<1> QED BY SelectInductive, <1>1, PTL

\* A selection of the open bitstream survives kills and power cuts together with
\* its snapshot, unless selects overlap (the order of the renames and the removal).
THEOREM SelectionHasSnapshot == Spec => []SnapshotWhenSelected
<1>1. IInv => SnapshotWhenSelected  BY DEF IInv, Staged, SnapshotWhenSelected
<1> QED BY SelectInductive, <1>1, PTL
-----------------------------------------------------------------------------
(* The loader: its lock covers everything from the check of the other stacks to
   the verdict, and the device is open only while it writes. *)

Locked == {"check", "select", "verify", "open", "write", "poll"}

\* What the PL holds is what the load at its verdict has read of the selection.
Agrees(l) == pl \in {"blank", "other"} \/ (pl = "stock" <=> seen[l] = "stock")

LoadOf(l) ==
  /\ pc[l] \in Locked <=> lock = l
  /\ pc[l] = "write" <=> dev = l
  /\ pc[l] = "poll" => Agrees(l)

Serialized == \A l \in Loaders : LoadOf(l)

LInv == TypeOK /\ Serialized

LEMMA SelectingLoads ==
  ASSUME NEW s \in Selectors, LInv, Selecting(s)
  PROVE  LInv'
<1> USE Names DEF LInv
<1>1. TypeOK'
  <2>1. UNCHANGED <<world, pl, lock, dev, consented, raced, env>>
    BY DEF Selecting, Select, ReadAck, Hash, Copy, Rename, Persist, Remove, ghost
  <2>5. ops' \in Nat /\ overlap' \in BOOLEAN
    <3>1. CASE Select(s)  BY <3>1 DEF TypeOK, Select
    <3>2. CASE ~ Select(s)
      <4>1. ops' = ops /\ overlap' = overlap
        BY <3>2 DEF Selecting, ReadAck, Hash, Copy, Rename, Persist, Remove, ghost
      <4> QED BY <4>1 DEF TypeOK
    <3> QED BY <3>1, <3>2
  <2>2. /\ sel' \in {sel, "stock", "ng"} /\ snap' \in Digests \cup {None}
        /\ tmp' \in [Procs -> Digests \cup {None}]
    BY DEF TypeOK, Selecting, Select, ReadAck, Hash, Copy, Rename, Persist, Remove, files, procs, world
  <2>3. \E to \in SelectSteps \cup {"idle"} : pc' = [pc EXCEPT ![s] = to]
    BY DEF Selecting, Select, ReadAck, Hash, Copy, Rename, Persist, Remove, Step, SelectSteps
  <2>4. seen' \in {seen, [seen EXCEPT ![s] = ack]}
    BY DEF Selecting, Select, ReadAck, Hash, Copy, Rename, Persist, Remove, procs
  <2> QED BY <2>1, <2>2, <2>3, <2>4, <2>5 DEF TypeOK, world
<1>2. /\ UNCHANGED <<pl, lock, dev>>
      /\ \A l \in Loaders : pc'[l] = pc[l] /\ seen'[l] = seen[l]
  BY DEF TypeOK, Selecting, Select, ReadAck, Hash, Copy, Rename, Persist, Remove, Step, procs
<1>3. Serialized'  BY <1>2 DEF Serialized, LoadOf, Agrees
<1> QED BY <1>1, <1>3

\* Exit gives back the lock and the device, and it is only the holder's to give.
LEMMA ExitLoads ==
  ASSUME NEW p \in Procs, LInv, Exit(p), UNCHANGED <<pl, seen>>
  PROVE  Serialized'
<1> SUFFICES ASSUME NEW l \in Loaders PROVE LoadOf(l)'  BY DEF Serialized
<1> USE Names DEF LInv, TypeOK, Serialized, LoadOf, Agrees, Exit, Locked
<1>1. CASE l = p  BY <1>1
<1>2. CASE l # p  BY <1>2
<1> QED BY <1>1, <1>2

LEMMA LoadingLoads ==
  ASSUME NEW l \in Loaders, LInv, Loading(l)
  PROVE  LInv'
<1> USE Names DEF LInv
<1>1. TypeOK'
  <2>1. UNCHANGED <<files, world, tmp, consented, raced, overlap>> /\ env' = env /\ ops' \in Nat
    BY DEF TypeOK, Loading, Load, Lock, CheckConflict, ReadSelection, Verify, OpenDev, Write,
           Poll, ghost, procs
  <2>2. pl' \in {pl, "blank", "stock", snap} \ {None}
    BY SelectAssumption DEF TypeOK, Loading, Load, Lock, CheckConflict, ReadSelection, Verify,
           OpenDev, Write, Poll, Source
  <2>3. lock' \in {lock, l, None} /\ dev' \in {dev, l, None}
    BY DEF Loading, Load, Lock, CheckConflict, ReadSelection, Verify, OpenDev, Write, Poll, Exit
  <2>4. \E to \in LoadSteps \cup {"idle"} : pc' = [pc EXCEPT ![l] = to]
    BY DEF Loading, Load, Lock, CheckConflict, ReadSelection, Verify, OpenDev, Write,
           Poll, Exit, Step, LoadSteps
  <2>5. \/ seen' = seen
        \/ pc[l] = "select" /\ \E c \in {"stock", "ng"} : seen' = [seen EXCEPT ![l] = c]
    BY DEF TypeOK, Loading, Load, Lock, CheckConflict, ReadSelection, Verify, OpenDev, Write,
           Poll, procs, Step
  <2>6. pc'[l] \in {"verify", "open", "write", "poll"} =>
           \/ pc[l] \in {"verify", "open", "write"}
           \/ pc[l] = "select" /\ seen'[l] \in {"stock", "ng"}
    BY DEF TypeOK, Loading, Load, Lock, CheckConflict, ReadSelection, Verify, OpenDev, Write,
           Poll, Exit, Step
  <2>7. \A k \in Loaders : pc'[k] \in {"verify", "open", "write", "poll"}
                             => seen'[k] \in {"stock", "ng"}
    BY <2>4, <2>5, <2>6 DEF TypeOK
  <2> QED BY <2>1, <2>2, <2>3, <2>4, <2>5, <2>7 DEF TypeOK, files, world
<1>2. Serialized'
  <2> USE DEF TypeOK, Serialized, LoadOf, Agrees, Locked, Step
  <2>1. CASE Load(l)  BY <2>1 DEF Load
  <2>2. CASE Lock(l)  BY <2>2 DEF Lock
  <2>3. CASE CheckConflict(l)
    BY <2>3, ExitLoads DEF CheckConflict
  <2>4. CASE ReadSelection(l)  BY <2>4 DEF ReadSelection
  <2>5. CASE Verify(l)  BY <2>5, ExitLoads DEF Verify
  <2>6. CASE OpenDev(l)  BY <2>6, ExitLoads DEF OpenDev
  <2>7. CASE Write(l)
    <3>1. CASE pl' = pl /\ Exit(l)  BY <2>7, <3>1, ExitLoads DEF Write
    <3>2. CASE /\ Source(l) # None /\ pl' \in {Source(l), "blank"}
               /\ Step(l, "write", "poll") /\ dev' = None /\ lock' = lock
      BY <2>7, <3>2 DEF Write, Source
    <3> QED BY <2>7, <3>1, <3>2 DEF Write
  <2>8. CASE Poll(l)  BY <2>8, ExitLoads DEF Poll
  <2> QED BY <2>1, <2>2, <2>3, <2>4, <2>5, <2>6, <2>7, <2>8 DEF Loading
<1> QED BY <1>1, <1>2

LEMMA KillLoads ==
  ASSUME NEW p \in Procs, LInv, Kill(p)
  PROVE  LInv'
<1> USE Names DEF LInv
<1>1. TypeOK'  BY DEF TypeOK, Kill, Exit, Happens, files, world, ghost
<1>2. Serialized'  BY ExitLoads DEF Kill
<1> QED BY <1>1, <1>2

LEMMA WorldLoads ==
  ASSUME LInv, Upgrade \/ Consent \/ PostInst \/ OtherMoves \/ PowerCut
  PROVE  LInv'
<1> USE Names DEF LInv, Happens
<1>1. TypeOK'
  <2> USE DEF TypeOK
  <2>1. CASE Upgrade     BY <2>1 DEF Upgrade, files, procs
  <2>2. CASE Consent     BY <2>2 DEF Consent, files, procs
  <2>3. CASE PostInst    BY <2>3 DEF PostInst, world, procs, ghost
  <2>4. CASE OtherMoves  BY <2>4 DEF OtherMoves, files, procs, ghost
  <2>5. CASE PowerCut    BY <2>5 DEF PowerCut, files, ghost
  <2> QED BY <2>1, <2>2, <2>3, <2>4, <2>5
<1>2. Serialized'
  <2> USE DEF TypeOK, Serialized, LoadOf, Agrees, Locked
  <2>1. CASE Upgrade     BY <2>1 DEF Upgrade, procs
  <2>2. CASE Consent     BY <2>2 DEF Consent, procs
  <2>3. CASE PostInst    BY <2>3 DEF PostInst, procs
  <2>4. CASE OtherMoves  BY <2>4 DEF OtherMoves, procs
  <2>5. CASE PowerCut    BY <2>5 DEF PowerCut
  <2> QED BY <2>1, <2>2, <2>3, <2>4, <2>5
<1> QED BY <1>1, <1>2

\* The loaders' invariant is inductive: the lock is held from the check of the other
\* stacks to the verdict, by one loader at a time (cmd_load and its flock).
THEOREM LoaderInductive == Spec => []LInv
<1>1. Init => LInv
  <2> SUFFICES ASSUME Init PROVE LInv  OBVIOUS
  <2>1. TypeOK
    <3>1. \A p \in Procs : pc[p] = "idle" /\ seen[p] = None /\ tmp[p] = None  BY DEF Init
    <3> QED BY <3>1, Names DEF Init, TypeOK, files, world
  <2>2. Serialized  BY Names DEF Init, Serialized, LoadOf, Locked
  <2> QED BY <2>1, <2>2 DEF LInv
<1>2. ASSUME LInv, [Next]_vars PROVE LInv'
  <2>1. CASE UNCHANGED vars
    BY <1>2, <2>1 DEF vars, files, world, procs, ghost, LInv, TypeOK, Serialized, LoadOf, Agrees
  <2>2. CASE Next
    BY <1>2, <2>2, SelectingLoads, LoadingLoads, KillLoads, WorldLoads DEF Next
  <2> QED BY <1>2, <2>1, <2>2
<1> QED BY <1>1, <1>2, PTL DEF Spec

\* Every variable keeps its type; in particular a load past its reading of the
\* selection carries one of the two profiles (current_selection).
THEOREM SelectTypes == Spec => []TypeOK
<1>1. LInv => TypeOK  BY DEF LInv
<1> QED BY LoaderInductive, <1>1, PTL

\* A load that reports success has left in the PL what it says: no select, other
\* load, kill or failing device comes between its write and its verdict unseen.
THEOREM LoadsWhatItReports == Spec => LoadedWhatWasSelected
<1> DEFINE Verdict == \A l \in Loaders :
      pc[l] = "poll" /\ pc'[l] = "idle" /\ env' = env /\ pl \notin {"blank", "other"}
        => (pl = "stock") = (seen[l] = "stock")
<1>1. ASSUME LInv, [Next]_vars PROVE [Verdict]_vars
  BY <1>1 DEF LInv, Serialized, LoadOf, Agrees
<1> QED BY LoaderInductive, <1>1, PTL DEF Spec, LoadedWhatWasSelected
=============================================================================
