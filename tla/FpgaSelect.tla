----------------------------- MODULE FpgaSelect -----------------------------
(***************************************************************************)
(* web888-fpga-select: the persisted FPGA selection, the snapshot of the   *)
(* consented open bitstream, and the loader that programs the PL from      *)
(* them.  The script's `select' takes no lock and `load' takes one, each   *)
(* command is a sequence of file operations, and any of them may be cut    *)
(* short by a signal or by the power; meanwhile packages upgrade the       *)
(* artifact, the administrator edits the consent file, and the WebSDR and  *)
(* Red Pitaya stacks, which program the PL themselves, come and go.        *)
(*                                                                         *)
(* A bitstream is the digest of its file.  Renames are atomic and assumed  *)
(* durable in the order made.  consented, raced and overlap are history.   *)
(***************************************************************************)
EXTENDS Integers

CONSTANTS
  Selectors,  \* processes that run `select'
  Loaders,    \* processes that run `load'
  Digests,    \* versions of the open bitstream
  None,
  MaxOps,     \* bound: commands started
  MaxEnv      \* bound: upgrades, consents, other stacks' steps, kills, power cuts

Procs == Selectors \cup Loaders

ASSUME SelectAssumption ==
  /\ Selectors \cap Loaders = {}
  /\ None \notin Digests \cup Procs \cup {"stock", "ng", "empty", "blank", "other"}
  /\ Digests \cap {"stock", "ng", "blank", "other"} = {}
  /\ MaxOps \in Nat /\ MaxEnv \in Nat

VARIABLES
  sel,        \* the selection file: None before the first install, "empty" when truncated
  snap,       \* the staged snapshot
  src,        \* the artifact the firmware package has installed
  ack,        \* the digest the consent file authorizes
  pl,         \* what the PL is configured with; "blank": prog_done is 0
  other,      \* the unit state of a conflicting stack
  inst,       \* the step the package's postinst is at
  lock, dev,  \* who holds the loader's flock, who has /dev/xdevcfg open
  pc,         \* per process: the step it is at
  seen,       \* per process: the consent digest, or the selection, it has read
  tmp,        \* per process: its copy of the artifact
  consented,  \* every digest the consent file has named
  raced,      \* an upgrade has fallen between a digest check and the copy
  overlap,    \* two `select' commands have overlapped
  ops, env

files == <<sel, snap>>
world == <<src, ack, other, inst>>
procs == <<pc, seen, tmp>>
ghost == <<consented, raced, overlap>>
vars  == <<files, world, pl, lock, dev, procs, ghost, ops, env>>

Init ==
  /\ sel = None /\ snap = None
  /\ src \in Digests /\ ack = None
  /\ pl = "blank" /\ other = "inactive" /\ inst = "idle" /\ lock = None /\ dev = None
  /\ pc = [p \in Procs |-> "idle"]
  /\ seen = [p \in Procs |-> None] /\ tmp = [p \in Procs |-> None]
  /\ consented = {} /\ raced = FALSE /\ overlap = FALSE
  /\ ops = 0 /\ env = 0

Step(p, from, to) == pc[p] = from /\ pc' = [pc EXCEPT ![p] = to]
-----------------------------------------------------------------------------
(* select stock, select web888-ng-hf --experimental [--check]. *)

Select(s) ==
  /\ ops < MaxOps /\ ops' = ops + 1
  /\ Step(s, "idle", "ack") \/ Step(s, "idle", "persistStock")
  /\ overlap' = (overlap \/ \E q \in Selectors : pc[q] # "idle")
  /\ UNCHANGED <<files, world, pl, lock, dev, seen, tmp, consented, raced, env>>

\* The consent file must exist and authorize a digest.
ReadAck(s) ==
  /\ \/ ack # None /\ Step(s, "ack", "hash") /\ seen' = [seen EXCEPT ![s] = ack]
     \/ ack = None /\ Step(s, "ack", "idle") /\ seen' = seen
  /\ UNCHANGED <<files, world, pl, lock, dev, tmp, ghost, ops, env>>

\* Fault: any consent is consent to the artifact at hand.
HashAnything(s) ==
  /\ Step(s, "hash", "copy") \/ Step(s, "hash", "idle")
  /\ UNCHANGED <<files, world, pl, lock, dev, seen, tmp, ghost, ops, env>>

\* sha256sum of the artifact: a mismatch is refused, --check ends here anyway.
Hash(s) ==
  /\ \/ src = seen[s] /\ Step(s, "hash", "copy")
     \/ Step(s, "hash", "idle")
  /\ UNCHANGED <<files, world, pl, lock, dev, seen, tmp, ghost, ops, env>>

\* Fault: the selection is persisted before there is a snapshot.
CopyAfterPersist(s) ==
  /\ Step(s, "copy", "rename")
  /\ tmp' = [tmp EXCEPT ![s] = src] /\ sel' = "ng"
  /\ UNCHANGED <<snap, world, pl, lock, dev, seen, ghost, ops, env>>

Copy(s) ==
  /\ Step(s, "copy", "rename")
  /\ tmp' = [tmp EXCEPT ![s] = src]
  /\ UNCHANGED <<files, world, pl, lock, dev, seen, ghost, ops, env>>

Rename(s) ==
  /\ Step(s, "rename", "persistNg")
  /\ snap' = tmp[s]
  /\ UNCHANGED <<sel, world, pl, lock, dev, seen, tmp, ghost, ops, env>>

\* persist_selection, for either profile; stock then drops the snapshot.
Persist(s) ==
  /\ \/ Step(s, "persistNg", "idle") /\ sel' = "ng"
     \/ Step(s, "persistStock", "remove") /\ sel' = "stock"
  /\ UNCHANGED <<snap, world, pl, lock, dev, seen, tmp, ghost, ops, env>>

Remove(s) ==
  /\ Step(s, "remove", "idle")
  /\ snap' = None
  /\ UNCHANGED <<sel, world, pl, lock, dev, seen, tmp, ghost, ops, env>>
-----------------------------------------------------------------------------
(* load. *)

Load(l) ==
  /\ ops < MaxOps /\ ops' = ops + 1
  /\ Step(l, "idle", "lock")
  /\ UNCHANGED <<files, world, pl, lock, dev, seen, tmp, ghost, env>>

\* Fault: the loaders are not serialized.
LockAlways(l) ==
  /\ Step(l, "lock", "check") /\ lock' = lock
  /\ UNCHANGED <<files, world, pl, dev, seen, tmp, ghost, ops, env>>

\* flock -w 30.
Lock(l) ==
  /\ \/ lock = None /\ lock' = l /\ Step(l, "lock", "check")
     \/ lock # None /\ lock' = lock /\ Step(l, "lock", "idle")
  /\ UNCHANGED <<files, world, pl, dev, seen, tmp, ghost, ops, env>>

\* The script ends, well or badly, and its descriptors with it.
Exit(l) ==
  /\ pc' = [pc EXCEPT ![l] = "idle"]
  /\ lock' = IF lock = l THEN None ELSE lock
  /\ dev' = IF dev = l THEN None ELSE dev

\* conflicting_service sees units that are active, not ones on the way up or down.
CheckConflict(l) ==
  /\ \/ other # "active" /\ Step(l, "check", "select") /\ UNCHANGED <<lock, dev>>
     \/ other = "active" /\ pc[l] = "check" /\ Exit(l)
  /\ UNCHANGED <<files, world, pl, seen, tmp, ghost, ops, env>>

\* Fault: a missing selection file is read as nothing.
ReadSelectionRaw(l) ==
  /\ Step(l, "select", "verify")
  /\ seen' = [seen EXCEPT ![l] = sel]
  /\ UNCHANGED <<files, world, pl, lock, dev, tmp, ghost, ops, env>>

\* current_selection: a selection that was never made, or an empty file, is stock.
ReadSelection(l) ==
  /\ Step(l, "select", "verify")
  /\ seen' = [seen EXCEPT ![l] = IF sel \in {None, "empty"} THEN "stock" ELSE sel]
  /\ UNCHANGED <<files, world, pl, lock, dev, tmp, ghost, ops, env>>

Verify(l) ==
  /\ \/ /\ seen[l] = "stock" \/ snap # None
        /\ Step(l, "verify", "open") /\ UNCHANGED <<lock, dev>>
     \/ seen[l] = "ng" /\ snap = None /\ pc[l] = "verify" /\ Exit(l)
  /\ UNCHANGED <<files, world, pl, seen, tmp, ghost, ops, env>>

\* The shell opens /dev/xdevcfg for cat: exclusive, and it resets the PL.
OpenDev(l) ==
  /\ pc[l] = "open"
  /\ \/ dev = None /\ dev' = l /\ pl' = "blank" /\ Step(l, "open", "write") /\ lock' = lock
     \/ dev # None /\ pl' = pl /\ Exit(l)
  /\ UNCHANGED <<files, world, seen, tmp, ghost, ops, env>>

\* cat: the file is gone, the write fails, the PL takes the bitstream, or it
\* takes the bytes and does not come up.
Source(l) == IF seen[l] = "stock" THEN "stock" ELSE snap

Write(l) ==
  /\ pc[l] = "write"
  /\ \/ /\ Source(l) # None
        /\ pl' \in {Source(l), "blank"}
        /\ Step(l, "write", "poll") /\ dev' = None /\ lock' = lock
     \/ pl' = pl /\ Exit(l)
  /\ UNCHANGED <<files, world, seen, tmp, ghost, ops, env>>

\* prog_done is 1, or the timeout is reached without it.
Poll(l) ==
  /\ pc[l] = "poll"
  /\ Exit(l)
  /\ UNCHANGED <<files, world, pl, seen, tmp, ghost, ops, env>>
-----------------------------------------------------------------------------
(* What goes on around the script. *)

Happens == env < MaxEnv /\ env' = env + 1

\* The firmware package replaces the artifact (dpkg renames it into place).
Upgrade ==
  /\ Happens
  /\ src' \in Digests
  /\ raced' = (raced \/ \E s \in Selectors : pc[s] = "copy")
  /\ UNCHANGED <<files, ack, other, inst, pl, lock, dev, procs, consented, overlap, ops>>

\* The administrator writes the consent file, or removes it.
Consent ==
  /\ Happens
  /\ ack' \in Digests \cup {None}
  /\ consented' = consented \cup ({ack'} \ {None})
  /\ UNCHANGED <<files, src, other, inst, pl, lock, dev, procs, raced, overlap, ops>>

\* The package's postinst selects stock when there is no selection file: it tests,
\* truncates and writes.  A `select' in between renames its own file into place, and the
\* write then goes to the one that is gone.  dpkg, or the power, may cut it short.
PostInst ==
  /\ \/ inst = "idle" /\ sel = None /\ Happens /\ inst' = "truncate" /\ sel' = sel
     \/ inst = "truncate" /\ inst' = "write" /\ sel' = "empty" /\ env' = env
     \/ /\ inst = "write" /\ inst' = "idle" /\ env' = env
        /\ sel' = IF sel = "empty" THEN "stock" ELSE sel
     \/ inst # "idle" /\ Happens /\ inst' = "idle" /\ sel' = sel
  /\ UNCHANGED <<snap, src, ack, other, pl, lock, dev, procs, ghost, ops>>

\* A conflicting stack starts, programs the PL itself without the lock, stops.
OtherMoves ==
  /\ Happens
  /\ \/ other = "inactive"     /\ other' = "activating"   /\ pl' = pl
     \/ other = "activating"   /\ other' = "active"       /\ dev = None /\ pl' = "other"
     \/ other = "active"       /\ other' = "deactivating" /\ pl' = pl
     \/ other = "deactivating" /\ other' = "inactive"     /\ pl' = pl
  /\ UNCHANGED <<files, src, ack, inst, lock, dev, procs, ghost, ops>>

\* A process is killed between two of its steps.
Kill(p) ==
  /\ Happens
  /\ pc[p] # "idle" /\ Exit(p)
  /\ UNCHANGED <<files, world, pl, seen, tmp, ghost, ops>>

PowerCut ==
  /\ Happens
  /\ pc' = [p \in Procs |-> "idle"] /\ lock' = None /\ dev' = None
  /\ pl' = "blank" /\ other' = "inactive" /\ inst' = "idle"
  /\ UNCHANGED <<files, src, ack, seen, tmp, ghost, ops>>
-----------------------------------------------------------------------------
Selecting(s) ==
  \/ Select(s) \/ ReadAck(s) \/ Hash(s) \/ Copy(s) \/ Rename(s) \/ Persist(s) \/ Remove(s)

Loading(l) ==
  \/ Load(l) \/ Lock(l) \/ CheckConflict(l) \/ ReadSelection(l) \/ Verify(l)
  \/ OpenDev(l) \/ Write(l) \/ Poll(l)

Next ==
  \/ \E s \in Selectors : Selecting(s)
  \/ \E l \in Loaders : Loading(l)
  \/ \E p \in Procs : Kill(p)
  \/ Upgrade \/ Consent \/ PostInst \/ OtherMoves \/ PowerCut

Spec == Init /\ [][Next]_vars
-----------------------------------------------------------------------------
(* Properties. *)

SelectSteps == {"ack", "hash", "copy", "rename", "persistNg", "persistStock", "remove"}
LoadSteps == {"lock", "check", "select", "verify", "open", "write", "poll"}

TypeOK ==
  /\ sel \in {None, "empty", "stock", "ng"} /\ inst \in {"idle", "truncate", "write"}
  /\ snap \in Digests \cup {None}
  /\ src \in Digests /\ ack \in Digests \cup {None}
  /\ pl \in Digests \cup {"stock", "other", "blank"}
  /\ other \in {"inactive", "activating", "active", "deactivating"}
  /\ lock \in Loaders \cup {None} /\ dev \in Loaders \cup {None}
  /\ pc \in [Procs -> SelectSteps \cup LoadSteps \cup {"idle"}]
  /\ \A s \in Selectors : pc[s] \in SelectSteps \cup {"idle"}
  /\ \A l \in Loaders : pc[l] \in LoadSteps \cup {"idle"}
  /\ seen \in [Procs -> Digests \cup {None, "stock", "ng"}]
  /\ \A l \in Loaders : pc[l] \in {"verify", "open", "write", "poll"} => seen[l] \in {"stock", "ng"}
  /\ tmp \in [Procs -> Digests \cup {None}]
  /\ consented \subseteq Digests /\ raced \in BOOLEAN /\ overlap \in BOOLEAN
  /\ ops \in Nat /\ env \in Nat

\* Whatever instant the power fails or a command is killed at, a selection of the
\* open bitstream has its snapshot, so that the next load does not fail closed for
\* want of it; only overlapping selects, which take no lock, can lose it.
SnapshotWhenSelected == ~overlap /\ sel = "ng" => snap # None

\* Unless an upgrade falls between the digest check and the copy, no bitstream is
\* staged or in the PL that the administrator has not consented to by digest,
\* through any sequence of upgrades, consents, failed and killed commands.
ConsentedOnly == ~raced => {snap, pl} \cap Digests \subseteq consented

\* A load that reports success has left in the PL the profile it names, however selects,
\* other loads, kills and failing devices interleave; only another stack's own load, or a
\* later reset, can come between ("other", "blank").  It names the profile and no digest:
\* an open bitstream that replaced the snapshot after the selection was read is loaded
\* and reported all the same (ConsentedOnly is about its digest).
LoadedWhatWasSelected ==
  [][\A l \in Loaders :
       pc[l] = "poll" /\ pc'[l] = "idle" /\ env' = env /\ pl \notin {"blank", "other"}
         => (pl = "stock") = (seen[l] = "stock")]_vars
=============================================================================
