------------------------------ MODULE BootChain ------------------------------
(***************************************************************************)
(* What U-Boot finds on the card.  The kernel comes from /boot/zImage and, *)
(* when that cannot be loaded, from /boot/zImage.prev: two symlinks on the *)
(* rootfs that a hook of the kernel packages rotates (zz-web888-zimage).   *)
(* The boot files are on the FAT partition, where the postinst of          *)
(* web888-boot replaces them one by one, with one generation of backups.   *)
(* boot.cmd loads and falls back.                                          *)
(*                                                                         *)
(* The power fails at any moment: FAT entries that have not been synced    *)
(* are then on the card, not on it, or torn, each by itself; the links are *)
(* on a journalled file system and change in order.  A script may be       *)
(* killed and run again.  dpkg runs one script at a time.  uEnv.txt is     *)
(* taken to be written at once.                                            *)
(***************************************************************************)
EXTENDS Integers, Sequences

CONSTANTS
  N,          \* kernel versions, 1 .. N
  Files,      \* the boot files, in the order of the postinst
  None,
  MaxPayload, \* bound: versions of web888-boot
  MaxOps,     \* bound: installations and removals
  MaxFaults   \* bound: power cuts and kills

ASSUME BootAssumption ==
  /\ N \in Nat \ {0} /\ None \notin 0 .. N
  /\ Files \in Seq(STRING) /\ Files # <<>>
  /\ {MaxPayload, MaxOps, MaxFaults} \subseteq Nat

Kernels == 1 .. N
Slots   == (1 .. Len(Files)) \X {"main", "bak", "new"}

VARIABLES
  kind,       \* how each kernel fares: "good", "hangs", or "rejected" by U-Boot
  installed,  \* the versions whose /boot/vmlinuz- file is there
  cur, prev,  \* what zImage and zImage.prev name
  uenv,       \* kernel_file of uEnv.txt: a version, Zimage, or None: no uEnv.txt
  card, mem,  \* the FAT's files, as on the card and as programs see them
  dirty,      \* the slots not yet synced
  pc,         \* dpkg's next step
  krel,       \* the version the hook was called with
  file,       \* the boot file at hand
  payload,    \* the version of web888-boot
  running,    \* the kernel that runs, None while the power is off
  last,       \* history: the last kernel that came up, and by which name it was loaded
  since,      \* history: the versions the hook has been called with since
  thinned,    \* history: since, a kernel has been removed, or going back to it was cut short
  was,        \* history: the boot files when the payload came
  tries,      \* history: how often it has been configured
  hasty,      \* history: again after a kill before its files were synced
  ops, faults

links == <<installed, cur, prev>>
fat   == <<card, mem, dirty>>
dpkg  == <<pc, krel, file, payload>>
boots == <<last, since, thinned>>
gens  == <<was, tries, hasty>>
vars  == <<kind, links, uenv, fat, dpkg, running, boots, gens, ops, faults>>

\* A boot file on the card: the version of the payload it came with, or
Absent == -1
Torn   == -2

Whole(c) == c \notin {Absent, Torn}

\* kernel_file=zImage.
Zimage == 0

Init ==
  /\ kind \in [Kernels -> {"good", "hangs", "rejected"}] /\ kind[1] = "good"
  /\ installed = {1} /\ cur = 1 /\ prev = None /\ uenv \in {Zimage, None}
  /\ card = [s \in Slots |-> IF s[2] = "main" THEN 0 ELSE Absent]
  /\ mem = card /\ dirty = {}
  /\ pc = "idle" /\ krel = 1 /\ file = 1 /\ payload = 0
  /\ running = 1 /\ last = <<1, "zImage">> /\ since = {} /\ thinned = FALSE
  /\ was = [f \in 1 .. Len(Files) |-> 0] /\ tries = 1 /\ hasty = FALSE
  /\ ops = 0 /\ faults = 0

Step(from, to) == running # None /\ pc = from /\ pc' = to
Op == ops < MaxOps /\ ops' = ops + 1
-----------------------------------------------------------------------------
(* Kernel packages: zz-web888-zimage. *)

CallHook(v) == krel' = v /\ since' = since \cup {v}

\* A kernel is unpacked, or unpacked again, and its postinst calls the hook.
InstallKernel(v) ==
  /\ Step("idle", "rotate") /\ Op
  /\ installed' = installed \cup {v} /\ CallHook(v)
  /\ UNCHANGED <<kind, cur, prev, uenv, fat, file, payload, running, last, thinned, gens,
                 faults>>

\* Nothing looks after the links when a kernel is removed.
RemoveKernel(v) ==
  /\ running # None /\ pc = "idle" /\ Op
  /\ v \in installed /\ installed' = installed \ {v} /\ thinned' = TRUE
  /\ UNCHANGED <<kind, cur, prev, uenv, fat, dpkg, running, last, since, gens, faults>>

\* Fault: the kernel that is installed again becomes its own fallback.
RotateAlways ==
  /\ Step("rotate", "link") \/ Step("healRotate", "healLink")
  /\ prev' = IF cur # None THEN cur ELSE prev
  /\ UNCHANGED <<kind, installed, cur, uenv, fat, krel, file, payload, running, boots, gens,
                 ops, faults>>

\* The hook, called by a kernel package or by the postinst below: the current kernel
\* becomes the fallback, unless it is the one being installed, ...
Rotate ==
  /\ Step("rotate", "link") \/ Step("healRotate", "healLink")
  /\ prev' = IF cur \notin {None, krel} THEN cur ELSE prev
  /\ UNCHANGED <<kind, installed, cur, uenv, fat, krel, file, payload, running, boots, gens,
                 ops, faults>>

\* ... and the new one the current.
Link ==
  /\ Step("link", "idle") \/ Step("healLink", "check")
  /\ cur' = krel
  /\ UNCHANGED <<kind, installed, prev, uenv, fat, krel, file, payload, running, boots,
                 gens,
                 ops, faults>>
-----------------------------------------------------------------------------
(* web888-boot: postinst configure. *)

\* The package comes in a new version, or is configured once more.
Configure(p) ==
  /\ Step("idle", "heal") /\ Op
  /\ p \in {payload, payload + 1} /\ p <= MaxPayload
  /\ payload' = p /\ file' = 1
  /\ IF p = payload THEN was' = was /\ tries' = tries + 1
     ELSE was' = [f \in 1 .. Len(Files) |-> mem[<<f, "main">>]] /\ tries' = 1
  /\ hasty' = (hasty \/ dirty # {})
  /\ UNCHANGED <<kind, links, uenv, fat, krel, running, boots, faults>>

Latest(v) == v \in installed /\ \A u \in installed : u <= v

\* Fault: a link that is there counts, whatever it points to.
HealMissing ==
  /\ \/ \E v \in Kernels : Latest(v) /\ cur = None /\ Step("heal", "healRotate") /\ CallHook(v)
     \/ (cur # None \/ installed = {}) /\ Step("heal", "check") /\ UNCHANGED <<krel, since>>
  /\ UNCHANGED <<kind, links, uenv, fat, file, payload, running, last, thinned, gens, ops,
                 faults>>

\* No zImage, or one that points to nothing: the hook is called for the latest kernel.
Heal ==
  /\ \/ \E v \in Kernels :
          Latest(v) /\ cur \notin installed /\ Step("heal", "healRotate") /\ CallHook(v)
     \/ (cur \in installed \/ installed = {}) /\ Step("heal", "check")
        /\ UNCHANGED <<krel, since>>
  /\ UNCHANGED <<kind, links, uenv, fat, file, payload, running, last, thinned, gens, ops,
                 faults>>

\* boot.bin is on the FAT and the payload has its magic numbers, or nothing is written.
Check ==
  /\ Step("check", "bak") \/ Step("check", "idle")
  /\ UNCHANGED <<kind, links, uenv, fat, krel, file, payload, running, boots, gens, ops,
                 faults>>

Put(slot, c) ==
  /\ mem' = [mem EXCEPT ![<<file, slot>>] = c]
  /\ dirty' = dirty \cup {<<file, slot>>}

\* Fault: a backup that is there is kept.
BackupOnce ==
  /\ Step("bak", "new")
  /\ IF mem[<<file, "main">>] = Absent \/ mem[<<file, "bak">>] # Absent THEN UNCHANGED fat
     ELSE Put("bak", mem[<<file, "main">>]) /\ card' = card
  /\ UNCHANGED <<kind, links, uenv, krel, file, payload, running, boots, gens, ops, faults>>

\* install_boot_file: the file that is there is copied to .bak, the new one beside it, ...
Backup ==
  /\ Step("bak", "new")
  /\ IF mem[<<file, "main">>] = Absent THEN UNCHANGED fat
     ELSE Put("bak", mem[<<file, "main">>]) /\ card' = card
  /\ UNCHANGED <<kind, links, uenv, krel, file, payload, running, boots, gens, ops, faults>>

CopyNew ==
  /\ Step("new", "sync")
  /\ Put("new", payload) /\ card' = card
  /\ UNCHANGED <<kind, links, uenv, krel, file, payload, running, boots, gens, ops, faults>>

\* Fault: no sync before the rename.
SyncNot ==
  /\ Step("sync", "mv")
  /\ UNCHANGED <<kind, links, uenv, fat, krel, file, payload, running, boots, gens, ops,
                 faults>>

\* ... all is written to the card ...
Sync ==
  /\ Step("sync", "mv")
  /\ card' = mem /\ dirty' = {} /\ mem' = mem
  /\ UNCHANGED <<kind, links, uenv, krel, file, payload, running, boots, gens, ops, faults>>

\* ... and then the new file is renamed over the old one.
Rename ==
  /\ Step("mv", IF file < Len(Files) THEN "bak" ELSE "uenv")
  /\ mem' = [mem EXCEPT ![<<file, "main">>] = mem[<<file, "new">>], ![<<file, "new">>] = Absent]
  /\ dirty' = dirty \cup {<<file, "main">>, <<file, "new">>} /\ card' = card
  /\ file' = IF file < Len(Files) THEN file + 1 ELSE file
  /\ UNCHANGED <<kind, links, uenv, krel, payload, running, boots, gens, ops, faults>>

\* The default uEnv.txt only when there is none, and a last sync.
Finish ==
  /\ Step("uenv", "idle")
  /\ uenv' = IF uenv = None THEN Zimage ELSE uenv
  /\ card' = mem /\ dirty' = {} /\ mem' = mem
  /\ UNCHANGED <<kind, links, krel, file, payload, running, boots, gens, ops, faults>>
-----------------------------------------------------------------------------
(* The power, and U-Boot. *)

\* The administrator sets kernel_file, on the device or with a card reader.
EditEnv(k) ==
  /\ pc = "idle" /\ Op /\ uenv' = k
  /\ UNCHANGED <<kind, links, fat, dpkg, running, boots, gens, faults>>

\* Interrupted between its two links, the hook was on its way back to that kernel.
GoingBack == pc \in {"link", "healLink"} /\ krel = last[1]

\* A script is killed between two of its steps, or while it copies a file.
Kill ==
  /\ running # None /\ pc # "idle" /\ pc' = "idle"
  /\ faults < MaxFaults /\ faults' = faults + 1
  /\ \/ UNCHANGED <<mem, dirty>>
     \/ pc \in {"bak", "new"} /\ Put(pc, Torn)
  /\ thinned' = (thinned \/ GoingBack)
  /\ UNCHANGED <<kind, links, uenv, card, krel, file, payload, running, last, since, gens,
                 ops>>

\* What a killed script has left behind is written to the card after half a minute.
WriteBack ==
  /\ running # None /\ pc = "idle" /\ dirty # {}
  /\ card' = mem /\ dirty' = {} /\ mem' = mem
  /\ UNCHANGED <<kind, links, uenv, dpkg, running, boots, gens, ops, faults>>

\* The power is cut, or taken away on purpose: of what was not synced some is lost
\* and some torn.
PowerOff ==
  /\ running # None /\ running' = None /\ pc' = "idle"
  /\ faults < MaxFaults /\ faults' = faults + 1
  /\ \E lost, torn \in SUBSET dirty :
       card' = [s \in Slots |-> IF s \in torn THEN Torn
                                ELSE IF s \in lost THEN card[s] ELSE mem[s]]
  /\ mem' = card' /\ dirty' = {}
  /\ thinned' = (thinned \/ GoingBack)
  /\ UNCHANGED <<kind, links, uenv, krel, file, payload, last, since, gens, ops>>

\* U-Boot can load and start it.
Loads(k) == k \in installed /\ kind[k] # "rejected"

\* boot.cmd: kernel_file, then zImage.prev.  A kernel that hangs stays where it is.
Boot ==
  LET primary == IF uenv \in {None, Zimage} THEN cur ELSE uenv
      k == IF Loads(primary) THEN primary ELSE prev
      name == IF ~Loads(primary) THEN "zImage.prev"
              ELSE IF uenv \in {None, Zimage} THEN "zImage" ELSE "uEnv.txt"
  IN /\ running = None /\ \A f \in 1 .. Len(Files) : Whole(card[<<f, "main">>])
     /\ Loads(k) /\ kind[k] = "good"
     /\ running' = k /\ last' = <<k, name>> /\ since' = {} /\ thinned' = FALSE
     /\ UNCHANGED <<kind, links, uenv, fat, dpkg, gens, ops, faults>>
-----------------------------------------------------------------------------
Next ==
  \/ \E v \in Kernels : InstallKernel(v) \/ RemoveKernel(v) \/ EditEnv(v)
  \/ EditEnv(Zimage)
  \/ \E p \in 0 .. MaxPayload : Configure(p)
  \/ Rotate \/ Link \/ Heal \/ Check \/ Backup \/ CopyNew \/ Sync \/ Rename \/ Finish
  \/ Kill \/ WriteBack \/ PowerOff \/ Boot

Spec == Init /\ [][Next]_vars
-----------------------------------------------------------------------------
\* After any power cut each boot file or its backup is whole, so that a card with a
\* broken boot file can be repaired from itself; provided that the postinst, after a
\* kill, is not run again before its files have been written back.
BrickGuard ==
  running = None /\ ~hasty =>
    \A f \in 1 .. Len(Files) : Whole(card[<<f, "main">>]) \/ Whole(card[<<f, "bak">>])

\* The generation before is kept: until the package is configured a second time, the
\* file of before is on the card, in its place or as the backup, whenever the power fails.
OneGeneration ==
  running = None /\ ~hasty /\ tries <= 1 =>
    \A f \in 1 .. Len(Files) : was[f] \in {card[<<f, "main">>], card[<<f, "bak">>]}

\* Once web888-boot has looked at it, zImage can be loaded if any kernel is there.
LinkHealed ==
  pc \in {"check", "bak", "new", "sync", "mv", "uenv"} /\ installed # {} => cur \in installed

\* A bad kernel update stays recoverable: the kernel that was last started as zImage and
\* came up is still there as zImage or zImage.prev, however often it and one other
\* version are installed, reinstalled or cut short, if none is removed.  (Going back to
\* it has a moment when both links name the other one.)
FallbackKept ==
  last[2] = "zImage" /\ ~thinned /\ ~GoingBack
    /\ (\A a, b \in since \ {last[1]} : a = b) =>
    last[1] \in {cur, prev} \cap installed

TypeOK ==
  /\ kind \in [Kernels -> {"good", "hangs", "rejected"}]
  /\ installed \subseteq Kernels /\ {cur, prev} \subseteq Kernels \cup {None}
  /\ uenv \in Kernels \cup {Zimage, None}
  /\ card \in [Slots -> Int] /\ mem \in [Slots -> Int] /\ dirty \subseteq Slots
  /\ pc \in {"idle", "rotate", "link", "heal", "healRotate", "healLink", "check", "bak",
             "new", "sync", "mv", "uenv"}
  /\ krel \in Kernels /\ file \in 1 .. Len(Files) /\ payload \in Nat
  /\ running \in Kernels \cup {None}
  /\ last \in Kernels \X {"zImage", "zImage.prev", "uEnv.txt"}
  /\ since \subseteq Kernels /\ was \in [1 .. Len(Files) -> Int]
  /\ thinned \in BOOLEAN /\ hasty \in BOOLEAN
  /\ tries \in Nat /\ ops \in Nat /\ faults \in Nat
=============================================================================
