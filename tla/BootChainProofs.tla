--------------------------- MODULE BootChainProofs ---------------------------
(***************************************************************************)
(* Proofs about BootChain for any number of kernels, boot files, versions  *)
(* of the package, operations, power cuts and kills.                       *)
(***************************************************************************)
EXTENDS BootChain, TLAPS

\* The hook is at work; the postinst before it touches the FAT; while it replaces a file.
Hooking == {"rotate", "link", "healRotate", "healLink"}
Early   == {"heal", "healRotate", "healLink", "check"}
Copying == {"bak", "new", "sync"}

FileNumbers == 1 .. Len(Files)

\* At most one version besides the one that came up has been installed since.
OneOther == last[2] = "zImage" /\ ~thinned /\ \A a, b \in since \ {last[1]} : a = b

\* The current kernel is the good one or the other one, and when it is the other one,
\* the fallback is the good one.  The hook, between its links, has saved the current one
\* if it is about to replace it.
Fallback ==
  OneOther =>
    /\ since \cup {last[1]} \subseteq installed
    /\ cur \in {last[1]} \cup since
    /\ pc \in Hooking => krel \in since
    /\ cur # last[1] => prev = last[1] \/ GoingBack
    /\ pc \in {"link", "healLink"} /\ krel # cur => prev = cur

\* Kernels are not removed while dpkg configures another package.
Healed == LinkHealed /\ (pc \in {"healRotate", "healLink"} => krel \in installed)

\* Without power no script runs and nothing waits to be written; what is not dirty is
\* on the card.
Power ==
  /\ running = None => pc = "idle" /\ dirty = {}
  /\ \A s \in Slots : s \notin dirty => card[s] = mem[s]

\* The file f of this name is on the card for good.
Settled(f, name) == <<f, name>> \notin dirty /\ Whole(mem[<<f, name>>])

Safe(f) == Settled(f, "main") \/ Settled(f, "bak")

\* How the postinst goes about it: an original is on the card until its backup is.
Guarded ==
  /\ running # None => \A f \in FileNumbers : Whole(mem[<<f, "main">>])
  /\ pc \in {"sync", "mv"} => mem[<<file, "new">>] = payload
  /\ pc \in {"new", "sync", "mv"} => Whole(mem[<<file, "bak">>])
  /\ pc = "mv" => dirty = {}
  /\ pc \in Early => file = 1
  /\ ~hasty =>
       /\ pc \in Early => dirty = {}
       /\ pc \in Copying => \A f \in file .. Len(Files) : <<f, "main">> \notin dirty
       /\ \A f \in FileNumbers : Safe(f)

\* The generation before is on the card for good.
Kept(f) ==
  \E name \in {"main", "bak"} : <<f, name>> \notin dirty /\ mem[<<f, name>>] = was[f]

Generation ==
  /\ tries >= 1
  /\ ~hasty /\ tries = 1 =>
       /\ \A f \in FileNumbers : Kept(f)
       /\ pc \in Early \cup Copying \cup {"mv"} =>
            \A f \in file .. Len(Files) : mem[<<f, "main">>] = was[f]
       /\ pc \in {"new", "sync", "mv"} => mem[<<file, "bak">>] = was[file]

IInv == TypeOK /\ Fallback /\ Healed /\ Power /\ Guarded /\ Generation
-----------------------------------------------------------------------------
LEMMA InSlots ==
  ASSUME NEW f \in FileNumbers, NEW name \in {"main", "bak", "new"}
  PROVE  <<f, name>> \in Slots
BY DEF Slots, FileNumbers

\* What writing one slot does.
LEMMA Written ==
  ASSUME TypeOK, NEW slot \in {"main", "bak", "new"}, NEW c \in Int, Put(slot, c)
  PROVE  /\ mem' \in [Slots -> Int] /\ dirty' = dirty \cup {<<file, slot>>}
         /\ dirty' \subseteq Slots
         /\ mem'[<<file, slot>>] = c
         /\ \A s \in Slots : s # <<file, slot>> => mem'[s] = mem[s]
<1>1. <<file, slot>> \in Slots  BY InSlots DEF TypeOK, FileNumbers
<1>2. PICK s : s = <<file, slot>>  OBVIOUS
<1>3. mem \in [Slots -> Int] /\ dirty \subseteq Slots  BY DEF TypeOK
<1>4. mem' = [mem EXCEPT ![s] = c] /\ dirty' = dirty \cup {s}  BY <1>2 DEF Put
<1>. QED BY <1>1, <1>2, <1>3, <1>4

\* What the rename does.
LEMMA Renamed ==
  ASSUME TypeOK, Rename
  PROVE  /\ mem' \in [Slots -> Int]
         /\ dirty' = dirty \cup {<<file, "main">>, <<file, "new">>} /\ dirty' \subseteq Slots
         /\ mem'[<<file, "main">>] = mem[<<file, "new">>]
         /\ \A s \in Slots : s \notin {<<file, "main">>, <<file, "new">>} => mem'[s] = mem[s]
<1>1. PICK s : s = <<file, "main">>  OBVIOUS
<1>2. PICK t : t = <<file, "new">>  OBVIOUS
<1>3. s \in Slots /\ t \in Slots  BY <1>1, <1>2, InSlots DEF TypeOK, FileNumbers
<1>4. s # t  BY <1>1, <1>2
<1>5. mem \in [Slots -> Int] /\ dirty \subseteq Slots  BY DEF TypeOK
<1>6. mem' = [mem EXCEPT ![s] = mem[t], ![t] = Absent] /\ dirty' = dirty \cup {s, t}
  BY <1>1, <1>2 DEF Rename
<1>7. Absent \in Int  BY DEF Absent
<1>8. mem' \in [Slots -> Int] /\ mem'[s] = mem[t]
      /\ \A u \in Slots : u \notin {s, t} => mem'[u] = mem[u]
  BY <1>3, <1>4, <1>5, <1>6, <1>7
<1>. QED BY <1>1, <1>2, <1>3, <1>5, <1>6, <1>8

\* What writing the backup or the new file leaves alone.
LEMMA Touched ==
  ASSUME TypeOK, NEW slot \in {"bak", "new"}, NEW c \in Int, Put(slot, c)
  PROVE  /\ mem'[<<file, slot>>] = c
         /\ \A f \in FileNumbers : /\ mem'[<<f, "main">>] = mem[<<f, "main">>]
                                   /\ <<f, "main">> \in dirty' <=> <<f, "main">> \in dirty
         /\ \A f \in FileNumbers : f # file \/ slot = "new" =>
                                   /\ mem'[<<f, "bak">>] = mem[<<f, "bak">>]
                                   /\ <<f, "bak">> \in dirty' <=> <<f, "bak">> \in dirty
<1>1. /\ dirty' = dirty \cup {<<file, slot>>} /\ mem'[<<file, slot>>] = c
      /\ \A s \in Slots : s # <<file, slot>> => mem'[s] = mem[s]
  BY Written
<1>2. ASSUME NEW f \in FileNumbers
      PROVE  <<f, "main">> \in Slots /\ <<f, "bak">> \in Slots
  BY InSlots
<1>3. \A f \in FileNumbers : <<f, "main">> # <<file, slot>>  OBVIOUS
<1>4. \A f \in FileNumbers : f # file \/ slot = "new" => <<f, "bak">> # <<file, slot>>
  OBVIOUS
<1>. QED BY <1>1, <1>2, <1>3, <1>4

\* What the rename leaves alone.
LEMMA RenameTouches ==
  ASSUME TypeOK, Rename
  PROVE  /\ mem'[<<file, "main">>] = mem[<<file, "new">>]
         /\ \A f \in FileNumbers : f # file =>
                                   /\ mem'[<<f, "main">>] = mem[<<f, "main">>]
                                   /\ <<f, "main">> \in dirty' <=> <<f, "main">> \in dirty
         /\ \A f \in FileNumbers : /\ mem'[<<f, "bak">>] = mem[<<f, "bak">>]
                                   /\ <<f, "bak">> \in dirty' <=> <<f, "bak">> \in dirty
<1>1. /\ dirty' = dirty \cup {<<file, "main">>, <<file, "new">>}
      /\ mem'[<<file, "main">>] = mem[<<file, "new">>]
      /\ \A s \in Slots : s \notin {<<file, "main">>, <<file, "new">>} => mem'[s] = mem[s]
  BY Renamed
<1>2. ASSUME NEW f \in FileNumbers
      PROVE  <<f, "main">> \in Slots /\ <<f, "bak">> \in Slots
  BY InSlots
<1>3. \A f \in FileNumbers : f # file =>
                               <<f, "main">> \notin {<<file, "main">>, <<file, "new">>}
  OBVIOUS
<1>4. \A f \in FileNumbers : <<f, "bak">> \notin {<<file, "main">>, <<file, "new">>}
  OBVIOUS
<1>. QED BY <1>1, <1>2, <1>3, <1>4

\* A power cut leaves what is not dirty as it was.
LEMMA CutKeeps ==
  ASSUME TypeOK, PowerOff
  PROVE  dirty' = {} /\ \A s \in Slots : s \notin dirty => mem'[s] = mem[s]
<1>1. PICK lost \in SUBSET dirty, torn \in SUBSET dirty :
        card' = [s \in Slots |-> IF s \in torn THEN Torn
                                 ELSE IF s \in lost THEN card[s] ELSE mem[s]]
  BY DEF PowerOff
<1>. QED BY <1>1 DEF PowerOff

(* Types. *)

LEMMA TypeStep == BootAssumption /\ TypeOK /\ [Next]_vars => TypeOK'
<1>. SUFFICES ASSUME BootAssumption, TypeOK, [Next]_vars PROVE TypeOK'  OBVIOUS
<1>. USE DEF vars, links, fat, dpkg, boots, gens
<1>1. ASSUME NEW v \in Kernels, InstallKernel(v) PROVE TypeOK'
  BY <1>1 DEF TypeOK, BootAssumption, Kernels, Zimage, Absent, Torn, Step, Op,
     InstallKernel, CallHook
<1>2. ASSUME NEW v \in Kernels, RemoveKernel(v) PROVE TypeOK'
  BY <1>2 DEF TypeOK, BootAssumption, Kernels, Zimage, Absent, Torn, Step, Op, RemoveKernel
<1>3. ASSUME NEW k \in Kernels \cup {Zimage}, EditEnv(k) PROVE TypeOK'
  BY <1>3 DEF TypeOK, BootAssumption, Kernels, Zimage, Absent, Torn, Step, Op, EditEnv
<1>4. ASSUME NEW p \in 0 .. MaxPayload, Configure(p) PROVE TypeOK'
  <2>1. \A f \in 1 .. Len(Files) : mem[<<f, "main">>] \in Int
    BY InSlots DEF FileNumbers, TypeOK
  <2>2. was' \in [1 .. Len(Files) -> Int]  BY <1>4, <2>1 DEF Configure, TypeOK
  <2>3. file' \in 1 .. Len(Files)  BY <1>4 DEF Configure, BootAssumption
  <2>. QED BY <1>4, <2>2, <2>3 DEF TypeOK, Configure, Step, Op
<1>5. CASE Rotate
  BY <1>5 DEF TypeOK, BootAssumption, Kernels, Zimage, Absent, Torn, Step, Op, Rotate
<1>6. CASE Link
  BY <1>6 DEF TypeOK, BootAssumption, Kernels, Zimage, Absent, Torn, Step, Op, Link
<1>7. CASE Heal
  BY <1>7 DEF TypeOK, BootAssumption, Kernels, Zimage, Absent, Torn, Step, Op, Heal,
     CallHook
<1>8. CASE Check
  BY <1>8 DEF TypeOK, BootAssumption, Kernels, Zimage, Absent, Torn, Step, Op, Check
<1>9. CASE Backup
  <2>1. CASE mem[<<file, "main">>] = Absent  BY <1>9, <2>1 DEF Backup, TypeOK, Step
  <2>2. CASE mem[<<file, "main">>] # Absent
    <3>1. mem[<<file, "main">>] \in Int  BY InSlots DEF TypeOK, FileNumbers
    <3>2. Put("bak", mem[<<file, "main">>])  BY <1>9, <2>2 DEF Backup
    <3>3. mem' \in [Slots -> Int] /\ dirty' \subseteq Slots  BY <3>1, <3>2, Written
    <3>4. card' = card  BY <1>9, <2>2 DEF Backup
    <3>. QED BY <1>9, <3>3, <3>4 DEF Backup, TypeOK, Step
  <2>. QED BY <2>1, <2>2
<1>10. CASE CopyNew
  <2>1. payload \in Int  BY DEF TypeOK
  <2>2. mem' \in [Slots -> Int] /\ dirty' \subseteq Slots
    BY <1>10, <2>1, Written DEF CopyNew
  <2>. QED BY <1>10, <2>2 DEF CopyNew, TypeOK, Step
<1>11. CASE Sync
  BY <1>11 DEF TypeOK, BootAssumption, Kernels, Zimage, Absent, Torn, Step, Op, Sync
<1>12. CASE Rename
  <2>1. mem' \in [Slots -> Int] /\ dirty' \subseteq Slots  BY <1>12, Renamed
  <2>2. file' \in 1 .. Len(Files)  BY <1>12 DEF TypeOK, Rename, BootAssumption
  <2>3. pc' \in {"bak", "uenv"}  BY <1>12 DEF Rename, Step
  <2>. QED BY <1>12, <2>1, <2>2, <2>3 DEF TypeOK, Rename
<1>13. CASE Finish
  BY <1>13 DEF TypeOK, BootAssumption, Kernels, Zimage, Absent, Torn, Step, Op, Finish
<1>14. CASE Kill
  <2>1. mem' \in [Slots -> Int] /\ dirty' \subseteq Slots
    <3>1. CASE UNCHANGED <<mem, dirty>>  BY <3>1 DEF TypeOK
    <3>2. CASE pc \in {"bak", "new"} /\ Put(pc, Torn)  BY <3>2, Written DEF Torn
    <3>. QED BY <1>14, <3>1, <3>2 DEF Kill
  <2>2. thinned' \in BOOLEAN  BY <1>14 DEF Kill, TypeOK, GoingBack
  <2>. QED BY <1>14, <2>1, <2>2 DEF TypeOK, Kill
<1>15. CASE WriteBack
  BY <1>15 DEF TypeOK, BootAssumption, Kernels, Zimage, Absent, Torn, Step, Op, WriteBack
<1>16. CASE PowerOff
  BY <1>16 DEF TypeOK, BootAssumption, Kernels, Zimage, Absent, Torn, Step, Op, PowerOff,
     Slots, GoingBack
<1>17. CASE Boot
  BY <1>17 DEF TypeOK, BootAssumption, Kernels, Zimage, Absent, Torn, Step, Op, Boot, Loads
<1>18. CASE UNCHANGED vars
  BY <1>18 DEF TypeOK, BootAssumption, Kernels, Zimage, Absent, Torn, Step, Op
<1>. QED BY <1>1, <1>2, <1>3, <1>4, <1>5, <1>6, <1>7, <1>8, <1>9,
            <1>10, <1>11, <1>12, <1>13, <1>14, <1>15, <1>16, <1>17, <1>18 DEF Next

(* The kernels. *)

\* Each action keeps the fallback.  Rotate is the one that has to be looked at: it may
\* save the current kernel over the good one only on the way back to that one.
LEMMA FallbackStep ==
  BootAssumption /\ TypeOK /\ Power /\ Fallback /\ [Next]_vars => Fallback'
<1>. SUFFICES ASSUME BootAssumption, TypeOK, Power, Fallback, [Next]_vars PROVE Fallback' 
   OBVIOUS
<1>. USE DEF vars, links, fat, dpkg, boots, gens
<1>1. ASSUME NEW v \in Kernels, InstallKernel(v) PROVE Fallback'
  BY <1>1 DEF TypeOK, BootAssumption, Kernels, Fallback, OneOther, Power, Hooking,
     GoingBack, Step, Op, InstallKernel, CallHook
<1>2. ASSUME NEW v \in Kernels, RemoveKernel(v) PROVE Fallback'
  BY <1>2 DEF TypeOK, BootAssumption, Kernels, Fallback, OneOther, Power, Hooking,
     GoingBack, Step, Op, RemoveKernel
<1>3. ASSUME NEW k \in Kernels \cup {Zimage}, EditEnv(k) PROVE Fallback'
  BY <1>3 DEF TypeOK, BootAssumption, Kernels, Fallback, OneOther, Power, Hooking,
     GoingBack, Step, Op, EditEnv
<1>4. ASSUME NEW p \in 0 .. MaxPayload, Configure(p) PROVE Fallback'
  BY <1>4 DEF TypeOK, BootAssumption, Kernels, Fallback, OneOther, Power, Hooking,
     GoingBack, Step, Op, Configure
<1>5. CASE Rotate
  <2>. SUFFICES ASSUME OneOther' PROVE Fallback'  BY DEF Fallback
  <2>1. OneOther /\ last' = last /\ since' = since /\ installed' = installed /\ cur' = cur
        /\ krel' = krel
    BY <1>5 DEF Rotate, OneOther
  <2>2. /\ pc \in Hooking /\ pc' \in {"link", "healLink"} /\ ~GoingBack
        /\ prev' = IF cur # krel THEN cur ELSE prev
    <3>1. pc \in {"rotate", "healRotate"} /\ pc' \in {"link", "healLink"}
      BY <1>5 DEF Rotate, Step
    <3>2. last[1] \in Kernels /\ since \subseteq Kernels  BY DEF TypeOK
    <3>3. cur # None
      <4>1. cur \in Kernels  BY <2>1, <3>2 DEF Fallback
      <4>. QED BY <4>1 DEF BootAssumption, Kernels
    <3>4. prev' = IF cur # krel THEN cur ELSE prev  BY <1>5, <3>3 DEF Rotate
    <3>. QED BY <3>1, <3>4 DEF Hooking, GoingBack
  <2>3. krel \in since /\ (cur # last[1] => cur \in since /\ prev = last[1])
    BY <2>1, <2>2 DEF Fallback
  <2>4. cur # last[1] /\ prev' # last[1] => krel = last[1]
    BY <2>1, <2>2, <2>3 DEF OneOther
  <2>. QED BY <2>1, <2>2, <2>3, <2>4 DEF Fallback, GoingBack, Hooking
<1>6. CASE Link
  BY <1>6 DEF TypeOK, BootAssumption, Kernels, Fallback, OneOther, Power, Hooking,
     GoingBack, Step, Op, Link
<1>7. CASE Heal
  BY <1>7 DEF TypeOK, BootAssumption, Kernels, Fallback, OneOther, Power, Hooking,
     GoingBack, Step, Op, Heal, CallHook, Latest
<1>8. CASE Check
  BY <1>8 DEF TypeOK, BootAssumption, Kernels, Fallback, OneOther, Power, Hooking,
     GoingBack, Step, Op, Check
<1>9. CASE Backup
  BY <1>9 DEF TypeOK, BootAssumption, Kernels, Fallback, OneOther, Power, Hooking,
     GoingBack, Step, Op, Backup
<1>10. CASE CopyNew
  BY <1>10 DEF TypeOK, BootAssumption, Kernels, Fallback, OneOther, Power, Hooking,
     GoingBack, Step, Op, CopyNew
<1>11. CASE Sync
  BY <1>11 DEF TypeOK, BootAssumption, Kernels, Fallback, OneOther, Power, Hooking,
     GoingBack, Step, Op, Sync
<1>12. CASE Rename
  BY <1>12 DEF TypeOK, BootAssumption, Kernels, Fallback, OneOther, Power, Hooking,
     GoingBack, Step, Op, Rename
<1>13. CASE Finish
  BY <1>13 DEF TypeOK, BootAssumption, Kernels, Fallback, OneOther, Power, Hooking,
     GoingBack, Step, Op, Finish
<1>14. CASE Kill
  BY <1>14 DEF TypeOK, BootAssumption, Kernels, Fallback, OneOther, Power, Hooking,
     GoingBack, Step, Op, Kill
<1>15. CASE WriteBack
  BY <1>15 DEF TypeOK, BootAssumption, Kernels, Fallback, OneOther, Power, Hooking,
     GoingBack, Step, Op, WriteBack
<1>16. CASE PowerOff
  BY <1>16 DEF TypeOK, BootAssumption, Kernels, Fallback, OneOther, Power, Hooking,
     GoingBack, Step, Op, PowerOff
<1>17. CASE Boot
  BY <1>17 DEF TypeOK, BootAssumption, Kernels, Fallback, OneOther, Power, Hooking,
     GoingBack, Step, Op, Boot, Loads, Zimage
<1>18. CASE UNCHANGED vars
  BY <1>18 DEF TypeOK, BootAssumption, Kernels, Fallback, OneOther, Power, Hooking,
     GoingBack, Step, Op
<1>. QED BY <1>1, <1>2, <1>3, <1>4, <1>5, <1>6, <1>7, <1>8, <1>9,
            <1>10, <1>11, <1>12, <1>13, <1>14, <1>15, <1>16, <1>17, <1>18 DEF Next

\* Each action keeps the link whole.
LEMMA HealedStep == BootAssumption /\ TypeOK /\ Power /\ Healed /\ [Next]_vars => Healed'
<1>. SUFFICES ASSUME BootAssumption, TypeOK, Power, Healed, [Next]_vars PROVE Healed' 
   OBVIOUS
<1>. USE DEF vars, links, fat, dpkg, boots, gens
<1>1. ASSUME NEW v \in Kernels, InstallKernel(v) PROVE Healed'
  BY <1>1 DEF TypeOK, BootAssumption, Kernels, Healed, LinkHealed, Power, Step, Op,
     InstallKernel, CallHook
<1>2. ASSUME NEW v \in Kernels, RemoveKernel(v) PROVE Healed'
  BY <1>2 DEF TypeOK, BootAssumption, Kernels, Healed, LinkHealed, Power, Step, Op,
     RemoveKernel
<1>3. ASSUME NEW k \in Kernels \cup {Zimage}, EditEnv(k) PROVE Healed'
  BY <1>3 DEF TypeOK, BootAssumption, Kernels, Healed, LinkHealed, Power, Step, Op, EditEnv
<1>4. ASSUME NEW p \in 0 .. MaxPayload, Configure(p) PROVE Healed'
  BY <1>4 DEF TypeOK, BootAssumption, Kernels, Healed, LinkHealed, Power, Step, Op,
     Configure
<1>5. CASE Rotate
  BY <1>5 DEF TypeOK, BootAssumption, Kernels, Healed, LinkHealed, Power, Step, Op, Rotate
<1>6. CASE Link
  BY <1>6 DEF TypeOK, BootAssumption, Kernels, Healed, LinkHealed, Power, Step, Op, Link
<1>7. CASE Heal
  BY <1>7 DEF TypeOK, BootAssumption, Kernels, Healed, LinkHealed, Power, Step, Op, Heal,
     CallHook, Latest
<1>8. CASE Check
  BY <1>8 DEF TypeOK, BootAssumption, Kernels, Healed, LinkHealed, Power, Step, Op, Check
<1>9. CASE Backup
  BY <1>9 DEF TypeOK, BootAssumption, Kernels, Healed, LinkHealed, Power, Step, Op, Backup
<1>10. CASE CopyNew
  BY <1>10 DEF TypeOK, BootAssumption, Kernels, Healed, LinkHealed, Power, Step, Op, CopyNew
<1>11. CASE Sync
  BY <1>11 DEF TypeOK, BootAssumption, Kernels, Healed, LinkHealed, Power, Step, Op, Sync
<1>12. CASE Rename
  BY <1>12 DEF TypeOK, BootAssumption, Kernels, Healed, LinkHealed, Power, Step, Op, Rename
<1>13. CASE Finish
  BY <1>13 DEF TypeOK, BootAssumption, Kernels, Healed, LinkHealed, Power, Step, Op, Finish
<1>14. CASE Kill
  BY <1>14 DEF TypeOK, BootAssumption, Kernels, Healed, LinkHealed, Power, Step, Op, Kill
<1>15. CASE WriteBack
  BY <1>15 DEF TypeOK, BootAssumption, Kernels, Healed, LinkHealed, Power, Step, Op,
     WriteBack
<1>16. CASE PowerOff
  BY <1>16 DEF TypeOK, BootAssumption, Kernels, Healed, LinkHealed, Power, Step, Op,
     PowerOff
<1>17. CASE Boot
  BY <1>17 DEF TypeOK, BootAssumption, Kernels, Healed, LinkHealed, Power, Step, Op, Boot
<1>18. CASE UNCHANGED vars
  BY <1>18 DEF TypeOK, BootAssumption, Kernels, Healed, LinkHealed, Power, Step, Op
<1>. QED BY <1>1, <1>2, <1>3, <1>4, <1>5, <1>6, <1>7, <1>8, <1>9,
            <1>10, <1>11, <1>12, <1>13, <1>14, <1>15, <1>16, <1>17, <1>18 DEF Next

(* The boot files. *)

\* Each action that writes a file makes it dirty.
LEMMA PowerStep == BootAssumption /\ TypeOK /\ Power /\ [Next]_vars => Power'
<1>. SUFFICES ASSUME BootAssumption, TypeOK, Power, [Next]_vars PROVE Power'  OBVIOUS
<1>. USE DEF vars, links, fat, dpkg, boots, gens
<1>1. ASSUME NEW v \in Kernels, InstallKernel(v) PROVE Power'
  BY <1>1 DEF TypeOK, Power, Step, Op, InstallKernel
<1>2. ASSUME NEW v \in Kernels, RemoveKernel(v) PROVE Power'
  BY <1>2 DEF TypeOK, Power, Step, Op, RemoveKernel
<1>3. ASSUME NEW k \in Kernels \cup {Zimage}, EditEnv(k) PROVE Power'
  BY <1>3 DEF TypeOK, Power, Step, Op, EditEnv
<1>4. ASSUME NEW p \in 0 .. MaxPayload, Configure(p) PROVE Power'
  BY <1>4 DEF TypeOK, Power, Step, Op, Configure
<1>5. CASE Rotate  BY <1>5 DEF TypeOK, Power, Step, Op, Rotate
<1>6. CASE Link  BY <1>6 DEF TypeOK, Power, Step, Op, Link
<1>7. CASE Heal  BY <1>7 DEF TypeOK, Power, Step, Op, Heal
<1>8. CASE Check  BY <1>8 DEF TypeOK, Power, Step, Op, Check
<1>9. CASE Backup  BY <1>9 DEF TypeOK, Power, Step, Op, Backup, Put
<1>10. CASE CopyNew  BY <1>10 DEF TypeOK, Power, Step, Op, CopyNew, Put
<1>11. CASE Sync  BY <1>11 DEF TypeOK, Power, Step, Op, Sync
<1>12. CASE Rename  BY <1>12 DEF TypeOK, Power, Step, Op, Rename
<1>13. CASE Finish  BY <1>13 DEF TypeOK, Power, Step, Op, Finish
<1>14. CASE Kill  BY <1>14 DEF TypeOK, Power, Step, Op, Kill, Put
<1>15. CASE WriteBack  BY <1>15 DEF TypeOK, Power, Step, Op, WriteBack
<1>16. CASE PowerOff  BY <1>16 DEF TypeOK, Power, Step, Op, PowerOff
<1>17. CASE Boot  BY <1>17 DEF TypeOK, Power, Step, Op, Boot
<1>18. CASE UNCHANGED vars  BY <1>18 DEF TypeOK, Power, Step, Op
<1>. QED BY <1>1, <1>2, <1>3, <1>4, <1>5, <1>6, <1>7, <1>8, <1>9,
            <1>10, <1>11, <1>12, <1>13, <1>14, <1>15, <1>16, <1>17, <1>18 DEF Next

\* Each action leaves the original or its backup settled for every file.
LEMMA GuardedStep == BootAssumption /\ TypeOK /\ Power /\ Guarded /\ [Next]_vars => Guarded'
<1>. SUFFICES ASSUME BootAssumption, TypeOK, Power, Guarded, [Next]_vars PROVE Guarded' 
   OBVIOUS
<1>. USE DEF vars, links, fat, dpkg, boots, gens
<1>1. ASSUME NEW v \in Kernels, InstallKernel(v) PROVE Guarded'
  BY <1>1 DEF TypeOK, Power, Guarded, Safe, Settled, Early, Copying, FileNumbers, Step, Op,
     InstallKernel
<1>2. ASSUME NEW v \in Kernels, RemoveKernel(v) PROVE Guarded'
  BY <1>2 DEF TypeOK, Power, Guarded, Safe, Settled, Early, Copying, FileNumbers, Step, Op,
     RemoveKernel
<1>3. ASSUME NEW k \in Kernels \cup {Zimage}, EditEnv(k) PROVE Guarded'
  BY <1>3 DEF TypeOK, Power, Guarded, Safe, Settled, Early, Copying, FileNumbers, Step, Op,
     EditEnv
<1>4. ASSUME NEW p \in 0 .. MaxPayload, Configure(p) PROVE Guarded'
  BY <1>4 DEF TypeOK, Power, Guarded, Safe, Settled, Early, Copying, FileNumbers, Step, Op,
     Configure
<1>5. CASE Rotate
  BY <1>5 DEF TypeOK, Power, Guarded, Safe, Settled, Early, Copying, FileNumbers, Step, Op,
     Rotate
<1>6. CASE Link
  BY <1>6 DEF TypeOK, Power, Guarded, Safe, Settled, Early, Copying, FileNumbers, Step, Op,
     Link
<1>7. CASE Heal
  BY <1>7 DEF TypeOK, Power, Guarded, Safe, Settled, Early, Copying, FileNumbers, Step, Op,
     Heal
<1>8. CASE Check
  BY <1>8 DEF TypeOK, Power, Guarded, Safe, Settled, Early, Copying, FileNumbers, Step, Op,
     Check
<1>9. CASE Backup
  <2>1. /\ pc = "bak" /\ pc' = "new" /\ running # None /\ running' = running
        /\ file' = file /\ payload' = payload /\ hasty' = hasty
    BY <1>9 DEF Backup, Step
  <2>2. file \in FileNumbers /\ payload \in Nat  BY DEF TypeOK, FileNumbers
  <2>3. Whole(mem[<<file, "main">>]) /\ mem[<<file, "main">>] \in Int
    BY <2>1, <2>2, InSlots DEF Guarded, TypeOK
  <2>4. Put("bak", mem[<<file, "main">>])  BY <1>9, <2>3 DEF Backup, Whole
  <2>5. /\ mem'[<<file, "bak">>] = mem[<<file, "main">>]
        /\ \A f \in FileNumbers : /\ mem'[<<f, "main">>] = mem[<<f, "main">>]
                                  /\ <<f, "main">> \in dirty' <=> <<f, "main">> \in dirty
        /\ \A f \in FileNumbers : f # file =>
                                  /\ mem'[<<f, "bak">>] = mem[<<f, "bak">>]
                                  /\ <<f, "bak">> \in dirty' <=> <<f, "bak">> \in dirty
    BY <2>3, <2>4, Touched
  <2>6. ASSUME ~hasty, NEW f \in FileNumbers PROVE Safe(f)'
    <3>1. CASE f = file
      <4>1. f \in file .. Len(Files)  BY <2>2, <3>1 DEF FileNumbers
      <4>. QED BY <2>1, <2>3, <2>5, <2>6, <3>1, <4>1 DEF Guarded, Copying, Safe, Settled
    <3>2. CASE f # file  BY <2>5, <2>6, <3>2 DEF Guarded, Safe, Settled
    <3>. QED BY <3>1, <3>2
  <2>7. ASSUME ~hasty, NEW f \in file .. Len(Files) PROVE <<f, "main">> \notin dirty'
    <3>1. f \in FileNumbers  BY <2>2 DEF FileNumbers
    <3>. QED BY <2>1, <2>5, <2>7, <3>1 DEF Guarded, Copying
  <2>. QED BY <2>1, <2>2, <2>3, <2>5, <2>6, <2>7 DEF Guarded, Early
<1>10. CASE CopyNew
  <2>1. /\ pc = "new" /\ pc' = "sync" /\ running # None /\ running' = running
        /\ file' = file /\ payload' = payload /\ hasty' = hasty
    BY <1>10 DEF CopyNew, Step
  <2>2. file \in FileNumbers /\ payload \in Nat  BY DEF TypeOK, FileNumbers
  <2>3. Put("new", payload)  BY <1>10 DEF CopyNew
  <2>4. payload \in Int  BY <2>2
  <2>5. /\ mem'[<<file, "new">>] = payload
        /\ \A f \in FileNumbers : /\ mem'[<<f, "main">>] = mem[<<f, "main">>]
                                  /\ <<f, "main">> \in dirty' <=> <<f, "main">> \in dirty
        /\ \A f \in FileNumbers : /\ mem'[<<f, "bak">>] = mem[<<f, "bak">>]
                                  /\ <<f, "bak">> \in dirty' <=> <<f, "bak">> \in dirty
    BY <2>3, <2>4, Touched
  <2>6. ~hasty => \A f \in FileNumbers : Safe(f)'
    BY <2>5 DEF Guarded, Safe, Settled
  <2>7. ASSUME ~hasty, NEW f \in file .. Len(Files) PROVE <<f, "main">> \notin dirty'
    <3>1. f \in FileNumbers  BY <2>2 DEF FileNumbers
    <3>. QED BY <2>1, <2>5, <2>7, <3>1 DEF Guarded, Copying
  <2>. QED BY <2>1, <2>2, <2>5, <2>6, <2>7 DEF Guarded, Early
<1>11. CASE Sync
  BY <1>11 DEF TypeOK, Power, Guarded, Safe, Settled, Early, Copying, FileNumbers, Step,
     Op, Sync
<1>12. CASE Rename
  <2>1. /\ pc = "mv" /\ running # None /\ running' = running
        /\ payload' = payload /\ hasty' = hasty
        /\ (pc' = "bak" /\ file' = file + 1) \/ (pc' = "uenv" /\ file' = file)
    <3>1. /\ pc = "mv" /\ running # None /\ running' = running
          /\ payload' = payload /\ hasty' = hasty
      BY <1>12 DEF Rename, Step
    <3>2. pc' = IF file < Len(Files) THEN "bak" ELSE "uenv"  BY <1>12 DEF Rename, Step
    <3>3. file' = IF file < Len(Files) THEN file + 1 ELSE file  BY <1>12 DEF Rename
    <3>. QED BY <3>1, <3>2, <3>3
  <2>2. file \in FileNumbers /\ payload \in Nat  BY DEF TypeOK, FileNumbers
  <2>3. /\ mem'[<<file, "main">>] = mem[<<file, "new">>]
        /\ \A f \in FileNumbers : f # file =>
                                  /\ mem'[<<f, "main">>] = mem[<<f, "main">>]
                                  /\ <<f, "main">> \in dirty' <=> <<f, "main">> \in dirty
        /\ \A f \in FileNumbers : /\ mem'[<<f, "bak">>] = mem[<<f, "bak">>]
                                  /\ <<f, "bak">> \in dirty' <=> <<f, "bak">> \in dirty
    BY <1>12, RenameTouches
  <2>4. Whole(mem'[<<file, "main">>])
    BY <2>1, <2>2, <2>3 DEF Guarded, Whole, Absent, Torn
  <2>5. ASSUME NEW f \in FileNumbers PROVE Safe(f)'
    <3>1. CASE f = file  BY <2>1, <2>3, <3>1 DEF Guarded, Safe, Settled
    <3>2. CASE f # file
      <4>1. Whole(mem[<<f, "main">>]) /\ dirty = {}  BY <2>1 DEF Guarded
      <4>. QED BY <2>3, <3>2, <4>1 DEF Safe, Settled
    <3>. QED BY <3>1, <3>2
  <2>6. \A f \in FileNumbers : Whole(mem'[<<f, "main">>])
    BY <2>1, <2>3, <2>4 DEF Guarded
  <2>7. pc' = "bak" => \A f \in file' .. Len(Files) : <<f, "main">> \notin dirty'
    <3>1. file \in Int /\ Len(Files) \in Int  BY <2>2 DEF FileNumbers, BootAssumption
    <3>2. pc' = "bak" => \A f \in file' .. Len(Files) : f \in FileNumbers /\ f # file
      BY <2>1, <2>2, <3>1 DEF FileNumbers
    <3>. QED BY <2>1, <2>3, <3>2 DEF Guarded
  <2>. QED BY <2>1, <2>5, <2>6, <2>7 DEF Guarded, Early, Copying
<1>13. CASE Finish
  BY <1>13 DEF TypeOK, Power, Guarded, Safe, Settled, Early, Copying, FileNumbers, Step,
     Op, Finish
<1>14. CASE Kill
  <2>1. /\ pc' = "idle" /\ running # None /\ running' = running /\ hasty' = hasty
    BY <1>14 DEF Kill
  <2>2. CASE UNCHANGED <<mem, dirty>>
    BY <2>1, <2>2 DEF Guarded, Safe, Settled, Early, Copying
  <2>3. CASE pc \in {"bak", "new"} /\ Put(pc, Torn)
    <3>1. Torn \in Int  BY DEF Torn
    <3>2. \A f \in FileNumbers : /\ mem'[<<f, "main">>] = mem[<<f, "main">>]
                                 /\ <<f, "main">> \in dirty' <=> <<f, "main">> \in dirty
      BY <2>3, <3>1, Touched
    <3>3. \A f \in FileNumbers : f # file =>
                                 /\ mem'[<<f, "bak">>] = mem[<<f, "bak">>]
                                 /\ <<f, "bak">> \in dirty' <=> <<f, "bak">> \in dirty
      BY <2>3, <3>1, Touched
    <3>4. file \in FileNumbers  BY DEF TypeOK, FileNumbers
    <3>5. ASSUME ~hasty, NEW f \in FileNumbers PROVE Safe(f)'
      <4>1. CASE f = file
        <5>1. f \in file .. Len(Files)  BY <3>4, <4>1 DEF FileNumbers
        <5>. QED BY <2>1, <2>3, <3>2, <3>5, <4>1, <5>1 DEF Guarded, Copying, Safe, Settled
      <4>2. CASE f # file  BY <3>2, <3>3, <3>5, <4>2 DEF Guarded, Safe, Settled
      <4>. QED BY <4>1, <4>2
    <3>. QED BY <2>1, <3>2, <3>5 DEF Guarded, Early, Copying
  <2>. QED BY <1>14, <2>2, <2>3 DEF Kill
<1>15. CASE WriteBack
  BY <1>15 DEF TypeOK, Power, Guarded, Safe, Settled, Early, Copying, FileNumbers, Step,
     Op, WriteBack
<1>16. CASE PowerOff
  <2>1. running' = None /\ pc' = "idle" /\ hasty' = hasty  BY <1>16 DEF PowerOff
  <2>2. dirty' = {} /\ \A s \in Slots : s \notin dirty => mem'[s] = mem[s]
    BY <1>16, CutKeeps
  <2>3. ASSUME ~hasty, NEW f \in FileNumbers PROVE Safe(f)'
    <3>1. <<f, "main">> \in Slots /\ <<f, "bak">> \in Slots  BY InSlots
    <3>2. Safe(f)  BY <2>3 DEF Guarded
    <3>. QED BY <2>2, <3>1, <3>2 DEF Safe, Settled
  <2>. QED BY <2>1, <2>3 DEF Guarded, Early, Copying
<1>17. CASE Boot
  BY <1>17 DEF TypeOK, Power, Guarded, Safe, Settled, Early, Copying, FileNumbers, Step,
     Op, Boot
<1>18. CASE UNCHANGED vars
  BY <1>18 DEF TypeOK, Power, Guarded, Safe, Settled, Early, Copying, FileNumbers, Step, Op
<1>. QED BY <1>1, <1>2, <1>3, <1>4, <1>5, <1>6, <1>7, <1>8, <1>9,
            <1>10, <1>11, <1>12, <1>13, <1>14, <1>15, <1>16, <1>17, <1>18 DEF Next

\* Each action leaves the generation before settled for every file.
LEMMA GenerationStep ==
  BootAssumption /\ TypeOK /\ Power /\ Guarded /\ Generation /\ [Next]_vars => Generation'
<1>. SUFFICES ASSUME BootAssumption, TypeOK, Power, Guarded, Generation, [Next]_vars PROVE
   Generation'  OBVIOUS
<1>. USE DEF vars, links, fat, dpkg, boots, gens
<1>1. ASSUME NEW v \in Kernels, InstallKernel(v) PROVE Generation'
  BY <1>1 DEF TypeOK, Power, Generation, Kept, Early, Copying, FileNumbers, Step, Op,
     InstallKernel
<1>2. ASSUME NEW v \in Kernels, RemoveKernel(v) PROVE Generation'
  BY <1>2 DEF TypeOK, Power, Generation, Kept, Early, Copying, FileNumbers, Step, Op,
     RemoveKernel
<1>3. ASSUME NEW k \in Kernels \cup {Zimage}, EditEnv(k) PROVE Generation'
  BY <1>3 DEF TypeOK, Power, Generation, Kept, Early, Copying, FileNumbers, Step, Op,
     EditEnv
<1>4. ASSUME NEW p \in 0 .. MaxPayload, Configure(p) PROVE Generation'
  <2>. SUFFICES ASSUME ~hasty', tries' = 1
               PROVE  /\ \A f \in FileNumbers : Kept(f)'
                      /\ pc' \in Early \cup Copying \cup {"mv"} =>
                           \A f \in file' .. Len(Files) : mem'[<<f, "main">>] = was'[f]
                      /\ pc' \in {"new", "sync", "mv"} => mem'[<<file', "bak">>] = was'[file']
    <3>1. tries' >= 1  BY <1>4 DEF Configure, Generation, TypeOK
    <3>. QED BY <3>1 DEF Generation
  <2>1. /\ file' = 1 /\ hasty' = (hasty \/ dirty # {}) /\ pc' = "heal"
        /\ mem' = mem /\ dirty' = dirty
    BY <1>4 DEF Configure, Step
  <2>2. p # payload  BY <1>4 DEF Configure, Generation, TypeOK
  <2>3. was' = [f \in FileNumbers |-> mem[<<f, "main">>]]
    BY <1>4, <2>2 DEF Configure, FileNumbers
  <2>4. dirty = {}  BY <2>1
  <2>5. \A f \in FileNumbers : Kept(f)'  BY <2>1, <2>3, <2>4 DEF Kept
  <2>. QED BY <2>1, <2>3, <2>5 DEF FileNumbers
<1>5. CASE Rotate
  BY <1>5 DEF TypeOK, Power, Generation, Kept, Early, Copying, FileNumbers, Step, Op, Rotate
<1>6. CASE Link
  BY <1>6 DEF TypeOK, Power, Generation, Kept, Early, Copying, FileNumbers, Step, Op, Link
<1>7. CASE Heal
  BY <1>7 DEF TypeOK, Power, Generation, Kept, Early, Copying, FileNumbers, Step, Op, Heal
<1>8. CASE Check
  BY <1>8 DEF TypeOK, Power, Generation, Kept, Early, Copying, FileNumbers, Step, Op, Check
<1>9. CASE Backup
  <2>. SUFFICES ASSUME ~hasty, tries = 1
               PROVE  /\ \A f \in FileNumbers : Kept(f)'
                      /\ pc' \in Early \cup Copying \cup {"mv"} =>
                           \A f \in file' .. Len(Files) : mem'[<<f, "main">>] = was[f]
                      /\ pc' \in {"new", "sync", "mv"} => mem'[<<file', "bak">>] = was[file']
    BY <1>9 DEF Backup, Generation
  <2>0. was' = was  BY <1>9 DEF Backup
  <2>1. /\ pc = "bak" /\ pc' = "new" /\ running # None /\ running' = running
        /\ file' = file /\ payload' = payload /\ hasty' = hasty
    BY <1>9 DEF Backup, Step
  <2>2. file \in FileNumbers /\ payload \in Nat  BY DEF TypeOK, FileNumbers
  <2>3. Whole(mem[<<file, "main">>]) /\ mem[<<file, "main">>] \in Int
    BY <2>1, <2>2, InSlots DEF Guarded, TypeOK
  <2>4. Put("bak", mem[<<file, "main">>])  BY <1>9, <2>3 DEF Backup, Whole
  <2>5. /\ mem'[<<file, "bak">>] = mem[<<file, "main">>]
        /\ \A f \in FileNumbers : /\ mem'[<<f, "main">>] = mem[<<f, "main">>]
                                  /\ <<f, "main">> \in dirty' <=> <<f, "main">> \in dirty
        /\ \A f \in FileNumbers : f # file =>
                                  /\ mem'[<<f, "bak">>] = mem[<<f, "bak">>]
                                  /\ <<f, "bak">> \in dirty' <=> <<f, "bak">> \in dirty
    BY <2>3, <2>4, Touched
  <2>6. \A f \in file .. Len(Files) : f \in FileNumbers /\ mem'[<<f, "main">>] = was[f]
    <3>1. \A f \in file .. Len(Files) : f \in FileNumbers  BY <2>2 DEF FileNumbers
    <3>. QED BY <2>1, <2>5, <3>1 DEF Generation, Copying
  <2>7. file \in file .. Len(Files)  BY <2>2 DEF FileNumbers
  <2>8. mem'[<<file, "bak">>] = was[file]
    BY <2>1, <2>5, <2>7 DEF Generation, Copying
  <2>9. ASSUME NEW f \in FileNumbers PROVE Kept(f)'
    <3>1. CASE f = file
      <4>1. <<file, "main">> \notin dirty  BY <2>1, <2>7 DEF Guarded, Copying
      <4>2. mem[<<file, "main">>] = was[file]  BY <2>1, <2>7 DEF Generation, Copying
      <4>. QED BY <2>0, <2>5, <3>1, <4>1, <4>2 DEF Kept
    <3>2. CASE f # file  BY <2>0, <2>5, <3>2 DEF Generation, Kept
    <3>. QED BY <3>1, <3>2
  <2>. QED BY <2>1, <2>6, <2>8, <2>9
<1>10. CASE CopyNew
  <2>. SUFFICES ASSUME ~hasty, tries = 1
               PROVE  /\ \A f \in FileNumbers : Kept(f)'
                      /\ pc' \in Early \cup Copying \cup {"mv"} =>
                           \A f \in file' .. Len(Files) : mem'[<<f, "main">>] = was[f]
                      /\ pc' \in {"new", "sync", "mv"} => mem'[<<file', "bak">>] = was[file']
    BY <1>10 DEF CopyNew, Generation
  <2>0. was' = was  BY <1>10 DEF CopyNew
  <2>1. /\ pc = "new" /\ pc' = "sync" /\ running # None /\ running' = running
        /\ file' = file /\ payload' = payload /\ hasty' = hasty
    BY <1>10 DEF CopyNew, Step
  <2>2. file \in FileNumbers /\ payload \in Nat  BY DEF TypeOK, FileNumbers
  <2>3. Put("new", payload)  BY <1>10 DEF CopyNew
  <2>4. payload \in Int  BY <2>2
  <2>5. /\ mem'[<<file, "new">>] = payload
        /\ \A f \in FileNumbers : /\ mem'[<<f, "main">>] = mem[<<f, "main">>]
                                  /\ <<f, "main">> \in dirty' <=> <<f, "main">> \in dirty
        /\ \A f \in FileNumbers : /\ mem'[<<f, "bak">>] = mem[<<f, "bak">>]
                                  /\ <<f, "bak">> \in dirty' <=> <<f, "bak">> \in dirty
    BY <2>3, <2>4, Touched
  <2>6. \A f \in file .. Len(Files) : f \in FileNumbers /\ mem'[<<f, "main">>] = was[f]
    <3>1. \A f \in file .. Len(Files) : f \in FileNumbers  BY <2>2 DEF FileNumbers
    <3>. QED BY <2>1, <2>5, <3>1 DEF Generation, Copying
  <2>7. mem'[<<file, "bak">>] = was[file]  BY <2>1, <2>2, <2>5 DEF Generation
  <2>8. \A f \in FileNumbers : Kept(f)'  BY <2>0, <2>5 DEF Generation, Kept
  <2>. QED BY <2>1, <2>6, <2>7, <2>8
<1>11. CASE Sync
  BY <1>11 DEF TypeOK, Power, Generation, Kept, Early, Copying, FileNumbers, Step, Op, Sync
<1>12. CASE Rename
  <2>. SUFFICES ASSUME ~hasty, tries = 1
               PROVE  /\ \A f \in FileNumbers : Kept(f)'
                      /\ pc' \in Early \cup Copying \cup {"mv"} =>
                           \A f \in file' .. Len(Files) : mem'[<<f, "main">>] = was[f]
                      /\ pc' \in {"new", "sync", "mv"} => mem'[<<file', "bak">>] = was[file']
    BY <1>12 DEF Rename, Generation
  <2>0. was' = was  BY <1>12 DEF Rename
  <2>1. /\ pc = "mv" /\ running # None /\ running' = running
        /\ payload' = payload /\ hasty' = hasty
        /\ (pc' = "bak" /\ file' = file + 1) \/ (pc' = "uenv" /\ file' = file)
    <3>1. /\ pc = "mv" /\ running # None /\ running' = running
          /\ payload' = payload /\ hasty' = hasty
      BY <1>12 DEF Rename, Step
    <3>2. pc' = IF file < Len(Files) THEN "bak" ELSE "uenv"  BY <1>12 DEF Rename, Step
    <3>3. file' = IF file < Len(Files) THEN file + 1 ELSE file  BY <1>12 DEF Rename
    <3>. QED BY <3>1, <3>2, <3>3
  <2>2. file \in FileNumbers /\ payload \in Nat  BY DEF TypeOK, FileNumbers
  <2>3. /\ mem'[<<file, "main">>] = mem[<<file, "new">>]
        /\ \A f \in FileNumbers : f # file =>
                                  /\ mem'[<<f, "main">>] = mem[<<f, "main">>]
                                  /\ <<f, "main">> \in dirty' <=> <<f, "main">> \in dirty
        /\ \A f \in FileNumbers : /\ mem'[<<f, "bak">>] = mem[<<f, "bak">>]
                                  /\ <<f, "bak">> \in dirty' <=> <<f, "bak">> \in dirty
    BY <1>12, RenameTouches
  <2>4. dirty = {}  BY <2>1 DEF Guarded
  <2>5. \A f \in FileNumbers : Kept(f)'
    <3>1. ASSUME NEW f \in FileNumbers PROVE Kept(f)'
      <4>1. CASE f = file
        <5>1. mem[<<file, "bak">>] = was[file]  BY <2>1 DEF Generation
        <5>. QED BY <2>0, <2>3, <2>4, <4>1, <5>1 DEF Kept
      <4>2. CASE f # file  BY <2>0, <2>3, <4>2 DEF Generation, Kept
      <4>. QED BY <4>1, <4>2
    <3>. QED BY <3>1
  <2>6. pc' = "bak" => \A f \in file' .. Len(Files) : mem'[<<f, "main">>] = was[f]
    <3>1. file \in Int /\ Len(Files) \in Int  BY <2>2 DEF FileNumbers, BootAssumption
    <3>2. pc' = "bak" => \A f \in file' .. Len(Files) :
                           f \in FileNumbers /\ f # file /\ f \in file .. Len(Files)
      BY <2>1, <2>2, <3>1 DEF FileNumbers
    <3>3. \A f \in file .. Len(Files) : mem[<<f, "main">>] = was[f]
      BY <2>1 DEF Generation
    <3>. QED BY <2>3, <3>2, <3>3
  <2>. QED BY <2>1, <2>5, <2>6 DEF Early, Copying
<1>13. CASE Finish
  BY <1>13 DEF TypeOK, Power, Generation, Kept, Early, Copying, FileNumbers, Step, Op,
     Finish
<1>14. CASE Kill
  <2>. SUFFICES ASSUME ~hasty, tries = 1
               PROVE  /\ \A f \in FileNumbers : Kept(f)'
                      /\ pc' \in Early \cup Copying \cup {"mv"} =>
                           \A f \in file' .. Len(Files) : mem'[<<f, "main">>] = was[f]
                      /\ pc' \in {"new", "sync", "mv"} => mem'[<<file', "bak">>] = was[file']
    BY <1>14 DEF Kill, Generation
  <2>0. was' = was  BY <1>14 DEF Kill
  <2>1. /\ pc' = "idle" /\ running # None /\ running' = running /\ hasty' = hasty
    BY <1>14 DEF Kill
  <2>2. CASE UNCHANGED <<mem, dirty>>
    BY <2>0, <2>1, <2>2 DEF Generation, Kept, Early, Copying
  <2>3. CASE pc \in {"bak", "new"} /\ Put(pc, Torn)
    <3>1. Torn \in Int  BY DEF Torn
    <3>2. \A f \in FileNumbers : /\ mem'[<<f, "main">>] = mem[<<f, "main">>]
                                 /\ <<f, "main">> \in dirty' <=> <<f, "main">> \in dirty
      BY <2>3, <3>1, Touched
    <3>3. \A f \in FileNumbers : f # file =>
                                 /\ mem'[<<f, "bak">>] = mem[<<f, "bak">>]
                                 /\ <<f, "bak">> \in dirty' <=> <<f, "bak">> \in dirty
      BY <2>3, <3>1, Touched
    <3>4. file \in FileNumbers  BY DEF TypeOK, FileNumbers
    <3>5. ASSUME NEW f \in FileNumbers PROVE Kept(f)'
      <4>1. CASE f = file
        <5>1. f \in file .. Len(Files)  BY <3>4, <4>1 DEF FileNumbers
        <5>2. <<f, "main">> \notin dirty  BY <2>3, <5>1 DEF Guarded, Copying
        <5>3. mem[<<f, "main">>] = was[f]  BY <2>3, <5>1 DEF Generation, Copying
        <5>. QED BY <2>0, <3>2, <5>2, <5>3 DEF Kept
      <4>2. CASE f # file  BY <2>0, <3>2, <3>3, <4>2 DEF Generation, Kept
      <4>. QED BY <4>1, <4>2
    <3>. QED BY <2>1, <3>5 DEF Early, Copying
  <2>. QED BY <1>14, <2>2, <2>3 DEF Kill
<1>15. CASE WriteBack
  BY <1>15 DEF TypeOK, Power, Generation, Kept, Early, Copying, FileNumbers, Step, Op,
     WriteBack
<1>16. CASE PowerOff
  <2>. SUFFICES ASSUME ~hasty, tries = 1
               PROVE  /\ \A f \in FileNumbers : Kept(f)'
                      /\ pc' \in Early \cup Copying \cup {"mv"} =>
                           \A f \in file' .. Len(Files) : mem'[<<f, "main">>] = was[f]
                      /\ pc' \in {"new", "sync", "mv"} => mem'[<<file', "bak">>] = was[file']
    BY <1>16 DEF PowerOff, Generation
  <2>0. was' = was  BY <1>16 DEF PowerOff
  <2>1. pc' = "idle"  BY <1>16 DEF PowerOff
  <2>2. dirty' = {} /\ \A s \in Slots : s \notin dirty => mem'[s] = mem[s]
    BY <1>16, CutKeeps
  <2>3. ASSUME NEW f \in FileNumbers PROVE Kept(f)'
    <3>1. <<f, "main">> \in Slots /\ <<f, "bak">> \in Slots  BY InSlots
    <3>2. Kept(f)  BY DEF Generation
    <3>. QED BY <2>0, <2>2, <3>1, <3>2 DEF Kept
  <2>. QED BY <2>1, <2>3 DEF Early, Copying
<1>17. CASE Boot
  BY <1>17 DEF TypeOK, Power, Generation, Kept, Early, Copying, FileNumbers, Step, Op, Boot
<1>18. CASE UNCHANGED vars
  BY <1>18 DEF TypeOK, Power, Generation, Kept, Early, Copying, FileNumbers, Step, Op
<1>. QED BY <1>1, <1>2, <1>3, <1>4, <1>5, <1>6, <1>7, <1>8, <1>9,
            <1>10, <1>11, <1>12, <1>13, <1>14, <1>15, <1>16, <1>17, <1>18 DEF Next
-----------------------------------------------------------------------------
(* The theorems. *)

LEMMA InitHolds == BootAssumption /\ Init => IInv
<1>. SUFFICES ASSUME BootAssumption, Init PROVE IInv  OBVIOUS
<1>1. Len(Files) \in Nat /\ Len(Files) >= 1  BY DEF BootAssumption
<1>2. TypeOK
  <2>1. card \in [Slots -> Int] /\ mem \in [Slots -> Int] /\ dirty \subseteq Slots
    BY DEF Init, Absent
  <2>2. 1 \in Kernels /\ 1 \in 1 .. Len(Files)  BY <1>1 DEF Kernels, BootAssumption
  <2>3. was \in [1 .. Len(Files) -> Int]  BY DEF Init
  <2>4. last \in Kernels \X {"zImage", "zImage.prev", "uEnv.txt"}  BY <2>2 DEF Init
  <2>. QED BY <2>1, <2>2, <2>3, <2>4 DEF Init, TypeOK
<1>3. Fallback /\ Healed
  BY DEF Init, Fallback, Healed, LinkHealed, OneOther, Hooking
<1>4. Power  BY DEF Init, Power
<1>5. \A f \in FileNumbers : mem[<<f, "main">>] = 0 /\ was[f] = 0
  <2>1. \A f \in FileNumbers : <<f, "main">> \in Slots  BY InSlots
  <2>2. \A f \in FileNumbers : was[f] = 0  BY DEF Init, FileNumbers
  <2>. QED BY <2>1, <2>2 DEF Init
<1>6. Guarded
  <2>0. Whole(0)  BY DEF Whole, Absent, Torn
  <2>1. \A f \in FileNumbers : Safe(f) /\ Whole(mem[<<f, "main">>])
    BY <1>5, <2>0 DEF Init, Safe, Settled
  <2>. QED BY <2>1 DEF Init, Guarded, Early, Copying
<1>7. Generation
  <2>1. \A f \in FileNumbers : Kept(f)  BY <1>5 DEF Init, Kept
  <2>. QED BY <2>1 DEF Init, Generation, Early, Copying
<1>. QED BY <1>2, <1>3, <1>4, <1>6, <1>7 DEF IInv

\* The strengthened invariant of the boot chain is inductive, however many kernels,
\* boot files, installations, kills and power cuts there are.
THEOREM Inductive == Spec => []IInv
<1>1. Init => IInv  BY BootAssumption, InitHolds
<1>2. IInv /\ [Next]_vars => IInv'
  BY BootAssumption, TypeStep, FallbackStep, HealedStep, PowerStep, GuardedStep,
     GenerationStep DEF IInv
<1>. QED BY <1>1, <1>2, PTL DEF Spec

\* Links, files and the scripts' places keep their types.
THEOREM BootTypes == Spec => []TypeOK
<1>1. IInv => TypeOK  BY DEF IInv
<1>. QED BY <1>1, Inductive, PTL

\* A card on which a boot file is broken can be repaired from its own backup.
THEOREM BrickGuarded == Spec => []BrickGuard
<1>1. IInv => BrickGuard
  <2>. SUFFICES ASSUME IInv, running = None, ~hasty, NEW f \in FileNumbers
                PROVE  Whole(card[<<f, "main">>]) \/ Whole(card[<<f, "bak">>])
    BY DEF BrickGuard, FileNumbers
  <2>1. <<f, "main">> \in Slots /\ <<f, "bak">> \in Slots  BY InSlots
  <2>2. Safe(f) /\ dirty = {}  BY DEF IInv, Guarded, Power
  <2>. QED BY <2>1, <2>2 DEF IInv, Power, Safe, Settled
<1>. QED BY <1>1, Inductive, PTL

\* The files of before stay on the card until the package is configured once more.
THEOREM GenerationKept == Spec => []OneGeneration
<1>1. IInv => OneGeneration
  <2>. SUFFICES ASSUME IInv, running = None, ~hasty, tries <= 1, NEW f \in FileNumbers
                PROVE  was[f] \in {card[<<f, "main">>], card[<<f, "bak">>]}
    BY DEF OneGeneration, FileNumbers
  <2>1. <<f, "main">> \in Slots /\ <<f, "bak">> \in Slots  BY InSlots
  <2>2. tries = 1  BY DEF IInv, Generation, TypeOK
  <2>3. Kept(f) /\ dirty = {}  BY <2>2 DEF IInv, Generation, Power
  <2>. QED BY <2>1, <2>3 DEF IInv, Power, Kept
<1>. QED BY <1>1, Inductive, PTL

\* The postinst never leaves a zImage behind that names nothing while there is a kernel.
THEOREM LinkIsHealed == Spec => []LinkHealed
<1>1. IInv => LinkHealed  BY DEF IInv, Healed
<1>. QED BY <1>1, Inductive, PTL

\* The kernel that came up stays reachable through any series of installations of it
\* and one other version.
THEOREM FallbackIsKept == Spec => []FallbackKept
<1>1. IInv => FallbackKept  BY DEF IInv, Fallback, OneOther, FallbackKept
<1>. QED BY <1>1, Inductive, PTL
=============================================================================
