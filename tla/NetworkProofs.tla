--------------------------- MODULE NetworkProofs ---------------------------
(***************************************************************************)
(* What the two network helpers leave behind.  web888-netconfig: of the    *)
(* eth0 configuration and of resolv.conf, cut short anywhere, for any      *)
(* addresses and any number of requests and cuts.  web888-wificonfig: of   *)
(* wlan0 and of the key, with applies that fail half way and boots, for    *)
(* any number of applies, networks, requests and faults.                   *)
(***************************************************************************)
EXTENDS NetConfig, WifiConfig, TLAPS

\* The configuration is the one asked for.
Settled ==
  /\ asked \in Addrs \cup {"empty"} => static = asked /\ ~dhcp
  /\ asked = "dhcp" => static = None /\ dhcp

\* What the verb has reached when it is about to take its next step.
Reached ==
  /\ pc = "install" => asked \in Addrs \cup {"empty"} /\ stage = asked
  /\ pc \in {"unstage", "rmDhcp"} => asked \in Addrs \cup {"empty"} /\ static = asked
  /\ "empty" \in {static, stage, asked} => "static" \in full
  /\ pc \in {"ensure", "rmStatic"} => asked = "dhcp"
  /\ pc = "rmStatic" => dhcp
  /\ pc \in {"sync", "fill", "rmDns"} => Settled

\* Only an idle helper has run to its end.
DoneIsIdle == done => pc = "idle"

\* Between the truncation of resolv.conf and the removal of the staged one.
Resolving ==
  /\ pc = "fill" => stageDns # None
  /\ stageDns = "empty" => "dns" \in full
  /\ pc = "rmDns" => resolv # "cut"

IInv == TypeOK /\ SomeConfig /\ AsAsked /\ DnsRecoverable /\ Reached /\ DoneIsIdle /\ Resolving

LEMMA NamesAreNotMarks ==
  /\ None \notin Addrs \cup Names /\ None # "cut" /\ None # "empty"
  /\ "empty" \notin Addrs \cup Names
  /\ "dhcp" \notin Addrs /\ "dns" \notin Addrs /\ "cut" \notin Names /\ MaxCmds \in Nat /\ MaxCuts \in Nat
BY NetAssumption

LEMMA InitInv == Init => IInv
<1> SUFFICES ASSUME Init PROVE IInv
  OBVIOUS
<1>1. cmds \in 0 .. MaxCmds /\ cuts \in 0 .. MaxCuts
  BY NamesAreNotMarks DEF Init
<1>2. dhcp \in BOOLEAN /\ done \in BOOLEAN
  BY Zenon DEF Init
<1>3. TypeOK
  BY <1>1, <1>2 DEF Init, TypeOK
<1>4. Settled /\ pc = "idle" /\ resolv # "cut"
  BY NamesAreNotMarks DEF Init, Settled
<1>5. SomeConfig /\ AsAsked /\ DnsRecoverable
  BY <1>4 DEF Init, Settled, SomeConfig, AsAsked, DnsRecoverable
<1>6. Reached /\ DoneIsIdle /\ Resolving
  BY <1>4, NamesAreNotMarks DEF Init, Reached, DoneIsIdle, Resolving
<1>7. QED  BY <1>3, <1>5, <1>6 DEF IInv

\* A request begins a verb: what it stages is there when the helper comes to it.
LEMMA AskStaticInv ==
  ASSUME IInv, NEW a \in Addrs, AskStatic(a)
  PROVE  IInv'
<1>1. TypeOK'
  <2>1. (done \in BOOLEAN /\ dhcp \in BOOLEAN)'
    BY Zenon DEF IInv, TypeOK, AskStatic, Request, dns
  <2>2. cmds' \in 0 .. MaxCmds /\ cuts' \in 0 .. MaxCuts
    <3>1. cmds \in Nat /\ cmds < MaxCmds /\ cmds' = cmds + 1
      BY NamesAreNotMarks DEF IInv, TypeOK, AskStatic, Request
    <3>2. cuts' = cuts \/ (cuts < MaxCuts /\ cuts' = cuts + 1)
      BY DEF AskStatic, Cut
    <3>3. cuts \in 0 .. MaxCuts
      BY DEF IInv, TypeOK
    <3>4. QED  BY <3>1, <3>2, <3>3, NamesAreNotMarks
  <2>3. pc' \in {"idle", "install", "unstage", "rmDhcp", "ensure", "rmStatic", "sync",
                 "fill", "rmDns"} /\ asked' \in Addrs \cup {"empty", "dhcp", "dns"}
    BY DEF AskStatic, Request, Step
  <2>4. (static \in Addrs \cup {None, "empty"} /\ stage \in Addrs \cup {None, "empty"})'
    BY DEF IInv, TypeOK, AskStatic, Request, dns
  <2>5. (/\ resolv \in Names \cup {"empty", "cut"}
         /\ stageDns \in Names \cup {None, "empty"})'
    BY DEF IInv, TypeOK, AskStatic, Request, dns
  <2>6. full' \subseteq {"static", "dns"}
    BY DEF IInv, TypeOK, AskStatic
  <2>7. QED  BY <2>1, <2>2, <2>3, <2>4, <2>5, <2>6 DEF TypeOK
<1>2. (Reached /\ DoneIsIdle /\ Resolving)'
  BY NamesAreNotMarks
  DEF IInv, Reached, DoneIsIdle, Resolving, AskStatic, Request, Step, dns
<1>3. (SomeConfig /\ AsAsked /\ DnsRecoverable)'
  BY DEF IInv, SomeConfig, AsAsked, DnsRecoverable, AskStatic, Request, Step, dns
<1>4. QED  BY <1>1, <1>2, <1>3 DEF IInv

LEMMA AskDnsInv ==
  ASSUME IInv, NEW n \in Names, AskDns(n)
  PROVE  IInv'
<1>1. TypeOK'
  <2>1. (done \in BOOLEAN /\ dhcp \in BOOLEAN)'
    BY Zenon DEF IInv, TypeOK, AskDns, Request, eth0
  <2>2. cmds' \in 0 .. MaxCmds /\ cuts' \in 0 .. MaxCuts
    <3>1. cmds \in Nat /\ cmds < MaxCmds /\ cmds' = cmds + 1
      BY NamesAreNotMarks DEF IInv, TypeOK, AskDns, Request
    <3>2. cuts' = cuts \/ (cuts < MaxCuts /\ cuts' = cuts + 1)
      BY DEF AskDns, Cut
    <3>3. cuts \in 0 .. MaxCuts
      BY DEF IInv, TypeOK
    <3>4. QED  BY <3>1, <3>2, <3>3, NamesAreNotMarks
  <2>3. pc' \in {"idle", "install", "unstage", "rmDhcp", "ensure", "rmStatic", "sync",
                 "fill", "rmDns"} /\ asked' \in Addrs \cup {"empty", "dhcp", "dns"}
    BY DEF AskDns, Request, Step
  <2>4. (static \in Addrs \cup {None, "empty"} /\ stage \in Addrs \cup {None, "empty"})'
    BY DEF IInv, TypeOK, AskDns, eth0
  <2>5. (/\ resolv \in Names \cup {"empty", "cut"}
         /\ stageDns \in Names \cup {None, "empty"})'
    BY DEF IInv, TypeOK, AskDns, eth0
  <2>6. full' \subseteq {"static", "dns"}
    BY DEF IInv, TypeOK, AskDns
  <2>7. QED  BY <2>1, <2>2, <2>3, <2>4, <2>5, <2>6 DEF TypeOK
<1>2. (Reached /\ DoneIsIdle /\ Resolving)'
  <2>1. asked' = "dns" /\ full \subseteq full'
    BY DEF AskDns, Request
  <2>2. QED
    BY <2>1, NamesAreNotMarks
    DEF IInv, Reached, Settled, DoneIsIdle, Resolving, AskDns, Request, Step, eth0
<1>3. (SomeConfig /\ AsAsked /\ DnsRecoverable)'
  BY NamesAreNotMarks
  DEF IInv, SomeConfig, AsAsked, DnsRecoverable, AskDns, Request, Step, eth0
<1>4. QED  BY <1>1, <1>2, <1>3 DEF IInv

LEMMA AskDhcpInv == IInv /\ AskDhcp => IInv'
<1> SUFFICES ASSUME IInv, AskDhcp PROVE IInv'
  OBVIOUS
<1>1. TypeOK'
  <2>1. (done \in BOOLEAN /\ dhcp \in BOOLEAN)'
    BY Zenon DEF IInv, TypeOK, AskDhcp, Request, eth0, dns
  <2>2. cmds' \in 0 .. MaxCmds /\ cuts' \in 0 .. MaxCuts
    <3>1. cmds \in Nat /\ cmds < MaxCmds /\ cmds' = cmds + 1
      BY NamesAreNotMarks DEF IInv, TypeOK, AskDhcp, Request
    <3>2. cuts' = cuts \/ (cuts < MaxCuts /\ cuts' = cuts + 1)
      BY DEF AskDhcp
    <3>3. cuts \in 0 .. MaxCuts
      BY DEF IInv, TypeOK
    <3>4. QED  BY <3>1, <3>2, <3>3, NamesAreNotMarks
  <2>3. pc' \in {"idle", "install", "unstage", "rmDhcp", "ensure", "rmStatic", "sync",
                 "fill", "rmDns"} /\ asked' \in Addrs \cup {"empty", "dhcp", "dns"}
    BY DEF AskDhcp, Request, Step
  <2>4. (static \in Addrs \cup {None, "empty"} /\ stage \in Addrs \cup {None, "empty"})'
    BY DEF IInv, TypeOK, AskDhcp, eth0, dns
  <2>5. (/\ resolv \in Names \cup {"empty", "cut"}
         /\ stageDns \in Names \cup {None, "empty"})'
    BY DEF IInv, TypeOK, AskDhcp, eth0, dns
  <2>6. full' \subseteq {"static", "dns"}
    BY DEF IInv, TypeOK, AskDhcp
  <2>7. QED  BY <2>1, <2>2, <2>3, <2>4, <2>5, <2>6 DEF TypeOK
<1>2. (Reached /\ DoneIsIdle /\ Resolving)'
  BY DEF IInv, Reached, DoneIsIdle, Resolving, AskDhcp, Request, Step, eth0, dns
<1>3. (SomeConfig /\ AsAsked /\ DnsRecoverable)'
  BY DEF IInv, SomeConfig, AsAsked, DnsRecoverable, AskDhcp, Request, Step, eth0, dns
<1>4. QED  BY <1>1, <1>2, <1>3 DEF IInv

\* static: the new configuration is there before the DHCP one goes.
LEMMA StaticInv ==
  ASSUME IInv, Install \/ Unstage \/ RmDhcp
  PROVE  IInv'
<1>1. CASE Install
  <2>1. TypeOK'
    BY <1>1, NamesAreNotMarks DEF IInv, TypeOK, Install, Step, Cut, eth0, dns, past
  <2>2. (Reached /\ DoneIsIdle /\ Resolving)'
    BY <1>1, NamesAreNotMarks
    DEF IInv, Reached, Settled, DoneIsIdle, Resolving, TypeOK, Install, Step, Cut, eth0, dns, past
  <2>3. (SomeConfig /\ AsAsked /\ DnsRecoverable)'
    BY <1>1, NamesAreNotMarks
    DEF IInv, SomeConfig, AsAsked, DnsRecoverable, Reached, Settled, DoneIsIdle,
        Resolving, TypeOK, Install, Step, Cut, eth0, dns, past
  <2>4. QED  BY <2>1, <2>2, <2>3 DEF IInv
<1>2. CASE Unstage
  <2>1. TypeOK'
    BY <1>2, NamesAreNotMarks DEF IInv, TypeOK, Unstage, Step, Cut, eth0, dns, past
  <2>2. (Reached /\ DoneIsIdle /\ Resolving)'
    BY <1>2, NamesAreNotMarks
    DEF IInv, Reached, Settled, DoneIsIdle, Resolving, TypeOK, Unstage, Step, Cut, eth0, dns, past
  <2>3. (SomeConfig /\ AsAsked /\ DnsRecoverable)'
    BY <1>2, NamesAreNotMarks
    DEF IInv, SomeConfig, AsAsked, DnsRecoverable, Reached, Settled, DoneIsIdle,
        Resolving, TypeOK, Unstage, Step, Cut, eth0, dns, past
  <2>4. QED  BY <2>1, <2>2, <2>3 DEF IInv
<1>3. CASE RmDhcp
  <2>1. TypeOK'
    BY <1>3, NamesAreNotMarks DEF IInv, TypeOK, RmDhcp, Step, Cut, eth0, dns, past
  <2>2. (Reached /\ DoneIsIdle /\ Resolving)'
    BY <1>3, NamesAreNotMarks
    DEF IInv, Reached, Settled, DoneIsIdle, Resolving, TypeOK, RmDhcp, Step, Cut, eth0, dns, past
  <2>3. (SomeConfig /\ AsAsked /\ DnsRecoverable)'
    BY <1>3, NamesAreNotMarks
    DEF IInv, SomeConfig, AsAsked, DnsRecoverable, Reached, Settled, DoneIsIdle,
        Resolving, TypeOK, RmDhcp, Step, Cut, eth0, dns, past
  <2>4. QED  BY <2>1, <2>2, <2>3 DEF IInv
<1>4. QED  BY <1>1, <1>2, <1>3

\* dhcp: the DHCP configuration is there before the static one goes.
LEMMA DhcpInv ==
  ASSUME IInv, Ensure \/ RmStatic
  PROVE  IInv'
<1>1. CASE Ensure
  <2>1. TypeOK'
    BY <1>1, NamesAreNotMarks DEF IInv, TypeOK, Ensure, Step, Cut, eth0, dns, past
  <2>2. (Reached /\ DoneIsIdle /\ Resolving)'
    BY <1>1, NamesAreNotMarks
    DEF IInv, Reached, Settled, DoneIsIdle, Resolving, TypeOK, Ensure, Step, Cut, eth0, dns, past
  <2>3. (SomeConfig /\ AsAsked /\ DnsRecoverable)'
    BY <1>1, NamesAreNotMarks
    DEF IInv, SomeConfig, AsAsked, DnsRecoverable, Reached, Settled, DoneIsIdle,
        Resolving, TypeOK, Ensure, Step, Cut, eth0, dns, past
  <2>4. QED  BY <2>1, <2>2, <2>3 DEF IInv
<1>2. CASE RmStatic
  <2>1. TypeOK'
    BY <1>2, NamesAreNotMarks DEF IInv, TypeOK, RmStatic, Step, Cut, eth0, dns, past
  <2>2. (Reached /\ DoneIsIdle /\ Resolving)'
    BY <1>2, NamesAreNotMarks
    DEF IInv, Reached, Settled, DoneIsIdle, Resolving, TypeOK, RmStatic, Step, Cut, eth0, dns, past
  <2>3. (SomeConfig /\ AsAsked /\ DnsRecoverable)'
    BY <1>2, NamesAreNotMarks
    DEF IInv, SomeConfig, AsAsked, DnsRecoverable, Reached, Settled, DoneIsIdle,
        Resolving, TypeOK, RmStatic, Step, Cut, eth0, dns, past
  <2>4. QED  BY <2>1, <2>2, <2>3 DEF IInv
<1>3. QED  BY <1>1, <1>2

\* The end of every verb: the staged file outlives the writing of resolv.conf.
LEMMA ResolvInv ==
  ASSUME IInv, SyncNothing \/ Truncate \/ Fill \/ RmDns
  PROVE  IInv'
<1>1. CASE SyncNothing
  <2>1. TypeOK'
    BY <1>1, NamesAreNotMarks DEF IInv, TypeOK, SyncNothing, Step, Cut, eth0, dns, past
  <2>2. (Reached /\ DoneIsIdle /\ Resolving)'
    BY <1>1, NamesAreNotMarks
    DEF IInv, Reached, Settled, DoneIsIdle, Resolving, TypeOK, SyncNothing, Step, Cut, eth0, dns, past
  <2>3. (SomeConfig /\ AsAsked /\ DnsRecoverable)'
    BY <1>1, NamesAreNotMarks
    DEF IInv, SomeConfig, AsAsked, DnsRecoverable, Reached, Settled, DoneIsIdle,
        Resolving, TypeOK, SyncNothing, Step, Cut, eth0, dns, past
  <2>4. QED  BY <2>1, <2>2, <2>3 DEF IInv
<1>2. CASE Truncate
  <2>1. TypeOK'
    BY <1>2, NamesAreNotMarks DEF IInv, TypeOK, Truncate, Step, Cut, eth0, dns, past
  <2>2. (Reached /\ DoneIsIdle /\ Resolving)'
    BY <1>2, NamesAreNotMarks
    DEF IInv, Reached, Settled, DoneIsIdle, Resolving, TypeOK, Truncate, Step, Cut, eth0, dns, past
  <2>3. (SomeConfig /\ AsAsked /\ DnsRecoverable)'
    BY <1>2, NamesAreNotMarks
    DEF IInv, SomeConfig, AsAsked, DnsRecoverable, Reached, Settled, DoneIsIdle,
        Resolving, TypeOK, Truncate, Step, Cut, eth0, dns, past
  <2>4. QED  BY <2>1, <2>2, <2>3 DEF IInv
<1>3. CASE Fill
  <2>1. TypeOK'
    BY <1>3, NamesAreNotMarks DEF IInv, TypeOK, Resolving, Fill, Step, Cut, eth0, dns, past
  <2>2. (Reached /\ DoneIsIdle /\ Resolving)'
    BY <1>3, NamesAreNotMarks
    DEF IInv, Reached, Settled, DoneIsIdle, Resolving, TypeOK, Fill, Step, Cut, eth0, dns, past
  <2>3. (SomeConfig /\ AsAsked /\ DnsRecoverable)'
    BY <1>3, NamesAreNotMarks
    DEF IInv, SomeConfig, AsAsked, DnsRecoverable, Reached, Settled, DoneIsIdle,
        Resolving, TypeOK, Fill, Step, Cut, eth0, dns, past
  <2>4. QED  BY <2>1, <2>2, <2>3 DEF IInv
<1>4. CASE RmDns
  <2>1. TypeOK'
    BY <1>4, NamesAreNotMarks DEF IInv, TypeOK, RmDns, Step, Cut, eth0, dns, past
  <2>2. (Reached /\ DoneIsIdle /\ Resolving)'
    BY <1>4, NamesAreNotMarks
    DEF IInv, Reached, Settled, DoneIsIdle, Resolving, TypeOK, RmDns, Step, Cut, eth0, dns, past
  <2>3. (SomeConfig /\ AsAsked /\ DnsRecoverable)'
    BY <1>4, NamesAreNotMarks
    DEF IInv, SomeConfig, AsAsked, DnsRecoverable, Reached, Settled, DoneIsIdle,
        Resolving, TypeOK, RmDns, Step, Cut, eth0, dns, past
  <2>4. QED  BY <2>1, <2>2, <2>3 DEF IInv
<1>5. QED  BY <1>1, <1>2, <1>3, <1>4

\* A cut leaves an idle helper that has not run to its end.
LEMMA CutInv == IInv /\ Kill => IInv'
<1> SUFFICES ASSUME IInv, Kill PROVE IInv'
  OBVIOUS
<1>1. TypeOK'
  BY NamesAreNotMarks DEF IInv, TypeOK, Kill, Step, Cut, eth0, dns, past
<1>2. (Reached /\ DoneIsIdle /\ Resolving)'
  BY DEF IInv, Reached, DoneIsIdle, Resolving, Kill, eth0, dns, past
<1>3. (SomeConfig /\ AsAsked /\ DnsRecoverable)'
  BY DEF IInv, SomeConfig, AsAsked, DnsRecoverable, DoneIsIdle, Kill, eth0, dns, past
<1>4. QED  BY <1>1, <1>2, <1>3 DEF IInv

LEMMA Inductive == IInv /\ [Next]_vars => IInv'
<1> SUFFICES ASSUME IInv, [Next]_vars PROVE IInv'
  OBVIOUS
<1>1. ASSUME NEW a \in Addrs, AskStatic(a) PROVE IInv'
  BY <1>1, AskStaticInv
<1>2. ASSUME NEW n \in Names, AskDns(n) PROVE IInv'
  BY <1>2, AskDnsInv
<1>3. CASE AskDhcp
  BY <1>3, AskDhcpInv
<1>4. CASE Install \/ Unstage \/ RmDhcp
  BY <1>4, StaticInv
<1>5. CASE Ensure \/ RmStatic
  BY <1>5, DhcpInv
<1>6. CASE SyncNothing \/ Truncate \/ Fill \/ RmDns
  BY <1>6, ResolvInv
<1>7. CASE Kill
  BY <1>7, CutInv
<1>8. CASE UNCHANGED vars
  BY <1>8
  DEF IInv, TypeOK, SomeConfig, AsAsked, DnsRecoverable, Reached, Settled, DoneIsIdle,
      Resolving, vars, eth0, dns, past
<1>9. QED  BY <1>1, <1>2, <1>3, <1>4, <1>5, <1>6, <1>7, <1>8 DEF Next

LEMMA Always == Spec => []IInv
BY InitInv, Inductive, PTL DEF Spec

\* Whatever is cut short, eth0 has an address or DHCP at every instant, unless a staged
\* static file was left empty by a full disk.
THEOREM NeverWithoutConfig == Spec => []SomeConfig
BY Always, PTL DEF IInv

\* A verb that has run to its end leaves the one configuration asked for, whatever verbs
\* before it have left half done.
THEOREM EndsAsAsked == Spec => []AsAsked
BY Always, PTL DEF IInv

\* A truncated resolv.conf has its staged original, with contents unless the disk was full.
THEOREM ResolvRecoverable == Spec => []DnsRecoverable
BY Always, PTL DEF IInv

\* Files, marks and the helper's place keep their types.
THEOREM NetTypes == Spec => []TypeOK
BY Always, PTL DEF IInv
-----------------------------------------------------------------------------
(* The other helper, which shares no state with the first.  That the key tells the truth
   rests on how far an apply has come when it writes it, and, over boots, on hostapd being
   enabled only in the mode that needs it. *)

\* At most one apply.
OneApply == \A p, q \in Applies : step[p] # "idle" /\ step[q] # "idle" => p = q

\* What a running apply has reached, by the mode it applies.
ClientReached(p) ==
  /\ step[p] \notin {"enable", "restart", "remove"}
  /\ step[p] \in {"dropin", "clean", "disable", "up", "key"} => wpa = conf[p][2]
  /\ step[p] \in {"clean", "disable", "up", "key"} => dropin = "client"
  /\ step[p] \in {"disable", "up", "key"} => hostapd = Absent
  /\ step[p] \in {"up", "key"} => apd = Absent /\ ~enabled
  /\ step[p] \in {"config", "dropin", "clean", "disable", "up"} => (stuck \/ up = Absent)

ApReached(p) ==
  /\ step[p] \notin {"disable", "remove"}
  /\ step[p] \in {"dropin", "clean", "up", "enable", "restart", "key"} => hostapd = conf[p][2]
  /\ step[p] \in {"clean", "up", "enable", "restart", "key"} => dropin = "ap"
  /\ step[p] \in {"up", "enable", "restart", "key"} => wpa = Absent
  /\ step[p] \in {"restart", "key"} => enabled
  /\ step[p] = "key" => apd = conf[p][2]
  /\ step[p] \in {"config", "dropin", "clean", "up"} => (stuck \/ up = Absent)

OffReached(p) ==
  /\ step[p] \notin {"config", "dropin", "clean", "up", "enable", "restart"}
  /\ step[p] \in {"down", "remove", "key"} => apd = Absent /\ ~enabled
  /\ step[p] = "key" => dropin = Absent /\ wpa = Absent /\ hostapd = Absent
  /\ step[p] = "remove" => (stuck \/ up = Absent)

ApplyReached(p) ==
  step[p] # "idle" =>
    /\ conf[p][1] = "client" => ClientReached(p)
    /\ conf[p][1] = "ap" => ApReached(p)
    /\ conf[p][1] = "off" => OffReached(p)

\* A boot starts hostapd by the service alone, so that has to agree too.
InForce(k) == Installed(k) /\ enabled = (k[1] = "ap")
AtRest == Still /\ ~broken /\ key # Absent => InForce(key)

\* A mode that reads the staged file has one to read.
StagedFirst == \A p \in Applies : step[p] = "parse" /\ conf[p][1] # "off" => staged # Absent

\* Switching off installs nothing.
OffInstallsNothing ==
  \A p \in Applies :
    step[p] \in {"config", "dropin", "clean", "up", "enable", "restart"} => conf[p][1] # "off"

Orderly == OneApply /\ UpMatchesFiles /\ (\A p \in Applies : ApplyReached(p)) /\ AtRest
WInv    == WifiTypeOK /\ StagedFirst /\ OffInstallsNothing /\ (~overlap => Orderly)

LEMMA Modes ==
  ASSUME NEW k \in Confs
  PROVE  \/ k[1] \in {"client", "ap"} /\ k[2] \in Contents /\ k = <<k[1], k[2]>>
         \/ k[1] = "off" /\ k = <<"off", Absent>>
BY DEF Confs

LEMMA WantedIsConf ==
  ASSUME NEW v \in Verbs, NEW c, v # "off" => c \in Contents
  PROVE  Wanted(v, c) \in Confs /\ Wanted(v, c)[1] = v
BY DEF Verbs, Confs, Wanted

LEMMA WInit == WifiInit => WInv
<1> SUFFICES ASSUME WifiInit PROVE WInv
  OBVIOUS
<1>1. /\ enabled \in BOOLEAN /\ broken \in BOOLEAN /\ overlap \in BOOLEAN /\ lied \in BOOLEAN
  BY Zenon DEF WifiInit
<1>2. requests \in 0 .. MaxRequests /\ faults \in 0 .. MaxFaults
  BY WifiAssumption DEF WifiInit
<1>3. WifiTypeOK
  BY <1>1, <1>2 DEF WifiInit, WifiTypeOK, Confs
<1>4. \A p \in Applies : step[p] = "idle"
  BY DEF WifiInit
<1>5. StagedFirst /\ OffInstallsNothing /\ OneApply /\ \A p \in Applies : ApplyReached(p)
  BY <1>4 DEF StagedFirst, OffInstallsNothing, OneApply, ApplyReached
<1>6. UpMatchesFiles /\ AtRest
  BY DEF WifiInit, UpMatchesFiles, AtRest
<1>7. QED  BY <1>3, <1>5, <1>6 DEF WInv, Orderly

\* An apply that takes a step of its own is the only one, if none has overlapped.
LEMMA Others ==
  ASSUME WInv, ~overlap, NEW p \in Applies, NEW to,
         step[p] # "idle", step' = [step EXCEPT ![p] = to]
  PROVE  step'[p] = to /\ \A q \in Applies : q # p => step[q] = "idle" /\ step'[q] = "idle"
BY DEF WInv, Orderly, OneApply, WifiTypeOK

\* A step that does not end the apply: what is left to show is what it reaches.
LEMMA StepOn ==
  ASSUME WInv, NEW p \in Applies, NEW to, to # "idle", to # "parse",
         step[p] # "idle", step' = [step EXCEPT ![p] = to],
         \A q \in Applies : q # p => conf'[q] = conf[q],
         staged' = staged, overlap' = overlap, WifiTypeOK',
         to \in {"config", "dropin", "clean", "up", "enable", "restart"} => conf'[p][1] # "off",
         ~overlap => UpMatchesFiles' /\ ApplyReached(p)'
  PROVE  WInv'
<1>0. OffInstallsNothing'
  BY DEF OffInstallsNothing, WInv, WifiTypeOK
<1>1. StagedFirst'
  <2> SUFFICES ASSUME NEW q \in Applies, step'[q] = "parse", conf'[q][1] # "off"
               PROVE  staged # Absent
    BY DEF StagedFirst
  <2>1. q # p /\ step[q] = "parse"
    BY DEF WInv, WifiTypeOK
  <2>2. QED  BY <2>1 DEF WInv, StagedFirst
<1>2. ASSUME ~overlap PROVE Orderly'
  <2>1. step'[p] = to /\ \A q \in Applies : q # p => step'[q] = "idle"
    BY <1>2, Others
  <2>2. OneApply'
    BY <2>1 DEF OneApply
  <2>3. ASSUME NEW q \in Applies PROVE ApplyReached(q)'
    BY <1>2, <2>1 DEF ApplyReached
  <2>4. ~Still'
    BY <2>1 DEF Still
  <2>5. QED  BY <1>2, <2>2, <2>3, <2>4 DEF Orderly, AtRest
<1>3. QED  BY <1>0, <1>1, <1>2 DEF WInv

\* Phase 1: a skip leaves all as it is, a start makes one apply, or an overlap.
LEMMA AskWInv ==
  ASSUME WInv, NEW v \in Verbs, NEW c \in Contents, Ask(v, c)
  PROVE  WInv'
<1> USE DEF files, run
<1>0. Wanted(v, c) \in Confs /\ Wanted(v, c)[1] = v
  BY WantedIsConf
<1>1. /\ staged' \in Contents \cup {Absent} /\ (v # "off" => staged' # Absent)
      /\ (staged # Absent => staged' # Absent)
  BY WifiAssumption DEF Ask, WInv, WifiTypeOK
<1>2. requests' \in 0 .. MaxRequests
  BY WifiAssumption DEF Ask, WInv, WifiTypeOK
<1>3. /\ dropin' = dropin /\ wpa' = wpa /\ hostapd' = hostapd /\ enabled' = enabled
      /\ apd' = apd /\ up' = up /\ key' = key /\ broken' = broken /\ stuck' = stuck /\ faults' = faults
  BY DEF Ask
<1>4. CASE /\ key = Wanted(v, c) /\ lied' = (lied \/ (Still /\ ~Installed(key)))
           /\ UNCHANGED <<step, conf, overlap>>
  <2>1. lied' \in BOOLEAN
    BY <1>4, Zenon
  <2>2. WifiTypeOK'
    BY <1>1, <1>2, <1>3, <1>4, <2>1 DEF WInv, WifiTypeOK
  <2>3. StagedFirst' /\ OffInstallsNothing'
    BY <1>1, <1>4 DEF WInv, StagedFirst, OffInstallsNothing
  <2>4. ASSUME ~overlap PROVE Orderly'
    BY <1>3, <1>4, <2>4 DEF WInv, Orderly, OneApply, ApplyReached, ClientReached, ApReached,
       OffReached, AtRest, InForce, Installed, Still, UpMatchesFiles
  <2>5. QED  BY <1>4, <2>2, <2>3, <2>4 DEF WInv
<1>5. ASSUME NEW p \in Applies, lied' = lied, overlap' = (overlap \/ ~Still),
             Goto(p, "idle", "parse"), conf' = [conf EXCEPT ![p] = Wanted(v, c)]
      PROVE  WInv'
  <2>1. overlap' \in BOOLEAN /\ lied' \in BOOLEAN
    BY <1>5, Zenon DEF WInv, WifiTypeOK
  <2>2. step' = [step EXCEPT ![p] = "parse"] /\ step'[p] = "parse" /\ conf'[p] = Wanted(v, c)
    BY <1>5 DEF Goto, WInv, WifiTypeOK
  <2>3. WifiTypeOK'
    BY <1>0, <1>1, <1>2, <1>3, <1>5, <2>1, <2>2 DEF WInv, WifiTypeOK
  <2>4. StagedFirst'
    <3> SUFFICES ASSUME NEW q \in Applies, step'[q] = "parse", conf'[q][1] # "off"
                 PROVE  staged' # Absent
      BY DEF StagedFirst
    <3>1. CASE q = p
      BY <3>1, <1>0, <1>1, <2>2
    <3>2. CASE q # p
      <4>1. step[q] = "parse" /\ conf[q][1] # "off"
        BY <3>2, <1>5, <2>2 DEF WInv, WifiTypeOK
      <4>2. QED  BY <4>1, <1>1 DEF WInv, StagedFirst
    <3>3. QED  BY <3>1, <3>2
  <2>5. ASSUME ~overlap' PROVE Orderly'
    <3>1. ~overlap /\ Still
      BY <1>5, <2>5
    <3>2. \A q \in Applies : q # p => step'[q] = "idle"
      BY <2>2, <3>1 DEF Still, WInv, WifiTypeOK
    <3>3. OneApply' /\ ~Still'
      BY <2>2, <3>2 DEF OneApply, Still
    <3>4. UpMatchesFiles'
      BY <1>3, <3>1 DEF WInv, Orderly, UpMatchesFiles
    <3>5. ASSUME NEW q \in Applies PROVE ApplyReached(q)'
      BY <2>2, <3>2 DEF ApplyReached, ClientReached, ApReached, OffReached
    <3>6. QED  BY <3>3, <3>4, <3>5 DEF Orderly, AtRest
  <2>6. OffInstallsNothing'
    BY <1>5, <2>2 DEF WInv, OffInstallsNothing, WifiTypeOK
  <2>7. QED  BY <2>3, <2>4, <2>5, <2>6 DEF WInv
<1>6. QED  BY <1>4, <1>5 DEF Ask

\* What an apply, and wlan0, are before a step of an apply that none has overlapped.
LEMMA NotOff ==
  ASSUME WInv, ~overlap, NEW p \in Applies
  PROVE  /\ step[p] # "idle" => ApplyReached(p)
         /\ conf[p] \in Confs
         /\ UpMatchesFiles
BY DEF WInv, Orderly, WifiTypeOK

LEMMA ParseWInv ==
  ASSUME WInv, NEW p \in Applies, Parse(p)
  PROVE  WInv'
<1> DEFINE to == IF conf[p][1] = "off" THEN "disable" ELSE "down"
<1>1. /\ step[p] = "parse" /\ step' = [step EXCEPT ![p] = to] /\ step'[p] = to
      /\ to # "idle" /\ to # "parse" /\ staged' = staged /\ overlap' = overlap
  BY DEF Parse, Goto, WInv, WifiTypeOK, history
<1>2. conf'[p] \in Confs /\ conf'[p][1] = conf[p][1] /\ conf' \in [Applies -> Confs]
  <2>1. conf[p] \in Confs /\ conf[p][1] \in Verbs
    BY Modes DEF WInv, WifiTypeOK, Verbs
  <2>2. conf[p][1] # "off" => staged \in Contents
    BY <1>1 DEF WInv, StagedFirst, WifiTypeOK
  <2>3. Wanted(conf[p][1], staged) \in Confs /\ Wanted(conf[p][1], staged)[1] = conf[p][1]
    BY <2>1, <2>2, WantedIsConf
  <2>4. QED  BY <2>3 DEF Parse, WInv, WifiTypeOK
<1>3. WifiTypeOK'
  BY <1>1, <1>2, Modes DEF Parse, WInv, WifiTypeOK, files, run, history
<1>4. ASSUME ~overlap PROVE UpMatchesFiles' /\ ApplyReached(p)'
  BY <1>1, <1>2, <1>4, NotOff, Modes DEF Parse, files, run, history, UpMatchesFiles, ApplyReached,
     ClientReached, ApReached, OffReached
<1>5. \A q \in Applies : q # p => conf'[q] = conf[q]
  BY DEF Parse, WInv, WifiTypeOK
<1>6. to \in {"config", "dropin", "clean", "up", "enable", "restart"} => conf'[p][1] # "off"
  BY <1>1, <1>2 DEF WInv, OffInstallsNothing
<1> HIDE DEF to
<1>7. QED  BY <1>1, <1>3, <1>4, <1>5, <1>6, StepOn

LEMMA DownWInv ==
  ASSUME WInv, NEW p \in Applies, Down(p)
  PROVE  WInv'
<1> DEFINE to == IF conf[p][1] = "off" THEN "remove" ELSE "config"
<1>1. /\ step[p] = "down" /\ step' = [step EXCEPT ![p] = to] /\ step'[p] = to
      /\ to # "idle" /\ to # "parse" /\ staged' = staged /\ overlap' = overlap
  BY DEF Down, Goto, WInv, WifiTypeOK, history
<1>2. conf' = conf /\ conf[p] \in Confs
  BY DEF Down, WInv, WifiTypeOK
<1>3. WifiTypeOK'
  <2>1. up' \in {up, Absent} /\ stuck' \in {stuck, TRUE}
    BY DEF Down
  <2>2. faults' \in 0 .. MaxFaults
    BY WifiAssumption DEF Down, Fault, WInv, WifiTypeOK
  <2>3. stuck' \in BOOLEAN
    BY <2>1, Zenon DEF WInv, WifiTypeOK
  <2>4. QED  BY <1>1, <1>2, <2>1, <2>2, <2>3 DEF Down, WInv, WifiTypeOK, files
<1>4. ASSUME ~overlap PROVE UpMatchesFiles' /\ ApplyReached(p)'
  BY <1>1, <1>2, <1>4, NotOff, Modes DEF Down, files, run, history, UpMatchesFiles, ApplyReached,
     ClientReached, ApReached, OffReached
<1>5. \A q \in Applies : q # p => conf'[q] = conf[q]
  BY DEF Down, WInv, WifiTypeOK
<1>6. to \in {"config", "dropin", "clean", "up", "enable", "restart"} => conf'[p][1] # "off"
  BY <1>1, <1>2 DEF WInv, OffInstallsNothing
<1> HIDE DEF to
<1>7. QED  BY <1>1, <1>3, <1>4, <1>5, <1>6, StepOn

LEMMA ConfigWInv ==
  ASSUME WInv, NEW p \in Applies, Config(p)
  PROVE  WInv'
<1> DEFINE to == "dropin"
<1>1. /\ step[p] = "config" /\ step' = [step EXCEPT ![p] = to] /\ step'[p] = to
      /\ to # "idle" /\ to # "parse" /\ staged' = staged /\ overlap' = overlap
  BY DEF Config, Goto, WInv, WifiTypeOK, history
<1>2. conf' = conf /\ conf[p] \in Confs
  BY DEF Config, WInv, WifiTypeOK
<1>3. WifiTypeOK'
  BY <1>1, <1>2, Modes DEF Config, WInv, WifiTypeOK, files, run, history
<1>4. ASSUME ~overlap PROVE UpMatchesFiles' /\ ApplyReached(p)'
  BY <1>1, <1>2, <1>4, NotOff, Modes DEF Config, files, run, history, UpMatchesFiles, ApplyReached,
     ClientReached, ApReached, OffReached
<1>5. \A q \in Applies : q # p => conf'[q] = conf[q]
  BY DEF Config, WInv, WifiTypeOK
<1>6. to \in {"config", "dropin", "clean", "up", "enable", "restart"} => conf'[p][1] # "off"
  BY <1>1, <1>2 DEF WInv, OffInstallsNothing
<1> HIDE DEF to
<1>7. QED  BY <1>1, <1>3, <1>4, <1>5, <1>6, StepOn

LEMMA DropinWInv ==
  ASSUME WInv, NEW p \in Applies, Dropin(p)
  PROVE  WInv'
<1> DEFINE to == "clean"
<1>1. /\ step[p] = "dropin" /\ step' = [step EXCEPT ![p] = to] /\ step'[p] = to
      /\ to # "idle" /\ to # "parse" /\ staged' = staged /\ overlap' = overlap
  BY DEF Dropin, Goto, WInv, WifiTypeOK, history
<1>2. conf' = conf /\ conf[p] \in Confs
  BY DEF Dropin, WInv, WifiTypeOK
<1>3. WifiTypeOK'
  BY <1>1, <1>2, Modes DEF Dropin, WInv, OffInstallsNothing, WifiTypeOK, files, run, history
<1>4. ASSUME ~overlap PROVE UpMatchesFiles' /\ ApplyReached(p)'
  BY <1>1, <1>2, <1>4, NotOff, Modes DEF Dropin, files, run, history, UpMatchesFiles, ApplyReached,
     ClientReached, ApReached, OffReached
<1>5. \A q \in Applies : q # p => conf'[q] = conf[q]
  BY DEF Dropin, WInv, WifiTypeOK
<1>6. to \in {"config", "dropin", "clean", "up", "enable", "restart"} => conf'[p][1] # "off"
  BY <1>1, <1>2 DEF WInv, OffInstallsNothing
<1> HIDE DEF to
<1>7. QED  BY <1>1, <1>3, <1>4, <1>5, <1>6, StepOn

LEMMA CleanWInv ==
  ASSUME WInv, NEW p \in Applies, Clean(p)
  PROVE  WInv'
<1> DEFINE to == IF conf[p][1] = "client" THEN "disable" ELSE "up"
<1>1. /\ step[p] = "clean" /\ step' = [step EXCEPT ![p] = to] /\ step'[p] = to
      /\ to # "idle" /\ to # "parse" /\ staged' = staged /\ overlap' = overlap
  BY DEF Clean, Goto, WInv, WifiTypeOK, history
<1>2. conf' = conf /\ conf[p] \in Confs
  BY DEF Clean, WInv, WifiTypeOK
<1>3. WifiTypeOK'
  BY <1>1, <1>2, Modes DEF Clean, WInv, WifiTypeOK, files, run, history
<1>4. ASSUME ~overlap PROVE UpMatchesFiles' /\ ApplyReached(p)'
  BY <1>1, <1>2, <1>4, NotOff, Modes DEF Clean, files, run, history, UpMatchesFiles, ApplyReached,
     ClientReached, ApReached, OffReached
<1>5. \A q \in Applies : q # p => conf'[q] = conf[q]
  BY DEF Clean, WInv, WifiTypeOK
<1>6. to \in {"config", "dropin", "clean", "up", "enable", "restart"} => conf'[p][1] # "off"
  BY <1>1, <1>2 DEF WInv, OffInstallsNothing
<1> HIDE DEF to
<1>7. QED  BY <1>1, <1>3, <1>4, <1>5, <1>6, StepOn

LEMMA DisableWInv ==
  ASSUME WInv, NEW p \in Applies, Disable(p)
  PROVE  WInv'
<1> DEFINE to == IF conf[p][1] = "client" THEN "up" ELSE "down"
<1>1. /\ step[p] = "disable" /\ step' = [step EXCEPT ![p] = to] /\ step'[p] = to
      /\ to # "idle" /\ to # "parse" /\ staged' = staged /\ overlap' = overlap
  BY DEF Disable, Goto, WInv, WifiTypeOK, history
<1>2. conf' = conf /\ conf[p] \in Confs
  BY DEF Disable, WInv, WifiTypeOK
<1>3. WifiTypeOK'
  BY <1>1, <1>2, Modes DEF Disable, WInv, WifiTypeOK, files, run, history
<1>4. ASSUME ~overlap PROVE UpMatchesFiles' /\ ApplyReached(p)'
  BY <1>1, <1>2, <1>4, NotOff, Modes DEF Disable, files, run, history, UpMatchesFiles, ApplyReached,
     ClientReached, ApReached, OffReached
<1>5. \A q \in Applies : q # p => conf'[q] = conf[q]
  BY DEF Disable, WInv, WifiTypeOK
<1>6. to \in {"config", "dropin", "clean", "up", "enable", "restart"} => conf'[p][1] # "off"
  BY <1>1, <1>2 DEF WInv, OffInstallsNothing
<1> HIDE DEF to
<1>7. QED  BY <1>1, <1>3, <1>4, <1>5, <1>6, StepOn

LEMMA UpWInv ==
  ASSUME WInv, NEW p \in Applies, Up(p)
  PROVE  WInv'
<1> DEFINE to == IF conf[p][1] = "ap" THEN "enable" ELSE "key"
<1>1. /\ step[p] = "up" /\ step' = [step EXCEPT ![p] = to] /\ step'[p] = to
      /\ to # "idle" /\ to # "parse" /\ staged' = staged /\ overlap' = overlap
  BY DEF Up, Goto, WInv, WifiTypeOK, history
<1>2. conf' = conf /\ conf[p] \in Confs
  BY DEF Up, WInv, WifiTypeOK
<1>3. WifiTypeOK'
  BY <1>1, <1>2, Modes DEF Up, WInv, WifiTypeOK, files, run, history
<1>4. ASSUME ~overlap PROVE UpMatchesFiles' /\ ApplyReached(p)'
  BY <1>1, <1>2, <1>4, NotOff, Modes DEF Up, files, run, history, UpMatchesFiles, ApplyReached,
     ClientReached, ApReached, OffReached
<1>5. \A q \in Applies : q # p => conf'[q] = conf[q]
  BY DEF Up, WInv, WifiTypeOK
<1>6. to \in {"config", "dropin", "clean", "up", "enable", "restart"} => conf'[p][1] # "off"
  BY <1>1, <1>2 DEF WInv, OffInstallsNothing
<1> HIDE DEF to
<1>7. QED  BY <1>1, <1>3, <1>4, <1>5, <1>6, StepOn

LEMMA EnableWInv ==
  ASSUME WInv, NEW p \in Applies, Enable(p)
  PROVE  WInv'
<1> DEFINE to == "restart"
<1>1. /\ step[p] = "enable" /\ step' = [step EXCEPT ![p] = to] /\ step'[p] = to
      /\ to # "idle" /\ to # "parse" /\ staged' = staged /\ overlap' = overlap
  BY DEF Enable, Goto, WInv, WifiTypeOK, history
<1>2. conf' = conf /\ conf[p] \in Confs
  BY DEF Enable, WInv, WifiTypeOK
<1>3. WifiTypeOK'
  BY <1>1, <1>2, Modes DEF Enable, WInv, WifiTypeOK, files, run, history
<1>4. ASSUME ~overlap PROVE UpMatchesFiles' /\ ApplyReached(p)'
  BY <1>1, <1>2, <1>4, NotOff, Modes DEF Enable, files, run, history, UpMatchesFiles, ApplyReached,
     ClientReached, ApReached, OffReached
<1>5. \A q \in Applies : q # p => conf'[q] = conf[q]
  BY DEF Enable, WInv, WifiTypeOK
<1>6. to \in {"config", "dropin", "clean", "up", "enable", "restart"} => conf'[p][1] # "off"
  BY <1>1, <1>2 DEF WInv, OffInstallsNothing
<1> HIDE DEF to
<1>7. QED  BY <1>1, <1>3, <1>4, <1>5, <1>6, StepOn

LEMMA RestartWInv ==
  ASSUME WInv, NEW p \in Applies, Restart(p)
  PROVE  WInv'
<1> DEFINE to == "key"
<1>1. /\ step[p] = "restart" /\ step' = [step EXCEPT ![p] = to] /\ step'[p] = to
      /\ to # "idle" /\ to # "parse" /\ staged' = staged /\ overlap' = overlap
  BY DEF Restart, Goto, WInv, WifiTypeOK, history
<1>2. conf' = conf /\ conf[p] \in Confs
  BY DEF Restart, WInv, WifiTypeOK
<1>3. WifiTypeOK'
  BY <1>1, <1>2, Modes DEF Restart, WInv, WifiTypeOK, files, run, history
<1>4. ASSUME ~overlap PROVE UpMatchesFiles' /\ ApplyReached(p)'
  BY <1>1, <1>2, <1>4, NotOff, Modes DEF Restart, files, run, history, UpMatchesFiles, ApplyReached,
     ClientReached, ApReached, OffReached
<1>5. \A q \in Applies : q # p => conf'[q] = conf[q]
  BY DEF Restart, WInv, WifiTypeOK
<1>6. to \in {"config", "dropin", "clean", "up", "enable", "restart"} => conf'[p][1] # "off"
  BY <1>1, <1>2 DEF WInv, OffInstallsNothing
<1> HIDE DEF to
<1>7. QED  BY <1>1, <1>3, <1>4, <1>5, <1>6, StepOn

LEMMA RemoveWInv ==
  ASSUME WInv, NEW p \in Applies, Remove(p)
  PROVE  WInv'
<1> DEFINE to == "key"
<1>1. /\ step[p] = "remove" /\ step' = [step EXCEPT ![p] = to] /\ step'[p] = to
      /\ to # "idle" /\ to # "parse" /\ staged' = staged /\ overlap' = overlap
  BY DEF Remove, Goto, WInv, WifiTypeOK, history
<1>2. conf' = conf /\ conf[p] \in Confs
  BY DEF Remove, WInv, WifiTypeOK
<1>3. WifiTypeOK'
  BY <1>1, <1>2, Modes DEF Remove, WInv, WifiTypeOK, files, run, history
<1>4. ASSUME ~overlap PROVE UpMatchesFiles' /\ ApplyReached(p)'
  BY <1>1, <1>2, <1>4, NotOff, Modes DEF Remove, files, run, history, UpMatchesFiles, ApplyReached,
     ClientReached, ApReached, OffReached
<1>5. \A q \in Applies : q # p => conf'[q] = conf[q]
  BY DEF Remove, WInv, WifiTypeOK
<1>6. to \in {"config", "dropin", "clean", "up", "enable", "restart"} => conf'[p][1] # "off"
  BY <1>1, <1>2 DEF WInv, OffInstallsNothing
<1> HIDE DEF to
<1>7. QED  BY <1>1, <1>3, <1>4, <1>5, <1>6, StepOn

\* The key is written: what the apply has reached is in force.
LEMMA KeyWInv ==
  ASSUME WInv, NEW p \in Applies, Key(p)
  PROVE  WInv'
<1> USE DEF files, run
<1>1. step[p] = "key" /\ step' = [step EXCEPT ![p] = "idle"] /\ step'[p] = "idle" /\ key' = conf[p]
  BY DEF Key, Goto, WInv, WifiTypeOK
<1>2. /\ dropin' = dropin /\ wpa' = wpa /\ hostapd' = hostapd /\ enabled' = enabled /\ apd' = apd
      /\ up' = up /\ conf' = conf /\ staged' = staged /\ overlap' = overlap /\ conf[p] \in Confs
      /\ stuck' = stuck
  BY DEF Key, WInv, WifiTypeOK
<1>3. WifiTypeOK'
  BY <1>1, <1>2 DEF Key, WInv, WifiTypeOK
<1>4. StagedFirst' /\ OffInstallsNothing'
  BY <1>1, <1>2 DEF WInv, StagedFirst, OffInstallsNothing, WifiTypeOK
<1>5. ASSUME ~overlap PROVE Orderly'
  <2>1. \A q \in Applies : step'[q] = "idle"
    BY <1>1, <1>5, Others
  <2>2. OneApply' /\ \A q \in Applies : ApplyReached(q)'
    BY <2>1 DEF OneApply, ApplyReached
  <2>3. UpMatchesFiles'
    BY <1>2, <1>5, NotOff DEF UpMatchesFiles
  <2>4. ApplyReached(p)
    BY <1>1, <1>5, NotOff
  <2>5. InForce(conf[p])
    BY <1>1, <1>2, <2>4, Modes DEF ApplyReached, ClientReached, ApReached, OffReached, InForce, Installed,
       WInv, WifiTypeOK
  <2>6. AtRest'
    BY <1>1, <1>2, <2>5 DEF AtRest, InForce, Installed
  <2>7. QED  BY <2>2, <2>3, <2>6 DEF Orderly
<1>6. QED  BY <1>2, <1>3, <1>4, <1>5 DEF WInv

\* A step fails: the apply is over, and the key is not trusted until the next one.
LEMMA FailWInv ==
  ASSUME WInv, NEW p \in Applies, Fail(p)
  PROVE  WInv'
<1> USE DEF files, run
<1>1. step[p] # "idle" /\ step' = [step EXCEPT ![p] = "idle"] /\ step'[p] = "idle" /\ broken'
  BY DEF Fail, WInv, WifiTypeOK
<1>2. /\ dropin' = dropin /\ wpa' = wpa /\ hostapd' = hostapd /\ enabled' = enabled
      /\ up' \in {up, <<dropin, wpa>>} /\ conf' = conf /\ staged' = staged
      /\ overlap' = overlap /\ stuck' = stuck
  BY DEF Fail
<1>3. key' \in Confs \cup {Absent} /\ apd' \in Contents \cup {Absent} /\ faults' \in 0 .. MaxFaults
  BY WifiAssumption DEF Fail, Torn, Fault, WInv, WifiTypeOK
<1>4. WifiTypeOK'
  BY <1>1, <1>2, <1>3 DEF Fail, WInv, WifiTypeOK
<1>5. StagedFirst' /\ OffInstallsNothing'
  BY <1>1, <1>2 DEF WInv, StagedFirst, OffInstallsNothing, WifiTypeOK
<1>6. ASSUME ~overlap PROVE Orderly'
  <2>1. \A q \in Applies : step'[q] = "idle"
    BY <1>1, <1>6, Others
  <2>2. OneApply' /\ \A q \in Applies : ApplyReached(q)'
    BY <2>1 DEF OneApply, ApplyReached
  <2>3. UpMatchesFiles' /\ AtRest'
    BY <1>1, <1>2, <1>6, NotOff DEF UpMatchesFiles, AtRest
  <2>4. QED  BY <2>2, <2>3 DEF Orderly
<1>7. QED  BY <1>2, <1>4, <1>5, <1>6 DEF WInv

\* The board starts: what was in force at rest is in force again.
LEMMA BootWInv ==
  ASSUME WInv, Boot
  PROVE  WInv'
<1> USE DEF files, run
<1>1. /\ dropin' = dropin /\ wpa' = wpa /\ hostapd' = hostapd /\ enabled' = enabled
      /\ conf' = conf /\ staged' = staged /\ overlap' = overlap
      /\ step' = [p \in Applies |-> "idle"] /\ broken' = (broken \/ ~Still)
  BY DEF Boot
<1>2. key' \in {key, Absent} /\ (Still => key' = key)
  BY DEF Boot, Torn, Still
<1>3. faults' \in 0 .. MaxFaults /\ broken' \in BOOLEAN
  <2>1. faults' \in 0 .. MaxFaults
    BY WifiAssumption DEF Boot, Fault, WInv, WifiTypeOK
  <2>2. QED  BY <1>1, <2>1, Zenon
<1>4. WifiTypeOK'
  BY <1>1, <1>2, <1>3 DEF Boot, WInv, WifiTypeOK
<1>5. ASSUME ~overlap PROVE Orderly'
  <2>1. OneApply' /\ \A q \in Applies : ApplyReached(q)'
    BY <1>1 DEF OneApply, ApplyReached
  <2>2. UpMatchesFiles'
    BY <1>1 DEF Boot, UpMatchesFiles
  <2>3. ASSUME ~broken', key' # Absent PROVE InForce(key)'
    <3>1. Still /\ ~broken /\ key' = key
      BY <1>1, <1>2, <2>3
    <3>2. key \in Confs /\ InForce(key)
      BY <1>5, <2>3, <3>1 DEF WInv, Orderly, AtRest, WifiTypeOK
    <3>3. apd' = IF enabled THEN hostapd ELSE Absent
      BY DEF Boot
    <3>4. (enabled <=> key[1] = "ap") /\ Installed(key)
      BY <3>2 DEF InForce
    <3>5. Installed(key)'
      BY <1>1, <3>1, <3>2, <3>3, <3>4, Modes DEF Installed
    <3>6. enabled' = (key'[1] = "ap")
      BY <1>1, <3>1, <3>2 DEF InForce
    <3>7. QED  BY <3>5, <3>6 DEF InForce
  <2>4. AtRest'
    BY <2>3 DEF AtRest
  <2>5. QED  BY <2>1, <2>2, <2>4 DEF Orderly
<1>6. QED  BY <1>1, <1>4, <1>5 DEF WInv, StagedFirst, OffInstallsNothing

LEMMA WNext ==
  ASSUME WInv, [WifiNext]_wifi
  PROVE  WInv'
<1>1. CASE WifiNext
  <2>1. CASE \E v \in Verbs, c \in Contents : Ask(v, c)
    BY <2>1, AskWInv
  <2>2. ASSUME NEW p \in Applies, Apply(p) PROVE WInv'
    BY <2>2, ParseWInv, DownWInv, ConfigWInv, DropinWInv, CleanWInv, DisableWInv, UpWInv,
       EnableWInv, RestartWInv, RemoveWInv, KeyWInv DEF Apply
  <2>3. ASSUME NEW p \in Applies, Fail(p) PROVE WInv'
    BY <2>3, FailWInv
  <2>4. CASE Boot
    BY <2>4, BootWInv
  <2>5. QED  BY <1>1, <2>1, <2>2, <2>3, <2>4 DEF WifiNext
<1>2. CASE UNCHANGED wifi
  <2>1. /\ staged' = staged /\ dropin' = dropin /\ wpa' = wpa /\ hostapd' = hostapd /\ enabled' = enabled
        /\ apd' = apd /\ up' = up /\ key' = key /\ step' = step /\ conf' = conf /\ broken' = broken
        /\ overlap' = overlap /\ stuck' = stuck /\ lied' = lied /\ requests' = requests /\ faults' = faults
    BY <1>2 DEF wifi, files, run, history
  <2>2. WifiTypeOK' /\ StagedFirst' /\ OffInstallsNothing'
    BY <2>1 DEF WInv, WifiTypeOK, StagedFirst, OffInstallsNothing
  <2>3. OneApply' = OneApply /\ UpMatchesFiles' = UpMatchesFiles /\ AtRest' = AtRest
    BY <2>1 DEF OneApply, UpMatchesFiles, AtRest, InForce, Installed, Still
  <2>4. ASSUME NEW p \in Applies PROVE ApplyReached(p)' = ApplyReached(p)
    BY <2>1 DEF ApplyReached, ClientReached, ApReached, OffReached
  <2>5. Orderly => Orderly'
    BY <2>3, <2>4 DEF Orderly
  <2>6. QED  BY <2>1, <2>2, <2>5 DEF WInv
<1>3. QED  BY <1>1, <1>2

\* The inductive invariant of web888-wificonfig, for any applies, requests and faults.
THEOREM WifiInductive == WifiSpec => []WInv
<1>1. WifiInit => WInv
  BY WInit
<1>2. WInv /\ [WifiNext]_wifi => WInv'
  BY WNext
<1>3. QED  BY <1>1, <1>2, PTL DEF WifiSpec

\* The type invariant.
THEOREM WifiTypes == WifiSpec => []WifiTypeOK
<1>1. WInv => WifiTypeOK
  BY DEF WInv
<1>2. QED  BY <1>1, WifiInductive, PTL

\* applied.key says what is installed, and what the running access point has read, after
\* an apply that succeeded: the premise of `already applied, nothing to do'.
THEOREM KeyIsTrue == WifiSpec => []KeyTrue
<1>1. WInv => KeyTrue
  BY DEF WInv, Orderly, AtRest, InForce, KeyTrue
<1>2. QED  BY <1>1, WifiInductive, PTL

\* ifdown finds the interface it was brought up as: files change only while it is down,
\* as long as no ifdown fails.
THEOREM DownFindsItsFiles == WifiSpec => []UpMatchesFiles
<1>1. WInv => UpMatchesFiles
  BY DEF WInv, Orderly, UpMatchesFiles
<1>2. QED  BY <1>1, WifiInductive, PTL
=============================================================================
