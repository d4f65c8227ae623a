----------------------------- MODULE NetConfig -----------------------------
(***************************************************************************)
(* web888-netconfig: the websdr server stages an eth0 configuration or a   *)
(* resolv.conf in its state directory, and the root helper validates and   *)
(* installs it.  Each verb is a sequence of file operations; the power may *)
(* fail and the helper may be killed between any two, and a staged file may *)
(* be empty because the disk was full.  What the files say takes effect at  *)
(* the next boot.                                                          *)
(*                                                                         *)
(* The server runs one helper at a time.                                   *)
(***************************************************************************)
EXTENDS Naturals

CONSTANTS
  Addrs,      \* static configurations an administrator asks for
  Names,      \* resolv.conf contents
  None,
  MaxCmds,    \* bound: requests
  MaxCuts     \* bound: kills, power cuts and full disks

ASSUME NetAssumption ==
  /\ {None, "empty", "cut", "dhcp", "dns"} \cap (Addrs \cup Names) = {}
  /\ None \notin {"empty", "cut", "dhcp", "dns"}
  /\ MaxCmds \in Nat /\ MaxCuts \in Nat

VARIABLES
  static,     \* 90-websdr-static.conf: its content or None
  dhcp,       \* the image's DHCP drop-in is there
  stage,      \* the staged static configuration
  resolv,     \* /etc/resolv.conf, "cut" when truncated
  stageDns,   \* the staged resolv.conf
  pc,         \* the helper's next step
  asked,      \* history: the last request, for static what was staged
  done,       \* history: it has run to its end
  full,       \* history: the staged files that a full disk has left empty
  cmds, cuts

eth0 == <<static, dhcp, stage>>
dns  == <<resolv, stageDns>>
past == <<asked, done, full>>
vars == <<eth0, dns, pc, past, cmds, cuts>>

Init ==
  /\ static = None /\ dhcp = TRUE /\ stage = None
  /\ resolv \in Names /\ stageDns = None
  /\ pc = "idle" /\ asked = "dhcp" /\ done = TRUE /\ full = {}
  /\ cmds = 0 /\ cuts = 0

Step(from, to) == pc = from /\ pc' = to
Cut == cuts < MaxCuts /\ cuts' = cuts + 1

Request(what, first) ==
  /\ Step("idle", first) /\ cmds < MaxCmds /\ cmds' = cmds + 1
  /\ asked' = what /\ done' = FALSE

\* The server writes the staged file without looking whether the disk took it.
AskStatic(a) ==
  /\ \/ Request(a, "install") /\ UNCHANGED <<full, cuts>>
     \/ Request("empty", "install") /\ Cut /\ full' = full \cup {"static"}
  /\ stage' = asked'
  /\ UNCHANGED <<static, dhcp, dns>>

AskDhcp == Request("dhcp", "ensure") /\ UNCHANGED <<eth0, dns, full, cuts>>

AskDns(n) ==
  /\ Request("dns", "sync")
  /\ \/ stageDns' = n /\ UNCHANGED <<full, cuts>>
     \/ stageDns' = "empty" /\ Cut /\ full' = full \cup {"dns"}
  /\ UNCHANGED <<eth0, resolv>>

\* static: the drop-in is renamed into place (an empty staged file passes validation),
Install ==
  /\ Step("install", "unstage") /\ static' = stage
  /\ UNCHANGED <<dhcp, stage, dns, past, cmds, cuts>>

Unstage ==
  /\ Step("unstage", "rmDhcp") /\ stage' = None
  /\ UNCHANGED <<static, dhcp, dns, past, cmds, cuts>>

\* and then the DHCP drop-in removed.
RmDhcp ==
  /\ Step("rmDhcp", "sync") /\ dhcp' = FALSE
  /\ UNCHANGED <<static, stage, dns, past, cmds, cuts>>

\* Fault: dhcp removes the static configuration first.
EnsureLate ==
  /\ Step("ensure", "rmStatic") /\ static' = None /\ stage' = None
  /\ UNCHANGED <<dhcp, dns, past, cmds, cuts>>

\* dhcp: the DHCP drop-in is there before the static one goes.
Ensure ==
  /\ Step("ensure", "rmStatic") /\ dhcp' = TRUE
  /\ UNCHANGED <<static, stage, dns, past, cmds, cuts>>

\* Fault: the static configuration stays.
RmStageOnly ==
  /\ Step("rmStatic", "sync") /\ stage' = None
  /\ UNCHANGED <<static, dhcp, dns, past, cmds, cuts>>

RmStatic ==
  /\ Step("rmStatic", "sync") /\ static' = None /\ stage' = None
  /\ UNCHANGED <<dhcp, dns, past, cmds, cuts>>

\* sync_resolv, the end of every verb: resolv.conf is written in place, ...
SyncNothing ==
  /\ Step("sync", "idle") /\ stageDns = None /\ done' = TRUE
  /\ UNCHANGED <<eth0, dns, asked, full, cmds, cuts>>

\* Fault: the staged file is moved out of the way first.
TruncateMoved ==
  /\ Step("sync", "fill") /\ stageDns # None /\ resolv' = "cut" /\ stageDns' = None
  /\ UNCHANGED <<eth0, past, cmds, cuts>>

Truncate ==
  /\ Step("sync", "fill") /\ stageDns # None /\ resolv' = "cut"
  /\ UNCHANGED <<eth0, stageDns, past, cmds, cuts>>

Fill ==
  /\ Step("fill", "rmDns") /\ resolv' = stageDns
  /\ UNCHANGED <<eth0, stageDns, past, cmds, cuts>>

\* ... and the staged file goes when all of it is there.
RmDns ==
  /\ Step("rmDns", "idle") /\ stageDns' = None /\ done' = TRUE
  /\ UNCHANGED <<eth0, resolv, asked, full, cmds, cuts>>

\* The helper is killed, a command of it fails, or the power does.
Kill == Cut /\ pc # "idle" /\ pc' = "idle" /\ UNCHANGED <<eth0, dns, past, cmds>>

Next ==
  \/ \E a \in Addrs : AskStatic(a)
  \/ \E n \in Names : AskDns(n)
  \/ AskDhcp \/ Install \/ Unstage \/ RmDhcp \/ Ensure \/ RmStatic
  \/ SyncNothing \/ Truncate \/ Fill \/ RmDns \/ Kill

Spec == Init /\ [][Next]_vars
-----------------------------------------------------------------------------
TypeOK ==
  /\ static \in Addrs \cup {None, "empty"} /\ dhcp \in BOOLEAN
  /\ stage \in Addrs \cup {None, "empty"}
  /\ resolv \in Names \cup {"empty", "cut"} /\ stageDns \in Names \cup {None, "empty"}
  /\ pc \in {"idle", "install", "unstage", "rmDhcp", "ensure", "rmStatic", "sync", "fill",
             "rmDns"}
  /\ asked \in Addrs \cup {"empty", "dhcp", "dns"} /\ done \in BOOLEAN
  /\ full \subseteq {"static", "dns"}
  /\ cmds \in 0 .. MaxCmds /\ cuts \in 0 .. MaxCuts

\* There is a working configuration of eth0 at every instant, an address or DHCP,
\* whatever has been cut short: the verbs install the new one before they remove the old.
\* Unless a full disk has left a staged static file empty (WorkingConfig).
SomeConfig == static \in Addrs \/ dhcp \/ "static" \in full

\* `This order keeps a working eth0 config in place at every intermediate state.'  Not
\* when what is staged is empty: it passes validation and takes the place of DHCP.
WorkingConfig == static \in Addrs \/ dhcp

\* A verb that has run to its end leaves one configuration, the one asked for, although
\* verbs before it were cut short half way.
AsAsked ==
  done => /\ asked \in Addrs \cup {"empty"} => static = asked /\ ~dhcp
          /\ asked = "dhcp" => static = None /\ dhcp

\* A resolv.conf that was truncated and not written can be had again: the staged one is
\* still there for the next run of any verb, with its contents unless the disk was full.
DnsRecoverable ==
  resolv = "cut" => stageDns \in Names \/ (stageDns = "empty" /\ "dns" \in full)
=============================================================================
