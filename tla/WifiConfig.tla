---------------------------- MODULE WifiConfig ----------------------------
(***************************************************************************)
(* web888-wificonfig: the settings of the admin console applied to wlan0.  *)
(* Phase 1, in the sandbox of the websdr service, compares what is asked   *)
(* for with the key of the last successful apply and leaves it at that     *)
(* when they are equal; phase 2, a transient unit of its own, tears wlan0   *)
(* down, replaces files and services, brings wlan0 up and writes the key.   *)
(* An ifdown that fails is ignored, and wlan0 stays up.                     *)
(* A step may fail and end the apply, the power may be cut, and, as phase 2 *)
(* survives a restart of websdr, a second apply may overtake the first.     *)
(*                                                                         *)
(* hostapd stands for hostapd and dnsmasq, whose files and services change *)
(* together.  Phase 1 is one action: the server runs one at a time.        *)
(***************************************************************************)
EXTENDS Naturals

CONSTANTS
  Applies,     \* processes that run phase 2
  Contents,    \* SSID and password
  Absent,
  MaxRequests, \* bound: requests
  MaxFaults    \* bound: failing steps and boots

Verbs == {"client", "ap", "off"}
Confs == (({"client", "ap"} \X Contents) \cup {<<"off", Absent>>})

ASSUME WifiAssumption ==
  /\ Absent \notin Contents \cup Verbs \cup Confs
  /\ MaxRequests \in Nat /\ MaxFaults \in Nat

VARIABLES
  staged,     \* what the server has staged
  dropin,     \* interfaces.d/wlan0: "client", "ap" or Absent
  wpa,        \* wpa_supplicant.conf
  hostapd,    \* hostapd.conf
  enabled,    \* hostapd.service is enabled
  apd,        \* the configuration the running hostapd has read
  up,         \* how wlan0 was brought up: <<drop-in, wpa>> or Absent
  key,        \* applied.key: a configuration for its hash
  step, conf, \* per apply: its next step and what it applies
  broken,     \* history: an apply has ended early since the last key
  overlap,    \* history: two applies have run at the same time
  stuck,      \* history: an ifdown has failed since the last boot
  lied,       \* history: phase 1 has skipped, between applies, what was not installed
  requests, faults

files   == <<dropin, wpa, hostapd>>
run     == <<enabled, apd, up>>
history == <<broken, overlap, stuck, lied>>
wifi    == <<staged, files, run, key, step, conf, history, requests, faults>>

WifiInit ==
  /\ staged = Absent /\ dropin = Absent /\ wpa = Absent /\ hostapd = Absent
  /\ enabled = FALSE /\ apd = Absent /\ up = Absent /\ key = Absent
  /\ step = [p \in Applies |-> "idle"] /\ conf = [p \in Applies |-> <<"off", Absent>>]
  /\ broken = FALSE /\ overlap = FALSE /\ stuck = FALSE /\ lied = FALSE
  /\ requests = 0 /\ faults = 0

Still == \A p \in Applies : step[p] = "idle"

Goto(p, from, to) == step[p] = from /\ step' = [step EXCEPT ![p] = to]
Fault == faults < MaxFaults /\ faults' = faults + 1

\* What the files, and the running hostapd, are when k is in force.
Installed(k) ==
  CASE k[1] = "client" -> dropin = "client" /\ wpa = k[2] /\ hostapd = Absent /\ apd = Absent
    [] k[1] = "ap"     -> dropin = "ap" /\ wpa = Absent /\ hostapd = k[2] /\ apd = k[2]
    [] k[1] = "off"    -> dropin = Absent /\ wpa = Absent /\ hostapd = Absent /\ apd = Absent

Wanted(v, c) == IF v = "off" THEN <<"off", Absent>> ELSE <<v, c>>

\* Phase 1: nothing to do, or an apply of its own.
Ask(v, c) ==
  /\ requests < MaxRequests /\ requests' = requests + 1
  /\ staged' = IF v = "off" THEN staged ELSE c
  /\ \/ /\ key = Wanted(v, c) /\ lied' = (lied \/ (Still /\ ~Installed(key)))
        /\ UNCHANGED <<step, conf, overlap>>
     \/ /\ key # Wanted(v, c) /\ lied' = lied
        /\ overlap' = (overlap \/ ~Still)
        /\ \E p \in Applies : /\ Goto(p, "idle", "parse")
                              /\ conf' = [conf EXCEPT ![p] = Wanted(v, c)]
  /\ UNCHANGED <<files, run, key, broken, stuck, faults>>

\* Phase 2 reads the staged file again.
Parse(p) ==
  /\ Goto(p, "parse", IF conf[p][1] = "off" THEN "disable" ELSE "down")
  /\ conf' = [conf EXCEPT ![p] = Wanted(@[1], staged)]
  /\ UNCHANGED <<staged, files, run, key, history, requests, faults>>

\* Fault: wlan0 stays up while its files are replaced.
DownLate(p) ==
  /\ Goto(p, "down", IF conf[p][1] = "off" THEN "remove" ELSE "config")
  /\ UNCHANGED <<staged, files, run, key, conf, history, requests, faults>>

\* ifdown wlan0 || true, for which the old drop-in must still be there.
Down(p) ==
  /\ Goto(p, "down", IF conf[p][1] = "off" THEN "remove" ELSE "config")
  /\ \/ up' = Absent /\ UNCHANGED <<stuck, faults>>
     \/ up # Absent /\ Fault /\ up' = up /\ stuck' = TRUE
  /\ UNCHANGED <<staged, files, enabled, apd, key, conf, broken, overlap, lied, requests>>

\* The daemon's configuration, ...
Config(p) ==
  /\ Goto(p, "config", "dropin")
  /\ wpa' = (IF conf[p][1] = "client" THEN conf[p][2] ELSE wpa)
  /\ hostapd' = (IF conf[p][1] = "ap" THEN conf[p][2] ELSE hostapd)
  /\ UNCHANGED <<staged, dropin, run, key, conf, history, requests, faults>>

\* ... the drop-in ...
Dropin(p) ==
  /\ Goto(p, "dropin", "clean") /\ dropin' = conf[p][1]
  /\ UNCHANGED <<staged, wpa, hostapd, run, key, conf, history, requests, faults>>

\* ... and the removal of the other mode's files.
Clean(p) ==
  /\ Goto(p, "clean", IF conf[p][1] = "client" THEN "disable" ELSE "up")
  /\ wpa' = (IF conf[p][1] = "ap" THEN Absent ELSE wpa)
  /\ hostapd' = (IF conf[p][1] = "client" THEN Absent ELSE hostapd)
  /\ UNCHANGED <<staged, dropin, run, key, conf, history, requests, faults>>

Disable(p) ==
  /\ Goto(p, "disable", IF conf[p][1] = "client" THEN "up" ELSE "down")
  /\ enabled' = FALSE /\ apd' = Absent
  /\ UNCHANGED <<staged, files, up, key, conf, history, requests, faults>>

\* ifup wlan0, with whatever the files say; one that is still up may be left alone.
Up(p) ==
  /\ Goto(p, "up", IF conf[p][1] = "ap" THEN "enable" ELSE "key")
  /\ up' = <<dropin, wpa>> \/ (stuck /\ up # Absent /\ up' = up)
  /\ UNCHANGED <<staged, files, enabled, apd, key, conf, history, requests, faults>>

Enable(p) ==
  /\ Goto(p, "enable", "restart") /\ enabled' = TRUE
  /\ UNCHANGED <<staged, files, apd, up, key, conf, history, requests, faults>>

\* Fault: a running hostapd is left alone, as by enable --now.
RestartNow(p) ==
  /\ Goto(p, "restart", "key") /\ apd' = (IF apd = Absent THEN hostapd ELSE apd)
  /\ UNCHANGED <<staged, files, enabled, up, key, conf, history, requests, faults>>

Restart(p) ==
  /\ Goto(p, "restart", "key") /\ apd' = hostapd
  /\ UNCHANGED <<staged, files, enabled, up, key, conf, history, requests, faults>>

\* off: all files go, after wlan0.
Remove(p) ==
  /\ Goto(p, "remove", "key")
  /\ dropin' = Absent /\ wpa' = Absent /\ hostapd' = Absent
  /\ UNCHANGED <<staged, run, key, conf, history, requests, faults>>

Key(p) ==
  /\ Goto(p, "key", "idle") /\ key' = conf[p] /\ broken' = FALSE
  /\ UNCHANGED <<staged, files, run, conf, overlap, stuck, lied, requests, faults>>

\* The key file is truncated and then written: cut short, no key is left.
Torn(p) == IF step[p] = "key" THEN {key, Absent} ELSE {key}

\* set -e: a file that cannot be installed, ifup or a service that fails.  An ifup has
\* then come half way, with daemons running, or not; a restart has stopped the service,
\* or not.
Fail(p) ==
  /\ step[p] \in {"config", "dropin", "up", "enable", "restart", "key"} /\ Fault
  /\ step' = [step EXCEPT ![p] = "idle"] /\ broken' = TRUE
  /\ key' \in Torn(p) /\ apd' \in {apd, IF step[p] = "restart" THEN Absent ELSE apd}
  /\ up' \in {up, IF step[p] = "up" THEN <<dropin, wpa>> ELSE up}
  /\ UNCHANGED <<staged, files, enabled, conf, overlap, stuck, lied, requests>>

\* The board starts: ifupdown and systemd do what the files say.
Boot ==
  /\ Fault /\ broken' = (broken \/ ~Still)
  /\ step' = [p \in Applies |-> "idle"] /\ key' \in UNION {Torn(p) : p \in Applies}
  /\ up' = (IF dropin = Absent THEN Absent ELSE <<dropin, wpa>>)
  /\ apd' = (IF enabled THEN hostapd ELSE Absent) /\ stuck' = FALSE
  /\ UNCHANGED <<staged, files, enabled, conf, overlap, lied, requests>>

Apply(p) ==
  \/ Parse(p) \/ Down(p) \/ Config(p) \/ Dropin(p) \/ Clean(p) \/ Disable(p)
  \/ Up(p) \/ Enable(p) \/ Restart(p) \/ Remove(p) \/ Key(p)

WifiNext ==
  \/ \E v \in Verbs, c \in Contents : Ask(v, c)
  \/ \E p \in Applies : Apply(p) \/ Fail(p)
  \/ Boot

WifiSpec == WifiInit /\ [][WifiNext]_wifi
-----------------------------------------------------------------------------
WifiTypeOK ==
  /\ staged \in Contents \cup {Absent} /\ dropin \in {"client", "ap", Absent}
  /\ wpa \in Contents \cup {Absent} /\ hostapd \in Contents \cup {Absent}
  /\ enabled \in BOOLEAN /\ apd \in Contents \cup {Absent}
  /\ up \in ({"client", "ap", Absent} \X (Contents \cup {Absent})) \cup {Absent}
  /\ key \in Confs \cup {Absent} /\ conf \in [Applies -> Confs]
  /\ step \in [Applies -> {"idle", "parse", "down", "config", "dropin", "clean", "disable",
                         "up", "enable", "restart", "remove", "key"}]
  /\ broken \in BOOLEAN /\ overlap \in BOOLEAN /\ stuck \in BOOLEAN
  /\ lied \in BOOLEAN
  /\ requests \in 0 .. MaxRequests /\ faults \in 0 .. MaxFaults

\* After an apply that succeeded, and over boots, the key says what is installed and
\* what the running access point has read, if no apply has failed since and none has
\* overtaken another.
KeyTrue == Still /\ ~broken /\ ~overlap /\ key # Absent => Installed(key)

\* wlan0, while up, is what the files on disk would bring up: they change only after
\* ifdown, which needs the old ones to find its daemons.  At every instant, in every
\* order of modes, with applies and ifups that fail half way, unless applies overlap or
\* an ifdown has failed since the last boot.
UpMatchesFiles == ~overlap /\ ~stuck /\ up # Absent => up = <<dropin, wpa>>

\* `already applied, nothing to do' is true when it is said and no apply is running.
SkippedIsInstalled == ~lied
=============================================================================
