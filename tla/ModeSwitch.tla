----------------------------- MODULE ModeSwitch -----------------------------
(***************************************************************************)
(* Which stack has the PL: web888-mode, the systemd units of the stacks    *)
(* (websdr, web888d with its loader web888d-pl, one instance per Red       *)
(* Pitaya app) and the loaders they run.  web888-mode stops every stack,   *)
(* one systemctl call after the other, changes the selection and starts    *)
(* the target; anybody may also start a unit directly, and then only the   *)
(* units' Conflicts=, Requires=, After= and PartOf= apply.                  *)
(*                                                                         *)
(* What systemd does with them is external: a start is a transaction that  *)
(* replaces the jobs of the units it touches, a unit has one job, and jobs *)
(* without an ordering between their units run side by side.  The steps of *)
(* `web888-fpga-select select' are in FpgaSelect; here it is one action.    *)
(***************************************************************************)
EXTENDS Naturals, Sequences

CONSTANTS
  Admins,     \* who runs web888-mode
  Apps,       \* the Red Pitaya apps
  Bare,       \* the units that are also started directly
  None,
  MaxCmds,    \* bound: commands
  MaxFaults   \* bound: crashes, failing loads, kills, changes of the consent file

ASSUME ModeAssumption ==
  /\ Apps \cap {"websdr", "web888d", "pl", "stock", "ng", "blank"} = {}
  /\ None \notin Apps \cup {"websdr", "web888d", "pl", "stock", "ng", "start", "stop"}
  /\ Bare \subseteq Apps \cup {"websdr", "web888d", "pl"}
  /\ MaxCmds \in Nat /\ MaxFaults \in Nat

Stacks == {"websdr", "web888d"} \cup Apps
Units  == Stacks \cup {"pl"}
Images == {"stock", "ng"}

VARIABLES
  phase,      \* per unit: what its process is doing
  job,        \* per unit: "start", "stop" or None
  bits,       \* per stack: the bitstream its program was started for
  pl,         \* what the PL is configured with
  dev,        \* the unit that has /dev/xdevcfg open
  sel,        \* the persisted selection
  consent,    \* the consent file authorizes the open bitstream
  pc,         \* per administrator: where web888-mode is
  target, req, cur, group,  \* its arguments, the selection it read, its stop
  cmds, faults,
  late,       \* history: a command was refused after it had stopped the stacks
  revised,    \* history: the consent file has changed
  bare        \* history: a unit was started directly

units == <<phase, job, bits>>
fpga  == <<pl, dev, sel, consent>>
mode  == <<pc, target, req, cur, group>>
ghost == <<late, revised, bare>>
vars  == <<units, fpga, mode, cmds, faults, ghost>>

\* A program that accesses the PL is running: "stopping" has been told to end.
Live(u) == phase[u] \in {"run", "stopping"}
Idle(u) == phase[u] \in {"inactive", "backoff"}

\* systemctl is-active: websdr is a simple service that loads the PL itself, the
\* apps load it before they are active.
IsActive(u) == phase[u] = "run" \/ (u = "websdr" /\ phase[u] \in {"open", "write"})

Init ==
  /\ phase = [u \in Units |-> "inactive"] /\ job = [u \in Units |-> None]
  /\ bits = [u \in Stacks |-> None]
  /\ pl = "blank" /\ dev = None /\ sel \in Images /\ consent \in BOOLEAN
  /\ pc = [a \in Admins |-> "idle"] /\ group = [a \in Admins |-> 1]
  /\ target = [a \in Admins |-> None] /\ req = [a \in Admins |-> None]
  /\ cur = [a \in Admins |-> "stock"]
  /\ cmds = 0 /\ faults = 0 /\ late = FALSE /\ revised = FALSE
  /\ bare = FALSE

Fault == faults < MaxFaults /\ faults' = faults + 1
-----------------------------------------------------------------------------
(* The units and their jobs. *)

\* Fault: the units know of WebSDR and the apps only.
ConflictsOld(u) ==
  CASE u = "websdr" -> Apps [] u \in Apps -> {"websdr"} [] OTHER -> {}

\* Conflicts= of the units, which systemd applies in both directions.
Conflicts(u) ==
  CASE u = "websdr"  -> {"web888d"} \cup Apps
    [] u = "web888d" -> {"websdr"} \cup Apps
    [] u \in Apps    -> {"websdr", "web888d"}
    [] u = "pl"      -> {}

\* PartOf=: the loader is stopped with web888d.
WithParts(S) == IF "web888d" \in S THEN S \cup {"pl"} ELSE S

\* Requires=: the loader is started with web888d, active or not.
StartJobs(u) ==
  [v \in Units |-> IF v = u \/ (u = "web888d" /\ v = "pl") THEN "start"
                   ELSE IF v \in WithParts(Conflicts(u)) THEN "stop" ELSE job[v]]

StopJobs(S) == [v \in Units |-> IF v \in WithParts(S) THEN "stop" ELSE job[v]]

\* After=: web888d waits for its loader's job, the loader's stop for web888d's.
Runnable(u) ==
  \/ job[u] = "start" /\ (u = "web888d" => job["pl"] = None) /\ (Idle(u) \/ IsActive(u))
  \/ /\ job[u] = "stop" /\ (u = "pl" => job["web888d"] # "stop")
     /\ phase[u] \notin {"stopping", "dying"}

\* systemd works off its queue before a process or a shell gets any further.
Quiet == \A u \in Units : ~Runnable(u)

StartJob(u) ==
  /\ job[u] = "start" /\ Runnable(u)
  /\ \/ /\ Idle(u)
        /\ phase' = [phase EXCEPT ![u] = CASE u = "web888d" -> "run"
                                           [] u = "pl"      -> "check"
                                           [] u = "websdr"  -> "pre"
                                           [] u \in Apps    -> "open"]
        /\ job' = [job EXCEPT ![u] = IF u = "web888d" THEN None ELSE @]
     \/ IsActive(u) /\ phase' = phase /\ job' = [job EXCEPT ![u] = None]
  /\ UNCHANGED <<bits, fpga, mode, cmds, faults, ghost>>

StopJob(u) ==
  /\ job[u] = "stop" /\ Runnable(u)
  /\ \/ Idle(u) /\ phase' = [phase EXCEPT ![u] = "inactive"] /\ job' = [job EXCEPT ![u] = None]
     \/ phase[u] = "run" /\ phase' = [phase EXCEPT ![u] = "stopping"] /\ job' = job
     \/ /\ phase[u] \in {"pre", "check", "open", "write"}
        /\ phase' = [phase EXCEPT ![u] = "dying"] /\ job' = job
  /\ UNCHANGED <<bits, fpga, mode, cmds, faults, ghost>>

Closed(u) == IF dev = u THEN None ELSE dev

Stopped(u) ==
  /\ phase[u] \in {"stopping", "dying"}
  /\ phase' = [phase EXCEPT ![u] = "inactive"]
  /\ job' = [job EXCEPT ![u] = IF @ = "stop" THEN None ELSE @]
  /\ dev' = Closed(u)
  /\ UNCHANGED <<bits, pl, sel, consent, mode, cmds, faults, ghost>>
-----------------------------------------------------------------------------
(* The loaders. *)

\* A start that fails: the loader's failure is also web888d's, the other units are
\* started again after a pause.
Failed(u) ==
  /\ phase' = [phase EXCEPT ![u] = IF u = "pl" THEN "inactive" ELSE "backoff"]
  /\ job' = [v \in Units |-> IF (v = u \/ (u = "pl" /\ v = "web888d")) /\ job[v] = "start"
                             THEN None ELSE job[v]]

\* ExecStartPre= of WebSDR seeds its directory, or fails; with the process itself the
\* unit is active and its start job done.
Seed ==
  /\ phase["websdr"] = "pre"
  /\ \/ /\ phase' = [phase EXCEPT !["websdr"] = "open"] /\ faults' = faults
        /\ job' = [job EXCEPT !["websdr"] = IF @ = "start" THEN None ELSE @]
     \/ Failed("websdr") /\ Fault
  /\ UNCHANGED <<bits, fpga, mode, cmds, ghost>>

\* web888-fpga-select load refuses while WebSDR or an app is active.
LoadCheck ==
  /\ phase["pl"] = "check"
  /\ IF \E u \in {"websdr"} \cup Apps : IsActive(u)
       THEN Failed("pl") ELSE phase' = [phase EXCEPT !["pl"] = "open"] /\ job' = job
  /\ UNCHANGED <<bits, fpga, mode, cmds, faults, ghost>>

\* The loader takes what is selected; WebSDR takes a staged snapshot, which is there
\* exactly when it is selected, since `select' is one action here.
User(u)  == IF u = "pl" THEN "web888d" ELSE u
Image(u) == IF u \in Apps THEN u ELSE sel

\* Opening /dev/xdevcfg is exclusive and resets the PL.
OpenDev(u) ==
  /\ phase[u] = "open"
  /\ \/ /\ dev = None /\ dev' = u /\ pl' = "blank"
        /\ bits' = [bits EXCEPT ![User(u)] = Image(u)]
        /\ phase' = [phase EXCEPT ![u] = "write"] /\ job' = job
     \/ dev # None /\ Failed(u) /\ UNCHANGED <<bits, pl, dev>>
  /\ UNCHANGED <<sel, consent, mode, cmds, faults, ghost>>

\* The bitstream is written and prog_done read as 1: the unit's program starts (WebSDR's
\* goes on); web888d's own start job follows the loader's.
WriteDev(u) ==
  /\ phase[u] = "write"
  /\ pl' = bits[User(u)] /\ dev' = Closed(u)
  /\ phase' = [phase EXCEPT ![u] = IF u = "pl" THEN "inactive" ELSE "run"]
  /\ job' = [job EXCEPT ![u] = IF @ = "start" THEN None ELSE @]
  /\ UNCHANGED <<bits, sel, consent, mode, cmds, faults, ghost>>

\* The write fails or prog_done stays 0.
WriteFails(u) ==
  /\ phase[u] = "write" /\ Fault
  /\ dev' = Closed(u) /\ Failed(u)
  /\ UNCHANGED <<bits, pl, sel, consent, mode, cmds, ghost>>

Crash(u) ==
  /\ phase[u] = "run" /\ Fault
  /\ phase' = [phase EXCEPT ![u] = "backoff"]
  /\ UNCHANGED <<job, bits, fpga, mode, cmds, ghost>>

\* Restart=: web888d's program alone, without its loader; ...
Restart(u) ==
  /\ phase[u] = "backoff" /\ job[u] = None
  /\ phase' = [phase EXCEPT ![u] = CASE u = "web888d" -> "run"
                                     [] u = "websdr"  -> "pre"
                                     [] u \in Apps    -> "open"]
  /\ UNCHANGED <<job, bits, fpga, mode, cmds, faults, ghost>>

\* ... until the start limit is hit.
GiveUp(u) ==
  /\ phase[u] = "backoff" /\ job[u] = None
  /\ phase' = [phase EXCEPT ![u] = "inactive"]
  /\ UNCHANGED <<job, bits, fpga, mode, cmds, faults, ghost>>
-----------------------------------------------------------------------------
(* web888-mode. *)

Step(a, from, to) == pc[a] = from /\ pc' = [pc EXCEPT ![a] = to]

\* switch_to reads the selection first (`web888-mode stop' has no target).
Ask(a) ==
  /\ cmds < MaxCmds /\ cmds' = cmds + 1
  /\ \E t \in Stacks \cup {None}, r \in Images \cup {None} :
       /\ t \in Apps \cup {None} => r = None
       /\ target' = [target EXCEPT ![a] = t] /\ req' = [req EXCEPT ![a] = r]
       /\ IF t = None THEN Step(a, "idle", "stop") ELSE Step(a, "idle", "decide")
  /\ cur' = [cur EXCEPT ![a] = sel] /\ group' = [group EXCEPT ![a] = 1]
  /\ UNCHANGED <<units, fpga, faults, ghost>>

Changes(a) == req[a] # None /\ req[a] # cur[a]

\* Fault: no check before the stops.
DecideUnchecked(a) ==
  /\ Step(a, "decide", IF ~Changes(a) /\ IsActive(target[a]) THEN "idle" ELSE "stop")
  /\ UNCHANGED <<units, fpga, target, req, cur, group, cmds, faults, ghost>>

\* Nothing to do; or straight to the stops; or the consent first.
Decide(a) ==
  /\ Step(a, "decide", IF Changes(a) THEN "check"
                        ELSE IF IsActive(target[a]) THEN "idle" ELSE "stop")
  /\ UNCHANGED <<units, fpga, target, req, cur, group, cmds, faults, ghost>>

Allowed(a) == req[a] = "stock" \/ consent

\* Fault: the selection is changed where it should only be checked.
CheckSelects(a) ==
  /\ Step(a, "check", IF Allowed(a) THEN "stop" ELSE "idle")
  /\ sel' = IF Allowed(a) THEN req[a] ELSE sel
  /\ UNCHANGED <<units, pl, dev, consent, target, req, cur, group, cmds, faults, ghost>>

\* web888-fpga-select select ... --check.
Check(a) ==
  /\ Step(a, "check", IF Allowed(a) THEN "stop" ELSE "idle")
  /\ UNCHANGED <<units, fpga, target, req, cur, group, cmds, faults, ghost>>

\* Fault: the template instances are forgotten.
GroupsNoApps == <<{"websdr"}, {"web888d"}, {}>>

\* stop_all: three calls of systemctl stop, each of which waits.
Groups == <<{"websdr"}, {"web888d"}, Apps>>

Stop(a) ==
  /\ Step(a, "stop", "wait") /\ job' = StopJobs(Groups[group[a]])
  /\ UNCHANGED <<phase, bits, fpga, target, req, cur, group, cmds, faults, ghost>>

\* Fault: systemctl stop --no-block.
NoWait(a) == TRUE

Waited(a) == \A u \in Groups[group[a]] : job[u] # "stop"

StopDone(a) ==
  /\ Step(a, "wait", IF group[a] < 3 THEN "stop"
                     ELSE IF target[a] # None THEN "select" ELSE "idle")
  /\ Waited(a)
  /\ group' = [group EXCEPT ![a] = IF @ < 3 THEN @ + 1 ELSE @]
  /\ UNCHANGED <<units, fpga, target, req, cur, cmds, faults, ghost>>

\* web888-fpga-select select, when a change was asked for.
Select(a) ==
  /\ \/ /\ Changes(a) => Allowed(a)
        /\ Step(a, "select", "start") /\ late' = late
        /\ sel' = IF Changes(a) THEN req[a] ELSE sel
     \/ /\ Changes(a) /\ ~Allowed(a)
        /\ Step(a, "select", "idle") /\ late' = TRUE /\ sel' = sel
  /\ UNCHANGED <<units, pl, dev, consent, target, req, cur, group, cmds, faults, revised,
                 bare>>

Start(a) ==
  /\ Step(a, "start", "started") /\ job' = StartJobs(target[a])
  /\ UNCHANGED <<phase, bits, fpga, target, req, cur, group, cmds, faults, ghost>>

\* Fault: web888-mode waits for the unit and not for its job.
StartDoneActive(a) ==
  /\ Step(a, "started", "idle") /\ IsActive(target[a])
  /\ UNCHANGED <<units, fpga, target, req, cur, group, cmds, faults, ghost>>

StartDone(a) ==
  /\ Step(a, "started", "idle") /\ job[target[a]] # "start"
  /\ UNCHANGED <<units, fpga, target, req, cur, group, cmds, faults, ghost>>

Kill(a) ==
  /\ pc[a] # "idle" /\ pc' = [pc EXCEPT ![a] = "idle"] /\ Fault
  /\ UNCHANGED <<units, fpga, target, req, cur, group, cmds, ghost>>

\* systemctl start of a unit, without web888-mode.
BareStart(u) ==
  /\ cmds < MaxCmds /\ cmds' = cmds + 1
  /\ job' = StartJobs(u) /\ bare' = TRUE
  /\ UNCHANGED <<phase, bits, fpga, mode, faults, late, revised>>

\* The administrator edits the consent file, or an upgrade outdates it.
Consent ==
  /\ Fault /\ consent' = ~consent /\ revised' = TRUE
  /\ UNCHANGED <<units, pl, dev, sel, mode, cmds, late, bare>>
-----------------------------------------------------------------------------
JobStep(u) == StartJob(u) \/ StopJob(u)

UnitStep(u) ==
  Quiet /\ \/ Stopped(u) \/ OpenDev(u) \/ WriteDev(u) \/ Restart(u) \/ GiveUp(u)
           \/ u = "pl" /\ LoadCheck
           \/ u = "websdr" /\ Seed

ModeStep(a) ==
  Quiet /\ \/ Decide(a) \/ Check(a) \/ Stop(a) \/ StopDone(a)
           \/ Select(a) \/ Start(a) \/ StartDone(a)

\* What nobody is obliged to do.
Event ==
  \/ Consent
  \/ \E u \in Units : WriteFails(u) \/ Crash(u)
  \/ \E u \in Bare : BareStart(u)
  \/ \E a \in Admins : Ask(a) \/ Kill(a)

Next ==
  \/ \E u \in Units : JobStep(u) \/ UnitStep(u)
  \/ \E a \in Admins : ModeStep(a)
  \/ Quiet /\ Event

Spec == Init /\ [][Next]_vars

\* systemd, loaders and web888-mode go on; nobody has to give a command.
Fairness ==
  /\ \A u \in Units : WF_vars(JobStep(u)) /\ WF_vars(UnitStep(u))
  /\ \A a \in Admins : WF_vars(ModeStep(a))

LiveSpec == Spec /\ Fairness
-----------------------------------------------------------------------------
TypeOK ==
  /\ phase \in [Units -> {"inactive", "pre", "check", "open", "write", "run", "stopping",
                          "dying", "backoff"}]
  /\ job \in [Units -> {"start", "stop", None}]
  /\ bits \in [Stacks -> Images \cup Apps \cup {None}]
  /\ pl \in Images \cup Apps \cup {"blank"} /\ dev \in Units \cup {None}
  /\ sel \in Images /\ consent \in BOOLEAN
  /\ pc \in [Admins -> {"idle", "decide", "check", "stop", "wait", "select", "start",
                        "started"}]
  /\ target \in [Admins -> Stacks \cup {None}] /\ req \in [Admins -> Images \cup {None}]
  /\ cur \in [Admins -> Images] /\ group \in [Admins -> 1 .. 3]
  /\ cmds \in 0 .. MaxCmds /\ faults \in 0 .. MaxFaults
  /\ late \in BOOLEAN /\ revised \in BOOLEAN /\ bare \in BOOLEAN

\* A program that accesses the PL finds there what it was started for, until it is
\* gone: nobody resets or reprograms the PL under it (an access to an unconfigured PL
\* hangs the CPU).  This is what web888-mode orders its stops, select and start for; a
\* direct start has only Conflicts=, which orders nothing.
PlIntact == ~bare => \A u \in Stacks : Live(u) => pl = bits[u]

\* No two stacks have programs at the same time.
OneStack == ~bare => \A u, v \in Stacks : Live(u) /\ Live(v) => u = v

\* `selected fpga' tells what a running WebSDR or web888d runs on, since the selection
\* changes only between their stop and their start, whoever is killed in between.
RunsTheSelection ==
  ~bare => \A u \in {"websdr", "web888d"} : phase[u] = "run" => pl = sel

\* However the units were started: opening the device, which resets the PL, hits no
\* program but those already told to stop.  Except that the apps do not conflict with each
\* other, that web888d's loader runs again when a running web888d is started, and that a
\* loader started by hand has only its own check, which does not see a WebSDR or an app
\* that comes up after it.
OnlyTheStoppedLoseThePl ==
  [][\A u \in Units, v \in Stacks :
       dev' = u /\ dev # u /\ Live(v) =>
         \/ phase[v] = "stopping"
         \/ {u, v} \subseteq Apps
         \/ u = "pl" /\ (v = "web888d" \/ job["web888d"] # "start")]_vars

\* A command that is refused for lack of consent has not stopped anything, unless the
\* consent changed while it ran (the --check before stop_all).
RefusedEarly == late => revised

\* However the units were started, by whomever, whatever crashed: when no job is left,
\* one stack at most is active (the Conflicts= of the units), except that the apps do not
\* conflict with each other.
SettledExclusive ==
  (\A u \in Units : job[u] = None) =>
    \A u, v \in Stacks : IsActive(u) /\ IsActive(v) => u = v \/ {u, v} \subseteq Apps

\* Every command returns: each systemctl call it waits for ends, whatever crashes,
\* fails or is replaced meanwhile.
CommandReturns == \A a \in Admins : pc[a] # "idle" ~> pc[a] = "idle"
=============================================================================
