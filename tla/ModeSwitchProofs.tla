-------------------------- MODULE ModeSwitchProofs --------------------------
(***************************************************************************)
(* Which stack has the PL, for any number of Red Pitaya apps, commands and *)
(* faults.  What the units' Conflicts= and the consent check promise holds *)
(* for any number of administrators and under direct starts (AInv); that   *)
(* the PL stays as a program needs it is what the order of web888-mode's   *)
(* own steps is for, and holds for one administrator at a time without     *)
(* direct starts (SInv): web888-mode takes no lock.                        *)
(*                                                                         *)
(* PlIntact is not inductive: that nobody reprograms the PL under a        *)
(* program rests on every other stack being off, which rests on how far    *)
(* the stops of a switch have come and on systemd having worked off its    *)
(* queue, and for web888d, which does not load the PL itself, on its       *)
(* loader's job.                                                           *)
(***************************************************************************)
EXTENDS ModeSwitch, TLAPS

(* What each kind of unit does, whoever starts it: web888d loads nothing itself, its
   loader is never active, and only a loader checks for other stacks. *)
Kinds ==
  /\ phase["web888d"] \in {"inactive", "run", "stopping", "backoff"}
  /\ phase["pl"] \in {"inactive", "check", "open", "write", "dying"}
  /\ \A u \in {"websdr"} \cup Apps : phase[u] # "check"
  /\ \A u \in Apps : phase[u] # "pre"

\* A unit that writes has opened the device for an image.
Writing == \A u \in Units : phase[u] = "write" => bits[User(u)] # None

\* What web888-mode works on: a target when it switches, a selection only with one.
Targets ==
  \A a \in Admins :
    /\ pc[a] \in {"decide", "check", "select", "start", "started"} => target[a] \in Stacks
    /\ target[a] = None => req[a] = None

\* A unit that is up or will be: nothing has yet been ordered to stop it.
Rising(u) ==
  \/ job[u] = "start"
  \/ job[u] # "stop" /\ phase[u] \in {"pre", "open", "write", "run", "backoff"}

Exclusive == \A u, v \in Stacks : Rising(u) /\ Rising(v) => u = v \/ {u, v} \subseteq Apps

\* Beyond the consent check, what is asked for is allowed, as long as nobody revises it.
Checked ==
  /\ \A a \in Admins : pc[a] \in {"stop", "wait", "select"} /\ Changes(a)
                         => Allowed(a) \/ revised
  /\ RefusedEarly

AInv == TypeOK /\ Kinds /\ Writing /\ Targets /\ Exclusive /\ Checked
-----------------------------------------------------------------------------
(* One administrator, and no unit started directly. *)

Off(u) == phase[u] = "inactive" /\ job[u] # "start"

\* One stack at most is anything but off.
OneInPlay == \A u, v \in Stacks : ~Off(u) /\ ~Off(v) => u = v

\* How far the stops have come, when web888-mode is at each of its steps.
Cleared(a) ==
  /\ pc[a] \in {"decide", "check"} => group[a] = 1
  /\ pc[a] \in {"stop", "wait"} => \A g \in 1 .. group[a] - 1 : \A u \in Groups[g] : Off(u)
  /\ pc[a] = "wait" => \A u \in Groups[group[a]] : job[u] = "stop" \/ Off(u)
  /\ pc[a] \in {"select", "start"} => \A u \in Stacks : Off(u)

Loading == phase["pl"] \in {"check", "open", "write"}

\* The loader has a job while it loads, with web888d's start waiting for it and
\* web888d itself down.
Loader ==
  /\ Loading => job["pl"] # None /\ phase["web888d"] = "inactive"
  /\ job["pl"] = "start" => job["web888d"] = "start"
  /\ job["web888d"] = "start" => phase["web888d"] = "inactive" /\ job["pl"] # "stop"

\* What is in the PL, and what has been started for it, is what was selected.
Holds(u) == pl = bits[u] /\ (u \notin Apps => bits[u] = sel)

Configured ==
  /\ \A u \in Stacks : Live(u) => Holds(u)
  /\ phase["websdr"] = "write" => bits["websdr"] = sel
  /\ phase["web888d"] = "backoff" => Holds("web888d")
  /\ phase["pl"] = "write" /\ job["pl"] = "start" => bits["web888d"] = sel
  /\ job["web888d"] = "start" /\ job["pl"] = None => Holds("web888d")

Ordered == OneInPlay /\ (\A a \in Admins : Cleared(a)) /\ Loader /\ Configured

SInv == ~bare => Ordered

-----------------------------------------------------------------------------
LEMMA Names ==
  /\ \A u \in Stacks : u \in Units /\ u # "pl" /\ u # None
  /\ \A u \in Apps : u \in Stacks /\ u # "websdr" /\ u # "web888d" /\ u # "pl"
  /\ \A u \in Stacks : u = "websdr" \/ u = "web888d" \/ u \in Apps
  /\ \A u \in Units : u = "pl" \/ u \in Stacks
  /\ "pl" \in Units /\ "pl" \notin Stacks /\ "pl" \notin Apps
  /\ "websdr" \in Stacks /\ "web888d" \in Stacks /\ "websdr" \notin Apps /\ "web888d" \notin Apps
  /\ None # "start" /\ None # "stop"
  BY ModeAssumption DEF Stacks, Units

\* Every step of a unit or its job is one of these; SparesPl are those that leave the PL
\* alone, and all of them leave web888-mode alone.
SparesPl(u) ==
  \/ StartJob(u) \/ StopJob(u) \/ Stopped(u) \/ Restart(u) \/ GiveUp(u)
  \/ u = "pl" /\ LoadCheck
  \/ u = "websdr" /\ Seed
  \/ WriteFails(u) \/ Crash(u)

UnitMoves(u) == SparesPl(u) \/ OpenDev(u) \/ WriteDev(u)

LEMMA UnitLeaves ==
  ASSUME NEW u \in Units, UnitMoves(u)
  PROVE  UNCHANGED <<sel, consent, mode, cmds, ghost>>
  BY DEF UnitMoves, SparesPl, StartJob, StopJob, Stopped, OpenDev, WriteDev, Restart, GiveUp, Seed, LoadCheck,
         WriteFails, Crash, fpga

\* What a job becomes: it is done, or it stays; only StartJobs and StopJobs make one.
LEMMA UnitJobs ==
  ASSUME TypeOK, NEW u \in Units, UnitMoves(u)
  PROVE  /\ job' \in [Units -> {"start", "stop", None}]
         /\ \A v \in Units : job'[v] \in {job[v], None}
  BY DEF TypeOK, UnitMoves, SparesPl, StartJob, StopJob, Stopped, OpenDev, WriteDev, Restart, GiveUp, Seed,
         LoadCheck, WriteFails, Crash, Failed, units

\* A unit's step moves its own phase only.
LEMMA UnitPhases ==
  ASSUME TypeOK, Kinds, NEW u \in Units, UnitMoves(u)
  PROVE  /\ phase' \in [Units -> {"inactive", "pre", "check", "open", "write", "run", "stopping",
                                  "dying", "backoff"}]
         /\ \A v \in Units : v # u => phase'[v] = phase[v]
         /\ Kinds'
<1> USE Names DEF TypeOK
<1>1. \E to \in {"inactive", "pre", "check", "open", "write", "run", "stopping", "dying", "backoff"} :
         phase' = [phase EXCEPT ![u] = to]
  <2>1. CASE StartJob(u)
    <3>1. CASE Idle(u)  BY <2>1, <3>1 DEF StartJob
    <3>2. CASE phase' = phase  BY <3>2
    <3> QED BY <2>1, <3>1, <3>2 DEF StartJob
  <2>2. CASE StopJob(u)  BY <2>2 DEF StopJob
  <2>3. CASE Stopped(u) \/ Restart(u) \/ GiveUp(u) \/ Crash(u)
    BY <2>3 DEF Kinds, Stopped, Restart, GiveUp, Crash
  <2>4. CASE OpenDev(u) \/ WriteDev(u) \/ WriteFails(u)
    BY <2>4 DEF OpenDev, WriteDev, WriteFails, Failed
  <2>5. CASE u = "pl" /\ LoadCheck  BY <2>5 DEF LoadCheck, Failed
  <2>6. CASE u = "websdr" /\ Seed  BY <2>6 DEF Seed, Failed
  <2> QED BY <2>1, <2>2, <2>3, <2>4, <2>5, <2>6 DEF UnitMoves, SparesPl
<1>2. Kinds'
  <2> USE DEF Kinds
  <2>1. CASE u = "web888d"
    <3>1. phase'["web888d"] \in {"inactive", "run", "stopping", "backoff"}
      BY <2>1 DEF UnitMoves, SparesPl, StartJob, StopJob, Stopped, OpenDev, WriteDev, Restart, GiveUp, Seed,
                  WriteFails, Crash, Idle, Failed
    <3> QED BY <1>1, <2>1, <3>1
  <2>2. CASE u = "pl"
    <3>1. phase'["pl"] \in {"inactive", "check", "open", "write", "dying"}
      BY <2>2 DEF UnitMoves, SparesPl, StartJob, StopJob, Stopped, OpenDev, WriteDev, Restart, GiveUp, Seed,
                  LoadCheck, WriteFails, Crash, Idle, Failed
    <3> QED BY <1>1, <2>2, <3>1
  <2>3. CASE u \in {"websdr"} \cup Apps
    <3>1. phase'[u] # "check" /\ (u \in Apps => phase'[u] # "pre")
      BY <2>3 DEF UnitMoves, SparesPl, StartJob, StopJob, Stopped, OpenDev, WriteDev, Restart, GiveUp, Seed,
                  WriteFails, Crash, Idle, Failed
    <3> QED BY <1>1, <2>3, <3>1
  <2> QED BY <2>1, <2>2, <2>3
<1> QED BY <1>1, <1>2

LEMMA UnitTypes ==
  ASSUME TypeOK, Kinds, Writing, NEW u \in Units, UnitMoves(u)
  PROVE  TypeOK'
<1> USE Names DEF TypeOK
<1>1. bits' \in [Stacks -> Images \cup Apps \cup {None}]
  BY DEF UnitMoves, SparesPl, StartJob, StopJob, Stopped, OpenDev, WriteDev, Restart, GiveUp, Seed, LoadCheck,
         WriteFails, Crash, User, Image, Images
<1>2. dev' \in Units \cup {None}
  BY DEF UnitMoves, SparesPl, StartJob, StopJob, Stopped, OpenDev, WriteDev, Restart, GiveUp, Seed, LoadCheck,
         WriteFails, Crash, Closed, fpga
<1>3. pl' \in Images \cup Apps \cup {"blank"}
  <2> SUFFICES ASSUME WriteDev(u) PROVE pl' \in Images \cup Apps \cup {"blank"}
    BY DEF UnitMoves, SparesPl, StartJob, StopJob, Stopped, OpenDev, Restart, GiveUp, Seed, LoadCheck,
           WriteFails, Crash, fpga
  <2>1. User(u) \in Stacks /\ bits[User(u)] # None  BY DEF WriteDev, Writing, User
  <2> QED BY <2>1 DEF WriteDev
<1>4. faults' \in 0 .. MaxFaults
  BY ModeAssumption DEF UnitMoves, SparesPl, StartJob, StopJob, Stopped, OpenDev, WriteDev, Restart,
     GiveUp, Seed, LoadCheck, WriteFails, Crash, Fault
<1> QED BY <1>1, <1>2, <1>3, <1>4, UnitLeaves, UnitJobs, UnitPhases DEF mode, ghost

LEMMA UnitWriting ==
  ASSUME TypeOK, Kinds, Writing, NEW u \in Units, UnitMoves(u)
  PROVE  Writing'
<1> USE Names DEF TypeOK
<1>1. SUFFICES ASSUME NEW v \in Units, phase'[v] = "write" PROVE bits'[User(v)] # None
  BY DEF Writing, User
<1>2. CASE OpenDev(u)
  <2>1. Image(u) # None  BY ModeAssumption DEF Image, Images
  <2>2. User(u) \in Stacks /\ User(v) \in Stacks  BY DEF User
  <2>3. CASE bits' = bits /\ Failed(u)
    <3>1. phase[v] = "write"  BY <1>1, <2>3 DEF Failed
    <3> QED BY <2>3, <3>1 DEF Writing
  <2>4. CASE bits' = [bits EXCEPT ![User(u)] = Image(u)] /\ phase' = [phase EXCEPT ![u] = "write"]
    <3>1. CASE v = u  BY <2>1, <2>2, <2>4, <3>1
    <3>2. CASE v # u
      <4>1. phase[v] = "write"  BY <1>1, <2>4, <3>2
      <4> QED BY <2>1, <2>2, <2>4, <4>1 DEF Writing
    <3> QED BY <3>1, <3>2
  <2> QED BY <1>2, <2>3, <2>4 DEF OpenDev
<1>3. CASE ~OpenDev(u)
  <2>1. bits' = bits
    BY <1>3 DEF UnitMoves, SparesPl, StartJob, StopJob, Stopped, WriteDev, Restart, GiveUp, Seed, LoadCheck,
           WriteFails, Crash
  <2>2. phase[v] = "write"
    BY <1>1, <1>3 DEF UnitMoves, SparesPl, StartJob, StopJob, Stopped, WriteDev, Restart, GiveUp, Seed,
           LoadCheck, WriteFails, Crash, Failed, Kinds
  <2> QED BY <2>1, <2>2 DEF Writing
<1> QED BY <1>2, <1>3

\* No step of a unit brings up what was not on its way up.
LEMMA UnitRising ==
  ASSUME TypeOK, Kinds, NEW u \in Units, UnitMoves(u), NEW v \in Stacks, Rising(v)'
  PROVE  Rising(v)
<1> USE Names DEF TypeOK, Rising
<1>1. CASE v # u
  BY <1>1, UnitJobs, UnitPhases DEF UnitMoves, SparesPl, StartJob, StopJob, Stopped, OpenDev, WriteDev,
     Restart, GiveUp, Seed, LoadCheck, WriteFails, Crash, Failed
<1>2. CASE v = u
  <2>1. CASE StartJob(u)  BY <1>2, <2>1 DEF StartJob
  <2>2. CASE StopJob(u)  BY <1>2, <2>2 DEF StopJob
  <2>3. CASE Stopped(u)  BY <1>2, <2>3 DEF Stopped
  <2>4. CASE OpenDev(u) \/ WriteFails(u)
    <3>1. phase[u] \in {"open", "write"}  BY <2>4 DEF OpenDev, WriteFails
    <3>2. CASE Failed(u)  BY <1>2, <3>1, <3>2 DEF Failed
    <3>3. CASE job' = job  BY <1>2, <3>1, <3>3
    <3> QED BY <2>4, <3>2, <3>3 DEF OpenDev, WriteFails
  <2>5. CASE WriteDev(u)  BY <1>2, <2>5 DEF WriteDev
  <2>6. CASE Restart(u) \/ GiveUp(u) \/ Crash(u)
    BY <1>2, <2>6 DEF Restart, GiveUp, Crash
  <2>7. CASE u = "websdr" /\ Seed  BY <1>2, <2>7 DEF Seed, Failed
  <2> QED BY <1>2, <2>1, <2>2, <2>3, <2>4, <2>5, <2>6, <2>7 DEF UnitMoves, SparesPl
<1> QED BY <1>1, <1>2

LEMMA UnitAInv ==
  ASSUME AInv, NEW u \in Units, UnitMoves(u)
  PROVE  AInv'
<1> USE DEF AInv
<1>1. TypeOK' /\ Kinds' /\ Writing'  BY UnitTypes, UnitPhases, UnitWriting
<1>2. Targets'  BY UnitLeaves DEF Targets, mode
<1>3. Exclusive'  BY UnitRising, Names DEF Exclusive
<1>4. Checked'
  BY UnitLeaves DEF Checked, RefusedEarly, Changes, Allowed, mode, ghost
<1> QED BY <1>1, <1>2, <1>3, <1>4
-----------------------------------------------------------------------------
(* Commands. *)

LEMMA ConflictsHold ==
  ASSUME NEW u \in Stacks, NEW v \in Stacks, u # v, ~({u, v} \subseteq Apps)
  PROVE  v \in Conflicts(u)
  BY Names DEF Conflicts

\* A start orders down every stack that conflicts.
LEMMA StartsExclusively ==
  ASSUME TypeOK, Kinds, Exclusive, NEW u \in Units, job' = StartJobs(u), phase' = phase
  PROVE  job' \in [Units -> {"start", "stop", None}] /\ Exclusive'
<1> USE Names DEF TypeOK
<1>1. job' \in [Units -> {"start", "stop", None}]  BY DEF StartJobs
<1>2. ASSUME NEW v \in Stacks, Rising(v)' PROVE v = u \/ (Rising(v) /\ v \notin Conflicts(u))
  BY <1>2 DEF Rising, StartJobs, WithParts
<1>3. ASSUME NEW v \in Stacks, NEW w \in Stacks, Rising(v)', Rising(w)', v # w
      PROVE  {v, w} \subseteq Apps
  <2>1. CASE v = u  BY <1>2, <1>3, <2>1, ConflictsHold
  <2>2. CASE w = u  BY <1>2, <1>3, <2>2, ConflictsHold
  <2>3. CASE v # u /\ w # u  BY <1>2, <1>3, <2>3 DEF Exclusive
  <2> QED BY <2>1, <2>2, <2>3
<1> QED BY <1>1, <1>3 DEF Exclusive

LEMMA StopsExclusively ==
  ASSUME TypeOK, Exclusive, NEW S, job' = StopJobs(S), phase' = phase
  PROVE  job' \in [Units -> {"start", "stop", None}] /\ Exclusive'
<1> USE Names DEF TypeOK
<1>1. job' \in [Units -> {"start", "stop", None}]  BY DEF StopJobs
<1>2. \A v \in Stacks : Rising(v)' => Rising(v)  BY DEF Rising, StopJobs
<1> QED BY <1>1, <1>2 DEF Exclusive

\* web888-mode's steps and a kill.
ModeMoves(a) ==
  \/ Ask(a) \/ Decide(a) \/ Check(a) \/ Stop(a) \/ StopDone(a) \/ Select(a) \/ Start(a)
  \/ StartDone(a) \/ Kill(a)

LEMMA ModeAInv ==
  ASSUME AInv, NEW a \in Admins, ModeMoves(a)
  PROVE  AInv'
<1> USE Names DEF AInv
<1>1. UNCHANGED <<phase, bits, pl, dev, consent, revised, bare>>
  BY DEF ModeMoves, Ask, Decide, Check, Stop, StopDone, Select, Start, StartDone, Kill, units,
         fpga, ghost
<1>2. job' \in [Units -> {"start", "stop", None}] /\ Exclusive'
  <2>1. CASE Start(a)
    <3>1. target[a] \in Units  BY <2>1 DEF Start, Step, Targets
    <3> QED BY <1>1, <2>1, <3>1, StartsExclusively DEF Start
  <2>2. CASE Stop(a)  BY <1>1, <2>2, StopsExclusively DEF Stop
  <2>3. CASE ~Start(a) /\ ~Stop(a)
    <3>1. job' = job
      BY <2>3 DEF ModeMoves, Ask, Decide, Check, StopDone, Select, StartDone, Kill, units
    <3> QED BY <1>1, <3>1 DEF TypeOK, Exclusive, Rising
  <2> QED BY <2>1, <2>2, <2>3
<1>3. Kinds' /\ Writing'  BY <1>1 DEF Kinds, Writing, User
<1>4. /\ pc' \in [Admins -> {"idle", "decide", "check", "stop", "wait", "select", "start",
                             "started"}]
      /\ target' \in [Admins -> Stacks \cup {None}] /\ req' \in [Admins -> Images \cup {None}]
      /\ cur' \in [Admins -> Images] /\ group' \in [Admins -> 1 .. 3] /\ sel' \in Images
      /\ \A b \in Admins : b # a => /\ pc'[b] = pc[b] /\ target'[b] = target[b]
                                    /\ req'[b] = req[b] /\ cur'[b] = cur[b]
  <2> USE DEF TypeOK
  <2>1. CASE Ask(a)  BY <2>1 DEF Ask, Step, fpga
  <2>2. CASE Select(a)  BY <2>2 DEF Select, Step, Changes
  <2>3. CASE StopDone(a)  BY <2>3 DEF StopDone, Step, fpga
  <2>4. CASE Decide(a) \/ Check(a)  BY <2>4 DEF Decide, Check, Step, fpga
  <2>5. CASE Stop(a) \/ Start(a) \/ StartDone(a) \/ Kill(a)
    BY <2>5 DEF Stop, Start, StartDone, Kill, Step, fpga
  <2> QED BY <2>1, <2>2, <2>3, <2>4, <2>5 DEF ModeMoves
<1>5. cmds' \in 0 .. MaxCmds /\ faults' \in 0 .. MaxFaults
  BY ModeAssumption DEF TypeOK, ModeMoves, Ask, Decide, Check, Stop, StopDone, Select, Start,
     StartDone, Kill, Fault
<1>6. late' \in BOOLEAN
  BY DEF TypeOK, ModeMoves, Ask, Decide, Check, Stop, StopDone, Select, Start, StartDone, Kill,
     ghost
<1>7. TypeOK'  BY <1>1, <1>2, <1>4, <1>5, <1>6 DEF TypeOK
<1>8. Targets'
  <2> SUFFICES ASSUME NEW b \in Admins
               PROVE  /\ pc'[b] \in {"decide", "check", "select", "start", "started"}
                           => target'[b] \in Stacks
                      /\ target'[b] = None => req'[b] = None
    BY DEF Targets
  <2> USE DEF TypeOK, Targets
  <2>1. CASE b # a  BY <1>4, <2>1
  <2>2. CASE b = a
    <3>1. CASE Ask(a)  BY <2>2, <3>1 DEF Ask, Step
    <3>2. CASE ~Ask(a)
      BY <2>2, <3>2 DEF ModeMoves, Decide, Check, Stop, StopDone, Select, Start, StartDone,
         Kill, Step
    <3> QED BY <3>1, <3>2
  <2> QED BY <2>1, <2>2
<1>9. Checked'
  <2>1. RefusedEarly'
    <3>1. CASE Select(a)
      <4>1. pc[a] = "select" /\ (late' = late \/ (Changes(a) /\ ~Allowed(a)))
        BY <3>1 DEF Select, Step
      <4>2. late' = late \/ revised  BY <4>1 DEF Checked
      <4> QED BY <1>1, <4>2 DEF Checked, RefusedEarly
    <3>2. CASE ~Select(a)
      <4>1. late' = late
        BY <3>2 DEF ModeMoves, Ask, Decide, Check, Stop, StopDone, Start, StartDone, Kill, ghost
      <4> QED BY <1>1, <4>1 DEF Checked, RefusedEarly
    <3> QED BY <3>1, <3>2
  <2>2. ASSUME NEW b \in Admins, pc'[b] \in {"stop", "wait", "select"}, Changes(b)'
        PROVE  Allowed(b)' \/ revised'
    <3> USE DEF TypeOK, Checked, Changes, Allowed
    <3>1. CASE b # a  BY <1>1, <1>4, <2>2, <3>1
    <3>2. CASE b = a
      <4>1. CASE Ask(a)  BY <1>1, <2>2, <3>2, <4>1 DEF Ask, Step, Targets
      <4>2. CASE ~Ask(a)
        <5>1. req' = req /\ cur' = cur
          BY <4>2 DEF ModeMoves, Decide, Check, Stop, StopDone, Select, Start, StartDone, Kill,
             mode
        <5>2. pc[a] \in {"stop", "wait", "select"} \/ Allowed(a)
          BY <2>2, <3>2, <4>2, <5>1 DEF ModeMoves, Decide, Check, Stop, StopDone, Select, Start,
             StartDone, Kill, Step
        <5> QED BY <1>1, <2>2, <3>2, <5>1, <5>2
      <4> QED BY <4>1, <4>2
    <3> QED BY <3>1, <3>2
  <2> QED BY <2>1, <2>2 DEF Checked
<1> QED BY <1>2, <1>3, <1>7, <1>8, <1>9

LEMMA OtherAInv ==
  ASSUME AInv, Consent \/ \E u \in Bare : BareStart(u)
  PROVE  AInv'
<1> USE Names DEF AInv
<1>1. CASE Consent
  <2>1. UNCHANGED <<units, pl, dev, sel, mode, cmds, late, bare>> /\ revised' = TRUE
        /\ consent' = ~consent /\ faults' \in 0 .. MaxFaults
    BY <1>1, ModeAssumption DEF Consent, Fault, TypeOK
  <2>2. TypeOK'  BY <2>1 DEF TypeOK, units, mode
  <2> QED BY <2>1, <2>2 DEF Kinds, Writing, User, Targets, Exclusive, Rising, Checked,
                           RefusedEarly, units, mode
<1>2. ASSUME NEW u \in Units, BareStart(u) PROVE AInv'
  <2>1. /\ UNCHANGED <<phase, bits, fpga, mode, faults, late, revised>> /\ bare' = TRUE
        /\ cmds' \in 0 .. MaxCmds /\ job' = StartJobs(u)
    BY <1>2, ModeAssumption DEF BareStart, TypeOK
  <2>2. job' \in [Units -> {"start", "stop", None}] /\ Exclusive'
    BY <2>1, StartsExclusively
  <2>3. TypeOK'  BY <2>1, <2>2 DEF TypeOK, fpga, mode
  <2> QED BY <2>1, <2>2, <2>3 DEF Kinds, Writing, User, Targets, Checked, RefusedEarly, Changes,
                                 Allowed, mode, fpga
<1>3. Bare \subseteq Units  BY ModeAssumption DEF Units, Stacks
<1> QED BY <1>1, <1>2, <1>3

\* Next, by who moves; what programs the PL, and web888-mode, wait until systemd has
\* worked off its queue.
LEMMA WhoMoves ==
  ASSUME Next
  PROVE  \/ \E u \in Units : SparesPl(u) \/ (Quiet /\ (OpenDev(u) \/ WriteDev(u)))
         \/ \E a \in Admins : ModeMoves(a) /\ Quiet
         \/ Consent \/ \E u \in Bare : BareStart(u)
<1>1. CASE \E u \in Units : JobStep(u) \/ UnitStep(u)
  <2>1. PICK u \in Units : JobStep(u) \/ UnitStep(u)  BY <1>1
  <2>2. SparesPl(u) \/ (Quiet /\ (OpenDev(u) \/ WriteDev(u)))
    BY <2>1 DEF JobStep, UnitStep, SparesPl
  <2> QED BY <2>2
<1>2. CASE \E a \in Admins : ModeStep(a)  BY <1>2 DEF ModeStep, ModeMoves
<1>3. CASE Quiet /\ Event  BY <1>3 DEF Event, SparesPl, ModeMoves
<1> QED BY <1>1, <1>2, <1>3 DEF Next

LEMMA InitAInv == Init => AInv
<1> SUFFICES ASSUME Init PROVE AInv  OBVIOUS
<1> USE Names
<1>1. \A u \in Units : phase[u] = "inactive" /\ job[u] = None  BY DEF Init
<1>2. \A a \in Admins : pc[a] = "idle" /\ req[a] = None  BY DEF Init
<1>3. late = FALSE /\ revised = FALSE /\ bare = FALSE  BY DEF Init
<1>4. TypeOK
  <2>1. cmds \in 0 .. MaxCmds /\ faults \in 0 .. MaxFaults  BY ModeAssumption DEF Init
  <2>2. late \in BOOLEAN /\ revised \in BOOLEAN /\ bare \in BOOLEAN  BY <1>3
  <2>3. cur \in [Admins -> Images] /\ consent \in BOOLEAN /\ sel \in Images
    BY DEF Init, Images
  <2> QED BY <2>1, <2>2, <2>3 DEF Init, TypeOK
<1>5. Kinds /\ Writing /\ Exclusive  BY <1>1 DEF Kinds, Writing, Exclusive, Rising
<1>6. Targets /\ Checked  BY <1>2, <1>3 DEF Targets, Checked, RefusedEarly
<1> QED BY <1>4, <1>5, <1>6 DEF AInv

\* Whoever gives the commands and however units are started.
THEOREM AnyoneInductive == Spec => []AInv
<1>1. ASSUME AInv, [Next]_vars PROVE AInv'
  <2>1. CASE Next  BY <1>1, <2>1, WhoMoves, UnitAInv, ModeAInv, OtherAInv DEF UnitMoves
  <2>2. CASE UNCHANGED vars
    BY <1>1, <2>2 DEF vars, units, fpga, mode, ghost, AInv, TypeOK, Kinds, Writing, User,
       Targets, Exclusive, Rising, Checked, RefusedEarly, Changes, Allowed
  <2> QED BY <1>1, <2>1, <2>2
<1> QED BY InitAInv, <1>1, PTL DEF Spec

\* Every variable keeps its type: the PL is blank or holds an image somebody started.
THEOREM ModeTypes == Spec => []TypeOK
<1>1. AInv => TypeOK  BY DEF AInv
<1> QED BY AnyoneInductive, <1>1, PTL

\* A refusal comes before the first stop, unless the consent was revised in between
\* (switch_to's --check before stop_all), for any number of administrators.
THEOREM RefusalsStopNothing == Spec => []RefusedEarly
<1>1. AInv => RefusedEarly  BY DEF AInv, Checked
<1> QED BY AnyoneInductive, <1>1, PTL

\* When systemd has no job left, the Conflicts= of the units have left one stack at
\* most, but for apps among themselves, whoever has started them.
THEOREM SettlesOnOne == Spec => []SettledExclusive
<1>1. ASSUME AInv PROVE SettledExclusive
  <2> SUFFICES ASSUME \A u \in Units : job[u] = None, NEW u \in Stacks, NEW v \in Stacks,
                      IsActive(u), IsActive(v)
               PROVE  u = v \/ {u, v} \subseteq Apps
    BY DEF SettledExclusive
  <2>1. Rising(u) /\ Rising(v)  BY Names DEF Rising, IsActive
  <2> QED BY <1>1, <2>1 DEF AInv, Exclusive
<1> QED BY AnyoneInductive, <1>1, PTL

\* A unit that opens the device is on its way up, as is a program nobody has told to stop,
\* so their units do not conflict.
LEMMA OpensOverTheStopped ==
  ASSUME AInv, Quiet, NEW u \in Units, OpenDev(u), dev' = u, NEW v \in Stacks, Live(v)
  PROVE  \/ phase[v] = "stopping"
         \/ {u, v} \subseteq Apps
         \/ u = "pl" /\ (v = "web888d" \/ job["web888d"] # "start")
<1> USE Names DEF AInv, TypeOK
<1>1. phase[u] = "open"  BY DEF OpenDev
<1> SUFFICES ASSUME phase[v] # "stopping", u = "pl" => job["web888d"] = "start"
             PROVE  {u, v} \subseteq Apps \/ (u = "pl" /\ v = "web888d")
  OBVIOUS
<1>2. phase[v] = "run" /\ job[v] # "stop"
  BY DEF Live, Quiet, Runnable
<1>3. Rising(v)  BY <1>2 DEF Rising
<1>4. CASE u = "pl"
  <2>1. Rising("web888d")  BY <1>4 DEF Rising
  <2> QED BY <1>3, <1>4, <2>1 DEF Exclusive
<1>5. CASE u # "pl"
  <2>1. u \in Stacks /\ job[u] # "stop"  BY <1>1, <1>5 DEF Quiet, Runnable
  <2>2. Rising(u)  BY <1>1, <2>1 DEF Rising
  <2> QED BY <1>1, <1>2, <1>3, <2>1, <2>2 DEF Exclusive
<1> QED BY <1>4, <1>5

\* Opening the device resets the PL under no program but those already told to stop, by
\* the units' Conflicts= alone: for any administrators, direct starts, crashes and restarts.
\* Apps among themselves, and the loader run again or by hand, are the exceptions.
THEOREM ResetsOnlyTheStopped == Spec => OnlyTheStoppedLoseThePl
<1>1. ASSUME AInv, [Next]_vars
      PROVE  [\A u \in Units, v \in Stacks :
                dev' = u /\ dev # u /\ Live(v) =>
                  \/ phase[v] = "stopping"
                  \/ {u, v} \subseteq Apps
                  \/ u = "pl" /\ (v = "web888d" \/ job["web888d"] # "start")]_vars
  <2> SUFFICES ASSUME Next, NEW u \in Units, NEW v \in Stacks, dev' = u, dev # u, Live(v)
               PROVE  \/ phase[v] = "stopping"
                      \/ {u, v} \subseteq Apps
                      \/ u = "pl" /\ (v = "web888d" \/ job["web888d"] # "start")
    BY <1>1
  <2>1. CASE \E w \in Units : SparesPl(w) \/ (Quiet /\ (OpenDev(w) \/ WriteDev(w)))
    <3>1. PICK w \in Units : SparesPl(w) \/ (Quiet /\ (OpenDev(w) \/ WriteDev(w)))  BY <2>1
    <3>2. u # None  BY Names, ModeAssumption DEF Units, Stacks
    <3>3. Quiet /\ OpenDev(w) /\ w = u
      BY <3>1, <3>2 DEF SparesPl, StartJob, StopJob, Stopped, OpenDev, WriteDev, Restart, GiveUp,
         Seed, LoadCheck, WriteFails, Crash, Closed, fpga
    <3> QED BY <1>1, <3>3, OpensOverTheStopped
  <2>2. CASE (\E a \in Admins : ModeMoves(a) /\ Quiet) \/ Consent \/ \E w \in Bare : BareStart(w)
    <3>1. dev' = dev
      BY <2>2 DEF ModeMoves, Ask, Decide, Check, Stop, StopDone, Select, Start, StartDone, Kill,
         Consent, BareStart, fpga
    <3> QED BY <3>1
  <2> QED BY <2>1, <2>2, WhoMoves
<1> QED BY AnyoneInductive, <1>1, PTL DEF Spec, OnlyTheStoppedLoseThePl
-----------------------------------------------------------------------------
(* The switch: one administrator, no direct starts. *)

OneAdmin == \A a, b \in Admins : a = b

\* With the queue worked off, a loader that loads does so for a start of web888d that
\* is under way: one that is to stop would have been told so.
LEMMA LoadsForStart ==
  ASSUME TypeOK, Kinds, Loader, Quiet, Loading
  PROVE  job["pl"] = "start" /\ job["web888d"] = "start" /\ phase["web888d"] = "inactive"
<1> USE Names
<1>1. job["pl"] \in {"start", "stop"} /\ phase["web888d"] = "inactive"
  BY DEF Loader, TypeOK
<1>2. job["pl"] # "stop"
  <2> SUFFICES ASSUME job["pl"] = "stop" PROVE FALSE  OBVIOUS
  <2>1. ~Runnable("pl") /\ ~Runnable("web888d")  BY DEF Quiet
  <2>2. job["web888d"] = "stop"
    BY <2>1 DEF Runnable, Loading
  <2> QED BY <1>1, <2>1, <2>2 DEF Runnable
<1> QED BY <1>1, <1>2 DEF Loader

\* What is off stays off, and a stop ends with the unit off.
LEMMA UnitOff ==
  ASSUME TypeOK, Kinds, NEW u \in Units, UnitMoves(u), NEW v \in Stacks
  PROVE  /\ Off(v) => Off(v)'
         /\ job[v] = "stop" => (job'[v] = "stop" \/ Off(v)')
<1> USE Names DEF TypeOK, Off
<1>1. CASE v # u  BY <1>1, UnitJobs, UnitPhases DEF UnitMoves, SparesPl, StartJob, StopJob, Stopped,
                     OpenDev, WriteDev, Restart, GiveUp, Seed, LoadCheck, WriteFails, Crash, Failed
<1>2. CASE v = u
  <2>1. CASE StartJob(u)  BY <1>2, <2>1 DEF StartJob
  <2>2. CASE StopJob(u)  BY <1>2, <2>2 DEF StopJob
  <2>3. CASE Stopped(u)  BY <1>2, <2>3 DEF Stopped
  <2>4. CASE OpenDev(u) \/ WriteFails(u)
    BY <1>2, <2>4 DEF OpenDev, WriteFails, Failed
  <2>5. CASE WriteDev(u)  BY <1>2, <2>5 DEF WriteDev
  <2>6. CASE Restart(u) \/ GiveUp(u) \/ Crash(u)
    BY <1>2, <2>6 DEF Restart, GiveUp, Crash
  <2>7. CASE u = "websdr" /\ Seed  BY <1>2, <2>7 DEF Seed, Failed
  <2> QED BY <1>2, <2>1, <2>2, <2>3, <2>4, <2>5, <2>6, <2>7 DEF UnitMoves, SparesPl
<1> QED BY <1>1, <1>2

LEMMA UnitCleared ==
  ASSUME AInv, Ordered, NEW u \in Units, UnitMoves(u)
  PROVE  OneInPlay' /\ \A a \in Admins : Cleared(a)'
<1> USE Names DEF AInv, Ordered
<1>1. OneInPlay'  BY UnitOff DEF OneInPlay
<1>2. ASSUME NEW a \in Admins PROVE Cleared(a)'
  <2>1. pc' = pc /\ group' = group  BY UnitLeaves DEF mode
  <2>2. group[a] \in 1 .. 3  BY DEF TypeOK
  <2>3. \A g \in 1 .. 3 : Groups[g] \subseteq Stacks  BY DEF Groups, Stacks
  <2>4. \A g \in 1 .. group[a] - 1 : g \in 1 .. 3  BY <2>2
  <2> QED BY <2>1, <2>2, <2>3, <2>4, UnitOff DEF Cleared
<1> QED BY <1>1, <1>2

LEMMA UnitLoader ==
  ASSUME AInv, Ordered, NEW u \in Units, UnitMoves(u)
  PROVE  Loader'
<1> USE Names DEF AInv, Ordered, TypeOK, Kinds, Loading
<1>1. job' \in [Units -> {"start", "stop", None}] /\ \A v \in Units : job'[v] \in {job[v], None}
  BY UnitJobs
<1>2. CASE u = "pl"
  <2>1. phase'["web888d"] = phase["web888d"]  BY <1>2, UnitPhases
  <2>2. Loading' => job'["pl"] # None /\ phase["web888d"] = "inactive"
    BY <1>2 DEF Loader, UnitMoves, SparesPl, StartJob, StopJob, Stopped, OpenDev, WriteDev, Restart,
       GiveUp, Seed, LoadCheck, WriteFails, Crash, Failed, Idle, IsActive
  <2>3. job'["pl"] = "start" => job'["web888d"] = "start"
    BY <1>2 DEF Loader, UnitMoves, SparesPl, StartJob, StopJob, Stopped, OpenDev, WriteDev, Restart,
       GiveUp, Seed, LoadCheck, WriteFails, Crash, Failed
  <2>4. job'["web888d"] = "start" => job'["pl"] # "stop"
    BY <1>1 DEF Loader
  <2> QED BY <1>1, <2>1, <2>2, <2>3, <2>4 DEF Loader
<1>3. CASE u = "web888d"
  <2>1. phase'["pl"] = phase["pl"] /\ job'["pl"] = job["pl"]
    BY <1>3, UnitPhases DEF UnitMoves, SparesPl, StartJob, StopJob, Stopped, OpenDev, WriteDev, Restart,
       GiveUp, Seed, WriteFails, Crash, Failed
  <2>2. CASE StartJob(u)
    <3>1. job["pl"] = None /\ job["web888d"] = "start"  BY <1>3, <2>2 DEF StartJob, Runnable
    <3>2. phase'["web888d"] # "inactive" => job'["web888d"] # "start"
      BY <1>3, <2>2, <3>1 DEF StartJob, Loader, Idle, IsActive
    <3>3. ~Loading  BY <3>1 DEF Loader
    <3> QED BY <1>1, <2>1, <3>1, <3>2, <3>3 DEF Loader
  <2>3. CASE ~StartJob(u)
    <3>1. phase["web888d"] = "inactive" => phase'["web888d"] = "inactive"
      BY <1>3, <2>3 DEF UnitMoves, SparesPl, StopJob, Stopped, OpenDev, WriteDev, Restart, GiveUp, Seed,
         WriteFails, Crash
    <3>2. job["web888d"] = "start" => job'["web888d"] = "start"
      BY <1>3, <2>3 DEF UnitMoves, SparesPl, StopJob, Stopped, OpenDev, WriteDev, Restart, GiveUp, Seed,
         WriteFails, Crash
    <3> QED BY <1>1, <2>1, <3>1, <3>2 DEF Loader
  <2> QED BY <2>2, <2>3
<1>4. CASE u # "pl" /\ u # "web888d"
  <2>1. /\ phase'["pl"] = phase["pl"] /\ job'["pl"] = job["pl"]
        /\ phase'["web888d"] = phase["web888d"] /\ job'["web888d"] = job["web888d"]
    BY <1>4, UnitPhases DEF UnitMoves, SparesPl, StartJob, StopJob, Stopped, OpenDev, WriteDev, Restart,
       GiveUp, Seed, WriteFails, Crash, Failed
  <2> QED BY <2>1 DEF Loader
<1> QED BY <1>2, <1>3, <1>4

\* A unit that resets or programs the PL is the only one in play, or the loader on
\* behalf of the only one.
LEMMA UnitProgrammes ==
  ASSUME AInv, Ordered, Quiet, NEW u \in Units, phase[u] \in {"open", "write"}
  PROVE  /\ User(u) \in Stacks /\ ~Off(User(u))
         /\ \A v \in Stacks : v # User(u) => Off(v)
         /\ u = "pl" => /\ job["pl"] = "start" /\ job["web888d"] = "start"
                        /\ phase["web888d"] = "inactive"
         /\ u # "pl" => u \in {"websdr"} \cup Apps /\ User(u) = u /\ job["pl"] # "start"
                        /\ job["web888d"] # "start" /\ phase["web888d"] = "inactive"
<1> USE Names DEF AInv, Ordered, TypeOK, User
<1>1. CASE u = "pl"
  BY <1>1, LoadsForStart DEF Off, OneInPlay, Loading
<1>2. CASE u # "pl"
  <2>1. u \in {"websdr"} \cup Apps  BY <1>2 DEF Kinds
  <2>2. ~Off(u) /\ Off("web888d")  BY <2>1 DEF Off, OneInPlay
  <2> QED BY <1>2, <2>1, <2>2 DEF Off, OneInPlay, Loader
<1> QED BY <1>1, <1>2

\* Opening the device and writing: every other stack is off, so nobody sees it.
LEMMA WorkConfigured ==
  ASSUME AInv, Ordered, Quiet, NEW u \in Units, OpenDev(u) \/ WriteDev(u)
  PROVE  Configured'
<1> USE Names DEF AInv, Ordered, TypeOK
<1>0. sel' = sel  BY DEF OpenDev, WriteDev
<1>1. phase[u] \in {"open", "write"}  BY DEF OpenDev, WriteDev
<1>2. /\ User(u) \in Stacks /\ ~Off(User(u))
      /\ \A v \in Stacks : v # User(u) => phase[v] = "inactive" /\ job[v] # "start"
      /\ u = "pl" => /\ job["pl"] = "start" /\ job["web888d"] = "start"
                     /\ phase["web888d"] = "inactive" /\ User(u) = "web888d"
      /\ u # "pl" => /\ u \in {"websdr"} \cup Apps /\ User(u) = u /\ job["pl"] # "start"
                     /\ job["web888d"] # "start" /\ phase["web888d"] = "inactive"
  BY <1>1, UnitProgrammes DEF Off, User
<1>3. CASE OpenDev(u) /\ Failed(u) /\ UNCHANGED <<bits, pl>>
  <2>1. \A v \in Stacks : ~Live(v)'
    <3>1. \A v \in Stacks : phase'[v] \in {"inactive", "backoff"}  BY <1>2, <1>3 DEF Failed
    <3> QED BY <3>1 DEF Live
  <2>2. phase'["websdr"] # "write" /\ phase'["web888d"] # "backoff"
    BY <1>2, <1>3 DEF Failed
  <2>3. phase'["pl"] = "write" => job'["pl"] # "start"  BY <1>2, <1>3 DEF Failed
  <2>4. job'["web888d"] # "start"  BY <1>2, <1>3 DEF Failed
  <2> QED BY <2>1, <2>2, <2>3, <2>4 DEF Configured
<1>4. CASE /\ bits' = [bits EXCEPT ![User(u)] = Image(u)]
           /\ phase' = [phase EXCEPT ![u] = "write"] /\ job' = job
  <2>1. \A v \in Stacks : ~Live(v)'
    <3>1. \A v \in Stacks : phase'[v] \in {"inactive", "write"}  BY <1>2, <1>4
    <3> QED BY <3>1 DEF Live
  <2>2. u \notin Apps => bits'[User(u)] = sel  BY <1>2, <1>4 DEF Image
  <2>3. phase'["websdr"] = "write" => bits'["websdr"] = sel  BY <1>2, <1>4, <2>2
  <2>4. phase'["web888d"] # "backoff"  BY <1>2, <1>4
  <2>5. job'["pl"] = "start" => bits'["web888d"] = sel  BY <1>2, <1>4, <2>2
  <2>6. ~(job'["web888d"] = "start" /\ job'["pl"] = None)  BY <1>2, <1>4
  <2> QED BY <1>0, <2>1, <2>3, <2>4, <2>5, <2>6 DEF Configured
<1>5. CASE WriteDev(u)
  <2>0. /\ pl' = bits[User(u)] /\ bits' = bits
        /\ phase' = [phase EXCEPT ![u] = IF u = "pl" THEN "inactive" ELSE "run"]
        /\ job' = [job EXCEPT ![u] = IF @ = "start" THEN None ELSE @]
    BY <1>5 DEF WriteDev
  <2>1. CASE u = "pl"
    <3>1. \A v \in Stacks : ~Live(v)'
      <4>1. \A v \in Stacks : phase'[v] = "inactive"  BY <1>2, <2>0, <2>1
      <4> QED BY <4>1 DEF Live
    <3>2. bits["web888d"] = sel  BY <1>2, <1>5, <2>1 DEF Configured, WriteDev
    <3>3. phase'["websdr"] = "inactive" /\ phase'["web888d"] = "inactive" /\ phase'["pl"] = "inactive"
      BY <1>2, <2>0, <2>1
    <3>4. Holds("web888d")'  BY <1>0, <1>2, <2>0, <2>1, <3>2 DEF Holds
    <3> QED BY <3>1, <3>3, <3>4 DEF Configured
  <2>2. CASE u # "pl"
    <3>1. Holds(u)'
      <4>1. u = "websdr" => bits[u] = sel  BY <1>5 DEF Configured, WriteDev
      <4> QED BY <1>0, <1>2, <2>0, <2>2, <4>1 DEF Holds
    <3>2. \A v \in Stacks : Live(v)' => v = u
      <4>1. \A v \in Stacks : v # u => phase'[v] = "inactive"  BY <1>2, <2>0, <2>2
      <4> QED BY <4>1 DEF Live
    <3>3. /\ phase'["websdr"] # "write" /\ phase'["web888d"] = "inactive"
          /\ job'["pl"] # "start" /\ job'["web888d"] # "start"
      BY <1>2, <2>0, <2>2
    <3> QED BY <3>1, <3>2, <3>3 DEF Configured
  <2> QED BY <2>1, <2>2
<1> QED BY <1>3, <1>4, <1>5 DEF OpenDev

\* The other moves leave the PL alone: a program that comes up without loading it
\* finds there what its loader, or its first run, has left.
LEMMA RestConfigured ==
  ASSUME AInv, Ordered, NEW u \in Units, SparesPl(u)
  PROVE  Configured'
<1> USE Names DEF AInv, Ordered, TypeOK
<1>0. UnitMoves(u)  BY DEF UnitMoves
<1>1. UNCHANGED <<pl, bits, sel>>
  BY <1>0, UnitLeaves DEF SparesPl, StartJob, StopJob, Stopped, Restart, GiveUp, Seed, LoadCheck,
     WriteFails, Crash, fpga
<1>2. \A v \in Stacks : Holds(v)' <=> Holds(v)  BY <1>1 DEF Holds
<1>3. \A v \in Units : v # u => phase'[v] = phase[v]  BY <1>0, UnitPhases
<1>4. ASSUME NEW v \in Stacks, Live(v)'
      PROVE  \/ Live(v)
             \/ v = "web888d" /\ phase[v] = "backoff"
             \/ v = "web888d" /\ job[v] = "start" /\ job["pl"] = None
  <2>1. CASE v # u  BY <1>3, <1>4, <2>1 DEF Live
  <2>2. CASE v = u
    BY <1>4, <2>2 DEF Live, SparesPl, StartJob, StopJob, Stopped, Restart, GiveUp, Seed, LoadCheck,
       WriteFails, Crash, Failed, Runnable
  <2> QED BY <2>1, <2>2
<1>5. phase'["websdr"] = "write" => phase["websdr"] = "write"
  <2>1. CASE u # "websdr"  BY <1>3, <2>1
  <2>2. CASE u = "websdr"
    BY <2>2 DEF SparesPl, StartJob, StopJob, Stopped, Restart, GiveUp, Seed, WriteFails, Crash, Failed
  <2> QED BY <2>1, <2>2
<1>6. phase'["web888d"] = "backoff" => phase["web888d"] = "backoff" \/ Live("web888d")
  <2>1. CASE u # "web888d"  BY <1>3, <2>1
  <2>2. CASE u = "web888d"
    BY <2>2 DEF SparesPl, StartJob, StopJob, Stopped, Restart, GiveUp, Seed, WriteFails, Crash,
       Kinds, Live
  <2> QED BY <2>1, <2>2
<1>7. phase'["pl"] = "write" => phase["pl"] = "write"
  <2>1. CASE u # "pl"  BY <1>3, <2>1
  <2>2. CASE u = "pl"
    BY <2>2 DEF Kinds, SparesPl, StartJob, StopJob, Stopped, Restart, GiveUp, Seed, LoadCheck,
       WriteFails, Crash, Failed
  <2> QED BY <2>1, <2>2
<1>8. job'["pl"] \in {job["pl"], None} /\ job'["web888d"] \in {job["web888d"], None}
  BY <1>0, UnitJobs
<1>9. job'["web888d"] = "start" /\ job'["pl"] = None => job["web888d"] = "start" /\ job["pl"] = None
  <2>1. job["web888d"] = "start" => job["pl"] # "stop"  BY DEF Loader
  <2>2. CASE u # "pl"
    <3>1. job'["pl"] = job["pl"]
      BY <2>2 DEF SparesPl, StartJob, StopJob, Stopped, Restart, GiveUp, Seed, WriteFails, Crash, Failed
    <3> QED BY <1>8, <3>1
  <2>3. CASE u = "pl"
    BY <1>8, <2>1, <2>3 DEF SparesPl, StartJob, StopJob, Stopped, Restart, GiveUp, Seed, LoadCheck,
       WriteFails, Crash, Failed, Kinds, IsActive
  <2> QED BY <2>2, <2>3
<1>10. \A v \in Stacks : Live(v)' => Holds(v)'  BY <1>2, <1>4 DEF Configured
<1>11. phase'["websdr"] = "write" => bits'["websdr"] = sel'  BY <1>1, <1>5 DEF Configured
<1>12. phase'["web888d"] = "backoff" => Holds("web888d")'  BY <1>2, <1>6 DEF Configured
<1>13. phase'["pl"] = "write" /\ job'["pl"] = "start" => bits'["web888d"] = sel'
  BY <1>1, <1>7, <1>8 DEF Configured
<1>14. job'["web888d"] = "start" /\ job'["pl"] = None => Holds("web888d")'
  BY <1>2, <1>9 DEF Configured
<1> QED BY <1>10, <1>11, <1>12, <1>13, <1>14 DEF Configured

LEMMA UnitOrdered ==
  ASSUME AInv, Ordered, NEW u \in Units, SparesPl(u) \/ (Quiet /\ (OpenDev(u) \/ WriteDev(u)))
  PROVE  Ordered'
<1>1. UnitMoves(u)  BY DEF UnitMoves
<1>2. OneInPlay' /\ (\A a \in Admins : Cleared(a)') /\ Loader'
  BY <1>1, UnitCleared, UnitLoader
<1>3. Configured'  BY WorkConfigured, RestConfigured
<1> QED BY <1>2, <1>3 DEF Ordered

\* A step of web888-mode that gives systemd no job and selects nothing.
LEMMA PlainOrdered ==
  ASSUME OneAdmin, AInv, Ordered, NEW a \in Admins, UNCHANGED <<units, fpga>>,
         Ask(a) \/ Decide(a) \/ Check(a) \/ StopDone(a) \/ StartDone(a) \/ Kill(a)
  PROVE  Ordered'
<1> USE Names DEF AInv, Ordered, TypeOK
<1>1. OneInPlay' /\ Loader' /\ Configured'
  BY DEF OneInPlay, Off, Loader, Loading, Configured, Live, Holds, units, fpga
<1>2. \A v \in Stacks : Off(v)' <=> Off(v)  BY DEF Off, units
<1>3. ASSUME NEW b \in Admins PROVE Cleared(b)'
  <2>1. b = a  BY DEF OneAdmin
  <2>2. \A g \in 1 .. 3 : Groups[g] \subseteq Stacks  BY DEF Groups, Stacks
  <2>3. CASE Ask(a)
    <3>1. pc'[a] \in {"stop", "decide"} /\ group'[a] = 1  BY <2>3 DEF Ask, Step
    <3> QED BY <2>1, <3>1 DEF Cleared
  <2>4. CASE Decide(a) \/ Check(a)
    <3>1. /\ pc[a] \in {"decide", "check"} /\ pc'[a] \in {"check", "stop", "idle"}
          /\ group' = group
      BY <2>4 DEF Decide, Check, Step
    <3> QED BY <2>1, <3>1 DEF Cleared
  <2>5. CASE StartDone(a) \/ Kill(a)
    <3>1. pc'[a] = "idle"  BY <2>5 DEF StartDone, Kill, Step
    <3> QED BY <2>1, <3>1 DEF Cleared
  <2>6. CASE StopDone(a)
    <3>1. \A u \in Groups[group[a]] : Off(u)
      BY <2>2, <2>6 DEF StopDone, Step, Waited, Cleared
    <3>2. \A g \in 1 .. group[a] : \A u \in Groups[g] : Off(u)
      BY <2>6, <3>1 DEF StopDone, Step, Cleared
    <3>3. CASE group[a] < 3
      <4>1. pc'[a] = "stop" /\ group'[a] = group[a] + 1
        BY <2>6, <3>3 DEF StopDone, Step
      <4>2. \A g \in 1 .. group'[a] - 1 : \A u \in Groups[g] : Off(u)'
        <5>1. \A g \in 1 .. group'[a] - 1 : g \in 1 .. group[a] /\ g \in 1 .. 3  BY <4>1
        <5> QED BY <1>2, <2>2, <3>2, <5>1
      <4> QED BY <2>1, <4>1, <4>2 DEF Cleared
    <3>4. CASE ~(group[a] < 3)
      <4>1. pc'[a] \in {"select", "idle"}  BY <2>6, <3>4 DEF StopDone, Step
      <4>2. \A u \in Stacks : Off(u)
        <5>1. group[a] = 3  BY <3>4
        <5>2. \A u \in Groups[1] \cup Groups[2] \cup Groups[3] : Off(u)  BY <3>2, <5>1
        <5> QED BY <5>2 DEF Groups, Stacks
      <4> QED BY <1>2, <2>1, <4>1, <4>2 DEF Cleared
    <3> QED BY <3>3, <3>4
  <2> QED BY <2>3, <2>4, <2>5, <2>6
<1> QED BY <1>1, <1>3

\* A stop makes no start, and a loader that is stopped is stopped with web888d.
LEMMA StopOrdered ==
  ASSUME OneAdmin, AInv, Ordered, NEW a \in Admins, Stop(a)
  PROVE  Ordered'
<1> USE Names DEF AInv, Ordered, TypeOK
<1>1. /\ pc[a] = "stop" /\ pc'[a] = "wait" /\ job' = StopJobs(Groups[group[a]])
      /\ UNCHANGED <<phase, bits, pl, dev, sel, group>>
  BY DEF Stop, Step, fpga
<1>2. \A g \in 1 .. 3 : Groups[g] \subseteq Stacks  BY DEF Groups, Stacks
<1>3. group[a] \in 1 .. 3  OBVIOUS
<1>4. \A v \in Units : job'[v] = IF v \in WithParts(Groups[group[a]]) THEN "stop" ELSE job[v]
  BY <1>1 DEF StopJobs
<1>5. \A v \in Stacks : Off(v) => Off(v)'  BY <1>1, <1>4 DEF Off
<1>6. \A v \in Groups[group[a]] : job'[v] = "stop"
  BY <1>2, <1>3, <1>4 DEF WithParts
<1>7. "pl" \in WithParts(Groups[group[a]]) <=> "web888d" \in WithParts(Groups[group[a]])
  BY <1>2, <1>3 DEF WithParts
<1>8. \/ job'["pl"] = "stop" /\ job'["web888d"] = "stop"
      \/ job'["pl"] = job["pl"] /\ job'["web888d"] = job["web888d"]
  BY <1>4, <1>7
<1>9. OneInPlay'  BY <1>5 DEF OneInPlay
<1>10. Loader'  BY <1>1, <1>8 DEF Loader, Loading
<1>11. Configured'  BY <1>1, <1>8 DEF Configured, Live, Holds
<1>12. ASSUME NEW b \in Admins PROVE Cleared(b)'
  <2>1. b = a  BY DEF OneAdmin
  <2>2. \A g \in 1 .. group[a] - 1 : g \in 1 .. 3 /\ \A u \in Groups[g] : Off(u)
    BY <1>1, <1>3 DEF Cleared
  <2>3. \A g \in 1 .. group[a] - 1 : \A u \in Groups[g] : Off(u)'
    BY <1>2, <1>5, <2>2
  <2> QED BY <1>1, <1>6, <2>1, <2>3 DEF Cleared
<1> QED BY <1>9, <1>10, <1>11, <1>12

\* When the selection changes or the target is started, everything is off.
LEMMA GoOrdered ==
  ASSUME OneAdmin, AInv, Ordered, Quiet, NEW a \in Admins, Select(a) \/ Start(a)
  PROVE  Ordered'
<1> USE Names DEF AInv, Ordered, TypeOK
<1>1. /\ pc[a] \in {"select", "start"} /\ UNCHANGED <<phase, bits, pl, dev>>
  BY DEF Select, Start, Step, units, fpga
<1>2. \A u \in Stacks : phase[u] = "inactive" /\ job[u] # "start"
  BY <1>1 DEF Cleared, Off
<1>3. job["pl"] # "start" /\ ~Loading
  <2>1. job["pl"] # "start"  BY <1>2 DEF Loader
  <2> QED BY <2>1, LoadsForStart
<1>4. \A v \in Stacks : ~Live(v)'  BY <1>1, <1>2 DEF Live
<1>5. CASE Select(a)
  <2>1. pc'[a] \in {"start", "idle"} /\ job' = job  BY <1>5 DEF Select, Step, units
  <2>2. OneInPlay' /\ Loader'  BY <1>1, <1>2, <2>1 DEF OneInPlay, Off, Loader, Loading
  <2>3. Configured'  BY <1>1, <1>2, <1>3, <1>4, <2>1 DEF Configured
  <2>4. \A b \in Admins : Cleared(b)'
    BY <1>1, <1>2, <2>1 DEF OneAdmin, Cleared, Off
  <2> QED BY <2>2, <2>3, <2>4
<1>6. CASE Start(a)
  <2>1. pc'[a] = "started" /\ job' = StartJobs(target[a]) /\ target[a] \in Stacks
    BY <1>6 DEF Start, Step, Targets
  <2>2. \A v \in Stacks : v # target[a] => job'[v] # "start"
    BY <1>2, <2>1 DEF StartJobs
  <2>3. job'["pl"] = "start" <=> target[a] = "web888d"
    BY <1>3, <2>1 DEF StartJobs
  <2>4. target[a] = "web888d" => job'["web888d"] = "start"  BY <2>1 DEF StartJobs
  <2>5. OneInPlay'  BY <1>1, <1>2, <2>2 DEF OneInPlay, Off
  <2>6. Loader'  BY <1>1, <1>2, <1>3, <2>2, <2>3, <2>4 DEF Loader, Loading
  <2>7. Configured'
    BY <1>1, <1>2, <1>3, <1>4, <2>2, <2>3 DEF Configured, Loading
  <2>8. \A b \in Admins : Cleared(b)'  BY <2>1 DEF OneAdmin, Cleared
  <2> QED BY <2>5, <2>6, <2>7, <2>8
<1> QED BY <1>5, <1>6

LEMMA ModeOrdered ==
  ASSUME OneAdmin, AInv, Ordered, Quiet, NEW a \in Admins, ModeMoves(a)
  PROVE  Ordered'
<1>1. CASE Ask(a) \/ Decide(a) \/ Check(a) \/ StopDone(a) \/ StartDone(a) \/ Kill(a)
  <2>1. UNCHANGED <<units, fpga>>
    BY <1>1 DEF Ask, Decide, Check, StopDone, StartDone, Kill
  <2> QED BY <1>1, <2>1, PlainOrdered
<1>2. CASE Stop(a)  BY <1>2, StopOrdered
<1>3. CASE Select(a) \/ Start(a)  BY <1>3, GoOrdered
<1> QED BY <1>1, <1>2, <1>3 DEF ModeMoves

\* A switch runs in order, for one administrator.
THEOREM SwitchInductive == OneAdmin => (Spec => []SInv)
<1> SUFFICES ASSUME OneAdmin PROVE Spec => []SInv  OBVIOUS
<1>1. Init => SInv
  <2> SUFFICES ASSUME Init PROVE Ordered  BY DEF SInv
  <2>1. \A u \in Units : phase[u] = "inactive" /\ job[u] = None  BY DEF Init
  <2>2. \A a \in Admins : pc[a] = "idle"  BY DEF Init
  <2> USE Names
  <2>3. OneInPlay  BY <2>1 DEF OneInPlay, Off
  <2>4. \A a \in Admins : Cleared(a)  BY <2>2 DEF Cleared
  <2>5. Loader /\ Configured  BY <2>1 DEF Loader, Loading, Configured, Live
  <2> QED BY <2>3, <2>4, <2>5 DEF Ordered
<1>2. ASSUME AInv, SInv, [Next]_vars PROVE SInv'
  <2> SUFFICES ASSUME ~bare' PROVE Ordered'  BY DEF SInv
  <2>1. CASE UNCHANGED vars
    <3>1. Ordered  BY <1>2, <2>1 DEF SInv, vars, ghost
    <3> QED BY <2>1, <3>1 DEF vars, units, fpga, mode, Ordered, OneInPlay, Off, Cleared, Loader,
                              Loading, Configured, Live, Holds
  <2>2. CASE \E u \in Units : SparesPl(u) \/ (Quiet /\ (OpenDev(u) \/ WriteDev(u)))
    <3>1. PICK u \in Units : SparesPl(u) \/ (Quiet /\ (OpenDev(u) \/ WriteDev(u)))  BY <2>2
    <3>2. bare' = bare  BY <3>1, UnitLeaves DEF UnitMoves, ghost
    <3> QED BY <1>2, <3>1, <3>2, UnitOrdered DEF SInv
  <2>3. CASE \E a \in Admins : ModeMoves(a) /\ Quiet
    <3>1. PICK a \in Admins : ModeMoves(a) /\ Quiet  BY <2>3
    <3>2. bare' = bare
      BY <3>1 DEF ModeMoves, Ask, Decide, Check, Stop, StopDone, Select, Start, StartDone, Kill,
         ghost
    <3> QED BY <1>2, <3>1, <3>2, ModeOrdered DEF SInv
  <2>4. CASE Consent
    <3>1. UNCHANGED <<units, pl, dev, sel, mode, bare>>  BY <2>4 DEF Consent
    <3>2. Ordered  BY <1>2, <3>1 DEF SInv
    <3> QED BY <3>1, <3>2 DEF units, mode, Ordered, OneInPlay, Off, Cleared, Loader, Loading,
                              Configured, Live, Holds
  <2>5. CASE \E u \in Bare : BareStart(u)  BY <2>5 DEF BareStart
  <2> QED BY <1>2, <2>1, <2>2, <2>3, <2>4, <2>5, WhoMoves
<1> QED BY <1>1, <1>2, AnyoneInductive, PTL DEF Spec

\* Nobody resets or reprograms the PL under a running program, for one administrator
\* who starts no unit directly (stop_all, select and start in switch_to).
THEOREM NobodyPullsThePl == OneAdmin => (Spec => []PlIntact)
<1> SUFFICES ASSUME OneAdmin PROVE Spec => []PlIntact  OBVIOUS
<1>1. SInv => PlIntact  BY DEF SInv, Ordered, Configured, Holds, PlIntact
<1> QED BY <1>1, SwitchInductive, PTL

\* Two stacks never have programs at once, under the same conditions.
THEOREM OneStackAtATime == OneAdmin => (Spec => []OneStack)
<1> SUFFICES ASSUME OneAdmin PROVE Spec => []OneStack  OBVIOUS
<1>1. SInv => OneStack
  BY DEF SInv, Ordered, OneInPlay, Off, Live, OneStack
<1> QED BY <1>1, SwitchInductive, PTL

\* WebSDR and web888d run on what `selected fpga' tells, under the same conditions.
THEOREM SelectionTellsTheTruth == OneAdmin => (Spec => []RunsTheSelection)
<1> SUFFICES ASSUME OneAdmin PROVE Spec => []RunsTheSelection  OBVIOUS
<1>1. SInv => RunsTheSelection
  <2> SUFFICES ASSUME SInv, ~bare, NEW u \in {"websdr", "web888d"}, phase[u] = "run"
               PROVE  pl = sel
    BY DEF RunsTheSelection
  <2>1. Holds(u)  BY Names DEF SInv, Ordered, Configured, Live
  <2> QED BY <2>1, Names DEF Holds
<1> QED BY <1>1, SwitchInductive, PTL

=============================================================================
