# web888-debian in TLA+

Specifications, model-checking configurations and proofs for the parts of
web888-debian that keep state and have something to get wrong: the `/dev/zynqsdr`
driver and the programmable logic (PL) it drives, the driver through which bitstreams
reach the PL, the tools and systemd units that decide which bitstream and which program
that is, the root helpers that configure the network, and the files the board boots from. Paths below are relative to the repository (`src/`).

    tlc -config MCZynqSdr.cfg MCZynqSdr      # check one run (PROJECT.json lists them)
    tlapm StreamRingProofs.tla               # check one module's proofs

## 1. The system

The Web-888 is a Zynq receiver board. The repository turns it into a Debian system:
a kernel driver written from the disassembly of the stock one, a QEMU model of the
board and of the PL to test it with, packages that run one of several receiver
programs (*stacks*), and the CI that builds and publishes them. Most other files are
vendored references, patches of an upstream program, build steps and documents.

| component | state it keeps | operations | talks to |
|---|---|---|---|
| **zynqsdr driver** `config/kernel/zynqsdr.c` | open counter; per file: mutex, per stream ring, armed flag and read offset, cached decimations | open, release, the ioctls `RX_START`, `RX_PARAM`, `RX_READ`, `WF_START`, `WF_PARAM`, `WF_READ`, `PPS_START`, `PPS_READ`, `GPIO`, `GET_SIGNATURE`, `AD8370_SET` | programs (system calls, several threads); the PL (registers, shared memory) |
| **PL** — modelled by `resources/qemu-web888/qemu/files/hw/misc/web888_pl.c` | control and address registers, per engine: running, burst counter, block length; PPS FIFO | engines write bursts into the ring they were given; PPS edges queue samples; register writes start and stop both | the driver; the ADC clock and GPS |
| **PE4312 attenuator**: `zynqsdr_dsa_write`, `gpio_in` of the PL model | shift register, latch | serial bits, latch edge | driver GPIOs |
| **board** `resources/qemu-web888/qemu/files/hw/{arm,gpio,i2c}` | registers of standard controllers | register accesses | driver, kernel |
| **FPGA selector** `packaging/web888-redpitaya/web888-fpga-select` | selection file, snapshot, lock file | `select`, `load`, `status` | the consent file, the firmware package, `/dev/xdevcfg`, systemd |
| **Mode switching** `web888-mode`, the units of websdr, web888d, web888-rpapp@ | unit states (systemd's) | stop all, select, start | selector, systemd, `load-bitstream` |
| **devcfg driver** `config/kernel/xilinx_devcfg.c` | mutex, is_open, partial mode, odd bytes, dma_done, error status | open isolates and resets the PL, write and read by DMA, interrupt handler, release, sysfs attributes | loaders, the websdr program; the PCAP |
| **seeding, network and service helpers** `packaging/web888-websdr/debian` | files under `/var/lib/web888`, `/etc/network`; applied key | seed; static/dhcp/dns; client/ap/off; … | websdr (sudo), ifupdown, systemd |
| **boot chain** `packaging/web888-boot`, `config/u-boot/boot.cmd` | kernel links, FAT files and backups | kernel hook, bootloader update, U-Boot fallback | dpkg, U-Boot |
| **message-queue patches** `config/websdr/cherry-picks/0148, 0151, 0152` | queue of a connection, overflow latch | enqueue (stream, control), drain | websdr threads, mongoose |
| **publishing** `scripts/ci` | APT directory, first-seen dates, build manifest | guard, update, prune, skip | GitHub workflows |

How they interact. A stack loads a bitstream through `/dev/xdevcfg` and only then
opens `/dev/zynqsdr`; nothing in the driver checks the former. Programs configure
streams by ioctl. The driver writes ring address, length and mode into registers and
raises a reset bit; the engine latches them on that edge and from then on writes to
memory by itself. The only thing that comes back is a burst counter in a status page,
which read ioctls poll and compare with their own offset. No interrupt, no wrap bit.

What is hard:

* *two writers, one ring* — the engine overtakes, wraps and is restarted while a read
  copies; the counter cannot tell a full ring from an empty one;
* *read-modify-write without a bus lock* — reset and mode registers are shared by all
  streams and by PPS; a per-file mutex and a single opener are all that protects them;
* *lifetime* — an engine goes on writing after the program is gone; release must stop
  it before it frees the ring, on every path;
* *caches* — the decimation exists in the driver's cache, in a register and latched in
  the engine;
* *check then use* — the digest of a bitstream and the copy of it, the search for
  a conflicting stack and the opening of the device, the fill level and the pop;
* *bytes that do not fill a word* — a write of a bitstream keeps them for the next one,
  while an interrupt ends a DMA outside the mutex and a time limit may end the wait first;
* *being cut short* — every script is a sequence of renames and removals that a signal
  or a power cut may end anywhere.

What makes each component correct: the driver hands out each sample of the current
run once and in order unless it has to lose some, never an old one, and what it
loses is a whole number of rings; one opener; engines exactly as the programs asked
for; no engine writing into memory that is not its stream's; calls return. The PPS
unit returns whole seconds measured after the start. The selector leaves selection
and snapshot consistent at every instant, never uses a bitstream without consent to
its digest, and a load that reports success has loaded what was selected. One stack
runs at a time, and the PL is never touched under a running program. The network
helpers never leave the board without an `eth0` configuration, whatever cuts them
short (unless it is an empty one that is installed), and what they remember as applied is applied. The PCAP gets the bytes of a
bitstream in order and once each, from memory that is still allocated, while the PL
is cut off. After any power cut a boot file can be repaired from the card, and after a
bad kernel update the one before still boots.

`PROJECT.json` lists all components, with the hazards found in them (at the line
where they bite, and the property that covers each, or why none does yet).

## 2. The modules

### SampleStream, StreamRing — the data path

`SampleStream` is the promise to a reading program: the bytes of one engine run in
order, once each, until the backlog has exceeded the capacity or a call has failed
half way. `StreamRing` is what the code does, one stream of it (RX, or one waterfall
channel):

| model | code |
|---|---|
| `Produce` | `stream_put` and its callers: one burst into memory, counter modulo the ring, one-shot engines stop |
| `StopEngine`, `ArmFails`, `StartEngine`, `Resync` | `RX_START`/`WF_START` and the pulse of `WF_PARAM`: reset bit low, allocation, reset bit high (`stream_start`), offset to 0 |
| `Call`, `Poll`, `CopyByte`, `ChunkDone`, `Return` | `RX_READ`/`WF_READ` and the loop of `zynqsdr_stream_read`, a byte of `copy_to_user` at a time |
| `Fault` | `-EFAULT` from the copy or from writing `readed` |

A byte is the number of its position in the engine run that wrote it; `Stale` is a
byte of an earlier run. `pbase` and `cbase` count the laps of engine and reader, which
the code does not know, `out` is what was copied, `lapped` says that a byte was
overwritten before it was copied and `dropped` that a failing call has discarded
chunks. A run is continuous or a one-shot block of `Limit` bytes, by the mode of its
channel. `zynqsdr_stream_read` also leaves its loop when the file is being released;
the kernel does not release a file with a call in flight, so that exit is not modelled.

### ZynqSdr — the control plane

Processes with threads compete for the device. One action per register access or
other visible step: the open gate (`OpenCount`, `OpenFails`, `OpenReset`), release
in four steps, the mutex (`Acquire`, `Unlock`), `RX_START` and `WF_START`
(`ClearRead` … `SetWrite`), `WF_PARAM` (`Param`, `PulseRead`, `PulseLow`, `PulseHigh`)
and `PPS_START`. Every other ioctl, and one refused for its argument, is the command
`other`, which takes and gives back the mutex. `WriteReset` is what the PL does with a new value of the reset
register: bits that fall stop engines, bits that rise start them with what address,
length, mode and decimation registers hold then. The registers are variables of their
own, separate from what the driver has cached (`decim`, `cont`, `armed`) and from what
engines have latched (`eng`); the properties relate the three.

There are two PLs: the emulated one follows the waterfall decimation register while an
engine runs, the real bitstream does not ("BUG 3" in the driver), which is why `WF_PARAM`
pulses the reset bit. `Param` allows either, so what holds holds on both. The driver
reads a cached decimation of 0 as "not set", and a program may ask for 0; `None` stands for it.

The file is released by the kernel when its last descriptor is closed and no call is
in flight; this is `Close` and the guard of `ReleaseClear`, external to the repository.
Frequencies, the GPIO word and the signature do not influence these properties and are
left out, except that `WF_PARAM` with a new frequency and the old decimation writes the
register again and pulses nothing.

### Pps, Dsa, SmallIoctls — the PPS unit and the attenuator

In `Pps`, `Edge` is `pps_update` on a rising pulse with `pps_push`; `StartLow`, `StartOff`,
`StartOn` are the pulse of `PPS_START` as `ctrl_changed` sees it; `ReadCount`, `ReadPop`
and `ReadFault` are the two accesses of `PPS_READ` and the failing copy; `Reopen` is
release and open, which stops the unit and leaves its FIFO alone. A sample is the
number of the edge that completed it. A poll that finds the FIFO empty (`-EBUSY`)
changes nothing and needs no action.

`Dsa` is `AD8370_SET`, which moves a clock, a data and a latch line one GPIO write at a
time (`LatchLow`, then `ClockLow`, `SetData`, `ClockHigh` for each bit, `Return`), and the
serial decoder of the part that sees only their edges (`Clock`, `Latch`). `SmallIoctls`
composes the two: one file, one mutex, threads that call either. A code is the sequence of its
bits, the most significant first, as `zynqsdr_dsa_write` sends it.

### DevCfg — /dev/xdevcfg

| model | code |
|---|---|
| `Open`, `ResetPl`, `Release`, `Released` | `xdevcfg_open` under the mutex: gate, isolation or partial mode, reset of the PL; `xdevcfg_release`, which takes no mutex |
| `Write`, `WriteRefused`, `Gather`, `Arm`, `Start`, `WriteDone`, `Timeout` | `xdevcfg_write`: odd bytes of the call before, header, words, odd bytes put aside; old interrupts cleared; DMA; the spin on `dma_done` |
| `Read`, `ReadStart`, `ReadDone` | `xdevcfg_read`, which shares the engine and resets `dma_done` first |
| `Interrupt`, `NoteDone`, `NoteError` | `xdevcfg_irq`, a step per variable it writes |
| `SetPartial` | the sysfs attribute `is_partial_bitstream`, at any time |
| `DmaEnds`, `DmaFails` | the engine (external), which works off a queue and takes garbage from a freed buffer |

A byte of the file is its position; the header is what comes before the sync word
(`HasSync`, `SyncPos`). `base` notes how many bytes were stripped, so that what has
reached the PCAP (`fabric`) can be compared with the file. `unsure` says that a DMA has
failed or that a call gave up waiting for one: the driver has no means to stop a DMA, and
what it does to the next download is open from then on. The three polls of PCFG_INIT
in the reset of the PL have no limit; `ResetPl` is their end.

### FpgaSelect — the selector

Each command is a program counter over the script's visible steps: `select` reads the
consent file, hashes, copies, renames the copy into place, renames the selection into
place (or, for stock, selection first, then removes the snapshot); `load` takes the
lock, looks for conflicting services, reads the selection, checks the snapshot, opens
the device (which resets the PL, `xdevcfg_open`), writes, polls. Around them: upgrades
of the artifact, edits of the consent file, the package's postinst (which tests for the
selection, truncates it and writes it, a step each), another stack that
starts, programs the PL without the lock and stops, kills (`Kill`) and power cuts.
A bitstream is its digest. Ownership and symlink checks are the administrator's
business and always succeed here. Renames are taken as atomic and durable in the order
made; what a file system does beyond that is not modelled.

WebSDR does not use `load`: it programs the PL itself, from the snapshot whenever
there is one (patch 0005), as the other stack of this module or as a unit of the next.

### ModeSwitch — who has the PL

`web888-mode` and the units of websdr, web888d (with its loader, the one-shot
`web888d-pl`) and the Red Pitaya apps. `phase` is what a unit's process is doing, `job`
its job in systemd's queue.

| model | code |
|---|---|
| `Ask`, `Decide`, `Check`, `Stop`/`StopDone` (three times), `Select`, `Start`/`StartDone` | `switch_to`, `stop_all` of `web888-mode`, a step per command it runs |
| `Conflicts`, `WithParts`, `StartJobs`, `StopJobs`, `Runnable` | `Conflicts=`, `PartOf=`, `Requires=`, `After=` of the units |
| `Seed` | `ExecStartPre=` of WebSDR: until it has ended the unit is activating, its job under way |
| `LoadCheck`, `OpenDev`, `WriteDev`, `WriteFails` | `web888-fpga-select load`, `load-bitstream`, WebSDR's own load |
| `Crash`, `Restart`, `GiveUp`, `Failed` | `Restart=`, `StartLimitBurst=`, a start that fails |
| `BareStart` | `systemctl start` without `web888-mode` |

systemd is external, and three things are assumed of it: a start or stop replaces the
jobs of the units it touches; jobs of units without an ordering between them run
side by side (`Conflicts=` orders nothing); and it has worked off the jobs that can run
before a process or a shell takes its next step (`Quiet`). An automatic restart runs
a unit's own commands without the `Requires=` transaction, as web888d's unit file says. `web888-fpga-select select` is one
action here and a sequence of steps in `FpgaSelect`; nobody runs it beside `web888-mode`.

### NetConfig and WifiConfig — the network helpers

`NetConfig` has an action per file operation of `web888-netconfig`: `Install`,
`Unstage`, `RmDhcp` (static); `Ensure`, `RmStatic` (dhcp); `SyncNothing` or `Truncate`,
`Fill`, `RmDns` (`sync_resolv`, the end of every verb). `AskStatic`, `AskDns` and
`AskDhcp` are the admin page that stages a file and calls the helper (patch 0014); a
staged file may be empty because the disk was full; `full` notes that this has happened. `Kill` cuts a verb short anywhere. A configuration is a model value; the grammar of the validation is left out,
except that it accepts an empty file. So are the temporary names a cut can leave in
`interfaces.d`: whether ifupdown reads those depends on a file the image does not own.

`WifiConfig` has phase 1 of `web888-wificonfig` (`Ask`: skip, or start an apply) and
the steps of phase 2 in the order of each verb: `Down`, `Config`, `Dropin`, `Clean`,
`Disable`, `Up`, `Enable`, `Restart`, `Remove`, `Key`. `Fail` is `set -e`, also in the middle
of an `ifup`, which leaves wlan0 up with its key unwritten; `Boot` is a power cut or reboot.
An `ifdown` that fails is passed over (`|| true`): wlan0 stays as it was and `stuck` says so. hostapd and dnsmasq go together and appear as one. The key, a hash of
verb and rendered files, is the pair of verb and contents. Its names are its own, so that
`NetworkProofs` can speak of both helpers.

### BootChain — kernel links and boot files

| model | code |
|---|---|
| `InstallKernel`, `RemoveKernel` | a kernel package (dpkg is external), whose postinst calls the hook |
| `Rotate`, `Link` | `zz-web888-zimage`: the two links |
| `Configure`, `Heal`, `Check`, then `Backup`, `CopyNew`, `Sync`, `Rename` for each boot file, `Finish` | the postinst of `web888-boot`: the link that names nothing, the check for the FAT and the payload, `install_boot_file`, `uEnv.txt` |
| `Boot`, `EditEnv` | `boot.cmd`: `kernel_file`, then `zImage.prev`; the administrator's `uEnv.txt` |
| `Kill`, `WriteBack`, `PowerOff` | cuts: a file half copied; what Linux writes to the card in time; unsynced entries lost or torn one by one |

`mem` is the FAT as programs see it, `card` as the next boot will. The links are on the
journalled rootfs and change in order. A kernel is good, hangs after U-Boot has
started it, or is rejected by U-Boot; only the last leads to `zImage.prev` by itself, and
a board that hangs is brought back by setting `kernel_file`.

### Fault definitions

Definitions introduced by a comment "Fault" (`ResyncKeepsOffset`, `OpenCountOld`,
`GatherAlone`, `HashAnything`, …) are not part of any specification. Each is
a plausible mistake in the definition named beside it; with it in place, the property
listed with it under "mutants" in `PROJECT.json` fails. They show that the
properties can fail.

## 3. The runs

Every run is exhaustive for its bounds.

| run | question | instance and bounds |
|---|---|---|
| `ring` | what may a reader rely on; does a one-shot block arrive completely; does the ring implement `SampleStream`? | ring of 3 bursts of 2 bytes, requests of 3 and 6 bytes, continuous runs of at most 14 bytes and blocks of 4, 2 starts, 1 fault, fairness |
| `control` | registers = intent, engine = reader's ring, settings in force, channels leave each other alone, engines stopped before free | 1 process, 2 threads, RX and 2 waterfalls, 3 buffers, 2 decimations and 0 |
| `calls_return` | one opener, no leak, does every ioctl, of any command, return and every file get released? | 2 processes with 2 and 1 threads, RX and one waterfall, 1 buffer, fairness |
| `wf_only_release` | *violation*: are engines stopped before rings are freed, always? | 1 process, 2 threads, RX and one waterfall |
| `pps` | what may a `PPS_READ` return; which attenuation is applied at every instant? | 2 threads, FIFO of 2, 7 edges, 3 starts or reopens, 2 codes of 4 bits |
| `devcfg` | what reaches the PCAP, from which memory, with the PL cut off; does every call return? | 2 programs, words of 2 bytes, a file of 6 bytes with a header of 1, writes of 2 and 4, 1 fault, fairness |
| `fpga_select` | selection, snapshot, consent and PL under overlap, kill and power cut | 2 selects, 2 loads, 2 digests, 4 commands, 4 outside events |
| `mode_switch` | who has the PL, with which bitstream, when stacks are switched; whose PL may be reset; what direct starts settle to; does every command return? | 1 administrator, 2 apps, 4 units also started directly, 2 commands, 2 crashes, kills, failing loads or changes of consent, fairness |
| `network` | what is in place whenever a verb of `web888-netconfig` is cut short; of `web888-wificonfig`, is what the key says installed, is wlan0 what the files say? | 2 addresses, 2 resolv.conf, 4 requests, 3 cuts or full disks; 2 applies, 2 contents, 4 requests, 2 failures or boots |
| `net_empty` | *violation*: is there always a working configuration of `eth0`? | 2 requests, 1 cut or full disk |
| `wifi_skip` | *violation*: is "already applied" true? | 1 apply, otherwise as `network` |
| `boot` | can boot files be repaired, is the last good kernel reachable, whatever is cut? | 3 kernels of every kind, 2 boot files, 2 newer versions of them, 3 operations, 2 kills or power cuts |

Why the bounds are enough. *Ring:* a burst longer than a byte lets a read end inside a
burst; requests of 3 and 6 bytes split bursts, end at the end of the ring and span the
wrap; 14 bytes are two laps and a burst, so the engine can lap a reader twice, and a
second start leaves every kind of stale content, after a run of the same or the other
mode. The behaviour depends on the offsets only modulo the ring, and the proofs below
hold for all sizes. The block (4 bytes) is smaller than its ring (6), as 8192 samples of
4 bytes are smaller than 0x7fc00 bytes; a block that filled the ring exactly would read
as empty. *Control:* two threads give every overlap of two ioctls, and a register bit is
lost by two writers; with RX and two waterfalls there is a pair of streams of either
kind, and a third that neither touches; with two decimations a change and a repetition
both occur. *Opening:* two processes give every order of the counter's steps (the
proof covers any number), and with one buffer for two streams every second start runs
out of memory. *PPS:* 7 edges overflow a FIFO of 2 more than once. *Attenuator:* 4 bits
for 8, with edges ignored below 3 for 6; one code has its only 1 last, the other alternates.
*devcfg:* a write of 2 bytes is too short for the sync word, one of 4 finds it and
leaves an odd byte behind the header, in every sequence; one fault is a failing DMA or a
wait given up in every place, and a second open follows it. *Boot:* three kernels are the good
one, one other, and one more that `FallbackKept` excludes; two files are one before and
one after the file at hand (there are three on the card, treated alike); three operations are two
updates of either package and one of the other; two faults are a kill and the power cut
after it. *Selector:* four commands are enough for two selects and two loads
to overlap; four outside events for an upgrade, a consent, a kill and a power cut.
*Modes:* two commands are a stack and a switch away from it, or a command and a direct
start beside it, in every interleaving of their jobs; two apps are what a glob can miss;
two faults crash a stack in the middle of a switch that then fails or is killed. A third
command adds no new state to switch from: after two there is one active stack, or none. *Network:* four requests cover every order of two different verbs with a
repetition of each, three cuts leave two of them half done and reboot. The helpers share no
state and no property looks at both, so `MCNetwork` explores each while the other is in its initial
state, in one run.

Deadlock is checked where the model can always go on. The runs of `StreamRing`, `SmallIoctls`,
`FpgaSelect`, `ModeSwitch`, `NetConfig`, `WifiConfig`, `DevCfg` and `BootChain` end because their
counters of starts, edges, commands, faults or requests are bounded, and say
`CHECK_DEADLOCK FALSE`. (A board whose kernel hangs stops as well.) Symmetry is used over threads, buffers, processes of one
kind, digests and configuration contents, which are interchangeable, and never in a liveness run.

Fairness. `StreamRing!Fairness`: an engine follows the ADC clock; a call that has begun
goes on; the data pump of the receiver programs reads again after a short read (the
driver's header describes that retry loop). Nobody is obliged to arm or to restart
a stream, and faults are never obliged to happen. `ZynqSdr!Fairness`: the steps of a
running system call are weakly fair; `Acquire` is strongly fair, because Linux mutexes
hand over to the first waiter that has been bypassed, so a waiter is not
overtaken for ever. Programs need not call, close or open anything.
`DevCfg!Fairness`: system calls that have begun and interrupts run on (in an open this
takes a PL that answers), and a DMA ends at
last unless the time limit ends the wait for it, which `MaxFaults` bounds.
`ModeSwitch!Fairness`: systemd works off its jobs, processes it has told to stop end
(it kills those that do not), loaders write or time out, and `web888-mode` goes on when
the `systemctl` call it waits for has returned. Nobody has to give a command.

### What the violations show

1. `wf_only_release` — release describes zeroing the reset register; the code does so
   only if RX was armed. After a session that used a waterfall channel only, the engine
   keeps writing into the freed ring until the next open clears the register. With RX
   armed the engines are stopped (`RxStoppedBeforeFree`).
2. `net_empty` — the disk is full when the server stages a static configuration, the file is
   empty, the validation has no line to object to, and `static` installs it and removes the
   DHCP drop-in: `eth0` has neither an address nor DHCP. "This order keeps a
   working eth0 config in place at every intermediate state" (`web888-netconfig:130`) holds
   for every other sequence (`SomeConfig`).
3. `wifi_skip` — an apply that fails has replaced files and leaves the old key. Going
   back to the old configuration is then "already applied". Without failures and
   overlaps the key tells the truth (`KeyTrue`), also over boots.

### What the properties leave open

Some properties name an exception. Without it they do not hold, and that is a fact
about the code:

* `ShortReadDrained` — a short read has met an empty ring *or an exactly full one*,
  which has the same counter; "stops when the producer is caught up" in the driver's
  comment is half of it.
* `ConsentedOnly` — unless dpkg replaces the artifact between its hash and its copy,
  two reads of one path.
* `SnapshotWhenSelected` — unless two selects, which take no lock, overlap.
* `PlIntact`, `OneStack`, `RunsTheSelection` — if one administrator switches at a time and no unit
  is started directly. `Conflicts=`
  does not order the loader of the unit that is started after the stop of the one
  that has the PL, so "the Conflicts= declarations make bare `systemctl start` safe"
  holds for where the units end up (`SettledExclusive`) and not for the way there; and
  not for two apps, which do not conflict with each other. The load's own check for
  conflicting services sees active units only, not ones that are stopping.
* `OnlyTheStoppedLoseThePl` — of any starts by anyone: the open of the device, which resets the PL,
  hits no program but those told to stop. Except apps among themselves; a start of a running
  web888d, which runs its loader again under it; and the loader started by hand, whose check
  is stale when it opens the device: a WebSDR still in `ExecStartPre`, or an app still
  loading, has come up by then. TLC reaches each of them.
* `SomeConfig` — an address or DHCP at every instant, unless a full disk has left a staged
  static file empty; that case is `net_empty`. Nor is it exactly one: between two file
  operations both are there. `AsAsked` says what a completed verb repairs; of an empty file
  it says that this is what is installed.
* `DnsRecoverable` — the staged resolv.conf has its contents unless the disk was full; an empty
  one takes the place of the one that worked.
* `LoadedWhatWasSelected` — the profile, stock or open, and not the digest: a snapshot replaced
  after the selection was read is loaded and reported as the open bitstream it is.
  `ConsentedOnly` is about its digest.
* `SettingsInForce` — for decimations other than 0. The cache starts at 0, so a program that
  asks for 0 before any other leaves what an earlier session put into the register.
* `CallsReturn` of `DevCfg` — if the PL answers the unlimited polls of PCFG_INIT in an open.
* `StreamExact`, `BufferHeld` — until a DMA fails or is given up. After `-ETIMEDOUT` the
  buffer is freed under a DMA that may go on; the odd bytes of a failed write have been
  put aside all the same and precede its repetition; and the handler notes an error only when every error
  bit is set at once, so that "If we didn't write correctly, then bail out"
  (`xilinx_devcfg.c:541`) hardly ever applies. A header longer than the first write, or a
  first write no longer than the sync word, is passed on unstripped, in order.
* `Isolation` — unless `is_partial_bitstream` is changed while the device is open:
  release then undoes the other kind of open.
* `BrickGuard`, `OneGeneration` — unless the postinst is killed and run again within
  half a minute, before its files are on the card: the second run overwrites a backup
  while the original is still unsynced. `OneGeneration` also ends with a second
  configuration of the same version, which makes the new file its own backup.
* `FallbackKept` — for one other kernel at a time. Installing two new versions without a
  reboot between them rotates the running one out of both links, and so does removing a
  kernel, which leaves links that name nothing until web888-boot is configured again.
  On the way back to the good kernel there is a moment when both links name the other.
  For a kernel that came up as `zImage.prev` or by `kernel_file` nothing is claimed: the
  hook rotates what `zImage` names, not what runs.
* `KeyTrue`, `UpMatchesFiles` — unless two applies overlap, which a restart of websdr
  during an apply can bring about. `UpMatchesFiles` also ends, until the next boot, with an
  `ifdown` that fails. Of the commands whose failure is passed over only that one can
  fail here; `systemctl disable … || true` does what it says.

The polarity of the waterfall mode bit is not decided here: the driver sets it for
`WF_READ_CONTINUES`, the PL model reads a set bit as one-shot, and
`docs/dev/zynqsdr-abi-validation.md` defers it to a hardware measurement.

## 4. What is proved

TLAPS checks these for every value of the constants that satisfies the assumption of
the module: sizes are positive, sets of names are disjoint, and nothing else
(`RingAssumption`, `DevAssumption`, `PpsAssumption`, `DsaAssumption`,
`SelectAssumption`, `ModeAssumption`, `NetAssumption`, `WifiAssumption`,
`DevCfgAssumption`, `BootAssumption`). The bounds on counters are among
the constants, so what is proved holds for any number of starts, commands or faults.
Every safety property of the passing runs is stated by a theorem, and so is the refinement.

* **StreamRingProofs** — `TypeCorrect`, `ReadsInOrder`, `ReadsFresh`,
  `LosesWholeRings`, `ShortReads`, `StreamImplemented`. None of the properties is inductive:
  they speak of `out`, and what comes next into `out` depends on what the ring holds. The invariant
  `IInv` adds the contents of every slot (`RingContents`: below the counter this lap,
  from there on the lap before, or `Stale` in the first); what a call's fields hold at
  each point (`CallShape`: a chunk stays inside the ring); where the reader is
  (`ReaderBehind`: on the engine's lap and below its counter, or whole laps behind, and
  at most one ring behind unless `lapped`); and that `out` accounts for the reader's
  position (`OutMatches`). From the first and the third, the byte copied next is the one
  at the reader's position, or differs from it by whole rings, and is never `Stale`.
  The arithmetic of the wrap comes first in the module, proved from the definition of `%`.
  The refinement maps what a program has been told it got (`Reported`: `out` without the
  call in progress) to the stream of `SampleStream`. A call's copying is a stutter, its
  `Return` or `Fault` hands over or loses, `Resync` begins a new stream, and a burst may make
  the stream lossy; it needs one more invariant, `CallsConsume`.
* **ZynqSdrProofs** — `ControlPlaneTypes`, `OneOpenerAtATime`, `CounterReturnsToZero`,
  `NoLostBit`, `EngineOnItsRing`, `SettingsReachTheEngine`, `EverythingGivenBack`,
  `StoppedBeforeFree`, for any finite set of processes, any threads, streams, buffers and
  decimations. `GateInv` counts the openers: `openCount` is the
  number of processes between their increment and their decrement (`CountExact`), a
  process opens in one thread at a time (`OneOpening`), and whoever has passed the
  gate is alone (`OneWinner`); the rest is cardinalities of finite sets. On it rests the
  mutex (`Mutex`: one thread inside an ioctl, of the process that has the file), and on
  that what a thread at each step has read and not yet written (`Working`): between the two
  accesses of a read-modify-write the register is still what was read. `Sound` is what holds between two
  ioctls, with the streams in work excepted, and is restored by the last register write of
  each; `Clean`, `Owned` and `RxStopped` follow the rings from allocation to release.
* **PpsProofs** — `PpsTypes`, `ReadsAreWholeSeconds`, `ReadsInOrder`,
  `AttenuatorFollows`, of both devices behind their one mutex (`SmallIoctls!IoSpec`). The
  invariant adds mutual exclusion across the two (`OneCall`); that the FIFO polled as not empty is
  not empty until it is popped; that every queued sample is younger than the last start, and
  that results and FIFO together rise, and without a gap as far as the FIFO has not
  overflowed (`InOrder`). For the attenuator it says that the shift register ends with the bits
  sent so far (`Sent`), so that at the latch edge it holds the whole code, for every width.
* **FpgaSelectProofs** — `OnlyConsented`, `SelectionHasSnapshot`, `SelectTypes`,
  `LoadsWhatItReports`, for any number of commands, kills, power cuts and digests. One
  invariant follows a select on its way:
  between hash and copy it holds a consented digest, between copy and rename a
  consented copy; and while selects do not overlap, only one is past its first step and
  the snapshot is there before it persists the selection. The other follows the loads: who
  holds the lock and the device at which step, and that from the write to the verdict the PL
  holds the image of the selection that was read, or none of the two (`Agrees`).
* **ModeSwitchProofs** — without further hypotheses, for any administrators and direct
  starts: `ModeTypes`, `RefusalsStopNothing`, `SettlesOnOne`, `ResetsOnlyTheStopped`, from an invariant whose core is
  that of two stacks at most one is up without a stop job or about to start (`Exclusive`, apps apart):
  every start puts a stop on what it conflicts with. For one administrator (`OneAdmin`, a hypothesis of
  the theorems): `NobodyPullsThePl`, `OneStackAtATime`, `SelectionTellsTheTruth`. Their invariant
  says how far the stops of a switch have come (`Cleared`: the groups before this one
  are off, the units of this one are off or stopping), that one stack at most is anything but off
  (`OneInPlay`), that web888d's loader runs only for a start of web888d that waits for it
  (`Loader`), and which image is in the PL for whom (`Configured`). The hypothesis is needed:
  `web888-mode` takes no lock, and with two administrators who switch at once TLC finds `PlIntact`
  violated without any direct start.
* **NetworkProofs** — of `web888-netconfig`: `NeverWithoutConfig`, `EndsAsAsked`,
  `ResolvRecoverable`, `NetTypes`. The invariant adds what the verb has reached at each step (`Reached`: the
  new configuration is there before the step that removes the old one, and from the
  end of the operations on the state is the one asked for), that only an idle helper
  has run to its end, and that the staged resolv.conf outlives the truncation
  (`Resolving`). Of `web888-wificonfig`: `WifiTypes`, `KeyIsTrue`, `DownFindsItsFiles`, from
  what an apply has reached by the mode it applies (`ClientReached`, `ApReached`,
  `OffReached`), all of it at the step that writes the key; at rest the key then also
  agrees with whether hostapd is enabled (`InForce`), without which a boot would start what the key does not name.
* **DevCfgProofs** — `DevCfgTypes`, `OneProgram`, `StreamReachesPcap`, `BuffersHeld`,
  `PlIsolated`. The invariant adds who is inside the mutex and who has the device
  (`Exclusive`); what a partial download inherits (`Isolated`); what the fields of a call
  hold outside it (`Locals`); that, until something fails, exactly one transfer and its
  interrupt are under way while a call spins, and nothing otherwise (`Quiet`), so that
  no late interrupt can end the wait for the next DMA; and that the bytes taken, the words
  on their way and the odd ones put aside make up the file (`Fits`), which rests on
  lemmas about runs of bytes cut at multiples of a word.
* **BootChainProofs** — `BrickGuarded`, `GenerationKept`, `LinkIsHealed`, `FallbackIsKept`,
  `BootTypes`. The properties speak of the moment after a cut; the invariant says of every
  moment before it which copy of each file is on the card and not dirty (`Guarded`,
  `Generation`), that what is not dirty is the same on the card and in memory (`Power`),
  and what the links name between the two steps of the hook (`Fallback`).

Only model-checked: the liveness properties (`BlockDelivered`, `CallsReturn` of `ZynqSdr` and of
`DevCfg`, `CommandReturns`), because liveness under fairness and ENABLED are out of the prover's
reach; and, being violated, the properties of the three `violation` runs. The types of `StreamRing`,
`Pps`, `FpgaSelect`, `ModeSwitch`, `NetConfig`, `WifiConfig`, `DevCfg` and `BootChain` are proved and
not repeated in the runs. No module declares a RECURSIVE operator.

## 5. What is not modelled

Most lines of the repository are not this system's: 256,713 of its 259,185 lines of
C and the like are vendored sources kept for comparison (`resources/reference`, above all Xilinx'
first-stage boot loader and its tables), which nothing here builds or changes. Of the
rest:

* *PL model and board:* sample values, tones, noise and rates, QEMU's VM state, and the
  register models of standard controllers.
* *zynqsdr:* the single registers that `RX_PARAM`, the GPIO ioctls and `GET_SIGNATURE` access.
* *devcfg:* sysfs attributes that set one bit each, the fclk exports, `probe`.
* *Seeding:* copies at the first boot that never overwrite, in the order of one loop.
* *Service helpers:* validation of an argument and one `systemctl` or file operation.
* *APT publishing:* scripts over a git checkout, one workflow run at a time; what they decide
  rests on dates and file names.
* *Message queue:* patches 0148, 0151 and 0152 change a queue whose code is in the upstream
  server; a few changed lines without the code around them are not enough to be faithful to.
* *The websdr server* (upstream, not in the repository) and patches to its pages.
* *initramfs and images:* rescue shell, build scripts, image layout and workflows, which are
  straight lines over external tools.

Memory ordering between the PL's bus master and the CPU is taken as the coherent
mapping promises it: a burst is in memory when the counter says so. On the FAT a rename
is two directory entries that a cut may separate; wear and bit errors of the card are not modelled.

## 6. Plan

The modules planned are there, and their safety properties are proved. What is left:

1. WebSDR as a third loader in `FpgaSelect`, without the lock, from the snapshot; then its
   place in `LoadsWhatItReports`.
2. `PlIntact` for two administrators as a run of its own, with what it would take to hold.
3. `StreamRing` as the data path of a stream of `ZynqSdr`: that an engine's settings stay as they
   are between two starts, which is what `StreamRing` takes for granted.
