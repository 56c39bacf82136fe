# Verification of the WRF collector

TLA+ models, model-checking runs and machine-checked proofs for the programs in
`Collector/` of this repository: the agent on the Steam Deck that watches the
game and uploads what it sees, the server that stores it, and the installer
that connects the two. Line numbers without a file are in `Collector/main.go`.

## 1. The system

### Components

| Component | State | Operations | Interacts with |
|---|---|---|---|
| **Agent, upload path** (`queue`, `startRun`, `flush`; 1678-1731, 1843-1901) | `runID`, `active`, `pending` | queue an event (dropping the oldest of a full queue), end a run, drain and replace a run, post the oldest batch | called by all pollers; posts to the server's `ingest` |
| **Agent, monitor loop** (1406-1676, 1733-1841) | position in the game log, the launcher log and the probe logs; what `/proc` said last; the helper's results | one iteration per second: update check, game log, launcher log, process, helper, probe logs, heartbeat, flush | reads files the game and its launcher write; runs the Windows helper |
| **Agent, parsers** (1903-2170) | none | one line of a log to one event or none | feed the queue, which drops what `validateEvent` refuses |
| **Agent, platform profile** (2173-2560) | none | reads DMI, SMBIOS, CPU, PCI, storage and firmware metadata | `startRun` queues the result |
| **Agent, Windows probe runner** (2560-2825) | none | finds Proton, runs the helper, checks and converts its output | the helper, the monitor loop |
| **Agent, updater** (2846-2925) | the executable | compare versions, fetch, verify, rename, exec | the server's downloads, systemd, `install.sh` |
| **Server, ingest** (244-387, 489-525) | none | decode, validate, authenticate, append | registry, run store |
| **Server, registry** (527-711, 1097-1135) | `clients.json`: invitations and credentials | create an invitation, redeem a code, authenticate a token | administrator's page, installer, ingest |
| **Server, run store** (713-736, 833-875, 1137-1192, 1242-1262) | `runs/*.jsonl` | append and sync, read, delete, expire | ingest, the administrator, a timer |
| **Server, summaries and pages** (793-831, 877-1095) | none | fold the events of a run into a summary | run store |
| **Server, downloads** (1200-1240) | files of the release | serve manifest, binary, key, scripts | updater, installer |
| **Installer and uninstaller** (`steamos/install.sh`, `uninstall.sh`) | executable, `config.json`, unit, `Engine.ini` | verify and copy the binary, enroll, write the configuration, restart the agent | registry, downloads, systemd |
| **Windows helper** (`cmd/wrf-platform-probe`) | none | query the Windows side of Proton once | probe runner |
| **CI, image, compose file** | a signed release | build, sign, publish | downloads |
| **`Steam/`** (a patched Proton: `setup.sh`, Wine patches, build and probe scripts) | the compatibility tool directory | install, build, trace | none with the collector but the probe log it may write |

### What is hard

- **Interleaving.** The server's handlers run concurrently, and the retention
  cleanup takes no lock. The game, its launcher and the player go on between
  any two looks of the agent's only goroutine. `install.sh` and a running agent
  write the same executable.
- **Delivery.** A request, an answer, or both may be lost; the agent's client
  gives up while the handler still runs; a retry repeats what may be stored.
- **Partial failure and restarts.** A write may stop in the middle of a line, a
  sync may fail after the write, the registry may be replaced without its
  caller learning of it, and agent, server, host or installer may stop at any
  point.
- **Limits.** A full queue drops its oldest events while a batch of the oldest
  is under way.
- **Text.** A line of a log shows several traits at once, of which the first that
  is looked for decides; values and lengths lie on either side of a bound.
- **Time.** Invitations expire, runs are retained for so many days, the
  launcher's value counts for five minutes.

`PROJECT.json` lists each of these at its line, with the property that covers
it, or with the reason why none does.

### What makes each component correct

- *Upload path:* an event reaches the file of its own run, in order and at
  least once, or is openly discarded; runs are closed; retries end.
- *Monitor loop:* the lines of a log go to one run; a run ends once, and with
  the game; what was read too early is attached to the run that begins later;
  the helper does not run beside the game.
- *Registry:* a code works once and in time; a label has one code and one token,
  its latest; failures strand nobody silently.
- *Run store:* what was acknowledged can be read back until it is removed, and
  is removed on purpose only.
- *Updater and installer:* only signed releases are ever run, and the agent ends
  up with the deployed one; what is uninstalled stays removed; of `Engine.ini` the
  scripts change their own block only.
- *Tailers:* each complete line of a log is handed on once and in order, whatever
  happens to the file between two looks.
- *Parsers, probe runner, helper:* what they produce is what `validateEvent`
  accepts (a refused event is dropped by `queue`, a refused probe result as a
  whole), and a report is of the calls it names and of its own attempt.
- *Profile:* its facts are distinct, right and free of serials.
- *Summaries:* the duplicates and late copies the upload path permits make no
  observation, interval or duration up; what they may change is known.

## 2. The modules

| Module | Models | Used by |
|---|---|---|
| `AtLeastOnce` | what the upload path promises: an item is owed until it is recorded or abandoned | `Uplink` (refinement) |
| `Uplink` | queue, runs and uploads of the agent, `ingest` and a faulty network | `MCUplink.cfg`, proofs |
| `UplinkProofs` | theorems about `Uplink` | |
| `Credentials` | what the registry promises: one usable code and one valid token per label | `Enrollment` (refinement) |
| `Enrollment` | registry, its handlers, `install.sh`'s enrollment, the agent's configuration | `MCEnrollment`, proofs |
| `EnrollmentProofs` | theorems about `Enrollment` | |
| `RunStore` | run files: append, sync, late uploads, delete, cleanup, crashes, `readRun` | `MCRunStore`, proofs |
| `RunStoreProofs` | theorems about `RunStore` | |
| `RunSummary` | `summarize`: the dashboard's columns of a run whose batches come twice or late | `MCRunSummary`, proofs |
| `RunSummaryProofs` | theorems about `RunSummary` | |
| `AgentMonitor` | the loop of pollers, the game, its log and its launcher | `MCAgentMonitor.cfg`, proofs |
| `AgentMonitorProofs` | theorems about `AgentMonitor` | |
| `LogTail` | how each of the four tailers follows a file that grows, shrinks and is replaced | `MCLogTail.cfg`, proofs |
| `LogTailProofs` | theorems about `LogTail` | |
| `Events` | the event and `validateEvent` | `PlatformProbe`, `AgentEvents` |
| `LineEvents` | the parsers: one line to one event or none | `AgentEvents` |
| `PlatformProfile` | the profile of the host that begins a run | `AgentEvents` |
| `AgentEvents` | the pollers' handling of a line, `startRun`'s profile, and `queue`'s filter | `MCAgentEvents` |
| `PlatformProbe` | the Windows helper, and the agent that runs it and reads its file | `MCPlatformProbe` |
| `PlatformProbeProofs` | theorems about `PlatformProbe` | |
| `AgentUpdate` | the executable: `updateAgent`, `install.sh`, `uninstall.sh`, systemd, redeployments | `MCAgentUpdate.cfg`, proofs |
| `EngineIni` | the block `install.sh` writes to `Engine.ini` and `uninstall.sh` cuts | `MCEngineIni.cfg`, proofs |
| `InstallationProofs` | theorems about `AgentUpdate` and `EngineIni` | |

The agent's upload path and the server meet in `Uplink`. There the server is
what the agent can tell of it (store all, a prefix or nothing; answer or not),
and `RunStore` shows separately what becomes of the stored lines. `Enrollment`
and `AgentUpdate` each hold server, device and installer together.
`AgentMonitor` says *which* events are queued for which run, `Uplink` what
becomes of queued events; each treats the other's part as a choice.

What one module takes for granted another one shows:

- `AgentMonitor` reads each complete line of a log once and in order: `LogTail`'s
  `Unbroken` and `EverythingIsRead`, with the exception they name.
- `Uplink` lets the server refuse a batch only for a time: `AgentEvents` uses the
  same `ValidateEvent` in `Queue` as the server does, so that no event of the
  agent's is the reason.
- `RunSummary` takes first copies to be stored in order, and later ones in any, and a run
  to have one `session_end` at most: `Uplink`'s `StoredInOrder` and `RunsAreClosed`; its
  numbers are not negative, because `validateEvent` (288) accepts no others. It takes every stored line for an event, which
  `run_store_lines` shows a torn write to break.

### Correspondence

**Uplink.** `run`, `active`, `pending` are the fields of `agentState`. `pc` is
`"flush"` or `"drain"` while `monitor`, respectively `startRun`, waits in
`flush`. An event is a record of its number, the run it was queued for and a
kind; the first two are bookkeeping of the model, the code stamps a batch with
the current run when it is sent. `Observe`, `EndRun`, `StartRun`, `CloseRun`,
`DrainNext`, `DrainDone`, `DrainFailed`, `Flush`, `Accepted`, `Deferred` are the
agent's steps; `Store`, `StoreFails`, `StoreStale` the server's; `TimeOut` and
`Crash` what the network and the machine do. `startRun` queues its opening events
in one step, because nothing else runs in the agent meanwhile. `flush`'s search
for a batch that fits the body limit is the choice of `count`.

**Enrollment.** `invites` and `clients` are the registry file. `DrawCode` is
`createInvite` up to the lock, `StoreInvite` the rest and the page that shows
the code, `InviteFails` every error before the rename; `Enroll` is `enroll` with
its handler. `answered` tells whether the caller learns of the change.
`WriteConfig`, `FinishInstall`, `InstallDies` are `install.sh`, `Restart` is the
agent reading its configuration.

**RunStore.** `dir` maps names to files, `content` is what was written, `durable`
how much of it is synced. `writer` is the `appendEvents` that holds the lock,
`cleaner` the cleanup under way: `CleanLook` reads a modification time and keeps it in
`seen`, `CleanRemove` removes the name. A chunk is an event's line or the part of it a
failed write left behind; its `line` is the length, so far, of the file's line that it
is on. Of the agent there is what the server gets to know. An upload begins with the
oldest event the agent holds (`next`). That is the first of the upload that failed,
unless `Drop`, the overflow of `queue` (1851-1852), took it: `Uplink` has the queue, and
here any event may be dropped while no answer is awaited. `GiveUp` and
`StopWaiting` are the client's timeout before and while the handler has the lock; the
upload stays in `late` and may be stored at any later time. `skewed` remembers the runs
to which either happened.

**AgentMonitor.** `pc` names the poller whose turn it is, `"read"` the moment
between `pollGameLog`'s stat and its open, `"helping"` the helper's run. A log is
a number and a count of lines; `raced` remembers that a log was replaced in the
gap between stat and open. A game writes one log. `PollProcess(TRUE)` is a look that fails,
`joined` remembers that an old log was first seen in an ended run.

**AgentUpdate.** `agent` and `installer` hold how far an update has come, with
the manifest and binary it has; `disk` is the executable and whether it is
complete. `enabled` is the unit that systemd starts again, `removing` the rest of
`uninstall.sh` after `systemctl`, whose failure it ignores.

**LogTail.** A behaviour is one tailer, chosen at the start. A file is known by
its log (its content from one creation or truncation to the next) and its length
in cells, every second of which ends a line. `Look` is `os.Stat`, or `Open` and
`Stat`, with the joining, the comparison by `os.SameFile` and the reset; `Read` is
the open, seek and read of at most `Chunk` cells, and the split into lines. Inodes
are reused. `mixed` remembers the logs that took another's place unnoticed: the
same inode, and not shorter than the offset.

**LineEvents, PlatformProfile, AgentEvents.** A line is the record of its traits,
of which `Precedence` lists the order in which they are looked for, with lengths and
values on both sides of each bound. A host is what `/sys`, `/proc` and the SMBIOS
table hold. One step of `AgentEvents` takes one line or one host to the events that
pass `queue`.

**RunSummary.** `Apply` is one turn of `summarize`'s loop, `Extend` the fold over
what `Store` appends: the next batch of `sent`, a longer batch that begins with
one that was stored before, or a late copy of an earlier one. `summary` has the
columns of `runSummary`, `late` remembers that a late copy came.

**EngineIni.** A file is a sequence of lines and the newline at its end. `script` is
the script that runs: `ReadFile` is `sed` (and `cat`) into the temporary file,
`Replace` the `mv`, `Check` and `RemoveFile` the `grep` and `rm` behind it. The game
and the player insert and delete lines or the file at any time; `raced` remembers
that they did since the script looked, `enclosed` that settings stood inside a block.
A line of the block cannot be written by them. `Kept` is what `sed` writes, and what the
properties call a file's `Settings`: some of the lines, in their order.

**Events, PlatformProbe.** `machine` is what Windows' calls answer, for good.
`ProbeDMA` to `ProbeDrive` are the helper's functions of the same names,
`Result` the record it writes; `WithinBounds`, `ProbeEvents` and `IsAccepted` are
the three parts of `parseWindowsPlatformProbeOutput`, and `ValidateEvent` in
`Events` is `validateEvent`. A pointer is a set of at most one value, a status
that is not 0 a failure. `StartHelper` is `runWindowsPlatformProbe` up to
`command.Run`, `ReadResult` what follows it, `TimeOut` its time limit, which
also stands for a launcher that fails. `CreateResult` and `WriteResult` are the
two halves of the helper's `os.WriteFile`: `file.open` holds the helpers that
have this very file open, because what a helper writes to a file that was
removed is lost. A helper is not a child the limit kills (`exec.CommandContext`
kills the launcher), so that one of an earlier attempt may still run; the file it
leaves then stays until the next attempt, although `Collector/README.md:220` has
it deleted immediately.

## 3. The runs

| Run | Shows | Bounds |
|---|---|---|
| `uplink` | types and limits, attribution, accounting, order, one `session_end`, closed runs; `Uplink` implements `AtLeastOnce`; queued events are filed and drains end | a queue of 3, batches of 2, 2 runs, 5 events, 2 failures |
| `enrollment` | codes, tokens and configurations under 1 failure; `Enrollment` implements `Credentials` | 2 labels, 2 devices (interchangeable), 3 codes, a lifetime of 2 in 3 ticks |
| `run_store` | acknowledged events can be read back, but for what a torn write spoils; the cleanup takes a young event only from a file written to since its look; retention ends | 1 run, 2 events (lines of 1 and 3, a limit of 4), 2 files, 2 ticks, 2 failures |
| `run_store_lines` | **violation**: a torn write spoils the next event | 1 run, 1 failure |
| `run_summary` | which columns stay true under repeated batches, which under late ones | runs of 3 or 4 events of each group of columns, files of 6 |
| `agent_monitor` | attribution of log lines, one end, with the game and not before it, the launcher's value, one helper run per stop; an exit ends the run | 2 logs of 1 line and a closing one; of 1 launch, 2 exits, 1 restart and 1 failed look at `/proc`, two at a time |
| `log_tail` | what is handed on of a log is unbroken and unspliced; in the end everything is read | 4 tailers, 2 inodes, 3 logs of 4 cells, reads of 3, 1 full queue, 1 new run |
| `agent_events` | which events `queue` drops, that RPCs are recorded whole, facts distinct, right and anonymous | 4,790 lines and hosts |
| `platform_probe` | a report tells of each call and is of its attempt; refusals have one reason | 143 machines, 2 Proton versions, 2 attempts |
| `platform_probe_counts` | **violation**: a result within the parser's bounds is refused | as above |
| `agent_update` | only releases are run; only `install.sh` breaks the executable; what is uninstalled stays removed; the agent converges to the deployed release | 3 releases, 3 redeployments, 1 removal, 2 failures |
| `engine_ini` | settings survive both scripts but for two exceptions; one block; no trace | 3 runs of a script, 3 edits, 1 death |

A run checks the properties its configuration names. `RegistryInv`, `RunStoreInv`,
`MonitorInv`, `LogTailInv`, `SummaryInv`, `EventsInv`, `ProfileIsRight`, `UpdateInv`
and `EngineIniInv` are conjunctions of properties with names of their own (`OneTime`,
`AckedIsReadable`, `EndsOnce` and so on), which the modules state one by one, as
`RunsAreClosed` is of `EndsOnce` and `ReplacedRunIsClosed`. For each conjunct
`PROJECT.json` has a mutant of the code that breaks it.

**Why the bounds are enough.** In `uplink` a queue of 3 overflows with 5 events
while a batch of 2 is under way; 2 runs give a replaced run with a late batch of
its own; 2 failures give a late handler together with a lost answer, a crash or
a failed drain. In `enrollment` 3 codes give a label two invitations and another
label a third; a lifetime of 2 in 3 ticks has invitations that are live, lapsed
and stored after they lapsed; 2 devices can both hold a label's code. In
`run_store` 2 files let a removed file be recreated and still be written by the
handler that opened it; 2 failures give a torn write and a crash, a lost answer
and a retry, or a torn write and an upload given up on; with 2 events the torn one can be
dropped, so that the other is written behind it. A line of 3 fits a limit of 4 behind
a torn piece of 1 and of no other length. 2 ticks and a retention of 1 give a file that is
past it, and an upload between the look and the removal. Handlers of two runs share the
lock and nothing else, so that one run shows what there is. In `agent_monitor` 2 logs give a replacement, at every point
of the loop, and 2 exits a game that comes back; two exceptional events at a time give
a failed look before an exit, a restart after one, or a launch in between. In `agent_update` 3 releases
let manifest, binary, running agent and installer all differ. In `platform_probe`
each part of a machine is varied on both sides of its bounds while the others
have ordinary answers, because no rule of the parser or of `validateEvent`
relates two parts; 2 attempts give a late helper that meets the next attempt.
In `log_tail` a read of 3 cells of 4 ends in the middle of a line, 3 logs on 2
inodes have one that is reused at once, and a log of 4 cells can grow past any
offset. In `agent_events` each trait, bound and precedence is varied by itself and
with the traits it competes with. In `run_summary` 3 or 4 events hold two of each
kind that a column relates, and a file of 6 holds them and a repetition. In
`engine_ini` 3 scripts are an installation, another over it and an uninstallation,
and 3 edits orphan a block, race with a script and write a setting.
TLC's integers end at 2^31 - 1, which stands for the bound 2^32 there; the
theorems hold for both.

### Fairness

- `uplink`: the monitor's flush and drain steps, the arrival of an answer
  and the server's storing are weakly fair. The loop has no exit but its
  errors, its client has a timeout, and a request that arrives is handled. Late
  handlers, failures and the pollers get no fairness.
- `run_store`: the cleanup's ticker, and every step of a cleanup that was
  begun. Appends get none.
- `agent_monitor`: the loop as a whole. Each wait in it (client, helper,
  ticker) has a timeout. The game gets none.
- `log_tail`: the poll, which the loop repeats every second, and the uploads that
  make room in the queue, which is what `uplink` shows of them. The writers of the
  log get none.
- `agent_update`: the six-hour timer, the steps of an update, systemd's
  restart, and the end of an installation that was begun. An uninstallation gets none:
  it may hang or be killed.

Failures are finite in every run, which is the usual "once failures cease".
Deadlock is checked in all runs but two: the agent's idle iteration, the passing of
time, restarts and the player's choice of a runtime keep those models alive.
`run_summary` stops when its file is full, and `engine_ini` when its scripts and edits
are used up, because nobody has to touch either again.

### What the runs found

Two runs disprove a statement of the repository:

1. **A torn write spoils the event after it** (`run_store_lines`). `appendEvents`
   returns when a write fails (731-734) and leaves what it wrote. The next
   append, usually the retry, continues that line: the first event of the retry
   is acknowledged and unreadable. `AckedIsReadable` shows what that can cost. Usually
   it is the very event that was torn. But if the full queue dropped that one before the
   retry (1851-1852), or the next append is an upload the agent had given up on, it is
   another event, which no write failed for. And if the torn piece and the line behind it
   together pass `readRun`'s 256 KiB (867), the whole run is gone from the list, although
   its lines are there.
2. **A report with more than 16 SMBIOS structures is lost**
   (`platform_probe_counts`). The parser and the rules for `rsmb` and
   `rsmb_structure` allow 64 structures of 64 strings, but `validateEvent` refuses
   any event whose `Parameters` exceed 16 (291), and with it the whole report; the
   helper is then run again every five minutes. `RefusedOnlyForCounts` shows, and
   the proof for every machine, that all other bounds agree.

The exceptions that other properties had to name, because the runs reach them, are
findings as well; such a property shows that there is no further exception:

- **The cleanup races with uploads** (`OnlyARaceTakesYoungEvents`). `cleanup`
  (1242-1262) takes no lock. An upload that refreshes or recreates an old file between
  the look and the removal is acknowledged and removed.
- **The helper may run beside the game.** It is started on the last look at `/proc`
  (1431) and runs for up to 45 seconds, while `Collector/README.md:40` says it is run
  only while the game is stopped. `AgentMonitor` has the behaviour, and promises only
  that the helper runs once per stop.
- **A run ends before its game** (`GameIsFollowed`). One failed look at `/proc` (1794)
  queues `session_end`, and the next look says `running` again without making the run
  active: the lines that follow are filed under an ended run, without samples. The same
  happens to a log that is first seen when it is older than 30 seconds (the helper may
  hold the loop for 45), if a run that the probes began has ended by then (1476-1483).
- **A run outlives its game.** An agent that is started within 30 seconds of the log's
  last line begins a run for a game it never sees (1478); `ActiveMeansRunning` and
  `ExitEndsRun` are about the games it has seen.
- **Connectors hide a card** (`OnlyConnectorsHideCards`). `card[0-9]*` (2308) matches
  `card0-DP-1`, too, and of the names found only the first eight are looked at: with
  eight connectors on the first card the second is not in the profile.
- **A disk counts another's partitions** (`PartitionsAreOwn`), if its name begins the
  other's: `sda` has those of `sdaa` (2458).
- **A log that regrows unnoticed** (`LogTail`'s `mixed`): truncated, or removed and
  created with the same inode, and longer than the offset at the next look, it is read
  from the old offset on.
- **Late copies in the dashboard** (`LatestUnlessLate`, `CountersNeverShort`).
  Counters count copies, a late copy sets columns with a last value back, and a `Ping`
  answered at the very time of a close makes a wrong interval after a mere retry.
- **Edits of `Engine.ini` are lost** (`SettingsPreserved`), although
  `Collector/README.md:257` says that "other game settings are preserved": those made
  between `sed` and `mv` or `grep` and `rm`, and those inside a block or behind one
  that lost its `END` line. Each reinstallation also leaves an empty line.
- **An agent outlives its removal** (`StaysRemoved`). `uninstall.sh` ignores a failure
  of `systemctl` (4), and the next update of an agent that runs on writes the
  executable again.

## 4. The proofs

`tlapm` checks every theorem below for every value of the constants that satisfies
the assumptions of the module it is about. None of the inductive invariants was
proved before TLC had found it to hold on the instance of the component's run.

### The upload path

`UplinkAssumption`: positive limits, natural bounds.

| Theorem | Says |
|---|---|
| `UplinkInvariant` | `Spec => []UplinkInv` |
| `TypeCorrect`, `AttributionHolds`, `AccountedHolds` | the three safety properties of the same names |
| `StoredInOrderHolds` | first copies are filed in order and without holes |
| `RunsAreClosedHolds` | a run has at most one `session_end`, and that of a replaced run is filed or lost (`RunsAreClosed`) |
| `ImplementsAtLeastOnce` | `Uplink` implements `AtLeastOnce` |

**The argument.** `Attribution` and `Accounted` are not inductive by themselves.
`UplinkInv` adds `Control` (a request is outstanding only in `flush` and `drain`,
and nothing is queued without a run), `OwnRun` (queued and travelling events
belong to the run they will be filed under, which is why `startRun` has to
empty the queue before it changes the run) and `Acknowledged` (an acknowledged
batch is in its run's file, and late handlers only hold events that are
accounted for). `QueueEffect` and `StoredEffect` say once what queueing and
storing do to the sets of events; each action then changes at most one of them.

For the order of a file, `OrderInv` adds that the queue is ordered by number and
that every batch that may still be stored is `Covered`: all its run's earlier
events are in the file, discarded, or earlier in the same batch. A batch is a
prefix of the queue, so it is covered when it is sent, and the file only grows.

For `RunsAreClosed`, `CloseInv` adds when a run has a `session_end`: an active run
that is not being drained has none, and one that is over has one. Each place that
queues one therefore finds none. When `startRun` replaces a run its queue is empty, and an
event of that run that is neither queued nor in a request is filed or lost
(`Accounted`), its `session_end` with the others.

The refinement maps each step to an `Offer`, a `Record`, a `Discharge`, an
`Abandon` or a stutter of `AtLeastOnce`.

`UplinkProofs` begins with the facts about ranges of concatenations, slices and cuts.

### The registry

`EnrollmentAssumption`: an invitation lives for a positive time, bounds are natural
numbers.

| Theorem of `EnrollmentProofs` | Says |
|---|---|
| `RegistryIsCorrect` | each code works once, in time and for its label; the tokens that work are the labels' latest (`RegistryInv`) |
| `ShownCodesWork` | a shown code works until it lapses, is redeemed or is superseded |
| `InstallsAreClean` | without a failure no label is stranded and no agent runs with another token than its `config.json`'s |
| `RegistryImplementsCredentials` | `Enrollment` implements `Credentials` |

**The argument.** `OneTime` fails to be inductive because nothing in it keeps a stored
invitation from having a code that was redeemed already, or two drafts from having
one code. `CodesDrawnOnce` says that a code belongs to one draft or one stored
invitation; `InvitesUnused`, that what `clients.json` has as an invitation was stored
and was not redeemed. `OwnCredentials` relates what an installer holds between
enrollment and `config.json` to its device's last grant; half a `config.json` is the
work of a failure. In the refinement storing an invitation is an `Issue`, an
enrollment a `Redeem`, and the passing of time a `Lapse` or a stutter. That a token
is left for a `Redeem` is a matter of counting: each grant used up a code of its own.

### The run store

`RunStoreAssumption`: batches and the retention period are positive, bounds are natural
numbers, and every line by itself fits `readRun`'s buffer. The code justifies the last: of
the fields of an event the agent sends only the payload is long, and its 128 KiB (46) are
less than 176 KiB in base64.

| Theorem of `RunStoreProofs` | Says |
|---|---|
| `AcknowledgedIsStored` | what was acknowledged can be read back, but for an event written behind a torn one, which is the torn one itself unless events were dropped or a late upload stored, and for a line that grew too long there (`RunStoreInv`) |
| `YoungEventsAreKept` | the cleanup takes a young event only from a file modified later than its look saw (`OnlyARaceTakesYoungEvents`) |

**The argument.** An event can be read back if its line is whole and nothing torn is
before it, so the proof keeps the two apart. `CopyIn`: a whole copy of the event's line is
in the file, which holds in every run. `KeptIn`: a chunk of the event stands by itself, or
is torn; this holds unless the run is `skewed`, and says that the event a torn chunk
spoils is the one that was torn. `TornInv`: a file that ends in a torn chunk keeps the oldest
event the agent holds, with which the next upload begins. `UploadInv`: the upload under way
did begin with it; what it has written is held in its file, was written now, and behind its
first event the file does not end torn. `AckedInv`: an acknowledged event is held within
the part of the file that is synced, or was removed, and the file was modified no earlier
than it was acknowledged. `ChunksInv`: the synced part ends with a whole line, so that a
host that forgets what follows leaves no torn end; and a line that is too long has a torn
chunk before its last. `FilesApart`: no two runs have one file, although a file that lost
its name may still be written. `HeldIsRead` puts these together.

For the cleanup, `CleanerInv` says that the file it is about to remove was past the period
when it looked. The event is young, and the file was modified no earlier than it was
acknowledged, so that it was modified after the look (`RemovedByCleanup`).

### The summaries

`RunSummaryAssumption`: a run is a sequence of events with at most one `session_end`, whose
numbers are not negative; bounds are natural numbers. Times are any integers.

| Theorem of `RunSummaryProofs` | Says |
|---|---|
| `SummaryIsRight` | flags, columns shown, longest gap and fault targets are the truth; counters never say too little, and too much by the repeated events at most; no slice is hidden (`SummaryInv`) |
| `LatestIsLast` | a column with a last value shows the last one unless a copy came late (`LatestUnlessLate`) |
| `EndedRunStays` | the end of a run settles its start, end and duration (`EndedRunStandsStill`) |
| `IntervalIsTrue` | the interval from a `Ping` to a close is one of the run's, and the last but for the exceptions named (`PingToCloseIsTrue`) |

**The argument.** `summarize` is a fold, so this is induction over the events of a batch,
inside the induction over the batches. The library states induction for an operator of the
user's, which the provers cannot instantiate, but that the numbers are well-founded is a fact
about sets, and `UpTo` follows from it: a set with 0 that has with each number the next one
has all up to a bound. `PassOf` then unfolds `FoldLeft` into the summaries after each event.

The invariant `IInv` says, of a summary and the number of events stored, what each column
shows (`Shows`) and, unless a copy came late, of which event (`ShowsLast`). `ApplyShows` takes
one more event: it is the next new one or one that was stored before, which is all that the
first group needs. The second group does not hold between the events of a repetition, where
an older event has just been read again. There `LastStep` says of a column that it is as the
batch's last event that sets it left it, or as it was before the batch; a batch that reaches
the end of what is stored therefore leaves the last of all. The interval is the hard case: on
a repetition a close is measured from a response that came *after* it the first time
(`PassMisses`), which is harmless unless that response is of the close's time or an earlier
one. That is the exception `PingToCloseIsTrue` names.

The proof showed two premises of earlier forms to be unnecessary: neither the slices nor the
interval need the times to be in order.

### The monitor loop

`AgentMonitorAssumption`: the bounds are natural numbers.

| Theorem of `AgentMonitorProofs` | Says |
|---|---|
| `RunsFollowGames` | a run ends once, with its game and not before, but for the exceptions named; the helper succeeds once per stop (`MonitorInv`) |
| `LogsAreNotMixed` | a run holds one log's lines (`OneLogPerRun`) |
| `RunsHaveTheirAch` | an active run has the latest fresh ACH (`ActiveRunHasAch`) |

**The argument.** `LoopInv` adds what each poller takes from the others. `EndsCounted`:
an active run has no end yet, so that asking for `active` is enough wherever a
`session_end` is queued (1516, 1680, 1755). `GamesCounted`: the log that is there is of a game that has stopped, unless the
game runs, and what the agent takes for running it has looked at. `HelperCounted`: a success keeps the
helper from being due until the next stop. `LinesFiled`: the current run's lines are of the
file that is followed, also between the stat and the open. `RunsCounted` bounds the
number of runs by the logs an agent can see, and is needed for the type of `run` alone.

### The tailers

`LogTailAssumption`: a read takes a positive number of bytes, there is a log, and the
file a tailer may find at the start has an inode.

| Theorem of `LogTailProofs` | Says |
|---|---|
| `LogsAreReadUnbroken` | each tailer reads a log's bytes in order, without a hole or a repetition, up to its offset (`LogTailInv`) |
| `LinesAreNotSpliced` | no line is put together of two logs' bytes (`NoSplicedLine`) |

**The argument.** `Unbroken` speaks of what was read and not of what the tailer may read
next. `TextInv` adds how both are tied: the text read of a log reaches to the offset
while the tailer is at that log and no cell of it lies beyond (`CellsBelowOffset`); what
is kept of an incomplete line is the one cell before the offset (`HalfLine`), and what
was handed over ends with a whole line. `FilesInv` says which file the next read can
meet: a log that was begun and can still be read is the one being read, and is at least
as long as the offset (`LiveIsRead`); a file that came to the path since the tailer
looked is one it has not begun (`NewIsUntouched`, `LiveDiffer`). Starting over at offset 0
therefore always starts a new log, but for the logs that regrow unnoticed, of which
neither property speaks.

### The updater and the scripts

`AgentUpdateAssumption`: what is damaged, and nothing, are not releases; bounds are
natural numbers, as are those of `EngineIniAssumption`.

| Theorem of `InstallationProofs` | Says |
|---|---|
| `OnlyReleasesRun` | only a release runs, and a complete executable is one (`UpdateInv`) |
| `UpdateNeverBreaks` | only `install.sh`'s copy and `uninstall.sh` take a complete executable away (`OnlyInstallBreaks`) |
| `UninstallLasts` | what is uninstalled comes back by `install.sh`, or by an agent that a failure left behind (`StaysRemoved`) |
| `InstallationsLeaveOneBlock` | an installation leaves one block, at the end of `Engine.ini` (`EngineIniInv`) |
| `GameSettingsArePreserved` | a script that changes a setting overwrites an edit, or cuts a setting in a block (`SettingsPreserved`) |
| `UninstallationsLeaveNoTrace` | no line of a block stays, nor a file without settings that `install.sh` created (`LeavesNoTrace`) |

**The executable.** `Sound`: a job past its verification has the binary of its manifest,
and the manifest is a release's; the agent's and the installer's differ in their places
and share this. `SoundDisk`: the file that `install.sh` copies to is a release, whole or
not, even if an update renames another one over it meanwhile. `SoundService`: the two
scripts exclude each other, and without a failure an agent runs with its service only.

**`Engine.ini`.** First what `sed` and `cat` do to any file of any length: `Cut` leaves no
first line of a block, no line of one if every such line is behind a first line
(`Covered`), and all settings if none is in a block (`CutFile`); `AppendBlock` adds no
setting and makes the block the only one (`AppendedBlock`). They follow from lemmas about
`Kept`, each by induction over the length, and about an inserted and a deleted line. Then
the state. `FileIsSound`: a block's lines are behind a first line unless somebody deleted
that, which is `orphan`. `TemporaryIsSound`: until the `mv`, the temporary file has the
settings of the file, unless that was edited since the `sed` (`raced`) or had a setting in
a block (`enclosed`), and `install.sh`'s has its one block. `ScriptIsSound`: what a script
has seen of the file, that it is missing, blank or without a block, stays true until an
edit; and the marker is there for a file that `install.sh` created, but for a death
between the two steps.

### The Windows helper

`EventsAssumption` (the bounds are natural numbers in the order of the code's) and
`PlatformProbeAssumption` (machines are machines, a configured version is neither empty
nor too long):

| Theorem of `PlatformProbeProofs` | Says |
|---|---|
| `Invariant` | `Spec => []IInv` |
| `TypeCorrect` | the type invariant |
| `RefusalsHaveTheirReason` | a result within the parser's bounds is refused for its counts only |
| `ReportsAreOfTheirAttempt` | a report of another attempt's file comes from a late helper |
| `ReportsTellEachCall` | a report tells of each call that could be made, of no other, and of a failed one the status only |

**The argument.** `SmallIsAccepted` carries `RefusalsHaveTheirReason`: one lemma per event
(`RuntimeValid` to `DriveValid`) shows that what the helper's function returns,
within the parser's bounds, becomes an event `validateEvent` accepts, for
whatever the calls answer; an event with a count needs the count to be at most
16. The events of a result are then a concatenation of valid ones. For
`ReportsTellEachCall`, `EventsOfResult` lists the events of a result one by one, and a
lemma per event (the `...Tells`) says that a call that failed leaves every other
field zero, so that the server reads nothing out of it. For the attempts,
`ReportIsOfItsAttempt` is not inductive: `LateIsKnown` adds that while an attempt
waits, an earlier helper that still runs, or whose file is there, was already
late when the attempt began, because starting removes the file, and an ended
helper writes nothing.

### Only model-checked

Liveness (`EventuallyFiled`, `RetentionEnds`, `ExitEndsRun`, `EverythingIsRead`,
`Converges`): fairness and `ENABLED` are out of the prover's reach. Everything about
`AgentEvents`: its lines become events through `SelectSeq` and `ToString`, of which the
provers know nothing. No module has a `RECURSIVE` operator.

## 5. Not modelled, and why

- Contents: formats, hashes, tokens, signatures and payloads are identities. A
  token or code never collides; a signature is a fact of a release.
- `flush`'s splitting by encoded size: any batch length can result.
- Power failures between a rename and the data of the renamed file.
- The walk over the bytes of the SMBIOS table, in the agent and in the helper: a table
  is its structures, each whole or cut short.
- Matching patterns in the text of a line: a line is what was found in it.
- Pages, headers, health check: presentation.
- `Steam/`: patches to a Wine that is not in the repository, scripts that build
  it and breakpoint scripts that drive a debugger; `setup.sh` is linear.

## 6. Plan

Done: the upload path, its abstract specification and its proofs; the registry,
its abstract specification and its proofs; the run store, the summaries and the proofs about them;
the monitor loop and its tailers, and the proofs about them; the parsers and the profile against
`validateEvent`; the updater, the uninstallation and the proofs about them; the Windows
helper, the agent that runs it, and the proofs about them; the scripts' edits of
`Engine.ini`, and the proofs about them.

Next, in this order:

1. `SmbiosWalk`: the walk over structures and string sets of `smbiosShapeAt` and
   of the helper, with its limits and the width of its integers.
2. In `Enrollment`, a registry file that is empty after a power failure (594).
3. `SteamSetup` and the attach protocol of the gate probe.

Proofs: the operators of `LineEvents` (that no line's event is refused but for its
excess).
