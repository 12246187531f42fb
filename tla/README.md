# SunReactor: TLA+ models, checks and proofs

SunReactor dims and brightens monitors with the sun and the weather. Its
daemon, `sunreactord`, is written in Rust (`src/src`); `sunreactorctl`, a
terminal interface and a KDE Plasma widget are its clients. This directory holds
TLA+ modules of the daemon and of the terminal interface's way to it, the TLC configurations that check them, and
theorems that TLAPS proves. Paths below are relative to `src/`, the repository.

## The system

### Components, their state, and what makes them correct

| component | state | operations | correct when |
|---|---|---|---|
| Apply engine (`src/apply/engine.rs`, `dispatch.rs`) | the work items of a tick, on the stack | tick (decide, dispatch one scoped thread per monitor, commit), `probe_and_correct` | the recorded percent is the one last written; no monitor is written by two paths; monitors reach their target |
| Fade engine (`src/runtime/fade.rs`) | one active fade per monitor | enqueue, step, cancel | a fade starts at the last write, never moves away from its goal, and ends |
| Control loop (`src/runtime/loop.rs`, `tick.rs`, `orchestrator.rs`) | deadlines, runtime state, configuration, last snapshot | drain requests and events, tick, fade step, probe, resync, persist, bootstrap | every due tick runs; fades have priority yet starve nothing |
| Capability refresh (`src/runtime/capabilities.rs`) | `active`, `pending`, generation, thread handle, channel of capacity one | begin, publish, invalidate | no result is lost, no stale snapshot is used, no cycle waits for ever |
| Runtime state (`src/state/types.rs`, `transitions.rs`) | suspension, overrides with their expiries, bookkeeping per monitor | set, clear, expire, prune, record success and failure | what the user asked is in effect until its end |
| State file (`src/state/persist.rs`) | the file and a snapshot of it in memory | save by write, rename and directory sync; load | acknowledged requests survive a crash |
| Request handlers (`src/runtime/ipc.rs`) | none of their own | suspend, resume, overrides, limits, reload, run once, idle dim and wake, queries | a rejected request leaves no trace |
| Probe schedule (`src/runtime/wake.rs`) | cadence, fast window, wait for a sleeping monitor | signal, take a probe, note its outcome | drift is read in time and a monitor that settled is left alone |
| Topology (`src/runtime/topology.rs`) | none | classify configured monitors against a discovery | one target per panel may be written |
| Display events, desktop idle (`src/runtime/events.rs`, `idle.rs`) | listener threads, pending resyncs | coalesce events, delayed resync, clock jumps | losing an event costs time, not correctness |
| Weather engine (`src/weather`, `src/runtime/weather_refresh.rs`) | worker thread, command channel, shared status | fetch, refresh, replace, stop | a refresh is attempted, the weather is that of the place |
| IPC transport (`src/ipc`) | socket, deadlines | bind, accept, read and write a frame | a burst of clients does not starve the loop |
| Child processes (`src/process.rs`) | a child, its group and pipes, a deadline | run, kill at the deadline | every call returns and leaves nothing behind |
| DDC backend, ddcutil client (`src/backends/ddc.rs`, `src/ddcutil`) | the I2C lock | select, verify the bus, write, retry | a write reaches the configured panel |
| Discovery, configuration (`src/discovery`, `src/config`) | the file | list displays, propose, validate, save | what is proposed is valid; selectors do not overlap |
| Policy, themes (`src/policy`, `src/solar`, `src/theme`) | none | compute the target, choose colours | |
| Terminal interface (`src/tui`) | form, state of the last action, worker thread with two channels | edit, save, ask, quit | what it calls applied is applied |
| Command line, widget (`src/bin`, `plasma`) | request queue and view | ask, show | |

### How they interact

One thread, the control loop, owns the runtime state. It drains the IPC
socket and the display events, then takes one action: a fade step, a scheduled
tick, a probe or nothing. Three kinds of threads run beside it: the scoped
dispatch threads of a tick, which are joined before the tick commits; the
capability observation, whose result comes back through a channel and which a
scheduled tick waits for; and workers (weather, idle watcher, listeners), which
send requests or flags. IPC requests call into the state and, for most, run a
forced tick before they are answered. The state is written to a file after a
change and read once at start.

Everything around the daemon moves by itself: monitors sleep, come back at a
level of their own, are written by the desktop or the user's buttons; commands
fail, or are killed at their deadline after the monitor obeyed; displays come
and go with or without an event; the daemon is killed.

### What is hard

The list, each item with its line and the properties that cover it, is
`hazards` in `PROJECT.json`. In short: results of concurrent writes that are
recorded before or without having happened; fades, ticks and probes writing to
the same monitor; fades that resume from a wrong place; monitors that the
combination of hysteresis, step limit, write interval and backoff keeps from
their target; suspension meeting work under way; a pending observation cycle
without an observation; stale snapshots; half-undone requests; a file that lags
behind or runs ahead of memory, or has two writers; an expiry that several
overrides share; monitors that sleep, wake or drift while no hint tells of it;
selectors that may stand for the same panel, and panels that move while a call
waits for its lock; children that hang; a worker replaced while it works;
answers that come late, commands and events dropped in full channels.

## The modules

    BrightnessMath          arithmetic: hysteresis, step limit, fade, backoff
      ApplyEngine           ticks, dispatch threads, fades, probes, requests
        MCApplyEngine       values for TLC
      WeatherEngine         the weather worker, its requests, its replacement
        MCWeatherEngine     values for TLC
    CapabilityRefresh       the observation handshake, step by step
    ControlState            suspension, overrides, saving, crashes
      MCControlState        values for TLC
    ProbeSchedule           when monitors are read back, and the loop around it
      MCProbeSchedule       values for TLC
    BrightnessCalls         what a brightness call promises (abstract)
    MonitorTargets          selectors, validation, discovery, reconciliation
      DdcWrites             calls of ddcutil, which implement BrightnessCalls
        MCDdcWrites         values for TLC
    SettingsClient          the terminal interface, its worker, the file, the daemon
    BrightnessMath_proofs
      ApplyEngine_proofs    types, then safety
    CapabilityRefresh_proofs
    DdcWrites_proofs        configurations, calls, and the refinement
    SettingsClient_proofs
    ControlState_proofs
    ProbeSchedule_proofs
    WeatherEngine_proofs

**BrightnessMath** holds the pure functions of `state/transitions.rs` and
`FadeEngine::process_tick`. Percents are clamped to `u8` values before they get
there and the products are taken in wider integers, so no operation can wrap.

**ApplyEngine** is the core. `mon[m]` is `MonitorRuntimeState`, `fades[m]` the
`ActiveFade`, `caps` the published snapshot as the set of monitors `reconcile`
calls Present, `work[m]` the scoped thread of `m` in the tick under way, and
`hw[m]` what the monitor really shows. `written[m]` is a history variable, the
last percent written with success since the start.

- A tick is one atomic decision (`Tick`, all skip reasons of phase 1 in their
  effect), then one `DispatchSucceeds` or `DispatchFails` per monitor in any
  order, then `Commit`. The control loop stands still meanwhile; the
  environment does not, so a monitor may fall asleep or be written to between a
  decision and its write.
- A failing command may or may not have changed the monitor.
- `FadeStep` writes to all fading monitors in one step, and so does `Probe` for
  all that differ. The code does these writes one after the other without
  looking at the shared state in between.
- The observation is `BeginObservation`, `ObservationPublished` and
  `ObservationLost`, the abstract form of module CapabilityRefresh.
- Instants are ages and countdowns in units of the tick interval. Every
  comparison in the code is between an age and an interval, and ages stop at
  `AgeCap`, above which none of them changes.
- `target[m]`, what policy and overrides ask for, moves arbitrarily.

**CapabilityRefresh** splits `begin_with_runner` where the thread can interfere
(the `active` flag is read, then the handle is tested) and the thread into
observe, send, drop the guard, exit. A snapshot is the number of hotplugs it has
seen, so "stale" is a comparison. The generation is a wrapping counter.

**ControlState** has the state in memory, the snapshot that decides whether to
save, and the file. A request changes memory, saves, undoes the change when the
save fails, otherwise runs the forced tick that refreshes and saves again.
`promise` accumulates the requests that took effect; `released` records the
overrides that the daemon itself may have ended (expired, equal to the policy,
no longer configured), so that losing any other override is an error. What the
policy gives is not modelled: a refresh may auto-match any set of overrides. A
crash is `Restart` (after an answer) or `KilledAfterSave` (between the rename
and the answer); a crash before the rename leaves the old file, as if the
request had not been made. Saving replaces the file by a rename, so no file is
ever half written.

**ProbeSchedule** is `ProbeSchedule` of `wake.rs` (`sched`) in the loop that
drives it: a drain of at most `DrainMax` connections, each a request that may
run a tick, suspend, or signal a wake (`OtherRequest`, `TickRequest`,
`IdleWake`), then one `Round`: a delayed resync, the recovery from a clock that
jumped, a probe, or a scheduled tick or fade step (`Rest`). Of a write only
whether the monitor then shows its target matters. `blind` stands for whatever
makes a probe read nothing: a fade, a suspension, a policy that cannot be
computed. Monitors go wrong, fall asleep and come back by themselves, and hints
are never owed. `unnoticed` measures for how long one monitor, `Observed`, has
been wrong or asleep unseen.

**WeatherEngine** has the engine's worker and at most one that it replaced,
each with its channel of capacity one. `Begin`, `Receive` and `Timeout` are an
iteration of `run_weather_worker` up to the provider's request, `FetchEnds` the
rest. The daemon's side is two steps where the code is: `request_refresh` sends
the command, then sets the state to Loading. A snapshot is the set of places
whose cloud cover is blended in it, since `merge_snapshot` smooths towards the
cached one. The state file survives a `Restart`, the configuration may not.

**MonitorTargets** is pure: which ddcutil selector a `MonitorSelector` gives,
when two are provably disjoint, what the validation accepts, what a discovery
reports, how a tick classifies the configured monitors, and which configuration
discovery proposes. Panels have a serial, a model and an EDID, and may share
any of them. What is reported of a panel (`Observation`, `Backlight`) is kept
apart from it: connector, bus, serial, model and the ddcci evidence are each an
Option, as in `discovery/model.rs`, and a panel may be silent or missing.
Classification, validation and proposals look at reports only; what is written
depends on the panels only. `Reach` is that: the panels at which a write of a
target can end, over the configured bus, at any panel of the configured
identity whether it answered or not, or through the pinned backlight.

`Separate` compares these. It excepts one case, which the code accepts: a
display and its ddcci backlight of which the code has no proof. The only proof
it takes (`Proven`, `discovery/mod.rs:455-470`) is that the backlight's evidence
names the connector of a display that answers. Without the evidence both stay
`Present`, as the test at `runtime/topology.rs:745-764` asserts; and when the
display does not answer but another one of its model does, both stay `Present`
although the driver writes to the silent one (`backends/ddc.rs:45`). The rule
`topology.rs:3` opens with, never to write the same panel twice, thus holds as
far as the accepted evidence goes, and not beyond.

**DdcWrites** is `apply_with_runner_in` around the ddcutil client around
`RealProcessRunner`, one record per target: verify the bus, wait for the lock,
spawn, be noticed or overdue, kill the group, join the readers, ask for ddcutil's
options and run again, retry by identity, return. The child acts, ends or hangs
as it likes and may leave a helper in its group that holds the pipes. A tick
starts calls for any set of allowed targets at once. Panels may be re-plugged at
any time; `moved` records that, during the call, the panel at the verified bus
was replaced or the panel it had written moved, and nothing else. A panel that
comes to that bus while the call waits for the I2C lock takes the write, since
the code does not verify it again; `WritesGoHome` excepts just that.
**BrightnessCalls** is what ApplyEngine relies on: calls that are open, one at
a time at the bus, that write only while they are, answer "ok" only after a
write, and return. `CallsKeepTheirPromise` is the refinement, liveness included.

**SettingsClient** composes the form and the action shown in the status line,
the command and event channels, the worker thread, the socket's backlog, the
configuration file and the daemon. A change gives the settings a new version;
every copy (form, file, daemon) is a version. `SetMonitorLimits` of other clients
is the file's second writer, in two steps as in the code (`SetLimits` reads the
file, `WriteLimits` replaces it). Suspend, resume and a weather refresh each wait
for the answer to their own kind only, and a suspension with minutes that are no
number is refused before it is sent. The worker gives up after its deadline while
its request stays in the backlog; the daemon stops, starts, and reads the file
before it binds the socket.

## What the runs check

| run | instance | shows |
|---|---|---|
| `apply_one` | 1 monitor, percents 0..3, two kinds of failure, 2 disturbances, every initial state | types; `BeliefIsLastWrite`, `NoDoubleOwner`, `FadeResumesFromLastWrite`, `FadesApproachTheirGoal`, `SuspendBlocksNewWork`, `Converges`, `FadesEnd` |
| `apply_two` | 2 monitors, percents 0..2, 2 disturbances, from the usual start (dark monitors asked to be bright) | the same for concurrent dispatch: one failing or fading monitor does not spoil the other |
| `capability_refresh` | 3 hotplugs, 2 panics, 6 generations | the handshake is safe and live when threads exit promptly |
| `control_state` | 2 monitors, 2 levels, 3 requests or restarts, 1 failed save, 1 minute | `PromiseKept`, `PromiseSurvivesCrash`, `SnapshotIsOnDisk`, `DiskCatchesUp` |
| `probe_schedule` | 2 monitors, fast interval 1, window 3, steady 2 or none, drains of 2 | `SeenInTime`, `DriftIsSeen`, `SettlesDown` |
| `weather` | 2 places, with and without key and weather, refresh every 2, retries of 1, 2 | `WeatherIsLocal`, `RefreshIsAttempted`, `LoadingEnds`, `WorkersRetire` |
| `hardware` | 2 targets out of 12 configurations, 2 connectors, 2 panels of one model, a backlight alias, reports that may lack an answer or a connector, 1 re-plugging, old ddcutil | `OnePanelOneTarget`, `SetupIsSafe`, `WritesGoHome`, and that the calls implement BrightnessCalls |
| `settings` | 2 changes, 1 other request, limits set once elsewhere, 1 restart, channels of 1 and 2 | `SavedAndApplied`, `ChangesArrive` |
| `apply_alias` | 2 monitors, one not authorised | a probe writes to it (finding) |
| `capability_slow_exit` | as above, threads exit late | a cycle waits for ever (finding) |
| `control_reload` | 2 monitors | a failed reload loses overrides (finding) |
| `control_expiry` | 2 monitors, 2 minutes | an override outlives the time its client was given (finding) |

### Why the bounds are enough

Percents 0..3 with a hysteresis and a step limit of 2 have changes that are
skipped, written, limited and faded; a fade of two steps has a first, a last
and an interrupted position. `ReassertInterval = 2` lies above the write
interval, so the deadline comes after ticks that skip. A disturbance is an
environment step, a request, a failure of an awake monitor or a lost
observation: two of them cover every pair (a request during a fade, a write
behind the daemon's back during a dispatch, a sleep and a return). They are
bounded, and must be for `Converges`: a daemon that is disturbed for ever
cannot be expected to settle. Failures of a sleeping monitor are not counted:
they repeat as long as it sleeps.

With 3 hotplugs an event can arrive before, during and after an observation;
`Generations` exceeds the invalidations that fit into one observation, as the
64-bit counter does by far. In ControlState three steps suffice for a request,
an interfering request and a restart, and durations are chosen to expire
within the clock's bound.

The window of ProbeSchedule exceeds the steady interval, which exceeds the fast
one, as in the code, so a window spans several probes of both kinds; requests
have no bound, only a drain has. Two monitors let one answer while the other
sleeps. In WeatherEngine reloads, restarts and refreshes have no bound either;
failures saturate after the second, whose delay reaches the refresh interval.
The configurations of `hardware` hold every kind of selector but an EDID, valid
and invalid pairs (the validation filters them in Init), selectors that share a
model, and a backlight of the same panel; one re-plugging falls before, between
or after the steps of a call. `Gaps` lets the panel with the backlight be silent
or lack its connector, and the backlight its evidence: with these a tick may
write a display, its backlight, both, or neither. What a report may lack besides
(bus, serial, model, a whole entry) is left to the theorems, which hold for
any snapshot. In `settings` the channels are full after one or
two entries, so drops happen; two versions give a late answer to the first save
while the second is pending. With one other request no kind can suppress its
repetition there, which matters to no property. No symmetry is used.

`CHECK_DEADLOCK` is on but for `settings`, where everything may stop once the
user has quit: elsewhere time always passes, or ticks run.

### Fairness

- ApplyEngine: the loop keeps beginning and publishing observations and taking
  fade steps; dispatch threads end, because each child process has a timeout;
  time passes. Nothing is assumed of probes, clients or monitors.
- CapabilityRefresh: loop and thread keep running; the tick falls due.
- ControlState: the loop never stops ticking, stated for ticks in which the
  policy matches no override. Each override can be matched once, so all but a
  few ticks act like that; fairness on any tick would instead force the policy
  to match every override in the end.

- ProbeSchedule: the daemon's thread runs, and time passes in the end, however
  often hints, requests and monitors happen in between (strong fairness, the
  only use of it: only finitely many things happen within an instant).
- WeatherEngine: both threads run, a request ends by its timeout, time passes.
  Nothing is assumed of the daemon's side.
- DdcWrites: the calls' threads run and deadlines pass. ddcutil owes nothing.
- SettingsClient: the interface's timers, its worker, the daemon's handlers and
  the worker's deadline. Nobody has to edit, save by hand, or start the daemon.

Otherwise only weak fairness is used, and never on a choice between success and failure.
Liveness therefore rests on failures and disturbances being bounded, not on
their being unlikely.

### Findings

1. *Probes bypass reconciliation* (`src/apply/engine.rs:117`). `TopologyStatus`
   says a suppressed alias must not produce a second write; ticks and fades obey
   (theorem `WorkIsAuthorised`), probes do not ask.
2. *A retry that starts nothing* (`src/runtime/capabilities.rs:62`). A cycle is
   made pending before `begin_with_runner` may return early because the old
   thread has sent its result but not dropped its guard or exited. The cycle
   then waits for an observation that was never started, and neither ticks nor
   fade steps run until a restart. It takes a failed or discarded observation
   and an immediate retry; the main run excludes it by
   `ThreadExitsPromptly = TRUE`.
3. *A reload does not roll back pruned overrides* (`src/runtime/ipc.rs:554`),
   against `docs/RELIABILITY.md`.
4. *One expiry for all overrides* (`src/state/transitions.rs:136`): setting an
   override on one monitor changes the end of another's, although the client
   was told when it ends.

## What is proved

TLAPS proves the following for every value of the constants that satisfies the
modules' assumptions: any number of monitors, any settings, any bound on
disturbances, hotplugs and panics.

**Arithmetic.** The step limiter and every position of a fade are percents;
consecutive positions of a fade never move away from the goal, although each is
rounded by itself (`FadePercentApproaches`, from the monotonicity of the
quotient). The backoff delay stays within its maximum.

**ApplyEngine.** `TypeCorrect` takes one lemma per action. For safety,
`KindsOfStep` reduces Next to seven kinds of step as far as beliefs, fades and
writes go, and the invariants build on each other:

1. `OneOwner`: a tick that takes a monitor on drops or replaces its fade, and
   fade steps and probes wait for dispatches.
2. `BeliefsAreLastWrites`: `BeliefIsLastWrite` is not inductive by itself, as
   the commit records `work[m].percent`; `OkIsWritten` adds that a thread which
   ended well has written just that.
3. `FadesResume`: needs both. A new fade starts at the recorded percent, which
   is the last write (2); without a belief no fade is long enough to start
   (`FadeNeedsBelief`); no dispatch writes behind a fade's back (1). The
   strengthening `FadesUnfinished` says that a fade has a step left.
4. `FadesApproach` follows from (3) and the arithmetic.
5. `SuspensionHolds` and `WorkIsAuthorised` (from `AuthorisedSnapshots`).

**CapabilityRefresh.** `Handshake` (a result belongs to the pending cycle and
finds the channel free) gives `ChannelSuffices`, even for threads that exit
late. That every pending cycle is answered is not an invariant of the code, as
finding 2 shows, so two theorems say how far it is one, for threads that take any
time to exit. `OnlyLingeringLosesACycle`: `PendingIsAnswered` is lost in one kind
of step, a cycle that begins while the thread of the last one lingers; every other
step of loop, thread and environment keeps it. `LostCyclesStayLost`: a cycle so
lost stays pending and unanswered for ever, whatever follows. `Freshness` counts how often the generation was raised
since an observation began: at most once per display event, of which there are
no more than hotplugs, so it cannot have come round. From it follow
`NothingStaleIsPublished` and `TickIsFresh`.

The assumptions are those in the modules: intervals are naturals, step counts
and the fade threshold positive, failure kinds differ from "running" and "ok",
`None` is no value of the types it is added to, and `Generations` exceeds
`MaxTopology + 2`.

**MonitorTargets** (in DdcWrites_proofs). `TargetsAreSeparate` is `Separate` for
any configuration that passes the validation, any panels as they are plugged and
any report of them, be it wrong or incomplete: disjoint selectors share no panel
(`DisplaysAreSeparate`), backlights with different pins share none
(`BacklightsAreSeparate`), and a backlight proven to be a display's is never
`Present` (`ProvenIsAlias`). It needs `PinsDiffer`, that no two backlights name
the same device, which the validation does not check. That the exception cannot
be dropped is proved too: `NoEvidenceBothWrite` and `SilentDisplayBothWrite` are
the two cases above, for any panels, connectors and devices.
`ProposalsAreUsable`: whatever a report lacks, discovery proposes nothing that
the validation would refuse, or that a tick would not control at once; and
when it lacks nothing, no two of its targets reach one panel, silent displays
included.

**DdcWrites.** The inductive invariant adds to the types that a panel is at one
connector (`OnePlace`) and `Grounded`: a call under way belongs to an enabled
monitor, and unless `moved`, its bus is the verified one and the panel it wrote
has the configured identity. `PanelsAreNotShared` follows with disjointness,
`SetupStaysSafe` from the theorem on proposals, `WritesReachTheirPanel` directly.

The second half proves the refinement of BrightnessCalls (`CallsRefine`): under
the mapping of DdcWrites, every step of the client is a step of the abstract
calls or none. The steps alone do not say so: that a call enters the bus when no
other is there, and that it reports success only for a display that was written,
takes `Held`, which adds to the invariant above that a call whose child may
write owns the lock, and that a child that ended well has written. It assumes a
lock file that can be locked (`Lockable`), the only case in which the promise
holds. The liveness of the promise, that every call returns (`Returns`), is left
to TLC; `CallsThatReturnKeepTheirPromise` derives the property of the run
from it.

**SettingsClient.** Nothing locks the file between its two writers, so what is
proved allows for both at once. `SavedUnlessTakenBack`: what is shown as saved
and applied has been loaded by the daemon, or the file no longer has it, whatever
is lost, late or restarted. `OnlyLimitsTakeTheFileBack`: a step in which the file
goes back to an older version is `WriteLimits` with a copy read before the save,
and no other. The invariant types the messages under way by sets that depend on
the state: among `Requests` none is newer than the last, and what carries the id
of the awaited save is that save; among `Reports` success for the awaited save
means that it was `Applied`. `Applied` admits a file that has an older version
than the save, and is kept by whatever the daemon does: loading the file, it has
what was saved unless the file has not. `Versions` orders draft, file and form.

**ControlState.** The promises are proved from `Holds`, which relates the state
in memory, and that in the file, to the promise field by field: a suspension or
override is the promised one, or is gone because it is over or excused by
`released`. `Keeps` alone is not inductive: it looks at the present moment only,
and a new duration, shared by all overrides, would bring back one that had
merely been over. `Within` says that memory has dropped at most more than the
file, which a reload that saves nothing relies on. These three theorems assume
that the directory sync does not fail (`DirectorySyncFails = FALSE`). Two do
without: `TypeCorrect`, and `PromisesAreKeptUntilRestart`, which says how far the
harm of a failed sync goes. Only a restart reads the file, so until then memory
keeps what was promised; the invariant is `Holds` of memory alone.

**ProbeSchedule.** `SeenInTime` bounds the time that has passed since a level
went wrong, which says nothing of the next step. The invariant `Promised` bounds
the time that will have passed when the next probe is due, and says why it is
due so soon: the daemon waits for a monitor, or what opened the fast window is
less than a window ago (`fast + quiet >= Window`). Each operation on schedules
has a lemma that it keeps the promise; time moves both sides alike. The theorem
`WrongLevelsAreSeenInTime` needs nothing of the intervals but `Fast <= Steady`.
`ProbesAreFastForAReason` is the safety half of `SettlesDown`: what may open the
fast window in one step, and what the daemon may begin to wait for.

**WeatherEngine.** `WeatherStaysLocal` follows places through every hand they
pass: the engine's worker has the configuration of the daemon (the one it
replaced may still be at work, but nothing reads what it sends), so what reaches
the snapshot, the memory and the blend is of the configured place. `moved` excepts
weather of a state file written elsewhere. `TypeCorrect` bounds the failure
count and the delays computed from it, for any refresh interval.

**Only model-checked:** liveness (`Converges`, `FadesEnd`, `SnapshotCatchesUp`,
`DueTickRuns`, `DiskCatchesUp`, `DriftIsSeen`, `SettlesDown`,
`RefreshIsAttempted`, `LoadingEnds`, `WorkersRetire`, `ChangesArrive`, and of
`CallsKeepTheirPromise` that calls return), which is out of the prover's reach.
Every invariant and every action property of a passing run has a theorem, some
under the assumptions named above; of `PendingIsAnswered` and `SavedAndApplied`
the theorems say when they are lost.

## What is not modelled

- How the target is computed (floating-point policy, weather, sun): it moves
  arbitrarily. Parsing, rendering, logging, records of past runs, themes,
  installation, the Windows port and the command line: no state of interest.
- The directory sync that fails after a rename: `control_state` assumes it does
  not (`DirectorySyncFails = FALSE`); with it, memory and file disagree and
  `SnapshotIsOnDisk` fails.
- A corrupt state file, which is set aside and replaced by the defaults.
- A failure of one write within a fade step or probe that arrives while the
  next monitor is being written: the writes of these steps are one step.
- Of probes: `probe_seconds` is read when the daemon starts and not by a reload.
  A request that counts as a tick attempt resets the clock watch, so a sleep of
  the machine that ends with such a request is not recovered from, which
  ProbeSchedule models but does not call an error. Backlights whose read-back
  never equals the request are always corrected, and keep probes fast.
- Of the weather: that the state file's weather is of another place than the
  daemon is started at. `WeatherIsLocal` excepts it by `moved`; nothing in the
  code compares them. A missing provider is excluded by the validation.
- Of configurations: the validation compares no two backlights; Init of
  DdcWrites assumes `PinsDiffer`. A device that other evidence than the ddcci
  symlinks would tie to a display is not modelled, since the code takes none. An EDID selector never matches a discovery,
  whose report has no EDID, so such a monitor is never written by a tick.
- Of calls: reads, which change nothing and take no lock. The lock may be
  impossible to open or to take, which the code ignores: `Lockable = FALSE`
  violates `CallsKeepTheirPromise`, as it must. A panel that comes to a verified
  bus before the write takes it (`moved`). A child that leaves its process
  group escapes the killing, as any would.
- Of settings: `LimitsRace = TRUE`, where the interface saves while the daemon
  is between reading the file and writing limits, violates `SavedAndApplied`:
  the old settings come back with the next reload or restart. A user who quits
  right after a save ends the process before the worker has asked for a reload,
  so the daemon goes on with the old settings until it restarts;
  `ChangesArrive` excepts it. The interface overwrites limits set elsewhere
  after it has started, with those it read.
- Framing and size limits of IPC, the idle watcher's threads and fallback
  processes, the merging of discovered monitors into a configuration, forms and
  drawing, the widget, the Windows port.

## Plan

Written, in this order: BrightnessMath, ApplyEngine, CapabilityRefresh,
ControlState, and the proofs of the first three; then WeatherEngine,
ProbeSchedule, MonitorTargets, BrightnessCalls and DdcWrites, SettingsClient;
the proofs of MonitorTargets, DdcWrites, SettingsClient and ControlState; and
those of ProbeSchedule, of WeatherEngine, and of the refinement of
BrightnessCalls.

Next:

1. Proofs without the assumptions that are left: ControlState across the restart
   after a failed directory sync, and the calls without a lock file.
2. An abstract specification of the control state (acknowledged requests as one
   atomic map), implemented by ControlState.
3. *IdleWatcher* (`idle.rs`): the watcher process, its restart with backoff, and
   its replacement when the configuration changes.
4. *ConfigTransaction* (`config/discovered.rs`): merging discovered monitors
   into a file that changed meanwhile.
5. The framing of IPC with its deadlines, and the widget's request queue.
