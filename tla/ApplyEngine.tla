---------------------------- MODULE ApplyEngine ----------------------------
(***************************************************************************)
(* The heart of sunreactord: the control loop that turns the brightness    *)
(* the policy wants into hardware writes.  One daemon thread runs          *)
(*                                                                         *)
(*   - ticks (apply/engine.rs): decide for every monitor whether to skip,  *)
(*     fade or write; write concurrently; commit the results;              *)
(*   - fade steps (runtime/loop.rs, runtime/fade.rs);                      *)
(*   - probes (probe_and_correct): read the monitors back and rewrite any  *)
(*     that differ;                                                        *)
(*   - IPC requests, several of which run a forced tick.                   *)
(*                                                                         *)
(* Around it the monitors fall asleep, come back at a level of their own,  *)
(* and are written by the desktop and by the user's buttons.               *)
(*                                                                         *)
(* Simplifications.  Wall-clock instants are ages and countdowns, in units *)
(* of the tick interval, advanced together by AdvanceClock: every          *)
(* comparison of the code is one of an age with an interval.  Ages stop at *)
(* AgeCap, beyond which no comparison tells them apart.  target[m] is the  *)
(* percent the policy and the manual control ask for after                 *)
(* effective_percent_for; module ControlState models how it is obtained.   *)
(* The daemon does not persist here: a restart is a new behaviour, whose   *)
(* initial states keep whatever backoffs the state file held.              *)
(***************************************************************************)
EXTENDS BrightnessMath, FiniteSets

CONSTANTS
    Monitors,           \* logical ids of the configured monitors
    MaxPercent,         \* 100
    MinWriteDelta,      \* min_write_delta_pct
    MaxStepPerTick,     \* max_step_pct_per_tick
    MinApplyInterval,   \* min_apply_interval, the tick interval
    ReassertInterval,   \* apply_reassert_interval
    FadeThreshold,      \* FADE_THRESHOLD_PCT
    FadeStepsDecrease,  \* FADE_STEPS_DECREASE
    FadeStepsIncrease,  \* FADE_STEPS_INCREASE
    BackoffBase,        \* BACKOFF_BASE_SECONDS
    BackoffMax,         \* BACKOFF_MAX_SECONDS
    FailureCap,         \* bound on consecutive_failures
    FailureKinds,       \* transient and persistent
    CheaplyProbed,      \* monitors probe_monitor_percent can read
    NotAuthorised,      \* monitors reconcile never calls Present
    SavedBackoffs,      \* backoffs a state file may hold at startup
    MaxDisturbances     \* bound on environment steps and requests

Percent == 0 .. MaxPercent
AgeCap == IF ReassertInterval >= MinApplyInterval THEN ReassertInterval
                                                  ELSE MinApplyInterval
Age == 0 .. AgeCap
Backoff == [kind : FailureKinds, failures : 1 .. FailureCap, left : 0 .. BackoffMax]
Fade == [start : Percent, goal : Percent, step : Nat]
Work == [percent : Percent, result : {"running", "ok"} \cup FailureKinds]

ASSUME MonitorsAssumption ==
    /\ CheaplyProbed \subseteq Monitors
    /\ NotAuthorised \subseteq Monitors
ASSUME IntervalAssumption ==
    /\ MaxPercent \in Nat
    /\ {MinWriteDelta, MaxStepPerTick, MinApplyInterval, ReassertInterval} \subseteq Nat
ASSUME FadeAssumption ==
    /\ FadeThreshold \in Nat \ {0}
    /\ {FadeStepsDecrease, FadeStepsIncrease} \subseteq Nat \ {0}
ASSUME BackoffAssumption ==
    /\ {BackoffBase, BackoffMax, FailureCap} \subseteq Nat \ {0}
    /\ SavedBackoffs \subseteq Backoff \cup {None}
ASSUME DisturbanceAssumption == MaxDisturbances \in Nat
ASSUME KindAssumption == FailureKinds \cap {"running", "ok"} = {}
ASSUME OptionAssumption ==
    /\ None \notin Backoff
    /\ None \notin Fade
    /\ None \notin Work

VARIABLES
    hw,         \* hw[m]: the brightness monitor m really has
    awake,      \* monitors that answer reads and writes
    target,     \* target[m]: the percent the policy asks for now
    suspended,  \* "no", "timed" or "indefinite"
    config,     \* the reloadable settings: enabled, smooth, dryRun
    mon,        \* mon[m]: MonitorRuntimeState
    fades,      \* fades[m]: the active fade of m, or None
    caps,       \* last_capabilities: monitors classified Present, or None
    observing,  \* a capability observation under way and what it saw, or None
    tickDue,    \* the tick interval has elapsed since the last attempt
    work,       \* work[m]: the dispatch thread of m in the current tick, or None
    written,    \* the last percent the daemon wrote to m with success, or None
    disturbed   \* environment steps and requests so far

envVars == <<hw, awake, target, disturbed>>
loopVars == <<suspended, config, caps, observing, tickDue>>
vars == <<hw, awake, target, suspended, config, mon, fades, caps, observing,
          tickDue, work, written, disturbed>>

fading == \E m \in Monitors : fades[m] # None
\* A tick is between its decisions and its commit.
dispatching == \E m \in Monitors : work[m] # None

Config == [enabled : SUBSET Monitors, smooth : BOOLEAN, dryRun : BOOLEAN]
MonitorState == [last : Percent \cup {None}, appliedAge : Age \cup {None},
                 checkAge : Age \cup {None}, backoff : Backoff \cup {None}]

TypeOK ==
    /\ hw \in [Monitors -> Percent]
    /\ awake \in SUBSET Monitors
    /\ target \in [Monitors -> Percent]
    /\ suspended \in {"no", "timed", "indefinite"}
    /\ config \in Config
    /\ mon \in [Monitors -> MonitorState]
    /\ fades \in [Monitors -> Fade \cup {None}]
    /\ caps \in (SUBSET Monitors) \cup {None}
    /\ observing \in (SUBSET Monitors) \cup {None}
    /\ tickDue \in BOOLEAN
    /\ work \in [Monitors -> Work \cup {None}]
    /\ written \in [Monitors -> Percent \cup {None}]
    /\ disturbed \in 0 .. MaxDisturbances

\* runtime/orchestrator.rs, bootstrap_with_paths: the loaded state without the
\* percent and the time of the last apply, no snapshot and no fade.
Init ==
    /\ hw \in [Monitors -> Percent]
    /\ awake \in SUBSET Monitors
    /\ target \in [Monitors -> Percent]
    /\ suspended \in {"no", "timed", "indefinite"}
    /\ config \in Config
    /\ mon \in [Monitors -> [last : {None}, appliedAge : {None},
                               checkAge : {None}, backoff : SavedBackoffs]]
    /\ fades = [m \in Monitors |-> None]
    /\ caps = None
    /\ observing = None
    /\ tickDue = TRUE
    /\ work = [m \in Monitors |-> None]
    /\ written = [m \in Monitors |-> None]
    /\ disturbed = 0

-----------------------------------------------------------------------------
(* The bookkeeping of one monitor, state/transitions.rs.                   *)

\* record_apply_success
ApplySucceeded(percent) ==
    [last |-> percent, appliedAge |-> 0, checkAge |-> None, backoff |-> None]

\* record_integrity_check
IntegrityChecked(s) == [s EXCEPT !.checkAge = 0]

\* record_apply_failure
ApplyFailed(s, kind) ==
    [s EXCEPT !.backoff = NextFailureBackoff(@, kind, BackoffBase, BackoffMax, FailureCap)]

\* runtime/orchestrator.rs, prepare_apply_resync
Resynced(s, clearBackoff) ==
    [s EXCEPT !.last = None, !.appliedAge = None,
              !.backoff = IF clearBackoff THEN None ELSE @]

-----------------------------------------------------------------------------
(* One tick, apply_policy_with_runner_monitors_impl and apply_tick_policy. *)

\* ApplySettings::from_config, or force_apply_settings for a forced tick.
Settings(force) ==
    IF force THEN [minDelta |-> 0, maxStep |-> MaxPercent, minInterval |-> 0]
    ELSE [minDelta |-> MinWriteDelta, maxStep |-> MaxStepPerTick,
          minInterval |-> MinApplyInterval]

\* The integrity deadline counts from the last check, or the last apply.
ReassertIsDue(s) ==
    LET reference == IF s.checkAge # None THEN s.checkAge ELSE s.appliedAge
    IN  /\ s.last # None
        /\ reference = None \/ reference >= ReassertInterval

WriteIntervalActive(s, minInterval) ==
    s.appliedAge # None /\ s.appliedAge < minInterval

BackoffActive(s) == s.backoff # None /\ s.backoff.left > 0

\* An unchanged target has reached its integrity deadline: read it back.
ReadsBack(s, requested) == ReassertIsDue(s) /\ s.last = requested

\* Mutant: the reassert deadline does not lift the hysteresis.
HysteresisOutlivesReassert(force, s, requested) ==
    ShouldSkipHysteresis(s.last, requested, Settings(force).minDelta)

\* Too small a change, unless the reassert deadline has come.
SkippedByHysteresis(force, s, requested) ==
    /\ ShouldSkipHysteresis(s.last, requested, Settings(force).minDelta)
    /\ ~ ReassertIsDue(s)

AppliedPercent(force, s, requested, smooth) ==
    IF smooth THEN LimitStepSize(s.last, requested, Settings(force).maxStep)
    ELSE requested

\* Phase 1 keeps monitor m: none of the reasons to skip it applies.  seen is
\* the set of monitors that reconcile calls Present.
Proceeds(m, force, s, requested, cfg, seen) ==
    /\ m \in seen
    /\ m \in cfg.enabled
    /\ ~ (ReadsBack(s, requested) /\ m \in awake /\ hw[m] = requested)
    /\ ~ SkippedByHysteresis(force, s, requested)
    /\ force \/ ~ BackoffActive(s)
    /\ ~ WriteIntervalActive(s, Settings(force).minInterval)
    /\ ~ cfg.dryRun

\* Mutant: a monitor without a belief fades from darkness.
FadeFromDark(s, requested) == IF s.last = None THEN 0 ELSE s.last
\* runtime/fade.rs, maybe_enqueue: a long enough move becomes a fade.
FadeFrom(s, requested) == IF s.last = None THEN requested ELSE s.last
IsLongMove(start, goal) == AbsDiff(start, goal) >= FadeThreshold

FadesTo(m, force, s, requested, cfg, seen) ==
    /\ Proceeds(m, force, s, requested, cfg, seen)
    /\ cfg.smooth
    /\ IsLongMove(FadeFrom(s, requested), AppliedPercent(force, s, requested, TRUE))

NewFade(force, s, requested) ==
    [start |-> FadeFrom(s, requested), step |-> 0,
     goal |-> AppliedPercent(force, s, requested, TRUE)]

\* Mutant: a direct write leaves the old fade of its monitor in the engine.
FadesAfterKeepingOld(force, st, tgt, cfg, seen) ==
    [m \in Monitors |->
        IF FadesTo(m, force, st[m], tgt[m], cfg, seen)
        THEN NewFade(force, st[m], tgt[m])
        ELSE IF cfg.smooth THEN fades[m] ELSE None]

\* The fades after phase 1.  cancel_all drops them when transitions are not
\* smooth; a monitor that proceeds starts a new fade or loses its old one.
FadesAfter(force, st, tgt, cfg, seen) ==
    [m \in Monitors |->
        IF FadesTo(m, force, st[m], tgt[m], cfg, seen)
        THEN NewFade(force, st[m], tgt[m])
        ELSE IF cfg.smooth /\ ~ Proceeds(m, force, st[m], tgt[m], cfg, seen)
             THEN fades[m] ELSE None]

\* Mutant: the tick does not look at the suspension.
TickRunsSuspended(susp, seen) == seen # None

\* A suspended tick, and one before the first snapshot, does nothing at all.
TickRuns(susp, seen) == susp = "no" /\ seen # None

\* Phase 1 of a tick over the bookkeeping st, with the percents tgt requested.
Tick(force, st, tgt, susp, cfg, seen) ==
    IF ~ TickRuns(susp, seen)
    THEN mon' = st /\ UNCHANGED <<fades, work>>
    ELSE
    /\ mon' = [m \in Monitors |->
                 IF /\ m \in seen \cap cfg.enabled \cap awake
                    /\ ReadsBack(st[m], tgt[m])
                 THEN IntegrityChecked(st[m]) ELSE st[m]]
    /\ fades' = FadesAfter(force, st, tgt, cfg, seen)
    /\ work' = [m \in Monitors |->
                  IF /\ Proceeds(m, force, st[m], tgt[m], cfg, seen)
                     /\ ~ FadesTo(m, force, st[m], tgt[m], cfg, seen)
                  THEN [percent |-> AppliedPercent(force, st[m], tgt[m], cfg.smooth),
                        result |-> "running"]
                  ELSE None]

\* Bounds the steps of the environment and of the clients.
Disturb == disturbed < MaxDisturbances /\ disturbed' = disturbed + 1

\* Phase 2, one scoped thread per monitor: the write reaches the monitor,
DispatchSucceeds(m) ==
    /\ work[m] # None /\ work[m].result = "running"
    /\ m \in awake
    /\ hw' = [hw EXCEPT ![m] = work[m].percent]
    /\ written' = [written EXCEPT ![m] = work[m].percent]
    /\ work' = [work EXCEPT ![m].result = "ok"]
    /\ UNCHANGED <<awake, target, mon, fades, disturbed, loopVars>>

\* or fails: the monitor is asleep, or the command went wrong, in which case it
\* may have been killed after the monitor obeyed.
DispatchFails(m, kind) ==
    /\ work[m] # None /\ work[m].result = "running"
    /\ IF m \in awake
       THEN Disturb /\ hw' \in {hw, [hw EXCEPT ![m] = work[m].percent]}
       ELSE UNCHANGED <<hw, disturbed>>
    /\ work' = [work EXCEPT ![m].result = kind]
    /\ UNCHANGED <<awake, target, mon, fades, written, loopVars>>

\* Mutant: the write is recorded without looking at its result.
OutcomeUnchecked(m) == ApplySucceeded(work[m].percent)

\* Phase 3: every thread has been joined, the results are recorded in order.
Outcome(m) ==
    IF work[m].result = "ok" THEN ApplySucceeded(work[m].percent)
    ELSE ApplyFailed(mon[m], work[m].result)

Commit ==
    /\ dispatching
    /\ \A m \in Monitors : work[m] # None => work[m].result # "running"
    /\ mon' = [m \in Monitors |-> IF work[m] = None THEN mon[m] ELSE Outcome(m)]
    /\ work' = [m \in Monitors |-> None]
    /\ UNCHANGED <<fades, written, envVars, loopVars>>

-----------------------------------------------------------------------------
(* The control loop, runtime/loop.rs.  Only AdvanceClock, the dispatch     *)
(* threads and the environment move while a tick is dispatching.           *)

\* RunTick: the interval is over and no fade runs, so a scheduled tick first
\* asks for an observation of which monitors are there.
BeginObservation ==
    /\ ~ dispatching /\ ~ fading
    /\ tickDue /\ observing = None
    /\ observing' = awake \ NotAuthorised
    /\ UNCHANGED <<suspended, config, caps, tickDue, mon, fades, work, written, envVars>>

\* The observation has completed: publish it and run the scheduled tick.
ObservationPublished ==
    /\ ~ dispatching /\ observing # None
    /\ caps' = observing
    /\ observing' = None
    /\ tickDue' = FALSE
    /\ Tick(FALSE, mon, target, suspended, config, caps')
    /\ UNCHANGED <<suspended, config, written, envVars>>

\* The observation panicked, or a display event superseded it.
ObservationLost ==
    /\ ~ dispatching /\ observing # None /\ Disturb
    /\ observing' = None
    /\ UNCHANGED <<suspended, config, caps, tickDue, hw, awake, target, mon, fades, work, written>>

\* fade.rs, process_tick: the next step of a fade and its percent.
StepsTotal(f) == IF f.goal < f.start THEN FadeStepsDecrease ELSE FadeStepsIncrease
PercentAt(f, step) == FadePercent(f.start, f.goal, step, StepsTotal(f))
\* Mutant: the step counter is not advanced.
StuckStep(f) == f
NextStep(f) == [f EXCEPT !.step = @ + 1]
Completed(f) == f.step >= StepsTotal(f)

\* Mutant: a failed step is retried for as long as it fails.
FadeAfterFailureKept(f, failed) ==
    IF failed THEN [f EXCEPT !.step = @ - 1]
    ELSE IF Completed(f) THEN None ELSE f

\* A fade ends with its last step, and at once when a write of it fails.
FadeAfterStep(f, failed) == IF failed \/ Completed(f) THEN None ELSE f

\* RunFadeStep: every fading monitor is written its next percent at once.  A
\* monitor whose write fails stops fading and backs off.  obeyed are the
\* monitors whose brightness changes: a command may fail after that.
FadeStep ==
    /\ ~ dispatching /\ fading
    /\ observing = None /\ caps # None
    /\ LET active == {m \in Monitors : fades[m] # None}
           next == [m \in active |-> NextStep(fades[m])]
           percent == [m \in active |-> PercentAt(next[m], next[m].step)]
       IN  \E failed \in SUBSET active, obeyed \in SUBSET (active \cap awake) :
           \E kind \in [failed -> FailureKinds] :
             /\ active \ failed \subseteq obeyed
             /\ IF failed = active \ awake THEN UNCHANGED disturbed ELSE Disturb
             /\ hw' = [m \in Monitors |-> IF m \in obeyed THEN percent[m] ELSE hw[m]]
             /\ written' = [m \in Monitors |->
                              IF m \in active \ failed THEN percent[m] ELSE written[m]]
             /\ mon' = [m \in Monitors |->
                          IF m \in failed THEN ApplyFailed(mon[m], kind[m])
                          ELSE IF m \in active THEN ApplySucceeded(percent[m])
                          ELSE mon[m]]
             /\ fades' = [m \in Monitors |->
                            IF m \in active THEN FadeAfterStep(next[m], m \in failed)
                            ELSE None]
    /\ UNCHANGED <<awake, target, work, loopVars>>

\* Mutant: a probe does not wait for the fades.
MayProbeWhileFading == suspended = "no"

\* run_wake_probe: probes wait for fades and do nothing while suspended.
MayProbe == ~ fading /\ suspended = "no"

\* run_wake_probe and probe_and_correct: read the monitors that can be read
\* cheaply and rewrite those that differ, at once and to the full target.  A
\* command that fails is not recorded: the next probe tries again.
Probe ==
    /\ ~ dispatching /\ MayProbe
    /\ LET read == CheaplyProbed \cap config.enabled \cap awake
           drifted == {m \in read : hw[m] # target[m]}
           rewritten == IF config.dryRun THEN {} ELSE drifted
       IN  \E failed \in SUBSET read, obeyed \in SUBSET rewritten :
             /\ rewritten \ failed \subseteq obeyed
             /\ IF failed = {} THEN UNCHANGED disturbed ELSE Disturb
             /\ hw' = [m \in Monitors |-> IF m \in obeyed THEN target[m] ELSE hw[m]]
             /\ written' = [m \in Monitors |->
                              IF m \in rewritten \ failed THEN target[m] ELSE written[m]]
             /\ mon' = [m \in Monitors |->
                          IF m \in rewritten \ failed THEN ApplySucceeded(target[m])
                          ELSE IF m \in read \ (drifted \cup failed) THEN IntegrityChecked(mon[m])
                          ELSE mon[m]]
    /\ UNCHANGED <<awake, target, fades, work, loopVars>>

\* Time passes: ages grow, backoffs run out, the next tick falls due and a
\* timed suspension may end.
Aged(age) == IF age = None THEN None ELSE Least(age + 1, AgeCap)
Remaining(b) == IF b = None \/ b.left = 0 THEN b ELSE [b EXCEPT !.left = @ - 1]
Elapsed(s) == [s EXCEPT !.appliedAge = Aged(@), !.checkAge = Aged(@), !.backoff = Remaining(@)]
AdvanceClock ==
    /\ ~ dispatching
    /\ mon' = [m \in Monitors |-> Elapsed(mon[m])]
    /\ tickDue' = TRUE
    /\ suspended' \in IF suspended = "timed" THEN {"timed", "no"} ELSE {suspended}
    /\ UNCHANGED <<config, caps, observing, fades, work, written, envVars>>

-----------------------------------------------------------------------------
(* The clients, runtime/ipc.rs and runtime/idle.rs.                        *)

\* Suspend: for some minutes or until resume.  It runs no tick.
Suspend(kind) ==
    /\ ~ dispatching /\ Disturb
    /\ suspended' = kind
    /\ UNCHANGED <<config, caps, observing, tickDue, hw, awake, target, mon, fades, work, written>>

\* Resume: it also drops the manual overrides, so the targets may move, and
\* resynchronises every monitor.
Resume(tgt) ==
    /\ ~ dispatching /\ Disturb
    /\ suspended' = "no"
    /\ target' = tgt
    /\ tickDue' = FALSE
    /\ Tick(TRUE, [m \in Monitors |-> Resynced(mon[m], TRUE)], tgt, "no", config, caps)
    /\ UNCHANGED <<config, caps, observing, hw, awake, written>>

\* SetOverride, ClearOverride, SetMonitorLimits, IdleDim: new targets, applied
\* by a forced tick.
ForcedRequest(tgt) ==
    /\ ~ dispatching /\ Disturb
    /\ target' = tgt
    /\ tickDue' = FALSE
    /\ Tick(TRUE, mon, tgt, suspended, config, caps)
    /\ UNCHANGED <<suspended, config, caps, observing, hw, awake, written>>

\* IdleWake only restores the targets and asks for a probe, yet it counts as a
\* tick attempt: the scheduled tick is put off.
IdleWake(tgt) ==
    /\ ~ dispatching /\ Disturb
    /\ target' = tgt
    /\ tickDue' = FALSE
    /\ UNCHANGED <<suspended, config, caps, observing, hw, awake, mon, fades, work, written>>

\* RunOnce with or without force.  No observation precedes it.
RunOnce(force) ==
    /\ ~ dispatching /\ Disturb
    /\ tickDue' = FALSE
    /\ Tick(force, mon, target, suspended, config, caps)
    /\ UNCHANGED <<suspended, config, caps, observing, hw, awake, target, written>>

\* ReloadConfig with a forced tick.
ReloadConfig(cfg) ==
    /\ ~ dispatching /\ Disturb
    /\ config' = cfg
    /\ tickDue' = FALSE
    /\ Tick(TRUE, mon, target, suspended, cfg, caps)
    /\ UNCHANGED <<suspended, caps, observing, hw, awake, target, written>>

\* The delayed resync after the start or a jump of the clock, which keeps the
\* backoffs, and the one at the jump itself, which clears them.
Resync(clearBackoff) ==
    /\ ~ dispatching /\ Disturb
    /\ tickDue' = FALSE
    /\ Tick(TRUE, [m \in Monitors |-> Resynced(mon[m], clearBackoff)],
            target, suspended, config, caps)
    /\ UNCHANGED <<suspended, config, caps, observing, hw, awake, target, written>>

-----------------------------------------------------------------------------
(* The world around the daemon.                                            *)

\* The sun or the weather moves the target of m.
PolicyMoves(m, percent) ==
    /\ percent # target[m] /\ Disturb
    /\ target' = [target EXCEPT ![m] = percent]
    /\ ~ dispatching
    /\ UNCHANGED <<hw, awake, mon, fades, work, written, loopVars>>

\* The desktop or the user writes the brightness of m.
ExternalWrite(m, percent) ==
    /\ percent # hw[m] /\ Disturb
    /\ hw' = [hw EXCEPT ![m] = percent]
    /\ UNCHANGED <<awake, target, mon, fades, work, written, loopVars>>

FallsAsleep(m) ==
    /\ m \in awake /\ Disturb
    /\ awake' = awake \ {m}
    /\ UNCHANGED <<hw, target, mon, fades, work, written, loopVars>>

\* A monitor may come back at a level of its own.
WakesUp(m, percent) ==
    /\ m \notin awake /\ Disturb
    /\ awake' = awake \cup {m}
    /\ hw' = [hw EXCEPT ![m] = percent]
    /\ UNCHANGED <<target, mon, fades, work, written, loopVars>>

-----------------------------------------------------------------------------
Dispatch ==
    \E m \in Monitors : DispatchSucceeds(m) \/ \E k \in FailureKinds : DispatchFails(m, k)

Request ==
    \/ \E kind \in {"timed", "indefinite"} : Suspend(kind)
    \/ \E tgt \in [Monitors -> Percent] : Resume(tgt) \/ ForcedRequest(tgt) \/ IdleWake(tgt)
    \/ \E force \in BOOLEAN : RunOnce(force)
    \/ \E cfg \in Config : ReloadConfig(cfg)
    \/ \E clearBackoff \in BOOLEAN : Resync(clearBackoff)

Environment ==
    \E m \in Monitors :
        \/ FallsAsleep(m)
        \/ \E p \in Percent : PolicyMoves(m, p) \/ ExternalWrite(m, p) \/ WakesUp(m, p)

Next ==
    \/ BeginObservation \/ ObservationPublished \/ ObservationLost
    \/ FadeStep \/ Probe \/ AdvanceClock
    \/ Dispatch \/ Commit
    \/ Request \/ Environment

\* The loop never blocks for good: it keeps running its steps, the scoped
\* threads and the observation end (every child process has a timeout) and time
\* passes.  Nothing is assumed of probes, clients and monitors.
Fairness ==
    /\ WF_vars(BeginObservation) /\ WF_vars(ObservationPublished)
    /\ WF_vars(FadeStep) /\ WF_vars(Dispatch) /\ WF_vars(Commit)
    /\ WF_vars(AdvanceClock)

Spec == Init /\ [][Next]_vars /\ Fairness

-----------------------------------------------------------------------------
(* Properties.                                                             *)

\* What the state file records as applied is what was last written, whatever
\* mix of ticks, fades, probes, failures and resyncs led there; only between
\* the end of a dispatch thread and the commit may it be older.
BeliefIsLastWrite ==
    \A m \in Monitors :
        /\ mon[m].last # None
        /\ work[m] = None \/ work[m].result # "ok"
        => mon[m].last = written[m]

\* A monitor is never both fading and being dispatched by a tick: two paths of
\* writes with different goals would alternate on the hardware.
NoDoubleOwner == \A m \in Monitors : work[m] # None => fades[m] = None

\* A fade is always exactly where its steps so far have brought the monitor:
\* no tick, probe or resync writes it behind the fade's back, and a fade that
\* is retargeted starts from the last write.
FadeResumesFromLastWrite ==
    \A m \in Monitors :
        fades[m] # None => written[m] = PercentAt(fades[m], fades[m].step)

\* Ticks and fades, however stale the snapshot they rely on, only ever work on
\* monitors that reconcile can call Present: a second handle to a display that
\* is already driven, or an ambiguous one, is left alone.
OnlyAuthorisedWork ==
    \A m \in Monitors : fades[m] # None \/ work[m] # None => m \notin NotAuthorised

\* What runtime/topology.rs says of SuppressedProvenAlias and AmbiguousOrUnsafe:
\* such a monitor is never written.  The probes, which consult no snapshot,
\* break it.
SuppressedIsNeverWritten == \A m \in NotAuthorised : written[m] = None

\* While a fade drives a monitor no write takes it away from the fade's goal.
Between(a, b, c) == (a <= b /\ b <= c) \/ (c <= b /\ b <= a)
FadesApproachTheirGoal ==
    [][\A m \in Monitors :
          fades[m] # None /\ written'[m] # written[m]
          => Between(written[m], written'[m], fades[m].goal)]_vars

\* A suspended daemon takes on no new work: it dispatches nothing, starts or
\* retargets no fade, and writes only to monitors whose fade or dispatch was
\* under way.
SuspendBlocksNewWork ==
    [][suspended # "no" /\ suspended' # "no" =>
         \A m \in Monitors :
            /\ fades'[m] # None => /\ fades[m] # None
                                   /\ fades'[m].start = fades[m].start
                                   /\ fades'[m].goal = fades[m].goal
            /\ work'[m] # None => work[m] # None
            /\ written'[m] # written[m] => fades[m] # None \/ work[m] # None]_vars

\* Once clients and monitors leave it alone, the daemon brings every monitor it
\* may write to exactly the target, whatever the hysteresis, the step limit,
\* backoffs, a stale snapshot or a belief the hardware no longer matches.
Eligible(m) ==
    /\ m \in awake \cap config.enabled
    /\ m \notin NotAuthorised
    /\ ~ config.dryRun
    /\ suspended = "no"
Converges == \A m \in Monitors : <>[](Eligible(m) => hw[m] = target[m])

\* Scheduled ticks and probes wait for every fade to end, so no fade may last.
FadesEnd == \A m \in Monitors : fades[m] # None ~> fades[m] = None

=============================================================================
