---------------------------- MODULE ControlState ----------------------------
(***************************************************************************)
(* What the user asked of the daemon and how it survives: the suspension   *)
(* and the manual overrides (state/transitions.rs), the requests that      *)
(* change them (runtime/ipc.rs) and the state file (state/persist.rs).     *)
(*                                                                         *)
(* A request changes the state in memory, saves it, undoes the change when *)
(* the save fails, and otherwise answers after a forced tick, which        *)
(* refreshes the state and saves it once more.  The daemon may be killed   *)
(* at any point and restarted; the directory of the state file may fail to *)
(* sync after the new file is in place.                                    *)
(*                                                                         *)
(* Time is in minutes.  Requests for monitors that are not configured, and *)
(* with zero minutes, change nothing and are left out, and so is the       *)
(* runtime state of the monitors, which module ApplyEngine models; it may  *)
(* make a save necessary though nothing modelled here has changed.         *)
(***************************************************************************)
EXTENDS Integers

CONSTANTS
    None,               \* the absent value of an Option
    Monitors,           \* logical ids
    Percent,            \* brightness levels
    Durations,          \* minutes a request may ask for
    MaxTime,            \* bound on the clock
    MaxRequests,        \* bound on requests and restarts
    MaxFailures,        \* bound on saves that fail
    DirectorySyncFails  \* whether sync_parent_dir may fail after the rename

Time == Nat
Minutes == Durations \cup {None}

ASSUME NoneAssumption == None \notin Percent /\ None \notin Int
ASSUME TimeAssumption == Durations \subseteq Nat \ {0} /\ MaxTime \in Nat
ASSUME BoundAssumption == {MaxRequests, MaxFailures} \subseteq Nat
ASSUME SyncAssumption == DirectorySyncFails \in BOOLEAN

VARIABLES
    now,        \* now_epoch_s
    configured, \* the monitors of the active configuration
    mem,        \* RuntimeState, in memory
    snapshot,   \* persisted_state_snapshot
    disk,       \* the state file
    reply,      \* how the last request was answered, none if it was not
    asked,      \* asked[m]: the end the user gave the override of m, or None
    promise,    \* the state the requests that took effect add up to
    released,   \* monitors whose override may have ended without a request
                \* to end it: expired, matched by the policy, or not configured
    requests,   \* requests and restarts so far
    failures    \* saves that failed so far

vars == <<now, configured, mem, snapshot, disk, reply, asked, promise,
          released, requests, failures>>

\* RuntimeState and ManualOverrideState; no override at all is Nothing's.
State == [indefinite : BOOLEAN, suspendUntil : Time \cup {None},
          global : Percent \cup {None}, globalUntil : Time \cup {None},
          targets : [Monitors -> Percent \cup {None}], until : Time \cup {None}]
Nothing == [indefinite |-> FALSE, suspendUntil |-> None,
            global |-> None, globalUntil |-> None,
            targets |-> [m \in Monitors |-> None], until |-> None]

TypeOK ==
    /\ now \in Time
    /\ configured \in SUBSET Monitors
    /\ {mem, snapshot, disk, promise} \subseteq State
    /\ reply \in {"none", "done", "unapplied", "rejected", "reload_rejected"}
    /\ asked \in [Monitors -> Time \cup {None}]
    /\ released \in SUBSET Monitors
    /\ requests \in 0 .. MaxRequests
    /\ failures \in 0 .. MaxFailures

Init ==
    /\ now = 0
    /\ configured = Monitors
    /\ mem = Nothing /\ snapshot = Nothing /\ disk = Nothing
    /\ reply = "none"
    /\ asked = [m \in Monitors |-> None]
    /\ promise = Nothing
    /\ released = {}
    /\ requests = 0 /\ failures = 0

-----------------------------------------------------------------------------
(* state/transitions.rs.                                                   *)

Active(until, time) == until = None \/ until > time

Suspended(s, time) == s.indefinite \/ (s.suspendUntil # None /\ s.suspendUntil > time)

\* target_percent and global_percent
OverrideOf(s, m, time) == IF Active(s.until, time) THEN s.targets[m] ELSE None
GlobalOf(s, time) == IF Active(s.globalUntil, time) THEN s.global ELSE None

NoTargets == [m \in Monitors |-> None]

\* A shared expiry is dropped together with the last override it belongs to.
Tidy(s) == [s EXCEPT !.until = IF s.targets = NoTargets THEN None ELSE @,
                     !.globalUntil = IF s.global = None THEN None ELSE @]

\* expire_transient_flags and clear_expired
Expired(s, time) ==
    Tidy([s EXCEPT
            !.suspendUntil = IF @ # None /\ @ <= time THEN None ELSE @,
            !.targets = IF Active(s.until, time) THEN @ ELSE NoTargets,
            !.global = IF Active(s.globalUntil, time) THEN @ ELSE None])

\* clear_auto_matched_monitor_overrides: an override that asks for what the
\* policy gives anyway is dropped.  What the policy gives is not modelled here,
\* so at any time it may match any of the overrides: those of matched.
AutoMatched(s, matched) ==
    Tidy([s EXCEPT !.targets = [m \in Monitors |-> IF m \in matched THEN None ELSE s.targets[m]]])

\* refresh_effective_control
Refreshed(s, matched) == AutoMatched(Expired(s, now), matched)

\* prune_to_configured_monitors
Pruned(s, monitors) ==
    Tidy([s EXCEPT !.targets = [m \in Monitors |-> IF m \in monitors THEN s.targets[m] ELSE None]])

\* Mutant: the end is computed the wrong way round.
UntilBackwards(minutes) == IF minutes = None THEN None ELSE now - minutes
\* The end of something that lasts that many minutes from now.
Until(minutes) == IF minutes = None THEN None ELSE now + minutes

\* suspend_for_minutes and suspend_until_resume
SuspendedFor(s, minutes) ==
    [s EXCEPT !.indefinite = minutes = None, !.suspendUntil = Until(minutes)]

\* set_monitor_override: one expiry is shared by all monitors.
WithOverride(s, m, percent, minutes) ==
    [s EXCEPT !.targets[m] = percent, !.until = Until(minutes)]
\* set_global_override
WithGlobal(s, percent, minutes) ==
    [s EXCEPT !.global = percent, !.globalUntil = Until(minutes)]

\* clear_monitor_override, clear_global_override and clear_override
WithoutOverride(s, m) == Tidy([s EXCEPT !.targets[m] = None])
WithoutGlobal(s) == Tidy([s EXCEPT !.global = None])
WithoutOverrides(s) == Tidy([s EXCEPT !.targets = NoTargets, !.global = None])

-----------------------------------------------------------------------------
(* runtime/orchestrator.rs, persist_state_if_changed, and state/persist.rs. *)

Save(result, snap, file) == [ok |-> result, snapshot |-> snap, disk |-> file]

\* Mutant: the snapshot is taken before the save has succeeded.
SavesSnapshotFirst(s, snap, file) ==
    {Save(TRUE, s, s), Save(FALSE, s, file)}

\* Mutant: nothing is saved while the daemon holds an override.
SavesWithoutOverrides(s, snap, file) ==
    IF s.targets # NoTargets THEN {Save(TRUE, snap, file)}
    ELSE {Save(TRUE, s, s), Save(FALSE, snap, file)}

\* The ends a save of s may have.  When s is the snapshot and no monitor has
\* changed either there is nothing to save.
Saves(s, snap, file) ==
    {Save(TRUE, s, s), Save(FALSE, snap, file)}
        \cup (IF s = snap THEN {Save(TRUE, snap, file)} ELSE {})
        \cup (IF DirectorySyncFails THEN {Save(FALSE, snap, s)} ELSE {})

Keep(save) ==
    /\ snapshot' = save.snapshot
    /\ disk' = save.disk
    /\ failures' = failures + (IF save.ok THEN 0 ELSE 1)
    /\ failures' <= MaxFailures

\* The monitors whose override a refresh of s ends: the shared expiry is over,
\* or the policy gives the same percent.
Lapsing(s, matched) ==
    {m \in Monitors : s.targets[m] # None /\ (m \in matched \/ ~ Active(s.until, now))}

-----------------------------------------------------------------------------
(* The requests.                                                           *)

Answer(result) ==
    /\ requests < MaxRequests
    /\ requests' = requests + 1
    /\ reply' = result

\* The change is saved; nothing else follows.
SavedAlone(changed) ==
    \E save \in Saves(changed, snapshot, disk) :
        /\ save.ok /\ Keep(save)
        /\ mem' = changed
        /\ Answer("done")
        /\ UNCHANGED released

\* The change is saved (first), and a forced tick refreshes the state and
\* saves it again: when that fails the answer is an error and the change stays.
\* monitors are those that stay configured.
SavedThenApplied(first, changed, monitors) ==
    \E save \in first, matched \in SUBSET monitors :
        /\ save.ok
        /\ mem' = Refreshed(changed, matched)
        /\ released' = {m \in released : changed.targets[m] = None}
                           \cup Lapsing(changed, matched) \cup (Monitors \ monitors)
        /\ \E last \in Saves(mem', save.snapshot, save.disk) :
              Keep(last) /\ Answer(IF last.ok THEN "done" ELSE "unapplied")

\* The save fails, and the handler puts back what it had changed.
Rejected(answer, changed, undone) ==
    \E save \in Saves(changed, snapshot, disk) :
        /\ ~ save.ok /\ Keep(save)
        /\ mem' = undone
        /\ Answer(answer)

\* The daemon is killed once the new file is in place, before it can answer,
\* and started again.  Killed earlier, it is as if it had not been asked; a
\* crash after the answer is a Restart.
KilledAfterSave(changed) ==
    /\ mem' = changed /\ snapshot' = changed /\ disk' = changed
    /\ Answer("none")
    /\ UNCHANGED <<released, failures>>

\* The request counts from now on: what it does to the promise, and the ends
\* its client has been given.
TakesEffect(promised, asks) == promise' = promised /\ asked' = asks

\* suspend
Suspend(minutes) ==
    LET changed == SuspendedFor(mem, minutes)
    IN  /\ \/ /\ SavedAlone(changed) \/ KilledAfterSave(changed)
              /\ TakesEffect(SuspendedFor(promise, minutes), asked)
           \/ /\ Rejected("rejected", changed, mem)
              /\ UNCHANGED <<promise, asked, released>>
        /\ UNCHANGED <<now, configured>>

\* Mutant: the rollback of a request restores the suspension alone.
UndoneKeepingSuspension(changed) ==
    [changed EXCEPT !.indefinite = mem.indefinite, !.suspendUntil = mem.suspendUntil]
\* What a request whose save failed leaves in memory: what was there before.
Undone(changed) == mem

\* resume, set_override and clear_override with the forced tick that follows.
ChangeAndApply(changed, promised, asks) ==
    /\ \/ /\ \/ SavedThenApplied(Saves(changed, snapshot, disk), changed, configured)
             \/ KilledAfterSave(changed)
          /\ TakesEffect(promised, asks)
       \/ /\ Rejected("rejected", changed, Undone(changed))
          /\ UNCHANGED <<promise, asked, released>>
    /\ UNCHANGED <<now, configured>>

Resume == ChangeAndApply(Nothing, Nothing, asked)

SetOverride(m, percent, minutes) ==
    /\ m \in configured
    /\ ChangeAndApply(WithOverride(mem, m, percent, minutes),
                      WithOverride(promise, m, percent, minutes),
                      [asked EXCEPT ![m] = Until(minutes)])

SetGlobalOverride(percent, minutes) ==
    ChangeAndApply(WithGlobal(mem, percent, minutes), WithGlobal(promise, percent, minutes), asked)

ClearOverride(m) ==
    /\ m \in configured
    /\ ChangeAndApply(WithoutOverride(mem, m), WithoutOverride(promise, m), asked)

ClearGlobalOverride == ChangeAndApply(WithoutGlobal(mem), WithoutGlobal(promise), asked)

ClearAllOverrides == ChangeAndApply(WithoutOverrides(mem), WithoutOverrides(promise), asked)

\* ReloadConfig.  The state is saved only when pruning it has changed it (the
\* monitors' own states may have been pruned too).  A failed save restores the
\* configuration, yet not the overrides that were pruned.  (Killed at any point,
\* the daemon restarts with the new configuration.)
ReloadConfig(monitors) ==
    LET pruned == Pruned(mem, monitors)
        first == Saves(pruned, snapshot, disk)
                     \cup (IF pruned = mem THEN {Save(TRUE, snapshot, disk)} ELSE {})
    IN  /\ \/ /\ SavedThenApplied(first, pruned, monitors)
              /\ configured' = monitors
           \/ /\ Rejected("reload_rejected", pruned, pruned)
              /\ released' = released \cup (Monitors \ monitors)
              /\ UNCHANGED configured
        /\ UNCHANGED <<now, promise, asked>>

-----------------------------------------------------------------------------
(* The daemon alone, and what happens to it.                               *)

\* A tick, scheduled or forced by a request that changes nothing here: refresh
\* the state and save it.  A failed save is tried again by the next tick.
ScheduledTick(matched) ==
    /\ mem' = Refreshed(mem, matched)
    /\ released' = released \cup Lapsing(mem, matched)
    /\ \E save \in Saves(mem', snapshot, disk) : Keep(save)
    /\ UNCHANGED <<now, configured, reply, asked, promise, requests>>

\* A probe refreshes the state too, but saves it only after a correction.
Probe(matched) ==
    /\ mem' = Refreshed(mem, matched)
    /\ released' = released \cup Lapsing(mem, matched)
    /\ UNCHANGED <<now, configured, snapshot, disk, reply, asked, promise,
                   requests, failures>>

\* The daemon is killed, or stopped, and started again, perhaps with another
\* configuration.  It starts only if the pruned state can be saved.
Restart(monitors) ==
    /\ Answer("none")
    /\ configured' = monitors
    /\ mem' = Pruned(disk, monitors) /\ snapshot' = mem' /\ disk' = mem'
    /\ released' = released \cup (Monitors \ monitors)
    /\ UNCHANGED <<now, asked, promise, failures>>

AdvanceClock ==
    /\ now < MaxTime
    /\ now' = now + 1
    /\ UNCHANGED <<configured, mem, snapshot, disk, reply, asked, promise,
                   released, requests, failures>>

-----------------------------------------------------------------------------
Request ==
    \/ \E minutes \in Minutes : Suspend(minutes)
    \/ Resume
    \/ \E p \in Percent, minutes \in Minutes :
          SetGlobalOverride(p, minutes) \/ \E m \in Monitors : SetOverride(m, p, minutes)
    \/ \E m \in Monitors : ClearOverride(m)
    \/ ClearGlobalOverride \/ ClearAllOverrides
    \/ \E monitors \in SUBSET Monitors : ReloadConfig(monitors)

Next ==
    \/ Request
    \/ \E matched \in SUBSET configured : ScheduledTick(matched) \/ Probe(matched)
    \/ \E monitors \in SUBSET Monitors : Restart(monitors)
    \/ AdvanceClock

\* The control loop never stops ticking (runtime/loop.rs).  A tick that the
\* policy lets drop an override is one of a few: all others act as if nothing
\* matched.
Spec == Init /\ [][Next]_vars /\ WF_vars(ScheduledTick({}))

-----------------------------------------------------------------------------
(* Properties.                                                             *)

\* s gives what was promised: the same suspension, the same global override
\* and the same overrides, but for those that ended by themselves.
Keeps(s) ==
    /\ Suspended(s, now) <=> Suspended(promise, now)
    /\ GlobalOf(s, now) = GlobalOf(promise, now)
    /\ \A m \in Monitors :
          \/ OverrideOf(s, m, now) = OverrideOf(promise, m, now)
          \/ OverrideOf(s, m, now) = None /\ m \in released

\* What requests were told has happened is in effect, and what they were told
\* was rejected is not, through failed saves, forced ticks, auto-matching,
\* reloads and restarts (ipc.rs answers only after the save).
PromiseKept == Keeps(mem)

\* The same holds of the file a crash at this very moment would leave.
PromiseSurvivesCrash == Keeps(disk)

\* The daemon decides whether to save by comparing with its snapshot of the
\* file, so the two must agree or a change may never be saved.
SnapshotIsOnDisk == snapshot = disk

\* What the daemon dropped on its own reaches the file in the end, although a
\* probe does not save and a tick may fail to.
DiskCatchesUp == <>[](disk = mem)

\* docs/RELIABILITY.md: a save that fails during a reload rolls both the
\* configuration and the state back.
ReloadRollsBack ==
    [][requests' # requests /\ reply' = "reload_rejected"
       => UNCHANGED <<configured, mem>>]_vars

\* The answer of set_override, "set manual override for ... until epoch ...":
\* an override is over at the time the client was given.
OverrideEndsWhenAsked ==
    \A m \in Monitors :
        OverrideOf(mem, m, now) # None /\ asked[m] # None => asked[m] > now
=============================================================================
