---------------------------- MODULE ProbeSchedule ----------------------------
(***************************************************************************)
(* When the daemon reads the monitors back (runtime/wake.rs), and the loop *)
(* that takes the probes (runtime/loop.rs, and idle.rs as far as it watches*)
(* the clock).  Other programs write to the monitors behind the daemon's   *)
(* back, monitors sleep and wake at a level of their own, and the hints    *)
(* that tell of it may all be missing; the machine sleeps; clients ask for *)
(* other things in any order, and may never stop.                          *)
(*                                                                         *)
(* Time is counted in units of Fast.  FIRST_PROBE_DELAY is shorter, so a   *)
(* probe asked for by a signal is due before the unit is over.  Time       *)
(* passes when the loop has nothing left to do.                            *)
(***************************************************************************)
EXTENDS Integers

CONSTANTS
    None,       \* the absent value of an Option
    Monitor,    \* the enabled monitors with a verifiable connector
    Observed,   \* the one whose drift is timed; the choice does not matter
    Fast,       \* FAST_INTERVAL
    Window,     \* FAST_WINDOW
    Steady,     \* daemon.probe_seconds, when it is not zero
    FollowUp,   \* FOLLOWUP_WAKE_SYNC_DELAY
    DrainMax    \* IPC_DRAIN_MAX_REQUESTS

ASSUME ScheduleBounds ==
    /\ {Fast, Window, Steady, FollowUp, DrainMax} \subseteq Nat \ {0}
    /\ Fast <= Steady
    /\ None \notin Int
    /\ Observed \in Monitor

VARIABLES
    steady,     \* ProbeSchedule.steady is Some
    sched,      \* ProbeSchedule: the time to next and to fast_until, and
                \* waiting_for_wake
    delayed,    \* the time to delayed_sync_at, or None
    event,      \* DisplayEventSources: a recovery request is pending
    input,      \* INPUT_RESUMED
    slept,      \* the clock has run ahead of the monotonic one since last_tick_utc
    flood,      \* another connection is waiting whenever one is accepted
    drained,    \* the requests accepted in this drain
    blind,      \* a probe reads nothing: a fade is active, display writes are
                \* suspended or the policy cannot be computed
    asleep,     \* the monitors that do not answer
    wrong,      \* the monitors that do not show their target
    heard,      \* history: the last probe that read monitors reached Observed
    unnoticed,  \* history: for how long Observed has been wrong, or asleep,
                \* without a probe having seen it
    quiet       \* history: the time since the daemon was told of a wake, saw
                \* one, or had to correct a monitor

loopVars == <<delayed, event, input, slept, flood, drained>>
screen == <<asleep, wrong>>
history == <<heard, unnoticed, quiet>>
vars == <<steady, sched, loopVars, blind, screen, history>>

TypeOK ==
    /\ {steady, event, input, slept, flood, blind, heard} \subseteq BOOLEAN
    /\ sched \in [next : 0 .. Steady \cup {None}, fast : 0 .. Window, waiting : BOOLEAN]
    /\ delayed \in 0 .. FollowUp \cup {None}
    /\ drained \in 0 .. DrainMax
    /\ asleep \subseteq Monitor /\ wrong \subseteq Monitor
    /\ unnoticed \in 0 .. Steady + 1
    /\ quiet \in 0 .. Window

Minimum(i, j) == IF i < j THEN i ELSE j

-----------------------------------------------------------------------------
(* The schedule.                                                           *)

\* Mutant: a monitor that does not answer does not speed the probes up.
ScheduleFromWindow(s) ==
    IF s.fast > 0 THEN Fast ELSE IF steady THEN Steady ELSE None
\* schedule_from.
ScheduleFrom(s) ==
    IF s.fast > 0 \/ s.waiting THEN Fast ELSE IF steady THEN Steady ELSE None

\* Mutant: a signal opens the window but leaves the next probe where it is.
SignalledLater(s) == [s EXCEPT !.fast = Window]
\* Mutant: each signal makes the window longer.
SignalledLonger(s) == [s EXCEPT !.fast = @ + Window, !.next = 0]
\* signal.
Signalled(s) == [s EXCEPT !.fast = Window, !.next = 0]

\* Mutant: any monitor that answers ends the wait for the others.
WaitingUnlessAnswered(s, unreachable, answered) ==
    IF answered THEN FALSE ELSE unreachable \/ s.waiting
\* Mutant: an answer does not end the wait.
WaitingForGood(s, unreachable, answered) == unreachable \/ s.waiting
\* note_outcome: waiting_for_wake after a probe.
WaitingAfter(s, unreachable, answered) ==
    unreachable \/ (s.waiting /\ ~ answered)

\* note_outcome.
NoteOutcome(s, unreachable, answered, corrected) ==
    LET waiting == WaitingAfter(s, unreachable, answered)
        woke == s.waiting /\ ~ waiting
        window == IF woke \/ corrected THEN Window ELSE s.fast
        t == [s EXCEPT !.waiting = waiting, !.fast = window]
    IN  [t EXCEPT !.next = ScheduleFrom(t)]

Init ==
    /\ steady \in BOOLEAN
    /\ sched = [next |-> IF steady THEN Steady ELSE None, fast |-> 0, waiting |-> FALSE]
    /\ delayed \in {None, FollowUp}
    /\ event = FALSE /\ input = FALSE /\ slept = FALSE
    /\ flood = FALSE /\ drained = 0 /\ blind = FALSE
    /\ asleep = {} /\ wrong \in SUBSET Monitor
    /\ heard = TRUE /\ unnoticed = 0 /\ quiet = Window

-----------------------------------------------------------------------------
(* The loop.                                                               *)

Awake == Monitor \ asleep

\* A forced tick writes every monitor that answers, or begins a fade; some
\* writes may fail.
ForcedTick ==
    /\ \E failed \in SUBSET (wrong \ asleep) : wrong' = (wrong \cap asleep) \cup failed
    /\ blind' \in BOOLEAN
    /\ unnoticed' = IF Observed \in asleep /\ ~ blind' THEN unnoticed ELSE 0

\* drain_ready_connections accepts another request.
Accept ==
    /\ drained < DrainMax
    /\ drained' = drained + 1
    /\ UNCHANGED <<steady, delayed, event, input, flood, asleep, heard>>

\* A request that is no tick attempt; Suspend is one of them.
OtherRequest ==
    /\ Accept
    /\ blind' \in BOOLEAN
    /\ unnoticed' = IF blind' THEN 0 ELSE unnoticed
    /\ UNCHANGED <<sched, slept, wrong, quiet>>

\* A request answered with a forced tick; the loop notes the attempt, and with
\* it the clock.
TickRequest ==
    /\ Accept /\ ForcedTick
    /\ slept' = FALSE
    /\ UNCHANGED <<sched, quiet>>

\* Mutant: no signal, the next tick will do.
LeftToTheTick == UNCHANGED sched
\* request_wake_reassert(WaylandIdleResume).
RequestWakeReassert == sched' = Signalled(sched)
\* IdleWake: the targets are those of an active user again, and nothing is
\* written; the loop notes a tick attempt all the same.
IdleWake ==
    /\ Accept /\ RequestWakeReassert
    /\ quiet' = 0
    /\ wrong' \in {wrong, Monitor}
    /\ slept' = FALSE
    /\ UNCHANGED <<blind, unnoticed>>

\* execute_resync_tick, followed by another round of the loop.
Resync(s) ==
    /\ ForcedTick
    /\ slept' = FALSE
    /\ sched' = s
    /\ UNCHANGED <<heard, input>>

\* IdleSyncAction::DelayedSync and DriftRecovery.
DelayedSync(s) == Resync(s) /\ delayed' = None
DriftRecovery(s) == Resync(Signalled(s)) /\ delayed' = FollowUp

\* run_wake_probe: monitors that answer are read, and those that differ are
\* written, which may fail.  A blind probe has nothing to say.
Probe(s) ==
    /\ IF blind
       THEN /\ sched' = NoteOutcome(s, FALSE, FALSE, FALSE)
            /\ UNCHANGED <<wrong, heard, unnoticed>>
       ELSE \E failed \in SUBSET (wrong \ asleep) :
              LET corrected == wrong \ (asleep \cup failed)
              IN  /\ sched' = NoteOutcome(s, asleep # {}, Awake # {}, corrected # {})
                  /\ wrong' = wrong \ corrected
                  /\ heard' = (Observed \in Awake)
                  /\ unnoticed' = 0
    /\ UNCHANGED <<delayed, slept, blind>>

\* A scheduled tick, which writes what it believes to differ, a fade step,
\* which may be the last, or neither.
Rest(s) ==
    /\ sched' = s
    /\ \E written \in SUBSET (wrong \ asleep) : wrong' = wrong \ written
    /\ slept' = FALSE
    /\ blind' \in BOOLEAN
    /\ unnoticed' = IF blind' \/ Observed \notin wrong' \cup asleep THEN 0 ELSE unnoticed
    /\ UNCHANGED <<delayed, heard>>

\* Mutant: connections are accepted for as long as there are any.
DrainEndsWhenEmpty == ~ flood
\* A drain ends when no connection is waiting, or at its bound.
DrainEnds == ~ flood \/ drained = DrainMax

\* What the daemon has learned in this round, apart from corrections.
Told(resumed) == event \/ resumed

\* A round of run_loop after the drain.
Round ==
    /\ DrainEnds
    /\ drained' = 0 /\ event' = FALSE
    /\ LET s == IF event THEN Signalled(sched) ELSE sched
           t == IF input THEN Signalled(s) ELSE s
       IN  \/ /\ delayed = 0
              /\ DelayedSync(s)
              /\ quiet' = IF event THEN 0 ELSE quiet
           \/ /\ delayed # 0 /\ slept
              /\ DriftRecovery(s)
              /\ quiet' = 0
           \/ /\ delayed # 0 /\ ~ slept /\ t.next = 0
              /\ Probe(t)
              /\ input' = FALSE
              /\ quiet' = IF Told(input) \/ (~ heard /\ heard') \/ wrong' # wrong THEN 0 ELSE quiet
           \/ /\ delayed # 0 /\ ~ slept /\ t.next # 0
              /\ Rest(t)
              /\ input' = FALSE
              /\ quiet' = IF Told(input) THEN 0 ELSE quiet
    /\ UNCHANGED <<steady, flood, asleep>>

-----------------------------------------------------------------------------
(* The world.                                                              *)

daemon == <<steady, sched, delayed, slept, drained, blind>>

\* A DRM or logind listener, or the Wayland watcher, has something to tell.
Hint ==
    /\ event' \in {event, TRUE} /\ input' \in {input, TRUE}
    /\ UNCHANGED <<daemon, flood, screen, history>>

\* Clients begin or cease to hold the listener busy.
Clients ==
    /\ flood' = ~ flood
    /\ UNCHANGED <<daemon, event, input, screen, history>>

\* A monitor goes to sleep; one that wakes may come back at any level, and so
\* may one that is written by another program or by its own buttons.
MonitorChanges ==
    /\ \E m \in Monitor :
         /\ \/ asleep' = asleep \cup {m} /\ UNCHANGED wrong
            \/ m \in asleep /\ asleep' = asleep \ {m} /\ wrong' \in {wrong, wrong \cup {m}}
            \/ m \notin asleep /\ wrong' = wrong \cup {m} /\ UNCHANGED asleep
         /\ unnoticed' = IF m = Observed /\ asleep' # asleep THEN 0 ELSE unnoticed
    /\ UNCHANGED <<daemon, event, input, flood, heard, quiet>>

Nothing == ~ event /\ ~ input /\ ~ slept /\ delayed # 0 /\ sched.next # 0

Later(t) == IF t \in {None, 0} THEN t ELSE t - 1

TimePasses ==
    /\ Nothing
    /\ sched' = [sched EXCEPT !.next = Later(@), !.fast = Later(@)]
    /\ delayed' = Later(delayed)
    /\ quiet' = Minimum(quiet + 1, Window)
    /\ unnoticed' = IF ~ blind /\ (IF Observed \in asleep THEN heard ELSE Observed \in wrong)
                    THEN Minimum(unnoticed + 1, Steady + 1) ELSE 0
    /\ UNCHANGED <<steady, event, input, slept, flood, drained, blind, screen, heard>>

\* The machine sleeps for longer than SUSPEND_DRIFT_THRESHOLD_SECONDS; the
\* monotonic clock stands still.  The loop will see it in its next round.
MachineSleeps ==
    /\ Nothing
    /\ slept' = TRUE
    /\ UNCHANGED <<steady, sched, delayed, event, input, flood, drained, blind, screen, history>>

Daemon == OtherRequest \/ TickRequest \/ IdleWake \/ Round
World == Hint \/ Clients \/ MonitorChanges \/ TimePasses \/ MachineSleeps

Next == Daemon \/ World

\* The daemon's thread runs; and time passes, for only finitely many things
\* happen at a time.
Fairness == WF_vars(Daemon) /\ SF_vars(TimePasses)

Spec == Init /\ [][Next]_vars /\ Fairness

-----------------------------------------------------------------------------
(* Properties.                                                             *)

\* docs/RELIABILITY.md, "Linux Lifecycle Recovery": every monitor is read each
\* probe_seconds; one that did not answer the last probe, or was written, woke
\* or was hinted at within the last window, each fast interval.  So a wrong
\* level, and a monitor that falls asleep, are seen that soon, whatever the
\* other monitors and the clients do.  A correction or a hint is never late.
SeenInTime ==
    /\ steady => unnoticed <= Steady
    /\ ~ heard => unnoticed <= Fast
    /\ quiet < Window => unnoticed <= Fast \/ quiet = 0

\* The loop goes on: a wrong level is seen in the end, also while clients never
\* leave the listener alone.
DriftIsSeen == steady /\ unnoticed > 0 ~> unnoticed = 0

\* Probes slow down again once the monitors answer, show their targets and are
\* no longer written: nothing the daemon does itself keeps the window open.
Calm == asleep = {} /\ wrong = {} /\ ~ blind
SettlesDown ==
    <>[]Calm /\ <>[][~ IdleWake /\ ~ Hint /\ ~ MachineSleeps]_vars
        => <>[](sched.fast = 0 /\ ~ sched.waiting)
=============================================================================
