-------------------------- MODULE CapabilityRefresh --------------------------
(***************************************************************************)
(* The handshake that gives a scheduled tick a fresh capability snapshot   *)
(* (runtime/capabilities.rs, and its use in runtime/loop.rs).  The control *)
(* loop starts at most one observation thread, waits for its result        *)
(* through a channel of capacity one, and runs the tick the cycle was      *)
(* begun for when the snapshot is published.  A display event that opens a *)
(* fast window raises the generation, so that an observation begun earlier *)
(* is discarded when it completes.                                         *)
(*                                                                         *)
(* The topology is a counter of the hotplugs so far, and a snapshot is the *)
(* topology it was taken of.  The loop's variables change only in its own  *)
(* steps; active, the channel and the thread's life are shared.            *)
(***************************************************************************)
EXTENDS Integers

CONSTANTS
    None,               \* the absent value of an Option
    Panicked,           \* what an observation that panicked has seen
    MaxTopology,        \* bound on the hotplugs
    MaxPanics,          \* bound on the observations that panic
    Generations,        \* 2^64 in the code: the counter's range
    ThreadExitsPromptly \* the thread has exited before the next cycle begins

Topology == 0 .. MaxTopology
Generation == 0 .. Generations - 1

ASSUME NoneAssumption == None \notin Int /\ Panicked \notin Int /\ None # Panicked
ASSUME BoundAssumption == {MaxTopology, MaxPanics} \subseteq Nat
ASSUME GenerationsAssumption == Generations \in Nat /\ Generations > MaxTopology + 2
ASSUME PromptAssumption == ThreadExitsPromptly \in BOOLEAN

VARIABLES
    topology,       \* the displays that are there
    event,          \* a display event waits to be drained
    fast,           \* the probe schedule's fast window is open
    generation,     \* CapabilityRefreshState.generation
    active,         \* CapabilityRefreshState.active
    pending,        \* CapabilityRefreshState.pending
    handle,         \* the observation thread, or None
    channel,        \* the result that waits in the channel, or None
    caps,           \* last_capabilities
    tickDue,        \* the tick interval has elapsed since the last attempt
    loop,           \* "idle", or "begin" inside begin_with_runner
    panics,         \* observations that have panicked
    invalidatedAt,  \* the topology when invalidate() was last called
    cycleStart      \* the topology when the pending cycle was begun

events == <<topology, event, panics>>
history == <<invalidatedAt, cycleStart>>
vars == <<topology, event, fast, generation, active, pending, handle, channel,
          caps, tickDue, loop, panics, invalidatedAt, cycleStart>>

\* A thread observes, sends, drops its guard and exits.
Thread == [pc : {"observe", "send", "guard", "exit", "finished"},
           gen : Generation, saw : Topology \cup {Panicked, None}]
Result == [gen : Generation, saw : Topology \cup {Panicked}]

ASSUME OptionAssumption == None \notin Thread /\ None \notin Result

TypeOK ==
    /\ topology \in Topology
    /\ {event, fast, active, pending, tickDue} \subseteq BOOLEAN
    /\ generation \in Generation
    /\ handle \in Thread \cup {None}
    /\ channel \in Result \cup {None}
    /\ caps \in Topology \cup {None}
    /\ loop \in {"idle", "begin"}
    /\ panics \in 0 .. MaxPanics
    /\ invalidatedAt \in Topology
    /\ cycleStart \in Topology

Init ==
    /\ topology = 0 /\ event = FALSE /\ fast = FALSE
    /\ generation = 0 /\ active = FALSE /\ pending = FALSE
    /\ handle = None /\ channel = None /\ caps = None
    /\ tickDue = TRUE /\ loop = "idle" /\ panics = 0
    /\ invalidatedAt = 0 /\ cycleStart = 0

-----------------------------------------------------------------------------
(* The control loop.                                                       *)

Bumped(g) == (g + 1) % Generations

HasFinished == handle # None => handle.pc = "finished"

\* Mutant: a cycle may begin while another is pending.
MayBeginAgain == loop = "idle" /\ tickDue
\* Mutant: once there is a snapshot no other is asked for.
MayBeginOnce == loop = "idle" /\ tickDue /\ ~ pending /\ caps = None
\* RunTick, reached only when no cycle is pending.
MayBegin == loop = "idle" /\ tickDue /\ ~ pending

\* RunTick with no cycle pending: set_pending, then the first check of
\* begin_with_runner, which gives up while a thread is active.
BeginChecksActive ==
    /\ MayBegin
    /\ ThreadExitsPromptly => HasFinished
    /\ pending' = TRUE
    /\ cycleStart' = topology
    /\ loop' = IF active THEN "idle" ELSE "begin"
    /\ UNCHANGED <<fast, generation, active, handle, channel, caps, tickDue, invalidatedAt, events>>

\* The rest of begin_with_runner: a new generation and, unless the old thread
\* has yet to exit, a new thread.
BeginSpawns ==
    /\ loop = "begin"
    /\ loop' = "idle"
    /\ generation' = Bumped(generation)
    /\ IF HasFinished
       THEN /\ active' = TRUE
            /\ handle' = [pc |-> "observe", gen |-> generation', saw |-> None]
       ELSE UNCHANGED <<active, handle>>
    /\ UNCHANGED <<fast, pending, channel, caps, tickDue, events, history>>

\* Mutant: a panicked observation is published like any other.
PublishableUnchecked(result) == result.gen = generation
\* Mutant: a result is published whatever its generation.
PublishableAnyway(result) == result.saw # Panicked

\* publish_completed: a result is Published, Discarded or Failed.
Publishable(result) == result.saw # Panicked /\ result.gen = generation

\* Mutant: the tick runs even when the snapshot was discarded.
RunsTickAnyway(result) == pending
RunsTick(result) == pending /\ Publishable(result)

\* Mutant: a cycle whose snapshot was discarded stays pending.
PendingUntilPublished(result) == pending /\ ~ Publishable(result)
PendingAfter(result) == FALSE

\* The loop takes the result, and runs the scheduled tick it was waiting for.
Publish ==
    /\ loop = "idle" /\ channel # None
    /\ channel' = None
    /\ pending' = PendingAfter(channel)
    /\ caps' = IF Publishable(channel) THEN channel.saw ELSE caps
    /\ tickDue' = IF RunsTick(channel) THEN FALSE ELSE tickDue
    /\ UNCHANGED <<fast, generation, active, handle, loop, events, history>>

\* handle_display_event: open or extend the fast window; only opening it
\* invalidates the observation under way.
HandleDisplayEvent ==
    /\ loop = "idle" /\ event
    /\ event' = FALSE
    /\ fast' = TRUE
    /\ IF fast
       THEN UNCHANGED <<generation, invalidatedAt>>
       ELSE generation' = Bumped(generation) /\ invalidatedAt' = topology
    /\ UNCHANGED <<topology, panics, active, pending, handle, channel, caps, tickDue, loop, cycleStart>>

\* An idle resume, a monitor that answers again or a correction opens the fast
\* window as well, and time closes it.
FastWindowMoves ==
    /\ loop = "idle"
    /\ fast' = ~ fast
    /\ UNCHANGED <<generation, active, pending, handle, channel, caps, tickDue, loop, events, history>>

TickFallsDue ==
    /\ ~ tickDue
    /\ tickDue' = TRUE
    /\ UNCHANGED <<fast, generation, active, pending, handle, channel, caps, loop, events, history>>

-----------------------------------------------------------------------------
(* The observation thread.                                                 *)

At(pc) == handle # None /\ handle.pc = pc

Observe ==
    /\ At("observe")
    /\ handle' = [handle EXCEPT !.pc = "send", !.saw = topology]
    /\ UNCHANGED <<fast, generation, active, pending, channel, caps, tickDue, loop, events, history>>

Panic ==
    /\ At("observe") /\ panics < MaxPanics
    /\ panics' = panics + 1
    /\ handle' = [handle EXCEPT !.pc = "send", !.saw = Panicked]
    /\ UNCHANGED <<topology, event, fast, generation, active, pending, channel, caps, tickDue, loop, history>>

\* try_send: a result that finds the channel full is dropped.
Send ==
    /\ At("send")
    /\ channel' = IF channel = None THEN [gen |-> handle.gen, saw |-> handle.saw] ELSE channel
    /\ handle' = [handle EXCEPT !.pc = "guard"]
    /\ UNCHANGED <<fast, generation, active, pending, caps, tickDue, loop, events, history>>

DropGuard ==
    /\ At("guard")
    /\ active' = FALSE
    /\ handle' = [handle EXCEPT !.pc = "exit"]
    /\ UNCHANGED <<fast, generation, pending, channel, caps, tickDue, loop, events, history>>

Exit ==
    /\ At("exit")
    /\ handle' = [handle EXCEPT !.pc = "finished"]
    /\ UNCHANGED <<fast, generation, active, pending, channel, caps, tickDue, loop, events, history>>

\* A display is plugged in or out.  The event may be missed: the listener is
\* optional and may have failed.
Hotplug ==
    /\ topology < MaxTopology
    /\ topology' = topology + 1
    /\ event' \in {event, TRUE}
    /\ UNCHANGED <<panics, fast, generation, active, pending, handle, channel, caps, tickDue, loop, history>>

-----------------------------------------------------------------------------
ObservationThread == Observe \/ Panic \/ Send \/ DropGuard \/ Exit
ControlLoop == BeginChecksActive \/ BeginSpawns \/ Publish \/ HandleDisplayEvent

Next ==
    \/ ControlLoop \/ ObservationThread
    \/ FastWindowMoves \/ TickFallsDue \/ Hotplug

\* The loop and the thread keep running and time passes.
Fairness ==
    /\ WF_vars(ControlLoop) /\ WF_vars(ObservationThread) /\ WF_vars(TickFallsDue)

Spec == Init /\ [][Next]_vars /\ Fairness

-----------------------------------------------------------------------------
(* Properties.                                                             *)

\* No snapshot is published that was begun before an invalidation: what a tick
\* relies on is at least as new as the display event that opened the window.
PublishedAfterInvalidation ==
    [][caps' # caps => caps' >= invalidatedAt]_vars

\* The scheduled tick of a cycle uses a snapshot taken after the cycle began,
\* never the one of an earlier cycle.
TickUsesItsOwnSnapshot ==
    [][tickDue /\ ~ tickDue' => caps' # None /\ caps' >= cycleStart]_vars

\* The channel of capacity one never drops a result, which would leave the
\* cycle that waits for it pending.
NoResultIsDropped == At("send") => channel = None

\* A result always finds a pending cycle, and a pending cycle an observation
\* that will answer it.
Answering == At("observe") \/ At("send") \/ channel # None
PendingIsAnswered == loop = "idle" => (pending <=> Answering)

\* Whatever events are missed, the snapshot catches up with the topology.
SnapshotCatchesUp == <>[](caps = topology)

\* docs/phase10-owner-brief.md: after a failed observation a later scheduled
\* cycle can retry, so every tick that falls due is run.
DueTickRuns == tickDue ~> ~ tickDue
=============================================================================
