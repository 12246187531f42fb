---------------------------- MODULE WeatherEngine ----------------------------
(***************************************************************************)
(* The weather service (weather/engine.rs) and its use by the daemon       *)
(* (runtime/weather_refresh.rs, runtime/ipc.rs).  A worker thread fetches  *)
(* the weather, publishes it in a shared status and waits for its timer or *)
(* a command.  The daemon reads the status at every tick and asks for a    *)
(* refresh through a channel of capacity one; a reload that changes the    *)
(* weather configuration or the location replaces worker and status        *)
(* without waiting for the old worker to finish its request.               *)
(*                                                                         *)
(* A snapshot is the set of places whose cloud cover is blended in it, and *)
(* whether it is still fresh; of RuntimeState.weather, which every tick    *)
(* saves, only the places remain.  The unit of time is a minute.           *)
(* A worker that was replaced owns a status nobody reads: of such a worker *)
(* only the control remains, and at most one is alive at a time, the only  *)
(* bound on the number of reloads.                                         *)
(***************************************************************************)
EXTENDS BrightnessMath, FiniteSets

CONSTANTS
    Place,          \* the locations that may be configured
    Configuration,  \* what may be configured: [enabled, key, place]
    Refresh,        \* refresh_interval, in minutes
    RetryMax,       \* WEATHER_FAILURE_RETRY_MAX_SECONDS, in minutes
    MaxFailures     \* consecutive_failures saturates here, 2^32 - 1 in the code

ASSUME WeatherBounds ==
    /\ {Refresh, RetryMax, MaxFailures} \subseteq Nat \ {0}
    /\ None \notin Place

Snapshot == [places : (SUBSET Place) \ {{}}, fresh : BOOLEAN]
ServiceState == {"disabled", "no_key", "loading", "ready", "stale", "failed"}
Worker == [pc : {"start", "fetch", "wait"}, config : Configuration,
           queue : {None, "refresh", "shutdown"}]

ASSUME ConfigurationAssumption ==
    Configuration \subseteq [enabled : BOOLEAN, key : BOOLEAN, place : Place]
ASSUME WeatherOptions == None \notin Snapshot \cup Worker \cup {"refresh", "shutdown"}

VARIABLES
    config,     \* the daemon's weather configuration and location
    memory,     \* the places of RuntimeState.weather, or None
    daemon,     \* "idle", or where a request has got to
    status,     \* WeatherServiceStatus: its state and snapshot
    worker,     \* the engine's worker with its channel, or None
    old,        \* the worker it replaced, while it is alive, or None
    nextIn,     \* of the engine's worker: time to next_refresh_at, or None
    timer,      \* what is left of recv_timeout's wait
    failures,   \* consecutive_failures
    blend,      \* the places of the cached snapshot a fetch will be merged with
    late,       \* the machine slept while the engine's worker fetched
    moved,      \* history: the daemon was started at another place than the
                \* weather in its state file is of
    asked       \* history: an acknowledged refresh is still to be attempted

timing == <<nextIn, timer, failures, blend, late>>
vars == <<config, memory, daemon, status, worker, old, nextIn, timer, failures,
          blend, late, moved, asked>>

TypeOK ==
    /\ config \in Configuration
    /\ memory \in ((SUBSET Place) \ {{}}) \cup {None}
    /\ daemon \in {"idle", "forced_tick", "acked", "acked_tick"}
    /\ status \in [state : ServiceState, snapshot : Snapshot \cup {None}]
    /\ worker \in Worker \cup {None} /\ old \in Worker \cup {None}
    /\ nextIn \in 0 .. Refresh \cup {None}
    /\ timer \in 0 .. Refresh
    /\ failures \in 0 .. MaxFailures
    /\ blend \in SUBSET Place
    /\ {late, moved, asked} \subseteq BOOLEAN

-----------------------------------------------------------------------------
(* The engine.                                                             *)

\* start_thread, which a disabled configuration leaves without a worker.
Started(c) ==
    IF c.enabled THEN [pc |-> "start", config |-> c, queue |-> None] ELSE None

\* The status an engine starts with; the worker has its own counters.
StartStatus(c, loaded, kept) ==
    /\ status' = IF c.enabled THEN [state |-> "loading", snapshot |-> loaded]
                 ELSE [state |-> "disabled", snapshot |-> kept]
    /\ nextIn' = None /\ timer' = 0 /\ failures' = 0 /\ blend' = {} /\ late' = FALSE

\* stop_thread: a Shutdown that finds the channel full is lost, but dropping
\* the sender disconnects the channel all the same.
Stopped ==
    IF worker = None THEN None
    ELSE [worker EXCEPT !.queue = IF @ = None THEN "shutdown" ELSE @]

\* Mutant: the snapshot survives a change of location.
KeptAlways(c, readable) == IF readable THEN status.snapshot ELSE None
\* sync_config keeps the snapshot it can read without waiting, unless it is of
\* another location.
KeptSnapshot(c, readable) ==
    IF readable /\ c.place = config.place THEN status.snapshot ELSE None

\* sync_config.
SyncConfig(c, readable) ==
    IF c # config
    THEN /\ worker # None => old = None
         /\ old' = IF worker = None THEN old ELSE Stopped
         /\ worker' = Started(c)
         /\ StartStatus(c, KeptSnapshot(c, readable), None)
         /\ asked' = FALSE
    ELSE UNCHANGED <<status, worker, old, timing, asked>>

-----------------------------------------------------------------------------
(* The daemon.                                                             *)

\* The daemon stops or crashes and is started again some time later: bootstrap,
\* with the weather of the state file and whatever is configured by then.
Restart ==
    /\ \E c \in Configuration, fresh \in BOOLEAN :
         LET saved == IF memory = None THEN None ELSE [places |-> memory, fresh |-> fresh]
         IN  /\ config' = c
             /\ worker' = Started(c) /\ old' = None
             /\ StartStatus(c, saved, saved)
             /\ moved' = (memory # None /\ ~ memory \subseteq {c.place})
    /\ daemon' = "idle" /\ asked' = FALSE
    /\ UNCHANGED memory

Init ==
    /\ config \in Configuration /\ memory = None /\ daemon = "idle"
    /\ status = [state |-> IF config.enabled THEN "loading" ELSE "disabled", snapshot |-> None]
    /\ worker = Started(config) /\ old = None
    /\ nextIn = None /\ timer = 0 /\ failures = 0 /\ blend = {} /\ late = FALSE
    /\ moved = FALSE /\ asked = FALSE

\* refresh_weather_modifier takes the status's snapshot over, if it can read one.
ReadWeather(readable) ==
    memory' = IF config.enabled /\ readable /\ status.snapshot # None
              THEN status.snapshot.places ELSE memory

\* request_refresh succeeds when there is a worker and its channel has room.
HasRoom == worker # None /\ worker.queue = None
SendRefresh ==
    /\ HasRoom
    /\ worker' = [worker EXCEPT !.queue = "refresh"]
    /\ asked' = TRUE

\* RefreshWeather, refused when weather is disabled or the channel is full.
RefreshWeather ==
    /\ daemon = "idle" /\ SendRefresh
    /\ daemon' = "acked"
    /\ UNCHANGED <<config, memory, old, status, timing, moved>>

Tick ==
    /\ daemon = "idle"
    /\ \E readable \in BOOLEAN : ReadWeather(readable)
    /\ UNCHANGED <<config, daemon, worker, old, status, timing, moved, asked>>

\* A forced tick asks for a refresh first.
ForcedTick ==
    /\ daemon \in {"idle", "forced_tick"}
    /\ \/ SendRefresh /\ daemon' = "acked_tick" /\ UNCHANGED memory
       \/ /\ ~ HasRoom
          /\ \E readable \in BOOLEAN : ReadWeather(readable)
          /\ daemon' = "idle"
          /\ UNCHANGED <<worker, asked>>
    /\ UNCHANGED <<config, old, status, timing, moved>>

\* The rest of request_refresh, set_loading, and of the tick that called it.
\* The worker may have answered in between.
SetLoading ==
    /\ daemon \in {"acked", "acked_tick"}
    /\ status' = [status EXCEPT !.state = "loading"]
    /\ \/ daemon = "acked_tick" /\ \E readable \in BOOLEAN : ReadWeather(readable)
       \/ daemon = "acked" /\ UNCHANGED memory
    /\ daemon' = "idle"
    /\ UNCHANGED <<config, worker, old, timing, moved, asked>>

\* apply_reloaded_runtime_config: the weather of another location is dropped
\* and the state saved; when that fails everything is put back.  Otherwise the
\* engine follows, and a forced tick.
Reload ==
    /\ daemon = "idle"
    /\ \E c \in Configuration, readable, saved \in BOOLEAN :
         LET drops == c.place # config.place /\ memory # None
         IN  IF drops /\ ~ saved
             THEN UNCHANGED vars
             ELSE /\ config' = c
                  /\ memory' = IF drops THEN None ELSE memory
                  /\ moved' = (moved /\ c.place = config.place)
                  /\ daemon' = "forced_tick"
                  /\ SyncConfig(c, readable)

-----------------------------------------------------------------------------
(* The worker thread.                                                      *)

\* Mutant: the delay is not capped.
NextRefreshDelayUncapped(outcome, count) ==
    IF outcome = "transient" THEN 2 ^ (count - 1) + 1 ELSE Refresh
\* next_refresh_delay: a transient failure is retried after 1, 2, 4 ... minutes,
\* by the computation of backoff_delay.
NextRefreshDelay(outcome, count) ==
    IF outcome = "transient" THEN Least(BackoffDelay(count, 1, RetryMax), Refresh) ELSE Refresh

\* Mutant: the state is that of the snapshot, whatever the error.
StateOfSnapshot(outcome, snapshot) ==
    CASE snapshot = None -> "loading"
      [] snapshot # None /\ snapshot.fresh -> "ready"
      [] OTHER -> "stale"

\* status_after_resolution; WeatherState::from_error tells the errors apart.
StateAfter(outcome, snapshot) ==
    CASE outcome # "ok" -> "failed"
      [] snapshot = None -> "loading"
      [] snapshot # None /\ snapshot.fresh -> "ready"
      [] OTHER -> "stale"

\* The time recv_timeout waits: IDLE_RECHECK when no refresh is planned.
WaitFor(next) == IF next = None THEN 1 ELSE next

\* The end of an iteration: publish, then wait.
PublishStatus(state, snapshot, next, count) ==
    /\ status' = [state |-> state, snapshot |-> snapshot]
    /\ failures' = count
    /\ timer' = WaitFor(next)
    /\ nextIn' = IF late /\ next # None THEN 0 ELSE next
    /\ blend' = {} /\ late' = FALSE

CountFailure == Least(failures + 1, MaxFailures)

\* An iteration up to the request to the provider: without a key, or before the
\* refresh is due, there is none and the iteration ends at once.
Attempt(forced, queue) ==
    LET due == forced \/ nextIn \in {None, 0}
        at(pc) == [worker EXCEPT !.pc = pc, !.queue = queue]
    IN  \/ /\ ~ config.key
           /\ worker' = at("wait")
           /\ PublishStatus("no_key", status.snapshot, None, CountFailure)
        \/ /\ config.key /\ due
           /\ worker' = at("fetch")
           /\ status' = [status EXCEPT !.state = IF forced THEN "loading" ELSE @]
           /\ blend' = IF status.snapshot # None /\ status.snapshot.fresh
                       THEN status.snapshot.places ELSE {}
           /\ UNCHANGED <<nextIn, timer, failures, late>>
        \/ /\ config.key /\ ~ due
           /\ worker' = at("wait")
           /\ PublishStatus(StateAfter("ok", status.snapshot), status.snapshot, nextIn, failures)

daemonSide == <<config, memory, daemon, old, moved>>

\* The first iteration of a worker is forced.
Begin ==
    /\ worker # None /\ worker.pc = "start"
    /\ Attempt(TRUE, worker.queue)
    /\ UNCHANGED <<daemonSide, asked>>

\* The provider answers or the request fails.  A snapshot is merged with the
\* cached one, and dated at the start of the iteration.
Fetched(place, outcome) ==
    LET count == IF outcome = "ok" THEN 0 ELSE CountFailure
        merged == [places |-> blend \cup {place}, fresh |-> TRUE]
        snapshot == IF outcome = "ok" THEN merged ELSE status.snapshot
    IN  PublishStatus(StateAfter(outcome, snapshot),
                      IF outcome = "ok" /\ late THEN [merged EXCEPT !.fresh = FALSE] ELSE snapshot,
                      NextRefreshDelay(outcome, count), count)

FetchEnds ==
    /\ worker # None /\ worker.pc = "fetch"
    /\ worker' = [worker EXCEPT !.pc = "wait"]
    /\ \E outcome \in {"ok", "transient", "permanent"} : Fetched(worker.config.place, outcome)
    /\ UNCHANGED <<daemonSide, asked>>

\* Mutant: a refresh command wakes the worker without forcing a request.
ForcedByTimerOnly(command) == FALSE
Forced(command) == command = "refresh"

\* recv_timeout returns a command, or times out.
Receive ==
    /\ worker # None /\ worker.pc = "wait" /\ worker.queue = "refresh"
    /\ Attempt(Forced(worker.queue), None)
    /\ asked' = (asked /\ ~ Forced("refresh"))
    /\ UNCHANGED daemonSide

Timeout ==
    /\ worker # None /\ worker.pc = "wait" /\ worker.queue = None /\ timer = 0
    /\ Attempt(FALSE, None)
    /\ UNCHANGED <<daemonSide, asked>>

-----------------------------------------------------------------------------
(* The worker that was replaced.                                           *)

engineSide == <<config, memory, daemon, worker, moved, asked>>

\* Mutant: the replaced worker publishes in the status that is read.
PublishesInNewStatus(place) == \E outcome \in {"ok", "transient"} : Fetched(place, outcome)
\* It publishes in the status it owns, which the engine has replaced.
PublishesInOldStatus(place) == UNCHANGED <<status, timing>>

\* A first or forced iteration; without a key it has no request to wait for.
OldRequests ==
    /\ old # None
    /\ old.pc = "start" \/ (old.pc = "wait" /\ old.queue = "refresh")
    /\ old' = [old EXCEPT !.pc = IF old.config.key THEN "fetch" ELSE "wait",
                          !.queue = IF old.pc = "wait" THEN None ELSE @]
    /\ UNCHANGED <<engineSide, status, timing>>

OldFetchEnds ==
    /\ old # None /\ old.pc = "fetch"
    /\ old' = [old EXCEPT !.pc = "wait"]
    /\ PublishesInOldStatus(old.config.place)
    /\ UNCHANGED engineSide

\* Mutant: only Shutdown ends a worker, which is lost when the channel is full.
LeavesOnShutdown(queue) == queue = "shutdown"
\* recv_timeout returns Shutdown, or finds an empty channel disconnected.
LeavesOn(queue) == queue \in {"shutdown", None}

OldLeaves ==
    /\ old # None /\ old.pc = "wait" /\ LeavesOn(old.queue)
    /\ old' = None
    /\ UNCHANGED <<engineSide, status, timing>>

-----------------------------------------------------------------------------
(* Time.                                                                   *)

Aged(snapshot, fresh) ==
    IF snapshot = None THEN None ELSE [snapshot EXCEPT !.fresh = @ /\ fresh]

\* A minute passes; a snapshot older than twice the refresh interval is stale.
\* A request ends within its minute.
MinutePasses ==
    /\ worker # None => worker.pc = "wait" /\ timer > 0
    /\ timer' = IF timer = 0 THEN 0 ELSE timer - 1
    /\ nextIn' = IF nextIn \in {None, 0} THEN nextIn ELSE nextIn - 1
    /\ \E fresh \in BOOLEAN : status' = [status EXCEPT !.snapshot = Aged(@, fresh)]
    /\ UNCHANGED <<config, memory, daemon, worker, old, failures, blend, late, moved, asked>>

\* The machine sleeps: the clock moves on, the timer of recv_timeout does not.
Sleep ==
    /\ status' = [status EXCEPT !.snapshot = Aged(@, FALSE)]
    /\ nextIn' = IF nextIn = None THEN None ELSE 0
    /\ late' = (worker # None /\ worker.pc = "fetch")
    /\ UNCHANGED <<config, memory, daemon, worker, old, timer, failures, blend, moved, asked>>

-----------------------------------------------------------------------------
Daemon == Restart \/ RefreshWeather \/ Tick \/ ForcedTick \/ SetLoading \/ Reload
WorkerThread == Begin \/ FetchEnds \/ Receive \/ Timeout
OldThread == OldRequests \/ OldFetchEnds \/ OldLeaves

Next == Daemon \/ WorkerThread \/ OldThread \/ MinutePasses \/ Sleep

\* Threads run, requests end by their timeouts, and time passes.
Fairness == WF_vars(WorkerThread) /\ WF_vars(OldThread) /\ WF_vars(MinutePasses)

Spec == Init /\ [][Next]_vars /\ Fairness

-----------------------------------------------------------------------------
(* Properties.                                                             *)

Local(places) == places # None => places \subseteq {config.place}

\* The weather that dims the screens, and the weather it will be replaced by,
\* is that of the configured location: neither a replaced worker nor a cached
\* snapshot brings in another place, whatever is reloaded and when.  The daemon
\* must have been started where the weather of its state file is of.
WeatherIsLocal ==
    moved \/ ( /\ Local(memory) /\ Local(blend)
               /\ status.snapshot # None => Local(status.snapshot.places) )

\* engine.rs:68: an acknowledged refresh is attempted after it was asked for,
\* also when the worker was in the middle of a request, unless a reload or a
\* restart replaces the worker, which begins with a request of its own.
RefreshIsAttempted == asked ~> ~ asked

\* The service does not stay Loading: the outcome of a request is published,
\* and after set_loading has overwritten one, that of the next; a new worker
\* starts over.
Requesting == status.state = "loading" /\ worker # None /\ worker.pc # "start"
LoadingEnds == Requesting ~> ~ Requesting

\* A replaced worker ends, also when the channel was full and Shutdown lost: a
\* reload never leaks a thread.
WorkersRetire == old # None ~> old = None
=============================================================================
