------------------------ MODULE WeatherEngine_proofs ------------------------
(***************************************************************************)
(* The weather that dims the screens is that of the configured location,   *)
(* for any locations, configurations, intervals and any number of reloads, *)
(* restarts, refreshes and failures.                                       *)
(*                                                                         *)
(* A snapshot is merged from what is cached and what the worker fetches,   *)
(* so the invariant follows both: the worker whose answers are published   *)
(* fetches for the configured location, and what a fetch under way will be *)
(* merged with is of that location too.                                    *)
(***************************************************************************)
EXTENDS WeatherEngine, BrightnessMath_proofs

Places == (SUBSET Place) \ {{}}
Queue == {None, "refresh", "shutdown"}

\* What a tick uses and what it will be replaced by is of place.
Here(mem, cached, snapshot, place) ==
    /\ mem # None => mem \subseteq {place}
    /\ cached \subseteq {place}
    /\ snapshot # None => snapshot.places \subseteq {place}

Inv ==
    /\ TypeOK
    /\ worker # None => worker.config = config
    /\ moved \/ Here(memory, blend, status.snapshot, config.place)

-----------------------------------------------------------------------------
(* The operators.                                                          *)

LEMMA Bounds ==
    /\ Refresh \in Nat /\ Refresh > 0 /\ RetryMax \in Nat /\ RetryMax > 0
    /\ MaxFailures \in Nat /\ MaxFailures > 0
BY WeatherBounds

LEMMA ConfigurationFields ==
    ASSUME NEW c \in Configuration
    PROVE  c.enabled \in BOOLEAN /\ c.key \in BOOLEAN /\ c.place \in Place
BY ConfigurationAssumption

LEMMA StartedTyped ==
    ASSUME NEW c \in Configuration
    PROVE  /\ Started(c) \in Worker \cup {None}
           /\ Started(c) # None => Started(c).config = c
BY DEF Started, Worker

\* A worker at another point, or with another command, is of the same place.
LEMMA WorkerChanged ==
    ASSUME NEW w \in Worker, NEW pc \in {"start", "fetch", "wait"}, NEW queue \in Queue
    PROVE  /\ [w EXCEPT !.pc = pc, !.queue = queue] \in Worker
           /\ [w EXCEPT !.pc = pc, !.queue = queue].config = w.config
           /\ [w EXCEPT !.pc = pc] \in Worker
           /\ [w EXCEPT !.pc = pc].config = w.config
           /\ [w EXCEPT !.queue = queue] \in Worker
           /\ [w EXCEPT !.queue = queue].config = w.config
BY DEF Worker, Queue

LEMMA StoppedTyped ==
    ASSUME worker \in Worker \cup {None}
    PROVE  Stopped \in Worker \cup {None}
<1>1. CASE worker = None
  BY <1>1 DEF Stopped
<1>2. CASE worker # None
  <2> DEFINE queue == IF worker.queue = None THEN "shutdown" ELSE worker.queue
  <2>1. Stopped = [worker EXCEPT !.queue = queue]
    BY <1>2 DEF Stopped
  <2>2. worker \in Worker /\ queue \in Queue
    BY <1>2 DEF Worker, Queue
  <2> HIDE DEF queue
  <2> QED BY <2>1, <2>2, WorkerChanged
<1> QED BY <1>1, <1>2

\* A retry comes no later than a refresh, whatever has failed and how often.
LEMMA NextRefreshDelayInRange ==
    ASSUME NEW outcome, NEW count \in Nat
    PROVE  NextRefreshDelay(outcome, count) \in 0 .. Refresh
<1>1. BackoffDelay(count, 1, RetryMax) \in 0 .. RetryMax
  BY Bounds, BackoffDelayInRange
<1> QED BY <1>1, Bounds DEF NextRefreshDelay, Least

LEMMA CountFailureInRange ==
    ASSUME failures \in 0 .. MaxFailures
    PROVE  CountFailure \in 0 .. MaxFailures
BY Bounds DEF CountFailure, Least

LEMMA StateAfterTyped ==
    ASSUME NEW outcome, NEW snapshot
    PROVE  StateAfter(outcome, snapshot) \in ServiceState
BY DEF StateAfter, ServiceState

LEMMA AgedTyped ==
    ASSUME NEW s \in Snapshot \cup {None}, NEW fresh \in BOOLEAN
    PROVE  /\ Aged(s, fresh) \in Snapshot \cup {None}
           /\ \A place : (s # None => s.places \subseteq {place})
                => (Aged(s, fresh) # None => Aged(s, fresh).places \subseteq {place})
<1>1. CASE s = None
  BY <1>1 DEF Aged
<1>2. CASE s # None
  <2> DEFINE f == s.fresh /\ fresh
  <2>1. Aged(s, fresh) = [s EXCEPT !.fresh = f]
    BY <1>2 DEF Aged
  <2>2. f \in BOOLEAN
    OBVIOUS
  <2> HIDE DEF f
  <2> QED BY <1>2, <2>1, <2>2 DEF Snapshot
<1> QED BY <1>1, <1>2

-----------------------------------------------------------------------------
(* The worker.                                                             *)

\* The variables that an iteration of the worker, published or not, leaves
\* typed and of place.
PublishedKeeps(place) ==
    /\ status \in [state : ServiceState, snapshot : Snapshot \cup {None}]
    /\ nextIn \in 0 .. Refresh \cup {None} /\ timer \in 0 .. Refresh
    /\ failures \in 0 .. MaxFailures /\ blend \in SUBSET Place /\ late \in BOOLEAN
    /\ moved \/ ( /\ blend \subseteq {place}
                  /\ status.snapshot # None => status.snapshot.places \subseteq {place} )

LEMMA PublishStatusKeeps ==
    ASSUME NEW place, NEW state \in ServiceState, NEW snapshot \in Snapshot \cup {None},
           NEW next \in 0 .. Refresh \cup {None}, NEW count \in 0 .. MaxFailures,
           moved \/ (snapshot # None => snapshot.places \subseteq {place}),
           PublishStatus(state, snapshot, next, count), moved' = moved
    PROVE  PublishedKeeps(place)'
<1>1. /\ status' = [state |-> state, snapshot |-> snapshot] /\ failures' = count
      /\ timer' = WaitFor(next) /\ nextIn' = IF late /\ next # None THEN 0 ELSE next
      /\ blend' = {} /\ late' = FALSE
  BY DEF PublishStatus
<1>2. timer' \in 0 .. Refresh /\ nextIn' \in 0 .. Refresh \cup {None}
  BY <1>1, Bounds DEF WaitFor
<1>3. /\ status' \in [state : ServiceState, snapshot : Snapshot \cup {None}]
      /\ status'.snapshot = snapshot
  BY <1>1
<1> QED BY <1>1, <1>2, <1>3 DEF PublishedKeeps

LEMMA WorkerStepInv ==
    ASSUME Inv, worker # None, NEW w \in Worker, w.config = worker.config, worker' = w,
           UNCHANGED <<config, memory, daemon, old, moved>>, asked' \in BOOLEAN,
           PublishedKeeps(config.place)'
    PROVE  Inv'
<1>1. TypeOK'
  BY DEF Inv, TypeOK, PublishedKeeps
<1>2. moved' \/ Here(memory', blend', status'.snapshot, config'.place)
  BY DEF Inv, Here, PublishedKeeps
<1> QED BY <1>1, <1>2 DEF Inv

LEMMA AttemptInv ==
    ASSUME Inv, worker # None, NEW forced \in BOOLEAN, NEW queue \in Queue,
           Attempt(forced, queue), UNCHANGED <<config, memory, daemon, old, moved>>,
           asked' \in BOOLEAN
    PROVE  Inv'
<1> DEFINE at(pc) == [worker EXCEPT !.pc = pc, !.queue = queue]
           due == forced \/ nextIn \in {None, 0}
           place == config.place
           snapshot == status.snapshot
<1>1. worker \in Worker /\ TypeOK
  BY DEF Inv, TypeOK
<1>2. /\ at("wait") \in Worker /\ at("wait").config = worker.config
      /\ at("fetch") \in Worker /\ at("fetch").config = worker.config
  <2>1. ASSUME NEW pc \in {"start", "fetch", "wait"}
        PROVE  at(pc) \in Worker /\ at(pc).config = worker.config
    BY <1>1 DEF Worker, Queue
  <2> HIDE DEF at
  <2> QED BY <2>1
<1>3. /\ snapshot \in Snapshot \cup {None}
      /\ nextIn \in 0 .. Refresh \cup {None} /\ failures \in 0 .. MaxFailures
      /\ moved \/ (snapshot # None => snapshot.places \subseteq {place})
  BY DEF Inv, TypeOK, Here
<1>4. CASE /\ ~ config.key /\ worker' = at("wait")
           /\ PublishStatus("no_key", status.snapshot, None, CountFailure)
  <2>1. "no_key" \in ServiceState /\ CountFailure \in 0 .. MaxFailures
    BY <1>3, CountFailureInRange DEF ServiceState
  <2>2. PublishedKeeps(place)'
    BY <1>3, <1>4, <2>1, PublishStatusKeeps
  <2> HIDE DEF at
  <2> QED BY <1>2, <1>4, <2>2, WorkerStepInv
<1>5. CASE /\ config.key /\ due /\ worker' = at("fetch")
           /\ status' = [status EXCEPT !.state = IF forced THEN "loading" ELSE @]
           /\ blend' = IF status.snapshot # None /\ status.snapshot.fresh
                       THEN status.snapshot.places ELSE {}
           /\ UNCHANGED <<nextIn, timer, failures, late>>
  <2>1. /\ status' \in [state : ServiceState, snapshot : Snapshot \cup {None}]
        /\ status'.snapshot = snapshot
    BY <1>1, <1>5 DEF TypeOK, ServiceState
  <2>2. blend' \in SUBSET Place
    BY <1>3, <1>5 DEF Snapshot
  <2>3. moved' \/ blend' \subseteq {place}
    BY <1>3, <1>5
  <2>4. PublishedKeeps(place)'
    BY <1>1, <1>3, <1>5, <2>1, <2>2, <2>3 DEF PublishedKeeps, TypeOK
  <2> HIDE DEF at
  <2> QED BY <1>2, <1>5, <2>4, WorkerStepInv
<1>6. CASE /\ config.key /\ ~ due /\ worker' = at("wait")
           /\ PublishStatus(StateAfter("ok", status.snapshot), status.snapshot, nextIn, failures)
  <2>1. PublishedKeeps(place)'
    BY <1>3, <1>6, StateAfterTyped, PublishStatusKeeps
  <2> HIDE DEF at
  <2> QED BY <1>2, <1>6, <2>1, WorkerStepInv
<1> QED BY <1>4, <1>5, <1>6 DEF Attempt

\* What is fetched is of the configured place, and so is what it is merged with.
LEMMA FetchEndsInv ==
    ASSUME Inv, FetchEnds
    PROVE  Inv'
<1>1. PICK outcome \in {"ok", "transient", "permanent"} : Fetched(worker.config.place, outcome)
  BY DEF FetchEnds
<1> DEFINE place == config.place
           count == IF outcome = "ok" THEN 0 ELSE CountFailure
           merged == [places |-> blend \cup {place}, fresh |-> TRUE]
           aged == [places |-> blend \cup {place}, fresh |-> FALSE]
           snapshot == IF outcome = "ok" THEN merged ELSE status.snapshot
           published == IF outcome = "ok" /\ late THEN aged ELSE snapshot
<1>2. /\ worker # None /\ worker \in Worker /\ worker.config = config /\ TypeOK
      /\ moved \/ Here(memory, blend, status.snapshot, place)
      /\ config \in Configuration
  BY DEF Inv, TypeOK, FetchEnds
<1>3. PublishStatus(StateAfter(outcome, snapshot), published,
                    NextRefreshDelay(outcome, count), count)
  <2>1. [merged EXCEPT !.fresh = FALSE] = aged
    <3> DEFINE b == FALSE
               places == blend \cup {place}
    <3>1. merged = [places |-> places, fresh |-> TRUE] /\ aged = [places |-> places, fresh |-> b]
      OBVIOUS
    <3> HIDE DEF b, places, merged, aged
    <3>2. [merged EXCEPT !.fresh = b] = aged
      BY <3>1
    <3> QED BY <3>2 DEF b
  <2>2. worker.config.place = place
    BY <1>2
  <2> HIDE DEF place
  <2>3. Fetched(place, outcome)
    BY <1>1, <2>2
  <2> DEFINE sent == IF outcome = "ok" /\ late THEN [merged EXCEPT !.fresh = FALSE] ELSE snapshot
             delay == NextRefreshDelay(outcome, count)
             state == StateAfter(outcome, snapshot)
  <2>4. PublishStatus(state, sent, delay, count)
    BY <2>3 DEF Fetched
  <2>5. sent = published
    BY <2>1
  <2> HIDE DEF sent, published, delay, state
  <2>6. PublishStatus(state, published, delay, count)
    BY <2>4, <2>5
  <2> QED BY <2>6 DEF delay, state
<1>4. count \in 0 .. MaxFailures /\ count \in Nat
  BY <1>2, CountFailureInRange, Bounds DEF TypeOK
<1>5. merged \in Snapshot /\ aged \in Snapshot
  <2>1. blend \cup {place} \in (SUBSET Place) \ {{}}
    BY <1>2, ConfigurationFields DEF TypeOK
  <2> QED BY <2>1 DEF Snapshot
<1>6. published \in Snapshot \cup {None}
  BY <1>2, <1>5 DEF TypeOK
<1>7. moved \/ (published # None => published.places \subseteq {place})
  BY <1>2 DEF Here
<1> HIDE DEF count, snapshot, published
<1>8. NextRefreshDelay(outcome, count) \in 0 .. Refresh \cup {None}
  BY <1>4, NextRefreshDelayInRange
<1>9. UNCHANGED <<config, memory, daemon, old, moved>> /\ asked' = asked
  BY DEF FetchEnds, daemonSide
<1>10. PublishedKeeps(place)'
  BY <1>3, <1>4, <1>6, <1>7, <1>8, <1>9, StateAfterTyped, PublishStatusKeeps
<1> DEFINE w == [worker EXCEPT !.pc = "wait"]
<1>11. worker' = w /\ w \in Worker /\ w.config = worker.config
  BY <1>2, WorkerChanged DEF FetchEnds, Queue
<1>12. asked' \in BOOLEAN
  BY <1>2, <1>9 DEF TypeOK
<1> HIDE DEF w
<1> QED BY <1>2, <1>9, <1>10, <1>11, <1>12, WorkerStepInv

-----------------------------------------------------------------------------
(* The daemon.                                                             *)

\* A new engine starts without anything cached by a fetch.
LEMMA StartStatusTyped ==
    ASSUME NEW c \in Configuration, NEW loaded \in Snapshot \cup {None},
           NEW kept \in {loaded, None}, StartStatus(c, loaded, kept)
    PROVE  /\ status' \in [state : ServiceState, snapshot : Snapshot \cup {None}]
           /\ status'.snapshot \in {loaded, None}
           /\ nextIn' = None /\ timer' = 0 /\ failures' = 0 /\ blend' = {} /\ late' = FALSE
<1>1. /\ status' = IF c.enabled THEN [state |-> "loading", snapshot |-> loaded]
                   ELSE [state |-> "disabled", snapshot |-> kept]
      /\ nextIn' = None /\ timer' = 0 /\ failures' = 0 /\ blend' = {} /\ late' = FALSE
  BY DEF StartStatus
<1> QED
  <2>1. CASE c.enabled
    BY <1>1, <2>1 DEF ServiceState
  <2>2. CASE ~ c.enabled
    BY <1>1, <2>2 DEF ServiceState
  <2> QED BY <2>1, <2>2

\* An engine that has been replaced keeps the invariant when what it starts with
\* and what the daemon remembers are of its place.
LEMMA EngineStartedInv ==
    ASSUME NEW c \in Configuration, NEW loaded \in Snapshot \cup {None},
           NEW kept \in {loaded, None}, StartStatus(c, loaded, kept),
           config' = c, worker' = Started(c), old' \in Worker \cup {None},
           memory' \in Places \cup {None}, moved' \in BOOLEAN, asked' \in BOOLEAN,
           daemon' \in {"idle", "forced_tick", "acked", "acked_tick"},
           moved' \/ ( /\ memory' # None => memory' \subseteq {c.place}
                       /\ loaded # None => loaded.places \subseteq {c.place} )
    PROVE  Inv'
<1>1. /\ status' \in [state : ServiceState, snapshot : Snapshot \cup {None}]
      /\ status'.snapshot \in {loaded, None}
      /\ nextIn' = None /\ timer' = 0 /\ failures' = 0 /\ blend' = {} /\ late' = FALSE
  BY StartStatusTyped
<1>2. worker' \in Worker \cup {None} /\ (worker' # None => worker'.config = c)
  BY StartedTyped
<1>3. 0 \in 0 .. Refresh /\ 0 \in 0 .. MaxFailures
  BY Bounds
<1>4. TypeOK'
  BY <1>1, <1>2, <1>3 DEF TypeOK, Places
<1>5. moved' \/ Here(memory', blend', status'.snapshot, c.place)
  BY <1>1 DEF Here
<1> QED BY <1>2, <1>4, <1>5 DEF Inv

LEMMA RestartInv ==
    ASSUME Inv, Restart
    PROVE  Inv'
<1>1. PICK c \in Configuration, fresh \in BOOLEAN :
        LET saved == IF memory = None THEN None ELSE [places |-> memory, fresh |-> fresh]
        IN  /\ config' = c
            /\ worker' = Started(c) /\ old' = None
            /\ StartStatus(c, saved, saved)
            /\ moved' = (memory # None /\ ~ memory \subseteq {c.place})
  BY DEF Restart
<1> DEFINE saved == IF memory = None THEN None ELSE [places |-> memory, fresh |-> fresh]
<1>2. memory \in Places \cup {None} /\ memory' = memory /\ daemon' = "idle" /\ asked' = FALSE
  BY DEF Inv, TypeOK, Places, Restart
<1>3. saved \in Snapshot \cup {None} /\ (saved # None => memory # None /\ saved.places = memory)
  BY <1>2 DEF Snapshot, Places
<1>4. StartStatus(c, saved, saved)
  BY <1>1
<1> HIDE DEF saved
<1>5. moved' \/ ( /\ memory' # None => memory' \subseteq {c.place}
                  /\ saved # None => saved.places \subseteq {c.place} )
  BY <1>1, <1>2, <1>3
<1>6. moved' \in BOOLEAN
  BY <1>1
<1> QED BY <1>1, <1>2, <1>3, <1>4, <1>5, <1>6, EngineStartedInv

\* A reload drops the weather of another place, and the engine follows.
LEMMA ReloadInv ==
    ASSUME Inv, Reload
    PROVE  Inv'
<1>1. TypeOK /\ (moved \/ Here(memory, blend, status.snapshot, config.place))
  BY DEF Inv
<1>2. CASE UNCHANGED vars
  BY <1>2 DEF vars, Inv, TypeOK
<1>3. ASSUME NEW c \in Configuration, NEW readable \in BOOLEAN,
             config' = c, SyncConfig(c, readable),
             memory' = (IF c.place # config.place /\ memory # None THEN None ELSE memory),
             moved' = (moved /\ c.place = config.place), daemon' = "forced_tick"
      PROVE  Inv'
  <2>1. /\ memory' \in Places \cup {None} /\ moved' \in BOOLEAN
        /\ status.snapshot \in Snapshot \cup {None}
        /\ worker \in Worker \cup {None} /\ old \in Worker \cup {None}
    BY <1>1, <1>3 DEF TypeOK, Places
  <2>2. CASE c # config
    <3> DEFINE loaded == KeptSnapshot(c, readable)
    <3>1. /\ old' = IF worker = None THEN old ELSE Stopped
          /\ worker' = Started(c) /\ StartStatus(c, loaded, None) /\ asked' = FALSE
      BY <1>3, <2>2 DEF SyncConfig
    <3>2. old' \in Worker \cup {None}
      BY <2>1, <3>1, StoppedTyped
    <3>3. /\ loaded \in {status.snapshot, None}
          /\ loaded # None => c.place = config.place
      BY DEF KeptSnapshot
    <3>4. moved' \/ ( /\ memory' # None => memory' \subseteq {c.place}
                      /\ loaded # None => loaded.places \subseteq {c.place} )
      BY <1>1, <1>3, <3>3 DEF Here
    <3>5. loaded \in Snapshot \cup {None}
      BY <2>1, <3>3
    <3> HIDE DEF loaded
    <3> QED BY <1>3, <2>1, <3>1, <3>2, <3>4, <3>5, EngineStartedInv
  <2>3. CASE c = config
    <3>1. /\ config' = config /\ memory' = memory /\ moved' = moved
          /\ status' = status /\ worker' = worker /\ old' = old /\ asked' = asked
          /\ nextIn' = nextIn /\ timer' = timer /\ failures' = failures
          /\ blend' = blend /\ late' = late
      BY <1>1, <1>3, <2>3 DEF SyncConfig, timing, TypeOK
    <3>2. TypeOK'
      BY <1>1, <1>3, <3>1 DEF TypeOK
    <3> QED BY <3>1, <3>2 DEF Inv
  <2> QED BY <2>2, <2>3
<1>4. PICK c \in Configuration, readable \in BOOLEAN, saved \in BOOLEAN :
        LET drops == c.place # config.place /\ memory # None
        IN  IF drops /\ ~ saved
            THEN UNCHANGED vars
            ELSE /\ config' = c
                 /\ memory' = IF drops THEN None ELSE memory
                 /\ moved' = (moved /\ c.place = config.place)
                 /\ daemon' = "forced_tick"
                 /\ SyncConfig(c, readable)
  BY DEF Reload
<1> QED BY <1>2, <1>3, <1>4

\* The daemon remembers what the status holds, and changes the worker's command
\* and the status's state only.
LEMMA DaemonStepInv ==
    ASSUME Inv, UNCHANGED <<config, old, timing, moved>>,
           daemon' \in {"idle", "forced_tick", "acked", "acked_tick"}, asked' \in BOOLEAN,
           memory' = memory \/ (status.snapshot # None /\ memory' = status.snapshot.places),
           status' \in [state : ServiceState, snapshot : Snapshot \cup {None}],
           status'.snapshot = status.snapshot,
           worker' \in Worker \cup {None}, worker' # None => worker # None /\ worker'.config = worker.config
    PROVE  Inv'
<1>1. TypeOK /\ (moved \/ Here(memory, blend, status.snapshot, config.place))
  BY DEF Inv
<1>2. /\ config' = config /\ old' = old /\ moved' = moved /\ nextIn' = nextIn
      /\ timer' = timer /\ failures' = failures /\ blend' = blend /\ late' = late
  BY DEF timing
<1>3. memory' \in Places \cup {None}
  BY <1>1 DEF TypeOK, Snapshot, Places
<1>4. TypeOK'
  BY <1>1, <1>2, <1>3 DEF TypeOK, Places
<1>5. moved' \/ Here(memory', blend', status'.snapshot, config'.place)
  BY <1>1, <1>2 DEF Here
<1> QED BY <1>2, <1>4, <1>5 DEF Inv

LEMMA DaemonInv ==
    ASSUME Inv, RefreshWeather \/ Tick \/ ForcedTick \/ SetLoading
    PROVE  Inv'
<1>1. /\ TypeOK /\ worker \in Worker \cup {None} /\ asked \in BOOLEAN
      /\ status \in [state : ServiceState, snapshot : Snapshot \cup {None}]
      /\ daemon \in {"idle", "forced_tick", "acked", "acked_tick"}
  BY DEF Inv, TypeOK
<1>2. ASSUME NEW readable \in BOOLEAN, ReadWeather(readable)
      PROVE  memory' = memory \/ (status.snapshot # None /\ memory' = status.snapshot.places)
  BY <1>2 DEF ReadWeather
<1>3. ASSUME SendRefresh
      PROVE  /\ worker' \in Worker \cup {None} /\ asked' \in BOOLEAN
             /\ worker' # None => worker # None /\ worker'.config = worker.config
  <2>1. worker # None /\ worker' = [worker EXCEPT !.queue = "refresh"] /\ asked' = TRUE
    BY <1>3 DEF SendRefresh, HasRoom
  <2>2. worker \in Worker /\ "refresh" \in Queue
    BY <1>1, <2>1 DEF Queue
  <2> QED BY <2>1, <2>2, WorkerChanged
<1>4. CASE RefreshWeather
  BY <1>1, <1>3, <1>4, DaemonStepInv DEF RefreshWeather
<1>5. CASE Tick
  BY <1>1, <1>2, <1>5, DaemonStepInv DEF Tick
<1>6. CASE ForcedTick
  <2>1. UNCHANGED <<config, old, status, timing, moved>>
    BY <1>6 DEF ForcedTick
  <2>2. CASE SendRefresh /\ daemon' = "acked_tick" /\ UNCHANGED memory
    BY <1>1, <1>3, <2>1, <2>2, DaemonStepInv
  <2>3. CASE /\ \E readable \in BOOLEAN : ReadWeather(readable)
             /\ daemon' = "idle" /\ UNCHANGED <<worker, asked>>
    BY <1>1, <1>2, <2>1, <2>3, DaemonStepInv
  <2> QED BY <1>6, <2>2, <2>3 DEF ForcedTick
<1>7. CASE SetLoading
  <2>1. /\ UNCHANGED <<config, worker, old, timing, moved, asked>> /\ daemon' = "idle"
        /\ status' = [status EXCEPT !.state = "loading"]
    BY <1>7 DEF SetLoading
  <2>2. /\ status' \in [state : ServiceState, snapshot : Snapshot \cup {None}]
        /\ status'.snapshot = status.snapshot
    BY <1>1, <2>1 DEF ServiceState
  <2>3. memory' = memory \/ (status.snapshot # None /\ memory' = status.snapshot.places)
    BY <1>2, <1>7 DEF SetLoading
  <2> QED BY <1>1, <2>1, <2>2, <2>3, DaemonStepInv
<1> QED BY <1>4, <1>5, <1>6, <1>7

-----------------------------------------------------------------------------
(* The replaced worker, and time.                                          *)

LEMMA OldThreadInv ==
    ASSUME Inv, OldThread
    PROVE  Inv'
<1>1. TypeOK /\ old \in Worker \cup {None}
  BY DEF Inv, TypeOK
<1>2. /\ config' = config /\ memory' = memory /\ daemon' = daemon /\ worker' = worker
      /\ moved' = moved /\ asked' = asked /\ status' = status /\ nextIn' = nextIn
      /\ timer' = timer /\ failures' = failures /\ blend' = blend /\ late' = late
  BY DEF OldThread, OldRequests, OldFetchEnds, OldLeaves, PublishesInOldStatus,
         engineSide, timing
<1>3. old' \in Worker \cup {None}
  <2>1. CASE OldRequests
    <3> DEFINE pc == IF old.config.key THEN "fetch" ELSE "wait"
               queue == IF old.pc = "wait" THEN None ELSE old.queue
    <3>1. old # None /\ old' = [old EXCEPT !.pc = pc, !.queue = queue]
      BY <2>1 DEF OldRequests
    <3>2. old \in Worker /\ pc \in {"start", "fetch", "wait"} /\ queue \in Queue
      BY <1>1, <3>1 DEF Worker, Queue
    <3> HIDE DEF pc, queue
    <3> QED BY <3>1, <3>2, WorkerChanged
  <2>2. CASE OldFetchEnds
    <3>1. old \in Worker /\ old' = [old EXCEPT !.pc = "wait"]
      BY <1>1, <2>2 DEF OldFetchEnds
    <3> QED BY <3>1 DEF Worker
  <2>3. CASE OldLeaves
    BY <2>3 DEF OldLeaves
  <2> QED BY <2>1, <2>2, <2>3 DEF OldThread
<1>4. TypeOK'
  BY <1>1, <1>2, <1>3 DEF TypeOK
<1> QED BY <1>2, <1>4 DEF Inv

\* Time makes snapshots stale and refreshes due.
LEMMA TimeInv ==
    ASSUME Inv, MinutePasses \/ Sleep
    PROVE  Inv'
<1>1. TypeOK /\ (moved \/ Here(memory, blend, status.snapshot, config.place))
  BY DEF Inv
<1>2. /\ config' = config /\ memory' = memory /\ daemon' = daemon /\ worker' = worker
      /\ old' = old /\ moved' = moved /\ asked' = asked /\ failures' = failures
      /\ blend' = blend
  BY DEF MinutePasses, Sleep
<1>3. PICK fresh \in BOOLEAN : status' = [status EXCEPT !.snapshot = Aged(@, fresh)]
  BY DEF MinutePasses, Sleep
<1>4. /\ status' \in [state : ServiceState, snapshot : Snapshot \cup {None}]
      /\ (status.snapshot # None => status.snapshot.places \subseteq {config.place})
            => (status'.snapshot # None => status'.snapshot.places \subseteq {config.place})
  <2> DEFINE aged == Aged(status.snapshot, fresh)
  <2>1. status' = [status EXCEPT !.snapshot = aged]
    BY <1>3
  <2>2. status \in [state : ServiceState, snapshot : Snapshot \cup {None}]
    BY <1>1 DEF TypeOK
  <2>3. /\ aged \in Snapshot \cup {None}
        /\ \A place : (status.snapshot # None => status.snapshot.places \subseteq {place})
             => (aged # None => aged.places \subseteq {place})
    BY <2>2, AgedTyped
  <2> HIDE DEF aged
  <2>4. /\ status' \in [state : ServiceState, snapshot : Snapshot \cup {None}]
        /\ status'.snapshot = aged
    BY <2>1, <2>2, <2>3
  <2> QED BY <2>3, <2>4
<1>5. timer' \in 0 .. Refresh /\ nextIn' \in 0 .. Refresh \cup {None} /\ late' \in BOOLEAN
  <2>1. /\ timer \in 0 .. Refresh /\ late \in BOOLEAN
        /\ nextIn \in 0 .. Refresh \/ nextIn = None
    BY <1>1 DEF TypeOK
  <2>2. CASE MinutePasses
    <3>1. /\ timer' = IF timer = 0 THEN 0 ELSE timer - 1
          /\ nextIn' = IF nextIn \in {None, 0} THEN nextIn ELSE nextIn - 1
          /\ late' = late
      BY <2>2 DEF MinutePasses
    <3> QED BY <2>1, <3>1, Bounds
  <2>3. CASE Sleep
    <3>1. /\ timer' = timer /\ nextIn' = IF nextIn = None THEN None ELSE 0
          /\ late' = (worker # None /\ worker.pc = "fetch")
      BY <2>3 DEF Sleep
    <3> QED BY <2>1, <3>1, Bounds
  <2> QED BY <2>2, <2>3
<1>6. TypeOK'
  BY <1>1, <1>2, <1>4, <1>5 DEF TypeOK
<1>7. moved' \/ Here(memory', blend', status'.snapshot, config'.place)
  BY <1>1, <1>2, <1>4 DEF Here
<1> QED BY <1>2, <1>6, <1>7 DEF Inv

-----------------------------------------------------------------------------
LEMMA InitInv == Init => Inv
<1> SUFFICES ASSUME Init PROVE Inv
  OBVIOUS
<1>1. config \in Configuration /\ worker = Started(config)
  BY DEF Init
<1>2. worker \in Worker \cup {None} /\ (worker # None => worker.config = config)
  BY <1>1, StartedTyped
<1>3. /\ status \in [state : ServiceState, snapshot : Snapshot \cup {None}]
      /\ status.snapshot = None
  <2> DEFINE state == IF config.enabled THEN "loading" ELSE "disabled"
  <2>1. state \in ServiceState /\ status = [state |-> state, snapshot |-> None]
    BY DEF Init, ServiceState
  <2> HIDE DEF state
  <2> QED BY <2>1
<1>4. 0 \in 0 .. Refresh /\ 0 \in 0 .. MaxFailures
  BY Bounds
<1>5. TypeOK
  BY <1>1, <1>2, <1>3, <1>4 DEF Init, TypeOK
<1>6. Here(memory, blend, status.snapshot, config.place)
  BY <1>3 DEF Init, Here
<1> QED BY <1>2, <1>5, <1>6 DEF Inv

LEMMA NextInv == Inv /\ [Next]_vars => Inv'
<1> SUFFICES ASSUME Inv, [Next]_vars PROVE Inv'
  OBVIOUS
<1>1. worker \in Worker \cup {None} /\ asked \in BOOLEAN
  BY DEF Inv, TypeOK
<1>2. CASE Daemon
  BY <1>2, RestartInv, ReloadInv, DaemonInv DEF Daemon
<1>3. CASE Begin
  <2>1. worker # None /\ worker.queue \in Queue /\ Attempt(TRUE, worker.queue)
    BY <1>1, <1>3 DEF Begin, Worker, Queue
  <2> QED BY <1>1, <1>3, <2>1, AttemptInv DEF Begin, daemonSide
<1>4. CASE FetchEnds
  BY <1>4, FetchEndsInv
<1>5. CASE Receive
  <2>1. /\ worker # None /\ Attempt(TRUE, None) /\ asked' \in BOOLEAN
        /\ UNCHANGED <<config, memory, daemon, old, moved>>
    BY <1>1, <1>5 DEF Receive, Forced, daemonSide
  <2> QED BY <2>1, AttemptInv DEF Queue
<1>6. CASE Timeout
  <2>1. /\ worker # None /\ Attempt(FALSE, None) /\ asked' \in BOOLEAN
        /\ UNCHANGED <<config, memory, daemon, old, moved>>
    BY <1>1, <1>6 DEF Timeout, daemonSide
  <2> QED BY <2>1, AttemptInv DEF Queue
<1>7. CASE OldThread
  BY <1>7, OldThreadInv
<1>8. CASE MinutePasses \/ Sleep
  BY <1>8, TimeInv
<1>9. CASE UNCHANGED vars
  BY <1>9 DEF vars, Inv, TypeOK
<1> QED BY <1>2, <1>3, <1>4, <1>5, <1>6, <1>7, <1>8, <1>9 DEF Next, WorkerThread

LEMMA InvHolds == Spec => []Inv
BY InitInv, NextInv, PTL DEF Spec

\* Timers never exceed the refresh interval, retries included, and snapshots are
\* never empty.
THEOREM TypeCorrect == Spec => []TypeOK
<1>1. Inv => TypeOK
  BY DEF Inv
<1> QED BY <1>1, InvHolds, PTL

\* The weather in use, and what it will be replaced by, is that of the configured
\* location, whatever is reloaded and when (weather/engine.rs, sync_config).
THEOREM WeatherStaysLocal == Spec => []WeatherIsLocal
<1>1. Inv => WeatherIsLocal
  BY DEF Inv, Here, WeatherIsLocal, Local
<1> QED BY <1>1, InvHolds, PTL
=============================================================================
