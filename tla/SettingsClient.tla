--------------------------- MODULE SettingsClient ----------------------------
(***************************************************************************)
(* Settings on their way from the terminal interface to the daemon: the    *)
(* form and the state of the last action (tui/app/persistence.rs,          *)
(* tui/update/ipc.rs), the worker thread that talks to the daemon          *)
(* (tui/worker.rs) over bounded channels, the socket with its backlog and  *)
(* deadlines (ipc/), the configuration file (config/io.rs), and the        *)
(* daemon's side of it (runtime/ipc.rs).                                   *)
(*                                                                         *)
(* The user's n-th change makes version n of the settings.  Monitor limits *)
(* are a second part of the file, which the daemon writes too when some    *)
(* other client asks it to; the interface holds the limits it read when it *)
(* started.                                                                *)
(***************************************************************************)
EXTENDS Integers, Sequences

CONSTANTS
    MaxEdits,   \* bound: changes the user makes
    MaxAsks,    \* bound: other requests the user makes
    MaxLimits,  \* bound: limits set by other clients
    MaxStops,   \* bound: restarts of the daemon
    CommandMax, \* capacity of the channel to the worker (64)
    EventMax,   \* capacity of the channel from the worker (64)
    LimitsRace  \* whether the interface may save while the daemon is between
                \* reading the file and writing limits into it

ASSUME BoundsAssumption ==
    /\ MaxEdits \in Nat /\ MaxAsks \in Nat /\ MaxLimits \in Nat /\ MaxStops \in Nat
    /\ CommandMax \in Nat \ {0} /\ EventMax \in Nat \ {0} /\ LimitsRace \in BOOLEAN

VARIABLES
    form,      \* the settings in the interface: version, unsaved, debounced, quit
    action,    \* ActionState: what the status line shows
    lastId,    \* the id of the last command
    commands,  \* the channel to the worker
    worker,    \* the request whose answer the worker waits for
    backlog,   \* the requests that reached the socket
    events,    \* the channel from the worker
    linked,    \* the connection as the worker last saw it
    file,      \* the configuration file
    daemon,    \* the daemon's configuration, and how far it is up
    bounds     \* what is left of the bounds
vars == <<form, action, lastId, commands, worker, backlog, events, linked, file, daemon, bounds>>
interface == <<form, action, lastId>>
thread == <<worker, events, linked>>

\* What the user may ask for besides: ActionKind.
Asks == {"suspend", "resume", "refresh"}

Nothing == [of |-> "none", id |-> 0]
NoAction == [kind |-> "idle", of |-> "none", id |-> 0, version |-> 0]

Init ==
    /\ form = [version |-> 0, dirty |-> FALSE, armed |-> FALSE, quit |-> FALSE]
    /\ action = NoAction /\ lastId = 0
    /\ commands = <<>> /\ backlog = <<>> /\ events = <<>>
    /\ worker = Nothing /\ linked = "unknown"
    /\ file = [version |-> 0, limits |-> 0]
    /\ \E up \in {"down", "up"} :
         daemon = [up |-> up, version |-> 0, limits |-> 0, draft |-> <<>>]
    /\ bounds = [asks |-> MaxAsks, limits |-> MaxLimits, stops |-> MaxStops]

-----------------------------------------------------------------------------
(* The interface.                                                          *)

\* A change that the next save takes along, at once or 400 ms later.
Edit ==
    /\ ~ form.quit /\ form.version < MaxEdits
    /\ form' = [form EXCEPT !.version = @ + 1, !.dirty = TRUE, !.armed = TRUE]
    /\ UNCHANGED <<action, lastId, commands, thread, backlog, file, daemon, bounds>>

\* Mutant: like the other commands, a save waits for the answer to the last.
AskedAlready(of) == action.kind = "pending" /\ action.of = of
\* suspend_writes and its like do nothing while the answer to their own kind of
\* request is due.
Suppressed(of) == of # "save" /\ action.kind = "pending" /\ action.of = of

\* send_command: a full channel drops the command.
Send(of) ==
    IF Suppressed(of) THEN UNCHANGED <<lastId, commands, action>>
    ELSE /\ lastId' = lastId + 1
         /\ commands' = IF Len(commands) < CommandMax
                        THEN Append(commands, [of |-> of, id |-> lastId']) ELSE commands
         /\ action' = [kind |-> "pending", of |-> of, id |-> lastId', version |-> form.version]

CanWrite == LimitsRace \/ daemon.draft = <<>>

\* commit_config, when the file is written: the reload follows.
Written(quit) ==
    /\ CanWrite
    /\ file' = [version |-> form.version, limits |-> 0]
    /\ form' = [form EXCEPT !.dirty = FALSE, !.armed = FALSE, !.quit = quit]
    /\ Send("save")

\* save_config, when a value is invalid or the write fails: the change stays,
\* but no timer tries again.
NotWritten ==
    /\ form' = [form EXCEPT !.dirty = TRUE, !.armed = FALSE]
    /\ action' = [NoAction EXCEPT !.kind = "error", !.of = "save"]
    /\ UNCHANGED <<lastId, commands, file>>

\* The user confirms a field, changes the tab, or 400 ms have passed.
Save ==
    /\ ~ form.quit /\ form.dirty
    /\ Written(FALSE) \/ NotWritten
    /\ UNCHANGED <<thread, backlog, daemon, bounds>>

\* check_debounced_save.
DebouncedSave == form.armed /\ Save

\* The key q or Ctrl-C: unsaved changes are saved first, and keep the program
\* open when that fails.  The process ends and takes the worker along, whatever
\* is still in the channel; the Shutdown it sends decides nothing.
Quit ==
    /\ ~ form.quit
    /\ IF form.dirty THEN Written(TRUE) \/ NotWritten
       ELSE form' = [form EXCEPT !.quit = TRUE] /\ UNCHANGED <<action, lastId, commands, file>>
    /\ UNCHANGED <<thread, backlog, daemon, bounds>>

\* suspend_writes, when the minutes typed in are not a number.
Refused(of) ==
    /\ of = "suspend" /\ ~ Suppressed(of)
    /\ action' = [NoAction EXCEPT !.kind = "error", !.of = of]
    /\ UNCHANGED <<lastId, commands>>

\* suspend_writes, resume_writes, retry_weather.
Ask ==
    /\ ~ form.quit /\ bounds.asks > 0
    /\ bounds' = [bounds EXCEPT !.asks = @ - 1]
    /\ \E of \in Asks : Send(of) \/ Refused(of)
    /\ UNCHANGED <<form, thread, backlog, file, daemon>>

\* check_action_state_expiration: 8 s for an answer, then 3 s or 6 s on screen.
Ended(a, kind) == [a EXCEPT !.kind = kind]
Failed(a) == Ended(a, IF a.of = "save" THEN "warning" ELSE "error")
Expire ==
    /\ ~ form.quit /\ action.kind # "idle"
    /\ action' = IF action.kind = "pending" THEN Failed(action) ELSE NoAction
    /\ UNCHANGED <<form, lastId, commands, thread, backlog, file, daemon, bounds>>

\* Mutant: any answer is taken for the answer to the last command.
AnswersSomething(e) == action.kind = "pending" /\ e.id # 0
AnswersTheLast(e) == action.kind = "pending" /\ e.id = action.id

\* handle_ipc.  The status and Connected events change what is drawn only.
HandleEvent ==
    /\ ~ form.quit /\ events # <<>>
    /\ events' = Tail(events)
    /\ LET e == Head(events)
       IN  action' = IF e.of = "disconnected" /\ action.kind = "pending" THEN Failed(action)
                     ELSE IF e.of \in {"succeeded", "failed"} /\ AnswersTheLast(e)
                     THEN IF e.of = "succeeded" THEN Ended(action, "success") ELSE Failed(action)
                     ELSE action
    /\ UNCHANGED <<form, lastId, commands, worker, linked, backlog, file, daemon, bounds>>

-----------------------------------------------------------------------------
(* The worker thread.                                                      *)

\* try_send of each event: what does not fit is lost.
Emitted(queue, es) ==
    LET all == queue \o es IN IF Len(all) > EventMax THEN SubSeq(all, 1, EventMax) ELSE all

Unlinked == IF linked = "disconnected" THEN <<>> ELSE <<[of |-> "disconnected", id |-> 0]>>
Outcome(request, of) == <<[of |-> of, id |-> request.id]>>

\* A request that cannot be delivered or is not answered.
Lost(request) ==
    /\ events' = Emitted(events, Unlinked \o Outcome(request, "failed"))
    /\ linked' = "disconnected"
    /\ worker' = Nothing

\* send_request: connect and write, which needs a listener only.
Deliver(request) ==
    IF daemon.up = "up"
    THEN worker' = request /\ backlog' = Append(backlog, request) /\ UNCHANGED <<events, linked>>
    ELSE Lost(request) /\ UNCHANGED backlog

Free == ~ form.quit /\ worker = Nothing

TakeCommand ==
    /\ Free /\ commands # <<>>
    /\ commands' = Tail(commands)
    /\ Deliver(Head(commands))
    /\ UNCHANGED <<interface, file, daemon, bounds>>

\* poll_daemon_status between commands, which changes nothing in the daemon: it
\* is answered, or not in time.
Poll ==
    /\ Free /\ commands = <<>>
    /\ \/ daemon.up = "up" /\ linked' = "connected" /\ UNCHANGED <<worker, events>>
       \/ /\ linked' = "disconnected" /\ UNCHANGED worker
          /\ events' = Emitted(events, Unlinked)
    /\ UNCHANGED <<interface, commands, backlog, file, daemon, bounds>>

\* 15 s have passed; what was delivered stays delivered.
GiveUp ==
    /\ ~ form.quit /\ worker # Nothing
    /\ Lost(worker)
    /\ UNCHANGED <<interface, commands, backlog, file, daemon, bounds>>

-----------------------------------------------------------------------------
(* The daemon.                                                             *)

Ready == daemon.up = "up" /\ daemon.draft = <<>>

\* The answer reaches the worker if it still waits for this one.
Answer(request, of) ==
    /\ backlog' = Tail(backlog)
    /\ IF worker = request /\ ~ form.quit
       THEN /\ events' = Emitted(events, Outcome(request, of))
            /\ linked' = "connected" /\ worker' = Nothing
       ELSE UNCHANGED thread

\* reload_config and the tick that follows; either may fail.
Reload ==
    /\ Ready /\ backlog # <<>> /\ Head(backlog).of = "save"
    /\ \/ /\ daemon' = [daemon EXCEPT !.version = file.version, !.limits = file.limits]
          /\ \E of \in {"succeeded", "failed"} : Answer(Head(backlog), of)
       \/ Answer(Head(backlog), "failed") /\ UNCHANGED daemon
    /\ UNCHANGED <<interface, commands, file, bounds>>

\* Any other request.
Serve ==
    /\ Ready /\ backlog # <<>> /\ Head(backlog).of # "save"
    /\ \E of \in {"succeeded", "failed"} : Answer(Head(backlog), of)
    /\ UNCHANGED <<interface, commands, file, daemon, bounds>>

\* set_monitor_limits for another client: the configuration in memory, then the
\* file as it is read here.
SetLimits ==
    /\ Ready /\ bounds.limits > 0
    /\ bounds' = [bounds EXCEPT !.limits = @ - 1]
    /\ daemon' = [daemon EXCEPT !.limits = @ + 1, !.draft = <<file>>]
    /\ UNCHANGED <<interface, commands, thread, backlog, file>>

\* save_to_path, whose failure is ignored.
WriteLimits ==
    /\ daemon.draft # <<>>
    /\ file' \in {file, [Head(daemon.draft) EXCEPT !.limits = daemon.limits]}
    /\ daemon' = [daemon EXCEPT !.draft = <<>>]
    /\ UNCHANGED <<interface, commands, thread, backlog, bounds>>

\* The daemon stops; its connections are reset.
Stop ==
    /\ Ready /\ bounds.stops > 0
    /\ bounds' = [bounds EXCEPT !.stops = @ - 1]
    /\ daemon' = [daemon EXCEPT !.up = "down"]
    /\ backlog' = <<>>
    /\ IF worker # Nothing /\ ~ form.quit THEN Lost(worker) ELSE UNCHANGED thread
    /\ UNCHANGED <<interface, commands, file>>

\* bootstrap reads the file; the socket is bound later.
Boot ==
    /\ daemon.up = "down"
    /\ daemon' = [daemon EXCEPT !.up = "starting", !.version = file.version,
                                !.limits = file.limits]
    /\ UNCHANGED <<interface, commands, thread, backlog, file, bounds>>

Bind ==
    /\ daemon.up = "starting"
    /\ daemon' = [daemon EXCEPT !.up = "up"]
    /\ UNCHANGED <<interface, commands, thread, backlog, file, bounds>>

-----------------------------------------------------------------------------
Next ==
    \/ Edit \/ Save \/ DebouncedSave \/ Quit \/ Ask \/ Expire \/ HandleEvent
    \/ TakeCommand \/ Poll \/ GiveUp
    \/ Reload \/ Serve \/ SetLimits \/ WriteLimits \/ Stop \/ Boot \/ Bind

\* The interface ticks and drains events, the worker takes commands and its
\* deadlines pass, the daemon serves its socket.  Nobody has to start the
\* daemon, and no user has to do anything.
Spec ==
    /\ Init /\ [][Next]_vars
    /\ WF_vars(DebouncedSave) /\ WF_vars(Expire) /\ WF_vars(HandleEvent)
    /\ WF_vars(TakeCommand) /\ WF_vars(GiveUp)
    /\ WF_vars(Reload) /\ WF_vars(Serve) /\ WF_vars(WriteLimits) /\ WF_vars(Bind)

-----------------------------------------------------------------------------
(* Properties.                                                             *)

\* "Settings saved and applied" (tui/update/ipc.rs:147) is true: the daemon
\* has loaded the version that was saved, or a later one, although answers may
\* be late, belong to an earlier save, or concern a daemon that restarted.
SavedAndApplied ==
    action.kind = "success" /\ action.of = "save" => daemon.version >= action.version

\* A change that is due to be saved, or saved and not answered yet, reaches the
\* daemon, or the status line says that it did not, unless the user quits or
\* asks for something else before the answer: commands and events may be lost
\* in full channels, and the daemon may be away.
Unsettled(v) ==
    /\ form.version = v
    /\ form.armed \/ (action.kind = "pending" /\ action.of = "save")
Told == action.of = "save" /\ action.kind \in {"warning", "error"}
ChangesArrive ==
    \A v \in 1..MaxEdits :
        Unsettled(v) ~> daemon.version >= v \/ Told \/ action.of \in Asks \/ form.quit
=============================================================================
