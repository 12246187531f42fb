------------------------------ MODULE DdcWrites ------------------------------
(***************************************************************************)
(* A brightness write to an external monitor: backends/ddc.rs around       *)
(* ddcutil/client.rs around process.rs.  A call asks the kernel which bus  *)
(* the monitor is on, takes the I2C lock, and runs ddcutil as a child in a *)
(* process group of its own, again with other arguments when ddcutil is    *)
(* too old, and again by identity when the bus or the first try fails.     *)
(* Around it: ticks that call several monitors at once, panels that are    *)
(* plugged elsewhere meanwhile, and children that fail, hang, die or leave *)
(* helpers behind.                                                         *)
(*                                                                         *)
(* Reads (getvcp, detect) take no lock and change nothing, and the loop    *)
(* thread waits for a call, so they are left out.                          *)
(***************************************************************************)
EXTENDS MonitorTargets

CONSTANTS
    Configs,   \* configurations a file may hold, valid or not
    Lockable,  \* whether /run/user/<uid>/sunreactor_i2c.lock can be locked
    OldTool,   \* whether ddcutil rejects options that the daemon uses
    Gaps,      \* bound: what the report of each panel and device may lack at a
               \* time: an answer over DDC, fields, or the whole entry
    MaxMoves   \* bound: panels plugged or unplugged in a behaviour

Target == UNION {{t.id : t \in c} : c \in Configs}

ASSUME CallAssumption ==
    /\ Lockable \in BOOLEAN /\ OldTool \in BOOLEAN /\ MaxMoves \in Nat
    /\ \A c \in Configs : c \subseteq Monitor(Target)
    /\ \A c \in Configs : \A t, u \in c : t.id = u.id => t = u
    /\ None \notin Target /\ DOMAIN Gaps = Panel \cup Device

VARIABLES
    plugged,   \* the panel at each connector
    snapshot,  \* the discovery the loop last published
    config,    \* the configuration, which stays
    call,      \* the call of each target, since the last tick or probe
    lock,      \* the target whose call holds the I2C lock
    moves
vars == <<plugged, snapshot, config, call, lock, moves>>

\* The states of a call, of its child, and of the command the child runs.
Pcs == {"idle", "select", "lock", "running", "join"}
Endings == {"ok", "unsupported", "transient", "failed", "signalled", "killed"}
Commands == {"set", "help", "adapted"}

Call == [pc : Pcs,
         bus : Connector \cup {None},   \* the verified bus, or None
         attempt : 0..2,
         command : Commands,
         child : {"none", "alive"} \cup Endings,
         helper : BOOLEAN,              \* a descendant holds the output pipes
         acted : BOOLEAN,               \* this child has done what it is for
         timeout : BOOLEAN,             \* the runner gave up on this child
         wrote : Panel \cup {None},     \* the panel the call last wrote
         moved : BOOLEAN,               \* what is at that bus, or was written, moved
         answer : {"none", "ok", "failed"}]

Idle == [pc |-> "idle", bus |-> None, attempt |-> 0, command |-> "set", child |-> "none",
         helper |-> FALSE, acted |-> FALSE, timeout |-> FALSE, wrote |-> None,
         moved |-> FALSE, answer |-> "none"]

TypeOK ==
    /\ plugged \in [Connector -> Panel \cup {None}]
    /\ snapshot \in Snapshot /\ config \in Configs
    /\ call \in [Target -> Call]
    /\ lock \in Target \cup {None} /\ moves \in 0..MaxMoves

Configured(t) == CHOOSE m \in config : m.id = t
Quiet == \A t \in Target : call[t].pc = "idle"

\* CapabilitySnapshot::from_discovery: a display may fail to answer, and of a
\* display or a backlight fields may be missing, the evidence of a ddcci
\* backlight among them, or the whole entry.
Discoveries(plug) ==
    {[ddc |-> {Report(c, plug, gap[plug[c]]) :
                  c \in {d \in Connector : plug[d] # None /\ "entry" \notin gap[plug[d]]}},
      backlights |-> {[device |-> d, connector |-> IF "connector" \in gap[d] THEN None
                                                   ELSE AliasOf[d]] :
                  d \in {e \in Device : /\ AliasOf[e] = None \/ plug[AliasOf[e]] # None
                                        /\ "entry" \notin gap[e]}}] :
        gap \in {g \in [DOMAIN Gaps -> UNION {Gaps[x] : x \in DOMAIN Gaps}] :
                   \A x \in DOMAIN Gaps : g[x] \in Gaps[x]}}

Init ==
    /\ plugged \in [Connector -> Panel \cup {None}] /\ OnePlace(plugged)
    /\ snapshot \in Discoveries(plugged)
    /\ config \in {c \in Configs : Valid(c) /\ PinsDiffer(c)}
    /\ call = [t \in Target |-> Idle]
    /\ lock = None /\ moves = 0

-----------------------------------------------------------------------------
(* The environment.                                                        *)

\* A panel is plugged in or out, or goes to another connector.
Move(c, p) ==
    /\ moves < MaxMoves /\ moves' = moves + 1
    /\ plugged[c] # p
    /\ plugged' = [[d \in Connector |-> IF plugged[d] = p THEN None ELSE plugged[d]]
                      EXCEPT ![c] = p]
    /\ call' = [t \in Target |->
          [call[t] EXCEPT !.moved = @ \/ \E d \in Connector :
              /\ plugged'[d] # plugged[d]
              /\ d = call[t].bus \/ plugged[d] \in {call[t].wrote} \ {None}]]
    /\ UNCHANGED <<snapshot, config, lock>>

\* An observation is published between two ticks.
Discover ==
    /\ Quiet
    /\ snapshot' \in Discoveries(plugged)
    /\ UNCHANGED <<plugged, config, call, lock, moves>>

-----------------------------------------------------------------------------
(* Calls begin.                                                            *)

\* Mutant: the connector is trusted without asking for the EDID behind it.
VerifiedByPort(sel, plug) ==
    IF Kind(sel) # "bus" /\ sel.connector # None /\ plug[sel.connector] # None
    THEN sel.connector ELSE None
\* verified_bus_selection: the bus of the configured connector, when the panel
\* there has the configured identity.
Verified(sel, plug) ==
    IF /\ Kind(sel) # "bus" /\ sel.connector # None
       /\ plug[sel.connector] # None /\ EdidMatches(sel, plug[sel.connector])
    THEN sel.connector ELSE None

Begin(S) ==
    /\ Quiet
    /\ call' = [t \in Target |-> IF t \in S THEN [Idle EXCEPT !.pc = "select"] ELSE Idle]
    /\ UNCHANGED <<plugged, snapshot, config, lock, moves>>

\* A tick writes some of the targets it may write, all at once.
Dispatch(S) ==
    /\ S # {} /\ S \subseteq {t.id : t \in {u \in Allowed(config, snapshot) : Ddc(u)}}
    /\ Begin(S)

\* A probe corrects one target that it could read over its verified bus.
Correct(t) ==
    /\ \E m \in config : m.id = t /\ Ddc(m) /\ Verified(m.sel, plugged) # None
    /\ Begin({t})

-----------------------------------------------------------------------------
(* A call, by its thread.                                                  *)

Set(t, c) ==
    /\ call' = [call EXCEPT ![t] = c]
    /\ UNCHANGED <<plugged, snapshot, config, moves>>

\* The bus is verified before the lock is taken.
Select(t) ==
    /\ call[t].pc = "select"
    /\ Set(t, [call[t] EXCEPT !.pc = "lock", !.attempt = 1,
                              !.bus = Verified(Configured(t).sel, plugged)])
    /\ UNCHANGED lock

\* Mutant: the lock file is closed at the end of the block that opens it.
LockOpen(t) == TRUE
\* flock LockExclusive, whose failure is ignored.
LockFree(t) == Lockable => lock = None

Spawned(c, command) ==
    [c EXCEPT !.pc = "running", !.command = command, !.child = "alive",
              !.helper = FALSE, !.acted = FALSE, !.timeout = FALSE]

\* The lock is taken and ddcutil started, which may fail.
Acquire(t) ==
    /\ call[t].pc = "lock" /\ LockFree(t)
    /\ lock' = IF Lockable THEN t ELSE None
    /\ \/ Set(t, Spawned(call[t], "set"))
       \/ Set(t, [call[t] EXCEPT !.pc = "join", !.command = "set", !.child = "failed",
                                 !.timeout = FALSE])

\* Mutant: only the child itself is killed.
KilledAlone(c) == [c EXCEPT !.child = IF @ = "alive" THEN "killed" ELSE @, !.acted = FALSE]
\* terminate_process_group.
Killed(c) == [c EXCEPT !.child = IF @ = "alive" THEN "killed" ELSE @, !.acted = FALSE,
                         !.helper = FALSE]

\* The child is seen to have exited; what is left of its group is killed.  A
\* child that died of a signal is not taken for one that exited.
Notice(t) ==
    /\ call[t].pc = "running" /\ call[t].child \notin {"alive", "signalled"}
    /\ Set(t, [Killed(call[t]) EXCEPT !.pc = "join"])
    /\ UNCHANGED lock

\* The deadline passes before the child is seen to have exited.
Overdue(t) ==
    /\ call[t].pc = "running"
    /\ Set(t, [Killed(call[t]) EXCEPT !.pc = "join", !.timeout = TRUE, !.child = "killed"])
    /\ UNCHANGED lock

\* The child is reaped, and its output read to the end.
Joined(t) == call[t].pc = "join" /\ call[t].child # "alive" /\ ~ call[t].helper

\* Mutant: any answer of ddcutil, also the one to --help, is the answer.
SucceededSomehow(c) == ~ c.timeout /\ c.child = "ok"
Succeeded(c) == ~ c.timeout /\ c.child = "ok" /\ c.command # "help"

\* run_with_compatible_arguments: ddcutil is asked for the options it has, and
\* started again without the ones it lacks.  When none can be left out, or it
\* cannot be started, that is like a child that fails at once.
AskForHelp(t) ==
    /\ Joined(t)
    /\ call[t].command = "set" /\ call[t].child = "unsupported" /\ ~ call[t].timeout
    /\ Set(t, Spawned(call[t], "help"))
    /\ UNCHANGED lock

RunAdapted(t) ==
    /\ Joined(t) /\ call[t].command = "help" /\ ~ Succeeded(call[t])
    /\ Set(t, Spawned(call[t], "adapted"))
    /\ UNCHANGED lock

\* The command has its final result.
Final(t) ==
    /\ Joined(t)
    /\ \/ call[t].command = "adapted" \/ Succeeded(call[t])
       \/ call[t].command = "set" /\ (call[t].child # "unsupported" \/ call[t].timeout)

\* A bus is given up for the identity, and so is a try that may have been bad
\* luck.
Retried(c) ==
    c.attempt = 1 /\ (c.bus # None \/ c.timeout \/ c.child = "transient")

Retry(t) ==
    /\ Final(t) /\ ~ Succeeded(call[t]) /\ Retried(call[t])
    /\ Set(t, [call[t] EXCEPT !.pc = "lock", !.attempt = 2, !.bus = None])
    /\ lock' = None

Return(t) ==
    /\ Final(t) /\ (Succeeded(call[t]) \/ ~ Retried(call[t]))
    /\ Set(t, [Idle EXCEPT !.wrote = call[t].wrote, !.moved = call[t].moved,
                           !.answer = IF Succeeded(call[t]) THEN "ok" ELSE "failed"])
    /\ lock' = None

-----------------------------------------------------------------------------
(* ddcutil, known from its manual and from how the daemon uses it.         *)

\* The panels ddcutil may address: the one on the bus, or one that matches.
Reached(t) ==
    IF call[t].bus # None THEN {plugged[call[t].bus]} \ {None}
    ELSE Reach(Configured(t), plugged)

ChildActs(t) ==
    /\ call[t].child = "alive" /\ ~ call[t].acted
    /\ call[t].command = "adapted" \/ (call[t].command = "set" /\ ~ OldTool)
    /\ \E p \in Reached(t) : Set(t, [call[t] EXCEPT !.acted = TRUE, !.wrote = p])
    /\ UNCHANGED lock

\* It exits, or dies of a signal, and may leave a helper in its group.
ChildEnds(t, ending, helper) ==
    /\ call[t].child = "alive"
    /\ ending = "ok" => call[t].acted \/ call[t].command = "help"
    /\ ending = "unsupported" => OldTool /\ call[t].command = "set"
    /\ Set(t, [call[t] EXCEPT !.child = ending, !.helper = helper,
                              !.acted = FALSE])
    /\ UNCHANGED lock

-----------------------------------------------------------------------------
Step(t) ==
    \/ Select(t) \/ Acquire(t) \/ Notice(t) \/ Overdue(t)
    \/ AskForHelp(t) \/ RunAdapted(t) \/ Retry(t) \/ Return(t)

Next ==
    \/ \E c \in Connector, p \in Panel \cup {None} : Move(c, p)
    \/ Discover
    \/ \E S \in SUBSET Target : Dispatch(S)
    \/ \E t \in Target : Correct(t) \/ Step(t) \/ ChildActs(t)
    \/ \E t \in Target, helper \in BOOLEAN :
         \E ending \in Endings \ {"killed"} : ChildEnds(t, ending, helper)

\* The threads run and the deadlines pass; ddcutil owes nothing.
Spec == Init /\ [][Next]_vars /\ \A t \in Target : WF_vars(Step(t))

-----------------------------------------------------------------------------
(* Properties.                                                             *)

\* topology.rs:3, the daemon must not write the same panel twice: the targets
\* a tick may write reach no panel in common, except a display and its ddcci
\* backlight of which the code has no proof; and no two calls write the same
\* panel unless it moved between them, or came to the bus of one of them.
OnePanelOneTarget ==
    /\ Separate(config, snapshot, plugged)
    /\ \A t \in Target : \A u \in Target \ {t} :
         call[t].wrote # None /\ call[t].wrote = call[u].wrote
            => call[t].moved \/ call[u].moved

\* The configuration discovery would propose is valid, controls every display
\* it enables, and reaches no panel twice when the report left nothing out.
\* Looked at while no call is open, which hides no report and no plug.
SetupIsSafe == Quiet => ProposalsAreSafe(snapshot, plugged)

\* A write reaches a panel of the configured identity, whatever ddcutil was
\* told and wherever panels went, unless the one at the verified bus was
\* replaced after it had been verified.  A monitor configured by its bus alone
\* has no identity.
WritesGoHome ==
    \A m \in config :
        LET c == call[m.id]
        IN  Ddc(m) /\ Kind(m.sel) # "bus" /\ c.wrote # None /\ ~ c.moved
              => IdentityOf(m.sel, c.wrote)

\* The calls keep what the apply engine relies on: nothing is written once a
\* call has returned, one call at a time is at the bus, success means written,
\* and every call returns, also when ddcutil hangs, dies, or leaves a helper.
Promise == INSTANCE BrightnessCalls WITH
    open <- {t \in Target : call[t].pc # "idle"},
    atBus <- {t \in Target : call[t].child = "alive"},
    written <- {t \in Target : call[t].wrote # None},
    answer <- [t \in Target |-> call[t].answer]
CallsKeepTheirPromise == Promise!Spec
=============================================================================
