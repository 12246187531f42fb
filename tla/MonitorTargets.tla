--------------------------- MODULE MonitorTargets ----------------------------
(***************************************************************************)
(* Which display a configured monitor stands for: selectors                *)
(* (backends/ddc.rs), the validation of a configuration                    *)
(* (config/validate.rs), discovery (discovery/), the configuration it      *)
(* proposes (discovery/render.rs), and the decision of a tick on who may   *)
(* be written (runtime/topology.rs).                                       *)
(*                                                                         *)
(* A panel is known by the serial, the model and the EDID it reports, any  *)
(* of which two panels may share; it is plugged in at a connector, and the *)
(* connector's I2C bus goes with it, so one name stands for both.  What a  *)
(* discovery reports of a panel is kept apart from the panel: every field  *)
(* of a report is an Option, the evidence for a ddcci backlight is one     *)
(* too, and a panel may be missing from the report.  Strings are compared  *)
(* after trimming and lower-casing, which is left out.                     *)
(***************************************************************************)
EXTENDS Integers, FiniteSets

CONSTANTS
    None,       \* the absent value of an Option
    Connector,  \* the DRM connectors with their buses
    Panel,      \* the external panels
    SerialOf,   \* the serial each panel reports, or None
    ModelOf,    \* its model, or None
    EdidOf,     \* its EDID
    Device,     \* the names under /sys/class/backlight
    AliasOf     \* the connector whose panel a device dims, or None: an internal one

Serial == {SerialOf[p] : p \in Panel}
Model == {ModelOf[p] : p \in Panel}
Edid == {EdidOf[p] : p \in Panel}

ASSUME PanelAssumption ==
    /\ DOMAIN SerialOf = Panel /\ DOMAIN ModelOf = Panel /\ DOMAIN EdidOf = Panel
    /\ AliasOf \in [Device -> Connector \cup {None}]
    /\ \A d, e \in Device : AliasOf[d] = AliasOf[e] /\ AliasOf[d] # None => d = e
    /\ None \notin Connector \cup Panel \cup Edid \cup Device

\* MonitorSelector for DDC, and what a discovery reports: DdcMonitorDiscovery,
\* with the panel it is about, and BacklightDeviceDiscovery, of a device that is
\* viable, with the connector that the ddcci symlinks prove.
Selector == [serial : Serial \cup {None}, model : Model \cup {None}, edid : Edid \cup {None},
             bus : Connector \cup {None}, connector : Connector \cup {None}]
Observation == [connector : Connector \cup {None}, bus : Connector \cup {None},
                serial : Serial \cup {None}, model : Model \cup {None},
                panel : Panel, viable : BOOLEAN]
Backlight == [device : Device, connector : Connector \cup {None}]
OnePerDevice == {B \in SUBSET Backlight : \A a, b \in B : a.device = b.device => a = b}
Snapshot == [ddc : SUBSET Observation, backlights : OnePerDevice]

-----------------------------------------------------------------------------
(* Selectors.                                                              *)

\* build_selector: the first field that is set decides what ddcutil is asked
\* for; a connector alone is not enough.
Kind(sel) ==
    CASE sel.edid # None -> "edid"
      [] sel.edid = None /\ sel.serial # None ->
            IF sel.model # None THEN "serial_model" ELSE "serial"
      [] sel.edid = None /\ sel.serial = None /\ sel.bus # None -> "bus"
      [] sel.edid = None /\ sel.serial = None /\ sel.bus = None /\ sel.model # None -> "model"
      [] OTHER -> "invalid"

BySerial == {"serial", "serial_model"}
ByModel == {"model", "serial_model"}

\* Mutant: different models are taken for different displays, also when one
\* selector does not ask for the model.
DisjointByField(l, r) ==
    \/ Kind(l) = "bus" /\ Kind(r) = "bus" /\ l.bus # r.bus
    \/ Kind(l) = "edid" /\ Kind(r) = "edid" /\ l.edid # r.edid
    \/ l.serial # r.serial \/ l.model # r.model
\* selector_relation is ProvablyDisjoint.
Disjoint(l, r) ==
    \/ Kind(l) = "bus" /\ Kind(r) = "bus" /\ l.bus # r.bus
    \/ Kind(l) = "edid" /\ Kind(r) = "edid" /\ l.edid # r.edid
    \/ Kind(l) \in BySerial /\ Kind(r) \in BySerial /\ l.serial # r.serial
    \/ Kind(l) \in ByModel /\ Kind(r) \in ByModel /\ l.model # r.model

\* The serial and model a selector by name asks for.
Named(sel, serial, model) ==
    /\ Kind(sel) \in BySerial \cup ByModel
    /\ Kind(sel) \in BySerial => serial = sel.serial
    /\ Kind(sel) \in ByModel => model = sel.model

\* The panels of a selector's kind; ddcutil, asked by identity, finds these.
IdentityOf(sel, p) ==
    \/ Kind(sel) = "edid" /\ EdidOf[p] = sel.edid
    \/ Named(sel, SerialOf[p], ModelOf[p])

\* selector_matches_discovery compares with what was reported, which holds no
\* EDID; an invalid selector matches nothing.
Matches(sel, o) ==
    \/ Kind(sel) = "bus" /\ o.bus = sel.bus
    \/ Named(sel, o.serial, o.model)

\* EdidIdentity::matches: every identity field that is set agrees.
EdidMatches(sel, p) ==
    /\ {sel.edid, sel.serial, sel.model} # {None}
    /\ sel.edid \in {None, EdidOf[p]}
    /\ sel.serial \in {None, SerialOf[p]}
    /\ sel.model \in {None, ModelOf[p]}

-----------------------------------------------------------------------------
(* Configurations: sets of monitors, as far as they are about displays.    *)

\* MonitorConfig; pin is the sysfs_path of a backlight.
Monitor(Id) == [id : Id, backend : {"ddc", "backlight"}, enabled : BOOLEAN,
                retarget : BOOLEAN, sel : Selector, pin : Device \cup {None}]

Ddc(t) == t.enabled /\ t.backend = "ddc"

\* Config::validate, as far as it is about displays: DDC selectors are valid
\* and pairwise disjoint.  Backlights are not compared.
Valid(config) ==
    /\ \A t \in config : Ddc(t) => Kind(t.sel) # "invalid"
    /\ \A t \in config : \A u \in config \ {t} :
         Ddc(t) /\ Ddc(u) => Disjoint(t.sel, u.sel)

\* What Config::validate leaves to the author of the file: two backlights may
\* pin the same device.
PinsDiffer(config) ==
    \A t \in config : \A u \in config \ {t} :
        t.backend = "backlight" /\ u.backend = "backlight" => t.pin # u.pin

-----------------------------------------------------------------------------
(* Topology reconciliation.                                                *)

Candidates(t, s) == {o \in s.ddc : o.viable /\ Matches(t.sel, o)}

\* is_ddcci_alias_of_viable_ddc: a backlight duplicates a display only when its
\* own evidence names the connector of one that can be controlled.
DdcciAlias(b, s) ==
    b.connector # None /\ \E o \in s.ddc : o.viable /\ o.connector = b.connector

\* is_ddcci_alias_of_present_ddc.
Alias(t, s) == \E b \in s.backlights : b.device = t.pin /\ DdcciAlias(b, s)

\* classify_monitor.
Classify(t, s) ==
    IF t.backend = "ddc"
    THEN IF Kind(t.sel) = "bus" /\ ~ t.retarget THEN "retargeting_disabled"
         ELSE IF Candidates(t, s) = {} THEN "unavailable"
         ELSE IF \E o \in s.ddc : Candidates(t, s) = {o} THEN "present"
         ELSE "ambiguous"
    ELSE IF \A b \in s.backlights : b.device # t.pin THEN "unavailable"
    ELSE IF Alias(t, s) THEN "alias"
    ELSE "present"

\* The targets a tick may write.
Allowed(config, s) == {t \in config : t.enabled /\ Classify(t, s) = "present"}

-----------------------------------------------------------------------------
(* Discovery and the configuration it proposes.                            *)

\* What is reported of the panel at connector c, without what is in gap.
Report(c, plug, gap) ==
    [connector |-> IF "connector" \in gap THEN None ELSE c,
     bus |-> IF "bus" \in gap THEN None ELSE c,
     serial |-> IF "serial" \in gap THEN None ELSE SerialOf[plug[c]],
     model |-> IF "model" \in gap THEN None ELSE ModelOf[plug[c]],
     panel |-> plug[c], viable |-> "answer" \notin gap]

\* discovery_selector: a bus only when there is nothing better.
DiscoverySelector(o) ==
    [connector |-> o.connector, serial |-> o.serial, model |-> o.model, edid |-> None,
     bus |-> IF o.serial = None /\ o.model = None THEN o.bus ELSE None]

\* build_monitor_config_candidates withholds a display whose selector matches
\* another display, or may match another that can be controlled.
Withheld(o, s) ==
    \/ {q \in s.ddc : Matches(DiscoverySelector(o), q)} # {o}
    \/ \E q \in s.ddc \ {o} :
         q.viable /\ ~ Disjoint(DiscoverySelector(o), DiscoverySelector(q))

Proposal(id, backend, enabled, sel, pin) ==
    [id |-> id, backend |-> backend, enabled |-> enabled, retarget |-> FALSE,
     sel |-> sel, pin |-> pin]

NoSelector == [serial |-> None, model |-> None, edid |-> None, bus |-> None, connector |-> None]

\* Mutant: aliases are left for the ticks to find.
ProposalsOfAll(s) ==
    {LET sel == DiscoverySelector(o)
     IN  Proposal(o, "ddc", Kind(sel) # "bus", sel, None) :
        o \in {q \in s.ddc : q.viable /\ ~ Withheld(q, s)}}
    \cup {Proposal(b.device, "backlight", TRUE, NoSelector, b.device) : b \in s.backlights}
\* build_monitor_config_candidates: a selector that is a bus only is proposed
\* disabled, a backlight that is an alias of a display not at all.
Proposals(s) ==
    {LET sel == DiscoverySelector(o)
     IN  Proposal(o, "ddc", Kind(sel) # "bus", sel, None) :
        o \in {q \in s.ddc : q.viable /\ ~ Withheld(q, s)}}
    \cup
    {Proposal(b.device, "backlight", TRUE, NoSelector, b.device) :
        b \in {e \in s.backlights : ~ DdcciAlias(e, s)}}

-----------------------------------------------------------------------------
(* What the operators are for: the panels that are written.  What a target *)
(* writes depends on plug, the panels as they are plugged in, and never on *)
(* what was reported.                                                      *)

OnePlace(plug) ==
    \A c, d \in Connector : plug[c] = plug[d] /\ plug[c] # None => c = d

\* Whether a write of t can end at panel p at connector c: at the configured
\* bus, at any panel of the configured identity, whether it is at the
\* configured connector or answered when it was discovered, or at the panel
\* that the pinned device dims.
Drives(t, c, p) ==
    IF t.backend = "backlight" THEN AliasOf[t.pin] = c
    ELSE IF Kind(t.sel) = "bus" THEN t.sel.bus = c
    ELSE IdentityOf(t.sel, p)

Reach(t, plug) == {plug[c] : c \in {d \in Connector : plug[d] # None /\ Drives(t, d, plug[d])}}

\* The only proof the code accepts that device d dims panel p: the device and
\* a display that can be controlled, the panel, are reported at one connector.
Proven(d, p, s, plug) ==
    \E b \in s.backlights, o \in s.ddc :
        /\ b.device = d /\ b.connector # None /\ b.connector = AliasOf[d]
        /\ o.viable /\ o.panel = p /\ o.connector # None /\ plug[o.connector] = p

\* topology.rs:3, the daemon must not write the same panel twice: two targets
\* that a tick may write reach no panel in common, except a display and its
\* ddcci backlight of which that proof is missing.
Separate(conf, s, plug) ==
    \A t \in Allowed(conf, s) : \A u \in Allowed(conf, s) \ {t} :
        \A p \in Reach(t, plug) \cap Reach(u, plug) :
            \E b \in {t, u} : b.backend = "backlight" /\ ~ Proven(b.pin, p, s, plug)

\* Every panel was reported with all its fields, whether it answers or not, and
\* every backlight with its evidence.
Complete(s, plug) ==
    /\ \A c \in Connector : plug[c] # None =>
          \E gap \in SUBSET {"answer"} : Report(c, plug, gap) \in s.ddc
    /\ \A b \in s.backlights : b.connector = AliasOf[b.device]

\* A proposed configuration passes the validation and every display it enables
\* is controlled at once; and when the report was complete, no two of them
\* reach the same panel, also when one does not answer.
ProposalsAreSafe(s, plug) ==
    /\ Valid(Proposals(s)) /\ PinsDiffer(Proposals(s))
    /\ \A t \in Proposals(s) : t.enabled => Classify(t, s) = "present"
    /\ Complete(s, plug) =>
          \A t \in Proposals(s) : \A u \in Proposals(s) \ {t} :
              t.enabled /\ u.enabled => Reach(t, plug) \cap Reach(u, plug) = {}
=============================================================================
