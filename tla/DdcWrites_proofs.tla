-------------------------- MODULE DdcWrites_proofs ---------------------------
(***************************************************************************)
(* First what the validation of selectors buys, for any panels, connectors *)
(* and configurations: selectors it accepts never stand for the same panel,*)
(* a tick writes no panel for two targets but a display and its unproven   *)
(* backlight, which it may, and what discovery proposes is safe to use.    *)
(* Then the writes, for any failures of ddcutil:                           *)
(* each reaches the panel it is for, and no panel is written for two       *)
(* targets.  The invariant says what a call has established about the bus  *)
(* it was given and the panel it wrote, as long as neither was re-plugged. *)
(* Last, the calls implement BrightnessCalls.                              *)
(***************************************************************************)
EXTENDS DdcWrites, TLAPS

-----------------------------------------------------------------------------
(* Selectors, snapshots and the configuration discovery proposes.           *)

Kinds == {"edid", "serial", "serial_model", "bus", "model", "invalid"}

LEMMA KindType ==
    ASSUME NEW sel \in Selector
    PROVE  /\ Kind(sel) \in Kinds
           /\ Kind(sel) = "edid" <=> sel.edid # None
           /\ Kind(sel) = "serial" => sel.serial # None /\ sel.model = None
           /\ Kind(sel) = "serial_model" => sel.serial # None /\ sel.model # None
           /\ Kind(sel) = "model" => sel.model # None
           /\ Kind(sel) = "bus" => sel.bus # None
BY DEF Kind, Kinds, Selector

\* selector_relation is right: two selectors it calls provably disjoint never
\* describe the same panel.
LEMMA DisjointIdentities ==
    ASSUME NEW l \in Selector, NEW r \in Selector, NEW p \in Panel,
           Disjoint(l, r), IdentityOf(l, p), IdentityOf(r, p)
    PROVE  FALSE
BY KindType DEF Disjoint, IdentityOf, Named, BySerial, ByModel, Kinds

\* A bus is never disjoint from an identity.
LEMMA DisjointKinds ==
    ASSUME NEW l \in Selector, NEW r \in Selector, Disjoint(l, r)
    PROVE  /\ Kind(l) = "bus" <=> Kind(r) = "bus"
           /\ Kind(l) = "bus" => l.bus # r.bus
BY KindType DEF Disjoint, BySerial, ByModel, Kinds

LEMMA DisjointSymmetric ==
    ASSUME NEW l \in Selector, NEW r \in Selector, Disjoint(l, r)
    PROVE  Disjoint(r, l)
BY DEF Disjoint

\* The EDID check of verified_bus_selection is as strict as ddcutil's search.
LEMMA VerifiedIdentity ==
    ASSUME NEW sel \in Selector, NEW p \in Panel,
           Kind(sel) \notin {"bus", "invalid"}, EdidMatches(sel, p)
    PROVE  IdentityOf(sel, p)
BY KindType DEF EdidMatches, IdentityOf, Named, BySerial, ByModel, Kinds

-----------------------------------------------------------------------------
(* Targets and the panels they reach.                                       *)

LEMMA ReachIs ==
    ASSUME NEW t, NEW plug \in [Connector -> Panel \cup {None}], NEW p \in Reach(t, plug)
    PROVE  p \in Panel /\ \E c \in Connector : plug[c] = p /\ p # None /\ Drives(t, c, p)
BY DEF Reach

\* Two DDC targets of a valid configuration reach no panel in common.
LEMMA DisplaysAreSeparate ==
    ASSUME NEW t, NEW u, t.sel \in Selector, u.sel \in Selector,
           t.backend = "ddc", u.backend = "ddc", Disjoint(t.sel, u.sel),
           NEW plug \in [Connector -> Panel \cup {None}], OnePlace(plug)
    PROVE  Reach(t, plug) \cap Reach(u, plug) = {}
<1> SUFFICES ASSUME NEW p \in Reach(t, plug), p \in Reach(u, plug)
             PROVE  FALSE
  OBVIOUS
<1>1. PICK c \in Connector : plug[c] = p /\ p # None /\ Drives(t, c, p)
  BY ReachIs
<1>2. PICK d \in Connector : plug[d] = p /\ p # None /\ Drives(u, d, p)
  BY ReachIs
<1>3. c = d /\ p \in Panel
  BY <1>1, <1>2, ReachIs DEF OnePlace
<1>4. CASE Kind(t.sel) = "bus"
  BY <1>1, <1>2, <1>3, <1>4, DisjointKinds DEF Drives
<1>5. CASE Kind(t.sel) # "bus"
  <2>1. IdentityOf(t.sel, p) /\ IdentityOf(u.sel, p)
    BY <1>1, <1>2, <1>5, DisjointKinds DEF Drives
  <2> QED BY <1>3, <2>1, DisjointIdentities
<1> QED BY <1>4, <1>5

\* Neither do two backlights with different pins.
LEMMA BacklightsAreSeparate ==
    ASSUME NEW t, NEW u, t.backend = "backlight", u.backend = "backlight",
           t.pin \in Device, u.pin \in Device, t.pin # u.pin,
           NEW plug \in [Connector -> Panel \cup {None}], OnePlace(plug)
    PROVE  Reach(t, plug) \cap Reach(u, plug) = {}
<1> SUFFICES ASSUME NEW p \in Reach(t, plug), p \in Reach(u, plug)
             PROVE  FALSE
  OBVIOUS
<1>1. PICK c \in Connector : plug[c] = p /\ p # None /\ AliasOf[t.pin] = c
  BY ReachIs DEF Drives
<1>2. PICK d \in Connector : plug[d] = p /\ p # None /\ AliasOf[u.pin] = d
  BY ReachIs DEF Drives
<1> QED BY <1>1, <1>2, PanelAssumption DEF OnePlace

\* A backlight that is reached together with a display, and may be written, is
\* one that is not proven to be that display.
LEMMA ProvenIsAlias ==
    ASSUME NEW b, b.backend = "backlight", NEW s \in Snapshot, Classify(b, s) = "present",
           NEW plug \in [Connector -> Panel \cup {None}], OnePlace(plug),
           NEW p \in Reach(b, plug)
    PROVE  ~ Proven(b.pin, p, s, plug)
<1> SUFFICES ASSUME NEW e \in s.backlights, NEW o \in s.ddc, e.device = b.pin,
                    e.connector # None, e.connector = AliasOf[b.pin],
                    o.viable, o.connector # None, plug[o.connector] = p
             PROVE  FALSE
  BY DEF Proven
<1>1. PICK c \in Connector : plug[c] = p /\ p # None /\ AliasOf[b.pin] = c
  BY ReachIs DEF Drives
<1>2. o.connector \in Connector
  BY DEF Snapshot, Observation
<1>3. o.connector = e.connector
  BY <1>1, <1>2 DEF OnePlace
<1>4. Alias(b, s)
  BY <1>3 DEF Alias, DdcciAlias
<1> QED BY <1>4 DEF Classify

\* No two targets that a tick may write reach the same panel, whatever is
\* plugged in and whatever was reported, when the configuration is valid and no
\* two backlights share a pin, except a display and the ddcci backlight of which
\* classify_monitor has no proof.
THEOREM TargetsAreSeparate ==
    ASSUME NEW Id, NEW conf \in SUBSET Monitor(Id), NEW s \in Snapshot,
           NEW plug \in [Connector -> Panel \cup {None}], OnePlace(plug),
           Valid(conf), PinsDiffer(conf)
    PROVE  Separate(conf, s, plug)
<1> SUFFICES ASSUME NEW t \in Allowed(conf, s), NEW u \in Allowed(conf, s) \ {t},
                    NEW p \in Reach(t, plug) \cap Reach(u, plug)
             PROVE  \E b \in {t, u} : b.backend = "backlight" /\ ~ Proven(b.pin, p, s, plug)
  BY DEF Separate
<1>1. /\ t \in Monitor(Id) /\ u \in Monitor(Id) /\ t \in conf /\ u \in conf /\ t # u
      /\ t.enabled /\ u.enabled /\ Classify(t, s) = "present" /\ Classify(u, s) = "present"
  BY DEF Allowed
<1>2. /\ t.sel \in Selector /\ u.sel \in Selector
      /\ t.backend \in {"ddc", "backlight"} /\ u.backend \in {"ddc", "backlight"}
  BY <1>1 DEF Monitor
<1>3. CASE t.backend = "ddc" /\ u.backend = "ddc"
  <2>1. Disjoint(t.sel, u.sel)
    BY <1>1, <1>3 DEF Valid, Ddc
  <2> QED BY <1>2, <1>3, <2>1, DisplaysAreSeparate
<1>4. CASE t.backend = "backlight" /\ u.backend = "backlight"
  <2>1. t.pin # u.pin
    BY <1>1, <1>4 DEF PinsDiffer
  <2>2. t.pin \in Device /\ u.pin \in Device
    BY <1>1, <1>4 DEF Classify, Snapshot, OnePerDevice, Backlight
  <2> QED BY <1>4, <2>1, <2>2, BacklightsAreSeparate
<1>5. CASE t.backend = "backlight" /\ u.backend = "ddc"
  BY <1>1, <1>5, ProvenIsAlias
<1>6. CASE t.backend = "ddc" /\ u.backend = "backlight"
  BY <1>1, <1>6, ProvenIsAlias
<1> QED BY <1>2, <1>3, <1>4, <1>5, <1>6

-----------------------------------------------------------------------------
(* The exception is real.                                                   *)

Both(sel, d) ==
    {Proposal(1, "ddc", TRUE, sel, None), Proposal(2, "backlight", TRUE, NoSelector, d)}

\* A display and a backlight are a valid configuration, and both are written
\* when each of them is present.
LEMMA BothAllowed ==
    ASSUME NEW sel \in Selector, NEW d \in Device, Kind(sel) \notin {"bus", "invalid"},
           NEW s \in Snapshot, NEW o, {q \in s.ddc : q.viable /\ Matches(sel, q)} = {o},
           NEW b \in s.backlights, b.device = d, \A e \in s.backlights : ~ DdcciAlias(e, s)
    PROVE  /\ Valid(Both(sel, d)) /\ PinsDiffer(Both(sel, d))
           /\ Allowed(Both(sel, d), s) = Both(sel, d)
<1> DEFINE t == Proposal(1, "ddc", TRUE, sel, None)
           u == Proposal(2, "backlight", TRUE, NoSelector, d)
<1>1. /\ Both(sel, d) = {t, u} /\ t.backend = "ddc" /\ t.enabled /\ t.sel = sel
      /\ u.backend = "backlight" /\ u.enabled /\ u.pin = d
  BY DEF Both, Proposal
<1> HIDE DEF t, u
<1>2. o \in s.ddc
  OBVIOUS
<1>3. Candidates(t, s) = {o}
  BY <1>1 DEF Candidates
<1>4. Classify(t, s) = "present"
  BY <1>1, <1>2, <1>3 DEF Classify
<1>5. Classify(u, s) = "present"
  BY <1>1 DEF Classify, Alias
<1> QED BY <1>1, <1>4, <1>5 DEF Valid, PinsDiffer, Ddc, Allowed

\* Without the evidence of the ddcci symlinks, a display and its own backlight
\* are both written: no_duplicate_inference_from_names_or_type_raw of
\* topology.rs:745, for any display with a serial.
THEOREM NoEvidenceBothWrite ==
    ASSUME NEW c \in Connector, NEW d \in Device, AliasOf[d] = c,
           NEW plug \in [Connector -> Panel \cup {None}], plug[c] # None,
           SerialOf[plug[c]] # None
    PROVE  LET sel == [NoSelector EXCEPT !.serial = SerialOf[plug[c]]]
               s == [ddc |-> {Report(c, plug, {})},
                     backlights |-> {[device |-> d, connector |-> None]}]
           IN  /\ s \in Snapshot /\ Valid(Both(sel, d)) /\ PinsDiffer(Both(sel, d))
               /\ Allowed(Both(sel, d), s) = Both(sel, d)
               /\ \A t \in Both(sel, d) : plug[c] \in Reach(t, plug)
<1> DEFINE sel == [NoSelector EXCEPT !.serial = SerialOf[plug[c]]]
           o == Report(c, plug, {})
           b == [device |-> d, connector |-> None]
           s == [ddc |-> {o}, backlights |-> {b}]
<1>1. plug[c] \in Panel
  OBVIOUS
<1>2. /\ sel \in Selector /\ Kind(sel) = "serial" /\ sel.serial = SerialOf[plug[c]]
  BY <1>1 DEF NoSelector, Selector, Serial, Kind
<1>3. /\ o \in Observation /\ o.viable /\ o.serial = SerialOf[plug[c]]
  BY <1>1 DEF Report, Observation, Serial, Model
<1>4. b \in Backlight /\ b.device = d /\ b.connector = None
  BY DEF Backlight
<1>5. s.ddc = {o} /\ s.backlights = {b}
  OBVIOUS
<1>6. s \in Snapshot
  BY <1>3, <1>4 DEF Snapshot, OnePerDevice
<1> HIDE DEF sel, o, b, s
<1>7. Matches(sel, o) /\ IdentityOf(sel, plug[c])
  BY <1>2, <1>3 DEF Matches, IdentityOf, Named, BySerial, ByModel
<1>8. {q \in s.ddc : q.viable /\ Matches(sel, q)} = {o}
  BY <1>3, <1>5, <1>7
<1>9. /\ Valid(Both(sel, d)) /\ PinsDiffer(Both(sel, d))
      /\ Allowed(Both(sel, d), s) = Both(sel, d)
  BY <1>2, <1>4, <1>5, <1>6, <1>8, BothAllowed DEF DdcciAlias
<1>10. \A t \in Both(sel, d) : Drives(t, c, plug[c])
  BY <1>2, <1>7 DEF Both, Proposal, Drives
<1>11. \A t \in Both(sel, d) : plug[c] \in Reach(t, plug)
  BY <1>10 DEF Reach
<1> QED BY <1>6, <1>9, <1>11 DEF sel, o, b, s

\* Complete evidence is not enough either when a display does not answer: if
\* another one of its model answers elsewhere, the target that is found there
\* and the backlight of the silent display are both written, and apply_with_
\* runner_in writes to the silent one, at the configured connector (ddc.rs:45).
THEOREM SilentDisplayBothWrite ==
    ASSUME NEW c \in Connector, NEW e \in Connector, c # e,
           NEW d \in Device, AliasOf[d] = c,
           NEW plug \in [Connector -> Panel \cup {None}], plug[c] # None, plug[e] # None,
           ModelOf[plug[c]] # None, ModelOf[plug[c]] = ModelOf[plug[e]]
    PROVE  LET sel == [NoSelector EXCEPT !.model = ModelOf[plug[c]], !.connector = c]
               s == [ddc |-> {Report(c, plug, {"answer"}), Report(e, plug, {})},
                     backlights |-> {[device |-> d, connector |-> c]}]
           IN  /\ s \in Snapshot /\ Valid(Both(sel, d)) /\ PinsDiffer(Both(sel, d))
               /\ Allowed(Both(sel, d), s) = Both(sel, d)
               /\ Verified(sel, plug) = c
               /\ \A t \in Both(sel, d) : plug[c] \in Reach(t, plug)
<1> DEFINE sel == [NoSelector EXCEPT !.model = ModelOf[plug[c]], !.connector = c]
           o == Report(c, plug, {"answer"})
           q == Report(e, plug, {})
           b == [device |-> d, connector |-> c]
           s == [ddc |-> {o, q}, backlights |-> {b}]
<1>1. plug[c] \in Panel /\ plug[e] \in Panel /\ c # None
  BY PanelAssumption
<1>2. /\ sel \in Selector /\ Kind(sel) = "model" /\ sel.model = ModelOf[plug[c]]
      /\ sel.connector = c /\ sel.edid = None /\ sel.serial = None
  BY <1>1 DEF NoSelector, Selector, Model, Kind
<1>3. o \in Observation /\ ~ o.viable
  BY <1>1 DEF Report, Observation, Serial, Model
<1>4. q \in Observation /\ q.viable /\ q.model = ModelOf[plug[e]] /\ q.connector = e
  BY <1>1 DEF Report, Observation, Serial, Model
<1>5. b \in Backlight /\ b.device = d /\ b.connector = c
  BY DEF Backlight
<1>6. s.ddc = {o, q} /\ s.backlights = {b}
  OBVIOUS
<1>7. s \in Snapshot
  BY <1>3, <1>4, <1>5 DEF Snapshot, OnePerDevice
<1> HIDE DEF sel, o, q, b, s
<1>8. Matches(sel, q) /\ IdentityOf(sel, plug[c])
  BY <1>2, <1>4 DEF Matches, IdentityOf, Named, BySerial, ByModel
<1>9. {r \in s.ddc : r.viable /\ Matches(sel, r)} = {q}
  BY <1>3, <1>4, <1>6, <1>8
<1>10. \A l \in s.backlights : ~ DdcciAlias(l, s)
  BY <1>3, <1>4, <1>5, <1>6 DEF DdcciAlias
<1>11. /\ Valid(Both(sel, d)) /\ PinsDiffer(Both(sel, d))
       /\ Allowed(Both(sel, d), s) = Both(sel, d)
  BY <1>2, <1>5, <1>6, <1>7, <1>9, <1>10, BothAllowed
<1>12. Verified(sel, plug) = c
  BY <1>1, <1>2 DEF Verified, EdidMatches
<1>13. \A t \in Both(sel, d) : Drives(t, c, plug[c])
  BY <1>2, <1>8 DEF Both, Proposal, Drives
<1>14. \A t \in Both(sel, d) : plug[c] \in Reach(t, plug)
  BY <1>13 DEF Reach
<1> QED BY <1>7, <1>11, <1>12, <1>14 DEF sel, o, q, b, s

-----------------------------------------------------------------------------
(* The configuration discovery proposes.                                    *)

LEMMA DiscoverySelectorType ==
    ASSUME NEW s \in Snapshot, NEW o \in s.ddc
    PROVE  /\ o \in Observation /\ DiscoverySelector(o) \in Selector
           /\ Kind(DiscoverySelector(o)) # "edid"
<1>1. o \in Observation
  BY DEF Snapshot
<1>2. DiscoverySelector(o) \in Selector /\ DiscoverySelector(o).edid = None
  BY <1>1 DEF DiscoverySelector, Selector, Observation
<1> QED BY <1>1, <1>2, KindType

\* A display that is proposed matches itself and nothing else.
LEMMA FoundMatches ==
    ASSUME NEW s \in Snapshot, NEW o \in s.ddc, ~ Withheld(o, s)
    PROVE  /\ Kind(DiscoverySelector(o)) \notin {"edid", "invalid"}
           /\ \A q \in s.ddc : Matches(DiscoverySelector(o), q) <=> q = o
<1>1. {q \in s.ddc : Matches(DiscoverySelector(o), q)} = {o}
  BY DEF Withheld
<1>2. \A q \in s.ddc : Matches(DiscoverySelector(o), q) <=> q = o
  BY <1>1
<1>3. Matches(DiscoverySelector(o), o)
  BY <1>2
<1>4. Kind(DiscoverySelector(o)) # "invalid"
  BY <1>3 DEF Matches, Named, BySerial, ByModel
<1> QED BY <1>2, <1>4, DiscoverySelectorType

\* A configuration proposed from a discovery passes the validation and controls
\* every display it enables, whatever was left out of the report; and when
\* nothing was, no two targets it enables reach the same panel, also one that
\* does not answer.
THEOREM ProposalsAreUsable ==
    ASSUME NEW s \in Snapshot, NEW plug \in [Connector -> Panel \cup {None}], OnePlace(plug)
    PROVE  ProposalsAreSafe(s, plug)
<1> DEFINE Found == {q \in s.ddc : q.viable /\ ~ Withheld(q, s)}
           Lights == {e \in s.backlights : ~ DdcciAlias(e, s)}
           Screen(o) == Proposal(o, "ddc", Kind(DiscoverySelector(o)) # "bus",
                                 DiscoverySelector(o), None)
           Light(b) == Proposal(b.device, "backlight", TRUE, NoSelector, b.device)
<1>1. Proposals(s) = {Screen(o) : o \in Found} \cup {Light(b) : b \in Lights}
  BY DEF Proposals
<1>2. \A o \in Found : /\ Screen(o).backend = "ddc" /\ Screen(o).sel = DiscoverySelector(o)
                       /\ Screen(o).enabled <=> Kind(DiscoverySelector(o)) # "bus"
  BY DEF Proposal
<1>3. \A b \in Lights : /\ Light(b).backend = "backlight" /\ Light(b).pin = b.device
                        /\ b \in s.backlights /\ b.device \in Device
  BY DEF Proposal, Snapshot, OnePerDevice, Backlight
<1>4. \A a, b \in Lights : a.device = b.device => a = b
  BY DEF Snapshot, OnePerDevice
<1> HIDE DEF Screen, Light
<1>5. ASSUME NEW t \in Proposals(s), t.backend = "ddc"
      PROVE  \E o \in Found : t = Screen(o)
  BY <1>1, <1>3, <1>5
<1>6. ASSUME NEW t \in Proposals(s), t.backend = "backlight"
      PROVE  \E b \in Lights : t = Light(b)
  BY <1>1, <1>2, <1>6
<1>7. \A t \in Proposals(s) : t.backend \in {"ddc", "backlight"}
  BY <1>1, <1>2, <1>3
<1>8. ASSUME NEW t \in Proposals(s), NEW u \in Proposals(s) \ {t},
             t.backend = "ddc", u.backend = "ddc"
      PROVE  Disjoint(t.sel, u.sel)
  <2>1. PICK o \in Found : t = Screen(o)
    BY <1>5, <1>8
  <2>2. PICK q \in Found : u = Screen(q)
    BY <1>5, <1>8
  <2>3. o # q /\ q.viable /\ q \in s.ddc \ {o} /\ ~ Withheld(o, s)
    BY <2>1, <2>2
  <2>4. Disjoint(DiscoverySelector(o), DiscoverySelector(q))
    BY <2>3 DEF Withheld
  <2> QED BY <1>2, <2>1, <2>2, <2>4
<1>9. Valid(Proposals(s))
  <2>1. ASSUME NEW t \in Proposals(s), t.backend = "ddc"
        PROVE  Kind(t.sel) # "invalid"
    BY <1>2, <1>5, <2>1, FoundMatches
  <2> QED BY <1>8, <2>1 DEF Valid, Ddc
<1>10. PinsDiffer(Proposals(s))
  BY <1>3, <1>4, <1>6 DEF PinsDiffer
<1>11. ASSUME NEW t \in Proposals(s), t.enabled
       PROVE  Classify(t, s) = "present"
  <2>1. CASE t.backend = "ddc"
    <3>1. PICK o \in Found : t = Screen(o)
      BY <1>5, <2>1
    <3>2. \A q \in s.ddc : Matches(t.sel, q) <=> q = o
      BY <1>2, <3>1, FoundMatches
    <3>3. Candidates(t, s) = {o} /\ o \in s.ddc
      BY <3>2 DEF Candidates
    <3>4. Kind(t.sel) # "bus"
      BY <1>2, <1>11, <3>1
    <3> QED BY <2>1, <3>3, <3>4 DEF Classify
  <2>2. CASE t.backend = "backlight"
    <3>1. PICK b \in Lights : t = Light(b)
      BY <1>6, <2>2
    <3>2. ~ Alias(t, s)
      BY <1>3, <3>1 DEF Alias, Snapshot, OnePerDevice
    <3> QED BY <1>3, <2>2, <3>1, <3>2 DEF Classify
  <2> QED BY <1>7, <2>1, <2>2
<1>12. ASSUME Complete(s, plug), NEW t \in Proposals(s), NEW u \in Proposals(s),
              t.backend = "ddc", t.enabled, u.backend = "backlight",
              NEW p \in Reach(t, plug) \cap Reach(u, plug)
       PROVE  FALSE
  <2>1. PICK o \in Found : t = Screen(o)
    BY <1>5, <1>12
  <2>2. PICK b \in Lights : u = Light(b)
    BY <1>6, <1>12
  <2>3. PICK c \in Connector : plug[c] = p /\ p # None /\ Drives(u, c, p)
    BY ReachIs
  <2>4. AliasOf[b.device] = c /\ b.connector = c /\ c # None
    BY <1>3, <1>12, <2>2, <2>3, PanelAssumption DEF Drives, Complete
  <2>5. PICK gap \in SUBSET {"answer"} : Report(c, plug, gap) \in s.ddc
    BY <1>12, <2>3 DEF Complete
  <2> DEFINE r == Report(c, plug, gap)
  <2>6. r.connector = c /\ r.serial = SerialOf[p] /\ r.model = ModelOf[p]
    BY <2>3 DEF Report
  <2> HIDE DEF r
  <2>7. /\ t.sel = DiscoverySelector(o) /\ Kind(t.sel) \notin {"edid", "invalid", "bus"}
        /\ \A q \in s.ddc : Matches(t.sel, q) <=> q = o
    BY <1>2, <1>12, <2>1, FoundMatches
  <2>8. Named(t.sel, SerialOf[p], ModelOf[p])
    <3>1. PICK d \in Connector : plug[d] = p /\ p # None /\ Drives(t, d, p)
      BY ReachIs
    <3> QED BY <1>12, <2>7, <3>1 DEF Drives, IdentityOf
  <2>9. Matches(t.sel, r) /\ r \in s.ddc
    BY <2>5, <2>6, <2>8 DEF Matches, r
  <2>10. o = r /\ o.viable /\ o \in s.ddc
    BY <2>7, <2>9
  <2>11. DdcciAlias(b, s)
    BY <2>4, <2>6, <2>10 DEF DdcciAlias
  <2> QED BY <2>11
<1>13. ASSUME Complete(s, plug), NEW t \in Proposals(s), NEW u \in Proposals(s) \ {t},
              t.enabled, u.enabled
       PROVE  Reach(t, plug) \cap Reach(u, plug) = {}
  <2>1. CASE t.backend = "ddc" /\ u.backend = "ddc"
    <3>1. t.sel \in Selector /\ u.sel \in Selector
      BY <1>2, <1>5, <2>1, DiscoverySelectorType
    <3> QED BY <1>8, <2>1, <3>1, DisplaysAreSeparate
  <2>2. CASE t.backend = "backlight" /\ u.backend = "backlight"
    <3>1. t.pin # u.pin
      BY <1>10, <2>2 DEF PinsDiffer
    <3>2. t.pin \in Device /\ u.pin \in Device
      BY <1>3, <1>6, <2>2
    <3> QED BY <2>2, <3>1, <3>2, BacklightsAreSeparate
  <2>3. CASE t.backend = "ddc" /\ u.backend = "backlight"
    BY <1>12, <1>13, <2>3
  <2>4. CASE t.backend = "backlight" /\ u.backend = "ddc"
    BY <1>12, <1>13, <2>4
  <2> QED BY <1>7, <2>1, <2>2, <2>3, <2>4
<1> QED BY <1>9, <1>10, <1>11, <1>13 DEF ProposalsAreSafe

-----------------------------------------------------------------------------
(* The writes.                                                              *)

\* What call c of target t has established, when plug is plugged and cfg is the
\* configuration: it belongs to an enabled DDC monitor; a verified bus leads to
\* the configured identity; and what was written has that identity, or sits at
\* the configured bus.
Grounded(t, c, plug, cfg) ==
    /\ c.pc \in {"idle", "select"} => c.bus = None /\ c.child # "alive"
    /\ c.pc # "idle" \/ c.wrote # None => \E m \in cfg : m.id = t /\ Ddc(m)
    /\ \A m \in cfg : m.id = t /\ ~ c.moved =>
         /\ c.bus # None =>
              /\ Kind(m.sel) # "bus"
              /\ plug[c.bus] # None => IdentityOf(m.sel, plug[c.bus])
         /\ c.wrote # None =>
              IF Kind(m.sel) = "bus" THEN plug[m.sel.bus] = c.wrote
              ELSE IdentityOf(m.sel, c.wrote)

Inv ==
    /\ TypeOK /\ OnePlace(plugged)
    /\ Valid(config) /\ PinsDiffer(config)
    /\ \A t \in Target : Grounded(t, call[t], plugged, config)

-----------------------------------------------------------------------------
LEMMA ConfigType ==
    ASSUME TypeOK
    PROVE  /\ config \in SUBSET Monitor(Target)
           /\ \A t \in config : t.sel \in Selector /\ t.id \in Target
           /\ \A t, u \in config : t.id = u.id => t = u
BY CallAssumption DEF TypeOK, Monitor

LEMMA ConfiguredIs ==
    ASSUME TypeOK, NEW m \in config
    PROVE  Configured(m.id) = m
BY ConfigType DEF Configured

\* What is reported of the panels that are plugged in is a snapshot.
LEMMA DiscoveriesTyped ==
    ASSUME NEW plug \in [Connector -> Panel \cup {None}], NEW s \in Discoveries(plug)
    PROVE  s \in Snapshot
<1>1. PICK gap \in [DOMAIN Gaps -> UNION {Gaps[x] : x \in DOMAIN Gaps}] :
        s = [ddc |-> {Report(c, plug, gap[plug[c]]) :
                c \in {d \in Connector : plug[d] # None /\ "entry" \notin gap[plug[d]]}},
             backlights |-> {[device |-> d, connector |-> IF "connector" \in gap[d] THEN None
                                                          ELSE AliasOf[d]] :
                d \in {e \in Device : /\ AliasOf[e] = None \/ plug[AliasOf[e]] # None
                                      /\ "entry" \notin gap[e]}}]
  BY DEF Discoveries
<1>2. ASSUME NEW c \in Connector, plug[c] # None, NEW g
      PROVE  Report(c, plug, g) \in Observation
  BY <1>2 DEF Report, Observation, Serial, Model
<1>3. \A o \in s.ddc : \E c \in Connector :
        plug[c] # None /\ o = Report(c, plug, gap[plug[c]])
  BY <1>1
<1>4. s.ddc \in SUBSET Observation
  BY <1>2, <1>3
<1>5. \A b \in s.backlights : \E d \in Device :
        b = [device |-> d, connector |-> IF "connector" \in gap[d] THEN None ELSE AliasOf[d]]
  BY <1>1
<1>6. s.backlights \in SUBSET Backlight
  BY <1>5, PanelAssumption DEF Backlight
<1>7. \A a, b \in s.backlights : a.device = b.device => a = b
  BY <1>5
<1>8. s = [ddc |-> s.ddc, backlights |-> s.backlights]
  BY <1>1
<1> QED BY <1>4, <1>6, <1>7, <1>8 DEF Snapshot, OnePerDevice

\* verified_bus_selection returns a bus with a panel of the right identity.
LEMMA VerifiedIsHome ==
    ASSUME TypeOK, NEW sel \in Selector, Kind(sel) # "invalid",
           Verified(sel, plugged) # None
    PROVE  /\ Verified(sel, plugged) \in Connector /\ Kind(sel) # "bus"
           /\ IdentityOf(sel, plugged[Verified(sel, plugged)])
<1>1. /\ Kind(sel) # "bus" /\ Verified(sel, plugged) = sel.connector /\ sel.connector # None
      /\ plugged[sel.connector] # None /\ EdidMatches(sel, plugged[sel.connector])
  BY DEF Verified
<1>2. sel.connector \in Connector /\ plugged[sel.connector] \in Panel
  BY <1>1 DEF Selector, TypeOK
<1> QED BY <1>1, <1>2, VerifiedIdentity

-----------------------------------------------------------------------------
\* A step of one call keeps the invariant when that call is still grounded.
LEMMA OneCall ==
    ASSUME Inv, NEW t \in Target, NEW c \in Call, Set(t, c), Grounded(t, c, plugged, config),
           lock' \in Target \cup {None}
    PROVE  Inv'
<1>1. /\ call' = [call EXCEPT ![t] = c] /\ plugged' = plugged /\ snapshot' = snapshot
      /\ config' = config /\ moves' = moves
  BY DEF Set
<1>2. call' \in [Target -> Call] /\ call'[t] = c /\ \A u \in Target \ {t} : call'[u] = call[u]
  BY <1>1 DEF Inv, TypeOK
<1>3. TypeOK'
  BY <1>1, <1>2 DEF Inv, TypeOK
<1>4. \A u \in Target : Grounded(u, call'[u], plugged, config)
  BY <1>2 DEF Inv
<1> QED BY <1>1, <1>3, <1>4 DEF Inv

\* A call stays grounded while it keeps its bus, or gives it up, and writes
\* nothing.
LEMMA StaysGrounded ==
    ASSUME Inv, NEW t \in Target, NEW c \in Call, call[t].pc # "idle",
           c.bus \in {None, call[t].bus}, c.wrote = call[t].wrote, c.moved = call[t].moved,
           c.pc \in {"idle", "select"} => c.bus = None /\ c.child # "alive"
    PROVE  Grounded(t, c, plugged, config)
BY DEF Inv, Grounded

\* The owner of a call is the configured monitor, and its selector is valid.
LEMMA Owner ==
    ASSUME Inv, NEW t \in Target, call[t].pc # "idle" \/ call[t].wrote # None
    PROVE  /\ Configured(t) \in config /\ Configured(t).id = t /\ Ddc(Configured(t))
           /\ Configured(t).sel \in Selector /\ Kind(Configured(t).sel) # "invalid"
           /\ \A m \in config : m.id = t => m = Configured(t)
<1>1. PICK m \in config : m.id = t /\ Ddc(m)
  BY DEF Inv, Grounded
<1>2. TypeOK /\ Valid(config)
  BY DEF Inv
<1>3. Configured(t) = m
  BY <1>1, <1>2, ConfiguredIs
<1> QED BY <1>1, <1>2, <1>3, ConfigType DEF Valid

-----------------------------------------------------------------------------
LEMMA IdleType == Idle \in Call
BY DEF Idle, Call, Pcs, Commands

LEMMA InitInv == Init => Inv
<1> SUFFICES ASSUME Init PROVE Inv
  OBVIOUS
<1>1. snapshot \in Snapshot
  BY DiscoveriesTyped DEF Init
<1>3. TypeOK
  BY <1>1, IdleType, CallAssumption DEF Init, TypeOK
<1>4. \A t \in Target : Grounded(t, call[t], plugged, config)
  BY DEF Init, Grounded, Idle
<1> QED BY <1>1, <1>3, <1>4 DEF Init, Inv

\* What a call has lost when panels move.
Moved(t) ==
    \/ call[t].moved
    \/ \E d \in Connector : /\ plugged'[d] # plugged[d]
                            /\ d = call[t].bus \/ plugged[d] \in {call[t].wrote} \ {None}

\* Panels that move invalidate what a call knows about the bus, and no more.
LEMMA MoveInv ==
    ASSUME Inv, NEW c \in Connector, NEW p \in Panel \cup {None}, Move(c, p)
    PROVE  Inv'
<1>1. /\ plugged \in [Connector -> Panel \cup {None}] /\ call \in [Target -> Call]
      /\ moves \in 0..MaxMoves /\ MaxMoves \in Nat /\ None \notin Panel
  BY CallAssumption, PanelAssumption DEF Inv, TypeOK
<1>2. /\ plugged' = [[d \in Connector |-> IF plugged[d] = p THEN None ELSE plugged[d]]
                       EXCEPT ![c] = p]
      /\ moves' = moves + 1 /\ moves < MaxMoves
      /\ snapshot' = snapshot /\ config' = config /\ lock' = lock
  BY DEF Move
<1>3. plugged' \in [Connector -> Panel \cup {None}] /\ moves' \in 0..MaxMoves
  BY <1>1, <1>2
<1>4. OnePlace(plugged')
  BY <1>1, <1>2 DEF OnePlace, Inv
<1>5. \A t \in Target : call'[t] = [call[t] EXCEPT !.moved = Moved(t)]
  BY DEF Move, Moved
<1>6. call' \in [Target -> Call]
  <2>1. ASSUME NEW r \in Call, NEW b \in BOOLEAN PROVE [r EXCEPT !.moved = b] \in Call
    BY DEF Call
  <2>2. \A t \in Target : call[t] \in Call /\ Moved(t) \in BOOLEAN
    BY <1>1 DEF Call, Moved
  <2>3. ASSUME NEW t \in Target PROVE call'[t] \in Call
    <3> DEFINE b == Moved(t)
    <3>1. b \in BOOLEAN /\ call[t] \in Call /\ call'[t] = [call[t] EXCEPT !.moved = b]
      BY <1>5, <2>2
    <3> HIDE DEF b
    <3> QED BY <2>1, <3>1
  <2> QED BY <2>3 DEF Move
<1>7. ASSUME NEW t \in Target PROVE Grounded(t, call'[t], plugged', config)
  <2>1. /\ call'[t].pc = call[t].pc /\ call'[t].bus = call[t].bus
        /\ call'[t].child = call[t].child /\ call'[t].wrote = call[t].wrote
        /\ call'[t].moved = Moved(t) /\ call[t].bus \in Connector \cup {None}
        /\ call[t].wrote \in Panel \cup {None}
    <3>1. call[t] \in Call
      BY <1>1
    <3> QED BY <1>5, <3>1 DEF Call
  <2>2. Grounded(t, call[t], plugged, config)
    BY DEF Inv
  <2>3. ASSUME ~ Moved(t), call[t].bus # None
        PROVE  plugged'[call[t].bus] = plugged[call[t].bus]
    BY <2>1, <2>3 DEF Moved
  <2>4. ASSUME ~ Moved(t), NEW d \in Connector, plugged[d] = call[t].wrote, call[t].wrote # None
        PROVE  plugged'[d] = plugged[d]
    BY <2>4 DEF Moved
  <2>5. \A m \in config : Kind(m.sel) = "bus" => m.sel.bus \in Connector
    <3>1. \A m \in config : m.sel \in Selector
      BY ConfigType DEF Inv
    <3> QED BY <3>1, KindType DEF Selector
  <2>6. Moved(t) \/ ~ call[t].moved
    BY DEF Moved
  <2> QED BY <2>1, <2>2, <2>3, <2>4, <2>5, <2>6 DEF Grounded
<1> QED BY <1>2, <1>3, <1>4, <1>6, <1>7 DEF Inv, TypeOK

\* New calls know nothing yet.
LEMMA BeginInv ==
    ASSUME Inv, NEW S, Begin(S), \A t \in S : \E m \in config : m.id = t /\ Ddc(m)
    PROVE  Inv'
<1> DEFINE New == [Idle EXCEPT !.pc = "select"]
<1>1. Idle \in Call /\ New \in Call
  BY IdleType DEF Call, Pcs
<1>2. /\ New.pc = "select" /\ Idle.pc = "idle"
      /\ \A c \in {New, Idle} : c.bus = None /\ c.child # "alive" /\ c.wrote = None
  BY DEF Idle
<1> HIDE DEF New
<1>3. /\ plugged' = plugged /\ snapshot' = snapshot /\ config' = config
      /\ lock' = lock /\ moves' = moves
      /\ call' = [t \in Target |-> IF t \in S THEN New ELSE Idle]
  BY DEF Begin, New
<1>4. call' \in [Target -> Call]
  BY <1>1, <1>3
<1>5. \A t \in Target : Grounded(t, call'[t], plugged, config)
  BY <1>2, <1>3 DEF Grounded
<1> QED BY <1>3, <1>4, <1>5 DEF Inv, TypeOK

\* What ddcutil addresses for a call is a panel.
LEMMA PanelsReached ==
    ASSUME Inv, NEW t \in Target, NEW p \in Reached(t)
    PROVE  p \in Panel
<1>1. call[t] \in Call /\ plugged \in [Connector -> Panel \cup {None}]
  BY DEF Inv, TypeOK
<1>2. call[t].bus \in Connector \cup {None}
  BY <1>1 DEF Call
<1>3. CASE call[t].bus # None
  BY <1>1, <1>2, <1>3 DEF Reached
<1>4. CASE call[t].bus = None
  BY <1>1, <1>4, ReachIs DEF Reached
<1> QED BY <1>3, <1>4

\* What ddcutil writes has the configured identity, or sits at the bus.
LEMMA ChildActsInv ==
    ASSUME Inv, NEW t \in Target, ChildActs(t)
    PROVE  Inv'
<1>1. PICK p \in Reached(t) : Set(t, [call[t] EXCEPT !.acted = TRUE, !.wrote = p])
  BY DEF ChildActs
<1> DEFINE c == [call[t] EXCEPT !.acted = TRUE, !.wrote = p]
           sel == Configured(t).sel
<1>2. call[t] \in Call /\ plugged \in [Connector -> Panel \cup {None}] /\ lock' \in Target \cup {None}
  BY DEF Inv, TypeOK, ChildActs
<1>3. call[t].child = "alive" /\ call[t].pc \notin {"idle", "select"}
  BY DEF ChildActs, Inv, Grounded
<1>4. /\ Configured(t) \in config /\ Configured(t).id = t /\ Ddc(Configured(t))
      /\ sel \in Selector /\ Kind(sel) # "invalid"
      /\ \A m \in config : m.id = t => m = Configured(t)
  BY <1>3, Owner
<1>7. p \in Panel
  BY <1>1, <1>3, PanelsReached
<1>8. c \in Call
  BY <1>2, <1>7 DEF Call
<1>9. c.pc = call[t].pc /\ c.bus = call[t].bus /\ c.moved = call[t].moved /\ c.wrote = p
  BY <1>2 DEF Call
<1>10. ~ call[t].moved /\ call[t].bus # None
         => Kind(sel) # "bus" /\ (plugged[call[t].bus] # None
                                    => IdentityOf(sel, plugged[call[t].bus]))
  BY <1>4 DEF Inv, Grounded
<1>11. ~ call[t].moved => IF Kind(sel) = "bus" THEN plugged[sel.bus] = p ELSE IdentityOf(sel, p)
  <2>1. CASE call[t].bus # None
    BY <1>10, <2>1 DEF Reached
  <2>2. CASE call[t].bus = None
    <3>1. PICK d \in Connector : plugged[d] = p /\ Drives(Configured(t), d, p)
      BY <1>1, <1>2, <2>2, ReachIs DEF Reached
    <3> QED BY <1>4, <3>1 DEF Drives, Ddc
  <2> QED BY <2>1, <2>2
<1> HIDE DEF c, sel
<1>12. Grounded(t, c, plugged, config)
  BY <1>3, <1>4, <1>9, <1>10, <1>11 DEF Grounded, sel
<1> QED BY <1>1, <1>2, <1>8, <1>12, OneCall DEF c

\* A call that starts has a bus with a panel of the configured identity, or none.
LEMMA SelectedBus ==
    ASSUME Inv, NEW t \in Target, call[t].pc = "select",
           Verified(Configured(t).sel, plugged) # None
    PROVE  /\ Verified(Configured(t).sel, plugged) \in Connector
           /\ Kind(Configured(t).sel) # "bus"
           /\ IdentityOf(Configured(t).sel, plugged[Verified(Configured(t).sel, plugged)])
<1>1. Configured(t).sel \in Selector /\ Kind(Configured(t).sel) # "invalid"
  BY Owner
<1> QED BY <1>1, VerifiedIsHome DEF Inv

LEMMA SelectedTyped ==
    ASSUME Inv, NEW t \in Target, call[t].pc = "select"
    PROVE  LET bus == Verified(Configured(t).sel, plugged)
               c == [call[t] EXCEPT !.pc = "lock", !.attempt = 1, !.bus = bus]
           IN  /\ c \in Call /\ c.pc = "lock" /\ c.bus = bus /\ c.child = call[t].child
               /\ c.wrote = call[t].wrote /\ c.moved = call[t].moved
               /\ c.answer = call[t].answer /\ c.command = call[t].command
               /\ c.acted = call[t].acted
<1> DEFINE bus == Verified(Configured(t).sel, plugged)
           c == [call[t] EXCEPT !.pc = "lock", !.attempt = 1, !.bus = bus]
           n == 1
           w == [call[t] EXCEPT !.pc = "lock", !.attempt = n]
<1>1. call[t] \in Call /\ n \in 0..2 /\ c = [w EXCEPT !.bus = bus]
  BY DEF Inv, TypeOK
<1> HIDE DEF n
<1>2. /\ w \in Call /\ w.pc = "lock" /\ w.child = call[t].child /\ w.wrote = call[t].wrote
      /\ w.moved = call[t].moved /\ w.answer = call[t].answer
      /\ w.command = call[t].command /\ w.acted = call[t].acted
  BY <1>1 DEF Call, Pcs
<1>3. bus \in Connector \cup {None}
  BY SelectedBus
<1> HIDE DEF w, c, bus
<1>4. /\ c \in Call /\ c.pc = "lock" /\ c.bus = bus /\ c.child = call[t].child
      /\ c.wrote = call[t].wrote /\ c.moved = call[t].moved
      /\ c.answer = call[t].answer /\ c.command = call[t].command
      /\ c.acted = call[t].acted
  BY <1>1, <1>2, <1>3 DEF Call
<1> QED BY <1>4 DEF c, bus

LEMMA SelectInv ==
    ASSUME Inv, NEW t \in Target, Select(t)
    PROVE  Inv'
<1> DEFINE bus == Verified(Configured(t).sel, plugged)
           c == [call[t] EXCEPT !.pc = "lock", !.attempt = 1, !.bus = bus]
<1>1. call[t].pc = "select" /\ Set(t, c) /\ lock' = lock
  BY DEF Select
<1>2. \A m \in config : m.id = t => m = Configured(t)
  BY <1>1, Owner
<1>3. bus # None => /\ bus \in Connector /\ Kind(Configured(t).sel) # "bus"
                    /\ IdentityOf(Configured(t).sel, plugged[bus])
  BY <1>1, SelectedBus
<1>4. /\ c.pc = "lock" /\ c.bus = bus /\ c.wrote = call[t].wrote /\ c.moved = call[t].moved
      /\ c \in Call
  BY <1>1, SelectedTyped
<1> HIDE DEF c
<1>5. Grounded(t, call[t], plugged, config) /\ lock' \in Target \cup {None}
  BY <1>1 DEF Inv, TypeOK
<1>6. Grounded(t, c, plugged, config)
  BY <1>1, <1>2, <1>3, <1>4, <1>5 DEF Grounded
<1> QED BY <1>1, <1>4, <1>5, <1>6, OneCall

-----------------------------------------------------------------------------
\* No other step of a call writes or learns anything.
LEMMA StepInv ==
    ASSUME Inv, NEW t \in Target, Step(t)
    PROVE  Inv'
<1>1. call[t] \in Call /\ lock \in Target \cup {None} /\ Grounded(t, call[t], plugged, config)
  BY DEF Inv, TypeOK
<1>2. ASSUME NEW c \in Call, Set(t, c), lock' \in Target \cup {None}, call[t].pc # "idle",
             c.bus \in {None, call[t].bus}, c.wrote = call[t].wrote, c.moved = call[t].moved,
             c.pc \in {"idle", "select"} => c.bus = None /\ c.child # "alive"
      PROVE  Inv'
  BY <1>2, OneCall, StaysGrounded
<1>3. ASSUME NEW command \in Commands
      PROVE  /\ Spawned(call[t], command) \in Call
             /\ Spawned(call[t], command).bus = call[t].bus
             /\ Spawned(call[t], command).wrote = call[t].wrote
             /\ Spawned(call[t], command).moved = call[t].moved
             /\ Spawned(call[t], command).pc = "running"
  BY <1>1 DEF Spawned, Call, Pcs
<1>4. CASE Select(t)
  BY <1>4, SelectInv
<1>5. CASE Acquire(t)
  <2>1. call[t].pc # "idle" /\ lock' \in Target \cup {None}
    BY <1>5 DEF Acquire
  <2>2. CASE Set(t, Spawned(call[t], "set"))
    <3>1. "set" \in Commands
      BY DEF Commands
    <3> QED BY <1>2, <1>3, <2>1, <2>2, <3>1
  <2> DEFINE c == [call[t] EXCEPT !.pc = "join", !.command = "set", !.child = "failed",
                                  !.timeout = FALSE]
  <2>3. CASE Set(t, c)
    <3>1. /\ c \in Call /\ c.pc = "join" /\ c.bus = call[t].bus
          /\ c.wrote = call[t].wrote /\ c.moved = call[t].moved
      BY <1>1 DEF Call, Pcs, Commands, Endings
    <3> HIDE DEF c
    <3> QED BY <1>2, <2>1, <2>3, <3>1
  <2> QED BY <1>5, <2>2, <2>3 DEF Acquire
<1>6. CASE Notice(t)
  <2> DEFINE c == [Killed(call[t]) EXCEPT !.pc = "join"]
  <2>1. call[t].pc # "idle" /\ lock' \in Target \cup {None} /\ Set(t, c)
    BY <1>1, <1>6 DEF Notice
  <2>2. /\ c \in Call /\ c.pc = "join" /\ c.bus = call[t].bus
        /\ c.wrote = call[t].wrote /\ c.moved = call[t].moved
    BY <1>1 DEF Killed, Call, Pcs, Endings
  <2> HIDE DEF c
  <2> QED BY <1>2, <2>1, <2>2
<1>7. CASE Overdue(t)
  <2> DEFINE c == [Killed(call[t]) EXCEPT !.pc = "join", !.timeout = TRUE, !.child = "killed"]
  <2>1. call[t].pc # "idle" /\ lock' \in Target \cup {None} /\ Set(t, c)
    BY <1>1, <1>7 DEF Overdue
  <2>2. /\ c \in Call /\ c.pc = "join" /\ c.bus = call[t].bus
        /\ c.wrote = call[t].wrote /\ c.moved = call[t].moved
    BY <1>1 DEF Killed, Call, Pcs, Endings
  <2> HIDE DEF c
  <2> QED BY <1>2, <2>1, <2>2
<1>8. CASE AskForHelp(t)
  <2>1. /\ call[t].pc # "idle" /\ lock' \in Target \cup {None} /\ "help" \in Commands
        /\ Set(t, Spawned(call[t], "help"))
    BY <1>1, <1>8 DEF AskForHelp, Joined, Commands
  <2> QED BY <1>2, <1>3, <2>1
<1>9. CASE RunAdapted(t)
  <2>1. /\ call[t].pc # "idle" /\ lock' \in Target \cup {None} /\ "adapted" \in Commands
        /\ Set(t, Spawned(call[t], "adapted"))
    BY <1>1, <1>9 DEF RunAdapted, Joined, Commands
  <2> QED BY <1>2, <1>3, <2>1
<1>10. CASE Retry(t)
  <2> DEFINE c == [call[t] EXCEPT !.pc = "lock", !.attempt = 2, !.bus = None]
  <2>1. call[t].pc # "idle" /\ lock' \in Target \cup {None} /\ Set(t, c)
    BY <1>10 DEF Retry, Final, Joined
  <2>2. /\ c \in Call /\ c.pc = "lock" /\ c.bus = None
        /\ c.wrote = call[t].wrote /\ c.moved = call[t].moved
    <3> DEFINE n == 2
             w == [call[t] EXCEPT !.pc = "lock", !.attempt = n]
    <3>1. n \in 0..2 /\ c = [w EXCEPT !.bus = None]
      OBVIOUS
    <3> HIDE DEF n
    <3>2. /\ w \in Call /\ w.pc = "lock" /\ w.wrote = call[t].wrote
          /\ w.moved = call[t].moved
      BY <1>1, <3>1 DEF Call, Pcs
    <3> HIDE DEF w, c
    <3> QED BY <3>1, <3>2 DEF Call
  <2> HIDE DEF c
  <2> QED BY <1>2, <2>1, <2>2
<1>11. CASE Return(t)
  <2> DEFINE answer == IF Succeeded(call[t]) THEN "ok" ELSE "failed"
             c == [Idle EXCEPT !.wrote = call[t].wrote, !.moved = call[t].moved,
                               !.answer = answer]
  <2>1. call[t].pc # "idle" /\ lock' \in Target \cup {None} /\ Set(t, c)
    BY <1>11 DEF Return, Final, Joined
  <2>2. answer \in {"none", "ok", "failed"}
    OBVIOUS
  <2> HIDE DEF answer
  <2>3. c \in Call /\ c.wrote = call[t].wrote /\ c.moved = call[t].moved
    BY <1>1, <2>2, IdleType DEF Call
  <2>4. c.bus = None /\ c.child = "none"
    BY DEF Idle
  <2> HIDE DEF c
  <2> QED BY <1>2, <2>1, <2>3, <2>4
<1> QED BY <1>4, <1>5, <1>6, <1>7, <1>8, <1>9, <1>10, <1>11 DEF Step

LEMMA NextInv == Inv /\ [Next]_vars => Inv'
<1> SUFFICES ASSUME Inv, [Next]_vars PROVE Inv'
  OBVIOUS
<1>1. TypeOK
  BY DEF Inv
<1>2. ASSUME NEW c \in Connector, NEW p \in Panel \cup {None}, Move(c, p) PROVE Inv'
  BY <1>2, MoveInv
<1>3. CASE Discover
  <2>1. plugged \in [Connector -> Panel \cup {None}]
    BY DEF Inv, TypeOK
  <2>2. snapshot' \in Snapshot
    BY <1>3, <2>1, DiscoveriesTyped DEF Discover
  <2> QED BY <1>3, <2>2 DEF Discover, Inv, TypeOK
<1>4. ASSUME NEW S \in SUBSET Target, Dispatch(S) PROVE Inv'
  <2>1. Begin(S)
    BY <1>4 DEF Dispatch
  <2>2. \A t \in S : \E m \in config : m.id = t /\ Ddc(m)
    BY <1>4 DEF Dispatch, Allowed
  <2> QED BY <2>1, <2>2, BeginInv
<1>5. ASSUME NEW t \in Target, Correct(t) PROVE Inv'
  BY <1>5, BeginInv DEF Correct
<1>6. ASSUME NEW t \in Target, NEW helper \in BOOLEAN, NEW ending \in Endings \ {"killed"},
             ChildEnds(t, ending, helper)
      PROVE  Inv'
  <2> DEFINE c == [call[t] EXCEPT !.child = ending, !.helper = helper, !.acted = FALSE]
  <2>1. call[t] \in Call /\ Grounded(t, call[t], plugged, config)
    BY DEF Inv, TypeOK
  <2>2. call[t].child = "alive" /\ Set(t, c) /\ lock' \in Target \cup {None}
    BY <1>1, <1>6 DEF ChildEnds, TypeOK
  <2>3. call[t].pc \notin {"idle", "select"}
    BY <2>1, <2>2 DEF Grounded
  <2>4. /\ c \in Call /\ c.pc = call[t].pc /\ c.bus = call[t].bus
        /\ c.wrote = call[t].wrote /\ c.moved = call[t].moved
    BY <2>1 DEF Call
  <2> HIDE DEF c
  <2>5. Grounded(t, c, plugged, config)
    BY <2>3, <2>4, StaysGrounded
  <2> QED BY <2>2, <2>4, <2>5, OneCall
<1>7. CASE UNCHANGED vars
  BY <1>7 DEF vars, Inv, TypeOK, OnePlace
<1> QED BY <1>2, <1>3, <1>4, <1>5, <1>6, <1>7, StepInv, ChildActsInv DEF Next

LEMMA InvHolds == Spec => []Inv
BY InitInv, NextInv, PTL DEF Spec

-----------------------------------------------------------------------------
LEMMA WrittenForOne ==
    ASSUME Inv, NEW t \in Target, NEW u \in Target \ {t},
           call[t].wrote # None, call[t].wrote = call[u].wrote,
           ~ call[t].moved, ~ call[u].moved
    PROVE  FALSE
<1> DEFINE p == call[t].wrote
           m == Configured(t)
           n == Configured(u)
<1>1. /\ m \in config /\ m.id = t /\ Ddc(m) /\ m.sel \in Selector /\ Kind(m.sel) # "invalid"
      /\ n \in config /\ n.id = u /\ Ddc(n) /\ n.sel \in Selector /\ Kind(n.sel) # "invalid"
  BY Owner
<1>2. p \in Panel
  BY DEF Inv, TypeOK, Call
<1>3. Disjoint(m.sel, n.sel)
  BY <1>1 DEF Inv, Valid
<1>4. /\ IF Kind(m.sel) = "bus" THEN plugged[m.sel.bus] = p ELSE IdentityOf(m.sel, p)
      /\ IF Kind(n.sel) = "bus" THEN plugged[n.sel.bus] = p ELSE IdentityOf(n.sel, p)
  BY <1>1 DEF Inv, Grounded
<1> HIDE DEF m, n, p
<1>5. CASE Kind(m.sel) = "bus"
  <2>1. Kind(n.sel) = "bus" /\ m.sel.bus # n.sel.bus
    BY <1>1, <1>3, <1>5, DisjointKinds
  <2>2. m.sel.bus \in Connector /\ n.sel.bus \in Connector
    BY <1>1, <1>5, <2>1, KindType DEF Selector
  <2>3. p # None /\ OnePlace(plugged)
    BY <1>2, PanelAssumption DEF Inv
  <2> QED BY <1>4, <1>5, <2>1, <2>2, <2>3 DEF OnePlace
<1>6. CASE Kind(m.sel) # "bus"
  <2>1. Kind(n.sel) # "bus"
    BY <1>1, <1>3, <1>6, DisjointKinds
  <2> QED BY <1>1, <1>2, <1>3, <1>4, <1>6, <2>1, DisjointIdentities
<1> QED BY <1>5, <1>6

\* The variables keep their types.
THEOREM DdcWritesTypeOK == Spec => []TypeOK
<1>1. Inv => TypeOK
  BY DEF Inv
<1> QED BY <1>1, InvHolds, PTL

\* However the panels are plugged, whatever was reported of them and whatever
\* ddcutil does, a valid configuration with distinct pins has no two targets
\* that a tick may write and that reach one panel, but for a display and an
\* unproven ddcci backlight; and no two calls write the same panel, unless it
\* moved or came to the bus of one.
THEOREM PanelsAreNotShared == Spec => []OnePanelOneTarget
<1>1. ASSUME Inv PROVE OnePanelOneTarget
  <2>1. /\ config \in SUBSET Monitor(Target) /\ snapshot \in Snapshot
        /\ plugged \in [Connector -> Panel \cup {None}]
    BY <1>1, ConfigType DEF Inv, TypeOK
  <2>2. Separate(config, snapshot, plugged)
    BY <1>1, <2>1, TargetsAreSeparate DEF Inv
  <2> QED BY <1>1, <2>2, WrittenForOne DEF OnePanelOneTarget
<1> QED BY <1>1, InvHolds, PTL

\* What discovery would propose is safe to use at any time.
THEOREM SetupStaysSafe == Spec => []SetupIsSafe
<1>1. Inv => SetupIsSafe
  BY ProposalsAreUsable DEF Inv, TypeOK, SetupIsSafe
<1> QED BY <1>1, InvHolds, PTL

\* A write reaches a panel of the configured identity, wherever panels go,
\* unless the one at the verified bus was replaced during the call.
THEOREM WritesReachTheirPanel == Spec => []WritesGoHome
<1>1. Inv => WritesGoHome
  <2> SUFFICES ASSUME Inv, NEW m \in config, Ddc(m), Kind(m.sel) # "bus",
                      call[m.id].wrote # None, ~ call[m.id].moved
               PROVE  IdentityOf(m.sel, call[m.id].wrote)
    BY DEF WritesGoHome
  <2>1. m.id \in Target
    BY ConfigType DEF Inv
  <2> QED BY <2>1 DEF Inv, Grounded
<1> QED BY <1>1, InvHolds, PTL

-----------------------------------------------------------------------------
(* The calls keep their promise, step by step, when the lock file can be    *)
(* locked.                                                                  *)

\* What the lock and a call have to do with each other: only the owner of the
\* lock has a child, and a child that has done its work has written a panel.
Exclusive(t, c, l) ==
    /\ c.pc \in {"running", "join"} => l = t
    /\ c.child = "alive" => c.pc = "running"
    /\ c.acted => c.wrote # None
    /\ c.child = "ok" /\ c.command # "help" => c.wrote # None

Excluded == \A t \in Target : Exclusive(t, call[t], lock)
Held == Inv /\ Excluded

\* The refinement mapping.
Open == {t \in Target : call[t].pc # "idle"}
AtBus == {t \in Target : call[t].child = "alive"}
Written == {t \in Target : call[t].wrote # None}
Answer == [t \in Target |-> call[t].answer]

Stutters == Open' = Open /\ AtBus' = AtBus /\ Written' = Written /\ Answer' = Answer
Mapped == Stutters \/ Promise!Next

LEMMA StuttersMapped == Mapped => [Promise!Next]_(Promise!vars)
BY DEF Mapped, Stutters, Open, AtBus, Written, Answer, Promise!vars

\* A step of one call maps to what it does to that call.
LEMMA SetMaps ==
    ASSUME TypeOK, NEW t \in Target, NEW c \in Call, Set(t, c)
    PROVE  /\ Open' = IF c.pc # "idle" THEN Open \cup {t} ELSE Open \ {t}
           /\ AtBus' = IF c.child = "alive" THEN AtBus \cup {t} ELSE AtBus \ {t}
           /\ Written' = IF c.wrote # None THEN Written \cup {t} ELSE Written \ {t}
           /\ Answer' = [Answer EXCEPT ![t] = c.answer]
<1>1. call'[t] = c /\ \A u \in Target \ {t} : call'[u] = call[u]
  BY DEF Set, TypeOK
<1>2. Open' = IF c.pc # "idle" THEN Open \cup {t} ELSE Open \ {t}
  BY <1>1 DEF Open
<1>3. AtBus' = IF c.child = "alive" THEN AtBus \cup {t} ELSE AtBus \ {t}
  BY <1>1 DEF AtBus
<1>4. Written' = IF c.wrote # None THEN Written \cup {t} ELSE Written \ {t}
  BY <1>1 DEF Written
<1>5. Answer' = [Answer EXCEPT ![t] = c.answer]
  BY <1>1 DEF Answer
<1> QED BY <1>2, <1>3, <1>4, <1>5

\* A step of one call that leaves the lock alone, or takes or gives it for that
\* call, leaves the others as they are.
LEMMA OneCallHeld ==
    ASSUME Held, NEW t \in Target, NEW c \in Call, Set(t, c), Exclusive(t, c, lock'),
           lock' = lock \/ lock \in {None, t}
    PROVE  Excluded'
<1>1. call'[t] = c /\ \A u \in Target \ {t} : call'[u] = call[u]
  BY DEF Set, Held, Inv, TypeOK
<1>2. ASSUME NEW u \in Target \ {t} PROVE Exclusive(u, call[u], lock')
  BY CallAssumption DEF Held, Excluded, Exclusive
<1> QED BY <1>1, <1>2 DEF Excluded

\* A call that stays under way, keeps what it wrote and its answer, and neither
\* loses nor gets a child, does nothing as far as the promise goes.
LEMMA StaysSame ==
    ASSUME TypeOK, NEW t \in Target, NEW c \in Call, Set(t, c),
           call[t].pc # "idle", c.pc # "idle", c.wrote = call[t].wrote,
           c.answer = call[t].answer, c.child = "alive" <=> call[t].child = "alive"
    PROVE  Stutters
<1>1. Answer[t] = call[t].answer /\ Answer = [Answer EXCEPT ![t] = Answer[t]]
  BY DEF Answer
<1>2. /\ t \in Open
      /\ t \in AtBus <=> c.child = "alive"
      /\ t \in Written <=> c.wrote # None
  BY DEF Open, AtBus, Written
<1>3. /\ Open' = Open \cup {t}
      /\ AtBus' = IF c.child = "alive" THEN AtBus \cup {t} ELSE AtBus \ {t}
      /\ Written' = IF c.wrote # None THEN Written \cup {t} ELSE Written \ {t}
      /\ Answer' = [Answer EXCEPT ![t] = c.answer]
  BY SetMaps
<1>4. Open' = Open /\ AtBus' = AtBus /\ Written' = Written
  BY <1>2, <1>3
<1>5. Answer' = Answer
  BY <1>1, <1>3
<1> QED BY <1>4, <1>5 DEF Stutters

\* A child starts when no other is at the bus.
LEMMA SpawnEnters ==
    ASSUME Held, NEW t \in Target, NEW command \in Commands,
           Set(t, Spawned(call[t], command)), call[t].pc \in {"lock", "join"},
           call[t].child # "alive", lock \in {None, t}, lock' = t
    PROVE  Promise!Next /\ Excluded'
<1> DEFINE c == Spawned(call[t], command)
<1>1. call[t] \in Call /\ TypeOK
  BY DEF Held, Inv, TypeOK
<1>2. /\ c \in Call /\ c.pc = "running" /\ c.child = "alive" /\ ~ c.acted
      /\ c.wrote = call[t].wrote /\ c.answer = call[t].answer
  BY <1>1 DEF Spawned, Call, Pcs
<1>3. Set(t, c)
  OBVIOUS
<1> HIDE DEF c
<1>4. Excluded'
  BY <1>2, <1>3, OneCallHeld DEF Exclusive
<1>5. AtBus = {} /\ t \in Open
  BY CallAssumption DEF AtBus, Open, Held, Excluded, Exclusive
<1>6. /\ Open' = Open \cup {t} /\ AtBus' = AtBus \cup {t}
      /\ Written' = IF c.wrote # None THEN Written \cup {t} ELSE Written \ {t}
      /\ Answer' = [Answer EXCEPT ![t] = c.answer]
  BY <1>1, <1>2, <1>3, SetMaps
<1>7. Open' = Open /\ AtBus' = {t} /\ Written' = Written /\ Answer' = Answer
  <2>1. t \in Written <=> c.wrote # None
    BY <1>2 DEF Written
  <2>2. Answer = [Answer EXCEPT ![t] = c.answer]
    BY <1>2 DEF Answer
  <2> QED BY <1>5, <1>6, <2>1, <2>2
<1>8. Promise!Enter(t)
  BY <1>5, <1>7 DEF Promise!Enter, Open, AtBus, Written, Answer
<1> QED BY <1>4, <1>8 DEF Promise!Next

-----------------------------------------------------------------------------
LEMMA HeldInit == Init => Held /\ Promise!Init
<1> SUFFICES ASSUME Init PROVE Held /\ Promise!Init
  OBVIOUS
<1>1. Inv
  BY InitInv
<1>2. \A t \in Target : call[t] = Idle
  BY DEF Init
<1>3. /\ Idle.pc = "idle" /\ Idle.child = "none" /\ ~ Idle.acted /\ Idle.wrote = None
      /\ Idle.answer = "none"
  BY DEF Idle
<1>4. Held
  BY <1>1, <1>2, <1>3 DEF Held, Excluded, Exclusive
<1>5. Promise!Init
  BY <1>2, <1>3 DEF Promise!Init
<1> QED BY <1>4, <1>5

\* New calls.
LEMMA BeginMapped ==
    ASSUME Held, NEW S \in SUBSET Target, S # {}, Begin(S)
    PROVE  Promise!Next /\ Excluded'
<1> DEFINE New == [Idle EXCEPT !.pc = "select"]
<1>1. \A c \in {New, Idle} :
        /\ c.child = "none" /\ ~ c.acted /\ c.wrote = None /\ c.answer = "none"
  BY DEF Idle
<1>2. New.pc = "select" /\ Idle.pc = "idle"
  BY DEF Idle
<1>3. call' = [t \in Target |-> IF t \in S THEN New ELSE Idle] /\ Quiet
  BY DEF Begin
<1> HIDE DEF New
<1>4. Excluded'
  BY <1>1, <1>2, <1>3 DEF Excluded, Exclusive
<1>5. Open = {} /\ AtBus = {}
  BY <1>3 DEF Quiet, Open, AtBus, Held, Excluded, Exclusive
<1>6. Open' = S /\ AtBus' = {} /\ Written' = {}
  BY <1>1, <1>2, <1>3 DEF Open, AtBus, Written
<1>7. Answer' = [t \in Target |-> "none"]
  BY <1>1, <1>3 DEF Answer
<1>8. Promise!Call(S)
  BY <1>5, <1>6, <1>7 DEF Promise!Call, Open, AtBus, Written, Answer
<1> QED BY <1>4, <1>8 DEF Promise!Next

\* A panel that moves is nothing the calls did.
LEMMA MoveMapped ==
    ASSUME Held, NEW k \in Connector, NEW p \in Panel \cup {None}, Move(k, p)
    PROVE  Stutters /\ Excluded'
<1>1. ASSUME NEW t \in Target
      PROVE  /\ call'[t].pc = call[t].pc /\ call'[t].child = call[t].child
             /\ call'[t].acted = call[t].acted /\ call'[t].wrote = call[t].wrote
             /\ call'[t].command = call[t].command /\ call'[t].answer = call[t].answer
  <2>1. call[t] \in Call
    BY DEF Held, Inv, TypeOK
  <2>2. call'[t] = [call[t] EXCEPT !.moved = Moved(t)]
    BY DEF Move, Moved
  <2> QED BY <2>1, <2>2 DEF Call
<1>2. lock' = lock
  BY DEF Move
<1>3. Excluded'
  BY <1>1, <1>2 DEF Held, Excluded, Exclusive
<1>4. Stutters
  BY <1>1 DEF Stutters, Open, AtBus, Written, Answer
<1> QED BY <1>3, <1>4

\* ddcutil writes while its call is at the bus.
LEMMA ChildActsMapped ==
    ASSUME Held, NEW t \in Target, ChildActs(t)
    PROVE  Promise!Next /\ Excluded'
<1>1. PICK p \in Reached(t) : Set(t, [call[t] EXCEPT !.acted = TRUE, !.wrote = p])
  BY DEF ChildActs
<1> DEFINE c == [call[t] EXCEPT !.acted = TRUE, !.wrote = p]
<1>2. /\ call[t] \in Call /\ TypeOK /\ call[t].child = "alive" /\ call[t].pc = "running"
      /\ lock = t /\ lock' = lock
  BY DEF Held, Inv, TypeOK, ChildActs, Excluded, Exclusive
<1>3. p \in Panel
  BY <1>1, <1>2, PanelsReached DEF Held
<1>4. /\ c \in Call /\ c.pc = "running" /\ c.child = "alive" /\ c.wrote = p
      /\ c.answer = call[t].answer /\ c.wrote # None
  BY <1>2, <1>3, PanelAssumption DEF Call
<1>5. Set(t, c)
  BY <1>1
<1> HIDE DEF c
<1>6. Excluded'
  BY <1>2, <1>4, <1>5, OneCallHeld DEF Exclusive
<1>7. t \in AtBus /\ t \in Open
  BY <1>2 DEF AtBus, Open
<1>8. /\ Open' = Open \cup {t} /\ AtBus' = AtBus \cup {t} /\ Written' = Written \cup {t}
      /\ Answer' = [Answer EXCEPT ![t] = c.answer]
  BY <1>2, <1>4, <1>5, SetMaps
<1>9. Open' = Open /\ AtBus' = AtBus /\ Written' = Written \cup {t} /\ Answer' = Answer
  <2>1. Answer = [Answer EXCEPT ![t] = c.answer]
    BY <1>4 DEF Answer
  <2> QED BY <1>7, <1>8, <2>1
<1>10. Promise!Write(t)
  BY <1>7, <1>9 DEF Promise!Write, Open, AtBus, Written, Answer
<1> QED BY <1>6, <1>10 DEF Promise!Next

\* A child that was at the bus is gone, whether it ended or was killed.
LEMMA ChildLeaves ==
    ASSUME Held, NEW t \in Target, NEW c \in Call, Set(t, c), call[t].child = "alive",
           c.child # "alive", c.pc # "idle", c.wrote = call[t].wrote,
           c.answer = call[t].answer
    PROVE  Promise!Next
<1>1. t \in AtBus /\ t \in Open /\ TypeOK
  BY DEF AtBus, Open, Held, Inv, Excluded, Exclusive
<1>2. /\ Open' = Open \cup {t} /\ AtBus' = AtBus \ {t}
      /\ Written' = IF c.wrote # None THEN Written \cup {t} ELSE Written \ {t}
      /\ Answer' = [Answer EXCEPT ![t] = c.answer]
  BY <1>1, SetMaps
<1>3. Open' = Open /\ AtBus' = AtBus \ {t} /\ Written' = Written /\ Answer' = Answer
  <2>1. t \in Written <=> c.wrote # None
    BY DEF Written
  <2>2. Answer = [Answer EXCEPT ![t] = c.answer]
    BY DEF Answer
  <2> QED BY <1>1, <1>2, <2>1, <2>2
<1>4. Promise!Leave(t)
  BY <1>1, <1>3 DEF Promise!Leave, Open, AtBus, Written, Answer
<1> QED BY <1>4 DEF Promise!Next

LEMMA ChildEndsMapped ==
    ASSUME Held, NEW t \in Target, NEW helper \in BOOLEAN, NEW ending \in Endings \ {"killed"},
           ChildEnds(t, ending, helper)
    PROVE  Promise!Next /\ Excluded'
<1> DEFINE c == [call[t] EXCEPT !.child = ending, !.helper = helper, !.acted = FALSE]
<1>1. /\ call[t] \in Call /\ call[t].child = "alive" /\ call[t].pc = "running"
      /\ lock = t /\ lock' = lock /\ Set(t, c)
      /\ call[t].acted => call[t].wrote # None
      /\ ending = "ok" => call[t].acted \/ call[t].command = "help"
  BY DEF Held, Inv, TypeOK, ChildEnds, Excluded, Exclusive
<1>2. ending # "alive"
  BY DEF Endings
<1>3. /\ c \in Call /\ c.pc = "running" /\ c.child = ending /\ c.wrote = call[t].wrote
      /\ c.answer = call[t].answer /\ c.command = call[t].command /\ ~ c.acted
  BY <1>1 DEF Call
<1> HIDE DEF c
<1>4. Excluded'
  BY <1>1, <1>2, <1>3, OneCallHeld DEF Exclusive
<1> QED BY <1>1, <1>2, <1>3, <1>4, ChildLeaves

-----------------------------------------------------------------------------
(* The steps of a call.                                                     *)

LEMMA SelectMapped ==
    ASSUME Held, NEW t \in Target, Select(t)
    PROVE  Stutters /\ Excluded'
<1> DEFINE c == [call[t] EXCEPT !.pc = "lock", !.attempt = 1,
                                !.bus = Verified(Configured(t).sel, plugged)]
<1>1. /\ call[t] \in Call /\ call[t].pc = "select" /\ Set(t, c) /\ lock' = lock
      /\ TypeOK /\ Exclusive(t, call[t], lock)
  BY DEF Held, Inv, TypeOK, Excluded, Select
<1>2. /\ c \in Call /\ c.pc = "lock" /\ c.child = call[t].child /\ c.wrote = call[t].wrote
      /\ c.answer = call[t].answer /\ c.command = call[t].command /\ c.acted = call[t].acted
  BY <1>1, SelectedTyped DEF Held
<1> HIDE DEF c
<1>3. Stutters
  BY <1>1, <1>2, StaysSame
<1>4. Excluded'
  BY <1>1, <1>2, OneCallHeld DEF Exclusive
<1> QED BY <1>3, <1>4

\* What a killed child leaves of its call.
LEMMA KilledFields ==
    ASSUME NEW c \in Call
    PROVE  LET k == [Killed(c) EXCEPT !.pc = "join"]
               o == [Killed(c) EXCEPT !.pc = "join", !.timeout = TRUE, !.child = "killed"]
           IN  /\ k \in Call /\ k.pc = "join" /\ k.wrote = c.wrote /\ k.answer = c.answer
               /\ k.command = c.command /\ ~ k.acted
               /\ k.child = IF c.child = "alive" THEN "killed" ELSE c.child
               /\ o \in Call /\ o.pc = "join" /\ o.wrote = c.wrote /\ o.answer = c.answer
               /\ o.command = c.command /\ ~ o.acted /\ o.child = "killed"
<1> DEFINE child == IF c.child = "alive" THEN "killed" ELSE c.child
           no == FALSE
           yes == TRUE
           dead == [c EXCEPT !.child = child, !.acted = no, !.helper = no]
           k == [dead EXCEPT !.pc = "join"]
           o == [[k EXCEPT !.timeout = yes] EXCEPT !.child = "killed"]
<1>1. child \in {"none", "alive"} \cup Endings /\ no \in BOOLEAN /\ yes \in BOOLEAN
  BY DEF Call, Endings
<1>2. Killed(c) = dead
  BY DEF Killed
<1> HIDE DEF child, no, yes
<1>3. /\ dead \in Call /\ dead.wrote = c.wrote /\ dead.answer = c.answer
      /\ dead.command = c.command /\ dead.acted = no /\ dead.child = child
  BY <1>1 DEF Call
<1> HIDE DEF dead
<1>4. /\ k \in Call /\ k.pc = "join" /\ k.wrote = c.wrote /\ k.answer = c.answer
      /\ k.command = c.command /\ k.acted = no /\ k.child = child
  BY <1>3 DEF Call, Pcs
<1>5. [Killed(c) EXCEPT !.pc = "join", !.timeout = TRUE, !.child = "killed"] = o
  BY <1>2 DEF yes
<1> HIDE DEF k
<1>6. /\ o \in Call /\ o.pc = "join" /\ o.wrote = c.wrote /\ o.answer = c.answer
      /\ o.command = c.command /\ o.acted = no /\ o.child = "killed"
  BY <1>1, <1>4 DEF Call, Endings
<1> HIDE DEF o
<1> QED BY <1>2, <1>4, <1>5, <1>6 DEF k, child, no

LEMMA StepMapped ==
    ASSUME Held, Lockable, NEW t \in Target, Step(t)
    PROVE  Mapped /\ Excluded'
<1>1. /\ call[t] \in Call /\ TypeOK /\ Exclusive(t, call[t], lock)
      /\ call[t].pc \in {"idle", "select"} => call[t].child # "alive"
  BY DEF Held, Inv, TypeOK, Excluded, Grounded
<1>2. CASE Select(t)
  BY <1>2, SelectMapped DEF Mapped
<1>3. CASE Acquire(t)
  <2>1. /\ call[t].pc = "lock" /\ lock = None /\ lock' = t /\ call[t].child # "alive"
        /\ "set" \in Commands
    BY <1>1, <1>3 DEF Acquire, LockFree, Exclusive, Commands
  <2>2. CASE Set(t, Spawned(call[t], "set"))
    BY <2>1, <2>2, SpawnEnters DEF Mapped
  <2> DEFINE c == [call[t] EXCEPT !.pc = "join", !.command = "set", !.child = "failed",
                                  !.timeout = FALSE]
  <2>3. CASE Set(t, c)
    <3>1. /\ c \in Call /\ c.pc = "join" /\ c.child = "failed" /\ c.wrote = call[t].wrote
          /\ c.answer = call[t].answer /\ c.acted = call[t].acted
      BY <1>1 DEF Call, Pcs, Commands, Endings
    <3> HIDE DEF c
    <3>2. Stutters
      BY <1>1, <2>1, <2>3, <3>1, StaysSame
    <3>3. Excluded'
      BY <1>1, <2>1, <2>3, <3>1, OneCallHeld DEF Exclusive
    <3> QED BY <3>2, <3>3 DEF Mapped
  <2> QED BY <1>3, <2>2, <2>3 DEF Acquire
<1>4. CASE Notice(t)
  <2> DEFINE c == [Killed(call[t]) EXCEPT !.pc = "join"]
  <2>1. /\ call[t].pc = "running" /\ call[t].child # "alive" /\ Set(t, c)
        /\ lock' = lock /\ lock = t
    BY <1>1, <1>4 DEF Notice, Exclusive
  <2>2. /\ c \in Call /\ c.pc = "join" /\ c.wrote = call[t].wrote /\ c.answer = call[t].answer
        /\ c.command = call[t].command /\ ~ c.acted /\ c.child = call[t].child
    BY <1>1, <2>1, KilledFields
  <2> HIDE DEF c
  <2>3. Stutters
    BY <1>1, <2>1, <2>2, StaysSame
  <2>4. Excluded'
    BY <1>1, <2>1, <2>2, OneCallHeld DEF Exclusive
  <2> QED BY <2>3, <2>4 DEF Mapped
<1>5. CASE Overdue(t)
  <2> DEFINE c == [Killed(call[t]) EXCEPT !.pc = "join", !.timeout = TRUE, !.child = "killed"]
  <2>1. call[t].pc = "running" /\ Set(t, c) /\ lock' = lock /\ lock = t
    BY <1>1, <1>5 DEF Overdue, Exclusive
  <2>2. /\ c \in Call /\ c.pc = "join" /\ c.wrote = call[t].wrote /\ c.answer = call[t].answer
        /\ c.command = call[t].command /\ ~ c.acted /\ c.child = "killed"
    BY <1>1, KilledFields
  <2> HIDE DEF c
  <2>3. Excluded'
    BY <1>1, <2>1, <2>2, OneCallHeld DEF Exclusive
  <2>4. CASE call[t].child = "alive"
    BY <2>1, <2>2, <2>3, <2>4, ChildLeaves DEF Mapped
  <2>5. CASE call[t].child # "alive"
    BY <1>1, <2>1, <2>2, <2>3, <2>5, StaysSame DEF Mapped
  <2> QED BY <2>4, <2>5
<1>6. CASE AskForHelp(t)
  <2>1. /\ call[t].pc = "join" /\ call[t].child # "alive" /\ lock = t /\ lock' = t
        /\ Set(t, Spawned(call[t], "help")) /\ "help" \in Commands
    BY <1>1, <1>6 DEF AskForHelp, Joined, Exclusive, Commands
  <2> QED BY <2>1, SpawnEnters DEF Mapped
<1>7. CASE RunAdapted(t)
  <2>1. /\ call[t].pc = "join" /\ call[t].child # "alive" /\ lock = t /\ lock' = t
        /\ Set(t, Spawned(call[t], "adapted")) /\ "adapted" \in Commands
    BY <1>1, <1>7 DEF RunAdapted, Joined, Exclusive, Commands
  <2> QED BY <2>1, SpawnEnters DEF Mapped
<1>8. CASE Retry(t)
  <2> DEFINE c == [call[t] EXCEPT !.pc = "lock", !.attempt = 2, !.bus = None]
  <2>1. /\ call[t].pc = "join" /\ call[t].child # "alive" /\ lock = t /\ lock' = None
        /\ Set(t, c)
    BY <1>1, <1>8 DEF Retry, Final, Joined, Exclusive
  <2>2. /\ c \in Call /\ c.pc = "lock" /\ c.child = call[t].child /\ c.wrote = call[t].wrote
        /\ c.answer = call[t].answer /\ c.command = call[t].command /\ c.acted = call[t].acted
    <3> DEFINE n == 2
               w == [call[t] EXCEPT !.pc = "lock", !.attempt = n]
    <3>1. n \in 0..2 /\ c = [w EXCEPT !.bus = None]
      OBVIOUS
    <3> HIDE DEF n
    <3>2. /\ w \in Call /\ w.pc = "lock" /\ w.child = call[t].child /\ w.wrote = call[t].wrote
          /\ w.answer = call[t].answer /\ w.command = call[t].command /\ w.acted = call[t].acted
      BY <1>1, <3>1 DEF Call, Pcs
    <3> HIDE DEF w, c
    <3> QED BY <3>1, <3>2 DEF Call
  <2> HIDE DEF c
  <2>3. Stutters
    BY <1>1, <2>1, <2>2, StaysSame
  <2>4. Excluded'
    BY <1>1, <2>1, <2>2, OneCallHeld DEF Exclusive
  <2> QED BY <2>3, <2>4 DEF Mapped
<1>9. CASE Return(t)
  <2> DEFINE answer == IF Succeeded(call[t]) THEN "ok" ELSE "failed"
             c == [Idle EXCEPT !.wrote = call[t].wrote, !.moved = call[t].moved,
                               !.answer = answer]
  <2>1. /\ call[t].pc = "join" /\ call[t].child # "alive" /\ lock = t /\ lock' = None
        /\ Set(t, c)
    BY <1>1, <1>9 DEF Return, Final, Joined, Exclusive
  <2>2. answer \in {"ok", "failed"} /\ (answer = "ok" => call[t].wrote # None)
    BY <1>1 DEF Succeeded, Exclusive
  <2> HIDE DEF answer
  <2>3. c \in Call /\ c.wrote = call[t].wrote /\ c.answer = answer
    BY <1>1, <2>2, IdleType DEF Call
  <2>4. c.pc = "idle" /\ c.child = "none" /\ ~ c.acted
    BY DEF Idle
  <2> HIDE DEF c
  <2>5. Excluded'
    BY <2>1, <2>3, <2>4, OneCallHeld DEF Exclusive
  <2>6. t \in Open /\ t \notin AtBus /\ (answer = "ok" => t \in Written)
    BY <2>1, <2>2 DEF Open, AtBus, Written
  <2>7. /\ Open' = Open \ {t} /\ AtBus' = AtBus \ {t}
        /\ Written' = IF c.wrote # None THEN Written \cup {t} ELSE Written \ {t}
        /\ Answer' = [Answer EXCEPT ![t] = answer]
    BY <1>1, <2>1, <2>3, <2>4, SetMaps
  <2>8. Written' = Written
    BY <2>3, <2>7 DEF Written
  <2>9. ASSUME NEW a, a = answer PROVE Promise!Return(t, a)
    BY <2>6, <2>7, <2>8, <2>9 DEF Promise!Return, Open, AtBus, Written, Answer
  <2>10. \E a \in {"ok", "failed"} : Promise!Return(t, a)
    BY <2>2, <2>9
  <2>11. Promise!Next
    BY <2>10 DEF Promise!Next
  <2> QED BY <2>5, <2>11 DEF Mapped
<1> QED BY <1>2, <1>3, <1>4, <1>5, <1>6, <1>7, <1>8, <1>9 DEF Step

LEMMA NextMapped ==
    ASSUME Held, Lockable, [Next]_vars
    PROVE  Held' /\ Mapped
<1>1. Inv'
  BY NextInv DEF Held
<1>2. ASSUME NEW c \in Connector, NEW p \in Panel \cup {None}, Move(c, p)
      PROVE  Excluded' /\ Mapped
  BY <1>2, MoveMapped DEF Mapped
<1>3. ASSUME Discover \/ UNCHANGED vars PROVE Excluded' /\ Mapped
  <2>1. call' = call /\ lock' = lock
    BY <1>3 DEF Discover, vars
  <2>2. Excluded'
    BY <2>1 DEF Held, Excluded
  <2>3. Stutters
    BY <2>1 DEF Stutters, Open, AtBus, Written, Answer
  <2>4. Mapped
    BY <2>3 DEF Mapped
  <2> QED BY <2>2, <2>4
<1>4. ASSUME NEW S \in SUBSET Target, Dispatch(S) PROVE Excluded' /\ Mapped
  BY <1>4, BeginMapped DEF Dispatch, Mapped
<1>5. ASSUME NEW t \in Target, Correct(t) PROVE Excluded' /\ Mapped
  BY <1>5, BeginMapped DEF Correct, Mapped
<1>6. ASSUME NEW t \in Target, Step(t) \/ ChildActs(t) PROVE Excluded' /\ Mapped
  BY <1>6, StepMapped, ChildActsMapped DEF Mapped
<1>7. ASSUME NEW t \in Target, NEW helper \in BOOLEAN, NEW ending \in Endings \ {"killed"},
             ChildEnds(t, ending, helper)
      PROVE  Excluded' /\ Mapped
  BY <1>7, ChildEndsMapped DEF Mapped
<1>8. Excluded' /\ Mapped
  BY <1>2, <1>3, <1>4, <1>5, <1>6, <1>7 DEF Next
<1>9. Held'
  BY <1>1, <1>8 DEF Held
<1> QED BY <1>8, <1>9

\* Only the owner of the lock has a child, and success means that one wrote.
LEMMA HeldHolds == ASSUME Lockable PROVE Spec => []Held
<1>1. Init => Held
  BY HeldInit
<1>2. Held /\ [Next]_vars => Held'
  BY NextMapped
<1> QED BY <1>1, <1>2, PTL DEF Spec

\* Every step of a call is a step of BrightnessCalls or none: whatever ddcutil
\* does, nothing is written once a call has returned, one call at a time is at
\* the bus, and success is only reported for a monitor that was written.  It
\* takes a lock file that can be locked.
THEOREM CallsRefine ==
    ASSUME Lockable
    PROVE  Spec => Promise!Init /\ [][Promise!Next]_(Promise!vars)
<1>1. Init => Promise!Init
  BY HeldInit
<1>2. Held /\ [Next]_vars => [Promise!Next]_(Promise!vars)
  BY NextMapped, StuttersMapped
<1> QED BY <1>1, <1>2, HeldHolds, PTL DEF Spec

\* The calls keep their promise as soon as each of them returns, which the
\* fairness of the threads is for.
COROLLARY CallsThatReturnKeepTheirPromise ==
    ASSUME Lockable
    PROVE  Spec /\ Promise!Returns => CallsKeepTheirPromise
BY CallsRefine, PTL DEF CallsKeepTheirPromise, Promise!Spec
=============================================================================
