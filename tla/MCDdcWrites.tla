----------------------------- MODULE MCDdcWrites -----------------------------
\* Two connectors, two panels of the same model, and a backlight that the
\* ddcci driver makes of the panel at c1; two targets with selectors that may
\* overlap in every way.
EXTENDS DdcWrites, TLC

CONSTANTS c1, c2, p1, p2, ddcci

Serials == (p1 :> "s1") @@ (p2 :> "s2")
Models == (p1 :> "m1") @@ (p2 :> "m1")
Edids == (p1 :> "e1") @@ (p2 :> "e2")
MayLack == (p1 :> {{}, {"answer"}, {"connector"}}) @@ (p2 :> {{}})
          @@ (ddcci :> {{}, {"connector"}})
Aliases == (ddcci :> c1)

Sel(serial, model, edid, bus, connector) ==
    [serial |-> serial, model |-> model, edid |-> edid, bus |-> bus, connector |-> connector]
Screen(id, sel, retarget) ==
    [id |-> id, backend |-> "ddc", enabled |-> TRUE, retarget |-> retarget,
     sel |-> sel, pin |-> None]
BacklightAt(id, pin) ==
    [id |-> id, backend |-> "backlight", enabled |-> TRUE, retarget |-> FALSE,
     sel |-> NoSelector, pin |-> pin]

First == {Screen(1, Sel("s1", "m1", None, None, c1), FALSE),
          Screen(1, Sel(None, "m1", None, None, c1), FALSE),
          Screen(1, Sel(None, None, None, c1, None), TRUE)}
Second == {Screen(2, Sel("s2", None, None, None, c2), FALSE),
           Screen(2, Sel("s1", None, None, None, c2), FALSE),
           Screen(2, Sel(None, None, None, c2, None), FALSE),
           BacklightAt(2, ddcci)}
MCConfigs == {{f, s} : f \in First, s \in Second}
=============================================================================
