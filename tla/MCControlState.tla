--------------------------- MODULE MCControlState ---------------------------
(* Values for model-checking ControlState.                                 *)
EXTENDS ControlState

CONSTANTS m1, m2

BothMonitors == {m1, m2}
=============================================================================
