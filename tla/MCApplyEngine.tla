--------------------------- MODULE MCApplyEngine ---------------------------
(* Values for model-checking ApplyEngine.                                  *)
EXTENDS ApplyEngine

CONSTANTS m1, m2

OneMonitor == {m1}
TwoMonitors == {m1, m2}
NoMonitor == {}
OnlyM2 == {m2}
BothKinds == {"transient", "persistent"}
OneKind == {"transient"}
NoSavedBackoff == {None}
HeldAtStart == {None, [kind |-> "transient", failures |-> 1, left |-> 1]}

(***************************************************************************)
(* With two monitors the daemon starts in its usual state: every monitor   *)
(* is awake, enabled and dark but asked to be bright, nothing is suspended *)
(* and transitions are smooth.  Requests and the environment lead away     *)
(* from it.                                                                *)
(***************************************************************************)
UsualStart ==
    /\ Init
    /\ awake = Monitors
    /\ hw = [m \in Monitors |-> 0]
    /\ target = [m \in Monitors |-> MaxPercent]
    /\ suspended = "no"
    /\ config = [enabled |-> Monitors, smooth |-> TRUE, dryRun |-> FALSE]

UsualSpec == UsualStart /\ [][Next]_vars /\ Fairness
=============================================================================
