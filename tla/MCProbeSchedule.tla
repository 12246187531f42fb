--------------------------- MODULE MCProbeSchedule ---------------------------
(* The instance of ProbeSchedule: two monitors. *)
EXTENDS ProbeSchedule

CONSTANTS m1, m2

MCMonitor == {m1, m2}
=============================================================================
