--------------------------- MODULE BrightnessMath ---------------------------
(***************************************************************************)
(* The pure arithmetic of the daemon: hysteresis, the per-tick step        *)
(* limiter, the interpolation of a fade and the failure backoff delay.     *)
(*                                                                         *)
(* Percentages are natural numbers and None stands for Option::None.  The  *)
(* code works on u8 values that were clamped to 0..100 before they reach   *)
(* these functions, so no operation here can overflow its width.           *)
(***************************************************************************)
EXTENDS Integers

CONSTANT None       \* the absent value of an Option

ASSUME NoneAssumption == None \notin Int

Least(a, b) == IF a <= b THEN a ELSE b

AbsDiff(a, b) == IF a <= b THEN b - a ELSE a - b

\* state/transitions.rs, should_skip_hysteresis
ShouldSkipHysteresis(last, requested, minDelta) ==
    /\ minDelta # 0
    /\ last # None
    /\ AbsDiff(requested, last) < minDelta

\* Mutant: the step is not clamped to the request.
LimitStepSizeOvershooting(last, requested, maxStep) ==
    IF last = None \/ maxStep = 0 THEN requested
    ELSE IF requested > last THEN last + maxStep ELSE last - maxStep

\* state/transitions.rs, limit_step_size: at most maxStep towards requested.
LimitStepSize(last, requested, maxStep) ==
    IF last = None \/ maxStep = 0 \/ AbsDiff(last, requested) <= maxStep
    THEN requested
    ELSE IF requested > last THEN last + maxStep ELSE last - maxStep

(***************************************************************************)
(* runtime/fade.rs, FadeEngine::process_tick: the percent a fade writes at *)
(* step number step of total.  The product is signed in the code and Rust  *)
(* rounds the quotient towards zero, hence the two cases.                  *)
(***************************************************************************)
FadePercent(start, goal, step, total) ==
    IF step >= total THEN goal
    ELSE IF goal >= start
         THEN start + ((goal - start) * step) \div total
         ELSE start - ((start - goal) * step) \div total

-----------------------------------------------------------------------------
\* The values of 1u64 << shift for the shifts 0..16 that backoff_delay uses.
Shifted == <<1, 2, 4, 8, 16, 32, 64, 128, 256, 512, 1024, 2048, 4096, 8192,
             16384, 32768, 65536>>

\* state/transitions.rs, backoff_delay: base, 2 base, 4 base, ... up to max.
BackoffDelay(failures, base, max) ==
    LET shift == IF failures = 0 THEN 0 ELSE Least(failures - 1, 16)
    IN  Least(base * Shifted[shift + 1], max)

(***************************************************************************)
(* state/transitions.rs, next_failure_backoff: a failure of the class that *)
(* is already recorded lengthens the sequence, another class restarts it.  *)
(* The backend is part of a monitor's configuration and is left out.  cap  *)
(* bounds the failure counter (u32::MAX, saturating, in the code).         *)
(***************************************************************************)
NextFailureBackoff(previous, kind, base, max, cap) ==
    LET failures == IF previous # None /\ previous.kind = kind
                    THEN Least(previous.failures + 1, cap)
                    ELSE 1
    IN  [kind |-> kind, failures |-> failures,
         left |-> BackoffDelay(failures, base, max)]
=============================================================================
