------------------------ MODULE ApplyEngine_proofs ------------------------
(***************************************************************************)
(* Type correctness and safety of ApplyEngine, for any number of monitors, *)
(* any settings and any number of requests, failures and disturbances.     *)
(*                                                                         *)
(* Every step of the daemon and its world is of one of seven kinds as far  *)
(* as beliefs, fades and writes go (KindsOfStep).  The invariants build on *)
(* each other: one owner per monitor, then beliefs that are the last write,*)
(* then fades that are where their steps have brought the monitor.         *)
(***************************************************************************)
EXTENDS ApplyEngine, BrightnessMath_proofs

-----------------------------------------------------------------------------
(* Type correctness.                                                        *)

\* Ages stay within their cap as they grow.
LEMMA AgesTyped == 0 \in Age /\ \A a \in Age \cup {None} : Aged(a) \in Age \cup {None}
PROOF
<1>1. AgeCap \in Nat
  BY IntervalAssumption, SMT DEF AgeCap
<1> QED
  BY <1>1, NoneAssumption, SMT DEF Age, Aged, Least

\* Recording a failure keeps the counter and the delay within their caps.
LEMMA FailureTyped ==
    ASSUME NEW previous \in Backoff \cup {None}, NEW kind \in FailureKinds
    PROVE  NextFailureBackoff(previous, kind, BackoffBase, BackoffMax, FailureCap) \in Backoff
PROOF
<1> DEFINE failures == IF previous # None /\ previous.kind = kind
                       THEN Least(previous.failures + 1, FailureCap) ELSE 1
<1>1. BackoffBase \in Nat /\ BackoffMax \in Nat /\ FailureCap \in Nat \ {0}
  BY BackoffAssumption
<1>2. failures \in 1 .. FailureCap
  BY <1>1, SMT DEF Least, Backoff
<1>3. BackoffDelay(failures, BackoffBase, BackoffMax) \in 0 .. BackoffMax
  <2>1. failures \in Nat
    BY <1>1, <1>2, SMT
  <2> HIDE DEF failures
  <2> QED
    BY <1>1, <2>1, BackoffDelayInRange
<1> QED
  BY <1>2, <1>3 DEF NextFailureBackoff, Backoff

\* The entries of the bookkeeping that the daemon writes are of its type.
LEMMA BookkeepingTyped ==
    /\ \A p \in Percent : ApplySucceeded(p) \in MonitorState
    /\ \A s \in MonitorState :
          /\ IntegrityChecked(s) \in MonitorState
          /\ \A kind \in FailureKinds : ApplyFailed(s, kind) \in MonitorState
          /\ \A clear \in BOOLEAN : Resynced(s, clear) \in MonitorState
PROOF
<1>1. \A p \in Percent : ApplySucceeded(p) \in MonitorState
  BY AgesTyped DEF ApplySucceeded, MonitorState
<1>2. ASSUME NEW s \in MonitorState PROVE IntegrityChecked(s) \in MonitorState
  BY AgesTyped DEF IntegrityChecked, MonitorState
<1>3. ASSUME NEW s \in MonitorState, NEW kind \in FailureKinds
      PROVE  ApplyFailed(s, kind) \in MonitorState
  <2>1. NextFailureBackoff(s.backoff, kind, BackoffBase, BackoffMax, FailureCap) \in Backoff
    <3>1. s.backoff \in Backoff \cup {None}
      BY DEF MonitorState
    <3> QED
      BY <3>1, FailureTyped
  <2> QED
    BY <2>1 DEF ApplyFailed, MonitorState
<1>4. ASSUME NEW s \in MonitorState, NEW clear \in BOOLEAN
      PROVE  Resynced(s, clear) \in MonitorState
  BY DEF Resynced, MonitorState
<1> QED
  BY <1>1, <1>2, <1>3, <1>4

\* What a tick writes, after the step limit, is a percent.
LEMMA AppliedPercentTyped ==
    ASSUME NEW force \in BOOLEAN, NEW s \in MonitorState, NEW requested \in Percent,
           NEW smooth \in BOOLEAN
    PROVE  AppliedPercent(force, s, requested, smooth) \in Percent
PROOF
<1>1. Settings(force).maxStep \in Nat
  BY IntervalAssumption DEF Settings
<1>2. s.last \in Percent \cup {None}
  BY DEF MonitorState
<1>3. LimitStepSize(s.last, requested, Settings(force).maxStep) \in Percent
  BY <1>1, <1>2, IntervalAssumption, LimitStepSizeInRange DEF Percent
<1> QED
  BY <1>3 DEF AppliedPercent

\* Phase 1 of a tick leaves the daemon with well-typed decisions.
LEMMA TickTyped ==
    ASSUME TypeOK, NEW force \in BOOLEAN, NEW st \in [Monitors -> MonitorState],
           NEW tgt \in [Monitors -> Percent], NEW susp, NEW cfg \in Config, NEW seen,
           Tick(force, st, tgt, susp, cfg, seen)
    PROVE  /\ mon' \in [Monitors -> MonitorState]
           /\ fades' \in [Monitors -> Fade \cup {None}]
           /\ work' \in [Monitors -> Work \cup {None}]
PROOF
<1>1. CASE ~ TickRuns(susp, seen)
  BY <1>1 DEF Tick, TypeOK
<1>2. CASE TickRuns(susp, seen)
  <2>1. cfg.smooth \in BOOLEAN
    BY DEF Config
  <2>2. \A m \in Monitors :
           /\ AppliedPercent(force, st[m], tgt[m], cfg.smooth) \in Percent
           /\ AppliedPercent(force, st[m], tgt[m], TRUE) \in Percent
    BY <2>1, AppliedPercentTyped
  <2>3. mon' \in [Monitors -> MonitorState]
    BY <1>2, BookkeepingTyped DEF Tick
  <2>4. \A m \in Monitors : NewFade(force, st[m], tgt[m]) \in Fade
    BY <2>2 DEF NewFade, FadeFrom, Fade, MonitorState
  <2>5. fades' \in [Monitors -> Fade \cup {None}]
    BY <1>2, <2>4 DEF Tick, FadesAfter, TypeOK
  <2>6. work' \in [Monitors -> Work \cup {None}]
    <3>1. \A m \in Monitors :
             [percent |-> AppliedPercent(force, st[m], tgt[m], cfg.smooth),
              result |-> "running"] \in Work
      BY <2>2 DEF Work
    <3> QED
      BY <1>2, <3>1, Zenon DEF Tick
  <2> QED
    BY <2>3, <2>5, <2>6
<1> QED
  BY <1>1, <1>2

\* What a fade writes at any of its steps is a percent.
LEMMA PercentAtTyped ==
    ASSUME NEW f \in Fade, NEW step \in Nat
    PROVE  PercentAt(f, step) \in Percent
PROOF
<1>1. StepsTotal(f) \in Nat \ {0}
  BY FadeAssumption DEF StepsTotal
<1> QED
  BY <1>1, IntervalAssumption, FadePercentInRange DEF PercentAt, Fade, Percent

\* The initial states have the right types.
LEMMA InitTyped == Init => TypeOK
PROOF
<1> SUFFICES ASSUME Init PROVE TypeOK
  OBVIOUS
<1>1. mon \in [Monitors -> MonitorState]
  BY BackoffAssumption DEF Init, MonitorState
<1>2. disturbed \in 0 .. MaxDisturbances
  BY DisturbanceAssumption DEF Init
<1> QED
  BY <1>1, <1>2 DEF Init, TypeOK

\* Environment steps and requests stay within their bound.
LEMMA DisturbTyped == TypeOK /\ Disturb => disturbed' \in 0 .. MaxDisturbances
PROOF
  BY DisturbanceAssumption, SMT DEF TypeOK, Disturb

\* The end of a dispatch thread, either way.
LEMMA DispatchTyped ==
    ASSUME TypeOK, NEW m \in Monitors,
           DispatchSucceeds(m) \/ \E kind \in FailureKinds : DispatchFails(m, kind)
    PROVE  TypeOK'
PROOF
<1>1. work[m] \in Work
  BY DEF TypeOK, DispatchSucceeds, DispatchFails
<1>2. CASE DispatchSucceeds(m)
  <2>1. [work[m] EXCEPT !.result = "ok"] \in Work
    BY <1>1 DEF Work
  <2>2. work' \in [Monitors -> Work \cup {None}]
    BY <1>2, <2>1 DEF TypeOK, DispatchSucceeds
  <2>3. work[m].percent \in Percent
    BY <1>1 DEF Work
  <2> QED
    BY <1>2, <2>2, <2>3 DEF TypeOK, DispatchSucceeds, loopVars
<1>3. ASSUME NEW kind \in FailureKinds, DispatchFails(m, kind) PROVE TypeOK'
  <2>1. [work[m] EXCEPT !.result = kind] \in Work
    BY <1>1 DEF Work
  <2>2. work' \in [Monitors -> Work \cup {None}]
    BY <1>3, <2>1 DEF TypeOK, DispatchFails
  <2>3. work[m].percent \in Percent
    BY <1>1 DEF Work
  <2>4. hw' \in [Monitors -> Percent]
    BY <1>3, <2>3 DEF TypeOK, DispatchFails
  <2>5. disturbed' \in 0 .. MaxDisturbances
    BY <1>3, DisturbTyped DEF TypeOK, DispatchFails
  <2> QED
    BY <1>3, <2>2, <2>4, <2>5 DEF TypeOK, DispatchFails, loopVars
<1> QED
  BY <1>2, <1>3

\* The commit of a tick records well-typed outcomes.
LEMMA CommitTyped == TypeOK /\ Commit => TypeOK'
PROOF
<1> SUFFICES ASSUME TypeOK, Commit PROVE TypeOK'
  OBVIOUS
<1>1. ASSUME NEW m \in Monitors, work[m] # None PROVE Outcome(m) \in MonitorState
  <2>1. work[m] \in Work /\ mon[m] \in MonitorState
    BY <1>1 DEF TypeOK
  <2>2. work[m].percent \in Percent /\ work[m].result \in {"running", "ok"} \cup FailureKinds
    BY <2>1 DEF Work
  <2>3. work[m].result # "running"
    BY <1>1 DEF Commit
  <2> QED
    BY <2>1, <2>2, <2>3, BookkeepingTyped DEF Outcome
<1>2. mon' \in [Monitors -> MonitorState]
  BY <1>1 DEF TypeOK, Commit
<1> QED
  BY <1>2 DEF TypeOK, Commit, envVars, loopVars

\* A fade step writes percents and leaves well-typed fades.
LEMMA FadeStepTyped == TypeOK /\ FadeStep => TypeOK'
PROOF
<1> SUFFICES ASSUME TypeOK, FadeStep PROVE TypeOK'
  OBVIOUS
<1> DEFINE active == {m \in Monitors : fades[m] # None}
           next == [m \in active |-> NextStep(fades[m])]
           percent == [m \in active |-> PercentAt(next[m], next[m].step)]
<1>1. \A m \in active : next[m] \in Fade
  BY SMT DEF TypeOK, NextStep, Fade
<1>2. \A m \in active : percent[m] \in Percent
  <2>1. \A m \in active : next[m].step \in Nat
    BY <1>1 DEF Fade
  <2> HIDE DEF next
  <2> QED
    BY <1>1, <2>1, PercentAtTyped
<1> HIDE DEF next, percent
<1>3. PICK failed \in SUBSET active, obeyed \in SUBSET (active \cap awake) :
        \E kind \in [failed -> FailureKinds] :
             /\ active \ failed \subseteq obeyed
             /\ IF failed = active \ awake THEN UNCHANGED disturbed ELSE Disturb
             /\ hw' = [m \in Monitors |-> IF m \in obeyed THEN percent[m] ELSE hw[m]]
             /\ written' = [m \in Monitors |->
                              IF m \in active \ failed THEN percent[m] ELSE written[m]]
             /\ mon' = [m \in Monitors |->
                          IF m \in failed THEN ApplyFailed(mon[m], kind[m])
                          ELSE IF m \in active THEN ApplySucceeded(percent[m])
                          ELSE mon[m]]
             /\ fades' = [m \in Monitors |->
                            IF m \in active THEN FadeAfterStep(next[m], m \in failed)
                            ELSE None]
  BY DEF FadeStep, next, percent
<1>4. PICK kind \in [failed -> FailureKinds] :
             mon' = [m \in Monitors |->
                          IF m \in failed THEN ApplyFailed(mon[m], kind[m])
                          ELSE IF m \in active THEN ApplySucceeded(percent[m])
                          ELSE mon[m]]
  BY <1>3
<1>5. mon' \in [Monitors -> MonitorState]
  BY <1>2, <1>4, BookkeepingTyped DEF TypeOK
<1>6. hw' \in [Monitors -> Percent] /\ written' \in [Monitors -> Percent \cup {None}]
  BY <1>2, <1>3 DEF TypeOK
<1>7. fades' \in [Monitors -> Fade \cup {None}]
  BY <1>1, <1>3 DEF FadeAfterStep
<1>8. disturbed' \in 0 .. MaxDisturbances
  BY <1>3, DisturbTyped DEF TypeOK
<1> QED
  BY <1>5, <1>6, <1>7, <1>8 DEF TypeOK, FadeStep, loopVars

\* A probe rewrites monitors with percents.
LEMMA ProbeTyped == TypeOK /\ Probe => TypeOK'
PROOF
<1> SUFFICES ASSUME TypeOK, Probe PROVE TypeOK'
  OBVIOUS
<1>1. mon' \in [Monitors -> MonitorState]
  BY BookkeepingTyped DEF TypeOK, Probe
<1>2. hw' \in [Monitors -> Percent] /\ written' \in [Monitors -> Percent \cup {None}]
  BY DEF TypeOK, Probe
<1>3. disturbed' \in 0 .. MaxDisturbances
  BY DisturbTyped DEF TypeOK, Probe
<1> QED
  BY <1>1, <1>2, <1>3 DEF TypeOK, Probe, loopVars

\* The passing of time keeps ages and countdowns in their ranges.
LEMMA AdvanceClockTyped == TypeOK /\ AdvanceClock => TypeOK'
PROOF
<1> SUFFICES ASSUME TypeOK, AdvanceClock PROVE TypeOK'
  OBVIOUS
<1>1. ASSUME NEW b \in Backoff, b.left # 0 PROVE [b EXCEPT !.left = @ - 1] \in Backoff
  BY <1>1, BackoffAssumption, SMT DEF Backoff
<1>2. ASSUME NEW s \in MonitorState PROVE Elapsed(s) \in MonitorState
  <2>1. Aged(s.appliedAge) \in Age \cup {None} /\ Aged(s.checkAge) \in Age \cup {None}
    BY AgesTyped DEF MonitorState
  <2>2. Remaining(s.backoff) \in Backoff \cup {None}
    BY <1>1 DEF MonitorState, Remaining
  <2> QED
    BY <2>1, <2>2 DEF MonitorState, Elapsed
<1>3. mon' = [m \in Monitors |-> Elapsed(mon[m])]
  BY DEF AdvanceClock
<1>4. mon' \in [Monitors -> MonitorState]
  BY <1>2, <1>3 DEF TypeOK
<1>5. suspended' \in {"no", "timed", "indefinite"} /\ tickDue' \in BOOLEAN
  BY DEF TypeOK, AdvanceClock
<1> QED
  BY <1>4, <1>5 DEF TypeOK, AdvanceClock, envVars

\* The requests, most of which run a forced tick.
LEMMA RequestTyped == TypeOK /\ Request => TypeOK'
PROOF
<1> SUFFICES ASSUME TypeOK, Request PROVE TypeOK'
  OBVIOUS
<1> DEFINE resynced(clear) == [m \in Monitors |-> Resynced(mon[m], clear)]
<1>0. \A clear \in BOOLEAN : resynced(clear) \in [Monitors -> MonitorState]
  BY BookkeepingTyped DEF TypeOK
<1>1. ASSUME NEW kind \in {"timed", "indefinite"}, Suspend(kind) PROVE TypeOK'
  BY <1>1, DisturbTyped DEF TypeOK, Suspend
<1>2. ASSUME NEW tgt \in [Monitors -> Percent], Resume(tgt) PROVE TypeOK'
  <2>1. Tick(TRUE, resynced(TRUE), tgt, "no", config, caps)
    BY <1>2 DEF Resume
  <2> HIDE DEF resynced
  <2>2. /\ mon' \in [Monitors -> MonitorState]
        /\ fades' \in [Monitors -> Fade \cup {None}]
        /\ work' \in [Monitors -> Work \cup {None}]
    <3>1. config \in Config
      BY DEF TypeOK
    <3> QED
      BY <1>0, <2>1, <3>1, TickTyped
  <2> QED
    BY <1>2, <2>2, DisturbTyped DEF TypeOK, Resume
<1>3. ASSUME NEW tgt \in [Monitors -> Percent], ForcedRequest(tgt) PROVE TypeOK'
  <2>1. /\ mon' \in [Monitors -> MonitorState]
        /\ fades' \in [Monitors -> Fade \cup {None}]
        /\ work' \in [Monitors -> Work \cup {None}]
    <3>1. config \in Config /\ mon \in [Monitors -> MonitorState]
      BY DEF TypeOK
    <3> QED
      BY <1>3, <3>1, TickTyped DEF ForcedRequest
  <2> QED
    BY <1>3, <2>1, DisturbTyped DEF TypeOK, ForcedRequest
<1>4. ASSUME NEW tgt \in [Monitors -> Percent], IdleWake(tgt) PROVE TypeOK'
  BY <1>4, DisturbTyped DEF TypeOK, IdleWake
<1>5. ASSUME NEW force \in BOOLEAN, RunOnce(force) PROVE TypeOK'
  <2>1. /\ mon' \in [Monitors -> MonitorState]
        /\ fades' \in [Monitors -> Fade \cup {None}]
        /\ work' \in [Monitors -> Work \cup {None}]
    <3>1. /\ config \in Config /\ mon \in [Monitors -> MonitorState]
          /\ target \in [Monitors -> Percent]
      BY DEF TypeOK
    <3> QED
      BY <1>5, <3>1, TickTyped DEF RunOnce
  <2> QED
    BY <1>5, <2>1, DisturbTyped DEF TypeOK, RunOnce
<1>6. ASSUME NEW cfg \in Config, ReloadConfig(cfg) PROVE TypeOK'
  <2>1. /\ mon' \in [Monitors -> MonitorState]
        /\ fades' \in [Monitors -> Fade \cup {None}]
        /\ work' \in [Monitors -> Work \cup {None}]
    <3>1. mon \in [Monitors -> MonitorState] /\ target \in [Monitors -> Percent]
      BY DEF TypeOK
    <3> QED
      BY <1>6, <3>1, TickTyped DEF ReloadConfig
  <2> QED
    BY <1>6, <2>1, DisturbTyped DEF TypeOK, ReloadConfig
<1>7. ASSUME NEW clear \in BOOLEAN, Resync(clear) PROVE TypeOK'
  <2>1. Tick(TRUE, resynced(clear), target, suspended, config, caps)
    BY <1>7 DEF Resync
  <2>2. resynced(clear) \in [Monitors -> MonitorState]
    BY <1>0
  <2> HIDE DEF resynced
  <2>3. /\ mon' \in [Monitors -> MonitorState]
        /\ fades' \in [Monitors -> Fade \cup {None}]
        /\ work' \in [Monitors -> Work \cup {None}]
    <3>1. config \in Config /\ target \in [Monitors -> Percent]
      BY DEF TypeOK
    <3> QED
      BY <2>1, <2>2, <3>1, TickTyped
  <2> QED
    BY <1>7, <2>3, DisturbTyped DEF TypeOK, Resync
<1> QED
  BY <1>1, <1>2, <1>3, <1>4, <1>5, <1>6, <1>7 DEF Request

\* The steps of the policy, the desktop, the user and the monitors.
LEMMA EnvironmentTyped == TypeOK /\ Environment => TypeOK'
PROOF
<1> SUFFICES ASSUME TypeOK, Environment PROVE TypeOK'
  OBVIOUS
<1>1. ASSUME NEW m \in Monitors, FallsAsleep(m) PROVE TypeOK'
  BY <1>1, DisturbTyped DEF TypeOK, FallsAsleep, loopVars
<1>2. ASSUME NEW m \in Monitors, NEW p \in Percent, PolicyMoves(m, p) PROVE TypeOK'
  BY <1>2, DisturbTyped DEF TypeOK, PolicyMoves, loopVars
<1>3. ASSUME NEW m \in Monitors, NEW p \in Percent, ExternalWrite(m, p) PROVE TypeOK'
  BY <1>3, DisturbTyped DEF TypeOK, ExternalWrite, loopVars
<1>4. ASSUME NEW m \in Monitors, NEW p \in Percent, WakesUp(m, p) PROVE TypeOK'
  BY <1>4, DisturbTyped DEF TypeOK, WakesUp, loopVars
<1> QED
  BY <1>1, <1>2, <1>3, <1>4 DEF Environment

\* Every variable keeps its type: no step limit, interpolation or backoff ever
\* leaves its range, in particular every percent written is one.
THEOREM TypeCorrect == Spec => []TypeOK
PROOF
<1>1. Init => TypeOK
  BY InitTyped
<1>2. TypeOK /\ [Next]_vars => TypeOK'
  <2> SUFFICES ASSUME TypeOK, [Next]_vars PROVE TypeOK'
    OBVIOUS
  <2>1. CASE BeginObservation
    BY <2>1 DEF TypeOK, BeginObservation, envVars
  <2>2. CASE ObservationPublished
    <3>1. config \in Config /\ mon \in [Monitors -> MonitorState] /\ target \in [Monitors -> Percent]
      BY DEF TypeOK
    <3>2. Tick(FALSE, mon, target, suspended, config, caps')
      BY <2>2 DEF ObservationPublished
    <3>3. /\ mon' \in [Monitors -> MonitorState]
          /\ fades' \in [Monitors -> Fade \cup {None}]
          /\ work' \in [Monitors -> Work \cup {None}]
      BY <3>1, <3>2, TickTyped
    <3> QED
      BY <2>2, <3>3 DEF TypeOK, ObservationPublished, envVars
  <2>3. CASE ObservationLost
    BY <2>3, DisturbTyped DEF TypeOK, ObservationLost
  <2>4. CASE FadeStep
    BY <2>4, FadeStepTyped
  <2>5. CASE Probe
    BY <2>5, ProbeTyped
  <2>6. CASE AdvanceClock
    BY <2>6, AdvanceClockTyped
  <2>7. CASE Dispatch
    BY <2>7, DispatchTyped DEF Dispatch
  <2>8. CASE Commit
    BY <2>8, CommitTyped
  <2>9. CASE Request
    BY <2>9, RequestTyped
  <2>10. CASE Environment
    BY <2>10, EnvironmentTyped
  <2>11. CASE UNCHANGED vars
    BY <2>11 DEF TypeOK, vars
  <2> QED
    BY <2>1, <2>2, <2>3, <2>4, <2>5, <2>6, <2>7, <2>8, <2>9, <2>10, <2>11 DEF Next
<1> QED
  BY <1>1, <1>2, PTL DEF Spec

-----------------------------------------------------------------------------
(* The steps that matter to what is written.                                *)

\* A tick, whoever runs it: it starts when nothing is being dispatched, from
\* bookkeeping that may have been forgotten by a resync but is never invented,
\* and decides by the values that hold after the step.
TickStep ==
    /\ ~ dispatching
    /\ UNCHANGED <<hw, written>>
    /\ \E force \in BOOLEAN, st \in [Monitors -> MonitorState] :
          /\ \A m \in Monitors : st[m].last \in {mon[m].last, None}
          /\ Tick(force, st, target', suspended', config', caps')

\* A request either runs one forced tick or leaves beliefs, fades and dispatches
\* alone, and so does the scheduled tick.
LEMMA RequestsTick ==
    TypeOK /\ (Request \/ ObservationPublished)
        => TickStep \/ UNCHANGED <<mon, fades, work, written>>
PROOF
<1> SUFFICES ASSUME TypeOK, Request \/ ObservationPublished
             PROVE  TickStep \/ UNCHANGED <<mon, fades, work, written>>
  OBVIOUS
<1>0. /\ mon \in [Monitors -> MonitorState]
      /\ \A m \in Monitors : mon[m].last \in {mon[m].last, None}
  BY DEF TypeOK
<1> DEFINE resynced(clear) == [m \in Monitors |-> Resynced(mon[m], clear)]
<1>1. ASSUME NEW clear \in BOOLEAN
      PROVE  /\ resynced(clear) \in [Monitors -> MonitorState]
             /\ \A m \in Monitors : resynced(clear)[m].last \in {mon[m].last, None}
  <2>1. \A m \in Monitors : Resynced(mon[m], clear) \in MonitorState
    BY <1>0, BookkeepingTyped
  <2>2. \A m \in Monitors : Resynced(mon[m], clear).last = None
    BY <1>0 DEF Resynced, MonitorState
  <2> QED
    BY <2>1, <2>2
<1>2. CASE ObservationPublished
  BY <1>0, <1>2 DEF ObservationPublished, TickStep, envVars
<1>3. ASSUME NEW kind \in {"timed", "indefinite"}, Suspend(kind)
      PROVE  UNCHANGED <<mon, fades, work, written>>
  BY <1>3 DEF Suspend
<1>4. ASSUME NEW tgt \in [Monitors -> Percent], Resume(tgt) PROVE TickStep
  <2>1. Tick(TRUE, resynced(TRUE), target', suspended', config', caps')
    BY <1>4 DEF Resume
  <2> HIDE DEF resynced
  <2> QED
    BY <1>1, <1>4, <2>1 DEF Resume, TickStep
<1>5. ASSUME NEW tgt \in [Monitors -> Percent], ForcedRequest(tgt) PROVE TickStep
  BY <1>0, <1>5 DEF ForcedRequest, TickStep
<1>6. ASSUME NEW tgt \in [Monitors -> Percent], IdleWake(tgt)
      PROVE  UNCHANGED <<mon, fades, work, written>>
  BY <1>6 DEF IdleWake
<1>7. ASSUME NEW force \in BOOLEAN, RunOnce(force) PROVE TickStep
  BY <1>0, <1>7 DEF RunOnce, TickStep
<1>8. ASSUME NEW cfg \in Config, ReloadConfig(cfg) PROVE TickStep
  BY <1>0, <1>8 DEF ReloadConfig, TickStep
<1>9. ASSUME NEW clear \in BOOLEAN, Resync(clear) PROVE TickStep
  <2>1. Tick(TRUE, resynced(clear), target', suspended', config', caps')
    BY <1>9 DEF Resync
  <2> HIDE DEF resynced
  <2> QED
    BY <1>1, <1>9, <2>1 DEF Resync, TickStep
<1> QED
  BY <1>2, <1>3, <1>4, <1>5, <1>6, <1>7, <1>8, <1>9 DEF Request

\* Every step is one of seven kinds as far as writes and beliefs go.
LEMMA KindsOfStep ==
    ASSUME TypeOK, [Next]_vars
    PROVE  \/ UNCHANGED <<mon, fades, work, written>>
           \/ TickStep \/ FadeStep \/ Probe \/ AdvanceClock \/ Dispatch \/ Commit
PROOF
<1>1. CASE BeginObservation
  BY <1>1 DEF BeginObservation, envVars
<1>2. CASE ObservationLost
  BY <1>2 DEF ObservationLost
<1>3. CASE Environment
  BY <1>3 DEF Environment, FallsAsleep, PolicyMoves, ExternalWrite, WakesUp
<1>4. CASE Request \/ ObservationPublished
  BY <1>4, RequestsTick
<1>5. CASE UNCHANGED vars
  BY <1>5 DEF vars
<1> QED
  BY <1>1, <1>2, <1>3, <1>4, <1>5 DEF Next

\* What phase 1 of a tick that runs has decided for a monitor.
LEMMA TickDecides ==
    ASSUME NEW force, NEW st, NEW tgt, NEW susp, NEW cfg, NEW seen,
           Tick(force, st, tgt, susp, cfg, seen), TickRuns(susp, seen),
           NEW m \in Monitors
    PROVE  /\ mon'[m] \in {st[m], IntegrityChecked(st[m])}
           /\ fades'[m] # None =>
                \/ /\ FadesTo(m, force, st[m], tgt[m], cfg, seen)
                   /\ fades'[m] = NewFade(force, st[m], tgt[m])
                \/ fades'[m] = fades[m]
           /\ work'[m] # None =>
                /\ Proceeds(m, force, st[m], tgt[m], cfg, seen)
                /\ fades'[m] = None
                /\ work'[m].result = "running"
PROOF
<1>1. mon'[m] \in {st[m], IntegrityChecked(st[m])}
  BY DEF Tick
<1>2. fades'[m] = IF FadesTo(m, force, st[m], tgt[m], cfg, seen)
                  THEN NewFade(force, st[m], tgt[m])
                  ELSE IF cfg.smooth /\ ~ Proceeds(m, force, st[m], tgt[m], cfg, seen)
                       THEN fades[m] ELSE None
  BY DEF Tick, FadesAfter
<1>3. work'[m] = IF /\ Proceeds(m, force, st[m], tgt[m], cfg, seen)
                    /\ ~ FadesTo(m, force, st[m], tgt[m], cfg, seen)
                 THEN [percent |-> AppliedPercent(force, st[m], tgt[m], cfg.smooth),
                       result |-> "running"]
                 ELSE None
  BY DEF Tick
<1> QED
  BY <1>1, <1>2, <1>3

\* The end of a dispatch thread neither starts one nor touches beliefs and fades.
LEMMA DispatchKeeps ==
    ASSUME TypeOK, Dispatch
    PROVE  /\ UNCHANGED <<mon, fades>>
           /\ \A m \in Monitors : work'[m] # None => work[m] # None
           /\ \A m \in Monitors : written'[m] # written[m] => work[m] # None
PROOF
<1>1. PICK d \in Monitors :
        DispatchSucceeds(d) \/ \E kind \in FailureKinds : DispatchFails(d, kind)
  BY DEF Dispatch
<1>2. UNCHANGED <<mon, fades>>
  BY <1>1 DEF DispatchSucceeds, DispatchFails
<1>3. work[d] # None
  BY <1>1 DEF DispatchSucceeds, DispatchFails
<1>4. \A m \in Monitors \ {d} : work'[m] = work[m]
  BY <1>1 DEF TypeOK, DispatchSucceeds, DispatchFails
<1>5. \A m \in Monitors \ {d} : written'[m] = written[m]
  BY <1>1 DEF TypeOK, DispatchSucceeds, DispatchFails
<1> QED
  BY <1>2, <1>3, <1>4, <1>5

\* What a fade step does to a monitor: it writes the next percent of its fade
\* and records it, or fails and ends the fade; a monitor that does not fade is
\* left alone.
LEMMA FadeStepWrites ==
    ASSUME TypeOK, FadeStep, NEW m \in Monitors
    PROVE  /\ fades[m] = None => /\ mon'[m] = mon[m]
                                 /\ written'[m] = written[m]
                                 /\ fades'[m] = None
           /\ fades[m] # None =>
                \E failed \in BOOLEAN :
                   LET next == NextStep(fades[m])
                       percent == PercentAt(next, next.step)
                   IN  /\ percent \in Percent
                       /\ fades'[m] = FadeAfterStep(next, failed)
                       /\ IF failed
                          THEN /\ \E kind \in FailureKinds : mon'[m] = ApplyFailed(mon[m], kind)
                               /\ written'[m] = written[m]
                          ELSE mon'[m] = ApplySucceeded(percent) /\ written'[m] = percent
PROOF
<1> DEFINE active == {n \in Monitors : fades[n] # None}
           next == [n \in active |-> NextStep(fades[n])]
           percent == [n \in active |-> PercentAt(next[n], next[n].step)]
<1>1. \A n \in active : next[n] = NextStep(fades[n]) /\ percent[n] = PercentAt(next[n], next[n].step)
  OBVIOUS
<1>2. ASSUME m \in active PROVE percent[m] \in Percent
  <2>1. NextStep(fades[m]) \in Fade /\ NextStep(fades[m]).step \in Nat
    BY <1>2, SMT DEF TypeOK, NextStep, Fade
  <2> HIDE DEF next, percent
  <2> QED
    BY <1>1, <1>2, <2>1, PercentAtTyped
<1>3. PICK failed \in SUBSET active, obeyed \in SUBSET (active \cap awake) :
        \E kind \in [failed -> FailureKinds] :
             /\ written' = [n \in Monitors |->
                              IF n \in active \ failed THEN percent[n] ELSE written[n]]
             /\ mon' = [n \in Monitors |->
                          IF n \in failed THEN ApplyFailed(mon[n], kind[n])
                          ELSE IF n \in active THEN ApplySucceeded(percent[n])
                          ELSE mon[n]]
             /\ fades' = [n \in Monitors |->
                            IF n \in active THEN FadeAfterStep(next[n], n \in failed)
                            ELSE None]
  BY DEF FadeStep
<1>4. PICK kind \in [failed -> FailureKinds] :
             mon' = [n \in Monitors |->
                          IF n \in failed THEN ApplyFailed(mon[n], kind[n])
                          ELSE IF n \in active THEN ApplySucceeded(percent[n])
                          ELSE mon[n]]
  BY <1>3
<1> HIDE DEF next, percent
<1>5. CASE fades[m] = None
  BY <1>3, <1>4, <1>5
<1>6. CASE fades[m] # None
  <2>1. m \in active
    BY <1>6
  <2>2. fades'[m] = FadeAfterStep(next[m], m \in failed)
    BY <1>3, <2>1
  <2>3. CASE m \in failed
    <3>1. mon'[m] = ApplyFailed(mon[m], kind[m]) /\ written'[m] = written[m]
      BY <1>3, <1>4, <2>1, <2>3
    <3>2. fades'[m] = FadeAfterStep(next[m], TRUE)
      BY <2>2, <2>3
    <3>3. kind[m] \in FailureKinds
      BY <1>4, <2>3
    <3> QED
      BY <1>1, <1>2, <1>6, <2>1, <3>1, <3>2, <3>3
  <2>4. CASE m \notin failed
    <3>1. mon'[m] = ApplySucceeded(percent[m]) /\ written'[m] = percent[m]
      BY <1>3, <1>4, <2>1, <2>4
    <3>2. fades'[m] = FadeAfterStep(next[m], FALSE)
      BY <2>2, <2>4 DEF FadeAfterStep
    <3> QED
      BY <1>1, <1>2, <1>6, <2>1, <3>1, <3>2
  <2> QED
    BY <2>3, <2>4
<1> QED
  BY <1>5, <1>6

-----------------------------------------------------------------------------
(* One owner per monitor.                                                   *)

\* No step gives a monitor to a fade and to a tick's dispatch at once.
LEMMA OwnerStep == TypeOK /\ NoDoubleOwner /\ [Next]_vars => NoDoubleOwner'
PROOF
<1> SUFFICES ASSUME TypeOK, NoDoubleOwner, [Next]_vars, NEW m \in Monitors, work'[m] # None
             PROVE  fades'[m] = None
  BY DEF NoDoubleOwner
<1>1. CASE UNCHANGED <<mon, fades, work, written>>
  BY <1>1 DEF NoDoubleOwner
<1>2. CASE TickStep
  <2>1. PICK force \in BOOLEAN, st \in [Monitors -> MonitorState] :
          Tick(force, st, target', suspended', config', caps')
    BY <1>2 DEF TickStep
  <2>2. CASE TickRuns(suspended', caps')
    BY <2>1, <2>2, TickDecides
  <2>3. CASE ~ TickRuns(suspended', caps')
    BY <2>1, <2>3 DEF Tick, NoDoubleOwner
  <2> QED
    BY <2>2, <2>3
<1>3. CASE FadeStep \/ Probe \/ AdvanceClock
  BY <1>3 DEF FadeStep, Probe, AdvanceClock, dispatching
<1>4. CASE Dispatch
  BY <1>4, DispatchKeeps DEF NoDoubleOwner
<1>5. CASE Commit
  BY <1>5 DEF Commit
<1> QED
  BY <1>1, <1>2, <1>3, <1>4, <1>5, KindsOfStep

\* A monitor is never both fading and being dispatched by a tick: whenever a
\* tick takes a monitor on, it has dropped or replaced its fade.
THEOREM OneOwner == Spec => []NoDoubleOwner
PROOF
<1>1. Init => NoDoubleOwner
  BY DEF Init, NoDoubleOwner
<1> QED
  BY <1>1, OwnerStep, TypeCorrect, PTL DEF Spec

-----------------------------------------------------------------------------
(* Beliefs.                                                                 *)

\* What makes BeliefIsLastWrite inductive: a thread that has ended well has
\* written the percent the commit is going to record.
OkIsWritten ==
    \A m \in Monitors :
        work[m] # None /\ work[m].result = "ok" => written[m] = work[m].percent

\* Of the bookkeeping operations only a success changes the recorded percent.
LEMMA LastKept ==
    ASSUME NEW s \in MonitorState
    PROVE  /\ IntegrityChecked(s).last = s.last
           /\ Elapsed(s).last = s.last
           /\ \A kind \in FailureKinds : ApplyFailed(s, kind).last = s.last
           /\ \A p \in Percent : ApplySucceeded(p).last = p
PROOF
  BY DEF MonitorState, IntegrityChecked, Elapsed, ApplyFailed, ApplySucceeded

\* A tick only forgets beliefs, and its dispatches have not written yet.
LEMMA BeliefTick ==
    TypeOK /\ BeliefIsLastWrite /\ TickStep => BeliefIsLastWrite' /\ OkIsWritten'
PROOF
<1> SUFFICES ASSUME TypeOK, BeliefIsLastWrite, TickStep, NEW m \in Monitors
             PROVE  /\ mon'[m].last # None => mon'[m].last = written'[m]
                    /\ work'[m] # None => work'[m].result # "ok"
  BY DEF BeliefIsLastWrite, OkIsWritten
<1>1. work[m] = None /\ written' = written
  BY DEF TickStep, dispatching
<1>2. PICK force \in BOOLEAN, st \in [Monitors -> MonitorState] :
        /\ \A n \in Monitors : st[n].last \in {mon[n].last, None}
        /\ Tick(force, st, target', suspended', config', caps')
  BY DEF TickStep
<1>3. st[m] \in MonitorState /\ st[m].last \in {mon[m].last, None}
  BY <1>2
<1>4. mon[m].last # None => mon[m].last = written[m]
  BY <1>1 DEF BeliefIsLastWrite
<1>5. CASE TickRuns(suspended', caps')
  <2>1. mon'[m] \in {st[m], IntegrityChecked(st[m])}
    BY <1>2, <1>5, TickDecides
  <2>2. mon'[m].last = st[m].last
    BY <1>3, <2>1, LastKept
  <2>3. work'[m] # None => work'[m].result = "running"
    BY <1>2, <1>5, TickDecides
  <2> QED
    BY <1>1, <1>3, <1>4, <2>2, <2>3
<1>6. CASE ~ TickRuns(suspended', caps')
  BY <1>1, <1>2, <1>3, <1>4, <1>6 DEF Tick
<1> QED
  BY <1>5, <1>6

\* A fade step records exactly the percents that it wrote.
LEMMA BeliefFadeStep ==
    TypeOK /\ BeliefIsLastWrite /\ FadeStep => BeliefIsLastWrite' /\ OkIsWritten'
PROOF
<1> SUFFICES ASSUME TypeOK, BeliefIsLastWrite, FadeStep, NEW m \in Monitors
             PROVE  /\ mon'[m].last # None => mon'[m].last = written'[m]
                    /\ work'[m] = None
  BY DEF BeliefIsLastWrite, OkIsWritten
<1>1. work[m] = None /\ work' = work
  BY DEF FadeStep, dispatching
<1>2. mon[m] \in MonitorState /\ (mon[m].last # None => mon[m].last = written[m])
  BY <1>1 DEF BeliefIsLastWrite, TypeOK
<1>3. fades[m] # None =>
         \/ /\ \E kind \in FailureKinds : mon'[m] = ApplyFailed(mon[m], kind)
            /\ written'[m] = written[m]
         \/ \E p \in Percent : mon'[m] = ApplySucceeded(p) /\ written'[m] = p
  BY FadeStepWrites
<1>4. fades[m] = None =>
         mon'[m] = mon[m] /\ written'[m] = written[m]
  BY FadeStepWrites
<1> QED
  BY <1>1, <1>2, <1>3, <1>4, LastKept

\* A probe records exactly the targets that it wrote.
LEMMA BeliefProbe ==
    TypeOK /\ BeliefIsLastWrite /\ Probe => BeliefIsLastWrite' /\ OkIsWritten'
PROOF
<1> SUFFICES ASSUME TypeOK, BeliefIsLastWrite, Probe, NEW m \in Monitors
             PROVE  /\ mon'[m].last # None => mon'[m].last = written'[m]
                    /\ work'[m] = None
  BY DEF BeliefIsLastWrite, OkIsWritten
<1>1. work[m] = None /\ work' = work
  BY DEF Probe, dispatching
<1>2. mon[m] \in MonitorState /\ (mon[m].last # None => mon[m].last = written[m])
  BY <1>1 DEF BeliefIsLastWrite, TypeOK
<1>3. target[m] \in Percent
  BY DEF TypeOK
<1>4. \/ mon'[m] = ApplySucceeded(target[m]) /\ written'[m] = target[m]
      \/ mon'[m] \in {mon[m], IntegrityChecked(mon[m])} /\ written'[m] = written[m]
  BY DEF Probe
<1> QED
  BY <1>1, <1>2, <1>3, <1>4, LastKept

\* A thread that ends well writes its percent, one that fails leaves the last
\* write and its record as they were.
LEMMA BeliefDispatch ==
    TypeOK /\ BeliefIsLastWrite /\ OkIsWritten /\ Dispatch
        => BeliefIsLastWrite' /\ OkIsWritten'
PROOF
<1> SUFFICES ASSUME TypeOK, BeliefIsLastWrite, OkIsWritten, Dispatch, NEW m \in Monitors
             PROVE  /\ /\ mon'[m].last # None
                       /\ work'[m] = None \/ work'[m].result # "ok"
                       => mon'[m].last = written'[m]
                    /\ work'[m] # None /\ work'[m].result = "ok"
                       => written'[m] = work'[m].percent
  BY DEF BeliefIsLastWrite, OkIsWritten
<1>1. PICK d \in Monitors :
        DispatchSucceeds(d) \/ \E kind \in FailureKinds : DispatchFails(d, kind)
  BY DEF Dispatch
<1>2. mon' = mon
  BY DispatchKeeps
<1>3. work[d] \in Work /\ work[d].result = "running"
  BY <1>1 DEF TypeOK, DispatchSucceeds, DispatchFails
<1>4. CASE m # d
  <2>1. work'[m] = work[m] /\ written'[m] = written[m]
    BY <1>1, <1>4 DEF TypeOK, DispatchSucceeds, DispatchFails
  <2> QED
    BY <1>2, <2>1 DEF BeliefIsLastWrite, OkIsWritten
<1>5. CASE m = d /\ DispatchSucceeds(d)
  <2>1. work'[m] = [work[m] EXCEPT !.result = "ok"] /\ written'[m] = work[m].percent
    BY <1>5 DEF TypeOK, DispatchSucceeds
  <2>2. work'[m] \in Work /\ work'[m].result = "ok" /\ work'[m].percent = work[m].percent
    BY <1>3, <1>5, <2>1 DEF Work
  <2> QED
    BY <2>1, <2>2, OptionAssumption
<1>6. ASSUME m = d, NEW kind \in FailureKinds, DispatchFails(d, kind)
      PROVE  work'[m].result # "ok" /\ written' = written
  <2>1. work'[m] = [work[m] EXCEPT !.result = kind]
    BY <1>6 DEF TypeOK, DispatchFails
  <2>2. work'[m].result = kind
    BY <1>3, <1>6, <2>1 DEF Work
  <2> QED
    BY <1>6, <2>2, KindAssumption DEF DispatchFails
<1>7. work[d].result # "ok"
  BY <1>3
<1> QED
  BY <1>1, <1>2, <1>4, <1>5, <1>6, <1>7 DEF BeliefIsLastWrite

\* The commit records what its threads wrote, and nothing for those that failed.
LEMMA BeliefCommit ==
    TypeOK /\ BeliefIsLastWrite /\ OkIsWritten /\ Commit
        => BeliefIsLastWrite' /\ OkIsWritten'
PROOF
<1> SUFFICES ASSUME TypeOK, BeliefIsLastWrite, OkIsWritten, Commit, NEW m \in Monitors
             PROVE  /\ mon'[m].last # None => mon'[m].last = written'[m]
                    /\ work'[m] = None
  BY DEF BeliefIsLastWrite, OkIsWritten
<1>1. work'[m] = None /\ written' = written
  BY DEF Commit
<1>2. mon'[m] = IF work[m] = None THEN mon[m] ELSE Outcome(m)
  BY DEF Commit
<1>3. CASE work[m] = None
  BY <1>1, <1>2, <1>3 DEF BeliefIsLastWrite
<1>4. CASE work[m] # None
  <2>1. /\ mon[m] \in MonitorState
        /\ work[m].percent \in Percent
        /\ work[m].result \in {"ok"} \cup FailureKinds
    BY <1>4 DEF TypeOK, Commit, Work
  <2>2. CASE work[m].result = "ok"
    BY <1>1, <1>2, <1>4, <2>1, <2>2, LastKept DEF Outcome, OkIsWritten
  <2>3. CASE work[m].result # "ok"
    BY <1>1, <1>2, <1>4, <2>1, <2>3, LastKept DEF Outcome, BeliefIsLastWrite
  <2> QED
    BY <2>2, <2>3
<1> QED
  BY <1>1, <1>3, <1>4

\* The percent that the state file records as applied is the last percent that
\* was written, whatever mix of ticks, fades, probes, failures and resyncs led
\* there.
THEOREM BeliefsAreLastWrites == Spec => []BeliefIsLastWrite
PROOF
<1>1. Init => BeliefIsLastWrite /\ OkIsWritten
  BY DEF Init, BeliefIsLastWrite, OkIsWritten
<1>2. TypeOK /\ BeliefIsLastWrite /\ OkIsWritten /\ [Next]_vars
         => BeliefIsLastWrite' /\ OkIsWritten'
  <2> SUFFICES ASSUME TypeOK, BeliefIsLastWrite, OkIsWritten, [Next]_vars
               PROVE  BeliefIsLastWrite' /\ OkIsWritten'
    OBVIOUS
  <2>1. CASE UNCHANGED <<mon, fades, work, written>>
    BY <2>1 DEF BeliefIsLastWrite, OkIsWritten
  <2>2. CASE AdvanceClock
    <3>1. \A m \in Monitors : mon'[m].last = mon[m].last
      BY <2>2, LastKept DEF AdvanceClock, TypeOK
    <3> QED
      BY <2>2, <3>1 DEF AdvanceClock, BeliefIsLastWrite, OkIsWritten
  <2> QED
    BY <2>1, <2>2, KindsOfStep, BeliefTick, BeliefFadeStep, BeliefProbe,
       BeliefDispatch, BeliefCommit
<1> QED
  BY <1>1, <1>2, TypeCorrect, PTL DEF Spec

-----------------------------------------------------------------------------
(* Fades.                                                                   *)

\* A fade in the engine always has a step left.
FadesUnfinished ==
    \A m \in Monitors : fades[m] # None => fades[m].step < StepsTotal(fades[m])

FadeInvariant == FadeResumesFromLastWrite /\ FadesUnfinished

\* A fade takes at least one step.
LEMMA StepsTotalPositive == \A f : StepsTotal(f) \in Nat \ {0}
PROOF
  BY FadeAssumption DEF StepsTotal

\* A tick starts fades only for monitors whose last write it knows: without a
\* belief there is no distance to fade over.
LEMMA FadeNeedsBelief ==
    ASSUME NEW m, NEW force \in BOOLEAN, NEW s \in MonitorState, NEW requested \in Percent,
           NEW cfg, NEW seen, FadesTo(m, force, s, requested, cfg, seen)
    PROVE  s.last # None
PROOF
<1> SUFFICES ASSUME s.last = None PROVE FALSE
  OBVIOUS
<1>1. FadeFrom(s, requested) = requested
  BY DEF FadeFrom
<1>2. AppliedPercent(force, s, requested, TRUE) = requested
  BY LimitStepSizeOfNone DEF AppliedPercent
<1>3. AbsDiff(requested, requested) = 0
  BY SMT DEF AbsDiff, Percent
<1>4. IsLongMove(requested, requested)
  BY <1>1, <1>2 DEF FadesTo
<1> QED
  BY <1>3, <1>4, FadeAssumption, SMT DEF IsLongMove

\* A new fade starts where the last write left its monitor.
LEMMA NewFadeStarts ==
    ASSUME NEW m \in Monitors, NEW force \in BOOLEAN, NEW s \in MonitorState,
           NEW requested \in Percent, NEW cfg, NEW seen,
           FadesTo(m, force, s, requested, cfg, seen)
    PROVE  LET f == NewFade(force, s, requested)
           IN  /\ PercentAt(f, f.step) = s.last
               /\ f.step < StepsTotal(f)
PROOF
<1> DEFINE f == NewFade(force, s, requested)
<1>1. s.last # None /\ s.last \in Nat
  BY FadeNeedsBelief, SMT DEF MonitorState, Percent
<1>2. f.start = s.last /\ f.step = 0 /\ f.goal = AppliedPercent(force, s, requested, TRUE)
  BY <1>1 DEF NewFade, FadeFrom
<1>3. f.goal \in Nat
  <2>1. AppliedPercent(force, s, requested, TRUE) \in Percent
    BY AppliedPercentTyped
  <2> HIDE DEF f
  <2>2. f.goal \in Percent
    BY <1>2, <2>1, Zenon
  <2> QED
    BY <2>2, SMT DEF Percent
<1>4. StepsTotal(f) \in Nat \ {0}
  BY StepsTotalPositive
<1> HIDE DEF f
<1>5. FadePercent(f.start, f.goal, 0, StepsTotal(f)) = f.start
  BY <1>1, <1>2, <1>3, <1>4, FadePercentAtStart
<1>6. PercentAt(f, f.step) = s.last
  BY <1>2, <1>5 DEF PercentAt
<1>7. f.step < StepsTotal(f)
  BY <1>2, <1>4, SMT
<1> QED
  BY <1>6, <1>7 DEF f

\* A step of a fade keeps its ends and advances its counter.
LEMMA NextStepKeeps ==
    ASSUME NEW f \in Fade
    PROVE  /\ NextStep(f) \in Fade
           /\ NextStep(f).start = f.start
           /\ NextStep(f).goal = f.goal
           /\ NextStep(f).step = f.step + 1
           /\ StepsTotal(NextStep(f)) = StepsTotal(f)
PROOF
  BY SMT DEF Fade, NextStep, StepsTotal

\* A tick keeps a fade or starts one at the last write.
LEMMA FadeTick ==
    TypeOK /\ TypeOK' /\ BeliefIsLastWrite /\ FadeInvariant /\ TickStep => FadeInvariant'
PROOF
<1> SUFFICES ASSUME TypeOK, TypeOK', BeliefIsLastWrite, FadeInvariant, TickStep,
                    NEW m \in Monitors, fades'[m] # None
             PROVE  /\ written'[m] = PercentAt(fades'[m], fades'[m].step)
                    /\ fades'[m].step < StepsTotal(fades'[m])
  BY DEF FadeInvariant, FadeResumesFromLastWrite, FadesUnfinished, PercentAt, StepsTotal
<1>1. work[m] = None /\ written' = written
  BY DEF TickStep, dispatching
<1>2. mon[m].last # None => mon[m].last = written[m]
  BY <1>1 DEF BeliefIsLastWrite
<1>3. PICK force \in BOOLEAN, st \in [Monitors -> MonitorState] :
        /\ \A n \in Monitors : st[n].last \in {mon[n].last, None}
        /\ Tick(force, st, target', suspended', config', caps')
  BY DEF TickStep
<1>4. st[m] \in MonitorState /\ st[m].last \in {mon[m].last, None}
  BY <1>3
<1>5. target'[m] \in Percent
  BY DEF TypeOK
<1>6. CASE fades'[m] = fades[m]
  BY <1>1, <1>6 DEF FadeInvariant, FadeResumesFromLastWrite, FadesUnfinished
<1>7. CASE fades'[m] # fades[m]
  <2>1. TickRuns(suspended', caps')
    BY <1>3, <1>7 DEF Tick
  <2>2. /\ FadesTo(m, force, st[m], target'[m], config', caps')
        /\ fades'[m] = NewFade(force, st[m], target'[m])
    BY <1>3, <1>7, <2>1, TickDecides
  <2>3. st[m].last # None
    BY <1>4, <1>5, <2>2, FadeNeedsBelief
  <2>4. st[m].last = written[m]
    BY <1>2, <1>4, <2>3
  <2> QED
    BY <1>1, <1>4, <1>5, <2>2, <2>4, NewFadeStarts
<1> QED
  BY <1>6, <1>7

\* A fade step writes what its counter says, and ends the fade with the last.
LEMMA FadeFadeStep == TypeOK /\ FadeStep => FadeInvariant'
PROOF
<1> SUFFICES ASSUME TypeOK, FadeStep, NEW m \in Monitors, fades'[m] # None
             PROVE  /\ written'[m] = PercentAt(fades'[m], fades'[m].step)
                    /\ fades'[m].step < StepsTotal(fades'[m])
  BY DEF FadeInvariant, FadeResumesFromLastWrite, FadesUnfinished, PercentAt, StepsTotal
<1>1. fades[m] # None
  BY FadeStepWrites
<1> DEFINE next == NextStep(fades[m])
<1>2. next \in Fade
  BY <1>1, NextStepKeeps DEF TypeOK
<1> HIDE DEF next
<1>3. PICK failed \in BOOLEAN :
        /\ fades'[m] = FadeAfterStep(next, failed)
        /\ ~ failed => written'[m] = PercentAt(next, next.step)
  BY <1>1, FadeStepWrites DEF next
<1>4. ~ failed /\ ~ Completed(next) /\ fades'[m] = next
  BY <1>3 DEF FadeAfterStep
<1>5. next.step \in Nat /\ StepsTotal(next) \in Nat
  BY <1>2, StepsTotalPositive DEF Fade
<1>6. next.step < StepsTotal(next)
  BY <1>4, <1>5, SMT DEF Completed
<1> QED
  BY <1>3, <1>4, <1>6

\* No other step writes to a monitor that fades.
LEMMA FadeInvariantStep ==
    TypeOK /\ TypeOK' /\ NoDoubleOwner /\ BeliefIsLastWrite /\ FadeInvariant /\ [Next]_vars
        => FadeInvariant'
PROOF
<1> SUFFICES ASSUME TypeOK, TypeOK', NoDoubleOwner, BeliefIsLastWrite, FadeInvariant, [Next]_vars
             PROVE  FadeInvariant'
  OBVIOUS
<1> USE DEF FadeInvariant, FadeResumesFromLastWrite, FadesUnfinished, PercentAt, StepsTotal
<1>1. CASE UNCHANGED <<mon, fades, work, written>>
  BY <1>1
<1>2. CASE AdvanceClock
  BY <1>2 DEF AdvanceClock
<1>3. CASE Commit
  BY <1>3 DEF Commit
<1>4. CASE Probe
  BY <1>4 DEF Probe, MayProbe, fading
<1>5. CASE Dispatch
  BY <1>5, DispatchKeeps DEF NoDoubleOwner
<1> QED
  BY <1>1, <1>2, <1>3, <1>4, <1>5, KindsOfStep, FadeTick, FadeFadeStep

\* A fade is always exactly where its steps so far have brought the monitor, and
\* always has a step left: no tick, probe or resync writes the monitor behind the
\* fade's back, and a fade that is retargeted starts from the last write.
THEOREM FadesResume == Spec => [](FadeResumesFromLastWrite /\ FadesUnfinished)
PROOF
<1>1. Init => FadeInvariant
  BY DEF Init, FadeInvariant, FadeResumesFromLastWrite, FadesUnfinished
<1>2. Spec => []FadeInvariant
  BY <1>1, FadeInvariantStep, TypeCorrect, OneOwner, BeliefsAreLastWrites, PTL DEF Spec
<1>3. FadeInvariant => FadeResumesFromLastWrite /\ FadesUnfinished
  BY DEF FadeInvariant
<1> QED
  BY <1>2, <1>3, PTL

\* A fade step takes its monitors towards the goals of their fades.
LEMMA FadeStepApproaches ==
    ASSUME TypeOK, FadeInvariant, FadeStep, NEW m \in Monitors, written'[m] # written[m]
    PROVE  Between(written[m], written'[m], fades[m].goal)
PROOF
<1>1. fades[m] # None
  BY FadeStepWrites
<1> DEFINE f == fades[m]
           next == NextStep(f)
           total == StepsTotal(f)
<1>2. f \in Fade
  BY <1>1 DEF TypeOK
<1>3. f.start \in Nat /\ f.goal \in Nat /\ f.step \in Nat
  BY <1>2, SMT DEF Fade, Percent
<1>4. /\ next.start = f.start /\ next.goal = f.goal
      /\ next.step = f.step + 1 /\ StepsTotal(next) = total
  BY <1>2, NextStepKeeps
<1>5. written'[m] = PercentAt(next, next.step)
  BY <1>1, FadeStepWrites
<1>6. written[m] = PercentAt(f, f.step) /\ f.step < total
  BY <1>1 DEF FadeInvariant, FadeResumesFromLastWrite, FadesUnfinished
<1>7. total \in Nat \ {0}
  BY StepsTotalPositive
<1> HIDE DEF f, next, total
<1>8. /\ written[m] = FadePercent(f.start, f.goal, f.step, total)
      /\ written'[m] = FadePercent(f.start, f.goal, f.step + 1, total)
  BY <1>4, <1>5, <1>6 DEF PercentAt, total
<1>9. Between(written[m], written'[m], f.goal)
  BY <1>3, <1>6, <1>7, <1>8, FadePercentApproaches DEF Between
<1> QED
  BY <1>9 DEF f

\* While a fade drives a monitor no write, of whatever origin, takes the monitor
\* away from the goal of the fade.
THEOREM FadesApproach == Spec => FadesApproachTheirGoal
PROOF
<1> DEFINE Approaches ==
      \A m \in Monitors : fades[m] # None /\ written'[m] # written[m]
         => Between(written[m], written'[m], fades[m].goal)
<1>1. TypeOK /\ NoDoubleOwner /\ FadeInvariant /\ [Next]_vars => [Approaches]_vars
  <2> SUFFICES ASSUME TypeOK, NoDoubleOwner, FadeInvariant, [Next]_vars,
                      NEW m \in Monitors, fades[m] # None, written'[m] # written[m]
               PROVE  Between(written[m], written'[m], fades[m].goal)
    OBVIOUS
  <2>1. CASE FadeStep
    BY <2>1, FadeStepApproaches
  <2>2. ~ TickStep /\ ~ AdvanceClock /\ ~ Commit
    BY DEF TickStep, AdvanceClock, Commit
  <2>3. ~ Probe
    BY DEF Probe, MayProbe, fading
  <2>4. ~ Dispatch
    BY DispatchKeeps DEF NoDoubleOwner
  <2> QED
    BY <2>1, <2>2, <2>3, <2>4, KindsOfStep
<1>2. Spec => []FadeInvariant
  BY FadesResume, PTL DEF FadeInvariant
<1>3. Spec => [][Approaches]_vars
  BY <1>1, <1>2, TypeCorrect, OneOwner, PTL DEF Spec
<1> QED
  BY <1>3 DEF FadesApproachTheirGoal

-----------------------------------------------------------------------------
(* Suspension and authority.                                                *)

\* A suspended daemon takes on no new work: nothing is dispatched, no fade is
\* started or retargeted, and only the monitors whose fade or dispatch was under
\* way are written.
THEOREM SuspensionHolds == Spec => SuspendBlocksNewWork
PROOF
<1> DEFINE Blocks ==
      suspended # "no" /\ suspended' # "no" =>
         \A m \in Monitors :
            /\ fades'[m] # None => /\ fades[m] # None
                                   /\ fades'[m].start = fades[m].start
                                   /\ fades'[m].goal = fades[m].goal
            /\ work'[m] # None => work[m] # None
            /\ written'[m] # written[m] => fades[m] # None \/ work[m] # None
<1>1. TypeOK /\ [Next]_vars => [Blocks]_vars
  <2> SUFFICES ASSUME TypeOK, [Next]_vars, suspended # "no", suspended' # "no",
                      NEW m \in Monitors
               PROVE  /\ fades'[m] # None => /\ fades[m] # None
                                             /\ fades'[m].start = fades[m].start
                                             /\ fades'[m].goal = fades[m].goal
                      /\ work'[m] # None => work[m] # None
                      /\ written'[m] # written[m] => fades[m] # None \/ work[m] # None
    OBVIOUS
  <2>1. CASE UNCHANGED <<mon, fades, work, written>>
    BY <2>1
  <2>2. CASE TickStep
    <3>1. ~ TickRuns(suspended', caps')
      BY DEF TickRuns
    <3> QED
      BY <2>2, <3>1 DEF TickStep, Tick
  <2>3. CASE FadeStep
    <3>1. work' = work
      BY <2>3 DEF FadeStep
    <3>2. CASE fades[m] = None
      BY <2>3, <3>1, <3>2, FadeStepWrites
    <3>3. CASE fades[m] # None
      <4>1. fades'[m] \in {None, NextStep(fades[m])}
        BY <2>3, <3>3, FadeStepWrites DEF FadeAfterStep
      <4>2. fades[m] \in Fade
        BY <3>3 DEF TypeOK
      <4> QED
        BY <3>1, <3>3, <4>1, <4>2, NextStepKeeps
    <3> QED
      BY <3>2, <3>3
  <2>4. ~ Probe
    BY DEF Probe, MayProbe
  <2>5. CASE AdvanceClock
    BY <2>5 DEF AdvanceClock
  <2>6. CASE Dispatch
    BY <2>6, DispatchKeeps
  <2>7. CASE Commit
    BY <2>7 DEF Commit
  <2> QED
    BY <2>1, <2>2, <2>3, <2>4, <2>5, <2>6, <2>7, KindsOfStep
<1>2. Spec => [][Blocks]_vars
  BY <1>1, TypeCorrect, PTL DEF Spec
<1> QED
  BY <1>2 DEF SuspendBlocksNewWork

\* The snapshot, and the one under way, name no monitor that may not be driven.
AuthorisedSnapshots ==
    /\ caps # None => caps \cap NotAuthorised = {}
    /\ observing # None => observing \cap NotAuthorised = {}

\* Snapshots come only from observations, and these only from reconcile.
LEMMA SnapshotStep == AuthorisedSnapshots /\ [Next]_vars => AuthorisedSnapshots'
PROOF
<1> SUFFICES ASSUME AuthorisedSnapshots, [Next]_vars PROVE AuthorisedSnapshots'
  OBVIOUS
<1>1. CASE BeginObservation
  BY <1>1 DEF BeginObservation, AuthorisedSnapshots
<1>2. CASE ObservationPublished
  BY <1>2 DEF ObservationPublished, AuthorisedSnapshots
<1>3. CASE ObservationLost
  BY <1>3 DEF ObservationLost, AuthorisedSnapshots
<1>4. CASE FadeStep \/ Probe \/ AdvanceClock \/ Dispatch \/ Commit
  BY <1>4 DEF FadeStep, Probe, AdvanceClock, Dispatch, DispatchSucceeds, DispatchFails,
              Commit, loopVars, AuthorisedSnapshots
<1>5. CASE Request
  BY <1>5 DEF Request, Suspend, Resume, ForcedRequest, IdleWake, RunOnce, ReloadConfig,
              Resync, AuthorisedSnapshots
<1>6. CASE Environment
  BY <1>6 DEF Environment, FallsAsleep, PolicyMoves, ExternalWrite, WakesUp, loopVars,
              AuthorisedSnapshots
<1>7. CASE UNCHANGED vars
  BY <1>7 DEF vars, AuthorisedSnapshots
<1> QED
  BY <1>1, <1>2, <1>3, <1>4, <1>5, <1>6, <1>7 DEF Next

\* A step neither fades nor dispatches a monitor that may not be driven.
LEMMA AuthorityStep ==
    TypeOK /\ AuthorisedSnapshots' /\ OnlyAuthorisedWork /\ [Next]_vars => OnlyAuthorisedWork'
PROOF
<1> SUFFICES ASSUME TypeOK, AuthorisedSnapshots', OnlyAuthorisedWork, [Next]_vars,
                    NEW m \in Monitors, fades'[m] # None \/ work'[m] # None
             PROVE  m \notin NotAuthorised
  BY DEF OnlyAuthorisedWork
<1>1. CASE UNCHANGED <<mon, fades, work, written>>
  BY <1>1 DEF OnlyAuthorisedWork
<1>2. CASE TickStep
  <2>1. PICK force \in BOOLEAN, st \in [Monitors -> MonitorState] :
          Tick(force, st, target', suspended', config', caps')
    BY <1>2 DEF TickStep
  <2>2. CASE ~ TickRuns(suspended', caps')
    BY <2>1, <2>2 DEF Tick, OnlyAuthorisedWork
  <2>3. CASE TickRuns(suspended', caps')
    <3>1. \/ Proceeds(m, force, st[m], target'[m], config', caps')
          \/ fades[m] # None
      BY <2>1, <2>3, TickDecides DEF FadesTo
    <3> QED
      BY <2>3, <3>1 DEF Proceeds, TickRuns, AuthorisedSnapshots, OnlyAuthorisedWork
  <2> QED
    BY <2>2, <2>3
<1>3. CASE FadeStep
  BY <1>3, FadeStepWrites DEF FadeStep, OnlyAuthorisedWork
<1>4. CASE Probe \/ AdvanceClock \/ Commit
  BY <1>4 DEF Probe, AdvanceClock, Commit, OnlyAuthorisedWork
<1>5. CASE Dispatch
  BY <1>5, DispatchKeeps DEF OnlyAuthorisedWork
<1> QED
  BY <1>1, <1>2, <1>3, <1>4, <1>5, KindsOfStep

\* Ticks and fades, however stale the snapshot they rely on, only ever work on
\* monitors that reconcile can call Present.
THEOREM WorkIsAuthorised == Spec => []OnlyAuthorisedWork
PROOF
<1>1. Init => AuthorisedSnapshots /\ OnlyAuthorisedWork
  BY DEF Init, AuthorisedSnapshots, OnlyAuthorisedWork
<1>2. Spec => []AuthorisedSnapshots
  BY <1>1, SnapshotStep, PTL DEF Spec
<1> QED
  BY <1>1, <1>2, AuthorityStep, TypeCorrect, PTL DEF Spec
=============================================================================
