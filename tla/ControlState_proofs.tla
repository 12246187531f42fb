------------------------- MODULE ControlState_proofs -------------------------
(***************************************************************************)
(* What the user was promised is in effect and survives a crash, for any   *)
(* monitors, levels, durations and number of requests, restarts and failed *)
(* saves, as long as the directory of the state file can be synced.  The   *)
(* invariant relates every state the daemon holds, in memory or on disk,   *)
(* to the promise field by field: it may only have lost what ended by      *)
(* itself, and memory may only have lost more than the file.               *)
(***************************************************************************)
EXTENDS ControlState, TLAPS

\* s has of the promise p all but what is over at time t, and but the
\* overrides of the monitors in gone.
Holds(s, p, gone, t) ==
    /\ s.indefinite = p.indefinite
    /\ \/ s.suspendUntil = p.suspendUntil
       \/ s.suspendUntil = None /\ p.suspendUntil # None /\ p.suspendUntil <= t
    /\ \/ s.global = p.global /\ (s.global # None => s.globalUntil = p.globalUntil)
       \/ s.global = None /\ ~ Active(p.globalUntil, t)
    /\ \A m \in Monitors : s.targets[m] = p.targets[m] \/ (s.targets[m] = None /\ m \in gone)
    /\ \A m \in Monitors : s.targets[m] # None => s.until = p.until

\* s is f but for the overrides it has dropped.
Within(s, f) == \A m \in Monitors : s.targets[m] \in {None, f.targets[m]}

Kept ==
    /\ Holds(mem, promise, released, now)
    /\ Holds(disk, promise, released, now)
    /\ Within(mem, disk)

Inv == TypeOK /\ SnapshotIsOnDisk /\ Kept

-----------------------------------------------------------------------------
(* The operations on a state, field by field.                              *)

\* Tidying changes the two expiries alone, and only when they are no one's.
LEMMA TidyFields ==
    ASSUME NEW s \in State
    PROVE  /\ Tidy(s) \in State
           /\ Tidy(s).indefinite = s.indefinite /\ Tidy(s).suspendUntil = s.suspendUntil
           /\ Tidy(s).global = s.global /\ Tidy(s).targets = s.targets
           /\ Tidy(s).until = IF s.targets = NoTargets THEN None ELSE s.until
           /\ Tidy(s).globalUntil = IF s.global = None THEN None ELSE s.globalUntil
BY DEF Tidy, State

LEMMA NoTargetsType == NoTargets \in [Monitors -> Percent \cup {None}] /\ Nothing \in State
BY DEF NoTargets, Nothing, State

\* Refreshing drops what is over, and the overrides that match.
LEMMA RefreshedFields ==
    ASSUME NEW s \in State, now \in Nat, NEW matched
    PROVE  LET r == Refreshed(s, matched) IN
           /\ r \in State
           /\ r.indefinite = s.indefinite
           /\ \/ r.suspendUntil = s.suspendUntil
              \/ r.suspendUntil = None /\ s.suspendUntil # None /\ s.suspendUntil <= now
           /\ \/ r.global = s.global /\ (r.global # None => r.globalUntil = s.globalUntil)
              \/ r.global = None /\ ~ Active(s.globalUntil, now)
           /\ \A m \in Monitors :
                 r.targets[m] = IF m \in Lapsing(s, matched) THEN None ELSE s.targets[m]
           /\ \A m \in Monitors : r.targets[m] # None => r.until = s.until
<1> DEFINE e == [s EXCEPT
                    !.suspendUntil = IF @ # None /\ @ <= now THEN None ELSE @,
                    !.targets = IF Active(s.until, now) THEN @ ELSE NoTargets,
                    !.global = IF Active(s.globalUntil, now) THEN @ ELSE None]
           x == Tidy(e)
           targets == [m \in Monitors |-> IF m \in matched THEN None ELSE x.targets[m]]
           a == [x EXCEPT !.targets = targets]
<1>1. /\ e \in State
      /\ e.indefinite = s.indefinite
      /\ e.suspendUntil = IF s.suspendUntil # None /\ s.suspendUntil <= now
                            THEN None ELSE s.suspendUntil
      /\ e.targets = IF Active(s.until, now) THEN s.targets ELSE NoTargets
      /\ e.global = IF Active(s.globalUntil, now) THEN s.global ELSE None
      /\ e.until = s.until /\ e.globalUntil = s.globalUntil
  BY NoTargetsType DEF State
<1> HIDE DEF e
<1>2. /\ x \in State
      /\ x.indefinite = e.indefinite /\ x.suspendUntil = e.suspendUntil
      /\ x.global = e.global /\ x.targets = e.targets
      /\ x.until = IF e.targets = NoTargets THEN None ELSE e.until
      /\ x.globalUntil = IF e.global = None THEN None ELSE e.globalUntil
  BY <1>1, TidyFields
<1>3. Refreshed(s, matched) = Tidy(a)
  BY DEF Refreshed, AutoMatched, Expired, e
<1> HIDE DEF x
<1>4. targets \in [Monitors -> Percent \cup {None}]
  BY <1>2 DEF State
<1>5. \A m \in Monitors : targets[m] = IF m \in matched THEN None ELSE x.targets[m]
  OBVIOUS
<1> HIDE DEF targets
<1>6. /\ a \in State
      /\ a.indefinite = x.indefinite /\ a.suspendUntil = x.suspendUntil
      /\ a.global = x.global /\ a.targets = targets
      /\ a.until = x.until /\ a.globalUntil = x.globalUntil
  BY <1>2, <1>4 DEF State
<1> HIDE DEF a
<1> DEFINE r == Refreshed(s, matched)
<1>7. /\ r \in State
      /\ r.indefinite = a.indefinite /\ r.suspendUntil = a.suspendUntil
      /\ r.global = a.global /\ r.targets = a.targets
      /\ r.until = IF a.targets = NoTargets THEN None ELSE a.until
      /\ r.globalUntil = IF a.global = None THEN None ELSE a.globalUntil
  BY <1>3, <1>6, TidyFields
<1> HIDE DEF r
<1>8. \A m \in Monitors : NoTargets[m] = None
  BY DEF NoTargets
<1>9. \A m \in Monitors :
         r.targets[m] = IF m \in Lapsing(s, matched) THEN None ELSE s.targets[m]
  BY <1>1, <1>2, <1>5, <1>6, <1>7, <1>8 DEF Lapsing
<1>10. ASSUME NEW m \in Monitors, r.targets[m] # None PROVE r.until = s.until
  <2>1. targets[m] # None /\ x.targets[m] # None /\ e.targets[m] # None
    BY <1>10, <1>2, <1>5, <1>6, <1>7
  <2>2. targets # NoTargets /\ e.targets # NoTargets
    BY <2>1, <1>8
  <2> QED BY <2>2, <1>1, <1>2, <1>6, <1>7
<1>11. \/ r.global = s.global /\ (r.global # None => r.globalUntil = s.globalUntil)
       \/ r.global = None /\ ~ Active(s.globalUntil, now)
  BY <1>1, <1>2, <1>6, <1>7
<1>12. \/ r.suspendUntil = s.suspendUntil
       \/ r.suspendUntil = None /\ s.suspendUntil # None /\ s.suspendUntil <= now
  BY <1>1, <1>2, <1>6, <1>7
<1>13. r.indefinite = s.indefinite
  BY <1>1, <1>2, <1>6, <1>7
<1> QED BY <1>7, <1>9, <1>10, <1>11, <1>12, <1>13 DEF r

\* Replacing the targets and tidying, as pruning and clearing do.
LEMMA RetargetedFields ==
    ASSUME NEW s \in State, NEW targets \in [Monitors -> Percent \cup {None}]
    PROVE  LET r == Tidy([s EXCEPT !.targets = targets]) IN
           /\ r \in State
           /\ r.indefinite = s.indefinite /\ r.suspendUntil = s.suspendUntil
           /\ r.global = s.global /\ r.targets = targets
           /\ r.global # None => r.globalUntil = s.globalUntil
           /\ \A m \in Monitors : r.targets[m] # None => r.until = s.until
<1> DEFINE x == [s EXCEPT !.targets = targets]
           r == Tidy(x)
<1>1. /\ x \in State
      /\ x.indefinite = s.indefinite /\ x.suspendUntil = s.suspendUntil
      /\ x.global = s.global /\ x.targets = targets
      /\ x.until = s.until /\ x.globalUntil = s.globalUntil
  BY DEF State
<1> HIDE DEF x
<1>2. /\ r \in State
      /\ r.indefinite = x.indefinite /\ r.suspendUntil = x.suspendUntil
      /\ r.global = x.global /\ r.targets = x.targets
      /\ r.until = IF x.targets = NoTargets THEN None ELSE x.until
      /\ r.globalUntil = IF x.global = None THEN None ELSE x.globalUntil
  BY <1>1, TidyFields
<1>3. \A m \in Monitors : NoTargets[m] = None
  BY DEF NoTargets
<1> HIDE DEF r
<1>4. \A m \in Monitors : r.targets[m] # None => r.until = s.until
  BY <1>1, <1>2, <1>3
<1> QED BY <1>1, <1>2, <1>4 DEF r, x

-----------------------------------------------------------------------------
(* What is promised to be kept is kept by each operation.                  *)

\* Nothing is lost by waiting, nor by a monitor more of which is excused.
LEMMA HoldsLater ==
    ASSUME NEW s \in State, NEW p \in State, NEW gone, NEW more,
           NEW t \in Nat, NEW later \in Nat, t <= later, Holds(s, p, gone, t),
           \A m \in Monitors : m \in gone /\ s.targets[m] = None => m \in more
    PROVE  Holds(s, p, more, later)
<1>1. p.suspendUntil \in Nat \cup {None} /\ p.globalUntil \in Nat \cup {None}
  BY DEF State, Time
<1>2. ~ Active(p.globalUntil, t) => ~ Active(p.globalUntil, later)
  BY <1>1, NoneAssumption DEF Active
<1>3. p.suspendUntil # None /\ p.suspendUntil <= t => p.suspendUntil <= later
  BY <1>1, NoneAssumption
<1> QED BY <1>2, <1>3 DEF Holds

LEMMA HoldsRefreshed ==
    ASSUME NEW s \in State, NEW p \in State, NEW matched, NEW gone, NEW more,
           now \in Nat, Holds(s, p, gone, now), Lapsing(s, matched) \subseteq more,
           \A m \in Monitors : m \in gone /\ s.targets[m] = None => m \in more
    PROVE  /\ Refreshed(s, matched) \in State
           /\ Holds(Refreshed(s, matched), p, more, now)
           /\ Within(Refreshed(s, matched), s)
<1> DEFINE r == Refreshed(s, matched)
<1>1. /\ r \in State
      /\ r.indefinite = s.indefinite
      /\ \/ r.suspendUntil = s.suspendUntil
         \/ r.suspendUntil = None /\ s.suspendUntil # None /\ s.suspendUntil <= now
      /\ \/ r.global = s.global /\ (r.global # None => r.globalUntil = s.globalUntil)
         \/ r.global = None /\ ~ Active(s.globalUntil, now)
      /\ \A m \in Monitors :
            r.targets[m] = IF m \in Lapsing(s, matched) THEN None ELSE s.targets[m]
      /\ \A m \in Monitors : r.targets[m] # None => r.until = s.until
  BY RefreshedFields
<1> HIDE DEF r
<1>2. /\ \/ r.suspendUntil = p.suspendUntil
         \/ r.suspendUntil = None /\ p.suspendUntil # None /\ p.suspendUntil <= now
      /\ r.indefinite = p.indefinite
  BY <1>1 DEF Holds
<1>3. \/ r.global = p.global /\ (r.global # None => r.globalUntil = p.globalUntil)
      \/ r.global = None /\ ~ Active(p.globalUntil, now)
  <2>1. CASE s.global = None
    BY <1>1, <2>1 DEF Holds
  <2>2. CASE s.global # None
    BY <1>1, <2>2 DEF Holds
  <2> QED BY <2>1, <2>2
<1>4. \A m \in Monitors : m \in Lapsing(s, matched) => s.targets[m] # None /\ m \in more
  BY DEF Lapsing
<1>5. \A m \in Monitors : r.targets[m] = p.targets[m] \/ (r.targets[m] = None /\ m \in more)
  BY <1>1, <1>4 DEF Holds
<1>6. \A m \in Monitors : r.targets[m] # None => r.until = p.until
  BY <1>1 DEF Holds
<1>7. Within(r, s)
  BY <1>1 DEF Within
<1> QED BY <1>1, <1>2, <1>3, <1>5, <1>6, <1>7 DEF Holds, r

\* Both are left with fewer overrides, the state with those of the promise
\* that it still had.
LEMMA HoldsRetargeted ==
    ASSUME NEW s \in State, NEW p \in State, NEW gone, NEW more, NEW t,
           Holds(s, p, gone, t),
           NEW ss \in [Monitors -> Percent \cup {None}],
           NEW ps \in [Monitors -> Percent \cup {None}],
           \A m \in Monitors : ss[m] \in {None, s.targets[m]} /\ ps[m] \in {None, p.targets[m]},
           \A m \in Monitors : ss[m] = ps[m] \/ (ss[m] = None /\ m \in more)
    PROVE  LET r == Tidy([s EXCEPT !.targets = ss]) IN
           /\ Holds(r, p, more, t) \/ ps # p.targets
           /\ Holds(r, Tidy([p EXCEPT !.targets = ps]), more, t)
<1> DEFINE r == Tidy([s EXCEPT !.targets = ss])
           q == Tidy([p EXCEPT !.targets = ps])
<1>1. /\ r.indefinite = s.indefinite /\ r.suspendUntil = s.suspendUntil
      /\ r.global = s.global /\ r.targets = ss
      /\ r.global # None => r.globalUntil = s.globalUntil
      /\ \A m \in Monitors : r.targets[m] # None => r.until = s.until
  BY RetargetedFields
<1>2. /\ q.indefinite = p.indefinite /\ q.suspendUntil = p.suspendUntil
      /\ q.global = p.global /\ q.targets = ps
      /\ q.global # None => q.globalUntil = p.globalUntil
      /\ \A m \in Monitors : q.targets[m] # None => q.until = p.until
  BY RetargetedFields
<1> HIDE DEF r, q
<1>3. Holds(r, p, more, t) \/ ps # p.targets
  BY <1>1 DEF Holds
<1>4. Holds(r, q, more, t)
  <2>1. /\ r.indefinite = q.indefinite
        /\ \/ r.suspendUntil = q.suspendUntil
           \/ r.suspendUntil = None /\ q.suspendUntil # None /\ q.suspendUntil <= t
    BY <1>1, <1>2 DEF Holds
  <2>2. \/ r.global = q.global /\ (r.global # None => r.globalUntil = q.globalUntil)
        \/ r.global = None /\ ~ Active(q.globalUntil, t)
    BY <1>1, <1>2 DEF Holds
  <2>3. \A m \in Monitors : r.targets[m] = q.targets[m] \/ (r.targets[m] = None /\ m \in more)
    BY <1>1, <1>2
  <2>4. \A m \in Monitors : r.targets[m] # None => r.until = q.until
    BY <1>1, <1>2 DEF Holds
  <2> QED BY <2>1, <2>2, <2>3, <2>4 DEF Holds
<1> QED BY <1>3, <1>4 DEF r, q

LEMMA HoldsPruned ==
    ASSUME NEW s \in State, NEW p \in State, NEW gone, NEW t, Holds(s, p, gone, t),
           NEW monitors \in SUBSET Monitors
    PROVE  /\ Pruned(s, monitors) \in State
           /\ Holds(Pruned(s, monitors), p, gone \cup (Monitors \ monitors), t)
           /\ Within(Pruned(s, monitors), s)
<1> DEFINE ss == [m \in Monitors |-> IF m \in monitors THEN s.targets[m] ELSE None]
           ps == p.targets
           more == gone \cup (Monitors \ monitors)
<1>1. ss \in [Monitors -> Percent \cup {None}] /\ ps \in [Monitors -> Percent \cup {None}]
  BY DEF State
<1>2. \A m \in Monitors : ss[m] = IF m \in monitors THEN s.targets[m] ELSE None
  OBVIOUS
<1>3. Pruned(s, monitors) = Tidy([s EXCEPT !.targets = ss])
  BY DEF Pruned
<1> HIDE DEF ss
<1>4. \A m \in Monitors : ss[m] = ps[m] \/ (ss[m] = None /\ m \in more)
  BY <1>2 DEF Holds
<1>5. \A m \in Monitors : ss[m] \in {None, s.targets[m]} /\ ps[m] \in {None, p.targets[m]}
  BY <1>2
<1>6. Pruned(s, monitors) \in State /\ Pruned(s, monitors).targets = ss
  BY <1>1, <1>3, RetargetedFields
<1> HIDE DEF more
<1>7. Holds(Tidy([s EXCEPT !.targets = ss]), p, more, t) \/ ps # p.targets
  <2> HIDE DEF ps
  <2> QED BY <1>1, <1>4, <1>5, HoldsRetargeted
<1>8. Holds(Pruned(s, monitors), p, more, t)
  BY <1>3, <1>7
<1> QED BY <1>5, <1>6, <1>8 DEF Within, more

\* What holds is what the properties ask for.
LEMMA HoldsMeansKeeps ==
    ASSUME NEW s \in State, promise \in State, now \in Nat, Holds(s, promise, released, now)
    PROVE  Keeps(s)
<1>1. {s.suspendUntil, promise.suspendUntil, s.globalUntil, promise.globalUntil,
       s.until, promise.until} \subseteq Nat \cup {None}
  BY DEF State, Time
<1>2. Suspended(s, now) <=> Suspended(promise, now)
  BY <1>1, NoneAssumption DEF Holds, Suspended
<1>3. GlobalOf(s, now) = GlobalOf(promise, now)
  BY DEF Holds, GlobalOf
<1>4. \A m \in Monitors :
         \/ OverrideOf(s, m, now) = OverrideOf(promise, m, now)
         \/ OverrideOf(s, m, now) = None /\ m \in released
  BY DEF Holds, OverrideOf
<1> QED BY <1>2, <1>3, <1>4 DEF Keeps

-----------------------------------------------------------------------------
(* The requests, which change the state and the promise alike.             *)

LEMMA UntilType ==
    ASSUME NEW minutes \in Minutes, now \in Nat
    PROVE  Until(minutes) \in Time \cup {None}
BY TimeAssumption DEF Minutes, Until, Time

LEMMA SuspendedForHolds ==
    ASSUME NEW s \in State, NEW p \in State, NEW minutes \in Minutes, now \in Nat,
           NEW gone, Holds(s, p, gone, now)
    PROVE  /\ SuspendedFor(s, minutes) \in State /\ SuspendedFor(p, minutes) \in State
           /\ Holds(SuspendedFor(s, minutes), SuspendedFor(p, minutes), gone, now)
<1> DEFINE end == Until(minutes)
           flag == minutes = None
<1>1. end \in Time \cup {None} /\ flag \in BOOLEAN
  BY UntilType
<1>2. \A x \in State :
         LET y == SuspendedFor(x, minutes) IN
         /\ y \in State /\ y.indefinite = flag /\ y.suspendUntil = end
         /\ y.global = x.global /\ y.globalUntil = x.globalUntil
         /\ y.targets = x.targets /\ y.until = x.until
  <2>1. \A x \in State : SuspendedFor(x, minutes)
                           = [x EXCEPT !.indefinite = flag, !.suspendUntil = end]
    BY Zenon DEF SuspendedFor
  <2> HIDE DEF end, flag
  <2>2. ASSUME NEW x \in State
        PROVE  LET y == [x EXCEPT !.indefinite = flag, !.suspendUntil = end] IN
               /\ y \in State /\ y.indefinite = flag /\ y.suspendUntil = end
               /\ y.global = x.global /\ y.globalUntil = x.globalUntil
               /\ y.targets = x.targets /\ y.until = x.until
    <3> DEFINE z == [x EXCEPT !.indefinite = flag]
    <3>1. /\ z \in State /\ z.indefinite = flag
          /\ z.global = x.global /\ z.globalUntil = x.globalUntil
          /\ z.targets = x.targets /\ z.until = x.until
      BY <1>1 DEF State
    <3>2. [x EXCEPT !.indefinite = flag, !.suspendUntil = end] = [z EXCEPT !.suspendUntil = end]
      OBVIOUS
    <3> HIDE DEF z
    <3> QED BY <1>1, <3>1, <3>2 DEF State
  <2> QED BY <2>1, <2>2
<1> HIDE DEF end, flag
<1> QED BY <1>2 DEF Holds

LEMMA WithOverrideHolds ==
    ASSUME NEW s \in State, NEW p \in State, NEW k \in Monitors, NEW percent \in Percent,
           NEW minutes \in Minutes, now \in Nat, NEW gone, Holds(s, p, gone, now)
    PROVE  /\ WithOverride(s, k, percent, minutes) \in State
           /\ WithOverride(p, k, percent, minutes) \in State
           /\ Holds(WithOverride(s, k, percent, minutes),
                    WithOverride(p, k, percent, minutes), gone, now)
<1> DEFINE end == Until(minutes)
<1>1. end \in Time \cup {None}
  BY UntilType
<1>2. \A x \in State :
         LET y == WithOverride(x, k, percent, minutes) IN
         /\ y \in State /\ y.indefinite = x.indefinite /\ y.suspendUntil = x.suspendUntil
         /\ y.global = x.global /\ y.globalUntil = x.globalUntil
         /\ y.targets = [x.targets EXCEPT ![k] = percent] /\ y.until = end
  <2> TAKE x \in State
  <2> HIDE DEF end
  <2> DEFINE targets == [x.targets EXCEPT ![k] = percent]
  <2>1. targets \in [Monitors -> Percent \cup {None}]
    BY DEF State
  <2>2. WithOverride(x, k, percent, minutes) = [x EXCEPT !.targets = targets, !.until = end]
    BY DEF WithOverride, end
  <2> HIDE DEF targets
  <2>3. LET y == [x EXCEPT !.targets = targets, !.until = end] IN
        /\ y \in State /\ y.indefinite = x.indefinite /\ y.suspendUntil = x.suspendUntil
        /\ y.global = x.global /\ y.globalUntil = x.globalUntil
        /\ y.targets = targets /\ y.until = end
    BY <1>1, <2>1 DEF State
  <2> QED BY <2>2, <2>3 DEF targets
<1> HIDE DEF end
<1> DEFINE ss == [s.targets EXCEPT ![k] = percent]
           ps == [p.targets EXCEPT ![k] = percent]
<1>3. \A m \in Monitors : ss[m] = ps[m] \/ (ss[m] = None /\ m \in gone)
  BY DEF Holds, State
<1> HIDE DEF ss, ps
<1>4. WithOverride(s, k, percent, minutes).targets = ss
        /\ WithOverride(p, k, percent, minutes).targets = ps
  BY <1>2 DEF ss, ps
<1> QED BY <1>2, <1>3, <1>4 DEF Holds

LEMMA WithGlobalHolds ==
    ASSUME NEW s \in State, NEW p \in State, NEW percent \in Percent,
           NEW minutes \in Minutes, now \in Nat, NEW gone, Holds(s, p, gone, now)
    PROVE  /\ WithGlobal(s, percent, minutes) \in State
           /\ WithGlobal(p, percent, minutes) \in State
           /\ Holds(WithGlobal(s, percent, minutes), WithGlobal(p, percent, minutes), gone, now)
<1> DEFINE end == Until(minutes)
<1>1. end \in Time \cup {None}
  BY UntilType
<1>2. \A x \in State :
         LET y == WithGlobal(x, percent, minutes) IN
         /\ y \in State /\ y.indefinite = x.indefinite /\ y.suspendUntil = x.suspendUntil
         /\ y.global = percent /\ y.globalUntil = end
         /\ y.targets = x.targets /\ y.until = x.until
  <2> TAKE x \in State
  <2> DEFINE z == [x EXCEPT !.global = percent]
  <2>1. WithGlobal(x, percent, minutes) = [z EXCEPT !.globalUntil = end]
    BY DEF WithGlobal
  <2> HIDE DEF end
  <2>2. /\ z \in State /\ z.indefinite = x.indefinite /\ z.suspendUntil = x.suspendUntil
        /\ z.global = percent /\ z.targets = x.targets /\ z.until = x.until
    BY DEF State
  <2> HIDE DEF z
  <2> QED BY <1>1, <2>1, <2>2 DEF State
<1> HIDE DEF end
<1> QED BY <1>2 DEF Holds

LEMMA WithoutOverrideHolds ==
    ASSUME NEW s \in State, NEW p \in State, NEW k \in Monitors,
           NEW gone, NEW t, Holds(s, p, gone, t)
    PROVE  /\ WithoutOverride(s, k) \in State /\ WithoutOverride(p, k) \in State
           /\ Holds(WithoutOverride(s, k), WithoutOverride(p, k), gone, t)
<1> DEFINE ss == [s.targets EXCEPT ![k] = None]
           ps == [p.targets EXCEPT ![k] = None]
<1>1. ss \in [Monitors -> Percent \cup {None}] /\ ps \in [Monitors -> Percent \cup {None}]
  BY DEF State
<1>2. \A m \in Monitors : ss[m] \in {None, s.targets[m]} /\ ps[m] \in {None, p.targets[m]}
  BY DEF State
<1>3. \A m \in Monitors : ss[m] = ps[m] \/ (ss[m] = None /\ m \in gone)
  BY DEF Holds, State
<1>4. /\ WithoutOverride(s, k) = Tidy([s EXCEPT !.targets = ss])
      /\ WithoutOverride(p, k) = Tidy([p EXCEPT !.targets = ps])
  BY DEF WithoutOverride
<1> HIDE DEF ss, ps
<1>5. WithoutOverride(s, k) \in State /\ WithoutOverride(p, k) \in State
  BY <1>1, <1>4, RetargetedFields
<1>6. Holds(Tidy([s EXCEPT !.targets = ss]), Tidy([p EXCEPT !.targets = ps]), gone, t)
  BY <1>1, <1>2, <1>3, HoldsRetargeted
<1> QED BY <1>4, <1>5, <1>6

LEMMA WithoutGlobalHolds ==
    ASSUME NEW s \in State, NEW p \in State, NEW gone, NEW t, Holds(s, p, gone, t)
    PROVE  /\ WithoutGlobal(s) \in State /\ WithoutGlobal(p) \in State
           /\ Holds(WithoutGlobal(s), WithoutGlobal(p), gone, t)
<1>1. \A x \in State :
         LET y == WithoutGlobal(x) IN
         /\ y \in State /\ y.indefinite = x.indefinite /\ y.suspendUntil = x.suspendUntil
         /\ y.global = None /\ y.targets = x.targets
         /\ \A m \in Monitors : y.targets[m] # None => y.until = x.until
  <2> TAKE x \in State
  <2> DEFINE z == [x EXCEPT !.global = None]
  <2>1. /\ z \in State /\ z.indefinite = x.indefinite /\ z.suspendUntil = x.suspendUntil
        /\ z.global = None /\ z.targets = x.targets /\ z.until = x.until
    BY DEF State
  <2>2. WithoutGlobal(x) = Tidy(z)
    BY DEF WithoutGlobal
  <2> HIDE DEF z
  <2>3. \A m \in Monitors : NoTargets[m] = None
    BY DEF NoTargets
  <2> QED BY <2>1, <2>2, <2>3, TidyFields
<1> QED BY <1>1 DEF Holds

LEMMA WithoutOverridesHolds ==
    ASSUME NEW s \in State, NEW p \in State, NEW gone, NEW t, Holds(s, p, gone, t)
    PROVE  /\ WithoutOverrides(s) \in State /\ WithoutOverrides(p) \in State
           /\ Holds(WithoutOverrides(s), WithoutOverrides(p), gone, t)
<1>1. \A x \in State :
         LET y == WithoutOverrides(x) IN
         /\ y \in State /\ y.indefinite = x.indefinite /\ y.suspendUntil = x.suspendUntil
         /\ y.global = None /\ y.targets = NoTargets
  <2> TAKE x \in State
  <2> DEFINE z == [x EXCEPT !.targets = NoTargets, !.global = None]
  <2>1. /\ z \in State /\ z.indefinite = x.indefinite /\ z.suspendUntil = x.suspendUntil
        /\ z.global = None /\ z.targets = NoTargets
    BY NoTargetsType DEF State
  <2>2. WithoutOverrides(x) = Tidy(z)
    BY DEF WithoutOverrides
  <2> HIDE DEF z
  <2> QED BY <2>1, <2>2, TidyFields
<1>2. \A m \in Monitors : NoTargets[m] = None
  BY DEF NoTargets
<1> QED BY <1>1, <1>2 DEF Holds

LEMMA NothingHolds == ASSUME NEW gone, NEW t PROVE Holds(Nothing, Nothing, gone, t)
BY DEF Holds, Nothing

-----------------------------------------------------------------------------
(* Saving.                                                                 *)

\* A save leaves the file as it was or with the new state, and the snapshot
\* with it.
LEMMA SaveEnds ==
    ASSUME ~ DirectorySyncFails, NEW s, NEW f, NEW save \in Saves(s, f, f)
    PROVE  /\ save.snapshot = save.disk
           /\ (save.ok => save.disk = s) /\ (~ save.ok => save.disk = f)
BY DEF Saves, Save

LEMMA KeepType ==
    ASSUME TypeOK, NEW save, Keep(save)
    PROVE  snapshot' = save.snapshot /\ disk' = save.disk /\ failures' \in 0..MaxFailures
<1>1. failures \in 0..MaxFailures
  BY DEF TypeOK
<1>2. MaxFailures \in Nat
  BY BoundAssumption
<1>3. /\ snapshot' = save.snapshot /\ disk' = save.disk
      /\ failures' = failures + (IF save.ok THEN 0 ELSE 1) /\ failures' <= MaxFailures
  BY DEF Keep
<1> QED BY <1>1, <1>2, <1>3

LEMMA AnswerType ==
    ASSUME TypeOK, NEW result, Answer(result)
    PROVE  requests' \in 0..MaxRequests /\ reply' = result
<1>1. requests \in 0..MaxRequests
  BY DEF TypeOK
<1>2. MaxRequests \in Nat
  BY BoundAssumption
<1>3. requests < MaxRequests /\ requests' = requests + 1 /\ reply' = result
  BY DEF Answer
<1> QED BY <1>1, <1>2, <1>3

LEMMA InitInv == Init => Inv
<1> SUFFICES ASSUME Init PROVE Inv
  OBVIOUS
<1>1. TypeOK /\ SnapshotIsOnDisk
  BY NoTargetsType, BoundAssumption DEF Init, TypeOK, SnapshotIsOnDisk, Time
<1>2. Holds(mem, promise, released, now) /\ Holds(disk, promise, released, now)
  BY NothingHolds DEF Init
<1>3. Within(mem, disk)
  BY DEF Init, Within
<1> QED BY <1>1, <1>2, <1>3 DEF Inv, Kept

\* A change is saved alone, or the daemon is killed after it was saved.
LEMMA SavedInv ==
    ASSUME Inv, ~ DirectorySyncFails, NEW changed \in State, promise' \in State,
           Holds(changed, promise', released, now),
           SavedAlone(changed) \/ KilledAfterSave(changed),
           asked' \in [Monitors -> Time \cup {None}], UNCHANGED <<now, configured>>
    PROVE  Inv'
<1>1. /\ mem' = changed /\ disk' = changed /\ snapshot' = changed /\ released' = released
      /\ failures' \in 0..MaxFailures /\ requests' \in 0..MaxRequests
      /\ reply' \in {"done", "none"}
  <2>1. CASE SavedAlone(changed)
    BY <2>1, SaveEnds, KeepType, AnswerType DEF SavedAlone, Inv, SnapshotIsOnDisk
  <2>2. CASE KilledAfterSave(changed)
    BY <2>2, AnswerType DEF KilledAfterSave, Inv, TypeOK
  <2> QED BY <2>1, <2>2
<1>2. TypeOK' /\ SnapshotIsOnDisk'
  BY <1>1 DEF Inv, TypeOK, SnapshotIsOnDisk
<1>3. Holds(mem', promise', released', now') /\ Holds(disk', promise', released', now')
  BY <1>1
<1>4. Within(mem', disk')
  BY <1>1 DEF Within
<1> QED BY <1>2, <1>3, <1>4 DEF Inv, Kept

\* A change is saved and a forced tick follows.  The first save may be none at
\* all when the change dropped nothing but what the file had.
LEMMA AppliedInv ==
    ASSUME Inv, ~ DirectorySyncFails, NEW changed \in State, NEW first,
           NEW monitors \in SUBSET Monitors,
           promise' \in State, configured' \in SUBSET Monitors, now' = now,
           asked' \in [Monitors -> Time \cup {None}],
           Holds(changed, promise', released \cup (Monitors \ monitors), now),
           \A save \in first : save.ok =>
              /\ save.snapshot = save.disk /\ save.disk \in State
              /\ Within(changed, save.disk)
              /\ Holds(save.disk, promise', released \cup (Monitors \ monitors), now),
           SavedThenApplied(first, changed, monitors)
    PROVE  Inv'
<1> DEFINE gone == released \cup (Monitors \ monitors)
<1>1. PICK save \in first, matched \in SUBSET monitors :
        /\ save.ok
        /\ mem' = Refreshed(changed, matched)
        /\ released' = {m \in released : changed.targets[m] = None}
                           \cup Lapsing(changed, matched) \cup (Monitors \ monitors)
        /\ \E last \in Saves(mem', save.snapshot, save.disk) :
              Keep(last) /\ Answer(IF last.ok THEN "done" ELSE "unapplied")
  BY DEF SavedThenApplied
<1> DEFINE file == save.disk
<1>2. /\ save.snapshot = file /\ file \in State
      /\ Within(changed, file) /\ Holds(file, promise', gone, now)
  BY <1>1
<1>3. PICK last \in Saves(mem', file, file) :
        Keep(last) /\ Answer(IF last.ok THEN "done" ELSE "unapplied")
  BY <1>1, <1>2
<1> HIDE DEF file
<1>4. /\ snapshot' = disk' /\ disk' \in {mem', file}
      /\ failures' \in 0..MaxFailures /\ requests' \in 0..MaxRequests
      /\ reply' \in {"done", "unapplied"}
  <2>1. /\ last.snapshot = last.disk
        /\ (last.ok => last.disk = mem') /\ (~ last.ok => last.disk = file)
    BY <1>3, SaveEnds
  <2>2. snapshot' = last.snapshot /\ disk' = last.disk /\ failures' \in 0..MaxFailures
    BY <1>3, KeepType DEF Inv
  <2>3. requests' \in 0..MaxRequests /\ reply' = IF last.ok THEN "done" ELSE "unapplied"
    BY <1>3, AnswerType DEF Inv
  <2> QED BY <2>1, <2>2, <2>3
<1>5. now \in Nat
  BY DEF Inv, TypeOK, Time
<1>6. released' \subseteq Monitors /\ Lapsing(changed, matched) \subseteq released'
  BY <1>1 DEF Inv, TypeOK, Lapsing
<1>7. \A m \in Monitors : m \in gone /\ changed.targets[m] = None => m \in released'
  BY <1>1
<1>8. \A m \in Monitors : m \in gone /\ file.targets[m] = None => m \in released'
  BY <1>2, <1>7 DEF Within
<1>9. /\ mem' \in State
      /\ Holds(mem', promise', released', now) /\ Within(mem', changed)
  <2> DEFINE more == released'
  <2>1. Lapsing(changed, matched) \subseteq more
          /\ \A m \in Monitors : m \in gone /\ changed.targets[m] = None => m \in more
    BY <1>6, <1>7
  <2> HIDE DEF more, gone
  <2>2. /\ Refreshed(changed, matched) \in State
        /\ Holds(Refreshed(changed, matched), promise', more, now)
        /\ Within(Refreshed(changed, matched), changed)
    BY <2>1, <1>5, HoldsRefreshed DEF gone
  <2> QED BY <1>1, <2>2 DEF more
<1>10. Holds(file, promise', released', now)
  <2> HIDE DEF gone
  <2> QED BY <1>2, <1>5, <1>8, HoldsLater
<1>11. Within(mem', file)
  BY <1>2, <1>9 DEF Within
<1>12. disk' \in State /\ Holds(disk', promise', released', now) /\ Within(mem', disk')
  BY <1>2, <1>4, <1>9, <1>10, <1>11 DEF Within
<1>13. TypeOK'
  BY <1>4, <1>6, <1>9, <1>12 DEF Inv, TypeOK
<1>14. Kept'
  <2>1. Holds(mem', promise', released', now') /\ Holds(disk', promise', released', now')
    BY <1>9, <1>12
  <2> QED BY <2>1, <1>12 DEF Kept
<1> QED BY <1>4, <1>13, <1>14 DEF Inv, SnapshotIsOnDisk

\* The save fails: the file stays, and memory is what undoing leaves.
LEMMA RejectedInv ==
    ASSUME Inv, ~ DirectorySyncFails, NEW changed, NEW undone \in State,
           NEW answer \in {"rejected", "reload_rejected"},
           Rejected(answer, changed, undone),
           released \subseteq released', released' \subseteq Monitors,
           Within(undone, disk), Holds(undone, promise, released', now),
           now' = now, configured' = configured, promise' = promise, asked' = asked
    PROVE  Inv'
<1>1. /\ mem' = undone /\ snapshot' = disk' /\ disk' = disk
      /\ failures' \in 0..MaxFailures /\ requests' \in 0..MaxRequests /\ reply' = answer
  <2>1. snapshot = disk /\ TypeOK
    BY DEF Inv, SnapshotIsOnDisk
  <2>2. PICK save \in Saves(changed, disk, disk) :
          ~ save.ok /\ Keep(save) /\ mem' = undone /\ Answer(answer)
    BY <2>1 DEF Rejected
  <2>3. save.snapshot = save.disk /\ save.disk = disk
    BY <2>2, SaveEnds
  <2>4. snapshot' = save.snapshot /\ disk' = save.disk /\ failures' \in 0..MaxFailures
    BY <2>1, <2>2, KeepType
  <2>5. requests' \in 0..MaxRequests /\ reply' = answer
    BY <2>1, <2>2, AnswerType
  <2> QED BY <2>2, <2>3, <2>4, <2>5
<1>2. TypeOK' /\ SnapshotIsOnDisk'
  BY <1>1 DEF Inv, TypeOK, SnapshotIsOnDisk
<1>3. Holds(disk, promise, released', now)
  <2> DEFINE more == released'
  <2>1. \A m \in Monitors : m \in released /\ disk.targets[m] = None => m \in more
    OBVIOUS
  <2> HIDE DEF more
  <2>2. disk \in State /\ promise \in State /\ now \in Nat /\ Holds(disk, promise, released, now)
    BY DEF Inv, Kept, TypeOK, Time
  <2>3. now <= now
    BY <2>2
  <2>4. Holds(disk, promise, more, now)
    BY <2>1, <2>2, <2>3, HoldsLater
  <2> QED BY <2>4 DEF more
<1>4. Holds(mem', promise', released', now') /\ Holds(disk', promise', released', now')
  BY <1>1, <1>3
<1> QED BY <1>1, <1>2, <1>4 DEF Inv, Kept

-----------------------------------------------------------------------------
(* The steps.                                                              *)

\* What the invariant gives the steps.
LEMMA InvFacts ==
    ASSUME Inv
    PROVE  /\ now \in Nat /\ configured \in SUBSET Monitors /\ released \subseteq Monitors
           /\ mem \in State /\ disk \in State /\ promise \in State /\ snapshot = disk
           /\ asked \in [Monitors -> Time \cup {None}]
           /\ Holds(mem, promise, released, now) /\ Holds(disk, promise, released, now)
           /\ Within(mem, disk)
BY DEF Inv, TypeOK, SnapshotIsOnDisk, Kept, Time

LEMMA HoldsWidened ==
    ASSUME NEW s \in State, NEW p \in State, NEW gone, NEW more, now \in Nat,
           Holds(s, p, gone, now), gone \subseteq more
    PROVE  Holds(s, p, more, now)
<1>1. now <= now
  OBVIOUS
<1>2. \A m \in Monitors : m \in gone /\ s.targets[m] = None => m \in more
  OBVIOUS
<1> QED BY <1>1, <1>2, HoldsLater

LEMMA SuspendInv ==
    ASSUME Inv, ~ DirectorySyncFails, NEW minutes \in Minutes, Suspend(minutes)
    PROVE  Inv'
<1> DEFINE changed == SuspendedFor(mem, minutes)
<1>1. /\ changed \in State /\ SuspendedFor(promise, minutes) \in State
      /\ Holds(changed, SuspendedFor(promise, minutes), released, now)
  BY InvFacts, SuspendedForHolds
<1> HIDE DEF changed
<1>2. now' = now /\ configured' = configured
  BY DEF Suspend
<1>3. CASE /\ SavedAlone(changed) \/ KilledAfterSave(changed)
           /\ TakesEffect(SuspendedFor(promise, minutes), asked)
  <2>1. promise' = SuspendedFor(promise, minutes) /\ asked' = asked
    BY <1>3 DEF TakesEffect
  <2>2. /\ Holds(changed, promise', released, now) /\ promise' \in State
        /\ asked' \in [Monitors -> Time \cup {None}]
    BY <1>1, <2>1, InvFacts
  <2> QED BY <1>1, <1>2, <1>3, <2>2, SavedInv
<1>4. CASE Rejected("rejected", changed, mem) /\ UNCHANGED <<promise, asked, released>>
  <2>1. promise' = promise /\ asked' = asked /\ released' = released
    BY <1>4
  <2>2. Holds(mem, promise, released', now) /\ Within(mem, disk) /\ mem \in State
          /\ released \subseteq released' /\ released' \subseteq Monitors
    BY <2>1, InvFacts
  <2> QED BY <1>2, <1>4, <2>1, <2>2, RejectedInv
<1> QED BY <1>3, <1>4 DEF Suspend, changed

\* Each of the requests that a tick follows.
LEMMA ChangeAndApplyInv ==
    ASSUME Inv, ~ DirectorySyncFails, NEW changed \in State, NEW promised \in State,
           NEW asks \in [Monitors -> Time \cup {None}],
           Holds(changed, promised, released, now), ChangeAndApply(changed, promised, asks)
    PROVE  Inv'
<1>1. now' = now /\ configured' = configured
  BY DEF ChangeAndApply
<1>2. CASE TakesEffect(promised, asks)
             /\ SavedThenApplied(Saves(changed, snapshot, disk), changed, configured)
  <2> DEFINE gone == released \cup (Monitors \ configured)
  <2>1. promise' = promised /\ asked' = asks
    BY <1>2 DEF TakesEffect
  <2>2. /\ promise' \in State /\ asked' \in [Monitors -> Time \cup {None}]
        /\ configured' \in SUBSET Monitors /\ configured \in SUBSET Monitors
    BY <1>1, <2>1, InvFacts
  <2>3. Holds(changed, promise', gone, now)
    BY <2>1, InvFacts, HoldsWidened
  <2>4. ASSUME NEW save \in Saves(changed, snapshot, disk), save.ok
        PROVE  /\ save.snapshot = save.disk /\ save.disk \in State
               /\ Within(changed, save.disk) /\ Holds(save.disk, promise', gone, now)
    <3>1. save.snapshot = save.disk /\ save.disk = changed
      BY <2>4, InvFacts, SaveEnds
    <3> QED BY <2>3, <3>1 DEF Within
  <2> QED BY <1>1, <1>2, <2>2, <2>3, <2>4, AppliedInv
<1>3. CASE KilledAfterSave(changed) /\ TakesEffect(promised, asks)
  <2>1. promise' = promised /\ asked' = asks
    BY <1>3 DEF TakesEffect
  <2> QED BY <1>1, <1>3, <2>1, SavedInv
<1>4. CASE Rejected("rejected", changed, Undone(changed)) /\ UNCHANGED <<promise, asked, released>>
  <2>1. promise' = promise /\ asked' = asked /\ released' = released
    BY <1>4
  <2>2. Holds(mem, promise, released', now) /\ Within(mem, disk) /\ mem \in State
          /\ released \subseteq released' /\ released' \subseteq Monitors
    BY <2>1, InvFacts
  <2>3. Rejected("rejected", changed, mem)
    BY <1>4 DEF Undone
  <2> QED BY <1>1, <2>1, <2>2, <2>3, RejectedInv
<1> QED BY <1>2, <1>3, <1>4 DEF ChangeAndApply

LEMMA ReloadInv ==
    ASSUME Inv, ~ DirectorySyncFails, NEW monitors \in SUBSET Monitors, ReloadConfig(monitors)
    PROVE  Inv'
<1> DEFINE pruned == Pruned(mem, monitors)
           first == Saves(pruned, snapshot, disk)
                      \cup (IF pruned = mem THEN {Save(TRUE, snapshot, disk)} ELSE {})
           gone == released \cup (Monitors \ monitors)
<1>1. pruned \in State /\ Holds(pruned, promise, gone, now) /\ Within(pruned, mem)
  BY InvFacts, HoldsPruned
<1>2. Holds(disk, promise, gone, now)
  BY InvFacts, HoldsWidened
<1>3. now' = now /\ promise' = promise /\ asked' = asked
  BY DEF ReloadConfig
<1>4. ASSUME NEW save \in first, save.ok
      PROVE  /\ save.snapshot = save.disk /\ save.disk \in State
             /\ Within(pruned, save.disk) /\ Holds(save.disk, promise, gone, now)
  <2>1. CASE save \in Saves(pruned, snapshot, disk)
    <3>1. save.snapshot = save.disk /\ save.disk = pruned
      <4> HIDE DEF pruned, first, gone
      <4> QED BY <1>4, <2>1, InvFacts, SaveEnds
    <3> HIDE DEF pruned, first, gone
    <3> QED BY <1>1, <3>1 DEF Within
  <2>2. CASE pruned = mem /\ save = Save(TRUE, snapshot, disk)
    <3>1. save.snapshot = disk /\ save.disk = disk
      BY <2>2, InvFacts DEF Save
    <3> HIDE DEF pruned, first, gone
    <3> QED BY <1>2, <2>2, <3>1, InvFacts
  <2> QED BY <1>4, <2>1, <2>2
<1>5. \/ /\ SavedThenApplied(first, pruned, monitors)
         /\ configured' = monitors
      \/ /\ Rejected("reload_rejected", pruned, pruned)
         /\ released' = gone
         /\ configured' = configured
  BY DEF ReloadConfig
<1> HIDE DEF first
<1>6. CASE SavedThenApplied(first, pruned, monitors) /\ configured' = monitors
  <2> HIDE DEF pruned
  <2> QED BY <1>1, <1>3, <1>4, <1>6, InvFacts, AppliedInv
<1>7. CASE /\ Rejected("reload_rejected", pruned, pruned)
           /\ released' = gone
           /\ configured' = configured
  <2> HIDE DEF pruned
  <2>1. Within(pruned, disk)
    BY <1>1, InvFacts DEF Within
  <2>2. released \subseteq released' /\ released' \subseteq Monitors
    BY <1>7, InvFacts
  <2>3. Holds(pruned, promise, released', now)
    BY <1>1, <1>7
  <2> QED BY <1>1, <1>3, <1>7, <2>1, <2>2, <2>3, RejectedInv
<1> QED BY <1>5, <1>6, <1>7

LEMMA RequestInv == ASSUME Inv, ~ DirectorySyncFails, Request PROVE Inv'
<1>1. ASSUME NEW minutes \in Minutes, Suspend(minutes) PROVE Inv'
  BY <1>1, SuspendInv
<1>2. CASE Resume
  <2>1. Nothing \in State /\ Holds(Nothing, Nothing, released, now)
    BY NoTargetsType, NothingHolds
  <2> QED BY <1>2, <2>1, InvFacts, ChangeAndApplyInv DEF Resume
<1>3. ASSUME NEW p \in Percent, NEW minutes \in Minutes, SetGlobalOverride(p, minutes)
      PROVE  Inv'
  <2>1. /\ WithGlobal(mem, p, minutes) \in State /\ WithGlobal(promise, p, minutes) \in State
        /\ Holds(WithGlobal(mem, p, minutes), WithGlobal(promise, p, minutes), released, now)
    BY InvFacts, WithGlobalHolds
  <2> QED BY <1>3, <2>1, InvFacts, ChangeAndApplyInv DEF SetGlobalOverride
<1>4. ASSUME NEW p \in Percent, NEW minutes \in Minutes, NEW m \in Monitors,
             SetOverride(m, p, minutes)
      PROVE  Inv'
  <2> DEFINE changed == WithOverride(mem, m, p, minutes)
             promised == WithOverride(promise, m, p, minutes)
             asks == [asked EXCEPT ![m] = Until(minutes)]
  <2>1. changed \in State /\ promised \in State /\ Holds(changed, promised, released, now)
    BY InvFacts, WithOverrideHolds
  <2>2. asks \in [Monitors -> Time \cup {None}]
    BY InvFacts, UntilType
  <2>3. ChangeAndApply(changed, promised, asks)
    BY <1>4 DEF SetOverride
  <2> HIDE DEF changed, promised, asks
  <2> QED BY <2>1, <2>2, <2>3, ChangeAndApplyInv
<1>5. ASSUME NEW m \in Monitors, ClearOverride(m) PROVE Inv'
  <2>1. /\ WithoutOverride(mem, m) \in State /\ WithoutOverride(promise, m) \in State
        /\ Holds(WithoutOverride(mem, m), WithoutOverride(promise, m), released, now)
    BY InvFacts, WithoutOverrideHolds
  <2> QED BY <1>5, <2>1, InvFacts, ChangeAndApplyInv DEF ClearOverride
<1>6. CASE ClearGlobalOverride
  <2>1. /\ WithoutGlobal(mem) \in State /\ WithoutGlobal(promise) \in State
        /\ Holds(WithoutGlobal(mem), WithoutGlobal(promise), released, now)
    BY InvFacts, WithoutGlobalHolds
  <2> QED BY <1>6, <2>1, InvFacts, ChangeAndApplyInv DEF ClearGlobalOverride
<1>7. CASE ClearAllOverrides
  <2>1. /\ WithoutOverrides(mem) \in State /\ WithoutOverrides(promise) \in State
        /\ Holds(WithoutOverrides(mem), WithoutOverrides(promise), released, now)
    BY InvFacts, WithoutOverridesHolds
  <2> QED BY <1>7, <2>1, InvFacts, ChangeAndApplyInv DEF ClearAllOverrides
<1>8. ASSUME NEW monitors \in SUBSET Monitors, ReloadConfig(monitors) PROVE Inv'
  BY <1>8, ReloadInv
<1> QED BY <1>1, <1>2, <1>3, <1>4, <1>5, <1>6, <1>7, <1>8 DEF Request

\* A refresh alone: what it drops has ended by itself.
LEMMA RefreshKeeps ==
    ASSUME Inv, NEW matched,
           mem' = Refreshed(mem, matched), released' = released \cup Lapsing(mem, matched)
    PROVE  /\ mem' \in State /\ released' \subseteq Monitors
           /\ Holds(mem', promise, released', now) /\ Holds(disk, promise, released', now)
           /\ Within(mem', disk)
<1> DEFINE more == released \cup Lapsing(mem, matched)
<1>1. /\ Lapsing(mem, matched) \subseteq more /\ released \subseteq more
      /\ \A m \in Monitors : m \in released /\ mem.targets[m] = None => m \in more
  OBVIOUS
<1>2. more \subseteq Monitors
  BY InvFacts DEF Lapsing
<1> HIDE DEF more
<1>3. /\ Refreshed(mem, matched) \in State
      /\ Holds(Refreshed(mem, matched), promise, more, now)
      /\ Within(Refreshed(mem, matched), mem)
  BY <1>1, InvFacts, HoldsRefreshed
<1>4. Holds(disk, promise, more, now)
  BY <1>1, InvFacts, HoldsWidened
<1>5. Within(Refreshed(mem, matched), disk)
  BY <1>3, InvFacts DEF Within
<1> QED BY <1>2, <1>3, <1>4, <1>5 DEF more

LEMMA TickInv ==
    ASSUME Inv, ~ DirectorySyncFails, NEW matched, ScheduledTick(matched)
    PROVE  Inv'
<1>1. /\ mem' \in State /\ released' \subseteq Monitors
      /\ Holds(mem', promise, released', now) /\ Holds(disk, promise, released', now)
      /\ Within(mem', disk)
  BY RefreshKeeps DEF ScheduledTick
<1>2. now' = now /\ configured' = configured /\ reply' = reply /\ asked' = asked
        /\ promise' = promise /\ requests' = requests
  BY DEF ScheduledTick
<1>3. snapshot' = disk' /\ disk' \in {mem', disk} /\ failures' \in 0..MaxFailures
  <2>1. PICK save \in Saves(mem', disk, disk) : Keep(save)
    BY InvFacts DEF ScheduledTick
  <2>2. save.snapshot = save.disk /\ save.disk \in {mem', disk}
    BY <2>1, SaveEnds
  <2> QED BY <2>1, <2>2, KeepType DEF Inv
<1>4. TypeOK' /\ SnapshotIsOnDisk'
  BY <1>1, <1>2, <1>3 DEF Inv, TypeOK, SnapshotIsOnDisk
<1>5. Holds(mem', promise', released', now') /\ Holds(disk', promise', released', now')
  BY <1>1, <1>2, <1>3
<1>6. Within(mem', disk')
  BY <1>1, <1>3 DEF Within
<1> QED BY <1>4, <1>5, <1>6 DEF Inv, Kept

LEMMA ProbeInv == ASSUME Inv, NEW matched, Probe(matched) PROVE Inv'
<1>1. /\ mem' \in State /\ released' \subseteq Monitors
      /\ Holds(mem', promise, released', now) /\ Holds(disk, promise, released', now)
      /\ Within(mem', disk)
  BY RefreshKeeps DEF Probe
<1>2. now' = now /\ configured' = configured /\ reply' = reply /\ asked' = asked
        /\ promise' = promise /\ requests' = requests /\ failures' = failures
        /\ snapshot' = snapshot /\ disk' = disk
  BY DEF Probe
<1>3. TypeOK' /\ SnapshotIsOnDisk'
  BY <1>1, <1>2 DEF Inv, TypeOK, SnapshotIsOnDisk
<1>4. Holds(mem', promise', released', now') /\ Holds(disk', promise', released', now')
  BY <1>1, <1>2
<1> QED BY <1>1, <1>2, <1>3, <1>4 DEF Inv, Kept

LEMMA RestartInv == ASSUME Inv, NEW monitors \in SUBSET Monitors, Restart(monitors) PROVE Inv'
<1> DEFINE gone == released \cup (Monitors \ monitors)
<1>1. /\ Pruned(disk, monitors) \in State
      /\ Holds(Pruned(disk, monitors), promise, gone, now)
  BY InvFacts, HoldsPruned
<1>2. /\ mem' = Pruned(disk, monitors) /\ snapshot' = mem' /\ disk' = mem'
      /\ released' = gone /\ configured' = monitors
      /\ now' = now /\ asked' = asked /\ promise' = promise /\ failures' = failures
  BY DEF Restart
<1>3. requests' \in 0..MaxRequests /\ reply' = "none"
  BY AnswerType DEF Restart, Inv
<1>4. gone \subseteq Monitors
  BY InvFacts
<1> HIDE DEF gone
<1>5. TypeOK' /\ SnapshotIsOnDisk'
  BY <1>1, <1>2, <1>3, <1>4 DEF Inv, TypeOK, SnapshotIsOnDisk
<1>6. Holds(mem', promise', released', now') /\ Holds(disk', promise', released', now')
  BY <1>1, <1>2
<1>7. Within(mem', disk')
  BY <1>2 DEF Within
<1> QED BY <1>5, <1>6, <1>7 DEF Inv, Kept

LEMMA AdvanceInv == ASSUME Inv, AdvanceClock PROVE Inv'
<1>1. /\ now' = now + 1
      /\ configured' = configured /\ mem' = mem /\ snapshot' = snapshot /\ disk' = disk
      /\ reply' = reply /\ asked' = asked /\ promise' = promise /\ released' = released
      /\ requests' = requests /\ failures' = failures
  BY DEF AdvanceClock
<1>2. now \in Nat /\ now + 1 \in Nat /\ now <= now + 1
  BY InvFacts
<1>3. Holds(mem, promise, released, now + 1) /\ Holds(disk, promise, released, now + 1)
  BY <1>2, InvFacts, HoldsLater
<1>4. TypeOK' /\ SnapshotIsOnDisk'
  BY <1>1, <1>2 DEF Inv, TypeOK, SnapshotIsOnDisk, Time
<1>5. Holds(mem', promise', released', now') /\ Holds(disk', promise', released', now')
  BY <1>1, <1>3
<1> QED BY <1>1, <1>4, <1>5, InvFacts DEF Inv, Kept

LEMMA StepInv == ASSUME ~ DirectorySyncFails PROVE Inv /\ [Next]_vars => Inv'
<1> SUFFICES ASSUME Inv, [Next]_vars PROVE Inv'
  OBVIOUS
<1>1. CASE Request
  BY <1>1, RequestInv
<1>2. ASSUME NEW matched \in SUBSET configured, ScheduledTick(matched) \/ Probe(matched)
      PROVE  Inv'
  BY <1>2, TickInv, ProbeInv
<1>3. ASSUME NEW monitors \in SUBSET Monitors, Restart(monitors) PROVE Inv'
  BY <1>3, RestartInv
<1>4. CASE AdvanceClock
  BY <1>4, AdvanceInv
<1>5. CASE UNCHANGED vars
  BY <1>5 DEF vars, Inv, TypeOK, SnapshotIsOnDisk, Kept
<1> QED BY <1>1, <1>2, <1>3, <1>4, <1>5 DEF Next

-----------------------------------------------------------------------------
(* Types, which need nothing of the directory: a save that fails may leave *)
(* the new state in the file, yet it leaves a state there.                 *)

LEMMA HoldsItself == ASSUME NEW s, NEW gone, NEW t PROVE Holds(s, s, gone, t)
BY DEF Holds

LEMMA SaveTypes ==
    ASSUME NEW s \in State, NEW snap \in State, NEW file \in State,
           NEW save \in Saves(s, snap, file)
    PROVE  save.snapshot \in State /\ save.disk \in State
BY DEF Saves, Save

LEMMA RefreshedType ==
    ASSUME TypeOK, NEW s \in State, NEW matched
    PROVE  Refreshed(s, matched) \in State
<1>1. now \in Nat
  BY DEF TypeOK, Time
<1> QED BY <1>1, RefreshedFields

\* The change is saved, by itself or by a daemon that is killed, or it is not.
LEMMA SavedOrNotTypes ==
    ASSUME TypeOK, NEW changed \in State, NEW undone \in State,
           NEW answer \in {"rejected", "reload_rejected"},
           \/ SavedAlone(changed) \/ KilledAfterSave(changed)
           \/ Rejected(answer, changed, undone) /\ released' \in SUBSET Monitors,
           promise' \in State, asked' \in [Monitors -> Time \cup {None}],
           UNCHANGED <<now, configured>>
    PROVE  TypeOK'
<1>1. snapshot \in State /\ disk \in State /\ released \in SUBSET Monitors
  BY DEF TypeOK
<1>2. /\ {mem', snapshot', disk'} \subseteq State /\ released' \in SUBSET Monitors
      /\ failures' \in 0..MaxFailures /\ requests' \in 0..MaxRequests
      /\ reply' \in {"done", "none", "rejected", "reload_rejected"}
  <2>1. CASE SavedAlone(changed)
    <3>1. PICK save \in Saves(changed, snapshot, disk) :
            Keep(save) /\ mem' = changed /\ Answer("done") /\ released' = released
      BY <2>1 DEF SavedAlone
    <3> QED BY <1>1, <3>1, SaveTypes, KeepType, AnswerType
  <2>2. CASE KilledAfterSave(changed)
    <3>1. failures' = failures /\ failures \in 0..MaxFailures
      BY <2>2 DEF KilledAfterSave, TypeOK
    <3> QED BY <1>1, <2>2, <3>1, AnswerType DEF KilledAfterSave
  <2>3. CASE Rejected(answer, changed, undone) /\ released' \in SUBSET Monitors
    <3>1. PICK save \in Saves(changed, snapshot, disk) :
            Keep(save) /\ mem' = undone /\ Answer(answer)
      BY <2>3 DEF Rejected
    <3> QED BY <1>1, <2>3, <3>1, SaveTypes, KeepType, AnswerType
  <2> QED BY <2>1, <2>2, <2>3
<1> QED BY <1>2 DEF TypeOK

\* The change is saved and a forced tick follows.
LEMMA AppliedTypes ==
    ASSUME TypeOK, NEW changed \in State, NEW first, NEW monitors \in SUBSET Monitors,
           \A save \in first : save.snapshot \in State /\ save.disk \in State,
           SavedThenApplied(first, changed, monitors),
           promise' \in State, asked' \in [Monitors -> Time \cup {None}],
           configured' \in SUBSET Monitors, now' = now
    PROVE  TypeOK'
<1>1. PICK save \in first, matched \in SUBSET monitors :
        /\ mem' = Refreshed(changed, matched)
        /\ released' = {m \in released : changed.targets[m] = None}
                           \cup Lapsing(changed, matched) \cup (Monitors \ monitors)
        /\ \E last \in Saves(mem', save.snapshot, save.disk) :
              Keep(last) /\ Answer(IF last.ok THEN "done" ELSE "unapplied")
  BY DEF SavedThenApplied
<1>2. PICK last \in Saves(mem', save.snapshot, save.disk) :
        Keep(last) /\ Answer(IF last.ok THEN "done" ELSE "unapplied")
  BY <1>1
<1>3. mem' \in State /\ released' \in SUBSET Monitors
  BY <1>1, RefreshedType DEF Lapsing, TypeOK
<1>4. last.snapshot \in State /\ last.disk \in State
  BY <1>2, <1>3, SaveTypes
<1>5. /\ snapshot' \in State /\ disk' \in State /\ failures' \in 0..MaxFailures
      /\ requests' \in 0..MaxRequests /\ reply' \in {"done", "unapplied"}
  BY <1>2, <1>4, KeepType, AnswerType
<1> QED BY <1>3, <1>5 DEF TypeOK

LEMMA ChangeAndApplyTypes ==
    ASSUME TypeOK, NEW changed \in State, NEW promised \in State,
           NEW asks \in [Monitors -> Time \cup {None}], ChangeAndApply(changed, promised, asks)
    PROVE  TypeOK'
<1>1. now' = now /\ configured' = configured /\ configured \in SUBSET Monitors
  BY DEF ChangeAndApply, TypeOK
<1>2. /\ mem \in State /\ snapshot \in State /\ disk \in State /\ promise \in State
      /\ asked \in [Monitors -> Time \cup {None}] /\ released \in SUBSET Monitors
  BY DEF TypeOK
<1>3. CASE SavedThenApplied(Saves(changed, snapshot, disk), changed, configured)
             /\ TakesEffect(promised, asks)
  <2>1. \A save \in Saves(changed, snapshot, disk) : save.snapshot \in State /\ save.disk \in State
    BY <1>2, SaveTypes
  <2> QED BY <1>1, <1>3, <2>1, AppliedTypes DEF TakesEffect
<1>4. CASE KilledAfterSave(changed) /\ TakesEffect(promised, asks)
  BY <1>1, <1>2, <1>4, SavedOrNotTypes DEF TakesEffect
<1>5. CASE Rejected("rejected", changed, Undone(changed)) /\ UNCHANGED <<promise, asked, released>>
  BY <1>1, <1>2, <1>5, SavedOrNotTypes DEF Undone
<1> QED BY <1>3, <1>4, <1>5 DEF ChangeAndApply

LEMMA SuspendTypes ==
    ASSUME TypeOK, NEW minutes \in Minutes, Suspend(minutes)
    PROVE  TypeOK'
<1> DEFINE changed == SuspendedFor(mem, minutes)
           promised == SuspendedFor(promise, minutes)
<1>1. /\ mem \in State /\ promise \in State /\ released \in SUBSET Monitors
      /\ asked \in [Monitors -> Time \cup {None}] /\ now \in Nat
  BY DEF TypeOK, Time
<1>2. changed \in State /\ promised \in State
  BY <1>1, HoldsItself, SuspendedForHolds
<1>3. \/ SavedAlone(changed) \/ KilledAfterSave(changed)
      \/ Rejected("rejected", changed, mem) /\ released' \in SUBSET Monitors
  BY <1>1 DEF Suspend
<1>4. promise' \in {promised, promise} /\ asked' = asked /\ UNCHANGED <<now, configured>>
  BY DEF Suspend, TakesEffect
<1> HIDE DEF changed, promised
<1> QED BY <1>1, <1>2, <1>3, <1>4, SavedOrNotTypes

LEMMA ReloadTypes ==
    ASSUME TypeOK, NEW monitors \in SUBSET Monitors, ReloadConfig(monitors)
    PROVE  TypeOK'
<1> DEFINE pruned == Pruned(mem, monitors)
           first == Saves(pruned, snapshot, disk)
                      \cup (IF pruned = mem THEN {Save(TRUE, snapshot, disk)} ELSE {})
<1>1. /\ mem \in State /\ snapshot \in State /\ disk \in State
      /\ released \in SUBSET Monitors
      /\ promise' \in State /\ asked' \in [Monitors -> Time \cup {None}] /\ now' = now
  BY DEF ReloadConfig, TypeOK
<1>2. pruned \in State
  BY <1>1, HoldsItself, HoldsPruned
<1>3. \A save \in first : save.snapshot \in State /\ save.disk \in State
  <2>1. Save(TRUE, snapshot, disk).snapshot \in State /\ Save(TRUE, snapshot, disk).disk \in State
    BY <1>1 DEF Save
  <2>2. \A save \in Saves(pruned, snapshot, disk) : save.snapshot \in State /\ save.disk \in State
    BY <1>1, <1>2, SaveTypes
  <2> QED BY <2>1, <2>2
<1>4. \/ SavedThenApplied(first, pruned, monitors) /\ configured' = monitors
      \/ /\ Rejected("reload_rejected", pruned, pruned)
         /\ released' = released \cup (Monitors \ monitors)
         /\ configured' = configured
  BY DEF ReloadConfig
<1> HIDE DEF pruned, first
<1>5. CASE SavedThenApplied(first, pruned, monitors) /\ configured' = monitors
  BY <1>1, <1>2, <1>3, <1>5, AppliedTypes
<1>6. CASE /\ Rejected("reload_rejected", pruned, pruned)
           /\ released' = released \cup (Monitors \ monitors)
           /\ configured' = configured
  <2>1. released' \in SUBSET Monitors /\ UNCHANGED <<now, configured>>
    BY <1>1, <1>6
  <2> QED BY <1>1, <1>2, <1>6, <2>1, SavedOrNotTypes
<1> QED BY <1>4, <1>5, <1>6

LEMMA RequestTypes == ASSUME TypeOK, Request PROVE TypeOK'
<1>1. /\ mem \in State /\ promise \in State /\ now \in Nat
      /\ asked \in [Monitors -> Time \cup {None}]
  BY DEF TypeOK, Time
<1>2. CASE Resume
  BY <1>1, <1>2, NoTargetsType, ChangeAndApplyTypes DEF Resume
<1>3. ASSUME NEW p \in Percent, NEW minutes \in Minutes, SetGlobalOverride(p, minutes)
      PROVE  TypeOK'
  <2>1. WithGlobal(mem, p, minutes) \in State /\ WithGlobal(promise, p, minutes) \in State
    BY <1>1, HoldsItself, WithGlobalHolds
  <2> QED BY <1>1, <1>3, <2>1, ChangeAndApplyTypes DEF SetGlobalOverride
<1>4. ASSUME NEW p \in Percent, NEW minutes \in Minutes, NEW m \in Monitors,
             SetOverride(m, p, minutes)
      PROVE  TypeOK'
  <2> DEFINE asks == [asked EXCEPT ![m] = Until(minutes)]
  <2>1. /\ WithOverride(mem, m, p, minutes) \in State
        /\ WithOverride(promise, m, p, minutes) \in State
    BY <1>1, HoldsItself, WithOverrideHolds
  <2>2. asks \in [Monitors -> Time \cup {None}]
    BY <1>1, UntilType
  <2>3. ChangeAndApply(WithOverride(mem, m, p, minutes), WithOverride(promise, m, p, minutes), asks)
    BY <1>4 DEF SetOverride
  <2> HIDE DEF asks
  <2> QED BY <2>1, <2>2, <2>3, ChangeAndApplyTypes
<1>5. ASSUME NEW m \in Monitors, ClearOverride(m) PROVE TypeOK'
  <2>1. WithoutOverride(mem, m) \in State /\ WithoutOverride(promise, m) \in State
    BY <1>1, HoldsItself, WithoutOverrideHolds
  <2> QED BY <1>1, <1>5, <2>1, ChangeAndApplyTypes DEF ClearOverride
<1>6. CASE ClearGlobalOverride
  <2>1. WithoutGlobal(mem) \in State /\ WithoutGlobal(promise) \in State
    BY <1>1, HoldsItself, WithoutGlobalHolds
  <2> QED BY <1>1, <1>6, <2>1, ChangeAndApplyTypes DEF ClearGlobalOverride
<1>7. CASE ClearAllOverrides
  <2>1. WithoutOverrides(mem) \in State /\ WithoutOverrides(promise) \in State
    BY <1>1, HoldsItself, WithoutOverridesHolds
  <2> QED BY <1>1, <1>7, <2>1, ChangeAndApplyTypes DEF ClearAllOverrides
<1> QED BY <1>2, <1>3, <1>4, <1>5, <1>6, <1>7, SuspendTypes, ReloadTypes DEF Request

LEMMA RefreshTypes ==
    ASSUME TypeOK, NEW matched, ScheduledTick(matched) \/ Probe(matched)
    PROVE  TypeOK'
<1>1. mem' = Refreshed(mem, matched) /\ released' = released \cup Lapsing(mem, matched)
      /\ UNCHANGED <<now, configured, reply, asked, promise, requests>>
  BY DEF ScheduledTick, Probe
<1>2. mem' \in State /\ released' \in SUBSET Monitors
  <2>1. mem \in State /\ released \in SUBSET Monitors
    BY DEF TypeOK
  <2> QED BY <1>1, <2>1, RefreshedType DEF Lapsing
<1>3. snapshot \in State /\ disk \in State /\ failures \in 0..MaxFailures
  BY DEF TypeOK
<1>4. snapshot' \in State /\ disk' \in State /\ failures' \in 0..MaxFailures
  <2>1. CASE ScheduledTick(matched)
    <3>1. PICK save \in Saves(mem', snapshot, disk) : Keep(save)
      BY <2>1 DEF ScheduledTick
    <3>2. save.snapshot \in State /\ save.disk \in State
      BY <1>2, <1>3, <3>1, SaveTypes
    <3> QED BY <3>1, <3>2, KeepType
  <2>2. CASE Probe(matched)
    BY <1>3, <2>2 DEF Probe
  <2> QED BY <2>1, <2>2
<1> QED BY <1>1, <1>2, <1>4 DEF TypeOK

LEMMA RestartTypes ==
    ASSUME TypeOK, NEW monitors \in SUBSET Monitors, Restart(monitors)
    PROVE  TypeOK'
<1>1. Pruned(disk, monitors) \in State
  <2>1. disk \in State
    BY DEF TypeOK
  <2> QED BY <2>1, HoldsItself, HoldsPruned
<1>2. requests' \in 0..MaxRequests /\ reply' = "none"
  BY AnswerType DEF Restart
<1>3. /\ {mem', snapshot', disk'} \subseteq State /\ configured' \in SUBSET Monitors
      /\ released' \in SUBSET Monitors /\ UNCHANGED <<now, asked, promise, failures>>
  BY <1>1 DEF Restart, TypeOK
<1> QED BY <1>2, <1>3 DEF TypeOK

LEMMA StepTypes == TypeOK /\ [Next]_vars => TypeOK'
<1> SUFFICES ASSUME TypeOK, [Next]_vars PROVE TypeOK'
  OBVIOUS
<1>1. ASSUME NEW matched \in SUBSET configured, ScheduledTick(matched) \/ Probe(matched)
      PROVE  TypeOK'
  BY <1>1, RefreshTypes
<1>2. ASSUME NEW monitors \in SUBSET Monitors, Restart(monitors) PROVE TypeOK'
  BY <1>2, RestartTypes
<1>3. CASE AdvanceClock
  <2>1. /\ now' \in Time
        /\ UNCHANGED <<configured, mem, snapshot, disk, reply, asked, promise,
                       released, requests, failures>>
    BY <1>3 DEF AdvanceClock, TypeOK, Time
  <2> QED BY <2>1 DEF TypeOK
<1>4. CASE UNCHANGED vars
  BY <1>4 DEF vars, TypeOK
<1> QED BY <1>1, <1>2, <1>3, <1>4, RequestTypes DEF Next

-----------------------------------------------------------------------------
(* Memory alone.  Nothing it holds comes from the file unless the daemon   *)
(* is restarted, so it does not matter to it what a failed save has left   *)
(* there.                                                                  *)

NoRestart == \A monitors \in SUBSET Monitors : ~ Restart(monitors)

InMemory == Holds(mem, promise, released, now)

LEMMA AppliedInMemory ==
    ASSUME now \in Nat, NEW changed \in State, NEW first, NEW monitors,
           promise' \in State, now' = now,
           Holds(changed, promise', released \cup (Monitors \ monitors), now),
           SavedThenApplied(first, changed, monitors)
    PROVE  InMemory'
<1>1. PICK matched \in SUBSET monitors :
        /\ mem' = Refreshed(changed, matched)
        /\ released' = {m \in released : changed.targets[m] = None}
                           \cup Lapsing(changed, matched) \cup (Monitors \ monitors)
  BY DEF SavedThenApplied
<1> DEFINE gone == released \cup (Monitors \ monitors)
           more == released'
<1>2. /\ Lapsing(changed, matched) \subseteq more
      /\ \A m \in Monitors : m \in gone /\ changed.targets[m] = None => m \in more
  BY <1>1
<1> HIDE DEF gone, more
<1>3. Holds(Refreshed(changed, matched), promise', more, now)
  BY <1>2, HoldsRefreshed DEF gone
<1> QED BY <1>1, <1>3 DEF more, InMemory

LEMMA ChangeAndApplyInMemory ==
    ASSUME TypeOK, InMemory, NEW changed \in State, NEW promised \in State, NEW asks,
           Holds(changed, promised, released, now), ChangeAndApply(changed, promised, asks)
    PROVE  InMemory'
<1>1. now' = now /\ now \in Nat
  BY DEF ChangeAndApply, TypeOK, Time
<1>2. CASE SavedThenApplied(Saves(changed, snapshot, disk), changed, configured)
             /\ TakesEffect(promised, asks)
  <2>1. Holds(changed, promised, released \cup (Monitors \ configured), now)
    BY <1>1, HoldsWidened
  <2> QED BY <1>1, <1>2, <2>1, AppliedInMemory DEF TakesEffect
<1>3. CASE KilledAfterSave(changed) /\ TakesEffect(promised, asks)
  BY <1>1, <1>3 DEF KilledAfterSave, TakesEffect, InMemory
<1>4. CASE Rejected("rejected", changed, Undone(changed)) /\ UNCHANGED <<promise, asked, released>>
  BY <1>1, <1>4 DEF Rejected, Undone, InMemory
<1> QED BY <1>2, <1>3, <1>4 DEF ChangeAndApply

LEMMA RequestInMemory == ASSUME TypeOK, InMemory, Request PROVE InMemory'
<1>1. /\ mem \in State /\ promise \in State /\ now \in Nat
      /\ Holds(mem, promise, released, now)
  BY DEF TypeOK, Time, InMemory
<1>2. ASSUME NEW minutes \in Minutes, Suspend(minutes) PROVE InMemory'
  <2> DEFINE changed == SuspendedFor(mem, minutes)
             promised == SuspendedFor(promise, minutes)
  <2>1. Holds(changed, promised, released, now)
    BY <1>1, SuspendedForHolds
  <2>2. /\ now' = now /\ released' = released
        /\ \/ mem' = changed /\ promise' = promised
           \/ mem' = mem /\ promise' = promise
    BY <1>2 DEF Suspend, SavedAlone, KilledAfterSave, TakesEffect, Rejected
  <2> HIDE DEF changed, promised
  <2> QED BY <1>1, <2>1, <2>2 DEF InMemory
<1>3. CASE Resume
  BY <1>3, NoTargetsType, NothingHolds, ChangeAndApplyInMemory DEF Resume
<1>4. ASSUME NEW p \in Percent, NEW minutes \in Minutes, SetGlobalOverride(p, minutes)
      PROVE  InMemory'
  BY <1>1, <1>4, WithGlobalHolds, ChangeAndApplyInMemory DEF SetGlobalOverride
<1>5. ASSUME NEW p \in Percent, NEW minutes \in Minutes, NEW m \in Monitors,
             SetOverride(m, p, minutes)
      PROVE  InMemory'
  <2>1. /\ WithOverride(mem, m, p, minutes) \in State
        /\ WithOverride(promise, m, p, minutes) \in State
        /\ Holds(WithOverride(mem, m, p, minutes), WithOverride(promise, m, p, minutes),
                 released, now)
    BY <1>1, WithOverrideHolds
  <2> QED BY <1>5, <2>1, ChangeAndApplyInMemory DEF SetOverride
<1>6. ASSUME NEW m \in Monitors, ClearOverride(m) PROVE InMemory'
  BY <1>1, <1>6, WithoutOverrideHolds, ChangeAndApplyInMemory DEF ClearOverride
<1>7. CASE ClearGlobalOverride
  BY <1>1, <1>7, WithoutGlobalHolds, ChangeAndApplyInMemory DEF ClearGlobalOverride
<1>8. CASE ClearAllOverrides
  BY <1>1, <1>8, WithoutOverridesHolds, ChangeAndApplyInMemory DEF ClearAllOverrides
<1>9. ASSUME NEW monitors \in SUBSET Monitors, ReloadConfig(monitors) PROVE InMemory'
  <2> DEFINE pruned == Pruned(mem, monitors)
             first == Saves(pruned, snapshot, disk)
                        \cup (IF pruned = mem THEN {Save(TRUE, snapshot, disk)} ELSE {})
             gone == released \cup (Monitors \ monitors)
  <2>1. pruned \in State /\ Holds(pruned, promise, gone, now)
    BY <1>1, HoldsPruned
  <2>2. /\ now' = now /\ promise' = promise
        /\ \/ SavedThenApplied(first, pruned, monitors)
           \/ Rejected("reload_rejected", pruned, pruned) /\ released' = gone
    BY <1>9 DEF ReloadConfig
  <2> HIDE DEF pruned, first
  <2>3. CASE SavedThenApplied(first, pruned, monitors)
    BY <1>1, <2>1, <2>2, <2>3, AppliedInMemory
  <2>4. CASE Rejected("reload_rejected", pruned, pruned) /\ released' = gone
    BY <2>1, <2>2, <2>4 DEF Rejected, InMemory
  <2> QED BY <2>2, <2>3, <2>4
<1> QED BY <1>2, <1>3, <1>4, <1>5, <1>6, <1>7, <1>8, <1>9 DEF Request

LEMMA StepInMemory ==
    TypeOK /\ InMemory /\ [Next]_vars /\ [NoRestart]_vars => InMemory'
<1> SUFFICES ASSUME TypeOK, InMemory, [Next]_vars, [NoRestart]_vars PROVE InMemory'
  OBVIOUS
<1>1. mem \in State /\ promise \in State /\ now \in Nat
  BY DEF TypeOK, Time
<1>2. ASSUME NEW matched \in SUBSET configured, ScheduledTick(matched) \/ Probe(matched)
      PROVE  InMemory'
  <2> DEFINE more == released \cup Lapsing(mem, matched)
  <2>1. /\ Lapsing(mem, matched) \subseteq more
        /\ \A m \in Monitors : m \in released /\ mem.targets[m] = None => m \in more
    OBVIOUS
  <2>2. /\ mem' = Refreshed(mem, matched) /\ released' = more
        /\ now' = now /\ promise' = promise
    BY <1>2 DEF ScheduledTick, Probe
  <2> HIDE DEF more
  <2>3. Holds(Refreshed(mem, matched), promise, more, now)
    BY <1>1, <2>1, HoldsRefreshed DEF InMemory
  <2> QED BY <2>2, <2>3 DEF InMemory
<1>3. CASE AdvanceClock
  <2>1. mem' = mem /\ promise' = promise /\ released' = released /\ now' = now + 1
    BY <1>3 DEF AdvanceClock
  <2>2. now + 1 \in Nat /\ now <= now + 1
    BY <1>1
  <2>3. Holds(mem, promise, released, now + 1)
    BY <1>1, <2>2, HoldsLater DEF InMemory
  <2> QED BY <2>1, <2>3 DEF InMemory
<1>4. CASE UNCHANGED vars
  BY <1>4 DEF vars, InMemory
<1>5. ASSUME NEW monitors \in SUBSET Monitors, Restart(monitors) PROVE InMemory'
  BY <1>4, <1>5 DEF NoRestart
<1> QED BY <1>2, <1>3, <1>4, <1>5, RequestInMemory DEF Next

-----------------------------------------------------------------------------
\* The invariant holds of every behaviour.
THEOREM Invariance == ASSUME ~ DirectorySyncFails PROVE Spec => []Inv
<1>1. Init => Inv
  BY InitInv
<1>2. Inv /\ [Next]_vars => Inv'
  BY StepInv
<1> QED BY <1>1, <1>2, PTL DEF Spec

\* Time, the states and the answers keep their types through requests, failed
\* saves, saves whose directory is not synced, and restarts
\* (state/transitions.rs, runtime/ipc.rs).
THEOREM TypeCorrect == Spec => []TypeOK
<1>1. Init => TypeOK
  BY InitInv DEF Inv
<1> QED BY <1>1, StepTypes, PTL DEF Spec

\* The snapshot that decides whether a save is needed is what the file holds,
\* whatever saves fail (persist_state_if_changed).
THEOREM SnapshotsAgree == ASSUME ~ DirectorySyncFails PROVE Spec => []SnapshotIsOnDisk
<1>1. Inv => SnapshotIsOnDisk
  BY DEF Inv
<1> QED BY <1>1, Invariance, PTL

\* What requests were told is done is in effect, and what they were told was
\* rejected is not (the rollbacks of runtime/ipc.rs).
THEOREM PromisesAreKept == ASSUME ~ DirectorySyncFails PROVE Spec => []PromiseKept
<1>1. Inv => PromiseKept
  BY InvFacts, HoldsMeansKeeps DEF PromiseKept
<1> QED BY <1>1, Invariance, PTL

\* A daemon killed at any moment finds in its file what it had promised
\* (state/persist.rs).
THEOREM PromisesSurvive == ASSUME ~ DirectorySyncFails PROVE Spec => []PromiseSurvivesCrash
<1>1. Inv => PromiseSurvivesCrash
  BY InvFacts, HoldsMeansKeeps DEF PromiseSurvivesCrash
<1> QED BY <1>1, Invariance, PTL

\* A directory that cannot be synced breaks no promise before the daemon is
\* restarted: what it was told to do, and what it rejected, is decided by what
\* it holds in memory (state/persist.rs, runtime/ipc.rs).
THEOREM PromisesAreKeptUntilRestart == Spec /\ [][NoRestart]_vars => []PromiseKept
<1>1. Init => TypeOK /\ InMemory
  BY InitInv DEF Inv, Kept, InMemory
<1>2. TypeOK /\ InMemory => PromiseKept
  <2> SUFFICES ASSUME TypeOK, InMemory PROVE Keeps(mem)
    BY DEF PromiseKept
  <2>1. mem \in State /\ promise \in State /\ now \in Nat
    BY DEF TypeOK, Time
  <2> QED BY <2>1, HoldsMeansKeeps DEF InMemory
<1> QED BY <1>1, <1>2, StepTypes, StepInMemory, PTL DEF Spec
=============================================================================
