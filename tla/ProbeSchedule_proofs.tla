------------------------ MODULE ProbeSchedule_proofs ------------------------
(***************************************************************************)
(* A wrong level and a sleeping monitor are seen in time, for any number   *)
(* of monitors, any intervals, and any number of requests, hints, failed   *)
(* writes and sleeps of the machine.                                       *)
(*                                                                         *)
(* SeenInTime bounds the time that has passed since a monitor went wrong.  *)
(* The invariant bounds the time that will have passed when the next probe *)
(* is due, and says why that probe is due so soon: the daemon waits for a  *)
(* monitor, or what opened the fast window happened less than a window ago.*)
(***************************************************************************)
EXTENDS ProbeSchedule, TLAPS

Schedule == [next : 0 .. Steady \cup {None}, fast : 0 .. Window, waiting : BOOLEAN]

\* The next probe of schedule s comes before bound, counted from when Observed
\* went wrong, u ago.
DueWithin(s, u, bound) == s.next # None /\ u + s.next <= bound

\* What schedule s promises when Observed has been wrong for u, the last event
\* that opens the window is q ago, h tells whether the last probe reached
\* Observed, st whether there are steady probes, and b whether probes are blind.
Promised(s, u, q, h, st, b) ==
    /\ b => u = 0
    /\ st => DueWithin(s, u, Steady)
    /\ ~ h => s.waiting /\ DueWithin(s, u, Fast)
    /\ q < Window =>
         /\ s.waiting \/ s.fast + q >= Window
         /\ s.next # None
         /\ DueWithin(s, u, Fast) \/ (q = 0 /\ s.next = 0)

Inv == TypeOK /\ Promised(sched, unnoticed, quiet, heard, steady, blind)

-----------------------------------------------------------------------------
(* The operators on schedules.                                             *)

LEMMA Bounds ==
    /\ Fast \in Nat /\ Fast > 0 /\ Window \in Nat /\ Window > 0
    /\ Steady \in Nat /\ Steady > 0 /\ Fast <= Steady
    /\ FollowUp \in Nat /\ FollowUp > 0 /\ DrainMax \in Nat /\ DrainMax > 0
    /\ None \notin Int
BY ScheduleBounds

\* A schedule is what its fields are.
LEMMA FieldsTyped ==
    ASSUME NEW s \in Schedule
    PROVE  /\ s.next \in Nat \/ s.next = None
           /\ s.next # None => s.next <= Steady
           /\ s.fast \in Nat /\ s.fast <= Window
           /\ s.waiting \in BOOLEAN
BY Bounds DEF Schedule

\* A signal makes a probe due and opens the window.
LEMMA SignalledFields ==
    ASSUME NEW s \in Schedule
    PROVE  /\ Signalled(s) \in Schedule
           /\ Signalled(s).next = 0 /\ Signalled(s).fast = Window
           /\ Signalled(s).waiting = s.waiting
<1> DEFINE now == 0
           t == [s EXCEPT !.fast = Window]
<1>1. Signalled(s) = [t EXCEPT !.next = now]
  BY DEF Signalled
<1>2. now \in 0 .. Steady /\ Window \in 0 .. Window
  BY Bounds
<1>3. t \in Schedule /\ t.fast = Window /\ t.waiting = s.waiting
  BY <1>2 DEF Schedule
<1> HIDE DEF t, now
<1>4. Signalled(s) \in Schedule /\ Signalled(s).next = now
      /\ Signalled(s).fast = Window /\ Signalled(s).waiting = s.waiting
  BY <1>1, <1>2, <1>3 DEF Schedule
<1> QED BY <1>4 DEF now

\* The schedule after a probe waits for those that did not answer, and the next
\* probe comes at the fast interval while it waits or the window is open.
LEMMA NoteOutcomeFields ==
    ASSUME NEW s \in Schedule, NEW unreachable \in BOOLEAN, NEW answered \in BOOLEAN,
           NEW corrected \in BOOLEAN
    PROVE  LET r == NoteOutcome(s, unreachable, answered, corrected)
           IN  /\ r \in Schedule
               /\ r.waiting <=> unreachable \/ (s.waiting /\ ~ answered)
               /\ r.fast = IF (s.waiting /\ ~ r.waiting) \/ corrected THEN Window ELSE s.fast
               /\ r.fast > 0 \/ r.waiting => r.next = Fast
               /\ r.next = IF r.fast > 0 \/ r.waiting THEN Fast
                           ELSE IF steady THEN Steady ELSE None
<1> DEFINE waiting == WaitingAfter(s, unreachable, answered)
           window == IF (s.waiting /\ ~ waiting) \/ corrected THEN Window ELSE s.fast
           t == [s EXCEPT !.waiting = waiting, !.fast = window]
           next == ScheduleFrom(t)
           r == NoteOutcome(s, unreachable, answered, corrected)
<1>1. r = [t EXCEPT !.next = next]
  BY DEF NoteOutcome
<1>2. waiting \in BOOLEAN /\ (waiting <=> unreachable \/ (s.waiting /\ ~ answered))
  BY FieldsTyped, Zenon DEF WaitingAfter
<1>3. window \in 0 .. Window
  BY FieldsTyped, Bounds
<1> HIDE DEF waiting, window
<1>4. t \in Schedule /\ t.waiting = waiting /\ t.fast = window
  BY <1>2, <1>3 DEF Schedule
<1> HIDE DEF t
<1>5. next = IF window > 0 \/ waiting THEN Fast ELSE IF steady THEN Steady ELSE None
  BY <1>4 DEF ScheduleFrom
<1>6. next \in 0 .. Steady \cup {None}
  BY <1>5, Bounds
<1> HIDE DEF next
<1>7. r \in Schedule /\ r.waiting = waiting /\ r.fast = window /\ r.next = next
  BY <1>1, <1>4, <1>6 DEF Schedule
<1> HIDE DEF r
<1>8. r.fast = IF (s.waiting /\ ~ r.waiting) \/ corrected THEN Window ELSE s.fast
  BY <1>7 DEF window
<1> QED BY <1>2, <1>5, <1>7, <1>8 DEF r

-----------------------------------------------------------------------------
(* What keeps the promise.                                                 *)

\* It holds all the more when the level of Observed turns out to be right.
LEMMA PromisedForLess ==
    ASSUME NEW s \in Schedule, NEW u \in Nat, NEW v \in {u, 0}, NEW q \in Nat,
           NEW h \in BOOLEAN, NEW st \in BOOLEAN, NEW b, NEW c,
           Promised(s, u, q, h, st, b), c => v = 0
    PROVE  Promised(s, v, q, h, st, c)
<1>1. s.next # None => s.next \in Nat
  BY FieldsTyped
<1>2. \A bound \in Nat : DueWithin(s, u, bound) => DueWithin(s, v, bound)
  BY <1>1 DEF DueWithin
<1> QED BY <1>2, Bounds DEF Promised

\* A signal makes a probe due at once.
LEMMA PromisedWhenSignalled ==
    ASSUME NEW s \in Schedule, NEW u \in Nat, NEW q \in Nat,
           NEW h \in BOOLEAN, NEW st \in BOOLEAN, NEW b,
           Promised(s, u, q, h, st, b)
    PROVE  Promised(Signalled(s), u, 0, h, st, b)
<1> DEFINE r == Signalled(s)
<1>1. r.next = 0 /\ r.fast = Window /\ r.waiting = s.waiting
  BY SignalledFields
<1> HIDE DEF r
<1>2. s.next # None => s.next \in Nat
  BY FieldsTyped
<1>3. 0 # None
  BY Bounds
<1>4. \A bound \in Nat : DueWithin(s, u, bound) => DueWithin(r, u, bound)
  BY <1>1, <1>2, <1>3 DEF DueWithin
<1>5. Promised(r, u, 0, h, st, b)
  BY <1>1, <1>3, <1>4, Bounds DEF Promised
<1> QED BY <1>5 DEF r

\* A probe that reads nothing leaves the wait and the window as they are.
LEMMA PromisedWhenBlind ==
    ASSUME NEW s \in Schedule, NEW q \in Nat, NEW p \in Nat, NEW h \in BOOLEAN,
           Promised(s, 0, q, h, steady, TRUE), p = q \/ s.fast = Window
    PROVE  Promised(NoteOutcome(s, FALSE, FALSE, FALSE), 0, p, h, steady, TRUE)
<1> DEFINE r == NoteOutcome(s, FALSE, FALSE, FALSE)
<1>1. /\ r.waiting <=> s.waiting
      /\ r.fast = s.fast
      /\ r.fast > 0 \/ r.waiting => r.next = Fast
      /\ r.next = IF r.fast > 0 \/ r.waiting THEN Fast ELSE IF steady THEN Steady ELSE None
  <2>1. s.waiting \in BOOLEAN
    BY FieldsTyped
  <2> QED BY <2>1, NoteOutcomeFields
<1> HIDE DEF r
<1>2. s.fast \in Nat
  BY FieldsTyped
<1>3. steady => DueWithin(r, 0, Steady)
  BY <1>1, Bounds DEF DueWithin
<1>4. r.fast > 0 \/ r.waiting => DueWithin(r, 0, Fast)
  BY <1>1, Bounds DEF DueWithin
<1>5. ~ h => r.waiting
  BY <1>1 DEF Promised
<1>6. p < Window => r.waiting \/ r.fast + p >= Window
  BY <1>1, <1>2, Bounds DEF Promised
<1>7. p < Window => r.fast > 0 \/ r.waiting
  BY <1>1, <1>2, <1>6, Bounds
<1> QED
  <2>1. DueWithin(r, 0, Fast) => r.next # None
    BY DEF DueWithin
  <2>2. Promised(r, 0, p, h, steady, TRUE)
    BY <1>3, <1>4, <1>5, <1>6, <1>7, <2>1 DEF Promised
  <2> QED BY <2>2 DEF r

\* A probe keeps the fast interval while a monitor sleeps, and opens the window
\* when the last one wakes or it had to correct one.
LEMMA PromisedWhenRead ==
    ASSUME NEW s \in Schedule, NEW q \in Nat, NEW p \in Nat,
           NEW u \in Nat, NEW h \in BOOLEAN, NEW g \in BOOLEAN, NEW b, NEW c,
           NEW unreachable \in BOOLEAN, NEW answered \in BOOLEAN, NEW corrected \in BOOLEAN,
           Promised(s, u, q, h, steady, b), ~ g => unreachable,
           p = q \/ s.fast = Window \/ (~ h /\ g) \/ corrected
    PROVE  Promised(NoteOutcome(s, unreachable, answered, corrected), 0, p, g, steady, c)
<1> DEFINE r == NoteOutcome(s, unreachable, answered, corrected)
<1>1. /\ r.waiting <=> unreachable \/ (s.waiting /\ ~ answered)
      /\ r.fast = IF (s.waiting /\ ~ r.waiting) \/ corrected THEN Window ELSE s.fast
      /\ r.fast > 0 \/ r.waiting => r.next = Fast
      /\ r.next = IF r.fast > 0 \/ r.waiting THEN Fast ELSE IF steady THEN Steady ELSE None
  BY NoteOutcomeFields
<1> HIDE DEF r
<1>2. s.fast \in Nat /\ s.fast <= Window
  BY FieldsTyped
<1>3. steady => DueWithin(r, 0, Steady)
  BY <1>1, Bounds DEF DueWithin
<1>4. r.fast > 0 \/ r.waiting => DueWithin(r, 0, Fast)
  BY <1>1, Bounds DEF DueWithin
<1>5. ~ g => r.waiting
  BY <1>1
<1>6. ~ h => s.waiting
  BY DEF Promised
<1>7. p < Window => r.waiting \/ r.fast + p >= Window
  <2>1. CASE corrected \/ s.waiting
    BY <1>1, <2>1, Bounds
  <2>2. CASE ~ corrected /\ ~ s.waiting
    <3>1. r.fast = s.fast /\ (p = q \/ s.fast = Window)
      BY <1>1, <1>6, <2>2
    <3> QED BY <1>2, <2>2, <3>1, Bounds DEF Promised
  <2> QED BY <2>1, <2>2
<1>8. p < Window => r.fast > 0 \/ r.waiting
  BY <1>1, <1>2, <1>7, Bounds
<1> QED
  <2>1. DueWithin(r, 0, Fast) => r.next # None
    BY DEF DueWithin
  <2>2. Promised(r, 0, p, g, steady, c)
    BY <1>3, <1>4, <1>5, <1>7, <1>8, <2>1 DEF Promised
  <2> QED BY <2>2 DEF r

-----------------------------------------------------------------------------
(* The invariant.                                                          *)

LEMMA Typed ==
    ASSUME TypeOK
    PROVE  /\ steady \in BOOLEAN /\ event \in BOOLEAN /\ input \in BOOLEAN
           /\ slept \in BOOLEAN /\ flood \in BOOLEAN /\ blind \in BOOLEAN
           /\ heard \in BOOLEAN /\ sched \in Schedule
           /\ unnoticed \in Nat /\ quiet \in Nat /\ 0 \in 0 .. Steady + 1
           /\ 0 \in 0 .. Window
BY Bounds DEF TypeOK, Schedule

LEMMA InitInv == Init => Inv
<1> SUFFICES ASSUME Init PROVE Inv
  OBVIOUS
<1>1. sched \in Schedule /\ sched.next = (IF steady THEN Steady ELSE None)
      /\ sched.fast = 0 /\ sched.waiting = FALSE
  <2>1. steady \in BOOLEAN
    BY DEF Init
  <2>2. (IF steady THEN Steady ELSE None) \in 0 .. Steady \cup {None}
    BY Bounds
  <2> QED BY <2>1, <2>2, Bounds DEF Init, Schedule
<1>2. TypeOK
  <2>1. {steady, event, input, slept, flood, blind, heard} \subseteq BOOLEAN
    BY DEF Init
  <2>2. delayed \in 0 .. FollowUp \cup {None} /\ drained \in 0 .. DrainMax
    BY Bounds DEF Init
  <2>3. asleep \subseteq Monitor /\ wrong \subseteq Monitor
    BY DEF Init
  <2>4. unnoticed \in 0 .. Steady + 1 /\ quiet \in 0 .. Window
    BY Bounds DEF Init
  <2> QED BY <1>1, <2>1, <2>2, <2>3, <2>4 DEF TypeOK, Schedule
<1>3. Promised(sched, unnoticed, quiet, heard, steady, blind)
  BY <1>1, Bounds DEF Init, Promised, DueWithin
<1> QED BY <1>2, <1>3 DEF Inv

\* A forced tick notices nothing wrong; it may leave a fade behind.
LEMMA ForcedTickEffect ==
    ASSUME TypeOK, ForcedTick, asleep' = asleep
    PROVE  /\ wrong' \subseteq Monitor /\ blind' \in BOOLEAN
           /\ unnoticed' \in {unnoticed, 0} /\ (blind' => unnoticed' = 0)
<1>1. PICK failed \in SUBSET (wrong \ asleep) : wrong' = (wrong \cap asleep) \cup failed
  BY DEF ForcedTick
<1>2. wrong' \subseteq Monitor
  BY <1>1 DEF TypeOK
<1> QED BY <1>2 DEF ForcedTick

LEMMA RequestsInv ==
    ASSUME Inv, OtherRequest \/ TickRequest \/ IdleWake
    PROVE  Inv'
<1>1. TypeOK /\ Promised(sched, unnoticed, quiet, heard, steady, blind)
  BY DEF Inv
<1> HIDE DEF Inv
<1>2. /\ Accept
      /\ drained' \in 0 .. DrainMax
      /\ steady' = steady /\ delayed' = delayed /\ event' = event /\ input' = input
      /\ flood' = flood /\ asleep' = asleep /\ heard' = heard
  <2>1. Accept
    BY DEF OtherRequest, TickRequest, IdleWake
  <2>2. drained' = drained + 1 /\ drained < DrainMax /\ drained \in 0 .. DrainMax
    BY <1>1, <2>1 DEF Accept, TypeOK
  <2>3. drained' \in 0 .. DrainMax
    BY <2>2, Bounds
  <2> QED BY <2>1, <2>3 DEF Accept
<1>3. CASE OtherRequest
  <2>1. /\ blind' \in BOOLEAN /\ unnoticed' \in {unnoticed, 0} /\ (blind' => unnoticed' = 0)
        /\ sched' = sched /\ slept' = slept /\ wrong' = wrong /\ quiet' = quiet
    BY <1>3 DEF OtherRequest
  <2>2. TypeOK'
    BY <1>1, <1>2, <2>1, Typed DEF TypeOK
  <2> QED BY <1>1, <1>2, <2>1, <2>2, Typed, PromisedForLess DEF Inv
<1>4. CASE TickRequest
  <2>1. /\ wrong' \subseteq Monitor /\ blind' \in BOOLEAN
        /\ unnoticed' \in {unnoticed, 0} /\ (blind' => unnoticed' = 0)
    BY <1>1, <1>2, <1>4, ForcedTickEffect DEF TickRequest
  <2>2. sched' = sched /\ slept' = FALSE /\ quiet' = quiet
    BY <1>4 DEF TickRequest
  <2>3. TypeOK'
    BY <1>1, <1>2, <2>1, <2>2, Typed DEF TypeOK
  <2> QED BY <1>1, <1>2, <2>1, <2>2, <2>3, Typed, PromisedForLess DEF Inv
<1>5. CASE IdleWake
  <2>1. /\ sched' = Signalled(sched) /\ quiet' = 0 /\ slept' = FALSE
        /\ blind' = blind /\ unnoticed' = unnoticed /\ wrong' \in {wrong, Monitor}
    BY <1>5 DEF IdleWake, RequestWakeReassert
  <2>2. TypeOK'
    <3>1. sched' \in Schedule /\ wrong' \subseteq Monitor
      BY <1>1, <2>1, Typed, SignalledFields DEF TypeOK
    <3> QED BY <1>1, <1>2, <2>1, <3>1, Typed DEF TypeOK, Schedule
  <2> QED BY <1>1, <1>2, <2>1, <2>2, Typed, PromisedWhenSignalled DEF Inv
<1> QED BY <1>3, <1>4, <1>5

\* The part of the invariant a round of the loop may change, but for the timers.
RoundKeeps ==
    /\ {slept, blind, heard} \subseteq BOOLEAN /\ wrong \subseteq Monitor
    /\ sched \in Schedule /\ unnoticed \in 0 .. Steady + 1
    /\ Promised(sched, unnoticed, quiet, heard, steady, blind)

\* A forced tick keeps what the schedule it leaves promises.
LEMMA ResyncKeeps ==
    ASSUME TypeOK, NEW s \in Schedule, Resync(s), UNCHANGED <<steady, asleep>>,
           quiet' \in Nat, Promised(s, unnoticed, quiet', heard, steady, blind)
    PROVE  RoundKeeps'
<1>1. ForcedTick /\ slept' = FALSE /\ sched' = s /\ heard' = heard
  BY DEF Resync
<1>2. /\ wrong' \subseteq Monitor /\ blind' \in BOOLEAN
      /\ unnoticed' \in {unnoticed, 0} /\ (blind' => unnoticed' = 0)
  BY <1>1, ForcedTickEffect
<1>3. unnoticed' \in 0 .. Steady + 1
  BY <1>2, Typed DEF TypeOK
<1>4. Promised(s, unnoticed', quiet', heard, steady, blind')
  BY <1>2, Typed, PromisedForLess
<1> QED BY <1>1, <1>2, <1>3, <1>4, Typed DEF RoundKeeps

\* A probe from a schedule with a promise leaves one with a promise.  q is how
\* long ago the last event was before the probe.
LEMMA ProbeKeeps ==
    ASSUME TypeOK, NEW s \in Schedule, NEW q \in Nat, Probe(s),
           UNCHANGED <<steady, asleep>>, quiet' \in Nat,
           Promised(s, unnoticed, q, heard, steady, blind),
           quiet' = q \/ s.fast = Window \/ (~ heard /\ heard') \/ wrong' # wrong
    PROVE  RoundKeeps'
<1>1. slept' = slept /\ blind' = blind
  BY DEF Probe
<1>2. CASE blind
  <2>1. /\ sched' = NoteOutcome(s, FALSE, FALSE, FALSE)
        /\ wrong' = wrong /\ heard' = heard /\ unnoticed' = unnoticed
    BY <1>2 DEF Probe
  <2>2. unnoticed = 0 /\ Promised(s, 0, q, heard, steady, TRUE)
    BY <1>2 DEF Promised
  <2>3. quiet' = q \/ s.fast = Window
    BY <2>1
  <2>4. Promised(sched', 0, quiet', heard, steady, TRUE)
    BY <2>1, <2>2, <2>3, Typed, PromisedWhenBlind
  <2>5. sched' \in Schedule
    BY <2>1, NoteOutcomeFields
  <2>6. wrong \subseteq Monitor /\ 0 \in 0 .. Steady + 1
    BY Typed DEF TypeOK
  <2>7. blind = TRUE
    BY <1>2, Typed
  <2> QED BY <1>1, <2>1, <2>2, <2>4, <2>5, <2>6, <2>7, Typed DEF RoundKeeps
<1>3. CASE ~ blind
  <2>1. PICK failed \in SUBSET (wrong \ asleep) :
          LET corrected == wrong \ (asleep \cup failed)
          IN  /\ sched' = NoteOutcome(s, asleep # {}, Awake # {}, corrected # {})
              /\ wrong' = wrong \ corrected
              /\ heard' = (Observed \in Awake)
              /\ unnoticed' = 0
    BY <1>3 DEF Probe
  <2> DEFINE corrected == wrong \ (asleep \cup failed)
             unreachable == asleep # {}
             answered == Awake # {}
             any == corrected # {}
  <2>2. ~ heard' => unreachable
    BY <2>1, ScheduleBounds DEF Awake
  <2>3. wrong' # wrong => any
    BY <2>1
  <2>4. heard' \in BOOLEAN /\ unreachable \in BOOLEAN /\ answered \in BOOLEAN /\ any \in BOOLEAN
    BY <2>1
  <2>5. sched' = NoteOutcome(s, unreachable, answered, any)
    BY <2>1
  <2>6. wrong' \subseteq Monitor
    BY <2>1 DEF TypeOK
  <2> HIDE DEF corrected, unreachable, answered, any
  <2>7. sched' \in Schedule
    BY <2>4, <2>5, NoteOutcomeFields
  <2>8. Promised(sched', 0, quiet', heard', steady, blind')
    <3> DEFINE p == quiet'
               g == heard'
               c == blind'
    <3>1. p = q \/ s.fast = Window \/ (~ heard /\ g) \/ any
      BY <2>3
    <3>2. (~ g => unreachable) /\ g \in BOOLEAN /\ p \in Nat
      BY <2>2, <2>4
    <3> HIDE DEF p, g, c
    <3>3. unnoticed \in Nat /\ heard \in BOOLEAN
      BY Typed
    <3>4. Promised(NoteOutcome(s, unreachable, answered, any), 0, p, g, steady, c)
      BY <2>4, <3>1, <3>2, <3>3, PromisedWhenRead
    <3> QED BY <2>5, <3>4 DEF p, g, c
  <2> QED BY <1>1, <2>1, <2>4, <2>6, <2>7, <2>8, Typed DEF RoundKeeps
<1> QED BY <1>2, <1>3

\* Nothing was told, or the round would probe: the schedule stays as it is.
LEMMA RestKeeps ==
    ASSUME TypeOK, NEW s \in Schedule, Rest(s), UNCHANGED <<steady, asleep>>,
           quiet' \in Nat, Promised(s, unnoticed, quiet', heard, steady, blind)
    PROVE  RoundKeeps'
<1>1. PICK w \in SUBSET (wrong \ asleep) : wrong' = wrong \ w
  BY DEF Rest
<1>2. wrong' \subseteq Monitor
  BY <1>1 DEF TypeOK
<1>3. sched' = s /\ slept' = FALSE /\ blind' \in BOOLEAN /\ heard' = heard
  BY DEF Rest
<1>4. unnoticed' \in {unnoticed, 0} /\ (blind' => unnoticed' = 0)
  BY DEF Rest
<1>5. unnoticed' \in 0 .. Steady + 1
  BY <1>4, Typed DEF TypeOK
<1>6. Promised(s, unnoticed', quiet', heard, steady, blind')
  BY <1>3, <1>4, Typed, PromisedForLess
<1> QED BY <1>2, <1>3, <1>5, <1>6, Typed DEF RoundKeeps

LEMMA RoundInv ==
    ASSUME Inv, Round
    PROVE  Inv'
<1> DEFINE s == IF event THEN Signalled(sched) ELSE sched
           t == IF input THEN Signalled(s) ELSE s
           P(r, q) == Promised(r, unnoticed, q, heard, steady, blind)
<1>1. TypeOK /\ P(sched, quiet)
  BY DEF Inv
<1>2. /\ UNCHANGED <<steady, asleep>> /\ flood' = flood
      /\ drained' = 0 /\ event' = FALSE
  BY DEF Round
<1>3. s \in Schedule /\ t \in Schedule /\ Signalled(s) \in Schedule
  BY <1>1, Typed, SignalledFields
<1>4. ASSUME NEW r \in Schedule, NEW q \in Nat, P(r, q)
      PROVE  P(Signalled(r), 0)
  BY <1>1, <1>4, Typed, PromisedWhenSignalled
<1>5. P(s, IF event THEN 0 ELSE quiet)
  BY <1>1, <1>4, Typed
<1>6. P(t, IF Told(input) THEN 0 ELSE quiet)
  <2>1. CASE input
    <3>1. (IF event THEN 0 ELSE quiet) \in Nat
      BY <1>1, Typed
    <3> QED BY <1>3, <1>4, <1>5, <2>1, <3>1 DEF Told
  <2>2. CASE ~ input
    BY <1>5, <2>2 DEF Told
  <2> QED BY <2>1, <2>2
<1>7. Told(input) => t.fast = Window
  BY <1>1, <1>3, Typed, SignalledFields DEF Told
<1>8. t.next # 0 => ~ Told(input)
  BY <1>1, <1>3, Typed, SignalledFields DEF Told
<1>9. quiet \in Nat /\ quiet \in 0 .. Window /\ 0 \in 0 .. Window
  BY <1>1, Typed DEF TypeOK
<1>10. (RoundKeeps /\ delayed \in 0 .. FollowUp \cup {None} /\ input \in BOOLEAN
          /\ quiet \in 0 .. Window)' => Inv'
  <2>0. 0 \in 0 .. DrainMax
    BY Bounds
  <2>1. steady' \in BOOLEAN /\ flood' \in BOOLEAN /\ asleep' \subseteq Monitor
        /\ event' \in BOOLEAN /\ drained' \in 0 .. DrainMax
    BY <1>1, <1>2, <2>0, Typed DEF TypeOK
  <2> SUFFICES ASSUME RoundKeeps', delayed' \in 0 .. FollowUp \cup {None},
                      input' \in BOOLEAN, quiet' \in 0 .. Window
               PROVE  Inv'
    OBVIOUS
  <2>2. /\ {slept', blind', heard'} \subseteq BOOLEAN /\ wrong' \subseteq Monitor
        /\ sched' \in Schedule /\ unnoticed' \in 0 .. Steady + 1
        /\ Promised(sched', unnoticed', quiet', heard', steady', blind')
    BY DEF RoundKeeps
  <2>3. {steady', event', input', slept', flood', blind', heard'} \subseteq BOOLEAN
    BY <2>1, <2>2
  <2>4. TypeOK'
    BY <2>1, <2>2, <2>3 DEF TypeOK, Schedule
  <2> QED BY <2>2, <2>4 DEF Inv
<1> HIDE DEF s, t
<1>11. CASE /\ delayed = 0 /\ DelayedSync(s)
            /\ quiet' = IF event THEN 0 ELSE quiet
  <2>1. Resync(s) /\ delayed' = None /\ input' = input
    BY <1>11 DEF DelayedSync, Resync
  <2>2. quiet' \in 0 .. Window /\ quiet' \in Nat
    BY <1>9, <1>11
  <2>3. RoundKeeps'
    BY <1>1, <1>2, <1>3, <1>5, <1>11, <2>1, <2>2, ResyncKeeps
  <2> QED BY <1>1, <1>10, <2>1, <2>2, <2>3, Typed
<1>12. CASE delayed # 0 /\ slept /\ DriftRecovery(s) /\ quiet' = 0
  <2>1. Resync(Signalled(s)) /\ delayed' = FollowUp /\ input' = input
    BY <1>12 DEF DriftRecovery, Resync
  <2>2. P(Signalled(s), 0)
    <3>1. (IF event THEN 0 ELSE quiet) \in Nat
      BY <1>9
    <3> QED BY <1>3, <1>4, <1>5, <3>1
  <2>3. RoundKeeps'
    BY <1>1, <1>2, <1>3, <1>9, <1>12, <2>1, <2>2, ResyncKeeps
  <2>4. FollowUp \in 0 .. FollowUp
    BY Bounds
  <2> QED BY <1>1, <1>9, <1>10, <1>12, <2>1, <2>3, <2>4, Typed
<1>13. CASE /\ delayed # 0 /\ ~ slept /\ t.next = 0 /\ Probe(t) /\ input' = FALSE
            /\ quiet' = IF Told(input) \/ (~ heard /\ heard') \/ wrong' # wrong
                        THEN 0 ELSE quiet
  <2> DEFINE q == IF Told(input) THEN 0 ELSE quiet
  <2>1. quiet' \in 0 .. Window /\ quiet' \in Nat /\ q \in Nat
    BY <1>9, <1>13
  <2>2. quiet' = q \/ t.fast = Window \/ (~ heard /\ heard') \/ wrong' # wrong
    BY <1>7, <1>13
  <2>3. RoundKeeps'
    <3>1. P(t, q)
      BY <1>6
    <3> HIDE DEF q
    <3> QED BY <1>1, <1>2, <1>3, <1>13, <2>1, <2>2, <3>1, ProbeKeeps
  <2>4. delayed' = delayed
    BY <1>13 DEF Probe
  <2> QED BY <1>1, <1>10, <1>13, <2>1, <2>3, <2>4, Typed DEF TypeOK
<1>14. CASE /\ delayed # 0 /\ ~ slept /\ t.next # 0 /\ Rest(t) /\ input' = FALSE
            /\ quiet' = IF Told(input) THEN 0 ELSE quiet
  <2>1. quiet' \in 0 .. Window /\ quiet' \in Nat
    BY <1>9, <1>14
  <2>2. RoundKeeps'
    BY <1>1, <1>2, <1>3, <1>6, <1>14, <2>1, RestKeeps
  <2>3. delayed' = delayed
    BY <1>14 DEF Rest
  <2> QED BY <1>1, <1>10, <1>14, <2>1, <2>2, <2>3, Typed DEF TypeOK
<1> QED BY <1>11, <1>12, <1>13, <1>14 DEF Round, s, t

-----------------------------------------------------------------------------
(* The world.                                                              *)

LEMMA MonitorChangesInv ==
    ASSUME Inv, MonitorChanges
    PROVE  Inv'
<1>1. TypeOK /\ Promised(sched, unnoticed, quiet, heard, steady, blind)
  BY DEF Inv
<1>2. PICK m \in Monitor :
        /\ \/ asleep' = asleep \cup {m} /\ UNCHANGED wrong
           \/ m \in asleep /\ asleep' = asleep \ {m} /\ wrong' \in {wrong, wrong \cup {m}}
           \/ m \notin asleep /\ wrong' = wrong \cup {m} /\ UNCHANGED asleep
        /\ unnoticed' = IF m = Observed /\ asleep' # asleep THEN 0 ELSE unnoticed
  BY DEF MonitorChanges
<1>3. /\ steady' = steady /\ sched' = sched /\ delayed' = delayed /\ slept' = slept
      /\ drained' = drained /\ blind' = blind /\ event' = event /\ input' = input
      /\ flood' = flood /\ heard' = heard /\ quiet' = quiet
  BY DEF MonitorChanges, daemon
<1>4. asleep' \subseteq Monitor /\ wrong' \subseteq Monitor
  BY <1>1, <1>2 DEF TypeOK
<1>5. unnoticed' \in {unnoticed, 0}
  BY <1>2
<1>6. unnoticed' \in 0 .. Steady + 1
  BY <1>1, <1>5, Typed DEF TypeOK
<1>7. blind => unnoticed' = 0
  BY <1>1, <1>5 DEF Promised
<1>8. Promised(sched, unnoticed', quiet, heard, steady, blind)
  BY <1>1, <1>5, <1>7, Typed, PromisedForLess
<1>9. TypeOK'
  BY <1>1, <1>3, <1>4, <1>6 DEF TypeOK
<1> QED BY <1>3, <1>8, <1>9 DEF Inv

\* While nothing is due, the next probe comes nearer as fast as Observed has
\* been wrong for longer, and the window ends no sooner than it should.
LEMMA TimePassesInv ==
    ASSUME Inv, TimePasses
    PROVE  Inv'
<1> DEFINE next == Later(sched.next)
           fast == Later(sched.fast)
<1>1. TypeOK /\ Promised(sched, unnoticed, quiet, heard, steady, blind)
  BY DEF Inv
<1>2. /\ steady' = steady /\ slept' = slept /\ drained' = drained /\ blind' = blind
      /\ event' = event /\ input' = input /\ flood' = flood /\ heard' = heard
      /\ asleep' = asleep /\ wrong' = wrong
      /\ sched' = [sched EXCEPT !.next = next, !.fast = fast]
      /\ delayed' = Later(delayed) /\ sched.next # 0
  BY DEF TimePasses, Nothing, screen
<1>3. quiet' = Minimum(quiet + 1, Window)
      /\ unnoticed' \in {Minimum(unnoticed + 1, Steady + 1), 0}
      /\ (blind => unnoticed' = 0)
  BY DEF TimePasses
<1>4. sched.next # None => sched.next \in Nat /\ sched.next <= Steady
  BY <1>1, Typed, FieldsTyped
<1>5. sched.fast \in Nat /\ sched.fast <= Window /\ sched.waiting \in BOOLEAN
  BY <1>1, Typed, FieldsTyped
<1>6. next \in 0 .. Steady \cup {None} /\ (sched.next # None => next = sched.next - 1)
  BY <1>2, <1>4, Bounds DEF Later
<1>7. fast \in 0 .. Window /\ (sched.fast > 0 => fast = sched.fast - 1)
  BY <1>5, Bounds DEF Later
<1> HIDE DEF next, fast
<1>8. sched' \in Schedule /\ sched'.next = next /\ sched'.fast = fast
      /\ sched'.waiting = sched.waiting
  BY <1>1, <1>2, <1>6, <1>7, Typed DEF Schedule
<1>9. delayed' \in 0 .. FollowUp \cup {None}
  <2>1. (delayed \in Nat /\ delayed <= FollowUp) \/ delayed = None
    BY <1>1, Bounds DEF TypeOK
  <2> QED BY <1>2, <2>1, Bounds DEF Later
<1>10. quiet \in Nat /\ quiet <= Window /\ quiet' \in 0 .. Window
       /\ (quiet' < Window => quiet < Window /\ quiet' = quiet + 1)
  BY <1>1, <1>3, Bounds DEF Minimum, TypeOK
<1>11. unnoticed \in Nat /\ unnoticed' \in 0 .. Steady + 1 /\ unnoticed' <= unnoticed + 1
  BY <1>1, <1>3, Bounds DEF Minimum, TypeOK
<1>12. \A bound \in Nat : DueWithin(sched, unnoticed, bound) => DueWithin(sched', unnoticed', bound)
  <2> SUFFICES ASSUME NEW bound \in Nat, DueWithin(sched, unnoticed, bound)
               PROVE  DueWithin(sched', unnoticed', bound)
    OBVIOUS
  <2>1. sched.next \in Nat /\ next = sched.next - 1 /\ unnoticed + sched.next <= bound
    BY <1>4, <1>6 DEF DueWithin
  <2>2. unnoticed' + next <= bound /\ next # None
    BY <1>11, <2>1, Bounds
  <2> QED BY <1>8, <2>2 DEF DueWithin
<1>13. Promised(sched', unnoticed', quiet', heard, steady, blind)
  <2>1. blind => unnoticed' = 0
    BY <1>3
  <2>2. steady => DueWithin(sched', unnoticed', Steady)
    BY <1>1, <1>12, Bounds DEF Promised
  <2>3. ~ heard => sched'.waiting /\ DueWithin(sched', unnoticed', Fast)
    BY <1>1, <1>8, <1>12, Bounds DEF Promised
  <2>4. ASSUME quiet' < Window
        PROVE  /\ sched'.waiting \/ sched'.fast + quiet' >= Window
               /\ DueWithin(sched', unnoticed', Fast)
    <3>1. quiet < Window /\ quiet' = quiet + 1
      BY <1>10, <2>4
    <3>2. DueWithin(sched, unnoticed, Fast) /\ (sched.waiting \/ sched.fast + quiet >= Window)
      BY <1>1, <1>2, <3>1 DEF Promised
    <3>3. sched.waiting \/ fast + quiet' >= Window
      BY <1>5, <1>7, <1>10, <3>1, <3>2, Bounds
    <3> QED BY <1>8, <1>12, <3>2, <3>3, Bounds
  <2>5. DueWithin(sched', unnoticed', Fast) => sched'.next # None
    BY DEF DueWithin
  <2> QED BY <2>1, <2>2, <2>3, <2>4, <2>5 DEF Promised
<1>14. TypeOK'
  BY <1>1, <1>2, <1>8, <1>9, <1>10, <1>11 DEF TypeOK, Schedule
<1> QED BY <1>2, <1>13, <1>14 DEF Inv

LEMMA NextInv == Inv /\ [Next]_vars => Inv'
<1> SUFFICES ASSUME Inv, [Next]_vars PROVE Inv'
  OBVIOUS
<1>1. CASE Daemon
  BY <1>1, RequestsInv, RoundInv DEF Daemon
<1>2. CASE Hint
  <2>1. /\ steady' = steady /\ sched' = sched /\ delayed' = delayed /\ slept' = slept
        /\ drained' = drained /\ blind' = blind /\ flood' = flood /\ heard' = heard
        /\ quiet' = quiet /\ unnoticed' = unnoticed /\ asleep' = asleep /\ wrong' = wrong
        /\ event' \in {event, TRUE} /\ input' \in {input, TRUE}
    BY <1>2 DEF Hint, daemon, screen, history
  <2> QED BY <2>1 DEF Inv, TypeOK
<1>3. CASE Clients
  <2>1. /\ steady' = steady /\ sched' = sched /\ delayed' = delayed /\ slept' = slept
        /\ drained' = drained /\ blind' = blind /\ heard' = heard /\ event' = event
        /\ input' = input /\ quiet' = quiet /\ unnoticed' = unnoticed
        /\ asleep' = asleep /\ wrong' = wrong /\ flood' = ~ flood
    BY <1>3 DEF Clients, daemon, screen, history
  <2> QED BY <2>1 DEF Inv, TypeOK
<1>4. CASE MonitorChanges
  BY <1>4, MonitorChangesInv
<1>5. CASE TimePasses
  BY <1>5, TimePassesInv
<1>6. CASE MachineSleeps
  <2>1. /\ steady' = steady /\ sched' = sched /\ delayed' = delayed /\ slept' = TRUE
        /\ drained' = drained /\ blind' = blind /\ flood' = flood /\ heard' = heard
        /\ event' = event /\ input' = input /\ quiet' = quiet
        /\ unnoticed' = unnoticed /\ asleep' = asleep /\ wrong' = wrong
    BY <1>6 DEF MachineSleeps, screen, history
  <2> QED BY <2>1 DEF Inv, TypeOK
<1>7. CASE UNCHANGED vars
  BY <1>7 DEF vars, loopVars, screen, history, Inv, TypeOK
<1> QED BY <1>1, <1>2, <1>3, <1>4, <1>5, <1>6, <1>7 DEF Next, World

LEMMA InvHolds == Spec => []Inv
BY InitInv, NextInv, PTL DEF Spec

\* The times to the next probe, to the end of the window and to the delayed
\* resync stay in their ranges, and the drain within its bound.
THEOREM TypeCorrect == Spec => []TypeOK
<1>1. Inv => TypeOK
  BY DEF Inv
<1> QED BY <1>1, InvHolds, PTL

\* Every monitor is read within probe_seconds; one that did not answer the last
\* probe, or was told of, woke or was corrected within the last window, within
\* the fast interval (docs/RELIABILITY.md, runtime/wake.rs).
THEOREM WrongLevelsAreSeenInTime == Spec => []SeenInTime
<1>1. Inv => SeenInTime
  <2> SUFFICES ASSUME Inv PROVE SeenInTime
    OBVIOUS
  <2>1. Promised(sched, unnoticed, quiet, heard, steady, blind) /\ TypeOK
    BY DEF Inv
  <2>2. sched.next # None => sched.next \in Nat
    BY <2>1, Typed, FieldsTyped
  <2>3. \A bound \in Nat : DueWithin(sched, unnoticed, bound) => unnoticed <= bound
    BY <2>1, <2>2, Typed DEF DueWithin
  <2> QED BY <2>1, <2>3, Bounds DEF SeenInTime, Promised
<1> QED BY <1>1, InvHolds, PTL

-----------------------------------------------------------------------------
(* What makes the probes fast again.                                       *)

\* The fast window opens only for a hint, a sleep of the machine, an idle
\* watcher that saw the user return, a monitor that was corrected, or one that
\* woke; and the daemon begins to wait for a monitor only when one is asleep.
FastForAReason ==
    /\ sched'.fast > sched.fast =>
         \/ event \/ input \/ slept \/ IdleWake
         \/ ~ (wrong \subseteq wrong')
         \/ sched.waiting /\ ~ sched'.waiting
    /\ sched'.waiting /\ ~ sched.waiting => asleep # {}

LEMMA ProbeReason ==
    ASSUME TypeOK, NEW s \in Schedule, Probe(s)
    PROVE  /\ sched'.fast = s.fast \/ sched'.fast = Window
           /\ sched'.fast = s.fast \/ (s.waiting /\ ~ sched'.waiting) \/ ~ (wrong \subseteq wrong')
           /\ sched'.waiting /\ ~ s.waiting => asleep # {}
<1>1. CASE blind
  <2>1. sched' = NoteOutcome(s, FALSE, FALSE, FALSE)
    BY <1>1 DEF Probe
  <2> QED BY <2>1, NoteOutcomeFields, FieldsTyped
<1>2. CASE ~ blind
  <2>1. PICK failed \in SUBSET (wrong \ asleep) :
          LET corrected == wrong \ (asleep \cup failed)
          IN  /\ sched' = NoteOutcome(s, asleep # {}, Awake # {}, corrected # {})
              /\ wrong' = wrong \ corrected
    BY <1>2 DEF Probe
  <2> DEFINE corrected == wrong \ (asleep \cup failed)
             some == corrected # {}
             sleeping == asleep # {}
             answering == Awake # {}
  <2>2. wrong' = wrong \ corrected /\ corrected \subseteq wrong
    BY <2>1
  <2> HIDE DEF corrected
  <2>3. some => ~ (wrong \subseteq wrong')
    BY <2>2
  <2>4. sched' = NoteOutcome(s, sleeping, answering, some)
    BY <2>1 DEF corrected
  <2>5. some \in BOOLEAN /\ sleeping \in BOOLEAN /\ answering \in BOOLEAN
    OBVIOUS
  <2>6. sleeping <=> asleep # {}
    OBVIOUS
  <2> HIDE DEF some, sleeping, answering
  <2> DEFINE r == NoteOutcome(s, sleeping, answering, some)
  <2>7. /\ r.waiting <=> sleeping \/ (s.waiting /\ ~ answering)
        /\ r.fast = IF (s.waiting /\ ~ r.waiting) \/ some THEN Window ELSE s.fast
    BY <2>5, NoteOutcomeFields
  <2> HIDE DEF r
  <2>8. sched' = r
    BY <2>4 DEF r
  <2> QED BY <2>3, <2>6, <2>7, <2>8
<1> QED BY <1>1, <1>2

LEMMA RoundReason ==
    ASSUME TypeOK, Round
    PROVE  FastForAReason
<1> DEFINE s == IF event THEN Signalled(sched) ELSE sched
           t == IF input THEN Signalled(s) ELSE s
<1>1. sched \in Schedule
  BY Typed
<1>2. s \in Schedule /\ s.waiting = sched.waiting /\ (~ event => s.fast = sched.fast)
  BY <1>1, SignalledFields
<1> HIDE DEF s
<1>3. t \in Schedule /\ t.waiting = s.waiting /\ (~ input => t.fast = s.fast)
  BY <1>2, SignalledFields
<1> HIDE DEF t
<1>4. \/ sched' = s
      \/ slept /\ sched' = Signalled(s)
      \/ Probe(t)
      \/ sched' = t
  BY DEF Round, DelayedSync, DriftRecovery, Resync, Rest, s, t
<1>5. CASE sched' = s \/ sched' = t \/ (slept /\ sched' = Signalled(s))
  <2>1. sched'.waiting = sched.waiting
    BY <1>2, <1>3, <1>5, SignalledFields
  <2>2. sched'.fast = sched.fast \/ event \/ input \/ slept
    BY <1>2, <1>3, <1>5
  <2>3. sched.fast \in Nat
    BY <1>1, FieldsTyped
  <2> QED BY <2>1, <2>2, <2>3 DEF FastForAReason
<1>6. CASE Probe(t)
  <2>1. /\ sched'.fast = t.fast \/ (t.waiting /\ ~ sched'.waiting) \/ ~ (wrong \subseteq wrong')
        /\ sched'.waiting /\ ~ t.waiting => asleep # {}
    BY <1>3, <1>6, ProbeReason
  <2>2. sched.fast \in Nat
    BY <1>1, FieldsTyped
  <2> QED BY <1>2, <1>3, <2>1, <2>2 DEF FastForAReason
<1> QED BY <1>4, <1>5, <1>6

\* Nothing the daemon does by itself opens the fast window, or keeps it waiting
\* for a monitor, once all monitors answer and show their targets: the safety
\* half of SettlesDown (runtime/wake.rs, signal and note_outcome).
THEOREM ProbesAreFastForAReason == Spec => [][FastForAReason]_vars
<1>1. TypeOK /\ [Next]_vars => [FastForAReason]_vars
  <2> SUFFICES ASSUME TypeOK, Next PROVE FastForAReason
    BY DEF FastForAReason
  <2>1. sched \in Schedule /\ sched.fast \in Nat
    BY Typed, FieldsTyped
  <2>2. CASE sched' = sched \/ IdleWake
    <3>1. CASE sched' = sched
      BY <2>1, <3>1 DEF FastForAReason
    <3>2. CASE IdleWake
      <4>1. sched'.waiting = sched.waiting
        BY <2>1, <3>2, SignalledFields DEF IdleWake, RequestWakeReassert
      <4> QED BY <3>2, <4>1 DEF FastForAReason
    <3> QED BY <2>2, <3>1, <3>2
  <2>3. CASE TimePasses
    <3> DEFINE next == Later(sched.next)
               fast == Later(sched.fast)
    <3>1. sched' = [sched EXCEPT !.next = next, !.fast = fast]
      BY <2>3 DEF TimePasses
    <3>2. fast <= sched.fast /\ fast \in Nat
      BY <2>1, Bounds DEF Later
    <3> HIDE DEF next, fast
    <3>3. sched'.fast = fast /\ sched'.waiting = sched.waiting
      BY <2>1, <3>1 DEF Schedule
    <3> QED BY <2>1, <3>2, <3>3 DEF FastForAReason
  <2>4. sched' = sched \/ IdleWake \/ TimePasses \/ Round
    BY DEF Next, Daemon, World, OtherRequest, TickRequest, Hint, Clients, MonitorChanges,
           MachineSleeps, daemon
  <2> QED BY <2>2, <2>3, <2>4, RoundReason
<1> QED BY <1>1, TypeCorrect, PTL DEF Spec
=============================================================================
