---------------------- MODULE CapabilityRefresh_proofs ----------------------
(* Theorems about CapabilityRefresh: no result is dropped, no answer is      *)
(* missed, and what is published is as fresh as the tick that uses it needs, *)
(* for any number of hotplugs and panics and although the generation wraps.  *)
EXTENDS CapabilityRefresh, TLAPS

\* The types of the thread's and the channel's records.
LEMMA RecordsTyped ==
    ASSUME TypeOK
    PROVE  /\ HasFinished \in BOOLEAN
           /\ handle # None => /\ handle \in Thread
                               /\ handle.gen \in Generation
                               /\ handle.saw \in Topology \cup {Panicked, None}
                               /\ \A p \in {"send", "guard", "exit", "finished"} :
                                     [handle EXCEPT !.pc = p] \in Thread
           /\ channel # None => /\ channel.gen \in Generation
                                /\ channel.saw \in Topology \cup {Panicked}
PROOF
  BY DEF TypeOK, Thread, Result, HasFinished

\* The counter takes its next value, and starts again after its last.
LEMMA BumpedValue ==
    ASSUME NEW g \in Generation
    PROVE  Bumped(g) = IF g = Generations - 1 THEN 0 ELSE g + 1
PROOF
<1>1. Generations \in Nat \ {0}
  BY BoundAssumption, GenerationsAssumption, SMT
<1>2. CASE g = Generations - 1
  <2>1. Generations % Generations = 0
    BY <1>1, SMT
  <2> QED
    BY <1>1, <1>2, <2>1, SMT DEF Bumped
<1>3. CASE g # Generations - 1
  <2>1. g + 1 \in 0 .. Generations - 1
    BY <1>1, <1>3, SMT DEF Generation
  <2>2. (g + 1) % Generations = g + 1
    BY <1>1, <2>1, SMT
  <2> QED
    BY <1>3, <2>2 DEF Bumped
<1> QED
  BY <1>2, <1>3

\* The raised counter stays in its range.
LEMMA BumpedTyped == \A g \in Generation : Bumped(g) \in Generation
PROOF
  BY BumpedValue, BoundAssumption, GenerationsAssumption, SMT DEF Generation

-----------------------------------------------------------------------------
(* The inductive invariant.                                                  *)

\* A result, wherever it is, belongs to the cycle that is pending, and while
\* the thread has yet to send it the channel is free.
Handshake ==
    /\ Answering => pending
    /\ loop = "begin" => pending /\ ~ Answering
    /\ At("observe") \/ At("send") => channel = None

\* The generation has been raised at most once per display event since the
\* observation gen began; until it is, what the observation saw is at least as
\* new as the last invalidation.  It is always as new as its cycle.
Fresh(gen, saw) ==
    /\ \E k \in 0 .. topology + 1 :
          /\ generation \in {gen + k, gen + k - Generations}
          /\ event => k <= topology
          /\ k = 0 /\ saw \in Topology => invalidatedAt <= saw
    /\ saw \in Topology => cycleStart <= saw

Freshness ==
    /\ invalidatedAt <= topology
    /\ cycleStart <= topology
    /\ At("observe") => handle.saw = None
    /\ At("observe") \/ At("send") => Fresh(handle.gen, handle.saw)
    /\ channel # None => Fresh(channel.gen, channel.saw)

\* A thread is active until it has dropped the guard.
GuardHeld == active => At("observe") \/ At("send") \/ At("guard")

\* A thread has seen something by the time it sends.
SeenBeforeSend == At("send") => handle.saw # None

\* Every variable keeps its type, and a thread sends what it has seen.
THEOREM TypeCorrect == Spec => [](TypeOK /\ SeenBeforeSend)
PROOF
<1>1. Init => TypeOK /\ SeenBeforeSend
  <2> SUFFICES ASSUME Init PROVE TypeOK /\ SeenBeforeSend
    OBVIOUS
  <2>1. 0 \in Topology /\ 0 \in Generation /\ 0 \in 0 .. MaxPanics
    BY BoundAssumption, GenerationsAssumption, SMT DEF Topology, Generation
  <2> QED
    BY <2>1 DEF Init, TypeOK, SeenBeforeSend, At
<1>2. TypeOK /\ SeenBeforeSend /\ [Next]_vars => (TypeOK /\ SeenBeforeSend)'
  <2> SUFFICES ASSUME TypeOK, SeenBeforeSend, [Next]_vars PROVE (TypeOK /\ SeenBeforeSend)'
    OBVIOUS
  <2> USE DEF TypeOK, SeenBeforeSend, At
  <2>1. CASE BeginChecksActive
    BY <2>1 DEF BeginChecksActive, events
  <2>2. CASE BeginSpawns
    <3>1. generation' \in Generation
      BY <2>2, BumpedTyped DEF BeginSpawns
    <3>2. handle' \in Thread \cup {None} /\ (handle' = handle \/ handle'.pc = "observe")
      BY <2>2, <3>1 DEF BeginSpawns, Thread
    <3>3. active' \in BOOLEAN /\ pending' \in BOOLEAN
      BY <2>2, Zenon DEF BeginSpawns
    <3>4. SeenBeforeSend'
      BY <2>2, <3>2 DEF BeginSpawns
    <3> QED
      BY <2>2, <3>1, <3>2, <3>3, <3>4 DEF BeginSpawns, events, history
  <2>3. CASE Publish
    <3>1. caps' \in Topology \cup {None}
      BY <2>3 DEF Publish, Publishable, Result
    <3> QED
      BY <2>3, <3>1 DEF Publish, PendingAfter, events, history
  <2>4. CASE HandleDisplayEvent
    BY <2>4, BumpedTyped DEF HandleDisplayEvent
  <2>5. CASE FastWindowMoves \/ TickFallsDue
    BY <2>5 DEF FastWindowMoves, TickFallsDue, events, history
  <2>6. CASE Observe
    <3>1. handle' \in Thread /\ handle'.saw # None
      <4>1. topology # None
        BY NoneAssumption, SMT DEF Topology
      <4>2. handle \in Thread /\ handle' = [handle EXCEPT !.pc = "send", !.saw = topology]
        BY <2>6 DEF Observe
      <4> QED
        BY <4>1, <4>2 DEF Thread
    <3>2. SeenBeforeSend'
      BY <3>1
    <3>3. TypeOK'
      BY <2>6, <3>1 DEF Observe, events, history
    <3> QED
      BY <3>2, <3>3
  <2>7. CASE Panic
    <3>1. handle' \in Thread /\ handle'.saw # None
      BY <2>7, NoneAssumption DEF Panic, Thread
    <3>2. panics' \in 0 .. MaxPanics
      BY <2>7, BoundAssumption, SMT DEF Panic
    <3> QED
      BY <2>7, <3>1, <3>2 DEF Panic, history
  <2>8. CASE DropGuard \/ Exit
    <3>1. handle' \in Thread /\ handle'.pc # "send"
      BY <2>8 DEF DropGuard, Exit, Thread
    <3> QED
      BY <2>8, <3>1 DEF DropGuard, Exit, events, history
  <2>9. CASE Hotplug
    <3>1. topology' \in Topology
      BY <2>9, BoundAssumption, SMT DEF Hotplug, Topology
    <3> QED
      BY <2>9, <3>1 DEF Hotplug, history
  <2>10. CASE Send
    <3>1. /\ [gen |-> handle.gen, saw |-> handle.saw] \in Result
          /\ handle' \in Thread /\ handle'.pc # "send"
      BY <2>10 DEF Send, Thread, Result
    <3> QED
      BY <2>10, <3>1 DEF Send, events, history
  <2>11. CASE UNCHANGED vars
    BY <2>11 DEF vars
  <2> QED
    BY <2>1, <2>2, <2>3, <2>4, <2>5, <2>6, <2>7, <2>8, <2>9, <2>10, <2>11
       DEF Next, ControlLoop, ObservationThread
<1> QED
  BY <1>1, <1>2, PTL DEF Spec

-----------------------------------------------------------------------------
(* The handshake.                                                            *)

\* Sending puts a result into the channel, which was free.
LEMMA SendFills ==
    ASSUME TypeOK, SeenBeforeSend, Handshake, Send
    PROVE  /\ channel' = [gen |-> handle.gen, saw |-> handle.saw]
           /\ channel' # None
           /\ handle' # None /\ handle'.pc = "guard"
PROOF
<1>1. handle \in Thread /\ handle.saw # None /\ channel = None
  BY DEF TypeOK, Send, SeenBeforeSend, Handshake, At
<1>2. [gen |-> handle.gen, saw |-> handle.saw] \in Result
  BY <1>1 DEF Thread, Result
<1>3. [handle EXCEPT !.pc = "guard"] \in Thread /\ [handle EXCEPT !.pc = "guard"].pc = "guard"
  BY <1>1 DEF Thread
<1> QED
  BY <1>1, <1>2, <1>3, OptionAssumption DEF Send

\* The other steps of the thread, which leave the channel alone.
LEMMA ThreadMoves ==
    ASSUME TypeOK
    PROVE  /\ Observe => /\ At("observe") /\ At("send")' /\ channel' = channel
                         /\ handle'.gen = handle.gen /\ handle'.saw = topology
           /\ Panic => /\ At("observe") /\ At("send")' /\ channel' = channel
                       /\ handle'.gen = handle.gen /\ handle'.saw = Panicked
           /\ DropGuard => At("guard") /\ At("exit")' /\ channel' = channel
           /\ Exit => At("exit") /\ At("finished")' /\ channel' = channel
PROOF
<1>1. ASSUME Observe
      PROVE  /\ At("observe") /\ At("send")' /\ channel' = channel
             /\ handle'.gen = handle.gen /\ handle'.saw = topology
  <2>1. /\ handle \in Thread /\ At("observe")
        /\ handle' = [handle EXCEPT !.pc = "send", !.saw = topology]
    BY <1>1 DEF TypeOK, Observe, At
  <2>2. /\ handle' \in Thread /\ handle'.pc = "send"
        /\ handle'.gen = handle.gen /\ handle'.saw = topology
    BY <2>1 DEF Thread, TypeOK
  <2> QED
    BY <1>1, <2>1, <2>2, OptionAssumption DEF Observe, At
<1>2. ASSUME Panic
      PROVE  /\ At("observe") /\ At("send")' /\ channel' = channel
             /\ handle'.gen = handle.gen /\ handle'.saw = Panicked
  <2>1. /\ handle \in Thread /\ At("observe")
        /\ handle' = [handle EXCEPT !.pc = "send", !.saw = Panicked]
    BY <1>2 DEF TypeOK, Panic, At
  <2>2. /\ handle' \in Thread /\ handle'.pc = "send"
        /\ handle'.gen = handle.gen /\ handle'.saw = Panicked
    BY <2>1 DEF Thread
  <2> QED
    BY <1>2, <2>1, <2>2, OptionAssumption DEF Panic, At
<1>3. ASSUME DropGuard
      PROVE  At("guard") /\ At("exit")' /\ channel' = channel
  <2>1. /\ handle \in Thread /\ At("guard")
        /\ handle' = [handle EXCEPT !.pc = "exit"]
    BY <1>3 DEF TypeOK, DropGuard, At
  <2>2. /\ handle' \in Thread /\ handle'.pc = "exit"
    BY <2>1 DEF Thread
  <2> QED
    BY <1>3, <2>1, <2>2, OptionAssumption DEF DropGuard, At
<1>4. ASSUME Exit
      PROVE  At("exit") /\ At("finished")' /\ channel' = channel
  <2>1. /\ handle \in Thread /\ At("exit")
        /\ handle' = [handle EXCEPT !.pc = "finished"]
    BY <1>4 DEF TypeOK, Exit, At
  <2>2. /\ handle' \in Thread /\ handle'.pc = "finished"
    BY <2>1 DEF Thread
  <2> QED
    BY <1>4, <2>1, <2>2, OptionAssumption DEF Exit, At
<1> QED
  BY <1>1, <1>2, <1>3, <1>4

\* A new thread starts by observing, for the new generation.
LEMMA SpawnMoves ==
    ASSUME TypeOK, BeginSpawns
    PROVE  \/ /\ HasFinished
              /\ At("observe")' /\ handle'.saw = None /\ handle'.gen = generation'
           \/ ~ HasFinished /\ handle' = handle
PROOF
<1>1. generation' \in Generation
  BY BumpedTyped DEF TypeOK, BeginSpawns
<1>2. [pc |-> "observe", gen |-> generation', saw |-> None] \in Thread
  BY <1>1 DEF Thread
<1> QED
  BY <1>2, OptionAssumption DEF BeginSpawns, At

\* Steps that leave the handshake alone.
Elsewhere == UNCHANGED <<handle, channel, pending, loop, active>>
\* Display events, time and hotplugs are such steps.
LEMMA StepsElsewhere ==
    HandleDisplayEvent \/ FastWindowMoves \/ TickFallsDue \/ Hotplug \/ UNCHANGED vars => Elsewhere
PROOF
  BY DEF HandleDisplayEvent, FastWindowMoves, TickFallsDue, Hotplug, Elsewhere, vars

\* Every step keeps results and cycles together.
LEMMA HandshakeStep ==
    TypeOK /\ SeenBeforeSend /\ Handshake /\ [Next]_vars => Handshake'
PROOF
<1> SUFFICES ASSUME TypeOK, SeenBeforeSend, Handshake, [Next]_vars PROVE Handshake'
  OBVIOUS
<1> USE DEF Handshake, Answering
<1>1. CASE BeginChecksActive
  BY <1>1 DEF BeginChecksActive, MayBegin, At
<1>2. CASE BeginSpawns
  BY <1>2, SpawnMoves DEF BeginSpawns, At
<1>3. CASE Publish
  BY <1>3 DEF Publish, At
<1>4. CASE Observe \/ Panic
  BY <1>4, ThreadMoves DEF Observe, Panic, At
<1>5. CASE Send
  BY <1>5, SendFills DEF Send, At
<1>6. CASE DropGuard \/ Exit
  BY <1>6, ThreadMoves DEF DropGuard, Exit, At
<1>7. CASE Elsewhere
  BY <1>7 DEF Elsewhere, At
<1> QED
  BY <1>1, <1>2, <1>3, <1>4, <1>5, <1>6, <1>7, StepsElsewhere
     DEF Next, ControlLoop, ObservationThread

\* A result belongs to the cycle that is pending, and finds the channel free.
THEOREM HandshakeHolds == Spec => []Handshake
PROOF
<1>1. Init => Handshake
  BY DEF Init, Handshake, Answering, At
<1> QED
  BY <1>1, HandshakeStep, TypeCorrect, PTL DEF Spec

\* The channel of capacity one never drops a result: at most one is ever under
\* way, even when a thread takes its time to exit.
THEOREM ChannelSuffices == Spec => []NoResultIsDropped
PROOF
<1>1. Handshake => NoResultIsDropped
  BY DEF Handshake, NoResultIsDropped
<1> QED
  BY <1>1, HandshakeHolds, PTL

LEMMA GuardHeldStep ==
    TypeOK /\ SeenBeforeSend /\ Handshake /\ GuardHeld /\ [Next]_vars => GuardHeld'
PROOF
<1> SUFFICES ASSUME TypeOK, SeenBeforeSend, Handshake, GuardHeld, [Next]_vars
             PROVE  GuardHeld'
  OBVIOUS
<1> USE DEF GuardHeld
<1>1. CASE BeginChecksActive \/ Publish
  BY <1>1 DEF BeginChecksActive, Publish, At
<1>2. CASE BeginSpawns
  BY <1>2, SpawnMoves DEF BeginSpawns, At
<1>3. CASE Observe \/ Panic
  BY <1>3, ThreadMoves
<1>4. CASE Send
  BY <1>4, SendFills DEF Send, At
<1>5. CASE DropGuard
  BY <1>5 DEF DropGuard
<1>6. CASE Exit
  BY <1>6, ThreadMoves DEF Exit, At
<1>7. CASE Elsewhere
  BY <1>7 DEF Elsewhere, At
<1> QED
  BY <1>1, <1>2, <1>3, <1>4, <1>5, <1>6, <1>7, StepsElsewhere
     DEF Next, ControlLoop, ObservationThread

\* The thread of the last cycle has sent its result and has not exited, which
\* nothing in the code prevents when the next cycle begins: the result is taken
\* from the channel while the guard is still held, and the thread is not joined.
Lingers == At("guard") \/ At("exit")

\* A pending cycle that no observation will answer.
Unanswered == loop = "idle" /\ pending /\ ~ Answering

\* A cycle goes unanswered in one way only: it begins while the thread of the
\* last one lingers, and is refused for that, by the active flag or because the
\* old thread has not finished.
LEMMA LossStep ==
    ASSUME TypeOK, SeenBeforeSend, Handshake, GuardHeld, PendingIsAnswered, [Next]_vars,
           ~ PendingIsAnswered'
    PROVE  (BeginChecksActive \/ BeginSpawns) /\ Lingers
PROOF
<1> USE DEF PendingIsAnswered, Handshake, Answering, Lingers
<1>1. CASE BeginChecksActive
  <2>1. loop = "idle" /\ ~ Answering
    BY <1>1 DEF BeginChecksActive, MayBegin
  <2>2. CASE active
    BY <1>1, <2>1, <2>2 DEF GuardHeld
  <2>3. CASE ~ active
    BY <1>1, <2>3 DEF BeginChecksActive
  <2> QED
    BY <2>2, <2>3
<1>2. CASE BeginSpawns
  <2>1. pending /\ ~ Answering /\ pending' /\ channel' = channel
    BY <1>2 DEF BeginSpawns
  <2>2. CASE HasFinished
    BY <1>2, <2>1, <2>2, SpawnMoves
  <2>3. CASE ~ HasFinished
    <3>1. handle \in Thread /\ handle # None /\ handle.pc # "finished"
      BY <2>3 DEF HasFinished, TypeOK
    <3>2. handle.pc \in {"guard", "exit"}
      BY <2>1, <3>1 DEF At, Thread
    <3> QED
      BY <1>2, <3>1, <3>2 DEF At
  <2> QED
    BY <2>2, <2>3
<1>3. CASE Publish
  BY <1>3 DEF Publish, PendingAfter, At
<1>4. CASE Observe \/ Panic
  BY <1>4, ThreadMoves DEF Observe, Panic, At
<1>5. CASE Send
  BY <1>5, SendFills DEF Send, At
<1>6. CASE DropGuard \/ Exit
  BY <1>6, ThreadMoves DEF DropGuard, Exit, At
<1>7. CASE Elsewhere
  BY <1>7 DEF Elsewhere, At
<1> QED
  BY <1>1, <1>2, <1>3, <1>4, <1>5, <1>6, <1>7, StepsElsewhere
     DEF Next, ControlLoop, ObservationThread

\* And then it stays so: RunTick begins no cycle while one is pending.
LEMMA LostStep ==
    ASSUME TypeOK, Unanswered, [Next]_vars
    PROVE  Unanswered'
PROOF
<1> USE DEF Unanswered, Answering
<1>1. CASE BeginChecksActive \/ BeginSpawns \/ Publish \/ Observe \/ Panic \/ Send
  BY <1>1 DEF BeginChecksActive, MayBegin, BeginSpawns, Publish, Observe, Panic, Send
<1>2. CASE DropGuard \/ Exit
  BY <1>2, ThreadMoves DEF DropGuard, Exit, At
<1>3. CASE Elsewhere
  BY <1>3 DEF Elsewhere, At
<1> QED
  BY <1>1, <1>2, <1>3, StepsElsewhere DEF Next, ControlLoop, ObservationThread

\* However slowly threads exit, pending cycles and observations that will answer
\* them go together, and no step parts them but a cycle that begins while the
\* thread of the last one lingers.
THEOREM OnlyLingeringLosesACycle ==
    Spec => [][PendingIsAnswered /\ ~ PendingIsAnswered'
                 => (BeginChecksActive \/ BeginSpawns) /\ Lingers]_vars
PROOF
<1>1. Init => GuardHeld
  BY DEF Init, GuardHeld
<1>2. TypeOK /\ SeenBeforeSend /\ Handshake /\ GuardHeld /\ [Next]_vars
        => [PendingIsAnswered /\ ~ PendingIsAnswered'
              => (BeginChecksActive \/ BeginSpawns) /\ Lingers]_vars
  BY LossStep
<1> QED
  BY <1>1, <1>2, GuardHeldStep, HandshakeHolds, TypeCorrect, PTL DEF Spec

\* A cycle that was lost that way is lost for good: it stays pending, no thread
\* observes for it, and RunTick begins no other.  The counterexample of the slow
\* exit shows it for one instance.
THEOREM LostCyclesStayLost == Spec => [](Unanswered => []Unanswered)
PROOF
<1>1. TypeOK /\ Unanswered /\ [Next]_vars => Unanswered'
  BY LostStep
<1> QED
  BY <1>1, TypeCorrect, PTL DEF Spec

-----------------------------------------------------------------------------
(* Freshness.  The only steps that raise the generation while a result is    *)
(* under way are display events, and there are no more of them than hotplugs, *)
(* fewer than the generation has values.                                     *)

\* What Fresh depends on but for the observation itself.
Dated == <<topology, event, generation, invalidatedAt, cycleStart>>

\* A result stays as fresh as it was when nothing it is dated by changes.
LEMMA FreshKept ==
    ASSUME NEW gen, NEW saw, Fresh(gen, saw), UNCHANGED Dated
    PROVE  Fresh(gen, saw)'
PROOF
  BY DEF Fresh, Dated

\* A hotplug adds at most one event to come.
LEMMA FreshHotplug ==
    ASSUME TypeOK, NEW gen \in Generation, NEW saw, Fresh(gen, saw), Hotplug
    PROVE  Fresh(gen, saw)'
PROOF
<1>1. PICK k \in 0 .. topology + 1 :
        /\ generation \in {gen + k, gen + k - Generations}
        /\ event => k <= topology
        /\ k = 0 /\ saw \in Topology => invalidatedAt <= saw
  BY DEF Fresh
<1>2. /\ topology \in Nat /\ topology' = topology + 1
      /\ UNCHANGED <<generation, invalidatedAt, cycleStart>>
  BY SMT DEF TypeOK, Topology, Hotplug, history
<1>3. k \in 0 .. topology' + 1 /\ k <= topology'
  BY <1>2, SMT
<1>4. saw \in Topology => cycleStart <= saw
  BY DEF Fresh
<1> QED
  BY <1>1, <1>2, <1>3, <1>4 DEF Fresh

\* A display event uses up one event and, when it raises the generation, makes
\* what is under way stale.
LEMMA FreshEvent ==
    ASSUME TypeOK, NEW gen \in Generation, NEW saw, Fresh(gen, saw), HandleDisplayEvent
    PROVE  Fresh(gen, saw)'
PROOF
<1>1. PICK k \in 0 .. topology + 1 :
        /\ generation \in {gen + k, gen + k - Generations}
        /\ event => k <= topology
        /\ k = 0 /\ saw \in Topology => invalidatedAt <= saw
  BY DEF Fresh
<1>2. event /\ event' = FALSE /\ topology' = topology /\ cycleStart' = cycleStart
  BY DEF HandleDisplayEvent
<1>3. saw \in Topology => cycleStart <= saw
  BY DEF Fresh
<1>4. CASE fast
  BY <1>1, <1>2, <1>3, <1>4 DEF HandleDisplayEvent, Fresh
<1>5. CASE ~ fast
  <2>1. generation' = Bumped(generation)
    BY <1>5 DEF HandleDisplayEvent
  <2>2. topology \in 0 .. MaxTopology /\ generation \in Generation
    BY DEF TypeOK, Topology
  <2>3. generation' = IF generation = Generations - 1 THEN 0 ELSE generation + 1
    BY <2>1, <2>2, BumpedValue
  <2>4. k + 1 \in 0 .. topology + 1 /\ k + 1 # 0
    BY <1>1, <1>2, <2>2, BoundAssumption, SMT
  <2>5. generation' \in {gen + (k + 1), gen + (k + 1) - Generations}
    BY <1>1, <1>2, <2>2, <2>3, BoundAssumption, GenerationsAssumption, SMT DEF Generation
  <2> QED
    BY <1>2, <1>3, <2>4, <2>5 DEF Fresh
<1> QED
  BY <1>4, <1>5

\* A new observation is fresh.
LEMMA FreshStart ==
    ASSUME TypeOK'
    PROVE  Fresh(generation, None)'
PROOF
<1>1. topology' \in Nat /\ generation' \in Int
  BY SMT DEF TypeOK, Topology, Generation
<1>2. None \notin Topology
  BY NoneAssumption, SMT DEF Topology
<1>3. /\ \A t \in Nat : 0 \in 0 .. t + 1 /\ 0 <= t
      /\ \A g \in Int : g = g + 0
  BY SMT
<1> QED
  BY <1>1, <1>2, <1>3 DEF Fresh

\* What an observation sees is the topology, or nothing when it panics.
LEMMA FreshSeen ==
    ASSUME NEW gen, Fresh(gen, None), NEW saw \in {topology, Panicked},
           invalidatedAt <= topology, cycleStart <= topology
    PROVE  Fresh(gen, saw)
PROOF
<1>1. Panicked \notin Topology
  BY NoneAssumption, SMT DEF Topology
<1> QED
  BY <1>1 DEF Fresh

\* An observation of the current generation has seen the last invalidation:
\* the generation has not come round since.
LEMMA FreshIsNew ==
    ASSUME TypeOK, NEW saw \in Topology, Fresh(generation, saw)
    PROVE  invalidatedAt <= saw
PROOF
<1>1. PICK k \in 0 .. topology + 1 :
        /\ generation \in {generation + k, generation + k - Generations}
        /\ k = 0 /\ saw \in Topology => invalidatedAt <= saw
  BY DEF Fresh
<1>2. k < Generations
  BY GenerationsAssumption, BoundAssumption, SMT DEF TypeOK, Topology
<1>3. k = 0
  BY <1>1, <1>2, GenerationsAssumption, BoundAssumption, SMT DEF TypeOK, Generation
<1> QED
  BY <1>1, <1>3

\* Every step keeps what is under way as fresh as its generation says.
LEMMA FreshnessStep ==
    TypeOK /\ TypeOK' /\ SeenBeforeSend /\ Handshake /\ Freshness /\ [Next]_vars => Freshness'
PROOF
<1> SUFFICES ASSUME TypeOK, TypeOK', SeenBeforeSend, Handshake, Freshness, [Next]_vars
             PROVE  Freshness'
  OBVIOUS
<1>0. topology \in Nat /\ invalidatedAt \in Nat /\ cycleStart \in Nat
  BY SMT DEF TypeOK, Topology
<1>1. CASE BeginChecksActive
  <2>1. ~ Answering
    BY <1>1 DEF BeginChecksActive, MayBegin, Handshake
  <2>2. /\ UNCHANGED <<topology, invalidatedAt, handle, channel>>
        /\ cycleStart' = topology
    BY <1>1 DEF BeginChecksActive, events
  <2>3. cycleStart' <= topology'
    BY <1>0, <2>2, SMT
  <2> QED
    BY <2>1, <2>2, <2>3 DEF Freshness, Answering, At
<1>2. CASE BeginSpawns
  <2>1. ~ Answering
    BY <1>2 DEF BeginSpawns, Handshake
  <2>2. UNCHANGED <<topology, invalidatedAt, cycleStart, channel>>
    BY <1>2 DEF BeginSpawns, events, history
  <2>3. Fresh(generation, None)'
    BY FreshStart
  <2> QED
    BY <1>2, <2>1, <2>2, <2>3, SpawnMoves DEF Freshness, Answering, At
<1>3. CASE Publish
  BY <1>3, FreshKept DEF Publish, Freshness, At, Dated, events, history
<1>4. CASE Observe \/ Panic
  <2>1. Fresh(handle.gen, handle'.saw)
    BY <1>4, ThreadMoves, FreshSeen DEF Freshness
  <2>2. UNCHANGED Dated /\ UNCHANGED channel /\ handle'.gen = handle.gen /\ At("send")'
    BY <1>4, ThreadMoves DEF Observe, Panic, Dated, events, history
  <2>3. Fresh(handle.gen, handle.saw)'
    BY <2>1, <2>2 DEF Fresh, Dated
  <2>4. channel' = None
    BY <1>4, <2>2, ThreadMoves DEF Handshake
  <2> QED
    BY <2>2, <2>3, <2>4 DEF Freshness, At, Dated
<1>5. CASE Send
  <2>1. Fresh(handle.gen, handle.saw) /\ UNCHANGED Dated
    BY <1>5 DEF Send, Freshness, Dated, events, history
  <2>2. channel'.gen = handle.gen /\ channel'.saw = handle.saw /\ handle'.pc = "guard"
    BY <1>5, SendFills
  <2>3. Fresh(channel.gen, channel.saw)'
    BY <2>1, <2>2 DEF Fresh, Dated
  <2> QED
    BY <2>1, <2>2, <2>3 DEF Freshness, At, Dated
<1>6. CASE DropGuard \/ Exit \/ FastWindowMoves \/ TickFallsDue \/ UNCHANGED vars
  <2>1. /\ UNCHANGED Dated /\ UNCHANGED channel
        /\ handle' = handle \/ At("exit")' \/ At("finished")'
    BY <1>6, ThreadMoves DEF DropGuard, Exit, FastWindowMoves, TickFallsDue, vars, Dated,
                             events, history
  <2> QED
    BY <2>1, FreshKept DEF Freshness, At, Dated
<1>7. CASE Hotplug
  <2>1. UNCHANGED <<handle, channel, invalidatedAt, cycleStart>> /\ topology' = topology + 1
    BY <1>7 DEF Hotplug, history
  <2>2. invalidatedAt' <= topology' /\ cycleStart' <= topology'
    BY <1>0, <2>1, SMT DEF Freshness
  <2>3. \A gen \in Generation : \A saw : Fresh(gen, saw) => Fresh(gen, saw)'
    BY <1>7, FreshHotplug
  <2> QED
    BY <2>1, <2>2, <2>3, RecordsTyped DEF Freshness, At
<1>8. CASE HandleDisplayEvent
  <2>1. /\ UNCHANGED <<handle, channel, cycleStart, topology>>
        /\ invalidatedAt' \in {invalidatedAt, topology}
    BY <1>8 DEF HandleDisplayEvent
  <2>2. invalidatedAt' <= topology' /\ cycleStart' <= topology'
    BY <1>0, <2>1, SMT DEF Freshness
  <2>3. \A gen \in Generation : \A saw : Fresh(gen, saw) => Fresh(gen, saw)'
    BY <1>8, FreshEvent
  <2> QED
    BY <2>1, <2>2, <2>3, RecordsTyped DEF Freshness, At
<1> QED
  BY <1>1, <1>2, <1>3, <1>4, <1>5, <1>6, <1>7, <1>8 DEF Next, ControlLoop, ObservationThread

\* What is under way or waits in the channel is at least as new as its cycle and,
\* while the generation is its own, as the last invalidation.
THEOREM ResultsAreFresh == Spec => []Freshness
PROOF
<1>1. Init => Freshness
  BY SMT DEF Init, Freshness, At
<1> QED
  BY <1>1, FreshnessStep, TypeCorrect, HandshakeHolds, PTL DEF Spec

\* No snapshot is published that was begun before an invalidation, whatever the
\* hotplugs, panics and threads that take their time, and although the
\* generation is a counter that wraps.
THEOREM NothingStaleIsPublished == Spec => PublishedAfterInvalidation
PROOF
<1> DEFINE New == caps' # caps => caps' >= invalidatedAt
<1>1. TypeOK /\ Freshness /\ [Next]_vars => [New]_vars
  <2> SUFFICES ASSUME TypeOK, Freshness, [Next]_vars, caps' # caps PROVE caps' >= invalidatedAt
    OBVIOUS
  <2>1. Publish
    BY DEF Next, ControlLoop, ObservationThread, BeginChecksActive, BeginSpawns,
           HandleDisplayEvent, FastWindowMoves, TickFallsDue, Observe, Panic, Send,
           DropGuard, Exit, Hotplug, vars
  <2>2. /\ channel # None /\ channel.gen = generation /\ channel.saw # Panicked
        /\ caps' = channel.saw
    BY <2>1 DEF Publish, Publishable
  <2>3. channel.saw \in Topology
    BY <2>2, RecordsTyped
  <2>4. Fresh(generation, channel.saw)
    BY <2>2 DEF Freshness
  <2>5. invalidatedAt <= channel.saw
    BY <2>3, <2>4, FreshIsNew
  <2> QED
    BY <2>2, <2>3, <2>5, SMT DEF TypeOK, Topology
<1>2. Spec => [][New]_vars
  BY <1>1, ResultsAreFresh, TypeCorrect, PTL DEF Spec
<1> QED
  BY <1>2 DEF PublishedAfterInvalidation

\* The scheduled tick of a cycle uses a snapshot taken after its cycle began.
THEOREM TickIsFresh == Spec => TickUsesItsOwnSnapshot
PROOF
<1> DEFINE Own == tickDue /\ ~ tickDue' => caps' # None /\ caps' >= cycleStart
<1>1. TypeOK /\ Freshness /\ [Next]_vars => [Own]_vars
  <2> SUFFICES ASSUME TypeOK, Freshness, [Next]_vars, tickDue, ~ tickDue'
               PROVE  caps' # None /\ caps' >= cycleStart
    OBVIOUS
  <2>1. Publish
    BY DEF Next, ControlLoop, ObservationThread, BeginChecksActive, BeginSpawns,
           HandleDisplayEvent, FastWindowMoves, TickFallsDue, Observe, Panic, Send,
           DropGuard, Exit, Hotplug, events, vars
  <2>2. /\ channel # None /\ channel.saw # Panicked
        /\ caps' = channel.saw
    BY <2>1 DEF Publish, RunsTick, Publishable
  <2>3. channel.saw \in Topology
    BY <2>2, RecordsTyped
  <2>4. cycleStart <= channel.saw
    BY <2>2, <2>3 DEF Freshness, Fresh
  <2> QED
    BY <2>2, <2>3, <2>4, NoneAssumption, SMT DEF TypeOK, Topology
<1>2. Spec => [][Own]_vars
  BY <1>1, ResultsAreFresh, TypeCorrect, PTL DEF Spec
<1> QED
  BY <1>2 DEF TickUsesItsOwnSnapshot
=============================================================================
