--------------------------- MODULE BrightnessCalls ---------------------------
(***************************************************************************)
(* What a brightness call to an external monitor promises to the apply     *)
(* engine, which runs one per monitor and waits for all of them:           *)
(* everything a call does to a display it does before it returns, it is    *)
(* alone on the bus while it does, success is only reported for a display  *)
(* that was written, and every call returns.                               *)
(***************************************************************************)
CONSTANT Target  \* the configured monitors

VARIABLES
    open,     \* the calls under way
    atBus,    \* the calls that may be writing
    written,  \* the calls of this tick whose display was written
    answer    \* how they ended
vars == <<open, atBus, written, answer>>

Answers == {"none", "ok", "failed"}

TypeOK ==
    /\ open \subseteq Target /\ atBus \subseteq open /\ written \subseteq Target
    /\ answer \in [Target -> Answers]

Init ==
    /\ open = {} /\ atBus = {} /\ written = {}
    /\ answer = [t \in Target |-> "none"]

\* A tick hands a value to some monitors, once all calls before have returned.
Call(S) ==
    /\ open = {}
    /\ open' = S
    /\ written' = {}
    /\ answer' = [t \in Target |-> "none"]
    /\ UNCHANGED atBus

Enter(t) ==
    /\ t \in open /\ atBus = {}
    /\ atBus' = {t}
    /\ UNCHANGED <<open, written, answer>>

Write(t) ==
    /\ t \in atBus
    /\ written' = written \cup {t}
    /\ UNCHANGED <<open, atBus, answer>>

Leave(t) ==
    /\ t \in atBus
    /\ atBus' = atBus \ {t}
    /\ UNCHANGED <<open, written, answer>>

Return(t, a) ==
    /\ t \in open
    /\ a = "ok" => t \in written
    /\ open' = open \ {t}
    /\ atBus' = atBus \ {t}
    /\ answer' = [answer EXCEPT ![t] = a]
    /\ UNCHANGED written

Next ==
    \/ \E S \in (SUBSET Target) \ {{}} : Call(S)
    \/ \E t \in Target : Enter(t) \/ Write(t) \/ Leave(t)
    \/ \E t \in Target : \E a \in {"ok", "failed"} : Return(t, a)

Returns == \A t \in Target : t \in open ~> t \notin open

Spec == Init /\ [][Next]_vars /\ Returns
=============================================================================
