------------------------ MODULE SettingsClient_proofs -------------------------
(***************************************************************************)
(* What the terminal interface shows as applied is applied, or the file    *)
(* was taken back behind it, for any number of changes, requests and       *)
(* restarts, any capacity of the channels, and whether or not the two      *)
(* writers of the configuration file overlap; and only a write of limits   *)
(* read before the save takes the file back.  The invariant says what the  *)
(* messages under way may still claim about the save the interface waits   *)
(* for.                                                                    *)
(***************************************************************************)
EXTENDS SettingsClient, SequenceTheorems, TLAPS

Files == [version : Nat, limits : Nat]

Types ==
    /\ form \in [version : Nat, dirty : BOOLEAN, armed : BOOLEAN, quit : BOOLEAN]
    /\ action \in [kind : {"idle", "pending", "success", "warning", "error"},
                   of : {"none", "save"} \cup Asks, id : Nat, version : Nat]
    /\ lastId \in Nat
    /\ file \in Files
    /\ daemon \in [up : {"down", "starting", "up"}, version : Nat, limits : Nat,
                   draft : Seq(Files)]

\* The interface waits for the answer to the save with this id.
Awaited(id) == action.kind = "pending" /\ action.of = "save" /\ action.id = id

\* The daemon has loaded what was saved, or the file has an older version.
Applied == daemon.version >= action.version \/ file.version < action.version

\* The requests that may be under way: none is newer than the last, and what
\* carries the id of the awaited save is that save.
Requests ==
    {r \in [of : {"save"} \cup Asks, id : Nat] :
        r.id <= lastId /\ (Awaited(r.id) => r.of = "save")}

\* The events that may be under way: success for the awaited save means that
\* it was applied.
Reports ==
    {e \in [of : {"succeeded", "failed", "disconnected"}, id : Nat] :
        /\ e.id <= lastId
        /\ Awaited(e.id) /\ e.of = "succeeded" => Applied}

Messages ==
    /\ commands \in Seq(Requests) /\ backlog \in Seq(Requests)
    /\ worker \in Requests \cup {Nothing}
    /\ events \in Seq(Reports)

\* The file holds nothing that the form did not, and the daemon is about to
\* write nothing that the file did not.
Versions ==
    /\ file.version <= form.version
    /\ daemon.draft # <<>> => Head(daemon.draft).version <= file.version
    /\ action.kind = "pending" => action.id <= lastId

\* What is shown as applied was.
Shown == action.kind = "success" /\ action.of = "save" => Applied

Inv == Types /\ Messages /\ Versions /\ Shown

-----------------------------------------------------------------------------
\* What fits of some events into a channel.
LEMMA EmittedType ==
    ASSUME NEW S, NEW queue \in Seq(S), NEW es \in Seq(S)
    PROVE  Emitted(queue, es) \in Seq(S)
<1> DEFINE all == queue \o es
<1>1. all \in Seq(S) /\ EventMax \in Nat \ {0}
  BY ConcatProperties, BoundsAssumption
<1>2. CASE Len(all) > EventMax
  <2>1. \A i \in 1..EventMax : all[i] \in S
    BY <1>1, <1>2, LenProperties, ElementOfSeq
  <2>2. 1 \in Int /\ EventMax \in Int
    BY <1>1
  <2> HIDE DEF all
  <2>3. SubSeq(all, 1, EventMax) \in Seq(S)
    BY <2>1, <2>2, SubSeqProperties
  <2> QED BY <1>2, <2>3 DEF Emitted, all
<1>3. CASE ~ Len(all) > EventMax
  BY <1>1, <1>3 DEF Emitted
<1> QED BY <1>2, <1>3

\* Messages stay what they are while the interface waits for nothing else and
\* what was applied is not undone.
LEMMA MessagesStay ==
    ASSUME Types, Types', lastId <= lastId',
           \A id \in 0..lastId : Awaited(id)' => Awaited(id) /\ (Applied => Applied')
    PROVE  /\ Requests \subseteq Requests' /\ Reports \subseteq Reports'
           /\ \A q \in Seq(Requests) : q \in Seq(Requests')
           /\ \A q \in Seq(Reports) : q \in Seq(Reports')
<1>1. Requests \subseteq Requests'
  BY DEF Requests, Types
<1>2. Reports \subseteq Reports'
  BY DEF Reports, Types
<1> QED BY <1>1, <1>2, SeqMonotonic

\* A channel after its head was taken.
LEMMA TailType ==
    ASSUME NEW S, NEW q \in Seq(S), q # <<>>
    PROVE  Head(q) \in S /\ Tail(q) \in Seq(S)
BY HeadTailProperties

\* What is emitted when a request is lost, or fails.
LEMMA FailureIsHarmless ==
    ASSUME Types, NEW r \in Requests
    PROVE  /\ Outcome(r, "failed") \in Seq(Reports)
           /\ Unlinked \in Seq(Reports)
           /\ Unlinked \o Outcome(r, "failed") \in Seq(Reports)
<1>1. [of |-> "failed", id |-> r.id] \in Reports /\ [of |-> "disconnected", id |-> 0] \in Reports
  BY DEF Requests, Reports, Types
<1>2. Outcome(r, "failed") \in Seq(Reports)
  BY <1>1 DEF Outcome
<1>3. Unlinked \in Seq(Reports)
  BY <1>1 DEF Unlinked
<1> QED BY <1>2, <1>3, ConcatProperties

LEMMA InitInv == Init => Inv
<1> SUFFICES ASSUME Init PROVE Inv
  OBVIOUS
<1>1. Types
  BY EmptySeq DEF Init, Types, Files, NoAction
<1>2. Messages
  BY EmptySeq DEF Init, Messages
<1>3. Versions /\ Shown
  BY DEF Init, Versions, Shown, NoAction
<1> QED BY <1>1, <1>2, <1>3 DEF Inv

-----------------------------------------------------------------------------
(* The interface.                                                          *)

\* The interface waits for nothing else: what is under way may stay.
LEMMA InterfaceStep ==
    ASSUME Inv, Types', UNCHANGED <<lastId, commands, worker, backlog, file, daemon>>,
           events' \in Seq(Reports), Shown',
           form'.version >= form.version,
           action'.kind = "pending" => action' = action
    PROVE  Inv'
<1>1. Messages'
  BY MessagesStay DEF Inv, Messages, Types, Awaited, Applied, Nothing
<1>2. daemon' = daemon /\ file' = file /\ lastId' = lastId
  OBVIOUS
<1>3. {file.version, form.version, form'.version} \subseteq Nat
  BY DEF Inv, Types, Files
<1>4. Versions'
  BY <1>2, <1>3 DEF Inv, Versions
<1> QED BY <1>1, <1>4 DEF Inv

LEMMA EditInv == ASSUME Inv, Edit PROVE Inv'
<1>1. /\ form.version \in Nat /\ form'.version = form.version + 1
      /\ form' \in [version : Nat, dirty : BOOLEAN, armed : BOOLEAN, quit : BOOLEAN]
  <2> DEFINE v == form.version + 1
  <2>1. form \in [version : Nat, dirty : BOOLEAN, armed : BOOLEAN, quit : BOOLEAN]
    BY DEF Inv, Types
  <2>2. v \in Nat /\ form' = [form EXCEPT !.version = v, !.dirty = TRUE, !.armed = TRUE]
    BY <2>1 DEF Edit
  <2> HIDE DEF v
  <2> QED BY <2>1, <2>2 DEF v
<1>2. Types'
  BY <1>1 DEF Edit, Inv, Types, thread
<1> QED BY <1>1, <1>2, InterfaceStep DEF Edit, Inv, Types, Messages, Shown, Applied, thread

LEMMA ExpireInv == ASSUME Inv, Expire PROVE Inv'
<1>1. Types'
  BY DEF Expire, Inv, Types, thread, NoAction, Failed, Ended
<1>2. action'.kind \notin {"pending", "success"}
  BY DEF Expire, Inv, Types, NoAction, Failed, Ended
<1> QED
  BY <1>1, <1>2, InterfaceStep DEF Expire, Inv, Types, Messages, Shown, Applied, thread

\* An answer is taken for the awaited save only when it carries its id, and
\* then says so of the daemon.
LEMMA HandleEventInv == ASSUME Inv, HandleEvent PROVE Inv'
<1> DEFINE e == Head(events)
<1>1. e \in Reports /\ events' \in Seq(Reports)
  BY TailType DEF HandleEvent, Inv, Messages
<1>2. \/ action' = action
      \/ action' = Failed(action)
      \/ e.of = "succeeded" /\ AnswersTheLast(e) /\ action' = Ended(action, "success")
  BY DEF HandleEvent
<1>3. Types'
  BY <1>2 DEF HandleEvent, Inv, Types, Failed, Ended
<1>4. Shown'
  BY <1>1, <1>2 DEF HandleEvent, Inv, Types, Shown, Applied, Failed, Ended, Reports, Awaited,
     AnswersTheLast
<1>5. action'.kind = "pending" => action' = action
  BY <1>2 DEF Inv, Types, Failed, Ended, AnswersTheLast
<1> QED BY <1>1, <1>3, <1>4, <1>5, InterfaceStep DEF HandleEvent, Inv, Types

\* A command with a new id: nothing under way carries it.
LEMMA SendInv ==
    ASSUME Inv, NEW of \in {"save"} \cup Asks, Send(of), UNCHANGED <<thread, backlog, daemon>>,
           form' \in [version : Nat, dirty : BOOLEAN, armed : BOOLEAN, quit : BOOLEAN],
           form'.version = form.version, file' \in Files,
           file'.version >= file.version, file'.version <= form.version,
           of # "save" => file' = file
    PROVE  Inv'
<1>1. CASE Suppressed(of)
  <2>1. UNCHANGED <<lastId, commands, action>> /\ of # "save"
    BY <1>1 DEF Send, Suppressed
  <2>2. Types'
    BY <2>1 DEF Inv, Types
  <2>3. Messages'
    BY <2>1, <2>2, MessagesStay DEF Inv, Messages, Types, Awaited, Applied, thread, Nothing
  <2> QED BY <2>1, <2>2, <2>3 DEF Inv, Versions, Shown, Applied, Types, Files
<1>2. CASE ~ Suppressed(of)
  <2> DEFINE r == [of |-> of, id |-> lastId + 1]
  <2>1. /\ lastId' = lastId + 1
        /\ commands' \in {commands, Append(commands, r)}
        /\ action' = [kind |-> "pending", of |-> of, id |-> lastId + 1, version |-> form.version]
    BY <1>2 DEF Send
  <2>2. Types'
    BY <2>1 DEF Inv, Types
  <2>3. lastId \in Nat /\ \A id \in 0..lastId : ~ Awaited(id)'
    BY <2>1 DEF Inv, Types, Awaited
  <2>4. r \in Requests'
    BY <2>1, <2>3 DEF Requests, Awaited
  <2>5. /\ Requests \subseteq Requests'
        /\ \A q \in Seq(Requests) : q \in Seq(Requests')
        /\ \A q \in Seq(Reports) : q \in Seq(Reports')
    BY <2>1, <2>2, <2>3, MessagesStay DEF Inv, Types
  <2> HIDE DEF r
  <2>6. /\ commands \in Seq(Requests') /\ backlog' \in Seq(Requests')
        /\ events' \in Seq(Reports') /\ worker' \in Requests' \cup {Nothing}
    BY <2>5 DEF Inv, Messages, thread, Nothing
  <2>7. commands' \in Seq(Requests')
    <3>1. commands' = commands \/ commands' = Append(commands, r)
      BY <2>1
    <3>2. Append(commands, r) \in Seq(Requests')
      BY <2>4, <2>6, AppendProperties
    <3> QED BY <2>6, <3>1, <3>2
  <2>8. Messages'
    BY <2>6, <2>7 DEF Messages, Nothing
  <2>9. Versions'
    <3>1. /\ daemon' = daemon /\ form'.version = form.version
          /\ {file.version, file'.version, form.version} \subseteq Nat
      BY DEF Inv, Types, Files
    <3>2. daemon.draft # <<>> => Head(daemon.draft).version \in Nat
      <4>1. daemon.draft \in Seq(Files)
        BY DEF Inv, Types
      <4>2. daemon.draft # <<>> => Head(daemon.draft) \in Files
        BY <4>1, TailType
      <4> QED BY <4>2 DEF Files
    <3>3. file.version <= file'.version
      BY <3>1
    <3>4. daemon'.draft # <<>> => Head(daemon'.draft).version <= file'.version
      BY <3>1, <3>2, <3>3 DEF Inv, Versions
    <3>5. action'.id <= lastId'
      BY <2>1, <2>3
    <3> QED BY <3>1, <3>4, <3>5 DEF Versions
  <2> QED BY <2>1, <2>2, <2>8, <2>9 DEF Inv, Shown
<1> QED BY <1>1, <1>2

LEMMA WrittenInv ==
    ASSUME Inv, NEW quit \in BOOLEAN, Written(quit),
           UNCHANGED <<thread, backlog, daemon>>
    PROVE  Inv'
<1>1. /\ form \in [version : Nat, dirty : BOOLEAN, armed : BOOLEAN, quit : BOOLEAN]
      /\ form' = [form EXCEPT !.dirty = FALSE, !.armed = FALSE, !.quit = quit]
      /\ file' = [version |-> form.version, limits |-> 0]
      /\ Send("save")
  BY DEF Written, Inv, Types
<1>2. /\ form' \in [version : Nat, dirty : BOOLEAN, armed : BOOLEAN, quit : BOOLEAN]
      /\ form'.version = form.version
  BY <1>1
<1>3. /\ file' \in Files /\ file'.version = form.version
      /\ file'.version >= file.version /\ file'.version <= form.version
  BY <1>1 DEF Inv, Versions, Types, Files
<1> QED BY <1>1, <1>2, <1>3, SendInv

LEMMA NotWrittenInv ==
    ASSUME Inv, NotWritten, UNCHANGED <<thread, backlog, daemon>>
    PROVE  Inv'
<1>1. /\ form \in [version : Nat, dirty : BOOLEAN, armed : BOOLEAN, quit : BOOLEAN]
      /\ form' = [form EXCEPT !.dirty = TRUE, !.armed = FALSE]
      /\ action' = [kind |-> "error", of |-> "save", id |-> 0, version |-> 0]
      /\ UNCHANGED <<lastId, commands, file>>
  BY DEF NotWritten, NoAction, Inv, Types
<1>2. /\ form' \in [version : Nat, dirty : BOOLEAN, armed : BOOLEAN, quit : BOOLEAN]
      /\ form'.version = form.version /\ form.version \in Nat
  BY <1>1
<1>3. Types'
  BY <1>1, <1>2 DEF Inv, Types
<1> QED BY <1>1, <1>2, <1>3, InterfaceStep DEF Inv, Types, Messages, Shown, Applied, thread

LEMMA SaveInv == ASSUME Inv, Save PROVE Inv'
BY WrittenInv, NotWrittenInv DEF Save

LEMMA QuitInv == ASSUME Inv, Quit PROVE Inv'
<1>1. CASE form.dirty
  BY <1>1, WrittenInv, NotWrittenInv DEF Quit
<1>2. CASE ~ form.dirty
  <2>1. /\ form \in [version : Nat, dirty : BOOLEAN, armed : BOOLEAN, quit : BOOLEAN]
        /\ form' = [form EXCEPT !.quit = TRUE]
        /\ UNCHANGED <<action, lastId, commands, file, thread, backlog, daemon>>
    BY <1>2 DEF Quit, Inv, Types
  <2>2. /\ form' \in [version : Nat, dirty : BOOLEAN, armed : BOOLEAN, quit : BOOLEAN]
        /\ form'.version = form.version /\ form.version \in Nat
    BY <2>1
  <2>3. Types'
    BY <2>1, <2>2 DEF Inv, Types
  <2> QED BY <2>1, <2>2, <2>3, InterfaceStep DEF Inv, Types, Messages, Shown, Applied, thread
<1> QED BY <1>1, <1>2

LEMMA AskInv == ASSUME Inv, Ask PROVE Inv'
<1>1. PICK of \in Asks : Send(of) \/ Refused(of)
  BY DEF Ask
<1>2. /\ UNCHANGED <<form, thread, backlog, file, daemon>> /\ of # "save"
      /\ file.version <= form.version /\ file.version \in Nat /\ form.version \in Nat
  BY DEF Ask, Asks, Inv, Versions, Types, Files
<1>3. CASE Send(of)
  <2>1. /\ of \in {"save"} \cup Asks /\ form' \in [version : Nat, dirty : BOOLEAN, armed : BOOLEAN,
                                              quit : BOOLEAN]
        /\ file' \in Files /\ file' = file /\ form' = form
        /\ UNCHANGED <<thread, backlog, daemon>>
    BY <1>2 DEF Inv, Types
  <2>2. file'.version >= file.version /\ file'.version <= form.version
    BY <1>2, <2>1
  <2> QED BY <1>2, <1>3, <2>1, <2>2, SendInv
<1>4. CASE Refused(of)
  <2>1. /\ action' = [kind |-> "error", of |-> of, id |-> 0, version |-> 0]
        /\ UNCHANGED <<lastId, commands>>
    BY <1>4 DEF Refused, NoAction
  <2>2. Types'
    BY <1>2, <2>1 DEF Inv, Types
  <2> QED BY <1>2, <2>1, <2>2, InterfaceStep DEF Inv, Types, Messages, Shown, thread
<1> QED BY <1>1, <1>3, <1>4

-----------------------------------------------------------------------------
(* The worker and the daemon.                                              *)

\* A daemon that loads the file has what was saved, unless the file has not;
\* and a file that goes back takes nothing from that.
LEMMA AppliedStays ==
    ASSUME Types, action' = action, file' \in Files, daemon'.version \in Nat,
           file'.version <= file.version, daemon'.version \in {daemon.version, file'.version}
    PROVE  Applied => Applied'
BY DEF Types, Files, Applied

\* So the events that were under way may stay.
LEMMA ReportsStay ==
    ASSUME Types, Types', UNCHANGED interface, file' \in Files, file'.version <= file.version,
           daemon'.version \in {daemon.version, file'.version}
    PROVE  \A q \in Seq(Reports) : q \in Seq(Reports')
<1>1. action' = action /\ lastId' = lastId /\ daemon'.version \in Nat /\ lastId \in Nat
  BY DEF interface, Types
<1>2. Applied => Applied'
  BY <1>1, AppliedStays
<1> QED BY <1>1, <1>2, MessagesStay DEF Awaited

\* A step that leaves the interface alone and hands its messages on.
LEMMA OtherSide ==
    ASSUME Inv, UNCHANGED interface, form' = form, file' \in Files,
           file'.version <= file.version,
           commands' \in Seq(Requests), backlog' \in Seq(Requests),
           worker' \in Requests \cup {Nothing}, events' \in Seq(Reports'),
           daemon' \in [up : {"down", "starting", "up"}, version : Nat, limits : Nat,
                        draft : Seq(Files)],
           daemon'.version \in {daemon.version, file'.version},
           daemon'.draft # <<>> => Head(daemon'.draft).version <= file'.version
    PROVE  Inv'
<1>1. /\ form' = form /\ action' = action /\ lastId' = lastId
      /\ {file.version, file'.version, form.version, daemon'.version} \subseteq Nat
  BY DEF interface, Inv, Types, Files
<1>2. Types'
  BY <1>1 DEF Inv, Types
<1>3. Requests \subseteq Requests' /\ \A q \in Seq(Requests) : q \in Seq(Requests')
  <2>1. Applied => Applied'
    BY <1>1, AppliedStays DEF Inv
  <2> QED BY <1>1, <1>2, <2>1, MessagesStay DEF Inv, Types, Awaited
<1>4. Messages'
  BY <1>3 DEF Messages, Nothing
<1>5. Versions'
  BY <1>1 DEF Inv, Versions
<1>6. Shown'
  BY <1>1, AppliedStays DEF Inv, Shown
<1> QED BY <1>2, <1>4, <1>5, <1>6 DEF Inv

\* The same when the daemon's version and draft, and the file, stay.
LEMMA QuietStep ==
    ASSUME Inv, UNCHANGED <<interface, file>>,
           commands' \in Seq(Requests), backlog' \in Seq(Requests),
           worker' \in Requests \cup {Nothing}, events' \in Seq(Reports),
           daemon' \in [up : {"down", "starting", "up"}, version : Nat, limits : Nat,
                        draft : Seq(Files)],
           daemon'.version = daemon.version, daemon'.draft = daemon.draft
    PROVE  Inv'
<1>1. form' = form /\ action' = action /\ lastId' = lastId /\ file' = file
  BY DEF interface
<1>2. file \in Files /\ file'.version = file.version /\ daemon.version \in Nat
  BY <1>1 DEF Inv, Types
<1>3. Types'
  BY <1>1 DEF Inv, Types
<1>4. events' \in Seq(Reports')
  <2>1. file' \in Files /\ file'.version <= file.version
    BY <1>1, <1>2 DEF Files
  <2> QED BY <1>2, <1>3, <2>1, ReportsStay DEF Inv
<1>5. daemon'.draft # <<>> => Head(daemon'.draft).version <= file'.version
  BY <1>1 DEF Inv, Versions
<1> QED BY <1>1, <1>2, <1>4, <1>5, OtherSide DEF interface, Files

\* A request that is lost leaves a failure behind.
LEMMA LostInv ==
    ASSUME Inv, NEW request \in Requests, Lost(request)
    PROVE  worker' \in Requests \cup {Nothing} /\ events' \in Seq(Reports)
<1>1. Unlinked \o Outcome(request, "failed") \in Seq(Reports)
  BY FailureIsHarmless DEF Inv
<1>2. events \in Seq(Reports)
  BY DEF Inv, Messages
<1> QED BY <1>1, <1>2, EmittedType DEF Lost

LEMMA TakeCommandInv == ASSUME Inv, TakeCommand PROVE Inv'
<1> DEFINE r == Head(commands)
<1>1. r \in Requests /\ commands' \in Seq(Requests)
  BY TailType DEF TakeCommand, Inv, Messages
<1>2. Deliver(r) /\ UNCHANGED <<interface, file, daemon>>
  BY DEF TakeCommand
<1> HIDE DEF r
<1>3. /\ backlog' \in Seq(Requests) /\ worker' \in Requests \cup {Nothing}
      /\ events' \in Seq(Reports)
  <2>1. CASE daemon.up = "up"
    <3>1. Append(backlog, r) \in Seq(Requests)
      BY <1>1, AppendProperties DEF Inv, Messages
    <3> QED BY <1>1, <1>2, <2>1, <3>1 DEF Deliver, Inv, Messages
  <2>2. CASE daemon.up # "up"
    BY <1>1, <1>2, <2>2, LostInv DEF Deliver, Inv, Messages
  <2> QED BY <2>1, <2>2
<1> QED BY <1>1, <1>2, <1>3, QuietStep DEF Inv, Types

LEMMA PollInv == ASSUME Inv, Poll PROVE Inv'
<1>1. [of |-> "disconnected", id |-> 0] \in Reports
  BY DEF Reports, Inv, Types, Awaited
<1>2. Unlinked \in Seq(Reports)
  BY <1>1 DEF Unlinked
<1>3. events' \in Seq(Reports)
  BY <1>2, EmittedType DEF Poll, Inv, Messages
<1> QED BY <1>3, QuietStep DEF Poll, Inv, Messages, Types, Free

LEMMA GiveUpInv == ASSUME Inv, GiveUp PROVE Inv'
<1>1. worker \in Requests
  BY DEF GiveUp, Inv, Messages
<1>2. worker' \in Requests \cup {Nothing} /\ events' \in Seq(Reports)
  BY <1>1, LostInv DEF GiveUp
<1> QED BY <1>2, QuietStep DEF GiveUp, Inv, Messages, Types

\* An answer to the request at the head of the backlog.
LEMMA AnswerInv ==
    ASSUME Inv, Types', backlog # <<>>, NEW of \in {"succeeded", "failed"},
           Answer(Head(backlog), of), UNCHANGED interface,
           file' = file, daemon'.version \in {daemon.version, file.version},
           of = "succeeded" /\ Head(backlog).of = "save" => daemon'.version = file.version
    PROVE  /\ backlog' \in Seq(Requests) /\ worker' \in Requests \cup {Nothing}
           /\ events' \in Seq(Reports')
<1> DEFINE r == Head(backlog)
           e == [of |-> of, id |-> r.id]
<1>1. r \in Requests /\ backlog' \in Seq(Requests)
  BY TailType DEF Answer, Inv, Messages
<1>2. e \in Reports'
  <2>1. action' = action /\ lastId' = lastId
    BY DEF interface
  <2>2. r.id <= lastId' /\ r.id \in Nat /\ (Awaited(r.id) => r.of = "save")
    BY <1>1, <2>1 DEF Requests
  <2>3. Awaited(r.id) /\ of = "succeeded" => Applied'
    <3>1. {file.version, action.version} \subseteq Nat
      BY DEF Inv, Types, Files
    <3> QED BY <2>1, <2>2, <3>1 DEF Applied
  <2> QED BY <2>1, <2>2, <2>3 DEF Reports, Awaited
<1>3. \A q \in Seq(Reports) : q \in Seq(Reports')
  <2>1. file' \in Files /\ file'.version <= file.version
    BY DEF Inv, Types, Files
  <2> QED BY <2>1, ReportsStay DEF Inv
<1>4. events \in Seq(Reports')
  BY <1>3 DEF Inv, Messages
<1>5. Outcome(r, of) = <<e>> /\ Outcome(r, of) \in Seq(Reports')
  BY <1>2 DEF Outcome
<1> HIDE DEF r, e
<1>6. Emitted(events, Outcome(r, of)) \in Seq(Reports')
  BY <1>4, <1>5, EmittedType
<1>7. events' \in Seq(Reports') /\ worker' \in Requests \cup {Nothing}
  BY <1>4, <1>6 DEF Answer, Inv, Messages, thread, r
<1> QED BY <1>1, <1>7

Daemons == [up : {"down", "starting", "up"}, version : Nat, limits : Nat, draft : Seq(Files)]

\* Loading the file brings the daemon to its version.
LEMMA ReloadInv == ASSUME Inv, Reload PROVE Inv'
<1>1. /\ backlog # <<>> /\ UNCHANGED <<interface, commands, file>>
      /\ daemon \in Daemons /\ daemon.draft = <<>> /\ file \in Files /\ file.version \in Nat
  BY DEF Reload, Ready, Inv, Types, Files, Daemons
<1>2. PICK of \in {"succeeded", "failed"} :
        /\ Answer(Head(backlog), of)
        /\ \/ daemon' = [daemon EXCEPT !.version = file.version, !.limits = file.limits]
           \/ daemon' = daemon /\ of = "failed"
  BY DEF Reload
<1>3. /\ daemon' \in Daemons /\ daemon'.draft = <<>>
      /\ daemon'.version \in {daemon.version, file.version}
      /\ of = "succeeded" => daemon'.version = file.version
  <2>1. CASE daemon' = [daemon EXCEPT !.version = file.version, !.limits = file.limits]
    <3>1. file.version \in Nat /\ file.limits \in Nat
      BY <1>1 DEF Files
    <3>2. /\ daemon' \in Daemons /\ daemon'.version = file.version
          /\ daemon'.draft = daemon.draft
      BY <1>1, <2>1, <3>1 DEF Daemons
    <3> QED BY <1>1, <3>1, <3>2
  <2>2. CASE daemon' = daemon /\ of = "failed"
    BY <1>1, <2>2
  <2> QED BY <1>2, <2>1, <2>2
<1>4. Types'
  BY <1>1, <1>3 DEF Inv, Types, Daemons, interface
<1>5. /\ backlog' \in Seq(Requests) /\ worker' \in Requests \cup {Nothing}
      /\ events' \in Seq(Reports')
  BY <1>1, <1>2, <1>3, <1>4, AnswerInv
<1> QED BY <1>1, <1>3, <1>5, OtherSide DEF Inv, Messages, Daemons, interface

\* Any other request answers nothing that a save could wait for.
LEMMA ServeInv == ASSUME Inv, Serve PROVE Inv'
<1>1. /\ backlog # <<>> /\ Head(backlog).of # "save"
      /\ UNCHANGED <<interface, commands, file, daemon>>
      /\ daemon \in Daemons /\ daemon.version \in Nat /\ file \in Files /\ file.version \in Nat
  BY DEF Serve, Inv, Types, Files, Daemons
<1>2. PICK of \in {"succeeded", "failed"} : Answer(Head(backlog), of)
  BY DEF Serve
<1>3. Types'
  BY <1>1 DEF Inv, Types, interface
<1>4. /\ backlog' \in Seq(Requests) /\ worker' \in Requests \cup {Nothing}
      /\ events' \in Seq(Reports')
  BY <1>1, <1>2, <1>3, AnswerInv
<1> QED BY <1>1, <1>4, OtherSide DEF Inv, Messages, Versions, Daemons, interface

LEMMA SetLimitsInv == ASSUME Inv, SetLimits PROVE Inv'
<1>1. /\ UNCHANGED <<interface, commands, thread, backlog, file>>
      /\ daemon \in Daemons /\ file \in Files /\ file.version \in Nat
      /\ daemon' = [daemon EXCEPT !.limits = @ + 1, !.draft = <<file>>]
  BY DEF SetLimits, Inv, Types, Files, Daemons
<1>2. /\ daemon' \in Daemons /\ daemon'.version = daemon.version /\ daemon.version \in Nat
      /\ Head(daemon'.draft) = file
  <2> DEFINE n == daemon.limits + 1
             d == <<file>>
  <2>1. n \in Nat /\ d \in Seq(Files) /\ Head(d) = file
    BY <1>1 DEF Daemons
  <2>2. daemon' = [daemon EXCEPT !.limits = n, !.draft = d]
    BY <1>1 DEF Daemons
  <2> HIDE DEF n, d
  <2> QED BY <1>1, <2>1, <2>2 DEF Daemons
<1>3. Types'
  BY <1>1, <1>2 DEF Inv, Types, Daemons, interface
<1>4. events' \in Seq(Reports')
  BY <1>1, <1>2, <1>3, ReportsStay DEF Inv, Messages, thread
<1> QED BY <1>1, <1>2, <1>4, OtherSide DEF Inv, Messages, Daemons, interface, thread

\* The draft is of the file's version, or of an older one if the interface has
\* saved in between.
LEMMA WriteLimitsInv == ASSUME Inv, WriteLimits PROVE Inv'
<1>1. /\ UNCHANGED <<interface, commands, thread, backlog>>
      /\ daemon \in Daemons /\ file \in Files /\ file.version \in Nat
      /\ daemon.draft # <<>> /\ Head(daemon.draft).version <= file.version
      /\ file' \in {file, [Head(daemon.draft) EXCEPT !.limits = daemon.limits]}
      /\ daemon' = [daemon EXCEPT !.draft = <<>>]
  BY DEF WriteLimits, Inv, Types, Versions, Files, Daemons
<1>2. Head(daemon.draft) \in Files /\ daemon.limits \in Nat
  BY <1>1, TailType DEF Daemons
<1>3. file' \in Files /\ file'.version <= file.version
  BY <1>1, <1>2 DEF Files
<1>4. /\ daemon' \in Daemons /\ daemon'.version = daemon.version /\ daemon.version \in Nat
      /\ daemon'.draft = <<>>
  BY <1>1, EmptySeq DEF Daemons
<1>5. Types'
  BY <1>1, <1>3, <1>4 DEF Inv, Types, Daemons, interface
<1>6. events' \in Seq(Reports')
  BY <1>1, <1>3, <1>4, <1>5, ReportsStay DEF Inv, Messages, thread
<1> QED BY <1>1, <1>3, <1>4, <1>6, OtherSide DEF Inv, Messages, Daemons, interface, thread

LEMMA StopInv == ASSUME Inv, Stop PROVE Inv'
<1>1. /\ UNCHANGED <<interface, commands, file>> /\ backlog' = <<>>
      /\ daemon \in Daemons /\ daemon' = [daemon EXCEPT !.up = "down"]
      /\ (worker # Nothing /\ Lost(worker)) \/ UNCHANGED thread
  BY DEF Stop, Inv, Types, Daemons
<1>2. daemon' \in Daemons /\ daemon'.version = daemon.version /\ daemon'.draft = daemon.draft
  BY <1>1 DEF Daemons
<1>3. worker' \in Requests \cup {Nothing} /\ events' \in Seq(Reports)
  BY <1>1, LostInv DEF Inv, Messages, thread
<1>4. backlog' \in Seq(Requests) /\ commands' \in Seq(Requests)
  BY <1>1, EmptySeq DEF Inv, Messages
<1> QED BY <1>1, <1>2, <1>3, <1>4, QuietStep DEF Daemons

LEMMA BootInv == ASSUME Inv, Boot PROVE Inv'
<1>1. /\ UNCHANGED <<interface, commands, thread, backlog, file>>
      /\ daemon \in Daemons /\ file \in Files
      /\ daemon' = [daemon EXCEPT !.up = "starting", !.version = file.version,
                                 !.limits = file.limits]
  BY DEF Boot, Inv, Types, Daemons
<1>2. /\ daemon' \in Daemons /\ daemon'.version = file.version /\ file.version \in Nat
      /\ daemon'.draft = daemon.draft
  BY <1>1 DEF Daemons, Files
<1>3. Types'
  BY <1>1, <1>2 DEF Inv, Types, Daemons, interface
<1>4. events' \in Seq(Reports')
  BY <1>1, <1>2, <1>3, ReportsStay DEF Inv, Messages, thread
<1>5. daemon'.draft # <<>> => Head(daemon'.draft).version <= file'.version
  BY <1>1, <1>2 DEF Inv, Versions
<1> QED BY <1>1, <1>2, <1>4, <1>5, OtherSide DEF Inv, Messages, Daemons, interface, thread

LEMMA BindInv == ASSUME Inv, Bind PROVE Inv'
<1>1. /\ UNCHANGED <<interface, commands, thread, backlog, file>>
      /\ daemon \in Daemons /\ daemon' = [daemon EXCEPT !.up = "up"]
  BY DEF Bind, Inv, Types, Daemons
<1>2. daemon' \in Daemons /\ daemon'.version = daemon.version /\ daemon'.draft = daemon.draft
  BY <1>1 DEF Daemons
<1> QED BY <1>1, <1>2, QuietStep DEF Inv, Messages, Daemons, thread

-----------------------------------------------------------------------------
LEMMA NextInv == Inv /\ [Next]_vars => Inv'
<1> SUFFICES ASSUME Inv, [Next]_vars PROVE Inv'
  OBVIOUS
<1>1. CASE UNCHANGED vars
  <2>1. UNCHANGED <<interface, file>> /\ UNCHANGED <<commands, thread, backlog, daemon>>
    BY <1>1 DEF vars, interface, thread
  <2> QED BY <2>1, QuietStep DEF Inv, Types, Messages, thread
<1>2. CASE DebouncedSave
  BY <1>2, SaveInv DEF DebouncedSave
<1> QED
  BY <1>1, <1>2, EditInv, SaveInv, QuitInv, AskInv, ExpireInv, HandleEventInv, TakeCommandInv,
     PollInv, GiveUpInv, ReloadInv, ServeInv, SetLimitsInv, WriteLimitsInv, StopInv, BootInv,
     BindInv DEF Next

\* "Settings saved and applied" (tui/update/ipc.rs:147): whatever is lost,
\* late, answered twice or restarted, the daemon has loaded the version that
\* was saved, or a later one, or the file no longer has that version.
THEOREM SavedUnlessTakenBack == Spec => [](SavedAndApplied \/ file.version < action.version)
<1>1. Inv => (SavedAndApplied \/ file.version < action.version)
  BY DEF Inv, Shown, Applied, SavedAndApplied
<1>2. Inv /\ [Next]_vars => Inv'
  BY NextInv
<1> QED BY <1>1, <1>2, InitInv, PTL DEF Spec

\* The file loses a saved version in one way only: the daemon writes monitor
\* limits into the file as it had read it, and the interface saved in between
\* (runtime/ipc.rs:424-433).
THEOREM OnlyLimitsTakeTheFileBack ==
    Spec => [][file'.version < file.version =>
                 WriteLimits /\ Head(daemon.draft).version < file.version]_vars
<1> DEFINE Back == file'.version < file.version =>
                     WriteLimits /\ Head(daemon.draft).version < file.version
<1>1. Inv /\ [Next]_vars => [Back]_vars
  <2> SUFFICES ASSUME Inv, Next, file'.version < file.version
               PROVE  WriteLimits /\ Head(daemon.draft).version < file.version
    OBVIOUS
  <2>1. file.version \in Nat /\ file.version <= form.version /\ form.version \in Nat
    BY DEF Inv, Types, Versions, Files
  <2>2. \A quit : ~ Written(quit)
    BY <2>1 DEF Written
  <2>3. file' # file
    BY <2>1
  <2>4. WriteLimits
    BY <2>2, <2>3 DEF Next, Edit, Save, DebouncedSave, Quit, NotWritten, Ask, Expire, HandleEvent,
       TakeCommand, Poll, GiveUp, Reload, Serve, SetLimits, Stop, Boot, Bind
  <2>5. daemon.draft # <<>> /\ Head(daemon.draft) \in Files
    BY <2>4, TailType DEF WriteLimits, Inv, Types
  <2>6. file'.version = Head(daemon.draft).version
    BY <2>3, <2>4, <2>5 DEF WriteLimits, Files
  <2> QED BY <2>4, <2>6
<1>2. Inv /\ [Next]_vars => Inv'
  BY NextInv
<1> QED BY <1>1, <1>2, InitInv, PTL DEF Spec
=============================================================================
