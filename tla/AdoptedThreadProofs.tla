------------------------- MODULE AdoptedThreadProofs -------------------------
(* Proofs about the conversations the daemon picks up, for any number of     *)
(* racing pick-ups, commands and turns.                                      *)
EXTENDS AdoptedThread, TLAPS

\* The stages of a pick-up that the registry names, and those in which it still has to end
\* the row.
Serving == Running \cup {"cutting", "letgo"}
Bound == Running \cup Ending

PickupRecord == [stage : Stages, turn : Turns \cup {None}, approvals : SUBSET Turns,
                 deferred : {"no", "grace", "late"}, suspect : BOOLEAN, command : Kinds \cup {None}]

\* Only a running turn asks for an approval.
Events == [kind : {"started", "ended", "closed"}, turn : Turns \cup {None}]
          \cup [kind : {"approval"}, turn : Turns]
ServerRecord == [state : {"none", "alive", "dead"}, turn : Turns \cup {None},
                 ask : {"none", "waiting", "answered"}, events : Seq(Events)]

Types ==
  /\ registry \in Pickups \cup {None}
  /\ session \in [topology : {"none", "adopted", "attached"}, sender : Pickups \cup {None}]
  /\ pickup \in [Pickups -> PickupRecord]
  /\ server \in [Pickups -> ServerRecord]
  /\ release \in [Pickups -> Seq(Reasons)]
  /\ \A a \in Pickups : Len(release[a]) <= ReleaseSlots
  /\ queue \in [Pickups -> Seq(Kinds)]
  /\ left \in Seq(Kinds) /\ terminal \in BOOLEAN /\ turns \in 0..MaxTurns

\* An adopted row is its sender's to end, or the failed one's; a sender that was refused was so
\* because another pick-up had the conversation, and that one has still to end the row.
RowInv ==
  session.topology = "adopted" =>
    /\ session.sender \in Pickups
    /\ \/ pickup[session.sender].stage \in {"registered", "failed"} \cup Bound
       \/ \E a \in Pickups : pickup[a].stage \in Bound

AInv == Types /\ OneAdopter /\ RowInv

\* An app-server that was not started, or is gone.
LEMMA NoServerType == NoServer \in ServerRecord /\ Dead \in ServerRecord
<1>1. <<>> \in Seq(Events)
  OBVIOUS
<1> QED
  BY <1>1, Zenon DEF Dead, NoServer, ServerRecord

\* The initial state.
LEMMA AdoptedInit == Init => AInv
<1> SUFFICES ASSUME Init PROVE AInv
  OBVIOUS
<1>1. PICK plan \in Plans : /\ pickup = [a \in Pickups |-> IF a \in plan.pickups THEN Fresh ELSE Uncalled]
                            /\ left = plan.commands
  BY DEF Init
<1>2. Fresh \in PickupRecord /\ Uncalled \in PickupRecord
  BY Zenon DEF Fresh, Uncalled, Stages, PickupRecord
<1>3. Types
  <2>1. <<>> \in Seq(Reasons) /\ <<>> \in Seq(Kinds) /\ Len(<<>>) = 0
    OBVIOUS
  <2>2. left \in Seq(Kinds) /\ 0 \in 0..MaxTurns /\ 0 <= ReleaseSlots
    BY <1>1, AdoptedThreadAssumption
  <2>3. release = [a \in Pickups |-> <<>>] /\ \A a \in Pickups : Len(release[a]) <= ReleaseSlots
    BY <2>1, <2>2 DEF Init
  <2> QED
    BY <1>1, <1>2, <2>1, <2>2, <2>3, NoServerType, Zenon DEF Init, Types
<1>4. OneAdopter /\ RowInv
  BY <1>1, AdoptedThreadAssumption
  DEF Init, OneAdopter, RowInv, Fresh, Uncalled, Running
<1> QED
  BY <1>3, <1>4 DEF AInv

\* Where the top of the loop leads: on, or to the release.
LEMMA LoopGoesOn ==
  ASSUME NEW p \in PickupRecord
  PROVE  /\ Iterate(p) \in PickupRecord /\ Iterate(p).stage \in Serving
         /\ \A cut \in BOOLEAN : Leave(p, cut) \in PickupRecord /\ Leave(p, cut).stage \in Serving
<1>1. \A cut \in BOOLEAN : Leave(p, cut) \in PickupRecord /\ Leave(p, cut).stage \in Serving
  BY ZenonT(60) DEF Leave, Serving, Stages, Ending, PickupRecord
<1>2. /\ [p EXCEPT !.stage = "select", !.suspect = FALSE, !.command = None] \in PickupRecord
      /\ [p EXCEPT !.stage = "select", !.suspect = FALSE, !.command = None].stage \in Serving
  BY Zenon DEF Serving, Stages, Running, PickupRecord
<1> QED
  BY <1>1, <1>2, Zenon DEF Iterate

\* A pick-up that has the conversation goes on having it.
LEMMA ServingStep ==
  ASSUME AInv, NEW a \in Pickups, NEW p \in PickupRecord,
         pickup[a].stage \in Serving, p.stage \in Serving, Step(a, p), UNCHANGED <<registry, session>>,
         server' \in [Pickups -> ServerRecord], release' \in [Pickups -> Seq(Reasons)],
         \A b \in Pickups : Len(release'[b]) <= ReleaseSlots,
         queue' \in [Pickups -> Seq(Kinds)], UNCHANGED <<left, terminal>>, turns' \in 0..MaxTurns
  PROVE  AInv'
<1>1. /\ pickup' \in [Pickups -> PickupRecord] /\ pickup'[a] = p
      /\ \A b \in Pickups \ {a} : pickup'[b] = pickup[b]
  BY DEF AInv, Types, Step
<1>2. Types'
  BY <1>1, Zenon DEF AInv, Types
<1>3. OneAdopter'
  BY <1>1, Zenon DEF AInv, OneAdopter, Serving
<1>4. RowInv'
  BY <1>1 DEF AInv, RowInv, Serving, Bound, Ending
<1> QED
  BY <1>2, <1>3, <1>4 DEF AInv

\* Steps of the world around the pick-ups.
LEMMA AsideStep ==
  ASSUME AInv, UNCHANGED <<registry, session>>, pickup' \in [Pickups -> PickupRecord],
         \A a \in Pickups : pickup'[a].stage = pickup[a].stage,
         server' \in [Pickups -> ServerRecord], release' \in [Pickups -> Seq(Reasons)],
         \A b \in Pickups : Len(release'[b]) <= ReleaseSlots,
         queue' \in [Pickups -> Seq(Kinds)], left' \in Seq(Kinds), terminal' \in BOOLEAN, UNCHANGED turns
  PROVE  AInv'
<1>1. Types'
  BY SMTT(30) DEF AInv, Types
<1>2. OneAdopter' /\ RowInv'
  BY Zenon DEF AInv, OneAdopter, RowInv
<1> QED
  BY <1>1, <1>2 DEF AInv

\* A release request reaches a channel that has room for it.
LEMMA RequestedType ==
  ASSUME Types, NEW reason \in Reasons
  PROVE  /\ Requested(reason) \in [Pickups -> Seq(Reasons)]
         /\ \A b \in Pickups : Len(Requested(reason)[b]) <= ReleaseSlots
  BY AdoptedThreadAssumption DEF Types, Requested

\* What the app-server does to its record.
LEMMA ServerTypes ==
  ASSUME Types, NEW a \in Pickups
  PROVE  /\ server[a] \in ServerRecord
         /\ server[a].turn # None =>
              /\ TurnOver(server[a]) \in ServerRecord
              /\ [Emit(server[a], "approval") EXCEPT !.ask = "waiting"] \in ServerRecord
         /\ server[a].events # <<>> => Read(server[a]) \in ServerRecord /\ Oldest(a) \in Events
         /\ \A turn : Answered(server[a], turn) \in ServerRecord
         /\ server[a].events # <<>> => \A turn : Answered(Read(server[a]), turn) \in ServerRecord
         /\ Interrupted(a) \in [Pickups -> ServerRecord]
         /\ Dead \in ServerRecord
<1>1. server[a] \in ServerRecord /\ server[a].events \in Seq(Events) /\ server[a].turn \in Turns \cup {None}
  BY DEF Types, ServerRecord
<1>2. ASSUME server[a].turn # None
      PROVE  /\ TurnOver(server[a]) \in ServerRecord
             /\ [Emit(server[a], "approval") EXCEPT !.ask = "waiting"] \in ServerRecord
  <2>1. Event("ended", server[a].turn) \in Events /\ Event("approval", server[a].turn) \in Events
    BY <1>1, <1>2 DEF Event, Events
  <2>2. \A e \in Events : Append(server[a].events, e) \in Seq(Events)
    BY <1>1
  <2> QED
    BY <1>1, <2>1, <2>2, Zenon DEF TurnOver, Emit, ServerRecord
<1>3. ASSUME server[a].events # <<>>
      PROVE  Read(server[a]) \in ServerRecord /\ Oldest(a) \in Events
  <2>1. Tail(server[a].events) \in Seq(Events) /\ Head(server[a].events) \in Events
    BY <1>1, <1>3
  <2> QED
    BY <1>1, <2>1, Zenon DEF Read, Oldest, ServerRecord
<1>4. \A s \in ServerRecord : \A turn : Answered(s, turn) \in ServerRecord
  BY DEF Answered, ServerRecord
<1>5. Interrupted(a) \in [Pickups -> ServerRecord]
  BY <1>1, <1>2 DEF Interrupted, Types
<1>6. Dead \in ServerRecord
  BY NoServerType
<1> QED
  BY <1>1, <1>2, <1>3, <1>4, <1>5, <1>6

\* A pick-up that moves to another stage is still one.
LEMMA StageType ==
  ASSUME Types, NEW a \in Pickups, NEW x \in Stages, pickup' = [pickup EXCEPT ![a].stage = x]
  PROVE  /\ pickup' \in [Pickups -> PickupRecord] /\ pickup'[a].stage = x
         /\ \A b \in Pickups \ {a} : pickup'[b] = pickup[b]
<1>1. /\ [pickup[a] EXCEPT !.stage = x] \in PickupRecord
      /\ [pickup[a] EXCEPT !.stage = x].stage = x
  BY ZenonT(60) DEF Types, PickupRecord
<1>2. pickup' = [pickup EXCEPT ![a] = [pickup[a] EXCEPT !.stage = x]]
  BY DEF Types
<1>3. /\ pickup' \in [Pickups -> PickupRecord] /\ pickup'[a] = [pickup[a] EXCEPT !.stage = x]
      /\ \A b \in Pickups \ {a} : pickup'[b] = pickup[b]
  BY <1>1, <1>2 DEF Types
<1> QED
  BY <1>1, <1>3

\* A pick-up on its way, which has neither the row nor the conversation, goes on or is refused.
LEMMA EarlyStep ==
  ASSUME AInv, NEW a \in Pickups, pickup[a].stage \in {"idle", "checked", "probed", "connected"},
         NEW x \in {"refused", "checked", "probed", "connected"},
         pickup' = [pickup EXCEPT ![a].stage = x],
         server' \in [Pickups -> ServerRecord], queue' \in [Pickups -> Seq(Kinds)],
         UNCHANGED <<registry, session, release, left, terminal, turns>>
  PROVE  AInv'
<1>1. /\ pickup' \in [Pickups -> PickupRecord] /\ pickup'[a].stage = x
      /\ \A b \in Pickups \ {a} : pickup'[b] = pickup[b]
  BY StageType, Zenon DEF AInv, Stages, Starting
<1>2. Types'
  BY <1>1, Zenon DEF AInv, Types
<1>3. OneAdopter'
  BY <1>1 DEF AInv, OneAdopter, Running
<1>4. RowInv'
  BY <1>1 DEF AInv, RowInv, Bound, Running, Ending
<1> QED
  BY <1>2, <1>3, <1>4 DEF AInv

\* What Drop leaves of the app-server and the channel.
LEMMA DropTypes ==
  ASSUME Types, NEW a \in Pickups, NEW x, Drop(a, x)
  PROVE  server' \in [Pickups -> ServerRecord] /\ queue' \in [Pickups -> Seq(Kinds)]
<1>1. <<>> \in Seq(Kinds)
  OBVIOUS
<1> QED
  BY <1>1, NoServerType DEF Types, Drop

\* PickUp, Probe and Connect.
LEMMA AdoptedEarly ==
  ASSUME AInv, NEW a \in Pickups, PickUp(a) \/ Probe(a) \/ Connect(a)
  PROVE  AInv'
<1>1. CASE PickUp(a)
  BY <1>1, EarlyStep, Zenon DEF PickUp, AInv, Types
<1>2. CASE Probe(a)
  BY <1>2, EarlyStep, Zenon DEF Probe, AInv, Types
<1>3. CASE Connect(a)
  <2>1. pickup[a].stage = "probed" /\ UNCHANGED <<registry, session, release, left, terminal, turns>>
    BY <1>3 DEF Connect
  <2>2. CASE /\ pickup' = [pickup EXCEPT ![a].stage = "connected"]
             /\ server' = [server EXCEPT ![a].state = "alive"] /\ UNCHANGED queue
    <3>1. server' \in [Pickups -> ServerRecord]
      BY <2>2, ZenonT(60) DEF AInv, Types, ServerRecord
    <3> QED
      BY <2>1, <2>2, <3>1, EarlyStep, Zenon DEF AInv, Types
  <2>3. CASE Drop(a, "refused")
    BY <2>1, <2>3, DropTypes, EarlyStep, Zenon DEF AInv, Drop
  <2> QED
    BY <1>3, <2>2, <2>3 DEF Connect
<1> QED
  BY <1>1, <1>2, <1>3

\* Register: whoever registers last has the row.
LEMMA AdoptedRegister ==
  ASSUME AInv, NEW a \in Pickups, Register(a)
  PROVE  AInv'
<1>1. pickup[a].stage = "connected" /\ UNCHANGED <<registry, release, left, terminal, turns>>
  BY DEF Register
<1>2. CASE Drop(a, "refused") /\ UNCHANGED session
  BY <1>1, <1>2, DropTypes, EarlyStep, Zenon DEF AInv, Drop
<1>3. CASE /\ pickup' = [pickup EXCEPT ![a].stage = "registered"]
           /\ session' = [topology |-> "adopted", sender |-> a] /\ UNCHANGED <<server, queue>>
  <2>1. /\ pickup' \in [Pickups -> PickupRecord] /\ pickup'[a].stage = "registered"
        /\ \A b \in Pickups \ {a} : pickup'[b] = pickup[b]
    BY <1>3, StageType, Zenon DEF AInv, Stages, Starting
  <2>2. Types'
    BY <1>1, <1>3, <2>1 DEF AInv, Types
  <2>3. OneAdopter'
    BY <1>1, <2>1 DEF AInv, OneAdopter, Running
  <2>4. RowInv'
    BY <1>3, <2>1 DEF RowInv
  <2> QED
    BY <2>2, <2>3, <2>4 DEF AInv
<1> QED
  BY <1>2, <1>3 DEF Register

\* Claim: one that is refused leaves the row to the pick-up that has the conversation.
LEMMA AdoptedClaim ==
  ASSUME AInv, NEW a \in Pickups, Claim(a)
  PROVE  AInv'
<1>1. pickup[a].stage = "registered" /\ UNCHANGED <<session, release, left, terminal, turns>>
  BY DEF Claim
<1>2. PICK x \in {"select", "refused", "failed"} :
        /\ pickup' = [pickup EXCEPT ![a].stage = x]
        /\ IF x = "select" THEN registry = None /\ registry' = a ELSE UNCHANGED registry
        /\ x = "refused" => registry # None
  BY DEF Claim, Claimable, Drop
<1>3. server' \in [Pickups -> ServerRecord] /\ queue' \in [Pickups -> Seq(Kinds)]
  BY DropTypes DEF Claim, AInv, Types
<1>4. /\ pickup' \in [Pickups -> PickupRecord] /\ pickup'[a].stage = x
      /\ \A b \in Pickups \ {a} : pickup'[b] = pickup[b]
  BY <1>2, StageType, Zenon DEF AInv, Stages, Running
<1>5. Types'
  BY <1>1, <1>2, <1>3, <1>4, Zenon DEF AInv, Types
<1>6. OneAdopter'
  BY <1>1, <1>2, <1>4, AdoptedThreadAssumption DEF AInv, OneAdopter, Running
<1>7. x = "refused" => \E b \in Pickups \ {a} : pickup[b].stage \in Bound
  <2> SUFFICES ASSUME x = "refused" PROVE \E b \in Pickups \ {a} : pickup[b].stage \in Bound
    OBVIOUS
  <2>1. registry \in Pickups /\ pickup[registry].stage \in Serving
    BY <1>2 DEF AInv, Types, OneAdopter, Serving
  <2> QED
    BY <1>1, <2>1 DEF Serving, Bound, Running, Ending
<1>8. RowInv'
  BY <1>1, <1>2, <1>4, <1>7 DEF AInv, RowInv, Bound, Running, Ending
<1> QED
  BY <1>5, <1>6, <1>8 DEF AInv

\* The branches of the select that read the app-server.
LEMMA AdoptedReads ==
  ASSUME AInv, NEW a \in Pickups, OnNotification(a) \/ OnServerRequest(a) \/ OnServerClosed(a)
  PROVE  AInv'
<1>1. /\ pickup[a].stage \in Serving /\ pickup[a] \in PickupRecord
      /\ server[a].events # <<>> /\ UNCHANGED <<registry, session, release, queue, left, terminal, turns>>
  BY Zenon DEF OnNotification, OnServerRequest, OnServerClosed, Ready, Selecting, Serving, Running, AInv, Types
<1>2. /\ Read(server[a]) \in ServerRecord /\ Oldest(a) \in Events
      /\ \A turn : Answered(Read(server[a]), turn) \in ServerRecord
  BY <1>1, ServerTypes, Zenon DEF AInv
<1>3. server' \in [Pickups -> ServerRecord]
  <2>1. PICK r \in ServerRecord : server' = [server EXCEPT ![a] = r]
    BY <1>2, Zenon DEF OnNotification, OnServerRequest, OnServerClosed, AInv, Types
  <2> QED
    BY <2>1 DEF AInv, Types
<1>4. PICK p \in PickupRecord : p.stage \in Serving /\ Step(a, p)
  <2>1. CASE OnNotification(a)
    <3>1. Oldest(a).turn \in Turns \cup {None}
      BY <1>2 DEF Events
    <3>2. \A t \in Turns \cup {None} : [pickup[a] EXCEPT !.turn = t] \in PickupRecord
      BY <1>1 DEF PickupRecord
    <3> QED
      BY <2>1, <3>1, <3>2, LoopGoesOn DEF OnNotification
  <2>2. CASE OnServerRequest(a)
    <3>1. Oldest(a).turn \in Turns
      BY <1>2, <2>2 DEF OnServerRequest, Ready, Events
    <3>2. [pickup[a] EXCEPT !.approvals = @ \cup {Oldest(a).turn}] \in PickupRecord
      BY <1>1, <3>1 DEF PickupRecord
    <3> QED
      BY <1>1, <2>2, <3>2, LoopGoesOn DEF OnServerRequest
  <2>3. CASE OnServerClosed(a)
    BY <1>1, <2>3, LoopGoesOn, Zenon DEF OnServerClosed
  <2> QED
    BY <2>1, <2>2, <2>3
<1> QED
  BY <1>1, <1>3, <1>4, ServingStep, Zenon DEF AInv, Types

\* The branches of the select that look at channels, terminals and timers, and on_command up to
\* the sending.
LEMMA AdoptedSelects ==
  ASSUME AInv, NEW a \in Pickups,
         \/ OnChannelClosed(a) \/ OnRelease(a) \/ OnCommand(a) \/ Watch(a) \/ WatchAgain(a)
         \/ WatchFails(a) \/ AskAgain(a) \/ CapPasses(a)
  PROVE  AInv'
<1>1. /\ pickup[a].stage \in Serving /\ pickup[a] \in PickupRecord
      /\ UNCHANGED <<registry, session, server, left, terminal, turns>>
  BY Zenon DEF OnChannelClosed, OnRelease, OnCommand, Watch, WatchAgain, WatchFails, AskAgain, CapPasses,
         Selecting, Serving, Running, AInv, Types
<1>2. /\ release' \in [Pickups -> Seq(Reasons)] /\ \A b \in Pickups : Len(release'[b]) <= ReleaseSlots
      /\ queue' \in [Pickups -> Seq(Kinds)]
  <2>1. CASE OnRelease(a)
    <3>1. release[a] \in Seq(Reasons) /\ release[a] # <<>> /\ Len(release[a]) <= ReleaseSlots
      BY <2>1 DEF OnRelease, AInv, Types
    <3>2. Tail(release[a]) \in Seq(Reasons) /\ Len(Tail(release[a])) <= ReleaseSlots
      BY <3>1, AdoptedThreadAssumption
    <3> QED
      BY <2>1, <3>2 DEF OnRelease, AInv, Types
  <2>2. CASE OnCommand(a)
    <3>1. Tail(queue[a]) \in Seq(Kinds)
      BY <2>2 DEF OnCommand, AInv, Types
    <3> QED
      BY <2>2, <3>1 DEF OnCommand, AInv, Types
  <2>3. CASE AskAgain(a)
    BY <2>3, RequestedType, Zenon DEF AskAgain, AInv, Types, Reasons
  <2>4. CASE OnChannelClosed(a) \/ Watch(a) \/ WatchAgain(a) \/ WatchFails(a) \/ CapPasses(a)
    BY <2>4, Zenon DEF OnChannelClosed, Watch, WatchAgain, WatchFails, CapPasses, AInv, Types
  <2> QED
    BY <2>1, <2>2, <2>3, <2>4
<1>3. PICK p \in PickupRecord : p.stage \in Serving /\ Step(a, p)
  <2>1. CASE OnChannelClosed(a)
    BY <1>1, <2>1, LoopGoesOn, Zenon DEF OnChannelClosed
  <2>2. CASE OnRelease(a)
    <3>1. \A d \in {"grace", pickup[a].deferred} : [pickup[a] EXCEPT !.deferred = d] \in PickupRecord
      BY <1>1 DEF PickupRecord
    <3>2. (Head(release[a]) = "foreign") \in BOOLEAN
      OBVIOUS
    <3> QED
      BY <1>1, <2>2, <3>1, <3>2, LoopGoesOn, Zenon DEF OnRelease
  <2>3. CASE OnCommand(a)
    <3>1. Head(queue[a]) \in Kinds
      BY <2>3 DEF OnCommand, AInv, Types
    <3> DEFINE taken == [pickup[a] EXCEPT !.command = Head(queue[a])]
    <3>2. /\ [taken EXCEPT !.stage = "asking", !.suspect = TRUE] \in PickupRecord
          /\ [taken EXCEPT !.stage = "asking", !.suspect = TRUE].stage \in Serving
          /\ [taken EXCEPT !.stage = "sending"] \in PickupRecord
          /\ [taken EXCEPT !.stage = "sending"].stage \in Serving
      BY <1>1, <3>1, Zenon DEF PickupRecord, Stages, Running, Serving
    <3> QED
      BY <2>3, <3>2, Zenon DEF OnCommand
  <2>4. CASE Watch(a)
    <3>1. /\ [pickup[a] EXCEPT !.stage = "watching", !.suspect = TRUE] \in PickupRecord
          /\ [pickup[a] EXCEPT !.stage = "watching", !.suspect = TRUE].stage \in Serving
      BY <1>1, Zenon DEF PickupRecord, Stages, Running, Serving
    <3> QED
      BY <1>1, <2>4, <3>1, LoopGoesOn, Zenon DEF Watch
  <2>5. CASE WatchAgain(a) \/ WatchFails(a)
    BY <1>1, <2>5, LoopGoesOn, Zenon DEF WatchAgain, WatchFails
  <2>6. CASE AskAgain(a)
    <3>1. /\ [pickup[a] EXCEPT !.stage = "sending", !.suspect = FALSE] \in PickupRecord
          /\ [pickup[a] EXCEPT !.stage = "sending", !.suspect = FALSE].stage \in Serving
      BY <1>1, Zenon DEF PickupRecord, Stages, Running, Serving
    <3> QED
      BY <1>1, <2>6, <3>1, LoopGoesOn, Zenon DEF AskAgain
  <2>7. CASE CapPasses(a)
    <3>1. /\ [pickup[a] EXCEPT !.deferred = "late"] \in PickupRecord
          /\ [pickup[a] EXCEPT !.deferred = "late"].stage \in Serving
      BY <1>1 DEF PickupRecord
    <3>2. Step(a, [pickup[a] EXCEPT !.deferred = "late"])
      BY <2>7 DEF CapPasses, Step, AInv, Types
    <3> QED
      BY Zenon, <3>1, <3>2
  <2> QED
    BY <2>1, <2>2, <2>3, <2>4, <2>5, <2>6, <2>7
<1> QED
  BY <1>1, <1>2, <1>3, ServingStep, Zenon DEF AInv, Types

\* The sending, however it ends.
LEMMA AdoptedSends ==
  ASSUME AInv, NEW a \in Pickups, Send(a)
  PROVE  AInv'
<1>1. /\ pickup[a].stage = "sending" /\ pickup[a] \in PickupRecord /\ server[a] \in ServerRecord
      /\ UNCHANGED <<registry, session, release, queue, left, terminal>>
  BY Zenon DEF Send, SendText, SendInterrupt, SendAnswer, SendSettings, SendRefused, Sending, Finish, AInv, Types
<1>2. PICK p \in PickupRecord : Step(a, Iterate(p))
  <2>1. \A i : [pickup[a] EXCEPT !.approvals = @ \ {i}] \in PickupRecord
    BY <1>1 DEF PickupRecord
  <2> QED
    BY <1>1, <2>1, Zenon DEF Send, SendText, SendInterrupt, SendAnswer, SendSettings, SendRefused, Finish
<1>3. server' \in [Pickups -> ServerRecord] /\ turns' \in 0..MaxTurns
  <2>1. CASE SendText(a)
    <3>1. CASE UNCHANGED <<server, turns>>
      BY <3>1 DEF AInv, Types
    <3>2. CASE /\ turns < MaxTurns /\ turns' = turns + 1
               /\ server' = [server EXCEPT
                    ![a] = Emit([@ EXCEPT !.turn = turns + 1, !.ask = "none"], "started")]
      <4>1. turns' \in 0..MaxTurns /\ turns + 1 \in Turns
        BY <3>2, AdoptedThreadAssumption DEF AInv, Types, Turns
      <4>2. /\ Event("started", turns + 1) \in Events /\ server[a].events \in Seq(Events)
            /\ Append(server[a].events, Event("started", turns + 1)) \in Seq(Events)
        BY <1>1, <4>1 DEF Event, Events, ServerRecord
      <4>3. Emit([server[a] EXCEPT !.turn = turns + 1, !.ask = "none"], "started") \in ServerRecord
        BY <1>1, <4>1, <4>2, Zenon DEF Emit, ServerRecord
      <4> QED
        BY <3>2, <4>1, <4>3 DEF AInv, Types
    <3> QED
      BY <2>1, <3>1, <3>2 DEF SendText
  <2>2. CASE SendInterrupt(a)
    BY <2>2, ServerTypes, Zenon DEF SendInterrupt, AInv, Types
  <2>3. CASE SendAnswer(a)
    <3>1. PICK r \in ServerRecord : server' = [server EXCEPT ![a] = r]
      BY <2>3, ServerTypes, Zenon DEF SendAnswer, AInv
    <3> QED
      BY <2>3, <3>1 DEF SendAnswer, AInv, Types
  <2>4. CASE SendSettings(a) \/ SendRefused(a)
    BY <2>4 DEF SendSettings, SendRefused, AInv, Types
  <2> QED
    BY <2>1, <2>2, <2>3, <2>4 DEF Send
<1> QED
  BY <1>1, <1>2, <1>3, LoopGoesOn, ServingStep, Zenon DEF AInv, Types, Serving, Running

\* The release: the registry forgets the pick-up before it ends the row.
LEMMA AdoptedReleases ==
  ASSUME AInv, NEW a \in Pickups, Release(a)
  PROVE  AInv'
<1>0. pickup[a] \in PickupRecord
  BY DEF AInv, Types
<1>1. CASE CutTurn(a)
  <2>1. /\ [pickup[a] EXCEPT !.stage = "letgo"] \in PickupRecord
        /\ [pickup[a] EXCEPT !.stage = "letgo"].stage \in Serving
    BY <1>0 DEF PickupRecord, Stages, Ending, Serving
  <2> QED
    BY <1>1, <2>1, ServerTypes, ServingStep, Zenon DEF CutTurn, AInv, Types, Serving
<1>2. CASE LetGo(a)
  <2>1. /\ [pickup[a] EXCEPT !.stage = "removed"] \in PickupRecord
        /\ [pickup[a] EXCEPT !.stage = "removed"].stage = "removed"
    BY <1>0 DEF PickupRecord, Stages, Ending
  <2>2. /\ pickup' \in [Pickups -> PickupRecord] /\ pickup'[a].stage = "removed"
        /\ \A b \in Pickups \ {a} : pickup'[b] = pickup[b]
    BY <1>2, <2>1 DEF LetGo, Step, AInv, Types
  <2>3. Types'
    BY <1>2, <2>2 DEF LetGo, AInv, Types
  <2>4. OneAdopter'
    BY <1>2, <2>2, AdoptedThreadAssumption DEF LetGo, AInv, OneAdopter, Running
  <2>5. RowInv'
    BY <1>2, <2>2 DEF LetGo, AInv, RowInv, Bound, Ending
  <2> QED
    BY <2>3, <2>4, <2>5 DEF AInv
<1>3. CASE End(a)
  <2>1. [Fresh EXCEPT !.stage = "gone"] \in PickupRecord /\ [Fresh EXCEPT !.stage = "gone"].stage = "gone"
    BY Zenon DEF Fresh, PickupRecord, Stages
  <2>2. /\ pickup' \in [Pickups -> PickupRecord] /\ pickup'[a].stage = "gone"
        /\ \A b \in Pickups \ {a} : pickup'[b] = pickup[b]
    BY <1>3, <2>1 DEF End, Step, AInv, Types
  <2>3. /\ session' \in [topology : {"none", "adopted", "attached"}, sender : Pickups \cup {None}]
        /\ session'.topology # "adopted"
    BY <1>3 DEF End, Ended, AInv, Types
  <2>4. <<>> \in Seq(Reasons) /\ <<>> \in Seq(Kinds) /\ Len(<<>>) = 0
    OBVIOUS
  <2>5. /\ release' \in [Pickups -> Seq(Reasons)] /\ queue' \in [Pickups -> Seq(Kinds)]
        /\ \A b \in Pickups : Len(release'[b]) <= ReleaseSlots
    BY <1>3, <2>4, AdoptedThreadAssumption DEF End, AInv, Types
  <2>6. Types'
    BY <1>3, <2>2, <2>3, <2>5, NoServerType DEF End, AInv, Types
  <2>7. OneAdopter'
    BY <1>3, <2>2 DEF End, AInv, OneAdopter, Running
  <2>8. RowInv'
    BY <2>3 DEF RowInv
  <2> QED
    BY <2>6, <2>7, <2>8 DEF AInv
<1> QED
  BY <1>1, <1>2, <1>3 DEF Release

\* The app-server, phones, terminals and other writers.
LEMMA AdoptedAside ==
  ASSUME AInv, \/ \E a \in Pickups : Server(a)
               \/ Submit \/ AskRelease \/ ForeignHook \/ TerminalOpens \/ TerminalCloses
               \/ UNCHANGED vars
  PROVE  AInv'
<1>1. ASSUME NEW a \in Pickups, Server(a) PROVE AInv'
  <2>1. PICK r \in ServerRecord : server' = [server EXCEPT ![a] = r]
    <3>1. server[a] \in ServerRecord /\ server[a].events \in Seq(Events)
      BY DEF AInv, Types, ServerRecord
    <3>2. Append(server[a].events, Event("closed", None)) \in Seq(Events)
      BY <3>1 DEF Event, Events
    <3>3. [Dead EXCEPT !.events = Append(server[a].events, Event("closed", None))] \in ServerRecord
      BY <3>2, Zenon DEF Dead, NoServer, ServerRecord
    <3> QED
      BY <1>1, <3>3, ServerTypes, Zenon DEF Server, ServerAsks, ServerEnds, ServerDies, AInv
  <2>2. UNCHANGED <<registry, session, pickup, release, queue, left, terminal, turns>>
    BY <1>1 DEF Server, ServerAsks, ServerEnds, ServerDies
  <2> QED
    BY <2>1, <2>2, AsideStep DEF AInv, Types
<1>2. CASE Submit
  <2>1. /\ left' \in Seq(Kinds) /\ Head(left) \in Kinds
        /\ session.sender \in Pickups
    BY <1>2 DEF Submit, AInv, Types, RowInv
  <2>2. Append(queue[session.sender], Head(left)) \in Seq(Kinds)
    BY <2>1 DEF AInv, Types
  <2>3. queue' \in [Pickups -> Seq(Kinds)]
    BY <1>2, <2>2, Zenon DEF Submit, AInv, Types
  <2> QED
    BY <1>2, <2>1, <2>3, AsideStep DEF Submit, AInv, Types
<1>3. CASE AskRelease \/ ForeignHook
  BY <1>3, RequestedType, AsideStep, Zenon DEF AskRelease, ForeignHook, AInv, Types, Reasons
<1>4. CASE TerminalOpens \/ UNCHANGED vars
  BY <1>4, AsideStep, Zenon DEF TerminalOpens, vars, AInv, Types
<1>5. CASE TerminalCloses
  <2>1. \A a \in Pickups : /\ [pickup[a] EXCEPT !.suspect = FALSE] \in PickupRecord
                           /\ [pickup[a] EXCEPT !.suspect = FALSE].stage = pickup[a].stage
    BY ZenonT(60) DEF AInv, Types, PickupRecord
  <2> QED
    BY <1>5, <2>1, AsideStep, Zenon DEF TerminalCloses, AInv, Types
<1> QED
  BY <1>1, <1>2, <1>3, <1>4, <1>5
-----------------------------------------------------------------------------
\* AInv is inductive.
LEMMA AdoptedNext == AInv /\ [Next]_vars => AInv'
  BY AdoptedEarly, AdoptedRegister, AdoptedClaim, AdoptedReads, AdoptedSelects, AdoptedSends,
     AdoptedReleases, AdoptedAside
  DEF Next, Adopt, Loop

\* AInv holds in every reachable state.
LEMMA AdoptedInvariant == Spec => []AInv
<1> QED
  BY AdoptedInit, AdoptedNext, PTL DEF Spec

\* The registry names the one pick-up that serves the conversation, and only while it does.
THEOREM OneAdopterAtATime == Spec => []OneAdopter
<1> QED
  BY AdoptedInvariant, PTL DEF AInv

\* A row shown as adopted has somebody behind it who will end it, however pick-ups race and
\* whichever of them are refused; a pick-up that failed after it registered is the exception.
THEOREM AdoptedRowsHaveAnEnd == Spec => []AdoptedRowsEnd
<1>1. AInv => AdoptedRowsEnd
  BY DEF AInv, RowInv, AdoptedRowsEnd, Bound
<1> QED
  BY <1>1, AdoptedInvariant, PTL
=============================================================================
