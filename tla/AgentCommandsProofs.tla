------------------------ MODULE AgentCommandsProofs ------------------------
(* Proofs about the command path, for any number of commands, processes,    *)
(* bridges and submissions, and any number of restarts.                     *)
EXTENDS AgentCommands, TLAPS

-----------------------------------------------------------------------------
(* Types *)

\* TypeOK, with what the registration, the tasks and the session point at.
TInv ==
  /\ TypeOK
  /\ reg.step # "free" => reg.bridge \in Bridges
  /\ \A t \in Tasks : tasks[t].step # "idle" => tasks[t].command \in Commands
  /\ Live => session.token \in Bridges
  /\ nextEpoch > 0

\* Absent receipts are receipts.
LEMMA NoReceiptType == NoReceipt \in Receipt /\ [c \in Commands |-> NoReceipt] \in Receipts
  BY DEF NoReceipt, Receipt, Receipts, ReceiptStates

\* Forgetting old receipts leaves a table of receipts.
LEMMA RetainedType ==
  ASSUME NEW st \in Receipts
  PROVE  Retained(st) \in Receipts
  BY NoReceiptType DEF Retained, Receipts

\* Recording a receipt leaves a table of receipts.
LEMMA UpsertedType ==
  ASSUME NEW st \in Receipts, NEW cs, NEW r \in Receipt
  PROVE  Upserted(st, cs, r) \in Receipts
<1> DEFINE new == [c \in Commands |-> IF c \in cs /\ (st[c].state = "none" \/ r.at >= st[c].at)
                                      THEN r ELSE st[c]]
<1>1. new \in Receipts
  BY DEF Receipts
<1> QED
  BY <1>1, RetainedType DEF Upserted

\* Publishing receipts leaves a session.
LEMMA PublishedType ==
  ASSUME NEW s \in Session, NEW cs \in SUBSET Commands, NEW r \in Receipt
  PROVE  Published(s, cs, r) \in Session
<1>1. Cardinality(cs) \in Nat
  BY CommandsAreCounted
<1> DEFINE sh == [c \in Commands |-> IF c \in cs THEN r ELSE s.shown[c]]
           rv == s.rev + Cardinality(cs)
<1>2. sh \in Receipts
  BY DEF Session, Receipts
<1>3. rv \in Nat
  BY <1>1 DEF Session
<1> HIDE DEF sh, rv
<1>4. [s EXCEPT !.shown = sh, !.rev = rv] \in Session
  BY <1>2, <1>3, Zenon DEF Session
<1> QED
  BY <1>4 DEF Published, sh, rv

\* The receipts the actions issue are receipts.
LEMMA IssuedType ==
  ASSUME TypeOK, NEW state \in ReceiptStates, NEW at \in Nat
  PROVE  /\ SessionReceipt(state, at) \in Receipt
         /\ \A c \in Commands : CommandReceipt(c, state, at) \in Receipt
  BY DEF SessionReceipt, CommandReceipt, Receipt, TypeOK, Session, Command

\* What is saved is what the type says a file is.
LEMMA PersistType ==
  ASSUME NEW m \in Mapping, NEW st \in Receipts, Loadable(m),
         file \in [mapping : Mapping, store : Receipts], Loadable(file.mapping),
         Persist(m, st) \/ PersistFails(m, st)
  PROVE  file' \in [mapping : Mapping, store : Receipts] /\ Loadable(file'.mapping)
  BY DEF Persist, PersistFails

\* The same for a sequence of saves.
LEMMA PersistUpToType ==
  ASSUME NEW cs, NEW r \in Receipt, TypeOK, PersistUpTo(cs, r)
  PROVE  file' \in [mapping : Mapping, store : Receipts] /\ Loadable(file'.mapping)
<1>1. Upserted(store, cs, r) \in Receipts
  BY UpsertedType DEF TypeOK
<1> QED
  BY <1>1 DEF PersistUpTo, TypeOK

\* A bridge that changes its stage is a bridge.
LEMMA BridgeStage ==
  ASSUME NEW bridge \in Bridge, NEW stage \in Stages
  PROVE  [bridge EXCEPT !.stage = stage] \in Bridge
  BY Zenon DEF Bridge

\* And the other bridges are left as they are.
LEMMA StageType ==
  ASSUME TypeOK, NEW b \in Bridges, NEW stage \in Stages
  PROVE  [bridges EXCEPT ![b].stage = stage] \in [Bridges -> Bridge]
<1>1. [bridges[b] EXCEPT !.stage = stage] \in Bridge
  BY BridgeStage DEF TypeOK
<1> QED
  BY <1>1 DEF TypeOK

\* No registration is a registration.
LEMMA NoRegistrationType == NoRegistration \in Registration
  BY NoReceiptType DEF NoRegistration, Registration

\* The initial state has the types.
LEMMA TypeInit == Init => TInv
  BY NoReceiptType, CommandsAssumption
  DEF Init, TInv, TypeOK, Live, Unmapped, Mapping, Loadable, NoSession, Session, NoRegistration,
      Registration, IdleBridge, Bridge, Stages, IdleTask, Task, Unmade, Command, Receipts

\* Registration keeps the types.
LEMMA TypeRegistration ==
  ASSUME TInv,
         (\E b \in Bridges, p \in Processes : Connect(b, p)) \/ RegistrationStep
  PROVE  TInv'
<1>1. ASSUME NEW b \in Bridges, NEW p \in Processes, Connect(b, p) PROVE TInv'
  <2>1. bridges' \in [Bridges -> Bridge]
    BY <1>1, ZenonT(30) DEF Connect, TInv, TypeOK, Bridge, Stages
  <2>2. reg' \in Registration /\ reg'.bridge \in Bridges
    <3>1. clock \in Nat
      BY DEF TInv, TypeOK
    <3>2. reg' = [NoRegistration EXCEPT !.step = "fence", !.bridge = b, !.now = clock]
      BY <1>1, Zenon DEF Connect
    <3> QED
      BY <3>1, <3>2, NoRegistrationType, Zenon DEF Registration
  <2> QED
    BY <1>1, <2>1, <2>2, Zenon DEF Connect, TInv, TypeOK, Live
<1>2. CASE FenceInFlight
  <2> DEFINE r == SessionReceipt("outcome_unknown", reg.now)
             pub == Published(session, session.inflight, r)
  <2>1. CASE ~Live
    <3>1. reg' \in Registration
      BY <1>2, <2>1 DEF FenceInFlight, TInv, TypeOK, Registration
    <3> QED
      BY <1>2, <2>1, <3>1 DEF FenceInFlight, TInv, TypeOK, Registration, Live
  <2>2. CASE Live
    <3>1. r \in Receipt
      BY IssuedType DEF TInv, TypeOK, Registration, ReceiptStates, Verdicts
    <3>2. pub \in Session
      BY <3>1, PublishedType, Zenon DEF TInv, TypeOK, Session
    <3>3. session' = [pub EXCEPT !.inflight = {}] /\ reg' = [reg EXCEPT !.step = "meta", !.live = session'.rev]
      BY <1>2, <2>2, Zenon DEF FenceInFlight
    <3>4. session' \in Session /\ session'.token = pub.token /\ pub.token = session.token
      <4> HIDE DEF r
      <4>1. pub.token = session.token
        BY DEF Published, TInv, TypeOK, Session
      <4> HIDE DEF pub
      <4> QED
        BY <3>2, <3>3, <4>1 DEF Session
    <3>5. reg' \in Registration
      <4>1. session'.rev \in Int
        BY <3>4 DEF Session
      <4>2. reg \in Registration
        BY DEF TInv, TypeOK
      <4> HIDE DEF pub, r
      <4> QED
        BY <3>3, <4>1, <4>2, Zenon DEF Registration
    <3>6. store' \in Receipts
      BY <1>2, <2>2, <3>1, UpsertedType DEF FenceInFlight, TInv, TypeOK
    <3>7. file' \in [mapping : Mapping, store : Receipts] /\ Loadable(file'.mapping)
      BY <1>2, <2>2, <3>1, PersistUpToType DEF FenceInFlight, TInv
    <3> QED
      BY <1>2, <3>3, <3>4, <3>5, <3>6, <3>7 DEF FenceInFlight, TInv, TypeOK, Live, Registration
  <2> QED
    BY <2>1, <2>2
<1>3. ASSUME NEW done \in SUBSET Commands, NEW c \in Commands, FenceFails(done, c) PROVE TInv'
  <2> DEFINE r == SessionReceipt("outcome_unknown", reg.now)
             pub == Published(session, done, r)
  <2>1. r \in Receipt
    BY IssuedType DEF TInv, TypeOK, Registration, ReceiptStates, Verdicts
  <2>2. session' = pub /\ session' \in Session
    BY <1>3, <2>1, PublishedType DEF FenceFails, TInv, TypeOK
  <2>3. session'.token = session.token
    BY <2>2, Zenon DEF Published, TInv, TypeOK, Session
  <2>4. reg' \in Registration /\ reg'.step = "free"
    BY <1>3, NoReceiptType DEF FenceFails, RegistrationFails, NoRegistration, Registration
  <2>5. bridges' \in [Bridges -> Bridge]
    BY <1>3, StageType, Zenon DEF FenceFails, RegistrationFails, TInv, Stages
  <2>6. store' \in Receipts
    BY <1>3, <2>1, UpsertedType DEF FenceFails, TInv, TypeOK
  <2>7. file' \in [mapping : Mapping, store : Receipts] /\ Loadable(file'.mapping)
    BY <1>3, <2>1, PersistUpToType DEF FenceFails, TInv
  <2> QED
    BY <1>3, <2>2, <2>3, <2>4, <2>5, <2>6, <2>7 DEF FenceFails, TInv, TypeOK, Live
<1>4. CASE RegisterMapping
  <2> DEFINE m == Remapped(bridges[reg.bridge].process)
  <2>1. m \in Mapping /\ Loadable(m)
    <3>1. bridges[reg.bridge].process \in Processes \cup {None}
      BY <1>4 DEF RegisterMapping, TInv, TypeOK, Bridge
    <3>2. reg.live \in Int
      BY DEF TInv, TypeOK, Registration
    <3> QED
      BY <3>1, <3>2, SMTT(30) DEF Remapped, TInv, TypeOK, Mapping, Loadable, KeepsEpoch, Seed
  <2>2. mapping' = m /\ nextEpoch' \in Nat /\ nextEpoch' > 0
    BY <1>4 DEF RegisterMapping, TInv, TypeOK
  <2>3. file' \in [mapping : Mapping, store : Receipts] /\ Loadable(file'.mapping)
    <3> HIDE DEF m
    <3>1. Persist(m, store) \/ PersistFails(m, store)
      BY <1>4 DEF RegisterMapping, m
    <3> QED
      BY <2>1, <3>1, PersistType DEF TInv, TypeOK
  <2>4. CASE reg' = [reg EXCEPT !.step = "receipts", !.gen = m.gen, !.epoch = m.epoch, !.rev = m.seed]
             /\ UNCHANGED bridges
    <3>1. reg' \in Registration /\ reg'.bridge = reg.bridge
      <4> HIDE DEF m
      <4> QED
        BY <2>1, <2>4, Zenon DEF TInv, TypeOK, Registration, Mapping
    <3> QED
      BY <1>4, <2>1, <2>2, <2>3, <2>4, <3>1 DEF RegisterMapping, TInv, TypeOK, Live
  <2>5. CASE RegistrationFails
    <3>1. reg' \in Registration /\ reg'.step = "free"
      BY <2>5, NoReceiptType DEF RegistrationFails, NoRegistration, Registration
    <3>2. bridges' \in [Bridges -> Bridge]
      BY <1>4, <2>5, StageType, Zenon DEF RegisterMapping, RegistrationFails, TInv, Stages
    <3> QED
      BY <1>4, <2>1, <2>2, <2>3, <3>1, <3>2 DEF RegisterMapping, TInv, TypeOK, Live
  <2> QED
    BY <1>4, <2>4, <2>5 DEF RegisterMapping
<1>5. CASE ReadReceipts
  <2>1. ReceiptsFor(reg.gen, reg.epoch) \in Receipts
    BY NoReceiptType DEF ReceiptsFor, Receipts, TInv, TypeOK
  <2>2. reg' \in Registration /\ reg'.bridge = reg.bridge
    BY <1>5, <2>1, Zenon DEF ReadReceipts, TInv, TypeOK, Registration
  <2> QED
    BY <1>5, <2>2 DEF ReadReceipts, TInv, TypeOK, Live
<1>6. CASE Install
  <2>1. session' \in Session /\ session'.token = reg.bridge
    BY <1>6, Zenon DEF Install, TInv, TypeOK, Registration, NoSession, Session
  <2>2. bridges' \in [Bridges -> Bridge]
    BY <1>6, StageType, Zenon DEF Install, TInv, Stages
  <2>3. reg' \in Registration /\ reg'.step = "free"
    BY <1>6, NoReceiptType DEF Install, NoRegistration, Registration
  <2> QED
    BY <1>6, <2>1, <2>2, <2>3 DEF Install, TInv, TypeOK, Live
<1> QED
  BY <1>1, <1>2, <1>3, <1>4, <1>5, <1>6 DEF RegistrationStep

\* A save of a table of receipts keeps the file's type.
LEMMA PersistStoreType ==
  ASSUME TypeOK, NEW st \in Receipts, Persist(mapping, st) \/ PersistFails(mapping, st)
  PROVE  file' \in [mapping : Mapping, store : Receipts] /\ Loadable(file'.mapping)
  BY PersistType DEF TypeOK

\* A session whose in-flight commands and sender change is a session.
LEMMA SessionUpdateType ==
  ASSUME NEW s \in Session, NEW cs \in SUBSET Commands
  PROVE  [s EXCEPT !.inflight = cs] \in Session /\ [s EXCEPT !.inflight = cs].token = s.token
  BY DEF Session

\* Publishing does not touch the token, the sender or the in-flight commands.
LEMMA PublishedKeeps ==
  ASSUME NEW s \in Session, NEW cs, NEW r
  PROVE  /\ Published(s, cs, r).token = s.token
         /\ Published(s, cs, r).sender = s.sender
         /\ Published(s, cs, r).inflight = s.inflight
         /\ Published(s, cs, r).gen = s.gen
         /\ Published(s, cs, r).epoch = s.epoch
  BY DEF Published, Session

\* Making and submitting commands keeps the types.
LEMMA TypeTask ==
  ASSUME TInv,
         \/ \E c \in Commands, kind \in {"prompt", "answer"}, pinned \in BOOLEAN :
              MakeCommand(c, kind, pinned)
         \/ \E t \in Tasks, c \in Commands : Check(t, c)
         \/ \E t \in Tasks : TaskStep(t)
  PROVE  TInv'
<1>1. ASSUME NEW c \in Commands, NEW kind \in {"prompt", "answer"}, NEW pinned \in BOOLEAN,
             MakeCommand(c, kind, pinned)
      PROVE  TInv'
  <2> DEFINE rv == IF pinned THEN session.rev ELSE 0
             p == bridges[session.token].process
             new == [kind |-> kind, gen |-> session.gen, epoch |-> session.epoch, rev |-> rv,
                     run |-> run, process |-> p]
  <2>1. rv \in Nat /\ session.gen \in Nat /\ session.epoch \in Nat /\ run \in Nat
    BY DEF TInv, TypeOK, Session
  <2>2. p \in Processes \cup {None}
    BY <1>1 DEF MakeCommand, TInv, TypeOK, Bridge
  <2>3. new \in Command
    <3> HIDE DEF rv, p
    <3> QED
      BY <2>1, <2>2 DEF Command
  <2>4. commands' = [commands EXCEPT ![c] = new]
    BY <1>1 DEF MakeCommand
  <2>5. commands' \in [Commands -> Command]
    <3> HIDE DEF new
    <3> QED
      BY <2>3, <2>4 DEF TInv, TypeOK
  <2> QED
    BY <1>1, <2>5 DEF MakeCommand, TInv, TypeOK, Live
<1>2. ASSUME NEW t \in Tasks, NEW c \in Commands, Check(t, c) PROVE TInv'
  <2>1. [step |-> "checked", command |-> c, sender |-> None, now |-> clock] \in Task
    BY DEF Task, TInv, TypeOK
  <2>2. tasks' \in [Tasks -> Task]
    BY <1>2, <2>1 DEF Check, TInv, TypeOK
  <2>3. \A u \in Tasks : tasks'[u].step # "idle" => tasks'[u].command \in Commands
    BY <1>2 DEF Check, TInv, TypeOK
  <2> QED
    BY <1>2, <2>2, <2>3 DEF Check, TInv, TypeOK, Live
<1>3. ASSUME NEW t \in Tasks, TaskStep(t) PROVE TInv'
  <2> DEFINE c == tasks[t].command
  <2>1. c \in Commands
    BY <1>3, Zenon DEF TaskStep, SubmitUnavailable, SubmitRefused, SubmitAccepted, Forward,
                MarkOutcomeUnknown, TInv
  <2>2. ASSUME tasks' = [tasks EXCEPT ![t] = IdleTask]
        PROVE  /\ tasks' \in [Tasks -> Task]
               /\ \A u \in Tasks : tasks'[u].step # "idle" => tasks'[u].command \in Commands
    BY <2>2 DEF TInv, TypeOK, IdleTask, Task
  <2>3. tasks[t].now \in Nat /\ clock \in Nat
    BY DEF TInv, TypeOK, Task
  <2>4. CASE SubmitUnavailable(t)
    BY <2>2, <2>4 DEF SubmitUnavailable, TInv, TypeOK, Live
  <2>5. CASE SubmitRefused(t)
    <3> DEFINE state == IF Addresses(c) THEN "unavailable" ELSE "stale"
               r == CommandReceipt(c, state, tasks[t].now)
               st == Upserted(store, {c}, r)
    <3>1. r \in Receipt
      <4>1. state \in ReceiptStates
        BY DEF ReceiptStates
      <4> HIDE DEF state
      <4> QED
        BY <2>1, <2>3, <4>1, IssuedType DEF TInv
    <3> HIDE DEF r
    <3>2. st \in Receipts
      BY <3>1, UpsertedType DEF TInv, TypeOK
    <3>3. Published(session, {c}, r) \in Session
      BY <2>1, <3>1, PublishedType DEF TInv, TypeOK
    <3> HIDE DEF st
    <3>4. /\ store' = st
          /\ \/ Persist(mapping, st) /\ session' = Published(session, {c}, r)
             \/ PersistFails(mapping, st) /\ UNCHANGED session
          /\ tasks' = [tasks EXCEPT ![t] = IdleTask]
      BY <2>5 DEF SubmitRefused, st, r
    <3>5. file' \in [mapping : Mapping, store : Receipts] /\ Loadable(file'.mapping)
      BY <3>2, <3>4, PersistStoreType DEF TInv
    <3>6. session' \in Session /\ session'.token = session.token
      <4>1. session \in Session
        BY DEF TInv, TypeOK
      <4>2. QED
        BY <3>3, <3>4, <4>1, PublishedKeeps
    <3> QED
      BY <2>2, <2>5, <3>2, <3>4, <3>5, <3>6 DEF SubmitRefused, TInv, TypeOK, Live
  <2>6. CASE SubmitAccepted(t)
    <3> DEFINE r == CommandReceipt(c, "sending", tasks[t].now)
               st == Upserted(store, {c}, r)
               pub == Published(session, {c}, r)
    <3>1. r \in Receipt
      BY <2>1, <2>3, IssuedType DEF TInv, ReceiptStates, Open
    <3> HIDE DEF r
    <3>2. st \in Receipts
      BY <3>1, UpsertedType DEF TInv, TypeOK
    <3>3. pub \in Session /\ pub.token = session.token
      BY <2>1, <3>1, PublishedType, PublishedKeeps DEF TInv, TypeOK
    <3> HIDE DEF st, pub
    <3>4. /\ store' = st
          /\ \/ /\ Persist(mapping, st)
                /\ session' = [pub EXCEPT !.inflight = session.inflight \cup {c}]
                /\ tasks' = [tasks EXCEPT ![t].step = "send", ![t].sender = session.sender]
             \/ /\ PersistFails(mapping, st)
                /\ tasks' = [tasks EXCEPT ![t] = IdleTask]
                /\ UNCHANGED session
      BY <2>6, Zenon DEF SubmitAccepted, st, r, pub
    <3>5. file' \in [mapping : Mapping, store : Receipts] /\ Loadable(file'.mapping)
      BY <3>2, <3>4, PersistStoreType DEF TInv
    <3>6. session' \in Session /\ session'.token = session.token
      <4>1. session.inflight \cup {c} \in SUBSET Commands /\ session \in Session
        BY <2>1 DEF TInv, TypeOK, Session
      <4> QED
        BY <3>3, <3>4, <4>1, SessionUpdateType, Zenon
    <3>7. /\ tasks' \in [Tasks -> Task]
          /\ \A u \in Tasks : tasks'[u].step # "idle" => tasks'[u].command \in Commands
      <4>1. CASE tasks' = [tasks EXCEPT ![t].step = "send", ![t].sender = session.sender]
        <5>1. session.sender \in Bridges \cup {None} /\ tasks[t] \in Task
          BY DEF TInv, TypeOK, Session
        <5>2. [tasks[t] EXCEPT !.step = "send", !.sender = session.sender] \in Task
          BY <5>1, Zenon DEF Task
        <5> QED
          BY <2>1, <4>1, <5>2 DEF TInv, TypeOK, Task
      <4> QED
        BY <2>2, <3>4, <4>1
    <3>8. UNCHANGED <<mapping, reg, bridges, commands, nextEpoch, clock, run, sends>>
      BY <2>6 DEF SubmitAccepted
    <3> QED
      BY <3>2, <3>4, <3>5, <3>6, <3>7, <3>8 DEF TInv, TypeOK, Live
  <2>7. CASE Forward(t)
    <3> DEFINE b == tasks[t].sender
    <3>1. b \in Bridges
      BY <2>7 DEF Forward, Sendable, TInv, TypeOK, Task
    <3>2. [bridges[b] EXCEPT !.queue = Append(bridges[b].queue, c)] \in Bridge
      <4>1. bridges[b] \in Bridge
        BY <3>1 DEF TInv, TypeOK
      <4>2. Append(bridges[b].queue, c) \in Seq(Commands)
        BY <2>1, <4>1, SMTT(30) DEF Bridge
      <4> QED
        BY <4>1, <4>2, Zenon DEF Bridge
    <3>3. bridges' = [bridges EXCEPT ![b] = [bridges[b] EXCEPT !.queue = Append(bridges[b].queue, c)]]
      BY <2>7, <3>1 DEF Forward, TInv, TypeOK
    <3>4. bridges' \in [Bridges -> Bridge]
      <4> HIDE DEF b
      <4> QED
        BY <3>1, <3>2, <3>3 DEF TInv, TypeOK
    <3>5. sends' \in [Commands -> Nat]
      BY <2>1, <2>7 DEF Forward, TInv, TypeOK
    <3> QED
      BY <2>2, <2>7, <3>4, <3>5 DEF Forward, TInv, TypeOK, Live
  <2>8. CASE MarkOutcomeUnknown(t)
    <3> DEFINE r == CommandReceipt(c, "outcome_unknown", clock)
               st == Upserted(store, {c}, r)
               pub == Published(session, {c}, r)
    <3>1. r \in Receipt
      BY <2>1, <2>3, IssuedType DEF TInv, ReceiptStates, Verdicts
    <3> HIDE DEF r
    <3>2. st \in Receipts
      BY <3>1, UpsertedType DEF TInv, TypeOK
    <3>3. pub \in Session /\ pub.token = session.token
      BY <2>1, <3>1, PublishedType, PublishedKeeps DEF TInv, TypeOK
    <3> HIDE DEF st, pub
    <3>4. /\ \/ /\ store' = st
                /\ Persist(mapping, st) \/ PersistFails(mapping, st)
                /\ session' = [pub EXCEPT !.inflight = session.inflight \ {c}]
             \/ UNCHANGED <<store, file, session>>
          /\ tasks' = [tasks EXCEPT ![t] = IdleTask]
      BY <2>8 DEF MarkOutcomeUnknown, st, r, pub
    <3>5. file' \in [mapping : Mapping, store : Receipts] /\ Loadable(file'.mapping) /\ store' \in Receipts
      BY <3>2, <3>4, PersistStoreType DEF TInv, TypeOK
    <3>6. session' \in Session /\ session'.token = session.token
      <4>1. session.inflight \ {c} \in SUBSET Commands /\ session \in Session
        BY DEF TInv, TypeOK, Session
      <4> QED
        BY <3>3, <3>4, <4>1, SessionUpdateType, Zenon
    <3> QED
      BY <2>2, <2>8, <3>4, <3>5, <3>6 DEF MarkOutcomeUnknown, TInv, TypeOK, Live
  <2> QED
    BY <1>3, <2>4, <2>5, <2>6, <2>7, <2>8 DEF TaskStep
<1> QED
  BY <1>1, <1>2, <1>3

\* The bridge task keeps the types.
LEMMA TypeBridge ==
  ASSUME TInv, NEW b \in Bridges, BridgeStep(b)
  PROVE  TInv'
<1>1. CASE TakeCommand(b)
  <2> DEFINE new == [bridges[b] EXCEPT !.queue = Tail(bridges[b].queue),
                                       !.taken = bridges[b].taken \cup {Head(bridges[b].queue)}]
  <2>1. new \in Bridge
    <3>1. bridges[b].queue \in Seq(Commands) /\ bridges[b].queue # <<>>
      BY <1>1 DEF TakeCommand, TInv, TypeOK, Bridge
    <3>2. Tail(bridges[b].queue) \in Seq(Commands) /\ Head(bridges[b].queue) \in Commands
      BY <3>1
    <3> QED
      BY <3>2, Zenon DEF TInv, TypeOK, Bridge
  <2>2. bridges' = [bridges EXCEPT ![b] = new]
    BY <1>1, Zenon DEF TakeCommand, TInv, TypeOK
  <2>3. bridges' \in [Bridges -> Bridge]
    <3> HIDE DEF new
    <3> QED
      BY <2>1, <2>2 DEF TInv, TypeOK
  <2> QED
    BY <1>1, <2>3 DEF TakeCommand, TInv, TypeOK, Live
<1>2. ASSUME NEW c \in Commands, NEW state \in {"accepted"} \cup Verdicts, RecordReceipt(b, c, state)
      PROVE  TInv'
  <2> DEFINE r == SessionReceipt(state, clock)
             st == Upserted(store, {c}, r)
             pub == Published(session, {c}, r)
             left == IF state \in Verdicts THEN session.inflight \ {c} ELSE session.inflight
  <2>1. r \in Receipt
    BY IssuedType DEF TInv, TypeOK, ReceiptStates, Open, Verdicts
  <2> HIDE DEF r
  <2>2. st \in Receipts
    BY <2>1, UpsertedType DEF TInv, TypeOK
  <2>3. pub \in Session /\ pub.token = session.token
    BY <2>1, PublishedType, PublishedKeeps DEF TInv, TypeOK
  <2>4. left \in SUBSET Commands
    BY DEF TInv, TypeOK, Session
  <2> HIDE DEF st, pub, left
  <2>5. /\ store' = st
        /\ \/ Persist(mapping, st) /\ session' = [pub EXCEPT !.inflight = left]
           \/ PersistFails(mapping, st) /\ UNCHANGED session
        /\ UNCHANGED <<mapping, reg, bridges, tasks, commands, nextEpoch, clock, run, sends>>
    BY <1>2 DEF RecordReceipt, st, r, pub, left
  <2>6. file' \in [mapping : Mapping, store : Receipts] /\ Loadable(file'.mapping)
    BY <2>2, <2>5, PersistStoreType DEF TInv
  <2>7. session' \in Session /\ session'.token = session.token
    BY <2>3, <2>4, <2>5, SessionUpdateType, Zenon DEF TInv, TypeOK
  <2> QED
    BY <2>2, <2>5, <2>6, <2>7 DEF TInv, TypeOK, Live
<1>3. CASE EndLoop(b)
  BY <1>3, StageType, Zenon DEF EndLoop, TInv, TypeOK, Stages, Live
<1>4. CASE Bail(b) \/ Drop(b)
  <2>1. [bridges[b] EXCEPT !.stage = "ended", !.queue = <<>>, !.taken = {}] \in Bridge
    <3>1. bridges[b] \in Bridge /\ <<>> \in Seq(Commands) /\ "ended" \in Stages
      BY DEF TInv, TypeOK, Stages
    <3> QED
      BY <3>1, Zenon DEF Bridge
  <2>2. bridges' = [bridges EXCEPT ![b] = [bridges[b] EXCEPT !.stage = "ended", !.queue = <<>>, !.taken = {}]]
    BY <1>4, Zenon DEF Bail, Drop, TInv, TypeOK
  <2>3. bridges' \in [Bridges -> Bridge]
    BY <2>1, <2>2 DEF TInv, TypeOK
  <2> QED
    BY <1>4, <2>3 DEF Bail, Drop, TInv, TypeOK, Live
<1>5. ASSUME NEW exited \in BOOLEAN, Disconnect(b, exited) PROVE TInv'
  <2> DEFINE r == SessionReceipt("outcome_unknown", clock)
             drained == Drained(session, r)
  <2>1. bridges' \in [Bridges -> Bridge]
    BY <1>5, StageType, Zenon DEF Disconnect, TInv, Stages
  <2>2. r \in Receipt
    BY IssuedType, Zenon DEF TInv, TypeOK, ReceiptStates, Verdicts
  <2>3. drained \in Session /\ drained.token = session.token
    <3> HIDE DEF r
    <3> DEFINE pub == Published(session, session.inflight, r)
    <3>1. pub \in Session /\ pub.token = session.token
      <4>1. session \in Session /\ session.inflight \in SUBSET Commands
        BY DEF TInv, TypeOK, Session
      <4> QED
        BY <2>2, <4>1, PublishedType, PublishedKeeps
    <3> HIDE DEF pub
    <3>2. drained = [pub EXCEPT !.inflight = {}, !.sender = None]
      BY DEF Drained, pub
    <3> QED
      BY <3>1, <3>2, Zenon DEF Session
  <2>4. Downgraded(drained) \in Session /\ Downgraded(drained).token = session.token
    <3> HIDE DEF drained
    <3>1. drained.rev + 1 \in Nat
      BY <2>3 DEF Session
    <3> QED
      BY <2>3, <3>1, ZenonT(30) DEF Downgraded, Session
  <2>5. NoSession \in Session /\ NoSession.token = None
    BY NoReceiptType DEF NoSession, Session
  <2> HIDE DEF r, drained
  <2>6. \/ UNCHANGED <<store, file, session>>
        \/ session' = NoSession /\ UNCHANGED <<store, file>>
        \/ /\ store' = Upserted(store, session.inflight, r)
           /\ \E saved \in SUBSET session.inflight : PersistUpTo(saved, r)
           /\ session' = Downgraded(drained)
    BY <1>5 DEF Disconnect, r, drained
  <2>7. file' \in [mapping : Mapping, store : Receipts] /\ Loadable(file'.mapping) /\ store' \in Receipts
    BY <2>2, <2>6, PersistUpToType, UpsertedType, SMTT(30) DEF TInv, TypeOK
  <2>8. session' \in Session /\ session'.token \in {session.token, None}
    BY <2>4, <2>5, <2>6 DEF TInv, TypeOK
  <2>9. UNCHANGED <<mapping, reg, tasks, commands, nextEpoch, clock, run, sends>>
    BY <1>5 DEF Disconnect
  <2> QED
    BY <2>1, <2>7, <2>8, <2>9 DEF TInv, TypeOK, Live
<1>6. CASE RewriteHistory(b)
  <2> DEFINE moved == [mapping EXCEPT !.epoch = nextEpoch]
             saved == [moved EXCEPT !.seed = Seed(session.rev + 1)]
             fenced == [session EXCEPT !.epoch = nextEpoch, !.shown = [c \in Commands |-> NoReceipt]]
  <2>1. moved \in Mapping /\ Loadable(moved)
    BY DEF TInv, TypeOK, Mapping, Loadable
  <2>2. Seed(session.rev + 1) \in Nat /\ Seed(session.rev + 1) > 0
    BY DEF Seed, TInv, TypeOK, Mapping, Session
  <2>3. saved \in Mapping /\ Loadable(saved)
    <3> HIDE DEF moved
    <3> QED
      BY <2>1, <2>2 DEF Mapping, Loadable
  <2>4. fenced \in Session /\ fenced.token = session.token
    BY NoReceiptType, Zenon DEF TInv, TypeOK, Session
  <2>5. [fenced EXCEPT !.rev = session.rev + 1] \in Session
        /\ [fenced EXCEPT !.rev = session.rev + 1].token = session.token
    <3>1. session.rev + 1 \in Nat
      BY DEF TInv, TypeOK, Session
    <3> HIDE DEF fenced
    <3> QED
      BY <2>4, <3>1 DEF Session
  <2>6. /\ nextEpoch' = nextEpoch + 1
        /\ \/ /\ mapping' = saved
              /\ Persist(moved, store) \/ Persist(saved, store)
              /\ session' = [fenced EXCEPT !.rev = session.rev + 1]
           \/ /\ mapping' = moved
              /\ PersistFails(moved, store)
              /\ session' = fenced
        /\ UNCHANGED <<store, reg, bridges, tasks, commands, clock, run, sends>>
    BY <1>6 DEF RewriteHistory
  <2> HIDE DEF moved, saved, fenced
  <2>7. file' \in [mapping : Mapping, store : Receipts] /\ Loadable(file'.mapping)
    BY <2>1, <2>3, <2>6, PersistType DEF TInv, TypeOK
  <2>8. session' \in Session /\ session'.token = session.token
    BY <2>4, <2>5, <2>6, Zenon
  <2>9. mapping' \in Mapping /\ Loadable(mapping')
    BY <2>1, <2>3, <2>6
  <2>10. nextEpoch' \in Nat /\ nextEpoch' > 0
    BY <2>6 DEF TInv, TypeOK
  <2>11. UNCHANGED <<store, reg, bridges, tasks, commands, clock, run, sends>>
    BY <2>6
  <2> QED
    BY <2>7, <2>8, <2>9, <2>10, <2>11 DEF TInv, TypeOK, Live
<1> QED
  BY <1>1, <1>2, <1>3, <1>4, <1>5, <1>6 DEF BridgeStep

\* So does everything else.
LEMMA TypeOther ==
  ASSUME TInv, Sweep \/ Update \/ Tick \/ Restart \/ UNCHANGED vars
  PROVE  TInv'
<1>1. NoSession \in Session /\ NoSession.token = None
  BY NoReceiptType DEF NoSession, Session
<1>2. CASE Sweep
  BY <1>1, <1>2 DEF Sweep, TInv, TypeOK, Live
<1>3. CASE Update
  <2> DEFINE saved == [mapping EXCEPT !.seed = Seed(session.rev + 1)]
  <2>1. session.rev + 1 \in Nat
    BY DEF TInv, TypeOK, Session
  <2>2. session' \in Session /\ session'.token = session.token
    BY <1>3, <2>1 DEF Update, TInv, TypeOK, Session
  <2>3. Seed(session.rev + 1) \in Nat /\ Seed(session.rev + 1) > 0
    BY <2>1 DEF Seed, TInv, TypeOK, Mapping, Session
  <2>4. saved \in Mapping /\ Loadable(saved)
    BY <2>3 DEF TInv, TypeOK, Mapping, Loadable
  <2> HIDE DEF saved
  <2>5. \/ UNCHANGED <<mapping, file>>
        \/ mapping' = saved /\ PersistFails(saved, store)
    BY <1>3 DEF Update, saved
  <2>6. file' \in [mapping : Mapping, store : Receipts] /\ Loadable(file'.mapping)
    BY <2>4, <2>5, PersistType DEF TInv, TypeOK
  <2> QED
    BY <1>3, <2>2, <2>4, <2>5, <2>6 DEF Update, TInv, TypeOK, Live
<1>4. CASE Tick
  BY <1>4 DEF Tick, TInv, TypeOK, Live
<1>5. CASE Restart
  <2>1. Retained(file.store) \in Receipts
    BY RetainedType DEF TInv, TypeOK
  <2>2. bridges' \in [Bridges -> Bridge]
    <3>1. [IdleBridge EXCEPT !.stage = "ended"] \in Bridge
      <4>1. <<>> \in Seq(Commands)
        OBVIOUS
      <4>2. IdleBridge \in Bridge
        BY <4>1, Zenon DEF IdleBridge, Bridge, Stages
      <4> QED
        BY <4>2, BridgeStage, Zenon DEF Stages
    <3> QED
      BY <1>5, <3>1 DEF Restart, TInv, TypeOK
  <2>3. tasks' \in [Tasks -> Task] /\ \A t \in Tasks : tasks'[t].step = "idle"
    BY <1>5 DEF Restart, IdleTask, Task
  <2>4. mapping' \in Mapping /\ Loadable(mapping') /\ file' = [mapping |-> mapping', store |-> store']
    BY <1>5 DEF Restart, Persist, TInv, TypeOK
  <2>5. NoRegistration.step = "free"
    BY DEF NoRegistration
  <2> QED
    BY <1>1, <1>5, <2>1, <2>2, <2>3, <2>4, <2>5, NoRegistrationType DEF Restart, TInv, TypeOK, Live
<1>6. CASE UNCHANGED vars
  BY <1>6 DEF vars, TInv, TypeOK, Live
<1> QED
  BY <1>2, <1>3, <1>4, <1>5, <1>6

\* TInv is an invariant.
LEMMA TypeInvariant == Spec => []TInv
<1>1. TInv /\ [Next]_vars => TInv'
  BY TypeRegistration, TypeTask, TypeBridge, TypeOther DEF Next
<1> QED
  BY <1>1, TypeInit, PTL DEF Spec

\* The supervisor's state keeps its types, and what register writes to the metadata
\* file is always something load accepts.
THEOREM TypeCorrect == Spec => []TypeOK
<1>1. TInv => TypeOK
  BY DEF TInv
<1> QED
  BY <1>1, TypeInvariant, PTL

-----------------------------------------------------------------------------
(* What each action does to the identity of the session *)

\* The session is still the same session of the same bridge.
SameSession ==
  /\ session'.token = session.token /\ session'.sender = session.sender
  /\ session'.gen = session.gen /\ session'.epoch = session.epoch

\* Receipts and updates come and go without touching the identity.
LEMMA SameSessionSteps ==
  ASSUME TInv,
         \/ FenceInFlight
         \/ \E done \in SUBSET Commands, c \in Commands : FenceFails(done, c)
         \/ \E t \in Tasks : TaskStep(t)
         \/ \E b \in Bridges, c \in Commands, state \in {"accepted"} \cup Verdicts : RecordReceipt(b, c, state)
         \/ Update
  PROVE  SameSession
<1>1. session \in Session
  BY DEF TInv, TypeOK
<1>2. ASSUME NEW cs, NEW r, NEW left,
             session' = [Published(session, cs, r) EXCEPT !.inflight = left]
      PROVE  SameSession
  <2> DEFINE pub == Published(session, cs, r)
  <2>1. pub.token = session.token /\ pub.sender = session.sender /\ pub.gen = session.gen /\ pub.epoch = session.epoch
    BY <1>1, PublishedKeeps
  <2>2. DOMAIN pub = DOMAIN session
    BY DEF Published
  <2> HIDE DEF pub
  <2>3. session' = [pub EXCEPT !.inflight = left]
    BY <1>2 DEF pub
  <2> QED
    BY <1>1, <2>1, <2>2, <2>3 DEF SameSession, Session
<1>3. ASSUME NEW cs, NEW r, session' = Published(session, cs, r) PROVE SameSession
  BY <1>1, <1>3, PublishedKeeps DEF SameSession
<1>4. ASSUME UNCHANGED session PROVE SameSession
  BY <1>4 DEF SameSession
<1>5. CASE FenceInFlight
  BY <1>2, <1>4, <1>5 DEF FenceInFlight
<1>6. CASE \E done \in SUBSET Commands, c \in Commands : FenceFails(done, c)
  BY <1>3, <1>6 DEF FenceFails
<1>7. ASSUME NEW t \in Tasks, TaskStep(t) PROVE SameSession
  <2>1. CASE SubmitUnavailable(t) \/ Forward(t)
    BY <1>4, <2>1 DEF SubmitUnavailable, Forward
  <2>2. CASE SubmitRefused(t)
    BY <1>3, <1>4, <2>2 DEF SubmitRefused
  <2>3. CASE SubmitAccepted(t)
    BY <1>2, <1>4, <2>3 DEF SubmitAccepted
  <2>4. CASE MarkOutcomeUnknown(t)
    BY <1>2, <1>4, <2>4 DEF MarkOutcomeUnknown
  <2> QED
    BY <1>7, <2>1, <2>2, <2>3, <2>4 DEF TaskStep
<1>8. CASE \E b \in Bridges, c \in Commands, state \in {"accepted"} \cup Verdicts : RecordReceipt(b, c, state)
  BY <1>2, <1>4, <1>8 DEF RecordReceipt
<1>9. CASE Update
  BY <1>1, <1>9 DEF Update, SameSession, Session
<1> QED
  BY <1>5, <1>6, <1>7, <1>8, <1>9

\* The end of the bridge that owns the session removes it or leaves it without a sender.
LEMMA DisconnectEffect ==
  ASSUME TInv, NEW b \in Bridges, NEW exited \in BOOLEAN, Disconnect(b, exited)
  PROVE  \/ session.token # b /\ UNCHANGED session
         \/ session' = NoSession
         \/ /\ session.token = b /\ session'.token = b /\ session'.sender = None
            /\ session'.gen = session.gen /\ session'.epoch = session.epoch
            /\ session'.inflight = {}
<1> DEFINE r == SessionReceipt("outcome_unknown", clock)
           pub == Published(session, session.inflight, r)
           drained == [pub EXCEPT !.inflight = {}, !.sender = None]
<1>1. session \in Session
  BY DEF TInv, TypeOK
<1>2. pub.token = session.token /\ pub.gen = session.gen /\ pub.epoch = session.epoch /\ DOMAIN pub = DOMAIN session
  BY <1>1, PublishedKeeps DEF Published
<1> HIDE DEF pub
<1>3. /\ drained.token = session.token /\ drained.gen = session.gen /\ drained.epoch = session.epoch
      /\ drained.sender = None /\ drained.inflight = {} /\ DOMAIN drained = DOMAIN session
  BY <1>1, <1>2 DEF Session
<1> HIDE DEF drained
<1>4. /\ Downgraded(drained).token = session.token /\ Downgraded(drained).gen = session.gen
      /\ Downgraded(drained).epoch = session.epoch /\ Downgraded(drained).sender = None
      /\ Downgraded(drained).inflight = {}
  BY <1>1, <1>3 DEF Downgraded, Session
<1>5. \/ ~Owns(b) /\ UNCHANGED session
      \/ session' = NoSession
      \/ Owns(b) /\ session' = Downgraded(drained)
  BY DEF Disconnect, Drained, drained, pub
<1> QED
  BY <1>4, <1>5 DEF Owns

-----------------------------------------------------------------------------
(* Bridges that supersede each other *)

\* No step but Install sets a bridge running.
NoneStarts == \A b \in Bridges : bridges'[b].stage = "running" => bridges[b].stage = "running"

\* Steps that leave the bridges' stages alone, or end them.
LEMMA NoneStartsSteps ==
  ASSUME TInv, Next, ~Install
  PROVE  NoneStarts
<1>1. bridges \in [Bridges -> Bridge]
  BY DEF TInv, TypeOK
<1>2. ASSUME NEW b \in Bridges, NEW p \in Processes, Connect(b, p) PROVE NoneStarts
  BY <1>1, <1>2 DEF Connect, NoneStarts, Bridge
<1>3. CASE RegistrationStep
  <2>1. reg.step # "free"
    BY <1>3, Zenon DEF RegistrationStep, FenceInFlight, FenceFails, RegisterMapping, ReadReceipts, Install
  <2>2. bridges' \in {bridges, [bridges EXCEPT ![reg.bridge].stage = "ended"]}
    BY <1>3, Zenon DEF RegistrationStep, FenceInFlight, FenceFails, RegisterMapping, ReadReceipts,
                RegistrationFails
  <2>3. reg.bridge \in Bridges
    BY <2>1 DEF TInv
  <2> QED
    BY <1>1, <2>2, <2>3, Zenon DEF NoneStarts, Bridge
<1>4. ASSUME NEW t \in Tasks, TaskStep(t) PROVE NoneStarts
  <2>1. CASE Forward(t)
    BY <1>1, <2>1 DEF Forward, NoneStarts, Bridge
  <2>2. CASE ~Forward(t)
    BY <1>4, <2>2 DEF TaskStep, SubmitUnavailable, SubmitRefused, SubmitAccepted,
                      MarkOutcomeUnknown, NoneStarts
  <2> QED
    BY <2>1, <2>2
<1>5. ASSUME NEW b \in Bridges, BridgeStep(b) PROVE NoneStarts
  <2>1. CASE TakeCommand(b)
    BY <1>1, <2>1 DEF TakeCommand, NoneStarts, Bridge
  <2>2. CASE EndLoop(b) \/ Bail(b) \/ Drop(b) \/ \E exited \in BOOLEAN : Disconnect(b, exited)
    BY <1>1, <2>2, ZenonT(30) DEF EndLoop, Bail, Drop, Disconnect, NoneStarts, Bridge
  <2>3. CASE RewriteHistory(b) \/ \E c \in Commands, state \in {"accepted"} \cup Verdicts : RecordReceipt(b, c, state)
    BY <2>3, Zenon DEF RewriteHistory, RecordReceipt, NoneStarts
  <2> QED
    BY <1>5, <2>1, <2>2, <2>3 DEF BridgeStep
<1>6. CASE Restart
  BY <1>6 DEF Restart, NoneStarts, IdleBridge
<1>7. ASSUME UNCHANGED bridges PROVE NoneStarts
  BY <1>7 DEF NoneStarts
<1> QED
  BY <1>2, <1>3, <1>4, <1>5, <1>6, <1>7 DEF Next, MakeCommand, Check, Sweep, Update, Tick

\* Only the bridge whose token the session carries takes the sender away, and it is
\* no longer running when it does.
LEMMA KeepsItsSessionStep ==
  ASSUME TInv, LiveBridgeKeepsItsSession, [Next]_vars
  PROVE  LiveBridgeKeepsItsSession'
<1>1. ASSUME SameSession, NoneStarts PROVE LiveBridgeKeepsItsSession'
  BY <1>1 DEF SameSession, NoneStarts, LiveBridgeKeepsItsSession, Owns
<1>2. ASSUME session' = NoSession PROVE LiveBridgeKeepsItsSession'
  BY <1>2, CommandsAssumption DEF NoSession, LiveBridgeKeepsItsSession, Owns
<1>3. ASSUME UNCHANGED session, NoneStarts PROVE LiveBridgeKeepsItsSession'
  BY <1>3 DEF NoneStarts, LiveBridgeKeepsItsSession, Owns
<1>4. CASE Install
  BY <1>4 DEF Install, LiveBridgeKeepsItsSession, Owns, NoSession
<1>5. CASE UNCHANGED vars
  BY <1>5 DEF vars, LiveBridgeKeepsItsSession, Owns
<1>6. CASE Next /\ ~Install
  <2>1. NoneStarts
    BY <1>6, NoneStartsSteps
  <2>2. ASSUME NEW b \in Bridges, NEW exited \in BOOLEAN, Disconnect(b, exited)
        PROVE  LiveBridgeKeepsItsSession'
    <3>1. bridges'[b].stage = "closing"
      BY <2>2 DEF Disconnect, TInv, TypeOK, Bridge
    <3> QED
      BY <1>2, <1>3, <2>1, <2>2, <3>1, DisconnectEffect DEF LiveBridgeKeepsItsSession, Owns
  <2>3. ASSUME NEW b \in Bridges, RewriteHistory(b) PROVE LiveBridgeKeepsItsSession'
    <3>1. session'.token = session.token /\ session'.sender = session.sender
      BY <2>3, Zenon DEF RewriteHistory, TInv, TypeOK, Session
    <3> QED
      BY <2>1, <3>1 DEF NoneStarts, LiveBridgeKeepsItsSession, Owns
  <2>4. CASE Sweep \/ Restart
    BY <1>2, <2>4 DEF Sweep, Restart
  <2>5. \/ SameSession \/ UNCHANGED session
        \/ Sweep \/ Restart
        \/ \E b \in Bridges : RewriteHistory(b) \/ \E exited \in BOOLEAN : Disconnect(b, exited)
    BY <1>6, SameSessionSteps, Zenon
    DEF Next, RegistrationStep, RegisterMapping, ReadReceipts, BridgeStep, Connect, MakeCommand,
        Check, TakeCommand, EndLoop, Bail, Drop, Tick
  <2> QED
    BY <1>1, <1>3, <2>1, <2>2, <2>3, <2>4, <2>5
<1> QED
  BY <1>4, <1>5, <1>6

\* bridge_disconnected compares tokens, so the late end of a superseded bridge never
\* takes the sender away from the bridge that superseded it.
THEOREM SupersededBridgeIsFenced == Spec => []LiveBridgeKeepsItsSession
<1>1. Init => LiveBridgeKeepsItsSession
  BY CommandsAssumption DEF Init, LiveBridgeKeepsItsSession, Owns, IdleBridge
<1>2. TInv /\ LiveBridgeKeepsItsSession /\ [Next]_vars => LiveBridgeKeepsItsSession'
  BY KeepsItsSessionStep
<1> QED
  BY <1>1, <1>2, TypeInvariant, PTL DEF Spec
=============================================================================
