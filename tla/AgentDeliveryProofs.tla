------------------------ MODULE AgentDeliveryProofs ------------------------
(* Two proofs about what reaches the agent.

   The first: a command reaches only the process, and only through the daemon run, it was
   addressed to.  Neither half of the address is enough: a generation may be given twice by
   two runs (the save that recorded it failed), and a rewrite of the old session's history
   while a new process registers moves the mapping of the new process to the epoch the old
   session shows.  Their combination is what AddressInv is about.

   The second: a command is forwarded at most once, and only when it is on disk, for clients
   that wait for the answer of a submission before they try its identifier again (~Overlap)
   and within the retention time of receipts (MaxClock <= Ttl).  Both assumptions are needed:
   the check for a receipt and its recording are two critical sections, and an expired receipt
   is forgotten with the identifier it stands for.                                           *)
EXTENDS AgentCommandsProofs

Installing == reg.step \in {"receipts", "install"}

\* Bridges that have not connected yet are referred to by nothing.
UnusedInv ==
  /\ \A b \in Bridges : bridges[b].stage = "idle" =>
       /\ bridges[b].queue = <<>> /\ bridges[b].taken = {}
       /\ session.token # b
       /\ \A t \in Tasks : tasks[t].sender # b
  /\ reg.step # "free" => bridges[reg.bridge].stage # "idle"
  /\ session.sender \in {None, session.token}

\* Epochs in use were minted, and a command was made in this run or an earlier one.
EpochInv ==
  /\ session.epoch < nextEpoch /\ mapping.epoch < nextEpoch /\ file.mapping.epoch < nextEpoch
  /\ reg.epoch < nextEpoch
  /\ \A c \in Commands : commands[c].epoch < nextEpoch /\ commands[c].run <= run

\* Within a run a generation belongs to one process.
GenerationInv ==
  /\ Live => /\ session.gen <= mapping.gen
             /\ session.gen = mapping.gen => bridges[session.token].process = mapping.nonce
  /\ Installing => reg.gen = mapping.gen /\ bridges[reg.bridge].process = mapping.nonce
  /\ \A c \in Commands : Made(c) /\ commands[c].run = run =>
       /\ commands[c].gen <= mapping.gen
       /\ commands[c].gen = mapping.gen => commands[c].process = mapping.nonce
       /\ Live /\ commands[c].gen = session.gen =>
            commands[c].process = bridges[session.token].process

\* The epoch of a command of an earlier run is not in use any more.
EarlierRunInv ==
  \A c \in Commands : Made(c) /\ commands[c].run # run =>
    /\ Live => commands[c].epoch # session.epoch
    /\ Installing => commands[c].epoch # reg.epoch
    /\ Live \/ Installing \/ reg.live # -1 => commands[c].epoch # mapping.epoch

\* A command on its way is on its way to its addressee.
AddressedTo(c, b) == Made(c) /\ commands[c].process = bridges[b].process /\ commands[c].run = run

DeliveryInv ==
  /\ \A b \in Bridges : \A c \in Delivered(b) : AddressedTo(c, b)
  /\ \A t \in Tasks : tasks[t].step # "idle" => Made(tasks[t].command)
  /\ \A t \in Tasks : tasks[t].step = "send" /\ tasks[t].sender # None =>
       AddressedTo(tasks[t].command, tasks[t].sender)

AddressInv == UnusedInv /\ EpochInv /\ GenerationInv /\ EarlierRunInv /\ DeliveryInv

\* The initial state satisfies all of them.
LEMMA AddressInit == Init => AddressInv
<1> SUFFICES ASSUME Init PROVE AddressInv
  BY Zenon
<1>1. UnusedInv
  BY CommandsAssumption, Zenon DEF Init, UnusedInv, IdleBridge, NoSession, IdleTask, NoRegistration
<1>2. EpochInv
  BY DEF Init, EpochInv, NoSession, Unmapped, NoRegistration, Unmade
<1>3. GenerationInv /\ EarlierRunInv
  BY Zenon DEF Init, GenerationInv, EarlierRunInv, NoSession, NoRegistration, Live, Installing, Made, Unmade
<1>4. DeliveryInv
  BY DEF Init, DeliveryInv, Delivered, IdleBridge, IdleTask
<1> QED
  BY <1>1, <1>2, <1>3, <1>4, Zenon DEF AddressInv

\* A step that changes no identity: the session keeps its own or is gone.
QuietSession ==
  \/ session' = NoSession
  \/ /\ session'.token = session.token /\ session'.sender \in {session.sender, None}
     /\ session'.gen = session.gen /\ session'.epoch = session.epoch

QuietStore ==
  /\ mapping'.nonce = mapping.nonce /\ mapping'.gen = mapping.gen /\ mapping'.epoch = mapping.epoch
  /\ file'.mapping.epoch \in {file.mapping.epoch, mapping.epoch}

QuietBridges ==
  \A b \in Bridges :
    /\ bridges'[b].process = bridges[b].process
    /\ bridges'[b].stage = "idle" => bridges'[b] = bridges[b]

QuietReg ==
  /\ reg'.step # "free" => reg.step # "free" /\ reg'.bridge = reg.bridge
  /\ Installing' => Installing /\ reg'.gen = reg.gen
  /\ reg'.epoch \in {reg.epoch, 0}
  /\ Installing' => reg'.epoch = reg.epoch
  /\ reg'.live # -1 => reg.live # -1 \/ Live

QuietTasks ==
  \A t \in Tasks :
    /\ tasks'[t].sender \in {tasks[t].sender, None, session.sender}
    /\ tasks'[t].step # "idle" => Made(tasks'[t].command)
    /\ tasks'[t].step = "send" /\ tasks'[t].sender # None =>
         AddressedTo(tasks'[t].command, tasks'[t].sender)

QuietDelivery ==
  \A b \in Bridges : \A c \in Delivered(b)' : AddressedTo(c, b)

\* Such a step keeps every command on its way to its addressee.
LEMMA QuietStep ==
  ASSUME TInv, TInv', AddressInv, UNCHANGED <<commands, nextEpoch, run>>,
         QuietSession, QuietStore, QuietBridges, QuietReg, QuietTasks, QuietDelivery
  PROVE  AddressInv'
<1>1. Live' => Live /\ session'.token = session.token /\ session'.gen = session.gen /\ session'.epoch = session.epoch
  BY DEF QuietSession, NoSession, Live
<1>2. session'.epoch \in {session.epoch, 0} /\ session'.token \in {session.token, None}
      /\ session'.sender \in {None, session.sender}
  BY DEF QuietSession, NoSession
<1>3. UnusedInv'
  <2>1. \A b \in Bridges : bridges'[b].stage = "idle" =>
          /\ bridges[b].stage = "idle" /\ bridges'[b].queue = bridges[b].queue
          /\ bridges'[b].taken = bridges[b].taken
    BY Zenon DEF QuietBridges
  <2>2. \A b \in Bridges : bridges[b].stage = "idle" => session'.token # b
    BY <1>2, CommandsAssumption DEF AddressInv, UnusedInv
  <2>3. \A b \in Bridges, t \in Tasks : bridges[b].stage = "idle" => tasks'[t].sender # b
    BY CommandsAssumption DEF AddressInv, UnusedInv, QuietTasks
  <2>4. reg'.step # "free" => bridges'[reg'.bridge].stage # "idle"
    BY <2>1, Zenon DEF AddressInv, UnusedInv, QuietReg, TInv
  <2>5. session'.sender \in {None, session'.token}
    BY DEF QuietSession, AddressInv, UnusedInv, NoSession
  <2> QED
    BY <2>1, <2>2, <2>3, <2>4, <2>5, Zenon DEF AddressInv, UnusedInv
<1>4. EpochInv'
  BY <1>2, Zenon DEF AddressInv, EpochInv, QuietStore, QuietReg, TInv, TypeOK
<1>5. Live => session.token \in Bridges
  BY Zenon DEF TInv
<1>6. GenerationInv'
  <2>1. Live' => /\ session'.gen <= mapping'.gen
                 /\ session'.gen = mapping'.gen => bridges'[session'.token].process = mapping'.nonce
    BY <1>1, <1>5, Zenon DEF AddressInv, GenerationInv, QuietStore, QuietBridges
  <2>2. Installing' => reg'.gen = mapping'.gen /\ bridges'[reg'.bridge].process = mapping'.nonce
    BY Zenon DEF AddressInv, GenerationInv, QuietStore, QuietBridges, QuietReg, Installing, TInv
  <2>3. ASSUME NEW c \in Commands, Made(c)', commands'[c].run = run'
        PROVE  /\ commands'[c].gen <= mapping'.gen
               /\ commands'[c].gen = mapping'.gen => commands'[c].process = mapping'.nonce
               /\ Live' /\ commands'[c].gen = session'.gen =>
                    commands'[c].process = bridges'[session'.token].process
    BY <1>1, <1>5, <2>3, Zenon DEF AddressInv, GenerationInv, QuietStore, QuietBridges, Made
  <2> QED
    BY <2>1, <2>2, <2>3, Zenon DEF GenerationInv
<1>7. EarlierRunInv'
  BY <1>1, Zenon DEF AddressInv, EarlierRunInv, QuietStore, QuietReg, Made
<1>8. DeliveryInv'
  <2>1. \A c \in Commands, b \in Bridges : AddressedTo(c, b) => AddressedTo(c, b)'
    BY Zenon DEF AddressedTo, Made, QuietBridges
  <2>2. \A b \in Bridges : Delivered(b)' \subseteq Commands
    BY DEF Delivered, TInv, TypeOK, Bridge
  <2>3. \A b \in Bridges : \A c \in Delivered(b)' : AddressedTo(c, b)'
    BY <2>1, <2>2, Zenon DEF QuietDelivery
  <2>4. ASSUME NEW t \in Tasks, tasks'[t].step # "idle"
        PROVE  Made(tasks[t].command)'
    BY <2>4, Zenon DEF QuietTasks, Made
  <2>5. ASSUME NEW t \in Tasks, tasks'[t].step = "send", tasks'[t].sender # None
        PROVE  AddressedTo(tasks[t].command, tasks[t].sender)'
    <3>1. tasks'[t].command \in Commands /\ tasks'[t].sender \in Bridges
      BY <2>5, Zenon DEF TInv, TypeOK, Task
    <3> QED
      BY <2>1, <2>5, <3>1, Zenon DEF QuietTasks
  <2> QED
    BY <2>3, <2>4, <2>5, Zenon DEF DeliveryInv
<1> QED
  BY <1>3, <1>4, <1>6, <1>7, <1>8, Zenon DEF AddressInv

\* Steps that touch neither the mapping's identity nor the commands.
LEMMA AddressQuiet ==
  ASSUME TInv, TInv', AddressInv,
         \/ FenceInFlight
         \/ \E done \in SUBSET Commands, c \in Commands : FenceFails(done, c)
         \/ ReadReceipts
         \/ Sweep \/ Update \/ Tick \/ UNCHANGED vars
  PROVE  AddressInv'
<1>1. UNCHANGED <<commands, nextEpoch, run>> /\ UNCHANGED tasks
  BY Zenon DEF FenceInFlight, FenceFails, ReadReceipts, Sweep, Update, Tick, vars
<1>2. QuietSession
  BY SameSessionSteps, Zenon DEF SameSession, QuietSession, ReadReceipts, Sweep, Tick, vars
<1>3. QuietStore
  <2>1. CASE Update
    BY <2>1 DEF Update, PersistFails, QuietStore, TInv, TypeOK, Mapping
  <2>2. CASE FenceInFlight
    BY <2>2 DEF FenceInFlight, PersistUpTo, QuietStore
  <2>3. CASE \E done \in SUBSET Commands, c \in Commands : FenceFails(done, c)
    BY <2>3 DEF FenceFails, PersistUpTo, QuietStore
  <2> QED
    BY <2>1, <2>2, <2>3, Zenon DEF QuietStore, ReadReceipts, Sweep, Tick, vars
<1>4. QuietBridges
  <2>1. CASE \E done \in SUBSET Commands, c \in Commands : FenceFails(done, c)
    BY <2>1 DEF FenceFails, RegistrationFails, QuietBridges, TInv, TypeOK, Bridge
  <2> QED
    BY <2>1, Zenon DEF QuietBridges, FenceInFlight, ReadReceipts, Sweep, Update, Tick, vars
<1>5. QuietReg
  <2>1. CASE FenceInFlight
    BY <2>1, ZenonT(30) DEF FenceInFlight, QuietReg, Installing, TInv, TypeOK, Registration
  <2>2. CASE ReadReceipts
    BY <2>2, Zenon DEF ReadReceipts, QuietReg, Installing, TInv, TypeOK, Registration
  <2>3. CASE \E done \in SUBSET Commands, c \in Commands : FenceFails(done, c)
    BY <2>3 DEF FenceFails, RegistrationFails, NoRegistration, QuietReg, Installing
  <2> QED
    BY <2>1, <2>2, <2>3, Zenon DEF QuietReg, Installing, Sweep, Update, Tick, vars
<1>6. QuietTasks
  BY <1>1, Zenon DEF QuietTasks, AddressInv, DeliveryInv
<1>7. QuietDelivery
  <2>1. \A b \in Bridges : Delivered(b)' = Delivered(b)
    <3>1. \A b \in Bridges : bridges'[b].queue = bridges[b].queue /\ bridges'[b].taken = bridges[b].taken
      <4>1. CASE \E done \in SUBSET Commands, c \in Commands : FenceFails(done, c)
        BY <4>1 DEF FenceFails, RegistrationFails, TInv, TypeOK, Bridge
      <4> QED
        BY <4>1, Zenon DEF FenceInFlight, ReadReceipts, Sweep, Update, Tick, vars
    <3> QED
      BY <3>1, Zenon DEF Delivered
  <2> QED
    BY <2>1, Zenon DEF QuietDelivery, AddressInv, DeliveryInv
<1> QED
  BY <1>1, <1>2, <1>3, <1>4, <1>5, <1>6, <1>7, QuietStep, Zenon

\* What a stale-checked command of the live session is addressed to.
LEMMA AddressesMeans ==
  ASSUME TInv, AddressInv, Live, NEW c \in Commands, Made(c), Addresses(c)
  PROVE  AddressedTo(c, session.token)
<1>1. commands[c].run = run
  BY Zenon DEF Addresses, AddressInv, EarlierRunInv
<1> QED
  BY <1>1, Zenon DEF Addresses, AddressInv, GenerationInv, AddressedTo

\* Submissions: a command is handed to a sender only if it addresses its process.
LEMMA AddressTask ==
  ASSUME TInv, TInv', AddressInv,
         (\E t \in Tasks, c \in Commands : Check(t, c)) \/ \E t \in Tasks : TaskStep(t)
  PROVE  AddressInv'
<1>1. UNCHANGED <<commands, nextEpoch, run, mapping, reg>>
  BY Zenon DEF Check, TaskStep, SubmitUnavailable, SubmitRefused, SubmitAccepted, Forward, MarkOutcomeUnknown
<1>2. QuietSession
  BY SameSessionSteps, Zenon DEF SameSession, QuietSession, Check
<1>3. QuietStore
  <2>1. \/ UNCHANGED file
        \/ \E st : Persist(mapping, st) \/ PersistFails(mapping, st)
    BY ZenonT(30) DEF Check, TaskStep, SubmitUnavailable, SubmitRefused, SubmitAccepted, Forward, MarkOutcomeUnknown
  <2> QED
    BY <1>1, <2>1 DEF QuietStore, Persist, PersistFails
<1>4. QuietBridges
  <2>1. ASSUME NEW t \in Tasks, Forward(t) PROVE QuietBridges
    <3>1. tasks[t].sender \in Bridges
      BY <2>1, Zenon DEF Forward, Sendable, TInv, TypeOK, Task
    <3>2. bridges[tasks[t].sender].stage # "idle"
      BY <3>1, Zenon DEF AddressInv, UnusedInv
    <3> QED
      BY <2>1, <3>1, <3>2, SMTT(30) DEF Forward, QuietBridges, TInv, TypeOK, Bridge
  <2> QED
    BY <2>1, ZenonT(30) DEF QuietBridges, Check, TaskStep, SubmitUnavailable, SubmitRefused, SubmitAccepted,
                MarkOutcomeUnknown
<1>5. QuietReg
  BY <1>1, Zenon DEF QuietReg, Installing, TInv, TypeOK, Registration
<1>6. QuietTasks
  <2>1. ASSUME NEW t \in Tasks, NEW c \in Commands, Check(t, c) PROVE QuietTasks
    BY <2>1, Zenon DEF Check, QuietTasks, AddressInv, DeliveryInv, TInv, TypeOK
  <2>2. ASSUME NEW t \in Tasks, tasks' = [tasks EXCEPT ![t] = IdleTask] PROVE QuietTasks
    BY <2>2, Zenon DEF IdleTask, QuietTasks, AddressInv, DeliveryInv, TInv, TypeOK
  <2>3. ASSUME NEW t \in Tasks, SubmitAccepted(t) PROVE QuietTasks
    <3> DEFINE c == tasks[t].command
    <3>1. Live /\ Addresses(c) /\ c \in Commands /\ Made(c)
      BY <2>3, Zenon DEF SubmitAccepted, TInv, AddressInv, DeliveryInv
    <3>2. AddressedTo(c, session.token)
      BY <3>1, AddressesMeans, Zenon
    <3>3. CASE tasks' = [tasks EXCEPT ![t].step = "send", ![t].sender = session.sender]
      <4>1. tasks'[t].command = c /\ tasks'[t].sender = session.sender
        BY <3>3 DEF TInv, TypeOK, Task
      <4>2. \A u \in Tasks : u # t => tasks'[u] = tasks[u]
        BY <3>3, Zenon DEF TInv, TypeOK
      <4>3. session.sender # None => session.sender = session.token
        BY Zenon DEF AddressInv, UnusedInv
      <4> QED
        BY <3>1, <3>2, <4>1, <4>2, <4>3, Zenon DEF QuietTasks, AddressInv, DeliveryInv
    <3> QED
      BY <2>2, <2>3, <3>3, Zenon DEF SubmitAccepted
  <2> QED
    BY <2>1, <2>2, <2>3, Zenon DEF TaskStep, SubmitUnavailable, SubmitRefused, Forward, MarkOutcomeUnknown
<1>7. QuietDelivery
  <2>1. ASSUME NEW t \in Tasks, Forward(t) PROVE QuietDelivery
    <3>0. PICK s \in Bridges, c \in Commands : s = tasks[t].sender /\ c = tasks[t].command
      BY <2>1, Zenon DEF Forward, Sendable, TInv, TypeOK, Task
    <3>1. AddressedTo(c, s)
      BY <2>1, <3>0, CommandsAssumption, Zenon DEF Forward, Sendable, AddressInv, DeliveryInv
    <3>2. bridges'[s].queue = Append(bridges[s].queue, c) /\ bridges'[s].taken = bridges[s].taken
      BY <2>1, <3>0, SMTT(30) DEF Forward, TInv, TypeOK, Bridge
    <3>3. \A b \in Bridges : b # s => bridges'[b] = bridges[b]
      BY <2>1, <3>0, Zenon DEF Forward, TInv, TypeOK
    <3>4. bridges[s].queue \in Seq(Commands)
      BY Zenon DEF TInv, TypeOK, Bridge
    <3>5. Delivered(s)' \subseteq Delivered(s) \cup {c}
      BY <3>2, <3>4 DEF Delivered
    <3>6. \A b \in Bridges : b # s => Delivered(b)' = Delivered(b)
      BY <3>3, Zenon DEF Delivered
    <3> QED
      BY <3>1, <3>5, <3>6, Zenon DEF QuietDelivery, AddressInv, DeliveryInv
  <2>2. ASSUME UNCHANGED bridges PROVE QuietDelivery
    BY <2>2, Zenon DEF QuietDelivery, Delivered, AddressInv, DeliveryInv
  <2> QED
    BY <2>1, <2>2, Zenon DEF Check, TaskStep, SubmitUnavailable, SubmitRefused, SubmitAccepted,
                      MarkOutcomeUnknown
<1> QED
  BY <1>1, <1>2, <1>3, <1>4, <1>5, <1>6, <1>7, QuietStep, Zenon

\* The bridge task moves commands on, or drops them.
LEMMA AddressBridge ==
  ASSUME TInv, TInv', AddressInv, NEW b \in Bridges, BridgeStep(b), ~RewriteHistory(b)
  PROVE  AddressInv'
<1>1. UNCHANGED <<commands, nextEpoch, run, mapping, reg, tasks>>
  BY Zenon DEF BridgeStep, TakeCommand, RecordReceipt, EndLoop, Bail, Disconnect, Drop
<1>2. QuietSession
  <2>1. ASSUME NEW exited \in BOOLEAN, Disconnect(b, exited) PROVE QuietSession
    BY <2>1, DisconnectEffect, Zenon DEF QuietSession
  <2> QED
    BY Zenon, <2>1, SameSessionSteps
    DEF SameSession, QuietSession, BridgeStep, TakeCommand, EndLoop, Bail, Drop
<1>3. QuietStore
  <2>1. file'.mapping \in {file.mapping, mapping}
    <3>1. ASSUME NEW c \in Commands, NEW state \in {"accepted"} \cup Verdicts, RecordReceipt(b, c, state)
          PROVE  file'.mapping \in {file.mapping, mapping}
      BY <3>1 DEF RecordReceipt, Persist, PersistFails
    <3>2. ASSUME NEW exited \in BOOLEAN, Disconnect(b, exited)
          PROVE  file'.mapping \in {file.mapping, mapping}
      BY <3>2 DEF Disconnect, PersistUpTo
    <3> QED
      BY <3>1, <3>2, Zenon DEF BridgeStep, TakeCommand, EndLoop, Bail, Drop
  <2> QED
    BY <1>1, <2>1, Zenon DEF QuietStore
<1>4. bridges[b].stage # "idle" \/ UNCHANGED bridges
  BY Zenon DEF BridgeStep, TakeCommand, RecordReceipt, EndLoop, Bail, Disconnect, Drop
<1>5. /\ \A x \in Bridges : x # b => bridges'[x] = bridges[x]
      /\ bridges'[b].process = bridges[b].process
      /\ bridges'[b].stage = "idle" => bridges[b].stage = "idle"
  <2>1. bridges[b] \in Bridge /\ bridges \in [Bridges -> Bridge]
    BY Zenon DEF TInv, TypeOK
  <2>2. CASE TakeCommand(b)
    BY <2>1, <2>2, Zenon DEF TakeCommand, Bridge
  <2>3. CASE EndLoop(b) \/ Bail(b) \/ Drop(b) \/ \E exited \in BOOLEAN : Disconnect(b, exited)
    BY <2>1, <2>3 DEF EndLoop, Bail, Drop, Disconnect, Bridge
  <2>4. CASE UNCHANGED bridges
    BY <2>4, Zenon
  <2> QED
    BY <2>2, <2>3, <2>4, Zenon DEF BridgeStep, RecordReceipt
<1>6. QuietBridges
  BY <1>4, <1>5, Zenon DEF QuietBridges
<1>7. QuietReg
  BY <1>1, Zenon DEF QuietReg, Installing, TInv, TypeOK, Registration
<1>8. QuietTasks
  BY <1>1, Zenon DEF QuietTasks, AddressInv, DeliveryInv
<1>9. QuietDelivery
  <2>1. \A x \in Bridges : x # b => Delivered(x)' = Delivered(x)
    BY <1>5, Zenon DEF Delivered
  <2>2. Delivered(b)' \subseteq Delivered(b)
    <3>1. bridges[b] \in Bridge /\ bridges \in [Bridges -> Bridge]
      BY Zenon DEF TInv, TypeOK
    <3>2. CASE TakeCommand(b)
      <4> DEFINE q == bridges[b].queue
      <4>1. q \in Seq(Commands) /\ q # <<>>
        BY <3>1, <3>2, Zenon DEF TakeCommand, Bridge
      <4>2. bridges'[b].queue = Tail(q) /\ bridges'[b].taken = bridges[b].taken \cup {Head(q)}
        BY <3>1, <3>2, Zenon DEF TakeCommand, Bridge
      <4>3. Head(q) \in {q[i] : i \in DOMAIN q} /\ {Tail(q)[i] : i \in DOMAIN Tail(q)} \subseteq {q[i] : i \in DOMAIN q}
        <5> HIDE DEF q
        <5>1. Head(q) = q[1] /\ 1 \in DOMAIN q
          BY <4>1
        <5>2. \A i \in DOMAIN Tail(q) : i + 1 \in DOMAIN q /\ Tail(q)[i] = q[i + 1]
          BY <4>1
        <5> QED
          BY <5>1, <5>2
      <4> QED
        BY <4>2, <4>3, Zenon DEF Delivered
    <3>3. CASE Bail(b) \/ Drop(b)
      <4>1. bridges'[b].queue = <<>> /\ bridges'[b].taken = {}
        BY <3>1, <3>3 DEF Bail, Drop, Bridge
      <4> QED
        BY <4>1 DEF Delivered
    <3>4. CASE EndLoop(b) \/ \E exited \in BOOLEAN : Disconnect(b, exited)
      <4>1. bridges'[b].queue = bridges[b].queue /\ bridges'[b].taken = bridges[b].taken
        BY <3>1, <3>4, Zenon DEF EndLoop, Disconnect, Bridge
      <4> QED
        BY <4>1, Zenon DEF Delivered
    <3>5. CASE UNCHANGED bridges
      BY <3>5, Zenon DEF Delivered
    <3> QED
      BY <3>2, <3>3, <3>4, <3>5, Zenon DEF BridgeStep, RecordReceipt
  <2> QED
    BY <2>1, <2>2, Zenon DEF QuietDelivery, AddressInv, DeliveryInv
<1> QED
  BY <1>1, <1>2, <1>3, <1>6, <1>7, <1>8, <1>9, QuietStep, Zenon

\* A rewrite mints an epoch that no command carries yet.
LEMMA AddressRewrite ==
  ASSUME TInv, TInv', AddressInv, NEW b \in Bridges, RewriteHistory(b)
  PROVE  AddressInv'
<1>1. /\ Live /\ Live' /\ session'.token = session.token /\ session'.sender = session.sender
      /\ session'.gen = session.gen /\ session'.epoch = nextEpoch
  BY Zenon DEF RewriteHistory, Live, TInv, TypeOK, Session
<1>2. /\ mapping'.gen = mapping.gen /\ mapping'.nonce = mapping.nonce /\ mapping'.epoch = nextEpoch
      /\ nextEpoch' = nextEpoch + 1
  BY Zenon DEF RewriteHistory, TInv, TypeOK, Mapping
<1>3. file'.mapping.epoch \in {file.mapping.epoch, nextEpoch}
  <2> DEFINE moved == [mapping EXCEPT !.epoch = nextEpoch]
             saved == [moved EXCEPT !.seed = Seed(session.rev + 1)]
  <2>1. moved.epoch = nextEpoch /\ saved.epoch = nextEpoch
    BY Zenon DEF TInv, TypeOK, Mapping
  <2>2. Persist(moved, store) \/ Persist(saved, store) \/ PersistFails(moved, store)
    BY Zenon DEF RewriteHistory
  <2> HIDE DEF moved, saved
  <2> QED
    BY <2>1, <2>2 DEF Persist, PersistFails
<1>4. UNCHANGED <<reg, bridges, tasks, commands, run>>
  BY Zenon DEF RewriteHistory
<1>5. UnusedInv'
  BY <1>1, <1>4, Zenon DEF AddressInv, UnusedInv
<1>6. EpochInv'
  BY <1>1, <1>2, <1>3, <1>4 DEF AddressInv, EpochInv, TInv, TypeOK, Mapping, Session, Registration, Command
<1>7. GenerationInv'
  BY <1>1, <1>2, <1>4, Zenon DEF AddressInv, GenerationInv, Installing, Made
<1>8. EarlierRunInv'
  BY <1>1, <1>2, <1>4, SMTT(30) DEF AddressInv, EarlierRunInv, EpochInv, Installing, Made, TInv, TypeOK, Command
<1>9. DeliveryInv'
  BY <1>4, SMTT(30) DEF AddressInv, DeliveryInv, Delivered, AddressedTo, Made
<1> QED
  BY <1>5, <1>6, <1>7, <1>8, <1>9, Zenon DEF AddressInv

\* A connection gives an unused bridge its process.
LEMMA AddressConnect ==
  ASSUME TInv, TInv', AddressInv, NEW b \in Bridges, NEW p \in Processes, Connect(b, p)
  PROVE  AddressInv'
<1>1. UNCHANGED <<mapping, file, session, tasks, commands, nextEpoch, run>> /\ bridges[b].stage = "idle"
  BY Zenon DEF Connect
<1>2. /\ reg'.step = "fence" /\ reg'.bridge = b /\ reg'.epoch = 0 /\ reg'.live = -1
  BY Zenon DEF Connect, NoRegistration
<1>3. /\ bridges'[b].stage = "registering" /\ bridges'[b].queue = <<>> /\ bridges'[b].taken = {}
      /\ \A x \in Bridges : x # b => bridges'[x] = bridges[x]
  BY <1>1, Zenon DEF Connect, TInv, TypeOK, Bridge, AddressInv, UnusedInv
<1>4. UnusedInv'
  BY <1>1, <1>2, <1>3 DEF AddressInv, UnusedInv
<1>5. EpochInv'
  BY <1>1, <1>2, Zenon DEF AddressInv, EpochInv, TInv, TypeOK
<1>6. Live => session.token \in Bridges \ {b}
  BY <1>1, Zenon DEF TInv, AddressInv, UnusedInv
<1>7. GenerationInv'
  BY <1>1, <1>2, <1>3, <1>6, Zenon DEF AddressInv, GenerationInv, Live, Installing, Made
<1>8. EarlierRunInv'
  BY <1>1, <1>2, Zenon DEF AddressInv, EarlierRunInv, Live, Installing, Made
<1>9. DeliveryInv'
  <2>1. Delivered(b)' = {}
    BY <1>3 DEF Delivered
  <2>2. \A x \in Bridges : x # b => Delivered(x)' = Delivered(x)
    BY <1>3, Zenon DEF Delivered
  <2>3. \A c \in Commands, x \in Bridges : x # b /\ AddressedTo(c, x) => AddressedTo(c, x)'
    BY <1>1, <1>3, Zenon DEF AddressedTo, Made
  <2>4. \A x \in Bridges : \A c \in Delivered(x)' : AddressedTo(c, x)'
    <3>1. \A x \in Bridges : Delivered(x) \subseteq Commands
      BY SMTT(30) DEF Delivered, TInv, TypeOK, Bridge
    <3> QED
      BY <2>1, <2>2, <2>3, <3>1, Zenon DEF AddressInv, DeliveryInv
  <2>5. ASSUME NEW t \in Tasks, tasks[t].step = "send", tasks[t].sender # None
        PROVE  AddressedTo(tasks[t].command, tasks[t].sender)'
    <3>1. tasks[t].command \in Commands /\ tasks[t].sender \in Bridges \ {b}
      BY <1>1, <2>5, Zenon DEF TInv, TypeOK, Task, AddressInv, UnusedInv
    <3> QED
      BY <1>1, <2>3, <2>5, <3>1, Zenon DEF AddressInv, DeliveryInv
  <2> QED
    BY <1>1, <2>4, <2>5, Zenon DEF AddressInv, DeliveryInv, Made
<1> QED
  BY <1>4, <1>5, <1>7, <1>8, <1>9, Zenon DEF AddressInv

\* Registrations change no process and no queue, so what is on its way stays so.
LEMMA AddressedStays ==
  ASSUME TInv, DeliveryInv, UNCHANGED <<commands, run, tasks>>,
         \A x \in Bridges : /\ bridges'[x].process = bridges[x].process
                            /\ bridges'[x].queue = bridges[x].queue
                            /\ bridges'[x].taken = bridges[x].taken
  PROVE  DeliveryInv'
<1>1. \A x \in Bridges : Delivered(x)' = Delivered(x) /\ Delivered(x) \subseteq Commands
  <2>1. \A x \in Bridges : bridges[x].queue \in Seq(Commands) /\ bridges[x].taken \subseteq Commands
    BY Zenon DEF TInv, TypeOK, Bridge
  <2> QED
    BY <2>1 DEF Delivered
<1>2. \A c \in Commands, x \in Bridges : AddressedTo(c, x) => AddressedTo(c, x)'
  BY Zenon DEF AddressedTo, Made
<1>3. \A x \in Bridges : \A c \in Delivered(x)' : AddressedTo(c, x)'
  BY <1>1, <1>2, Zenon DEF DeliveryInv
<1>4. ASSUME NEW t \in Tasks, tasks[t].step = "send", tasks[t].sender # None
      PROVE  AddressedTo(tasks[t].command, tasks[t].sender)'
  <2>1. tasks[t].command \in Commands /\ tasks[t].sender \in Bridges
    BY <1>4, Zenon DEF TInv, TypeOK, Task
  <2> QED
    BY <1>2, <1>4, <2>1, Zenon DEF DeliveryInv
<1> QED
  BY <1>3, <1>4, Zenon DEF DeliveryInv, Made

\* A new generation is new in this run; a kept epoch was in use in this run.
LEMMA AddressMapping ==
  ASSUME TInv, TInv', AddressInv, RegisterMapping
  PROVE  AddressInv'
<1> DEFINE b == reg.bridge
           p == bridges[b].process
           m == Remapped(p)
<1>1. UNCHANGED <<session, tasks, commands, run>> /\ reg.step = "meta" /\ mapping' = m
  BY Zenon DEF RegisterMapping
<1>2. b \in Bridges /\ bridges[b].stage # "idle"
  BY <1>1, Zenon DEF TInv, AddressInv, UnusedInv
<1>3. /\ m.nonce = p
      /\ m.gen = IF mapping.nonce = p THEN mapping.gen ELSE mapping.gen + 1
      /\ (m.epoch = mapping.epoch /\ reg.live # -1) \/ m.epoch = nextEpoch
  BY Zenon DEF Remapped, KeepsEpoch
<1>4. nextEpoch' = IF m.epoch = nextEpoch THEN nextEpoch + 1 ELSE nextEpoch
  BY Zenon DEF RegisterMapping
<1>5. file'.mapping \in {file.mapping, m}
  BY DEF RegisterMapping, Persist, PersistFails
<1>6. \/ /\ reg'.step = "receipts" /\ reg'.bridge = b /\ reg'.gen = m.gen /\ reg'.epoch = m.epoch
         /\ reg'.live = reg.live /\ UNCHANGED bridges
      \/ /\ reg' = NoRegistration /\ bridges' = [bridges EXCEPT ![b].stage = "ended"]
  <2> HIDE DEF m
  <2>1. \/ /\ reg' = [reg EXCEPT !.step = "receipts", !.gen = m.gen, !.epoch = m.epoch, !.rev = m.seed]
           /\ UNCHANGED bridges
        \/ RegistrationFails
    BY Zenon DEF RegisterMapping, m
  <2>2. m.gen \in Nat /\ m.epoch \in Nat /\ m.seed \in Nat /\ reg \in Registration
    BY <1>1, Zenon DEF TInv, TypeOK, Mapping
  <2> QED
    BY <2>1, <2>2, ZenonT(30) DEF RegistrationFails, Registration
<1> HIDE DEF m
<1>7. \A x \in Bridges : /\ bridges'[x].process = bridges[x].process
                         /\ bridges'[x].queue = bridges[x].queue
                         /\ bridges'[x].taken = bridges[x].taken
                         /\ bridges'[x].stage = "idle" => bridges[x].stage = "idle"
  <2>1. bridges \in [Bridges -> Bridge]
    BY Zenon DEF TInv, TypeOK
  <2>2. CASE bridges' = [bridges EXCEPT ![b].stage = "ended"]
    BY <1>2, <2>1, <2>2, Zenon DEF Bridge
  <2> QED
    BY <1>6, <2>2, Zenon
<1>8. reg'.step # "free" => reg'.step = "receipts" /\ reg'.bridge = b /\ reg'.gen = m.gen /\ reg'.epoch = m.epoch
                            /\ reg'.live = reg.live /\ UNCHANGED bridges
  BY <1>6 DEF NoRegistration
<1>9. /\ reg'.epoch \in {m.epoch, 0} /\ (reg'.live # -1 => reg.live # -1)
      /\ Installing' => reg'.step # "free"
  BY <1>6 DEF NoRegistration, Installing
<1>10. UnusedInv'
  BY <1>1, <1>2, <1>7, <1>8 DEF AddressInv, UnusedInv
<1>11. EpochInv'
  BY <1>1, <1>3, <1>4, <1>5, <1>9, SMTT(30) DEF AddressInv, EpochInv, TInv, TypeOK, Mapping, Session, Command, Registration
<1>12. GenerationInv'
  <2>1. Live => session.token \in Bridges
    BY Zenon DEF TInv
  <2>2. mapping.gen \in Nat /\ session.gen \in Nat /\ \A c \in Commands : commands[c].gen \in Nat
    BY Zenon DEF TInv, TypeOK, Mapping, Session, Command
  <2>3. Live => /\ session.gen <= m.gen
                /\ session.gen = m.gen => bridges'[session.token].process = m.nonce
    BY <1>3, <1>7, <2>1, <2>2 DEF AddressInv, GenerationInv
  <2>4. Installing' => reg'.gen = m.gen /\ bridges'[reg'.bridge].process = m.nonce
    BY <1>2, <1>3, <1>7, <1>8, <1>9, Zenon
  <2>5. ASSUME NEW c \in Commands, Made(c), commands[c].run = run
        PROVE  /\ commands[c].gen <= m.gen
               /\ commands[c].gen = m.gen => commands[c].process = m.nonce
               /\ Live /\ commands[c].gen = session.gen => commands[c].process = bridges'[session.token].process
    BY <1>3, <1>7, <2>1, <2>2, <2>5, SMTT(30) DEF AddressInv, GenerationInv
  <2> QED
    BY <1>1, <2>3, <2>4, <2>5, Zenon DEF GenerationInv, Live, Made
<1>13. EarlierRunInv'
  <2>1. ASSUME NEW c \in Commands, Made(c), commands[c].run # run
        PROVE  commands[c].epoch # m.epoch /\ (Live => commands[c].epoch # session.epoch)
    <3>1. commands[c].epoch # nextEpoch
      <4>1. commands[c].epoch \in Nat /\ nextEpoch \in Nat
        BY Zenon DEF TInv, TypeOK, Command
      <4>2. commands[c].epoch < nextEpoch
        BY Zenon DEF AddressInv, EpochInv
      <4>3. QED
        BY <4>1, <4>2
    <3> QED
      BY <1>3, <2>1, <3>1, Zenon DEF AddressInv, EarlierRunInv
  <2> QED
    BY <1>1, <1>8, <1>9, <2>1, Zenon DEF EarlierRunInv, Live, Made
<1>14. DeliveryInv'
  BY <1>1, <1>7, AddressedStays, Zenon DEF AddressInv
<1> QED
  BY <1>10, <1>11, <1>12, <1>13, <1>14, Zenon DEF AddressInv

\* The installed session shows the mapping's own generation.
LEMMA AddressInstall ==
  ASSUME TInv, TInv', AddressInv, Install
  PROVE  AddressInv'
<1> DEFINE b == reg.bridge
<1>1. UNCHANGED <<mapping, file, tasks, commands, nextEpoch, run>> /\ reg' = NoRegistration
      /\ reg.step = "install" /\ bridges' = [bridges EXCEPT ![b].stage = "running"]
  BY Zenon DEF Install
<1>2. b \in Bridges /\ bridges[b].stage # "idle"
  BY <1>1, Zenon DEF TInv, AddressInv, UnusedInv
<1>3. session'.gen = reg.gen /\ session'.epoch = reg.epoch /\ session'.sender = b /\ session'.token = b
  BY Zenon DEF Install, NoSession
<1>4. \A x \in Bridges : /\ bridges'[x].process = bridges[x].process
                         /\ bridges'[x].queue = bridges[x].queue
                         /\ bridges'[x].taken = bridges[x].taken
                         /\ bridges'[x].stage = "idle" => bridges[x].stage = "idle"
  BY <1>1, <1>2, Zenon DEF TInv, TypeOK, Bridge
<1>5. Installing /\ ~Installing' /\ reg'.step = "free" /\ reg'.epoch = 0 /\ reg'.live = -1
  BY <1>1, Zenon DEF Installing, NoRegistration
<1>6. bridges'[b].stage = "running"
  BY <1>1, <1>2 DEF TInv, TypeOK, Bridge
<1>7. UnusedInv'
  BY <1>1, <1>2, <1>3, <1>4, <1>5, <1>6 DEF AddressInv, UnusedInv
<1>8. EpochInv'
  BY <1>1, <1>3, <1>5, Zenon DEF AddressInv, EpochInv, TInv, TypeOK, Registration
<1>9. GenerationInv'
  <2>1. reg.gen = mapping.gen /\ bridges'[b].process = mapping.nonce
    BY <1>2, <1>4, <1>5, Zenon DEF AddressInv, GenerationInv
  <2>2. mapping.gen \in Nat
    BY Zenon DEF TInv, TypeOK, Mapping
  <2> QED
    BY <1>1, <1>3, <1>5, <2>1, <2>2 DEF AddressInv, GenerationInv, Made
<1>10. EarlierRunInv'
  BY <1>1, <1>3, <1>5, Zenon DEF AddressInv, EarlierRunInv, Made
<1>11. DeliveryInv'
  BY <1>1, <1>4, AddressedStays, Zenon DEF AddressInv
<1> QED
  BY <1>7, <1>8, <1>9, <1>10, <1>11, Zenon DEF AddressInv

\* A command is made for the process and the run its client sees.
LEMMA AddressMake ==
  ASSUME TInv, TInv', AddressInv, NEW c \in Commands, NEW kind \in {"prompt", "answer"},
         NEW pinned \in BOOLEAN, MakeCommand(c, kind, pinned)
  PROVE  AddressInv'
<1>1. UNCHANGED <<mapping, file, session, reg, bridges, tasks, nextEpoch, run>> /\ Live /\ ~Made(c)
  BY Zenon DEF MakeCommand
<1>2. /\ \A d \in Commands : d # c => commands'[d] = commands[d]
      /\ commands'[c].gen = session.gen /\ commands'[c].epoch = session.epoch
      /\ commands'[c].run = run /\ commands'[c].process = bridges[session.token].process
  BY Zenon DEF MakeCommand, TInv, TypeOK
<1>3. UnusedInv'
  BY <1>1, Zenon DEF AddressInv, UnusedInv
<1>4. EpochInv'
  <2>1. run \in Nat
    BY Zenon DEF TInv, TypeOK
  <2>2. QED
    BY <1>1, <1>2, <2>1, SMTT(30) DEF AddressInv, EpochInv
<1>5. GenerationInv'
  BY <1>1, <1>2, Zenon DEF AddressInv, GenerationInv, Live, Installing, Made
<1>6. EarlierRunInv'
  BY <1>1, <1>2, Zenon DEF AddressInv, EarlierRunInv, Live, Installing, Made
<1>7. DeliveryInv'
  <2>1. \A d \in Commands, x \in Bridges : AddressedTo(d, x) => AddressedTo(d, x)'
    BY <1>1, <1>2, Zenon DEF AddressedTo, Made
  <2>2. \A x \in Bridges : Delivered(x)' = Delivered(x) /\ Delivered(x) \subseteq Commands
    BY <1>1, SMTT(30) DEF Delivered, TInv, TypeOK, Bridge
  <2>3. \A x \in Bridges : \A d \in Delivered(x)' : AddressedTo(d, x)'
    BY <2>1, <2>2, Zenon DEF AddressInv, DeliveryInv
  <2>4. ASSUME NEW t \in Tasks, tasks[t].step # "idle"
        PROVE  Made(tasks[t].command)'
    <3>1. tasks[t].command \in Commands /\ Made(tasks[t].command)
      BY <2>4, Zenon DEF TInv, AddressInv, DeliveryInv
    <3> QED
      BY <1>1, <1>2, <3>1, Zenon DEF Made
  <2>5. ASSUME NEW t \in Tasks, tasks[t].step = "send", tasks[t].sender # None
        PROVE  AddressedTo(tasks[t].command, tasks[t].sender)'
    <3>1. tasks[t].command \in Commands /\ tasks[t].sender \in Bridges
      BY <2>5, Zenon DEF TInv, TypeOK, Task
    <3> QED
      BY <1>1, <2>1, <2>5, <3>1, Zenon DEF AddressInv, DeliveryInv
  <2> QED
    BY <1>1, <2>3, <2>4, <2>5, Zenon DEF DeliveryInv
<1> QED
  BY <1>3, <1>4, <1>5, <1>6, <1>7, Zenon DEF AddressInv

\* After a restart nothing is on its way, and every command is of an earlier run.
LEMMA AddressRestart ==
  ASSUME TInv, TInv', AddressInv, Restart
  PROVE  AddressInv'
<1>1. /\ run' = run + 1 /\ mapping' = file.mapping /\ file'.mapping = file.mapping
      /\ session' = NoSession /\ reg' = NoRegistration /\ tasks' = [t \in Tasks |-> IdleTask]
      /\ UNCHANGED <<commands, nextEpoch>>
  BY Zenon DEF Restart, Persist
<1>2. \A b \in Bridges : /\ bridges'[b].queue = <<>> /\ bridges'[b].taken = {}
  BY Zenon DEF Restart, IdleBridge, AddressInv, UnusedInv
<1>3. ~Live' /\ ~Installing' /\ reg'.step = "free" /\ reg'.live = -1 /\ reg'.epoch = 0
      /\ session'.epoch = 0 /\ session'.sender = None /\ session'.token = None
  BY <1>1, Zenon DEF Live, Installing, NoSession, NoRegistration
<1>4. \A t \in Tasks : tasks'[t].step = "idle" /\ tasks'[t].sender = None
  BY <1>1, Zenon DEF IdleTask
<1>5. UnusedInv'
  BY <1>2, <1>3, <1>4, CommandsAssumption, Zenon DEF UnusedInv
<1>6. EpochInv'
  BY <1>1, <1>3 DEF AddressInv, EpochInv, TInv, TypeOK, Command
<1>7. \A c \in Commands : commands'[c].run # run'
  BY <1>1 DEF AddressInv, EpochInv, TInv, TypeOK, Command
<1>8. GenerationInv' /\ EarlierRunInv'
  BY <1>3, <1>7, Zenon DEF GenerationInv, EarlierRunInv
<1>9. DeliveryInv'
  BY <1>2, <1>4, SMTT(30) DEF DeliveryInv, Delivered
<1> QED
  BY <1>5, <1>6, <1>8, <1>9, Zenon DEF AddressInv

\* Every step keeps the invariant.
LEMMA AddressStep == TInv /\ TInv' /\ AddressInv /\ [Next]_vars => AddressInv'
<1> SUFFICES ASSUME TInv, TInv', AddressInv, [Next]_vars PROVE AddressInv'
  BY Zenon
<1>1. CASE \E b \in Bridges, p \in Processes : Connect(b, p)
  BY <1>1, AddressConnect, Zenon
<1>2. CASE RegistrationStep
  BY <1>2, AddressQuiet, AddressMapping, AddressInstall, Zenon DEF RegistrationStep
<1>3. CASE \E c \in Commands, kind \in {"prompt", "answer"}, pinned \in BOOLEAN : MakeCommand(c, kind, pinned)
  BY <1>3, AddressMake, Zenon
<1>4. CASE \E t \in Tasks : TaskStep(t) \/ \E c \in Commands : Check(t, c)
  BY <1>4, AddressTask, Zenon
<1>5. CASE \E b \in Bridges : BridgeStep(b)
  BY <1>5, AddressBridge, AddressRewrite, Zenon
<1>6. CASE Sweep \/ Update \/ Tick \/ UNCHANGED vars
  BY <1>6, AddressQuiet, Zenon
<1> QED
  BY <1>1, <1>2, <1>3, <1>4, <1>5, <1>6, AddressRestart, Zenon DEF Next

\* A command is delivered only to the agent process, and by the daemon run, whose
\* snapshot its client was looking at (the generation and epoch check of
\* submit_command_from), for any number of bridges, processes, runs and failed saves.
THEOREM CommandsReachTheirAddressee == Spec => []DeliveredToAddressee
<1>1. AddressInv => DeliveredToAddressee
  BY Zenon DEF AddressInv, DeliveryInv, AddressedTo, DeliveredToAddressee
<1> QED
  BY <1>1, AddressInit, AddressStep, TypeInvariant, PTL DEF Spec
-----------------------------------------------------------------------------
\* In memory a submitted command has a receipt from SubmitAccepted on; on disk from
\* before it is forwarded; and one submission at a time is concerned with it.
OnceInv ==
  /\ clock <= MaxClock
  /\ \A c \in Commands : sends[c] <= 1
  /\ \A c \in Commands : sends[c] > 0 => store[c].state # "none" /\ file.store[c].state # "none"
  /\ \A c \in session.inflight : store[c].state # "none"
  /\ \A t \in Tasks : tasks[t].step = "checked" => store[tasks[t].command].state = "none"
  /\ \A t \in Tasks : tasks[t].step = "send" =>
       /\ store[tasks[t].command].state # "none" /\ file.store[tasks[t].command].state # "none"
       /\ sends[tasks[t].command] = 0
  /\ \A t, u \in Tasks : tasks[t].step # "idle" /\ tasks[u].step # "idle" /\ t # u =>
       tasks[t].command # tasks[u].command

\* Nothing that is recorded is lost, and only the receipts of cs change.
Kept ==
  \A c \in Commands :
    /\ store[c].state # "none" => store'[c].state # "none"
    /\ store[c].state # "none" /\ file.store[c].state # "none" => file'.store[c].state # "none"

Changes(cs) == \A c \in Commands \ cs : store'[c] = store[c]

\* The form of every step that records receipts.
Recording(cs) ==
  \E r \in Receipt : /\ r.state # "none"
                     /\ store' = Upserted(store, cs, r)
                     /\ \E s \in SUBSET cs : file'.store \in {file.store, Upserted(store, s, r)}

\* Within the retention time no receipt is forgotten.
LEMMA UpsertedKeeps ==
  ASSUME TypeOK, clock <= Ttl, NEW cs, NEW r \in Receipt, r.state # "none", NEW c \in Commands
  PROVE  /\ c \notin cs => Upserted(store, cs, r)[c] = store[c]
         /\ c \in cs \/ store[c].state # "none" => Upserted(store, cs, r)[c].state # "none"
<1> DEFINE new == [d \in Commands |-> IF d \in cs /\ (store[d].state = "none" \/ r.at >= store[d].at)
                                      THEN r ELSE store[d]]
<1>1. new[c] \in Receipt
  BY Zenon DEF TypeOK, Receipts
<1>2. /\ c \notin cs => new[c] = store[c]
      /\ c \in cs \/ store[c].state # "none" => new[c].state # "none"
  BY Zenon
<1>3. clock - new[c].at <= Ttl
  <2> HIDE DEF new
  <2> QED
    BY <1>1, CommandsAssumption DEF Receipt, TypeOK
<1>4. Retained(new)[c] = new[c]
  BY <1>3, Zenon DEF Retained
<1> QED
  BY <1>2, <1>4, Zenon DEF Upserted

\* What recording does, then.
LEMMA RecordingEffect ==
  ASSUME TInv, clock <= Ttl, NEW cs, Recording(cs)
  PROVE  Kept /\ Changes(cs) /\ \A c \in Commands \cap cs : store'[c].state # "none"
<1> PICK r \in Receipt : /\ r.state # "none"
                         /\ store' = Upserted(store, cs, r)
                         /\ \E s \in SUBSET cs : file'.store \in {file.store, Upserted(store, s, r)}
  BY Zenon DEF Recording
<1> PICK s \in SUBSET cs : file'.store \in {file.store, Upserted(store, s, r)}
  BY Zenon
<1> QED
  BY UpsertedKeeps, Zenon DEF Kept, Changes, TInv

\* The steps that record receipts, and for which commands.
LEMMA RecordingSteps ==
  ASSUME TInv
  PROVE  /\ FenceInFlight /\ Live => Recording(session.inflight)
         /\ \A done \in SUBSET Commands, c \in Commands :
              FenceFails(done, c) => Recording(done \cup {c}) /\ done \cup {c} \subseteq session.inflight
         /\ \A t \in Tasks : SubmitRefused(t) \/ SubmitAccepted(t) => Recording({tasks[t].command})
         /\ \A t \in Tasks : MarkOutcomeUnknown(t) /\ Live => Recording({tasks[t].command})
         /\ \A b \in Bridges, c \in Commands, state \in {"accepted"} \cup Verdicts :
              RecordReceipt(b, c, state) => Recording({c}) /\ c \in session.inflight
         /\ \A b \in Bridges, exited \in BOOLEAN :
              Disconnect(b, exited) => Recording(session.inflight) \/ UNCHANGED <<store, file>>
<1> DEFINE made == SessionReceipt("outcome_unknown", reg.now)
           late == SessionReceipt("outcome_unknown", clock)
<1>1. made \in Receipt /\ made.state # "none" /\ late \in Receipt /\ late.state # "none"
  <2>1. reg.now \in Nat /\ clock \in Nat /\ TypeOK
    BY Zenon DEF TInv, TypeOK, Registration
  <2>2. made \in Receipt /\ late \in Receipt
    BY <2>1, IssuedType, Zenon DEF ReceiptStates, Verdicts
  <2> QED
    BY <2>2, Zenon DEF SessionReceipt
<1>2. FenceInFlight /\ Live => Recording(session.inflight)
  BY <1>1 DEF FenceInFlight, PersistUpTo, Recording
<1>3. ASSUME NEW done \in SUBSET Commands, NEW c \in Commands, FenceFails(done, c)
      PROVE  Recording(done \cup {c}) /\ done \cup {c} \subseteq session.inflight
  <2>1. done \in SUBSET (done \cup {c}) /\ done \cup {c} \in SUBSET (done \cup {c})
    BY Zenon
  <2>2. store' = Upserted(store, done \cup {c}, made)
    BY <1>3, Zenon DEF FenceFails
  <2>3. file'.store \in {file.store, Upserted(store, done, made), Upserted(store, done \cup {c}, made)}
    BY <1>3, SMTT(30) DEF FenceFails, PersistUpTo
  <2>4. done \cup {c} \subseteq session.inflight
    BY <1>3, Zenon DEF FenceFails
  <2> QED
    BY <1>1, <2>1, <2>2, <2>3, <2>4, Zenon DEF Recording
<1>4. ASSUME NEW t \in Tasks, tasks[t].step # "idle", NEW state \in ReceiptStates \ {"none"}, NEW at \in Nat,
             store' = Upserted(store, {tasks[t].command}, CommandReceipt(tasks[t].command, state, at)),
             LET st == Upserted(store, {tasks[t].command}, CommandReceipt(tasks[t].command, state, at))
             IN  Persist(mapping, st) \/ PersistFails(mapping, st)
      PROVE  Recording({tasks[t].command})
  <2> DEFINE r == CommandReceipt(tasks[t].command, state, at)
  <2>1. r \in Receipt /\ r.state # "none"
    <3>1. tasks[t].command \in Commands /\ TypeOK
      BY <1>4, Zenon DEF TInv
    <3>2. r \in Receipt
      BY <3>1, IssuedType, Zenon
    <3> QED
      BY <3>2, Zenon DEF CommandReceipt
  <2>2. file'.store \in {file.store, Upserted(store, {tasks[t].command}, r)}
    BY <1>4, SMTT(30) DEF Persist, PersistFails
  <2> HIDE DEF r
  <2>3. store' = Upserted(store, {tasks[t].command}, r)
    BY <1>4, Zenon DEF r
  <2> QED
    BY <2>1, <2>2, <2>3, Zenon DEF Recording
<1>5. \A t \in Tasks : tasks[t].now \in Nat /\ clock \in Nat
  BY Zenon DEF TInv, TypeOK, Task
<1>6. ASSUME NEW t \in Tasks, SubmitRefused(t) \/ SubmitAccepted(t) PROVE Recording({tasks[t].command})
  BY <1>4, <1>5, <1>6, Zenon DEF SubmitRefused, SubmitAccepted, ReceiptStates, Open
<1>7. ASSUME NEW t \in Tasks, MarkOutcomeUnknown(t), Live PROVE Recording({tasks[t].command})
  BY <1>4, <1>5, <1>7, Zenon DEF MarkOutcomeUnknown, ReceiptStates, Verdicts
<1>8. ASSUME NEW b \in Bridges, NEW c \in Commands, NEW state \in {"accepted"} \cup Verdicts, RecordReceipt(b, c, state)
      PROVE  Recording({c}) /\ c \in session.inflight
  <2> DEFINE r == SessionReceipt(state, clock)
  <2>1. r \in Receipt
    BY <1>5, IssuedType, Zenon DEF ReceiptStates, Verdicts, Open, TInv, TypeOK
  <2>2. r.state # "none"
    BY Zenon DEF SessionReceipt, Verdicts
  <2>3. store' = Upserted(store, {c}, r) /\ file'.store \in {file.store, Upserted(store, {c}, r)} /\ c \in session.inflight
    BY <1>8 DEF RecordReceipt, Persist, PersistFails, Expected
  <2> HIDE DEF r
  <2> QED
    BY <2>1, <2>2, <2>3, Zenon DEF Recording
<1>9. ASSUME NEW b \in Bridges, NEW exited \in BOOLEAN, Disconnect(b, exited)
      PROVE  Recording(session.inflight) \/ UNCHANGED <<store, file>>
  BY <1>1, <1>9 DEF Disconnect, PersistUpTo, Recording
<1> QED
  BY <1>2, <1>3, <1>6, <1>7, <1>8, <1>9, Zenon

\* A step that starts no submission, forwards nothing and records receipts only for
\* the commands of cs, which no submission has merely checked.
LEMMA OnceQuiet ==
  ASSUME TInv, TInv', OnceInv, NEW cs, Kept, Changes(cs), UNCHANGED sends, clock' <= MaxClock,
         \A c \in session'.inflight : c \in session.inflight \/ store'[c].state # "none",
         \A t \in Tasks :
           /\ tasks'[t].step # "idle" => tasks[t].step # "idle" /\ tasks'[t].command = tasks[t].command
           /\ tasks'[t].step = "checked" => tasks[t].step = "checked" /\ tasks[t].command \notin cs
           /\ tasks'[t].step = "send" =>
                \/ tasks[t].step = "send"
                \/ /\ store'[tasks[t].command].state # "none" /\ file'.store[tasks[t].command].state # "none"
                   /\ sends[tasks[t].command] = 0
  PROVE  OnceInv'
<1>1. \A t \in Tasks : tasks[t].step # "idle" => tasks[t].command \in Commands
  BY Zenon DEF TInv
<1>2. session.inflight \subseteq Commands /\ session'.inflight \subseteq Commands
  BY Zenon DEF TInv, TypeOK, Session
<1>3. \A c \in session'.inflight : store'[c].state # "none"
  BY <1>2, Zenon DEF OnceInv, Kept
<1>4. \A t \in Tasks : tasks'[t].step = "checked" => store'[tasks'[t].command].state = "none"
  BY <1>1, SMTT(30) DEF OnceInv, Changes
<1>5. ASSUME NEW t \in Tasks, tasks'[t].step = "send"
      PROVE  /\ store'[tasks'[t].command].state # "none" /\ file'.store[tasks'[t].command].state # "none"
             /\ sends'[tasks'[t].command] = 0
  <2>1. tasks'[t].command = tasks[t].command /\ tasks[t].command \in Commands
    BY <1>1, <1>5, Zenon
  <2> QED
    BY <1>5, <2>1, Zenon DEF OnceInv, Kept
<1>6. \A t, u \in Tasks : tasks'[t].step # "idle" /\ tasks'[u].step # "idle" /\ t # u =>
        tasks'[t].command # tasks'[u].command
  BY SMTT(30) DEF OnceInv
<1>7. \A c \in Commands : sends'[c] <= 1 /\ (sends'[c] > 0 => store'[c].state # "none" /\ file'.store[c].state # "none")
  BY Zenon DEF OnceInv, Kept
<1> QED
  BY <1>3, <1>4, <1>5, <1>6, <1>7, Zenon DEF OnceInv

\* Receipts for commands in flight, recorded while no submission moves.
LEMMA OnceRecording ==
  ASSUME TInv, TInv', OnceInv, MaxClock <= Ttl, NEW cs, Recording(cs) \/ UNCHANGED <<store, file>>,
         cs \subseteq session.inflight, UNCHANGED <<sends, clock, tasks>>,
         session'.inflight \subseteq session.inflight
  PROVE  OnceInv'
<1>1. clock <= Ttl
  BY CommandsAssumption DEF OnceInv, TInv, TypeOK
<1>2. Kept /\ Changes(cs)
  BY <1>1, RecordingEffect, Zenon DEF Kept, Changes
<1>3. \A t \in Tasks : tasks[t].step = "checked" => tasks[t].command \notin cs
  BY Zenon DEF OnceInv
<1> QED
  BY <1>2, <1>3, OnceQuiet, Zenon DEF OnceInv

\* Steps that leave the store alone, or only write it out.
LEMMA OnceUnrecorded ==
  ASSUME TInv, TInv', OnceInv, UNCHANGED <<store, sends>>, clock' <= MaxClock,
         file'.store \in {file.store, store}, session'.inflight \subseteq session.inflight,
         \A t \in Tasks : tasks'[t] \in {tasks[t], IdleTask}
  PROVE  OnceInv'
<1>1. Kept /\ Changes({})
  BY Zenon DEF Kept, Changes
<1>2. \A t \in Tasks : tasks'[t].step # "idle" => tasks'[t] = tasks[t]
  BY DEF IdleTask
<1> QED
  BY <1>1, <1>2, OnceQuiet, Zenon

\* Publishing and then setting the in-flight commands sets just those.
LEMMA PublishedInflight ==
  ASSUME session \in Session, NEW cs, NEW r, NEW x, session' = [Published(session, cs, r) EXCEPT !.inflight = x]
  PROVE  session'.inflight = x
<1> DEFINE sh == [c \in Commands |-> IF c \in cs THEN r ELSE session.shown[c]]
           rv == session.rev + Cardinality(cs)
<1> HIDE DEF sh, rv
<1>1. session' = [[session EXCEPT !.shown = sh, !.rev = rv] EXCEPT !.inflight = x]
  BY Zenon DEF Published, sh, rv
<1> QED
  BY <1>1, Zenon DEF Session

\* Only an accepted submission adds to the commands in flight.
LEMMA InflightShrinks ==
  ASSUME TInv,
         \/ \E b \in Bridges, p \in Processes : Connect(b, p)
         \/ RegistrationStep
         \/ \E b \in Bridges : BridgeStep(b)
  PROVE  session'.inflight \subseteq session.inflight
<1> USE DEF TInv, TypeOK
<1>0. session \in Session
  BY Zenon
<1>1. CASE FenceInFlight \/ \E done \in SUBSET Commands, c \in Commands : FenceFails(done, c)
  <2> DEFINE r == SessionReceipt("outcome_unknown", reg.now)
  <2>1. \/ UNCHANGED session
        \/ \E done \in SUBSET Commands : session' = Published(session, done, r)
        \/ session' = [Published(session, session.inflight, r) EXCEPT !.inflight = {}]
    BY <1>1, Zenon DEF FenceInFlight, FenceFails
  <2> HIDE DEF r
  <2>2. ASSUME NEW done \in SUBSET Commands, session' = Published(session, done, r)
        PROVE  session'.inflight = session.inflight
    BY <1>0, <2>2, PublishedKeeps, SMTT(30)
  <2>3. CASE session' = [Published(session, session.inflight, r) EXCEPT !.inflight = {}]
    BY <1>0, <2>3, PublishedInflight, Zenon
  <2> QED
    BY <2>1, <2>2, <2>3, Zenon
<1>2. ASSUME NEW b \in Bridges, NEW exited \in BOOLEAN, Disconnect(b, exited)
      PROVE  session'.inflight \subseteq session.inflight
  BY <1>2, DisconnectEffect DEF NoSession
<1>3. ASSUME NEW b \in Bridges, NEW c \in Commands, NEW state \in {"accepted"} \cup Verdicts, RecordReceipt(b, c, state)
      PROVE  session'.inflight \subseteq session.inflight
  <2> DEFINE r == SessionReceipt(state, clock)
             x == IF state \in Verdicts THEN session.inflight \ {c} ELSE session.inflight
  <2>1. x \subseteq session.inflight
    BY Zenon
  <2>2. UNCHANGED session \/ session' = [Published(session, {c}, r) EXCEPT !.inflight = x]
    BY <1>3, Zenon DEF RecordReceipt
  <2> HIDE DEF r, x
  <2> QED
    BY <1>0, <2>1, <2>2, PublishedInflight, Zenon
<1>4. ASSUME NEW b \in Bridges, RewriteHistory(b) PROVE session'.inflight \subseteq session.inflight
  BY <1>4, Zenon DEF RewriteHistory, Session
<1> QED
  BY <1>1, <1>2, <1>3, <1>4, Zenon
  DEF Connect, RegistrationStep, RegisterMapping, ReadReceipts, Install, NoSession,
      BridgeStep, TakeCommand, EndLoop, Bail, Drop

\* Registration and the bridge tasks.
LEMMA OnceRegistration ==
  ASSUME TInv, TInv', OnceInv, MaxClock <= Ttl,
         \/ \E b \in Bridges, p \in Processes : Connect(b, p)
         \/ RegistrationStep
         \/ \E b \in Bridges : BridgeStep(b)
  PROVE  OnceInv'
<1> USE DEF TInv, TypeOK
<1>1. UNCHANGED <<sends, clock, tasks>>
  BY ZenonT(30) DEF Connect, RegistrationStep, FenceInFlight, FenceFails, RegisterMapping, ReadReceipts, Install,
         BridgeStep, TakeCommand, RecordReceipt, EndLoop, Bail, Disconnect, Drop, RewriteHistory
<1>3. session'.inflight \subseteq session.inflight
  BY InflightShrinks, Zenon
<1>4. ASSUME UNCHANGED store, file'.store \in {file.store, store} PROVE OnceInv'
  BY <1>1, <1>3, <1>4, OnceUnrecorded, Zenon DEF OnceInv
<1>5. ASSUME NEW cs, cs \subseteq session.inflight, Recording(cs) \/ UNCHANGED <<store, file>> PROVE OnceInv'
  BY <1>1, <1>3, <1>5, OnceRecording, Zenon
<1>6. CASE FenceInFlight \/ \E done \in SUBSET Commands, c \in Commands : FenceFails(done, c)
  <2>1. CASE FenceInFlight /\ ~Live
    BY <1>4, <2>1, Zenon DEF FenceInFlight
  <2> QED
    BY <1>5, <1>6, <2>1, RecordingSteps, Zenon
<1>7. ASSUME NEW b \in Bridges, NEW c \in Commands, NEW state \in {"accepted"} \cup Verdicts, RecordReceipt(b, c, state)
      PROVE  OnceInv'
  <2>1. Recording({c}) /\ {c} \subseteq session.inflight
    BY <1>7, RecordingSteps, Zenon
  <2> QED
    BY <1>5, <2>1, SMTT(30)
<1>8. ASSUME NEW b \in Bridges, NEW exited \in BOOLEAN, Disconnect(b, exited) PROVE OnceInv'
  BY <1>5, <1>8, RecordingSteps, ZenonT(30)
<1>9. ASSUME NEW b \in Bridges, RewriteHistory(b) PROVE OnceInv'
  BY <1>4, <1>9 DEF RewriteHistory, Persist, PersistFails
<1>10. CASE RegisterMapping
  BY <1>4, <1>10 DEF RegisterMapping, Persist, PersistFails
<1> QED
  BY <1>4, <1>6, <1>7, <1>8, <1>9, <1>10, ZenonT(30)
  DEF Connect, RegistrationStep, ReadReceipts, Install, BridgeStep, TakeCommand, EndLoop, Bail, Drop

\* Submissions.  This is where ~Overlap is used: no other submission is concerned
\* with the command that is checked.
LEMMA OnceTask ==
  ASSUME TInv, TInv', OnceInv, MaxClock <= Ttl, ~Overlap, NEW t \in Tasks,
         TaskStep(t) \/ \E c \in Commands : Check(t, c)
  PROVE  OnceInv'
<1>1. clock <= Ttl
  BY CommandsAssumption DEF OnceInv, TInv, TypeOK
<1>2. tasks \in [Tasks -> Task] /\ session \in Session /\ \A u \in Tasks : tasks[u].step # "idle" => tasks[u].command \in Commands
  BY Zenon DEF TInv, TypeOK
<1>3. ASSUME NEW c \in Commands, Check(t, c) PROVE OnceInv'
  <2>1. /\ UNCHANGED <<store, file, session, clock, sends>> /\ store[c].state = "none"
        /\ \A u \in Tasks : tasks[u].command # c
        /\ tasks'[t].step = "checked" /\ tasks'[t].command = c
        /\ \A u \in Tasks : u # t => tasks'[u] = tasks[u]
    BY <1>2, <1>3, Zenon DEF Check, Unrecorded, Submitting
  <2> QED
    BY <2>1, SMTT(30) DEF OnceInv
<1> DEFINE c == tasks[t].command
<1>4. CASE SubmitUnavailable(t)
  BY <1>2, <1>4, OnceUnrecorded, Zenon DEF SubmitUnavailable, OnceInv, TInv, TypeOK
<1>5. CASE (SubmitRefused(t) \/ SubmitAccepted(t) \/ (MarkOutcomeUnknown(t) /\ Live)) /\ tasks' = [tasks EXCEPT ![t] = IdleTask]
  <2>1. Recording({c}) /\ UNCHANGED <<sends, clock>> /\ tasks[t].step # "idle"
    BY <1>5, RecordingSteps, ZenonT(30) DEF SubmitRefused, SubmitAccepted, MarkOutcomeUnknown
  <2>2. Kept /\ Changes({c})
    BY <1>1, <2>1, RecordingEffect, Zenon
  <2>3. session'.inflight \subseteq session.inflight \cup {c} /\ store'[c].state # "none"
    <3>1. store'[c].state # "none"
      BY <1>1, <1>2, <2>1, RecordingEffect
    <3>2. CASE SubmitRefused(t)
      <4> DEFINE r == CommandReceipt(c, IF Addresses(c) THEN "unavailable" ELSE "stale", tasks[t].now)
      <4>1. UNCHANGED session \/ session' = Published(session, {c}, r)
        BY <3>2, Zenon DEF SubmitRefused
      <4> HIDE DEF r
      <4> QED
        BY <1>2, <3>1, <4>1, PublishedKeeps, SMTT(30)
    <3>3. CASE SubmitAccepted(t)
      <4> DEFINE r == CommandReceipt(c, "sending", tasks[t].now)
                 x == session.inflight \cup {c}
      <4>1. UNCHANGED session \/ session' = [Published(session, {c}, r) EXCEPT !.inflight = x]
        BY <3>3, Zenon DEF SubmitAccepted
      <4>2. UNCHANGED session \/ session'.inflight = x
        <5> HIDE DEF r, x
        <5> QED
          BY <1>2, <4>1, PublishedInflight, Zenon
      <4> QED
        BY <3>1, <4>2, Zenon
    <3>4. CASE MarkOutcomeUnknown(t) /\ Live
      <4> DEFINE r == CommandReceipt(c, "outcome_unknown", clock)
                 x == session.inflight \ {c}
      <4>1. session' = [Published(session, {c}, r) EXCEPT !.inflight = x]
        BY <3>4, Zenon DEF MarkOutcomeUnknown
      <4>2. session'.inflight = x
        <5> HIDE DEF r, x
        <5> QED
          BY <1>2, <4>1, PublishedInflight, Zenon
      <4> QED
        BY <3>1, <4>2, Zenon
    <3> QED
      BY <1>5, <3>2, <3>3, <3>4, Zenon
  <2>4. tasks'[t].step = "idle" /\ \A u \in Tasks : u # t => tasks'[u] = tasks[u]
    BY <1>2, <1>5, Zenon DEF IdleTask
  <2>5. \A u \in Tasks : u # t /\ tasks[u].step = "checked" => tasks[u].command \notin {c}
    BY <2>1, Zenon DEF OnceInv
  <2> QED
    BY <2>1, <2>2, <2>3, <2>4, <2>5, OnceQuiet, ZenonT(30) DEF OnceInv
<1>6. CASE SubmitAccepted(t) /\ tasks' # [tasks EXCEPT ![t] = IdleTask]
  <2> DEFINE r == CommandReceipt(c, "sending", tasks[t].now)
             x == session.inflight \cup {c}
  <2>1. /\ Recording({c}) /\ UNCHANGED <<sends, clock>> /\ tasks[t].step = "checked"
        /\ file'.store = store' /\ session' = [Published(session, {c}, r) EXCEPT !.inflight = x]
        /\ tasks' = [tasks EXCEPT ![t].step = "send", ![t].sender = session.sender]
    <3>1. Recording({c})
      BY <1>6, RecordingSteps, Zenon
    <3>2. \/ /\ Persist(mapping, Upserted(store, {c}, r))
             /\ session' = [Published(session, {c}, r) EXCEPT !.inflight = x]
             /\ tasks' = [tasks EXCEPT ![t].step = "send", ![t].sender = session.sender]
          \/ tasks' = [tasks EXCEPT ![t] = IdleTask]
      BY <1>6, Zenon DEF SubmitAccepted
    <3>3. UNCHANGED <<sends, clock>> /\ tasks[t].step = "checked" /\ store' = Upserted(store, {c}, r)
      BY <1>6, Zenon DEF SubmitAccepted
    <3>4. Persist(mapping, Upserted(store, {c}, r)) => file'.store = Upserted(store, {c}, r)
      BY DEF Persist
    <3> HIDE DEF r, x
    <3> QED
      BY <1>6, <3>1, <3>2, <3>3, <3>4, Zenon
  <2>2. Kept /\ Changes({c}) /\ store'[c].state # "none"
    BY <1>1, <1>2, <2>1, RecordingEffect, Zenon
  <2>3. session'.inflight = session.inflight \cup {c}
    <3>1. session'.inflight = x
      <4> HIDE DEF r, x
      <4> QED
        BY <1>2, <2>1, PublishedInflight, Zenon
    <3> QED
      BY <3>1, Zenon
  <2>4. /\ tasks'[t].step = "send" /\ tasks'[t].command = c
        /\ \A u \in Tasks : u # t => tasks'[u] = tasks[u]
    BY <1>2, <2>1, Zenon DEF Task
  <2>5. sends[c] = 0 /\ c \in Commands
    BY <1>2, <2>1 DEF OnceInv, TInv, TypeOK
  <2>6. \A u \in Tasks : u # t /\ tasks[u].step = "checked" => tasks[u].command \notin {c}
    BY <2>1, Zenon DEF OnceInv
  <2>7. \A d \in session'.inflight : d \in session.inflight \/ store'[d].state # "none"
    BY <2>2, <2>3, Zenon
  <2>8. \A u \in Tasks :
           /\ tasks'[u].step # "idle" => tasks[u].step # "idle" /\ tasks'[u].command = tasks[u].command
           /\ tasks'[u].step = "checked" => tasks[u].step = "checked" /\ tasks[u].command \notin {c}
           /\ tasks'[u].step = "send" =>
                \/ tasks[u].step = "send"
                \/ /\ store'[tasks[u].command].state # "none" /\ file'.store[tasks[u].command].state # "none"
                   /\ sends[tasks[u].command] = 0
    BY <2>1, <2>2, <2>4, <2>5, <2>6, Zenon
  <2>9. clock' <= MaxClock /\ UNCHANGED sends
    BY <2>1, Zenon DEF OnceInv
  <2> HIDE DEF c
  <2> QED
    BY <2>2, <2>7, <2>8, <2>9, OnceQuiet, Zenon
<1>7. CASE MarkOutcomeUnknown(t) /\ ~Live
  BY <1>2, <1>7, OnceUnrecorded, Zenon DEF MarkOutcomeUnknown, OnceInv, TInv, TypeOK
<1>8. CASE Forward(t)
  <2>1. /\ UNCHANGED <<store, file, session, clock>> /\ tasks[t].step = "send" /\ c \in Commands
        /\ sends' = [sends EXCEPT ![c] = sends[c] + 1]
        /\ tasks'[t].step = "idle" /\ \A u \in Tasks : u # t => tasks'[u] = tasks[u]
    BY <1>2, <1>8, Zenon DEF Forward, IdleTask
  <2>2. /\ sends'[c] = 1 /\ store[c].state # "none" /\ file.store[c].state # "none"
        /\ \A d \in Commands : d # c => sends'[d] = sends[d]
    <3>1. sends \in [Commands -> Nat]
      BY Zenon DEF TInv, TypeOK
    <3>2. QED
      BY <2>1, <3>1 DEF OnceInv
  <2>3. \A u \in Tasks : u # t /\ tasks[u].step # "idle" => tasks[u].command # c /\ tasks[u].command \in Commands
    BY <1>2, <2>1, Zenon DEF OnceInv
  <2> HIDE DEF c
  <2> QED
    BY <2>1, <2>2, <2>3, SMTT(30) DEF OnceInv
<1> QED
  BY <1>3, <1>4, <1>5, <1>6, <1>7, <1>8, Zenon DEF TaskStep, SubmitRefused, MarkOutcomeUnknown

\* Everything else.  A restart reads back every receipt: none has expired.
LEMMA OnceOther ==
  ASSUME TInv, TInv', OnceInv, MaxClock <= Ttl,
         \/ \E c \in Commands, kind \in {"prompt", "answer"}, pinned \in BOOLEAN : MakeCommand(c, kind, pinned)
         \/ Sweep \/ Update \/ Tick \/ Restart \/ UNCHANGED vars
  PROVE  OnceInv'
<1>1. CASE Restart
  <2>1. \A c \in Commands : clock - file.store[c].at <= Ttl
    <3>1. \A c \in Commands : file.store[c].at \in Nat
      BY Zenon DEF TInv, TypeOK, Receipts, Receipt
    <3>2. clock \in Nat /\ clock <= Ttl
      BY CommandsAssumption, SMTT(30) DEF TInv, TypeOK, OnceInv
    <3> QED
      BY <3>1, <3>2, CommandsAssumption
  <2>2. \A c \in Commands : store'[c] = file.store[c] /\ file'.store[c] = file.store[c]
    BY <1>1, <2>1, Zenon DEF Restart, Retained, Persist
  <2>3. session'.inflight = {} /\ UNCHANGED <<sends, clock>> /\ \A t \in Tasks : tasks'[t].step = "idle"
    BY <1>1, Zenon DEF Restart, NoSession, IdleTask
  <2> QED
    BY <2>2, <2>3, Zenon DEF OnceInv
<1>2. CASE ~Restart
  <2>1. UNCHANGED <<store, sends, tasks>> /\ file'.store \in {file.store, store}
    BY <1>2 DEF MakeCommand, Sweep, Update, Tick, PersistFails, vars
  <2>2. clock' <= MaxClock
    BY <1>2, CommandsAssumption DEF MakeCommand, Sweep, Update, Tick, vars, OnceInv, TInv, TypeOK
  <2>3. session'.inflight \subseteq session.inflight
    BY <1>2 DEF MakeCommand, Sweep, NoSession, Update, Tick, vars, TInv, TypeOK, Session
  <2> QED
    BY <2>1, <2>2, <2>3, OnceUnrecorded, Zenon
<1> QED
  BY <1>1, <1>2, Zenon

\* The invariant holds of every reachable state.
LEMMA OnceInvariant ==
  ASSUME ~Overlap, MaxClock <= Ttl
  PROVE  Spec => []OnceInv
<1>1. Init => OnceInv
  BY CommandsAssumption, SMTT(30) DEF Init, OnceInv, NoSession, IdleTask
<1>2. TInv /\ TInv' /\ OnceInv /\ [Next]_vars => OnceInv'
  BY OnceRegistration, OnceTask, OnceOther, Zenon DEF Next
<1> QED
  BY <1>1, <1>2, TypeInvariant, PTL DEF Spec

\* A command identifier is put into a bridge channel at most once, over reconnects,
\* superseded bridges, failed saves and restarts, within the retention time of
\* receipts and for clients that do not race their own submission.
THEOREM ForwardedAtMostOnce ==
  ASSUME ~Overlap, MaxClock <= Ttl
  PROVE  Spec => []AtMostOnce
<1>1. OnceInv => AtMostOnce
  BY Zenon DEF OnceInv, AtMostOnce
<1> QED
  BY <1>1, OnceInvariant, PTL

\* What may have reached the agent has its receipt in the metadata file: whenever the
\* daemon stops, the next one recognises the identifier.
THEOREM ForwardedIsOnDisk ==
  ASSUME ~Overlap, MaxClock <= Ttl
  PROVE  Spec => []RecordedBeforeForwarded
<1>1. OnceInv => RecordedBeforeForwarded
  BY Zenon DEF OnceInv, RecordedBeforeForwarded
<1> QED
  BY <1>1, OnceInvariant, PTL

ClockBound == clock <= MaxClock

\* Once a command is neither in flight nor being submitted, no step of this daemon
\* changes its recorded receipt.
THEOREM FencedVerdictStays ==
  ASSUME MaxClock <= Ttl
  PROVE  Spec => FencedReceiptIsFinal
<1>1. Init => ClockBound
  BY CommandsAssumption DEF Init, ClockBound
<1>2. TInv /\ ClockBound /\ [Next]_vars => ClockBound'
  <2> SUFFICES ASSUME TInv, ClockBound, [Next]_vars PROVE ClockBound'
    BY Zenon
  <2>1. UNCHANGED clock \/ Tick
    BY ZenonT(30) DEF Next, Connect, RegistrationStep, FenceInFlight, FenceFails, RegisterMapping, ReadReceipts, Install,
           MakeCommand, Check, TaskStep, SubmitUnavailable, SubmitRefused, SubmitAccepted, Forward,
           MarkOutcomeUnknown, BridgeStep, TakeCommand, RecordReceipt, EndLoop, Bail, Disconnect, Drop,
           RewriteHistory, Sweep, Update, Restart, vars
  <2> QED
    BY <2>1, CommandsAssumption DEF Tick, TInv, TypeOK, ClockBound
<1>3. TInv /\ ClockBound /\ [Next]_vars => [LateAnswerIgnored]_vars
  <2> SUFFICES ASSUME TInv, ClockBound, Next, NEW c \in Commands,
                      c \notin session.inflight, ~Submitting(c), run' = run
               PROVE  store'[c] = store[c]
    BY Zenon DEF LateAnswerIgnored
  <2>1. clock <= Ttl
    BY CommandsAssumption, SMTT(30) DEF TInv, TypeOK, ClockBound
  <2>2. \A t \in Tasks : tasks[t].command # c
    BY Zenon DEF Submitting
  <2>3. ASSUME NEW cs, Recording(cs), c \notin cs PROVE store'[c] = store[c]
    BY <2>1, <2>3, RecordingEffect, Zenon DEF Changes
  <2>4. CASE RegistrationStep
    <3>1. CASE FenceInFlight
      BY <2>3, <3>1, RecordingSteps, Zenon DEF FenceInFlight
    <3>2. ASSUME NEW done \in SUBSET Commands, NEW d \in Commands, FenceFails(done, d) PROVE store'[c] = store[c]
      <4>1. Recording(done \cup {d}) /\ c \notin done \cup {d}
        BY <3>2, RecordingSteps, Zenon
      <4> QED
        BY <2>3, <4>1, Zenon
    <3> QED
      BY <2>4, <3>1, <3>2, Zenon DEF RegistrationStep, RegisterMapping, ReadReceipts, Install
  <2>5. ASSUME NEW t \in Tasks, TaskStep(t) PROVE store'[c] = store[c]
    <3>1. c \notin {tasks[t].command}
      BY <2>2, Zenon
    <3>2. CASE SubmitRefused(t) \/ SubmitAccepted(t) \/ (MarkOutcomeUnknown(t) /\ Live)
      BY <2>3, <3>1, <3>2, RecordingSteps, ZenonT(30)
    <3> QED
      BY <2>5, <3>2, Zenon DEF TaskStep, SubmitUnavailable, Forward, MarkOutcomeUnknown
  <2>6. ASSUME NEW b \in Bridges, BridgeStep(b) PROVE store'[c] = store[c]
    <3>1. ASSUME NEW d \in Commands, NEW state \in {"accepted"} \cup Verdicts, RecordReceipt(b, d, state)
          PROVE  store'[c] = store[c]
      <4>1. Recording({d}) /\ c \notin {d}
        BY <3>1, RecordingSteps, Zenon
      <4> QED
        BY <2>3, <4>1, Zenon
    <3>2. ASSUME NEW exited \in BOOLEAN, Disconnect(b, exited) PROVE store'[c] = store[c]
      BY <2>3, <3>2, RecordingSteps, Zenon
    <3> QED
      BY <2>6, <3>1, <3>2, Zenon DEF BridgeStep, TakeCommand, EndLoop, Bail, Drop, RewriteHistory
  <2>7. ~Restart
    BY DEF Restart, TInv, TypeOK
  <2> QED
    BY <2>4, <2>5, <2>6, <2>7, Zenon DEF Next, Connect, MakeCommand, Check, Sweep, Update, Tick
<1> QED
  BY <1>1, <1>2, <1>3, TypeInvariant, PTL DEF Spec, FencedReceiptIsFinal

-----------------------------------------------------------------------------
(* No command is left in flight behind a bridge that is gone *)

\* The submission that will make the command unknown found no sender.
WaitingInv ==
  Live /\ session.sender = None =>
    \A c \in session.inflight : \E t \in Tasks :
      tasks[t].step = "send" /\ tasks[t].command = c /\ tasks[t].sender = None

\* Steps other than those of a submission.
LEMMA WaitingOther ==
  ASSUME TInv, WaitingInv, Next, ~\E t \in Tasks : TaskStep(t) \/ \E c \in Commands : Check(t, c)
  PROVE  WaitingInv'
<1>1. CASE session' = NoSession
  BY <1>1, Zenon DEF NoSession, WaitingInv
<1>2. ASSUME NEW b \in Bridges, NEW exited \in BOOLEAN, Disconnect(b, exited) PROVE WaitingInv'
  BY <1>1, <1>2, DisconnectEffect, Zenon DEF WaitingInv, Disconnect, Live
<1>3. CASE Install
  BY <1>3, CommandsAssumption, Zenon DEF Install, WaitingInv, NoSession, TInv
<1>4. ASSUME UNCHANGED tasks, session'.inflight \subseteq session.inflight,
             session'.token = session.token, session'.sender = session.sender
      PROVE  WaitingInv'
  BY <1>4, Zenon DEF WaitingInv, Live
<1>5. CASE RegistrationStep
  <2>1. UNCHANGED tasks /\ session'.inflight \subseteq session.inflight
    BY <1>5, InflightShrinks, Zenon
    DEF RegistrationStep, FenceInFlight, FenceFails, RegisterMapping, ReadReceipts, Install
  <2>2. CASE ~Install
    BY <1>4, <1>5, <2>1, <2>2, SameSessionSteps, Zenon DEF SameSession, RegistrationStep, RegisterMapping, ReadReceipts
  <2> QED
    BY <1>3, <2>2, Zenon
<1>6. ASSUME NEW b \in Bridges, BridgeStep(b) PROVE WaitingInv'
  <2>1. UNCHANGED tasks /\ session'.inflight \subseteq session.inflight
    BY <1>6, InflightShrinks, ZenonT(30)
    DEF BridgeStep, TakeCommand, RecordReceipt, EndLoop, Bail, Disconnect, Drop, RewriteHistory
  <2>2. CASE RewriteHistory(b)
    <3>1. session'.token = session.token /\ session'.sender = session.sender
      BY <2>2, Zenon DEF RewriteHistory, TInv, TypeOK, Session
    <3> QED
      BY <1>4, <2>1, <3>1, Zenon
  <2>3. ASSUME NEW c \in Commands, NEW state \in {"accepted"} \cup Verdicts, RecordReceipt(b, c, state)
        PROVE  WaitingInv'
    BY <1>4, <2>1, <2>3, SameSessionSteps, Zenon DEF SameSession
  <2> QED
    BY <1>2, <1>4, <1>6, <2>1, <2>2, <2>3, Zenon DEF BridgeStep, TakeCommand, EndLoop, Bail, Drop
<1>7. CASE Update
  BY <1>4, <1>7, Zenon DEF Update, TInv, TypeOK, Session
<1> QED
  BY <1>1, <1>4, <1>5, <1>6, <1>7, ZenonT(30) DEF Next, Connect, MakeCommand, Sweep, Tick, Restart

\* A submission that finds no sender stays until it has made its command unknown.
LEMMA WaitingTask ==
  ASSUME TInv, WaitingInv, NEW t \in Tasks, TaskStep(t) \/ \E c \in Commands : Check(t, c)
  PROVE  WaitingInv'
<1>1. tasks \in [Tasks -> Task] /\ session \in Session
  BY Zenon DEF TInv, TypeOK
<1>2. \A u \in Tasks : u # t => tasks'[u] = tasks[u]
  BY <1>1, Zenon DEF TaskStep, SubmitUnavailable, SubmitRefused, SubmitAccepted, Forward, MarkOutcomeUnknown, Check
<1>3. session'.token = session.token /\ session'.sender = session.sender
  <2>1. CASE TaskStep(t)
    BY <2>1, SameSessionSteps, Zenon DEF SameSession
  <2> QED
    BY <2>1, Zenon DEF Check
<1>4. ASSUME tasks[t].step # "send" \/ tasks[t].sender # None, session'.inflight \subseteq session.inflight
      PROVE  WaitingInv'
  BY <1>2, <1>3, <1>4, SMTT(30) DEF WaitingInv, Live
<1> DEFINE c == tasks[t].command
<1>5. CASE Forward(t) \/ SubmitUnavailable(t) \/ \E d \in Commands : Check(t, d)
  BY <1>4, <1>5, Zenon DEF Forward, Sendable, SubmitUnavailable, Check
<1>6. CASE SubmitRefused(t)
  <2> DEFINE r == CommandReceipt(c, IF Addresses(c) THEN "unavailable" ELSE "stale", tasks[t].now)
  <2>1. (UNCHANGED session \/ session' = Published(session, {c}, r)) /\ tasks[t].step = "checked"
    BY <1>6, Zenon DEF SubmitRefused
  <2> HIDE DEF r
  <2> QED
    BY <1>1, <1>4, <2>1, PublishedKeeps, SMTT(30)
<1>7. CASE SubmitAccepted(t)
  <2> DEFINE r == CommandReceipt(c, "sending", tasks[t].now)
             x == session.inflight \cup {c}
  <2>1. tasks[t].step = "checked"
    BY <1>7, Zenon DEF SubmitAccepted
  <2>2. \/ UNCHANGED session
        \/ /\ session' = [Published(session, {c}, r) EXCEPT !.inflight = x]
           /\ tasks' = [tasks EXCEPT ![t].step = "send", ![t].sender = session.sender]
    BY <1>7, Zenon DEF SubmitAccepted
  <2>3. CASE /\ session' = [Published(session, {c}, r) EXCEPT !.inflight = x]
             /\ tasks' = [tasks EXCEPT ![t].step = "send", ![t].sender = session.sender]
    <3>1. session'.inflight = x
      <4> HIDE DEF r, x
      <4> QED
        BY <1>1, <2>3, PublishedInflight, Zenon
    <3>2. tasks'[t].step = "send" /\ tasks'[t].command = c /\ tasks'[t].sender = session.sender
      BY <1>1, <2>3, Zenon DEF Task
    <3> QED
      BY <1>2, <1>3, <2>1, <3>1, <3>2, SMTT(30) DEF WaitingInv, Live
  <2> HIDE DEF r, x
  <2> QED
    BY <1>4, <2>1, <2>2, <2>3, Zenon
<1>8. CASE MarkOutcomeUnknown(t)
  <2> DEFINE r == CommandReceipt(c, "outcome_unknown", clock)
             x == session.inflight \ {c}
  <2>1. CASE ~Live
    BY <1>3, <2>1, Zenon DEF WaitingInv, Live
  <2>2. CASE Live
    <3>1. session' = [Published(session, {c}, r) EXCEPT !.inflight = x]
      BY <1>8, <2>2, Zenon DEF MarkOutcomeUnknown
    <3>2. session'.inflight = x
      <4> HIDE DEF r, x
      <4> QED
        BY <1>1, <3>1, PublishedInflight, Zenon
    <3> QED
      BY <1>2, <1>3, <3>2, SMTT(30) DEF WaitingInv, Live
  <2> QED
    BY <2>1, <2>2, Zenon
<1> QED
  BY <1>5, <1>6, <1>7, <1>8, Zenon DEF TaskStep

\* When the bridge of a session is gone, the only commands still in flight are those
\* whose own submission is about to make them unknown (bridge_disconnected drains the
\* others), with or without overlapping submissions.
THEOREM NothingWaitsForAGoneBridge == Spec => []UnattendedInFlight
<1>1. Init => WaitingInv
  BY SMTT(30) DEF Init, WaitingInv, NoSession
<1>2. TInv /\ WaitingInv /\ [Next]_vars => WaitingInv'
  <2>1. ASSUME WaitingInv, UNCHANGED vars PROVE WaitingInv'
    BY <2>1, Zenon DEF WaitingInv, Live, vars
  <2> QED
    BY <2>1, WaitingOther, WaitingTask, Zenon
<1>3. WaitingInv => UnattendedInFlight
  BY Zenon DEF WaitingInv, UnattendedInFlight
<1> QED
  BY <1>1, <1>2, <1>3, TypeInvariant, PTL DEF Spec
=============================================================================
