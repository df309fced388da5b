--------------------------- MODULE AgentCommands ---------------------------
(***************************************************************************)
(* The command path of the Agent session supervisor (agent_session.rs):    *)
(* registration of a bridge, submission of commands, their receipts, the   *)
(* loss of a bridge, and the metadata file that survives a restart.        *)
(*                                                                         *)
(* One upstream conversation, hence one session identifier.  The live      *)
(* session and the metadata store are guarded by two mutexes; every        *)
(* operation is cut into actions at the points where it lets them go.      *)
(* Registrations exclude one another (registration_gate).                  *)
(***************************************************************************)
EXTENDS Integers, FiniteSets, Sequences

CONSTANTS
  Commands,   \* command identifiers
  Processes,  \* agent processes (a process nonce each)
  Bridges,    \* adapter connections; each registers at most once
  Tasks,      \* submissions that may be under way at the same time
  Capacity,   \* ADAPTER_COMMAND_CHANNEL_CAPACITY
  Ttl,        \* RECEIPT_TTL_SECONDS
  Overlap,    \* may a client resubmit an identifier before its submission returned?
  MaxRev,     \* bound on updates that need not happen
  EpochBound, \* bound on epochs minted by history rewrites
  MaxClock,   \* bound on the wall clock, in seconds
  MaxRuns,    \* bound on daemon starts
  None

\* Commands are finitely many: every set of them has a size.
ASSUME CommandsAreCounted == \A cs \in SUBSET Commands : Cardinality(cs) \in Nat

ASSUME CommandsAssumption ==
  /\ Capacity \in Nat \ {0}
  /\ Ttl \in Nat
  /\ Overlap \in BOOLEAN
  /\ MaxRev \in Nat /\ EpochBound \in Nat /\ MaxClock \in Nat /\ MaxRuns \in Nat
  /\ None \notin Commands \cup Processes \cup Bridges \cup Tasks

VARIABLES
  mapping,    \* the IdentityMapping of the conversation, in memory
  store,      \* AgentMetadataStore.receipts, in memory
  file,       \* the metadata file: what a restart finds of both
  session,    \* the LiveSession, if any
  reg,        \* the registration holding the gate
  bridges,    \* handle_agent_bridge, one per adapter connection
  tasks,      \* submit_command_from, one per submission under way
  commands,   \* what each command is addressed to; fixed when a client makes it
  nextEpoch,  \* the next random epoch (they never repeat)
  clock,      \* unix_now
  run,        \* which start of the daemon this is
  sends       \* history: envelopes put into bridge channels, per command

vars == <<mapping, store, file, session, reg, bridges, tasks, commands, nextEpoch, clock, run, sends>>

Open == {"sending", "accepted"}
Verdicts == {"applied", "rejected", "outcome_unknown"}
ReceiptStates == {"none", "stale", "unavailable"} \cup Open \cup Verdicts

Receipt == [state : ReceiptStates, gen : Nat, epoch : Nat, at : Nat]
NoReceipt == [state |-> "none", gen |-> 0, epoch |-> 0, at |-> 0]
Receipts == [Commands -> Receipt]

Mapping == [nonce : Processes \cup {None}, gen : Nat, epoch : Nat, seed : Nat]
Unmapped == [nonce |-> None, gen |-> 0, epoch |-> 0, seed |-> 0]

\* A live session has the disconnect token of its bridge.
Session == [gen : Nat, epoch : Nat, rev : Nat, shown : Receipts,
            inflight : SUBSET Commands, sender : Bridges \cup {None},
            token : Bridges \cup {None}, permits : SUBSET {"prompt", "answer"}]
NoSession == [gen |-> 0, epoch |-> 0, rev |-> 0,
              shown |-> [c \in Commands |-> NoReceipt], inflight |-> {},
              sender |-> None, token |-> None, permits |-> {}]
Live == session.token # None

\* live is live_revision: -1 for None.
Registration == [step : {"free", "fence", "meta", "receipts", "install"}, bridge : Bridges \cup {None},
                 live : Int, gen : Nat, epoch : Nat, rev : Nat, shown : Receipts, now : Nat]
NoRegistration == [step |-> "free", bridge |-> None, live |-> -1, gen |-> 0, epoch |-> 0,
                   rev |-> 0, shown |-> [c \in Commands |-> NoReceipt], now |-> 0]

\* taken: the commands written to the adapter.  "ended": the task has returned and
\* its receiver is dropped, with what was queued.
Stages == {"idle", "registering", "running", "ending", "closing", "ended"}
Bridge == [stage : Stages, process : Processes \cup {None},
           queue : Seq(Commands), taken : SUBSET Commands]
IdleBridge == [stage |-> "idle", process |-> None, queue |-> <<>>, taken |-> {}]

Task == [step : {"idle", "checked", "send"}, command : Commands \cup {None},
         sender : Bridges \cup {None}, now : Nat]
IdleTask == [step |-> "idle", command |-> None, sender |-> None, now |-> 0]

\* rev is expected_revision: 0 for None.  run and process record, for the
\* properties, which daemon and which agent process the client was looking at.
Command == [kind : {"none", "prompt", "answer"}, gen : Nat, epoch : Nat, rev : Nat,
            run : Nat, process : Processes \cup {None}]
Unmade == [kind |-> "none", gen |-> 0, epoch |-> 0, rev |-> 0, run |-> 0, process |-> None]
Made(c) == commands[c].kind # "none"

\* AgentMetadataStore::load refuses a mapping with a zero in it.
Loadable(m) == m.nonce = None \/ (m.gen > 0 /\ m.epoch > 0 /\ m.seed > 0)

\* The types of the supervisor's state; what register writes is what load accepts.
TypeOK ==
  /\ mapping \in Mapping /\ Loadable(mapping)
  /\ store \in Receipts
  /\ file \in [mapping : Mapping, store : Receipts] /\ Loadable(file.mapping)
  /\ session \in Session
  /\ reg \in Registration
  /\ bridges \in [Bridges -> Bridge]
  /\ tasks \in [Tasks -> Task]
  /\ commands \in [Commands -> Command]
  /\ nextEpoch \in Nat /\ clock \in Nat /\ run \in Nat
  /\ sends \in [Commands -> Nat]

Init ==
  /\ mapping = Unmapped
  /\ store = [c \in Commands |-> NoReceipt]
  /\ file = [mapping |-> Unmapped, store |-> [c \in Commands |-> NoReceipt]]
  /\ session = NoSession
  /\ reg = NoRegistration
  /\ bridges = [b \in Bridges |-> IdleBridge]
  /\ tasks = [t \in Tasks |-> IdleTask]
  /\ commands = [c \in Commands |-> Unmade]
  /\ nextEpoch = 1
  /\ clock = 0
  /\ run = 1
  /\ sends = [c \in Commands |-> 0]
-----------------------------------------------------------------------------
(* The metadata store *)

\* Receipts older than the retention time are forgotten.
Retained(st) == [c \in Commands |-> IF clock - st[c].at <= Ttl THEN st[c] ELSE NoReceipt]

\* upsert_receipt in memory, for the commands cs: an older receipt never replaces a
\* newer one.
Upserted(st, cs, r) ==
  Retained([c \in Commands |-> IF c \in cs /\ (st[c].state = "none" \/ r.at >= st[c].at)
                               THEN r ELSE st[c]])

\* persist replaces the file; it may also fail after the rename took effect.
Persist(m, st) == file' = [mapping |-> m, store |-> st]
PersistFails(m, st) == file' \in {file, [mapping |-> m, store |-> st]}

\* One save per command, in some order: the file holds the receipts of those up to
\* the last save that took effect.
PersistUpTo(saved, r) ==
  file' = IF saved = {} THEN file
          ELSE [mapping |-> mapping, store |-> Upserted(store, saved, r)]

\* publish_receipt: the snapshot shows the receipt and its revision moves on.
Published(s, cs, r) ==
  [s EXCEPT !.shown = [c \in Commands |-> IF c \in cs THEN r ELSE s.shown[c]],
            !.rev = s.rev + Cardinality(cs)]

\* A receipt carrying the address of the session it is issued by.
SessionReceipt(state, at) ==
  [state |-> state, gen |-> session.gen, epoch |-> session.epoch, at |-> at]

\* rejected_receipt: a receipt carrying the address the command was sent to.
CommandReceipt(c, state, at) ==
  [state |-> state, gen |-> commands[c].gen, epoch |-> commands[c].epoch, at |-> at]
-----------------------------------------------------------------------------
(* Registration of a bridge: register and register_new *)

\* The gate is taken and the time read.
Connect(b, p) ==
  /\ reg.step = "free"
  /\ bridges[b].stage = "idle"
  /\ bridges' = [bridges EXCEPT ![b].stage = "registering", ![b].process = p]
  /\ reg' = [NoRegistration EXCEPT !.step = "fence", !.bridge = b, !.now = clock]
  /\ UNCHANGED <<mapping, store, file, session, tasks, commands, nextEpoch, clock, run, sends>>

RegistrationFails ==
  /\ reg' = NoRegistration
  /\ bridges' = [bridges EXCEPT ![reg.bridge].stage = "ended"]

\* In-flight commands of the session about to be replaced are made unknown, and
\* its revision is noted.
FenceInFlight ==
  LET r == SessionReceipt("outcome_unknown", reg.now)
      fenced == [Published(session, session.inflight, r) EXCEPT !.inflight = {}]
  IN /\ reg.step = "fence"
     /\ IF Live
        THEN /\ store' = Upserted(store, session.inflight, r)
             /\ PersistUpTo(session.inflight, r)
             /\ session' = fenced
             /\ reg' = [reg EXCEPT !.step = "meta", !.live = fenced.rev]
        ELSE /\ reg' = [reg EXCEPT !.step = "meta"]
             /\ UNCHANGED <<store, file, session>>
     /\ UNCHANGED <<mapping, bridges, tasks, commands, nextEpoch, clock, run, sends>>

\* Saving the receipt of c fails: the registration is given up with the commands
\* of done already fenced and all of them still in flight.
FenceFails(done, c) ==
  LET r == SessionReceipt("outcome_unknown", reg.now)
  IN /\ reg.step = "fence"
     /\ Live
     /\ c \in session.inflight /\ done \subseteq session.inflight \ {c}
     /\ store' = Upserted(store, done \cup {c}, r)
     /\ PersistUpTo(done, r) \/ PersistUpTo(done \cup {c}, r)
     /\ session' = Published(session, done, r)
     /\ RegistrationFails
     /\ UNCHANGED <<mapping, tasks, commands, nextEpoch, clock, run, sends>>

\* revision_seed.max(live_revision.unwrap_or(0)).
Seed(live) == IF live > mapping.seed THEN live ELSE mapping.seed

\* Mutant: the epoch of the process is kept across a restart of the daemon.
KeepsEpochOfProcess(p) == mapping.nonce = p

\* Same process, and this daemon still holds its session.
KeepsEpoch(p) == mapping.nonce = p /\ reg.live # -1

\* AgentMetadataStore::register: a new process is a new generation; a new process,
\* or no live session to continue, is a new epoch.
Remapped(p) ==
  [nonce |-> p,
   gen |-> IF mapping.nonce = p THEN mapping.gen ELSE mapping.gen + 1,
   epoch |-> IF KeepsEpoch(p) THEN mapping.epoch ELSE nextEpoch,
   seed |-> IF mapping.nonce = None THEN 1 ELSE Seed(reg.live) + 1]

\* receipts_for: the stored receipts that carry the new address.
ReceiptsFor(gen, epoch) ==
  [c \in Commands |-> IF store[c].gen = gen /\ store[c].epoch = epoch
                      THEN store[c] ELSE NoReceipt]

RegisterMapping ==
  LET m == Remapped(bridges[reg.bridge].process)
  IN /\ reg.step = "meta"
     /\ mapping' = m
     /\ nextEpoch' = IF m.epoch = nextEpoch THEN nextEpoch + 1 ELSE nextEpoch
     /\ \/ /\ Persist(m, store)
           /\ reg' = [reg EXCEPT !.step = "receipts", !.gen = m.gen, !.epoch = m.epoch,
                                 !.rev = m.seed]
           /\ UNCHANGED bridges
        \/ /\ PersistFails(m, store)
           /\ RegistrationFails
     /\ UNCHANGED <<store, session, tasks, commands, clock, run, sends>>

\* The receipts the new snapshot starts with are read under a lock of their own.
ReadReceipts ==
  /\ reg.step = "receipts"
  /\ reg' = [reg EXCEPT !.step = "install", !.shown = ReceiptsFor(reg.gen, reg.epoch)]
  /\ UNCHANGED <<mapping, store, file, session, bridges, tasks, commands, nextEpoch, clock, run, sends>>

\* The new session replaces whatever is there; the gate is released.
Install ==
  LET b == reg.bridge
  IN /\ reg.step = "install"
     /\ session' = [NoSession EXCEPT !.gen = reg.gen, !.epoch = reg.epoch,
                                     !.rev = reg.rev, !.shown = reg.shown, !.sender = b,
                                     !.token = b, !.permits = {"prompt", "answer"}]
     /\ bridges' = [bridges EXCEPT ![b].stage = "running"]
     /\ reg' = NoRegistration
     /\ UNCHANGED <<mapping, store, file, tasks, commands, nextEpoch, clock, run, sends>>
-----------------------------------------------------------------------------
(* Submission of a command: submit_command_from *)

\* A client makes a command out of the snapshot it holds.
MakeCommand(c, kind, pinned) ==
  /\ ~Made(c)
  /\ Live
  /\ commands' = [commands EXCEPT ![c] =
       [kind |-> kind, gen |-> session.gen, epoch |-> session.epoch,
        rev |-> IF pinned THEN session.rev ELSE 0, run |-> run,
        process |-> bridges[session.token].process]]
  /\ UNCHANGED <<mapping, store, file, session, reg, bridges, tasks, nextEpoch, clock, run, sends>>

Submitting(c) == \E t \in Tasks : tasks[t].command = c

\* Mutant: a command whose outcome is unknown may be tried again.
UnrecordedOrUnknown(c) == store[c].state \in {"none", "outcome_unknown"}

Unrecorded(c) == store[c].state = "none"

\* An identifier that has a receipt is answered from the store; a new one goes on.
Check(t, c) ==
  /\ tasks[t].step = "idle"
  /\ Made(c)
  /\ Overlap \/ ~Submitting(c)
  /\ Unrecorded(c)
  /\ tasks' = [tasks EXCEPT ![t] = [step |-> "checked", command |-> c, sender |-> None, now |-> clock]]
  /\ UNCHANGED <<mapping, store, file, session, reg, bridges, commands, nextEpoch, clock, run, sends>>

Addresses(c) ==
  /\ commands[c].gen = session.gen
  /\ commands[c].epoch = session.epoch
  /\ commands[c].rev \in {0, session.rev}

\* No live session: an answer that is recorded nowhere.
SubmitUnavailable(t) ==
  /\ tasks[t].step = "checked"
  /\ ~Live
  /\ tasks' = [tasks EXCEPT ![t] = IdleTask]
  /\ UNCHANGED <<mapping, store, file, session, reg, bridges, commands, nextEpoch, clock, run, sends>>

\* A stale or unsupported command: the refusal is recorded and, if that worked,
\* published.
SubmitRefused(t) ==
  LET c == tasks[t].command
      r == CommandReceipt(c, IF Addresses(c) THEN "unavailable" ELSE "stale", tasks[t].now)
      st == Upserted(store, {c}, r)
  IN /\ tasks[t].step = "checked"
     /\ Live
     /\ ~Addresses(c) \/ commands[c].kind \notin session.permits
     /\ store' = st
     /\ \/ Persist(mapping, st) /\ session' = Published(session, {c}, r)
        \/ PersistFails(mapping, st) /\ UNCHANGED session
     /\ tasks' = [tasks EXCEPT ![t] = IdleTask]
     /\ UNCHANGED <<mapping, reg, bridges, commands, nextEpoch, clock, run, sends>>

\* The command is recorded as sending; only then may it be forwarded.
SubmitAccepted(t) ==
  LET c == tasks[t].command
      r == CommandReceipt(c, "sending", tasks[t].now)
      st == Upserted(store, {c}, r)
  IN /\ tasks[t].step = "checked"
     /\ Live
     /\ Addresses(c)
     /\ commands[c].kind \in session.permits
     /\ store' = st
     /\ \/ /\ Persist(mapping, st)
           /\ session' = [Published(session, {c}, r) EXCEPT !.inflight = session.inflight \cup {c}]
           /\ tasks' = [tasks EXCEPT ![t].step = "send", ![t].sender = session.sender]
        \/ /\ PersistFails(mapping, st)
           /\ tasks' = [tasks EXCEPT ![t] = IdleTask]
           /\ UNCHANGED session
     /\ UNCHANGED <<mapping, reg, bridges, commands, nextEpoch, clock, run, sends>>

\* try_send succeeds while the receiver exists and the channel has room.
Sendable(b) == b # None /\ bridges[b].stage # "ended" /\ Len(bridges[b].queue) < Capacity

Forward(t) ==
  LET b == tasks[t].sender
      c == tasks[t].command
  IN /\ tasks[t].step = "send"
     /\ Sendable(b)
     /\ bridges' = [bridges EXCEPT ![b].queue = Append(bridges[b].queue, c)]
     /\ sends' = [sends EXCEPT ![c] = sends[c] + 1]
     /\ tasks' = [tasks EXCEPT ![t] = IdleTask]
     /\ UNCHANGED <<mapping, store, file, session, reg, commands, nextEpoch, clock, run>>

\* mark_outcome_unknown: whatever session is there now is told; with none there,
\* nothing is recorded.
MarkOutcomeUnknown(t) ==
  LET c == tasks[t].command
      r == CommandReceipt(c, "outcome_unknown", clock)
      st == Upserted(store, {c}, r)
  IN /\ tasks[t].step = "send"
     /\ ~Sendable(tasks[t].sender)
     /\ IF Live
        THEN /\ store' = st
             /\ Persist(mapping, st) \/ PersistFails(mapping, st)
             /\ session' = [Published(session, {c}, r) EXCEPT !.inflight = session.inflight \ {c}]
        ELSE UNCHANGED <<store, file, session>>
     /\ tasks' = [tasks EXCEPT ![t] = IdleTask]
     /\ UNCHANGED <<mapping, reg, bridges, commands, nextEpoch, clock, run, sends>>
-----------------------------------------------------------------------------
(* The bridge task: handle_agent_bridge *)

\* A queued command is written to the adapter.
TakeCommand(b) ==
  /\ bridges[b].stage = "running"
  /\ bridges[b].queue # <<>>
  /\ bridges' = [bridges EXCEPT ![b].queue = Tail(bridges[b].queue),
                                ![b].taken = bridges[b].taken \cup {Head(bridges[b].queue)}]
  /\ UNCHANGED <<mapping, store, file, session, reg, tasks, commands, nextEpoch, clock, run, sends>>

\* Mutant: any answer is recorded.
ExpectedAlways(c) == Live

Expected(c) == Live /\ c \in session.inflight

\* record_bridge_receipt: only a command in flight in the session that is live now.
RecordReceipt(b, c, state) ==
  LET r == SessionReceipt(state, clock)
      st == Upserted(store, {c}, r)
  IN /\ bridges[b].stage = "running"
     /\ c \in bridges[b].taken
     /\ Expected(c)
     /\ state = "accepted" => session.rev < MaxRev
     /\ store' = st
     /\ \/ /\ Persist(mapping, st)
           /\ session' = [Published(session, {c}, r) EXCEPT
                            !.inflight = IF state \in Verdicts THEN session.inflight \ {c}
                                                               ELSE session.inflight]
        \/ /\ PersistFails(mapping, st)
           /\ UNCHANGED session
     /\ UNCHANGED <<mapping, reg, bridges, tasks, commands, nextEpoch, clock, run, sends>>

\* The loop ends: end of stream, protocol error, shutdown, or the supervisor
\* dropped the sender.
EndLoop(b) ==
  /\ bridges[b].stage = "running"
  /\ bridges' = [bridges EXCEPT ![b].stage = "ending"]
  /\ UNCHANGED <<mapping, store, file, session, reg, tasks, commands, nextEpoch, clock, run, sends>>

\* The task returns early, past bridge_disconnected: the registration could not be
\* acknowledged, or a command has no frame in the adapter's dialect.
Bail(b) ==
  /\ bridges[b].stage = "running"
  /\ bridges' = [bridges EXCEPT ![b].stage = "ended", ![b].queue = <<>>, ![b].taken = {}]
  /\ UNCHANGED <<mapping, store, file, session, reg, tasks, commands, nextEpoch, clock, run, sends>>

\* downgrade_session takes the commands away, not the interactions.
Downgraded(s) == [s EXCEPT !.permits = {"answer"}, !.rev = s.rev + 1]

Owns(b) == session.token = b

\* Mutant: in-flight commands survive the bridge.
Undrained(s, r) == [s EXCEPT !.sender = None]

\* The in-flight commands become unknown and the sender is gone.
Drained(s, r) == [Published(s, s.inflight, r) EXCEPT !.inflight = {}, !.sender = None]

\* bridge_disconnected.  An exited process takes the session with it.
Disconnect(b, exited) ==
  LET r == SessionReceipt("outcome_unknown", clock)
  IN /\ bridges[b].stage = "ending"
     /\ IF ~Owns(b) THEN UNCHANGED <<store, file, session>>
        ELSE IF exited THEN session' = NoSession /\ UNCHANGED <<store, file>>
        ELSE /\ store' = Upserted(store, session.inflight, r)
             /\ \E saved \in SUBSET session.inflight : PersistUpTo(saved, r)
             /\ session' = Downgraded(Drained(session, r))
     /\ bridges' = [bridges EXCEPT ![b].stage = "closing"]
     /\ UNCHANGED <<mapping, reg, tasks, commands, nextEpoch, clock, run, sends>>

\* The task's frame, and with it the receiver, is dropped.
Drop(b) ==
  /\ bridges[b].stage = "closing"
  /\ bridges' = [bridges EXCEPT ![b].stage = "ended", ![b].queue = <<>>, ![b].taken = {}]
  /\ UNCHANGED <<mapping, store, file, session, reg, tasks, commands, nextEpoch, clock, run, sends>>
-----------------------------------------------------------------------------
(* Everything else that touches the session *)

\* sweep_dead_sessions: the process is gone.
Sweep ==
  /\ Live
  /\ session' = NoSession
  /\ UNCHANGED <<mapping, store, file, reg, bridges, tasks, commands, nextEpoch, clock, run, sends>>

\* A turn, an entry, an interaction, a route: some update that moves the revision.
\* A reconciled history also saves it.
Update ==
  LET saved == [mapping EXCEPT !.seed = Seed(session.rev + 1)]
  IN /\ Live
     /\ session.rev < MaxRev
     /\ session' = [session EXCEPT !.rev = session.rev + 1]
     /\ \/ UNCHANGED <<mapping, file>>
        \/ mapping' = saved /\ PersistFails(saved, store)
     /\ UNCHANGED <<store, reg, bridges, tasks, commands, nextEpoch, clock, run, sends>>

\* fence_rewritten_history, then the save of the revision: a rewrite of the
\* timeline mints an epoch and sheds the receipts shown under the old one.
RewriteHistory(b) ==
  LET moved == [mapping EXCEPT !.epoch = nextEpoch]
      saved == [moved EXCEPT !.seed = Seed(session.rev + 1)]
      fenced == [session EXCEPT !.epoch = nextEpoch,
                                !.shown = [c \in Commands |-> NoReceipt]]
  IN /\ bridges[b].stage = "running"
     /\ Live
     /\ nextEpoch < EpochBound
     /\ nextEpoch' = nextEpoch + 1
     /\ \/ /\ mapping' = saved
           /\ Persist(moved, store) \/ Persist(saved, store)
           /\ session' = [fenced EXCEPT !.rev = session.rev + 1]
        \/ /\ mapping' = moved
           /\ PersistFails(moved, store)
           /\ session' = fenced
     /\ UNCHANGED <<store, reg, bridges, tasks, commands, clock, run, sends>>

Tick ==
  /\ clock < MaxClock
  /\ clock' = clock + 1
  /\ UNCHANGED <<mapping, store, file, session, reg, bridges, tasks, commands, nextEpoch, run, sends>>

\* The daemon stops and starts: only the file survives, less what has expired.
Restart ==
  /\ run < MaxRuns
  /\ run' = run + 1
  /\ mapping' = file.mapping
  /\ store' = Retained(file.store)
  /\ Persist(file.mapping, Retained(file.store))
  /\ session' = NoSession
  /\ reg' = NoRegistration
  /\ bridges' = [b \in Bridges |-> IF bridges[b].stage = "idle" THEN bridges[b]
                                   ELSE [IdleBridge EXCEPT !.stage = "ended"]]
  /\ tasks' = [t \in Tasks |-> IdleTask]
  /\ UNCHANGED <<commands, nextEpoch, clock, sends>>

RegistrationStep ==
  \/ FenceInFlight
  \/ \E done \in SUBSET Commands, c \in Commands : FenceFails(done, c)
  \/ RegisterMapping
  \/ ReadReceipts
  \/ Install

TaskStep(t) ==
  \/ SubmitUnavailable(t)
  \/ SubmitRefused(t)
  \/ SubmitAccepted(t)
  \/ Forward(t)
  \/ MarkOutcomeUnknown(t)

BridgeStep(b) ==
  \/ TakeCommand(b)
  \/ \E c \in Commands, state \in {"accepted"} \cup Verdicts : RecordReceipt(b, c, state)
  \/ EndLoop(b)
  \/ Bail(b)
  \/ \E exited \in BOOLEAN : Disconnect(b, exited)
  \/ Drop(b)
  \/ RewriteHistory(b)

Next ==
  \/ \E b \in Bridges, p \in Processes : Connect(b, p)
  \/ RegistrationStep
  \/ \E c \in Commands, kind \in {"prompt", "answer"}, pinned \in BOOLEAN : MakeCommand(c, kind, pinned)
  \/ \E t \in Tasks, c \in Commands : Check(t, c)
  \/ \E t \in Tasks : TaskStep(t)
  \/ \E b \in Bridges : BridgeStep(b)
  \/ Sweep
  \/ Update
  \/ Tick
  \/ Restart

Spec == Init /\ [][Next]_vars
-----------------------------------------------------------------------------
(* Properties *)

Delivered(b) == bridges[b].taken \cup {bridges[b].queue[i] : i \in DOMAIN bridges[b].queue}

\* A command identifier reaches the agent at most once, over reconnects, failed
\* saves and restarts (agent_session.rs:6455, "a duplicate command id never
\* forwards twice").
AtMostOnce == \A c \in Commands : sends[c] <= 1

\* What may have reached the agent is on disk: a daemon that crashes right after
\* forwarding still recognises the identifier.
RecordedBeforeForwarded ==
  \A c \in Commands : sends[c] > 0 => file.store[c].state # "none"

\* A command is delivered only to the process, and by the daemon run, whose
\* snapshot the client was looking at when it made the command.
DeliveredToAddressee ==
  \A b \in Bridges : \A c \in Delivered(b) :
    commands[c].process = bridges[b].process /\ commands[c].run = run

\* The late end of a superseded bridge does not take the sender away from the
\* bridge that superseded it.
LiveBridgeKeepsItsSession ==
  \A b \in Bridges : Owns(b) /\ bridges[b].stage = "running" => session.sender = b

\* With no bridge to answer, a command is in flight only while its own submission
\* is about to make it unknown.
UnattendedInFlight ==
  Live /\ session.sender = None =>
    \A c \in session.inflight : \E t \in Tasks : tasks[t].step = "send" /\ tasks[t].command = c

\* Once a command is neither in flight nor being submitted, its recorded receipt is
\* final for this daemon: a late answer, through a bridge that was superseded or
\* after the command was fenced, changes nothing.
LateAnswerIgnored ==
  \A c \in Commands :
    /\ ~Unrecorded(c) /\ c \notin session.inflight /\ ~Submitting(c)
    /\ run' = run
    => store'[c] = store[c]

FencedReceiptIsFinal == [][LateAnswerIgnored]_vars
=============================================================================
