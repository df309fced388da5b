-------------------------- MODULE HostConnections --------------------------
(***************************************************************************)
(* The daemon's side of a device's connection (daemon.rs, pty.rs): the     *)
(* admission of connections and the superseding of stale ones, the session *)
(* loop of one connection and the stream tasks it runs and aborts, the     *)
(* leases those tasks hold on the host's terminals and subscriptions, the  *)
(* child process behind a terminal with its ladder of signals, and what    *)
(* cuts across all of it: a device unpaired, the daemon shutting down, the *)
(* peer going away.                                                        *)
(*                                                                         *)
(* A step runs a task from one await to the next, or from one lock to the  *)
(* next where another thread may come between.  The random token of a      *)
(* lease is the identity of the connection or stream that holds it.        *)
(***************************************************************************)
EXTENDS Integers, FiniteSets

CONSTANTS
  Devices,          \* remote endpoints
  Connections,      \* connections ever dialled
  Streams,          \* streams ever opened
  Layouts,          \* who may dial what: the device of each connection; of each
                    \* stream its connection, the kinds it may have and what a
                    \* terminal on it may be opened on; what may cut them off
  Targets,          \* "shell", "tmux", "herdr", "agent"
  Sessions,         \* multiplexer sessions
  Grits,            \* how many signals of the ladder a child may survive
  MaxConnections,   \* MAX_NORMAL_CONNECTIONS
  MaxPerDevice,     \* MAX_NORMAL_CONNECTIONS_PER_ENDPOINT
  MaxPtys,          \* MAX_ACTIVE_PTYS
  MaxPtysPerDevice, \* MAX_ACTIVE_PTYS_PER_ENDPOINT
  MaxSubscriptions, \* MAX_ACTIVE_AGENT_SUBSCRIPTIONS
  MaxForwards,      \* MAX_FORWARD_STREAMS
  MaxPreHello,      \* MAX_PRE_HELLO_STREAMS
  None

Kinds == {"terminal", "agent", "snapshot", "upload", "download", "forward"}

Opens == [target : Targets, session : Sessions \cup {None}]

ASSUME HostConnectionsAssumption ==
  /\ \A l \in Layouts : /\ l.device \in [Connections -> Devices \cup {None}]
                        /\ l.connection \in [Streams -> Connections]
                        /\ l.kinds \in [Streams -> SUBSET Kinds]
                        /\ l.opens \in [Streams -> SUBSET Opens]
                        /\ l.cuts \subseteq {"peer", "unpair", "shutdown"}
  /\ Grits \subseteq 0..2
  /\ Connections \cap Streams = {}
  /\ {MaxConnections, MaxPerDevice, MaxPtys, MaxPtysPerDevice,
      MaxSubscriptions, MaxForwards, MaxPreHello} \subseteq Nat \ {0}

VARIABLES
  layout,       \* what the devices will dial, chosen once and for all
  paired,       \* the allowlist
  revoking,     \* the device an unpairing has removed and not yet cut off
  shutdown,     \* "no", "sent" on the watch, "closed": the endpoint is
  conn,         \* each connection: its task's stage, whether it is open, the
                \* tokens it evicted and has not closed, streams before hello,
                \* whether its loop subscribed to the watch before the shutdown
  admissions,   \* normal_connections
  handles,      \* host_connections: what an unpairing or a shutdown can close
  active,       \* connections past hello, in the active map
  stream,       \* each stream: kind, stage of its task, what it opened, its watch
  terminalBusy, \* connections whose terminal_active flag is up
  terminalDone, \* connections whose terminal_done channel holds a result
  ptys,         \* active_ptys
  resumable,    \* resumable_ptys
  attached,     \* attached_sessions, by the lease's token
  subscribers,  \* active_agent_subscriptions
  child         \* the process behind a terminal: its state, how many signals it
                \* survives, the last one sent, its cleanup's stage, its owner

vars == <<layout, paired, revoking, shutdown, conn, admissions, handles, active, stream,
          terminalBusy, terminalDone, ptys, resumable, attached, subscribers, child>>

leases == <<ptys, resumable, attached>>
host == <<layout, paired, revoking, shutdown>>
door == <<admissions, handles, active>>

-----------------------------------------------------------------------------
(* ConnectionAdmissions *)

DeviceOf == layout.device
ConnectionOf == layout.connection

Dialling == {DeviceOf[c] : c \in Connections} \ {None}

Device(token) == DeviceOf[IF token \in Connections THEN token ELSE ConnectionOf[token]]

Empty == [tokens |-> {}, total |-> 0]

Held(a, d) == {t \in a.tokens : Device(t) = d}

SaturatingSub(n, k) == IF n < k THEN 0 ELSE n - k

\* try_add_with_limits: whether a slot is free.
HasRoom(a, d, global, perDevice) ==
  a.total < global /\ Cardinality(Held(a, d)) < perDevice

Add(a, token) == [tokens |-> a.tokens \cup {token}, total |-> a.total + 1]

\* Mutant: a lease evicted before its Drop is taken off the total twice.
RemoveTwice(a, token) ==
  [tokens |-> a.tokens \ {token}, total |-> SaturatingSub(a.total, 1)]

\* Mutant: the Drop of a lease takes whatever its device holds.
RemoveEndpoint(a, token) ==
  LET held == Held(a, Device(token))
  IN [tokens |-> a.tokens \ held, total |-> SaturatingSub(a.total, Cardinality(held))]

\* Token-keyed and idempotent: a lease evicted before its Drop frees nothing.
Remove(a, token) ==
  IF token \in a.tokens
  THEN [tokens |-> a.tokens \ {token}, total |-> SaturatingSub(a.total, 1)]
  ELSE a

EvictEndpoint(a, d) ==
  [tokens |-> a.tokens \ Held(a, d),
   total |-> SaturatingSub(a.total, Cardinality(Held(a, d)))]

\* Whatever the device held goes first, and then the global cap may still refuse.
TryAddSuperseding(a, token, global) ==
  LET base == EvictEndpoint(a, Device(token))
  IN IF base.total < global THEN Add(base, token) ELSE base

-----------------------------------------------------------------------------
(* Streams and children *)

NoStream == [kind |-> None, stage |-> "none", target |-> None, session |-> None,
             watch |-> FALSE]
NoChild == [state |-> "none", grit |-> 0, signal |-> 0, ladder |-> "none", owner |-> "nobody"]

\* The signals of the ladder, by strength.
Hup == 1
Term == 2
Kill == 3

StreamsOf(c) == {s \in Streams : ConnectionOf[s] = c}
Unopened(c) == {s \in StreamsOf(c) : stream[s].stage = "none" /\ layout.kinds[s] # {}}
Tasks(c) == {s \in StreamsOf(c) : stream[s].stage \notin {"none", "over"}}
TasksOf(c, kind) == {s \in Tasks(c) : stream[s].kind = kind}

LeasedStages == {"prepare", "spawn", "bridge", "detach", "cleanup"}
HoldsPty(s) == stream[s].kind = "terminal" /\ stream[s].stage \in LeasedStages

\* target_is_resumable: everything but a plain login shell.
IsResumable(target) == target # "shell"

\* The task of a stream is polled until abort_all: what it does while the loop ends
\* comes before that.
Polled(s) == conn[ConnectionOf[s]].stage \in {"ready", "preface"}

\* A stream's task is over.
Over(s) == [stream EXCEPT ![s] = [NoStream EXCEPT !.stage = "over"]]

\* Drop for PtyLease.
DropPtyLease(s) ==
  IF HoldsPty(s)
  THEN /\ ptys' = Remove(ptys, s)
       /\ resumable' = resumable - (IF IsResumable(stream[s].target) THEN 1 ELSE 0)
       /\ attached' = [attached EXCEPT ![s] = None]
  ELSE UNCHANGED leases

\* Mutant: a session is dropped without a signal.
DroppedQuietly(k) == [k EXCEPT !.owner = "nobody"]

\* Drop for PtySession: hung up, unless cleanup or finish_normal has begun.  The
\* cloned killer of a child sends it a hang-up too.
DroppedPty(k) ==
  [k EXCEPT !.owner = "nobody",
            !.signal = IF k.state = "live" /\ k.ladder = "none" THEN Hup ELSE @]

\* sole_attached_session: the one session every lease of the device names.
SoleAttachedSession(d) ==
  LET named == {attached[s] : s \in {t \in Streams : Device(t) = d}} \ {None}
  IN IF Cardinality(named) = 1 THEN CHOOSE x \in named : TRUE ELSE None

-----------------------------------------------------------------------------
(* Admission: handle_host_connection and NormalConnectionLease *)

NoConnection == [stage |-> "none", open |-> FALSE, evicted |-> {}, tries |-> 0,
                 watch |-> FALSE]

Closed(cs) == [c \in Connections |-> [conn[c] EXCEPT !.open = @ /\ c \notin cs]]

\* The handshake is over; the allowlist is asked before anything else.
Authorize(c) ==
  /\ conn[c].stage = "none" /\ DeviceOf[c] # None
  /\ shutdown # "closed"
  /\ conn' = [conn EXCEPT ![c] =
       IF DeviceOf[c] \in paired THEN [@ EXCEPT !.stage = "authorized", !.open = TRUE]
                                 ELSE [@ EXCEPT !.stage = "gone"]]
  /\ UNCHANGED <<host, door, stream, terminalBusy, terminalDone, leases, subscribers, child>>

\* try_new, under the admissions lock: a device at its own cap evicts the
\* connections it holds; a cap reached by other devices refuses.
Admit(c) ==
  LET d == DeviceOf[c]
      held == Held(admissions, d)
      room == HasRoom(admissions, d, MaxConnections, MaxPerDevice)
      base == IF room THEN admissions ELSE EvictEndpoint(admissions, d)
      granted == room \/ (held # {} /\ HasRoom(base, d, MaxConnections, MaxPerDevice))
  IN /\ conn[c].stage = "authorized"
     /\ admissions' = IF granted THEN Add(base, c) ELSE base
     /\ conn' = [conn EXCEPT ![c] =
          IF granted THEN [@ EXCEPT !.stage = "admitted", !.evicted = held \ base.tokens]
                     ELSE [@ EXCEPT !.stage = "gone", !.open = FALSE]]
     /\ UNCHANGED <<host, handles, active, stream, terminalBusy, terminalDone, leases,
                    subscribers, child>>

\* try_new, under the handles lock: the evicted connections it finds are closed.
Register(c) ==
  LET stale == conn[c].evicted \cap handles
  IN /\ conn[c].stage = "admitted"
     /\ handles' = (handles \ stale) \cup {c}
     /\ conn' = [Closed(stale) EXCEPT ![c].stage = "hello", ![c].evicted = {}]
     /\ UNCHANGED <<host, admissions, active, stream, terminalBusy, terminalDone, leases,
                    subscribers, child>>

-----------------------------------------------------------------------------
(* The session of one connection: handle_host_session *)

\* Hello before anything else; a known request before it is answered and the wait
\* goes on, up to a number of streams.
HelloDone(c) ==
  /\ conn[c].stage = "hello" /\ conn[c].open
  /\ conn' = [conn EXCEPT ![c].stage = "ready", ![c].tries = 0,
                            ![c].watch = (shutdown = "no")]
  /\ active' = active \cup {c}
  /\ UNCHANGED <<host, admissions, handles, stream, terminalBusy, terminalDone, leases,
                 subscribers, child>>

KeepWaiting(c) ==
  LET tries == conn[c].tries + 1
  IN /\ conn[c].stage = "hello" /\ conn[c].open
     /\ conn' = [conn EXCEPT ![c] =
          IF tries < MaxPreHello THEN [@ EXCEPT !.tries = tries]
                                 ELSE [@ EXCEPT !.stage = "closing", !.open = FALSE, !.tries = 0]]
     /\ UNCHANGED <<host, door, stream, terminalBusy, terminalDone, leases, subscribers, child>>

\* A timeout, a malformed request, another kind of stream, a closed connection.
HelloFails(c) ==
  /\ conn[c].stage = "hello"
  /\ conn' = [conn EXCEPT ![c].stage = "closing", ![c].tries = 0]
  /\ UNCHANGED <<host, door, stream, terminalBusy, terminalDone, leases, subscribers, child>>

\* The loop has taken a stream and reads its preface; nothing else is selected
\* until it has.
AcceptStream(c) ==
  /\ conn[c].stage = "ready" /\ conn[c].open
  /\ Unopened(c) # {}
  /\ conn' = [conn EXCEPT ![c].stage = "preface"]
  /\ UNCHANGED <<host, door, stream, terminalBusy, terminalDone, leases, subscribers, child>>

NoPreface(c) ==
  /\ conn[c].stage = "preface"
  /\ conn' = [conn EXCEPT ![c].stage = "ready"]
  /\ UNCHANGED <<host, door, stream, terminalBusy, terminalDone, leases, subscribers, child>>

\* The gates the loop itself holds shut: one terminal, one upload, a few forwards.
GateOpen(c, kind) ==
  CASE kind = "terminal" -> c \notin terminalBusy
    [] kind = "upload" -> TasksOf(c, "upload") = {}
    [] kind = "forward" -> Cardinality(TasksOf(c, "forward")) < MaxForwards
    [] OTHER -> TRUE

Dispatch(c, s, kind) ==
  LET admitted == GateOpen(c, kind)
  IN /\ conn[c].stage = "preface"
     /\ s \in Unopened(c) /\ kind \in layout.kinds[s]
     /\ conn' = [conn EXCEPT ![c].stage = "ready"]
     /\ stream' = [stream EXCEPT ![s].kind = kind,
                                 ![s].stage = IF admitted THEN "open" ELSE "over"]
     /\ terminalBusy' = IF kind = "terminal" THEN terminalBusy \cup {c} ELSE terminalBusy
     /\ UNCHANGED <<host, door, terminalDone, leases, subscribers, child>>

\* Mutant: the end of the terminal does not end the connection.
LoopOutlivesTerminal(c) ==
  /\ conn[c].stage = "ready"
  /\ ~conn[c].open \/ (conn[c].watch /\ shutdown # "no")
  /\ conn' = [conn EXCEPT ![c].stage = "draining", ![c].open = FALSE]
  /\ UNCHANGED <<host, door, stream, terminalBusy, terminalDone, leases, subscribers, child>>

\* The loop breaks: the terminal is over, the connection is closed, or the watch
\* changes, and then the connection is closed.  A watch subscribed to after the
\* daemon's last word never changes.
LoopEnds(c) ==
  /\ conn[c].stage = "ready"
  /\ \/ /\ c \in terminalDone \/ ~conn[c].open
        /\ conn' = [conn EXCEPT ![c].stage = "draining"]
     \/ /\ conn[c].watch /\ shutdown # "no"
        /\ conn' = [conn EXCEPT ![c].stage = "draining", ![c].open = FALSE]
  /\ UNCHANGED <<host, door, stream, terminalBusy, terminalDone, leases, subscribers, child>>

\* abort_all: a task is dropped at the await it stands on, with all it owns.
AbortTask(s) ==
  /\ conn[ConnectionOf[s]].stage = "draining"
  /\ s \in Tasks(ConnectionOf[s])
  /\ stream' = Over(s)
  /\ DropPtyLease(s)
  /\ subscribers' = Remove(subscribers, s)
  /\ child' = [child EXCEPT ![s] = IF @.owner = "task" THEN DroppedPty(@) ELSE @]
  /\ UNCHANGED <<host, conn, door, terminalBusy, terminalDone>>

\* The last task is joined and the session returns, with its flag and its channel.
Joined(c) ==
  /\ conn[c].stage = "draining"
  /\ Tasks(c) = {}
  /\ conn' = [conn EXCEPT ![c].stage = "closing", ![c].watch = FALSE]
  /\ active' = active \ {c}
  /\ terminalBusy' = terminalBusy \ {c}
  /\ terminalDone' = terminalDone \ {c}
  /\ UNCHANGED <<host, admissions, handles, stream, leases, subscribers, child>>

\* The connection is closed; then Drop for NormalConnectionLease, handle first.
CloseConnection(c) ==
  /\ conn[c].stage = "closing"
  /\ conn' = [conn EXCEPT ![c].stage = "released", ![c].open = FALSE]
  /\ handles' = handles \ {c}
  /\ UNCHANGED <<host, admissions, active, stream, terminalBusy, terminalDone, leases,
                 subscribers, child>>

ReleaseConnection(c) ==
  /\ conn[c].stage = "released"
  /\ conn' = [conn EXCEPT ![c].stage = "gone"]
  /\ admissions' = Remove(admissions, c)
  /\ UNCHANGED <<host, handles, active, stream, terminalBusy, terminalDone, leases,
                 subscribers, child>>

-----------------------------------------------------------------------------
(* The streams that own no process *)

\* The first step of a task, where the allowlist is asked again.
Asked(s, kind, next) ==
  /\ Polled(s)
  /\ stream[s].kind = kind /\ stream[s].stage = "open"
  /\ stream' = IF Device(s) \in paired THEN [stream EXCEPT ![s] = next] ELSE Over(s)
  /\ UNCHANGED <<host, conn, door, terminalBusy, terminalDone, leases, subscribers, child>>

StartUpload(s) == Asked(s, "upload", [stream[s] EXCEPT !.stage = "running"])

\* A preview asks which session the device is on.
StartDownload(s) ==
  Asked(s, "download", [stream[s] EXCEPT !.stage = "running",
                                         !.session = SoleAttachedSession(Device(s))])

\* One snapshot at a time; the second is told that the host is busy.
StartSnapshot(s) ==
  LET busy == \E t \in TasksOf(ConnectionOf[s], "snapshot") : stream[t].stage = "running"
  IN Asked(s, "snapshot", [stream[s] EXCEPT !.stage = IF busy THEN "over" ELSE "running"])

StartAgent(s) == Asked(s, "agent", [stream[s] EXCEPT !.stage = "asked"])

\* A forward asks nobody.
StartForward(s) ==
  /\ Polled(s)
  /\ stream[s].kind = "forward" /\ stream[s].stage = "open"
  /\ stream' = [stream EXCEPT ![s].stage = "running"]
  /\ UNCHANGED <<host, conn, door, terminalBusy, terminalDone, leases, subscribers, child>>

\* AgentSubscriptionLease: the stream runs if it was given the slot.
Subscribe(s) ==
  LET granted == TryAddSuperseding(subscribers, s, MaxSubscriptions)
  IN /\ Polled(s) /\ stream[s].stage = "asked"
     /\ subscribers' = granted
     /\ stream' = IF s \in granted.tokens THEN [stream EXCEPT ![s].stage = "running"]
                                          ELSE Over(s)
     /\ UNCHANGED <<host, conn, door, terminalBusy, terminalDone, leases, child>>

\* Another agent operation is accepted without a lease.
Request(s) ==
  /\ Polled(s) /\ stream[s].stage = "asked"
  /\ stream' = [stream EXCEPT ![s].stage = "running"]
  /\ UNCHANGED <<host, conn, door, terminalBusy, terminalDone, leases, subscribers, child>>

\* Answered, timed out, malformed, reset.
FinishStream(s) ==
  /\ Polled(s)
  /\ stream[s].stage \in {"open", "asked", "running"} /\ stream[s].kind # "terminal"
  /\ stream' = Over(s)
  /\ subscribers' = Remove(subscribers, s)
  /\ UNCHANGED <<host, conn, door, terminalBusy, terminalDone, leases, child>>

-----------------------------------------------------------------------------
(* The terminal: handle_terminal_stream, bridge_terminal *)

\* The task returns: its lease is dropped, the flag comes down, the loop is told.
EndTerminal(s) ==
  /\ stream' = Over(s)
  /\ DropPtyLease(s)
  /\ terminalBusy' = terminalBusy \ {ConnectionOf[s]}
  /\ terminalDone' = terminalDone \cup {ConnectionOf[s]}
  /\ UNCHANGED <<host, conn, door, subscribers>>

IsTerminal(s, stage) == Polled(s) /\ stream[s].kind = "terminal" /\ stream[s].stage = stage

\* Whoever owns the child is polled.
OwnerPolled(s) == child[s].owner = "task" => Polled(s)

\* Mutant: the allowlist is not asked again.
OpenTerminalUnasked(s, open) ==
  /\ IsTerminal(s, "open")
  /\ stream' = [stream EXCEPT ![s] = [@ EXCEPT !.stage = "plan", !.target = open.target,
                                       !.session = open.session]]
  /\ UNCHANGED <<host, conn, door, terminalBusy, terminalDone, leases, subscribers, child>>

\* The open frame, and the allowlist asked again.
OpenTerminal(s, open) ==
  /\ IsTerminal(s, "open")
  /\ IF Device(s) \in paired
     THEN /\ stream' = [stream EXCEPT ![s] = [@ EXCEPT !.stage = "plan",
                                                !.target = open.target,
                                                !.session = open.session]]
          /\ UNCHANGED <<host, conn, door, terminalBusy, terminalDone, leases, subscribers>>
     ELSE EndTerminal(s)
  /\ UNCHANGED child

\* The plan is resolved; PtyLease::try_new grants or the terminal is refused.
LeasePty(s) ==
  /\ IsTerminal(s, "plan")
  /\ IF HasRoom(ptys, Device(s), MaxPtys, MaxPtysPerDevice)
     THEN /\ ptys' = Add(ptys, s)
          /\ resumable' = resumable + (IF IsResumable(stream[s].target) THEN 1 ELSE 0)
          /\ attached' = [attached EXCEPT ![s] = stream[s].session]
          /\ stream' = [stream EXCEPT ![s].stage = "prepare"]
          /\ UNCHANGED <<host, conn, door, terminalBusy, terminalDone, subscribers>>
     ELSE EndTerminal(s)
  /\ UNCHANGED child

\* No frame in time, a bad one, a plan refused, a provider that is not there.
GiveUpTerminal(s) ==
  /\ \E stage \in {"open", "plan", "prepare"} : IsTerminal(s, stage)
  /\ EndTerminal(s)
  /\ UNCHANGED child

\* The tab is focused, the tmux session exists; a thread spawns the child.
SpawnChild(s) ==
  /\ IsTerminal(s, "prepare")
  /\ stream' = [stream EXCEPT ![s].stage = "spawn"]
  /\ child' = [child EXCEPT ![s] = [@ EXCEPT !.state = "starting", !.owner = "task"]]
  /\ UNCHANGED <<host, conn, door, terminalBusy, terminalDone, leases, subscribers>>

\* The spawn cannot be cancelled: another task waits for it and owns what comes.
SpawnTimesOut(s) ==
  /\ IsTerminal(s, "spawn")
  /\ child' = [child EXCEPT ![s].owner = "late"]
  /\ EndTerminal(s)

SpawnFails(s) ==
  /\ child[s].state = "starting" /\ OwnerPolled(s)
  /\ child' = [child EXCEPT ![s] = [NoChild EXCEPT !.state = "dead"]]
  /\ IF child[s].owner = "task"
     THEN EndTerminal(s)
     ELSE UNCHANGED <<host, conn, door, stream, terminalBusy, terminalDone, leases, subscribers>>

\* The child runs: bridged by its terminal, cleaned up by the late owner, or, when
\* the task was aborted meanwhile, dropped where it arrives.
Spawned(s, grit) ==
  LET born == [child[s] EXCEPT !.state = "live", !.grit = grit]
  IN /\ child[s].state = "starting" /\ OwnerPolled(s)
     /\ child' = [child EXCEPT ![s] =
          CASE @.owner = "task" -> born
            [] @.owner = "late" -> [born EXCEPT !.signal = Hup, !.ladder = "hup"]
            [] @.owner = "nobody" -> DroppedPty(born)]
     /\ stream' = IF child[s].owner = "task"
                  THEN [stream EXCEPT ![s].stage = "bridge", ![s].watch = (shutdown = "no")]
                  ELSE stream
     /\ UNCHANGED <<host, conn, door, terminalBusy, terminalDone, leases, subscribers>>

\* The child ends by itself, or of a signal it does not survive.
ChildExits(s) ==
  /\ child[s].state = "live"
  /\ child' = [child EXCEPT ![s] = [@ EXCEPT !.state = "dead", !.grit = 0, !.signal = 0]]
  /\ UNCHANGED <<host, conn, door, stream, terminalBusy, terminalDone, leases, subscribers>>

\* The exit is seen and the output drained: finish_normal.
FinishNormal(s) ==
  /\ IsTerminal(s, "bridge") /\ child[s].state = "dead"
  /\ child' = [child EXCEPT ![s].owner = "nobody"]
  /\ EndTerminal(s)

\* cleanup: marked as cleaned first, then the first signal; the child of a viewer
\* is killed before anything closes.
HangUp(k, target) ==
  [k EXCEPT !.ladder = "hup", !.signal = IF target = "herdr" THEN Kill ELSE Hup]

\* cleanup_terminal: a tmux client is detached first, and that takes an await.
CleanupTerminal(s) ==
  /\ stream' = [stream EXCEPT ![s].stage =
                  IF stream[s].target = "tmux" THEN "detach" ELSE "cleanup"]
  /\ child' = [child EXCEPT ![s] =
                 IF stream[s].target = "tmux" THEN @ ELSE HangUp(@, stream[s].target)]

\* A close frame, a bad frame, an input or a write that failed.
ClientEndsTerminal(s) ==
  /\ IsTerminal(s, "bridge")
  /\ CleanupTerminal(s)
  /\ UNCHANGED <<host, conn, door, terminalBusy, terminalDone, leases, subscribers>>

\* The bridge sees the connection closed, or the watch, and then closes it.
CutTerminal(s) ==
  /\ IsTerminal(s, "bridge")
  /\ \/ ~conn[ConnectionOf[s]].open /\ UNCHANGED conn
     \/ stream[s].watch /\ shutdown # "no" /\ conn' = Closed({ConnectionOf[s]})
  /\ CleanupTerminal(s)
  /\ UNCHANGED <<host, door, terminalBusy, terminalDone, leases, subscribers>>

Detached(s) ==
  /\ IsTerminal(s, "detach")
  /\ stream' = [stream EXCEPT ![s].stage = "cleanup"]
  /\ child' = [child EXCEPT ![s] = HangUp(@, stream[s].target)]
  /\ UNCHANGED <<host, conn, door, terminalBusy, terminalDone, leases, subscribers>>

\* A wait of cleanup is over without an exit: the next signal, while someone is
\* there to send it.
Escalate(s) ==
  LET k == child[s]
  IN /\ k.state = "live" /\ k.owner # "nobody" /\ OwnerPolled(s)
     /\ \/ k.ladder = "hup" /\ child' = [child EXCEPT ![s] =
             [k EXCEPT !.ladder = "term", !.signal = IF k.signal = Kill THEN Kill ELSE Term]]
        \/ k.ladder = "term" /\ child' = [child EXCEPT ![s] =
             [k EXCEPT !.ladder = "kill", !.signal = Kill]]
     /\ UNCHANGED <<host, conn, door, stream, terminalBusy, terminalDone, leases, subscribers>>

\* The child is gone, or the last wait is over: cleanup returns to its owner.
CleanedUp(s) ==
  LET k == child[s]
  IN /\ k.owner # "nobody" /\ OwnerPolled(s)
     /\ \/ k.state = "dead" /\ k.ladder \in {"hup", "term"}
        \/ k.ladder = "kill"
     /\ child' = [child EXCEPT ![s].owner = "nobody"]
     /\ IF k.owner = "task"
        THEN EndTerminal(s)
        ELSE UNCHANGED <<host, conn, door, stream, terminalBusy, terminalDone, leases,
                         subscribers>>

-----------------------------------------------------------------------------
(* What cuts across the connections *)

\* The peer closes, or goes silent until the idle timeout.
PeerCloses(c) ==
  /\ "peer" \in layout.cuts
  /\ conn[c].open
  /\ conn' = Closed({c})
  /\ UNCHANGED <<host, door, stream, terminalBusy, terminalDone, leases, subscribers, child>>

\* The pairing of a device, which its own module describes.
Pair(d) ==
  /\ d \notin paired
  /\ paired' = paired \cup {d}
  /\ UNCHANGED <<layout, revoking, shutdown, conn, door, stream, terminalBusy, terminalDone, leases,
                 subscribers, child>>

\* The Unpair operation, one at a time: the allowlist first, then the handles.
Unpair(d) ==
  /\ "unpair" \in layout.cuts
  /\ revoking = None
  /\ d \in paired
  /\ paired' = paired \ {d}
  /\ revoking' = d
  /\ UNCHANGED <<layout, shutdown, conn, door, stream, terminalBusy, terminalDone, leases,
                 subscribers, child>>

CloseRevoked ==
  /\ revoking # None
  /\ conn' = Closed({c \in handles : DeviceOf[c] = revoking})
  /\ revoking' = None
  /\ UNCHANGED <<layout, paired, shutdown, door, stream, terminalBusy, terminalDone, leases,
                 subscribers, child>>

\* The watch is set; then every handle is closed, and the endpoint with what it has.
Shutdown ==
  /\ "shutdown" \in layout.cuts
  /\ shutdown = "no"
  /\ shutdown' = "sent"
  /\ UNCHANGED <<layout, paired, revoking, conn, door, stream, terminalBusy, terminalDone, leases,
                 subscribers, child>>

CloseEndpoint ==
  /\ shutdown = "sent"
  /\ shutdown' = "closed"
  /\ conn' = Closed(Connections)
  /\ UNCHANGED <<layout, paired, revoking, door, stream, terminalBusy, terminalDone, leases,
                 subscribers, child>>

-----------------------------------------------------------------------------
Init ==
  /\ layout \in Layouts
  /\ paired = Dialling
  /\ revoking = None
  /\ shutdown = "no"
  /\ conn = [c \in Connections |-> NoConnection]
  /\ admissions = Empty
  /\ handles = {}
  /\ active = {}
  /\ stream = [s \in Streams |-> NoStream]
  /\ terminalBusy = {}
  /\ terminalDone = {}
  /\ ptys = Empty
  /\ resumable = 0
  /\ attached = [s \in Streams |-> None]
  /\ subscribers = Empty
  /\ child = [s \in Streams |-> NoChild]

\* What the task of a connection does, whatever its peer does.
ConnectionStep(c) ==
  \/ Admit(c) \/ Register(c) \/ HelloFails(c) \/ NoPreface(c)
  \/ LoopEnds(c) \/ Joined(c) \/ CloseConnection(c) \/ ReleaseConnection(c)

\* What the task of a terminal does, whatever its peer and its child do.
TerminalStep(s) ==
  \/ LeasePty(s) \/ GiveUpTerminal(s) \/ SpawnChild(s) \/ SpawnTimesOut(s)
  \/ FinishNormal(s) \/ CutTerminal(s) \/ Detached(s)

Next ==
  \/ \E c \in Connections :
       \/ Authorize(c) \/ ConnectionStep(c) \/ HelloDone(c) \/ KeepWaiting(c)
       \/ AcceptStream(c) \/ PeerCloses(c)
       \/ \E s \in Streams, kind \in Kinds : Dispatch(c, s, kind)
  \/ \E s \in Streams :
       \/ StartUpload(s) \/ StartDownload(s) \/ StartSnapshot(s) \/ StartAgent(s)
       \/ StartForward(s) \/ Subscribe(s) \/ Request(s) \/ FinishStream(s)
       \/ TerminalStep(s) \/ ClientEndsTerminal(s) \/ Escalate(s) \/ CleanedUp(s)
       \/ SpawnFails(s) \/ ChildExits(s) \/ AbortTask(s)
       \/ \E open \in layout.opens[s] : OpenTerminal(s, open)
       \/ \E grit \in Grits : Spawned(s, grit)
  \/ \E d \in Dialling : Pair(d) \/ Unpair(d)
  \/ CloseRevoked \/ Shutdown \/ CloseEndpoint

Spec == Init /\ [][Next]_vars

HostStep(c) ==
  \/ ConnectionStep(c)
  \/ \E s \in StreamsOf(c) : TerminalStep(s) \/ Escalate(s) \/ CleanedUp(s) \/ AbortTask(s)

\* The runtime polls some task of a connection that can go on, and a wait ends at
\* its timeout.  The select of the session loop polls its branches in random order,
\* so one that is ready again and again is taken even if the peer always has a
\* stream to offer.  Nothing is assumed of the peer or of the child.
Fairness ==
  \A c \in Connections : WF_vars(HostStep(c)) /\ SF_vars(LoopEnds(c))

FairSpec == Spec /\ Fairness

-----------------------------------------------------------------------------
(* Properties *)

TypeOK ==
  /\ layout \in Layouts
  /\ paired \subseteq Devices
  /\ revoking \in Devices \cup {None}
  /\ shutdown \in {"no", "sent", "closed"}
  /\ conn \in [Connections ->
       [stage : {"none", "authorized", "admitted", "hello", "ready", "preface", "draining",
                 "closing", "released", "gone"},
        open : BOOLEAN, evicted : SUBSET Connections, tries : 0..MaxPreHello, watch : BOOLEAN]]
  /\ admissions \in [tokens : SUBSET Connections, total : 0..MaxConnections]
  /\ handles \subseteq Connections /\ active \subseteq Connections
  /\ stream \in [Streams ->
       [kind : Kinds \cup {None},
        stage : {"none", "open", "asked", "running", "plan", "over"} \cup LeasedStages,
        target : Targets \cup {None}, session : Sessions \cup {None},
        watch : BOOLEAN]]
  /\ terminalBusy \subseteq Connections /\ terminalDone \subseteq Connections
  /\ ptys \in [tokens : SUBSET Streams, total : 0..MaxPtys]
  /\ resumable \in 0..MaxPtys
  /\ attached \in [Streams -> Sessions \cup {None}]
  /\ subscribers \in [tokens : SUBSET Streams, total : 0..MaxSubscriptions]
  /\ child \in [Streams ->
       [state : {"none", "starting", "live", "dead"}, grit : 0..2, signal : 0..Kill,
        ladder : {"none", "hup", "term", "kill"}, owner : {"nobody", "task", "late"}]]

\* Every lease is counted once and given back once: the totals the limits and the
\* status read are the tokens held, a device never holds more than its share, and
\* each token, attached session and resumable terminal belongs to a task that is
\* still there (try_new and Drop of the leases, daemon.rs).
LeasesAreAccounted ==
  /\ \A a \in {admissions, ptys, subscribers} : a.total = Cardinality(a.tokens)
  /\ \A d \in Devices : /\ Cardinality(Held(admissions, d)) <= MaxPerDevice
                        /\ Cardinality(Held(ptys, d)) <= MaxPtysPerDevice
                        /\ Cardinality(Held(subscribers, d)) <= 1
  /\ admissions.tokens \subseteq {c \in Connections : conn[c].stage \notin {"none", "gone"}}
  /\ ptys.tokens = {s \in Streams : HoldsPty(s)}
  /\ subscribers.tokens \subseteq {s \in Streams : stream[s].stage = "running"}
  /\ resumable = Cardinality({s \in ptys.tokens : IsResumable(stream[s].target)})
  /\ \A s \in Streams : attached[s] = IF HoldsPty(s) THEN stream[s].session ELSE None

\* A slot is lost only by the task that ends or to a newer one of the same device:
\* the late Drop of a superseded lease and a device dialling again take nothing
\* from anyone else (evict_endpoint, try_add_superseding, remove in daemon.rs).
SlotsAreKept ==
  [][/\ \A c \in admissions.tokens \ admissions'.tokens :
          conn'[c].stage = "gone" \/ \E n \in admissions'.tokens \ admissions.tokens :
                                       Device(n) = Device(c)
     /\ \A s \in subscribers.tokens \ subscribers'.tokens :
          stream'[s].stage = "over" \/ \E n \in subscribers'.tokens \ subscribers.tokens :
                                         Device(n) = Device(s)]_vars

\* Once an unpairing is over, no terminal of the device is piped over an open
\* connection: the ones it had are closed, and the allowlist that each terminal
\* asks again turns away the rest (Unpair and handle_terminal_stream, daemon.rs).
RevokedTerminalsEnd ==
  \A s \in Streams :
    stream[s].stage = "bridge" /\ Device(s) \notin paired /\ revoking # Device(s)
      => ~conn[ConnectionOf[s]].open

\* A child is never forgotten: while it lives, a task holds it, or it has been
\* hung up at least (the late owner of a spawn, Drop for PtySession, pty.rs).
ChildrenAreSignalled ==
  \A s \in Streams : child[s].state = "live" /\ child[s].owner = "nobody"
                        => child[s].signal >= Hup

\* A connection that is closed, or whose terminal is over, goes away with its
\* tasks, its leases and its handle, whatever the peer and the child do
\* (handle_host_session, daemon.rs).
ConnectionsDrain ==
  \A c \in Connections :
    (conn[c].stage # "none" /\ (~conn[c].open \/ c \in terminalDone))
      ~> (conn[c].stage = "gone" /\ c \notin admissions.tokens \cup handles \cup active)

=============================================================================
