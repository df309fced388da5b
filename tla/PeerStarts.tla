----------------------------- MODULE PeerStarts -----------------------------
(***************************************************************************)
(* Linked computers: the destination's grants and start claims (peers.rs), *)
(* the connection handler and the administration operations that use them  *)
(* (peer_daemon.rs), and the unpairing of the phone that issued a grant    *)
(* (daemon.rs).                                                            *)
(*                                                                         *)
(* The store is a short lock around memory and file; `effects' is an async *)
(* lock a handler holds across the launch or the command it performs.  One *)
(* action is what a task does between two points where it waits.  A phone  *)
(* and the worker itself change the presence of a session without either.  *)
(***************************************************************************)
EXTENDS Naturals, FiniteSets

CONSTANTS
  Endpoints,   \* identities of other computers
  Phones,      \* identities of phones that may be paired
  Grants,      \* grant identifiers that may ever be minted (random, never reused)
  Requests,    \* request identifiers a peer may choose for a start
  Workspaces,  \* projects a grant may select
  Handlers,    \* peer connections that may be served at the same time
  MaxPeers,    \* MAX_PEERS
  MaxStarts,   \* MAX_STARTS
  MaxLive,     \* MAX_LIVE
  LateFailure, \* may a save report an error after it has replaced the file?
  Host,        \* this host, the issuer of a grant made from its own terminal
  None

ASSUME LimitAssumption ==
  MaxPeers \in Nat /\ MaxStarts \in Nat /\ MaxLive \in Nat /\ LateFailure \in BOOLEAN

ASSUME NameAssumption ==
  /\ Host \notin Phones
  /\ None \notin Endpoints \cup Phones \cup Grants \cup Workspaces \cup Handlers \cup {Host}

VARIABLES
  store,        \* Peers.store
  file,         \* peers.json
  minted,       \* the Incoming record of every grant ever made
  effects,      \* the handler holding Peers.effects across a wait
  connections,  \* Peers.connections
  handlers,     \* one record per connection handler
  sessions,     \* the managed session each claim launched
  launches,     \* how often a worker was spawned for each claim
  told,         \* the outcomes peers were told of each claim
  asking,       \* issuers whose grant waits for the workspace discovery
  paired,       \* PairedDeviceStore.devices
  pairedFile    \* the allowlist file

admin == <<minted, asking, paired, pairedFile>>
work == <<sessions, launches, told>>
vars == <<store, file, effects, connections, handlers, admin, work>>

\* A start is identified by grant and request; so is the session it creates.
Claims == Grants \X Requests

\* "claimed" is a StartRecord without an outcome.
Claim == [outcome : {"none", "claimed", "accepted", "refused"}, workspace : Workspaces \cup {None}]
NoClaim == [outcome |-> "none", workspace |-> None]
Store == [incoming : SUBSET Grants, starts : [Claims -> Claim]]
EmptyStore == [incoming |-> {}, starts |-> [c \in Claims |-> NoClaim]]

Incoming == [peer : Endpoints, issuer : Phones \cup {Host}, workspaces : SUBSET Workspaces]
Unminted == [peer |-> None, issuer |-> None, workspaces |-> {}]

\* A session is live by the peer's own start, or by a later resume.
Live == {"started", "resumed"}

\* The stages of serve and execute; "effect" is a command or a stop under way.
Stages == {"idle", "arrived", "admitted", "request", "launching", "launched", "effect", "replied"}
\* "read" is a snapshot or the list of projects.
Kinds == {"start", "stop", "command", "read"}

Handler == [stage : Stages, peer : Endpoints \cup {None}, open : {"yes", "no"},
            kind : Kinds \cup {None}, grant : Grants \cup {None}, claim : Claims \cup {None},
            workspace : Workspaces \cup {None}, outcome : {"none", "accepted", "refused"}]
IdleHandler == [stage |-> "idle", peer |-> None, open |-> "no", kind |-> None, grant |-> None,
                claim |-> None, workspace |-> None, outcome |-> "none"]

\* The types of the state.
TypeOK ==
  /\ store \in Store /\ file \in Store
  /\ minted \in [Grants -> Incoming \cup {Unminted}]
  /\ effects \in Handlers \cup {None}
  /\ connections \in [Endpoints -> Handlers \cup {None}]
  /\ handlers \in [Handlers -> Handler]
  /\ sessions \in [Claims -> Live \cup {"none", "stored"}]
  /\ launches \in [Claims -> Nat]
  /\ told \in [Claims -> SUBSET {"accepted", "refused"}]
  /\ asking \subseteq Phones \cup {Host}
  /\ paired \subseteq Phones /\ pairedFile \subseteq Phones

Init ==
  /\ store = EmptyStore /\ file = EmptyStore
  /\ minted = [g \in Grants |-> Unminted]
  /\ effects = None
  /\ connections = [e \in Endpoints |-> None]
  /\ handlers = [h \in Handlers |-> IdleHandler]
  /\ sessions = [c \in Claims |-> "none"]
  /\ launches = [c \in Claims |-> 0]
  /\ told = [c \in Claims |-> {}]
  /\ asking = {} /\ paired = {} /\ pairedFile = {}
-----------------------------------------------------------------------------
(* Peers *)

\* Mutant: the save is forgotten.
ChangedInMemory(next) == store' = next /\ UNCHANGED file

\* change: the file is written, then memory replaced.
Changed(next) == store' = next /\ file' = next

\* change fails: memory stays, and the file unless the error came after its rename.
ChangeFails(next) == UNCHANGED store /\ file' \in {file} \cup (IF LateFailure THEN {next} ELSE {})

GrantsOf(peers) == {g \in store.incoming : minted[g].peer \in peers}

\* incoming(endpoint, None)
HasGrant(e) == GrantsOf({e}) # {}

\* owns: the session was created by an accepted start of exactly this grant.
Owns(g, c) == c[1] = g /\ store.starts[c].outcome = "accepted"

\* revoke, for a set of endpoints: grants and claims go together.
Revoked(peers) ==
  [incoming |-> store.incoming \ GrantsOf(peers),
   starts |-> [c \in Claims |-> IF c[1] \in GrantsOf(peers) THEN NoClaim ELSE store.starts[c]]]

\* close: the connection leaves the table and its streams end.
Closed(peers) ==
  /\ connections' = [e \in Endpoints |-> IF e \in peers THEN None ELSE connections[e]]
  /\ handlers' = [h \in Handlers |->
                    IF \E e \in peers : connections[e] = h
                    THEN [handlers[h] EXCEPT !.open = "no"] ELSE handlers[h]]

\* Mutant: nobody waits for the effect under way.
GateIgnored == TRUE

\* effects.lock().await is granted.
GateFree == effects = None
-----------------------------------------------------------------------------
(* admin *)

\* The first allowlist check, before the discovery the grant waits for.
AskGrant(i) ==
  /\ i \in paired \cup {Host}
  /\ asking' = asking \cup {i}
  /\ UNCHANGED <<store, file, effects, connections, handlers, minted, paired, pairedFile, work>>

\* The discovery or the deadline ends the request, or its projects are not known.
DropGrant(i) ==
  /\ i \in asking
  /\ asking' = asking \ {i}
  /\ UNCHANGED <<store, file, effects, connections, handlers, minted, paired, pairedFile, work>>

\* Mutant: the allowlist is not consulted again under the gate.
MayIssueUnchecked(i) == TRUE

MayIssue(i) == i \in paired \cup {Host}

\* Grant: the issuer is checked again under the gate; one grant per peer.
Grant(i, e, g, ws) ==
  LET next == [store EXCEPT !.incoming = @ \cup {g}]
  IN /\ i \in asking
     /\ GateFree
     /\ MayIssue(i) /\ ~HasGrant(e) /\ Cardinality(store.incoming) < MaxPeers
     /\ minted[g] = Unminted
     /\ minted' = [minted EXCEPT ![g] = [peer |-> e, issuer |-> i, workspaces |-> ws]]
     /\ Changed(next) \/ ChangeFails(next)
     /\ asking' = asking \ {i}
     /\ UNCHANGED <<effects, connections, handlers, paired, pairedFile, work>>

\* Revoke
Revoke(e) ==
  /\ GateFree
  /\ \/ Changed(Revoked({e})) /\ Closed({e})
     \/ ChangeFails(Revoked({e})) /\ UNCHANGED <<connections, handlers>>
  /\ UNCHANGED <<effects, admin, work>>
-----------------------------------------------------------------------------
(* Unpair *)

PeersOf(i) == {minted[g].peer : g \in {g \in store.incoming : minted[g].issuer = i}}

\* revoke_issuer saves only if there is a grant to revoke.
RevokeIssuer(i) ==
  /\ IF PeersOf(i) = {} THEN UNCHANGED <<store, file>> ELSE Changed(Revoked(PeersOf(i)))
  /\ Closed(PeersOf(i))

\* ciao unpair: revoke_issuer, then PairedDeviceStore.remove, which may fail.
Unpair(i) ==
  /\ GateFree
  /\ RevokeIssuer(i)
  /\ \/ i \in paired /\ paired' = paired \ {i} /\ pairedFile' = paired \ {i}
     \/ i \notin paired /\ UNCHANGED <<paired, pairedFile>>
     \/ /\ i \in paired
        /\ pairedFile' \in {pairedFile} \cup (IF LateFailure THEN {paired \ {i}} ELSE {})
        /\ UNCHANGED paired
  /\ UNCHANGED <<effects, minted, asking, work>>

\* revoke_issuer fails on one of the peers, after having revoked some others.
UnpairFails(i) ==
  /\ GateFree
  /\ \E done \in SUBSET PeersOf(i) : \E e \in PeersOf(i) \ done :
       /\ store' = Revoked(done)
       /\ file' \in {IF done = {} THEN file ELSE Revoked(done)}
                    \cup (IF LateFailure THEN {Revoked(done \cup {e})} ELSE {})
       /\ Closed(done)
  /\ UNCHANGED <<effects, admin, work>>

\* A phone pairs (Pairing.tla); the allowlist does not know the gate.
Pair(i) ==
  /\ i \notin paired
  /\ paired' = paired \cup {i}
  /\ pairedFile' = paired \cup {i}
  /\ UNCHANGED <<store, file, effects, connections, handlers, minted, asking, work>>
-----------------------------------------------------------------------------
(* serve *)

\* What a handler changes when it changes nothing but itself.
Only(h, next) ==
  /\ handlers' = [handlers EXCEPT ![h] = next]
  /\ UNCHANGED <<connections, admin>>

\* The reply is written; of the request nothing is used any more.
Replied(h) == [IdleHandler EXCEPT !.stage = "replied", !.peer = handlers[h].peer,
                                  !.open = handlers[h].open]

\* A connection of a peer without a grant is closed at once.
Arrive(h, e) ==
  /\ handlers[h].stage = "idle"
  /\ HasGrant(e)
  /\ Only(h, [IdleHandler EXCEPT !.stage = "arrived", !.peer = e, !.open = "yes"])
  /\ UNCHANGED <<store, file, effects, work>>

\* Under the gate the grant is looked up again; one connection per peer.
Admit(h) ==
  LET e == handlers[h].peer
  IN /\ handlers[h].stage = "arrived"
     /\ GateFree
     /\ IF HasGrant(e) /\ connections[e] = None
             /\ Cardinality({x \in Endpoints : connections[x] # None}) < MaxPeers
        THEN /\ connections' = [connections EXCEPT ![e] = h]
             /\ handlers' = [handlers EXCEPT ![h].stage = "admitted"]
        ELSE /\ handlers' = [handlers EXCEPT ![h] = IdleHandler]
             /\ UNCHANGED connections
     /\ UNCHANGED <<store, file, effects, admin, work>>

\* The one request of the connection: any grant, session and project may be in it.
Receive(h, kind, g, c, w) ==
  /\ handlers[h].stage = "admitted" /\ handlers[h].open = "yes"
  /\ CASE kind = "start" -> c # None /\ c[1] = g /\ w # None
       [] kind = "read" -> c = None /\ w = None
       [] OTHER -> c # None /\ w = None
  /\ Only(h, [handlers[h] EXCEPT !.stage = "request", !.kind = kind, !.grant = g, !.claim = c,
                                  !.workspace = w])
  /\ UNCHANGED <<store, file, effects, work>>

\* No stream, no request or a malformed one.
NoRequest(h) ==
  /\ handlers[h].stage = "admitted"
  /\ Only(h, Replied(h))
  /\ UNCHANGED <<store, file, effects, work>>

\* Mutant: the handler removes whatever connection its peer has.
EndUnchecked(h) ==
  /\ handlers[h].stage = "replied"
  /\ connections' = [connections EXCEPT ![handlers[h].peer] = None]
  /\ handlers' = [handlers EXCEPT ![h] = IdleHandler]
  /\ UNCHANGED <<store, file, effects, admin, work>>

\* The reply is out: the handler takes its own connection out of the table.
End(h) ==
  /\ handlers[h].stage = "replied"
  /\ connections' = [e \in Endpoints |-> IF connections[e] = h THEN None ELSE connections[e]]
  /\ handlers' = [handlers EXCEPT ![h] = IdleHandler]
  /\ UNCHANGED <<store, file, effects, admin, work>>
-----------------------------------------------------------------------------
(* execute *)

\* The handler has a request and is granted the gate.
Turn(h) == handlers[h].stage = "request" /\ GateFree

\* incoming(id, Some(grant))
Granted(h) == handlers[h].grant \in GrantsOf({handlers[h].peer})

\* What the grant allows: its projects, and the sessions it created.
Permitted(h) ==
  LET r == handlers[h]
  IN CASE r.kind = "start" -> r.workspace \in minted[r.grant].workspaces
       [] r.kind = "read" -> TRUE
       [] OTHER -> Owns(r.grant, r.claim)

\* authorization_denied, or a request that only reads.
Answer(h) ==
  /\ Turn(h)
  /\ Granted(h) /\ Permitted(h) => handlers[h].kind = "read"
  /\ Only(h, Replied(h))
  /\ UNCHANGED <<store, file, effects, work>>

Starting(h) == Turn(h) /\ Granted(h) /\ handlers[h].kind = "start" /\ Permitted(h)

\* Mutant: a claim without an outcome is reported as refused.
StartKnownGuesses(h) ==
  LET c == handlers[h].claim
      record == store.starts[c]
      outcome == IF record.outcome = "claimed" THEN "refused" ELSE record.outcome
  IN /\ Starting(h)
     /\ record # NoClaim
     /\ told' = IF record.workspace = handlers[h].workspace
                THEN [told EXCEPT ![c] = @ \cup {outcome}] ELSE told
     /\ Only(h, Replied(h))
     /\ UNCHANGED <<store, file, effects, sessions, launches>>

\* A request identifier seen before: request_id_reused, the recorded outcome, or
\* outcome_unknown for a claim without one.
StartKnown(h) ==
  LET c == handlers[h].claim
      record == store.starts[c]
  IN /\ Starting(h)
     /\ record # NoClaim
     /\ told' = IF record.workspace = handlers[h].workspace /\ record.outcome # "claimed"
                THEN [told EXCEPT ![c] = @ \cup {record.outcome}] ELSE told
     /\ Only(h, Replied(h))
     /\ UNCHANGED <<store, file, effects, sessions, launches>>

\* The grant's live sessions and its claims without an outcome.
LiveCount(g) ==
  Cardinality({c \in Claims : /\ c[1] = g
                              /\ \/ Owns(g, c) /\ sessions[c] \in Live
                                 \/ store.starts[c].outcome = "claimed"})

Room(g) ==
  /\ LiveCount(g) < MaxLive
  /\ Cardinality({c \in Claims : store.starts[c] # NoClaim}) < MaxStarts

\* worker_limit, request_limit
StartLimited(h) ==
  /\ Starting(h)
  /\ store.starts[handlers[h].claim] = NoClaim
  /\ ~Room(handlers[h].grant)
  /\ Only(h, Replied(h))
  /\ UNCHANGED <<store, file, effects, work>>

\* Mutant: the worker is launched even if the claim could not be saved.
StartClaimUnsaved(h) ==
  LET c == handlers[h].claim
      next == [store EXCEPT !.starts[c] = [outcome |-> "claimed", workspace |-> handlers[h].workspace]]
  IN /\ Starting(h)
     /\ store.starts[c] = NoClaim
     /\ Room(handlers[h].grant)
     /\ Changed(next) \/ ChangeFails(next)
     /\ effects' = h
     /\ Only(h, [handlers[h] EXCEPT !.stage = "launching"])
     /\ UNCHANGED work

\* The claim is saved before anything is launched.
StartClaim(h) ==
  LET c == handlers[h].claim
      next == [store EXCEPT !.starts[c] = [outcome |-> "claimed", workspace |-> handlers[h].workspace]]
  IN /\ Starting(h)
     /\ store.starts[c] = NoClaim
     /\ Room(handlers[h].grant)
     /\ \/ /\ Changed(next)
           /\ effects' = h
           /\ Only(h, [handlers[h] EXCEPT !.stage = "launching"])
        \/ /\ ChangeFails(next)
           /\ Only(h, Replied(h))
           /\ UNCHANGED effects
     /\ UNCHANGED work

\* managed_start, once it has found the project and the runtime: the worker is
\* spawned and its record made.  Nothing waits from here to the saved outcome.
Launch(h) ==
  LET c == handlers[h].claim
  IN /\ handlers[h].stage = "launching"
     /\ launches' = [launches EXCEPT ![c] = @ + 1]
     /\ sessions' = [sessions EXCEPT ![c] = "started"]
     /\ Only(h, [handlers[h] EXCEPT !.stage = "launched", !.outcome = "accepted"])
     /\ UNCHANGED <<store, file, effects, told>>

\* managed_start refuses: no such project, no runtime, or (record_limit) a worker
\* spawned for which there is no room in the directory.
LaunchRefused(h) ==
  /\ handlers[h].stage = "launching"
  /\ \E spawned \in {0, 1} : launches' = [launches EXCEPT ![handlers[h].claim] = @ + spawned]
  /\ Only(h, [handlers[h] EXCEPT !.stage = "launched", !.outcome = "refused"])
  /\ UNCHANGED <<store, file, effects, sessions, told>>

\* The outcome is recorded, or the claim stays without one.
RecordStart(h) ==
  LET c == handlers[h].claim
      next == [store EXCEPT !.starts[c].outcome = handlers[h].outcome]
  IN /\ handlers[h].stage = "launched"
     /\ \/ /\ Changed(next)
           /\ told' = [told EXCEPT ![c] = @ \cup {handlers[h].outcome}]
        \/ /\ ChangeFails(next)
           /\ UNCHANGED told
     /\ effects' = None
     /\ Only(h, Replied(h))
     /\ UNCHANGED <<sessions, launches>>

\* A command or a stop begins, under the gate.
Operate(h) ==
  /\ Turn(h)
  /\ Granted(h) /\ Permitted(h) /\ handlers[h].kind \in {"stop", "command"}
  /\ effects' = h
  /\ Only(h, [handlers[h] EXCEPT !.stage = "effect"])
  /\ UNCHANGED <<store, file, work>>

\* It ends; a stop of a live session of the expected generation stores it.
Operated(h) ==
  LET c == handlers[h].claim
  IN /\ handlers[h].stage = "effect"
     /\ \/ UNCHANGED sessions
        \/ /\ handlers[h].kind = "stop" /\ sessions[c] \in Live
           /\ sessions' = [sessions EXCEPT ![c] = "stored"]
     /\ effects' = None
     /\ Only(h, Replied(h))
     /\ UNCHANGED <<store, file, launches, told>>

\* Mutant: the deadline does not reach a launch.
DeadlineBeforeLaunch(h) ==
  /\ handlers[h].stage \in {"request", "effect"}
  /\ effects' = IF effects = h THEN None ELSE effects
  /\ Only(h, Replied(h))
  /\ UNCHANGED <<store, file, work>>

\* The deadline of the request passes while it waits: for the gate, for the launch
\* or for the effect.  A claim stays; the gate is released.
Deadline(h) ==
  /\ handlers[h].stage \in {"request", "launching", "effect"}
  /\ effects' = IF effects = h THEN None ELSE effects
  /\ Only(h, Replied(h))
  /\ UNCHANGED <<store, file, work>>
-----------------------------------------------------------------------------
(* Elsewhere *)

\* The worker exits, or a phone stops the session.
WorkerEnds(c) ==
  /\ sessions[c] \in Live
  /\ sessions' = [sessions EXCEPT ![c] = "stored"]
  /\ UNCHANGED <<store, file, effects, connections, handlers, admin, launches, told>>

\* managed_resume, by a phone or after a restart: the peer limits are not consulted.
Resume(c) ==
  /\ sessions[c] = "stored"
  /\ sessions' = [sessions EXCEPT ![c] = "resumed"]
  /\ UNCHANGED <<store, file, effects, connections, handlers, admin, launches, told>>

\* The daemon stops, between any two steps, and starts again.
Restart ==
  /\ store' = file /\ UNCHANGED file
  /\ effects' = None
  /\ connections' = [e \in Endpoints |-> None]
  /\ handlers' = [h \in Handlers |-> IdleHandler]
  /\ asking' = {}
  /\ paired' = pairedFile
  /\ sessions' = [c \in Claims |-> IF sessions[c] \in Live THEN "stored" ELSE sessions[c]]
  /\ UNCHANGED <<minted, pairedFile, launches, told>>

Serve(h) ==
  \/ \E e \in Endpoints : Arrive(h, e)
  \/ Admit(h)
  \/ \E kind \in Kinds, g \in Grants, c \in Claims \cup {None}, w \in Workspaces \cup {None} :
       Receive(h, kind, g, c, w)
  \/ NoRequest(h)
  \/ End(h)

Execute(h) ==
  \/ Answer(h) \/ StartKnown(h) \/ StartLimited(h) \/ StartClaim(h)
  \/ Launch(h) \/ LaunchRefused(h) \/ RecordStart(h)
  \/ Operate(h) \/ Operated(h) \/ Deadline(h)

Administer ==
  \/ \E i \in Phones \cup {Host} :
       \/ AskGrant(i) \/ DropGrant(i)
       \/ \E e \in Endpoints, g \in Grants, ws \in SUBSET Workspaces \ {{}} : Grant(i, e, g, ws)
  \/ \E e \in Endpoints : Revoke(e)
  \/ \E i \in Phones : Unpair(i) \/ UnpairFails(i) \/ Pair(i)

Next ==
  \/ Administer
  \/ \E h \in Handlers : Serve(h) \/ Execute(h)
  \/ \E c \in Claims : WorkerEnds(c) \/ Resume(c)
  \/ Restart

Spec == Init /\ [][Next]_vars

\* A timer fires, and a step that waits for nothing is taken.
FairSpec == Spec /\ \A h \in Handlers : WF_vars(Deadline(h)) /\ WF_vars(RecordStart(h))
-----------------------------------------------------------------------------
(* Properties *)

\* A start request launches a worker at most once, over retries, failed saves,
\* deadlines and restarts (PEERS.md:43, "never blindly launched again").
LaunchedOnce == \A c \in Claims : launches[c] <= 1

\* What peers are told of a start never changes, and an accepted start is the one
\* that launched (execute returns the recorded outcome).
AnswersAgree ==
  \A c \in Claims : /\ Cardinality(told[c]) <= 1
                    /\ "accepted" \in told[c] => launches[c] = 1

\* A peer that was told its start was accepted may use the session for as long as it
\* has the grant, over failed saves and restarts (owns).
AcceptedStaysOwned ==
  \A c \in Claims : "accepted" \in told[c] /\ c[1] \in store.incoming => Owns(c[1], c)

\* While a launch, a command or a stop is under way the grant it was checked
\* against is still there, and so is the ownership of the session (peers.rs:145,
\* "A successful revoke fences all later effects").
EffectsAreAuthorised ==
  \A h \in Handlers : handlers[h].stage \in {"launching", "launched", "effect"} =>
    /\ effects = h
    /\ Granted(h)
    /\ handlers[h].stage = "effect" => Owns(handlers[h].grant, handlers[h].claim)
    /\ handlers[h].stage # "effect" => store.starts[handlers[h].claim].outcome = "claimed"

\* An admitted connection that nobody closed belongs to a peer with a grant: a
\* revoke closes it, whichever handlers of that peer end meanwhile (PEERS.md:13,
\* "closes peer connections").
OpenConnectionsAreAuthorised ==
  \A h \in Handlers : handlers[h].open = "yes" /\ handlers[h].stage \notin {"idle", "arrived"} =>
    HasGrant(handlers[h].peer)

\* A grant was issued by this host or by a phone that is still paired (PEERS.md:14,
\* "Unpairing the phone on the destination also revokes incoming grants").
GrantsHaveAnIssuer ==
  \A g \in store.incoming : minted[g].issuer \in paired \cup {Host}

\* A revoke, an unpair and another start are never kept out for good by a request
\* that does not come back (DEADLINE).
GateIsReleased == effects # None ~> effects = None
=============================================================================
