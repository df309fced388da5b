-------------------------- MODULE SessionReplica ---------------------------
(* One agent session as the host keeps it and as its subscribers see it: the snapshot and its
   revision, the deltas and resync frames every change publishes on a bounded channel, the
   subscription that forwards them, and the reducer that applies them.  All the operations of
   the supervisor on one session run under one lock, so each is one step; the resolution of a
   route waits outside the lock and is two.  Commands and their receipts are in AgentCommands,
   the merge of a history that was read into the live rows is in Timeline.                   *)
EXTENDS Integers, FiniteSets, Sequences

CONSTANTS
  Clients,    \* subscribers
  Kinds,      \* kinds of session: "managed", "adopted" or "observer"
  Modes,      \* permission modes, models, efforts or catalogues an adapter may report
  Cards,      \* interactions the agent may raise
  MaxCards,   \* MAX_PENDING_INTERACTIONS
  MaxWindow,  \* MAX_TIMELINE_PAGE_ENTRIES, MAX_TIMELINE_ENTRIES_IN_SNAPSHOT
  MaxHistory, \* MAX_HOST_TIMELINE_ENTRIES
  Capacity,   \* SUBSCRIPTION_FRAME_CAPACITY
  MaxRev,     \* bound: revisions
  MaxRows,    \* bound: rows that are ever created
  MaxToken,   \* bound: registrations
  None

ASSUME ReplicaAssumption ==
  /\ Kinds \subseteq {"managed", "adopted", "observer"}
  /\ {MaxCards, MaxWindow, Capacity, MaxRev, MaxRows, MaxToken} \subseteq Nat \ {0}
  /\ MaxHistory \in Nat /\ MaxHistory >= MaxWindow

VARIABLES
  host,   \* LiveSession and its metadata
  route,  \* refresh_route between its two locks: the token it looked at, or 0
  born,   \* rows created so far
  client, \* what each subscriber holds
  ring    \* frames published and not yet forwarded

vars == <<host, route, born, client, ring>>

Turns == {"running", "idle", "awaiting", "unknown"}
Row == [id : Nat, seq : Nat, ver : Nat]

\* AgentSessionSnapshot: a route is the registration it was proved for, 0 is "unavailable".
Snapshot ==
  [epoch : Nat, gen : Nat, rev : Nat, turn : Turns, cards : SUBSET Cards,
   topo : {"managed", "adopted", "attached"}, route : Nat, commands : BOOLEAN,
   fresh : BOOLEAN, full : BOOLEAN, mode : Modes \cup {None}, rows : SUBSET Row]
Wire(h) ==
  [epoch |-> h.epoch, gen |-> h.gen, rev |-> h.rev, turn |-> h.turn, cards |-> h.cards,
   topo |-> h.topo, route |-> h.route, commands |-> h.commands, fresh |-> h.fresh,
   full |-> h.full, mode |-> h.mode, rows |-> h.rows]

\* None is no value of any field, and no snapshot.
ASSUME NameAssumption ==
  None \notin Turns \cup Modes \cup Nat \cup BOOLEAN \cup Snapshot

NoChange == [turn |-> None, raised |-> {}, removed |-> {}, row |-> {}, route |-> None,
             commands |-> None, fresh |-> None, mode |-> None]

Newest(rows, n) == {e \in rows : Cardinality({f \in rows : f.seq > e.seq}) < n}
SetMax(S) == CHOOSE m \in S : \A n \in S : n <= m
SetMin(S) == CHOOSE m \in S : \A n \in S : m <= n
Seqs(rows) == {e.seq : e \in rows}

\* The types of the state.
TypeOK ==
  /\ Wire(host) \in Snapshot
  /\ host.on \in BOOLEAN /\ host.kind \in Kinds /\ {host.token, host.seed, host.next} \subseteq Nat
  /\ host.link \in {"stream", "observer", "none"} /\ host.run \in BOOLEAN
  /\ host.hist \subseteq Row /\ Cardinality(host.hist) <= MaxHistory
  /\ Cardinality(host.cards) <= MaxCards
  /\ route \in 0..MaxToken /\ born \in 0..MaxRows
  /\ \A c \in Clients :
       /\ client[c].state \in {"off", "open", "stale"}
       /\ client[c].snap \in Snapshot \cup {None} /\ client[c].old \subseteq Row
       /\ Len(ring[c]) <= Capacity + 1
-----------------------------------------------------------------------------
(* Registration *)

\* register_new: a session of the given kind and process, with the history it may keep.
Registered(kind, token, gen, epoch, rev, hist, next) ==
  [on |-> TRUE, kind |-> kind, token |-> token, gen |-> gen, epoch |-> epoch, rev |-> rev,
   seed |-> rev, link |-> IF kind = "observer" THEN "observer" ELSE "stream",
   topo |-> IF kind = "observer" THEN "attached" ELSE kind,
   turn |-> "unknown", run |-> FALSE, cards |-> {}, mode |-> None,
   fresh |-> TRUE, full |-> kind # "observer",
   route |-> IF kind = "adopted" THEN token ELSE 0, commands |-> kind # "observer",
   hist |-> hist, next |-> next, rows |-> Newest(hist, MaxWindow)]

Init ==
  /\ \E kind \in Kinds : host = Registered(kind, 1, 1, 1, 1, {}, 1)
  /\ route = 0 /\ born = 0
  /\ client = [c \in Clients |-> [state |-> "off", snap |-> None, old |-> {}]]
  /\ ring = [c \in Clients |-> <<>>]

\* The receivers of the session's channel that is open now.
Receives(c) ==
  client[c].state = "open" /\ \A i \in DOMAIN ring[c] : ring[c][i].kind # "closed"

\* The channel of a session that is replaced or removed closes, once what it holds is read.
Closing ==
  ring' = [c \in Clients |-> IF Receives(c) THEN Append(ring[c], [kind |-> "closed"]) ELSE ring[c]]

\* register_new and AgentMetadataStore::register.  The process that was there reconnects, with
\* its epoch and history while the session is in memory, or another one takes its place.  An
\* observer that is still in memory is refreshed instead.
Register(same) ==
  LET keeps == same /\ host.on IN
  /\ keeps => host.kind # "observer"
  /\ host.token < MaxToken /\ host.rev < MaxRev /\ host.epoch < MaxRev
  /\ host' = Registered(host.kind, host.token + 1, IF same THEN host.gen ELSE host.gen + 1,
                        IF keeps THEN host.epoch ELSE host.epoch + 1,
                        (IF host.on THEN host.rev ELSE host.seed) + 1,
                        IF keeps THEN host.hist ELSE {}, IF keeps THEN host.next ELSE 1)
  /\ IF host.on THEN Closing ELSE UNCHANGED ring
  /\ UNCHANGED <<route, born, client>>

\* bridge_disconnected with process_exited, and sweep_dead_sessions: the session is removed.
Ended ==
  /\ host.on
  /\ host' = [host EXCEPT !.on = FALSE]
  /\ Closing
  /\ UNCHANGED <<route, born, client>>
-----------------------------------------------------------------------------
(* Publishing *)

\* broadcast::Sender::send: who has not read the oldest of a full channel has lagged.
Sent(queue, frames) ==
  IF queue # <<>> /\ queue[1].kind = "lagged" THEN queue
  ELSE IF Len(queue) + Len(frames) > Capacity THEN <<[kind |-> "lagged"]>>
  ELSE queue \o frames

Send(frames) ==
  ring' = [c \in Clients |-> IF Receives(c) THEN Sent(ring[c], frames) ELSE ring[c]]

Delta(next, ch) ==
  [kind |-> "delta", epoch |-> next.epoch, gen |-> next.gen, base |-> host.rev,
   rev |-> host.rev + 1, ch |-> ch]
Resync == [kind |-> "resync"]

\* A change and the delta that tells of it.
Publish(next, ch) ==
  /\ host.on /\ host.rev < MaxRev
  /\ host' = [next EXCEPT !.rev = host.rev + 1]
  /\ Send(<<Delta(next, ch)>>)

\* A change subscribers are sent to fetch; update_revision saves the revision.
PublishResync(next) ==
  /\ host.on /\ host.rev < MaxRev
  /\ host' = [next EXCEPT !.rev = host.rev + 1, !.seed = host.rev + 1]
  /\ Send(<<Resync>>)

Live == host.on /\ host.link # "none"
quiet == <<route, born, client>>
-----------------------------------------------------------------------------
(* Timeline *)

\* refresh_snapshot_window
Windowed(h) == [h EXCEPT !.rows = Newest(h.hist, MaxWindow)]

\* clear_hook_attention
Latched == host.turn = "awaiting" /\ host.cards = {}
Resting == IF host.run THEN "running" ELSE "unknown"

\* upsert_bridge_entry and append_bridge_text, on a new row or a row held.  Rows that the bound
\* evicts at the start withdraw the claim to hold it, in a second change.
Upsert(e) ==
  LET all == {f \in host.hist : f.id # e.id} \cup {e}
      kept == Newest(all, MaxHistory)
      cleared == [host EXCEPT !.turn = IF Latched THEN Resting ELSE @, !.hist = kept,
                              !.next = IF e.seq = @ THEN @ + 1 ELSE @]
      ch == [NoChange EXCEPT !.row = {e}, !.turn = IF Latched THEN Resting ELSE None]
      cut == kept # all /\ host.full
  IN /\ Live
     /\ \/ e = [id |-> born + 1, seq |-> host.next, ver |-> 1] /\ born < MaxRows /\ born' = born + 1
        \/ \E f \in host.hist : e = [f EXCEPT !.ver = @ + 1] /\ UNCHANGED born
     /\ IF cut
        THEN /\ host.rev + 1 < MaxRev
             /\ host' = [Windowed(cleared) EXCEPT !.rev = host.rev + 2, !.full = FALSE]
             /\ Send(<<Delta(cleared, ch), Resync>>)
        ELSE Publish(Windowed(cleared), ch)
     /\ UNCHANGED <<route, client>>

\* Mutant: only a row that was renumbered makes a new epoch.
FencedRenumbered(next) ==
  \E e \in host.hist, f \in next : e.id = f.id /\ e.seq # f.seq

\* fence_rewritten_history: a row a subscriber may hold was renumbered, or dropped from among
\* rows that stay.
Fenced(next) ==
  \/ \E e \in host.hist, f \in next : e.id = f.id /\ e.seq # f.seq
  \/ \E e \in host.hist : /\ \A f \in next : f.id # e.id
                          /\ \E g \in host.hist, f \in next : g.id = f.id /\ g.seq < e.seq

\* The rewritten history, fenced, bounded and announced.
Rewritten(hist, next, full) ==
  /\ Live /\ Cardinality(hist) <= MaxRows /\ host.epoch < MaxRev
  /\ \A e \in hist : e.ver <= MaxRev /\ e.seq <= 2 * MaxRows
  /\ PublishResync(Windowed([host EXCEPT !.hist = Newest(hist, MaxHistory), !.next = next,
       !.epoch = IF Fenced(hist) THEN @ + 1 ELSE @,
       !.full = full /\ Cardinality(hist) <= MaxHistory]))
  /\ UNCHANGED <<route, client>>

\* replace_bridge_snapshot_covering: the adapter's own snapshot keeps some rows, as newer
\* versions, and adds new ones.
Replace(keep, n, full) ==
  /\ host.link = "stream" /\ keep \subseteq host.hist /\ born + n <= MaxRows
  /\ born' = born + n
  /\ Rewritten({[e EXCEPT !.ver = @ + 1] : e \in keep} \cup
                 {[id |-> born + i, seq |-> host.next + i - 1, ver |-> 1] : i \in 1..n},
               host.next + n, full)

\* reconcile_bridge_history restores a row above the number `below`: at a free number there, and
\* otherwise all rows are numbered anew, without gaps.
Restore(below, full) ==
  LET fresh(q) == [id |-> born + 1, seq |-> q, ver |-> 1]
      above == {e \in host.hist : e.seq > below}
      rank(e) == Cardinality({f \in host.hist : f.seq < e.seq}) + (IF e.seq > below THEN 1 ELSE 0)
      first == SetMin(Seqs(host.hist))
      start == IF below = 0 /\ first > 1 THEN first - 1 ELSE IF below = 0 THEN 1 ELSE first
      dense == {[e EXCEPT !.seq = start + rank(e)] : e \in host.hist} \cup
               {fresh(start + Cardinality(host.hist \ above))}
  IN /\ host.link = "observer" /\ born < MaxRows /\ born' = born + 1
     /\ host.hist # {} /\ below \in Seqs(host.hist) \cup {0}
     /\ IF above = {} THEN Rewritten(host.hist \cup {fresh(host.next)}, host.next + 1, full)
        ELSE IF SetMin(Seqs(above)) - below > 1
        THEN Rewritten(host.hist \cup {fresh(below + 1)}, host.next, full)
        ELSE Rewritten(dense, SetMax(Seqs(dense)) + 1, full)
-----------------------------------------------------------------------------
(* Turns and interactions *)

\* upsert_bridge_interaction
Raise(i) ==
  /\ Live /\ i \notin host.cards /\ Cardinality(host.cards) < MaxCards
  /\ Publish([host EXCEPT !.cards = @ \cup {i}, !.turn = "awaiting"],
             [NoChange EXCEPT !.raised = {i}, !.turn = "awaiting"])
  /\ UNCHANGED quiet

\* resolve_bridge_interaction
Resolve(i) ==
  LET turn == IF host.cards = {i} THEN Resting ELSE "awaiting" IN
  /\ Live /\ i \in host.cards
  /\ Publish([host EXCEPT !.cards = @ \ {i}, !.turn = turn],
             [NoChange EXCEPT !.removed = {i}, !.turn = turn])
  /\ UNCHANGED quiet

\* note_bridge_turn: the adapter's word replaces whatever the turn was.
ReportTurn(turn) ==
  /\ Live /\ host.turn # turn
  /\ Publish([host EXCEPT !.turn = turn, !.run = (turn = "running")],
             [NoChange EXCEPT !.turn = turn])
  /\ UNCHANGED quiet

\* note_bridge_attention
Attention ==
  /\ Live /\ host.turn # "awaiting"
  /\ Publish([host EXCEPT !.turn = "awaiting"], [NoChange EXCEPT !.turn = "awaiting"])
  /\ UNCHANGED quiet

\* Mutant: the run the report ends stays open.
IdleReportOpen ==
  /\ Live /\ host.turn = "running"
  /\ Publish([host EXCEPT !.turn = "idle"], [NoChange EXCEPT !.turn = "idle"])
  /\ UNCHANGED quiet

\* note_bridge_idle_report
IdleReport ==
  /\ Live /\ host.turn = "running"
  /\ Publish([host EXCEPT !.turn = "idle", !.run = FALSE], [NoChange EXCEPT !.turn = "idle"])
  /\ UNCHANGED quiet

\* expire_stale_turn_claims
ExpireClaim ==
  /\ host.link # "stream" /\ host.turn = "running"
  /\ Publish([host EXCEPT !.turn = "unknown", !.run = FALSE], [NoChange EXCEPT !.turn = "unknown"])
  /\ UNCHANGED quiet

\* update_bridge_permission_mode, _model, _effort, _catalogue: a report of what is known already
\* publishes nothing.
ReportMode(m) ==
  /\ Live /\ host.mode # m
  /\ Publish([host EXCEPT !.mode = m], [NoChange EXCEPT !.mode = m])
  /\ UNCHANGED quiet

\* publish_receipt: the receipt is sent by itself and again as a delta.
Receipt ==
  /\ host.on /\ host.rev < MaxRev
  /\ host' = [host EXCEPT !.rev = @ + 1]
  /\ Send(<<[kind |-> "receipt"], Delta(host, NoChange)>>)
  /\ UNCHANGED quiet
-----------------------------------------------------------------------------
(* Losing the adapter, and routes *)

\* downgrade_session, after what the caller took off the session.
Downgrade(h) ==
  Publish([h EXCEPT !.link = "none", !.run = FALSE, !.fresh = FALSE, !.turn = "unknown",
                    !.commands = FALSE, !.route = 0],
          [NoChange EXCEPT !.fresh = FALSE, !.turn = "unknown", !.commands = FALSE, !.route = 0])

\* bridge_disconnected, end_adopted_session, end_observed_session: an adopted session becomes
\* the user's own, and its interactions are dropped.
LoseAdapter ==
  /\ Live
  /\ Downgrade(IF host.topo = "adopted" THEN [host EXCEPT !.topo = "attached", !.cards = {}]
               ELSE host)
  /\ UNCHANGED quiet

\* refresh_observer_registration: the hook of an observed process speaks again.
Refresh ==
  /\ host.link = "none" /\ host.kind = "observer"
  /\ PublishResync([host EXCEPT !.link = "observer", !.fresh = TRUE])
  /\ UNCHANGED quiet

\* refresh_route, up to the resolver.
ResolveRoute ==
  /\ Live /\ host.topo # "adopted" /\ route = 0
  /\ route' = host.token
  /\ UNCHANGED <<host, born, client, ring>>

\* Mutant: the registration is not compared again.
RouteResolvedStale(found) ==
  /\ route # 0 /\ route' = 0 /\ (found => host.kind # "managed")
  /\ IF Live
     THEN LET new == IF found THEN route ELSE 0 IN
          Publish([host EXCEPT !.route = new, !.commands = (host.link = "stream")],
                  [NoChange EXCEPT !.route = new, !.commands = (host.link = "stream")])
     ELSE UNCHANGED <<host, ring>>
  /\ UNCHANGED <<born, client>>

\* refresh_route, after it: nothing happens unless the registration is still the same.  A managed
\* worker runs in no terminal that could be found.
RouteResolved(found) ==
  /\ route # 0 /\ route' = 0 /\ (found => host.kind # "managed")
  /\ IF Live /\ host.token = route
     THEN LET new == IF found THEN route ELSE 0 IN
          Publish([host EXCEPT !.route = new, !.commands = (host.link = "stream")],
                  [NoChange EXCEPT !.route = new, !.commands = (host.link = "stream")])
     ELSE UNCHANGED <<host, ring>>
  /\ UNCHANGED <<born, client>>

\* downgrade_if_current, downgrade_route
LoseRoute ==
  /\ host.route # 0 /\ host.topo # "adopted"
  /\ Publish([host EXCEPT !.route = 0], [NoChange EXCEPT !.route = 0])
  /\ UNCHANGED quiet
-----------------------------------------------------------------------------
(* Subscribers *)

\* apply_delta: the delta continues this snapshot.
Follows(s, d) == d.base = s.rev /\ d.rev = s.rev + 1

SameIdentity(s, d) == d.epoch = s.epoch /\ d.gen = s.gen

\* Mutant: the window grows past its bound.
WithRowUntrimmed(rows, new) ==
  IF \E e \in new, f \in rows : f.id = e.id /\ f.ver >= e.ver THEN rows
  ELSE {f \in rows : \A e \in new : f.id # e.id} \cup new

\* upsert_entry: the window after a row.
WithRow(rows, new) ==
  IF \E e \in new, f \in rows : f.id = e.id /\ f.ver >= e.ver THEN rows
  ELSE Newest({f \in rows : \A e \in new : f.id # e.id} \cup new, MaxWindow)

Or(new, old) == IF new = None THEN old ELSE new

\* apply_delta's changes, and enforce_reducer_invariants: what is pending holds the turn.
Reduced(s, d) ==
  LET cards == (s.cards \cup d.ch.raised) \ d.ch.removed IN
  [s EXCEPT !.rev = d.rev, !.route = Or(d.ch.route, @), !.commands = Or(d.ch.commands, @),
            !.fresh = Or(d.ch.fresh, @), !.mode = Or(d.ch.mode, @), !.cards = cards,
            !.rows = WithRow(@, d.ch.row),
            !.turn = IF cards # {} THEN "awaiting" ELSE Or(d.ch.turn, @)]

\* The rows a subscriber goes on showing beneath its window.
Older(rows, window) == {e \in rows : window = {} \/ e.seq < SetMin(Seqs(window))}

\* subscribe_from_snapshot: the snapshot and the frames after it, under one lock.  Within one
\* epoch a subscriber keeps the rows it has that are older than the window.
Subscribe(c) ==
  LET had == client[c].snap
      now == Wire(host)
      same == had # None /\ had.epoch = now.epoch /\ had.gen = now.gen
  IN /\ host.on /\ client[c].state # "open"
     /\ client' = [client EXCEPT ![c] = [state |-> "open", snap |-> now,
          old |-> IF same THEN Older(client[c].old \cup had.rows, now.rows) ELSE {}]]
     /\ ring' = [ring EXCEPT ![c] = <<>>]
     /\ UNCHANGED <<host, route, born>>

\* Mutant: a subscription that lagged goes on with the frames that are left.
ForwardLagging(c) ==
  LET f == Head(ring[c]) s == client[c].snap IN
  /\ client[c].state = "open" /\ ring[c] # <<>>
  /\ client' = [client EXCEPT ![c] =
       CASE f.kind \in {"receipt", "lagged"} -> @
         [] f.kind = "closed" -> [@ EXCEPT !.state = "off"]
         [] f.kind = "resync" -> [@ EXCEPT !.state = "stale"]
         [] f.kind = "delta" ->
              IF SameIdentity(s, f) /\ f.rev <= s.rev THEN @
              ELSE IF SameIdentity(s, f) /\ Follows(s, f)
              THEN [@ EXCEPT !.snap = Reduced(s, f),
                             !.old = Older(@ \cup s.rows, Reduced(s, f).rows)]
              ELSE [@ EXCEPT !.state = "stale"]]
  /\ ring' = [ring EXCEPT ![c] = IF client'[c].state = "open" THEN Tail(@) ELSE <<>>]
  /\ UNCHANGED <<host, route, born>>

\* The subscription loop forwards one frame and the subscriber applies it.  A lagged channel ends
\* the subscription with a resync, a closed one ends it; a subscriber that has to resync leaves.
Forward(c) ==
  LET f == Head(ring[c]) s == client[c].snap IN
  /\ client[c].state = "open" /\ ring[c] # <<>>
  /\ client' = [client EXCEPT ![c] =
       CASE f.kind = "receipt" -> @
         [] f.kind = "closed" -> [@ EXCEPT !.state = "off"]
         [] f.kind \in {"resync", "lagged"} -> [@ EXCEPT !.state = "stale"]
         [] f.kind = "delta" ->
              IF SameIdentity(s, f) /\ f.rev <= s.rev THEN @
              ELSE IF SameIdentity(s, f) /\ Follows(s, f)
              THEN [@ EXCEPT !.snap = Reduced(s, f),
                             !.old = Older(@ \cup s.rows, Reduced(s, f).rows)]
              ELSE [@ EXCEPT !.state = "stale"]]
  /\ ring' = [ring EXCEPT ![c] = IF client'[c].state = "open" THEN Tail(@) ELSE <<>>]
  /\ UNCHANGED <<host, route, born>>

\* page: rows older than those held, for the epoch the page names.
Page(c) ==
  LET s == client[c].snap
      held == client[c].old \cup s.rows
      got == Newest({e \in host.hist : \A f \in held : e.seq < f.seq}, MaxWindow)
  IN /\ client[c].state = "open" /\ host.on /\ s.epoch = host.epoch /\ s.gen = host.gen
     /\ held # {} /\ got # {}
     /\ client' = [client EXCEPT ![c].old = @ \cup got]
     /\ UNCHANGED <<host, route, born, ring>>

\* The connection is lost, with the frames that were on it.
Drop(c) ==
  /\ client[c].state = "open"
  /\ client' = [client EXCEPT ![c].state = "off"]
  /\ ring' = [ring EXCEPT ![c] = <<>>]
  /\ UNCHANGED <<host, route, born>>
-----------------------------------------------------------------------------
Host ==
  \/ \E same \in BOOLEAN : Register(same)
  \/ Ended \/ Attention \/ IdleReport \/ ExpireClaim \/ Receipt
  \/ LoseAdapter \/ Refresh \/ ResolveRoute \/ LoseRoute
  \/ \E found \in BOOLEAN : RouteResolved(found)
  \/ \E e \in {[id |-> born + 1, seq |-> host.next, ver |-> 1]} \cup
              {[f EXCEPT !.ver = @ + 1] : f \in host.hist} : Upsert(e)
  \/ \E keep \in SUBSET host.hist, n \in 0..2, full \in BOOLEAN : Replace(keep, n, full)
  \/ \E below \in Seqs(host.hist) \cup {0}, full \in BOOLEAN : Restore(below, full)
  \/ \E i \in Cards : Raise(i) \/ Resolve(i)
  \/ \E turn \in {"running", "idle"} : ReportTurn(turn)
  \/ \E m \in Modes : ReportMode(m)

Next ==
  \/ Host
  \/ \E c \in Clients : Subscribe(c) \/ Forward(c) \/ Page(c) \/ Drop(c)

Spec == Init /\ [][Next]_vars

\* The subscription task runs while its connection does, and a phone asks again.
FairSpec == Spec /\ \A c \in Clients : WF_vars(Forward(c)) /\ WF_vars(Subscribe(c))
-----------------------------------------------------------------------------
(* Properties *)

Key(s) == <<s.epoch, s.gen, s.rev>>
Current(c) == client[c].snap # None /\ Key(client[c].snap) = Key(host)

\* A snapshot as the reducer leaves it: the host does not hold the turn for what is pending.
Gated(s) == [s EXCEPT !.turn = IF s.cards # {} THEN "awaiting" ELSE @]

View == INSTANCE SessionView WITH
  value <- Gated(Wire(host)),
  shown <- [c \in Clients |-> IF client[c].snap = None THEN <<"nothing">>
                             ELSE IF Current(c) THEN <<"present", Gated(client[c].snap)>>
                             ELSE <<"behind">>]

\* The frames, fences and resyncs implement SessionView: no change of the session leaves its
\* revision in place, and whoever arrives at a revision arrives at what the session is.
ImplementsView == View!Spec

\* What a subscriber kept from earlier in the same epoch is still true: the row is where it was,
\* or older than every row the host has left (fence_rewritten_history: "the rule that keeps a
\* client's retained history truthful").
RetainedRowsAreTrue ==
  \A c \in Clients :
    client[c].snap # None /\ client[c].snap.epoch = host.epoch /\ client[c].snap.gen = host.gen =>
      \A e \in client[c].old :
        \/ \E f \in host.hist : f.id = e.id /\ f.seq = e.seq
        \/ \A f \in host.hist : f.id # e.id /\ e.seq < f.seq

\* The turn shown is running exactly while a run is open that nobody waits in: a card or a
\* notification that interrupts a run gives it back, and nothing gives back a run that ended.
OpenRunIsShown ==
  host.on => /\ host.turn = "running" => host.run
             /\ host.run => host.turn \in {"running", "awaiting"}

\* An advertised route was proved for the registration that is there now, although the resolver
\* answers after any number of reconnects.
RoutesAreCurrent == host.route \in {0, host.token}

\* Once the session rests, a subscriber that asks again when it is told to, or when it was cut
\* off, shows what the session is: no gap, lag or rewrite leaves it behind for good.
CatchesUp == \A c \in Clients : []<>(Current(c) \/ ~host.on)
=============================================================================
