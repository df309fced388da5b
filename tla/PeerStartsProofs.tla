-------------------------- MODULE PeerStartsProofs --------------------------
(* Proofs about the destination of a link between computers, for any number *)
(* of peers, phones, grants, requests and handlers.                         *)
EXTENDS PeerStarts, FiniteSetTheorems, TLAPS

\* The stages in which a handler holds the gate across a wait, and those in which it has a
\* request.
Busy == {"launching", "launched", "effect"}
Asked == {"request"} \cup Busy

\* A handler past its arrival has a peer, and one with a request has what its kind needs.
HandlerInv ==
  \A h \in Handlers :
    /\ handlers[h].stage # "idle" => handlers[h].peer \in Endpoints
    /\ handlers[h].stage \in Asked =>
         /\ handlers[h].kind \in Kinds /\ handlers[h].grant \in Grants
         /\ handlers[h].kind # "read" => handlers[h].claim \in Claims
         /\ handlers[h].kind = "start" => /\ handlers[h].claim[1] = handlers[h].grant
                                          /\ handlers[h].workspace \in Workspaces
    /\ handlers[h].stage \in {"launching", "launched"} => handlers[h].kind = "start"
    /\ handlers[h].stage = "effect" => handlers[h].kind \in {"stop", "command"}
    /\ handlers[h].stage = "launched" => handlers[h].outcome # "none"

\* A connection that nobody closed is the one its peer has in the table.
ConnectionInv ==
  \A h \in Handlers : handlers[h].open = "yes" /\ handlers[h].stage \notin {"idle", "arrived"} =>
    connections[handlers[h].peer] = h

\* What a store, in memory or on disk, says of the starts of the grants it has.
ClaimInv(s) ==
  \A c \in Claims :
    /\ s.starts[c].outcome = "none" => s.starts[c] = NoClaim
    /\ s.starts[c].outcome = "accepted" => launches[c] = 1
    /\ c[1] \in s.incoming =>
         /\ launches[c] > 0 => s.starts[c].outcome # "none"
         /\ \A x \in told[c] : s.starts[c].outcome = x

\* A store that may follow this one, or be on disk beside it: an outcome, once recorded, stays
\* for as long as the grant does.
Continues(s) ==
  \A c \in Claims : c[1] \in s.incoming /\ store.starts[c].outcome \in {"accepted", "refused"} =>
    s.starts[c].outcome = store.starts[c].outcome

\* A launch under way is the first of its claim, and the claim is on disk.
LaunchInv ==
  \A h \in Handlers :
    /\ handlers[h].stage \in {"launching", "launched"} =>
         file.starts[handlers[h].claim].outcome = "claimed"
    /\ handlers[h].stage = "launching" => launches[handlers[h].claim] = 0
    /\ handlers[h].stage = "launched" /\ handlers[h].outcome = "accepted" =>
         launches[handlers[h].claim] = 1

\* Nothing was launched for, or said of, a grant that was not made.
MintInv ==
  \A c \in Claims : minted[c[1]] = Unminted => launches[c] = 0 /\ told[c] = {}

\* What was launched and said so far.
OnceInv ==
  \A c \in Claims :
    /\ launches[c] <= 1
    /\ "accepted" \in told[c] => launches[c] = 1
    /\ \A x, y \in told[c] : x = y

\* Where a save that fails leaves the file as it was, the file is what memory is, and no
\* grant outlives the pairing of its issuer.
IssuerInv ==
  ~LateFailure => file = store /\ pairedFile = paired /\ GrantsHaveAnIssuer

PInv ==
  /\ TypeOK /\ HandlerInv /\ ConnectionInv
  /\ EffectsAreAuthorised /\ OpenConnectionsAreAuthorised
  /\ ClaimInv(store) /\ ClaimInv(file) /\ LaunchInv /\ MintInv /\ OnceInv
  /\ Continues(file) /\ IssuerInv

\* The initial state.
LEMMA PeersInit == Init => PInv
<1> SUFFICES ASSUME Init PROVE PInv
  OBVIOUS
<1>1. /\ EmptyStore \in Store /\ IdleHandler \in Handler /\ Unminted \in Incoming \cup {Unminted}
      /\ EmptyStore.incoming = {} /\ \A c \in Claims : EmptyStore.starts[c] = NoClaim
  BY DEF EmptyStore, Store, Claim, NoClaim, IdleHandler, Handler, Stages
<1>2. TypeOK
  BY <1>1 DEF Init, TypeOK
<1>3. HandlerInv /\ ConnectionInv /\ EffectsAreAuthorised /\ OpenConnectionsAreAuthorised /\ LaunchInv
  BY DEF Init, HandlerInv, ConnectionInv, EffectsAreAuthorised, OpenConnectionsAreAuthorised, LaunchInv,
         IdleHandler, Asked, Busy
<1>4. ClaimInv(store) /\ ClaimInv(file) /\ Continues(file)
  BY <1>1 DEF Init, ClaimInv, Continues, NoClaim
<1>5. MintInv /\ OnceInv /\ IssuerInv
  BY <1>1 DEF Init, MintInv, OnceInv, IssuerInv, GrantsHaveAnIssuer
<1> QED
  BY <1>2, <1>3, <1>4, <1>5 DEF PInv

\* A store that was revoked, extended by a grant, or told of a claim is a store.
LEMMA StoreTypes ==
  ASSUME TypeOK
  PROVE  /\ \A peers : Revoked(peers) \in Store
         /\ \A g \in Grants : [store EXCEPT !.incoming = @ \cup {g}] \in Store
         /\ \A c \in Claims, w \in Workspaces :
              [store EXCEPT !.starts[c] = [outcome |-> "claimed", workspace |-> w]] \in Store
         /\ \A c \in Claims, x \in {"accepted", "refused"} :
              [store EXCEPT !.starts[c].outcome = x] \in Store
<1>1. NoClaim \in Claim
  BY DEF NoClaim, Claim
<1>2. store.incoming \in SUBSET Grants /\ store.starts \in [Claims -> Claim]
  BY DEF TypeOK, Store
<1>3. \A peers : Revoked(peers) \in Store
  BY <1>1, <1>2 DEF Revoked, Store
<1>4. \A g \in Grants : [store EXCEPT !.incoming = @ \cup {g}] \in Store
  BY <1>2 DEF TypeOK, Store
<1>5. \A c \in Claims, w \in Workspaces :
              [store EXCEPT !.starts[c] = [outcome |-> "claimed", workspace |-> w]] \in Store
  BY <1>2, Zenon DEF TypeOK, Store, Claim
<1>6. \A c \in Claims, x \in {"accepted", "refused"} :
              [store EXCEPT !.starts[c].outcome = x] \in Store
  <2> SUFFICES ASSUME NEW c \in Claims, NEW x \in {"accepted", "refused"}
               PROVE  [store EXCEPT !.starts[c].outcome = x] \in Store
    BY Zenon
  <2>1. [store.starts[c] EXCEPT !.outcome = x] \in Claim
    BY <1>2 DEF Claim
  <2>2. [store.starts EXCEPT ![c].outcome = x] \in [Claims -> Claim]
    BY <1>2, <2>1
  <2> QED
    BY <2>2 DEF TypeOK, Store
<1> QED
  BY <1>3, <1>4, <1>5, <1>6

\* What the store says of its claims stays true when it is revoked, when a grant is added that
\* is new, when a start nobody has asked for is claimed and when its outcome is recorded.
LEMMA StoreClaims ==
  ASSUME PInv
  PROVE  /\ \A peers : ClaimInv(Revoked(peers)) /\ Continues(Revoked(peers))
         /\ \A g \in Grants : minted[g] = Unminted =>
              /\ ClaimInv([store EXCEPT !.incoming = @ \cup {g}])
              /\ Continues([store EXCEPT !.incoming = @ \cup {g}])
         /\ \A c \in Claims, w \in Workspaces : store.starts[c] = NoClaim /\ c[1] \in store.incoming =>
              /\ ClaimInv([store EXCEPT !.starts[c] = [outcome |-> "claimed", workspace |-> w]])
              /\ Continues([store EXCEPT !.starts[c] = [outcome |-> "claimed", workspace |-> w]])
         /\ \A c \in Claims, x \in {"accepted", "refused"} :
              /\ store.starts[c].outcome = "claimed" /\ c[1] \in store.incoming
              /\ x = "accepted" => launches[c] = 1
              => /\ ClaimInv([store EXCEPT !.starts[c].outcome = x])
                 /\ Continues([store EXCEPT !.starts[c].outcome = x])
<1>1. /\ store \in Store /\ store.incoming \in SUBSET Grants /\ store.starts \in [Claims -> Claim]
      /\ launches \in [Claims -> Nat] /\ told \in [Claims -> SUBSET {"accepted", "refused"}]
  BY DEF PInv, TypeOK, Store
<1>2. NoClaim.outcome = "none" /\ ClaimInv(store)
  BY DEF NoClaim, PInv
<1>3. \A peers : ClaimInv(Revoked(peers)) /\ Continues(Revoked(peers))
  BY <1>1, <1>2 DEF Revoked, ClaimInv, Continues
<1>4. ASSUME NEW g \in Grants, minted[g] = Unminted
      PROVE  /\ ClaimInv([store EXCEPT !.incoming = @ \cup {g}])
             /\ Continues([store EXCEPT !.incoming = @ \cup {g}])
  <2>1. /\ [store EXCEPT !.incoming = @ \cup {g}].incoming = store.incoming \cup {g}
        /\ [store EXCEPT !.incoming = @ \cup {g}].starts = store.starts
    BY <1>1 DEF Store
  <2> QED
    BY <1>1, <1>2, <1>4, <2>1 DEF ClaimInv, Continues, PInv, MintInv
<1>5. ASSUME NEW c \in Claims, NEW w \in Workspaces, store.starts[c] = NoClaim, c[1] \in store.incoming
      PROVE  /\ ClaimInv([store EXCEPT !.starts[c] = [outcome |-> "claimed", workspace |-> w]])
             /\ Continues([store EXCEPT !.starts[c] = [outcome |-> "claimed", workspace |-> w]])
  <2> DEFINE next == [store EXCEPT !.starts[c] = [outcome |-> "claimed", workspace |-> w]]
  <2>1. /\ next.incoming = store.incoming
        /\ next.starts[c] = [outcome |-> "claimed", workspace |-> w]
        /\ \A d \in Claims \ {c} : next.starts[d] = store.starts[d]
    BY <1>1 DEF Store
  <2>2. told[c] = {}
    BY <1>1, <1>2, <1>5 DEF ClaimInv
  <2> HIDE DEF next
  <2>3. ClaimInv(next) /\ Continues(next)
    BY <1>1, <1>2, <1>5, <2>1, <2>2 DEF ClaimInv, Continues
  <2> QED
    BY <2>3 DEF next
<1>6. ASSUME NEW c \in Claims, NEW x \in {"accepted", "refused"}, store.starts[c].outcome = "claimed",
             c[1] \in store.incoming, x = "accepted" => launches[c] = 1
      PROVE  /\ ClaimInv([store EXCEPT !.starts[c].outcome = x])
             /\ Continues([store EXCEPT !.starts[c].outcome = x])
  <2> DEFINE next == [store EXCEPT !.starts[c].outcome = x]
  <2>1. /\ next.incoming = store.incoming
        /\ next.starts[c].outcome = x
        /\ \A d \in Claims \ {c} : next.starts[d] = store.starts[d]
    BY <1>1 DEF Store, Claim
  <2>2. told[c] = {}
    BY <1>1, <1>2, <1>6 DEF ClaimInv
  <2> HIDE DEF next
  <2>3. ClaimInv(next) /\ Continues(next)
    BY <1>1, <1>2, <1>6, <2>1, <2>2 DEF ClaimInv, Continues
  <2> QED
    BY <2>3 DEF next
<1> QED
  BY <1>3, <1>4, <1>5, <1>6

\* change, whether it succeeds or not.
LEMMA ChangeStep ==
  ASSUME PInv, NEW next \in Store, ClaimInv(next), Continues(next), Changed(next) \/ ChangeFails(next),
         UNCHANGED <<launches, told>>
  PROVE  /\ store' \in {store, next} /\ file' \in {file, next}
         /\ store' \in Store /\ file' \in Store
         /\ ClaimInv(store)' /\ ClaimInv(file)' /\ Continues(file)'
         /\ (~LateFailure => file' = store')
<1>1. store' \in {store, next} /\ file' \in {file, next}
  BY DEF Changed, ChangeFails
<1>2. ~LateFailure => file' = store'
  BY DEF Changed, ChangeFails, PInv, IssuerInv
<1>3. ClaimInv(store)' /\ ClaimInv(file)'
  BY <1>1 DEF ClaimInv, PInv
<1>4. Continues(file)'
  BY DEF Changed, ChangeFails, PInv, Continues
<1> QED
  BY <1>1, <1>2, <1>3, <1>4 DEF PInv, TypeOK

\* While the gate is free nothing is launched and no effect is under way.
LEMMA GateFreeMeansIdle ==
  ASSUME PInv, GateFree
  PROVE  \A h \in Handlers : handlers[h].stage \notin Busy
  BY NameAssumption DEF PInv, GateFree, EffectsAreAuthorised, Busy

\* close: every connection of the peers is closed, and nothing else changes.
LEMMA CloseStep ==
  ASSUME PInv, NEW peers, Closed(peers)
  PROVE  /\ connections' \in [Endpoints -> Handlers \cup {None}]
         /\ handlers' \in [Handlers -> Handler]
         /\ HandlerInv' /\ ConnectionInv'
         /\ \A h \in Handlers :
              /\ handlers'[h].stage = handlers[h].stage /\ handlers'[h].peer = handlers[h].peer
              /\ handlers'[h].open = "yes" /\ handlers[h].stage \notin {"idle", "arrived"} =>
                   handlers[h].open = "yes" /\ handlers[h].peer \notin peers
<1>1. connections \in [Endpoints -> Handlers \cup {None}] /\ handlers \in [Handlers -> Handler]
  BY DEF PInv, TypeOK
<1>2. connections' \in [Endpoints -> Handlers \cup {None}]
  BY <1>1 DEF Closed
<1>3. ASSUME NEW h \in Handlers
      PROVE  /\ handlers'[h] \in Handler
             /\ handlers'[h].stage = handlers[h].stage /\ handlers'[h].peer = handlers[h].peer
             /\ handlers'[h].kind = handlers[h].kind /\ handlers'[h].grant = handlers[h].grant
             /\ handlers'[h].claim = handlers[h].claim /\ handlers'[h].workspace = handlers[h].workspace
             /\ handlers'[h].outcome = handlers[h].outcome
             /\ handlers'[h].open = "yes" =>
                  handlers[h].open = "yes" /\ \A e \in peers : connections[e] # h
  <2>1. handlers[h] \in Handler
    BY <1>1
  <2>2. CASE \E e \in peers : connections[e] = h
    <3>1. handlers'[h] = [handlers[h] EXCEPT !.open = "no"]
      BY <2>2 DEF Closed
    <3> QED
      BY <2>1, <3>1 DEF Handler
  <2>3. CASE \A e \in peers : connections[e] # h
    BY <2>1, <2>3 DEF Closed
  <2> QED
    BY <2>2, <2>3
<1>4. handlers' \in [Handlers -> Handler]
  BY <1>3 DEF Closed
<1>5. HandlerInv'
  BY <1>3 DEF PInv, HandlerInv
<1>6. ASSUME NEW h \in Handlers, handlers'[h].open = "yes", handlers[h].stage \notin {"idle", "arrived"}
      PROVE  handlers[h].open = "yes" /\ handlers[h].peer \notin peers
  BY <1>3, <1>6 DEF PInv, ConnectionInv
<1>7. ConnectionInv'
  BY <1>3, <1>6 DEF PInv, ConnectionInv, HandlerInv, Closed
<1> QED
  BY <1>2, <1>3, <1>4, <1>5, <1>6, <1>7

\* To revoke nobody changes nothing.
LEMMA RevokeNobody ==
  ASSUME PInv
  PROVE  Revoked({}) = store
<1>1. GrantsOf({}) = {}
  BY DEF GrantsOf
<1>2. /\ store = [incoming |-> store.incoming, starts |-> store.starts]
      /\ store.starts \in [Claims -> Claim]
  BY DEF PInv, TypeOK, Store
<1>3. [c \in Claims |-> store.starts[c]] = store.starts
  BY <1>2
<1> QED
  BY <1>1, <1>2, <1>3 DEF Revoked

\* The peers of a set lose their grants, their claims and their connections together.
LEMMA RevokedStep ==
  ASSUME PInv, GateFree, NEW peers, store' = Revoked(peers), Closed(peers),
         file' \in Store, ClaimInv(file)', UNCHANGED <<effects, minted, asking, work>>,
         paired' \subseteq Phones, pairedFile' \subseteq Phones
  PROVE  /\ TypeOK' /\ HandlerInv' /\ ConnectionInv'
         /\ EffectsAreAuthorised' /\ OpenConnectionsAreAuthorised'
         /\ ClaimInv(store)' /\ LaunchInv' /\ MintInv' /\ OnceInv'
         /\ store'.incoming = store.incoming \ GrantsOf(peers)
<1>1. TypeOK' /\ HandlerInv' /\ ConnectionInv'
  BY CloseStep, StoreTypes DEF PInv, TypeOK, work
<1>2. \A h \in Handlers : handlers'[h].stage \notin Busy
  BY GateFreeMeansIdle, CloseStep
<1>3. EffectsAreAuthorised' /\ LaunchInv'
  BY <1>2 DEF EffectsAreAuthorised, LaunchInv, Busy
<1>4. store'.incoming = store.incoming \ GrantsOf(peers)
  BY DEF Revoked
<1>5. OpenConnectionsAreAuthorised'
  BY <1>4, CloseStep DEF PInv, OpenConnectionsAreAuthorised, HasGrant, GrantsOf
<1>6. ClaimInv(Revoked(peers))
  BY StoreClaims
<1>7. ClaimInv(store)' /\ MintInv' /\ OnceInv'
  BY <1>6 DEF ClaimInv, MintInv, OnceInv, PInv, work
<1> QED
  BY <1>1, <1>3, <1>4, <1>5, <1>7

\* Grant: the new grant has no starts yet, and its issuer is still there.
LEMMA PeersGrant ==
  ASSUME PInv, NEW i \in Phones \cup {Host}, NEW e \in Endpoints, NEW g \in Grants,
         NEW ws \in SUBSET Workspaces, Grant(i, e, g, ws)
  PROVE  PInv'
<1> DEFINE next == [store EXCEPT !.incoming = @ \cup {g}]
<1>1. /\ GateFree /\ MayIssue(i) /\ minted[g] = Unminted
      /\ minted' = [minted EXCEPT ![g] = [peer |-> e, issuer |-> i, workspaces |-> ws]]
      /\ (Changed(next) \/ ChangeFails(next)) /\ asking' = asking \ {i}
      /\ UNCHANGED <<effects, connections, handlers, paired, pairedFile, sessions, launches, told>>
  BY DEF Grant, work
<1>2. next \in Store /\ ClaimInv(next) /\ Continues(next)
  BY <1>1, StoreTypes, StoreClaims DEF PInv
<1>3. next.incoming = store.incoming \cup {g}
  BY DEF PInv, TypeOK, Store
<1> HIDE DEF next
<1>4. /\ store' \in {store, next} /\ store' \in Store /\ file' \in Store
      /\ ClaimInv(store)' /\ ClaimInv(file)' /\ Continues(file)' /\ (~LateFailure => file' = store')
  BY <1>1, <1>2, ChangeStep
<1>5. /\ minted' \in [Grants -> Incoming \cup {Unminted}]
      /\ minted'[g] = [peer |-> e, issuer |-> i, workspaces |-> ws] /\ minted'[g] # Unminted
      /\ \A f \in Grants \ {g} : minted'[f] = minted[f]
  BY <1>1, NameAssumption DEF PInv, TypeOK, Incoming, Unminted
<1>6. TypeOK'
  BY <1>1, <1>4, <1>5, Zenon DEF PInv, TypeOK
<1>7. HandlerInv' /\ ConnectionInv'
  BY <1>1 DEF PInv, HandlerInv, ConnectionInv
<1>8. EffectsAreAuthorised' /\ LaunchInv'
  BY <1>1, GateFreeMeansIdle DEF EffectsAreAuthorised, LaunchInv, Busy
<1>9. OpenConnectionsAreAuthorised'
  <2> SUFFICES ASSUME NEW h \in Handlers, handlers[h].open = "yes", handlers[h].stage \notin {"idle", "arrived"}
               PROVE  HasGrant(handlers[h].peer)'
    BY <1>1 DEF OpenConnectionsAreAuthorised
  <2>1. PICK f \in store.incoming : minted[f].peer = handlers[h].peer
    BY DEF PInv, OpenConnectionsAreAuthorised, HasGrant, GrantsOf
  <2>2. f \in Grants /\ handlers[h].peer \in Endpoints
    BY Zenon DEF PInv, TypeOK, Store, HandlerInv
  <2>3. f # g
    BY <1>1, <2>1, <2>2, NameAssumption DEF Unminted
  <2> QED
    BY <1>1, <1>3, <1>4, <1>5, <2>1, <2>2, <2>3, Zenon DEF HasGrant, GrantsOf
<1>10. MintInv' /\ OnceInv'
  BY <1>1, <1>5 DEF PInv, MintInv, OnceInv, Claims
<1>11. IssuerInv'
  <2> SUFFICES ASSUME ~LateFailure PROVE GrantsHaveAnIssuer'
    BY <1>1, <1>4 DEF IssuerInv, PInv
  <2> QED
    BY <1>1, <1>3, <1>4, <1>5, Zenon DEF IssuerInv, PInv, GrantsHaveAnIssuer, MayIssue, TypeOK, Store
<1> QED
  BY <1>4, <1>6, <1>7, <1>8, <1>9, <1>10, <1>11 DEF PInv

\* Revoke.
LEMMA PeersRevoke ==
  ASSUME PInv, NEW e \in Endpoints, Revoke(e)
  PROVE  PInv'
<1>1. GateFree /\ UNCHANGED <<effects, minted, asking, paired, pairedFile, work>>
  BY DEF Revoke, admin
<1>2. Revoked({e}) \in Store /\ ClaimInv(Revoked({e})) /\ Continues(Revoked({e}))
  BY StoreTypes, StoreClaims DEF PInv
<1>3. Changed(Revoked({e})) \/ ChangeFails(Revoked({e}))
  BY DEF Revoke
<1>4. /\ file' \in Store /\ store' \in Store /\ ClaimInv(store)' /\ ClaimInv(file)' /\ Continues(file)'
      /\ (~LateFailure => file' = store')
  BY <1>1, <1>2, <1>3, ChangeStep DEF work
<1>5. CASE Changed(Revoked({e})) /\ Closed({e})
  <2>1. store' = Revoked({e})
    BY <1>5 DEF Changed
  <2>2. /\ TypeOK' /\ HandlerInv' /\ ConnectionInv'
        /\ EffectsAreAuthorised' /\ OpenConnectionsAreAuthorised'
        /\ LaunchInv' /\ MintInv' /\ OnceInv'
        /\ store'.incoming = store.incoming \ GrantsOf({e})
    BY <1>1, <1>4, <1>5, <2>1, RevokedStep, Zenon DEF PInv, TypeOK
  <2>3. IssuerInv'
    BY <1>1, <1>4, <2>2, Zenon DEF PInv, IssuerInv, GrantsHaveAnIssuer
  <2> QED
    BY <1>4, <2>2, <2>3, Zenon DEF PInv
<1>6. CASE ChangeFails(Revoked({e})) /\ UNCHANGED <<connections, handlers>>
  <2>1. UNCHANGED store
    BY <1>6 DEF ChangeFails
  <2>2. TypeOK' /\ HandlerInv' /\ ConnectionInv' /\ OpenConnectionsAreAuthorised' /\ MintInv' /\ OnceInv'
    BY SMTT(30), <1>1, <1>4, <1>6, <2>1
    DEF PInv, TypeOK, HandlerInv, ConnectionInv, OpenConnectionsAreAuthorised, HasGrant, GrantsOf, MintInv,
        OnceInv, work
  <2>3. EffectsAreAuthorised' /\ LaunchInv'
    BY <1>1, <1>6, GateFreeMeansIdle, Zenon DEF EffectsAreAuthorised, LaunchInv, Busy
  <2>4. IssuerInv'
    BY <1>1, <1>4, <2>1, Zenon DEF PInv, IssuerInv, GrantsHaveAnIssuer
  <2> QED
    BY <1>4, <2>2, <2>3, <2>4 DEF PInv
<1> QED
  BY <1>5, <1>6 DEF Revoke

\* Unpair: every grant the phone issued is gone before the phone is.
LEMMA PeersUnpair ==
  ASSUME PInv, NEW i \in Phones, Unpair(i)
  PROVE  PInv'
<1> DEFINE peers == PeersOf(i)
<1>1. /\ GateFree /\ RevokeIssuer(i) /\ UNCHANGED <<effects, minted, asking, work>>
      /\ paired' \in {paired, paired \ {i}}
      /\ pairedFile' \in {pairedFile, paired \ {i}}
      /\ (~LateFailure => pairedFile' = paired')
  BY DEF Unpair, PInv, IssuerInv
<1>2. Revoked(peers) \in Store /\ ClaimInv(Revoked(peers))
  BY StoreTypes, StoreClaims DEF PInv
<1>3. Closed(peers) /\ store' = Revoked(peers)
  BY <1>1, RevokeNobody DEF RevokeIssuer, Changed
<1>4. file' \in {file, Revoked(peers)} /\ (~LateFailure => file' = store')
  BY <1>1 DEF RevokeIssuer, Changed, PInv, IssuerInv
<1>5. file' \in Store /\ ClaimInv(file)'
  BY <1>1, <1>2, <1>4, Zenon DEF PInv, TypeOK, ClaimInv, work
<1>6. paired' \subseteq Phones /\ pairedFile' \subseteq Phones
  BY <1>1 DEF PInv, TypeOK
<1>7. /\ TypeOK' /\ HandlerInv' /\ ConnectionInv'
      /\ EffectsAreAuthorised' /\ OpenConnectionsAreAuthorised'
      /\ ClaimInv(store)' /\ LaunchInv' /\ MintInv' /\ OnceInv'
      /\ store'.incoming = store.incoming \ GrantsOf(peers)
  BY <1>1, <1>3, <1>5, <1>6, RevokedStep, Zenon
<1>8. \A g \in store.incoming : minted[g].issuer = i => g \in GrantsOf(peers)
  BY DEF PeersOf, GrantsOf
<1>9. IssuerInv'
  BY <1>1, <1>4, <1>7, <1>8, Zenon DEF PInv, IssuerInv, GrantsHaveAnIssuer
<1>10. Continues(file)'
  BY <1>1, Zenon DEF RevokeIssuer, Changed, PInv, Continues
<1> QED
  BY <1>5, <1>7, <1>9, <1>10, SMTT(30) DEF PInv

\* Unpair that fails halfway: some peers are revoked, the phone stays.
LEMMA PeersUnpairFails ==
  ASSUME PInv, NEW i \in Phones, UnpairFails(i)
  PROVE  PInv'
<1>1. GateFree /\ UNCHANGED <<effects, minted, asking, paired, pairedFile, work>>
  BY DEF UnpairFails, admin
<1>2. PICK done \in SUBSET PeersOf(i), e \in PeersOf(i) :
        /\ store' = Revoked(done)
        /\ file' \in {IF done = {} THEN file ELSE Revoked(done)}
                     \cup (IF LateFailure THEN {Revoked(done \cup {e})} ELSE {})
        /\ Closed(done)
  BY Zenon DEF UnpairFails
<1>3. file' \in {file, Revoked(done), Revoked(done \cup {e})}
  BY <1>2
<1>4. /\ Revoked(done) \in Store /\ ClaimInv(Revoked(done))
      /\ Revoked(done \cup {e}) \in Store /\ ClaimInv(Revoked(done \cup {e}))
  BY StoreTypes, StoreClaims DEF PInv
<1>5. file' \in Store /\ ClaimInv(file)'
  BY <1>1, <1>3, <1>4, Zenon DEF PInv, TypeOK, ClaimInv, work
<1>6. ~LateFailure => file' = store'
  BY <1>2, RevokeNobody DEF PInv, IssuerInv
<1>7. /\ TypeOK' /\ HandlerInv' /\ ConnectionInv'
      /\ EffectsAreAuthorised' /\ OpenConnectionsAreAuthorised'
      /\ ClaimInv(store)' /\ LaunchInv' /\ MintInv' /\ OnceInv'
      /\ store'.incoming = store.incoming \ GrantsOf(done)
  BY <1>1, <1>2, <1>5, RevokedStep, Zenon DEF PInv, TypeOK
<1>8. IssuerInv'
  BY <1>1, <1>6, <1>7, Zenon DEF PInv, IssuerInv, GrantsHaveAnIssuer
<1>9. Continues(file)'
  <2>1. file' = store' \/ file' = Revoked(done \cup {e}) \/ UNCHANGED <<store, file>>
    BY <1>2, <1>3, RevokeNobody
  <2>2. ASSUME file' = Revoked(done \cup {e}) PROVE Continues(file)'
    BY <1>2, <2>2, Zenon DEF Revoked, GrantsOf, Continues, NoClaim
  <2> QED
    BY <2>1, <2>2 DEF PInv, Continues
<1> QED
  BY <1>5, <1>7, <1>8, <1>9 DEF PInv

\* The steps that leave the store, the connections and the handlers alone.
LEMMA PeersAside ==
  ASSUME PInv, UNCHANGED <<store, file, effects, connections, handlers, minted, launches, told>>,
         sessions' \in [Claims -> Live \cup {"none", "stored"}], asking' \subseteq Phones \cup {Host},
         \/ UNCHANGED <<paired, pairedFile>>
         \/ \E i \in Phones : paired' = paired \cup {i} /\ pairedFile' = paired \cup {i}
  PROVE  PInv'
<1>1. /\ TypeOK' /\ HandlerInv' /\ ConnectionInv' /\ EffectsAreAuthorised'
      /\ OpenConnectionsAreAuthorised'
  BY SMTT(30) DEF PInv, TypeOK, HandlerInv, ConnectionInv, EffectsAreAuthorised, OpenConnectionsAreAuthorised,
         HasGrant, GrantsOf, Granted, Owns
<1>2. ClaimInv(store)' /\ ClaimInv(file)' /\ Continues(file)' /\ LaunchInv' /\ MintInv' /\ OnceInv'
  BY SMTT(30) DEF PInv, ClaimInv, Continues, LaunchInv, MintInv, OnceInv
<1>3. IssuerInv'
  BY DEF PInv, IssuerInv, GrantsHaveAnIssuer
<1> QED
  BY <1>1, <1>2, <1>3 DEF PInv

\* A handler replies: it gives the gate back if it had it, and its connection stays.
LEMMA ReplyStep ==
  ASSUME PInv, NEW h \in Handlers, handlers[h].stage \notin {"idle", "arrived"}, Only(h, Replied(h)),
         effects' \in Handlers \cup {None}, effects = h \/ UNCHANGED effects,
         store'.incoming = store.incoming, UNCHANGED launches,
         \/ UNCHANGED <<store, file>>
         \/ \A f \in Handlers \ {h} : handlers[f].stage \notin Busy
  PROVE  /\ handlers' \in [Handlers -> Handler] /\ effects' \in Handlers \cup {None}
         /\ HandlerInv' /\ ConnectionInv'
         /\ EffectsAreAuthorised' /\ OpenConnectionsAreAuthorised' /\ LaunchInv'
         /\ UNCHANGED <<connections, minted, asking, paired, pairedFile>>
<1>1. /\ handlers' = [handlers EXCEPT ![h] = Replied(h)]
      /\ UNCHANGED <<connections, minted, asking, paired, pairedFile>>
  BY DEF Only, admin
<1>2. handlers \in [Handlers -> Handler] /\ handlers[h] \in Handler /\ effects \in Handlers \cup {None}
  BY DEF PInv, TypeOK
<1>3. /\ Replied(h) \in Handler /\ Replied(h).stage = "replied"
      /\ Replied(h).peer = handlers[h].peer /\ Replied(h).open = handlers[h].open
  BY <1>2, Zenon DEF Replied, IdleHandler, Handler, Stages
<1>4. /\ handlers' \in [Handlers -> Handler] /\ effects' \in Handlers \cup {None}
      /\ handlers'[h] = Replied(h) /\ \A f \in Handlers \ {h} : handlers'[f] = handlers[f]
  BY <1>1, <1>2, <1>3
<1>5. HandlerInv' /\ ConnectionInv'
  BY <1>1, <1>3, <1>4, SMTT(30) DEF PInv, HandlerInv, ConnectionInv, Asked, Busy
<1>6. OpenConnectionsAreAuthorised'
  BY <1>1, <1>3, <1>4, Zenon DEF PInv, OpenConnectionsAreAuthorised, HasGrant, GrantsOf
<1>7. EffectsAreAuthorised'
  BY <1>1, <1>3, <1>4, SMTT(30) DEF PInv, EffectsAreAuthorised, Granted, GrantsOf, Owns, Busy
<1>8. LaunchInv'
  BY <1>3, <1>4, Zenon DEF PInv, LaunchInv, Busy
<1> QED
  BY <1>1, <1>4, <1>5, <1>6, <1>7, <1>8

\* NoRequest, Answer, StartLimited, Operated and Deadline reply, and tell nothing of a start.
LEMMA PeersReply ==
  ASSUME PInv, NEW h \in Handlers,
         NoRequest(h) \/ Answer(h) \/ StartLimited(h) \/ Operated(h) \/ Deadline(h)
  PROVE  PInv'
<1>1. /\ handlers[h].stage \notin {"idle", "arrived"} /\ Only(h, Replied(h))
      /\ UNCHANGED <<store, file, launches, told>>
  BY Zenon DEF NoRequest, Answer, StartLimited, Operated, Deadline, Starting, Turn, work
<1>2. effects' \in Handlers \cup {None} /\ (effects = h \/ UNCHANGED effects)
  BY Zenon DEF NoRequest, Answer, StartLimited, Operated, Deadline, PInv, TypeOK, EffectsAreAuthorised
<1>3. sessions' \in [Claims -> Live \cup {"none", "stored"}]
  BY Zenon DEF NoRequest, Answer, StartLimited, Operated, Deadline, work, PInv, TypeOK
<1>4. /\ handlers' \in [Handlers -> Handler] /\ effects' \in Handlers \cup {None}
      /\ HandlerInv' /\ ConnectionInv'
      /\ EffectsAreAuthorised' /\ OpenConnectionsAreAuthorised' /\ LaunchInv'
      /\ UNCHANGED <<connections, minted, asking, paired, pairedFile>>
  BY <1>1, <1>2, ReplyStep, Zenon
<1>5. TypeOK'
  BY <1>1, <1>3, <1>4, Zenon DEF PInv, TypeOK
<1>6. ClaimInv(store)' /\ ClaimInv(file)' /\ Continues(file)' /\ MintInv' /\ OnceInv'
  BY <1>1, <1>4, Zenon DEF PInv, ClaimInv, Continues, MintInv, OnceInv
<1>7. IssuerInv'
  BY <1>1, <1>4, Zenon DEF PInv, IssuerInv, GrantsHaveAnIssuer
<1> QED
  BY <1>4, <1>5, <1>6, <1>7 DEF PInv

\* Of a start that may go on: what its handler's request names exists.
LEMMA StartingFacts ==
  ASSUME PInv, NEW h \in Handlers, Starting(h)
  PROVE  /\ GateFree /\ handlers[h].stage = "request"
         /\ handlers[h].claim \in Claims /\ handlers[h].claim[1] \in store.incoming
         /\ handlers[h].workspace \in Workspaces /\ minted[handlers[h].claim[1]] # Unminted
         /\ \A f \in Handlers : handlers[f].stage \notin Busy
<1>1. GateFree /\ handlers[h].stage = "request" /\ handlers[h].kind = "start" /\ Granted(h)
  BY Zenon DEF Starting, Turn
<1>2. /\ handlers[h].claim \in Claims /\ handlers[h].claim[1] = handlers[h].grant
      /\ handlers[h].workspace \in Workspaces /\ handlers[h].peer \in Endpoints
  BY <1>1, Zenon DEF PInv, HandlerInv, Asked
<1>3. handlers[h].grant \in store.incoming /\ minted[handlers[h].grant].peer = handlers[h].peer
  BY <1>1, Zenon DEF Granted, GrantsOf
<1>4. minted[handlers[h].grant] # Unminted
  BY <1>2, <1>3, NameAssumption DEF Unminted
<1> QED
  BY <1>1, <1>2, <1>3, <1>4, GateFreeMeansIdle, Zenon DEF GateFree

\* StartKnown: what it tells is what was told before.
LEMMA PeersStartKnown ==
  ASSUME PInv, NEW h \in Handlers, StartKnown(h)
  PROVE  PInv'
<1> DEFINE c == handlers[h].claim
<1> DEFINE x == store.starts[c].outcome
<1>1. /\ Starting(h) /\ Only(h, Replied(h)) /\ UNCHANGED <<store, file, effects, sessions, launches>>
      /\ store.starts[c] # NoClaim
      /\ told' = told \/ (x # "claimed" /\ told' = [told EXCEPT ![c] = @ \cup {x}])
  BY Zenon DEF StartKnown
<1>2. /\ c \in Claims /\ c[1] \in store.incoming /\ handlers[h].stage = "request"
      /\ effects' \in Handlers \cup {None}
      /\ minted[c[1]] # Unminted
  BY <1>1, StartingFacts, Zenon DEF PInv, TypeOK
<1>3. /\ handlers' \in [Handlers -> Handler] /\ effects' \in Handlers \cup {None}
      /\ HandlerInv' /\ ConnectionInv'
      /\ EffectsAreAuthorised' /\ OpenConnectionsAreAuthorised' /\ LaunchInv'
      /\ UNCHANGED <<connections, minted, asking, paired, pairedFile>>
  BY <1>1, <1>2, ReplyStep, Zenon
<1>4. x # "none" /\ x \in {"none", "claimed", "accepted", "refused"} /\ \A y \in told[c] : y = x
  BY <1>1, <1>2, Zenon DEF PInv, ClaimInv, TypeOK, Store, Claim
<1> HIDE DEF c, x
<1>5. /\ told' \in [Claims -> SUBSET {"accepted", "refused"}]
      /\ \A d \in Claims \ {c} : told'[d] = told[d]
      /\ told'[c] = told[c] \/ (x \in {"accepted", "refused"} /\ told'[c] = told[c] \cup {x})
  BY <1>1, <1>2, <1>4 DEF PInv, TypeOK
<1>6. TypeOK'
  BY <1>1, <1>3, <1>5, Zenon DEF PInv, TypeOK
<1>7. ClaimInv(store)'
  BY <1>1, <1>2, <1>4, <1>5, Zenon DEF PInv, ClaimInv, c, x
<1>8. ClaimInv(file)' /\ Continues(file)'
  <2>1. c[1] \in file.incoming /\ x \in {"accepted", "refused"} => file.starts[c].outcome = x
    BY <1>2 DEF PInv, Continues, x
  <2>2. ClaimInv(file)'
    BY <1>1, <1>5, <2>1, Zenon DEF PInv, ClaimInv
  <2> QED
    BY <1>1, <2>2, Zenon DEF PInv, Continues
<1>9. OnceInv'
  <2>1. launches' = launches /\ (x = "accepted" => launches[c] = 1)
    BY <1>1, <1>2, Zenon DEF PInv, ClaimInv, x
  <2>2. \A d \in Claims \ {c} :
          /\ launches'[d] <= 1
          /\ "accepted" \in told'[d] => launches'[d] = 1
          /\ \A y, z \in told'[d] : y = z
    BY <1>5, <2>1, Zenon DEF PInv, OnceInv
  <2>3. /\ launches'[c] <= 1
        /\ "accepted" \in told'[c] => launches'[c] = 1
        /\ \A y, z \in told'[c] : y = z
    BY <1>2, <1>4, <1>5, <2>1, Zenon DEF PInv, OnceInv
  <2> QED
    BY <2>2, <2>3, Zenon DEF OnceInv
<1>10. MintInv' /\ IssuerInv'
  BY <1>1, <1>2, <1>3, <1>5, Zenon DEF PInv, MintInv, IssuerInv, GrantsHaveAnIssuer
<1> QED
  BY <1>3, <1>6, <1>7, <1>8, <1>9, <1>10 DEF PInv

\* One handler goes on, and what the invariants ask of it holds of its next state.
LEMMA HandlerStep ==
  ASSUME PInv, NEW h \in Handlers, NEW next \in Handler, Only(h, next),
         next.stage \notin Busy,
         next.stage # "idle" => next.peer \in Endpoints,
         next.stage \in Asked =>
           /\ next.kind \in Kinds /\ next.grant \in Grants
           /\ next.kind # "read" => next.claim \in Claims
           /\ next.kind = "start" => next.claim[1] = next.grant /\ next.workspace \in Workspaces,
         next.open = "yes" /\ next.stage \notin {"idle", "arrived"} =>
           connections[next.peer] = h /\ HasGrant(next.peer),
         UNCHANGED <<store, file, effects, work>>
  PROVE  PInv'
<1>1. /\ handlers' = [handlers EXCEPT ![h] = next]
      /\ UNCHANGED <<connections, minted, asking, paired, pairedFile, sessions, launches, told>>
  BY Zenon DEF Only, admin, work
<1>2. /\ handlers' \in [Handlers -> Handler] /\ handlers'[h] = next
      /\ \A f \in Handlers \ {h} : handlers'[f] = handlers[f]
  BY <1>1, Zenon DEF PInv, TypeOK
<1>3. TypeOK'
  BY <1>1, <1>2, Zenon DEF PInv, TypeOK
<1>4. HandlerInv' /\ ConnectionInv'
  BY <1>1, <1>2, Zenon DEF PInv, HandlerInv, ConnectionInv, Busy, Asked
<1>5. EffectsAreAuthorised' /\ LaunchInv'
  BY <1>1, <1>2, Zenon DEF PInv, EffectsAreAuthorised, LaunchInv, Granted, GrantsOf, Owns, Busy
<1>6. OpenConnectionsAreAuthorised'
  BY <1>1, <1>2, Zenon DEF PInv, OpenConnectionsAreAuthorised, HasGrant, GrantsOf
<1>7. ClaimInv(store)' /\ ClaimInv(file)' /\ Continues(file)' /\ MintInv' /\ OnceInv'
  BY <1>1, Zenon DEF PInv, ClaimInv, Continues, MintInv, OnceInv
<1>8. IssuerInv'
  BY <1>1, Zenon DEF PInv, IssuerInv, GrantsHaveAnIssuer
<1> QED
  BY <1>3, <1>4, <1>5, <1>6, <1>7, <1>8, Zenon DEF PInv

\* An idle handler is a handler.
LEMMA IdleFacts ==
  /\ IdleHandler \in Handler /\ IdleHandler.stage = "idle" /\ IdleHandler.open = "no"
  /\ IdleHandler.stage \notin Busy /\ IdleHandler.stage \notin Asked
  BY Zenon DEF IdleHandler, Handler, Stages, Busy, Asked

\* Arrive.
LEMMA PeersArrive ==
  ASSUME PInv, NEW h \in Handlers, NEW e \in Endpoints, Arrive(h, e)
  PROVE  PInv'
<1> DEFINE next == [IdleHandler EXCEPT !.stage = "arrived", !.peer = e, !.open = "yes"]
<1>1. /\ next \in Handler /\ next.stage = "arrived" /\ next.peer = e
      /\ next.stage \notin Busy /\ next.stage \notin Asked
  BY IdleFacts, Zenon DEF Handler, Stages, Busy, Asked
<1>2. Only(h, next) /\ UNCHANGED <<store, file, effects, work>>
  BY DEF Arrive
<1> HIDE DEF next
<1> QED
  BY <1>1, <1>2, HandlerStep, Zenon

\* Receive.
LEMMA PeersReceive ==
  ASSUME PInv, NEW h \in Handlers, NEW kind \in Kinds, NEW g \in Grants,
         NEW c \in Claims \cup {None}, NEW w \in Workspaces \cup {None}, Receive(h, kind, g, c, w)
  PROVE  PInv'
<1> DEFINE next == [handlers[h] EXCEPT !.stage = "request", !.kind = kind, !.grant = g, !.claim = c,
                                       !.workspace = w]
<1>1. handlers[h] \in Handler /\ handlers[h].stage = "admitted" /\ handlers[h].open = "yes"
  BY DEF PInv, TypeOK, Receive
<1>2. /\ next \in Handler /\ next.stage = "request" /\ next.peer = handlers[h].peer
      /\ next.kind = kind /\ next.grant = g /\ next.claim = c /\ next.workspace = w
      /\ next.open = "yes" /\ next.stage \notin Busy
  BY <1>1, ZenonT(60) DEF Handler, Stages, Kinds, Busy
<1>3. Only(h, next) /\ UNCHANGED <<store, file, effects, work>>
  BY DEF Receive
<1>4. /\ kind # "read" => c \in Claims
      /\ kind = "start" => c[1] = g /\ w \in Workspaces
  BY DEF Receive, Kinds
<1>5. /\ handlers[h].peer \in Endpoints
      /\ connections[handlers[h].peer] = h /\ HasGrant(handlers[h].peer)
  BY <1>1, Zenon DEF PInv, HandlerInv, ConnectionInv, OpenConnectionsAreAuthorised
<1> HIDE DEF next
<1> QED
  BY <1>2, <1>3, <1>4, <1>5, HandlerStep, Zenon

\* Admit: the peer had no connection in the table.
LEMMA PeersAdmit ==
  ASSUME PInv, NEW h \in Handlers, Admit(h)
  PROVE  PInv'
<1> DEFINE e == handlers[h].peer
<1>1. /\ handlers[h].stage = "arrived" /\ handlers[h] \in Handler /\ e \in Endpoints /\ GateFree
      /\ UNCHANGED <<store, file, effects, minted, asking, paired, pairedFile, work>>
  BY DEF Admit, admin, PInv, TypeOK, HandlerInv
<1>2. CASE /\ handlers' = [handlers EXCEPT ![h] = IdleHandler] /\ UNCHANGED connections
  BY <1>1, <1>2, IdleFacts, HandlerStep, Zenon DEF Only, admin
<1>3. CASE /\ HasGrant(e) /\ connections[e] = None
           /\ connections' = [connections EXCEPT ![e] = h]
           /\ handlers' = [handlers EXCEPT ![h].stage = "admitted"]
  <2>1. /\ handlers' \in [Handlers -> Handler]
        /\ handlers'[h].stage = "admitted" /\ handlers'[h].peer = e /\ handlers'[h].open = handlers[h].open
        /\ \A f \in Handlers \ {h} : handlers'[f] = handlers[f]
    BY <1>1, <1>3 DEF PInv, TypeOK, Handler, Stages
  <2>2. /\ connections' \in [Endpoints -> Handlers \cup {None}] /\ connections'[e] = h
        /\ \A d \in Endpoints \ {e} : connections'[d] = connections[d]
    BY <1>1, <1>3 DEF PInv, TypeOK
  <2>3. TypeOK'
    BY <1>1, <2>1, <2>2, Zenon DEF PInv, TypeOK, work
  <2>4. HandlerInv'
    BY <1>1, <2>1, SMTT(30) DEF PInv, HandlerInv, Asked, Busy
  <2>5. ConnectionInv'
    BY <1>1, <1>3, <2>1, <2>2, NameAssumption DEF PInv, HandlerInv, ConnectionInv
  <2>6. EffectsAreAuthorised' /\ LaunchInv'
    BY <1>1, <2>1, GateFreeMeansIdle, Zenon DEF EffectsAreAuthorised, LaunchInv, Busy
  <2>7. OpenConnectionsAreAuthorised'
    BY <1>1, <1>3, <2>1 DEF PInv, OpenConnectionsAreAuthorised, HasGrant, GrantsOf
  <2>8. ClaimInv(store)' /\ ClaimInv(file)' /\ Continues(file)' /\ MintInv' /\ OnceInv' /\ IssuerInv'
    BY <1>1, ZenonT(60) DEF PInv, ClaimInv, Continues, MintInv, OnceInv, IssuerInv, GrantsHaveAnIssuer, work
  <2> QED
    BY <2>3, <2>4, <2>5, <2>6, <2>7, <2>8 DEF PInv
<1> QED
  BY <1>2, <1>3 DEF Admit

\* End: only the handler's own entry leaves the table.
LEMMA PeersEnd ==
  ASSUME PInv, NEW h \in Handlers, End(h)
  PROVE  PInv'
<1>1. /\ handlers' = [handlers EXCEPT ![h] = IdleHandler] /\ handlers[h].stage = "replied"
      /\ connections' = [e \in Endpoints |-> IF connections[e] = h THEN None ELSE connections[e]]
      /\ UNCHANGED <<store, file, effects, minted, asking, paired, pairedFile, sessions, launches, told>>
  BY Zenon DEF End, admin, work
<1>2. /\ handlers' \in [Handlers -> Handler] /\ handlers'[h] = IdleHandler
      /\ \A f \in Handlers \ {h} : handlers'[f] = handlers[f]
  BY <1>1, IdleFacts, Zenon DEF PInv, TypeOK
<1>3. TypeOK'
  BY <1>1, <1>2, Zenon DEF PInv, TypeOK
<1>4. HandlerInv' /\ ConnectionInv'
  BY <1>1, <1>2, IdleFacts, Zenon DEF PInv, HandlerInv, ConnectionInv, Asked, Busy
<1>5. EffectsAreAuthorised' /\ LaunchInv'
  BY <1>1, <1>2, IdleFacts, Zenon DEF PInv, EffectsAreAuthorised, LaunchInv, Granted, GrantsOf, Owns
<1>6. OpenConnectionsAreAuthorised'
  BY <1>1, <1>2, IdleFacts, Zenon DEF PInv, OpenConnectionsAreAuthorised, HasGrant, GrantsOf
<1>7. ClaimInv(store)' /\ ClaimInv(file)' /\ Continues(file)' /\ MintInv' /\ OnceInv' /\ IssuerInv'
  BY <1>1, SMTT(30) DEF PInv, ClaimInv, Continues, MintInv, OnceInv, IssuerInv, GrantsHaveAnIssuer
<1> QED
  BY <1>3, <1>4, <1>5, <1>6, <1>7 DEF PInv

\* A handler that has, or takes, the gate goes on: it keeps its request and its connection.
LEMMA GateStep ==
  ASSUME PInv, NEW h \in Handlers, handlers[h].stage \in {"request", "launching"},
         \A f \in Handlers \ {h} : handlers[f].stage \notin Busy,
         NEW next \in Handler, Only(h, next), next.peer = handlers[h].peer, next.open = handlers[h].open,
         next.kind = handlers[h].kind, next.grant = handlers[h].grant, next.claim = handlers[h].claim,
         next.workspace = handlers[h].workspace, next.stage \in Busy,
         next.stage = "effect" => next.kind \in {"stop", "command"},
         next.stage # "effect" => next.kind = "start",
         next.stage = "launched" => next.outcome # "none",
         effects' = h, store'.incoming = store.incoming
  PROVE  /\ handlers' \in [Handlers -> Handler] /\ handlers'[h] = next
         /\ \A f \in Handlers \ {h} : handlers'[f] = handlers[f]
         /\ HandlerInv' /\ ConnectionInv' /\ OpenConnectionsAreAuthorised'
         /\ UNCHANGED <<connections, minted, asking, paired, pairedFile>>
<1>1. /\ handlers' = [handlers EXCEPT ![h] = next]
      /\ UNCHANGED <<connections, minted, asking, paired, pairedFile>>
  BY Zenon DEF Only, admin
<1>2. /\ handlers' \in [Handlers -> Handler] /\ handlers'[h] = next
      /\ \A f \in Handlers \ {h} : handlers'[f] = handlers[f]
  BY <1>1, Zenon DEF PInv, TypeOK
<1>3. HandlerInv'
  BY <1>2, SMTT(30) DEF PInv, HandlerInv, Asked, Busy
<1>4. ConnectionInv' /\ OpenConnectionsAreAuthorised'
  BY <1>1, <1>2, ZenonT(60) DEF PInv, ConnectionInv, OpenConnectionsAreAuthorised, HasGrant, GrantsOf
<1> QED
  BY <1>1, <1>2, <1>3, <1>4, Zenon

\* Operate: the session is the grant's own.
LEMMA PeersOperate ==
  ASSUME PInv, NEW h \in Handlers, Operate(h)
  PROVE  PInv'
<1> DEFINE next == [handlers[h] EXCEPT !.stage = "effect"]
<1>1. /\ handlers[h].stage = "request" /\ GateFree /\ Granted(h) /\ handlers[h].kind \in {"stop", "command"}
      /\ Owns(handlers[h].grant, handlers[h].claim) /\ effects' = h /\ Only(h, next)
      /\ UNCHANGED <<store, file, sessions, launches, told>>
  BY DEF Operate, Turn, Permitted, work
<1>2. /\ next \in Handler /\ next.stage = "effect" /\ next.stage \in Busy /\ next.peer = handlers[h].peer
      /\ next.open = handlers[h].open /\ next.kind = handlers[h].kind /\ next.grant = handlers[h].grant
      /\ next.claim = handlers[h].claim /\ next.workspace = handlers[h].workspace
  BY SMTT(30) DEF PInv, TypeOK, Handler, Stages, Busy
<1>3. \A f \in Handlers : handlers[f].stage \notin Busy
  BY <1>1, GateFreeMeansIdle
<1> HIDE DEF next
<1>4. /\ handlers' \in [Handlers -> Handler] /\ handlers'[h] = next
      /\ \A f \in Handlers \ {h} : handlers'[f] = handlers[f]
      /\ HandlerInv' /\ ConnectionInv' /\ OpenConnectionsAreAuthorised'
      /\ UNCHANGED <<connections, minted, asking, paired, pairedFile>>
  BY <1>1, <1>2, <1>3, GateStep, Zenon
<1>5. EffectsAreAuthorised' /\ LaunchInv'
  BY <1>1, <1>2, <1>3, <1>4, SMTT(30) DEF EffectsAreAuthorised, LaunchInv, Granted, GrantsOf, Owns, Busy
<1>6. TypeOK'
  BY <1>1, <1>4, Zenon DEF PInv, TypeOK
<1>7. ClaimInv(store)' /\ ClaimInv(file)' /\ Continues(file)' /\ MintInv' /\ OnceInv' /\ IssuerInv'
  BY <1>1, <1>4, Zenon DEF PInv, ClaimInv, Continues, MintInv, OnceInv, IssuerInv, GrantsHaveAnIssuer
<1> QED
  BY <1>4, <1>5, <1>6, <1>7, Zenon DEF PInv

\* StartClaim: nothing was launched for a start without a claim.
LEMMA PeersStartClaim ==
  ASSUME PInv, NEW h \in Handlers, StartClaim(h)
  PROVE  PInv'
<1> DEFINE c == handlers[h].claim
<1> DEFINE s == [store EXCEPT !.starts[c] = [outcome |-> "claimed", workspace |-> handlers[h].workspace]]
<1> DEFINE next == [handlers[h] EXCEPT !.stage = "launching"]
<1>1. /\ Starting(h) /\ store.starts[c] = NoClaim /\ UNCHANGED <<sessions, launches, told>>
      /\ \/ Changed(s) /\ effects' = h /\ Only(h, next)
         \/ ChangeFails(s) /\ Only(h, Replied(h)) /\ UNCHANGED effects
  BY DEF StartClaim, work
<1>2. /\ handlers[h].stage = "request" /\ c \in Claims /\ c[1] \in store.incoming
      /\ handlers[h].workspace \in Workspaces /\ \A f \in Handlers : handlers[f].stage \notin Busy
  BY <1>1, StartingFacts
<1>3. s \in Store /\ ClaimInv(s) /\ Continues(s)
  BY <1>1, <1>2, StoreTypes, StoreClaims, Zenon DEF PInv
<1>4. s.incoming = store.incoming /\ s.starts[c].outcome = "claimed"
  BY <1>2 DEF PInv, TypeOK, Store
<1>5. launches[c] = 0
  BY <1>1, <1>2 DEF PInv, TypeOK, ClaimInv, NoClaim
<1> HIDE DEF s
<1>6. /\ store' \in Store /\ file' \in Store /\ store'.incoming = store.incoming
      /\ ClaimInv(store)' /\ ClaimInv(file)' /\ Continues(file)' /\ (~LateFailure => file' = store')
  BY <1>1, <1>3, <1>4, ChangeStep
<1>7. CASE Changed(s) /\ effects' = h /\ Only(h, next)
  <2>1. /\ next \in Handler /\ next.stage = "launching" /\ next.stage \in Busy /\ next.peer = handlers[h].peer
        /\ next.open = handlers[h].open /\ next.kind = handlers[h].kind /\ next.grant = handlers[h].grant
        /\ next.claim = c /\ next.workspace = handlers[h].workspace
    BY SMTT(30) DEF PInv, TypeOK, Handler, Stages, Busy
  <2> HIDE DEF next
  <2>2. handlers[h].kind = "start" /\ Granted(h)
    BY <1>1, Zenon DEF Starting
  <2>3. /\ handlers' \in [Handlers -> Handler] /\ handlers'[h] = next
        /\ \A f \in Handlers \ {h} : handlers'[f] = handlers[f]
        /\ HandlerInv' /\ ConnectionInv' /\ OpenConnectionsAreAuthorised'
        /\ UNCHANGED <<connections, minted, asking, paired, pairedFile>>
    BY <1>2, <1>6, <1>7, <2>1, <2>2, GateStep, Zenon
  <2>4. store'.starts[c].outcome = "claimed" /\ file'.starts[c].outcome = "claimed"
    BY <1>4, <1>7, Zenon DEF Changed
  <2>5. EffectsAreAuthorised' /\ LaunchInv'
    BY ZenonT(60), <1>1, <1>2, <1>5, <1>6, <1>7, <2>1, <2>2, <2>3, <2>4
    DEF EffectsAreAuthorised, LaunchInv, Granted, GrantsOf, Busy
  <2>6. TypeOK'
    BY <1>1, <1>6, <1>7, <2>3, Zenon DEF PInv, TypeOK
  <2>7. MintInv' /\ OnceInv' /\ IssuerInv'
    BY <1>1, <1>6, <2>3, Zenon DEF PInv, MintInv, OnceInv, IssuerInv, GrantsHaveAnIssuer
  <2> QED
    BY <1>6, <2>3, <2>5, <2>6, <2>7, Zenon DEF PInv
<1>8. CASE ChangeFails(s) /\ Only(h, Replied(h)) /\ UNCHANGED effects
  <2>1. /\ handlers' \in [Handlers -> Handler] /\ effects' \in Handlers \cup {None}
        /\ HandlerInv' /\ ConnectionInv'
        /\ EffectsAreAuthorised' /\ OpenConnectionsAreAuthorised' /\ LaunchInv'
        /\ UNCHANGED <<connections, minted, asking, paired, pairedFile>>
    BY <1>1, <1>2, <1>6, <1>8, ReplyStep DEF PInv, TypeOK
  <2>2. TypeOK'
    BY <1>1, <1>6, <2>1 DEF PInv, TypeOK
  <2>3. MintInv' /\ OnceInv' /\ IssuerInv'
    BY <1>1, <1>6, <2>1 DEF PInv, MintInv, OnceInv, IssuerInv, GrantsHaveAnIssuer
  <2> QED
    BY <1>6, <2>1, <2>2, <2>3, Zenon DEF PInv
<1> QED
  BY <1>1, <1>7, <1>8

\* Launch and LaunchRefused: the claim is on disk, and this is its first launch.
LEMMA PeersLaunch ==
  ASSUME PInv, NEW h \in Handlers, Launch(h) \/ LaunchRefused(h)
  PROVE  PInv'
<1> DEFINE c == handlers[h].claim
<1>1. PICK x \in {"accepted", "refused"}, n \in {0, 1} :
        /\ x = "accepted" => n = 1
        /\ launches' = [launches EXCEPT ![c] = @ + n]
        /\ Only(h, [handlers[h] EXCEPT !.stage = "launched", !.outcome = x])
        /\ sessions' = sessions \/ sessions' = [sessions EXCEPT ![c] = "started"]
        /\ handlers[h].stage = "launching" /\ UNCHANGED <<store, file, effects, told>>
  BY DEF Launch, LaunchRefused
<1> DEFINE next == [handlers[h] EXCEPT !.stage = "launched", !.outcome = x]
<1>2. /\ effects = h /\ Granted(h) /\ store.starts[c].outcome = "claimed"
      /\ \A f \in Handlers \ {h} : handlers[f].stage \notin Busy
  BY <1>1 DEF PInv, EffectsAreAuthorised, Busy
<1>3. /\ handlers[h].kind = "start" /\ c \in Claims /\ c[1] = handlers[h].grant
      /\ handlers[h].peer \in Endpoints
  BY <1>1 DEF PInv, HandlerInv, Asked, Busy
<1>4. minted[c[1]] # Unminted
  BY <1>2, <1>3, NameAssumption, SMTT(30) DEF Granted, GrantsOf, Unminted
<1>5. file.starts[c].outcome = "claimed" /\ launches[c] = 0
  BY <1>1 DEF PInv, LaunchInv
<1>6. /\ launches' \in [Claims -> Nat] /\ launches'[c] = n
      /\ \A d \in Claims \ {c} : launches'[d] = launches[d]
  BY <1>1, <1>3, <1>5 DEF PInv, TypeOK
<1>7. /\ next \in Handler /\ next.stage = "launched" /\ next.stage \in Busy /\ next.peer = handlers[h].peer
      /\ next.open = handlers[h].open /\ next.kind = handlers[h].kind /\ next.grant = handlers[h].grant
      /\ next.claim = c /\ next.workspace = handlers[h].workspace /\ next.outcome = x
  BY ZenonT(60) DEF PInv, TypeOK, Handler, Stages, Busy
<1> HIDE DEF c, next
<1>8. /\ handlers' \in [Handlers -> Handler] /\ handlers'[h] = next
      /\ \A f \in Handlers \ {h} : handlers'[f] = handlers[f]
      /\ HandlerInv' /\ ConnectionInv' /\ OpenConnectionsAreAuthorised'
      /\ UNCHANGED <<connections, minted, asking, paired, pairedFile>>
  <2>1. Only(h, next) /\ next.outcome # "none" /\ next.claim = handlers[h].claim
    BY <1>1, <1>7 DEF next, c
  <2> QED
    BY <1>1, <1>2, <1>3, <1>7, <2>1, GateStep
<1>9. TypeOK'
  <2>1. sessions' \in [Claims -> Live \cup {"none", "stored"}]
    BY <1>1 DEF PInv, TypeOK, Live
  <2> QED
    BY <1>1, <1>6, <1>8, <2>1 DEF PInv, TypeOK
<1>10. EffectsAreAuthorised' /\ LaunchInv'
  BY <1>1, <1>2, <1>5, <1>6, <1>7, <1>8
  DEF EffectsAreAuthorised, LaunchInv, Granted, GrantsOf, Busy
<1>11. ClaimInv(store)' /\ ClaimInv(file)' /\ Continues(file)'
  BY <1>1, <1>2, <1>5, <1>6 DEF PInv, ClaimInv, Continues
<1>12. MintInv' /\ OnceInv' /\ IssuerInv'
  BY <1>1, <1>3, <1>4, <1>5, <1>6, <1>8 DEF PInv, MintInv, OnceInv, IssuerInv, GrantsHaveAnIssuer
<1> QED
  BY <1>8, <1>9, <1>10, <1>11, <1>12 DEF PInv

\* RecordStart: nobody was told anything of a claim without an outcome.
LEMMA PeersRecordStart ==
  ASSUME PInv, NEW h \in Handlers, RecordStart(h)
  PROVE  PInv'
<1> DEFINE c == handlers[h].claim
<1> DEFINE x == handlers[h].outcome
<1> DEFINE s == [store EXCEPT !.starts[c].outcome = x]
<1>1. /\ handlers[h].stage = "launched" /\ Only(h, Replied(h)) /\ effects' = None
      /\ UNCHANGED <<sessions, launches>>
      /\ \/ Changed(s) /\ told' = [told EXCEPT ![c] = @ \cup {x}]
         \/ ChangeFails(s) /\ UNCHANGED told
  BY DEF RecordStart
<1>2. /\ effects = h /\ Granted(h) /\ store.starts[c].outcome = "claimed"
      /\ \A f \in Handlers \ {h} : handlers[f].stage \notin Busy
  BY <1>1 DEF PInv, EffectsAreAuthorised, Busy
<1>3. /\ c \in Claims /\ c[1] = handlers[h].grant /\ handlers[h].peer \in Endpoints
      /\ x \in {"accepted", "refused"}
  BY <1>1 DEF PInv, HandlerInv, Asked, Busy, TypeOK, Handler
<1>4. c[1] \in store.incoming /\ minted[c[1]] # Unminted
  BY <1>2, <1>3, NameAssumption DEF Granted, GrantsOf, Unminted
<1>5. x = "accepted" => launches[c] = 1
  BY <1>1 DEF PInv, LaunchInv
<1>6. s \in Store /\ ClaimInv(s) /\ Continues(s)
  BY <1>2, <1>3, <1>4, <1>5, StoreTypes, StoreClaims, Zenon DEF PInv
<1>7. s.incoming = store.incoming /\ s.starts[c].outcome = x
  BY <1>3 DEF PInv, TypeOK, Store, Claim
<1>8. told[c] = {}
  BY <1>2, <1>3, <1>4, SMTT(30) DEF PInv, ClaimInv, TypeOK
<1> HIDE DEF c, x, s
<1>9. store' \in {store, s} /\ file' \in {file, s} /\ (~LateFailure => file' = store')
  BY <1>1, Zenon DEF Changed, ChangeFails, PInv, IssuerInv
<1>10. /\ handlers' \in [Handlers -> Handler] /\ effects' \in Handlers \cup {None}
       /\ HandlerInv' /\ ConnectionInv'
       /\ EffectsAreAuthorised' /\ OpenConnectionsAreAuthorised' /\ LaunchInv'
       /\ UNCHANGED <<connections, minted, asking, paired, pairedFile>>
  BY <1>1, <1>2, <1>7, <1>9, ReplyStep, Zenon
<1>11. /\ told' \in [Claims -> SUBSET {"accepted", "refused"}]
       /\ \A d \in Claims \ {c} : told'[d] = told[d]
       /\ told'[c] = {} \/ (told'[c] = {x} /\ store' = s /\ file' = s)
  BY <1>1, <1>3, <1>8, SMTT(30) DEF PInv, TypeOK, Changed
<1>12. TypeOK'
  BY <1>1, <1>6, <1>9, <1>10, <1>11, Zenon DEF PInv, TypeOK
<1>13. ClaimInv(store)' /\ ClaimInv(file)'
  BY <1>1, <1>6, <1>7, <1>9, <1>11, SMTT(30) DEF PInv, ClaimInv
<1>14. Continues(file)'
  BY <1>1, <1>6, Zenon DEF PInv, Continues, Changed, ChangeFails
<1>15. MintInv' /\ OnceInv'
  BY <1>1, <1>3, <1>4, <1>5, <1>10, <1>11, SMTT(30) DEF PInv, MintInv, OnceInv
<1>16. IssuerInv'
  BY <1>7, <1>9, <1>10, Zenon DEF PInv, IssuerInv, GrantsHaveAnIssuer
<1> QED
  BY <1>10, <1>12, <1>13, <1>14, <1>15, <1>16 DEF PInv

\* Restart: memory is what the files are.
LEMMA PeersRestart ==
  ASSUME PInv, Restart
  PROVE  PInv'
<1>1. /\ store' = file /\ effects' = None /\ connections' = [e \in Endpoints |-> None]
      /\ handlers' = [h \in Handlers |-> IdleHandler] /\ asking' = {} /\ paired' = pairedFile
      /\ UNCHANGED <<file, minted, pairedFile, launches, told>>
  BY DEF Restart
<1>2. sessions' \in [Claims -> Live \cup {"none", "stored"}]
  BY DEF Restart, PInv, TypeOK
<1>3. TypeOK'
  BY <1>1, <1>2, IdleFacts, Zenon DEF PInv, TypeOK
<1>4. /\ HandlerInv' /\ ConnectionInv' /\ EffectsAreAuthorised' /\ OpenConnectionsAreAuthorised'
      /\ LaunchInv'
  BY Zenon, <1>1, IdleFacts
  DEF HandlerInv, ConnectionInv, EffectsAreAuthorised, OpenConnectionsAreAuthorised, LaunchInv, Asked, Busy
<1>5. ClaimInv(store)' /\ ClaimInv(file)' /\ Continues(file)' /\ MintInv' /\ OnceInv' /\ IssuerInv'
  BY <1>1, Zenon DEF PInv, ClaimInv, Continues, MintInv, OnceInv, IssuerInv, GrantsHaveAnIssuer
<1> QED
  BY <1>3, <1>4, <1>5 DEF PInv
-----------------------------------------------------------------------------
\* PInv is inductive.
LEMMA PeersNext == PInv /\ [Next]_vars => PInv'
<1> SUFFICES ASSUME PInv, [Next]_vars PROVE PInv'
  OBVIOUS
<1>1. ASSUME NEW i \in Phones \cup {Host}, AskGrant(i) \/ DropGrant(i) PROVE PInv'
  BY <1>1, PeersAside, Zenon DEF AskGrant, DropGrant, work, PInv, TypeOK
<1>2. ASSUME NEW i \in Phones, Pair(i) PROVE PInv'
  BY <1>2, PeersAside, Zenon DEF Pair, work, PInv, TypeOK
<1>3. ASSUME NEW c \in Claims, WorkerEnds(c) \/ Resume(c) PROVE PInv'
  <2>1. sessions' \in [Claims -> Live \cup {"none", "stored"}]
    BY <1>3, Zenon DEF WorkerEnds, Resume, PInv, TypeOK, Live
  <2> QED
    BY <1>3, <2>1, PeersAside, Zenon DEF WorkerEnds, Resume, admin, PInv, TypeOK
<1>4. CASE UNCHANGED vars
  BY <1>4, PeersAside, Zenon DEF vars, admin, work, PInv, TypeOK
<1>5. CASE Administer
  BY <1>1, <1>2, <1>5, PeersGrant, PeersRevoke, PeersUnpair, PeersUnpairFails DEF Administer
<1>6. ASSUME NEW h \in Handlers, Serve(h) PROVE PInv'
  BY <1>6, PeersArrive, PeersAdmit, PeersReceive, PeersReply, PeersEnd, Zenon DEF Serve
<1>7. ASSUME NEW h \in Handlers, Execute(h) PROVE PInv'
  BY <1>7, PeersReply, PeersStartKnown, PeersStartClaim, PeersLaunch, PeersRecordStart, PeersOperate
  DEF Execute
<1> QED
  BY <1>3, <1>4, <1>5, <1>6, <1>7, PeersRestart DEF Next

\* PInv holds in every reachable state.
LEMMA PeersInvariant == Spec => []PInv
<1> QED
  BY PeersInit, PeersNext, PTL DEF Spec

\* A start request launches a worker at most once: over retries, failed saves (also those that
\* fail after the file was replaced), deadlines, revocations and restarts.
THEOREM StartLaunchesOnce == Spec => []LaunchedOnce
<1>1. PInv => LaunchedOnce
  BY DEF PInv, OnceInv, LaunchedOnce
<1> QED
  BY <1>1, PeersInvariant, PTL

\* No two answers to one start differ, and an accepted one is the one that launched.
THEOREM StartAnswersAgree == Spec => []AnswersAgree
<1>1. ASSUME PInv, NEW c \in Claims PROVE Cardinality(told[c]) <= 1
  <2>1. CASE told[c] = {}
    BY <2>1, FS_EmptySet
  <2>2. ASSUME NEW x \in told[c] PROVE Cardinality(told[c]) <= 1
    <3>1. told[c] = {x}
      BY <1>1 DEF PInv, OnceInv
    <3>2. Cardinality({x}) = 1
      BY FS_Singleton
    <3> QED
      BY <3>1, <3>2
  <2> QED
    BY <2>1, <2>2
<1>2. PInv => AnswersAgree
  BY <1>1, Zenon DEF PInv, OnceInv, AnswersAgree
<1> QED
  BY <1>2, PeersInvariant, PTL

\* A start that was answered with success stays the grant's own for as long as the grant exists.
THEOREM AcceptedIsOwned == Spec => []AcceptedStaysOwned
<1>1. PInv => AcceptedStaysOwned
  BY Zenon DEF PInv, ClaimInv, AcceptedStaysOwned, Owns
<1> QED
  BY <1>1, PeersInvariant, PTL

\* Whatever a peer makes this host do is done under a grant that is still there.
THEOREM EffectsHaveAGrant == Spec => []EffectsAreAuthorised
<1> QED
  BY PeersInvariant, PTL DEF PInv

\* An admitted connection that was not closed belongs to a peer with a grant.
THEOREM ConnectionsHaveAGrant == Spec => []OpenConnectionsAreAuthorised
<1> QED
  BY PeersInvariant, PTL DEF PInv

\* Where a save that fails leaves its file as it was, no grant outlives the pairing of the
\* phone that issued it.  (A grant whose save failed late is on disk only: unpairing does not
\* see it, and a restart brings it back.)
THEOREM GrantsEndWithTheirIssuer ==
  ASSUME ~LateFailure
  PROVE  Spec => []GrantsHaveAnIssuer
<1>1. PInv => GrantsHaveAnIssuer
  BY DEF PInv, IssuerInv
<1> QED
  BY <1>1, PeersInvariant, PTL
=============================================================================
