--------------------------- MODULE PairingProofs ---------------------------
(* Proofs about pairing, for any number of phones, handlers and offers.     *)
EXTENDS Pairing, TLAPS

Active == {"claimed", "commit", "persisted"}

\* A handler past its request knows an offer and a device.
StreamInv ==
  \A s \in Streams : streams[s].stage # "idle" => streams[s].id \in Ids /\ streams[s].device \in Devices

\* An offer under validation is held by one handler, and a handler that works on a
\* claim either holds it or has lost it to a withdrawal.
ClaimInv ==
  /\ \A id \in Ids : offers[id].state = "validating" =>
       /\ offers[id].token \in Streams
       /\ streams[offers[id].token].stage \in Active
       /\ streams[offers[id].token].id = id
  /\ \A s \in Streams : streams[s].stage \in Active =>
       /\ offers[streams[s].id].state \in {"validating", "rejected", "forgotten"}
       /\ offers[streams[s].id].state = "validating" => offers[streams[s].id].token = s
       /\ offers[streams[s].id].state # "forgotten" => streams[s].expires = ExpiresAt(streams[s].id)
       /\ streams[s].stage = "persisted" => streams[s].now < streams[s].expires
  /\ \A s, t \in Streams :
       s # t /\ streams[s].stage \in Active /\ streams[t].stage \in Active => streams[s].id # streams[t].id

\* An offer some device was paired through is not open, nor about to be used again.
UsedInv ==
  /\ \A d \in Devices : devices[d] # None =>
       /\ offers[devices[d]].state \notin {"unminted", "pending"}
       /\ \A s \in Streams : streams[s].stage \in {"claimed", "commit"} => streams[s].id # devices[d]
  /\ \A d \in Devices : disk[d] # None => offers[disk[d]].state # "unminted"

PInv ==
  TypeOK /\ CurrentIsTheLiveOffer /\ StreamInv /\ ClaimInv /\ UsedInv /\ OneUse /\ RefusedOnlyIfWithdrawn

\* The initial state.
LEMMA PairingInit == Init => PInv
<1> SUFFICES ASSUME Init PROVE PInv
  OBVIOUS
<1>1. TypeOK
  <2>1. Unminted \in Offer /\ IdleStream \in Stream /\ Unminted.token = None /\ Unminted.state = "unminted"
    BY ClockAssumption DEF Unminted, NewOffer, Offer, OfferStates, IdleStream, Stream, Stages
  <2> QED
    BY <2>1, ClockAssumption DEF Init, TypeOK
<1>2. CurrentIsTheLiveOffer
  BY NoneAssumption DEF Init, CurrentIsTheLiveOffer, Unminted, NewOffer, Live
<1>3. StreamInv /\ ClaimInv /\ RefusedOnlyIfWithdrawn
  BY DEF Init, StreamInv, ClaimInv, RefusedOnlyIfWithdrawn, Unminted, NewOffer, IdleStream, Active
<1>4. UsedInv /\ OneUse
  BY DEF Init, UsedInv, OneUse
<1> QED
  BY <1>1, <1>2, <1>3, <1>4 DEF PInv

\* Changing some fields of an offer leaves an offer.
LEMMA OfferUpdate ==
  ASSUME TypeOK, NEW id \in Ids, NEW state \in OfferStates, NEW token \in Streams \cup {None},
         NEW device \in Devices \cup {None}
  PROVE  /\ [offers[id] EXCEPT !.state = state] \in Offer
         /\ [offers[id] EXCEPT !.state = state, !.token = token] \in Offer
         /\ [offers[id] EXCEPT !.state = state, !.token = token, !.device = device] \in Offer
         /\ [offers[id] EXCEPT !.connected = TRUE] \in Offer
  BY ZenonT(30) DEF TypeOK, Offer

\* The same for a handler that goes on to another stage.
LEMMA StreamUpdate ==
  ASSUME TypeOK, NEW s \in Streams, NEW stage \in Stages,
         streams' = [streams EXCEPT ![s].stage = stage]
  PROVE  /\ streams' \in [Streams -> Stream] /\ \A t \in Streams : t # s => streams'[t] = streams[t]
         /\ streams'[s].stage = stage /\ streams'[s].id = streams[s].id /\ streams'[s].device = streams[s].device
         /\ streams'[s].now = streams[s].now /\ streams'[s].expires = streams[s].expires
<1>1. [streams[s] EXCEPT !.stage = stage] \in Stream
  BY DEF TypeOK, Stream
<1> QED
  BY <1>1 DEF TypeOK, Stream

\* Absent offers and idle handlers.
LEMMA EmptyTypes ==
  /\ \A state \in OfferStates, t \in 0..MaxTime : NewOffer(state, t) \in Offer
  /\ Unminted \in Offer /\ Forgotten \in Offer /\ IdleStream \in Stream
  BY ClockAssumption DEF NewOffer, Unminted, Forgotten, Offer, OfferStates, IdleStream, Stream, Stages

\* create.  The code it replaces is rejected, and the new one is not in use yet.
LEMMA PairingCreate ==
  ASSUME PInv, NEW id \in Ids, Create(id)
  PROVE  PInv'
<1>0. PICK kept, fresh : kept = Cleanup /\ fresh = NewOffer("pending", now)
  OBVIOUS
<1> DEFINE busy == current # None /\ kept[current].state = "validating"
<1>1. /\ offers \in [Ids -> Offer] /\ now \in 0..MaxTime
      /\ offers[id].state = "unminted" /\ UNCHANGED <<disclosed, streams, devices, disk, now>>
  BY DEF PInv, TypeOK, Create
<1>2. /\ fresh \in Offer /\ fresh.state = "pending" /\ fresh.token = None
      /\ Forgotten \in Offer /\ Forgotten.state = "forgotten" /\ Forgotten.token = None
  BY <1>0, <1>1, EmptyTypes DEF NewOffer, Forgotten, OfferStates
<1>3. \A i \in Ids :
        \/ kept[i].state = offers[i].state /\ kept[i].token = offers[i].token /\ kept[i].created = offers[i].created
        \/ kept[i].state = "forgotten" /\ kept[i].token = None /\ offers[i].state # "unminted"
  BY <1>0, <1>2 DEF Cleanup, Outlived, Known
<1>4. kept \in [Ids -> Offer]
  BY <1>0, <1>1, <1>2 DEF Cleanup
<1>5. CASE busy
  <2>1. offers' = kept /\ UNCHANGED <<current, encoding>>
    BY <1>0, <1>5 DEF Create
  <2>2. \A i \in Ids :
          \/ /\ offers'[i].state = offers[i].state /\ offers'[i].token = offers[i].token
             /\ offers'[i].created = offers[i].created
          \/ /\ offers'[i].state = "forgotten" /\ offers'[i].token = None
             /\ offers[i].state # "unminted" /\ i # current
    BY <1>3, <1>5, <2>1
  <2>3. TypeOK'
    BY <1>1, <1>2, <1>4, <2>1, <2>2 DEF PInv, TypeOK
  <2>4. CurrentIsTheLiveOffer'
    BY <1>2, <2>1, <2>2 DEF PInv, CurrentIsTheLiveOffer, Live
  <2>5. StreamInv' /\ OneUse' /\ RefusedOnlyIfWithdrawn'
    BY <1>1, <1>2, <2>2 DEF PInv, StreamInv, OneUse, RefusedOnlyIfWithdrawn
  <2>6. ClaimInv'
    BY <1>1, <1>2, <2>2 DEF PInv, StreamInv, ClaimInv, ExpiresAt, Active
  <2>7. UsedInv'
    BY <1>1, <1>2, <2>2 DEF PInv, UsedInv, TypeOK
  <2> QED
    BY <2>3, <2>4, <2>5, <2>6, <2>7 DEF PInv
<1>6. CASE ~busy
  <2>0. PICK sup : sup = Superseded(kept)
    OBVIOUS
  <2>1. /\ offers' = [sup EXCEPT ![id] = fresh] /\ current' = id
        /\ encoding' = encoding \cup {id}
    BY <1>0, <1>6, <2>0 DEF Create
  <2>2. sup \in [Ids -> Offer]
    BY <1>4, <2>0 DEF Superseded, Offer, OfferStates
  <2>3. ASSUME NEW i \in Ids
        PROVE  /\ \/ sup[i].state = kept[i].state
                  \/ sup[i].state = "rejected" /\ kept[i].state = "pending"
               /\ sup[i].token = kept[i].token /\ sup[i].created = kept[i].created
               /\ i = current => sup[i].state # "pending"
    <3>1. CASE i = current /\ kept[i].state = "pending"
      <4>1. sup[i] = [kept[i] EXCEPT !.state = "rejected"] /\ kept[i] \in Offer
        BY <1>4, <2>0, <3>1 DEF Superseded
      <4> QED
        BY <3>1, <4>1 DEF Offer
    <3>2. CASE ~(i = current /\ kept[i].state = "pending")
      BY <2>0, <3>2 DEF Superseded
    <3> QED
      BY <3>1, <3>2
  <2>4. \A i \in Ids \ {id} :
          /\ offers'[i].state \in {offers[i].state, "rejected", "forgotten"}
          /\ offers'[i].state = "rejected" => offers[i].state \in {"pending", "rejected"}
          /\ offers'[i].state = "forgotten" => offers[i].state # "unminted"
          /\ offers'[i].state # "forgotten" => offers'[i].token = offers[i].token /\ offers'[i].created = offers[i].created
          /\ offers'[i].state \notin {"validating", "pending"}
    <3>1. \A i \in Ids : offers[i].state \in {"validating", "pending"} => i = current
      BY DEF PInv, CurrentIsTheLiveOffer, Live
    <3>2. \A i \in Ids \ {id} : /\ offers'[i].state = sup[i].state /\ offers'[i].token = sup[i].token
                                /\ offers'[i].created = sup[i].created
      BY <2>1, <2>2
    <3>3. \A i \in Ids : i = current => kept[i].state # "validating"
      BY <1>6, NoneAssumption
    <3> HIDE DEF busy
    <3> SUFFICES ASSUME NEW i \in Ids, i # id
                 PROVE  /\ offers'[i].state \in {offers[i].state, "rejected", "forgotten"}
                        /\ offers'[i].state = "rejected" => offers[i].state \in {"pending", "rejected"}
                        /\ offers'[i].state = "forgotten" => offers[i].state # "unminted"
                        /\ offers'[i].state # "forgotten" =>
                             offers'[i].token = offers[i].token /\ offers'[i].created = offers[i].created
                        /\ offers'[i].state \notin {"validating", "pending"}
      OBVIOUS
    <3>4. offers'[i].state = sup[i].state /\ offers'[i].token = sup[i].token /\ offers'[i].created = sup[i].created
      BY <3>2
    <3>5. CASE kept[i].state = "forgotten" /\ offers[i].state # "unminted"
      BY <2>3, <3>4, <3>5
    <3>6. CASE kept[i].state = offers[i].state /\ kept[i].token = offers[i].token /\ kept[i].created = offers[i].created
      BY <2>3, <3>1, <3>3, <3>4, <3>6
    <3> QED
      BY <1>3, <3>5, <3>6
  <2>5. offers'[id] = fresh /\ offers' \in [Ids -> Offer]
    BY <1>2, <2>1, <2>2
  <2>6. TypeOK'
    <3>1. \A i \in Ids : offers'[i].token # None <=> offers'[i].state = "validating"
      <4>1. ASSUME NEW i \in Ids, i # id PROVE offers'[i].token = None
        <5>1. offers'[i].state = sup[i].state /\ offers'[i].token = sup[i].token
          BY <2>1, <2>2, <4>1
        <5>2. offers[i].token # None => offers[i].state = "validating"
          BY DEF PInv, TypeOK
        <5>3. offers'[i].token = kept[i].token /\ offers'[i].state # "validating"
          BY <2>3, <2>4, <4>1, <5>1
        <5>4. kept[i].token # None => offers'[i].state = "validating"
          BY <1>3, <2>3, <5>1, <5>2
        <5> QED
          BY <5>3, <5>4
      <4> QED
        BY <1>2, <2>4, <2>5, <4>1
    <3> QED
      BY <1>1, <2>1, <2>5, <3>1 DEF PInv, TypeOK
  <2>7. CurrentIsTheLiveOffer'
    BY <1>2, <2>1, <2>4, <2>5 DEF CurrentIsTheLiveOffer, Live
  <2>8. \A s \in Streams : streams[s].stage \in Active \/ streams[s].stage = "refused" => streams[s].id \in Ids \ {id}
    BY <1>1 DEF PInv, ClaimInv, StreamInv, RefusedOnlyIfWithdrawn, Active
  <2>9. StreamInv' /\ OneUse' /\ RefusedOnlyIfWithdrawn'
    BY <1>1, <2>4, <2>8 DEF PInv, StreamInv, OneUse, RefusedOnlyIfWithdrawn
  <2>10. ClaimInv'
    BY <1>1, <1>2, <2>4, <2>5, <2>8 DEF PInv, StreamInv, ClaimInv, ExpiresAt
  <2>11. UsedInv'
    BY <1>1, <1>2, <2>4, <2>5 DEF PInv, UsedInv, TypeOK
  <2> QED
    BY <2>6, <2>7, <2>9, <2>10, <2>11 DEF PInv
<1> QED
  BY <1>5, <1>6

\* Steps that touch neither an offer nor a claim.
LEMMA PairingQuiet ==
  ASSUME PInv,
         \/ \E id \in Ids : ShowQr(id)
         \/ \E s \in Streams, d \in Devices, id \in Ids, proof \in BOOLEAN : Request(s, d, id, proof)
         \/ \E d \in Devices : Unpair(d)
         \/ Tick \/ UNCHANGED vars
  PROVE  PInv'
<1>1. ASSUME NEW id \in Ids, ShowQr(id) PROVE PInv'
  BY <1>1 DEF ShowQr, PInv, TypeOK, CurrentIsTheLiveOffer, StreamInv, ClaimInv, UsedInv, OneUse,
              RefusedOnlyIfWithdrawn, ExpiresAt
<1>2. CASE Tick \/ UNCHANGED vars
  BY <1>2, SMTT(30) DEF Tick, vars, PInv, TypeOK, CurrentIsTheLiveOffer, StreamInv, ClaimInv, UsedInv, OneUse,
              RefusedOnlyIfWithdrawn, ExpiresAt
<1>3. ASSUME NEW s \in Streams, NEW d \in Devices, NEW id \in Ids, NEW proof \in BOOLEAN, Request(s, d, id, proof)
      PROVE  PInv'
  <2>1. PICK new : new = [stage |-> "request", id |-> id, device |-> d, proof |-> proof, now |-> now, expires |-> 0]
    BY Zenon
  <2>2. /\ new \in Stream /\ new.stage = "request" /\ new.id = id /\ new.device = d
    BY <2>1, ClockAssumption DEF Stream, Stages, PInv, TypeOK
  <2>3. UNCHANGED <<offers, current, encoding, disclosed, devices, disk, now>> /\ streams' = [streams EXCEPT ![s] = new]
    BY <1>3, <2>1 DEF Request
  <2>4. streams'[s] = new /\ (\A t \in Streams : t # s => streams'[t] = streams[t]) /\ streams[s].stage = "idle"
    BY <1>3, <2>3 DEF Request, PInv, TypeOK
  <2>5. TypeOK' /\ StreamInv'
    BY <2>2, <2>3, <2>4 DEF PInv, TypeOK, StreamInv
  <2>6. CurrentIsTheLiveOffer' /\ OneUse'
    BY <2>3 DEF PInv, CurrentIsTheLiveOffer, OneUse
  <2>7. ClaimInv'
    BY <2>2, <2>3, <2>4, SMTT(30) DEF PInv, ClaimInv, Active, ExpiresAt
  <2>8. UsedInv' /\ RefusedOnlyIfWithdrawn'
    BY <2>2, <2>3, <2>4 DEF PInv, UsedInv, RefusedOnlyIfWithdrawn
  <2> QED
    BY <2>5, <2>6, <2>7, <2>8 DEF PInv
<1>4. ASSUME NEW d \in Devices, Unpair(d) PROVE PInv'
  <2>1. UNCHANGED <<offers, current, encoding, disclosed, streams, now>>
    BY <1>4 DEF Unpair
  <2>2. PICK updated : updated = [devices EXCEPT ![d] = None]
    BY Zenon
  <2>3. /\ updated \in [Devices -> Ids \cup {None}]
        /\ \A e \in Devices : updated[e] = devices[e] \/ updated[e] = None
    BY <2>2 DEF PInv, TypeOK
  <2>4. (devices' = updated /\ disk' = updated) \/ (devices' = devices /\ (disk' = disk \/ disk' = updated))
    BY <1>4, <2>2 DEF Unpair
  <2>5. OneUse'
    BY <2>3, <2>4 DEF PInv, OneUse
  <2>6. UsedInv'
    BY <2>1, <2>3, <2>4 DEF PInv, UsedInv
  <2>7. TypeOK' /\ CurrentIsTheLiveOffer' /\ StreamInv' /\ ClaimInv' /\ RefusedOnlyIfWithdrawn'
    BY <2>1, <2>3, <2>4 DEF PInv, TypeOK, CurrentIsTheLiveOffer, StreamInv, ClaimInv, RefusedOnlyIfWithdrawn, ExpiresAt
  <2> QED
    BY <2>5, <2>6, <2>7 DEF PInv
<1> QED
  BY <1>1, <1>2, <1>3, <1>4

\* A restart forgets the offers and the handlers; what the file says is in use.
LEMMA PairingRestart ==
  ASSUME PInv, Restart
  PROVE  PInv'
<1>1. /\ current' = None /\ encoding' = {} /\ devices' = disk /\ UNCHANGED <<disclosed, disk, now>>
      /\ streams' = [s \in Streams |-> IdleStream]
  BY DEF Restart
<1>2. /\ offers' \in [Ids -> Offer]
      /\ \A id \in Ids : offers'[id].token = None /\ (offers'[id].state = "forgotten" \/ offers'[id].state = "unminted")
      /\ \A id \in Ids : offers[id].state # "unminted" => offers'[id].state = "forgotten"
  BY EmptyTypes DEF Restart, Unminted, Forgotten, NewOffer
<1>3. IdleStream \in Stream /\ IdleStream.stage = "idle"
  BY EmptyTypes DEF IdleStream
<1>4. \A s \in Streams : streams'[s].stage = "idle"
  BY <1>1, <1>3
<1>5. TypeOK'
  BY <1>1, <1>2, <1>3 DEF PInv, TypeOK
<1>6. CurrentIsTheLiveOffer'
  BY <1>1, <1>2, NoneAssumption DEF CurrentIsTheLiveOffer, Live
<1>7. StreamInv' /\ ClaimInv' /\ RefusedOnlyIfWithdrawn'
  BY <1>2, <1>4 DEF StreamInv, ClaimInv, RefusedOnlyIfWithdrawn, Active
<1>8. UsedInv'
  BY <1>1, <1>2, <1>4 DEF PInv, UsedInv, TypeOK
<1>9. OneUse'
  BY <1>1 DEF PInv, OneUse
<1> QED
  BY <1>5, <1>6, <1>7, <1>8, <1>9 DEF PInv

\* An offer that is pending or under validation is withdrawn or expires, while the
\* handlers stay where they are.
LEMMA PairingWithdraw ==
  ASSUME PInv, \E id \in Ids : RejectCurrent(id) \/ Status(id)
  PROVE  PInv'
<1>1. UNCHANGED <<disclosed, streams, devices, disk, now>> /\ encoding' \subseteq encoding
  BY DEF RejectCurrent, Status
<1>2. offers' \in [Ids -> Offer]
  <2>1. ASSUME NEW id \in Ids, RejectCurrent(id) PROVE offers' \in [Ids -> Offer]
    BY <2>1, OfferUpdate, ZenonT(30) DEF RejectCurrent, Withdrawn, PInv, TypeOK, OfferStates
  <2>2. ASSUME NEW id \in Ids, Status(id) PROVE offers' \in [Ids -> Offer]
    BY <2>2, OfferUpdate, Zenon DEF Status, PInv, TypeOK, OfferStates
  <2> QED
    BY <2>1, <2>2
<1>3. /\ current' = None \/ current' = current
      /\ \A i \in Ids :
           \/ /\ offers'[i].state = offers[i].state /\ offers'[i].token = offers[i].token
              /\ offers'[i].created = offers[i].created /\ (i = current <=> i = current')
           \/ /\ i = current /\ current' = None /\ offers'[i].token = None /\ offers'[i].created = offers[i].created
              /\ \/ offers'[i].state = "rejected"
                 \/ offers'[i].state = "expired" /\ offers[i].state = "pending"
  <2>1. ASSUME NEW id \in Ids, RejectCurrent(id), NEW i \in Ids
        PROVE  /\ current' = None
               /\ \/ /\ offers'[i].state = offers[i].state /\ offers'[i].token = offers[i].token
                     /\ offers'[i].created = offers[i].created /\ i # current
                  \/ /\ i = current /\ offers'[i].token = None /\ offers'[i].created = offers[i].created
                     /\ offers'[i].state = "rejected"
    <3>1. offers[i].state \in Known \/ i # current
      BY DEF PInv, CurrentIsTheLiveOffer, Live, Known
    <3>2. CASE i = current
      <4>1. offers'[i] = Withdrawn(offers[i])
        BY <2>1, <3>1, <3>2 DEF RejectCurrent
      <4>2. offers[i] \in Offer
        BY DEF PInv, TypeOK
      <4> QED
        BY <2>1, <3>2, <4>1, <4>2, Zenon DEF RejectCurrent, Withdrawn, Offer
    <3>3. CASE i # current
      BY <2>1, <3>3 DEF RejectCurrent
    <3> QED
      BY <3>2, <3>3
  <2>2. ASSUME NEW id \in Ids, Status(id)
        PROVE  /\ id = current /\ current' = None /\ offers[id].state = "pending"
               /\ offers'[id].state = "expired" /\ offers'[id].token = None /\ offers'[id].created = offers[id].created
               /\ \A i \in Ids : i # id => offers'[i] = offers[i]
    <3>1. offers \in [Ids -> Offer] /\ offers[id] \in Offer /\ offers[id].state = "pending"
      BY <2>2 DEF Status, PInv, TypeOK
    <3>2. offers[id].token = None /\ id = current
      BY <3>1 DEF PInv, TypeOK, CurrentIsTheLiveOffer, Live
    <3> QED
      BY <2>2, <3>1, <3>2 DEF Status, Offer
  <2>3. CASE \E id \in Ids : RejectCurrent(id)
    BY <2>1, <2>3, NoneAssumption DEF RejectCurrent
  <2>4. CASE \E id \in Ids : Status(id)
    BY <2>2, <2>4, NoneAssumption
  <2> QED
    BY <2>3, <2>4
<1>4. TypeOK'
  <2>1. ASSUME NEW i \in Ids PROVE offers'[i].token # None <=> offers'[i].state = "validating"
    BY <1>3 DEF PInv, TypeOK
  <2>2. current' \in Ids \cup {None}
    BY <1>3 DEF PInv, TypeOK
  <2> QED
    BY <1>1, <1>2, <2>1, <2>2 DEF PInv, TypeOK
<1>5. CurrentIsTheLiveOffer'
  BY <1>3, NoneAssumption DEF PInv, CurrentIsTheLiveOffer, Live
<1>6. \A i \in Ids : i = current => offers[i].state = "pending" \/ offers[i].state = "validating"
  BY DEF PInv, CurrentIsTheLiveOffer, Live
<1>7. StreamInv' /\ OneUse' /\ RefusedOnlyIfWithdrawn'
  BY <1>1, <1>3, <1>6 DEF PInv, StreamInv, OneUse, RefusedOnlyIfWithdrawn
<1>8. ClaimInv'
  <2>1. ASSUME NEW i \in Ids, offers'[i].state = "validating"
        PROVE  offers'[i].state = offers[i].state /\ offers'[i].token = offers[i].token
    BY <1>3, <2>1
  <2>2. ASSUME NEW s \in Streams, streams[s].stage \in Active
        PROVE  /\ offers'[streams[s].id].state \in {"validating", "rejected", "forgotten"}
               /\ offers'[streams[s].id].state = "validating" => offers'[streams[s].id].token = s
               /\ offers'[streams[s].id].state # "forgotten" => streams[s].expires = offers'[streams[s].id].created + Lifetime
    <3>1. PICK i \in Ids : i = streams[s].id
      BY <2>2 DEF PInv, StreamInv, Active
    <3>2. /\ offers[i].state \in {"validating", "rejected", "forgotten"}
          /\ offers[i].state = "validating" => offers[i].token = s
          /\ offers[i].state # "forgotten" => streams[s].expires = offers[i].created + Lifetime
      BY <2>2, <3>1 DEF PInv, ClaimInv, ExpiresAt
    <3>3. CASE offers'[i].state = offers[i].state /\ offers'[i].token = offers[i].token /\ offers'[i].created = offers[i].created
      BY <3>1, <3>2, <3>3
    <3>4. CASE i = current /\ offers'[i].created = offers[i].created /\ offers'[i].state = "rejected"
      BY <1>6, <3>1, <3>2, <3>4
    <3> QED
      BY <1>3, <3>2, <3>3, <3>4
  <2> QED
    BY <1>1, <2>1, <2>2 DEF PInv, ClaimInv, ExpiresAt
<1>9. UsedInv'
  BY <1>1, <1>3 DEF PInv, UsedInv, TypeOK
<1> QED
  BY <1>4, <1>5, <1>7, <1>8, <1>9 DEF PInv

\* A handler that works on no claim returns.
LEMMA PairingEnd ==
  ASSUME PInv, NEW s \in Streams, streams[s].stage \notin Active,
         streams' = [streams EXCEPT ![s] = IdleStream],
         UNCHANGED <<offers, current, encoding, disclosed, devices, disk, now>>
  PROVE  PInv'
<1>1. IdleStream \in Stream /\ IdleStream.stage = "idle"
  BY EmptyTypes DEF IdleStream
<1>2. streams'[s].stage = "idle" /\ \A t \in Streams : t # s => streams'[t] = streams[t]
  BY <1>1 DEF PInv, TypeOK
<1>3. TypeOK'
  BY <1>1 DEF PInv, TypeOK
<1>4. ClaimInv'
  BY <1>2 DEF PInv, ClaimInv, ExpiresAt, Active
<1>5. CurrentIsTheLiveOffer' /\ StreamInv' /\ UsedInv' /\ OneUse' /\ RefusedOnlyIfWithdrawn'
  BY <1>2 DEF PInv, CurrentIsTheLiveOffer, StreamInv, UsedInv, OneUse, RefusedOnlyIfWithdrawn
<1> QED
  BY <1>3, <1>4, <1>5 DEF PInv

\* claim.  Only a pending offer is claimed, so no handler and no device has it.
LEMMA PairingClaim ==
  ASSUME PInv, NEW s \in Streams, Claim(s)
  PROVE  PInv'
<1>1. PICK id \in Ids : id = streams[s].id
  BY DEF Claim, PInv, StreamInv
<1>2. /\ streams[s].stage = "request" /\ UNCHANGED <<encoding, disclosed, devices, disk, now>>
      /\ offers \in [Ids -> Offer] /\ streams \in [Streams -> Stream] /\ offers[id] \in Offer /\ streams[s] \in Stream
  BY DEF Claim, PInv, TypeOK
<1>3. \A t \in Streams : streams[t].stage \in Active => offers[streams[t].id].state # "pending"
  BY DEF PInv, ClaimInv
<1>4. CASE /\ offers[id].state = "pending"
           /\ offers' = [offers EXCEPT ![id].state = "validating", ![id].token = s]
           /\ streams' = [streams EXCEPT ![s].stage = "claimed", ![s].expires = ExpiresAt(id)]
           /\ UNCHANGED current
  <2>1. /\ offers'[id].state = "validating" /\ offers'[id].token = s /\ offers'[id].created = offers[id].created
        /\ \A i \in Ids : i # id => offers'[i] = offers[i]
    BY <1>2, <1>4 DEF Offer
  <2>2. offers' \in [Ids -> Offer]
    <3>1. [offers[id] EXCEPT !.state = "validating", !.token = s] \in Offer
      BY OfferUpdate, Zenon DEF PInv, OfferStates
    <3> QED
      BY <1>2, <1>4, <3>1
  <2>3. /\ streams'[s].stage = "claimed" /\ streams'[s].expires = ExpiresAt(id) /\ streams'[s].id = id
        /\ streams'[s].device = streams[s].device /\ \A t \in Streams : t # s => streams'[t] = streams[t]
    BY <1>1, <1>2, <1>4 DEF Stream
  <2>4. streams' \in [Streams -> Stream]
    <3>1. ExpiresAt(id) \in 0..(MaxTime + Lifetime)
      BY <1>2, ClockAssumption DEF ExpiresAt, Offer
    <3>2. [streams[s] EXCEPT !.stage = "claimed", !.expires = ExpiresAt(id)] \in Stream
      <4>1. PICK e \in 0..(MaxTime + Lifetime) : e = ExpiresAt(id)
        BY <3>1
      <4>2. [streams[s] EXCEPT !.stage = "claimed", !.expires = e] \in Stream
        BY <1>2, Zenon DEF Stream, Stages
      <4> QED
        BY <4>1, <4>2
    <3> QED
      BY <1>2, <1>4, <3>2
  <2>5. TypeOK'
    BY <1>2, <1>4, <2>1, <2>2, <2>4, NoneAssumption DEF PInv, TypeOK
  <2>6. CurrentIsTheLiveOffer'
    BY <1>4, <2>1, Zenon DEF PInv, CurrentIsTheLiveOffer, Live
  <2>7. StreamInv' /\ OneUse'
    BY <1>2, <2>3 DEF PInv, StreamInv, OneUse
  <2>8. ClaimInv'
    <3>1. \A t \in Streams : t # s /\ streams[t].stage \in Active => streams[t].id \in Ids /\ streams[t].id # id
      BY <1>3, <1>4 DEF PInv, StreamInv, Active
    <3>2. \A i \in Ids : i # id /\ offers[i].state = "validating" => offers[i].token # s
      BY <1>2 DEF PInv, ClaimInv, Active
    <3>3. ASSUME NEW i \in Ids, offers'[i].state = "validating"
          PROVE  offers'[i].token \in Streams /\ streams'[offers'[i].token].stage \in Active /\ streams'[offers'[i].token].id = i
      BY <2>1, <2>3, <3>2, <3>3 DEF PInv, ClaimInv, Active
    <3>4. ASSUME NEW t \in Streams, streams'[t].stage \in Active
          PROVE  /\ offers'[streams'[t].id].state \in {"validating", "rejected", "forgotten"}
                 /\ offers'[streams'[t].id].state = "validating" => offers'[streams'[t].id].token = t
                 /\ offers'[streams'[t].id].state # "forgotten" => streams'[t].expires = ExpiresAt(streams[t].id)'
                 /\ streams'[t].stage = "persisted" => streams'[t].now < streams'[t].expires
      <4>1. CASE t = s
        BY <2>1, <2>3, <4>1 DEF ExpiresAt
      <4>2. CASE t # s
        <5>1. streams'[t] = streams[t] /\ streams[t].id \in Ids /\ streams[t].id # id
          BY <2>3, <3>1, <3>4, <4>2
        <5>2. offers'[streams[t].id] = offers[streams[t].id]
          BY <2>1, <5>1
        <5> QED
          BY <3>4, <5>1, <5>2 DEF PInv, ClaimInv, ExpiresAt
      <4> QED
        BY <4>1, <4>2
    <3>5. \A t, u \in Streams : t # u /\ streams'[t].stage \in Active /\ streams'[u].stage \in Active => streams'[t].id # streams'[u].id
      BY <2>3, <3>1 DEF PInv, ClaimInv
    <3> QED
      BY <3>3, <3>4, <3>5 DEF ClaimInv
  <2>9. UsedInv'
    BY <1>2, <1>4, <2>1, <2>3 DEF PInv, UsedInv, TypeOK
  <2>10. RefusedOnlyIfWithdrawn'
    BY <1>4, <2>1, <2>3, ZenonT(30) DEF PInv, StreamInv, RefusedOnlyIfWithdrawn
  <2> QED
    BY <2>5, <2>6, <2>7, <2>8, <2>9, <2>10 DEF PInv
<1>5. CASE UNCHANGED <<offers, current>> /\ streams' = [streams EXCEPT ![s] = IdleStream]
  BY <1>2, <1>5, PairingEnd, Zenon DEF Active
<1>6. CASE /\ offers[id].state = "pending" /\ offers' = [offers EXCEPT ![id].state = "expired"]
           /\ current' = IF current = id THEN None ELSE current
           /\ streams' = [streams EXCEPT ![s] = IdleStream]
  <2>1. offers[id].token = None /\ id = current
    BY <1>6 DEF PInv, TypeOK, CurrentIsTheLiveOffer, Live
  <2>2. /\ offers'[id].state = "expired" /\ offers'[id].token = None
        /\ \A i \in Ids : i # id => offers'[i] = offers[i]
    BY <1>2, <1>6, <2>1 DEF Offer
  <2>3. offers' \in [Ids -> Offer] /\ current' = None
    <3>1. [offers[id] EXCEPT !.state = "expired"] \in Offer
      BY OfferUpdate, Zenon DEF PInv, OfferStates
    <3> QED
      BY <1>2, <1>6, <2>1, <3>1
  <2>4. IdleStream \in Stream /\ IdleStream.stage = "idle"
    BY EmptyTypes DEF IdleStream
  <2>5. streams'[s].stage = "idle" /\ streams' \in [Streams -> Stream] /\ \A t \in Streams : t # s => streams'[t] = streams[t]
    BY <1>2, <1>6, <2>4
  <2>6. TypeOK'
    BY <1>2, <2>2, <2>3, <2>5 DEF PInv, TypeOK
  <2>7. CurrentIsTheLiveOffer'
    BY <2>1, <2>2, <2>3, NoneAssumption DEF PInv, CurrentIsTheLiveOffer, Live
  <2>8. StreamInv' /\ OneUse'
    BY <1>2, <2>5 DEF PInv, StreamInv, OneUse
  <2>9. \A t \in Streams : streams[t].stage \in Active \/ streams[t].stage = "refused" => streams[t].id \in Ids \ {id}
    BY <1>6 DEF PInv, ClaimInv, StreamInv, RefusedOnlyIfWithdrawn, Active
  <2>10. ClaimInv'
    BY <1>2, <2>2, <2>5, <2>9, SMTT(30) DEF PInv, ClaimInv, ExpiresAt, Active
  <2>11. UsedInv' /\ RefusedOnlyIfWithdrawn'
    BY <1>2, <2>2, <2>5, <2>9, SMTT(30) DEF PInv, UsedInv, RefusedOnlyIfWithdrawn, TypeOK
  <2> QED
    BY <2>6, <2>7, <2>8, <2>10, <2>11 DEF PInv
<1> QED
  BY <1>1, <1>4, <1>5, <1>6 DEF Claim, Claimable

\* The commit time is read; nothing is decided.
LEMMA PairingReadTime ==
  ASSUME PInv, NEW s \in Streams, ReadCommitTime(s)
  PROVE  PInv'
<1>1. /\ UNCHANGED <<offers, current, encoding, disclosed, devices, disk, now>> /\ streams[s].stage = "claimed"
      /\ streams' = [streams EXCEPT ![s].stage = "commit", ![s].now = now]
  BY DEF ReadCommitTime
<1>2. /\ streams'[s].stage = "commit" /\ streams'[s].id = streams[s].id /\ streams'[s].device = streams[s].device
      /\ streams'[s].expires = streams[s].expires /\ \A t \in Streams : t # s => streams'[t] = streams[t]
  BY <1>1 DEF PInv, TypeOK, Stream
<1>3. TypeOK'
  <2>1. [streams[s] EXCEPT !.stage = "commit", !.now = now] \in Stream
    BY ZenonT(30) DEF PInv, TypeOK, Stream, Stages
  <2> QED
    BY <1>1, <2>1 DEF PInv, TypeOK
<1>4. ASSUME NEW t \in Streams
      PROVE  /\ streams'[t].id = streams[t].id /\ streams'[t].device = streams[t].device
             /\ streams'[t].expires = streams[t].expires
             /\ \/ streams'[t].stage = streams[t].stage /\ streams'[t].now = streams[t].now
                \/ streams'[t].stage = "commit" /\ streams[t].stage = "claimed"
  <2>1. CASE t = s
    BY <1>1, <1>2, <2>1
  <2>2. CASE t # s
    BY <1>2, <2>2
  <2> QED
    BY <2>1, <2>2
<1>5. CurrentIsTheLiveOffer' /\ OneUse'
  BY <1>1 DEF PInv, CurrentIsTheLiveOffer, OneUse
<1>6. StreamInv' /\ RefusedOnlyIfWithdrawn'
  BY <1>1, <1>4, ZenonT(30) DEF PInv, StreamInv, RefusedOnlyIfWithdrawn
<1>7. UsedInv'
  BY <1>1, <1>4, ZenonT(30) DEF PInv, UsedInv
<1>8. ClaimInv'
  <2>1. \A t \in Streams :
          /\ streams'[t].stage \in Active <=> streams[t].stage \in Active
          /\ streams'[t].stage = "persisted" => streams[t].stage = "persisted" /\ streams'[t].now = streams[t].now
    BY <1>4 DEF Active
  <2>2. ASSUME NEW i \in Ids, offers[i].state = "validating"
        PROVE  offers[i].token \in Streams /\ streams'[offers[i].token].stage \in Active /\ streams'[offers[i].token].id = i
    <3>1. PICK t \in Streams : t = offers[i].token /\ streams[t].stage \in Active /\ streams[t].id = i
      BY <2>2 DEF PInv, ClaimInv
    <3> QED
      BY <1>4, <2>1, <3>1
  <2>3. ASSUME NEW t \in Streams, streams'[t].stage \in Active
        PROVE  /\ offers'[streams'[t].id].state \in {"validating", "rejected", "forgotten"}
               /\ offers'[streams'[t].id].state = "validating" => offers'[streams'[t].id].token = t
               /\ offers'[streams'[t].id].state # "forgotten" => streams'[t].expires = ExpiresAt(streams[t].id)'
               /\ streams'[t].stage = "persisted" => streams'[t].now < streams'[t].expires
    <3>1. /\ streams[t].stage \in Active /\ streams'[t].id = streams[t].id /\ streams'[t].expires = streams[t].expires
          /\ streams'[t].stage = "persisted" => streams[t].stage = "persisted" /\ streams'[t].now = streams[t].now
      BY <1>4, <2>1, <2>3
    <3>2. offers' = offers
      BY <1>1
    <3> QED
      BY <3>1, <3>2 DEF PInv, ClaimInv, ExpiresAt
  <2>4. \A t, u \in Streams : t # u /\ streams'[t].stage \in Active /\ streams'[u].stage \in Active => streams'[t].id # streams'[u].id
    BY <1>4, <2>1 DEF PInv, ClaimInv
  <2> QED
    BY <1>1, <2>2, <2>3, <2>4, ZenonT(30) DEF ClaimInv
<1> QED
  BY <1>3, <1>5, <1>6, <1>7, <1>8 DEF PInv

\* A claim is given up before anything was saved in memory: the offer is as before, or
\* expired.  The file may hold the device all the same.
LEMMA PairingAbort ==
  ASSUME PInv, NEW s \in Streams, RefuseProof(s) \/ UpsertFails(s)
  PROVE  PInv'
<1>1. PICK id \in Ids : id = streams[s].id
  BY DEF RefuseProof, UpsertFails, PInv, StreamInv
<1>2. /\ streams[s].stage = "commit" /\ Abort(s) /\ UNCHANGED <<encoding, disclosed, devices, now>>
      /\ disk' = disk \/ disk' = [devices EXCEPT ![streams[s].device] = id]
      /\ offers \in [Ids -> Offer] /\ offers[id] \in Offer /\ streams \in [Streams -> Stream]
  BY <1>1 DEF RefuseProof, UpsertFails, PInv, TypeOK
<1>3. IdleStream \in Stream /\ IdleStream.stage = "idle"
  BY EmptyTypes DEF IdleStream
<1>4. streams'[s].stage = "idle" /\ streams' \in [Streams -> Stream] /\ \A t \in Streams : t # s => streams'[t] = streams[t]
  BY <1>2, <1>3 DEF Abort
<1>5. \A t \in Streams : t # s /\ streams[t].stage \in Active => streams[t].id \in Ids /\ streams[t].id # id
  BY <1>1, <1>2 DEF PInv, ClaimInv, StreamInv, Active
<1>6. /\ \A d \in Devices : devices[d] # id
      /\ offers[id].state # "unminted"
  BY <1>1, <1>2, NoneAssumption, SMTT(30) DEF PInv, UsedInv, ClaimInv, Active
<1>7. PICK d \in Devices : d = streams[s].device
  BY <1>2 DEF PInv, StreamInv
<1>8. /\ disk' \in [Devices -> Ids \cup {None}]
      /\ \A e \in Devices : disk'[e] = disk[e] \/ disk'[e] = devices[e] \/ (disk'[e] = id /\ e = d)
  <2>1. devices \in [Devices -> Ids \cup {None}] /\ disk \in [Devices -> Ids \cup {None}]
    BY DEF PInv, TypeOK
  <2>2. CASE disk' = [devices EXCEPT ![d] = id]
    BY <2>1, <2>2
  <2> QED
    BY <1>2, <1>7, <2>1, <2>2
<1>9. OneUse'
  <2>1. CASE disk' = disk
    BY <1>2, <2>1 DEF PInv, OneUse
  <2>2. CASE disk' = [devices EXCEPT ![streams[s].device] = id]
    <3>1. \A e \in Devices : disk'[e] = IF e = streams[s].device THEN id ELSE devices[e]
      BY <2>2 DEF PInv, TypeOK
    <3> QED
      BY <1>2, <1>6, <3>1 DEF PInv, OneUse
  <2> QED
    BY <1>2, <2>1, <2>2
<1>10. CASE ~Holds(s)
  <2>1. UNCHANGED <<offers, current>>
    BY <1>2, <1>10 DEF Abort
  <2>2. TypeOK' /\ CurrentIsTheLiveOffer' /\ StreamInv' /\ RefusedOnlyIfWithdrawn'
    BY <1>2, <1>4, <1>8, <2>1 DEF PInv, TypeOK, CurrentIsTheLiveOffer, StreamInv, RefusedOnlyIfWithdrawn
  <2>3. \A i \in Ids : offers[i].state = "validating" => offers[i].token # s
    BY <1>1, <1>10 DEF PInv, ClaimInv, Holds
  <2>4. ClaimInv'
    BY <1>4, <2>1, <2>3, SMTT(30) DEF PInv, ClaimInv, Active, ExpiresAt
  <2>5. UsedInv'
    BY <1>2, <1>4, <1>6, <1>8, <2>1, SMTT(30) DEF PInv, UsedInv
  <2> QED
    BY <1>9, <2>2, <2>4, <2>5 DEF PInv
<1>11. CASE Holds(s)
  <2>1. PICK state \in {"expired", "pending"} :
          /\ offers' = [offers EXCEPT ![id].state = state, ![id].token = None]
          /\ current' = IF state = "expired" THEN None ELSE id
    BY <1>1, <1>2, <1>11, Zenon DEF Abort
  <2>2. /\ offers'[id].state = state /\ offers'[id].token = None
        /\ \A i \in Ids : i # id => offers'[i] = offers[i]
    BY <1>2, <2>1 DEF Offer
  <2>3. offers' \in [Ids -> Offer]
    <3>1. [offers[id] EXCEPT !.state = state, !.token = None] \in Offer
      BY OfferUpdate, Zenon DEF PInv, OfferStates
    <3> QED
      BY <1>2, <2>1, <3>1
  <2>4. offers[id].state = "validating" /\ offers[id].token = s /\ id = current
    BY <1>1, <1>11 DEF Holds, PInv, CurrentIsTheLiveOffer, Live
  <2>5. TypeOK'
    BY <1>2, <1>4, <1>8, <2>1, <2>2, <2>3 DEF PInv, TypeOK
  <2>6. CurrentIsTheLiveOffer'
    BY <2>1, <2>2, <2>4, NoneAssumption, Zenon DEF PInv, CurrentIsTheLiveOffer, Live
  <2>7. StreamInv' /\ RefusedOnlyIfWithdrawn'
    BY <1>4, <2>2, <2>4 DEF PInv, StreamInv, RefusedOnlyIfWithdrawn
  <2>8. \A i \in Ids : i # id /\ offers[i].state = "validating" => offers[i].token # s
    BY <1>1 DEF PInv, ClaimInv
  <2>9. ClaimInv'
    <3>1. \A i \in Ids : offers'[i].state = "validating" =>
            /\ offers'[i].token \in Streams
            /\ streams'[offers'[i].token].stage \in Active
            /\ streams'[offers'[i].token].id = i
      BY <1>4, <2>2, <2>8 DEF PInv, ClaimInv
    <3>2. \A t \in Streams : streams'[t].stage \in Active =>
            /\ t # s /\ streams'[t] = streams[t] /\ streams[t].id \in Ids
            /\ offers'[streams[t].id] = offers[streams[t].id]
      BY <1>4, <1>5, <2>2 DEF Active
    <3>3. ClaimInv
      BY DEF PInv
    <3>4. QED
      BY <3>1, <3>2, <3>3, SMTT(30) DEF ClaimInv, ExpiresAt
  <2>10. UsedInv'
    BY <1>2, <1>4, <1>6, <1>8, <2>2, SMTT(30) DEF PInv, UsedInv, TypeOK
  <2> QED
    BY <1>9, <2>5, <2>6, <2>7, <2>9, <2>10 DEF PInv
<1> QED
  BY <1>10, <1>11

\* The device is saved: the offer was nobody's, and no other handler has it.
LEMMA PairingUpsert ==
  ASSUME PInv, NEW s \in Streams, Upsert(s)
  PROVE  PInv'
<1>1. PICK id \in Ids, d \in Devices : id = streams[s].id /\ d = streams[s].device
  BY DEF Upsert, PInv, StreamInv
<1>2. /\ streams[s].stage = "commit" /\ UNCHANGED <<offers, current, encoding, disclosed, now>>
      /\ streams[s].now < streams[s].expires
      /\ streams' = [streams EXCEPT ![s].stage = "persisted"]
      /\ devices' = [devices EXCEPT ![d] = id] /\ disk' = devices'
  <2>1. streams[s].now \in Nat /\ streams[s].expires \in Nat
    BY ClockAssumption DEF PInv, TypeOK, Stream
  <2> QED
    BY <1>1, <2>1 DEF Upsert, CommitTooLate
<1>3. /\ streams' \in [Streams -> Stream] /\ \A t \in Streams : t # s => streams'[t] = streams[t]
      /\ streams'[s].stage = "persisted" /\ streams'[s].id = id /\ streams'[s].device = d
      /\ streams'[s].now = streams[s].now /\ streams'[s].expires = streams[s].expires
  BY <1>1, <1>2, StreamUpdate, Zenon DEF PInv, Stages
<1>4. devices' \in [Devices -> Ids \cup {None}] /\ \A e \in Devices : devices'[e] = IF e = d THEN id ELSE devices[e]
  BY <1>2 DEF PInv, TypeOK
<1>5. /\ offers[id].state \in {"validating", "rejected", "forgotten"}
      /\ \A t \in Streams : t # s /\ streams[t].stage \in Active => streams[t].id # id
      /\ \A e \in Devices : devices[e] # id
  BY <1>1, <1>2, NoneAssumption DEF PInv, ClaimInv, UsedInv, Active
<1>6. TypeOK'
  BY <1>2, <1>3, <1>4 DEF PInv, TypeOK
<1>7. CurrentIsTheLiveOffer' /\ StreamInv' /\ RefusedOnlyIfWithdrawn'
  BY <1>2, <1>3 DEF PInv, CurrentIsTheLiveOffer, StreamInv, RefusedOnlyIfWithdrawn
<1>8. OneUse'
  BY <1>2, <1>4, <1>5 DEF PInv, OneUse
<1>9. UsedInv'
  BY <1>2, <1>3, <1>4, <1>5 DEF PInv, UsedInv, Active
<1>10. ClaimInv'
  <2>1. ASSUME NEW t \in Streams
        PROVE  /\ streams'[t].stage \in Active <=> streams[t].stage \in Active
               /\ streams'[t].id = streams[t].id /\ streams'[t].expires = streams[t].expires /\ streams'[t].now = streams[t].now
               /\ streams'[t].stage = "persisted" => t = s \/ streams[t].stage = "persisted"
    <3>1. CASE t = s
      BY <1>1, <1>2, <1>3, <3>1 DEF Active
    <3>2. CASE t # s
      BY <1>3, <3>2
    <3> QED
      BY <3>1, <3>2
  <2>2. ASSUME NEW i \in Ids, offers[i].state = "validating"
        PROVE  offers[i].token \in Streams /\ streams'[offers[i].token].stage \in Active /\ streams'[offers[i].token].id = i
    BY <2>1, <2>2 DEF PInv, ClaimInv
  <2>3. ASSUME NEW t \in Streams, streams'[t].stage \in Active
        PROVE  /\ offers'[streams'[t].id].state \in {"validating", "rejected", "forgotten"}
               /\ offers'[streams'[t].id].state = "validating" => offers'[streams'[t].id].token = t
               /\ offers'[streams'[t].id].state # "forgotten" => streams'[t].expires = ExpiresAt(streams[t].id)'
               /\ streams'[t].stage = "persisted" => streams'[t].now < streams'[t].expires
    <3>1. offers' = offers /\ streams[t].stage \in Active
      BY <1>2, <2>1, <2>3
    <3>2. streams'[t].stage = "persisted" => streams'[t].now < streams'[t].expires
      BY <1>2, <2>1, <3>1 DEF PInv, ClaimInv
    <3> QED
      BY <2>1, <3>1, <3>2, SMTT(30) DEF PInv, ClaimInv, ExpiresAt
  <2>4. \A t, u \in Streams : t # u /\ streams'[t].stage \in Active /\ streams'[u].stage \in Active => streams'[t].id # streams'[u].id
    BY <2>1, SMTT(30) DEF PInv, ClaimInv
  <2> QED
    BY <1>2, <2>1, <2>2, <2>3, <2>4 DEF ClaimInv
<1> QED
  BY <1>6, <1>7, <1>8, <1>9, <1>10 DEF PInv

\* complete does not find a claim late: the handler checked the same times before it
\* saved the device.
LEMMA NeverLateAtComplete ==
  ASSUME PInv, NEW s \in Streams, streams[s].stage = "persisted"
  PROVE  ~(offers[streams[s].id].state \in Known /\ streams[s].now >= ExpiresAt(streams[s].id))
<1>1. streams[s].now \in Nat /\ streams[s].expires \in Nat /\ streams[s].now < streams[s].expires
  BY ClockAssumption DEF PInv, TypeOK, Stream, ClaimInv, Active
<1>2. offers[streams[s].id].state # "forgotten" => streams[s].expires = ExpiresAt(streams[s].id)
  BY DEF PInv, ClaimInv, Active
<1> QED
  BY <1>1, <1>2 DEF Known

\* complete.  A handler that saved its device in time is never late here: the offer is
\* consumed, or it was withdrawn meanwhile and the phone is refused.
LEMMA PairingComplete ==
  ASSUME PInv, NEW s \in Streams, Complete(s)
  PROVE  PInv'
<1>1. PICK id \in Ids, d \in Devices : id = streams[s].id /\ d = streams[s].device
  BY DEF Complete, PInv, StreamInv
<1>2. /\ streams[s].stage = "persisted" /\ UNCHANGED <<encoding, disclosed, devices, disk, now>>
      /\ offers \in [Ids -> Offer] /\ offers[id] \in Offer /\ streams \in [Streams -> Stream]
  BY DEF Complete, PInv, TypeOK
<1>3. ~(offers[id].state \in Known /\ streams[s].now >= ExpiresAt(id))
  BY <1>1, <1>2, NeverLateAtComplete
<1>4. \A t \in Streams : t # s /\ streams[t].stage \in Active => streams[t].id \in Ids /\ streams[t].id # id
  BY <1>1, <1>2 DEF PInv, ClaimInv, StreamInv, Active
<1>5. CASE ~Holds(s)
  <2>1. UNCHANGED <<offers, current>> /\ streams' = [streams EXCEPT ![s].stage = "refused"]
    BY <1>1, <1>3, <1>5 DEF Complete
  <2>2. offers[id].state \in {"rejected", "forgotten"}
    BY <1>1, <1>2, <1>5 DEF PInv, ClaimInv, Active, Holds
  <2>3. /\ streams' \in [Streams -> Stream] /\ \A t \in Streams : t # s => streams'[t] = streams[t]
        /\ streams'[s].stage = "refused" /\ streams'[s].id = id /\ streams'[s].device = d
    BY <1>1, <2>1, StreamUpdate, Zenon DEF PInv, Stages
  <2>4. TypeOK' /\ CurrentIsTheLiveOffer' /\ OneUse'
    BY <1>2, <2>1, <2>3 DEF PInv, TypeOK, CurrentIsTheLiveOffer, OneUse
  <2>5. StreamInv' /\ UsedInv' /\ RefusedOnlyIfWithdrawn'
    BY <1>2, <2>1, <2>2, <2>3 DEF PInv, StreamInv, UsedInv, RefusedOnlyIfWithdrawn
  <2>6. \A i \in Ids : offers[i].state = "validating" => offers[i].token # s
    BY <1>1, <1>5 DEF PInv, ClaimInv, Holds
  <2>7. ClaimInv'
    BY <2>1, <2>3, <2>6 DEF PInv, ClaimInv, Active, ExpiresAt
  <2> QED
    BY <2>4, <2>5, <2>7 DEF PInv
<1>6. CASE Holds(s)
  <2>1. offers[id].state = "validating" /\ offers[id].token = s /\ id = current
    BY <1>1, <1>6 DEF Holds, PInv, CurrentIsTheLiveOffer, Live
  <2>2. /\ offers' = [offers EXCEPT ![id].state = "accepted", ![id].token = None, ![id].device = d]
        /\ current' = None /\ streams' = [streams EXCEPT ![s].stage = "paired"]
    BY <1>1, <1>3, <1>6, <2>1 DEF Complete
  <2>3. /\ offers'[id].state = "accepted" /\ offers'[id].token = None
        /\ \A i \in Ids : i # id => offers'[i] = offers[i]
    BY <1>2, <2>2 DEF Offer
  <2>4. offers' \in [Ids -> Offer]
    <3>1. [offers[id] EXCEPT !.state = "accepted", !.token = None, !.device = d] \in Offer
      BY OfferUpdate, ZenonT(30) DEF PInv, OfferStates
    <3> QED
      BY <1>2, <2>2, <3>1
  <2>5. /\ streams' \in [Streams -> Stream] /\ \A t \in Streams : t # s => streams'[t] = streams[t]
        /\ streams'[s].stage = "paired" /\ streams'[s].id = id /\ streams'[s].device = d
    BY <1>1, <2>2, StreamUpdate, Zenon DEF PInv, Stages
  <2>6. TypeOK'
    BY <1>2, <2>2, <2>3, <2>4, <2>5 DEF PInv, TypeOK
  <2>7. CurrentIsTheLiveOffer'
    BY <2>1, <2>2, <2>3, NoneAssumption, Zenon DEF PInv, CurrentIsTheLiveOffer, Live
  <2>8. StreamInv' /\ OneUse'
    BY <1>2, <2>5 DEF PInv, StreamInv, OneUse
  <2>9. UsedInv' /\ RefusedOnlyIfWithdrawn'
    BY <1>2, <2>1, <2>3, <2>5 DEF PInv, TypeOK, StreamInv, UsedInv, RefusedOnlyIfWithdrawn
  <2>10. \A i \in Ids : i # id /\ offers[i].state = "validating" => offers[i].token # s
    BY <1>1 DEF PInv, ClaimInv
  <2>11. ClaimInv'
    <3>1. \A i \in Ids : offers'[i].state = "validating" =>
            /\ offers'[i].token \in Streams
            /\ streams'[offers'[i].token].stage \in Active
            /\ streams'[offers'[i].token].id = i
      BY <2>3, <2>5, <2>10 DEF PInv, ClaimInv
    <3>2. \A t \in Streams : streams'[t].stage \in Active =>
            /\ t # s /\ streams'[t] = streams[t] /\ streams[t].id \in Ids
            /\ offers'[streams[t].id] = offers[streams[t].id]
      BY <1>4, <2>3, <2>5 DEF Active
    <3>3. ClaimInv
      BY DEF PInv
    <3>4. QED
      BY <3>1, <3>2, <3>3, SMTT(30) DEF ClaimInv, ExpiresAt
  <2> QED
    BY <2>6, <2>7, <2>8, <2>9, <2>11 DEF PInv
<1> QED
  BY <1>5, <1>6

\* The first ping: the offer is marked connected, nothing else about it changes.
LEMMA PairingConnected ==
  ASSUME PInv, NEW s \in Streams, MarkConnected(s)
  PROVE  PInv'
<1>1. PICK id \in Ids : id = streams[s].id
  BY DEF MarkConnected, PInv, StreamInv
<1>2. /\ streams[s].stage = "paired" /\ UNCHANGED <<current, encoding, disclosed, devices, disk, now>>
      /\ offers' = offers \/ offers' = [offers EXCEPT ![id].connected = TRUE]
      /\ streams' = [streams EXCEPT ![s].stage = "heartbeat"]
  BY <1>1 DEF MarkConnected
<1>3. /\ streams' \in [Streams -> Stream] /\ \A t \in Streams : t # s => streams'[t] = streams[t]
      /\ streams'[s].stage = "heartbeat" /\ streams'[s].id = streams[s].id /\ streams'[s].device = streams[s].device
  BY <1>2, StreamUpdate, Zenon DEF PInv, Stages
<1>4. /\ offers' \in [Ids -> Offer]
      /\ \A i \in Ids : /\ offers'[i].state = offers[i].state /\ offers'[i].token = offers[i].token
                        /\ offers'[i].created = offers[i].created
  <2>1. [offers[id] EXCEPT !.connected = TRUE] \in Offer
    BY OfferUpdate, Zenon DEF PInv, OfferStates
  <2>2. CASE offers' = [offers EXCEPT ![id].connected = TRUE]
    BY <2>1, <2>2 DEF PInv, TypeOK, Offer
  <2>3. CASE offers' = offers
    BY <2>3 DEF PInv, TypeOK
  <2> QED
    BY <1>2, <2>2, <2>3
<1>5. TypeOK' /\ CurrentIsTheLiveOffer' /\ OneUse'
  BY <1>2, <1>3, <1>4 DEF PInv, TypeOK, CurrentIsTheLiveOffer, OneUse
<1>6. StreamInv' /\ RefusedOnlyIfWithdrawn' /\ UsedInv'
  BY <1>2, <1>3, <1>4 DEF PInv, TypeOK, StreamInv, RefusedOnlyIfWithdrawn, UsedInv
<1>7. ClaimInv'
  <2>1. \A t \in Streams : streams'[t].stage \in Active => t # s /\ streams'[t] = streams[t] /\ streams[t].id \in Ids
    BY <1>3 DEF PInv, StreamInv, Active
  <2>2. \A i \in Ids : offers[i].state = "validating" => offers[i].token # s
    BY <1>2 DEF PInv, ClaimInv, Active
  <2> QED
    BY <1>3, <1>4, <2>1, <2>2, SMTT(30) DEF PInv, ClaimInv, ExpiresAt
<1> QED
  BY <1>5, <1>6, <1>7 DEF PInv

\* Every step keeps the invariant.
LEMMA PairingStep == PInv /\ [Next]_vars => PInv'
<1> SUFFICES ASSUME PInv, [Next]_vars PROVE PInv'
  OBVIOUS
<1>1. ASSUME NEW s \in Streams, EndStream(s) PROVE PInv'
  BY <1>1, PairingEnd, Zenon DEF EndStream, Active
<1>2. ASSUME NEW s \in Streams, StreamStep(s) PROVE PInv'
  BY <1>1, <1>2, PairingClaim, PairingReadTime, PairingAbort, PairingUpsert, PairingComplete, PairingConnected DEF StreamStep
<1>3. CASE UNCHANGED vars
  BY <1>3, PairingQuiet
<1>4. CASE Next
  BY <1>2, <1>4, PairingCreate, PairingQuiet, PairingWithdraw, PairingRestart DEF Next
<1> QED
  BY <1>3, <1>4

\* The invariant holds of every reachable state.
LEMMA PairingInvariant == Spec => []PInv
<1> QED
  BY PairingInit, PairingStep, PTL DEF Spec

\* Type correctness, with a token held exactly by the offers under validation.
THEOREM PairingTypeCorrect == Spec => []TypeOK
<1>1. PInv => TypeOK
  BY DEF PInv
<1> QED
  BY <1>1, PairingInvariant, PTL

\* One QR authorises at most one device, in memory and on disk, however many phones
\* scan it, whatever writes fail and whenever the daemon restarts.
THEOREM QrIsOneUse == Spec => []OneUse
<1>1. PInv => OneUse
  BY DEF PInv
<1> QED
  BY <1>1, PairingInvariant, PTL

\* current_pending is exactly the offer that can be claimed or is being validated.
THEOREM OneLiveOffer == Spec => []CurrentIsTheLiveOffer
<1>1. PInv => CurrentIsTheLiveOffer
  BY DEF PInv
<1> QED
  BY <1>1, PairingInvariant, PTL

\* complete refuses a saved phone only when its offer was withdrawn or dropped.
THEOREM RefusalMeansWithdrawal == Spec => []RefusedOnlyIfWithdrawn
<1>1. PInv => RefusedOnlyIfWithdrawn
  BY DEF PInv
<1> QED
  BY <1>1, PairingInvariant, PTL

\* No step reopens a settled offer.
LEMMA SettledStep == PInv /\ [Next]_vars => [Settled]_vars
<1> SUFFICES ASSUME PInv, Next PROVE Settled
  OBVIOUS
<1>1. offers \in [Ids -> Offer]
  BY DEF PInv, TypeOK
<1>2. CASE UNCHANGED offers
  BY <1>2 DEF Settled
<1>3. ASSUME NEW id \in Ids, Create(id) PROVE Settled
  <2>1. ASSUME NEW i \in Ids
        PROVE Cleanup[i] = offers[i] \/ Cleanup[i].state = "forgotten"
    BY DEF Cleanup, Forgotten, NewOffer
  <2>2. ASSUME NEW i \in Ids, offers[i].state # "pending", offers[i].state # "unminted"
        PROVE offers'[i] = Cleanup[i]
    BY <1>3, <2>1, <2>2, Zenon DEF Create, Superseded, Cleanup
  <2> QED
    BY <2>1, <2>2 DEF Settled
<1>4. ASSUME NEW id \in Ids, RejectCurrent(id) PROVE Settled
  BY <1>4 DEF RejectCurrent, Settled, PInv, CurrentIsTheLiveOffer, Live
<1>5. ASSUME NEW id \in Ids, offers[id].state \in Live, \A i \in Ids \ {id} : offers'[i] = offers[i] PROVE Settled
  BY <1>5 DEF Settled, Live
<1>6. ASSUME NEW id \in Ids, Status(id) PROVE Settled
  BY <1>1, <1>5, <1>6 DEF Status, Live
<1>7. ASSUME NEW s \in Streams, StreamStep(s) PROVE Settled
  <2>1. CASE ReadCommitTime(s) \/ Upsert(s) \/ EndStream(s)
    BY <1>2, <2>1 DEF ReadCommitTime, Upsert, EndStream
  <2>2. CASE MarkConnected(s)
    BY <1>1, <2>2 DEF MarkConnected, Settled, Offer
  <2>3. CASE Claim(s)
    BY <1>1, <1>2, <1>5, <2>3 DEF Claim, Claimable, Live, PInv, StreamInv
  <2>4. CASE RefuseProof(s) \/ UpsertFails(s)
    BY <1>1, <1>2, <1>5, <2>4 DEF RefuseProof, UpsertFails, Abort, Holds, Live, PInv, StreamInv
  <2>5. CASE Complete(s)
    BY <1>1, <1>2, <1>5, <2>5, NeverLateAtComplete, Zenon DEF Complete, Holds, Live, PInv, StreamInv
  <2> QED
    BY <1>7, <2>1, <2>2, <2>3, <2>4, <2>5 DEF StreamStep
<1>8. CASE Restart
  BY <1>1, <1>8 DEF Restart, Settled, Forgotten, NewOffer
<1> QED
  BY <1>2, <1>3, <1>4, <1>6, <1>7, <1>8 DEF Next, ShowQr, Request, Unpair, Tick

\* An offer that was accepted, expired or withdrawn is never claimable again.
THEOREM SettledForGood == Spec => SettledOffersStay
<1> QED
  BY PairingInvariant, SettledStep, PTL DEF Spec, SettledOffersStay
=============================================================================
