------------------------------ MODULE Pairing ------------------------------
(***************************************************************************)
(* Pairing of a phone with the host: PairingManager (pairing.rs), the      *)
(* stream handler that drives it and the two IPC operations that touch it  *)
(* (daemon.rs), and the paired-device allowlist (storage.rs).              *)
(*                                                                         *)
(* The manager, the allowlist and the clock are shared by handler tasks    *)
(* on a multi-threaded runtime.  A handler takes each lock separately, so  *)
(* one action below is one lock window of one handler.  Wall-clock time is *)
(* read before the lock it is used under, and may be set back.             *)
(***************************************************************************)
EXTENDS Naturals, FiniteSets

CONSTANTS
  Ids,        \* pairing identifiers that may ever be minted (random, never reused)
  Devices,    \* endpoint identities of phones
  Streams,    \* pairing stream handlers that may run at the same time
  Lifetime,   \* PAIRING_LIFETIME_SECS
  Retention,  \* OUTCOME_RETENTION_SECS
  MaxTime,    \* bound on the wall clock
  None

ASSUME ClockAssumption ==
  /\ Lifetime \in Nat \ {0}
  /\ Retention \in Nat
  /\ MaxTime \in Nat

ASSUME NoneAssumption == None \notin Ids \cup Devices \cup Streams

VARIABLES
  offers,     \* PairingManager.offers
  current,    \* PairingManager.current_pending
  encoding,   \* offers whose QR the creating IPC handler has yet to encode
  disclosed,  \* offers whose capability has left the host in a QR
  streams,    \* one record per pairing stream handler
  devices,    \* PairedDeviceStore.devices: the offer each device paired through
  disk,       \* the allowlist file
  now         \* the wall clock

vars == <<offers, current, encoding, disclosed, streams, devices, disk, now>>

\* "unminted" and "forgotten" are the absent entries of the offers map: an
\* identifier not drawn yet, and one that cleanup or a restart has dropped.
OfferStates ==
  {"unminted", "pending", "validating", "accepted", "expired", "rejected", "forgotten"}

Known == {"pending", "validating", "accepted", "expired", "rejected"}
Live == {"pending", "validating"}

Offer == [state : OfferStates, created : 0..MaxTime, token : Streams \cup {None},
          device : Devices \cup {None}, connected : BOOLEAN]

\* The stages of handle_pairing_stream; each is left by one action.
Stages == {"idle", "request", "claimed", "commit", "persisted", "paired", "heartbeat", "refused"}

Stream == [stage : Stages, id : Ids \cup {None}, device : Devices \cup {None},
           proof : BOOLEAN, now : 0..MaxTime, expires : 0..(MaxTime + Lifetime)]

NewOffer(state, created) ==
  [state |-> state, created |-> created, token |-> None, device |-> None, connected |-> FALSE]
Unminted == NewOffer("unminted", 0)
Forgotten == NewOffer("forgotten", 0)
IdleStream ==
  [stage |-> "idle", id |-> None, device |-> None, proof |-> FALSE, now |-> 0, expires |-> 0]

ExpiresAt(id) == offers[id].created + Lifetime

\* The types of the state; a token is held exactly while an offer is validated, as
\* in the variants of OfferState.
TypeOK ==
  /\ offers \in [Ids -> Offer]
  /\ \A id \in Ids : offers[id].token # None <=> offers[id].state = "validating"
  /\ current \in Ids \cup {None}
  /\ encoding \subseteq Ids
  /\ disclosed \subseteq Ids
  /\ streams \in [Streams -> Stream]
  /\ devices \in [Devices -> Ids \cup {None}]
  /\ disk \in [Devices -> Ids \cup {None}]
  /\ now \in 0..MaxTime

Init ==
  /\ offers = [id \in Ids |-> Unminted]
  /\ current = None
  /\ encoding = {}
  /\ disclosed = {}
  /\ streams = [s \in Streams |-> IdleStream]
  /\ devices = [d \in Devices |-> None]
  /\ disk = devices
  /\ now = 0
-----------------------------------------------------------------------------
(* PairingManager *)

\* cleanup: offers older than the retention are dropped whatever their state.
Outlived(offer) ==
  offer.state \in Known /\ now > offer.created + Lifetime + Retention

Cleanup == [id \in Ids |-> IF Outlived(offers[id]) THEN Forgotten ELSE offers[id]]

\* Mutant: the code it replaces is left claimable.
NotSuperseded(kept) == kept

Superseded(kept) ==
  [id \in Ids |-> IF id = current /\ kept[id].state = "pending"
                  THEN [kept[id] EXCEPT !.state = "rejected"] ELSE kept[id]]

\* create: refused while the current offer is being validated (the cleanup has
\* happened all the same); otherwise a fresh offer replaces the current one.
Create(id) ==
  LET kept == Cleanup
      busy == current # None /\ kept[current].state = "validating"
  IN /\ offers[id].state = "unminted"
     /\ IF busy
        THEN /\ offers' = kept
             /\ UNCHANGED <<current, encoding>>
        ELSE /\ offers' = [Superseded(kept) EXCEPT ![id] = NewOffer("pending", now)]
             /\ current' = id
             /\ encoding' = encoding \cup {id}
     /\ UNCHANGED <<disclosed, streams, devices, disk, now>>

\* encode_pairing_uri succeeds: the QR, and with it the capability, is shown.
ShowQr(id) ==
  /\ id \in encoding
  /\ encoding' = encoding \ {id}
  /\ disclosed' = disclosed \cup {id}
  /\ UNCHANGED <<offers, current, streams, devices, disk, now>>

Withdrawn(offer) == [offer EXCEPT !.state = "rejected", !.token = None]

\* encode_pairing_uri fails: reject_current rejects whatever offer is current by
\* then, in whatever state it is.
RejectCurrent(id) ==
  /\ id \in encoding
  /\ encoding' = encoding \ {id}
  /\ offers' = [i \in Ids |-> IF i = current /\ offers[i].state \in Known
                              THEN Withdrawn(offers[i]) ELSE offers[i]]
  /\ current' = None
  /\ UNCHANGED <<disclosed, streams, devices, disk, now>>

\* status: a query that expires a pending offer on the way.
Status(id) ==
  /\ offers[id].state = "pending"
  /\ now >= ExpiresAt(id)
  /\ offers' = [offers EXCEPT ![id].state = "expired"]
  /\ current' = IF current = id THEN None ELSE current
  /\ UNCHANGED <<encoding, disclosed, streams, devices, disk, now>>
-----------------------------------------------------------------------------
(* handle_pairing_stream *)

\* A pair_request has arrived and the handler has read the clock.  Only a device
\* that saw the QR can present the capability the offer holds the hash of.
Request(s, d, id, proof) ==
  /\ streams[s].stage = "idle"
  /\ offers[id].state # "unminted"
  /\ proof => id \in disclosed
  /\ streams' = [streams EXCEPT ![s] =
                   [stage |-> "request", id |-> id, device |-> d, proof |-> proof,
                    now |-> now, expires |-> 0]]
  /\ UNCHANGED <<offers, current, encoding, disclosed, devices, disk, now>>

\* Mutant: an offer under validation can be claimed again.
ClaimableTwice(id) == offers[id].state \in Live

Claimable(id) == offers[id].state = "pending"

\* claim.  The token drawn for the claim is the identity of the handler.
Claim(s) ==
  LET id == streams[s].id
      open == Claimable(id)
      late == streams[s].now >= ExpiresAt(id)
  IN /\ streams[s].stage = "request"
     /\ IF open /\ ~late /\ streams[s].proof
        THEN /\ offers' = [offers EXCEPT ![id].state = "validating", ![id].token = s]
             /\ streams' = [streams EXCEPT ![s].stage = "claimed",
                                            ![s].expires = ExpiresAt(id)]
             /\ UNCHANGED current
        ELSE /\ offers' = IF open /\ late THEN [offers EXCEPT ![id].state = "expired"] ELSE offers
             /\ current' = IF open /\ late /\ current = id THEN None ELSE current
             /\ streams' = [streams EXCEPT ![s] = IdleStream]
     /\ UNCHANGED <<encoding, disclosed, devices, disk, now>>

\* The commit time is read; it serves the expiry check, the record and complete.
ReadCommitTime(s) ==
  /\ streams[s].stage = "claimed"
  /\ streams' = [streams EXCEPT ![s].stage = "commit", ![s].now = now]
  /\ UNCHANGED <<offers, current, encoding, disclosed, devices, disk, now>>

Holds(s) ==
  LET offer == offers[streams[s].id]
  IN offer.state = "validating" /\ offer.token = s

\* Mutant: the handler returns without giving its claim back.
AbortForgotten(s) ==
  /\ streams' = [streams EXCEPT ![s] = IdleStream]
  /\ UNCHANGED <<offers, current>>

\* abort: gives a claim back, unless the offer has moved on without it.
Abort(s) ==
  LET id == streams[s].id
      late == streams[s].now >= ExpiresAt(id)
  IN /\ offers' = IF Holds(s)
                  THEN [offers EXCEPT ![id].state = IF late THEN "expired" ELSE "pending",
                                      ![id].token = None]
                  ELSE offers
     /\ current' = IF Holds(s) THEN IF late THEN None ELSE id ELSE current
     /\ streams' = [streams EXCEPT ![s] = IdleStream]

\* Mutant: expiry is not checked again before the commit.
NeverTooLate(s) == FALSE

CommitTooLate(s) == streams[s].now >= streams[s].expires

\* The claim expired before the commit, or the key share is unusable.
RefuseProof(s) ==
  /\ streams[s].stage = "commit"
  /\ Abort(s)
  /\ UNCHANGED <<encoding, disclosed, devices, disk, now>>

\* upsert: the allowlist is written, then replaced in memory.
Upsert(s) ==
  LET updated == [devices EXCEPT ![streams[s].device] = streams[s].id]
  IN /\ streams[s].stage = "commit"
     /\ ~CommitTooLate(s)
     /\ devices' = updated
     /\ disk' = updated
     /\ streams' = [streams EXCEPT ![s].stage = "persisted"]
     /\ UNCHANGED <<offers, current, encoding, disclosed, now>>

\* upsert fails, possibly after the rename that replaced the file (the fsync of
\* the directory failed); the list in memory stays and the claim is aborted.
UpsertFails(s) ==
  /\ streams[s].stage = "commit"
  /\ ~CommitTooLate(s)
  /\ disk' \in {disk, [devices EXCEPT ![streams[s].device] = streams[s].id]}
  /\ Abort(s)
  /\ UNCHANGED <<encoding, disclosed, devices, now>>

\* complete: the offer is consumed if the claim still holds it.
Complete(s) ==
  LET id == streams[s].id
      late == offers[id].state \in Known /\ streams[s].now >= ExpiresAt(id)
  IN /\ streams[s].stage = "persisted"
     /\ offers' = IF late THEN [offers EXCEPT ![id].state = "expired", ![id].token = None]
                  ELSE IF Holds(s)
                  THEN [offers EXCEPT ![id].state = "accepted", ![id].token = None,
                                      ![id].device = streams[s].device]
                  ELSE offers
     /\ current' = IF late \/ (Holds(s) /\ current = id) THEN None ELSE current
     /\ streams' = [streams EXCEPT ![s].stage = IF ~late /\ Holds(s) THEN "paired" ELSE "refused"]
     /\ UNCHANGED <<encoding, disclosed, devices, disk, now>>

\* process_heartbeats: the first ping marks the offer connected.
MarkConnected(s) ==
  LET id == streams[s].id
  IN /\ streams[s].stage = "paired"
     /\ offers' = IF offers[id].state = "accepted" /\ offers[id].device = streams[s].device
                  THEN [offers EXCEPT ![id].connected = TRUE] ELSE offers
     /\ streams' = [streams EXCEPT ![s].stage = "heartbeat"]
     /\ UNCHANGED <<current, encoding, disclosed, devices, disk, now>>

\* The connection ends: heartbeat timeout, write error, or the refusal was sent.
EndStream(s) ==
  /\ streams[s].stage \in {"paired", "heartbeat", "refused"}
  /\ streams' = [streams EXCEPT ![s] = IdleStream]
  /\ UNCHANGED <<offers, current, encoding, disclosed, devices, disk, now>>
-----------------------------------------------------------------------------
\* ciao unpair: PairedDeviceStore.remove, which may fail like upsert.
Unpair(d) ==
  LET updated == [devices EXCEPT ![d] = None]
  IN /\ devices[d] # None
     /\ \/ devices' = updated /\ disk' = updated
        \/ devices' = devices /\ disk' \in {disk, updated}
     /\ UNCHANGED <<offers, current, encoding, disclosed, streams, now>>

\* The daemon stops and starts: offers live in memory only.
Restart ==
  /\ offers' = [id \in Ids |-> IF offers[id].state = "unminted" THEN Unminted ELSE Forgotten]
  /\ current' = None
  /\ encoding' = {}
  /\ streams' = [s \in Streams |-> IdleStream]
  /\ devices' = disk
  /\ UNCHANGED <<disclosed, disk, now>>

\* The wall clock moves on, or is set back.
Tick ==
  /\ now' \in 0..MaxTime
  /\ UNCHANGED <<offers, current, encoding, disclosed, streams, devices, disk>>

StreamStep(s) ==
  \/ Claim(s)
  \/ ReadCommitTime(s)
  \/ RefuseProof(s)
  \/ Upsert(s)
  \/ UpsertFails(s)
  \/ Complete(s)
  \/ MarkConnected(s)
  \/ EndStream(s)

Next ==
  \/ \E id \in Ids : Create(id) \/ ShowQr(id) \/ RejectCurrent(id) \/ Status(id)
  \/ \E s \in Streams, d \in Devices, id \in Ids, proof \in BOOLEAN : Request(s, d, id, proof)
  \/ \E s \in Streams : StreamStep(s)
  \/ \E d \in Devices : Unpair(d)
  \/ Restart
  \/ Tick

Spec == Init /\ [][Next]_vars

\* The handler runs from claim to complete without an await, so a thread that
\* entered it leaves it: each stream's steps are weakly fair.
FairSpec == Spec /\ \A s \in Streams : WF_vars(StreamStep(s))
-----------------------------------------------------------------------------
(* Properties *)

\* A QR is one-use (README.md: "The expiring, one-use QR"): whatever the
\* interleaving of handlers, failed writes, withdrawals and restarts, no two
\* devices are ever authorised through one offer, neither by the list in memory
\* nor by the file, nor one by each.
OneUse ==
  \A d, e \in Devices :
    d # e => /\ devices[d] # None => devices[e] # devices[d] /\ disk[e] # devices[d]
             /\ disk[d] # None => disk[e] # disk[d]

\* current_pending names the one offer that can still be claimed or is being
\* validated, so that create always finds the code it has to replace.
CurrentIsTheLiveOffer ==
  \A id \in Ids : offers[id].state \in Live <=> id = current

\* An offer that was accepted, expired or rejected never becomes claimable again,
\* and an accepted one keeps its device until it is forgotten.
Settled ==
  \A id \in Ids :
    /\ offers[id].state \in {"accepted", "expired", "rejected", "forgotten"}
         => offers'[id].state \in {offers[id].state, "forgotten"}
    /\ offers[id].state = "accepted" /\ offers'[id].state = "accepted"
         => offers'[id].device = offers[id].device

SettledOffersStay == [][Settled]_vars

\* A phone that proved itself and was saved but is then told it was refused is one
\* whose offer was withdrawn (reject_current) or dropped (cleanup) meanwhile;
\* the expiry check of complete never is the reason.
RefusedOnlyIfWithdrawn ==
  \A s \in Streams :
    streams[s].stage = "refused" => offers[streams[s].id].state \in {"rejected", "forgotten"}

\* A claim is always resolved: no offer stays in validation, which would make
\* create answer InProgress for ever.
ValidationEnds ==
  \A id \in Ids : offers[id].state = "validating" ~> offers[id].state # "validating"
=============================================================================
