----------------------- MODULE HostConnectionsProofs -----------------------
(* Proofs about the daemon's connections, for any number of devices,       *)
(* connections and streams, any layout of them and any limits.             *)
EXTENDS HostConnections, FiniteSetTheorems, TLAPS

ConnRecord == [stage : {"none", "authorized", "admitted", "hello", "ready", "preface", "draining",
                        "closing", "released", "gone"},
               open : BOOLEAN, evicted : SUBSET Connections, tries : 0..MaxPreHello, watch : BOOLEAN]
StreamRecord == [kind : Kinds \cup {None},
                 stage : {"none", "open", "asked", "running", "plan", "over"} \cup LeasedStages,
                 target : Targets \cup {None}, session : Sessions \cup {None}, watch : BOOLEAN]
ChildRecord == [state : {"none", "starting", "live", "dead"}, grit : 0..2, signal : 0..Kill,
                ladder : {"none", "hup", "term", "kill"}, owner : {"nobody", "task", "late"}]

\* The part of the types that the argument uses.
Types ==
  /\ layout \in Layouts
  /\ conn \in [Connections -> ConnRecord]
  /\ stream \in [Streams -> StreamRecord]
  /\ child \in [Streams -> ChildRecord]
  /\ handles \subseteq Connections
-----------------------------------------------------------------------------
\* A lease table whose total is what it holds, within a limit, and in which each device has its
\* share at most.
Counted(a, S, limit, share) ==
  /\ a = [tokens |-> a.tokens, total |-> a.total]
  /\ a.tokens \subseteq S /\ IsFiniteSet(a.tokens)
  /\ a.total = Cardinality(a.tokens) /\ a.total <= limit
  /\ \A d \in Devices : Cardinality(Held(a, d)) <= share

\* What the leases of a terminal say, by its stream.
Resumables == {s \in ptys.tokens : IsResumable(stream[s].target)}

PtyInv ==
  /\ Counted(ptys, Streams, MaxPtys, MaxPtysPerDevice)
  /\ ptys.tokens = {s \in Streams : HoldsPty(s)}
  /\ resumable \in Nat /\ resumable = Cardinality(Resumables)
  /\ attached \in [Streams -> Sessions \cup {None}]
  /\ \A s \in Streams : attached[s] = IF HoldsPty(s) THEN stream[s].session ELSE None

\* What the other leases say.
LeaseInv ==
  /\ PtyInv
  /\ Counted(admissions, Connections, MaxConnections, MaxPerDevice)
  /\ Counted(subscribers, Streams, MaxSubscriptions, 1)
  /\ subscribers.tokens \subseteq {s \in Streams : stream[s].stage = "running"}

Handled == {"hello", "ready", "preface", "draining", "closing"}

\* A connection that is served has a device; while it is open its handle is there to close it; and
\* it has a slot only from its admission to its end.
ConnOK(c, k) ==
  /\ k.stage # "none" => DeviceOf[c] # None
  /\ k.stage \in Handled /\ k.open => c \in handles
  /\ c \in admissions.tokens => k.stage \notin {"none", "authorized", "gone"}

\* The stages of a stream whose task is there, and those past the allowlist.
Alive == {"open", "asked", "running", "plan"} \cup LeasedStages
Allowed == {"plan"} \cup LeasedStages
Owning == {"spawn", "bridge", "detach", "cleanup"}

\* A stream and its child.
StreamOK(k, ch) ==
  /\ k.stage \in Allowed => k.kind = "terminal"
  /\ k.stage \notin Owning \cup {"over"} => ch = NoChild
  /\ ch.owner = "task" <=> k.stage \in Owning
  /\ ch.owner = "task" /\ ch.state = "starting" => k.stage = "spawn"
  /\ ch.state = "starting" => ch.ladder = "none"
  /\ ch.state = "live" /\ (ch.ladder # "none" \/ ch.owner = "nobody") => ch.signal >= Hup

\* A stream and its connection: a task belongs to a running loop, and a terminal of a device that
\* is cut off has no open connection.
ServedOK(s, k, cn) ==
  /\ k.stage \in Alive => cn.stage \in {"ready", "preface", "draining"}
  /\ k.stage \in Allowed /\ Device(s) \notin paired /\ revoking # Device(s) => ~cn.open

HInv ==
  /\ Types /\ LeaseInv
  /\ \A c \in Connections : ConnOK(c, conn[c])
  /\ \A s \in Streams : StreamOK(stream[s], child[s]) /\ ServedOK(s, stream[s], conn[ConnectionOf[s]])
-----------------------------------------------------------------------------
(* The lease tables *)

\* A token added where there is room: the count goes up by one (try_add_with_limits).
LEMMA AddCounted ==
  ASSUME NEW a, NEW S, NEW limit \in Nat, NEW share \in Nat, NEW t \in S,
         Counted(a, S, limit, share), t \notin a.tokens,
         HasRoom(a, Device(t), limit, share)
  PROVE  Counted(Add(a, t), S, limit, share)
<1> DEFINE b == Add(a, t)
<1>1. /\ b.tokens = a.tokens \cup {t} /\ b.total = a.total + 1
      /\ b = [tokens |-> b.tokens, total |-> b.total]
  BY DEF Add
<1>2. /\ IsFiniteSet(a.tokens) /\ a.total = Cardinality(a.tokens) /\ Cardinality(a.tokens) \in Nat
      /\ a.tokens \subseteq S /\ a.total < limit
  BY FS_CardinalityType DEF Counted, HasRoom
<1>3. /\ IsFiniteSet(b.tokens) /\ b.total = Cardinality(b.tokens) /\ b.total <= limit
  <2>1. /\ IsFiniteSet(a.tokens \cup {t})
        /\ Cardinality(a.tokens \cup {t}) = IF t \in a.tokens THEN Cardinality(a.tokens)
                                                           ELSE Cardinality(a.tokens) + 1
    BY <1>2, FS_AddElement
  <2>2. Cardinality(a.tokens \cup {t}) = Cardinality(a.tokens) + 1
    BY <2>1
  <2> QED
    BY <2>1, <2>2, <1>1, <1>2
<1>4. ASSUME NEW d \in Devices PROVE Cardinality(Held(b, d)) <= share
  <2>1. IsFiniteSet(Held(a, d)) /\ Cardinality(Held(a, d)) \in Nat
    <3>1. Held(a, d) \in SUBSET a.tokens
      BY DEF Held
    <3>2. IsFiniteSet(Held(a, d))
      BY <3>1, <1>2, FS_Subset
    <3> QED
      BY <3>2, FS_CardinalityType
  <2>2. Cardinality(Held(a, d)) <= share
    BY DEF Counted
  <2>3. CASE Device(t) = d
    <3>1. Held(b, d) = Held(a, d) \cup {t}
      BY <2>3, <1>1 DEF Held
    <3>2. Cardinality(Held(a, d)) < share
      BY <2>3 DEF HasRoom
    <3>3. Cardinality(Held(a, d) \cup {t}) = IF t \in Held(a, d) THEN Cardinality(Held(a, d))
                                                              ELSE Cardinality(Held(a, d)) + 1
      BY <2>1, FS_AddElement, Zenon
    <3> QED
      BY <3>1, <3>2, <3>3, <2>1
  <2>4. CASE Device(t) # d
    <3>1. Held(b, d) = Held(a, d)
      BY <2>4, <1>1 DEF Held
    <3> QED
      BY <3>1, <2>2
  <2> QED
    BY <2>3, <2>4
<1>5. b.tokens \subseteq S
  BY <1>1, <1>2
<1> HIDE DEF b
<1>6. Counted(b, S, limit, share)
  BY <1>1, <1>3, <1>4, <1>5 DEF Counted
<1> QED
  BY <1>6 DEF b

\* Fewer tokens, counted again, are within every limit.
LEMMA FewerCounted ==
  ASSUME NEW a, NEW S, NEW limit \in Nat, NEW share \in Nat, NEW b,
         Counted(a, S, limit, share), b.tokens \subseteq a.tokens,
         b = [tokens |-> b.tokens, total |-> b.total], b.total = Cardinality(b.tokens)
  PROVE  Counted(b, S, limit, share)
<1>1. /\ IsFiniteSet(a.tokens) /\ a.total = Cardinality(a.tokens) /\ Cardinality(a.tokens) \in Nat
      /\ a.tokens \subseteq S /\ a.total <= limit
  BY FS_CardinalityType DEF Counted
<1>2. IsFiniteSet(b.tokens) /\ Cardinality(b.tokens) <= Cardinality(a.tokens)
  BY <1>1, FS_Subset
<1>3. Cardinality(b.tokens) \in Nat
  BY <1>2, FS_CardinalityType
<1>4. ASSUME NEW d \in Devices PROVE Cardinality(Held(b, d)) <= share
  <2>1. Held(a, d) \in SUBSET a.tokens /\ Held(b, d) \in SUBSET Held(a, d)
    BY DEF Held
  <2>2. IsFiniteSet(Held(a, d))
    BY <2>1, <1>1, FS_Subset
  <2>3. /\ IsFiniteSet(Held(b, d)) /\ Cardinality(Held(b, d)) <= Cardinality(Held(a, d))
    BY <2>1, <2>2, FS_Subset
  <2>4. Cardinality(Held(a, d)) \in Nat /\ Cardinality(Held(b, d)) \in Nat
    BY <2>2, <2>3, FS_CardinalityType
  <2>5. Cardinality(Held(a, d)) <= share
    BY DEF Counted
  <2> QED
    BY <2>3, <2>4, <2>5
<1> QED
  BY <1>1, <1>2, <1>3, <1>4 DEF Counted

\* The Drop of a lease keeps the count, whether or not the token is still there (remove).
LEMMA RemoveCounted ==
  ASSUME NEW a, NEW S, NEW limit \in Nat, NEW share \in Nat, NEW t,
         Counted(a, S, limit, share)
  PROVE  Counted(Remove(a, t), S, limit, share)
<1> DEFINE b == Remove(a, t)
<1>1. CASE t \notin a.tokens
  BY <1>1 DEF Remove
<1>2. CASE t \in a.tokens
  <2>1. /\ b.tokens = a.tokens \ {t} /\ b.total = SaturatingSub(a.total, 1)
        /\ b = [tokens |-> b.tokens, total |-> b.total]
    BY <1>2 DEF Remove
  <2>2. IsFiniteSet(a.tokens) /\ a.total = Cardinality(a.tokens) /\ Cardinality(a.tokens) \in Nat
    BY FS_CardinalityType DEF Counted
  <2>3. Cardinality(b.tokens) = Cardinality(a.tokens) - 1 /\ IsFiniteSet(b.tokens)
    BY <2>1, <2>2, <1>2, FS_RemoveElement
  <2>4. Cardinality(b.tokens) \in Nat
    BY <2>3, FS_CardinalityType
  <2>5. b.total = Cardinality(b.tokens)
    BY <2>1, <2>2, <2>3, <2>4 DEF SaturatingSub
  <2> HIDE DEF b
  <2>6. Counted(b, S, limit, share)
    BY <2>1, <2>5, FewerCounted
  <2> QED
    BY <2>1, <2>6 DEF b
<1> QED
  BY <1>1, <1>2

\* A device evicted: nothing of it is left, and what it held is free (evict_endpoint).
LEMMA EvictCounted ==
  ASSUME NEW a, NEW S, NEW limit \in Nat, NEW share \in Nat, NEW d,
         Counted(a, S, limit, share)
  PROVE  /\ Counted(EvictEndpoint(a, d), S, limit, share)
         /\ Cardinality(Held(EvictEndpoint(a, d), d)) = 0
         /\ Held(a, d) # {} => EvictEndpoint(a, d).total < limit
<1> DEFINE b == EvictEndpoint(a, d)
<1>1. /\ b.tokens = a.tokens \ Held(a, d)
      /\ b.total = SaturatingSub(a.total, Cardinality(Held(a, d)))
      /\ b = [tokens |-> b.tokens, total |-> b.total]
  BY DEF EvictEndpoint
<1>2. /\ IsFiniteSet(a.tokens) /\ a.total = Cardinality(a.tokens) /\ Cardinality(a.tokens) \in Nat
      /\ a.total <= limit
  BY FS_CardinalityType DEF Counted
<1>3. Held(a, d) \in SUBSET a.tokens /\ a.tokens \cap Held(a, d) = Held(a, d)
  BY DEF Held
<1>4. IsFiniteSet(Held(a, d))
  BY <1>2, <1>3, FS_Subset
<1>5. Cardinality(Held(a, d)) \in Nat
  BY <1>4, FS_CardinalityType
<1>6. IsFiniteSet(b.tokens) /\ Cardinality(b.tokens) = Cardinality(a.tokens) - Cardinality(Held(a, d))
  <2>1. /\ IsFiniteSet(a.tokens \ Held(a, d))
        /\ Cardinality(a.tokens \ Held(a, d))
             = Cardinality(a.tokens) - Cardinality(a.tokens \cap Held(a, d))
    BY <1>2, FS_Difference, Zenon
  <2> QED
    BY <2>1, <1>1, <1>3, SMTT(30)
<1>7. Cardinality(b.tokens) \in Nat
  BY <1>6, FS_CardinalityType
<1>8. b.total = Cardinality(b.tokens)
  BY <1>1, <1>2, <1>5, <1>6, <1>7 DEF SaturatingSub
<1>9. Held(b, d) = {}
  BY <1>1 DEF Held
<1>10. ASSUME Held(a, d) # {} PROVE b.total < limit
  <2>1. Cardinality(Held(a, d)) # 0
    BY <1>4, <1>10, FS_EmptySet
  <2> QED
    BY <2>1, <1>2, <1>5, <1>6, <1>8
<1> HIDE DEF b
<1>11. Counted(b, S, limit, share)
  BY <1>1, <1>8, FewerCounted
<1>12. Cardinality(Held(b, d)) = 0
  BY <1>9, FS_EmptySet
<1> QED
  BY <1>10, <1>11, <1>12 DEF b
-----------------------------------------------------------------------------
(* What a step may change *)

\* Who is whose, by the layout.
LEMMA LayoutFacts ==
  ASSUME Types
  PROVE  /\ DeviceOf \in [Connections -> Devices \cup {None}]
         /\ ConnectionOf \in [Streams -> Connections]
         /\ \A s \in Streams : Device(s) = DeviceOf[ConnectionOf[s]]
         /\ \A c \in Connections : Device(c) = DeviceOf[c]
         /\ layout.opens \in [Streams -> SUBSET Opens]
<1>1. /\ layout.device \in [Connections -> Devices \cup {None}]
      /\ layout.connection \in [Streams -> Connections]
      /\ layout.opens \in [Streams -> SUBSET Opens]
  BY HostConnectionsAssumption DEF Types
<1>2. \A s \in Streams : s \notin Connections
  BY HostConnectionsAssumption
<1> QED
  BY <1>1, <1>2 DEF Device, DeviceOf, ConnectionOf

\* The bounds of the tables are numbers, and the ones a registration needs are not zero.
LEMMA Limits ==
  /\ MaxConnections \in Nat /\ MaxPerDevice \in Nat /\ MaxPtys \in Nat /\ MaxPtysPerDevice \in Nat
  /\ MaxSubscriptions \in Nat /\ MaxPreHello \in Nat /\ 1 \in Nat
  /\ 0 < MaxConnections /\ 0 < MaxPerDevice /\ 0 < MaxPreHello
BY HostConnectionsAssumption

\* A table's count does not depend on anything but the table and the layout.
LEMMA CountedNext ==
  ASSUME layout' = layout, NEW S, NEW limit, NEW share
  PROVE  /\ Counted(admissions', S, limit, share) => Counted(admissions, S, limit, share)'
         /\ Counted(ptys', S, limit, share) => Counted(ptys, S, limit, share)'
         /\ Counted(subscribers', S, limit, share) => Counted(subscribers, S, limit, share)'
BY DEF Counted, Held, Device, DeviceOf, ConnectionOf

Loop == {"ready", "preface", "draining"}

\* No stream and no lease of a stream changes.
LEMMA DoorStep ==
  ASSUME HInv,
         UNCHANGED <<layout, stream, leases, subscribers, child>>,
         conn' \in [Connections -> ConnRecord], handles' \subseteq Connections,
         Counted(admissions', Connections, MaxConnections, MaxPerDevice),
         \A c \in Connections : ConnOK(c, conn[c])',
         \A s \in Streams : ServedOK(s, stream[s], conn[ConnectionOf[s]])'
  PROVE  HInv'
<1> USE DEF leases
<1>1. Types'
  BY DEF HInv, Types
<1>2. LeaseInv'
  <2>1. Counted(admissions, Connections, MaxConnections, MaxPerDevice)'
    BY CountedNext
  <2>2. /\ Counted(ptys, Streams, MaxPtys, MaxPtysPerDevice)'
        /\ Counted(subscribers, Streams, MaxSubscriptions, 1)'
    BY CountedNext DEF HInv, LeaseInv, PtyInv
  <2> QED
    BY <2>1, <2>2, Zenon DEF HInv, LeaseInv, PtyInv, Resumables, HoldsPty
<1>3. \A s \in Streams : StreamOK(stream[s], child[s])'
  BY DEF HInv, StreamOK
<1> QED
  BY <1>1, <1>2, <1>3 DEF HInv

\* A step of the connections, within the loops that have tasks.
LEMMA ConnectionsStep ==
  ASSUME HInv,
         UNCHANGED <<layout, paired, revoking, stream, leases, subscribers, child>>,
         conn' \in [Connections -> ConnRecord], handles' \subseteq Connections,
         Counted(admissions', Connections, MaxConnections, MaxPerDevice),
         \A c \in Connections : ConnOK(c, conn[c])',
         \A c \in Connections : Tasks(c) # {} =>
           conn'[c].stage \in Loop /\ (conn'[c].open => conn[c].open)
  PROVE  HInv'
<1>1. ASSUME NEW s \in Streams PROVE ServedOK(s, stream[s], conn[ConnectionOf[s]])'
  <2>1. ServedOK(s, stream[s], conn[ConnectionOf[s]])
    BY DEF HInv
  <2>2. ConnectionOf[s] \in Connections /\ ConnectionOf' = ConnectionOf /\ Device(s)' = Device(s)
    BY LayoutFacts DEF HInv, ConnectionOf, Device, DeviceOf
  <2>3. CASE stream[s].stage \in Alive
    <3>1. s \in Tasks(ConnectionOf[s])
      BY <2>3 DEF Tasks, StreamsOf, Alive, LeasedStages
    <3>2. /\ conn'[ConnectionOf[s]].stage \in Loop
          /\ conn'[ConnectionOf[s]].open => conn[ConnectionOf[s]].open
      BY <3>1, <2>2
    <3> QED
      BY <2>1, <2>2, <3>2 DEF ServedOK, Loop
  <2>4. CASE stream[s].stage \notin Alive
    BY <2>1, <2>2, <2>4 DEF ServedOK, Alive, Allowed
  <2> QED
    BY <2>3, <2>4
<1> QED
  BY <1>1, DoorStep

\* A connection with tasks is in its loop.
LEMMA TasksAreServed ==
  ASSUME HInv, NEW c \in Connections, Tasks(c) # {}
  PROVE  conn[c].stage \in Loop
<1>1. PICK s \in Streams : ConnectionOf[s] = c /\ stream[s].stage \notin {"none", "over"}
  BY DEF Tasks, StreamsOf
<1>2. stream[s].stage \in Alive
  BY <1>1 DEF HInv, Types, StreamRecord, Alive
<1> QED
  BY <1>1, <1>2 DEF HInv, ServedOK, Loop

\* The same for one connection whose handle and slot stay as they are.
LEMMA ConnectionGoesOn ==
  ASSUME HInv, NEW c \in Connections, NEW k \in ConnRecord, conn' = [conn EXCEPT ![c] = k],
         UNCHANGED <<layout, paired, revoking, stream, leases, subscribers, child, admissions,
                     handles>>,
         ConnOK(c, k),
         Tasks(c) # {} => k.stage \in Loop /\ (k.open => conn[c].open)
  PROVE  HInv'
<1>1. conn \in [Connections -> ConnRecord] /\ handles \subseteq Connections
  BY DEF HInv, Types
<1>2. conn' \in [Connections -> ConnRecord]
  BY <1>1
<1>3. Counted(admissions', Connections, MaxConnections, MaxPerDevice)
  BY DEF HInv, LeaseInv
<1>4. ASSUME NEW x \in Connections PROVE ConnOK(x, conn[x])'
  <2>1. ConnOK(x, conn'[x])
    BY <1>1 DEF HInv
  <2> QED
    BY <2>1 DEF ConnOK, DeviceOf
<1>5. ASSUME NEW x \in Connections, Tasks(x) # {}
      PROVE  conn'[x].stage \in Loop /\ (conn'[x].open => conn[x].open)
  <2>1. CASE x = c
    BY <2>1, <1>1, <1>5
  <2>2. CASE x # c
    BY <2>2, <1>1, <1>5, TasksAreServed
  <2> QED
    BY <2>1, <2>2
<1> QED
  BY <1>1, <1>2, <1>3, <1>4, <1>5, ConnectionsStep

\* A step of one stream and its child, whatever it does to the leases.
LEMMA StreamStep ==
  ASSUME HInv, NEW s \in Streams, NEW k \in StreamRecord, NEW ch \in ChildRecord,
         stream' = [stream EXCEPT ![s] = k], child' = [child EXCEPT ![s] = ch],
         UNCHANGED <<layout, paired, revoking, admissions, handles>>,
         conn' \in [Connections -> ConnRecord],
         \A c \in Connections :
           /\ conn'[c].stage = conn[c].stage \/ {conn[c].stage, conn'[c].stage} \subseteq Loop
           /\ conn'[c].open => conn[c].open,
         PtyInv', Counted(subscribers', Streams, MaxSubscriptions, 1),
         subscribers'.tokens \subseteq {x \in Streams : stream'[x].stage = "running"},
         StreamOK(k, ch), ServedOK(s, k, conn'[ConnectionOf[s]])
  PROVE  HInv'
<1>1. /\ stream \in [Streams -> StreamRecord] /\ child \in [Streams -> ChildRecord]
      /\ \A x \in Streams : StreamOK(stream[x], child[x])
      /\ \A x \in Streams : ServedOK(x, stream[x], conn[ConnectionOf[x]])
  BY DEF HInv, Types
<1>2. /\ stream'[s] = k /\ child'[s] = ch
      /\ \A x \in Streams : x # s => stream'[x] = stream[x] /\ child'[x] = child[x]
  BY <1>1
<1>3. Types'
  BY <1>1 DEF HInv, Types
<1>4. LeaseInv'
  <2>1. /\ Counted(admissions, Connections, MaxConnections, MaxPerDevice)'
        /\ Counted(subscribers, Streams, MaxSubscriptions, 1)'
    BY CountedNext, Zenon DEF HInv, LeaseInv
  <2> QED
    BY <2>1 DEF LeaseInv
<1>5. ASSUME NEW x \in Streams
      PROVE  (StreamOK(stream[x], child[x]) /\ ServedOK(x, stream[x], conn[ConnectionOf[x]]))'
  <2>1. StreamOK(stream'[x], child'[x])
    BY <1>1, <1>2
  <2>2. ServedOK(x, stream'[x], conn'[ConnectionOf[x]])
    <3>1. ConnectionOf[x] \in Connections
      BY LayoutFacts DEF HInv
    <3>2. x # s => ServedOK(x, stream[x], conn'[ConnectionOf[x]])
      BY <3>1, <1>1 DEF ServedOK, Loop
    <3> QED
      BY <3>2, <1>2
  <2>3. ConnectionOf' = ConnectionOf /\ Device(x)' = Device(x)
    BY DEF ConnectionOf, Device, DeviceOf
  <2> QED
    BY <2>1, <2>2, <2>3, Zenon DEF StreamOK, ServedOK
<1>6. \A c \in Connections : ConnOK(c, conn[c])'
  BY DEF HInv, ConnOK, DeviceOf, Loop, Handled
<1> QED
  BY <1>3, <1>4, <1>5, <1>6 DEF HInv

\* A stream that neither takes nor drops a terminal's lease leaves them true.
LEMMA LeasesStay ==
  ASSUME HInv, NEW s \in Streams, NEW k \in StreamRecord, stream' = [stream EXCEPT ![s] = k],
         UNCHANGED <<layout, leases>>,
         k.stage \in LeasedStages => k.kind = "terminal",
         k.stage \in LeasedStages <=> stream[s].stage \in LeasedStages,
         k.stage \in LeasedStages => k.target = stream[s].target /\ k.session = stream[s].session
  PROVE  PtyInv'
<1> USE DEF leases
<1>1. /\ stream \in [Streams -> StreamRecord] /\ PtyInv
      /\ \A x \in Streams : StreamOK(stream[x], child[x])
  BY DEF HInv, Types, LeaseInv
<1>2. stream'[s] = k /\ \A x \in Streams : x # s => stream'[x] = stream[x]
  BY <1>1
<1>3. \A x \in Streams : HoldsPty(x) <=> stream[x].stage \in LeasedStages
  BY <1>1 DEF HoldsPty, StreamOK, Allowed
<1>4. \A x \in Streams : HoldsPty(x)' <=> stream'[x].stage \in LeasedStages
  BY <1>1, <1>2 DEF HoldsPty, StreamOK, Allowed
<1>5. \A x \in Streams : /\ HoldsPty(x)' <=> HoldsPty(x)
                         /\ HoldsPty(x) => /\ stream'[x].target = stream[x].target
                                           /\ stream'[x].session = stream[x].session
  BY <1>2, <1>3, <1>4
<1>6. Counted(ptys, Streams, MaxPtys, MaxPtysPerDevice)'
  BY <1>1, CountedNext DEF PtyInv
<1>7. ptys'.tokens = {x \in Streams : HoldsPty(x)'}
  BY <1>1, <1>5 DEF PtyInv
<1>8. Resumables' = Resumables
  BY <1>1, <1>5 DEF PtyInv, Resumables
<1>9. \A x \in Streams : attached'[x] = IF HoldsPty(x)' THEN stream'[x].session ELSE None
  BY <1>1, <1>5 DEF PtyInv
<1>10. resumable' = Cardinality(Resumables') /\ resumable' \in Nat
       /\ attached' \in [Streams -> Sessions \cup {None}]
  BY <1>1, <1>8 DEF PtyInv
<1> QED
  BY <1>6, <1>7, <1>9, <1>10 DEF PtyInv

\* The same with the connections as they are.
LEMMA StreamGoesOn ==
  ASSUME HInv, NEW s \in Streams, NEW k \in StreamRecord, NEW ch \in ChildRecord,
         stream' = [stream EXCEPT ![s] = k], child' = [child EXCEPT ![s] = ch],
         UNCHANGED <<layout, paired, revoking, conn, leases, subscribers, admissions, handles>>,
         k.stage \in LeasedStages <=> stream[s].stage \in LeasedStages,
         k.stage \in LeasedStages => k.target = stream[s].target /\ k.session = stream[s].session,
         stream[s].stage = "running" => k.stage = "running",
         StreamOK(k, ch), ServedOK(s, k, conn[ConnectionOf[s]])
  PROVE  HInv'
<1>1. conn' \in [Connections -> ConnRecord]
  BY DEF HInv, Types
<1>2. /\ Counted(subscribers', Streams, MaxSubscriptions, 1)
      /\ subscribers'.tokens \subseteq {x \in Streams : stream'[x].stage = "running"}
  BY Zenon DEF HInv, LeaseInv, Types
<1>3. PtyInv'
  BY LeasesStay, Zenon DEF StreamOK, Allowed
<1> QED
  BY <1>1, <1>2, <1>3, StreamStep, Zenon

\* The Drop of a terminal's lease takes its own count from each total.
LEMMA DropCounts ==
  ASSUME HInv, NEW s \in Streams, DropPtyLease(s), stream' = Over(s), UNCHANGED layout
  PROVE  PtyInv'
<1>1. stream \in [Streams -> StreamRecord] /\ attached \in [Streams -> Sessions \cup {None}]
  BY Zenon DEF HInv, Types, LeaseInv, PtyInv
<1>2. /\ stream'[s].stage = "over"
      /\ \A x \in Streams : x # s => stream'[x] = stream[x]
  BY <1>1 DEF Over, NoStream
<1>3. /\ ~HoldsPty(s)'
      /\ \A x \in Streams : x # s => (HoldsPty(x)' <=> HoldsPty(x))
  BY <1>2 DEF HoldsPty, LeasedStages
<1>4. /\ Counted(ptys, Streams, MaxPtys, MaxPtysPerDevice)
      /\ ptys.tokens = {x \in Streams : HoldsPty(x)}
      /\ resumable = Cardinality(Resumables)
      /\ \A x \in Streams : attached[x] = IF HoldsPty(x) THEN stream[x].session ELSE None
      /\ resumable \in Nat
  BY Zenon DEF HInv, LeaseInv, PtyInv
<1>5. CASE ~HoldsPty(s)
  <2>1. UNCHANGED <<ptys, resumable, attached>>
    BY <1>5 DEF DropPtyLease, leases
  <2>2. Resumables' = Resumables
    BY <2>1, <1>2, <1>4, <1>5, SMTT(30) DEF Resumables
  <2>3. /\ Counted(ptys, Streams, MaxPtys, MaxPtysPerDevice)'
        /\ ptys'.tokens = {x \in Streams : HoldsPty(x)'}
    BY <2>1, <1>3, <1>4, <1>5, CountedNext, SMTT(30)
  <2> QED
    BY <2>1, <2>2, <2>3, <1>1, <1>2, <1>3, <1>4, <1>5, SMTT(30) DEF PtyInv
<1>6. CASE HoldsPty(s)
  <2>1. /\ ptys' = Remove(ptys, s)
        /\ resumable' = resumable - (IF IsResumable(stream[s].target) THEN 1 ELSE 0)
        /\ attached' = [attached EXCEPT ![s] = None]
    BY <1>6 DEF DropPtyLease
  <2>2. /\ Counted(ptys', Streams, MaxPtys, MaxPtysPerDevice) /\ ptys'.tokens = ptys.tokens \ {s}
    <3>0. /\ Counted(ptys, Streams, MaxPtys, MaxPtysPerDevice)
          /\ MaxPtys \in Nat /\ MaxPtysPerDevice \in Nat
      BY <1>4, Limits
    <3>1. /\ Counted(Remove(ptys, s), Streams, MaxPtys, MaxPtysPerDevice)
          /\ Remove(ptys, s).tokens = ptys.tokens \ {s}
      <4>1. Counted(Remove(ptys, s), Streams, MaxPtys, MaxPtysPerDevice)
        BY <3>0, RemoveCounted
      <4> QED
        BY <4>1 DEF Remove
    <3> QED
      BY <3>1, <2>1
  <2>3. ptys'.tokens = {x \in Streams : HoldsPty(x)'}
    BY <2>2, <1>3, <1>4
  <2>4. Resumables' = Resumables \ {s}
    BY <2>2, <1>2, <1>4 DEF Resumables
  <2>5. IsFiniteSet(ptys.tokens) /\ Resumables \in SUBSET ptys.tokens
    BY <1>4 DEF Counted, Resumables
  <2>6. IsFiniteSet(Resumables)
    BY <2>5, FS_Subset
  <2>7. IsFiniteSet(Resumables \ {s}) /\ Cardinality(Resumables \ {s}) =
          IF s \in Resumables THEN Cardinality(Resumables) - 1 ELSE Cardinality(Resumables)
    BY <2>6, FS_RemoveElement
  <2>8. s \in Resumables <=> IsResumable(stream[s].target)
    BY <1>4, <1>6 DEF Resumables
  <2>9. resumable' = Cardinality(Resumables')
    BY <2>1, <2>4, <2>7, <2>8, <1>4, SMTT(30)
  <2>10. resumable' \in Nat
    BY <2>9, <2>4, <2>7, FS_CardinalityType
  <2>11. /\ attached' \in [Streams -> Sessions \cup {None}]
         /\ \A x \in Streams : attached'[x] = IF HoldsPty(x)' THEN stream'[x].session ELSE None
    BY <2>1, <1>1, <1>2, <1>3, <1>4, Zenon
  <2>12. Counted(ptys, Streams, MaxPtys, MaxPtysPerDevice)'
    BY <2>2, CountedNext, Zenon
  <2> QED
    BY <2>3, <2>9, <2>10, <2>11, <2>12 DEF PtyInv
<1> QED
  BY <1>5, <1>6

\* A task that is over, with its lease dropped and its slot given back.
LEMMA TaskEnds ==
  ASSUME HInv, NEW s \in Streams, NEW ch \in ChildRecord, stream' = Over(s), DropPtyLease(s),
         child' = [child EXCEPT ![s] = ch],
         UNCHANGED <<layout, paired, revoking, conn, admissions, handles>>,
         \/ subscribers' = Remove(subscribers, s)
         \/ subscribers' = subscribers /\ stream[s].stage # "running",
         StreamOK([NoStream EXCEPT !.stage = "over"], ch)
  PROVE  HInv'
<1> DEFINE k == [NoStream EXCEPT !.stage = "over"]
           b == Remove(subscribers, s)
<1>1. stream \in [Streams -> StreamRecord] /\ conn' \in [Connections -> ConnRecord]
  BY DEF HInv, Types
<1>2. k \in StreamRecord /\ k.stage = "over" /\ stream' = [stream EXCEPT ![s] = k]
  BY Zenon DEF NoStream, StreamRecord, Over
<1>3. /\ Counted(subscribers, Streams, MaxSubscriptions, 1) /\ MaxSubscriptions \in Nat /\ 1 \in Nat
      /\ subscribers.tokens \subseteq {x \in Streams : stream[x].stage = "running"}
  BY Limits DEF HInv, LeaseInv
<1>4. Counted(b, Streams, MaxSubscriptions, 1)
  BY <1>3, RemoveCounted
<1>5. b.tokens = subscribers.tokens \ {s}
  BY DEF Remove
<1>6. ServedOK(s, k, conn'[ConnectionOf[s]])
  BY <1>2 DEF ServedOK, Alive, Allowed, LeasedStages
<1> HIDE DEF b, k
<1>7. Counted(subscribers', Streams, MaxSubscriptions, 1)
  BY <1>3, <1>4 DEF b
<1>8. subscribers'.tokens \subseteq subscribers.tokens \ {s}
  BY <1>3, <1>5 DEF b
<1>9. subscribers'.tokens \subseteq {x \in Streams : stream'[x].stage = "running"}
  BY <1>1, <1>2, <1>3, <1>8
<1>10. PtyInv'
  BY DropCounts
<1>11. StreamOK(k, ch)
  BY DEF k
<1> QED
  BY <1>1, <1>2, <1>6, <1>7, <1>9, <1>10, <1>11, StreamStep, Zenon

-----------------------------------------------------------------------------
(* The actions of a connection *)

\* Authorize, the session loop and the peer, which leave handles and slots alone.
LEMMA LoopStep ==
  ASSUME HInv, NEW c \in Connections,
         \/ Authorize(c) \/ HelloDone(c) \/ KeepWaiting(c) \/ HelloFails(c) \/ AcceptStream(c)
         \/ NoPreface(c) \/ LoopEnds(c) \/ Joined(c) \/ PeerCloses(c)
  PROVE  HInv'
<1>1. conn \in [Connections -> ConnRecord] /\ conn[c] \in ConnRecord /\ ConnOK(c, conn[c])
  BY DEF HInv, Types
<1>2. Tasks(c) # {} => conn[c].stage \in Loop
  BY TasksAreServed
<1>0. 0 \in 0..MaxPreHello /\ (shutdown = "no") \in BOOLEAN
  BY Limits
<1> USE DEF host, door
<1>3. CASE Authorize(c)
  <2> DEFINE k == IF DeviceOf[c] \in paired THEN [conn[c] EXCEPT !.stage = "authorized", !.open = TRUE]
                                            ELSE [conn[c] EXCEPT !.stage = "gone"]
  <2>1. k \in ConnRecord /\ conn' = [conn EXCEPT ![c] = k]
    BY <1>1, <1>3, Zenon DEF Authorize, ConnRecord
  <2>2. k.stage \in {"authorized", "gone"} /\ conn[c].stage = "none" /\ DeviceOf[c] # None
    BY <1>1, <1>3 DEF Authorize, ConnRecord
  <2> HIDE DEF k
  <2>3. ConnOK(c, k) /\ Tasks(c) = {}
    BY <2>2, <1>1, <1>2, Zenon DEF ConnOK, Handled, Loop
  <2> QED
    BY <2>1, <2>3, <1>3, ConnectionGoesOn, Zenon DEF Authorize
<1>4. CASE HelloDone(c)
  <2> DEFINE k == [conn[c] EXCEPT !.stage = "ready", !.tries = 0, !.watch = (shutdown = "no")]
  <2>0. k \in ConnRecord
    BY <1>0, <1>1, Zenon DEF ConnRecord
  <2>1. k \in ConnRecord /\ conn' = [conn EXCEPT ![c] = k]
    BY <2>0, <1>1, <1>4, Zenon DEF HelloDone
  <2>2. k.stage = "ready" /\ k.open = conn[c].open /\ conn[c].stage = "hello"
    BY <1>1, <1>4, Zenon DEF HelloDone, ConnRecord
  <2> HIDE DEF k
  <2>3. ConnOK(c, k) /\ k.stage \in Loop
    BY <2>2, <1>1, Zenon DEF ConnOK, Handled, Loop
  <2> QED
    BY <2>1, <2>2, <2>3, <1>4, ConnectionGoesOn, Zenon DEF HelloDone
<1>5. CASE KeepWaiting(c)
  <2> DEFINE k == IF conn[c].tries + 1 < MaxPreHello
                  THEN [conn[c] EXCEPT !.tries = conn[c].tries + 1]
                  ELSE [conn[c] EXCEPT !.stage = "closing", !.open = FALSE, !.tries = 0]
  <2>0. k \in ConnRecord
    <3>1. conn[c].tries \in 0..MaxPreHello
      BY <1>1 DEF ConnRecord
    <3>2. conn[c].tries + 1 < MaxPreHello => conn[c].tries + 1 \in 0..MaxPreHello
      BY <3>1, Limits
    <3> QED
      BY <3>2, <1>0, <1>1, Zenon DEF ConnRecord
  <2>1. k \in ConnRecord /\ conn' = [conn EXCEPT ![c] = k]
    BY <2>0, <1>1, <1>5 DEF KeepWaiting
  <2>2. k.stage \in {"hello", "closing"} /\ (k.open => conn[c].open) /\ conn[c].stage = "hello"
    BY <1>1, <1>5 DEF KeepWaiting, ConnRecord
  <2> HIDE DEF k
  <2>3. ConnOK(c, k) /\ Tasks(c) = {}
    BY <2>2, <1>1, <1>2, SMTT(30) DEF ConnOK, Handled, Loop
  <2> QED
    BY <2>1, <2>3, <1>5, ConnectionGoesOn, Zenon DEF KeepWaiting
<1>6. CASE HelloFails(c)
  <2> DEFINE k == [conn[c] EXCEPT !.stage = "closing", !.tries = 0]
  <2>1. k \in ConnRecord /\ conn' = [conn EXCEPT ![c] = k]
    BY <1>0, <1>1, <1>6, Zenon DEF HelloFails, ConnRecord
  <2>2. k.stage = "closing" /\ k.open = conn[c].open /\ conn[c].stage = "hello"
    BY <1>1, <1>6 DEF HelloFails, ConnRecord
  <2> HIDE DEF k
  <2>3. ConnOK(c, k) /\ Tasks(c) = {}
    BY <2>2, <1>1, <1>2 DEF ConnOK, Handled, Loop
  <2> QED
    BY <2>1, <2>3, <1>6, ConnectionGoesOn, Zenon DEF HelloFails
<1>7. CASE AcceptStream(c) \/ NoPreface(c)
  <2> DEFINE k == [conn[c] EXCEPT !.stage = IF AcceptStream(c) THEN "preface" ELSE "ready"]
  <2>1. k \in ConnRecord /\ conn' = [conn EXCEPT ![c] = k]
    BY <1>1, <1>7 DEF AcceptStream, NoPreface, ConnRecord
  <2>2. k.stage \in {"ready", "preface"} /\ k.open = conn[c].open /\ conn[c].stage \in {"ready", "preface"}
    BY <1>1, <1>7 DEF AcceptStream, NoPreface, ConnRecord
  <2> HIDE DEF k
  <2>3. ConnOK(c, k) /\ k.stage \in Loop
    BY <2>2, <1>1 DEF ConnOK, Handled, Loop
  <2> QED
    BY <2>1, <2>2, <2>3, <1>7, ConnectionGoesOn, Zenon DEF AcceptStream, NoPreface
<1>8. CASE LoopEnds(c)
  <2>1. PICK k \in {[conn[c] EXCEPT !.stage = "draining"],
                    [conn[c] EXCEPT !.stage = "draining", !.open = FALSE]} :
               conn' = [conn EXCEPT ![c] = k]
    BY <1>1, <1>8 DEF LoopEnds
  <2>2. k \in ConnRecord
    BY <1>1, <2>1, Zenon DEF ConnRecord
  <2>3. k.stage = "draining" /\ (k.open => conn[c].open) /\ conn[c].stage = "ready"
    BY <1>1, <1>8, <2>1 DEF LoopEnds, ConnRecord
  <2>4. ConnOK(c, k) /\ k.stage \in Loop
    BY <2>3, <1>1 DEF ConnOK, Handled, Loop
  <2> QED
    BY <2>1, <2>2, <2>3, <2>4, <1>8, ConnectionGoesOn, Zenon DEF LoopEnds
<1>9. CASE Joined(c)
  <2> DEFINE k == [conn[c] EXCEPT !.stage = "closing", !.watch = FALSE]
  <2>1. k \in ConnRecord /\ conn' = [conn EXCEPT ![c] = k]
    BY <1>1, <1>9, Zenon DEF Joined, ConnRecord
  <2>2. k.stage = "closing" /\ k.open = conn[c].open /\ conn[c].stage = "draining"
    BY <1>1, <1>9 DEF Joined, ConnRecord
  <2> HIDE DEF k
  <2>3. ConnOK(c, k) /\ Tasks(c) = {}
    BY <2>2, <1>1, <1>9 DEF ConnOK, Handled, Joined
  <2> QED
    BY <2>1, <2>3, <1>9, ConnectionGoesOn, Zenon DEF Joined
<1>10. CASE PeerCloses(c)
  <2> DEFINE k == [conn[c] EXCEPT !.open = FALSE]
  <2>1. k \in ConnRecord
    BY <1>1, Zenon DEF ConnRecord
  <2>2. conn' = [conn EXCEPT ![c] = k]
    <3>1. conn' = [x \in Connections |-> [conn[x] EXCEPT !.open = @ /\ x \notin {c}]]
      BY <1>10 DEF PeerCloses, Closed
    <3>2. \A x \in Connections : x # c => [conn[x] EXCEPT !.open = @ /\ x \notin {c}] = conn[x]
      BY <1>1 DEF ConnRecord
    <3>3. [conn[c] EXCEPT !.open = @ /\ c \notin {c}] = k
      BY <1>1, Zenon DEF ConnRecord
    <3> QED
      BY <3>1, <3>2, <3>3, <1>1, Zenon
  <2>3. k.stage = conn[c].stage /\ ~k.open
    BY <1>1 DEF ConnRecord
  <2> HIDE DEF k
  <2>4. ConnOK(c, k)
    BY <2>3, <1>1, Zenon DEF ConnOK
  <2> QED
    BY <2>1, <2>2, <2>3, <2>4, <1>2, <1>10, ConnectionGoesOn, Zenon DEF PeerCloses
<1> QED
  BY <1>3, <1>4, <1>5, <1>6, <1>7, <1>8, <1>9, <1>10

\* A connection is granted a slot or turned away; a device that loses slots gains one.
LEMMA AdmitStep ==
  ASSUME HInv, NEW c \in Connections, Admit(c)
  PROVE  /\ HInv'
         /\ \A x \in admissions.tokens \ admissions'.tokens :
              \E n \in admissions'.tokens \ admissions.tokens : Device(n) = Device(x)
<1> DEFINE d == DeviceOf[c]
           held == Held(admissions, d)
           room == HasRoom(admissions, d, MaxConnections, MaxPerDevice)
           out == EvictEndpoint(admissions, d)
           base == IF room THEN admissions ELSE out
           granted == room \/ (held # {} /\ HasRoom(base, d, MaxConnections, MaxPerDevice))
           k == IF granted THEN [conn[c] EXCEPT !.stage = "admitted", !.evicted = held \ base.tokens]
                           ELSE [conn[c] EXCEPT !.stage = "gone", !.open = FALSE]
<1>1. /\ conn \in [Connections -> ConnRecord] /\ conn[c] \in ConnRecord /\ handles \subseteq Connections
      /\ Counted(admissions, Connections, MaxConnections, MaxPerDevice)
      /\ \A x \in Connections : ConnOK(x, conn[x])
  BY Zenon DEF HInv, Types, LeaseInv
<1>2. /\ conn[c].stage = "authorized"
      /\ admissions' = IF granted THEN Add(base, c) ELSE base
      /\ conn' = [conn EXCEPT ![c] = k]
      /\ UNCHANGED <<layout, paired, revoking, stream, leases, subscribers, child, handles>>
  BY DEF Admit, host
<1>3. c \notin admissions.tokens /\ DeviceOf[c] # None /\ Device(c) = d
  BY <1>1, <1>2, LayoutFacts DEF ConnOK, HInv
<1>4. admissions.tokens \subseteq Connections
  BY <1>1 DEF Counted
<1>5. /\ Counted(out, Connections, MaxConnections, MaxPerDevice)
      /\ Cardinality(Held(out, d)) = 0
      /\ held # {} => out.total < MaxConnections
  <2>1. MaxConnections \in Nat /\ MaxPerDevice \in Nat
    BY Limits
  <2> QED
    BY <2>1, <1>1, EvictCounted, Zenon
<1>6. out.tokens = admissions.tokens \ held
  BY DEF EvictEndpoint
<1>7. k \in ConnRecord
  <2>1. held \ base.tokens \in SUBSET Connections
    BY <1>4 DEF Held
  <2> HIDE DEF granted, held, base
  <2> QED
    BY <2>1, <1>1, Zenon DEF ConnRecord
<1>8. k.stage = IF granted THEN "admitted" ELSE "gone"
  <2> HIDE DEF granted, held, base
  <2> QED
    BY <1>1 DEF ConnRecord
<1> HIDE DEF out, k
<1>9. ~room /\ held # {} => HasRoom(base, d, MaxConnections, MaxPerDevice)
  BY <1>5, Limits DEF HasRoom
<1>10. Counted(base, Connections, MaxConnections, MaxPerDevice)
  BY <1>1, <1>5
<1>11. base.tokens \subseteq admissions.tokens /\ admissions.tokens \ base.tokens \subseteq held
  BY <1>6
<1>12. granted => HasRoom(base, Device(c), MaxConnections, MaxPerDevice)
  BY <1>3
<1>13. ~granted => base.tokens = admissions.tokens
  BY <1>6, <1>9, Zenon
<1> HIDE DEF base, granted
<1>14. granted => Counted(Add(base, c), Connections, MaxConnections, MaxPerDevice)
  <2>1. MaxConnections \in Nat /\ MaxPerDevice \in Nat /\ c \notin base.tokens
    BY Limits, <1>3, <1>11
  <2> QED
    BY <2>1, <1>10, <1>12, AddCounted
<1>15. Counted(admissions', Connections, MaxConnections, MaxPerDevice)
  BY <1>2, <1>10, <1>14
<1>16. /\ granted => admissions'.tokens = base.tokens \cup {c}
       /\ ~granted => admissions'.tokens = admissions.tokens
  BY <1>2, <1>13 DEF Add
<1>17. conn' \in [Connections -> ConnRecord] /\ handles' \subseteq Connections
  BY <1>1, <1>2, <1>7
<1>18. ASSUME NEW x \in Connections PROVE ConnOK(x, conn[x])'
  <2>1. CASE x = c
    <3>1. conn'[x] = k
      BY <2>1, <1>1, <1>2
    <3> QED
      BY <2>1, <3>1, <1>2, <1>3, <1>8, <1>16 DEF ConnOK, Handled, DeviceOf
  <2>2. CASE x # c
    <3>1. conn'[x] = conn[x] /\ (x \in admissions'.tokens => x \in admissions.tokens)
      BY <2>2, <1>1, <1>2, <1>11, <1>16, Zenon
    <3> QED
      BY <3>1, <1>1, <1>2, Zenon DEF ConnOK, DeviceOf
  <2> QED
    BY <2>1, <2>2
<1>19. ASSUME NEW x \in Connections, Tasks(x) # {}
       PROVE  conn'[x].stage \in Loop /\ (conn'[x].open => conn[x].open)
  <2>1. conn[x].stage \in Loop
    BY <1>19, TasksAreServed
  <2>2. conn'[x] = conn[x]
    BY <2>1, <1>1, <1>2 DEF Loop
  <2> QED
    BY <2>1, <2>2
<1>20. HInv'
  BY <1>2, <1>15, <1>17, <1>18, <1>19, ConnectionsStep
<1>21. ASSUME NEW x \in admissions.tokens \ admissions'.tokens
       PROVE  \E n \in admissions'.tokens \ admissions.tokens : Device(n) = Device(x)
  <2>1. granted /\ x \in held
    BY <1>21, <1>11, <1>16
  <2>2. Device(x) = d /\ c \in admissions'.tokens
    BY <2>1, <1>16 DEF Held
  <2> QED
    BY <2>2, <1>3
<1> QED
  BY <1>20, <1>21

\* Closing connections changes nothing else of them.
LEMMA ClosedFacts ==
  ASSUME Types, NEW cs
  PROVE  /\ Closed(cs) \in [Connections -> ConnRecord]
         /\ \A x \in Connections : /\ Closed(cs)[x].stage = conn[x].stage
                                   /\ Closed(cs)[x].open = (conn[x].open /\ x \notin cs)
                                   /\ Closed(cs)[x].evicted = conn[x].evicted
<1>1. ASSUME NEW x \in Connections
      PROVE  LET k == [conn[x] EXCEPT !.open = @ /\ x \notin cs]
             IN /\ k \in ConnRecord
                /\ k.stage = conn[x].stage /\ k.open = (conn[x].open /\ x \notin cs)
                /\ k.evicted = conn[x].evicted
  <2>1. conn[x] \in ConnRecord
    BY DEF Types
  <2>2. (conn[x].open /\ x \notin cs) \in BOOLEAN
    OBVIOUS
  <2> QED
    BY <2>1, <2>2, Zenon DEF ConnRecord
<1> QED
  BY <1>1, Zenon DEF Closed

\* Handles, slots and ends of connections.
LEMMA HandleStep ==
  ASSUME HInv, NEW c \in Connections, Register(c) \/ CloseConnection(c) \/ ReleaseConnection(c)
  PROVE  HInv'
<1>1. /\ conn \in [Connections -> ConnRecord] /\ handles \subseteq Connections /\ Types
      /\ Counted(admissions, Connections, MaxConnections, MaxPerDevice)
      /\ \A x \in Connections : ConnOK(x, conn[x])
  BY Zenon DEF HInv, Types, LeaseInv
<1>2. \A x \in Connections : Tasks(x) # {} => conn[x].stage \in Loop
  BY TasksAreServed
<1> USE DEF host
<1>3. CASE Register(c)
  <2> DEFINE stale == conn[c].evicted \cap handles
  <2>1. /\ conn[c].stage = "admitted" /\ handles' = (handles \ stale) \cup {c}
        /\ conn' = [Closed(stale) EXCEPT ![c].stage = "hello", ![c].evicted = {}]
        /\ UNCHANGED <<layout, paired, revoking, stream, leases, subscribers, child, admissions>>
    BY <1>3 DEF Register
  <2> HIDE DEF stale
  <2>2. /\ Closed(stale) \in [Connections -> ConnRecord]
        /\ \A x \in Connections : /\ Closed(stale)[x].stage = conn[x].stage
                                  /\ Closed(stale)[x].open = (conn[x].open /\ x \notin stale)
    BY <1>1, ClosedFacts
  <2>3. /\ conn'[c].stage = "hello" /\ conn' \in [Connections -> ConnRecord]
        /\ \A x \in Connections : conn'[x].open = (conn[x].open /\ x \notin stale)
        /\ \A x \in Connections : x # c => conn'[x].stage = conn[x].stage
    <3> DEFINE q == Closed(stale)
    <3> HIDE DEF q
    <3>1. q \in [Connections -> ConnRecord]
      BY <2>2 DEF q
    <3>2. conn' = [q EXCEPT ![c].stage = "hello", ![c].evicted = {}]
      BY <2>1 DEF q
    <3>3. conn' = [q EXCEPT ![c] = [q[c] EXCEPT !.stage = "hello", !.evicted = {}]]
      BY <3>1, <3>2, Zenon
    <3>4. LET k == [q[c] EXCEPT !.stage = "hello", !.evicted = {}]
          IN k \in ConnRecord /\ k.stage = "hello" /\ k.open = q[c].open
      <4>1. q[c] \in ConnRecord /\ {} \in SUBSET Connections
        BY <3>1
      <4>2. [q[c] EXCEPT !.stage = "hello", !.evicted = {}] \in ConnRecord
        BY <4>1, Zenon DEF ConnRecord
      <4> QED
        BY <4>1, <4>2 DEF ConnRecord
    <3>5. conn' \in [Connections -> ConnRecord] /\ conn'[c].stage = "hello"
          /\ conn'[c].open = q[c].open /\ \A x \in Connections : x # c => conn'[x] = q[x]
      BY <3>1, <3>3, <3>4
    <3> QED
      BY <3>5, <2>2 DEF q
  <2>4. ASSUME NEW x \in Connections PROVE ConnOK(x, conn[x])'
    <3>1. DeviceOf[x] # None \/ conn[x].stage = "none"
      BY <1>1, Zenon DEF ConnOK
    <3>2. conn'[x].open /\ conn'[x].stage \in Handled => x \in handles'
      BY <1>1, <2>1, <2>3, Zenon DEF ConnOK
    <3>3. x \in admissions'.tokens => conn'[x].stage \notin {"none", "authorized", "gone"}
      BY <1>1, <2>1, <2>3 DEF ConnOK
    <3>4. conn'[x].stage # "none" => DeviceOf[x] # None
      BY <3>1, <2>1, <2>3
    <3> QED
      BY <3>2, <3>3, <3>4, <2>1 DEF ConnOK, DeviceOf
  <2>5. ASSUME NEW x \in Connections, Tasks(x) # {}
        PROVE  conn'[x].stage \in Loop /\ (conn'[x].open => conn[x].open)
    BY <2>5, <1>2, <2>1, <2>3, Zenon DEF Loop
  <2>6. handles' \subseteq Connections /\ Counted(admissions', Connections, MaxConnections, MaxPerDevice)
    BY <1>1, <2>1
  <2> QED
    BY <2>1, <2>3, <2>4, <2>5, <2>6, ConnectionsStep
<1>4. CASE CloseConnection(c)
  <2> DEFINE k == [conn[c] EXCEPT !.stage = "released", !.open = FALSE]
  <2>1. /\ conn[c].stage = "closing" /\ handles' = handles \ {c} /\ conn' = [conn EXCEPT ![c] = k]
        /\ UNCHANGED <<layout, paired, revoking, stream, leases, subscribers, child, admissions>>
    BY <1>1, <1>4, Zenon DEF CloseConnection
  <2>2. k \in ConnRecord /\ k.stage = "released"
    <3>1. conn[c] \in ConnRecord
      BY <1>1
    <3> QED
      BY <3>1, Zenon DEF ConnRecord
  <2> HIDE DEF k
  <2>3. /\ conn' \in [Connections -> ConnRecord] /\ conn'[c].stage = "released"
        /\ \A x \in Connections : x # c => conn'[x] = conn[x]
    BY <1>1, <2>1, <2>2
  <2>4. ASSUME NEW x \in Connections PROVE ConnOK(x, conn[x])'
    BY <1>1, <2>1, <2>3, Zenon DEF ConnOK, Handled, DeviceOf
  <2>5. ASSUME NEW x \in Connections, Tasks(x) # {}
        PROVE  conn'[x].stage \in Loop /\ (conn'[x].open => conn[x].open)
    BY <2>5, <1>2, <2>1, <2>3 DEF Loop
  <2>6. handles' \subseteq Connections /\ Counted(admissions', Connections, MaxConnections, MaxPerDevice)
    BY <1>1, <2>1
  <2> QED
    BY <2>1, <2>3, <2>4, <2>5, <2>6, ConnectionsStep
<1>5. CASE ReleaseConnection(c)
  <2> DEFINE k == [conn[c] EXCEPT !.stage = "gone"]
             b == Remove(admissions, c)
  <2>1. /\ conn[c].stage = "released" /\ admissions' = b /\ conn' = [conn EXCEPT ![c] = k]
        /\ UNCHANGED <<layout, paired, revoking, stream, leases, subscribers, child, handles>>
    BY <1>1, <1>5 DEF ReleaseConnection
  <2>2. k \in ConnRecord /\ k.stage = "gone"
    BY <1>1 DEF ConnRecord
  <2>3. Counted(b, Connections, MaxConnections, MaxPerDevice)
    <3>1. MaxConnections \in Nat /\ MaxPerDevice \in Nat
      BY Limits
    <3> QED
      BY <3>1, <1>1, RemoveCounted
  <2>4. b.tokens = admissions.tokens \ {c}
    BY DEF Remove
  <2> HIDE DEF k, b
  <2>5. /\ conn' \in [Connections -> ConnRecord] /\ conn'[c].stage = "gone"
        /\ \A x \in Connections : x # c => conn'[x] = conn[x]
    BY <1>1, <2>1, <2>2
  <2>6. ASSUME NEW x \in Connections PROVE ConnOK(x, conn[x])'
    BY <1>1, <2>1, <2>4, <2>5, Zenon DEF ConnOK, Handled, DeviceOf
  <2>7. ASSUME NEW x \in Connections, Tasks(x) # {}
        PROVE  conn'[x].stage \in Loop /\ (conn'[x].open => conn[x].open)
    BY <2>7, <1>2, <2>1, <2>5 DEF Loop
  <2>8. handles' \subseteq Connections /\ Counted(admissions', Connections, MaxConnections, MaxPerDevice)
    BY <1>1, <2>1, <2>3
  <2> QED
    BY <2>1, <2>5, <2>6, <2>7, <2>8, ConnectionsStep
<1> QED
  BY <1>3, <1>4, <1>5

\* A device paired or unpaired, the ones revoked cut off, the daemon shut down.
LEMMA CutStep ==
  ASSUME HInv,
         \/ \E d \in Dialling : Pair(d) \/ Unpair(d)
         \/ CloseRevoked \/ Shutdown \/ CloseEndpoint
  PROVE  HInv'
<1>1. /\ conn \in [Connections -> ConnRecord] /\ handles \subseteq Connections /\ Types
      /\ Counted(admissions, Connections, MaxConnections, MaxPerDevice)
      /\ \A x \in Connections : ConnOK(x, conn[x])
      /\ \A s \in Streams : ServedOK(s, stream[s], conn[ConnectionOf[s]])
      /\ \A s \in Streams : ConnectionOf[s] \in Connections /\ Device(s) = DeviceOf[ConnectionOf[s]]
  BY LayoutFacts, Zenon DEF HInv, Types, LeaseInv
<1> USE DEF door
<1>2. CASE Shutdown
  BY <1>1, <1>2, ConnectionsStep, TasksAreServed, Zenon DEF Shutdown, ConnOK, DeviceOf
<1>3. CASE CloseEndpoint
  <2>1. /\ conn' = Closed(Connections)
        /\ UNCHANGED <<layout, paired, revoking, stream, leases, subscribers, child, admissions,
                       handles>>
    BY <1>3 DEF CloseEndpoint
  <2>2. /\ conn' \in [Connections -> ConnRecord]
        /\ \A x \in Connections : conn'[x].stage = conn[x].stage /\ ~conn'[x].open
    BY <1>1, <2>1, ClosedFacts, Zenon
  <2>3. \A x \in Connections : ConnOK(x, conn[x])'
    BY <1>1, <2>1, <2>2, Zenon DEF ConnOK, DeviceOf
  <2>4. \A x \in Connections : Tasks(x) # {} => conn'[x].stage \in Loop
    BY <2>2, TasksAreServed, Zenon
  <2> QED
    BY <1>1, <2>1, <2>2, <2>3, <2>4, ConnectionsStep, Zenon
<1>4. ASSUME NEW d \in Dialling, Pair(d) PROVE HInv'
  <2>1. paired' = paired \cup {d}
        /\ UNCHANGED <<layout, revoking, conn, stream, leases, subscribers, child, admissions,
                       handles>>
    BY <1>4 DEF Pair
  <2>2. \A x \in Connections : ConnOK(x, conn[x])'
    BY <1>1, <2>1, Zenon DEF ConnOK, DeviceOf
  <2>3. \A s \in Streams : ServedOK(s, stream[s], conn[ConnectionOf[s]])'
    BY <1>1, <2>1, Zenon DEF ServedOK, Device, DeviceOf, ConnectionOf
  <2> QED
    BY <1>1, <2>1, <2>2, <2>3, DoorStep, Zenon
<1>5. ASSUME NEW d \in Dialling, Unpair(d) PROVE HInv'
  <2>1. /\ paired' = paired \ {d} /\ revoking' = d /\ revoking = None
        /\ UNCHANGED <<layout, conn, stream, leases, subscribers, child, admissions, handles>>
    BY <1>5, Zenon DEF Unpair
  <2>2. \A x \in Connections : ConnOK(x, conn[x])'
    BY <1>1, <2>1, Zenon DEF ConnOK, DeviceOf
  <2>3. ASSUME NEW s \in Streams PROVE ServedOK(s, stream[s], conn[ConnectionOf[s]])'
    <3>1. stream[s].stage \in Allowed => Device(s) # None
      BY <1>1, Zenon DEF ServedOK, ConnOK, Allowed, Alive
    <3>2. ConnectionOf' = ConnectionOf /\ Device(s)' = Device(s)
      BY <2>1 DEF Device, DeviceOf, ConnectionOf
    <3> QED
      BY <1>1, <2>1, <3>1, <3>2, Zenon DEF ServedOK
  <2> QED
    BY <1>1, <2>1, <2>2, <2>3, DoorStep, Zenon
<1>6. CASE CloseRevoked
  <2> DEFINE cs == {c \in handles : DeviceOf[c] = revoking}
  <2>1. /\ conn' = Closed(cs) /\ revoking' = None
        /\ UNCHANGED <<layout, paired, stream, leases, subscribers, child, admissions, handles>>
    BY <1>6 DEF CloseRevoked
  <2>2. /\ conn' \in [Connections -> ConnRecord]
        /\ \A x \in Connections : /\ conn'[x].stage = conn[x].stage
                                  /\ conn'[x].open = (conn[x].open /\ x \notin cs)
    BY <1>1, <2>1, ClosedFacts, Zenon
  <2>3. \A x \in Connections : ConnOK(x, conn[x])'
    BY <1>1, <2>1, <2>2, Zenon DEF ConnOK, DeviceOf
  <2>4. ASSUME NEW s \in Streams PROVE ServedOK(s, stream[s], conn[ConnectionOf[s]])'
    <3>1. ConnectionOf' = ConnectionOf /\ Device(s)' = Device(s)
      BY <2>1, Zenon DEF Device, DeviceOf, ConnectionOf
    <3>2. stream[s].stage \in Alive => conn'[ConnectionOf[s]].stage \in {"ready", "preface", "draining"}
      BY <1>1, <2>2, Zenon DEF ServedOK
    <3>3. ASSUME stream[s].stage \in Allowed, Device(s) \notin paired
          PROVE  ~conn'[ConnectionOf[s]].open
      <4>1. CASE revoking # Device(s)
        BY <4>1, <3>3, <1>1, <2>2, Zenon DEF ServedOK
      <4>2. CASE revoking = Device(s)
        <5>1. conn[ConnectionOf[s]].stage \in Handled
          BY <3>3, <1>1, Zenon DEF ServedOK, Allowed, Alive, Handled
        <5>2. conn[ConnectionOf[s]].open => ConnectionOf[s] \in cs
          BY <5>1, <4>2, <1>1, Zenon DEF ConnOK
        <5> QED
          BY <5>2, <1>1, <2>2, Zenon
      <4> QED
        BY <4>1, <4>2, Zenon
    <3> QED
      BY <3>1, <3>2, <3>3, <2>1, Zenon DEF ServedOK
  <2> HIDE DEF cs
  <2> QED
    BY <1>1, <2>1, <2>2, <2>3, <2>4, DoorStep, Zenon
<1> QED
  BY <1>2, <1>3, <1>4, <1>5, <1>6
-----------------------------------------------------------------------------
(* The actions of a stream that owns no process *)

\* A stream that has no process yet goes on, or is over.
LEMMA PlainStep ==
  ASSUME HInv, NEW s \in Streams, NEW k \in StreamRecord, stream' = [stream EXCEPT ![s] = k],
         stream[s].stage \in {"open", "asked"}, k.stage \in {"running", "asked", "over"},
         UNCHANGED <<layout, paired, revoking, conn, leases, subscribers, admissions, handles, child>>
  PROVE  HInv'
<1>1. /\ child \in [Streams -> ChildRecord] /\ child[s] \in ChildRecord
      /\ StreamOK(stream[s], child[s]) /\ ServedOK(s, stream[s], conn[ConnectionOf[s]])
  BY DEF HInv, Types
<1>2. child' = [child EXCEPT ![s] = child[s]]
  BY <1>1, Zenon
<1>3. child[s] = NoChild
  BY <1>1, Zenon DEF StreamOK, Owning
<1>4. StreamOK(k, child[s])
  BY <1>3 DEF StreamOK, NoChild, Allowed, LeasedStages, Owning
<1>5. ServedOK(s, k, conn[ConnectionOf[s]])
  BY <1>1, Zenon DEF ServedOK, Alive, Allowed, LeasedStages
<1>6. k.stage \notin LeasedStages /\ stream[s].stage \notin LeasedStages
  BY DEF LeasedStages
<1> QED
  BY <1>1, <1>2, <1>4, <1>5, <1>6, StreamGoesOn, Zenon

\* The record a stream that is over leaves behind.
LEMMA OverFacts ==
  ASSUME HInv, NEW s \in Streams
  PROVE  LET k == [NoStream EXCEPT !.stage = "over"]
         IN k \in StreamRecord /\ k.stage = "over" /\ Over(s) = [stream EXCEPT ![s] = k]
BY Zenon DEF NoStream, StreamRecord, Over

\* The session of a preview is one of the device's, or none.
LEMMA SoleSession ==
  ASSUME HInv, NEW d
  PROVE  SoleAttachedSession(d) \in Sessions \cup {None}
<1> DEFINE named == {attached[s] : s \in {t \in Streams : Device(t) = d}} \ {None}
<1>1. named \subseteq Sessions
  BY DEF HInv, LeaseInv, PtyInv
<1>2. Cardinality(named) = 1 => named # {}
  BY FS_EmptySet
<1> HIDE DEF named
<1>3. Cardinality(named) = 1 => (CHOOSE x \in named : TRUE) \in named
  BY <1>2
<1> QED
  BY <1>1, <1>3 DEF SoleAttachedSession, named

\* The first step of a task asks the allowlist again and goes on.
LEMMA AskedStep ==
  ASSUME HInv, NEW s \in Streams, NEW kind, NEW next \in StreamRecord,
         next.stage \in {"running", "asked", "over"}, Asked(s, kind, next)
  PROVE  HInv'
<1> DEFINE over == [NoStream EXCEPT !.stage = "over"]
<1>1. over \in StreamRecord /\ over.stage = "over" /\ Over(s) = [stream EXCEPT ![s] = over]
  BY OverFacts
<1> HIDE DEF over
<1>2. PICK k \in {next, over} : stream' = [stream EXCEPT ![s] = k]
  BY <1>1 DEF Asked
<1>3. k \in StreamRecord /\ k.stage \in {"running", "asked", "over"}
  BY <1>1, <1>2
<1>4. /\ stream[s].stage \in {"open", "asked"}
      /\ UNCHANGED <<layout, paired, revoking, conn, leases, subscribers, admissions, handles, child>>
  BY Zenon DEF Asked, host, door
<1> QED
  BY <1>2, <1>3, <1>4, PlainStep, Zenon

\* A stream whose request is answered, started or refused without a terminal keeps the invariant.
LEMMA StartStep ==
  ASSUME HInv, NEW s \in Streams,
         \/ StartUpload(s) \/ StartDownload(s) \/ StartSnapshot(s) \/ StartAgent(s)
         \/ StartForward(s) \/ Request(s)
  PROVE  HInv'
<1>1. stream \in [Streams -> StreamRecord] /\ stream[s] \in StreamRecord /\ Types
  BY DEF HInv, Types
<1>2. ASSUME NEW stage \in {"running", "asked", "over"}
      PROVE  LET k == [stream[s] EXCEPT !.stage = stage] IN k \in StreamRecord /\ k.stage = stage
  BY <1>1 DEF StreamRecord
<1>3. CASE StartUpload(s)
  BY <1>2, <1>3, AskedStep, Zenon DEF StartUpload
<1>4. CASE StartAgent(s)
  BY <1>2, <1>4, AskedStep, Zenon DEF StartAgent
<1>5. CASE StartSnapshot(s)
  <2> DEFINE busy == \E t \in TasksOf(ConnectionOf[s], "snapshot") : stream[t].stage = "running"
             k == [stream[s] EXCEPT !.stage = IF busy THEN "over" ELSE "running"]
  <2>1. Asked(s, "snapshot", k)
    BY <1>5 DEF StartSnapshot
  <2> HIDE DEF busy
  <2>2. k \in StreamRecord /\ k.stage \in {"running", "asked", "over"}
    BY <1>1 DEF StreamRecord
  <2> HIDE DEF k
  <2> QED
    BY <2>1, <2>2, AskedStep
<1>6. CASE StartDownload(s)
  <2> DEFINE x == SoleAttachedSession(Device(s))
             k == [stream[s] EXCEPT !.stage = "running", !.session = x]
  <2>1. Asked(s, "download", k)
    BY <1>6 DEF StartDownload
  <2>2. x \in Sessions \cup {None}
    BY <1>1, SoleSession
  <2> HIDE DEF x
  <2>3. k \in StreamRecord /\ k.stage \in {"running", "asked", "over"}
    BY <1>1, <2>2, Zenon DEF StreamRecord
  <2> HIDE DEF k
  <2> QED
    BY <2>1, <2>3, AskedStep
<1>7. CASE StartForward(s) \/ Request(s)
  <2> DEFINE k == [stream[s] EXCEPT !.stage = "running"]
  <2>1. k \in StreamRecord /\ k.stage = "running"
    BY <1>2
  <2>2. /\ stream[s].stage \in {"open", "asked"} /\ stream' = [stream EXCEPT ![s] = k]
        /\ UNCHANGED <<layout, paired, revoking, conn, leases, subscribers, admissions, handles, child>>
    BY <1>1, <1>7 DEF StartForward, Request, host, door
  <2> HIDE DEF k
  <2> QED
    BY <2>1, <2>2, PlainStep, Zenon
<1> QED
  BY <1>3, <1>4, <1>5, <1>6, <1>7

\* A stream dispatched by its loop.
LEMMA DispatchStep ==
  ASSUME HInv, NEW c \in Connections, NEW s \in Streams, NEW kind \in Kinds, Dispatch(c, s, kind)
  PROVE  HInv'
<1> DEFINE k == [stream[s] EXCEPT !.kind = kind, !.stage = IF GateOpen(c, kind) THEN "open" ELSE "over"]
           n == [conn[c] EXCEPT !.stage = "ready"]
<1>1. /\ stream \in [Streams -> StreamRecord] /\ stream[s] \in StreamRecord
      /\ conn \in [Connections -> ConnRecord] /\ conn[c] \in ConnRecord
      /\ child \in [Streams -> ChildRecord] /\ child[s] \in ChildRecord
      /\ StreamOK(stream[s], child[s])
  BY DEF HInv, Types
<1>2. /\ conn[c].stage = "preface" /\ ConnectionOf[s] = c /\ stream[s].stage = "none"
      /\ conn' = [conn EXCEPT ![c] = n] /\ stream' = [stream EXCEPT ![s] = k]
      /\ UNCHANGED <<layout, paired, revoking, leases, subscribers, admissions, handles, child>>
  BY <1>1, Zenon DEF Dispatch, Unopened, StreamsOf, host, door
<1>3. k \in StreamRecord /\ k.stage \in {"open", "over"}
  <2>1. kind \in Kinds \cup {None}
    OBVIOUS
  <2> QED
    BY <2>1, <1>1, Zenon DEF StreamRecord
<1>4. n \in ConnRecord /\ n.stage = "ready" /\ n.open = conn[c].open
  BY <1>1 DEF ConnRecord
<1> HIDE DEF k, n
<1>5. child[s] = NoChild /\ child' = [child EXCEPT ![s] = child[s]]
  BY <1>1, <1>2 DEF StreamOK, Owning
<1>6. StreamOK(k, child[s])
  BY <1>3, <1>5 DEF StreamOK, NoChild, Allowed, LeasedStages, Owning
<1>7. /\ conn' \in [Connections -> ConnRecord] /\ conn'[c] = n
      /\ \A x \in Connections : x # c => conn'[x] = conn[x]
  BY <1>1, <1>2, <1>4
<1>8. ServedOK(s, k, conn'[ConnectionOf[s]])
  BY <1>2, <1>3, <1>4, <1>7 DEF ServedOK, Alive, Allowed, LeasedStages
<1>9. \A x \in Connections :
        /\ conn'[x].stage = conn[x].stage \/ {conn[x].stage, conn'[x].stage} \subseteq Loop
        /\ conn'[x].open => conn[x].open
  BY <1>2, <1>4, <1>7 DEF Loop
<1>10. k.stage \notin LeasedStages /\ stream[s].stage \notin LeasedStages
  BY <1>2, <1>3 DEF LeasedStages
<1>11. /\ Counted(subscribers', Streams, MaxSubscriptions, 1)
       /\ subscribers'.tokens \subseteq {x \in Streams : stream'[x].stage = "running"}
  BY <1>1, <1>2, Zenon DEF HInv, LeaseInv
<1>12. PtyInv'
  BY <1>2, <1>3, <1>10, LeasesStay, Zenon
<1> QED
  BY <1>1, <1>2, <1>3, <1>5, <1>6, <1>7, <1>8, <1>9, <1>11, <1>12, StreamStep, Zenon

\* A subscription takes the slot its device held, and is granted whenever the device held one.
LEMMA SubscribeStep ==
  ASSUME HInv, NEW s \in Streams, Subscribe(s)
  PROVE  /\ HInv'
         /\ \A x \in subscribers.tokens \ subscribers'.tokens :
              \E n \in subscribers'.tokens \ subscribers.tokens : Device(n) = Device(x)
<1> DEFINE base == EvictEndpoint(subscribers, Device(s))
           granted == base.total < MaxSubscriptions
           k == IF granted THEN [stream[s] EXCEPT !.stage = "running"]
                           ELSE [NoStream EXCEPT !.stage = "over"]
<1>1. /\ stream \in [Streams -> StreamRecord] /\ stream[s] \in StreamRecord
      /\ conn \in [Connections -> ConnRecord]
      /\ child \in [Streams -> ChildRecord] /\ child[s] \in ChildRecord
      /\ StreamOK(stream[s], child[s]) /\ ServedOK(s, stream[s], conn[ConnectionOf[s]])
      /\ Counted(subscribers, Streams, MaxSubscriptions, 1)
      /\ subscribers.tokens \subseteq {x \in Streams : stream[x].stage = "running"}
  BY Zenon DEF HInv, Types, LeaseInv
<1>2. /\ stream[s].stage = "asked"
      /\ subscribers' = IF granted THEN Add(base, s) ELSE base
      /\ stream' = IF s \in subscribers'.tokens THEN [stream EXCEPT ![s].stage = "running"] ELSE Over(s)
      /\ UNCHANGED <<layout, paired, revoking, conn, leases, admissions, handles, child>>
  BY DEF Subscribe, TryAddSuperseding, host, door
<1>3. /\ Counted(base, Streams, MaxSubscriptions, 1)
      /\ Cardinality(Held(base, Device(s))) = 0
      /\ Held(subscribers, Device(s)) # {} => granted
  <2>1. MaxSubscriptions \in Nat /\ 1 \in Nat
    BY Limits
  <2> QED
    BY <2>1, <1>1, EvictCounted, Zenon
<1>4. base.tokens = subscribers.tokens \ Held(subscribers, Device(s))
  BY Zenon DEF EvictEndpoint
<1>5. s \notin subscribers.tokens
  BY <1>1, <1>2
<1> HIDE DEF base
<1>6. granted => Counted(Add(base, s), Streams, MaxSubscriptions, 1)
  <2>1. MaxSubscriptions \in Nat /\ 1 \in Nat /\ s \notin base.tokens
    BY Limits, <1>4, <1>5
  <2>2. granted => HasRoom(base, Device(s), MaxSubscriptions, 1)
    BY <1>3 DEF HasRoom
  <2> QED
    BY <2>1, <2>2, <1>3, AddCounted, Zenon
<1>7. Counted(subscribers', Streams, MaxSubscriptions, 1)
  BY <1>2, <1>3, <1>6
<1>8. subscribers'.tokens = IF granted THEN base.tokens \cup {s} ELSE base.tokens
  BY <1>2 DEF Add
<1>9. stream' = [stream EXCEPT ![s] = k]
  BY <1>1, <1>2, <1>4, <1>5, <1>8, Zenon DEF Over
<1>10. k \in StreamRecord /\ k.stage = IF granted THEN "running" ELSE "over"
  <2>1. [stream[s] EXCEPT !.stage = "running"] \in StreamRecord
    BY <1>1 DEF StreamRecord
  <2>2. [NoStream EXCEPT !.stage = "over"] \in StreamRecord
    BY Zenon DEF NoStream, StreamRecord
  <2>3. [stream[s] EXCEPT !.stage = "running"].stage = "running"
    BY <1>1 DEF StreamRecord
  <2> QED
    BY <2>1, <2>2, <2>3 DEF NoStream
<1> HIDE DEF k, granted
<1>11. subscribers'.tokens \subseteq {x \in Streams : stream'[x].stage = "running"}
  <2>1. ASSUME NEW x \in subscribers'.tokens PROVE x \in Streams /\ stream'[x].stage = "running"
    <3>1. CASE x \in subscribers.tokens
      BY <3>1, <1>1, <1>5, <1>9, Zenon
    <3>2. CASE x \notin subscribers.tokens
      <4>1. x = s /\ granted
        BY <3>2, <2>1, <1>4, <1>8
      <4> QED
        BY <4>1, <1>1, <1>9, <1>10, Zenon
    <3> QED
      BY <3>1, <3>2
  <2> QED
    BY <2>1
<1>12. child[s] = NoChild /\ child' = [child EXCEPT ![s] = child[s]]
  BY <1>1, <1>2 DEF StreamOK, Owning
<1>13. StreamOK(k, child[s])
  BY <1>10, <1>12 DEF StreamOK, NoChild, Allowed, LeasedStages, Owning
<1>14. ServedOK(s, k, conn'[ConnectionOf[s]])
  BY <1>1, <1>2, <1>10 DEF ServedOK, Alive, Allowed, LeasedStages
<1>15. k.stage \notin LeasedStages /\ stream[s].stage \notin LeasedStages
  BY <1>2, <1>10 DEF LeasedStages
<1>16. HInv'
  <2>1. PtyInv'
    BY <1>2, <1>9, <1>10, <1>15, LeasesStay, Zenon
  <2> QED
    BY <2>1, <1>1, <1>2, <1>7, <1>9, <1>10, <1>11, <1>12, <1>13, <1>14, StreamStep, Zenon
<1>17. ASSUME NEW x \in subscribers.tokens \ subscribers'.tokens
       PROVE  \E n \in subscribers'.tokens \ subscribers.tokens : Device(n) = Device(x)
  <2>1. x \in Held(subscribers, Device(s))
    BY <1>4, <1>8, <1>17
  <2>2. granted /\ Device(x) = Device(s)
    BY <2>1, <1>3, Zenon DEF Held, granted
  <2> QED
    BY <2>2, <1>5, <1>8
<1> QED
  BY <1>16, <1>17

\* A dropped child has been hung up, if it lives.
LEMMA DroppedFacts ==
  ASSUME NEW k \in ChildRecord
  PROVE  /\ DroppedPty(k) \in ChildRecord
         /\ DroppedPty(k).owner = "nobody" /\ DroppedPty(k).state = k.state
         /\ DroppedPty(k).ladder = k.ladder
         /\ DroppedPty(k).signal = IF k.state = "live" /\ k.ladder = "none" THEN Hup ELSE k.signal
<1>1. (IF k.state = "live" /\ k.ladder = "none" THEN Hup ELSE k.signal) \in 0..Kill
  BY DEF ChildRecord, Hup, Kill
<1>2. DroppedPty(k) \in ChildRecord
  BY <1>1, Zenon DEF ChildRecord, DroppedPty
<1> QED
  BY <1>2 DEF ChildRecord, DroppedPty

\* Answered, reset, or aborted: a task is over with all it owns.
LEMMA FinishStep ==
  ASSUME HInv, NEW s \in Streams, FinishStream(s) \/ AbortTask(s)
  PROVE  HInv' /\ subscribers'.tokens = subscribers.tokens \ {s} /\ stream'[s].stage = "over"
<1>1. /\ child \in [Streams -> ChildRecord] /\ child[s] \in ChildRecord
      /\ stream \in [Streams -> StreamRecord] /\ StreamOK(stream[s], child[s])
  BY DEF HInv, Types
<1>2. /\ stream' = Over(s) /\ subscribers' = Remove(subscribers, s)
      /\ UNCHANGED <<layout, paired, revoking, conn, admissions, handles>>
  BY Zenon DEF FinishStream, AbortTask, host, door
<1>3. CASE FinishStream(s)
  <2>1. DropPtyLease(s) /\ child' = [child EXCEPT ![s] = child[s]]
    BY <1>1, <1>3 DEF FinishStream, DropPtyLease, HoldsPty
  <2>2. child[s] = NoChild
    BY <1>1, <1>3, Zenon DEF FinishStream, StreamOK, Owning
  <2>3. StreamOK([NoStream EXCEPT !.stage = "over"], child[s])
    BY <2>2 DEF StreamOK, NoChild, NoStream, Allowed, LeasedStages, Owning
  <2> QED
    BY <1>1, <1>2, <2>1, <2>3, TaskEnds, Zenon DEF Remove, Over, NoStream
<1>4. CASE AbortTask(s)
  <2> DEFINE ch == IF child[s].owner = "task" THEN DroppedPty(child[s]) ELSE child[s]
  <2>1. DropPtyLease(s) /\ child' = [child EXCEPT ![s] = ch]
    BY <1>1, <1>4, Zenon DEF AbortTask
  <2> DEFINE k == DroppedPty(child[s])
  <2>2. k \in ChildRecord
    BY <1>1, DroppedFacts
  <2>3. /\ k.owner = "nobody" /\ k.state = child[s].state /\ k.ladder = child[s].ladder
        /\ k.signal = IF child[s].state = "live" /\ child[s].ladder = "none" THEN Hup ELSE child[s].signal
    BY <1>1, DroppedFacts
  <2> HIDE DEF k
  <2>4. StreamOK([NoStream EXCEPT !.stage = "over"], ch)
    <3>1. CASE child[s].owner = "task"
      BY <3>1, <2>3, <1>1 DEF StreamOK, NoStream, Allowed, LeasedStages, Owning, Hup, k
    <3>2. CASE child[s].owner # "task"
      BY <3>2, <1>1 DEF StreamOK, NoStream, Allowed, LeasedStages, Owning, Hup
    <3> QED
      BY <3>1, <3>2
  <2>5. ch \in ChildRecord
    BY <2>2, <1>1 DEF k
  <2> HIDE DEF ch
  <2> QED
    BY <1>1, <1>2, <2>1, <2>4, <2>5, TaskEnds, Zenon DEF Remove, Over, NoStream
<1> QED
  BY <1>3, <1>4, Zenon
-----------------------------------------------------------------------------
(* The actions of a terminal and its child *)

\* A stream's next stage changes nothing else of it.
LEMMA StageFacts ==
  ASSUME HInv, NEW s \in Streams, NEW stage \in Alive
  PROVE  LET k == [stream[s] EXCEPT !.stage = stage]
         IN /\ k \in StreamRecord /\ k.stage = stage
            /\ k.kind = stream[s].kind /\ k.target = stream[s].target /\ k.session = stream[s].session
<1>1. stream[s] \in StreamRecord
  BY DEF HInv, Types
<1>2. [stream[s] EXCEPT !.stage = stage] \in StreamRecord
  BY <1>1 DEF StreamRecord, Alive
<1> QED
  BY <1>1, <1>2 DEF StreamRecord

\* A terminal's task returns; its child, if any, is in other hands or hung up.
LEMMA TerminalEnds ==
  ASSUME HInv, NEW s \in Streams, NEW ch \in ChildRecord, EndTerminal(s),
         child' = [child EXCEPT ![s] = ch], stream[s].stage # "running",
         ch.owner # "task", ch.state = "starting" => ch.ladder = "none",
         ch.state = "live" /\ (ch.ladder # "none" \/ ch.owner = "nobody") => ch.signal >= Hup
  PROVE  HInv'
<1>1. /\ stream' = Over(s) /\ DropPtyLease(s)
      /\ UNCHANGED <<layout, paired, revoking, conn, admissions, handles, subscribers>>
  BY Zenon DEF EndTerminal, host, door
<1>2. StreamOK([NoStream EXCEPT !.stage = "over"], ch)
  BY DEF StreamOK, NoStream, Allowed, LeasedStages, Owning
<1> QED
  BY <1>1, <1>2, TaskEnds, Zenon

\* Up to the spawn there is no child, and the terminal may end at every step.
LEMMA NoChildYet ==
  ASSUME HInv, NEW s \in Streams, EndTerminal(s), UNCHANGED child,
         stream[s].stage \in {"open", "plan", "prepare"}
  PROVE  HInv'
<1>1. child \in [Streams -> ChildRecord] /\ child[s] \in ChildRecord /\ StreamOK(stream[s], child[s])
  BY DEF HInv, Types
<1>2. child[s] = NoChild /\ child' = [child EXCEPT ![s] = child[s]]
  BY <1>1, Zenon DEF StreamOK, Owning
<1>3. /\ child[s].owner # "task" /\ child[s].state # "starting" /\ child[s].state # "live"
      /\ stream[s].stage # "running"
  BY <1>2 DEF NoChild
<1> QED
  BY <1>1, <1>2, <1>3, TerminalEnds, Zenon

\* The open frame, the allowlist asked again, and every early end of a terminal keep the invariant.
LEMMA OpenStep ==
  ASSUME HInv, NEW s \in Streams,
         GiveUpTerminal(s) \/ \E open \in layout.opens[s] : OpenTerminal(s, open)
  PROVE  HInv'
<1>1. /\ stream \in [Streams -> StreamRecord] /\ stream[s] \in StreamRecord
      /\ child \in [Streams -> ChildRecord] /\ child[s] \in ChildRecord
      /\ StreamOK(stream[s], child[s]) /\ ServedOK(s, stream[s], conn[ConnectionOf[s]])
      /\ layout.opens[s] \subseteq Opens
  BY LayoutFacts, Zenon DEF HInv, Types
<1>2. CASE GiveUpTerminal(s)
  BY <1>2, NoChildYet, Zenon DEF GiveUpTerminal, IsTerminal
<1>3. ASSUME NEW open \in layout.opens[s], OpenTerminal(s, open), Device(s) \notin paired PROVE HInv'
  BY <1>3, NoChildYet DEF OpenTerminal, IsTerminal
<1>4. ASSUME NEW open \in layout.opens[s], OpenTerminal(s, open), Device(s) \in paired PROVE HInv'
  <2> DEFINE k == [stream[s] EXCEPT !.stage = "plan", !.target = open.target, !.session = open.session]
  <2>1. /\ stream[s].kind = "terminal" /\ stream[s].stage = "open"
        /\ stream' = [stream EXCEPT ![s] = k]
        /\ UNCHANGED <<layout, paired, revoking, conn, leases, subscribers, admissions, handles, child>>
    BY <1>1, <1>4, Zenon DEF OpenTerminal, IsTerminal, host, door
  <2>2. open.target \in Targets \cup {None} /\ open.session \in Sessions \cup {None}
    BY <1>1, <1>4, Zenon DEF Opens
  <2>3. k \in StreamRecord
    BY <1>1, <2>2, Zenon DEF StreamRecord
  <2>4. k.stage = "plan" /\ k.kind = "terminal"
    BY <1>1, <2>1 DEF StreamRecord
  <2> HIDE DEF k
  <2>5. child[s] = NoChild /\ child' = [child EXCEPT ![s] = child[s]]
    BY <1>1, <2>1, Zenon DEF StreamOK, Owning
  <2>6. StreamOK(k, child[s])
    BY <2>4, <2>5 DEF StreamOK, NoChild, Owning
  <2>7. ServedOK(s, k, conn[ConnectionOf[s]])
    BY <1>1, <1>4, <2>1, <2>4, Zenon DEF ServedOK, Alive
  <2>8. k.stage \notin LeasedStages /\ stream[s].stage \notin LeasedStages /\ stream[s].stage # "running"
    BY <2>1, <2>4, Zenon DEF LeasedStages
  <2> QED
    BY <1>1, <2>1, <2>3, <2>5, <2>6, <2>7, <2>8, StreamGoesOn, Zenon
<1> QED
  BY <1>2, <1>3, <1>4

\* The lease of a terminal adds its own count to each total.
LEMMA LeaseStep ==
  ASSUME HInv, NEW s \in Streams, LeasePty(s)
  PROVE  HInv'
<1>1. /\ stream \in [Streams -> StreamRecord] /\ stream[s] \in StreamRecord
      /\ child \in [Streams -> ChildRecord] /\ child[s] \in ChildRecord
      /\ conn \in [Connections -> ConnRecord]
      /\ StreamOK(stream[s], child[s]) /\ ServedOK(s, stream[s], conn[ConnectionOf[s]])
      /\ PtyInv
  BY Zenon DEF HInv, Types, LeaseInv
<1>2. CASE ~HasRoom(ptys, Device(s), MaxPtys, MaxPtysPerDevice)
  BY <1>2, NoChildYet DEF LeasePty, IsTerminal
<1>3. CASE HasRoom(ptys, Device(s), MaxPtys, MaxPtysPerDevice)
  <2> DEFINE k == [stream[s] EXCEPT !.stage = "prepare"]
  <2>1. /\ stream[s].kind = "terminal" /\ stream[s].stage = "plan"
        /\ ptys' = Add(ptys, s)
        /\ resumable' = resumable + (IF IsResumable(stream[s].target) THEN 1 ELSE 0)
        /\ attached' = [attached EXCEPT ![s] = stream[s].session]
        /\ stream' = [stream EXCEPT ![s] = k]
        /\ UNCHANGED <<layout, paired, revoking, conn, subscribers, admissions, handles, child>>
    BY <1>1, <1>3 DEF LeasePty, IsTerminal, host, door
  <2>2. k \in StreamRecord /\ k.stage = "prepare" /\ k.kind = "terminal"
        /\ k.target = stream[s].target /\ k.session = stream[s].session
    <3>1. "prepare" \in Alive
      BY DEF Alive, LeasedStages
    <3> QED
      BY <3>1, <2>1, StageFacts
  <2>3. stream[s].session \in Sessions \cup {None}
    BY <1>1 DEF StreamRecord
  <2> HIDE DEF k
  <2>4. /\ HoldsPty(s)' /\ ~HoldsPty(s) /\ s \notin ptys.tokens
        /\ \A x \in Streams : x # s => (HoldsPty(x)' <=> HoldsPty(x)) /\ stream'[x] = stream[x]
        /\ stream'[s].target = stream[s].target /\ stream'[s].session = stream[s].session
    BY <1>1, <2>1, <2>2, Zenon DEF HoldsPty, LeasedStages, PtyInv
  <2>5. ptys'.tokens = ptys.tokens \cup {s}
    BY <2>1, Zenon DEF Add
  <2>6. Counted(ptys, Streams, MaxPtys, MaxPtysPerDevice)'
    <3>1. MaxPtys \in Nat /\ MaxPtysPerDevice \in Nat /\ Counted(ptys, Streams, MaxPtys, MaxPtysPerDevice)
      BY <1>1, Limits, Zenon DEF PtyInv
    <3>2. Counted(Add(ptys, s), Streams, MaxPtys, MaxPtysPerDevice)
      BY <3>1, <2>4, <1>3, AddCounted, Zenon
    <3>3. Counted(ptys', Streams, MaxPtys, MaxPtysPerDevice)
      BY <3>2, <2>1
    <3> QED
      BY <3>3, <2>1, CountedNext
  <2>7. ptys'.tokens = {x \in Streams : HoldsPty(x)'}
    BY <1>1, <2>4, <2>5, Zenon DEF PtyInv
  <2>8. resumable' = Cardinality(Resumables') /\ resumable' \in Nat
    <3>1. /\ s \notin Resumables /\ resumable = Cardinality(Resumables) /\ resumable \in Nat
          /\ Resumables \in SUBSET ptys.tokens /\ IsFiniteSet(ptys.tokens)
      BY <1>1, <2>4, Zenon DEF PtyInv, Resumables, Counted
    <3>2. IsFiniteSet(Resumables)
      BY <3>1, FS_Subset
    <3>3. Cardinality(Resumables \cup {s}) =
            IF s \in Resumables THEN Cardinality(Resumables) ELSE Cardinality(Resumables) + 1
      BY <3>2, FS_AddElement
    <3>4. CASE IsResumable(stream[s].target)
      <4>1. Resumables' = Resumables \cup {s}
        BY <3>4, <1>1, <2>4, <2>5, Zenon DEF Resumables, PtyInv
      <4> QED
        BY <3>1, <3>3, <3>4, <4>1, <2>1, SMTT(30)
    <3>5. CASE ~IsResumable(stream[s].target)
      <4>1. Resumables' = Resumables
        BY <3>5, <1>1, <2>4, <2>5, Zenon DEF Resumables, PtyInv
      <4> QED
        BY <3>1, <3>5, <4>1, <2>1, SMTT(30)
    <3> QED
      BY <3>4, <3>5
  <2>9. /\ attached' \in [Streams -> Sessions \cup {None}]
        /\ \A x \in Streams : attached'[x] = IF HoldsPty(x)' THEN stream'[x].session ELSE None
    BY <1>1, <2>1, <2>3, <2>4, Zenon DEF PtyInv
  <2>10. PtyInv'
    BY <2>6, <2>7, <2>8, <2>9, Zenon DEF PtyInv
  <2>11. child[s] = NoChild /\ child' = [child EXCEPT ![s] = child[s]]
    BY <1>1, <2>1, Zenon DEF StreamOK, Owning
  <2>12. StreamOK(k, child[s])
    BY <2>2, <2>11 DEF StreamOK, NoChild, Owning
  <2>13. ServedOK(s, k, conn'[ConnectionOf[s]])
    BY <1>1, <2>1, <2>2, Zenon DEF ServedOK, Alive, Allowed, LeasedStages
  <2>14. /\ Counted(subscribers', Streams, MaxSubscriptions, 1)
         /\ subscribers'.tokens \subseteq {x \in Streams : stream'[x].stage = "running"}
    BY <1>1, <2>1, Zenon DEF HInv, LeaseInv
  <2> QED
    BY <1>1, <2>1, <2>2, <2>10, <2>11, <2>12, <2>13, <2>14, StreamStep, Zenon
<1> QED
  BY <1>2, <1>3

\* A terminal with a lease goes on to the next of its stages.
LEMMA TerminalGoesOn ==
  ASSUME HInv, NEW s \in Streams, NEW k \in StreamRecord, NEW ch \in ChildRecord,
         stream[s].stage \in LeasedStages, k.stage \in LeasedStages, k.kind = stream[s].kind,
         k.target = stream[s].target, k.session = stream[s].session,
         stream' = [stream EXCEPT ![s] = k], child' = [child EXCEPT ![s] = ch],
         UNCHANGED <<layout, paired, revoking, leases, subscribers, admissions, handles>>,
         conn' \in [Connections -> ConnRecord],
         \A c \in Connections : conn'[c].stage = conn[c].stage /\ (conn'[c].open => conn[c].open),
         k.stage \in Owning, ch.owner = "task",
         ch.state = "starting" => k.stage = "spawn" /\ ch.ladder = "none",
         ch.state = "live" /\ ch.ladder # "none" => ch.signal >= Hup
  PROVE  HInv'
<1>1. /\ StreamOK(stream[s], child[s]) /\ ServedOK(s, stream[s], conn[ConnectionOf[s]])
      /\ ConnectionOf[s] \in Connections /\ stream \in [Streams -> StreamRecord]
  BY LayoutFacts, Zenon DEF HInv, Types
<1>2. k.kind = "terminal"
  BY <1>1, Zenon DEF StreamOK, Allowed
<1>3. StreamOK(k, ch)
  BY <1>2, Zenon DEF StreamOK
<1>4. ServedOK(s, k, conn'[ConnectionOf[s]])
  BY <1>1, Zenon DEF ServedOK, Alive, Allowed
<1>5. PtyInv'
  BY <1>2, LeasesStay, Zenon
<1>6. /\ Counted(subscribers', Streams, MaxSubscriptions, 1)
      /\ subscribers'.tokens \subseteq {x \in Streams : stream'[x].stage = "running"}
  <2>1. stream[s].stage # "running"
    BY Zenon DEF LeasedStages
  <2> QED
    BY <2>1, <1>1, Zenon DEF HInv, LeaseInv
<1> QED
  BY <1>3, <1>4, <1>5, <1>6, StreamStep, Zenon

\* A step of the child alone.
LEMMA ChildGoesOn ==
  ASSUME HInv, NEW s \in Streams, NEW ch \in ChildRecord,
         child' = [child EXCEPT ![s] = ch],
         UNCHANGED <<layout, paired, revoking, conn, stream, leases, subscribers, admissions, handles>>,
         StreamOK(stream[s], ch)
  PROVE  HInv'
<1>1. /\ stream \in [Streams -> StreamRecord] /\ stream[s] \in StreamRecord
      /\ ServedOK(s, stream[s], conn[ConnectionOf[s]])
  BY Zenon DEF HInv, Types
<1>2. stream' = [stream EXCEPT ![s] = stream[s]]
  BY <1>1, Zenon
<1> QED
  BY <1>1, <1>2, StreamGoesOn, Zenon

\* The child's spawn, its timeout and its normal end keep the invariant.
LEMMA SpawnStep ==
  ASSUME HInv, NEW s \in Streams, SpawnChild(s) \/ SpawnTimesOut(s) \/ FinishNormal(s)
  PROVE  HInv'
<1>1. /\ stream \in [Streams -> StreamRecord] /\ stream[s] \in StreamRecord
      /\ child \in [Streams -> ChildRecord] /\ child[s] \in ChildRecord
      /\ conn \in [Connections -> ConnRecord] /\ StreamOK(stream[s], child[s])
  BY Zenon DEF HInv, Types
<1>2. CASE SpawnChild(s)
  <2> DEFINE ch == [child[s] EXCEPT !.state = "starting", !.owner = "task"]
  <2>1. /\ stream[s].stage = "prepare"
        /\ stream' = [stream EXCEPT ![s] = [stream[s] EXCEPT !.stage = "spawn"]]
        /\ child' = [child EXCEPT ![s] = ch]
        /\ UNCHANGED <<layout, paired, revoking, conn, leases, subscribers, admissions, handles>>
    BY <1>1, <1>2 DEF SpawnChild, IsTerminal, host, door
  <2>2. child[s] = NoChild
    BY <1>1, <2>1 DEF StreamOK, Owning
  <2>3. ch \in ChildRecord
    BY <1>1, Zenon DEF ChildRecord
  <2>4. ch.state = "starting" /\ ch.owner = "task" /\ ch.ladder = "none"
    BY <2>2 DEF NoChild
  <2> HIDE DEF ch
  <2>5. "prepare" \in LeasedStages /\ "spawn" \in LeasedStages /\ "spawn" \in Owning /\ "spawn" \in Alive
    BY DEF LeasedStages, Owning, Alive
  <2> DEFINE k == [stream[s] EXCEPT !.stage = "spawn"]
  <2>6. /\ k \in StreamRecord /\ k.stage = "spawn" /\ stream' = [stream EXCEPT ![s] = k]
        /\ k.kind = stream[s].kind /\ k.target = stream[s].target /\ k.session = stream[s].session
    BY <2>1, <2>5, StageFacts
  <2> HIDE DEF k
  <2> QED
    <3>1. /\ conn' \in [Connections -> ConnRecord]
          /\ \A c \in Connections : conn'[c].stage = conn[c].stage /\ (conn'[c].open => conn[c].open)
      BY <1>1, <2>1
    <3>2. stream[s].stage \in LeasedStages /\ k.stage \in LeasedStages /\ k.stage \in Owning
      BY <2>1, <2>5, <2>6, Zenon
    <3>3. /\ ch.state = "starting" => k.stage = "spawn" /\ ch.ladder = "none"
          /\ ch.state = "live" /\ ch.ladder # "none" => ch.signal >= Hup
      BY <2>4, <2>6
    <3> QED
      BY <2>1, <2>3, <2>4, <2>6, <3>1, <3>2, <3>3, TerminalGoesOn, Zenon
<1>3. CASE SpawnTimesOut(s)
  <2> DEFINE ch == [child[s] EXCEPT !.owner = "late"]
  <2>1. stream[s].stage = "spawn" /\ child' = [child EXCEPT ![s] = ch] /\ EndTerminal(s)
    BY <1>1, <1>3 DEF SpawnTimesOut, IsTerminal
  <2>2. ch \in ChildRecord
    BY <1>1 DEF ChildRecord
  <2>3. /\ ch.owner = "late" /\ ch.state = child[s].state /\ ch.ladder = child[s].ladder
        /\ ch.signal = child[s].signal
    BY <1>1 DEF ChildRecord
  <2> HIDE DEF ch
  <2>4. /\ ch.state = "starting" => ch.ladder = "none"
        /\ ch.state = "live" /\ (ch.ladder # "none" \/ ch.owner = "nobody") => ch.signal >= Hup
    BY <2>3, <1>1, Zenon DEF StreamOK
  <2> QED
    BY <2>1, <2>2, <2>3, <2>4, TerminalEnds, Zenon
<1>4. CASE FinishNormal(s)
  <2> DEFINE ch == [child[s] EXCEPT !.owner = "nobody"]
  <2>1. /\ stream[s].stage = "bridge" /\ child[s].state = "dead"
        /\ child' = [child EXCEPT ![s] = ch] /\ EndTerminal(s)
    BY <1>1, <1>4 DEF FinishNormal, IsTerminal
  <2>2. ch \in ChildRecord
    BY <1>1 DEF ChildRecord
  <2>3. ch.owner = "nobody" /\ ch.state = "dead"
    BY <1>1, <2>1 DEF ChildRecord
  <2> HIDE DEF ch
  <2> QED
    BY <2>1, <2>2, <2>3, TerminalEnds, Zenon
<1> QED
  BY <1>2, <1>3, <1>4

\* cleanup's first signal is a hang-up at least.
LEMMA HangUpFacts ==
  ASSUME NEW k \in ChildRecord, NEW target
  PROVE  /\ HangUp(k, target) \in ChildRecord
         /\ HangUp(k, target).state = k.state /\ HangUp(k, target).owner = k.owner
         /\ HangUp(k, target).signal >= Hup
<1>1. /\ (IF target = "herdr" THEN Kill ELSE Hup) \in 0..Kill
      /\ (IF target = "herdr" THEN Kill ELSE Hup) >= Hup
  BY DEF Hup, Kill
<1>2. HangUp(k, target) \in ChildRecord
  BY <1>1, Zenon DEF ChildRecord, HangUp
<1>3. HangUp(k, target).signal = IF target = "herdr" THEN Kill ELSE Hup
  BY DEF ChildRecord, HangUp
<1> QED
  BY <1>1, <1>2, <1>3 DEF ChildRecord, HangUp

\* A terminal in cleanup, or about to be.
LEMMA CleanupStep ==
  ASSUME HInv, NEW s \in Streams, ClientEndsTerminal(s) \/ CutTerminal(s) \/ Detached(s)
  PROVE  HInv'
<1>1. /\ stream \in [Streams -> StreamRecord] /\ stream[s] \in StreamRecord /\ Types
      /\ child \in [Streams -> ChildRecord] /\ child[s] \in ChildRecord
      /\ conn \in [Connections -> ConnRecord] /\ StreamOK(stream[s], child[s])
      /\ ConnectionOf[s] \in Connections
  BY LayoutFacts, Zenon DEF HInv, Types
<1>2. /\ stream[s].stage \in {"bridge", "detach"}
      /\ UNCHANGED <<layout, paired, revoking, leases, subscribers, admissions, handles>>
  BY DEF ClientEndsTerminal, CutTerminal, Detached, IsTerminal, host, door
<1>3. /\ conn' \in [Connections -> ConnRecord]
      /\ \A c \in Connections : conn'[c].stage = conn[c].stage /\ (conn'[c].open => conn[c].open)
  <2>1. conn' = conn \/ conn' = Closed({ConnectionOf[s]})
    BY DEF ClientEndsTerminal, CutTerminal, Detached
  <2> DEFINE q == Closed({ConnectionOf[s]})
  <2>2. /\ q \in [Connections -> ConnRecord]
        /\ \A c \in Connections : q[c].stage = conn[c].stage /\ (q[c].open => conn[c].open)
    BY <1>1, ClosedFacts, Zenon
  <2> HIDE DEF q
  <2> QED
    BY <2>1, <2>2, <1>1, Zenon DEF q
<1> DEFINE hung == HangUp(child[s], stream[s].target)
<1>4. PICK stage \in {"detach", "cleanup"}, ch \in {child[s], hung} :
        /\ stream' = [stream EXCEPT ![s] = [stream[s] EXCEPT !.stage = stage]]
        /\ child' = [child EXCEPT ![s] = ch]
  <2>1. CASE Detached(s)
    BY <2>1, <1>1 DEF Detached
  <2>2. CASE CleanupTerminal(s) /\ stream[s].target = "tmux"
    BY <2>2, <1>1 DEF CleanupTerminal
  <2>3. CASE CleanupTerminal(s) /\ stream[s].target # "tmux"
    BY <2>3, <1>1 DEF CleanupTerminal
  <2> QED
    BY <2>1, <2>2, <2>3 DEF ClientEndsTerminal, CutTerminal
<1>5. /\ hung \in ChildRecord /\ hung.state = child[s].state /\ hung.owner = child[s].owner
      /\ hung.signal >= Hup
  BY <1>1, HangUpFacts, Zenon
<1> HIDE DEF hung
<1>6. child[s].owner = "task" /\ child[s].state # "starting"
      /\ (child[s].state = "live" /\ child[s].ladder # "none" => child[s].signal >= Hup)
  BY <1>1, <1>2, Zenon DEF StreamOK, Owning
<1>7. /\ ch \in ChildRecord /\ ch.owner = "task" /\ ch.state # "starting"
      /\ (ch.state = "live" /\ ch.ladder # "none" => ch.signal >= Hup)
  BY <1>1, <1>4, <1>5, <1>6
<1>8. stage \in Alive /\ stage \in Owning /\ stage \in LeasedStages /\ stream[s].stage \in LeasedStages
  BY <1>2, <1>4 DEF Alive, Owning, LeasedStages
<1> DEFINE k == [stream[s] EXCEPT !.stage = stage]
<1>9. /\ k \in StreamRecord /\ k.stage = stage /\ stream' = [stream EXCEPT ![s] = k]
      /\ k.kind = stream[s].kind /\ k.target = stream[s].target /\ k.session = stream[s].session
  BY <1>4, <1>8, StageFacts
<1> HIDE DEF k
<1> QED
  BY <1>2, <1>3, <1>4, <1>7, <1>8, <1>9, TerminalGoesOn, Zenon

\* The ladder and the exits of a child.
LEMMA LadderStep ==
  ASSUME HInv, NEW s \in Streams, Escalate(s) \/ CleanedUp(s) \/ ChildExits(s) \/ SpawnFails(s)
  PROVE  HInv'
<1>1. /\ stream \in [Streams -> StreamRecord] /\ stream[s] \in StreamRecord
      /\ child \in [Streams -> ChildRecord] /\ child[s] \in ChildRecord
      /\ StreamOK(stream[s], child[s])
  BY Zenon DEF HInv, Types
<1>2. child[s].owner = "task" => stream[s].stage # "running"
  BY <1>1, Zenon DEF StreamOK, Owning
<1> USE DEF host, door
<1>3. CASE Escalate(s)
  <2>1. PICK ladder \in {"term", "kill"}, signal \in {Term, Kill} :
               child' = [child EXCEPT ![s] = [child[s] EXCEPT !.ladder = ladder, !.signal = signal]]
    BY <1>3, Zenon DEF Escalate
  <2> DEFINE ch == [child[s] EXCEPT !.ladder = ladder, !.signal = signal]
  <2>2. signal \in 0..Kill /\ signal >= Hup
    BY <2>1 DEF Hup, Term, Kill
  <2>3. ch \in ChildRecord
    BY <1>1, <2>1, <2>2, Zenon DEF ChildRecord
  <2>4. /\ ch.state = "live" /\ ch.owner = child[s].owner /\ ch.signal = signal
        /\ child' = [child EXCEPT ![s] = ch]
    BY <1>1, <1>3, <2>1 DEF ChildRecord, Escalate
  <2>5. child[s] # NoChild
    BY <1>3 DEF Escalate, NoChild
  <2> HIDE DEF ch
  <2>6. StreamOK(stream[s], ch)
    BY <1>1, <2>2, <2>4, <2>5, Zenon DEF StreamOK
  <2> QED
    BY <1>3, <2>3, <2>4, <2>6, ChildGoesOn, Zenon DEF Escalate
<1>4. CASE ChildExits(s)
  <2> DEFINE ch == [child[s] EXCEPT !.state = "dead", !.grit = 0, !.signal = 0]
  <2>1. 0 \in 0..2 /\ 0 \in 0..Kill
    BY DEF Kill
  <2>2. ch \in ChildRecord
    BY <1>1, <2>1, Zenon DEF ChildRecord
  <2>3. ch.state = "dead" /\ ch.owner = child[s].owner /\ child' = [child EXCEPT ![s] = ch]
    BY <1>1, <1>4 DEF ChildRecord, ChildExits
  <2>4. child[s] # NoChild
    BY <1>4 DEF ChildExits, NoChild
  <2> HIDE DEF ch
  <2>5. StreamOK(stream[s], ch)
    BY <1>1, <2>3, <2>4, Zenon DEF StreamOK
  <2> QED
    BY <1>4, <2>2, <2>3, <2>5, ChildGoesOn, Zenon DEF ChildExits
<1>5. CASE CleanedUp(s)
  <2> DEFINE ch == [child[s] EXCEPT !.owner = "nobody"]
  <2>1. ch \in ChildRecord
    BY <1>1 DEF ChildRecord
  <2>2. /\ ch.owner = "nobody" /\ ch.state = child[s].state /\ ch.ladder = child[s].ladder
        /\ ch.signal = child[s].signal /\ child' = [child EXCEPT ![s] = ch]
    BY <1>1, <1>5 DEF ChildRecord, CleanedUp
  <2> HIDE DEF ch
  <2>3. child[s].ladder # "none" /\ child[s] # NoChild
    BY <1>5 DEF CleanedUp, NoChild
  <2>4. ch.state # "starting" /\ (ch.state = "live" => ch.signal >= Hup)
    BY <1>1, <2>2, <2>3, Zenon DEF StreamOK
  <2>5. CASE child[s].owner = "task"
    <3>1. EndTerminal(s)
      BY <1>5, <2>5 DEF CleanedUp
    <3> QED
      BY <3>1, <1>2, <2>1, <2>2, <2>4, <2>5, TerminalEnds, Zenon
  <2>6. CASE child[s].owner # "task"
    <3>1. UNCHANGED <<host, conn, door, stream, leases, subscribers>>
      BY <1>5, <2>6 DEF CleanedUp
    <3>2. StreamOK(stream[s], ch)
      BY <1>1, <2>2, <2>3, <2>4, <2>6, Zenon DEF StreamOK
    <3> QED
      BY <3>1, <3>2, <2>1, <2>2, ChildGoesOn, Zenon
  <2> QED
    BY <2>5, <2>6, Zenon
<1>6. CASE SpawnFails(s)
  <2> DEFINE ch == [NoChild EXCEPT !.state = "dead"]
  <2>1. ch \in ChildRecord /\ ch.state = "dead" /\ ch.owner = "nobody"
    BY DEF NoChild, ChildRecord, Kill
  <2>2. child[s].state = "starting" /\ child' = [child EXCEPT ![s] = ch] /\ child[s] # NoChild
    BY <1>6 DEF SpawnFails, NoChild
  <2> HIDE DEF ch
  <2>3. CASE child[s].owner = "task"
    <3>1. EndTerminal(s)
      BY <1>6, <2>3 DEF SpawnFails
    <3> QED
      BY <3>1, <1>2, <2>1, <2>2, <2>3, TerminalEnds, Zenon
  <2>4. CASE child[s].owner # "task"
    <3>1. UNCHANGED <<host, conn, door, stream, leases, subscribers>>
      BY <1>6, <2>4 DEF SpawnFails
    <3>2. StreamOK(stream[s], ch)
      BY <1>1, <2>1, <2>2, <2>4, Zenon DEF StreamOK
    <3> QED
      BY <3>1, <3>2, <2>1, <2>2, ChildGoesOn, Zenon
  <2> QED
    BY <2>3, <2>4
<1> QED
  BY <1>3, <1>4, <1>5, <1>6

\* The child arrives at its terminal, at the late owner, or at nobody.
LEMMA SpawnedStep ==
  ASSUME HInv, NEW s \in Streams, NEW grit \in Grits, Spawned(s, grit)
  PROVE  HInv'
<1> DEFINE born == [child[s] EXCEPT !.state = "live", !.grit = grit]
<1>1. /\ stream \in [Streams -> StreamRecord] /\ stream[s] \in StreamRecord
      /\ child \in [Streams -> ChildRecord] /\ child[s] \in ChildRecord
      /\ conn \in [Connections -> ConnRecord] /\ StreamOK(stream[s], child[s])
  BY DEF HInv, Types
<1>2. /\ child[s].state = "starting" /\ child[s].ladder = "none" /\ child[s] # NoChild
      /\ UNCHANGED <<layout, paired, revoking, conn, leases, subscribers, admissions, handles>>
  BY <1>1 DEF Spawned, StreamOK, NoChild, host, door
<1>3. grit \in 0..2
  BY HostConnectionsAssumption, Zenon
<1>4. born \in ChildRecord
  BY <1>1, <1>3, Zenon DEF ChildRecord
<1>5. born.state = "live" /\ born.ladder = "none" /\ born.owner = child[s].owner
  BY <1>1, <1>2 DEF ChildRecord
<1>6. /\ child[s].owner = "task" => child' = [child EXCEPT ![s] = born]
      /\ child[s].owner = "late" => child' = [child EXCEPT ![s] = [born EXCEPT !.signal = Hup, !.ladder = "hup"]]
      /\ child[s].owner = "nobody" => child' = [child EXCEPT ![s] = DroppedPty(born)]
  BY <1>1, Zenon DEF Spawned
<1> HIDE DEF born
<1>7. CASE child[s].owner = "task"
  <2> DEFINE k == [stream[s] EXCEPT !.stage = "bridge", !.watch = (shutdown = "no")]
  <2>1. stream[s].stage = "spawn" /\ stream' = [stream EXCEPT ![s] = k]
    BY <1>1, <1>2, <1>7, Zenon DEF Spawned, StreamOK
  <2>2. (shutdown = "no") \in BOOLEAN
    OBVIOUS
  <2>3. k \in StreamRecord
    BY <1>1, <2>2, Zenon DEF StreamRecord, LeasedStages
  <2>4. /\ k.stage = "bridge" /\ k.kind = stream[s].kind /\ k.target = stream[s].target
        /\ k.session = stream[s].session
    BY <1>1 DEF StreamRecord
  <2> HIDE DEF k
  <2>5. stream[s].stage \in LeasedStages /\ k.stage \in LeasedStages /\ k.stage \in Owning
    BY <2>1, <2>4 DEF LeasedStages, Owning
  <2>6. /\ conn' \in [Connections -> ConnRecord] /\ child' = [child EXCEPT ![s] = born]
        /\ \A c \in Connections : conn'[c].stage = conn[c].stage /\ (conn'[c].open => conn[c].open)
    BY <1>1, <1>2, <1>6, <1>7
  <2>7. born.owner = "task" /\ born.state # "starting" /\ born.ladder = "none"
    BY <1>5, <1>7, Zenon
  <2> QED
    BY <1>2, <1>4, <2>1, <2>3, <2>4, <2>5, <2>6, <2>7, TerminalGoesOn, Zenon
<1>8. CASE child[s].owner = "late"
  <2> DEFINE ch == [born EXCEPT !.signal = Hup, !.ladder = "hup"]
  <2>1. Hup \in 0..Kill
    BY DEF Hup, Kill
  <2>2. ch \in ChildRecord
    BY <1>4, <2>1, Zenon DEF ChildRecord
  <2>3. ch.state = "live" /\ ch.owner = "late" /\ ch.signal = Hup
    BY <1>4, <1>5, <1>8 DEF ChildRecord
  <2>4. child' = [child EXCEPT ![s] = ch] /\ stream' = stream
    BY <1>6, <1>8 DEF Spawned
  <2> HIDE DEF ch
  <2>5. StreamOK(stream[s], ch)
    BY <1>1, <1>2, <1>8, <2>3 DEF StreamOK, Hup
  <2> QED
    BY <1>2, <2>2, <2>4, <2>5, ChildGoesOn, Zenon
<1>9. CASE child[s].owner = "nobody"
  <2> DEFINE ch == DroppedPty(born)
  <2>1. ch \in ChildRecord /\ ch.state = "live" /\ ch.owner = "nobody" /\ ch.signal = Hup
    BY <1>4, <1>5, DroppedFacts, Zenon
  <2>2. child' = [child EXCEPT ![s] = ch] /\ stream' = stream
    BY <1>6, <1>9 DEF Spawned
  <2> HIDE DEF ch
  <2>3. StreamOK(stream[s], ch)
    BY <1>1, <1>2, <1>9, <2>1 DEF StreamOK, Hup
  <2> QED
    BY <1>2, <2>1, <2>2, <2>3, ChildGoesOn, Zenon
<1>10. child[s].owner \in {"nobody", "task", "late"}
  BY <1>1 DEF ChildRecord
<1> QED
  BY <1>7, <1>8, <1>9, <1>10, Zenon
-----------------------------------------------------------------------------
(* The theorems *)

\* The host starts with empty tables, which the invariant allows.
LEMMA HInit == Init => HInv
<1> SUFFICES ASSUME Init PROVE HInv
  OBVIOUS
<1>1. IsFiniteSet({}) /\ Cardinality({}) = 0
  BY FS_EmptySet
<1>2. /\ NoConnection \in ConnRecord /\ NoConnection.stage = "none"
  BY Limits DEF NoConnection, ConnRecord
<1>3. NoStream \in StreamRecord /\ NoStream.stage = "none"
  BY Zenon DEF NoStream, StreamRecord
<1>4. NoChild \in ChildRecord /\ NoChild.owner = "nobody" /\ NoChild.state = "none"
  BY DEF NoChild, ChildRecord, Kill
<1>5. Types
  BY <1>2, <1>3, <1>4, Zenon DEF Init, Types
<1>6. ASSUME NEW S, NEW limit \in Nat, NEW share \in Nat PROVE Counted(Empty, S, limit, share)
  <2>1. Empty.tokens = {} /\ Empty.total = 0 /\ Empty = [tokens |-> Empty.tokens, total |-> Empty.total]
    BY Zenon DEF Empty
  <2>2. \A d : Held(Empty, d) = {}
    BY <2>1 DEF Held
  <2> QED
    BY <1>1, <2>1, <2>2 DEF Counted
<1>7. \A s \in Streams : ~HoldsPty(s)
  BY <1>3 DEF Init, HoldsPty, LeasedStages
<1>8. PtyInv
  <2>1. Counted(ptys, Streams, MaxPtys, MaxPtysPerDevice)
    BY <1>6, Limits, Zenon DEF Init
  <2>2. ptys.tokens = {} /\ Resumables = {}
    BY Zenon DEF Init, Empty, Resumables
  <2> QED
    BY <2>1, <2>2, <1>1, <1>7, Zenon DEF PtyInv, Init
<1>9. LeaseInv
  <2>1. /\ Counted(admissions, Connections, MaxConnections, MaxPerDevice)
        /\ Counted(subscribers, Streams, MaxSubscriptions, 1)
    BY <1>6, Limits, Zenon DEF Init
  <2>2. subscribers.tokens = {}
    BY Zenon DEF Init, Empty
  <2> QED
    BY <2>1, <2>2, <1>8, Zenon DEF LeaseInv
<1>10. \A c \in Connections : ConnOK(c, conn[c])
  BY <1>2, Zenon DEF Init, ConnOK, Handled, Empty
<1>11. \A s \in Streams : StreamOK(stream[s], child[s]) /\ ServedOK(s, stream[s], conn[ConnectionOf[s]])
  BY <1>3, <1>4, Zenon DEF Init, StreamOK, ServedOK, Allowed, Alive, Owning, LeasedStages
<1> QED
  BY <1>5, <1>9, <1>10, <1>11, Zenon DEF HInv

\* Every step of a connection, a stream, a terminal or the owner keeps the invariant.
LEMMA HNext == HInv /\ [Next]_vars => HInv'
<1> SUFFICES ASSUME HInv, [Next]_vars PROVE HInv'
  OBVIOUS
<1>1. CASE UNCHANGED vars
  <2>1. /\ UNCHANGED <<layout, paired, revoking, stream, leases, subscribers, child, conn,
                       admissions, handles>>
    BY <1>1, Zenon DEF vars, leases
  <2>2. /\ conn' \in [Connections -> ConnRecord] /\ handles' \subseteq Connections
        /\ Counted(admissions', Connections, MaxConnections, MaxPerDevice)
    BY <2>1, Zenon DEF HInv, Types, LeaseInv
  <2>3. \A c \in Connections : ConnOK(c, conn[c])'
    BY <2>1, Zenon DEF HInv, ConnOK, DeviceOf
  <2> QED
    BY <2>1, <2>2, <2>3, ConnectionsStep, TasksAreServed, Zenon
<1>2. CASE Next
  <2>1. ASSUME NEW c \in Connections,
               \/ Authorize(c) \/ HelloDone(c) \/ KeepWaiting(c) \/ AcceptStream(c) \/ PeerCloses(c)
               \/ HelloFails(c) \/ NoPreface(c) \/ LoopEnds(c) \/ Joined(c)
        PROVE  HInv'
    BY <2>1, LoopStep
  <2>2. ASSUME NEW c \in Connections, Admit(c) PROVE HInv'
    BY <2>2, AdmitStep
  <2>3. ASSUME NEW c \in Connections, Register(c) \/ CloseConnection(c) \/ ReleaseConnection(c)
        PROVE  HInv'
    BY <2>3, HandleStep
  <2>4. ASSUME NEW c \in Connections, NEW s \in Streams, NEW kind \in Kinds, Dispatch(c, s, kind)
        PROVE  HInv'
    BY <2>4, DispatchStep
  <2>5. ASSUME NEW s \in Streams,
               \/ StartUpload(s) \/ StartDownload(s) \/ StartSnapshot(s) \/ StartAgent(s)
               \/ StartForward(s) \/ Request(s)
        PROVE  HInv'
    BY <2>5, StartStep
  <2>6. ASSUME NEW s \in Streams, Subscribe(s) PROVE HInv'
    BY <2>6, SubscribeStep
  <2>7. ASSUME NEW s \in Streams, FinishStream(s) \/ AbortTask(s) PROVE HInv'
    BY <2>7, FinishStep, Zenon
  <2>8. ASSUME NEW s \in Streams, LeasePty(s) PROVE HInv'
    BY <2>8, LeaseStep
  <2>9. ASSUME NEW s \in Streams,
               GiveUpTerminal(s) \/ \E open \in layout.opens[s] : OpenTerminal(s, open)
        PROVE  HInv'
    BY <2>9, OpenStep
  <2>10. ASSUME NEW s \in Streams, SpawnChild(s) \/ SpawnTimesOut(s) \/ FinishNormal(s) PROVE HInv'
    BY <2>10, SpawnStep
  <2>11. ASSUME NEW s \in Streams, ClientEndsTerminal(s) \/ CutTerminal(s) \/ Detached(s) PROVE HInv'
    BY <2>11, CleanupStep
  <2>12. ASSUME NEW s \in Streams, Escalate(s) \/ CleanedUp(s) \/ ChildExits(s) \/ SpawnFails(s)
         PROVE  HInv'
    BY <2>12, LadderStep
  <2>13. ASSUME NEW s \in Streams, NEW grit \in Grits, Spawned(s, grit) PROVE HInv'
    BY <2>13, SpawnedStep
  <2>14. ASSUME \/ \E d \in Dialling : Pair(d) \/ Unpair(d)
                \/ CloseRevoked \/ Shutdown \/ CloseEndpoint
         PROVE  HInv'
    BY <2>14, CutStep
  <2> QED
    BY Zenon, <1>2, <2>1, <2>2, <2>3, <2>4, <2>5, <2>6, <2>7, <2>8, <2>9, <2>10,
       <2>11, <2>12, <2>13, <2>14 DEF Next, ConnectionStep, TerminalStep
<1> QED
  BY <1>1, <1>2

\* The inductive invariant holds in every reachable state.
LEMMA HostInvariant == Spec => []HInv
BY HInit, HNext, PTL DEF Spec

\* Whatever connections come and go, however they supersede each other and wherever their tasks are
\* aborted, every lease is counted once and given back once, and no device exceeds its share.
THEOREM LeasesStayAccounted == Spec => []LeasesAreAccounted
<1>1. HInv => LeasesAreAccounted
  BY Zenon DEF HInv, LeaseInv, PtyInv, Counted, LeasesAreAccounted, ConnOK, Resumables
<1> QED
  BY <1>1, HostInvariant, PTL

\* An unpairing that is over leaves no open connection with a terminal of the device.
THEOREM RevokedTerminalsAreClosed == Spec => []RevokedTerminalsEnd
<1>1. HInv => RevokedTerminalsEnd
  BY Zenon DEF HInv, ServedOK, RevokedTerminalsEnd, Allowed, LeasedStages
<1> QED
  BY <1>1, HostInvariant, PTL

\* A child that lives and is nobody's has been hung up at least.
THEOREM ChildrenAreHungUp == Spec => []ChildrenAreSignalled
<1>1. HInv => ChildrenAreSignalled
  BY Zenon DEF HInv, StreamOK, ChildrenAreSignalled
<1> QED
  BY <1>1, HostInvariant, PTL

\* Only an admission and the Drop of a lease change the connections' slots.
LEMMA SlotsOfConnections ==
  ASSUME Next, \A c \in Connections : ~Admit(c) /\ ~ReleaseConnection(c)
  PROVE  admissions' = admissions
<1>1. ASSUME NEW c \in Connections,
             \/ Authorize(c) \/ ConnectionStep(c) \/ HelloDone(c) \/ KeepWaiting(c)
             \/ AcceptStream(c) \/ PeerCloses(c)
             \/ \E s \in Streams, kind \in Kinds : Dispatch(c, s, kind)
      PROVE  admissions' = admissions
  BY <1>1, Zenon DEF ConnectionStep, Authorize, HelloDone, KeepWaiting, AcceptStream, PeerCloses, Dispatch,
     Register, HelloFails, NoPreface, LoopEnds, Joined, CloseConnection, door
<1>2. ASSUME NEW s \in Streams,
             \/ StartUpload(s) \/ StartDownload(s) \/ StartSnapshot(s) \/ StartAgent(s)
             \/ StartForward(s) \/ Subscribe(s) \/ Request(s) \/ FinishStream(s) \/ AbortTask(s)
      PROVE  admissions' = admissions
  BY <1>2 DEF StartUpload, StartDownload, StartSnapshot, StartAgent, Asked, StartForward, Subscribe,
     Request, FinishStream, AbortTask, door
<1>3. ASSUME NEW s \in Streams,
             \/ TerminalStep(s) \/ ClientEndsTerminal(s) \/ Escalate(s) \/ CleanedUp(s)
             \/ SpawnFails(s) \/ ChildExits(s)
             \/ \E open \in layout.opens[s] : OpenTerminal(s, open)
             \/ \E grit \in Grits : Spawned(s, grit)
      PROVE  admissions' = admissions
  BY <1>3, Zenon DEF TerminalStep, LeasePty, GiveUpTerminal, SpawnChild, SpawnTimesOut, FinishNormal,
     CutTerminal, Detached, ClientEndsTerminal, Escalate, CleanedUp, SpawnFails, ChildExits,
     OpenTerminal, Spawned, EndTerminal, door
<1>4. ASSUME \/ \E d \in Dialling : Pair(d) \/ Unpair(d)
             \/ CloseRevoked \/ Shutdown \/ CloseEndpoint
      PROVE  admissions' = admissions
  BY <1>4, Zenon DEF Pair, Unpair, CloseRevoked, Shutdown, CloseEndpoint, door
<1> QED
  BY <1>1, <1>2, <1>3, <1>4, Zenon DEF Next

\* Only a subscription and the end of a stream change the subscriptions' slots.
LEMMA SlotsOfSubscriptions ==
  ASSUME Next, \A s \in Streams : ~Subscribe(s) /\ ~FinishStream(s) /\ ~AbortTask(s)
  PROVE  subscribers' = subscribers
<1>1. ASSUME NEW c \in Connections,
             \/ Authorize(c) \/ ConnectionStep(c) \/ HelloDone(c) \/ KeepWaiting(c)
             \/ AcceptStream(c) \/ PeerCloses(c)
             \/ \E s \in Streams, kind \in Kinds : Dispatch(c, s, kind)
      PROVE  subscribers' = subscribers
  BY <1>1, Zenon DEF ConnectionStep, Authorize, HelloDone, KeepWaiting, AcceptStream, PeerCloses, Dispatch,
     Register, HelloFails, NoPreface, LoopEnds, Joined, CloseConnection, Admit, ReleaseConnection
<1>2. ASSUME NEW s \in Streams,
             \/ StartUpload(s) \/ StartDownload(s) \/ StartSnapshot(s) \/ StartAgent(s)
             \/ StartForward(s) \/ Request(s)
      PROVE  subscribers' = subscribers
  BY <1>2 DEF StartUpload, StartDownload, StartSnapshot, StartAgent, Asked, StartForward, Request
<1>3. ASSUME NEW s \in Streams,
             \/ TerminalStep(s) \/ ClientEndsTerminal(s) \/ Escalate(s) \/ CleanedUp(s)
             \/ SpawnFails(s) \/ ChildExits(s)
             \/ \E open \in layout.opens[s] : OpenTerminal(s, open)
             \/ \E grit \in Grits : Spawned(s, grit)
      PROVE  subscribers' = subscribers
  BY <1>3, Zenon DEF TerminalStep, LeasePty, GiveUpTerminal, SpawnChild, SpawnTimesOut, FinishNormal,
     CutTerminal, Detached, ClientEndsTerminal, Escalate, CleanedUp, SpawnFails, ChildExits,
     OpenTerminal, Spawned, EndTerminal
<1>4. ASSUME \/ \E d \in Dialling : Pair(d) \/ Unpair(d)
             \/ CloseRevoked \/ Shutdown \/ CloseEndpoint
      PROVE  subscribers' = subscribers
  BY <1>4, Zenon DEF Pair, Unpair, CloseRevoked, Shutdown, CloseEndpoint
<1> QED
  BY <1>1, <1>2, <1>3, <1>4, Zenon DEF Next

\* What a step may do to the slots.
KeepsSlots ==
  /\ \A c \in admissions.tokens \ admissions'.tokens :
       conn'[c].stage = "gone" \/ \E n \in admissions'.tokens \ admissions.tokens :
                                    Device(n) = Device(c)
  /\ \A s \in subscribers.tokens \ subscribers'.tokens :
       stream'[s].stage = "over" \/ \E n \in subscribers'.tokens \ subscribers.tokens :
                                      Device(n) = Device(s)

\* One step takes a slot only from what ends, or for a newer connection or stream of the device.
LEMMA StepKeepsSlots == HInv /\ [Next]_vars => [KeepsSlots]_vars
<1> SUFFICES ASSUME HInv, Next PROVE KeepsSlots
  OBVIOUS
<1>1. ASSUME NEW x \in admissions.tokens \ admissions'.tokens
      PROVE  conn'[x].stage = "gone" \/ \E n \in admissions'.tokens \ admissions.tokens :
                                          Device(n) = Device(x)
  <2>1. PICK c \in Connections : Admit(c) \/ ReleaseConnection(c)
    BY <1>1, SlotsOfConnections, Zenon
  <2>2. CASE Admit(c)
    BY <1>1, <2>2, AdmitStep, Zenon
  <2>3. CASE ReleaseConnection(c)
    <3>1. x = c
      BY <1>1, <2>3 DEF ReleaseConnection, Remove
    <3>2. conn \in [Connections -> ConnRecord]
      BY Zenon DEF HInv, Types
    <3>3. conn'[c] = [conn[c] EXCEPT !.stage = "gone"] /\ conn[c] \in ConnRecord
      BY <2>3, <3>2 DEF ReleaseConnection
    <3> QED
      BY <3>1, <3>3 DEF ConnRecord
  <2> QED
    BY <2>1, <2>2, <2>3, Zenon
<1>2. ASSUME NEW x \in subscribers.tokens \ subscribers'.tokens
      PROVE  stream'[x].stage = "over" \/ \E n \in subscribers'.tokens \ subscribers.tokens :
                                            Device(n) = Device(x)
  <2>1. PICK s \in Streams : Subscribe(s) \/ FinishStream(s) \/ AbortTask(s)
    BY <1>2, SlotsOfSubscriptions, Zenon
  <2>2. CASE Subscribe(s)
    BY <1>2, <2>2, SubscribeStep, Zenon
  <2>3. CASE FinishStream(s) \/ AbortTask(s)
    <3>1. subscribers'.tokens = subscribers.tokens \ {s} /\ stream'[s].stage = "over"
      BY <2>3, FinishStep, Zenon
    <3> QED
      BY <1>2, <3>1
  <2> QED
    BY <2>1, <2>2, <2>3, Zenon
<1> QED
  BY <1>1, <1>2, Zenon DEF KeepsSlots

\* A slot is lost only by the task that ends or to a newer one of the same device.
THEOREM SlotsStayKept == Spec => SlotsAreKept
<1>1. Spec => [][KeepsSlots]_vars
  BY HostInvariant, StepKeepsSlots, PTL DEF Spec
<1> QED
  BY <1>1 DEF SlotsAreKept, KeepsSlots
=============================================================================
