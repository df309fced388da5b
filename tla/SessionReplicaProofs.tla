------------------------ MODULE SessionReplicaProofs ------------------------
(* Proofs about a session and its subscribers, for any number of subscribers, cards and modes,
   and any bounds of the window, the history and the channel.

   The first part proves the invariant RInv, and from it the three invariants of SessionReplica.
   What it is about is where a row seen in this epoch may be now: under its own number, or before
   every row that is left.  The second part proves the refinement of SessionView.  Chain says that
   there is one history of what the session was at its revisions: the snapshots of its identity
   lie on it, the deltas lead along it, and it ends with what the session is.                  *)
EXTENDS SessionReplica, FiniteSetTheorems, WellFoundedInduction, TLAPS

\* The types of the session, of what it publishes, and of what a subscriber has.
Session ==
  [on : BOOLEAN, kind : Kinds, token : Nat, gen : Nat, epoch : Nat, rev : Nat, seed : Nat,
   link : {"stream", "observer", "none"}, topo : {"managed", "adopted", "attached"},
   turn : Turns, run : BOOLEAN, cards : SUBSET Cards, mode : Modes \cup {None}, fresh : BOOLEAN,
   full : BOOLEAN, route : Nat, commands : BOOLEAN, hist : SUBSET Row, next : Nat,
   rows : SUBSET Row]

Change == [turn : Turns \cup {None}, raised : SUBSET Cards, removed : SUBSET Cards,
           row : SUBSET Row, route : Nat \cup {None}, commands : BOOLEAN \cup {None},
           fresh : BOOLEAN \cup {None}, mode : Modes \cup {None}]
DeltaFrame == [kind : {"delta"}, epoch : Nat, gen : Nat, base : Nat, rev : Nat, ch : Change]
Signal == [kind : {"closed", "lagged", "resync", "receipt"}]
Frame == DeltaFrame \cup Signal
ClientRecord == [state : {"off", "open", "stale"}, snap : Snapshot \cup {None}, old : SUBSET Row]

Types ==
  /\ host \in Session /\ route \in Nat /\ born \in Nat
  /\ client \in [Clients -> ClientRecord]
  /\ ring \in [Clients -> Seq(Frame)]
  /\ \A c \in Clients : client[c].state = "open" => client[c].snap # None

\* Rows are told apart by their identifier and by their number.
Distinct(rows) == \A e, f \in rows : e.id = f.id \/ e.seq = f.seq => e = f

\* The history of a session: no two rows share an identifier or a number, none is beyond the next
\* of either, and the window is the newest of it.
HistoryOK(h, ids) ==
  /\ IsFiniteSet(h.hist) /\ Cardinality(h.hist) <= MaxHistory /\ Distinct(h.hist)
  /\ \A e \in h.hist : e.id <= ids /\ 0 < e.seq /\ e.seq < h.next
  /\ 0 < h.next
  /\ h.rows = Newest(h.hist, MaxWindow)
HistoryInv == HistoryOK(host, born)

\* Only an observed session has rows restored to it, and it never has the stream of an adapter;
\* the route is of this registration; and the turn shown is that of the open run.
LinkOK(h) ==
  /\ h.link = "observer" => h.kind = "observer"
  /\ h.link = "stream" => h.kind # "observer"
  /\ h.route \in {0, h.token}
  /\ h.turn = "running" => h.run
  /\ h.run => h.turn \in {"running", "awaiting"}

\* A row is among others under its own number, or before all of them.
Stands(x, rows) == \E f \in rows : f.id = x.id /\ f.seq = x.seq
Precedes(x, rows) == \A f \in rows : f.id # x.id /\ x.seq < f.seq

\* Where a row that was seen in this epoch is: where it was, or before all the rows that are
\* left.  The history of an observed session is full from the first row that it dropped, which
\* is why none is restored in the place of such a row.
Seated(x, rows, kind) ==
  Stands(x, rows) \/ (Precedes(x, rows) /\ (kind = "observer" => Cardinality(rows) = MaxHistory))
Placed(x) == x.id <= born /\ x.seq < host.next /\ Seated(x, host.hist, host.kind)

\* What carries the identity the session has now.
Mine(x) == x.epoch = host.epoch /\ x.gen = host.gen

\* No subscriber is ahead of the session, and what it holds of this epoch is placed.
SnapOK(k) ==
  k.snap # None =>
    /\ k.snap.epoch <= host.epoch
    /\ Mine(k.snap) => k.snap.rev <= host.rev /\ \A e \in k.old \cup k.snap.rows : Placed(e)

\* The same of a delta that is under way.
DeltaOK(d) ==
  /\ d.epoch <= host.epoch /\ d.rev = d.base + 1
  /\ Mine(d) => d.rev <= host.rev /\ \A e \in d.ch.row : Placed(e)

Deltas(q) == {q[i] : i \in {j \in DOMAIN q : q[j].kind = "delta"}}

SubscriberInv ==
  \A c \in Clients : SnapOK(client[c]) /\ \A d \in Deltas(ring[c]) : DeltaOK(d)

RInv == Types /\ HistoryInv /\ LinkOK(host) /\ SubscriberInv
-----------------------------------------------------------------------------
(* Numbers and the newest rows *)

\* A set of numbers has a least one.
LEMMA LeastNumber ==
  ASSUME NEW S, S \subseteq Nat, S # {}
  PROVE  \E m \in S : \A n \in S : m <= n
<1> DEFINE R == OpToRel(<, Nat)
<1>1. IsWellFoundedOn(R, Nat)
  BY NatLessThanWellFounded, Zenon
<1>2. PICK m \in S : \A n \in S : ~(<<n, m>> \in R)
  <2> HIDE DEF R
  <2> QED
    BY <1>1, WFMin, Zenon
<1>3. \A n \in S : n \in Nat /\ m \in Nat /\ <<n, m>> \in Nat \X Nat
  BY Zenon
<1>4. \A n \in S : ~(n < m)
  BY <1>2, <1>3, Zenon DEF OpToRel
<1> QED
  BY <1>3, <1>4

\* A bounded set of numbers has a greatest one.
LEMMA GreatestNumber ==
  ASSUME NEW S, S \subseteq Nat, S # {}, NEW b \in Nat, \A n \in S : n <= b
  PROVE  \E m \in S : \A n \in S : n <= m
<1> DEFINE D == {b - n : n \in S}
<1>1. D \subseteq Nat /\ D # {}
  <2>1. \A n \in S : b - n \in Nat
    OBVIOUS
  <2>2. PICK n \in S : TRUE
    BY Zenon
  <2>3. b - n \in D
    BY Zenon
  <2> QED
    BY <2>1, <2>3, Zenon
<1>2. PICK d \in D : \A e \in D : d <= e
  <2> HIDE DEF D
  <2> QED
    BY <1>1, LeastNumber, Zenon
<1>3. PICK m \in S : d = b - m
  BY Zenon
<1>4. \A n \in S : b - m <= b - n
  BY <1>2, <1>3, Zenon
<1> QED
  BY <1>4

\* The rows numbered above one.
Above(rows, q) == {f \in rows : f.seq > q}

\* What the newest n rows are: as many as there are up to n, and above all the others.
LEMMA NewestFacts ==
  ASSUME NEW S, S \subseteq Row, IsFiniteSet(S), Distinct(S), NEW n \in Nat,
         NEW b \in Nat, \A e \in S : e.seq <= b
  PROVE  LET T == Newest(S, n)
         IN /\ T \subseteq S /\ IsFiniteSet(T) /\ Distinct(T)
            /\ \A e \in S \ T, f \in T : e.seq < f.seq
            /\ Cardinality(T) <= n
            /\ Cardinality(S) <= n => T = S
            /\ n <= Cardinality(S) => Cardinality(T) = n
<1> DEFINE T == Newest(S, n)
<1>1. T = {e \in S : Cardinality(Above(S, e.seq)) < n}
  BY Zenon DEF Newest, Above
<1> HIDE DEF T
<1>2. \A e \in S : /\ IsFiniteSet(Above(S, e.seq)) /\ Cardinality(Above(S, e.seq)) \in Nat
                   /\ Above(S, e.seq) \subseteq S /\ e.seq \in Nat
  <2> SUFFICES ASSUME NEW e \in S
               PROVE  /\ IsFiniteSet(Above(S, e.seq)) /\ Cardinality(Above(S, e.seq)) \in Nat
                      /\ Above(S, e.seq) \subseteq S /\ e.seq \in Nat
    BY Zenon
  <2>1. Above(S, e.seq) \in SUBSET S /\ e.seq \in Nat
    BY Zenon DEF Above, Row
  <2>2. IsFiniteSet(Above(S, e.seq))
    BY <2>1, FS_Subset, Zenon
  <2> QED
    BY <2>1, <2>2, FS_CardinalityType, Zenon
<1>3. T \in SUBSET S
  BY <1>1, Zenon
<1>4. IsFiniteSet(T) /\ Cardinality(T) \in Nat /\ Cardinality(S) \in Nat
  BY <1>3, FS_Subset, FS_CardinalityType, Zenon
<1>5. Distinct(T)
  BY <1>3, Zenon DEF Distinct
<1>6. \A e \in S \ T, f \in T : e.seq < f.seq
  <2> SUFFICES ASSUME NEW e \in S \ T, NEW f \in T, ~(e.seq < f.seq) PROVE FALSE
    BY Zenon
  <2>1. e \in S /\ f \in S
    BY <1>3, Zenon
  <2>2. Above(S, e.seq) \in SUBSET Above(S, f.seq)
    BY <1>2, <2>1 DEF Above, Row
  <2>3. Cardinality(Above(S, e.seq)) <= Cardinality(Above(S, f.seq))
    BY <1>2, <2>1, <2>2, FS_Subset, Zenon
  <2> QED
    BY <1>1, <1>2, <2>1, <2>3
<1>7. Cardinality(T) <= n
  <2>1. CASE T = {}
    BY <2>1, FS_EmptySet
  <2>2. CASE T # {}
    <3>1. Seqs(T) \subseteq Nat /\ Seqs(T) # {}
      BY <1>2, <1>3, <2>2, Zenon DEF Seqs
    <3>2. PICK m \in Seqs(T) : \A q \in Seqs(T) : m <= q
      BY <3>1, LeastNumber, Zenon
    <3>3. PICK e \in T : e.seq = m
      BY Zenon DEF Seqs
    <3>4. T \ {e} \in SUBSET Above(S, e.seq)
      <4> SUFFICES ASSUME NEW f \in T, f # e PROVE f.seq > e.seq
        BY <1>3, Zenon DEF Above
      <4>1. f.seq # e.seq
        BY <1>5, Zenon DEF Distinct
      <4>2. f.seq \in Seqs(T) /\ f.seq \in Nat /\ e.seq \in Nat
        BY <1>2, <1>3, Zenon DEF Seqs
      <4> QED
        BY <3>2, <3>3, <4>1, <4>2
    <3>5. Cardinality(T \ {e}) <= Cardinality(Above(S, e.seq))
      BY <1>2, <1>3, <3>4, FS_Subset, Zenon
    <3>6. Cardinality(T \ {e}) = Cardinality(T) - 1
      BY <1>4, FS_RemoveElement, Zenon
    <3> QED
      BY <1>1, <1>2, <1>3, <1>4, <3>5, <3>6
  <2> QED
    BY <2>1, <2>2, Zenon
<1>8. ASSUME Cardinality(S) <= n PROVE T = S
  <2> SUFFICES ASSUME NEW e \in S PROVE Cardinality(Above(S, e.seq)) < n
    BY <1>1, Zenon
  <2>1. Above(S, e.seq) \in SUBSET (S \ {e})
    <3>1. e.seq \in Nat /\ ~(e.seq > e.seq)
      BY <1>2
    <3> QED
      BY <3>1, Zenon DEF Above
  <2>2. IsFiniteSet(S \ {e}) /\ Cardinality(S \ {e}) = Cardinality(S) - 1
    BY FS_RemoveElement, Zenon
  <2>3. Cardinality(Above(S, e.seq)) <= Cardinality(S \ {e})
    BY <2>1, <2>2, FS_Subset, Zenon
  <2> QED
    BY <1>2, <1>4, <1>8, <2>2, <2>3
<1>9. ASSUME n <= Cardinality(S) PROVE Cardinality(T) = n
  <2>1. CASE T = S
    BY <1>4, <1>7, <1>9, <2>1
  <2>2. CASE T # S
    <3> DEFINE D == S \ T
    <3>1. Seqs(D) \subseteq Nat /\ Seqs(D) # {} /\ \A q \in Seqs(D) : q <= b
      BY <1>2, <1>3, <2>2, Zenon DEF Seqs
    <3> HIDE DEF D
    <3>2. PICK m \in Seqs(D) : \A q \in Seqs(D) : q <= m
      BY <3>1, GreatestNumber, Zenon
    <3>3. PICK e \in D : e.seq = m
      BY Zenon DEF Seqs
    <3>4. e \in S /\ e \notin T /\ n <= Cardinality(Above(S, e.seq))
      BY <1>1, <1>2 DEF D
    <3>5. Above(S, e.seq) \in SUBSET T
      <4> SUFFICES ASSUME NEW f \in S, f.seq > e.seq, f \notin T PROVE FALSE
        BY Zenon DEF Above
      <4>1. f.seq \in Seqs(D) /\ f.seq \in Nat /\ e.seq \in Nat
        BY <1>2, <3>4, Zenon DEF Seqs, D
      <4> QED
        BY <3>2, <3>3, <4>1
    <3>6. Cardinality(Above(S, e.seq)) <= Cardinality(T)
      BY <1>4, <3>5, FS_Subset, Zenon
    <3> QED
      BY <1>2, <1>4, <1>7, <3>4, <3>6
  <2> QED
    BY <2>1, <2>2, Zenon
<1> QED
  BY <1>3, <1>4, <1>5, <1>6, <1>7, <1>8, <1>9, Zenon DEF T
-----------------------------------------------------------------------------
(* Frames *)

\* What is published reaches a queue as it is, or not at all.
LEMMA SentFacts ==
  ASSUME NEW q \in Seq(Frame), NEW f \in Seq(Frame)
  PROVE  /\ Sent(q, f) \in Seq(Frame)
         /\ Deltas(Sent(q, f)) \subseteq Deltas(q) \cup Deltas(f)
<1> DEFINE l == [kind |-> "lagged"]
<1>1. l \in Frame
  BY Zenon DEF Frame, Signal
<1>2. <<l>> \in Seq(Frame) /\ Deltas(<<l>>) = {}
  BY <1>1 DEF Deltas
<1>3. q \o f \in Seq(Frame) /\ Deltas(q \o f) \subseteq Deltas(q) \cup Deltas(f)
  <2>1. q \o f \in Seq(Frame)
    OBVIOUS
  <2>2. ASSUME NEW i \in DOMAIN (q \o f)
        PROVE  (i \in DOMAIN q /\ (q \o f)[i] = q[i]) \/ (\E j \in DOMAIN f : (q \o f)[i] = f[j])
    <3>1. CASE i <= Len(q)
      BY <3>1
    <3>2. CASE i > Len(q)
      <4>1. i - Len(q) \in DOMAIN f /\ (q \o f)[i] = f[i - Len(q)]
        BY <3>2
      <4> QED
        BY <4>1, Zenon
    <3> QED
      BY <3>1, <3>2
  <2> QED
    BY <2>1, <2>2, Zenon DEF Deltas
<1> QED
  BY <1>2, <1>3, Zenon DEF Sent

\* Two frames, one after the other.
LEMMA Joined == ASSUME NEW S, NEW a \in S, NEW b \in S PROVE <<a>> \o <<b>> = <<a, b>>
<1> DEFINE p == <<a>> \o <<b>>
           q == <<a, b>>
<1>1. p \in Seq(S) /\ Len(p) = 2 /\ p[1] = a /\ p[2] = b
  OBVIOUS
<1>2. q \in Seq(S) /\ Len(q) = 2 /\ q[1] = a /\ q[2] = b
  OBVIOUS
<1> HIDE DEF p, q
<1>3. DOMAIN p = 1..2 /\ DOMAIN q = 1..2
  BY <1>1, <1>2
<1>4. p = [i \in 1..2 |-> p[i]] /\ q = [i \in 1..2 |-> q[i]]
  BY <1>1, <1>2, <1>3
<1>5. \A i \in 1..2 : p[i] = q[i]
  BY <1>1, <1>2
<1>6. p = q
  BY <1>4, <1>5, Zenon
<1> QED
  BY <1>6, Zenon DEF p, q

\* A sequence of one or two frames.
LEMMA FewFrames ==
  ASSUME NEW d \in DeltaFrame, NEW s \in Signal
  PROVE  /\ <<d>> \in Seq(Frame) /\ Deltas(<<d>>) = {d}
         /\ <<s>> \in Seq(Frame) /\ Deltas(<<s>>) = {}
         /\ <<d, s>> \in Seq(Frame) /\ Deltas(<<d, s>>) = {d}
         /\ <<s, d>> \in Seq(Frame) /\ Deltas(<<s, d>>) = {d}
<1>1. d \in Frame /\ s \in Frame /\ d.kind = "delta" /\ s.kind # "delta"
  BY Zenon DEF Frame, DeltaFrame, Signal
<1>2. <<d>> \in Seq(Frame) /\ Deltas(<<d>>) = {d}
  BY <1>1 DEF Deltas
<1>3. <<s>> \in Seq(Frame) /\ Deltas(<<s>>) = {}
  BY <1>1 DEF Deltas
<1>4. <<d, s>> \in Seq(Frame) /\ Deltas(<<d, s>>) = {d}
  BY <1>1 DEF Deltas
<1>5. <<s, d>> \in Seq(Frame) /\ Deltas(<<s, d>>) = {d}
  BY <1>1 DEF Deltas
<1> QED
  BY <1>2, <1>3, <1>4, <1>5, Zenon

\* What a publication makes of the queues.
LEMMA SendFacts ==
  ASSUME ring \in [Clients -> Seq(Frame)], NEW f \in Seq(Frame), Send(f)
  PROVE  /\ ring' \in [Clients -> Seq(Frame)]
         /\ \A c \in Clients : Deltas(ring'[c]) \subseteq Deltas(ring[c]) \cup Deltas(f)
<1> SUFFICES ASSUME NEW c \in Clients
             PROVE  /\ ring'[c] \in Seq(Frame)
                    /\ Deltas(ring'[c]) \subseteq Deltas(ring[c]) \cup Deltas(f)
  BY Zenon DEF Send
<1>1. ring'[c] = Sent(ring[c], f) \/ ring'[c] = ring[c]
  BY Zenon DEF Send
<1>2. ring[c] \in Seq(Frame)
  BY Zenon
<1> QED
  BY <1>1, <1>2, SentFacts, Zenon

\* The end of a channel adds no delta.
LEMMA ClosingFacts ==
  ASSUME ring \in [Clients -> Seq(Frame)], Closing
  PROVE  /\ ring' \in [Clients -> Seq(Frame)]
         /\ \A c \in Clients : Deltas(ring'[c]) \subseteq Deltas(ring[c])
<1> DEFINE z == [kind |-> "closed"]
<1> SUFFICES ASSUME NEW c \in Clients
             PROVE  /\ ring'[c] \in Seq(Frame)
                    /\ Deltas(ring'[c]) \subseteq Deltas(ring[c])
  BY Zenon DEF Closing
<1>1. ring'[c] = Append(ring[c], z) \/ ring'[c] = ring[c]
  BY Zenon DEF Closing
<1>2. ring[c] \in Seq(Frame) /\ z \in Frame /\ z.kind # "delta"
  BY Zenon DEF Frame, Signal
<1> HIDE DEF z
<1>3. /\ Append(ring[c], z) \in Seq(Frame)
      /\ \A i \in DOMAIN Append(ring[c], z) :
           \/ i \in DOMAIN ring[c] /\ Append(ring[c], z)[i] = ring[c][i]
           \/ Append(ring[c], z)[i] = z
  BY <1>2
<1>4. Deltas(Append(ring[c], z)) \subseteq Deltas(ring[c])
  <2> DEFINE q == ring[c]
             a == Append(ring[c], z)
  <2>1. \A i \in DOMAIN a : a[i].kind = "delta" => i \in DOMAIN q /\ a[i] = q[i]
    BY <1>2, <1>3, Zenon
  <2> HIDE DEF q, a
  <2>2. Deltas(a) \subseteq Deltas(q)
    BY <2>1, Zenon DEF Deltas
  <2> QED
    BY <2>2, Zenon DEF q, a
<1> QED
  BY <1>1, <1>2, <1>3, <1>4, Zenon
-----------------------------------------------------------------------------
(* Rows that were seen *)

\* The facts about the bounds that the proofs use.
LEMMA Bounds == /\ MaxWindow \in Nat /\ MaxHistory \in Nat /\ MaxWindow <= MaxHistory
                /\ 0 < MaxWindow
  BY ReplicaAssumption

\* A row that has its place among some rows, or before as many as the history keeps, has it
\* among the newest of them.
LEMMA SeatedInNewest ==
  ASSUME NEW S, S \subseteq Row, IsFiniteSet(S), Distinct(S), NEW b \in Nat, \A e \in S : e.seq <= b,
         NEW kind, NEW x \in Row,
         \/ Stands(x, S)
         \/ Precedes(x, S) /\ (kind = "observer" => MaxHistory <= Cardinality(S))
  PROVE  Seated(x, Newest(S, MaxHistory), kind)
<1> DEFINE T == Newest(S, MaxHistory)
<1>1. /\ T \subseteq S
      /\ \A e \in S \ T, f \in T : e.seq < f.seq
      /\ Cardinality(S) <= MaxHistory => T = S
      /\ MaxHistory <= Cardinality(S) => Cardinality(T) = MaxHistory
  BY Bounds, NewestFacts, Zenon
<1> HIDE DEF T
<1>2. CASE Precedes(x, S) /\ (kind = "observer" => MaxHistory <= Cardinality(S))
  BY <1>1, <1>2, Zenon DEF Seated, Precedes, T
<1>3. CASE Stands(x, S)
  <2>1. PICK f \in S : f.id = x.id /\ f.seq = x.seq
    BY <1>3, Zenon DEF Stands
  <2>2. CASE f \in T
    BY <2>1, <2>2, Zenon DEF Seated, Stands, T
  <2>3. CASE f \notin T
    <3>1. Precedes(x, T)
      <4> SUFFICES ASSUME NEW g \in T PROVE g.id # x.id /\ x.seq < g.seq
        BY Zenon DEF Precedes
      <4>1. f.seq < g.seq /\ g \in S /\ g # f
        BY <1>1, <2>1, <2>3, Zenon
      <4> QED
        BY <2>1, <4>1, Zenon DEF Distinct
    <3>2. ~(Cardinality(S) <= MaxHistory)
      BY <1>1, <2>1, <2>3, Zenon
    <3>3. Cardinality(S) \in Nat
      BY FS_CardinalityType, Zenon
    <3>4. Cardinality(T) = MaxHistory
      BY <1>1, <3>2, <3>3, Bounds
    <3> QED
      BY <3>1, <3>4, Zenon DEF Seated, T
  <2> QED
    BY <2>2, <2>3, Zenon
<1> QED
  BY <1>2, <1>3, Zenon

\* A history bounded anew is a history, and its window is the newest of it.
LEMMA BoundedHistory ==
  ASSUME NEW S, S \subseteq Row, IsFiniteSet(S), Distinct(S), NEW next \in Nat, NEW id \in Nat,
         \A e \in S : e.id <= id /\ 0 < e.seq /\ e.seq < next
  PROVE  LET T == Newest(S, MaxHistory)
         IN /\ T \subseteq Row /\ IsFiniteSet(T) /\ Cardinality(T) <= MaxHistory /\ Distinct(T)
            /\ \A e \in T : e.id <= id /\ 0 < e.seq /\ e.seq < next
            /\ Newest(T, MaxWindow) \subseteq Row
<1> DEFINE T == Newest(S, MaxHistory)
<1>1. \A e \in S : e.seq <= next
  BY DEF Row
<1>2. T \subseteq S /\ IsFiniteSet(T) /\ Distinct(T) /\ Cardinality(T) <= MaxHistory
  BY <1>1, Bounds, NewestFacts, Zenon
<1> HIDE DEF T
<1>3. Newest(T, MaxWindow) \subseteq T
  BY Zenon DEF Newest
<1> QED
  BY <1>2, <1>3, Zenon DEF T
-----------------------------------------------------------------------------
(* What a step of the host does to its subscribers *)

\* Within an epoch it is enough that rows keep their places and that what is sent tells of such
\* rows.
LEMMA SameEpoch ==
  ASSUME Types, SubscriberInv, host' \in Session, client' = client,
         host'.epoch = host.epoch, host'.gen = host.gen, host.rev <= host'.rev,
         \A x \in Row : Placed(x) => Placed(x)',
         \A c \in Clients : \A d \in Deltas(ring'[c]) : d \in Deltas(ring[c]) \/ DeltaOK(d)'
  PROVE  SubscriberInv'
<1>1. /\ host.epoch \in Nat /\ host.gen \in Nat /\ host.rev \in Nat /\ host'.rev \in Nat
  BY Zenon DEF Types, Session
<1>2. ASSUME NEW c \in Clients PROVE SnapOK(client[c])'
  <2>1. client[c] \in ClientRecord /\ SnapOK(client[c])
    BY Zenon DEF Types, SubscriberInv
  <2>2. ASSUME client[c].snap # None
        PROVE  /\ client[c].snap.rev \in Nat
               /\ client[c].old \cup client[c].snap.rows \subseteq Row
    BY <2>1, <2>2, Zenon DEF ClientRecord, Snapshot
  <2> QED
    BY <1>1, <2>1, <2>2 DEF SnapOK, Mine
<1>3. ASSUME NEW c \in Clients, NEW d \in Deltas(ring[c]) PROVE DeltaOK(d)'
  <2>1. d \in DeltaFrame /\ DeltaOK(d)
    BY DEF Types, SubscriberInv, Deltas, Frame, DeltaFrame, Signal
  <2>2. d.rev \in Nat /\ d.ch.row \subseteq Row
    BY <2>1, Zenon DEF DeltaFrame, Change
  <2> QED
    BY <1>1, <2>1, <2>2 DEF DeltaOK, Mine
<1> QED
  BY <1>2, <1>3, Zenon DEF SubscriberInv

\* A new epoch leaves nothing to tell of the one before.
LEMMA NewEpoch ==
  ASSUME Types, SubscriberInv, host' \in Session, client' = client, host.epoch < host'.epoch,
         \A c \in Clients : Deltas(ring'[c]) \subseteq Deltas(ring[c])
  PROVE  SubscriberInv'
<1>1. host.epoch \in Nat /\ host'.epoch \in Nat
  BY Zenon DEF Types, Session
<1>2. ASSUME NEW c \in Clients PROVE SnapOK(client[c])'
  <2>1. client[c] \in ClientRecord /\ SnapOK(client[c])
    BY Zenon DEF Types, SubscriberInv
  <2>2. ASSUME client[c].snap # None PROVE client[c].snap.epoch \in Nat
    BY <2>1, <2>2, Zenon DEF ClientRecord, Snapshot
  <2> QED
    BY <1>1, <2>1, <2>2 DEF SnapOK, Mine
<1>3. ASSUME NEW c \in Clients, NEW d \in Deltas(ring[c]) PROVE DeltaOK(d)'
  <2>1. d \in DeltaFrame /\ DeltaOK(d)
    BY DEF Types, SubscriberInv, Deltas, Frame, DeltaFrame, Signal
  <2>2. d.epoch \in Nat
    BY <2>1, Zenon DEF DeltaFrame
  <2> QED
    BY <1>1, <2>1, <2>2 DEF DeltaOK, Mine
<1> QED
  BY <1>2, <1>3, Zenon DEF SubscriberInv

\* A row in its place keeps it where the history stays as it is.
LEMMA PlacesStay ==
  ASSUME NEW x, Placed(x), host'.hist = host.hist, host'.next = host.next,
         host'.kind = host.kind, born' = born
  PROVE  Placed(x)'
BY Zenon DEF Placed, Seated, Stands, Precedes

\* NoChange with some of its fields given.
LEMMA NoChangeType == NoChange \in Change
  BY Zenon DEF NoChange, Change

\* A session with a revision of its own.
LEMMA Stamped ==
  ASSUME NEW h \in Session, NEW r \in Nat
  PROVE  LET g == [h EXCEPT !.rev = r]
         IN /\ g \in Session /\ g.rev = r
            /\ g.on = h.on /\ g.kind = h.kind /\ g.token = h.token /\ g.link = h.link
            /\ g.epoch = h.epoch /\ g.gen = h.gen /\ g.hist = h.hist /\ g.next = h.next
            /\ g.rows = h.rows /\ g.turn = h.turn /\ g.run = h.run /\ g.route = h.route
            /\ Wire(g) = [Wire(h) EXCEPT !.rev = r]
<1> DEFINE g == [h EXCEPT !.rev = r]
<1>1. g \in Session
  BY Zenon DEF Session
<1>2. g.rev = r
  BY Zenon DEF Session
<1>3. g.on = h.on /\ g.kind = h.kind /\ g.token = h.token /\ g.link = h.link /\ g.epoch = h.epoch
  BY Zenon DEF Session
<1>4. g.gen = h.gen /\ g.hist = h.hist /\ g.next = h.next /\ g.rows = h.rows
  BY Zenon DEF Session
<1>5. g.turn = h.turn /\ g.run = h.run /\ g.route = h.route
  BY Zenon DEF Session
<1>6. /\ g.cards = h.cards /\ g.topo = h.topo /\ g.commands = h.commands /\ g.fresh = h.fresh
      /\ g.full = h.full /\ g.mode = h.mode
  BY Zenon DEF Session
<1> HIDE DEF g
<1>7. Wire(g) = [Wire(h) EXCEPT !.rev = r]
  BY <1>2, <1>3, <1>4, <1>5, <1>6 DEF Wire
<1> QED
  BY <1>1, <1>2, <1>3, <1>4, <1>5, <1>6, <1>7, Zenon DEF g

\* A change that leaves the history alone, and the delta that tells of it.
LEMMA PublishStep ==
  ASSUME RInv, NEW next \in Session, NEW ch \in Change, NEW before \in Seq(Frame), Deltas(before) = {},
         host' = [next EXCEPT !.rev = host.rev + 1],
         Send(before \o <<Delta(next, ch)>>), ch.row = {},
         next.epoch = host.epoch, next.gen = host.gen, next.hist = host.hist,
         next.next = host.next, next.rows = host.rows, next.kind = host.kind,
         client' = client, born' = born, route' \in Nat
  PROVE  Types' /\ HistoryInv' /\ SubscriberInv'
<1>1. /\ Types /\ HistoryInv /\ SubscriberInv /\ host \in Session /\ host.rev \in Nat
      /\ host.rev + 1 \in Nat
  BY SMTT(30) DEF RInv, Types, Session
<1>2. /\ host' \in Session /\ host'.rev = host.rev + 1 /\ host'.epoch = host.epoch
      /\ host'.gen = host.gen /\ host'.hist = host.hist /\ host'.next = host.next
      /\ host'.rows = host.rows /\ host'.kind = host.kind
  BY <1>1, Stamped, ZenonT(60)
<1>0. /\ Delta(next, ch) \in DeltaFrame /\ Delta(next, ch).kind = "delta"
      /\ Delta(next, ch).epoch = host.epoch /\ Delta(next, ch).gen = host.gen
      /\ Delta(next, ch).base = host.rev /\ Delta(next, ch).rev = host.rev + 1
      /\ Delta(next, ch).ch.row = {}
  BY <1>1, Zenon DEF Delta, DeltaFrame, Session
<1>3. PICK d \in DeltaFrame :
        /\ d = Delta(next, ch) /\ d.kind = "delta" /\ d.epoch = host.epoch /\ d.gen = host.gen
        /\ d.base = host.rev /\ d.rev = host.rev + 1 /\ d.ch.row = {}
  BY <1>0, Zenon
<1>4. before \o <<d>> \in Seq(Frame) /\ Deltas(before \o <<d>>) \subseteq {d}
  <2>1. d \in Frame /\ <<d>> \in Seq(Frame)
    BY <1>3 DEF Frame
  <2>2. \A i \in DOMAIN (before \o <<d>>) :
          \/ i \in DOMAIN before /\ (before \o <<d>>)[i] = before[i]
          \/ (before \o <<d>>)[i] = d
    BY <2>1
  <2>3. \A i \in DOMAIN before : before[i].kind # "delta"
    BY Zenon DEF Deltas
  <2> QED
    BY <2>1, <2>2, <2>3 DEF Deltas
<1>5. /\ ring' \in [Clients -> Seq(Frame)]
      /\ \A c \in Clients : Deltas(ring'[c]) \subseteq Deltas(ring[c]) \cup {d}
  <2>1. Send(before \o <<d>>) /\ ring \in [Clients -> Seq(Frame)]
    BY <1>1, <1>3, Zenon DEF Types
  <2> QED
    BY <1>4, <2>1, SendFacts, Zenon
<1>6. Types' /\ HistoryInv'
  BY <1>1, <1>2, <1>5, Zenon DEF Types, HistoryInv, HistoryOK
<1>7. DeltaOK(d)'
  <2>1. host.epoch \in Nat
    BY <1>1, Zenon DEF Session
  <2> QED
    BY <1>1, <1>2, <1>3, <2>1 DEF DeltaOK
<1>8. \A x \in Row : Placed(x) => Placed(x)'
  BY <1>2, PlacesStay, Zenon
<1>9. host.rev <= host'.rev
  BY <1>1, <1>2
<1>10. SubscriberInv'
  BY <1>1, <1>2, <1>5, <1>7, <1>8, <1>9, SameEpoch, Zenon
<1> QED
  BY <1>6, <1>10, Zenon

\* The same where nothing is sent beside the delta.
LEMMA QuietStep ==
  ASSUME RInv, NEW next \in Session, NEW ch \in Change, Publish(next, ch), ch.row = {}, LinkOK(next),
         next.epoch = host.epoch, next.gen = host.gen, next.hist = host.hist,
         next.next = host.next, next.rows = host.rows, next.kind = host.kind,
         client' = client, born' = born, route' \in Nat
  PROVE  RInv'
<1>1. <<>> \in Seq(Frame) /\ Deltas(<<>>) = {}
  BY DEF Deltas
<1>2. <<>> \o <<Delta(next, ch)>> = <<Delta(next, ch)>>
  OBVIOUS
<1>3. host' = [next EXCEPT !.rev = host.rev + 1] /\ Send(<<Delta(next, ch)>>)
  BY Zenon DEF Publish
<1>4. Types' /\ HistoryInv' /\ SubscriberInv'
  BY <1>1, <1>2, <1>3, PublishStep, Zenon
<1>5. host.rev + 1 \in Nat
  BY SMTT(30) DEF RInv, Types, Session
<1>6. LinkOK(host')
  BY <1>3, <1>5, Stamped DEF LinkOK
<1> QED
  BY <1>4, <1>6, Zenon DEF RInv, LinkOK

\* Turns, interactions and modes.
LEMMA TurnSteps ==
  ASSUME RInv,
         \/ \E i \in Cards : Raise(i) \/ Resolve(i)
         \/ \E turn \in {"running", "idle"} : ReportTurn(turn)
         \/ Attention \/ IdleReport \/ ExpireClaim
         \/ \E m \in Modes : ReportMode(m)
  PROVE  RInv'
<1>1. host \in Session /\ LinkOK(host) /\ route \in Nat /\ Resting \in Turns
  BY Zenon DEF RInv, Types, Resting, Turns
<1>2. ASSUME NEW i \in Cards, Raise(i) PROVE RInv'
  <2> DEFINE next == [host EXCEPT !.cards = @ \cup {i}, !.turn = "awaiting"]
             ch == [NoChange EXCEPT !.raised = {i}, !.turn = "awaiting"]
  <2>1. next \in Session /\ ch \in Change /\ ch.row = {}
    BY <1>1, <1>2, NoChangeType, ZenonT(60) DEF Session, Change, Turns, NoChange
  <2>2. LinkOK(next)
    BY <1>1, Zenon DEF LinkOK, Session
  <2>3. /\ next.epoch = host.epoch /\ next.gen = host.gen /\ next.hist = host.hist
        /\ next.next = host.next /\ next.rows = host.rows /\ next.kind = host.kind
    BY <1>1, Zenon DEF Session
  <2>4. Publish(next, ch) /\ client' = client /\ born' = born /\ route' \in Nat
    BY <1>1, <1>2, Zenon DEF Raise, quiet
  <2> HIDE DEF next, ch
  <2> QED
    BY <2>1, <2>2, <2>3, <2>4, QuietStep, Zenon
<1>3. ASSUME NEW i \in Cards, Resolve(i) PROVE RInv'
  <2> DEFINE turn == IF host.cards = {i} THEN Resting ELSE "awaiting"
             next == [host EXCEPT !.cards = @ \ {i}, !.turn = turn]
             ch == [NoChange EXCEPT !.removed = {i}, !.turn = turn]
  <2>0. turn \in Turns /\ (turn = "running" => host.run)
    BY <1>1, Zenon DEF Turns, Resting
  <2>4. Publish(next, ch) /\ client' = client /\ born' = born /\ route' \in Nat
    BY <1>1, <1>3, Zenon DEF Resolve, quiet
  <2>5. host.run => turn \in {"running", "awaiting"}
    BY Zenon DEF Resting
  <2> HIDE DEF turn
  <2>1. next \in Session /\ ch \in Change /\ ch.row = {}
    BY <1>1, <2>0, NoChangeType, ZenonT(60) DEF Session, Change, NoChange
  <2>2. LinkOK(next)
    BY <1>1, <2>0, <2>5, Zenon DEF LinkOK, Session
  <2>3. /\ next.epoch = host.epoch /\ next.gen = host.gen /\ next.hist = host.hist
        /\ next.next = host.next /\ next.rows = host.rows /\ next.kind = host.kind
    BY <1>1, Zenon DEF Session
  <2> HIDE DEF next, ch
  <2> QED
    BY <2>1, <2>2, <2>3, <2>4, QuietStep, Zenon
<1>4. ASSUME NEW turn \in Turns, NEW run \in BOOLEAN, turn = "running" => run,
             run => turn \in {"running", "awaiting"},
             Publish([host EXCEPT !.turn = turn, !.run = run], [NoChange EXCEPT !.turn = turn]),
             UNCHANGED quiet
      PROVE  RInv'
  <2> DEFINE next == [host EXCEPT !.turn = turn, !.run = run]
             ch == [NoChange EXCEPT !.turn = turn]
  <2>1. next \in Session /\ ch \in Change /\ ch.row = {}
    BY <1>1, NoChangeType, Zenon DEF Session, Change, NoChange
  <2>2. LinkOK(next)
    BY <1>1, <1>4, Zenon DEF LinkOK, Session
  <2>3. /\ next.epoch = host.epoch /\ next.gen = host.gen /\ next.hist = host.hist
        /\ next.next = host.next /\ next.rows = host.rows /\ next.kind = host.kind
    BY <1>1, Zenon DEF Session
  <2>4. Publish(next, ch) /\ client' = client /\ born' = born /\ route' \in Nat
    BY <1>1, <1>4, Zenon DEF quiet
  <2> HIDE DEF next, ch
  <2> QED
    BY <2>1, <2>2, <2>3, <2>4, QuietStep, Zenon
<1>5. ASSUME NEW turn \in {"running", "idle"}, ReportTurn(turn) PROVE RInv'
  <2>1. turn \in Turns /\ (turn = "running") \in BOOLEAN
    BY Zenon DEF Turns
  <2>2. /\ Publish([host EXCEPT !.turn = turn, !.run = (turn = "running")], [NoChange EXCEPT !.turn = turn])
        /\ UNCHANGED quiet
    BY <1>5, Zenon DEF ReportTurn
  <2>3. (turn = "running") => turn \in {"running", "awaiting"}
    BY Zenon
  <2> QED
    BY <1>4, <2>1, <2>2, <2>3, Zenon
<1>6. ASSUME Attention PROVE RInv'
  <2>1. [host EXCEPT !.turn = "awaiting"] = [host EXCEPT !.turn = "awaiting", !.run = host.run]
    BY <1>1, Zenon DEF Session
  <2>2. host.run \in BOOLEAN /\ "awaiting" \in Turns
    BY <1>1, Zenon DEF Session, Turns
  <2>3. /\ Publish([host EXCEPT !.turn = "awaiting", !.run = host.run], [NoChange EXCEPT !.turn = "awaiting"])
        /\ UNCHANGED quiet
    BY <1>6, <2>1, Zenon DEF Attention
  <2> QED
    BY <1>4, <2>2, <2>3, Zenon
<1>7. ASSUME IdleReport PROVE RInv'
  BY <1>4, <1>7, Zenon DEF IdleReport, Turns
<1>8. ASSUME ExpireClaim PROVE RInv'
  BY <1>4, <1>8, Zenon DEF ExpireClaim, Turns
<1>9. ASSUME NEW m \in Modes, ReportMode(m) PROVE RInv'
  <2> DEFINE next == [host EXCEPT !.mode = m]
             ch == [NoChange EXCEPT !.mode = m]
  <2>1. next \in Session /\ ch \in Change /\ ch.row = {}
    BY <1>1, NoChangeType, Zenon DEF Session, Change, NoChange
  <2>2. LinkOK(next)
    BY <1>1, Zenon DEF LinkOK, Session
  <2>3. /\ next.epoch = host.epoch /\ next.gen = host.gen /\ next.hist = host.hist
        /\ next.next = host.next /\ next.rows = host.rows /\ next.kind = host.kind
    BY <1>1, Zenon DEF Session
  <2>4. Publish(next, ch) /\ client' = client /\ born' = born /\ route' \in Nat
    BY <1>1, <1>9, Zenon DEF ReportMode, quiet
  <2> HIDE DEF next, ch
  <2> QED
    BY <2>1, <2>2, <2>3, <2>4, QuietStep, Zenon
<1> QED
  BY <1>2, <1>3, <1>5, <1>6, <1>7, <1>8, <1>9, Zenon

\* Receipts, the loss of the adapter and of the route, and the answer of the resolver.
LEMMA LinkSteps ==
  ASSUME RInv, Receipt \/ LoseAdapter \/ LoseRoute \/ \E found \in BOOLEAN : RouteResolved(found)
  PROVE  RInv'
<1>1. host \in Session /\ LinkOK(host) /\ route \in Nat /\ 0 \in Nat
  BY Zenon DEF RInv, Types
<1>2. ASSUME Receipt PROVE RInv'
  <2> DEFINE r == [kind |-> "receipt"]
  <2>1. r \in Frame /\ <<r>> \in Seq(Frame) /\ Deltas(<<r>>) = {}
    BY DEF Frame, Signal, Deltas
  <2>2. <<r>> \o <<Delta(host, NoChange)>> = <<r, Delta(host, NoChange)>>
    <3>1. Delta(host, NoChange) \in Frame
      BY <1>1, NoChangeType DEF Delta, DeltaFrame, Session, Frame
    <3> QED
      BY <2>1, <3>1, Joined, Zenon
  <2>3. host' = [host EXCEPT !.rev = host.rev + 1] /\ Send(<<r, Delta(host, NoChange)>>)
    BY <1>2, Zenon DEF Receipt
  <2>4. client' = client /\ born' = born /\ route' \in Nat
    BY <1>1, <1>2, Zenon DEF Receipt, quiet
  <2>5. NoChange.row = {}
    BY Zenon DEF NoChange
  <2> HIDE DEF r
  <2>6. Types' /\ HistoryInv' /\ SubscriberInv'
    BY <1>1, <2>1, <2>2, <2>3, <2>4, <2>5, NoChangeType, PublishStep, Zenon
  <2>7. host.rev + 1 \in Nat
    BY <1>1 DEF Session
  <2>8. LinkOK(host')
    BY <1>1, <2>3, <2>7, Stamped DEF LinkOK
  <2> QED
    BY <2>6, <2>8, Zenon DEF RInv, LinkOK
<1>3. ASSUME NEW h \in Session, h.epoch = host.epoch, h.gen = host.gen, h.hist = host.hist,
             h.next = host.next, h.rows = host.rows, h.kind = host.kind,
             Downgrade(h), UNCHANGED quiet
      PROVE  RInv'
  <2> DEFINE next == [h EXCEPT !.link = "none", !.run = FALSE, !.fresh = FALSE, !.turn = "unknown",
                               !.commands = FALSE, !.route = 0]
             ch == [NoChange EXCEPT !.fresh = FALSE, !.turn = "unknown", !.commands = FALSE, !.route = 0]
  <2>1. next \in Session
    BY <1>1, ZenonT(60) DEF Session, Turns
  <2>2. ch \in Change /\ ch.row = {}
    BY <1>1, NoChangeType, Zenon DEF Change, NoChange, Turns
  <2>3. LinkOK(next)
    BY Zenon DEF LinkOK, Session
  <2>4. /\ next.epoch = h.epoch /\ next.gen = h.gen /\ next.hist = h.hist
        /\ next.next = h.next /\ next.rows = h.rows /\ next.kind = h.kind
    BY Zenon DEF Session
  <2>5. Publish(next, ch) /\ client' = client /\ born' = born /\ route' \in Nat
    BY <1>1, <1>3, Zenon DEF Downgrade, quiet
  <2> HIDE DEF next, ch
  <2> QED
    BY <1>3, <2>1, <2>2, <2>3, <2>4, <2>5, QuietStep, Zenon
<1>4. ASSUME LoseAdapter PROVE RInv'
  <2> DEFINE h == IF host.topo = "adopted" THEN [host EXCEPT !.topo = "attached", !.cards = {}]
                  ELSE host
  <2>1. h \in Session
    BY <1>1, ZenonT(60) DEF Session
  <2>2. /\ h.epoch = host.epoch /\ h.gen = host.gen /\ h.hist = host.hist
        /\ h.next = host.next /\ h.rows = host.rows /\ h.kind = host.kind
    BY <1>1, Zenon DEF Session
  <2>3. Downgrade(h) /\ UNCHANGED quiet
    BY <1>4, Zenon DEF LoseAdapter
  <2> HIDE DEF h
  <2> QED
    BY <1>3, <2>1, <2>2, <2>3, Zenon
<1>5. ASSUME LoseRoute PROVE RInv'
  <2> DEFINE next == [host EXCEPT !.route = 0]
             ch == [NoChange EXCEPT !.route = 0]
  <2>1. next \in Session /\ ch \in Change /\ ch.row = {}
    BY <1>1, NoChangeType, Zenon DEF Session, Change, NoChange
  <2>2. LinkOK(next)
    BY <1>1, Zenon DEF LinkOK, Session
  <2>3. /\ next.epoch = host.epoch /\ next.gen = host.gen /\ next.hist = host.hist
        /\ next.next = host.next /\ next.rows = host.rows /\ next.kind = host.kind
    BY <1>1, Zenon DEF Session
  <2>4. Publish(next, ch) /\ client' = client /\ born' = born /\ route' \in Nat
    BY <1>1, <1>5, Zenon DEF LoseRoute, quiet
  <2> HIDE DEF next, ch
  <2> QED
    BY <2>1, <2>2, <2>3, <2>4, QuietStep, Zenon
<1>6. ASSUME NEW found \in BOOLEAN, RouteResolved(found) PROVE RInv'
  <2>1. route' \in Nat /\ client' = client /\ born' = born
    BY <1>1, <1>6, Zenon DEF RouteResolved
  <2>2. CASE UNCHANGED <<host, ring>>
    BY <2>1, <2>2, ZenonT(60) DEF RInv, Types, HistoryInv, HistoryOK, LinkOK, SubscriberInv, SnapOK, DeltaOK, Mine, Placed, Seated
  <2>3. CASE ~UNCHANGED <<host, ring>>
    <3> DEFINE new == IF found THEN route ELSE 0
               com == (host.link = "stream")
               next == [host EXCEPT !.route = new, !.commands = com]
               ch == [NoChange EXCEPT !.route = new, !.commands = com]
    <3>1. /\ Publish(next, ch) /\ new \in Nat /\ new \in {0, host.token} /\ com \in BOOLEAN
      BY <1>1, <1>6, <2>3, Zenon DEF RouteResolved
    <3> HIDE DEF new, com
    <3>2. next \in Session /\ ch \in Change /\ ch.row = {}
      BY <1>1, <3>1, NoChangeType, ZenonT(60) DEF Session, Change, NoChange
    <3>3. LinkOK(next)
      BY <1>1, <3>1, Zenon DEF LinkOK, Session
    <3>4. /\ next.epoch = host.epoch /\ next.gen = host.gen /\ next.hist = host.hist
          /\ next.next = host.next /\ next.rows = host.rows /\ next.kind = host.kind
      BY <1>1, Zenon DEF Session
    <3> HIDE DEF next, ch
    <3> QED
      BY <2>1, <3>1, <3>2, <3>3, <3>4, QuietStep, Zenon
  <2> QED
    BY <2>2, <2>3, Zenon
<1> QED
  BY <1>2, <1>4, <1>5, <1>6, Zenon

\* A change that subscribers are sent to fetch, in this epoch or as the first of another.
LEMMA ResyncStep ==
  ASSUME RInv, NEW next \in Session, PublishResync(next), LinkOK(next), HistoryOK(next, born'),
         client' = client, born' \in Nat, route' \in Nat, next.gen = host.gen,
         \/ next.epoch = host.epoch + 1
         \/ /\ next.epoch = host.epoch
            /\ \A x \in Row : Placed(x) =>
                 x.id <= born' /\ x.seq < next.next /\ Seated(x, next.hist, next.kind)
  PROVE  RInv'
<1> DEFINE r == host.rev + 1
           h == [next EXCEPT !.rev = r]
<1>1. /\ Types /\ SubscriberInv /\ host \in Session /\ r \in Nat /\ host.rev <= r
      /\ host.epoch \in Nat
  <2>1. Types /\ SubscriberInv /\ host \in Session
    BY Zenon DEF RInv, Types
  <2>2. host.rev \in Nat /\ host.epoch \in Nat
    BY <2>1, Zenon DEF Session
  <2>3. \A n \in Nat : n + 1 \in Nat /\ n <= n + 1
    OBVIOUS
  <2> QED
    BY <2>1, <2>2, <2>3, Zenon
<1>2. host' = [next EXCEPT !.rev = r, !.seed = r] /\ Send(<<Resync>>)
  BY Zenon DEF PublishResync
<1>3. host' = [h EXCEPT !.seed = r]
  BY <1>1, <1>2, Zenon DEF Session
<1> HIDE DEF r
<1>4. /\ h \in Session /\ h.rev = r /\ h.kind = next.kind /\ h.token = next.token
      /\ h.link = next.link /\ h.epoch = next.epoch /\ h.gen = next.gen /\ h.hist = next.hist
      /\ h.next = next.next /\ h.rows = next.rows /\ h.turn = next.turn /\ h.run = next.run
      /\ h.route = next.route
  BY <1>1, Stamped, ZenonT(60)
<1> HIDE DEF h
<1>5. /\ host' \in Session /\ host'.rev = r /\ host'.kind = h.kind /\ host'.token = h.token
      /\ host'.link = h.link /\ host'.epoch = h.epoch
  BY <1>1, <1>3, <1>4, ZenonT(60) DEF Session
<1>6. /\ host'.gen = h.gen /\ host'.hist = h.hist /\ host'.next = h.next /\ host'.rows = h.rows
      /\ host'.turn = h.turn /\ host'.run = h.run /\ host'.route = h.route
  BY <1>1, <1>3, <1>4, Zenon DEF Session
<1>7. <<Resync>> \in Seq(Frame) /\ Deltas(<<Resync>>) = {}
  BY DEF Resync, Frame, Signal, Deltas
<1>8. /\ ring' \in [Clients -> Seq(Frame)]
      /\ \A c \in Clients : Deltas(ring'[c]) \subseteq Deltas(ring[c])
  <2>1. ring \in [Clients -> Seq(Frame)]
    BY <1>1, Zenon DEF Types
  <2> QED
    BY <1>2, <1>7, <2>1, SendFacts, Zenon
<1>9. Types'
  BY <1>1, <1>5, <1>8, Zenon DEF Types
<1>10. HistoryInv' /\ LinkOK(host')
  BY <1>4, <1>5, <1>6, ZenonT(60) DEF HistoryInv, HistoryOK, LinkOK
<1>11. SubscriberInv'
  <2>1. CASE next.epoch = host.epoch + 1
    <3>1. host.epoch < host'.epoch
      BY <1>1, <1>4, <1>5, <2>1
    <3> QED
      BY <1>1, <1>5, <1>8, <3>1, NewEpoch, Zenon
  <2>2. CASE /\ next.epoch = host.epoch
             /\ \A x \in Row : Placed(x) =>
                  x.id <= born' /\ x.seq < next.next /\ Seated(x, next.hist, next.kind)
    <3>1. \A x \in Row : Placed(x) => Placed(x)'
      BY <1>4, <1>5, <1>6, <2>2, SMTT(30) DEF Placed, Seated, Stands, Precedes
    <3>2. host'.epoch = host.epoch /\ host'.gen = host.gen /\ host.rev <= host'.rev
      BY <1>1, <1>4, <1>5, <1>6, <2>2, Zenon
    <3> QED
      BY <1>1, <1>5, <1>8, <3>1, <3>2, SameEpoch, Zenon
  <2> QED
    BY <2>1, <2>2, Zenon
<1> QED
  BY <1>9, <1>10, <1>11, Zenon DEF RInv, LinkOK

\* The hook of an observed process speaks again, and a route begins to be resolved.
LEMMA ObserverSteps ==
  ASSUME RInv, Refresh \/ ResolveRoute
  PROVE  RInv'
<1>1. host \in Session /\ LinkOK(host) /\ HistoryOK(host, born) /\ route \in Nat /\ born \in Nat
  BY Zenon DEF RInv, Types, HistoryInv
<1>2. ASSUME Refresh PROVE RInv'
  <2> DEFINE next == [host EXCEPT !.link = "observer", !.fresh = TRUE]
  <2>1. next \in Session
    BY <1>1, Zenon DEF Session
  <2>2. LinkOK(next)
    BY <1>1, <1>2, Zenon DEF LinkOK, Session, Refresh
  <2>3. /\ next.epoch = host.epoch /\ next.gen = host.gen /\ next.hist = host.hist
        /\ next.next = host.next /\ next.rows = host.rows /\ next.kind = host.kind
    BY <1>1, Zenon DEF Session
  <2>4. PublishResync(next) /\ client' = client /\ born' = born /\ route' = route
    BY <1>2, Zenon DEF Refresh, quiet
  <2> HIDE DEF next
  <2>5. HistoryOK(next, born') /\ born' \in Nat /\ route' \in Nat
    BY <1>1, <2>3, <2>4, Zenon DEF HistoryOK
  <2>6. \A x \in Row : Placed(x) =>
          x.id <= born' /\ x.seq < next.next /\ Seated(x, next.hist, next.kind)
    BY <2>3, <2>4, Zenon DEF Placed
  <2> QED
    BY <2>1, <2>2, <2>3, <2>4, <2>5, <2>6, ResyncStep, Zenon
<1>3. ASSUME ResolveRoute PROVE RInv'
  <2>1. /\ host' = host /\ born' = born /\ client' = client /\ ring' = ring /\ route' \in Nat
    BY <1>1, <1>3, Zenon DEF ResolveRoute, Session
  <2> QED
    BY <2>1, ZenonT(60) DEF RInv, Types, HistoryInv, HistoryOK, LinkOK, SubscriberInv, SnapOK, DeltaOK, Mine, Placed, Seated
<1> QED
  BY <1>2, <1>3, Zenon

\* No rows.
LEMMA NoRows == /\ IsFiniteSet({}) /\ Cardinality({}) = 0 /\ Distinct({}) /\ Newest({}, MaxWindow) = {}
  BY FS_EmptySet, Zenon DEF Distinct, Newest

\* A session that has just registered, with a history of its own or the one it had.
LEMMA RegisteredFacts ==
  ASSUME NEW kind \in Kinds, NEW token \in Nat, NEW gen \in Nat, NEW epoch \in Nat, NEW rev \in Nat,
         NEW hist \in SUBSET Row, NEW next \in Nat
  PROVE  LET h == Registered(kind, token, gen, epoch, rev, hist, next)
         IN /\ h \in Session /\ LinkOK(h)
            /\ h.kind = kind /\ h.gen = gen /\ h.epoch = epoch /\ h.rev = rev /\ h.hist = hist
            /\ h.next = next /\ h.rows = Newest(hist, MaxWindow)
<1> DEFINE h == Registered(kind, token, gen, epoch, rev, hist, next)
<1>1. Newest(hist, MaxWindow) \in SUBSET Row
  BY Zenon DEF Newest
<1>2. kind \in {"managed", "adopted", "observer"}
  BY ReplicaAssumption, Zenon
<1>3. h \in Session
  BY <1>1, <1>2, Zenon DEF Registered, Session, Turns
<1>4. /\ h.kind = kind /\ h.gen = gen /\ h.epoch = epoch /\ h.rev = rev /\ h.hist = hist
      /\ h.next = next /\ h.rows = Newest(hist, MaxWindow)
  BY Zenon DEF Registered
<1>5. LinkOK(h)
  BY <1>2, Zenon DEF Registered, LinkOK
<1> QED
  BY <1>3, <1>4, <1>5, Zenon

\* The initial state.
LEMMA ReplicaInit == Init => RInv
<1> SUFFICES ASSUME Init PROVE RInv
  BY Zenon
<1>1. PICK kind \in Kinds : host = Registered(kind, 1, 1, 1, 1, {}, 1)
  BY Zenon DEF Init
<1>2. /\ host \in Session /\ LinkOK(host) /\ host.hist = {} /\ host.next = 1 /\ host.rows = {}
  BY <1>1, RegisteredFacts, NoRows, SMTT(30)
<1>3. /\ route = 0 /\ born = 0 /\ client = [c \in Clients |-> [state |-> "off", snap |-> None, old |-> {}]]
      /\ ring = [c \in Clients |-> <<>>]
  BY Zenon DEF Init
<1>4. Types
  <2>1. ASSUME NEW c \in Clients
        PROVE  client[c] \in ClientRecord /\ client[c].state # "open" /\ ring[c] \in Seq(Frame)
    BY <1>3 DEF ClientRecord
  <2> QED
    BY <1>2, <1>3, <2>1, Zenon DEF Types
<1>5. HistoryInv
  BY <1>2, <1>3, NoRows, Bounds DEF HistoryInv, HistoryOK
<1>6. SubscriberInv
  BY <1>3 DEF SubscriberInv, SnapOK, Deltas
<1> QED
  BY <1>2, <1>4, <1>5, <1>6, Zenon DEF RInv

\* Registrations, and the end of a session.
LEMMA RegistrationSteps ==
  ASSUME RInv, Ended \/ \E same \in BOOLEAN : Register(same)
  PROVE  RInv'
<1>1. /\ Types /\ SubscriberInv /\ host \in Session /\ LinkOK(host) /\ HistoryOK(host, born)
      /\ route \in Nat /\ born \in Nat /\ ring \in [Clients -> Seq(Frame)]
  BY Zenon DEF RInv, Types, HistoryInv
<1>2. ASSUME Closing \/ UNCHANGED ring
      PROVE  /\ ring' \in [Clients -> Seq(Frame)]
             /\ \A c \in Clients : Deltas(ring'[c]) \subseteq Deltas(ring[c])
  BY <1>1, <1>2, ClosingFacts, Zenon
<1>3. ASSUME Ended PROVE RInv'
  <2>1. /\ host' = [host EXCEPT !.on = FALSE] /\ Closing /\ route' = route /\ born' = born /\ client' = client
    BY <1>3, Zenon DEF Ended
  <2>2. host' \in Session
    BY <1>1, <2>1, Zenon DEF Session
  <2>3. /\ host'.epoch = host.epoch /\ host'.gen = host.gen /\ host'.hist = host.hist
        /\ host'.next = host.next /\ host'.rows = host.rows /\ host'.kind = host.kind
        /\ host'.rev = host.rev
    BY <1>1, <2>1, Zenon DEF Session
  <2>4. LinkOK(host')
    BY <1>1, <2>1, Zenon DEF LinkOK, Session
  <2>5. Types' /\ HistoryInv'
    BY <1>1, <1>2, <2>1, <2>2, <2>3, Zenon DEF Types, HistoryInv, HistoryOK
  <2>6. \A x \in Row : Placed(x) => Placed(x)'
    BY <2>1, <2>3, PlacesStay, Zenon
  <2>7. host.rev <= host'.rev
    BY <1>1, <2>3 DEF Session
  <2>8. SubscriberInv'
    BY <1>1, <1>2, <2>1, <2>2, <2>3, <2>6, <2>7, SameEpoch, Zenon
  <2> QED
    BY <2>4, <2>5, <2>8, Zenon DEF RInv, LinkOK
<1>4. ASSUME NEW same \in BOOLEAN, Register(same) PROVE RInv'
  <2> DEFINE keeps == same /\ host.on
             gen == IF same THEN host.gen ELSE host.gen + 1
             epoch == IF keeps THEN host.epoch ELSE host.epoch + 1
             rev == (IF host.on THEN host.rev ELSE host.seed) + 1
             hist == IF keeps THEN host.hist ELSE {}
             next == IF keeps THEN host.next ELSE 1
             token == host.token + 1
  <2>1. /\ host' = Registered(host.kind, token, gen, epoch, rev, hist, next)
        /\ Closing \/ UNCHANGED ring
        /\ route' = route /\ born' = born /\ client' = client
    BY <1>4, Zenon DEF Register
  <2>2. /\ host.kind \in Kinds /\ token \in Nat /\ gen \in Nat /\ epoch \in Nat
        /\ rev \in Nat /\ hist \in SUBSET Row /\ next \in Nat
        /\ host.rev \in Nat /\ host.epoch \in Nat /\ host.on \in BOOLEAN
    BY <1>1, SMTT(30) DEF Session
  <2>3. keeps => rev = host.rev + 1 /\ gen = host.gen
    BY Zenon
  <2>4. /\ host' \in Session /\ LinkOK(host') /\ host'.kind = host.kind /\ host'.gen = gen
        /\ host'.epoch = epoch /\ host'.rev = rev /\ host'.hist = hist /\ host'.next = next
        /\ host'.rows = Newest(hist, MaxWindow)
    <3> HIDE DEF keeps, gen, epoch, rev, hist, next, token
    <3> DEFINE h == Registered(host.kind, token, gen, epoch, rev, hist, next)
    <3>1. h \in Session /\ LinkOK(h)
      BY <2>2, RegisteredFacts, Zenon
    <3>3. h.kind = host.kind /\ h.gen = gen /\ h.epoch = epoch /\ h.rev = rev
      BY Zenon DEF Registered
    <3>4. h.hist = hist /\ h.next = next /\ h.rows = Newest(hist, MaxWindow)
      BY Zenon DEF Registered
    <3> HIDE DEF h
    <3>2. host' = h
      BY <2>1, Zenon DEF h
    <3> QED
      BY <3>1, <3>2, <3>3, <3>4, Zenon
  <2>5. Types'
    BY <1>1, <1>2, <2>1, <2>4, Zenon DEF Types
  <2>6. HistoryInv'
    <3>1. CASE keeps
      BY <1>1, <2>1, <2>4, <3>1, Zenon DEF HistoryInv, HistoryOK
    <3>2. CASE ~keeps
      <4>1. host'.hist = {} /\ host'.next = 1 /\ host'.rows = {}
        BY <2>4, <3>2, NoRows, Zenon
      <4> QED
        BY <4>1, NoRows, Bounds DEF HistoryInv, HistoryOK
    <3> QED
      BY <3>1, <3>2, Zenon
  <2>7. SubscriberInv'
    <3>1. CASE keeps
      <4>1. /\ host'.epoch = host.epoch /\ host'.gen = host.gen /\ host'.hist = host.hist
            /\ host'.next = host.next /\ host.rev <= host'.rev
        BY <2>2, <2>3, <2>4, <3>1, SMTT(30)
      <4>2. \A x \in Row : Placed(x) => Placed(x)'
        BY <2>1, <2>4, <4>1, PlacesStay, Zenon
      <4> QED
        BY <1>1, <1>2, <2>1, <2>4, <4>1, <4>2, SameEpoch, Zenon
    <3>2. CASE ~keeps
      <4>1. host.epoch < host'.epoch
        BY <2>2, <2>4, <3>2
      <4> QED
        BY <1>1, <1>2, <2>1, <2>4, <4>1, NewEpoch, Zenon
    <3> QED
      BY <3>1, <3>2, Zenon
  <2> QED
    BY <2>4, <2>5, <2>6, <2>7, Zenon DEF RInv, LinkOK
<1> QED
  BY <1>3, <1>4, Zenon
-----------------------------------------------------------------------------
(* Rows *)

\* A history that was rewritten: fenced, or such that every row that was seen keeps its place.
LEMMA RewrittenStep ==
  ASSUME RInv, NEW S \in SUBSET Row, IsFiniteSet(S), Distinct(S), NEW n \in Nat, 0 < n,
         NEW full \in BOOLEAN, Rewritten(S, n, full), born' \in Nat, born <= born',
         \A e \in S : e.id <= born' /\ 0 < e.seq /\ e.seq < n,
         ~Fenced(S) => /\ host.next <= n
                       /\ \A x \in Row : Placed(x) => Seated(x, Newest(S, MaxHistory), host.kind)
  PROVE  RInv'
<1> DEFINE T == Newest(S, MaxHistory)
           W == Newest(T, MaxWindow)
           e == IF Fenced(S) THEN host.epoch + 1 ELSE host.epoch
           l == full /\ Cardinality(S) <= MaxHistory
           g == [host EXCEPT !.hist = T, !.next = n, !.epoch = e, !.full = l]
           h == [g EXCEPT !.rows = W]
<1>1. host \in Session /\ LinkOK(host) /\ route \in Nat /\ born \in Nat
  BY Zenon DEF RInv, Types
<1>2. /\ T \subseteq Row /\ IsFiniteSet(T) /\ Cardinality(T) <= MaxHistory /\ Distinct(T)
      /\ \A x \in T : x.id <= born' /\ 0 < x.seq /\ x.seq < n
      /\ W \subseteq Row
  BY BoundedHistory, Zenon
<1>3. PublishResync(h) /\ client' = client /\ route' = route
  <2>1. [host EXCEPT !.hist = T, !.next = n, !.epoch = IF Fenced(S) THEN @ + 1 ELSE @, !.full = l] = g
    BY <1>1, Zenon DEF Session
  <2>2. g.hist = T
    BY <1>1, Zenon DEF Session
  <2>3. Windowed(g) = h
    BY <2>2, Zenon DEF Windowed
  <2>4. PublishResync(Windowed(g))
    BY <2>1, Zenon DEF Rewritten
  <2> QED
    BY <2>3, <2>4, Zenon DEF Rewritten
<1>4. e \in Nat /\ l \in BOOLEAN /\ (~Fenced(S) => e = host.epoch) /\ (Fenced(S) => e = host.epoch + 1)
  BY <1>1 DEF Session
<1> HIDE DEF T, W, e, l
<1>5. g \in Session
  BY <1>1, <1>2, <1>4, Zenon DEF Session
<1>6. h \in Session
  BY <1>1, <1>2, <1>4, <1>5, ZenonT(60) DEF Session
<1>7. h.hist = T /\ h.next = n /\ h.epoch = e /\ h.rows = W /\ h.kind = host.kind /\ h.gen = host.gen
  BY <1>1, Zenon DEF Session
<1>8. LinkOK(h)
  BY <1>1, Zenon DEF LinkOK, Session
<1> HIDE DEF g, h
<1>9. HistoryOK(h, born')
  BY <1>2, <1>7, Zenon DEF HistoryOK, W
<1>10. CASE Fenced(S)
  BY <1>1, <1>3, <1>4, <1>6, <1>7, <1>8, <1>9, <1>10, ResyncStep, Zenon
<1>11. CASE ~Fenced(S)
  <2>1. host.next \in Nat /\ host.next <= n
    BY <1>1, <1>11, Zenon DEF Session
  <2>2. ASSUME NEW x \in Row, Placed(x)
        PROVE  x.id <= born' /\ x.seq < h.next /\ Seated(x, h.hist, h.kind)
    <3>1. x.id \in Nat /\ x.seq \in Nat /\ x.id <= born /\ x.seq < host.next
      BY <2>2, Zenon DEF Placed, Row
    <3>2. Seated(x, T, host.kind)
      BY <1>11, <2>2, Zenon DEF T
    <3> QED
      BY <1>1, <1>7, <2>1, <3>1, <3>2, SMTT(30)
  <2> QED
    BY <1>1, <1>3, <1>4, <1>6, <1>7, <1>8, <1>9, <1>11, <2>2, ResyncStep, Zenon
<1> QED
  BY <1>10, <1>11, Zenon

\* Rows that are told apart by numbers up to a bound are finitely many.
LEMMA FiniteRows ==
  ASSUME NEW S \in SUBSET Row, Distinct(S), NEW b \in Nat, \A e \in S : e.seq <= b
  PROVE  IsFiniteSet(S)
<1> DEFINE f == [e \in S |-> e.seq]
<1>1. \A e \in S : e.seq \in 0..b
  BY DEF Row
<1>2. f \in Injection(S, 0..b)
  BY <1>1, Zenon DEF Injection, IsInjective, Distinct
<1>3. IsFiniteSet(0..b)
  BY FS_Interval
<1> QED
  BY <1>2, <1>3, FS_Injection, Zenon

\* The rows an adapter's snapshot keeps, as newer versions, and the ones it adds.
LEMMA ReplaceStep ==
  ASSUME RInv, NEW keep \in SUBSET host.hist, NEW n \in Nat, NEW full \in BOOLEAN,
         Replace(keep, n, full)
  PROVE  RInv'
<1> DEFINE K == {[e EXCEPT !.ver = @ + 1] : e \in keep}
           A == {[id |-> born + i, seq |-> host.next + i - 1, ver |-> 1] : i \in 1..n}
           S == K \cup A
           next == host.next + n
<1>1. /\ host \in Session /\ host.hist \subseteq Row /\ born \in Nat /\ host.next \in Nat
      /\ 0 < host.next /\ Distinct(host.hist) /\ host.link = "stream" /\ host.kind # "observer"
      /\ \A e \in host.hist : e.id <= born /\ 0 < e.seq /\ e.seq < host.next
  BY Zenon DEF RInv, Types, Session, HistoryInv, HistoryOK, LinkOK, Replace
<1>2. born' = born + n /\ Rewritten(S, next, full)
  BY Zenon DEF Replace
<1>3. \A e \in keep : LET k == [e EXCEPT !.ver = @ + 1]
                      IN k \in Row /\ k.id = e.id /\ k.seq = e.seq
  BY <1>1 DEF Row
<1>4. \A i \in 1..n : LET a == [id |-> born + i, seq |-> host.next + i - 1, ver |-> 1]
                      IN a \in Row /\ a.id = born + i /\ a.seq = host.next + i - 1
  BY <1>1 DEF Row
<1>5. K \subseteq Row /\ \A k \in K : \E e \in keep : k = [e EXCEPT !.ver = @ + 1] /\ k.id = e.id /\ k.seq = e.seq
  BY <1>3, Zenon
<1>6. A \subseteq Row /\ \A a \in A : \E i \in 1..n :
        /\ a = [id |-> born + i, seq |-> host.next + i - 1, ver |-> 1]
        /\ a.id = born + i /\ a.seq = host.next + i - 1
  BY <1>4, Zenon
<1>7. \A e \in keep : \E k \in K : k.id = e.id /\ k.seq = e.seq
  BY <1>3, Zenon
<1> HIDE DEF K, A
<1>8. \A k \in K : /\ k.id \in Nat /\ k.seq \in Nat /\ k.id <= born
                   /\ 0 < k.seq /\ k.seq < host.next
  BY <1>1, <1>5, Zenon DEF Row
<1>9. \A a \in A : /\ a.id \in Nat /\ a.seq \in Nat /\ a.id <= born + n /\ born < a.id
                   /\ host.next <= a.seq /\ a.seq < next
  BY <1>1, <1>6
<1>10. Distinct(S)
  <2> SUFFICES ASSUME NEW e \in S, NEW f \in S, e.id = f.id \/ e.seq = f.seq PROVE e = f
    BY Zenon DEF Distinct
  <2>1. CASE e \in K /\ f \in K
    BY <1>1, <1>5, <2>1 DEF Distinct
  <2>2. CASE e \in A /\ f \in A
    <3>1. PICK i \in 1..n : e = [id |-> born + i, seq |-> host.next + i - 1, ver |-> 1] /\ e.id = born + i /\ e.seq = host.next + i - 1
      BY <1>6, <2>2, Zenon
    <3>2. PICK j \in 1..n : f = [id |-> born + j, seq |-> host.next + j - 1, ver |-> 1] /\ f.id = born + j /\ f.seq = host.next + j - 1
      BY <1>6, <2>2, Zenon
    <3>3. i = j
      BY <1>1, <3>1, <3>2, SMTT(30)
    <3> QED
      BY <3>1, <3>2, <3>3, Zenon
  <2>3. CASE e \in K /\ f \in A
    BY <1>1, <1>8, <1>9, <2>3
  <2>4. CASE e \in A /\ f \in K
    BY <1>1, <1>8, <1>9, <2>4
  <2> QED
    BY <2>1, <2>2, <2>3, <2>4, Zenon
<1>11. /\ S \in SUBSET Row /\ next \in Nat /\ 0 < next /\ host.next <= next
       /\ born' \in Nat /\ born <= born'
  BY <1>1, <1>2, <1>5, <1>6
<1>12. \A e \in S : e.id <= born' /\ 0 < e.seq /\ e.seq < next /\ e.seq <= next
  BY <1>1, <1>2, <1>8, <1>9
<1>13. IsFiniteSet(S)
  BY <1>10, <1>11, <1>12, FiniteRows, Zenon
<1>14. ASSUME ~Fenced(S), NEW x \in Row, Placed(x) PROVE Stands(x, S) \/ Precedes(x, S)
  <2>1. /\ x.id \in Nat /\ x.seq \in Nat /\ x.id <= born /\ x.seq < host.next
        /\ Stands(x, host.hist) \/ Precedes(x, host.hist)
    BY <1>14, Zenon DEF Row, Placed, Seated
  <2>2. \A a \in A : a.id # x.id /\ x.seq < a.seq
    BY <1>1, <1>9, <2>1, SMTT(30)
  <2>3. CASE Precedes(x, host.hist)
    <3>1. \A k \in K : k.id # x.id /\ x.seq < k.seq
      BY <1>5, <2>3, ZenonT(60) DEF Precedes
    <3> QED
      BY <2>2, <3>1, Zenon DEF Precedes
  <2>4. CASE Stands(x, host.hist)
    <3>1. PICK f \in host.hist : f.id = x.id /\ f.seq = x.seq
      BY <2>4, Zenon DEF Stands
    <3>2. CASE f \in keep
      BY <1>7, <3>1, <3>2, Zenon DEF Stands
    <3>3. CASE f \notin keep
      <4>1. \A k \in K : k.id # f.id
        BY <1>1, <1>5, <3>3 DEF Distinct
      <4>2. \A s \in S : s.id # f.id
        BY <2>2, <3>1, <4>1, Zenon
      <4>3. ASSUME NEW k \in K PROVE x.seq < k.seq
        <5>1. PICK e \in keep : k.id = e.id /\ k.seq = e.seq
          BY <1>5, Zenon
        <5>2. ~(e.seq < f.seq)
          BY <1>14, <4>2, <5>1, Zenon DEF Fenced
        <5>3. e.seq # f.seq
          BY <1>1, <3>3, Zenon DEF Distinct
        <5> QED
          BY <1>8, <2>1, <3>1, <5>1, <5>2, <5>3
      <4> QED
        BY <2>2, <3>1, <4>1, <4>3, Zenon DEF Precedes
    <3> QED
      BY <3>2, <3>3, Zenon
  <2> QED
    BY <2>1, <2>3, <2>4, Zenon
<1> HIDE DEF S, next
<1>15. ASSUME ~Fenced(S), NEW x \in Row, Placed(x) PROVE Seated(x, Newest(S, MaxHistory), host.kind)
  BY <1>1, <1>10, <1>11, <1>12, <1>13, <1>14, <1>15, SeatedInNewest, Zenon
<1> QED
  BY <1>2, <1>10, <1>11, <1>12, <1>13, <1>15, RewrittenStep, Zenon

\* A row restored at a number nobody has: where rows were dropped, either a row stands below it, or
\* it is the oldest of one too many and is dropped at once.
LEMMA InsertStep ==
  ASSUME RInv, host.kind = "observer", NEW r \in Row, r.id = born + 1, born' = born + 1,
         NEW n \in Nat, host.next <= n, 0 < r.seq, r.seq < n, \A e \in host.hist : e.seq # r.seq,
         NEW full \in BOOLEAN, Rewritten(host.hist \cup {r}, n, full)
  PROVE  RInv'
<1> DEFINE S == host.hist \cup {r}
           T == Newest(S, MaxHistory)
<1>1. /\ host.hist \subseteq Row /\ born \in Nat /\ host.next \in Nat /\ IsFiniteSet(host.hist)
      /\ 0 < host.next /\ Distinct(host.hist)
      /\ \A e \in host.hist : /\ e.id <= born /\ 0 < e.seq /\ e.seq < host.next
                              /\ e.id \in Nat /\ e.seq \in Nat
  BY Zenon DEF RInv, Types, Session, HistoryInv, HistoryOK, Row
<1>2. r.id \in Nat /\ r.seq \in Nat /\ r \notin host.hist
  BY <1>1, Zenon DEF Row
<1>3. S \in SUBSET Row /\ Distinct(S) /\ \A e \in S : e.seq <= n
  BY <1>1, <1>2 DEF Distinct
<1>4. \A e \in S : e.id <= born' /\ 0 < e.seq /\ e.seq < n
  BY <1>1, <1>2
<1>5. IsFiniteSet(S) /\ Cardinality(S) = Cardinality(host.hist) + 1 /\ Cardinality(host.hist) \in Nat
  BY <1>1, <1>2, FS_AddElement, FS_CardinalityType, Zenon
<1>6. ASSUME NEW x \in Row, Placed(x) PROVE Seated(x, T, host.kind)
  <2>1. /\ x.id \in Nat /\ x.seq \in Nat /\ x.id <= born /\ x.seq < host.next
        /\ \/ Stands(x, host.hist)
           \/ Precedes(x, host.hist) /\ Cardinality(host.hist) = MaxHistory
    BY <1>6, Zenon DEF Row, Placed, Seated
  <2>2. CASE Stands(x, host.hist)
    <3>1. Stands(x, S)
      BY <2>2, Zenon DEF Stands
    <3> HIDE DEF S
    <3> QED
      BY <1>3, <1>5, <3>1, SeatedInNewest, Zenon
  <2>3. CASE Precedes(x, host.hist) /\ Cardinality(host.hist) = MaxHistory
    <3>1. CASE \E e \in host.hist : e.seq < r.seq
      <4>1. x.seq < r.seq /\ r.id # x.id
        BY <1>1, <1>2, <2>1, <2>3, <3>1, SMTT(30) DEF Precedes
      <4>2. Precedes(x, S)
        BY <2>3, <4>1, Zenon DEF Precedes
      <4>3. MaxHistory <= Cardinality(S)
        BY <1>5, <2>3
      <4> HIDE DEF S
      <4> QED
        BY <1>3, <1>5, <4>2, <4>3, SeatedInNewest, Zenon
    <3>2. CASE \A e \in host.hist : ~(e.seq < r.seq)
      <4>1. /\ T \subseteq S
            /\ \A e \in S \ T, f \in T : e.seq < f.seq
            /\ MaxHistory <= Cardinality(S) => Cardinality(T) = MaxHistory
        <5> HIDE DEF S
        <5> QED
          BY <1>3, <1>5, Bounds, NewestFacts, Zenon
      <4>2. Cardinality(T) = MaxHistory /\ Cardinality(S) = MaxHistory + 1 /\ T # S
        BY <1>5, <2>3, <4>1, Bounds, SMTT(30)
      <4> HIDE DEF T
      <4>3. r \notin T
        BY <3>2, <4>1, <4>2, Zenon
      <4>4. T \subseteq host.hist
        BY <4>1, <4>3, Zenon
      <4> QED
        BY <2>3, <4>2, <4>4, Zenon DEF Seated, Precedes
    <3> QED
      BY <3>1, <3>2, Zenon
  <2> QED
    BY <2>1, <2>2, <2>3, Zenon
<1>7. born' \in Nat /\ born <= born' /\ 0 < n
  BY <1>1
<1> HIDE DEF S
<1>8. ~Fenced(S) => /\ host.next <= n
                    /\ \A x \in Row : Placed(x) => Seated(x, Newest(S, MaxHistory), host.kind)
  BY <1>6, Zenon
<1>9. Rewritten(S, n, full)
  BY Zenon DEF S
<1> QED
  BY <1>3, <1>4, <1>5, <1>7, <1>8, <1>9, RewrittenStep, Zenon

\* The least and the greatest of some numbers.
LEMMA Extremes ==
  ASSUME NEW S \in SUBSET Nat, S # {}
  PROVE  /\ SetMin(S) \in S /\ \A n \in S : SetMin(S) <= n
         /\ \A b \in Nat : (\A n \in S : n <= b) => SetMax(S) \in S /\ \A n \in S : n <= SetMax(S)
<1>1. \E m \in S : \A n \in S : m <= n
  BY LeastNumber, Zenon
<1>2. SetMin(S) \in S /\ \A n \in S : SetMin(S) <= n
  BY <1>1, Zenon DEF SetMin
<1>3. ASSUME NEW b \in Nat, \A n \in S : n <= b
      PROVE  SetMax(S) \in S /\ \A n \in S : n <= SetMax(S)
  <2>1. \E m \in S : \A n \in S : n <= m
    BY <1>3, GreatestNumber, Zenon
  <2> QED
    BY <2>1, Zenon DEF SetMax
<1> QED
  BY <1>2, <1>3, Zenon

\* The rows numbered below one, of which there are more the higher the number.
Below(rows, q) == {f \in rows : f.seq < q}

\* Below of a finite set of rows is finite, and no smaller for a larger number.
LEMMA BelowFacts ==
  ASSUME NEW S \in SUBSET Row, IsFiniteSet(S)
  PROVE  /\ \A q \in Nat : IsFiniteSet(Below(S, q)) /\ Cardinality(Below(S, q)) \in Nat
         /\ \A p, q \in Nat : p <= q => Cardinality(Below(S, p)) <= Cardinality(Below(S, q))
         /\ \A e \in S : \A q \in Nat : e.seq < q =>
              Cardinality(Below(S, e.seq)) < Cardinality(Below(S, q))
<1>1. ASSUME NEW q \in Nat PROVE IsFiniteSet(Below(S, q)) /\ Cardinality(Below(S, q)) \in Nat
  <2>1. Below(S, q) \in SUBSET S
    BY Zenon DEF Below
  <2> QED
    BY <2>1, FS_Subset, FS_CardinalityType, Zenon
<1>2. ASSUME NEW p \in Nat, NEW q \in Nat, p <= q
      PROVE  Cardinality(Below(S, p)) <= Cardinality(Below(S, q))
  <2>1. Below(S, p) \in SUBSET Below(S, q)
    BY <1>2 DEF Below, Row
  <2> QED
    BY <1>1, <2>1, FS_Subset, Zenon
<1>3. ASSUME NEW e \in S, NEW q \in Nat, e.seq < q
      PROVE  Cardinality(Below(S, e.seq)) < Cardinality(Below(S, q))
  <2> DEFINE A == Below(S, e.seq)
             B == Below(S, q)
  <2>1. A \in SUBSET B /\ e \in B /\ e \notin A /\ e.seq \in Nat
    BY <1>3 DEF Below, Row
  <2>2. IsFiniteSet(A) /\ IsFiniteSet(B) /\ Cardinality(A) \in Nat /\ Cardinality(B) \in Nat
    BY <1>1, <2>1, Zenon
  <2> HIDE DEF A, B
  <2>3. Cardinality(A) <= Cardinality(B) /\ (Cardinality(B) = Cardinality(A) => B = A)
    BY <2>1, <2>2, FS_Subset, Zenon
  <2>4. Cardinality(A) < Cardinality(B)
    BY <2>1, <2>2, <2>3
  <2> QED
    BY <2>4, Zenon DEF A, B
<1> QED
  BY <1>1, <1>2, <1>3, Zenon

\* Where no number is free above `below`, all rows are numbered anew: in the same order, and some
\* row under another number, so that the epoch is fenced.
LEMMA DenseStep ==
  ASSUME RInv, NEW below \in Nat, below = 0 \/ below \in Seqs(host.hist),
         NEW start \in Nat, 0 < start, below = 0 => start = 1, born' = born + 1,
         \E e \in host.hist : e.seq = below + 1, NEW full \in BOOLEAN,
         NEW D, D = {[e EXCEPT !.seq = start + Cardinality({f \in host.hist : f.seq < e.seq})
                                         + (IF e.seq > below THEN 1 ELSE 0)] : e \in host.hist}
                      \cup {[id |-> born + 1,
                             seq |-> start + Cardinality({f \in host.hist : f.seq <= below}),
                             ver |-> 1]},
         Rewritten(D, SetMax(Seqs(D)) + 1, full)
  PROVE  RInv'
<1> DEFINE H == host.hist
           N(q) == Cardinality(Below(H, q))
           pos(e) == start + N(e.seq) + (IF e.seq > below THEN 1 ELSE 0)
           r == [id |-> born + 1, seq |-> start + N(below + 1), ver |-> 1]
           M == {[e EXCEPT !.seq = pos(e)] : e \in H}
           top == start + Cardinality(H) + 1
<1>1. /\ H \in SUBSET Row /\ born \in Nat /\ IsFiniteSet(H) /\ Distinct(H)
      /\ \A e \in H : e.id <= born /\ 0 < e.seq /\ e.id \in Nat /\ e.seq \in Nat
  BY Zenon DEF RInv, Types, Session, HistoryInv, HistoryOK, Row
<1>2. D = M \cup {r}
  <2>1. \A e \in H : {f \in host.hist : f.seq < e.seq} = Below(H, e.seq)
    BY Zenon DEF Below
  <2>2. {f \in host.hist : f.seq <= below} = Below(H, below + 1)
    BY <1>1 DEF Below
  <2>3. \A e \in H : pos(e) = start + Cardinality({f \in host.hist : f.seq < e.seq})
                                + (IF e.seq > below THEN 1 ELSE 0)
    BY <2>1, Zenon
  <2> QED
    BY <2>2, <2>3, ZenonT(60)
<1>3. /\ \A q \in Nat : N(q) \in Nat
      /\ \A p, q \in Nat : p <= q => N(p) <= N(q)
      /\ \A e \in H : \A q \in Nat : e.seq < q => N(e.seq) < N(q)
  BY <1>1, BelowFacts, Zenon
<1>4. Cardinality(H) \in Nat /\ \A q \in Nat : N(q) <= Cardinality(H)
  <2>1. \A q : Below(H, q) \in SUBSET H
    BY Zenon DEF Below
  <2> QED
    BY <1>1, <2>1, FS_Subset, FS_CardinalityType, Zenon
<1> HIDE DEF N, H
<1>5. \A e \in H : pos(e) \in Nat /\ 0 < pos(e) /\ pos(e) <= top
  BY <1>1, <1>3, <1>4
<1>6. \A e, f \in H : e.seq < f.seq => pos(e) < pos(f)
  BY <1>1, <1>3
<1>7. /\ r \in Row /\ r.id = born + 1 /\ r.seq = start + N(below + 1) /\ 0 < r.seq /\ r.seq <= top
  BY <1>1, <1>3, <1>4, SMTT(30) DEF Row
<1>8. \A e \in H : pos(e) # r.seq
  <2> SUFFICES ASSUME NEW e \in H PROVE pos(e) # r.seq
    BY Zenon
  <2>1. CASE e.seq > below
    <3>1. N(below + 1) <= N(e.seq)
      BY <1>1, <1>3, <2>1
    <3> QED
      BY <1>1, <1>3, <1>7, <2>1, <3>1
  <2>2. CASE ~(e.seq > below)
    <3>1. N(e.seq) < N(below + 1)
      BY <1>1, <1>3, <2>2
    <3> QED
      BY <1>1, <1>3, <1>7, <2>2, <3>1
  <2> QED
    BY <2>1, <2>2, Zenon
<1>9. \E e \in H : pos(e) # e.seq
  <2>1. PICK a \in H : a.seq = below + 1
    BY Zenon DEF H
  <2>2. pos(a) = start + N(below + 1) + 1
    BY <1>1, <2>1
  <2>3. CASE below = 0
    BY <1>3, <2>1, <2>2, <2>3
  <2>4. CASE below \in Seqs(host.hist)
    <3>1. PICK b \in H : b.seq = below
      BY <2>4, Zenon DEF Seqs, H
    <3>2. pos(b) = start + N(below)
      BY <1>1, <1>3, <3>1
    <3>3. N(below) < N(below + 1)
      BY <1>3, <3>1
    <3> QED
      BY <1>3, <2>1, <2>2, <3>1, <3>2, <3>3
  <2> QED
    BY <2>3, <2>4, Zenon
<1> HIDE DEF pos, top
<1>10. \A e \in H : LET k == [e EXCEPT !.seq = pos(e)]
                    IN k \in Row /\ k.id = e.id /\ k.seq = pos(e) /\ k.ver = e.ver
  BY <1>1, <1>5, Zenon DEF Row
<1>11. M \subseteq Row /\ \A k \in M : \E e \in H : k = [e EXCEPT !.seq = pos(e)] /\ k.id = e.id /\ k.seq = pos(e)
  BY <1>10, Zenon
<1>12. \A e \in H : \E k \in M : k.id = e.id /\ k.seq = pos(e)
  BY <1>10, Zenon
<1> HIDE DEF M, r
<1>13. Distinct(M)
  <2> SUFFICES ASSUME NEW k \in M, NEW l \in M, k.id = l.id \/ k.seq = l.seq PROVE k = l
    BY Zenon DEF Distinct
  <2>1. PICK e \in H : k = [e EXCEPT !.seq = pos(e)] /\ k.id = e.id /\ k.seq = pos(e)
    BY <1>11, Zenon
  <2>2. PICK f \in H : l = [f EXCEPT !.seq = pos(f)] /\ l.id = f.id /\ l.seq = pos(f)
    BY <1>11, Zenon
  <2>3. e = f
    <3>1. CASE e.id = f.id
      BY <1>1, <3>1, Zenon DEF Distinct
    <3>2. CASE pos(e) = pos(f)
      <4>1. e.seq = f.seq
        BY <1>1, <1>5, <1>6, <3>2
      <4> QED
        BY <1>1, <4>1, Zenon DEF Distinct
    <3> QED
      BY <2>1, <2>2, <3>1, <3>2, Zenon
  <2> QED
    BY <2>1, <2>2, <2>3, Zenon
<1>14. \A k \in M : k.id # r.id /\ k.seq # r.seq /\ k.id <= born /\ 0 < k.seq /\ k.seq <= top
  BY <1>1, <1>5, <1>7, <1>8, <1>11
<1>15. D \in SUBSET Row /\ Distinct(D) /\ D # {}
  BY <1>2, <1>7, <1>11, <1>13, <1>14, Zenon DEF Distinct
<1>16. top \in Nat /\ \A k \in D : k.id <= born' /\ 0 < k.seq /\ k.seq <= top /\ k.seq \in Nat
  BY <1>1, <1>2, <1>4, <1>7, <1>14, <1>15, SMTT(30) DEF top, Row
<1>17. Seqs(D) \in SUBSET Nat /\ Seqs(D) # {} /\ \A q \in Seqs(D) : q <= top
  <2>1. Seqs(D) \in SUBSET Nat /\ \A q \in Seqs(D) : q <= top
    BY <1>16, Zenon DEF Seqs
  <2>2. PICK k \in D : TRUE
    BY <1>15, Zenon
  <2>3. k.seq \in Seqs(D)
    BY Zenon DEF Seqs
  <2> QED
    BY <2>1, <2>3, Zenon
<1>18. SetMax(Seqs(D)) \in Nat /\ \A k \in D : k.seq <= SetMax(Seqs(D))
  <2>1. SetMax(Seqs(D)) \in Seqs(D) /\ \A q \in Seqs(D) : q <= SetMax(Seqs(D))
    BY <1>16, <1>17, Extremes, Zenon
  <2> QED
    BY <1>17, <2>1, Zenon DEF Seqs
<1>19. Fenced(D)
  <2>1. PICK e \in H : pos(e) # e.seq
    BY <1>9, Zenon
  <2>2. PICK k \in D : k.id = e.id /\ k.seq = pos(e)
    BY <1>2, <1>12, Zenon
  <2> QED
    BY <2>1, <2>2, Zenon DEF Fenced, H
<1>20. IsFiniteSet(D)
  BY <1>15, <1>16, FiniteRows, Zenon
<1> DEFINE n == SetMax(Seqs(D)) + 1
<1>21. n \in Nat /\ 0 < n /\ born' \in Nat /\ born <= born'
  BY <1>1, <1>18
<1>23. \A k \in D : k.id <= born' /\ 0 < k.seq /\ k.seq < n
  <2> SUFFICES ASSUME NEW k \in D PROVE k.id <= born' /\ 0 < k.seq /\ k.seq < n
    BY Zenon
  <2>1. k.id <= born' /\ 0 < k.seq /\ k.seq \in Nat
    BY <1>16, Zenon
  <2>2. k.seq <= SetMax(Seqs(D)) /\ SetMax(Seqs(D)) \in Nat
    BY <1>18, Zenon
  <2> DEFINE m == SetMax(Seqs(D))
             q == k.seq
  <2>3. q <= m /\ m \in Nat /\ q \in Nat
    BY <2>1, <2>2, Zenon
  <2> HIDE DEF m, q
  <2>4. q < m + 1
    BY <2>3
  <2> QED
    BY <2>1, <2>4, Zenon DEF m, q
<1>22. Rewritten(D, n, full)
  BY Zenon
<1> HIDE DEF n
<1> QED
  BY <1>15, <1>19, <1>20, <1>21, <1>22, <1>23, RewrittenStep, Zenon

\* A row restored to an observed session.
LEMMA RestoreStep ==
  ASSUME RInv, NEW below \in Seqs(host.hist) \cup {0}, NEW full \in BOOLEAN, Restore(below, full)
  PROVE  RInv'
<1> DEFINE H == host.hist
           above == {e \in H : e.seq > below}
           fresh(q) == [id |-> born + 1, seq |-> q, ver |-> 1]
           first == SetMin(Seqs(H))
           start == IF below = 0 /\ first > 1 THEN first - 1 ELSE IF below = 0 THEN 1 ELSE first
           rank(e) == Cardinality({f \in H : f.seq < e.seq}) + (IF e.seq > below THEN 1 ELSE 0)
           dense == {[e EXCEPT !.seq = start + rank(e)] : e \in H} \cup
                    {fresh(start + Cardinality(H \ above))}
<1>1. /\ H \in SUBSET Row /\ born \in Nat /\ Distinct(H) /\ host.next \in Nat /\ 0 < host.next
      /\ \A e \in H : 0 < e.seq /\ e.seq \in Nat /\ e.seq < host.next
      /\ host.kind = "observer" /\ born' = born + 1 /\ H # {}
  BY Zenon DEF RInv, Types, Session, HistoryInv, HistoryOK, Row, LinkOK, Restore
<1>2. below \in Nat
  BY <1>1 DEF Seqs
<1>3. IF above = {} THEN Rewritten(H \cup {fresh(host.next)}, host.next + 1, full)
      ELSE IF SetMin(Seqs(above)) - below > 1
      THEN Rewritten(H \cup {fresh(below + 1)}, host.next, full)
      ELSE Rewritten(dense, SetMax(Seqs(dense)) + 1, full)
  BY Zenon DEF Restore
<1>4. ASSUME NEW q \in Nat
      PROVE  fresh(q) \in Row /\ fresh(q).id = born + 1 /\ fresh(q).seq = q
  BY <1>1, SMTT(30) DEF Row
<1> HIDE DEF fresh
<1>5. CASE above = {}
  <2>1. Rewritten(H \cup {fresh(host.next)}, host.next + 1, full)
    BY <1>3, <1>5, Zenon
  <2>2. /\ host.next + 1 \in Nat /\ host.next <= host.next + 1 /\ host.next < host.next + 1
        /\ \A e \in H : e.seq # host.next
    BY <1>1, SMTT(30)
  <2> DEFINE r == fresh(host.next)
             n == host.next + 1
  <2>3. r \in Row /\ r.id = born + 1 /\ r.seq = host.next
    BY <1>1, <1>4, Zenon
  <2> HIDE DEF r, n
  <2>4. n \in Nat /\ host.next <= n /\ 0 < r.seq /\ r.seq < n /\ \A e \in H : e.seq # r.seq
    BY <1>1, <2>2, <2>3, Zenon DEF n
  <2>5. Rewritten(H \cup {r}, n, full)
    BY <2>1, Zenon DEF r, n
  <2> QED
    BY <1>1, <2>3, <2>4, <2>5, InsertStep, Zenon
<1> DEFINE m == SetMin(Seqs(above))
<1>6. ASSUME above # {}
      PROVE  /\ m \in Nat /\ m > below /\ \E e \in H : e.seq = m
             /\ \A e \in H : e.seq > below => m <= e.seq
  <2>1. Seqs(above) \in SUBSET Nat /\ Seqs(above) # {}
    BY <1>1, <1>6, Zenon DEF Seqs
  <2>2. m \in Seqs(above) /\ \A q \in Seqs(above) : m <= q
    BY <2>1, Extremes, Zenon
  <2> QED
    BY <1>1, <2>2, Zenon DEF Seqs
<1>7. CASE above # {} /\ m - below > 1
  <2> DEFINE r == fresh(below + 1)
             n == host.next
  <2>1. Rewritten(H \cup {r}, n, full)
    BY <1>3, <1>7, Zenon
  <2>2. r \in Row /\ r.id = born + 1 /\ r.seq = below + 1
    BY <1>2, <1>4
  <2>3. \A e \in H : e.seq # below + 1
    BY <1>1, <1>2, <1>6, <1>7
  <2>4. below + 1 < n /\ 0 < below + 1
    <3>1. PICK e \in H : e.seq = m
      BY <1>6, <1>7, Zenon
    <3> QED
      BY <1>1, <1>2, <1>6, <1>7, <3>1
  <2> HIDE DEF r
  <2>5. n \in Nat /\ host.next <= n /\ 0 < r.seq /\ r.seq < n /\ \A e \in H : e.seq # r.seq
    BY <1>1, <2>2, <2>3, <2>4
  <2> QED
    BY <1>1, <2>1, <2>2, <2>5, InsertStep, Zenon
<1>8. CASE above # {} /\ ~(m - below > 1)
  <2>1. Rewritten(dense, SetMax(Seqs(dense)) + 1, full)
    BY <1>3, <1>8, Zenon
  <2>2. PICK a \in H : a.seq = below + 1
    <3>1. m = below + 1
      BY <1>2, <1>6, <1>8
    <3> QED
      BY <1>6, <1>8, <3>1, Zenon
  <2>3. first \in Nat /\ 0 < first /\ \A e \in H : first <= e.seq
    <3>1. Seqs(H) \in SUBSET Nat /\ Seqs(H) # {}
      BY <1>1, Zenon DEF Seqs
    <3>2. first \in Seqs(H) /\ \A q \in Seqs(H) : first <= q
      BY <3>1, Extremes, Zenon
    <3> QED
      BY <1>1, <3>2, Zenon DEF Seqs
  <2>4. start \in Nat /\ 0 < start /\ (below = 0 => start = 1)
    <3>1. below = 0 => first = 1
      BY <1>2, <2>2, <2>3
    <3> HIDE DEF first
    <3> QED
      BY <2>3, <3>1
  <2> HIDE DEF first, start
  <2>5. dense = {[e EXCEPT !.seq = start + Cardinality({f \in H : f.seq < e.seq})
                                     + (IF e.seq > below THEN 1 ELSE 0)] : e \in H}
                  \cup {[id |-> born + 1, seq |-> start + Cardinality({f \in H : f.seq <= below}),
                         ver |-> 1]}
    <3>1. H \ above = {f \in H : f.seq <= below}
      BY <1>1, <1>2, SMTT(30)
    <3>2. \A e \in H : /\ Cardinality({f \in H : f.seq < e.seq}) \in Nat
                       /\ (IF e.seq > below THEN 1 ELSE 0) \in Nat
      <4>1. IsFiniteSet(H)
        BY Zenon DEF RInv, HistoryInv, HistoryOK
      <4>2. \A e \in H : {f \in H : f.seq < e.seq} \in SUBSET H
        BY Zenon
      <4>3. \A e \in H : Cardinality({f \in H : f.seq < e.seq}) \in Nat
        BY <4>1, <4>2, FS_Subset, FS_CardinalityType, Zenon
      <4> QED
        BY <4>3, Zenon
    <3>3. \A e \in H : start + rank(e) = start + Cardinality({f \in H : f.seq < e.seq})
                                           + (IF e.seq > below THEN 1 ELSE 0)
      BY <2>4, <3>2
    <3>4. fresh(start + Cardinality(H \ above)) =
            [id |-> born + 1, seq |-> start + Cardinality({f \in H : f.seq <= below}), ver |-> 1]
      BY <3>1, Zenon DEF fresh
    <3> QED
      BY <3>3, <3>4, Zenon
  <2>6. below = 0 \/ below \in Seqs(host.hist)
    BY Zenon
  <2> HIDE DEF dense, above
  <2> QED
    BY <1>1, <1>2, <2>1, <2>2, <2>4, <2>5, <2>6, DenseStep, Zenon
<1> QED
  BY <1>5, <1>7, <1>8, Zenon

\* The rows after one is added or replaced by a newer version.
With(e) == {f \in host.hist : f.id # e.id} \cup {e}
Added(e) == e = [id |-> born + 1, seq |-> host.next, ver |-> 1] /\ born' = born + 1
Updated(e) == (\E f \in host.hist : e = [f EXCEPT !.ver = @ + 1]) /\ born' = born
After(e) == IF e.seq = host.next THEN host.next + 1 ELSE host.next

\* A history that takes a row (upsert_bridge_entry) keeps identifiers and numbers apart, and
\* every row that was placed keeps its place.
LEMMA WithFacts ==
  ASSUME RInv, NEW e, Added(e) \/ Updated(e)
  PROVE  /\ e \in Row /\ e \in With(e) /\ With(e) \in SUBSET Row /\ IsFiniteSet(With(e)) /\ Distinct(With(e))
         /\ born' \in Nat /\ After(e) \in Nat /\ 0 < After(e)
         /\ \A f \in With(e) : f.id <= born' /\ 0 < f.seq /\ f.seq < After(e)
         /\ \A x \in Row : Placed(x) =>
              /\ x.id <= born' /\ x.seq < After(e)
              /\ \/ Stands(x, With(e))
                 \/ /\ Precedes(x, With(e))
                    /\ host.kind = "observer" => MaxHistory <= Cardinality(With(e))
<1> DEFINE H == host.hist
<1>1. /\ H \in SUBSET Row /\ born \in Nat /\ Distinct(H) /\ host.next \in Nat /\ 0 < host.next
      /\ IsFiniteSet(H)
      /\ \A f \in H : /\ f.id <= born /\ f.id \in Nat /\ 0 < f.seq /\ f.seq \in Nat
                      /\ f.seq < host.next /\ f.ver \in Nat
  BY Zenon DEF RInv, Types, Session, HistoryInv, HistoryOK, Row
<1>2. CASE Added(e)
  <2>1. e \in Row /\ e.id = born + 1 /\ e.seq = host.next /\ born' = born + 1
    BY <1>1, <1>2, SMTT(30) DEF Added, Row
  <2>2. After(e) = host.next + 1
    BY <2>1, Zenon DEF After
  <2>3. With(e) = H \cup {e} /\ e \notin H
    BY <1>1, <2>1 DEF With
  <2>4. With(e) \in SUBSET Row /\ Distinct(With(e))
    BY <1>1, <2>1, <2>3, SMTT(30) DEF Distinct
  <2>5. \A f \in With(e) : f.id <= born' /\ 0 < f.seq /\ f.seq < After(e)
    BY <1>1, <2>1, <2>2, <2>3, SMTT(30)
  <2>6. /\ IsFiniteSet(With(e)) /\ Cardinality(With(e)) = Cardinality(H) + 1
        /\ Cardinality(H) \in Nat
    BY <1>1, <2>3, FS_AddElement, FS_CardinalityType, SMTT(30)
  <2>7. ASSUME NEW x \in Row, Placed(x)
        PROVE  /\ x.id <= born' /\ x.seq < After(e)
               /\ \/ Stands(x, With(e))
                  \/ /\ Precedes(x, With(e))
                     /\ host.kind = "observer" => MaxHistory <= Cardinality(With(e))
    <3>1. /\ x.id \in Nat /\ x.seq \in Nat /\ x.id <= born /\ x.seq < host.next
          /\ \/ Stands(x, H)
             \/ Precedes(x, H) /\ (host.kind = "observer" => Cardinality(H) = MaxHistory)
      BY <2>7, Zenon DEF Row, Placed, Seated
    <3>2. Stands(x, H) => Stands(x, With(e))
      BY <2>3, Zenon DEF Stands
    <3>3. Precedes(x, H) => Precedes(x, With(e))
      BY <1>1, <2>1, <2>3, <3>1, SMTT(30) DEF Precedes
    <3>4. host.kind = "observer" /\ Cardinality(H) = MaxHistory => MaxHistory <= Cardinality(With(e))
      BY <2>6
    <3>5. x.id <= born' /\ x.seq < After(e)
      BY <1>1, <2>1, <2>2, <3>1, SMTT(30)
    <3> QED
      BY <3>1, <3>2, <3>3, <3>4, <3>5, Zenon
  <2>8. born' \in Nat /\ After(e) \in Nat /\ 0 < After(e) /\ e \in With(e)
    BY <1>1, <2>1, <2>2, <2>3
  <2> QED
    BY <2>1, <2>4, <2>5, <2>6, <2>7, <2>8, Zenon
<1>3. CASE Updated(e)
  <2>1. PICK g \in H : e = [g EXCEPT !.ver = @ + 1]
    BY <1>3, Zenon DEF Updated
  <2>2. e \in Row /\ e.id = g.id /\ e.seq = g.seq /\ e.ver = g.ver + 1 /\ e # g /\ born' = born
    BY <1>1, <1>3, <2>1 DEF Updated, Row
  <2>3. After(e) = host.next
    BY <1>1, <2>2, SMTT(30) DEF After
  <2>4. With(e) = (H \ {g}) \cup {e} /\ e \notin H
    BY <1>1, <2>2, Zenon DEF With, Distinct
  <2>5. With(e) \in SUBSET Row /\ Distinct(With(e))
    BY <1>1, <2>2, <2>4, Zenon DEF Distinct
  <2>6. \A f \in With(e) : f.id <= born' /\ 0 < f.seq /\ f.seq < After(e)
    BY <1>1, <2>2, <2>3, <2>4, Zenon
  <2>7. IsFiniteSet(With(e)) /\ Cardinality(With(e)) = Cardinality(H)
    <3>1. /\ IsFiniteSet(H \ {g}) /\ Cardinality(H \ {g}) = Cardinality(H) - 1
          /\ Cardinality(H) \in Nat
      BY <1>1, FS_RemoveElement, FS_CardinalityType, Zenon
    <3>2. e \notin H \ {g}
      BY <2>4, Zenon
    <3>3. /\ IsFiniteSet((H \ {g}) \cup {e})
          /\ Cardinality((H \ {g}) \cup {e}) = Cardinality(H \ {g}) + 1
      BY <3>1, <3>2, FS_AddElement, Zenon
    <3> QED
      BY <2>4, <3>1, <3>3
  <2>8. ASSUME NEW x \in Row, Placed(x)
        PROVE  /\ x.id <= born' /\ x.seq < After(e)
               /\ \/ Stands(x, With(e))
                  \/ /\ Precedes(x, With(e))
                     /\ host.kind = "observer" => MaxHistory <= Cardinality(With(e))
    <3>1. /\ x.id <= born /\ x.seq < host.next
          /\ \/ Stands(x, H)
             \/ Precedes(x, H) /\ (host.kind = "observer" => Cardinality(H) = MaxHistory)
      BY <2>8, Zenon DEF Placed, Seated
    <3>2. Stands(x, H) => Stands(x, With(e))
      BY <2>2, <2>4, Zenon DEF Stands
    <3>3. Precedes(x, H) => Precedes(x, With(e))
      BY <2>2, <2>4, Zenon DEF Precedes
    <3>4. host.kind = "observer" /\ Cardinality(H) = MaxHistory => MaxHistory <= Cardinality(With(e))
      BY <2>7, Bounds, SMTT(30)
    <3> QED
      BY <2>2, <2>3, <3>1, <3>2, <3>3, <3>4, Zenon
  <2>9. born' \in Nat /\ After(e) \in Nat /\ 0 < After(e) /\ e \in With(e)
    BY <1>1, <2>2, <2>3, <2>4, Zenon
  <2> QED
    BY <2>2, <2>5, <2>6, <2>7, <2>8, <2>9, Zenon
<1> QED
  BY <1>2, <1>3, Zenon

\* The turn after a row, the session with the row, and what is told of it.
Freed == IF Latched THEN Resting ELSE host.turn
Cleared(e) == [host EXCEPT !.turn = Freed, !.hist = Newest(With(e), MaxHistory), !.next = After(e)]
RowChange(e) == [NoChange EXCEPT !.row = {e}, !.turn = IF Latched THEN Resting ELSE None]

\* The session that upsert_bridge_entry installs has the invariants of its history and its link.
LEMMA ClearedFacts ==
  ASSUME RInv, NEW e, Added(e) \/ Updated(e)
  PROVE  /\ Windowed(Cleared(e)) \in Session /\ LinkOK(Windowed(Cleared(e)))
         /\ LET h == Windowed(Cleared(e)) IN
              /\ h.hist = Newest(With(e), MaxHistory) /\ h.rows = Newest(h.hist, MaxWindow)
              /\ h.next = After(e) /\ h.kind = host.kind /\ h.epoch = host.epoch /\ h.gen = host.gen
              /\ HistoryOK(h, born')
              /\ \A x \in Row : Placed(x) \/ x = e =>
                   x.id <= born' /\ x.seq < h.next /\ Seated(x, h.hist, h.kind)
         /\ RowChange(e) \in Change /\ RowChange(e).row = {e}
<1> DEFINE T == Newest(With(e), MaxHistory)
           W == Newest(T, MaxWindow)
           g == [host EXCEPT !.turn = Freed, !.hist = T, !.next = After(e)]
           h == [g EXCEPT !.rows = W]
<1>1. host \in Session /\ LinkOK(host) /\ host.cards \subseteq Cards
  BY Zenon DEF RInv, Types, Session
<1>2. /\ e \in Row /\ e \in With(e) /\ With(e) \in SUBSET Row /\ IsFiniteSet(With(e)) /\ Distinct(With(e))
      /\ born' \in Nat /\ After(e) \in Nat /\ 0 < After(e)
      /\ \A f \in With(e) : f.id <= born' /\ 0 < f.seq /\ f.seq < After(e)
  BY WithFacts, Zenon
<1>3. /\ T \subseteq Row /\ IsFiniteSet(T) /\ Cardinality(T) <= MaxHistory /\ Distinct(T)
      /\ \A f \in T : f.id <= born' /\ 0 < f.seq /\ f.seq < After(e)
      /\ W \subseteq Row
  BY <1>2, BoundedHistory, Zenon
<1>4. /\ Freed \in Turns /\ (Freed = "running" => host.run) /\ (host.run => Freed \in {"running", "awaiting"})
  BY <1>1, Zenon DEF Freed, Resting, Turns, Session, LinkOK
<1>5. Windowed(Cleared(e)) = h
  <2>1. Cleared(e) = g
    BY Zenon DEF Cleared
  <2>2. g.hist = T
    BY <1>1, Zenon DEF Session
  <2> QED
    BY <2>1, <2>2, Zenon DEF Windowed
<1>6. ASSUME NEW x \in Row, Placed(x) \/ x = e
      PROVE  x.id <= born' /\ x.seq < After(e) /\ Seated(x, T, host.kind)
  <2>1. \A f \in With(e) : f.seq <= After(e)
    BY <1>2 DEF Row
  <2>2. /\ x.id <= born' /\ x.seq < After(e)
        /\ \/ Stands(x, With(e))
           \/ /\ Precedes(x, With(e))
              /\ host.kind = "observer" => MaxHistory <= Cardinality(With(e))
    <3>1. CASE Placed(x)
      BY <3>1, WithFacts, Zenon
    <3>2. CASE x = e
      BY <1>2, <3>2, Zenon DEF Stands
    <3> QED
      BY <1>6, <3>1, <3>2, Zenon
  <2> QED
    BY <1>2, <2>1, <2>2, SeatedInNewest, Zenon
<1>7. RowChange(e) \in Change /\ RowChange(e).row = {e}
  <2>1. (IF Latched THEN Resting ELSE None) \in Turns \cup {None}
    BY Zenon DEF Resting, Turns
  <2> QED
    BY <1>2, <2>1, NoChangeType, Zenon DEF RowChange, Change, NoChange
<1> HIDE DEF T, W
<1>8. g \in Session
  BY <1>1, <1>2, <1>3, <1>4, Zenon DEF Session
<1>9. h \in Session
  BY <1>3, <1>8, Zenon DEF Session
<1>10. /\ h.hist = T /\ h.rows = W /\ h.next = After(e) /\ h.kind = host.kind
       /\ h.epoch = host.epoch /\ h.gen = host.gen
  BY <1>1, Zenon DEF Session
<1>11. LinkOK(h)
  BY <1>1, <1>4, Zenon DEF LinkOK, Session
<1> HIDE DEF g, h
<1>12. HistoryOK(h, born')
  BY <1>2, <1>3, <1>10, Zenon DEF HistoryOK, W
<1> QED
  BY <1>5, <1>6, <1>7, <1>9, <1>10, <1>11, <1>12, Zenon DEF T, W

\* Upsert, in these words.
LEMMA UpsertCases ==
  ASSUME RInv, NEW e, Upsert(e)
  PROVE  /\ Added(e) \/ Updated(e)
         /\ client' = client /\ route' = route
         /\ \/ Publish(Windowed(Cleared(e)), RowChange(e))
            \/ /\ host' = [Windowed(Cleared(e)) EXCEPT !.rev = host.rev + 2, !.full = FALSE]
               /\ Send(<<Delta(Cleared(e), RowChange(e)), Resync>>)
<1>1. host \in Session
  BY Zenon DEF RInv, Types
<1>2. Added(e) \/ Updated(e)
  BY Zenon DEF Upsert, Added, Updated
<1>3. Cleared(e) = [host EXCEPT !.turn = IF Latched THEN Resting ELSE @,
                               !.hist = Newest({f \in host.hist : f.id # e.id} \cup {e}, MaxHistory),
                               !.next = IF e.seq = @ THEN @ + 1 ELSE @]
  BY <1>1, Zenon DEF Cleared, Freed, With, After, Session
<1> QED
  BY <1>2, <1>3, Zenon DEF Upsert, RowChange

\* A row is added or updated, and told of.
LEMMA UpsertStep ==
  ASSUME RInv, NEW e, Upsert(e)
  PROVE  RInv'
<1> DEFINE h == Windowed(Cleared(e))
           ch == RowChange(e)
           D == Delta(Cleared(e), ch)
           r == host.rev + 1
<1>0. Types /\ SubscriberInv /\ host \in Session /\ route \in Nat /\ r \in Nat /\ host.rev \in Nat
  BY SMTT(30) DEF RInv, Types, Session
<1>1. /\ Added(e) \/ Updated(e)
      /\ client' = client /\ route' = route
      /\ \/ Publish(h, ch)
         \/ host' = [h EXCEPT !.rev = host.rev + 2, !.full = FALSE] /\ Send(<<D, Resync>>)
  BY UpsertCases, Zenon
<1>2. /\ h \in Session /\ LinkOK(h) /\ h.kind = host.kind /\ h.epoch = host.epoch /\ h.gen = host.gen
      /\ HistoryOK(h, born') /\ ch \in Change /\ ch.row = {e} /\ e \in Row /\ born' \in Nat
  BY <1>1, ClearedFacts, WithFacts, Zenon
<1>3. \A x \in Row : Placed(x) \/ x = e =>
        x.id <= born' /\ x.seq < h.next /\ Seated(x, h.hist, h.kind)
  BY <1>1, ClearedFacts, Zenon
<1>4. /\ Cleared(e).epoch = host.epoch /\ Cleared(e).gen = host.gen
  BY <1>0, Zenon DEF Cleared, Session
<1>5. Delta(h, ch) = D
  BY <1>2, <1>4, Zenon DEF Delta
<1>6. /\ D \in DeltaFrame /\ D.epoch = host.epoch /\ D.gen = host.gen /\ D.base = host.rev
      /\ D.rev = r /\ D.ch.row = {e}
  <2>1. host.epoch \in Nat /\ host.gen \in Nat
    BY <1>0, Zenon DEF Session
  <2> HIDE DEF ch
  <2> QED
    BY <1>0, <1>2, <1>4, <2>1, Zenon DEF Delta, DeltaFrame
<1>7. PICK d \in DeltaFrame : /\ d = D /\ d.epoch = host.epoch /\ d.gen = host.gen /\ d.base = host.rev
                              /\ d.rev = r /\ d.ch.row = {e}
  BY <1>6, Zenon
<1> HIDE DEF h, ch, D
<1>8. /\ host' \in Session /\ LinkOK(host') /\ HistoryInv' /\ host'.epoch = host.epoch
      /\ host'.gen = host.gen /\ r <= host'.rev /\ host.rev <= host'.rev
      /\ host'.hist = h.hist /\ host'.next = h.next /\ host'.kind = h.kind
  <2>1. CASE Publish(h, ch)
    <3>1. host' = [h EXCEPT !.rev = r]
      BY <2>1, Zenon DEF Publish
    <3>0. /\ host' \in Session /\ host'.epoch = h.epoch /\ host'.gen = h.gen
          /\ host'.rev = r /\ host'.hist = h.hist /\ host'.next = h.next /\ host'.kind = h.kind
          /\ host'.rows = h.rows /\ host'.link = h.link /\ host'.token = h.token
          /\ host'.turn = h.turn /\ host'.run = h.run /\ host'.route = h.route
      <4> HIDE DEF r
      <4>1. h \in Session /\ r \in Nat
        BY <1>0, <1>2, Zenon
      <4> QED
        BY <3>1, <4>1, Stamped, ZenonT(60)
    <3>2. LinkOK(host')
      BY <1>2, <3>0, Zenon DEF LinkOK
    <3>3. HistoryInv'
      BY <1>2, <3>0, Zenon DEF HistoryInv, HistoryOK
    <3> QED
      BY <1>0, <1>2, <3>0, <3>2, <3>3
  <2>2. CASE host' = [h EXCEPT !.rev = host.rev + 2, !.full = FALSE]
    <3>1. host.rev + 2 \in Nat
      BY <1>0
    <3>2. host' \in Session
      BY <1>2, <2>2, <3>1, Zenon DEF Session
    <3>3. LinkOK(host')
      BY <1>2, <2>2, Zenon DEF Session, LinkOK
    <3>4. /\ host'.epoch = h.epoch /\ host'.gen = h.gen
          /\ host'.rev = host.rev + 2 /\ host'.hist = h.hist /\ host'.next = h.next
          /\ host'.kind = h.kind /\ host'.rows = h.rows
      BY <1>2, <2>2, Zenon DEF Session
    <3>5. HistoryInv'
      BY <1>2, <3>4, Zenon DEF HistoryInv, HistoryOK
    <3>6. r <= host'.rev /\ host.rev <= host'.rev
      BY <1>0, <3>4, SMTT(30)
    <3> QED
      BY <1>2, <3>2, <3>3, <3>4, <3>5, <3>6, Zenon
  <2> QED
    BY <1>1, <2>1, <2>2, Zenon
<1>9. /\ ring' \in [Clients -> Seq(Frame)]
      /\ \A c \in Clients : Deltas(ring'[c]) \subseteq Deltas(ring[c]) \cup {d}
  <2>1. Resync \in Signal /\ ring \in [Clients -> Seq(Frame)]
    BY <1>0, Zenon DEF Resync, Signal, Types
  <2>2. /\ <<d>> \in Seq(Frame) /\ Deltas(<<d>>) = {d}
        /\ <<d, Resync>> \in Seq(Frame) /\ Deltas(<<d, Resync>>) = {d}
    BY <2>1, FewFrames, Zenon
  <2>3. Send(<<d>>) \/ Send(<<d, Resync>>)
    BY <1>1, <1>5, <1>7, Zenon DEF Publish
  <2> QED
    BY <2>1, <2>2, <2>3, SendFacts, Zenon
<1>10. Types'
  BY <1>0, <1>1, <1>2, <1>8, <1>9, Zenon DEF Types
<1>11. \A x \in Row : Placed(x) \/ x = e => Placed(x)'
  BY <1>3, <1>8, Zenon DEF Placed, Seated, Stands, Precedes
<1>12. DeltaOK(d)'
  <2>1. host.epoch \in Nat
    BY <1>0, Zenon DEF Session
  <2>2. \A x \in d.ch.row : Placed(x)'
    BY <1>2, <1>7, <1>11, Zenon
  <2> QED
    BY <1>0, <1>7, <1>8, <2>1, <2>2 DEF DeltaOK
<1>13. SubscriberInv'
  BY <1>0, <1>1, <1>8, <1>9, <1>11, <1>12, SameEpoch, Zenon
<1> QED
  BY <1>8, <1>10, <1>13, Zenon DEF RInv, LinkOK
-----------------------------------------------------------------------------
(* Subscribers *)

\* What a subscriber does to itself: its own record and queue change, the host does not.
LEMMA SubscriberStep ==
  ASSUME RInv, NEW c \in Clients, NEW k \in ClientRecord, NEW q \in Seq(Frame),
         k.state = "open" => k.snap # None, SnapOK(k), Deltas(q) \subseteq Deltas(ring[c]),
         client' = [client EXCEPT ![c] = k], ring' = [ring EXCEPT ![c] = q],
         UNCHANGED <<host, route, born>>
  PROVE  RInv'
<1>1. Types /\ SubscriberInv /\ client \in [Clients -> ClientRecord] /\ ring \in [Clients -> Seq(Frame)]
  BY Zenon DEF RInv, Types
<1>2. /\ client' \in [Clients -> ClientRecord] /\ ring' \in [Clients -> Seq(Frame)]
      /\ client'[c] = k /\ ring'[c] = q
      /\ \A b \in Clients : b # c => client'[b] = client[b] /\ ring'[b] = ring[b]
  BY <1>1, Zenon
<1>3. Types'
  BY <1>1, <1>2, Zenon DEF Types
<1>4. \A b \in Clients : SnapOK(client'[b]) /\ \A d \in Deltas(ring'[b]) : DeltaOK(d)
  BY <1>1, <1>2, Zenon DEF SubscriberInv
<1>5. SubscriberInv'
  BY <1>4, ZenonT(60) DEF SubscriberInv, SnapOK, DeltaOK, Mine, Placed, Seated
<1>6. HistoryInv' /\ LinkOK(host')
  BY Zenon DEF RInv, HistoryInv, HistoryOK, LinkOK
<1> QED
  BY <1>3, <1>5, <1>6, Zenon DEF RInv, LinkOK

\* The window after a row has no others than it had and the row.
LEMMA WithRowFacts ==
  ASSUME NEW rows \in SUBSET Row, NEW new \in SUBSET Row
  PROVE  WithRow(rows, new) \in SUBSET Row /\ WithRow(rows, new) \subseteq rows \cup new
BY Zenon DEF WithRow, Newest

\* A snapshot reduced by a delta.
LEMMA ReducedFacts ==
  ASSUME NEW s \in Snapshot, NEW d \in DeltaFrame
  PROVE  LET t == Reduced(s, d)
         IN /\ t \in Snapshot /\ t.rev = d.rev /\ t.epoch = s.epoch /\ t.gen = s.gen
            /\ t.rows \subseteq s.rows \cup d.ch.row
<1> DEFINE cards == (s.cards \cup d.ch.raised) \ d.ch.removed
           ro == Or(d.ch.route, s.route)
           co == Or(d.ch.commands, s.commands)
           fr == Or(d.ch.fresh, s.fresh)
           mo == Or(d.ch.mode, s.mode)
           ow == WithRow(s.rows, d.ch.row)
           tu == IF cards # {} THEN "awaiting" ELSE Or(d.ch.turn, s.turn)
<1>1. d.ch \in Change /\ d.rev \in Nat
  BY Zenon DEF DeltaFrame
<1>2. /\ ro \in Nat /\ co \in BOOLEAN /\ fr \in BOOLEAN /\ mo \in Modes \cup {None}
  BY <1>1, Zenon DEF Or, Change, Snapshot
<1>3. cards \in SUBSET Cards /\ tu \in Turns
  BY <1>1, Zenon DEF Or, Change, Snapshot, Turns
<1>4. ow \in SUBSET Row /\ ow \subseteq s.rows \cup d.ch.row
  <2>1. s.rows \in SUBSET Row /\ d.ch.row \in SUBSET Row
    BY <1>1, Zenon DEF Change, Snapshot
  <2> QED
    BY <2>1, WithRowFacts, Zenon
<1>5. Reduced(s, d) = [s EXCEPT !.rev = d.rev, !.route = ro, !.commands = co, !.fresh = fr, !.mode = mo,
                                !.cards = cards, !.rows = ow, !.turn = tu]
  BY Zenon DEF Reduced, Snapshot
<1> HIDE DEF cards, ro, co, fr, mo, ow, tu
<1>6. Reduced(s, d) \in Snapshot
  BY <1>1, <1>2, <1>3, <1>4, <1>5, ZenonT(60) DEF Snapshot
<1>7. /\ Reduced(s, d).rev = d.rev /\ Reduced(s, d).epoch = s.epoch /\ Reduced(s, d).gen = s.gen
      /\ Reduced(s, d).rows = ow
  BY <1>5, ZenonT(60) DEF Snapshot
<1> QED
  BY <1>4, <1>6, <1>7, Zenon

\* What a subscriber sees of the session is placed.
LEMMA HeldRows ==
  ASSUME RInv
  PROVE  /\ Wire(host) \in Snapshot
         /\ \A x \in host.hist : x \in Row /\ Placed(x)
         /\ host.rows \subseteq host.hist
<1>1. host \in Session /\ HistoryOK(host, born)
  BY Zenon DEF RInv, Types, HistoryInv
<1>2. Wire(host) \in Snapshot
  BY <1>1, Zenon DEF Wire, Snapshot, Session
<1>3. \A x \in host.hist : x \in Row /\ Placed(x)
  BY <1>1, Zenon DEF HistoryOK, Placed, Seated, Stands, Session
<1> QED
  BY <1>1, <1>2, <1>3, Zenon DEF HistoryOK, Newest

\* Subscribing, being cut off and reading older pages.
LEMMA ReaderSteps ==
  ASSUME RInv, NEW c \in Clients, Subscribe(c) \/ Page(c) \/ Drop(c)
  PROVE  RInv'
<1>1. /\ Types /\ client[c] \in ClientRecord /\ ring[c] \in Seq(Frame) /\ SnapOK(client[c])
      /\ client \in [Clients -> ClientRecord] /\ ring \in [Clients -> Seq(Frame)] /\ host \in Session
      /\ client[c].state = "open" => client[c].snap # None
  BY Zenon DEF RInv, Types, SubscriberInv
<1>2. <<>> \in Seq(Frame) /\ Deltas(<<>>) \subseteq Deltas(ring[c])
  BY DEF Deltas
<1>3. ASSUME Subscribe(c) PROVE RInv'
  <2> DEFINE had == client[c].snap
             now == Wire(host)
             same == had # None /\ had.epoch = now.epoch /\ had.gen = now.gen
             old == IF same THEN Older(client[c].old \cup had.rows, now.rows) ELSE {}
             k == [state |-> "open", snap |-> now, old |-> old]
  <2>1. client' = [client EXCEPT ![c] = k] /\ ring' = [ring EXCEPT ![c] = <<>>] /\ UNCHANGED <<host, route, born>>
    BY <1>3, Zenon DEF Subscribe
  <2>2. now \in Snapshot /\ now.epoch = host.epoch /\ now.gen = host.gen /\ now.rev = host.rev /\ now.rows = host.rows
    BY HeldRows, Zenon DEF Wire
  <2>3. ASSUME same
        PROVE  /\ old \subseteq client[c].old \cup had.rows /\ old \subseteq Row
               /\ \A x \in old : Placed(x)
    <3>1. Mine(had) /\ had \in Snapshot
      BY <1>1, <2>2, <2>3, Zenon DEF Mine, ClientRecord
    <3>2. \A x \in client[c].old \cup had.rows : Placed(x) /\ x \in Row
      BY <1>1, <2>3, <3>1, Zenon DEF SnapOK, ClientRecord, Snapshot
    <3>3. old \subseteq client[c].old \cup had.rows
      BY <2>3, Zenon DEF Older
    <3> QED
      BY <3>2, <3>3, Zenon
  <2>4. old \subseteq Row /\ \A x \in old : Placed(x)
    BY <2>3, Zenon
  <2> HIDE DEF old, now
  <2>5. now # None
    BY <2>2, NameAssumption, Zenon
  <2>6. k \in ClientRecord /\ (k.state = "open" => k.snap # None)
    BY <2>2, <2>4, <2>5, Zenon DEF ClientRecord
  <2>7. SnapOK(k)
    <3>1. host.epoch \in Nat /\ host.rev \in Nat
      BY <1>1, Zenon DEF Session
    <3>2. \A x \in now.rows : Placed(x)
      BY <2>2, HeldRows, Zenon
    <3> QED
      BY <2>2, <2>4, <3>1, <3>2, SMTT(30) DEF SnapOK
  <2> HIDE DEF k
  <2> QED
    BY <1>2, <2>1, <2>6, <2>7, SubscriberStep, Zenon
<1>4. ASSUME Drop(c) PROVE RInv'
  <2> DEFINE k == [client[c] EXCEPT !.state = "off"]
  <2>1. client' = [client EXCEPT ![c] = k] /\ ring' = [ring EXCEPT ![c] = <<>>] /\ UNCHANGED <<host, route, born>>
    BY <1>1, <1>4, Zenon DEF Drop
  <2>2. k \in ClientRecord /\ k.state # "open" /\ k.snap = client[c].snap /\ k.old = client[c].old
    BY <1>1, Zenon DEF ClientRecord
  <2>3. SnapOK(k)
    BY <1>1, <2>2, Zenon DEF SnapOK
  <2> HIDE DEF k
  <2> QED
    BY <1>2, <2>1, <2>2, <2>3, SubscriberStep, Zenon
<1>5. ASSUME Page(c) PROVE RInv'
  <2> DEFINE s == client[c].snap
             held == client[c].old \cup s.rows
             got == Newest({e \in host.hist : \A f \in held : e.seq < f.seq}, MaxWindow)
             k == [client[c] EXCEPT !.old = @ \cup got]
  <2>1. /\ client' = [client EXCEPT ![c] = k] /\ ring' = ring /\ UNCHANGED <<host, route, born>>
        /\ client[c].state = "open"
    BY <1>1, <1>5, Zenon DEF Page
  <2>2. ring' = [ring EXCEPT ![c] = ring[c]]
    BY <1>1, <2>1, Zenon
  <2>3. got \subseteq host.hist
    BY Zenon DEF Newest
  <2> HIDE DEF got
  <2>4. \A x \in got : x \in Row /\ Placed(x)
    BY <2>3, HeldRows, Zenon
  <2>5. /\ k \in ClientRecord /\ k.snap = s /\ k.old = client[c].old \cup got /\ k.snap # None
    BY <1>1, <2>1, <2>4, Zenon DEF ClientRecord
  <2>6. SnapOK(k)
    BY <1>1, <2>4, <2>5, Zenon DEF SnapOK
  <2> HIDE DEF k
  <2> QED
    BY <1>1, <2>1, <2>2, <2>5, <2>6, SubscriberStep, Zenon
<1> QED
  BY <1>3, <1>4, <1>5, Zenon

\* What the next frame does to a subscriber: nothing to what it holds, or a delta is applied.
LEMMA ForwardShape ==
  ASSUME RInv, NEW c \in Clients, Forward(c)
  PROVE  LET f == Head(ring[c])
             s == client[c].snap
             t == Reduced(s, f)
             k == client'[c]
             q == ring'[c]
         IN /\ s # None /\ q \in Seq(Frame) /\ Deltas(q) \subseteq Deltas(ring[c])
            /\ client' = [client EXCEPT ![c] = k] /\ ring' = [ring EXCEPT ![c] = q]
            /\ UNCHANGED <<host, route, born>>
            /\ \/ k.snap = s /\ k.old = client[c].old /\ k \in ClientRecord
               \/ /\ f \in Deltas(ring[c]) /\ SameIdentity(s, f) /\ Follows(s, f)
                  /\ k = [client[c] EXCEPT !.snap = t, !.old = Older(client[c].old \cup s.rows, t.rows)]
<1> DEFINE f == Head(ring[c])
           s == client[c].snap
           t == Reduced(s, f)
           k == client'[c]
           q == IF k.state = "open" THEN Tail(ring[c]) ELSE <<>>
<1>1. /\ client[c] \in ClientRecord /\ ring[c] \in Seq(Frame) /\ SnapOK(client[c]) /\ s # None
      /\ client \in [Clients -> ClientRecord] /\ ring \in [Clients -> Seq(Frame)] /\ host \in Session
      /\ \A d \in Deltas(ring[c]) : DeltaOK(d)
  BY Zenon DEF RInv, Types, SubscriberInv, Forward
<1>2. /\ ring[c] # <<>> /\ f \in Frame /\ f = ring[c][1] /\ 1 \in DOMAIN ring[c]
      /\ q \in Seq(Frame)
  BY <1>1, SMTT(30) DEF Forward
<1>3. Deltas(q) \subseteq Deltas(ring[c])
  <2>1. Deltas(<<>>) \subseteq Deltas(ring[c])
    BY SMTT(30) DEF Deltas
  <2>2. \A i \in DOMAIN Tail(ring[c]) : i + 1 \in DOMAIN ring[c] /\ Tail(ring[c])[i] = ring[c][i + 1]
    BY <1>1, <1>2, SMTT(30)
  <2>3. Deltas(Tail(ring[c])) \subseteq Deltas(ring[c])
    BY <2>2, Zenon DEF Deltas
  <2> QED
    BY <2>1, <2>3, Zenon
<1> DEFINE v == CASE f.kind = "receipt" -> client[c]
                  [] f.kind = "closed" -> [client[c] EXCEPT !.state = "off"]
                  [] f.kind \in {"resync", "lagged"} -> [client[c] EXCEPT !.state = "stale"]
                  [] f.kind = "delta" ->
                       IF SameIdentity(s, f) /\ f.rev <= s.rev THEN client[c]
                       ELSE IF SameIdentity(s, f) /\ Follows(s, f)
                       THEN [client[c] EXCEPT !.snap = t, !.old = Older(client[c].old \cup s.rows, t.rows)]
                       ELSE [client[c] EXCEPT !.state = "stale"]
<1>4. /\ client' = [client EXCEPT ![c] = k] /\ ring' = [ring EXCEPT ![c] = q] /\ UNCHANGED <<host, route, born>>
      /\ k = v
  <2>1. /\ client' = [client EXCEPT ![c] = v] /\ UNCHANGED <<host, route, born>>
        /\ ring' = [ring EXCEPT ![c] = IF client'[c].state = "open" THEN Tail(ring[c]) ELSE <<>>]
    BY <1>1, SMTT(30) DEF Forward, ClientRecord
  <2> HIDE DEF v
  <2> QED
    BY <1>1, <2>1, Zenon
<1>5. \/ k.snap = s /\ k.old = client[c].old /\ k \in ClientRecord
      \/ /\ f.kind = "delta" /\ SameIdentity(s, f) /\ Follows(s, f)
         /\ k = [client[c] EXCEPT !.snap = t, !.old = Older(client[c].old \cup s.rows, t.rows)]
  <2> HIDE DEF t, f, k
  <2>1. f.kind \in {"receipt", "closed", "resync", "lagged", "delta"}
    BY <1>2, Zenon DEF Frame, DeltaFrame, Signal
  <2>2. \A x \in {"off", "stale"} :
          [client[c] EXCEPT !.state = x] \in [state : {"off", "open", "stale"}, snap : {s}, old : {client[c].old}]
    BY <1>1, Zenon DEF ClientRecord
  <2>3. client[c] \in [state : {"off", "open", "stale"}, snap : {s}, old : {client[c].old}]
    BY <1>1, Zenon DEF ClientRecord
  <2>4. \/ k \in [state : {"off", "open", "stale"}, snap : {s}, old : {client[c].old}]
        \/ /\ f.kind = "delta" /\ SameIdentity(s, f) /\ Follows(s, f)
           /\ k = [client[c] EXCEPT !.snap = t, !.old = Older(client[c].old \cup s.rows, t.rows)]
    BY <1>4, <2>1, <2>2, <2>3, Zenon
  <2>5. s \in Snapshot \cup {None} /\ client[c].old \in SUBSET Row
    BY <1>1, Zenon DEF ClientRecord
  <2> QED
    BY <2>4, <2>5, Zenon DEF ClientRecord
<1>6. f.kind = "delta" => f \in Deltas(ring[c])
  BY <1>2, Zenon DEF Deltas
<1>7. ring'[c] = q
  BY <1>1, <1>4, Zenon
<1> HIDE DEF t, f, k, q, v
<1> QED
  BY <1>1, <1>2, <1>3, <1>4, <1>5, <1>6, <1>7, Zenon DEF t, f, k

\* The next frame reaches a subscriber.
LEMMA ForwardStep ==
  ASSUME RInv, NEW c \in Clients, Forward(c)
  PROVE  RInv'
<1> DEFINE f == Head(ring[c])
           s == client[c].snap
           t == Reduced(s, f)
           k == client'[c]
           q == ring'[c]
<1>1. /\ client[c] \in ClientRecord /\ ring[c] \in Seq(Frame) /\ SnapOK(client[c])
      /\ \A d \in Deltas(ring[c]) : d \in DeltaFrame /\ DeltaOK(d)
  BY SMTT(30) DEF RInv, Types, SubscriberInv, Deltas, Frame, Signal
<1>2. s # None /\ q \in Seq(Frame) /\ Deltas(q) \subseteq Deltas(ring[c])
  BY ForwardShape, Zenon
<1>4. /\ client' = [client EXCEPT ![c] = k] /\ ring' = [ring EXCEPT ![c] = q] /\ UNCHANGED <<host, route, born>>
  BY ForwardShape, Zenon
<1>5. \/ k.snap = s /\ k.old = client[c].old /\ k \in ClientRecord
      \/ /\ f \in Deltas(ring[c]) /\ SameIdentity(s, f) /\ Follows(s, f)
         /\ k = [client[c] EXCEPT !.snap = t, !.old = Older(client[c].old \cup s.rows, t.rows)]
  BY ForwardShape, Zenon
<1> HIDE DEF f, k, q
<1>6. CASE k.snap = s /\ k.old = client[c].old /\ k \in ClientRecord
  <2>1. SnapOK(k)
    BY <1>1, <1>6, Zenon DEF SnapOK
  <2> QED
    BY <1>2, <1>4, <1>6, <2>1, SubscriberStep, Zenon
<1>7. CASE /\ f \in Deltas(ring[c]) /\ SameIdentity(s, f) /\ Follows(s, f)
           /\ k = [client[c] EXCEPT !.snap = t, !.old = Older(client[c].old \cup s.rows, t.rows)]
  <2>1. f \in DeltaFrame /\ s \in Snapshot
    BY <1>1, <1>2, <1>7, Zenon DEF ClientRecord
  <2>2. DeltaOK(f)
    BY <1>1, <1>7, Zenon
  <2>3. /\ t \in Snapshot /\ t.rev = f.rev /\ t.epoch = s.epoch /\ t.gen = s.gen
        /\ t.rows \subseteq s.rows \cup f.ch.row
    BY <2>1, ReducedFacts, Zenon
  <2>4. t # None
    BY <2>3, NameAssumption, Zenon
  <2> HIDE DEF t
  <2>5. Older(client[c].old \cup s.rows, t.rows) \subseteq client[c].old \cup s.rows
    BY Zenon DEF Older
  <2>6. s.rows \subseteq Row /\ client[c].old \subseteq Row
    BY <1>1, <2>1, Zenon DEF ClientRecord, Snapshot
  <2>7. /\ k \in ClientRecord /\ k.snap = t /\ k.old \subseteq client[c].old \cup s.rows
    BY <1>1, <1>7, <2>3, <2>5, <2>6, Zenon DEF ClientRecord
  <2>8. SnapOK(k)
    <3>1. t.epoch <= host.epoch
      BY <1>1, <1>2, <2>3, Zenon DEF SnapOK
    <3>2. ASSUME Mine(t)
          PROVE  t.rev <= host.rev /\ \A e \in k.old \cup t.rows : Placed(e)
      <4>1. Mine(s) /\ Mine(f)
        BY <1>7, <2>3, <3>2, Zenon DEF Mine, SameIdentity
      <4>2. \A e \in client[c].old \cup s.rows : Placed(e)
        BY <1>1, <1>2, <4>1, Zenon DEF SnapOK
      <4>3. f.rev <= host.rev /\ \A e \in f.ch.row : Placed(e)
        BY <2>2, <4>1, Zenon DEF DeltaOK
      <4> QED
        BY <2>3, <2>7, <4>2, <4>3, Zenon
    <3> QED
      BY <2>7, <3>1, <3>2, Zenon DEF SnapOK
  <2> QED
    BY <1>2, <1>4, <2>4, <2>7, <2>8, SubscriberStep, Zenon
<1> QED
  BY <1>5, <1>6, <1>7, Zenon

\* Every step preserves the invariant.
LEMMA ReplicaNext == RInv /\ [Next]_vars => RInv'
<1> SUFFICES ASSUME RInv, [Next]_vars PROVE RInv'
  BY Zenon
<1>1. CASE Host
  <2>1. CASE \E same \in BOOLEAN : Register(same)
    BY <2>1, RegistrationSteps, Zenon
  <2>2. CASE Ended
    BY <2>2, RegistrationSteps, Zenon
  <2>3. CASE Attention \/ IdleReport \/ ExpireClaim
    BY <2>3, TurnSteps, Zenon
  <2>4. CASE Receipt \/ LoseAdapter \/ LoseRoute
    BY <2>4, LinkSteps, Zenon
  <2>5. CASE Refresh \/ ResolveRoute
    BY <2>5, ObserverSteps, Zenon
  <2>6. CASE \E found \in BOOLEAN : RouteResolved(found)
    BY <2>6, LinkSteps, Zenon
  <2>7. CASE \E e \in {[id |-> born + 1, seq |-> host.next, ver |-> 1]} \cup
                      {[f EXCEPT !.ver = @ + 1] : f \in host.hist} : Upsert(e)
    BY <2>7, UpsertStep, Zenon
  <2>8. CASE \E keep \in SUBSET host.hist, n \in 0..2, full \in BOOLEAN : Replace(keep, n, full)
    <3>1. \A n \in 0..2 : n \in Nat
      OBVIOUS
    <3> QED
      BY <2>8, <3>1, ReplaceStep, Zenon
  <2>9. CASE \E below \in Seqs(host.hist) \cup {0}, full \in BOOLEAN : Restore(below, full)
    BY <2>9, RestoreStep, Zenon
  <2>10. CASE \E i \in Cards : Raise(i) \/ Resolve(i)
    BY <2>10, TurnSteps, Zenon
  <2>11. CASE \E turn \in {"running", "idle"} : ReportTurn(turn)
    BY <2>11, TurnSteps, Zenon
  <2>12. CASE \E m \in Modes : ReportMode(m)
    BY <2>12, TurnSteps, Zenon
  <2> QED
    BY <1>1, <2>1, <2>2, <2>3, <2>4, <2>5, <2>6, <2>7, <2>8, <2>9, <2>10, <2>11, <2>12, Zenon DEF Host
<1>2. CASE \E c \in Clients : Subscribe(c) \/ Forward(c) \/ Page(c) \/ Drop(c)
  BY <1>2, ReaderSteps, ForwardStep, Zenon
<1>3. CASE UNCHANGED vars
  <2>1. host' = host /\ route' = route /\ born' = born /\ client' = client /\ ring' = ring
    BY <1>3, Zenon DEF vars
  <2>2. Types' /\ HistoryInv' /\ LinkOK(host')
    BY <2>1, Zenon DEF RInv, Types, HistoryInv
  <2>3. \A x : Placed(x) => Placed(x)'
    BY <2>1, Zenon DEF Placed
  <2>4. \A x : Mine(x)' => Mine(x)
    BY <2>1, Zenon DEF Mine
  <2>5. SubscriberInv'
    BY <2>1, <2>3, <2>4, Zenon DEF RInv, SubscriberInv, SnapOK, DeltaOK
  <2> QED
    BY <2>2, <2>5, Zenon DEF RInv
<1> QED
  BY <1>1, <1>2, <1>3, Zenon DEF Next

\* RInv in every state.
LEMMA ReplicaInvariant == Spec => []RInv
  BY ReplicaInit, ReplicaNext, PTL DEF Spec

\* RetainedRowsAreTrue of SessionReplica: replacing, restoring and evicting rows
\* (fence_rewritten_history) leave what a subscriber kept from earlier in the epoch true, however
\* late its frames are.
THEOREM RetainedRowsStayTrue == Spec => []RetainedRowsAreTrue
<1>1. RInv => RetainedRowsAreTrue
  BY Zenon DEF RInv, SubscriberInv, SnapOK, Mine, Placed, Seated, Stands, Precedes, RetainedRowsAreTrue
<1> QED
  BY <1>1, ReplicaInvariant, PTL

\* OpenRunIsShown of SessionReplica: no order of cards, notifications, idle reports and ends
\* shows a run that ended, or hides one that is open (pending_interaction_resolved, the attention
\* and idle reports).
THEOREM RunsAreShown == Spec => []OpenRunIsShown
<1>1. RInv => OpenRunIsShown
  BY Zenon DEF RInv, LinkOK, OpenRunIsShown
<1> QED
  BY <1>1, ReplicaInvariant, PTL

\* RoutesAreCurrent of SessionReplica: a resolver that answers after a reconnect leaves no route
\* of the registration before (the token resolve_route compares).
THEOREM RoutesStayCurrent == Spec => []RoutesAreCurrent
<1>1. RInv => RoutesAreCurrent
  BY Zenon DEF RInv, LinkOK, RoutesAreCurrent
<1> QED
  BY <1>1, ReplicaInvariant, PTL
-----------------------------------------------------------------------------
(* Windows *)

\* Rows between the newest n of some and all of them have the same newest n.
LEMMA NewestBetween ==
  ASSUME NEW S, S \subseteq Row, IsFiniteSet(S), Distinct(S), NEW n \in Nat,
         NEW b \in Nat, \A e \in S : e.seq <= b,
         NEW X, Newest(S, n) \subseteq X, X \subseteq S
  PROVE  Newest(X, n) = Newest(S, n)
<1> DEFINE T == Newest(S, n)
<1>1. /\ T \subseteq S /\ IsFiniteSet(T)
      /\ \A e \in S \ T, f \in T : e.seq < f.seq
      /\ Cardinality(S) <= n => T = S
      /\ n <= Cardinality(S) => Cardinality(T) = n
      /\ Cardinality(S) \in Nat
  BY NewestFacts, FS_CardinalityType, Zenon
<1>2. \A e \in S : e \in T <=> Cardinality(Above(S, e.seq)) < n
  BY Zenon DEF Newest, Above
<1>3. \A e : e \in Newest(X, n) <=> e \in X /\ Cardinality(Above(X, e.seq)) < n
  BY Zenon DEF Newest, Above
<1> HIDE DEF T
<1>4. ASSUME NEW e \in S
      PROVE  /\ IsFiniteSet(Above(S, e.seq)) /\ Cardinality(Above(S, e.seq)) \in Nat
             /\ IsFiniteSet(Above(X, e.seq)) /\ Cardinality(Above(X, e.seq)) \in Nat
             /\ Cardinality(Above(X, e.seq)) <= Cardinality(Above(S, e.seq))
  <2>1. Above(X, e.seq) \subseteq Above(S, e.seq) /\ Above(S, e.seq) \subseteq S
    BY Zenon DEF Above
  <2>2. IsFiniteSet(Above(S, e.seq))
    BY <2>1, FS_Subset, Zenon
  <2>3. IsFiniteSet(Above(X, e.seq)) /\ Cardinality(Above(X, e.seq)) <= Cardinality(Above(S, e.seq))
    BY <2>1, <2>2, FS_Subset, Zenon
  <2> QED
    BY <2>2, <2>3, FS_CardinalityType, Zenon
<1>5. ASSUME NEW e \in T PROVE e \in Newest(X, n)
  <2>1. e \in S /\ e \in X
    BY <1>1, Zenon DEF T
  <2> QED
    BY <1>2, <1>3, <1>4, <2>1
<1>6. ASSUME NEW e \in X, e \notin T PROVE e \notin Newest(X, n)
  <2>1. e \in S /\ \A f \in T : e.seq < f.seq
    BY <1>1, <1>6, Zenon
  <2>2. T \subseteq Above(X, e.seq)
    <3>1. T \subseteq X
      BY Zenon DEF T
    <3>2. \A f \in T : f.seq \in Nat /\ e.seq \in Nat
      BY <1>1, <2>1, Zenon DEF Row
    <3> QED
      BY <2>1, <3>1, <3>2, Zenon DEF Above
  <2>3. Cardinality(T) = n
    BY <1>1, <1>6, <2>1
  <2>4. Cardinality(T) <= Cardinality(Above(X, e.seq))
    BY <1>4, <2>1, <2>2, FS_Subset, Zenon
  <2> QED
    BY <1>3, <1>4, <2>1, <2>3, <2>4, SMTT(30)
<1> QED
  BY <1>3, <1>5, <1>6, Zenon DEF T

\* A window that no row is added to.
LEMMA SameWindow == ASSUME RInv PROVE WithRow(host.rows, {}) = host.rows
<1>1. /\ host.hist \subseteq Row /\ IsFiniteSet(host.hist) /\ Distinct(host.hist) /\ host.next \in Nat
      /\ \A e \in host.hist : e.seq <= host.next
      /\ host.rows = Newest(host.hist, MaxWindow)
  BY SMTT(30) DEF RInv, Types, Session, HistoryInv, HistoryOK, Row
<1>2. host.rows \subseteq host.hist
  BY <1>1, Zenon DEF Newest
<1>3. Newest(host.rows, MaxWindow) = host.rows
  BY <1>1, <1>2, Bounds, NewestBetween, Zenon
<1>4. {f \in host.rows : \A e \in {} : f.id # e.id} \cup {} = host.rows
  BY Zenon
<1> QED
  BY <1>3, <1>4, Zenon DEF WithRow

\* A row added to the window a subscriber has leaves it with the window the host has, also where
\* the row is of a part of the history that the window does not show.
LEMMA RowWindow ==
  ASSUME RInv, NEW e, Added(e) \/ Updated(e)
  PROVE  WithRow(host.rows, {e}) = Newest(Newest(With(e), MaxHistory), MaxWindow)
<1> DEFINE H == host.hist
           S == With(e)
           X == {f \in host.rows : f.id # e.id} \cup {e}
<1>1. /\ H \in SUBSET Row /\ IsFiniteSet(H) /\ Distinct(H) /\ host.rows = Newest(H, MaxWindow)
      /\ \A f \in H : f.id <= born /\ f.id \in Nat /\ f.seq \in Nat /\ f.ver \in Nat
      /\ born \in Nat
  BY Zenon DEF RInv, Types, Session, HistoryInv, HistoryOK, Row
<1>2. /\ S \in SUBSET Row /\ IsFiniteSet(S) /\ Distinct(S) /\ After(e) \in Nat
      /\ \A f \in S : f.seq <= After(e)
      /\ e \in S /\ e \in Row
  <2>1. \A f \in S : f.seq \in Nat /\ f.seq < After(e)
    BY WithFacts, SMTT(30) DEF Row
  <2> QED
    BY <2>1, WithFacts, SMTT(30)
<1>3. host.rows \subseteq H /\ \A y : y \in host.rows <=> y \in H /\ Cardinality(Above(H, y.seq)) < MaxWindow
  BY <1>1, Zenon DEF Newest, Above
<1>4. \A f \in H : f.id = e.id => f.ver < e.ver
  <2>1. CASE Added(e)
    BY <1>1, <2>1, SMTT(30) DEF Added
  <2>2. CASE Updated(e)
    <3>1. PICK g \in H : e = [g EXCEPT !.ver = @ + 1]
      BY <2>2, Zenon DEF Updated
    <3>2. e.id = g.id /\ e.ver = g.ver + 1
      BY <1>1, <3>1, Zenon DEF Row
    <3> QED
      BY <1>1, <3>2, SMTT(30) DEF Distinct
  <2> QED
    BY <2>1, <2>2, Zenon
<1>5. WithRow(host.rows, {e}) = Newest(X, MaxWindow)
  <2>1. ~\E x \in {e}, f \in host.rows : f.id = x.id /\ f.ver >= x.ver
    BY <1>1, <1>2, <1>3, <1>4, SMTT(30) DEF Row
  <2>2. {f \in host.rows : \A x \in {e} : f.id # x.id} = {f \in host.rows : f.id # e.id}
    BY Zenon
  <2> QED
    BY <2>1, <2>2, Zenon DEF WithRow
<1>6. X \subseteq S
  BY <1>3, Zenon DEF With
<1>7. ASSUME NEW y \in S, y # e
      PROVE  /\ y \in H /\ y.id # e.id
             /\ IsFiniteSet(Above(S, y.seq)) /\ Cardinality(Above(S, y.seq)) \in Nat
             /\ Cardinality(Above(H, y.seq)) \in Nat
             /\ Cardinality(Above(H, y.seq)) <= Cardinality(Above(S, y.seq))
  <2>1. y \in H /\ y.id # e.id
    BY <1>7, Zenon DEF With
  <2>2. Above(S, y.seq) \subseteq S /\ Above(H, y.seq) \subseteq H
    BY Zenon DEF Above
  <2>3. IsFiniteSet(Above(S, y.seq)) /\ IsFiniteSet(Above(H, y.seq))
    BY <1>1, <1>2, <2>2, FS_Subset, Zenon
  <2>4. Cardinality(Above(S, y.seq)) \in Nat /\ Cardinality(Above(H, y.seq)) \in Nat
    BY <2>3, FS_CardinalityType, Zenon
  <2>5. CASE Above(H, y.seq) \subseteq Above(S, y.seq)
    BY <2>1, <2>3, <2>4, <2>5, FS_Subset, Zenon
  <2>6. CASE ~(Above(H, y.seq) \subseteq Above(S, y.seq))
    <3>1. PICK g \in Above(H, y.seq) : g \notin Above(S, y.seq)
      BY <2>6, Zenon
    <3>2. g \in H /\ g.seq > y.seq /\ g.id = e.id
      BY <3>1, Zenon DEF Above, With
    <3>3. Updated(e) /\ e.seq = g.seq /\ e \notin H
      <4>1. ~Added(e)
        BY <1>1, <3>2, SMTT(30) DEF Added
      <4>2. PICK h \in H : e = [h EXCEPT !.ver = @ + 1]
        BY <4>1, Zenon DEF Updated
      <4>3. e.id = h.id /\ e.seq = h.seq /\ e.ver = h.ver + 1
        BY <1>1, <4>2, Zenon DEF Row
      <4> QED
        BY <1>1, <1>4, <3>2, <4>1, <4>3, SMTT(30) DEF Distinct
    <3>4. e \in Above(S, y.seq) /\ e \notin Above(H, y.seq)
      BY <1>2, <3>2, <3>3, Zenon DEF Above
    <3>5. Above(H, y.seq) \ {g} \subseteq Above(S, y.seq) \ {e}
      BY <1>1, <3>2, <3>3, Zenon DEF Above, With, Distinct
    <3>6. /\ IsFiniteSet(Above(S, y.seq) \ {e})
          /\ Cardinality(Above(S, y.seq) \ {e}) = Cardinality(Above(S, y.seq)) - 1
          /\ Cardinality(Above(H, y.seq) \ {g}) = Cardinality(Above(H, y.seq)) - 1
      BY <2>3, <3>1, <3>4, FS_RemoveElement, Zenon
    <3>7. Cardinality(Above(H, y.seq) \ {g}) <= Cardinality(Above(S, y.seq) \ {e})
      BY <3>5, <3>6, FS_Subset, Zenon
    <3> QED
      BY <2>1, <2>3, <2>4, <3>6, <3>7, SMTT(30)
  <2> QED
    BY <2>5, <2>6, Zenon
<1>8. \A y \in S, n \in Nat : y \in Newest(S, n) <=> Cardinality(Above(S, y.seq)) < n
  BY Zenon DEF Newest, Above
<1> HIDE DEF S, H
<1>9. Newest(S, MaxWindow) \subseteq X
  <2> SUFFICES ASSUME NEW y \in Newest(S, MaxWindow), y # e PROVE y \in X
    BY Zenon
  <2>1. y \in S
    BY Zenon DEF Newest
  <2>2. Cardinality(Above(S, y.seq)) < MaxWindow
    BY <1>8, <2>1, Bounds, Zenon
  <2>3. Cardinality(Above(H, y.seq)) < MaxWindow /\ y \in H /\ y.id # e.id
    BY <1>7, <2>1, <2>2, Bounds, SMTT(30)
  <2> QED
    BY <1>3, <2>3, Zenon
<1>10. Newest(S, MaxWindow) \subseteq Newest(S, MaxHistory) /\ Newest(S, MaxHistory) \subseteq S
  <2>1. \A y \in S : Cardinality(Above(S, y.seq)) \in Nat
    <3> SUFFICES ASSUME NEW y \in S PROVE Cardinality(Above(S, y.seq)) \in Nat
      BY Zenon
    <3>1. Above(S, y.seq) \subseteq S
      BY Zenon DEF Above
    <3> QED
      BY <1>2, <3>1, FS_Subset, FS_CardinalityType, Zenon
  <2>2. \A n \in Nat : Newest(S, n) \subseteq S
    BY Zenon DEF Newest
  <2> QED
    BY <1>8, <2>1, <2>2, Bounds
<1> HIDE DEF X
<1>11. Newest(X, MaxWindow) = Newest(S, MaxWindow)
  BY <1>2, <1>6, <1>9, Bounds, NewestBetween, Zenon
<1>12. Newest(Newest(S, MaxHistory), MaxWindow) = Newest(S, MaxWindow)
  BY <1>2, <1>10, Bounds, NewestBetween, Zenon
<1> QED
  BY <1>5, <1>11, <1>12, Zenon DEF S
-----------------------------------------------------------------------------
(* What a delta says *)

\* Two snapshots that a subscriber could not tell apart.
Alike(s, t) ==
  /\ s.epoch = t.epoch /\ s.gen = t.gen /\ s.rev = t.rev /\ s.topo = t.topo /\ s.full = t.full
  /\ s.cards = t.cards /\ s.route = t.route /\ s.commands = t.commands /\ s.fresh = t.fresh
  /\ s.mode = t.mode /\ s.rows = t.rows
  /\ s.cards = {} => s.turn = t.turn

\* Alike, in the words of the refinement.
LEMMA GatedAlike ==
  ASSUME NEW s \in Snapshot, NEW t \in Snapshot
  PROVE  /\ Gated(s) \in Snapshot
         /\ Gated(s) = Gated(t) <=> Alike(s, t)
<1> DEFINE u(x) == IF x.cards # {} THEN "awaiting" ELSE x.turn
<1>1. u(s) \in Turns /\ u(t) \in Turns
  BY Zenon DEF Snapshot, Turns
<1>2. \A x \in Snapshot : Gated(x) = [x EXCEPT !.turn = u(x)]
  BY Zenon DEF Gated
<1>3. s.cards = t.cards => (u(s) = u(t) <=> (s.cards = {} => s.turn = t.turn))
  BY Zenon
<1> HIDE DEF u
<1>4. Gated(s) \in Snapshot
  BY <1>1, <1>2 DEF Snapshot
<1>5. ASSUME Alike(s, t) PROVE Gated(s) = Gated(t)
  <2>1. u(s) = u(t)
    BY <1>3, <1>5, Zenon DEF Alike
  <2>2. [s EXCEPT !.turn = u(s)] = [t EXCEPT !.turn = u(s)]
    BY <1>5, Zenon DEF Alike, Snapshot
  <2> QED
    BY <1>2, <2>1, <2>2, Zenon
<1>6. ASSUME Gated(s) = Gated(t) PROVE Alike(s, t)
  <2> DEFINE a == Gated(s)
             b == Gated(t)
  <2>1. a = [s EXCEPT !.turn = u(s)] /\ b = [t EXCEPT !.turn = u(t)] /\ a = b
    BY <1>2, <1>6, Zenon
  <2> HIDE DEF a, b
  <2>2. /\ a.epoch = s.epoch /\ a.gen = s.gen /\ a.rev = s.rev /\ a.topo = s.topo /\ a.full = s.full
        /\ a.cards = s.cards /\ a.route = s.route /\ a.commands = s.commands /\ a.fresh = s.fresh
        /\ a.mode = s.mode /\ a.rows = s.rows /\ a.turn = u(s)
    BY <2>1, Zenon DEF Snapshot
  <2>3. /\ b.epoch = t.epoch /\ b.gen = t.gen /\ b.rev = t.rev /\ b.topo = t.topo /\ b.full = t.full
        /\ b.cards = t.cards /\ b.route = t.route /\ b.commands = t.commands /\ b.fresh = t.fresh
        /\ b.mode = t.mode /\ b.rows = t.rows /\ b.turn = u(t)
    BY <2>1, Zenon DEF Snapshot
  <2>4. u(s) = u(t) /\ s.cards = t.cards
    BY <2>1, <2>2, <2>3, Zenon
  <2> QED
    BY <1>3, <2>1, <2>2, <2>3, <2>4, ZenonT(60) DEF Alike
<1> QED
  BY <1>4, <1>5, <1>6, Zenon

\* Every field of a snapshot that a delta was applied to.
LEMMA ReducedFields ==
  ASSUME NEW s \in Snapshot, NEW d
  PROVE  LET t == Reduced(s, d)
             cards == (s.cards \cup d.ch.raised) \ d.ch.removed
         IN /\ t.epoch = s.epoch /\ t.gen = s.gen /\ t.topo = s.topo /\ t.full = s.full
            /\ t.rev = d.rev /\ t.cards = cards /\ t.rows = WithRow(s.rows, d.ch.row)
            /\ t.route = Or(d.ch.route, s.route) /\ t.commands = Or(d.ch.commands, s.commands)
            /\ t.fresh = Or(d.ch.fresh, s.fresh) /\ t.mode = Or(d.ch.mode, s.mode)
            /\ t.turn = IF cards # {} THEN "awaiting" ELSE Or(d.ch.turn, s.turn)
<1> DEFINE cards == (s.cards \cup d.ch.raised) \ d.ch.removed
           ro == Or(d.ch.route, s.route)
           co == Or(d.ch.commands, s.commands)
           fr == Or(d.ch.fresh, s.fresh)
           mo == Or(d.ch.mode, s.mode)
           ow == WithRow(s.rows, d.ch.row)
           tu == IF cards # {} THEN "awaiting" ELSE Or(d.ch.turn, s.turn)
           t == [s EXCEPT !.rev = d.rev, !.route = ro, !.commands = co, !.fresh = fr, !.mode = mo,
                          !.cards = cards, !.rows = ow, !.turn = tu]
<1>1. Reduced(s, d) = t
  BY Zenon DEF Reduced, Snapshot
<1> HIDE DEF cards, ro, co, fr, mo, ow, tu
<1>2. t.epoch = s.epoch /\ t.gen = s.gen /\ t.topo = s.topo /\ t.full = s.full
  BY Zenon DEF Snapshot
<1>3. t.rev = d.rev /\ t.cards = cards /\ t.rows = ow /\ t.turn = tu
  BY Zenon DEF Snapshot
<1>4. t.route = ro /\ t.commands = co /\ t.fresh = fr /\ t.mode = mo
  BY Zenon DEF Snapshot
<1> HIDE DEF t
<1> QED
  BY <1>1, <1>2, <1>3, <1>4, Zenon DEF cards, ro, co, fr, mo, ow, tu

\* A delta that withdraws a card says what the turn is without it.
Plain(d) == d.ch.removed = {} \/ d.ch.turn # None

\* Such a delta means the same to whoever sees the same.
LEMMA AlikeReduced ==
  ASSUME NEW s \in Snapshot, NEW t \in Snapshot, NEW d, Alike(s, t), Plain(d)
  PROVE  Alike(Reduced(s, d), Reduced(t, d))
<1> DEFINE a == Reduced(s, d)
           b == Reduced(t, d)
           cards == (s.cards \cup d.ch.raised) \ d.ch.removed
<1>1. /\ a.epoch = s.epoch /\ a.gen = s.gen /\ a.topo = s.topo /\ a.full = s.full
      /\ a.rev = d.rev /\ a.cards = (s.cards \cup d.ch.raised) \ d.ch.removed
      /\ a.rows = WithRow(s.rows, d.ch.row) /\ a.route = Or(d.ch.route, s.route)
      /\ a.commands = Or(d.ch.commands, s.commands) /\ a.fresh = Or(d.ch.fresh, s.fresh)
      /\ a.mode = Or(d.ch.mode, s.mode)
      /\ a.turn = IF ((s.cards \cup d.ch.raised) \ d.ch.removed) # {} THEN "awaiting" ELSE Or(d.ch.turn, s.turn)
  BY ReducedFields, ZenonT(60)
<1>2. /\ b.epoch = t.epoch /\ b.gen = t.gen /\ b.topo = t.topo /\ b.full = t.full
      /\ b.rev = d.rev /\ b.cards = (t.cards \cup d.ch.raised) \ d.ch.removed
      /\ b.rows = WithRow(t.rows, d.ch.row) /\ b.route = Or(d.ch.route, t.route)
      /\ b.commands = Or(d.ch.commands, t.commands) /\ b.fresh = Or(d.ch.fresh, t.fresh)
      /\ b.mode = Or(d.ch.mode, t.mode)
      /\ b.turn = IF ((t.cards \cup d.ch.raised) \ d.ch.removed) # {} THEN "awaiting" ELSE Or(d.ch.turn, t.turn)
  BY ReducedFields, ZenonT(60)
<1>3. cards = {} => Or(d.ch.turn, s.turn) = Or(d.ch.turn, t.turn)
  <2>1. CASE d.ch.turn # None
    BY <2>1, Zenon DEF Or
  <2>2. CASE d.ch.removed = {}
    BY <2>2, Zenon DEF Or, Alike
  <2> QED
    BY <2>1, <2>2, Zenon DEF Plain
<1> HIDE DEF a, b
<1>4. Alike(a, b)
  BY <1>1, <1>2, <1>3, ZenonT(60) DEF Alike
<1> QED
  BY <1>4, Zenon DEF a, b

\* A change and what is published of it.
Says(next, ch) ==
  /\ next.epoch = host.epoch /\ next.gen = host.gen /\ next.topo = host.topo /\ next.full = host.full
  /\ next.cards = (host.cards \cup ch.raised) \ ch.removed
  /\ next.route = Or(ch.route, host.route) /\ next.commands = Or(ch.commands, host.commands)
  /\ next.fresh = Or(ch.fresh, host.fresh) /\ next.mode = Or(ch.mode, host.mode)
  /\ next.rows = WithRow(host.rows, ch.row)
  /\ next.cards = {} => next.turn = Or(ch.turn, host.turn)
  /\ ch.removed = {} \/ ch.turn # None

\* Who had the session and applies the delta has the session again.
LEMMA SaysEnough ==
  ASSUME RInv, NEW next \in Session, NEW ch \in Change, Says(next, ch)
  PROVE  Alike(Reduced(Wire(host), Delta(next, ch)), Wire([next EXCEPT !.rev = host.rev + 1]))
<1> DEFINE w == Wire(host)
           d == Delta(next, ch)
           t == Reduced(w, d)
           v == Wire([next EXCEPT !.rev = host.rev + 1])
<1>1. w \in Snapshot /\ host.rev + 1 \in Nat
  BY HeldRows, SMTT(30) DEF RInv, Types, Session
<1>2. d.ch = ch /\ d.rev = host.rev + 1
  BY Zenon DEF Delta
<1>3. /\ w.epoch = host.epoch /\ w.gen = host.gen /\ w.topo = host.topo /\ w.full = host.full
      /\ w.cards = host.cards /\ w.route = host.route /\ w.commands = host.commands
      /\ w.fresh = host.fresh /\ w.mode = host.mode /\ w.rows = host.rows /\ w.turn = host.turn
  BY Zenon DEF Wire
<1>4. /\ v.epoch = next.epoch /\ v.gen = next.gen /\ v.topo = next.topo /\ v.full = next.full
      /\ v.cards = next.cards /\ v.route = next.route /\ v.commands = next.commands
      /\ v.fresh = next.fresh /\ v.mode = next.mode /\ v.rows = next.rows /\ v.turn = next.turn
      /\ v.rev = host.rev + 1
  <2>1. v = [Wire(next) EXCEPT !.rev = host.rev + 1]
    BY <1>1, Stamped, Zenon
  <2> QED
    BY <2>1 DEF Wire
<1> HIDE DEF w, v, d
<1>5. /\ t.epoch = w.epoch /\ t.gen = w.gen /\ t.topo = w.topo /\ t.full = w.full /\ t.rev = d.rev
      /\ t.cards = (w.cards \cup ch.raised) \ ch.removed /\ t.rows = WithRow(w.rows, ch.row)
      /\ t.route = Or(ch.route, w.route) /\ t.commands = Or(ch.commands, w.commands)
      /\ t.fresh = Or(ch.fresh, w.fresh) /\ t.mode = Or(ch.mode, w.mode)
      /\ t.cards = {} => t.turn = Or(ch.turn, w.turn)
  BY <1>1, <1>2, ReducedFields, ZenonT(60)
<1> HIDE DEF t
<1>6. Alike(t, v)
  BY <1>2, <1>3, <1>4, <1>5, SMTT(30) DEF Alike, Says
<1> QED
  BY <1>6, Zenon DEF t, w, d, v
-----------------------------------------------------------------------------
(* SessionView *)

\* Whoever has what the session was before the delta has what it was after.
Leads(H, d) ==
  \A s \in Snapshot : s.rev = d.base /\ Gated(s) = H[d.base] => Gated(Reduced(s, d)) = H[d.rev]

\* There is one history of what the session was at its revisions, and every subscriber and every
\* delta of this identity is on it.
Chained(H) ==
  /\ H[host.rev] = Gated(Wire(host))
  /\ \A c \in Clients : client[c].snap # None /\ Mine(client[c].snap) =>
       Gated(client[c].snap) = H[client[c].snap.rev]
  /\ \A c \in Clients : \A d \in Deltas(ring[c]) : Mine(d) => Leads(H, d)
Chain == \E H \in [Nat -> Snapshot] : Chained(H)

\* The session goes on to a revision that no subscriber has.
Onward ==
  \/ host'.epoch = host.epoch + 1
  \/ host'.epoch = host.epoch /\ host'.gen = host.gen /\ host.rev < host'.rev

\* The delta leads from this revision to a snapshot like the one given.
Reaches(d, x) ==
  /\ d.base = host.rev /\ d.rev = host.rev + 1 /\ Plain(d)
  /\ Alike(Reduced(Wire(host), d), x)

\* The history goes on with what the session is now, and with what it was in between.
LEMMA ChainGrows ==
  ASSUME RInv, Chain, client' = client, Wire(host') \in Snapshot, host'.rev \in Nat,
         host'.epoch = host.epoch, host'.gen = host.gen, host.rev < host'.rev,
         NEW x \in Snapshot, host'.rev = host.rev + 1 => x = Wire(host'),
         NEW N \in SUBSET DeltaFrame, \A d \in N : Reaches(d, x),
         \A c \in Clients : Deltas(ring'[c]) \subseteq Deltas(ring[c]) \cup N
  PROVE  Chain'
<1>1. PICK H \in [Nat -> Snapshot] : Chained(H)
  BY Zenon DEF Chain
<1>2. PICK r \in Nat, v \in Nat, w \in Snapshot :
        r = host.rev /\ v = host'.rev /\ w = Gated(Wire(host')) /\ r < v
  <2>1. Gated(Wire(host')) \in Snapshot /\ host.rev \in Nat
    BY GatedAlike, Zenon DEF RInv, Types, Session
  <2> QED
    BY <2>1, Zenon
<1>3. Gated(x) \in Snapshot
  BY GatedAlike, Zenon
<1>4. PICK G \in [Nat -> Snapshot] :
        /\ \A n \in Nat : n <= r => G[n] = H[n]
        /\ G[v] = w
        /\ v # r + 1 => G[r + 1] = Gated(x)
  <2> DEFINE F == [n \in Nat |-> IF n <= r THEN H[n] ELSE IF n = v THEN w ELSE Gated(x)]
  <2>1. F \in [Nat -> Snapshot]
    BY <1>2, <1>3, Zenon
  <2>2. \A n \in Nat : n <= r => F[n] = H[n]
    BY Zenon
  <2>3. F[v] = w
    BY <1>2, SMTT(30)
  <2>4. v # r + 1 => F[r + 1] = Gated(x)
    BY <1>2, SMTT(30)
  <2> HIDE DEF F
  <2> QED
    BY <2>1, <2>2, <2>3, <2>4, Zenon
<1>5. G[r + 1] = Gated(x)
  <2>1. CASE v = r + 1
    BY <1>2, <1>4, <2>1, Zenon
  <2> QED
    BY <1>4, <2>1, Zenon
<1>6. ASSUME NEW d \in N PROVE Leads(G, d)
  <2>1. Reaches(d, x) /\ Wire(host) \in Snapshot /\ d \in DeltaFrame
    BY HeldRows, Zenon
  <2>2. d.base = r /\ d.rev = r + 1 /\ Plain(d) /\ Alike(Reduced(Wire(host), d), x)
    BY <1>2, <2>1, Zenon DEF Reaches
  <2>3. G[r] = Gated(Wire(host))
    BY <1>1, <1>2, <1>4, SMTT(30) DEF Chained
  <2> SUFFICES ASSUME NEW s \in Snapshot, Gated(s) = G[r] PROVE Gated(Reduced(s, d)) = G[r + 1]
    BY <2>2, Zenon DEF Leads
  <2>4. Alike(s, Wire(host))
    BY <2>1, <2>3, GatedAlike, Zenon
  <2>5. Alike(Reduced(s, d), Reduced(Wire(host), d))
    BY <2>1, <2>2, <2>4, AlikeReduced, Zenon
  <2>6. Reduced(s, d) \in Snapshot /\ Reduced(Wire(host), d) \in Snapshot
    BY <2>1, ReducedFacts, Zenon
  <2>7. Gated(Reduced(s, d)) = Gated(Reduced(Wire(host), d))
    BY <2>5, <2>6, GatedAlike, Zenon
  <2>8. Gated(Reduced(Wire(host), d)) = Gated(x)
    BY <2>2, <2>6, GatedAlike, Zenon
  <2> QED
    BY <1>5, <2>7, <2>8, Zenon
<1>7. ASSUME NEW c \in Clients, client[c].snap # None, Mine(client[c].snap)
      PROVE  Gated(client[c].snap) = G[client[c].snap.rev]
  <2>1. client[c].snap \in Snapshot /\ client[c].snap.rev \in Nat /\ client[c].snap.rev <= host.rev
    BY <1>7, ZenonT(60) DEF RInv, Types, ClientRecord, Snapshot, SubscriberInv, SnapOK
  <2> QED
    BY <1>1, <1>2, <1>4, <1>7, <2>1, Zenon DEF Chained
<1>8. ASSUME NEW c \in Clients, NEW d \in Deltas(ring[c]), Mine(d) PROVE Leads(G, d)
  <2>1. d \in DeltaFrame /\ DeltaOK(d)
    BY SMTT(30) DEF RInv, Types, SubscriberInv, Deltas, Frame, Signal
  <2>2. d.base \in Nat /\ d.rev \in Nat /\ d.base <= r /\ d.rev <= r
    BY <1>2, <1>8, <2>1, SMTT(30) DEF DeltaOK, DeltaFrame
  <2>3. Leads(H, d)
    BY <1>1, <1>8, Zenon DEF Chained
  <2> QED
    BY <1>4, <2>2, <2>3, Zenon DEF Leads
<1>9. \A y : Mine(y)' <=> Mine(y)
  BY Zenon DEF Mine
<1>10. \A c \in Clients : \A d \in Deltas(ring'[c]) : Mine(d) => Leads(G, d)
  BY <1>6, <1>8, Zenon
<1>11. G[host'.rev] = Gated(Wire(host'))
  BY <1>2, <1>4, Zenon
<1>12. Chained(G)'
  BY <1>7, <1>9, <1>10, <1>11, Zenon DEF Chained, Wire, Gated, Leads
<1> QED
  BY <1>12, Zenon DEF Chain

\* In a new epoch it begins again.
LEMMA ChainBegins ==
  ASSUME RInv, client' = client, Wire(host') \in Snapshot, host'.rev \in Nat, host'.epoch = host.epoch + 1,
         \A c \in Clients : Deltas(ring'[c]) \subseteq Deltas(ring[c])
  PROVE  Chain'
<1>1. PICK w \in Snapshot : w = Gated(Wire(host'))
  BY GatedAlike, Zenon
<1>2. PICK G \in [Nat -> Snapshot] : \A n \in Nat : G[n] = w
  <2>1. [n \in Nat |-> w] \in [Nat -> Snapshot]
    BY Zenon
  <2> QED
    BY <2>1, Zenon
<1>3. host.epoch \in Nat
  BY Zenon DEF RInv, Types, Session
<1>4. \A c \in Clients : client[c].snap # None => ~(client[c].snap.epoch = host'.epoch)
  <2> SUFFICES ASSUME NEW c \in Clients, client[c].snap # None PROVE client[c].snap.epoch # host'.epoch
    BY Zenon
  <2>1. client[c].snap.epoch <= host.epoch /\ client[c].snap.epoch \in Nat
    BY Zenon DEF RInv, Types, SubscriberInv, SnapOK, ClientRecord, Snapshot
  <2> QED
    BY <1>3, <2>1, SMTT(30)
<1>5. \A c \in Clients : \A d \in Deltas(ring[c]) : d.epoch # host'.epoch
  <2> SUFFICES ASSUME NEW c \in Clients, NEW d \in Deltas(ring[c]) PROVE d.epoch # host'.epoch
    BY Zenon
  <2>1. d \in DeltaFrame /\ DeltaOK(d)
    BY SMTT(30) DEF RInv, Types, SubscriberInv, Deltas, Frame, Signal
  <2> QED
    BY <1>3, <2>1 DEF DeltaOK, DeltaFrame
<1>6. Chained(G)'
  BY <1>1, <1>2, <1>4, <1>5, Zenon DEF Chained, Mine, Wire, Gated
<1> QED
  BY <1>6, Zenon DEF Chain

\* The session changes: no subscriber shows its present state.
LEMMA ViewChanges ==
  ASSUME RInv, client' = client, Onward, host'.rev \in Nat
  PROVE  View!Change
<1>1. ASSUME NEW c \in Clients, client[c].snap # None PROVE ~Current(c)'
  <2>1. /\ client[c].snap.epoch <= host.epoch /\ client[c].snap.epoch \in Nat /\ client[c].snap.rev \in Nat
        /\ Mine(client[c].snap) => client[c].snap.rev <= host.rev
    BY <1>1, Zenon DEF RInv, Types, SubscriberInv, SnapOK, ClientRecord, Snapshot
  <2>2. host.epoch \in Nat /\ host.rev \in Nat
    BY Zenon DEF RInv, Types, Session
  <2>3. Key(client[c].snap) # Key(host)'
    BY <2>1, <2>2, SMTT(30) DEF Onward, Mine, Key
  <2> QED
    BY <2>3, Zenon DEF Current, Key
<1> DEFINE was(c) == IF client[c].snap = None THEN <<"nothing">>
                     ELSE IF Current(c) THEN <<"present", Gated(client[c].snap)>> ELSE <<"behind">>
<1>2. \A c \in Clients : was(c) = <<"nothing">> <=> client[c].snap = None
  <2>1. \A v : <<"present", v>>[1] # <<"nothing">>[1] /\ <<"behind">>[1] # <<"nothing">>[1]
    BY Zenon
  <2> QED
    BY <2>1, Zenon
<1>3. \A c \in Clients : (IF client'[c].snap = None THEN <<"nothing">>
                          ELSE IF Current(c)' THEN <<"present", Gated(client[c].snap)'>> ELSE <<"behind">>)
                         = IF was(c) = <<"nothing">> THEN <<"nothing">> ELSE <<"behind">>
  BY <1>1, <1>2, Zenon
<1> QED
  BY <1>3, Zenon DEF View!Change, View!Nothing, View!Behind

\* A change that is published with what it says.
LEMMA ChainPublished ==
  ASSUME RInv, Chain, NEW next \in Session, NEW ch \in Change, Says(next, ch),
         host' = [next EXCEPT !.rev = host.rev + 1], client' = client,
         NEW f \in Seq(Frame), Deltas(f) \subseteq {Delta(next, ch)}, Send(f)
  PROVE  Chain' /\ View!Change /\ host'.topo = host.topo
<1>1. host.rev \in Nat /\ host.rev + 1 \in Nat /\ host \in Session /\ ring \in [Clients -> Seq(Frame)]
  BY SMTT(30) DEF RInv, Types, Session
<1>2. /\ host' \in Session /\ host'.rev = host.rev + 1 /\ host'.epoch = host.epoch /\ host'.gen = host.gen
      /\ Wire(host') = [Wire(next) EXCEPT !.rev = host.rev + 1]
  BY <1>1, Stamped, ZenonT(60) DEF Says
<1>3. Wire(host') \in Snapshot
  BY <1>2, Zenon DEF Wire, Snapshot, Session
<1>4. host'.topo = host.topo
  <2>1. Wire(host').topo = next.topo /\ Wire(host').topo = host'.topo
    BY <1>2 DEF Wire
  <2> QED
    BY <2>1, Zenon DEF Says
<1>5. Delta(next, ch) \in DeltaFrame /\ Delta(next, ch).base = host.rev /\ Delta(next, ch).rev = host.rev + 1
      /\ Delta(next, ch).ch = ch
  BY <1>1, Zenon DEF Delta, DeltaFrame, Session
<1>6. Alike(Reduced(Wire(host), Delta(next, ch)), Wire(host'))
  BY SaysEnough, Zenon
<1>7. PICK d \in DeltaFrame : d = Delta(next, ch)
  BY <1>5, Zenon
<1>8. PICK x \in Snapshot : x = Wire(host')
  BY <1>3, Zenon
<1>9. Reaches(d, x)
  BY <1>5, <1>6, <1>7, <1>8, Zenon DEF Reaches, Plain, Says
<1>10. \A c \in Clients : Deltas(ring'[c]) \subseteq Deltas(ring[c]) \cup {d}
  BY <1>1, <1>7, SendFacts, Zenon
<1>11. host.rev < host'.rev /\ host'.rev \in Nat
  BY <1>1, <1>2
<1>12. Chain'
  <2>1. {d} \in SUBSET DeltaFrame /\ \A y \in {d} : Reaches(y, x)
    BY <1>9, Zenon
  <2> QED
    BY <1>2, <1>3, <1>8, <1>10, <1>11, <2>1, ChainGrows, Zenon
<1>13. Onward
  BY <1>2, <1>11, Zenon DEF Onward
<1>14. View!Change
  BY <1>11, <1>13, ViewChanges, Zenon
<1> QED
  BY <1>4, <1>12, <1>14, Zenon

\* The same where nothing is sent beside the delta.
LEMMA ChainQuiet ==
  ASSUME RInv, Chain, NEW next \in Session, NEW ch \in Change, Says(next, ch), Publish(next, ch),
         client' = client
  PROVE  Chain' /\ View!Change /\ host'.topo = host.topo
<1>1. Delta(next, ch) \in DeltaFrame
  BY SMTT(30) DEF Delta, DeltaFrame, Session, RInv, Types
<1>2. Resync \in Signal
  BY Zenon DEF Resync, Signal
<1>3. <<Delta(next, ch)>> \in Seq(Frame) /\ Deltas(<<Delta(next, ch)>>) = {Delta(next, ch)}
  BY <1>1, <1>2, FewFrames, Zenon
<1>4. host' = [next EXCEPT !.rev = host.rev + 1] /\ Send(<<Delta(next, ch)>>)
  BY Zenon DEF Publish
<1> QED
  BY <1>3, <1>4, ChainPublished, Zenon

\* A change that subscribers are sent to fetch, or a new registration.
LEMMA ChainFetched ==
  ASSUME RInv, Chain, host' \in Session, Onward, client' = client,
         \A c \in Clients : Deltas(ring'[c]) \subseteq Deltas(ring[c])
  PROVE  Chain' /\ View!Change
<1>1. Wire(host') \in Snapshot /\ host'.rev \in Nat
  BY Zenon DEF Wire, Snapshot, Session
<1>2. View!Change
  BY <1>1, ViewChanges, Zenon
<1>3. CASE host'.epoch = host.epoch + 1
  BY <1>1, <1>2, <1>3, ChainBegins, Zenon
<1>4. CASE host'.epoch = host.epoch /\ host'.gen = host.gen /\ host.rev < host'.rev
  <2>1. PICK x \in Snapshot : x = Wire(host')
    BY <1>1, Zenon
  <2>2. {} \in SUBSET DeltaFrame /\ \A d \in {} : Reaches(d, x)
    BY Zenon
  <2> QED
    BY <1>1, <1>2, <1>4, <2>1, <2>2, ChainGrows, Zenon
<1> QED
  BY <1>2, <1>3, <1>4, Zenon DEF Onward

\* Turns, interactions and modes say all of what they change.
LEMMA TurnsSay ==
  ASSUME RInv, Chain,
         \/ \E i \in Cards : Raise(i) \/ Resolve(i)
         \/ \E turn \in {"running", "idle"} : ReportTurn(turn)
         \/ Attention \/ IdleReport \/ ExpireClaim
         \/ \E m \in Modes : ReportMode(m)
  PROVE  Chain' /\ View!Change /\ host'.topo = host.topo
<1>1. host \in Session /\ host.cards \in SUBSET Cards
  BY Zenon DEF RInv, Types, Session
<1>2. WithRow(host.rows, {}) = host.rows
  BY SameWindow, Zenon
<1>3. Resting \in Turns \ {None} /\ {"running", "idle", "awaiting", "unknown"} \subseteq Turns \ {None}
  BY NameAssumption, Zenon DEF Resting, Turns
<1>4. \A v : Or(None, v) = v
  BY Zenon DEF Or
<1>5. ASSUME NEW i \in Cards, Raise(i) PROVE Chain' /\ View!Change /\ host'.topo = host.topo
  <2> DEFINE next == [host EXCEPT !.cards = @ \cup {i}, !.turn = "awaiting"]
             ch == [NoChange EXCEPT !.raised = {i}, !.turn = "awaiting"]
  <2>1. next \in Session /\ ch \in Change
    BY <1>1, NoChangeType, ZenonT(60) DEF Session, Change, Turns
  <2>2. Says(next, ch)
    BY <1>1, <1>2, <1>4, Zenon DEF Says, Session, NoChange
  <2>3. Publish(next, ch) /\ client' = client
    BY <1>5, Zenon DEF Raise, quiet
  <2> HIDE DEF next, ch
  <2> QED
    BY <2>1, <2>2, <2>3, ChainQuiet, Zenon
<1>6. ASSUME NEW i \in Cards, Resolve(i) PROVE Chain' /\ View!Change /\ host'.topo = host.topo
  <2> DEFINE turn == IF host.cards = {i} THEN Resting ELSE "awaiting"
             next == [host EXCEPT !.cards = @ \ {i}, !.turn = turn]
             ch == [NoChange EXCEPT !.removed = {i}, !.turn = turn]
  <2>1. Publish(next, ch) /\ client' = client
    BY <1>6, Zenon DEF Resolve, quiet
  <2>2. turn \in Turns \ {None}
    BY <1>3, Zenon
  <2> HIDE DEF turn
  <2>3. next \in Session /\ ch \in Change
    BY <1>1, <2>2, NoChangeType, ZenonT(60) DEF Session, Change
  <2>4. Says(next, ch)
    BY <1>1, <1>2, <1>4, <2>2, Zenon DEF Says, Session, NoChange, Or
  <2> HIDE DEF next, ch
  <2> QED
    BY <2>1, <2>3, <2>4, ChainQuiet, Zenon
<1>7. ASSUME NEW turn \in Turns \ {None}, NEW run \in BOOLEAN,
             Publish([host EXCEPT !.turn = turn, !.run = run], [NoChange EXCEPT !.turn = turn]),
             UNCHANGED quiet
      PROVE  Chain' /\ View!Change /\ host'.topo = host.topo
  <2> DEFINE next == [host EXCEPT !.turn = turn, !.run = run]
             ch == [NoChange EXCEPT !.turn = turn]
  <2>1. next \in Session /\ ch \in Change
    BY <1>1, NoChangeType, ZenonT(60) DEF Session, Change
  <2>2. Says(next, ch)
    BY <1>1, <1>2, <1>4, Zenon DEF Says, Session, NoChange, Or
  <2>3. Publish(next, ch) /\ client' = client
    BY <1>7, Zenon DEF quiet
  <2> HIDE DEF next, ch
  <2> QED
    BY <2>1, <2>2, <2>3, ChainQuiet, Zenon
<1>8. ASSUME NEW turn \in {"running", "idle"}, ReportTurn(turn)
      PROVE  Chain' /\ View!Change /\ host'.topo = host.topo
  <2>1. turn \in Turns \ {None} /\ (turn = "running") \in BOOLEAN
    BY <1>3, Zenon
  <2>2. /\ Publish([host EXCEPT !.turn = turn, !.run = (turn = "running")], [NoChange EXCEPT !.turn = turn])
        /\ UNCHANGED quiet
    BY <1>8, Zenon DEF ReportTurn
  <2> QED
    BY <1>7, <2>1, <2>2, Zenon
<1>9. ASSUME Attention PROVE Chain' /\ View!Change /\ host'.topo = host.topo
  <2>1. [host EXCEPT !.turn = "awaiting"] = [host EXCEPT !.turn = "awaiting", !.run = host.run]
    BY <1>1, Zenon DEF Session
  <2>2. host.run \in BOOLEAN /\ "awaiting" \in Turns \ {None}
    BY <1>1, <1>3, Zenon DEF Session
  <2>3. /\ Publish([host EXCEPT !.turn = "awaiting", !.run = host.run], [NoChange EXCEPT !.turn = "awaiting"])
        /\ UNCHANGED quiet
    BY <1>9, <2>1, Zenon DEF Attention
  <2> QED
    BY <1>7, <2>2, <2>3, Zenon
<1>10. ASSUME IdleReport \/ ExpireClaim PROVE Chain' /\ View!Change /\ host'.topo = host.topo
  <2>1. "idle" \in Turns \ {None} /\ "unknown" \in Turns \ {None} /\ FALSE \in BOOLEAN
    BY <1>3, Zenon
  <2>2. CASE IdleReport
    BY <1>7, <2>1, <2>2, Zenon DEF IdleReport
  <2>3. CASE ExpireClaim
    BY <1>7, <2>1, <2>3, Zenon DEF ExpireClaim
  <2> QED
    BY <1>10, <2>2, <2>3, Zenon
<1>11. ASSUME NEW m \in Modes, ReportMode(m) PROVE Chain' /\ View!Change /\ host'.topo = host.topo
  <2> DEFINE next == [host EXCEPT !.mode = m]
             ch == [NoChange EXCEPT !.mode = m]
  <2>1. next \in Session /\ ch \in Change
    BY <1>1, NoChangeType, Zenon DEF Session, Change
  <2>2. Says(next, ch)
    <3>1. m # None
      BY NameAssumption, Zenon
    <3> QED
      BY <1>1, <1>2, <1>4, <3>1, Zenon DEF Says, Session, NoChange, Or
  <2>3. Publish(next, ch) /\ client' = client
    BY <1>11, Zenon DEF ReportMode, quiet
  <2> HIDE DEF next, ch
  <2> QED
    BY <2>1, <2>2, <2>3, ChainQuiet, Zenon
<1> QED
  BY <1>5, <1>6, <1>8, <1>9, <1>10, <1>11, Zenon

\* So do receipts, the loss of the adapter and of the route, and the answer of the resolver, of a
\* session that is not an adopted one.
LEMMA LinksSay ==
  ASSUME RInv, Chain, host.topo # "adopted",
         \/ Receipt \/ LoseAdapter \/ LoseRoute
         \/ ~UNCHANGED <<host, ring>> /\ \E found \in BOOLEAN : RouteResolved(found)
  PROVE  Chain' /\ View!Change /\ host'.topo = host.topo
<1>1. /\ host \in Session /\ host.cards \in SUBSET Cards /\ route \in Nat
      /\ 0 \in Nat /\ 0 # None /\ FALSE # None
  <2>1. host \in Session /\ host.cards \in SUBSET Cards /\ route \in Nat /\ 0 \in Nat
    BY Zenon DEF RInv, Types, Session
  <2>2. \A v : v \in Nat \/ v \in BOOLEAN => v # None
    BY NameAssumption, Zenon
  <2> QED
    BY <2>1, <2>2, Zenon
<1>2. WithRow(host.rows, {}) = host.rows
  BY SameWindow, Zenon
<1>3. \A v : Or(None, v) = v
  BY Zenon DEF Or
<1>4. ASSUME Receipt PROVE Chain' /\ View!Change /\ host'.topo = host.topo
  <2> DEFINE r == [kind |-> "receipt"]
             d == Delta(host, NoChange)
  <2>1. r \in Signal /\ d \in DeltaFrame
    BY <1>1, NoChangeType, SMTT(30) DEF Signal, Delta, DeltaFrame, Session
  <2>2. host' = [host EXCEPT !.rev = host.rev + 1] /\ Send(<<r, d>>) /\ client' = client
    BY <1>4, Zenon DEF Receipt, quiet
  <2>3. Says(host, NoChange)
    BY <1>1, <1>2, <1>3, Zenon DEF Says, NoChange
  <2>4. <<r, d>> \in Seq(Frame) /\ Deltas(<<r, d>>) \subseteq {d}
    BY <2>1, FewFrames, Zenon
  <2> HIDE DEF r
  <2> QED
    BY <1>1, <2>2, <2>3, <2>4, NoChangeType, ChainPublished, Zenon
<1>5. ASSUME LoseAdapter PROVE Chain' /\ View!Change /\ host'.topo = host.topo
  <2> DEFINE next == [host EXCEPT !.link = "none", !.run = FALSE, !.fresh = FALSE, !.turn = "unknown",
                                  !.commands = FALSE, !.route = 0]
             ch == [NoChange EXCEPT !.fresh = FALSE, !.turn = "unknown", !.commands = FALSE, !.route = 0]
  <2>1. next \in Session
    BY <1>1, Zenon DEF Session, Turns
  <2>2. ch \in Change
    BY <1>1, NoChangeType, Zenon DEF Change, Turns
  <2>3. /\ next.epoch = host.epoch /\ next.gen = host.gen /\ next.topo = host.topo /\ next.full = host.full
        /\ next.cards = host.cards /\ next.mode = host.mode /\ next.rows = host.rows
        /\ next.route = 0 /\ next.commands = FALSE /\ next.fresh = FALSE /\ next.turn = "unknown"
    BY <1>1, Zenon DEF Session
  <2>4. /\ ch.raised = {} /\ ch.removed = {} /\ ch.mode = None /\ ch.row = {}
        /\ ch.route = 0 /\ ch.commands = FALSE /\ ch.fresh = FALSE /\ ch.turn = "unknown"
    BY Zenon DEF NoChange
  <2>5. Publish(next, ch) /\ client' = client
    BY <1>5, Zenon DEF LoseAdapter, Downgrade, quiet
  <2> HIDE DEF next, ch
  <2>6. "unknown" # None
    BY NameAssumption, Zenon DEF Turns
  <2>7. Says(next, ch)
    BY <1>1, <1>2, <1>3, <2>3, <2>4, <2>6, Zenon DEF Says, Or
  <2> QED
    BY <2>1, <2>2, <2>5, <2>7, ChainQuiet, Zenon
<1>6. ASSUME NEW new \in Nat, NEW com \in BOOLEAN,
             Publish([host EXCEPT !.route = new, !.commands = com],
                     [NoChange EXCEPT !.route = new, !.commands = com]), client' = client
      PROVE  Chain' /\ View!Change /\ host'.topo = host.topo
  <2> DEFINE next == [host EXCEPT !.route = new, !.commands = com]
             ch == [NoChange EXCEPT !.route = new, !.commands = com]
  <2>1. next \in Session /\ ch \in Change
    BY <1>1, NoChangeType, Zenon DEF Session, Change
  <2>2. new # None /\ com # None
    BY NameAssumption, Zenon
  <2>3. Says(next, ch)
    BY <1>1, <1>2, <1>3, <2>2, Zenon DEF Says, Session, NoChange, Or
  <2>4. Publish(next, ch) /\ client' = client
    BY <1>6, Zenon
  <2> HIDE DEF next, ch
  <2> QED
    BY <2>1, <2>3, <2>4, ChainQuiet, Zenon
<1>7. ASSUME ~UNCHANGED <<host, ring>>, NEW found \in BOOLEAN, RouteResolved(found)
      PROVE  Chain' /\ View!Change /\ host'.topo = host.topo
  <2> DEFINE new == IF found THEN route ELSE 0
             com == (host.link = "stream")
  <2>1. /\ Publish([host EXCEPT !.route = new, !.commands = com], [NoChange EXCEPT !.route = new, !.commands = com])
        /\ client' = client
    BY <1>7, Zenon DEF RouteResolved
  <2>2. new \in Nat /\ com \in BOOLEAN
    BY <1>1, Zenon
  <2> HIDE DEF new, com
  <2> QED
    BY <1>6, <2>1, <2>2, Zenon
<1>8. ASSUME LoseRoute PROVE Chain' /\ View!Change /\ host'.topo = host.topo
  <2> DEFINE next == [host EXCEPT !.route = 0]
             ch == [NoChange EXCEPT !.route = 0]
  <2>1. next \in Session /\ ch \in Change
    BY <1>1, NoChangeType, Zenon DEF Session, Change
  <2>2. Says(next, ch)
    BY <1>1, <1>2, <1>3, Zenon DEF Says, Session, NoChange, Or
  <2>3. Publish(next, ch) /\ client' = client
    BY <1>8, Zenon DEF LoseRoute, quiet
  <2> HIDE DEF next, ch
  <2> QED
    BY <2>1, <2>2, <2>3, ChainQuiet, Zenon
<1> QED
  BY <1>4, <1>5, <1>7, <1>8, Zenon

\* What subscribers are sent to fetch, and new registrations.
LEMMA FetchedSteps ==
  ASSUME RInv, RInv', Chain, "adopted" \notin Kinds, host.topo # "adopted",
         \/ Refresh
         \/ \E hist, next, full : Rewritten(hist, next, full)
         \/ \E same \in BOOLEAN : Register(same)
  PROVE  Chain' /\ View!Change /\ host'.topo # "adopted"
<1>1. /\ host \in Session /\ host' \in Session /\ ring \in [Clients -> Seq(Frame)]
      /\ host.rev \in Nat /\ host.epoch \in Nat /\ host.seed \in Nat
  BY Zenon DEF RInv, Types, Session
<1>2. ASSUME NEW next \in Session, PublishResync(next), client' = client, next.gen = host.gen,
             next.epoch \in {host.epoch, host.epoch + 1}, next.topo = host.topo
      PROVE  Chain' /\ View!Change /\ host'.topo # "adopted"
  <2>1. host' = [next EXCEPT !.rev = host.rev + 1, !.seed = host.rev + 1] /\ Send(<<Resync>>)
    BY <1>2, Zenon DEF PublishResync
  <2>2. host'.epoch = next.epoch /\ host'.gen = next.gen /\ host'.rev = host.rev + 1 /\ host'.topo = next.topo
    BY <1>2, <2>1, Zenon DEF Session
  <2>3. <<Resync>> \in Seq(Frame) /\ Deltas(<<Resync>>) = {}
    BY SMTT(30) DEF Resync, Frame, Signal, Deltas
  <2>4. \A c \in Clients : Deltas(ring'[c]) \subseteq Deltas(ring[c])
    BY <1>1, <2>1, <2>3, SendFacts, Zenon
  <2>5. Onward
    BY <1>1, <1>2, <2>2, SMTT(30) DEF Onward
  <2> QED
    BY <1>1, <1>2, <2>2, <2>4, <2>5, ChainFetched, Zenon
<1>3. CASE Refresh
  <2> DEFINE next == [host EXCEPT !.link = "observer", !.fresh = TRUE]
  <2>1. next \in Session /\ next.gen = host.gen /\ next.epoch = host.epoch /\ next.topo = host.topo
    BY <1>1, Zenon DEF Session
  <2>2. PublishResync(next) /\ client' = client
    BY <1>3, Zenon DEF Refresh, quiet
  <2> HIDE DEF next
  <2> QED
    BY <1>2, <2>1, <2>2, Zenon
<1>4. ASSUME NEW hist, NEW next, NEW full, Rewritten(hist, next, full)
      PROVE  Chain' /\ View!Change /\ host'.topo # "adopted"
  <2> DEFINE kept == Newest(hist, MaxHistory)
             epoch == IF Fenced(hist) THEN host.epoch + 1 ELSE host.epoch
             all == full /\ Cardinality(hist) <= MaxHistory
             h == [host EXCEPT !.hist = kept, !.next = next, !.epoch = epoch, !.full = all]
             g == [h EXCEPT !.rows = Newest(h.hist, MaxWindow)]
  <2>1. PublishResync(g) /\ client' = client
    BY <1>4, Zenon DEF Rewritten, Windowed
  <2>2. epoch \in {host.epoch, host.epoch + 1}
    BY Zenon
  <2> HIDE DEF kept, epoch, all
  <2>3. g.gen = host.gen /\ g.epoch = epoch /\ g.topo = host.topo
    BY <1>1, Zenon DEF Session
  <2>4. host' = [g EXCEPT !.rev = host.rev + 1, !.seed = host.rev + 1] /\ Send(<<Resync>>)
    BY <2>1, Zenon DEF PublishResync
  <2>5. host'.epoch = epoch /\ host'.gen = host.gen /\ host'.rev = host.rev + 1 /\ host'.topo = host.topo
    BY <1>1, <2>4 DEF Session
  <2>6. <<Resync>> \in Seq(Frame) /\ Deltas(<<Resync>>) = {}
    BY SMTT(30) DEF Resync, Frame, Signal, Deltas
  <2>7. \A c \in Clients : Deltas(ring'[c]) \subseteq Deltas(ring[c])
    BY <1>1, <2>4, <2>6, SendFacts, Zenon
  <2>8. Onward
    BY <1>1, <2>2, <2>5 DEF Onward
  <2> QED
    BY <1>1, <2>1, <2>5, <2>7, <2>8, ChainFetched, Zenon
<1>5. ASSUME NEW same \in BOOLEAN, Register(same) PROVE Chain' /\ View!Change /\ host'.topo # "adopted"
  <2>1. client' = client /\ (Closing \/ UNCHANGED ring)
    BY <1>5, Zenon DEF Register
  <2>2. \A c \in Clients : Deltas(ring'[c]) \subseteq Deltas(ring[c])
    BY <1>1, <2>1, ClosingFacts, Zenon
  <2>3. host'.epoch = host.epoch + 1 \/ (host'.epoch = host.epoch /\ host'.gen = host.gen /\ host'.rev = host.rev + 1)
    BY <1>5, Zenon DEF Register, Registered
  <2>4. host'.topo = IF host.kind = "observer" THEN "attached" ELSE host.kind
    BY <1>5, Zenon DEF Register, Registered
  <2>5. host.kind # "adopted"
    BY <1>1, Zenon DEF Session
  <2>6. Onward
    BY <1>1, <2>3, SMTT(30) DEF Onward
  <2> QED
    BY <1>1, <2>1, <2>2, <2>4, <2>5, <2>6, ChainFetched, Zenon
<1> QED
  BY <1>3, <1>4, <1>5, Zenon

\* A row is told of by a delta, and where the bound then evicts rows, a second change is fetched.
LEMMA RowsSay ==
  ASSUME RInv, RInv', Chain, NEW e, Upsert(e)
  PROVE  Chain' /\ View!Change /\ host'.topo = host.topo
<1> DEFINE h == Windowed(Cleared(e))
           ch == RowChange(e)
           D == Delta(Cleared(e), ch)
<1>1. /\ host \in Session /\ host' \in Session /\ ring \in [Clients -> Seq(Frame)]
      /\ host.rev \in Nat /\ host.rev + 1 \in Nat /\ host.epoch \in Nat /\ host.gen \in Nat
  BY SMTT(30) DEF RInv, Types, Session
<1>2. /\ Added(e) \/ Updated(e)
      /\ client' = client
      /\ \/ Publish(h, ch)
         \/ host' = [h EXCEPT !.rev = host.rev + 2, !.full = FALSE] /\ Send(<<D, Resync>>)
  BY UpsertCases, Zenon
<1>3. /\ h \in Session /\ h.epoch = host.epoch /\ h.gen = host.gen /\ ch \in Change /\ ch.row = {e}
      /\ h.rows = Newest(Newest(With(e), MaxHistory), MaxWindow)
  BY <1>2, ClearedFacts, Zenon
<1>4. h.rows = WithRow(host.rows, ch.row)
  BY <1>2, <1>3, RowWindow, Zenon
<1>5. /\ h.topo = host.topo /\ h.full = host.full /\ h.cards = host.cards /\ h.route = host.route
      /\ h.commands = host.commands /\ h.fresh = host.fresh /\ h.mode = host.mode /\ h.turn = Freed
  BY <1>1, Zenon DEF Windowed, Cleared, Session
<1>6. /\ ch.raised = {} /\ ch.removed = {} /\ ch.route = None /\ ch.commands = None /\ ch.fresh = None
      /\ ch.mode = None /\ ch.turn = IF Latched THEN Resting ELSE None
  BY Zenon DEF RowChange, NoChange
<1>7. Freed = Or(ch.turn, host.turn)
  <2>1. Resting # None
    BY NameAssumption, Zenon DEF Resting, Turns
  <2> QED
    BY <1>6, <2>1, Zenon DEF Freed, Or
<1>8. D \in DeltaFrame /\ D.base = host.rev /\ D.rev = host.rev + 1 /\ D.ch = ch
  <2>1. Cleared(e).epoch = host.epoch /\ Cleared(e).gen = host.gen
    BY <1>1, Zenon DEF Cleared, Session
  <2> HIDE DEF ch
  <2> QED
    BY <1>1, <1>3, <2>1, Zenon DEF Delta, DeltaFrame
<1> HIDE DEF h, ch, D
<1>9. Says(h, ch)
  BY <1>3, <1>4, <1>5, <1>6, <1>7, Zenon DEF Says, Or
<1>10. CASE Publish(h, ch)
  BY <1>2, <1>3, <1>5, <1>9, <1>10, ChainQuiet, Zenon
<1>11. CASE host' = [h EXCEPT !.rev = host.rev + 2, !.full = FALSE] /\ Send(<<D, Resync>>)
  <2>1. host'.epoch = host.epoch /\ host'.gen = host.gen /\ host'.rev = host.rev + 2 /\ host'.topo = host.topo
    BY <1>3, <1>5, <1>11, Zenon DEF Session
  <2>2. Wire(host') \in Snapshot /\ Wire(host) \in Snapshot
    BY <1>1, HeldRows, Zenon DEF Wire, Snapshot, Session
  <2>3. Reduced(Wire(host), D) \in Snapshot
    BY <1>8, <2>2, ReducedFacts, Zenon
  <2>4. PICK x \in Snapshot : x = Reduced(Wire(host), D)
    BY <2>3, Zenon
  <2>5. PICK d \in DeltaFrame : d = D
    BY <1>8, Zenon
  <2>6. Reaches(d, x)
    BY <1>6, <1>8, <2>4, <2>5, Zenon DEF Reaches, Plain, Alike
  <2>7. Resync \in Signal
    BY Zenon DEF Resync, Signal
  <2>8. <<d, Resync>> \in Seq(Frame) /\ Deltas(<<d, Resync>>) = {d}
    BY <2>7, FewFrames, Zenon
  <2>9. \A c \in Clients : Deltas(ring'[c]) \subseteq Deltas(ring[c]) \cup {d}
    BY <1>1, <1>11, <2>5, <2>8, SendFacts, Zenon
  <2>10. host.rev < host'.rev /\ host'.rev \in Nat /\ host'.rev # host.rev + 1
    BY <1>1, <2>1, SMTT(30)
  <2>11. {d} \in SUBSET DeltaFrame /\ \A y \in {d} : Reaches(y, x)
    BY <2>6, Zenon
  <2>12. Chain'
    BY <1>2, <2>1, <2>2, <2>9, <2>10, <2>11, ChainGrows, Zenon
  <2>13. Onward
    BY <2>1, <2>10, Zenon DEF Onward
  <2> QED
    BY <1>2, <2>1, <2>10, <2>12, <2>13, ViewChanges, Zenon
<1> QED
  BY <1>2, <1>10, <1>11, Zenon

\* Steps that change nothing a subscriber could see.
LEMMA Unseen ==
  ASSUME Chain, UNCHANGED client, Wire(host') = Wire(host),
         \A c \in Clients : Deltas(ring'[c]) \subseteq Deltas(ring[c])
  PROVE  Chain' /\ UNCHANGED View!vars /\ host'.topo = host.topo
<1>1. /\ host'.epoch = host.epoch /\ host'.gen = host.gen /\ host'.rev = host.rev
      /\ host'.topo = host.topo
  BY Zenon DEF Wire
<1>2. PICK H \in [Nat -> Snapshot] : Chained(H)
  BY Zenon DEF Chain
<1>3. \A y : Mine(y)' <=> Mine(y)
  BY <1>1, Zenon DEF Mine
<1>4. H[host'.rev] = Gated(Wire(host'))
  BY <1>1, <1>2, Zenon DEF Chained
<1>5. Chained(H)'
  BY <1>1, <1>2, <1>3, <1>4, ZenonT(60) DEF Chained, Wire, Gated, Leads
<1>6. Chain'
  BY <1>5, Zenon DEF Chain
<1>7. \A c : Current(c)' <=> Current(c)
  BY <1>1, Zenon DEF Current, Key
<1>8. Gated(Wire(host))' = Gated(Wire(host))
  BY Zenon DEF Gated, Wire
<1> QED
  BY <1>1, <1>6, <1>7, <1>8, Zenon DEF View!vars, Gated

\* A subscriber that arrives at the session's revision arrives at what the session is.
LEMMA SeenStep ==
  ASSUME RInv, NEW H \in [Nat -> Snapshot], Chained(H), NEW c \in Clients, NEW k \in ClientRecord,
         NEW q \in Seq(Frame), Deltas(q) \subseteq Deltas(ring[c]), k.snap # None,
         client' = [client EXCEPT ![c] = k], ring' = [ring EXCEPT ![c] = q], UNCHANGED host,
         Mine(k.snap) => Gated(k.snap) = H[k.snap.rev],
         Key(k.snap) = Key(host) \/ (client[c].snap # None /\ ~Current(c))
  PROVE  Chain' /\ (View!Arrive(c) \/ UNCHANGED View!vars) /\ host'.topo = host.topo
<1>1. client \in [Clients -> ClientRecord] /\ ring \in [Clients -> Seq(Frame)]
  BY Zenon DEF RInv, Types
<1>2. /\ client'[c] = k /\ ring'[c] = q
      /\ \A b \in Clients : b # c => client'[b] = client[b] /\ ring'[b] = ring[b]
  BY <1>1, Zenon
<1>3. Chained(H)'
  <2>1. \A y : Mine(y)' <=> Mine(y)
    BY Zenon DEF Mine
  <2>2. H[host'.rev] = Gated(Wire(host'))
    BY Zenon DEF Chained
  <2>3. \A b \in Clients : client'[b].snap # None /\ Mine(client'[b].snap) =>
          Gated(client'[b].snap) = H[client'[b].snap.rev]
    BY <1>2, ZenonT(60) DEF Chained
  <2>4. \A b \in Clients : Deltas(ring'[b]) \subseteq Deltas(ring[b])
    BY <1>2, Zenon
  <2>5. \A b \in Clients : \A d \in Deltas(ring'[b]) : Mine(d) => Leads(H, d)
    BY <2>4, Zenon DEF Chained
  <2> QED
    BY <2>1, <2>2, <2>3, <2>5, Zenon DEF Chained
<1>4. Chain'
  BY <1>3, Zenon DEF Chain
<1> DEFINE was(b) == IF client[b].snap = None THEN <<"nothing">>
                     ELSE IF Current(b) THEN <<"present", Gated(client[b].snap)>> ELSE <<"behind">>
           now(b) == IF client'[b].snap = None THEN <<"nothing">>
                     ELSE IF Current(b)' THEN <<"present", Gated(client'[b].snap)>> ELSE <<"behind">>
<1>5. \A b \in Clients : b # c => now(b) = was(b)
  BY <1>2, SMTT(30) DEF Current, Key
<1>6. Current(c)' <=> Key(k.snap) = Key(host)
  BY <1>2, Zenon DEF Current, Key
<1>7. Gated(Wire(host))' = Gated(Wire(host))
  BY Zenon DEF Gated, Wire
<1>8. CASE Key(k.snap) = Key(host)
  <2>1. Mine(k.snap) /\ k.snap.rev = host.rev
    BY <1>8, Zenon DEF Key, Mine
  <2>2. Gated(k.snap) = Gated(Wire(host))
    BY <2>1, Zenon DEF Chained
  <2>3. now(c) = <<"present", Gated(Wire(host))>>
    BY <1>2, <1>6, <1>8, <2>2, Zenon
  <2> HIDE DEF was, now
  <2>4. [b \in Clients |-> now(b)] = [[b \in Clients |-> was(b)] EXCEPT ![c] = <<"present", Gated(Wire(host))>>]
    BY <1>5, <2>3, Zenon
  <2>5. View!Arrive(c)
    BY <1>7, <2>4, Zenon DEF View!Arrive, View!Present, was, now, Gated
  <2> QED
    BY <1>4, <2>5, Zenon
<1>9. CASE Key(k.snap) # Key(host)
  <2>1. now(c) = was(c)
    BY <1>2, <1>6, <1>9, Zenon
  <2> HIDE DEF was, now
  <2>2. [b \in Clients |-> now(b)] = [b \in Clients |-> was(b)]
    BY <1>5, <2>1, Zenon
  <2>3. UNCHANGED View!vars
    BY <1>7, <2>2, Zenon DEF View!vars, was, now, Gated
  <2> QED
    BY <1>4, <2>3, Zenon
<1> QED
  BY <1>8, <1>9, Zenon

\* Subscribers show what the session was, or what it is.
LEMMA ReadersSee ==
  ASSUME RInv, RInv', Chain, NEW c \in Clients, Subscribe(c) \/ Forward(c) \/ Page(c) \/ Drop(c)
  PROVE  Chain' /\ (View!Arrive(c) \/ UNCHANGED View!vars) /\ host'.topo = host.topo
<1>1. PICK H \in [Nat -> Snapshot] : Chained(H)
  BY Zenon DEF Chain
<1> DEFINE k == client'[c]
           q == ring'[c]
           s == client[c].snap
<1>2. /\ client \in [Clients -> ClientRecord] /\ ring \in [Clients -> Seq(Frame)]
      /\ k \in ClientRecord /\ q \in Seq(Frame) /\ ring[c] \in Seq(Frame) /\ client[c] \in ClientRecord
      /\ client[c].state = "open" => s # None
      /\ \A d \in Deltas(ring[c]) : d \in DeltaFrame /\ DeltaOK(d)
  <2>1. Types /\ Types' /\ SubscriberInv
    BY Zenon DEF RInv
  <2>2. \A u \in Seq(Frame) : Deltas(u) \subseteq DeltaFrame
    BY SMTT(30) DEF Deltas, Frame, Signal
  <2> QED
    BY <2>1, <2>2, Zenon DEF Types, SubscriberInv
<1>3. UNCHANGED host
  BY Zenon DEF Subscribe, Forward, Page, Drop
<1>4. client' = [client EXCEPT ![c] = k] /\ ring' = [ring EXCEPT ![c] = q]
  <2>1. CASE Subscribe(c)
    BY <1>2, <2>1, Zenon DEF Subscribe
  <2>2. CASE Forward(c)
    <3>1. PICK v : client' = [client EXCEPT ![c] = v]
      BY <2>2, Zenon DEF Forward
    <3>2. PICK w : ring' = [ring EXCEPT ![c] = w]
      BY <2>2, Zenon DEF Forward
    <3> QED
      BY <1>2, <3>1, <3>2, Zenon
  <2>3. CASE Page(c)
    BY <1>2, <2>3, Zenon DEF Page
  <2>4. CASE Drop(c)
    BY <1>2, <2>4, Zenon DEF Drop
  <2> QED
    BY <2>1, <2>2, <2>3, <2>4, Zenon
<1> HIDE DEF k, q
<1>5. CASE Subscribe(c)
  <2>1. k.snap = Wire(host) /\ q = <<>>
    BY <1>2, <1>5, Zenon DEF Subscribe, k, q
  <2>2. Deltas(q) \subseteq Deltas(ring[c])
    BY <2>1, SMTT(30) DEF Deltas
  <2>3. Key(k.snap) = Key(host) /\ k.snap.rev = host.rev
    BY <2>1, SMTT(30) DEF Key, Wire
  <2>4. Gated(k.snap) = H[k.snap.rev]
    BY <1>1, <2>1, <2>3, Zenon DEF Chained
  <2>5. k.snap # None
    BY <2>1, HeldRows, NameAssumption, Zenon
  <2> QED
    BY <1>1, <1>2, <1>3, <1>4, <2>2, <2>3, <2>4, <2>5, SeenStep, Zenon
<1>6. ASSUME k.snap = s, s # None, Deltas(q) \subseteq Deltas(ring[c])
      PROVE  Chain' /\ (View!Arrive(c) \/ UNCHANGED View!vars) /\ host'.topo = host.topo
  <2>1. Mine(k.snap) => Gated(k.snap) = H[k.snap.rev]
    BY <1>1, <1>6, Zenon DEF Chained
  <2>2. Key(k.snap) = Key(host) \/ (s # None /\ ~Current(c))
    BY <1>6, Zenon DEF Current
  <2> QED
    BY <1>1, <1>2, <1>3, <1>4, <1>6, <2>1, <2>2, SeenStep, Zenon
<1>7. CASE Page(c) \/ Drop(c)
  <2>1. k.snap = s /\ s # None
    BY <1>2, <1>7, SMTT(30) DEF Page, Drop, ClientRecord, k
  <2>2. q = ring[c] \/ q = <<>>
    BY <1>2, <1>7, Zenon DEF Page, Drop, q
  <2>3. Deltas(q) \subseteq Deltas(ring[c])
    BY <2>2, SMTT(30) DEF Deltas
  <2> QED
    BY <1>6, <2>1, <2>3, Zenon
<1>8. CASE Forward(c)
  <2> DEFINE f == Head(ring[c])
             t == Reduced(s, f)
  <2>1. /\ s # None
        /\ Deltas(q) \subseteq Deltas(ring[c])
        /\ \/ k.snap = s
           \/ k.snap = t /\ f \in Deltas(ring[c]) /\ SameIdentity(s, f) /\ Follows(s, f)
    <3>1. /\ s # None /\ Deltas(q) \subseteq Deltas(ring[c])
          /\ \/ k.snap = s
             \/ /\ f \in Deltas(ring[c]) /\ SameIdentity(s, f) /\ Follows(s, f)
                /\ k = [client[c] EXCEPT !.snap = t, !.old = Older(client[c].old \cup s.rows, t.rows)]
      BY <1>8, ForwardShape, Zenon DEF k, q
    <3> HIDE DEF t, f
    <3> QED
      BY <1>2, <3>1, Zenon DEF ClientRecord
  <2>2. CASE k.snap = s
    BY <1>6, <2>1, <2>2, Zenon
  <2>3. CASE k.snap = t /\ f \in Deltas(ring[c]) /\ SameIdentity(s, f) /\ Follows(s, f)
    <3>1. s \in Snapshot /\ f \in DeltaFrame /\ DeltaOK(f)
      BY <1>2, <2>1, <2>3, Zenon DEF ClientRecord
    <3>2. t \in Snapshot /\ t.rev = f.rev /\ t.epoch = s.epoch /\ t.gen = s.gen
      BY <3>1, ReducedFacts, Zenon
    <3>3. Mine(t) => Mine(s) /\ Mine(f)
      BY <2>3, <3>2, Zenon DEF Mine, SameIdentity
    <3>4. Mine(t) => Gated(t) = H[t.rev]
      <4> SUFFICES ASSUME Mine(t) PROVE Gated(t) = H[t.rev]
        BY Zenon
      <4>1. Gated(s) = H[s.rev] /\ Leads(H, f)
        BY <1>1, <2>1, <2>3, <3>3, Zenon DEF Chained
      <4>2. s.rev = f.base
        BY <2>3, Zenon DEF Follows
      <4> QED
        BY <3>1, <3>2, <4>1, <4>2, Zenon DEF Leads
    <3>5. ~Current(c)
      <4>1. ASSUME Current(c) PROVE FALSE
        <5>1. Mine(s) /\ s.rev = host.rev
          BY <4>1, Zenon DEF Current, Key, Mine
        <5>2. Mine(f)
          BY <2>3, <5>1, Zenon DEF Mine, SameIdentity
        <5>3. f.rev <= host.rev /\ f.rev = host.rev + 1 /\ host.rev \in Nat
          BY <2>3, <3>1, <5>1, <5>2, Zenon DEF DeltaOK, Follows, Snapshot
        <5> QED
          BY <5>3
      <4> QED
        BY <4>1, Zenon
    <3>6. t # None
      BY <3>2, NameAssumption, Zenon
    <3> HIDE DEF t, f
    <3> QED
      BY <1>1, <1>2, <1>3, <1>4, <2>1, <2>3, <3>4, <3>5, <3>6, SeenStep, Zenon
  <2> QED
    BY <2>1, <2>2, <2>3, Zenon
<1> QED
  BY <1>5, <1>7, <1>8, Zenon

\* Every step of the session and its subscribers is a step of SessionView, or none.
LEMMA ViewNext ==
  ASSUME "adopted" \notin Kinds, RInv, RInv', Chain, host.topo # "adopted", [Next]_vars
  PROVE  Chain' /\ host'.topo # "adopted" /\ [View!Next]_(View!vars)
<1>1. CASE Host
  <2>1. CASE \E same \in BOOLEAN : Register(same)
    BY <2>1, FetchedSteps, Zenon DEF View!Next
  <2>2. CASE Ended \/ ResolveRoute
    <3>1. host \in Session /\ ring \in [Clients -> Seq(Frame)]
      BY Zenon DEF RInv, Types
    <3>2. Wire(host') = Wire(host) /\ client' = client
      BY <2>2, <3>1, ZenonT(60) DEF Ended, ResolveRoute, Wire, Session
    <3>3. \A c \in Clients : Deltas(ring'[c]) \subseteq Deltas(ring[c])
      BY <2>2, <3>1, ClosingFacts, Zenon DEF Ended, ResolveRoute
    <3> QED
      BY <3>2, <3>3, Unseen, Zenon
  <2>3. CASE Attention \/ IdleReport \/ ExpireClaim
    BY <2>3, TurnsSay, Zenon DEF View!Next
  <2>4. CASE Receipt \/ LoseAdapter \/ LoseRoute
    BY <2>4, LinksSay, Zenon DEF View!Next
  <2>5. CASE Refresh
    BY <2>5, FetchedSteps, Zenon DEF View!Next
  <2>6. CASE \E found \in BOOLEAN : RouteResolved(found)
    <3>1. CASE UNCHANGED <<host, ring>>
      <4>1. client' = client
        BY <2>6, Zenon DEF RouteResolved
      <4> QED
        BY <3>1, <4>1, Unseen, Zenon
    <3>2. CASE ~UNCHANGED <<host, ring>>
      BY <2>6, <3>2, LinksSay, Zenon DEF View!Next
    <3> QED
      BY <3>1, <3>2, Zenon
  <2>7. CASE \E e \in {[id |-> born + 1, seq |-> host.next, ver |-> 1]} \cup
                      {[f EXCEPT !.ver = @ + 1] : f \in host.hist} : Upsert(e)
    BY <2>7, RowsSay, Zenon DEF View!Next
  <2>8. CASE \E keep \in SUBSET host.hist, n \in 0..2, full \in BOOLEAN : Replace(keep, n, full)
    <3>1. \E hist, next, full : Rewritten(hist, next, full)
      BY <2>8, Zenon DEF Replace
    <3> QED
      BY <3>1, FetchedSteps, Zenon DEF View!Next
  <2>9. CASE \E below \in Seqs(host.hist) \cup {0}, full \in BOOLEAN : Restore(below, full)
    <3>1. \E hist, next, full : Rewritten(hist, next, full)
      BY <2>9, Zenon DEF Restore
    <3> QED
      BY <3>1, FetchedSteps, Zenon DEF View!Next
  <2>10. CASE \E i \in Cards : Raise(i) \/ Resolve(i)
    BY <2>10, TurnsSay, Zenon DEF View!Next
  <2>11. CASE \E turn \in {"running", "idle"} : ReportTurn(turn)
    BY <2>11, TurnsSay, Zenon DEF View!Next
  <2>12. CASE \E m \in Modes : ReportMode(m)
    BY <2>12, TurnsSay, Zenon DEF View!Next
  <2> QED
    BY <1>1, <2>1, <2>2, <2>3, <2>4, <2>5, <2>6, <2>7, <2>8, <2>9, <2>10, <2>11, <2>12, Zenon DEF Host
<1>2. CASE \E c \in Clients : Subscribe(c) \/ Forward(c) \/ Page(c) \/ Drop(c)
  BY <1>2, ReadersSee, Zenon DEF View!Next
<1>3. CASE UNCHANGED vars
  <2>1. /\ Wire(host') = Wire(host) /\ client' = client
        /\ \A c \in Clients : Deltas(ring'[c]) \subseteq Deltas(ring[c])
    BY <1>3, Zenon DEF vars, Wire
  <2> QED
    BY <2>1, Unseen, Zenon
<1> QED
  BY <1>1, <1>2, <1>3, Zenon DEF Next

\* The initial state of the refinement.
LEMMA ViewInit ==
  ASSUME "adopted" \notin Kinds, Init
  PROVE  Chain /\ host.topo # "adopted" /\ View!Init
<1>1. host.topo # "adopted"
  BY SMTT(30) DEF Init, Registered
<1>2. RInv /\ Wire(host) \in Snapshot
  BY ReplicaInit, HeldRows, Zenon
<1>3. /\ \A c \in Clients : client[c].snap = None /\ ring[c] = <<>>
      /\ client = [c \in Clients |-> client[c]]
  BY Zenon DEF Init
<1>4. View!Init
  BY <1>3, Zenon DEF View!Init, View!Nothing
<1>5. \A c \in Clients : Deltas(ring[c]) = {}
  BY <1>3 DEF Deltas
<1> DEFINE H == [n \in Nat |-> Gated(Wire(host))]
<1>6. H \in [Nat -> Snapshot] /\ H[host.rev] = Gated(Wire(host))
  <2>1. Gated(Wire(host)) \in Snapshot /\ host.rev \in Nat
    BY <1>2, GatedAlike, Zenon DEF RInv, Types, Session
  <2> QED
    BY <2>1, Zenon
<1> HIDE DEF H
<1>7. Chained(H)
  BY <1>3, <1>5, <1>6, Zenon DEF Chained
<1> QED
  BY <1>1, <1>4, <1>6, <1>7, Zenon DEF Chain

\* ImplementsView of SessionReplica: whatever is lost, late, fetched or evicted, a subscriber of a
\* session that is not an adopted one shows nothing, something it knows to be followed by more, or
\* exactly what the session is (publish, apply_delta, enforce_reducer_invariants).  An adopted
\* session is excepted because its end drops the interactions and the topology without a word.
THEOREM SubscribersShowTheSession == ASSUME "adopted" \notin Kinds PROVE Spec => ImplementsView
<1>1. Init => Chain /\ host.topo # "adopted" /\ View!Init
  BY ViewInit, Zenon
<1>2. /\ RInv /\ RInv' /\ Chain /\ host.topo # "adopted" /\ [Next]_vars
      => /\ Chain' /\ (host.topo # "adopted")' /\ [View!Next]_(View!vars)
  BY ViewNext, Zenon
<1> QED
  BY <1>1, <1>2, ReplicaInvariant, PTL DEF Spec, ImplementsView, View!Spec
=============================================================================
