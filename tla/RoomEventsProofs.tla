-------------------------- MODULE RoomEventsProofs --------------------------
(***************************************************************************)
(* Theorems about what the clients of a room are told, for any sockets,    *)
(* instances, publishers, leavers, toggles and failures.                   *)
(***************************************************************************)
EXTENDS RoomEvents, TLAPS

-----------------------------------------------------------------------------
(***************************************************************************)
(* Types.                                                                  *)
(***************************************************************************)
JoinType    == [pc : {"idle", "add", "peers", "producers"},
                peers : SUBSET Sockets,
                unread : SUBSET Sockets,
                found : SUBSET Sockets]
RequestType == [do : {"nothing", "produce"},
                pc : {"idle", "peer", "node", "hset", "expire"}]
Consumes == {"none", "blind", "early", "asked", "granted", "refused", "missed"}
Heards   == {"none", "playing", "paused"}
ViewType == [peers : SUBSET Sockets,
             consume : [Sockets -> Consumes],
             heard : [Sockets -> Heards]]
ClientStates   == {"new", "joined", "capable", "ready", "gone"}
ProducerStates == {"none", "playing", "paused", "closed"}
LeaveStates    == {"none", "hdel", "del", "node", "last", "done"}
EventKinds     == {"newPeer", "peerClosed", "newProducer", "producerPaused",
                   "producerResumed"}
OverlapType    == SUBSET (Sockets \X Sockets \X {"join", "produce", "leave"})

(* The variables in groups, each of which a step sets to its type.         *)
StoreTypeOK ==
    /\ home \in [Sockets -> Instances]
    /\ peersHash \in SUBSET Sockets
    /\ producersHash \in SUBSET Sockets
    /\ producer \in [Sockets -> ProducerStates]
    /\ client \in [Sockets -> ClientStates]
    /\ leave \in [Sockets -> LeaveStates]
    /\ announced \in SUBSET Sockets
NotOwn(s, j)  == s \notin j.peers \cup j.unread \cup j.found
JoinTypeOK    == /\ join \in [Sockets -> JoinType]
                 /\ \A s \in Sockets : NotOwn(s, join[s])
RequestTypeOK == request \in [Sockets -> RequestType]
LinkTypeOK    == link \in [Links -> Seq(Events)]
ViewTypeOK    == view \in [Sockets -> ViewType]
BoundTypeOK   == /\ overlap \in OverlapType
                 /\ toggle \in [Toggles -> ToggleRecords]
                 /\ faults \in Nat

LEMMA TypeParts ==
    TypeOK <=> /\ StoreTypeOK /\ JoinTypeOK /\ RequestTypeOK
               /\ LinkTypeOK /\ ViewTypeOK /\ BoundTypeOK
BY DEF TypeOK, StoreTypeOK, JoinTypeOK, RequestTypeOK, LinkTypeOK, ViewTypeOK,
       BoundTypeOK, ClientStates, ProducerStates, LeaveStates, OverlapType,
       JoinType, NotOwn, RequestType, ViewType, Consumes, Heards

LEMMA EventTyped ==
    ASSUME NEW kind \in EventKinds, NEW p \in Sockets
    PROVE  /\ Event(kind, p) \in Events
           /\ Event(kind, p).kind = kind
           /\ Event(kind, p).of = p
BY DEF Event, Events, EventKinds

LEMMA EventFields ==
    ASSUME NEW e \in Events
    PROVE  /\ e.kind \in EventKinds
           /\ e.of \in Sockets
           /\ e = Event(e.kind, e.of)
BY DEF Event, Events, EventKinds

LEMMA EventsDiffer ==
    ASSUME NEW k, NEW m, NEW p, NEW q, Event(k, p) = Event(m, q)
    PROVE  k = m /\ p = q
<1>1. Event(k, p).kind = k /\ Event(m, q).kind = m
  BY DEF Event
<1>2. Event(k, p).of = p /\ Event(m, q).of = q
  BY DEF Event
<1> QED
  BY <1>1, <1>2

-----------------------------------------------------------------------------
(***************************************************************************)
(* What an event makes of a view.                                          *)
(***************************************************************************)
PeersAfter(e, ps) ==
    IF e.kind = "newPeer" THEN ps \cup {e.of}
    ELSE IF e.kind = "peerClosed" THEN ps \ {e.of} ELSE ps
ConsumeAfter(t, e, p, c) ==
    IF e.kind = "newProducer" /\ e.of = p /\ c = "none" THEN Asked(t) ELSE c
HeardAfter(e, p, h) ==
    IF e.of = p /\ e.kind = "producerPaused" THEN "paused"
    ELSE IF e.of = p /\ e.kind = "producerResumed" THEN "playing" ELSE h

Hears(t, e) ==
    /\ view'[t].peers = PeersAfter(e, view[t].peers)
    /\ \A p \in Sockets :
          /\ view'[t].consume[p] = ConsumeAfter(t, e, p, view[t].consume[p])
          /\ view'[t].heard[p] = HeardAfter(e, p, view[t].heard[p])

LEMMA ConsumeTyped ==
    ASSUME NEW v \in ViewType, NEW p \in Sockets, NEW c \in Consumes
    PROVE  /\ [v EXCEPT !.consume[p] = c] \in ViewType
           /\ [v EXCEPT !.consume[p] = c].peers = v.peers
           /\ [v EXCEPT !.consume[p] = c].heard = v.heard
           /\ \A q \in Sockets : [v EXCEPT !.consume[p] = c].consume[q]
                 = IF q = p THEN c ELSE v.consume[q]
BY DEF ViewType

LEMMA HeardTyped ==
    ASSUME NEW v \in ViewType, NEW p \in Sockets, NEW h \in Heards
    PROVE  /\ [v EXCEPT !.heard[p] = h] \in ViewType
           /\ [v EXCEPT !.heard[p] = h].peers = v.peers
           /\ [v EXCEPT !.heard[p] = h].consume = v.consume
           /\ \A q \in Sockets : [v EXCEPT !.heard[p] = h].heard[q]
                 = IF q = p THEN h ELSE v.heard[q]
BY DEF ViewType

LEMMA PeersTyped ==
    ASSUME NEW v \in ViewType, NEW ps \in SUBSET Sockets
    PROVE  /\ [v EXCEPT !.peers = ps] \in ViewType
           /\ [v EXCEPT !.peers = ps].peers = ps
           /\ [v EXCEPT !.peers = ps].consume = v.consume
           /\ [v EXCEPT !.peers = ps].heard = v.heard
BY DEF ViewType

LEMMA AskedTyped ==
    ASSUME NEW t
    PROVE  /\ Asked(t) \in {"blind", "early", "asked"}
           /\ Asked(t) \in Consumes
BY DEF Asked, Consumes

ToldRight(t, e, v) ==
    /\ v \in ViewType
    /\ v.peers = PeersAfter(e, view[t].peers)
    /\ \A p \in Sockets :
          /\ v.consume[p] = ConsumeAfter(t, e, p, view[t].consume[p])
          /\ v.heard[p] = HeardAfter(e, p, view[t].heard[p])

LEMMA ToldEffect ==
    ASSUME ViewTypeOK, NEW t \in Sockets, NEW e \in Events
    PROVE  ToldRight(t, e, Told(t, e))
<1> DEFINE v == view[t]
<1>1. /\ v \in ViewType
      /\ v.peers \in SUBSET Sockets
      /\ v.consume \in [Sockets -> Consumes]
      /\ v.heard \in [Sockets -> Heards]
      /\ e.of \in Sockets
      /\ e.kind \in EventKinds
  BY EventFields DEF ViewTypeOK, ViewType
<1> USE DEF ToldRight, PeersAfter, ConsumeAfter, HeardAfter
<1>2. CASE e.kind = "newPeer"
  <2>1. v.peers \cup {e.of} \in SUBSET Sockets
    BY <1>1
  <2>2. Told(t, e) = [v EXCEPT !.peers = v.peers \cup {e.of}]
    BY <1>2 DEF Told
  <2> HIDE DEF v
  <2>3. ToldRight(t, e, Told(t, e))
    BY <1>1, <1>2, <2>1, <2>2, PeersTyped DEF v
  <2> QED
    BY <2>3
<1>3. CASE e.kind = "peerClosed"
  <2>1. v.peers \ {e.of} \in SUBSET Sockets
    BY <1>1
  <2>2. Told(t, e) = [v EXCEPT !.peers = v.peers \ {e.of}]
    BY <1>3 DEF Told
  <2> QED
    BY <1>1, <1>3, <2>1, <2>2, PeersTyped
<1>4. CASE e.kind = "newProducer"
  <2>1. Told(t, e) = IF v.consume[e.of] = "none"
                       THEN [v EXCEPT !.consume[e.of] = Asked(t)] ELSE v
    BY <1>4 DEF Told, ToldOfProducer
  <2>2. Asked(t) \in Consumes
    BY AskedTyped
  <2> HIDE DEF v
  <2>3. CASE v.consume[e.of] = "none"
    <3>1. Told(t, e) = [v EXCEPT !.consume[e.of] = Asked(t)]
      BY <2>1, <2>3
    <3> QED
      BY <1>1, <1>4, <2>2, <2>3, <3>1, ConsumeTyped DEF v
  <2>4. CASE v.consume[e.of] # "none"
    BY <1>1, <1>4, <2>1, <2>4 DEF v
  <2> QED
    BY <2>3, <2>4
<1>5. CASE e.kind = "producerPaused"
  <2>1. Told(t, e) = [v EXCEPT !.heard[e.of] = "paused"]
    BY <1>5 DEF Told
  <2>2. "paused" \in Heards
    BY DEF Heards
  <2> QED
    BY <1>1, <1>5, <2>1, <2>2, HeardTyped
<1>6. CASE e.kind = "producerResumed"
  <2>1. Told(t, e) = [v EXCEPT !.heard[e.of] = "playing"]
    BY <1>6 DEF Told
  <2>2. "playing" \in Heards
    BY DEF Heards
  <2> QED
    BY <1>1, <1>6, <2>1, <2>2, HeardTyped
<1> QED
  BY <1>1, <1>2, <1>3, <1>4, <1>5, <1>6 DEF EventKinds

-----------------------------------------------------------------------------
(***************************************************************************)
(* Events on their way.                                                    *)
(***************************************************************************)
On(q, e) == \E i \in DOMAIN q : q[i] = e

(* After each e there comes an f.                                          *)
Followed(q, e, f) ==
    \A i \in DOMAIN q : q[i] = e => \E j \in DOMAIN q : j > i /\ q[j] = f

LEMMA OnAppend ==
    ASSUME NEW S, NEW q \in Seq(S), NEW g \in S
    PROVE  /\ Append(q, g) \in Seq(S)
           /\ \A e \in S : On(Append(q, g), e) <=> On(q, e) \/ e = g
           /\ \A e, f \in S : Followed(q, e, f) /\ e # g
                 => Followed(Append(q, g), e, f)
           /\ \A e \in S \ {g} : Followed(Append(q, g), e, g)
<1> DEFINE r == Append(q, g)
<1>1. /\ r \in Seq(S)
      /\ Len(q) \in Nat
      /\ DOMAIN q = 1 .. Len(q)
      /\ DOMAIN r = 1 .. Len(q) + 1
      /\ r[Len(q) + 1] = g
      /\ \A i \in 1 .. Len(q) : r[i] = q[i]
  OBVIOUS
<1> HIDE DEF r
<1>2. \A e \in S : On(r, e) <=> On(q, e) \/ e = g
  <2> SUFFICES ASSUME NEW e \in S
               PROVE  On(r, e) <=> On(q, e) \/ e = g
    OBVIOUS
  <2>1. On(r, e) => On(q, e) \/ e = g
    BY <1>1 DEF On
  <2>2. On(q, e) => On(r, e)
    BY <1>1 DEF On
  <2>3. e = g => On(r, e)
    BY <1>1 DEF On
  <2> QED
    BY <2>1, <2>2, <2>3
<1>3. ASSUME NEW e \in S, NEW f \in S, Followed(q, e, f), e # g
      PROVE  Followed(r, e, f)
  <2> SUFFICES ASSUME NEW i \in DOMAIN r, r[i] = e
               PROVE  \E j \in DOMAIN r : j > i /\ r[j] = f
    BY DEF Followed
  <2>1. i \in DOMAIN q /\ q[i] = e
    BY <1>1, <1>3
  <2>2. PICK j \in DOMAIN q : j > i /\ q[j] = f
    BY <1>3, <2>1 DEF Followed
  <2> QED
    BY <1>1, <2>2
<1>4. ASSUME NEW e \in S \ {g}
      PROVE  Followed(r, e, g)
  <2> SUFFICES ASSUME NEW i \in DOMAIN r, r[i] = e
               PROVE  \E j \in DOMAIN r : j > i /\ r[j] = g
    BY DEF Followed
  <2>1. i < Len(q) + 1
    BY <1>1, <1>4
  <2> QED
    BY <1>1, <2>1
<1> QED
  BY <1>1, <1>2, <1>3, <1>4 DEF r

LEMMA OnTail ==
    ASSUME NEW S, NEW q \in Seq(S), q # <<>>
    PROVE  /\ Tail(q) \in Seq(S)
           /\ Head(q) \in S
           /\ \A e \in S : On(q, e) <=> On(Tail(q), e) \/ e = Head(q)
           /\ \A e, f \in S : Followed(q, e, f) => Followed(Tail(q), e, f)
           /\ \A f \in S : Followed(q, Head(q), f) => On(Tail(q), f)
<1> DEFINE r == Tail(q)
<1>1. /\ r \in Seq(S)
      /\ Head(q) \in S
      /\ Head(q) = q[1]
      /\ Len(q) \in Nat \ {0}
      /\ DOMAIN q = 1 .. Len(q)
      /\ DOMAIN r = 1 .. Len(q) - 1
      /\ \A i \in 1 .. Len(q) - 1 : r[i] = q[i + 1]
  OBVIOUS
<1> HIDE DEF r
<1>2. \A j \in DOMAIN q : j > 1 => j - 1 \in DOMAIN r /\ r[j - 1] = q[j]
  BY <1>1
<1>3. \A e \in S : On(q, e) <=> On(r, e) \/ e = Head(q)
  <2> SUFFICES ASSUME NEW e \in S
               PROVE  On(q, e) <=> On(r, e) \/ e = Head(q)
    OBVIOUS
  <2>1. ASSUME On(q, e), e # Head(q)
        PROVE  On(r, e)
    <3>1. PICK i \in DOMAIN q : q[i] = e
      BY <2>1 DEF On
    <3>2. i > 1
      BY <1>1, <2>1, <3>1
    <3> QED
      BY <1>2, <3>1, <3>2 DEF On
  <2>2. On(r, e) => On(q, e)
    <3> SUFFICES ASSUME NEW i \in DOMAIN r, r[i] = e
                 PROVE  \E j \in DOMAIN q : q[j] = e
      BY DEF On
    <3>1. i + 1 \in DOMAIN q /\ q[i + 1] = e
      BY <1>1
    <3> QED
      BY <3>1
  <2>3. e = Head(q) => On(q, e)
    <3>1. 1 \in DOMAIN q
      BY <1>1
    <3> QED
      BY <1>1, <3>1 DEF On
  <2> QED
    BY <2>1, <2>2, <2>3
<1>4. ASSUME NEW e \in S, NEW f \in S, Followed(q, e, f)
      PROVE  Followed(r, e, f)
  <2> SUFFICES ASSUME NEW i \in DOMAIN r, r[i] = e
               PROVE  \E j \in DOMAIN r : j > i /\ r[j] = f
    BY DEF Followed
  <2>1. i \in Nat /\ i + 1 \in DOMAIN q /\ q[i + 1] = e
    BY <1>1
  <2>2. PICK j \in DOMAIN q : j > i + 1 /\ q[j] = f
    BY <1>4, <2>1 DEF Followed
  <2>3. j - 1 \in DOMAIN r /\ r[j - 1] = f /\ j - 1 > i
    BY <1>1, <1>2, <2>1, <2>2
  <2> QED
    BY <2>3
<1>5. ASSUME NEW f \in S, Followed(q, Head(q), f)
      PROVE  On(r, f)
  <2>1. 1 \in DOMAIN q /\ q[1] = Head(q)
    BY <1>1
  <2>2. PICK j \in DOMAIN q : j > 1 /\ q[j] = f
    BY <1>5, <2>1 DEF Followed
  <2> QED
    BY <1>2, <2>2 DEF On
<1> QED
  BY <1>1, <1>3, <1>4, <1>5 DEF r

LEMMA NothingOnEmpty ==
    ASSUME NEW e, NEW f
    PROVE  ~On(<<>>, e) /\ Followed(<<>>, e, f)
BY DEF On, Followed

(* What publishing an event does to the links, and what delivering does.   *)
Published(s, e) ==
    /\ LinkTypeOK'
    /\ \A l \in Links : \A f \in Events :
          On(link'[l], f) <=> On(link[l], f) \/ (l[1] = home[s] /\ f = e)
    /\ \A l \in Links : \A f, g \in Events :
          /\ Followed(link[l], f, g) /\ (l[1] = home[s] => f # e)
                => Followed(link'[l], f, g)
          /\ l[1] = home[s] /\ f # e => Followed(link'[l], f, e)

LEMMA PublishEffect ==
    ASSUME LinkTypeOK, NEW s \in Sockets, NEW e \in Events, Publish(s, e)
    PROVE  Published(s, e)
<1>1. \A l \in Links : link[l] \in Seq(Events)
  BY DEF LinkTypeOK
<1>2. ASSUME NEW l \in Links
      PROVE  link'[l] = IF l[1] = home[s] THEN Append(link[l], e) ELSE link[l]
  BY DEF Publish
<1>3. ASSUME NEW l \in Links
      PROVE  link'[l] \in Seq(Events)
  <2>1. link[l] \in Seq(Events)
    BY <1>1
  <2>2. Append(link[l], e) \in Seq(Events)
    BY <2>1, OnAppend
  <2> QED
    BY <1>2, <2>1, <2>2
<1>4. LinkTypeOK'
  BY <1>3 DEF LinkTypeOK, Publish
<1>5. ASSUME NEW l \in Links, NEW f \in Events
      PROVE  On(link'[l], f) <=> On(link[l], f) \/ (l[1] = home[s] /\ f = e)
  BY <1>1, <1>2, OnAppend
<1>6. ASSUME NEW l \in Links, NEW f \in Events, NEW g \in Events
      PROVE  /\ Followed(link[l], f, g) /\ (l[1] = home[s] => f # e)
                   => Followed(link'[l], f, g)
             /\ l[1] = home[s] /\ f # e => Followed(link'[l], f, e)
  BY <1>1, <1>2, OnAppend
<1> QED
  BY <1>4, <1>5, <1>6 DEF Published

Delivered(l) ==
    /\ LinkTypeOK'
    /\ Head(link[l]) \in Events
    /\ \A m \in Links \ {l} : link'[m] = link[m]
    /\ \A f \in Events :
          On(link[l], f) <=> On(link'[l], f) \/ f = Head(link[l])
    /\ \A f, g \in Events : Followed(link[l], f, g) => Followed(link'[l], f, g)
    /\ \A g \in Events : Followed(link[l], Head(link[l]), g) => On(link'[l], g)
    /\ \A t \in Sockets : IF InChannel(t) /\ home[t] = l[2]
                             THEN Hears(t, Head(link[l]))
                             ELSE view'[t] = view[t]

LEMMA DeliverEffect ==
    ASSUME TypeOK, NEW l \in Links, Deliver(l)
    PROVE  Delivered(l) /\ ViewTypeOK'
<1>1. LinkTypeOK /\ ViewTypeOK
  BY TypeParts
<1>2. /\ link[l] \in Seq(Events)
      /\ link[l] # <<>>
      /\ link'[l] = Tail(link[l])
      /\ \A m \in Links \ {l} : link'[m] = link[m]
      /\ link' = [link EXCEPT ![l] = Tail(link[l])]
      /\ view' = ViewsAfter(Local(l[2]), Head(link[l]))
  BY <1>1 DEF Deliver, LinkTypeOK
<1>3. /\ Tail(link[l]) \in Seq(Events)
      /\ Head(link[l]) \in Events
  BY <1>2, OnTail
<1>4. LinkTypeOK'
  BY <1>1, <1>2, <1>3 DEF LinkTypeOK
<1>5. /\ \A f \in Events :
            On(link[l], f) <=> On(link'[l], f) \/ f = Head(link[l])
      /\ \A f, g \in Events :
            Followed(link[l], f, g) => Followed(link'[l], f, g)
      /\ \A g \in Events : Followed(link[l], Head(link[l]), g) => On(link'[l], g)
  BY <1>2, OnTail
<1>6. ASSUME NEW t \in Sockets
      PROVE  view'[t] = IF InChannel(t) /\ home[t] = l[2]
                          THEN Told(t, Head(link[l])) ELSE view[t]
  BY <1>2 DEF ViewsAfter, Local
<1>7. ASSUME NEW t \in Sockets
      PROVE  /\ IF InChannel(t) /\ home[t] = l[2]
                   THEN Hears(t, Head(link[l])) ELSE view'[t] = view[t]
             /\ view'[t] \in ViewType
  <2>1. ToldRight(t, Head(link[l]), Told(t, Head(link[l])))
    BY <1>1, <1>3, ToldEffect
  <2> QED
    BY <1>1, <1>6, <2>1 DEF Hears, ToldRight, ViewTypeOK
<1>8. ViewTypeOK'
  BY <1>2, <1>7 DEF ViewTypeOK, ViewsAfter
<1> QED
  BY <1>2, <1>3, <1>4, <1>5, <1>7, <1>8 DEF Delivered

Emitted(s, e) ==
    /\ Published(s, e)
    /\ \A t \in Sockets : IF InChannel(t) /\ home[t] = home[s] /\ t # s
                             THEN Hears(t, e) ELSE view'[t] = view[t]

LEMMA EmitEffect ==
    ASSUME TypeOK, NEW s \in Sockets, NEW e \in Events, Emit(s, e)
    PROVE  Emitted(s, e) /\ ViewTypeOK'
<1>1. LinkTypeOK /\ ViewTypeOK
  BY TypeParts
<1>2. Published(s, e)
  BY <1>1, PublishEffect DEF Emit
<1>3. ASSUME NEW t \in Sockets
      PROVE  view'[t] = IF InChannel(t) /\ home[t] = home[s] /\ t # s
                          THEN Told(t, e) ELSE view[t]
  BY DEF Emit, ViewsAfter, Local
<1>4. ASSUME NEW t \in Sockets
      PROVE  /\ IF InChannel(t) /\ home[t] = home[s] /\ t # s
                   THEN Hears(t, e) ELSE view'[t] = view[t]
             /\ view'[t] \in ViewType
  <2>1. ToldRight(t, e, Told(t, e))
    BY <1>1, ToldEffect
  <2> QED
    BY <1>1, <1>3, <2>1 DEF Hears, ToldRight, ViewTypeOK
<1>5. ViewTypeOK'
  BY <1>4 DEF ViewTypeOK, Emit, ViewsAfter
<1> QED
  BY <1>2, <1>4, <1>5 DEF Emitted

(* What a commit makes of the views.                                       *)
Committed(s) ==
    /\ Published(s, Event("newPeer", s))
    /\ view'[s].peers = join[s].peers
    /\ \A p \in Sockets :
          /\ view'[s].consume[p] = IF p \in join[s].found THEN "blind" ELSE "none"
          /\ view'[s].heard[p] = view[s].heard[p]
    /\ \A t \in Sockets \ {s} : IF InChannel(t) /\ home[t] = home[s]
                                   THEN Hears(t, Event("newPeer", s))
                                   ELSE view'[t] = view[t]

LEMMA CommitEffect ==
    ASSUME TypeOK, NEW s \in Sockets, Commit(s)
    PROVE  Committed(s) /\ ViewTypeOK'
<1> DEFINE e == Event("newPeer", s)
           own == [peers   |-> join[s].peers,
                   consume |-> [p \in Sockets |->
                      IF p \in join[s].found THEN "blind" ELSE "none"],
                   heard   |-> view[s].heard]
<1>1. LinkTypeOK /\ ViewTypeOK /\ JoinTypeOK
  BY TypeParts
<1>2. e \in Events
  BY EventTyped DEF EventKinds
<1>3. Published(s, e)
  BY <1>1, <1>2, PublishEffect DEF Commit, Enter
<1>4. view' = [ViewsAfter(Local(home[s]) \ {s}, e) EXCEPT ![s] = own]
  BY DEF Commit, Enter
<1>5. own \in ViewType
  BY <1>1 DEF ViewType, ViewTypeOK, JoinTypeOK, JoinType, Consumes
<1>6. ASSUME NEW t \in Sockets
      PROVE  view'[t] = IF t = s THEN own
                        ELSE IF InChannel(t) /\ home[t] = home[s]
                          THEN Told(t, e) ELSE view[t]
  <2> HIDE DEF own, e
  <2> QED
    BY <1>4 DEF ViewsAfter, Local
<1>7. ASSUME NEW t \in Sockets \ {s}
      PROVE  /\ IF InChannel(t) /\ home[t] = home[s]
                   THEN Hears(t, e) ELSE view'[t] = view[t]
             /\ view'[t] \in ViewType
  <2>1. ToldRight(t, e, Told(t, e))
    BY <1>1, <1>2, ToldEffect
  <2> HIDE DEF own, e
  <2> QED
    BY <1>1, <1>6, <2>1 DEF Hears, ToldRight, ViewTypeOK
<1>8. /\ view'[s].peers = join[s].peers
      /\ \A p \in Sockets :
            /\ view'[s].consume[p]
                  = IF p \in join[s].found THEN "blind" ELSE "none"
            /\ view'[s].heard[p] = view[s].heard[p]
  <2>1. view'[s] = own
    <3> HIDE DEF own
    <3> QED
      BY <1>6
  <2> QED
    BY <2>1
<1>9. ViewTypeOK'
  <2>1. \A t \in Sockets : view'[t] \in ViewType
    BY <1>5, <1>6, <1>7
  <2>2. view' = [t \in Sockets |-> view'[t]]
    <3> HIDE DEF own, e
    <3> QED
      BY <1>4 DEF ViewsAfter
  <2> QED
    BY <2>1, <2>2 DEF ViewTypeOK
<1> QED
  BY <1>3, <1>7, <1>8, <1>9 DEF Committed

-----------------------------------------------------------------------------
(***************************************************************************)
(* Steps keep the types.                                                   *)
(***************************************************************************)
LEMMA JoinMoves ==
    ASSUME NEW j \in JoinType, NEW pc \in {"idle", "add", "peers", "producers"}
    PROVE  /\ [j EXCEPT !.pc = pc] \in JoinType
           /\ [j EXCEPT !.pc = pc].pc = pc
           /\ [j EXCEPT !.pc = pc].peers = j.peers
           /\ [j EXCEPT !.pc = pc].unread = j.unread
           /\ [j EXCEPT !.pc = pc].found = j.found
BY DEF JoinType

(* One join handler moves, the others wait.                                *)
JoinBecomes(s, j) ==
    /\ JoinTypeOK'
    /\ join'[s] = j
    /\ \A t \in Sockets \ {s} : join'[t] = join[t]

LEMMA JoinSet ==
    ASSUME JoinTypeOK, NEW s \in Sockets, NEW j \in JoinType, NotOwn(s, j),
           join' = [join EXCEPT ![s] = j]
    PROVE  JoinBecomes(s, j)
BY DEF JoinTypeOK, JoinBecomes

JoinGoesTo(s, pc) ==
    /\ JoinTypeOK'
    /\ join'[s].pc = pc
    /\ join'[s].peers = join[s].peers
    /\ join'[s].unread = join[s].unread
    /\ join'[s].found = join[s].found
    /\ \A t \in Sockets \ {s} : join'[t] = join[t]

LEMMA JoinSteps ==
    ASSUME JoinTypeOK, NEW s \in Sockets,
           NEW pc \in {"idle", "add", "peers", "producers"},
           join' = [join EXCEPT ![s].pc = pc]
    PROVE  JoinGoesTo(s, pc)
<1> DEFINE j == [join[s] EXCEPT !.pc = pc]
<1>1. join[s] \in JoinType /\ NotOwn(s, join[s])
  BY DEF JoinTypeOK
<1>2. /\ j \in JoinType /\ j.pc = pc
      /\ j.peers = join[s].peers /\ j.unread = join[s].unread
      /\ j.found = join[s].found
  BY <1>1, JoinMoves
<1>3. NotOwn(s, j)
  BY <1>1, <1>2 DEF NotOwn
<1>4. join' = [join EXCEPT ![s] = j]
  OBVIOUS
<1> HIDE DEF j
<1> QED
  BY <1>2, <1>3, <1>4, JoinSet DEF JoinBecomes, JoinGoesTo

LEMMA NotJoiningTyped ==
    ASSUME NEW s
    PROVE  NotJoining \in JoinType /\ NotOwn(s, NotJoining)
BY DEF NotJoining, JoinType, NotOwn

(* What reading the peers, and a hash of producers, leaves of a join.      *)
LEMMA ReadPeersEffect ==
    ASSUME TypeOK, NEW s \in Sockets, ReadPeers(s)
    PROVE  /\ JoinTypeOK'
           /\ join[s].pc = "peers" /\ join'[s].pc = "producers"
           /\ join'[s].peers = peersHash \ {s}
           /\ join'[s].unread = peersHash \ {s}
           /\ \A t \in Sockets \ {s} : join'[t] = join[t]
<1> DEFINE j == [pc |-> "producers", peers |-> OtherPeers(s),
                 unread |-> OtherPeers(s), found |-> {}]
<1>1. JoinTypeOK /\ peersHash \in SUBSET Sockets
  BY TypeParts DEF StoreTypeOK
<1>2. j \in JoinType /\ NotOwn(s, j)
  BY <1>1 DEF JoinType, NotOwn, OtherPeers
<1>3. join[s].pc = "peers" /\ join' = [join EXCEPT ![s] = j]
  BY DEF ReadPeers
<1>4. /\ j.pc = "producers" /\ j.peers = peersHash \ {s}
      /\ j.unread = peersHash \ {s}
  BY DEF OtherPeers
<1> HIDE DEF j
<1> QED
  BY <1>1, <1>2, <1>3, <1>4, JoinSet DEF JoinBecomes

LEMMA ReadProducersEffect ==
    ASSUME TypeOK, NEW s \in Sockets, NEW p \in Sockets, ReadProducers(s, p)
    PROVE  /\ JoinTypeOK'
           /\ join[s].pc = "producers" /\ join'[s].pc = "producers"
           /\ join'[s].peers = join[s].peers
           /\ join'[s].unread = join[s].unread \ {p}
           /\ join'[s].found = join[s].found \cup ({p} \cap producersHash)
           /\ \A t \in Sockets \ {s} : join'[t] = join[t]
<1> DEFINE u == join[s].unread \ {p}
           f == join[s].found \cup ({p} \cap producersHash)
           j == [pc |-> "producers", peers |-> join[s].peers, unread |-> u,
                 found |-> f]
<1>1. /\ JoinTypeOK /\ join[s] \in JoinType /\ NotOwn(s, join[s])
      /\ join[s].pc = "producers" /\ p \in join[s].unread
  BY TypeParts DEF JoinTypeOK, ReadProducers
<1>2. u \in SUBSET Sockets /\ f \in SUBSET Sockets
  BY <1>1 DEF JoinType
<1>3. join' = [join EXCEPT ![s] = j]
  BY DEF ReadProducers
<1>4. NotOwn(s, join[s]) /\ s \notin u /\ s \notin f
  BY <1>1 DEF NotOwn
<1> HIDE DEF u, f
<1>5. /\ j \in JoinType
      /\ j.pc = "producers" /\ j.peers = join[s].peers /\ j.unread = u
      /\ j.found = f
  BY <1>1, <1>2 DEF JoinType
<1> HIDE DEF j
<1>6. NotOwn(s, j)
  BY <1>4, <1>5 DEF NotOwn
<1>7. JoinBecomes(s, j)
  BY <1>1, <1>3, <1>5, <1>6, JoinSet
<1> QED
  BY <1>1, <1>5, <1>7 DEF JoinBecomes, u, f

(* One request moves, the others wait.                                     *)
LEMMA RequestMoves ==
    ASSUME NEW r \in RequestType,
           NEW pc \in {"peer", "node", "hset", "expire"}
    PROVE  /\ [r EXCEPT !.pc = pc] \in RequestType
           /\ [r EXCEPT !.pc = pc].pc = pc
           /\ [r EXCEPT !.pc = pc].do = r.do
BY DEF RequestType

RequestAt(s, do, pc) ==
    /\ RequestTypeOK'
    /\ request'[s].do = do /\ request'[s].pc = pc
    /\ \A t \in Sockets \ {s} : request'[t] = request[t]

LEMMA RequestSteps ==
    ASSUME RequestTypeOK, NEW s \in Sockets,
           NEW pc \in {"peer", "node", "hset", "expire"},
           RequestGoesTo(s, pc)
    PROVE  RequestAt(s, request[s].do, pc)
<1> DEFINE r == [request[s] EXCEPT !.pc = pc]
<1>1. r \in RequestType /\ r.pc = pc /\ r.do = request[s].do
  BY RequestMoves DEF RequestTypeOK
<1>2. request' = [request EXCEPT ![s] = r]
  BY DEF RequestGoesTo
<1> HIDE DEF r
<1> QED
  BY <1>1, <1>2 DEF RequestTypeOK, RequestAt

LEMMA RequestStarts ==
    ASSUME RequestTypeOK, NEW s \in Sockets,
           request' = [request EXCEPT ![s] = [do |-> "produce", pc |-> "peer"]]
    PROVE  RequestAt(s, "produce", "peer")
<1> DEFINE r == [do |-> "produce", pc |-> "peer"]
<1>1. r \in RequestType /\ r.pc = "peer" /\ r.do = "produce"
  BY DEF RequestType
<1> HIDE DEF r
<1>2. request' = [request EXCEPT ![s] = r]
  BY DEF r
<1> QED
  BY <1>1, <1>2 DEF RequestTypeOK, RequestAt

LEMMA RequestStops ==
    ASSUME RequestTypeOK, NEW s \in Sockets, RequestEnds(s)
    PROVE  RequestAt(s, "nothing", "idle")
<1>1. NoRequest \in RequestType /\ NoRequest.pc = "idle" /\ NoRequest.do = "nothing"
  BY DEF RequestType, NoRequest
<1>2. request' = [request EXCEPT ![s] = NoRequest]
  BY DEF RequestEnds
<1> QED
  BY <1>1, <1>2 DEF RequestTypeOK, RequestAt

LEMMA IdleRequest ==
    ASSUME NEW r \in RequestType
    PROVE  r = NoRequest <=> r.do = "nothing" /\ r.pc = "idle"
BY DEF RequestType, NoRequest

(* One toggle moves, the others wait.                                      *)
TogglePcs == {"unused", "peer", "node", "tell", "late", "told", "over"}

ToggleAt(r, pc) ==
    /\ toggle' \in [Toggles -> ToggleRecords]
    /\ toggle'[r].pc = pc
    /\ \A q \in Toggles \ {r} : toggle'[q] = toggle[q]

LEMMA ToggleMoves ==
    ASSUME BoundTypeOK, NEW r \in Toggles, NEW pc \in TogglePcs
    PROVE  /\ ToggleGoesTo(r, pc)
                 => ToggleAt(r, pc) /\ toggle'[r].apart = toggle[r].apart
                    /\ toggle'[r].do = toggle[r].do
           /\ ToggleEnds(r, pc)
                 => ToggleAt(r, pc) /\ toggle'[r].apart = toggle[r].apart
<1> DEFINE gone  == [toggle[r] EXCEPT !.pc = pc]
           ended == [toggle[r] EXCEPT !.pc = pc, !.do = "nothing"]
<1>1. toggle \in [Toggles -> ToggleRecords] /\ toggle[r] \in ToggleRecords
  BY DEF BoundTypeOK
<1>2. /\ gone \in ToggleRecords /\ gone.pc = pc /\ gone.do = toggle[r].do
      /\ gone.apart = toggle[r].apart
      /\ ended \in ToggleRecords /\ ended.pc = pc
      /\ ended.apart = toggle[r].apart
  BY <1>1 DEF ToggleRecords, TogglePcs
<1>3. /\ ToggleGoesTo(r, pc) => toggle' = [toggle EXCEPT ![r] = gone]
      /\ ToggleEnds(r, pc) => toggle' = [toggle EXCEPT ![r] = ended]
  BY <1>1 DEF ToggleGoesTo, ToggleEnds
<1> HIDE DEF gone, ended
<1> QED
  BY <1>1, <1>2, <1>3 DEF ToggleAt

Apart(s) == \A q \in TogglesOf(s) : ~Pending(q)

LEMMA ToggleStarts ==
    ASSUME BoundTypeOK, NEW r \in Toggles, NEW do, ToggleStart(r, do)
    PROVE  ToggleAt(r, "peer") /\ toggle'[r].apart = Apart(r[1])
<1> DEFINE new == [do |-> do, pc |-> "peer", apart |-> Apart(r[1])]
<1>1. do \in {"pause", "resume"} /\ Apart(r[1]) \in BOOLEAN
  BY DEF ToggleStart, Apart
<1>2. toggle' = [toggle EXCEPT ![r] = new]
  BY DEF ToggleStart, Apart
<1> HIDE DEF Apart
<1>3. new \in ToggleRecords /\ new.pc = "peer" /\ new.apart = Apart(r[1])
  BY <1>1 DEF ToggleRecords
<1> HIDE DEF new
<1> QED
  BY <1>2, <1>3 DEF ToggleAt, BoundTypeOK

(* What the steps of a toggle leave alone.                                 *)
LEMMA ToggleFrame ==
    ASSUME NEW r, ToggleStep(r)
    PROVE  /\ UNCHANGED <<home, storeVars, client, handlerVars, announced, overlap>>
           /\ ~Tell(r) => UNCHANGED eventVars
           /\ producer' = producer \/ Apply(r)
BY DEF ToggleStep, ToggleStart, GetToggler, NodeToggles, ToggleFails,
       NodeTogglesLate, Tell

LEMMA ToggleSteps ==
    ASSUME BoundTypeOK, NEW r \in Toggles, ToggleStep(r)
    PROVE  \/ /\ \E do : ToggleStart(r, do)
              /\ ToggleAt(r, "peer") /\ toggle'[r].apart = Apart(r[1])
           \/ /\ Pending(r) /\ toggle'[r].apart = toggle[r].apart
              /\ \/ /\ Tell(r) /\ ToggleAt(r, "told")
                 \/ /\ NodeToggles(r) /\ IsOpen(r[1]) /\ ToggleAt(r, "tell")
                    /\ toggle'[r].do = toggle[r].do
                 \/ \E pc \in {"node", "over", "late"} : ToggleAt(r, pc)
<1> USE DEF TogglePcs, Pending, ToggleIs
<1>1. CASE \E do : ToggleStart(r, do)
  BY <1>1, ToggleStarts
<1>2. CASE GetToggler(r)
  BY <1>2, ToggleMoves DEF GetToggler
<1>3. CASE NodeToggles(r)
  BY <1>3, ToggleMoves DEF NodeToggles
<1>4. CASE ToggleFails(r)
  BY <1>4, ToggleMoves DEF ToggleFails
<1>5. CASE NodeTogglesLate(r)
  BY <1>5, ToggleMoves DEF NodeTogglesLate
<1>6. CASE Tell(r)
  BY <1>6, ToggleMoves DEF Tell
<1> QED
  BY <1>1, <1>2, <1>3, <1>4, <1>5, <1>6 DEF ToggleStep

LEMMA TogglerTyped ==
    ASSUME NEW r \in Toggles
    PROVE  /\ r[1] \in Sockets
           /\ r[2] \in 1 .. MaxToggles
           /\ r = <<r[1], r[2]>>
           /\ r \in TogglesOf(r[1])
           /\ Wanted(r) \in {"playing", "paused"}
           /\ Says(r) \in {"producerPaused", "producerResumed"}
BY DEF Toggles, TogglesOf, Wanted, Says

-----------------------------------------------------------------------------
(* Every variable keeps its type.                                          *)
LEMMA StoreStep ==
    ASSUME StoreTypeOK, [Next]_vars
    PROVE  StoreTypeOK'
<1> USE DEF StoreTypeOK, ClientStates, ProducerStates, LeaveStates
<1>1. CASE UNCHANGED <<home, storeVars, producer, client, leave, announced>>
  BY <1>1 DEF storeVars
<1>2. ASSUME NEW s \in Sockets, AddPeer(s) \/ Commit(s)
      PROVE  StoreTypeOK'
  BY <1>2 DEF AddPeer, Commit, Enter, storeVars
<1>3. ASSUME NEW s \in Sockets, GetRouterRtpCapabilities(s) \/ CreateTransports(s)
      PROVE  StoreTypeOK'
  <2>1. /\ client' \in {[client EXCEPT ![s] = "capable"],
                       [client EXCEPT ![s] = "ready"]}
        /\ UNCHANGED <<home, peersHash, producersHash, producer, leave, announced>>
    BY <1>3 DEF GetRouterRtpCapabilities, CreateTransports, storeVars, handlerVars
  <2> QED
    BY <2>1
<1>4. ASSUME NEW s \in Sockets,
             \/ NodeProduces(s) \/ AddProducer(s) \/ Announce(s)
             \/ ProduceFails(s)
      PROVE  StoreTypeOK'
  BY <1>4 DEF NodeProduces, AddProducer, Announce, ProduceFails, storeVars
<1>5. ASSUME NEW s \in Sockets, Disconnect(s) \/ LeaveStep(s)
      PROVE  StoreTypeOK'
  BY <1>5 DEF Disconnect, LeaveStep, LeaveRemovePeer, LeaveRemoveProducers,
        LeaveNode, LeaveTell, storeVars
<1>6. ASSUME NEW r \in Toggles, ToggleStep(r)
      PROVE  StoreTypeOK'
  <2>1. r[1] \in Sockets /\ Wanted(r) \in {"playing", "paused"}
    BY TogglerTyped
  <2>2. producer' \in {producer, [producer EXCEPT ![r[1]] = Wanted(r)]}
    BY <1>6, ToggleFrame DEF Apply
  <2>3. UNCHANGED <<home, storeVars, client, handlerVars, announced>>
    BY <1>6, ToggleFrame
  <2> QED
    BY <2>1, <2>2, <2>3 DEF storeVars, handlerVars
<1> QED
  BY <1>1, <1>2, <1>3, <1>4, <1>5, <1>6
     DEF Next, vars, handlerVars, JoinStep, ClientStep, RequestStep, JoinStart,
         ReadPeers, ReadProducers, Consume, ProduceStart, GetPeer, Deliver

LEMMA JoinStepTyped ==
    ASSUME TypeOK, [Next]_vars
    PROVE  JoinTypeOK'
<1>1. JoinTypeOK
  BY TypeParts
<1>2. CASE UNCHANGED join
  BY <1>1, <1>2 DEF JoinTypeOK
<1>3. ASSUME NEW s \in Sockets, JoinStart(s) \/ AddPeer(s)
      PROVE  JoinTypeOK'
  BY <1>1, <1>3, JoinSteps DEF JoinStart, AddPeer, JoinGoesTo
<1>4. ASSUME NEW s \in Sockets, Commit(s)
      PROVE  JoinTypeOK'
  <2>1. join' = [join EXCEPT ![s] = NotJoining]
    BY <1>4 DEF Commit, Enter
  <2> QED
    BY <1>1, <2>1, NotJoiningTyped, JoinSet DEF JoinBecomes
<1> QED
  BY <1>2, <1>3, <1>4, ReadPeersEffect, ReadProducersEffect, ToggleFrame
     DEF Next, vars, handlerVars, JoinStep, ClientStep, RequestStep, LeaveStep,
         GetRouterRtpCapabilities, CreateTransports, Consume, ProduceStart,
         GetPeer, NodeProduces, AddProducer, Announce, ProduceFails, Disconnect,
         LeaveRemovePeer, LeaveRemoveProducers, LeaveNode, LeaveTell, Deliver

LEMMA RequestStepTyped ==
    ASSUME RequestTypeOK, [Next]_vars
    PROVE  RequestTypeOK'
<1>1. CASE UNCHANGED request
  BY <1>1 DEF RequestTypeOK
<1>2. ASSUME NEW s \in Sockets,
             \/ RequestEnds(s)
             \/ \E pc \in {"node", "hset", "expire"} :
                   RequestGoesTo(s, pc)
             \/ request' = [request EXCEPT ![s] = [do |-> "produce", pc |-> "peer"]]
      PROVE  RequestTypeOK'
  BY <1>2, RequestStops, RequestSteps, RequestStarts DEF RequestAt
<1> QED
  BY <1>1, <1>2, ToggleFrame
     DEF Next, vars, handlerVars, JoinStep, ClientStep, RequestStep, LeaveStep,
         JoinStart, AddPeer, ReadPeers, ReadProducers, Commit, Enter,
         GetRouterRtpCapabilities, CreateTransports, Consume, ProduceStart,
         GetPeer, NodeProduces, AddProducer, Announce, ProduceFails, Disconnect,
         LeaveRemovePeer, LeaveRemoveProducers, LeaveNode, LeaveTell, Deliver

LEMMA BoundStepTyped ==
    ASSUME BoundTypeOK, [Next]_vars
    PROVE  BoundTypeOK'
<1> USE DEF BoundTypeOK, OverlapType
<1>1. CASE UNCHANGED sideVars
  BY <1>1 DEF sideVars
<1>2. ASSUME NEW s \in Sockets, JoinStart(s) \/ ProduceStart(s) \/ Disconnect(s)
      PROVE  BoundTypeOK'
  BY <1>2 DEF JoinStart, ProduceStart, Disconnect, Meet
<1>3. ASSUME NEW r \in Toggles, ToggleStep(r)
      PROVE  BoundTypeOK'
  <2>1. toggle' \in [Toggles -> ToggleRecords]
    BY <1>3, ToggleSteps DEF ToggleAt
  <2>2. overlap' = overlap /\ faults' \in {faults, faults + 1}
    BY <1>3 DEF ToggleStep, ToggleStart, GetToggler, NodeToggles, ToggleFails,
          NodeTogglesLate, Tell
  <2> QED
    BY <2>1, <2>2
<1>4. ASSUME NEW s \in Sockets, ProduceFails(s)
      PROVE  BoundTypeOK'
  BY <1>4 DEF ProduceFails
<1> QED
  BY <1>1, <1>2, <1>3, <1>4
     DEF Next, vars, JoinStep, ClientStep, RequestStep, LeaveStep,
         AddPeer, ReadPeers, ReadProducers, Commit, Enter,
         GetRouterRtpCapabilities, CreateTransports, Consume, GetPeer,
         NodeProduces, AddProducer, Announce,
         LeaveRemovePeer, LeaveRemoveProducers, LeaveNode, LeaveTell, Deliver

(* The steps of which clients hear, and the one with which a client learns *)
(* of an answer of its own.                                                *)
LEMMA EventSteps ==
    ASSUME [Next]_vars, ~UNCHANGED <<link, view>>
    PROVE  \/ \E l \in Links : Deliver(l)
           \/ \E s \in Sockets : \/ Commit(s) \/ Announce(s) \/ LeaveTell(s)
                                 \/ \E p \in Sockets : Consume(s, p)
           \/ \E r \in Toggles : Tell(r)
BY ToggleFrame
   DEF Next, vars, eventVars, JoinStep, ClientStep, RequestStep, LeaveStep,
       JoinStart, AddPeer, ReadPeers, ReadProducers, GetRouterRtpCapabilities,
       CreateTransports, ProduceStart, GetPeer, NodeProduces, AddProducer,
       ProduceFails, Disconnect, LeaveRemovePeer, LeaveRemoveProducers, LeaveNode

(* The node's answer to a consume request.                                 *)
Answers(t, p) ==
    /\ view[t].consume[p] \in {"blind", "early", "asked"}
    /\ view'[t].peers = view[t].peers
    /\ view'[t].heard = view[t].heard
    /\ view'[t].consume[p] \in {"granted", "refused", "missed"}
    /\ view'[t].consume[p] = "refused"
          => /\ view[t].consume[p] = "asked"
             /\ producer[p] \notin {"playing", "paused"}
    /\ \A q \in Sockets \ {p} : view'[t].consume[q] = view[t].consume[q]
    /\ \A u \in Sockets \ {t} : view'[u] = view[u]

LEMMA ConsumeEffect ==
    ASSUME ViewTypeOK, NEW t \in Sockets, NEW p \in Sockets, Consume(t, p)
    PROVE  Answers(t, p) /\ ViewTypeOK'
<1> DEFINE asked == view[t].consume[p]
           open  == producer[p] \in {"playing", "paused"}
           answer == CASE asked = "asked" -> IF open THEN "granted" ELSE "refused"
                       [] asked = "early" -> IF open /\ client[t] = "ready"
                                               THEN "granted" ELSE "missed"
                       [] asked = "blind" -> "missed"
           v == [view[t] EXCEPT !.consume[p] = answer]
<1>1. /\ asked \in {"blind", "early", "asked"}
      /\ view' = [view EXCEPT ![t] = v]
  BY DEF Consume
<1>2. /\ answer \in {"granted", "refused", "missed"}
      /\ answer = "refused" => asked = "asked" /\ ~open
  BY <1>1
<1>3. answer \in Consumes
  BY <1>2 DEF Consumes
<1> HIDE DEF answer
<1>4. /\ v \in ViewType
      /\ v.peers = view[t].peers
      /\ v.heard = view[t].heard
      /\ \A q \in Sockets : v.consume[q] = IF q = p THEN answer
                                            ELSE view[t].consume[q]
  BY <1>3, ConsumeTyped DEF ViewTypeOK
<1> HIDE DEF v
<1>5. view'[t] = v /\ \A u \in Sockets \ {t} : view'[u] = view[u]
  BY <1>1 DEF ViewTypeOK
<1>6. ViewTypeOK'
  BY <1>1, <1>4 DEF ViewTypeOK
<1> QED
  BY <1>1, <1>2, <1>4, <1>5, <1>6 DEF Answers

LEMMA LinkViewTyped ==
    ASSUME TypeOK, [Next]_vars
    PROVE  LinkTypeOK' /\ ViewTypeOK'
<1>1. LinkTypeOK /\ ViewTypeOK
  BY TypeParts
<1>2. CASE UNCHANGED <<link, view>>
  BY <1>1, <1>2 DEF LinkTypeOK, ViewTypeOK
<1>3. ASSUME NEW s \in Sockets, NEW kind \in EventKinds, Emit(s, Event(kind, s))
      PROVE  LinkTypeOK' /\ ViewTypeOK'
  BY <1>3, EventTyped, EmitEffect DEF Emitted, Published
<1>4. ASSUME NEW s \in Sockets, Announce(s) \/ LeaveTell(s)
      PROVE  LinkTypeOK' /\ ViewTypeOK'
  <2>1. "newProducer" \in EventKinds /\ "peerClosed" \in EventKinds
    BY DEF EventKinds
  <2> QED
    BY <1>3, <1>4, <2>1 DEF Announce, LeaveTell
<1>5. ASSUME NEW r \in Toggles, Tell(r)
      PROVE  LinkTypeOK' /\ ViewTypeOK'
  <2>1. r[1] \in Sockets /\ Says(r) \in EventKinds
    BY TogglerTyped DEF EventKinds
  <2> QED
    BY <1>3, <1>5, <2>1 DEF Tell
<1>6. ASSUME NEW s \in Sockets, NEW p \in Sockets, Consume(s, p)
      PROVE  LinkTypeOK' /\ ViewTypeOK'
  <2>1. link' = link
    BY <1>6 DEF Consume
  <2> QED
    BY <1>1, <1>6, <2>1, ConsumeEffect DEF LinkTypeOK
<1> QED
  BY <1>2, <1>4, <1>5, <1>6, EventSteps, DeliverEffect, CommitEffect
     DEF Delivered, Committed, Published

LEMMA TypeStep ==
    ASSUME TypeOK, [Next]_vars
    PROVE  TypeOK'
<1>1. /\ StoreTypeOK' /\ JoinTypeOK' /\ RequestTypeOK'
      /\ LinkTypeOK' /\ ViewTypeOK' /\ BoundTypeOK'
  BY TypeParts, StoreStep, JoinStepTyped, RequestStepTyped, LinkViewTyped,
     BoundStepTyped
<1> QED
  BY <1>1
     DEF TypeOK, StoreTypeOK, JoinTypeOK, RequestTypeOK, LinkTypeOK, ViewTypeOK,
         BoundTypeOK, ClientStates, ProducerStates, LeaveStates, OverlapType,
         JoinType, NotOwn, RequestType, ViewType, Consumes, Heards

LEMMA TypeInit ==
    ASSUME Init
    PROVE  TypeOK
<1>1. StoreTypeOK
  BY EventsHomes DEF Init, StoreTypeOK, ClientStates, ProducerStates, LeaveStates
<1>6. BoundTypeOK
  <2>1. NoToggle \in ToggleRecords
    BY DEF NoToggle, ToggleRecords
  <2> QED
    BY <2>1 DEF Init, BoundTypeOK, OverlapType
<1>2. JoinTypeOK
  BY NotJoiningTyped DEF Init, JoinTypeOK
<1>3. RequestTypeOK
  BY DEF Init, RequestTypeOK, RequestType, NoRequest
<1>4. LinkTypeOK
  BY DEF Init, LinkTypeOK
<1>5. ViewTypeOK
  <2>1. Unaware \in ViewType
    BY DEF Unaware, ViewType, Consumes, Heards
  <2> QED
    BY <2>1 DEF Init, ViewTypeOK
<1> QED
  BY <1>1, <1>2, <1>3, <1>4, <1>5, <1>6, TypeParts

(* Every variable has the type the code gives it.                          *)
THEOREM TypeCorrect == Spec => []TypeOK
<1>1. Init => TypeOK
  BY TypeInit
<1>2. TypeOK /\ [Next]_vars => TypeOK'
  BY TypeStep
<1> QED
  BY <1>1, <1>2, PTL DEF Spec

-----------------------------------------------------------------------------
(***************************************************************************)
(* How far the handlers of a socket are, and what they have done by then.  *)
(***************************************************************************)

(* A leave follows a disconnect, a join precedes both.                     *)
ClientsInOrder ==
    \A s \in Sockets :
        /\ leave[s] # "none" => client[s] = "gone"
        /\ Joining(s) => client[s] \in {"new", "gone"} /\ leave[s] = "none"

PeersStored ==
    \A s \in Sockets :
        /\ join[s].pc \in {"peers", "producers"} => s \in peersHash
        /\ InChannel(s) => s \in peersHash
        /\ leave[s] \in {"del", "node", "last", "done"} => s \notin peersHash

RequestsInOrder ==
    \A s \in Sockets :
        /\ request[s].pc \in {"hset", "expire"}
              => request[s].do = "produce" /\ producer[s] # "none"
        /\ Producing(s) /\ request[s].pc \notin {"hset", "expire"}
              => producer[s] = "none"
        /\ Producing(s) => s \notin announced
        /\ s \in announced => producer[s] # "none"
        /\ producer[s] = "closed" => leave[s] \in {"last", "done"}
        /\ InChannel(s) /\ (s \in announced \/ request[s].pc = "expire")
              => s \in producersHash
        /\ client[s] = "new" => request[s] = NoRequest /\ s \notin announced

(* The toggles of a socket are used in turn, and of announced producers.   *)
TogglesInOrder ==
    \A r \in Toggles : ~ToggleIs(r, {"unused"}) =>
        /\ r[1] \in announced
        /\ \A k \in 1 .. r[2] - 1 : ~ToggleIs(<<r[1], k>>, {"unused"})

(* Handlers that are under way at the same time are known to have met.     *)
Overlaps ==
    \A t, p \in Sockets : t # p /\ Joining(t) =>
        /\ Joining(p) => <<t, p, "join">> \in overlap
        /\ Producing(p) => <<t, p, "produce">> \in overlap
        /\ Leaving(p) => <<t, p, "leave">> \in overlap

(* The steps of a join, without the variables they leave alone.            *)
JoinMove(s, from, to) ==
    /\ join[s].pc = from
    /\ join'[s].pc = to
    /\ \A t \in Sockets \ {s} : join'[t] = join[t]

LEMMA JoinPcs ==
    ASSUME TypeOK, NEW s \in Sockets
    PROVE  /\ JoinStart(s) => JoinMove(s, "idle", "add")
           /\ AddPeer(s) => JoinMove(s, "add", "peers")
           /\ ReadPeers(s) => JoinMove(s, "peers", "producers")
           /\ \A p \in Sockets :
                 ReadProducers(s, p) => JoinMove(s, "producers", "producers")
           /\ Commit(s) => JoinMove(s, "producers", "idle")
<1> USE DEF JoinMove
<1>1. JoinTypeOK
  BY TypeParts
<1>2. JoinStart(s) => JoinMove(s, "idle", "add")
  BY <1>1, JoinSteps DEF JoinStart, JoinGoesTo
<1>3. AddPeer(s) => JoinMove(s, "add", "peers")
  BY <1>1, JoinSteps DEF AddPeer, JoinGoesTo
<1>4. ReadPeers(s) => JoinMove(s, "peers", "producers")
  BY ReadPeersEffect
<1>5. \A p \in Sockets :
         ReadProducers(s, p) => JoinMove(s, "producers", "producers")
  BY ReadProducersEffect
<1>6. Commit(s) => JoinMove(s, "producers", "idle")
  <2> SUFFICES ASSUME Commit(s)
               PROVE  JoinMove(s, "producers", "idle")
    OBVIOUS
  <2>1. join[s].pc = "producers" /\ join' = [join EXCEPT ![s] = NotJoining]
    BY DEF Commit, Enter
  <2>2. NotJoining.pc = "idle"
    BY DEF NotJoining
  <2>3. JoinBecomes(s, NotJoining)
    BY <1>1, <2>1, NotJoiningTyped, JoinSet
  <2> QED
    BY <2>1, <2>2, <2>3 DEF JoinBecomes
<1> QED
  BY <1>2, <1>3, <1>4, <1>5, <1>6

(* Only joins, disconnects and leaves change what these depend on.         *)
Requesting(s) == ProduceStart(s) \/ RequestStep(s)

GoesOn(s) == GetRouterRtpCapabilities(s) \/ CreateTransports(s)

LEMMA Cases ==
    ASSUME [Next]_vars
    PROVE  \/ UNCHANGED <<home, storeVars, producer, client, handlerVars,
                          announced, overlap>>
           \/ \E s \in Sockets : \/ JoinStart(s) \/ JoinStep(s)
                                 \/ GoesOn(s) \/ Requesting(s)
                                 \/ Disconnect(s) \/ LeaveStep(s)
           \/ \E r \in Toggles : ToggleStep(r)
BY DEF Next, vars, sideVars, ClientStep, Consume, Deliver, Requesting, GoesOn

LEMMA RequestFrame ==
    ASSUME NEW s \in Sockets, Requesting(s)
    PROVE  UNCHANGED <<home, peersHash, client, join, leave>>
BY DEF Requesting, RequestStep, ProduceStart, GetPeer, NodeProduces,
       AddProducer, Announce, ProduceFails, storeVars

(* The client goes on, and the four steps of a leave.                      *)
LEMMA GoesOnEffect ==
    ASSUME StoreTypeOK, NEW s \in Sockets, GoesOn(s)
    PROVE  /\ client[s] \in {"joined", "capable"}
           /\ client'[s] \in {"capable", "ready"}
           /\ \A t \in Sockets \ {s} : client'[t] = client[t]
           /\ UNCHANGED <<home, storeVars, producer, handlerVars, eventVars,
                          announced, sideVars>>
<1>1. CASE GetRouterRtpCapabilities(s)
  BY <1>1 DEF StoreTypeOK, GetRouterRtpCapabilities
<1>2. CASE CreateTransports(s)
  BY <1>2 DEF StoreTypeOK, CreateTransports
<1> QED
  BY <1>1, <1>2 DEF GoesOn

LeaveMove(s, from, to) ==
    /\ leave[s] = from
    /\ leave'[s] = to
    /\ \A t \in Sockets \ {s} : leave'[t] = leave[t]
    /\ UNCHANGED <<home, client, join, request, announced, sideVars>>

LEMMA LeaveMoves ==
    ASSUME StoreTypeOK, NEW s \in Sockets
    PROVE  /\ LeaveRemovePeer(s)
                 => /\ LeaveMove(s, "hdel", "del")
                    /\ peersHash' = peersHash \ {s}
                    /\ UNCHANGED <<producersHash, producer, eventVars>>
           /\ LeaveRemoveProducers(s)
                 => /\ LeaveMove(s, "del", "node")
                    /\ producersHash' = producersHash \ {s}
                    /\ UNCHANGED <<peersHash, producer, eventVars>>
           /\ LeaveNode(s)
                 => /\ LeaveMove(s, "node", "last")
                    /\ producer'[s] = IF producer[s] = "none" THEN "none"
                                      ELSE "closed"
                    /\ \A t \in Sockets \ {s} : producer'[t] = producer[t]
                    /\ UNCHANGED <<storeVars, eventVars>>
           /\ LeaveTell(s)
                 => /\ LeaveMove(s, "last", "done")
                    /\ UNCHANGED <<storeVars, producer>>
<1> USE DEF StoreTypeOK, LeaveMove
<1>1. LeaveRemovePeer(s)
         => /\ LeaveMove(s, "hdel", "del")
            /\ peersHash' = peersHash \ {s}
            /\ UNCHANGED <<producersHash, producer, eventVars>>
  BY DEF LeaveRemovePeer
<1>2. LeaveRemoveProducers(s)
         => /\ LeaveMove(s, "del", "node")
            /\ producersHash' = producersHash \ {s}
            /\ UNCHANGED <<peersHash, producer, eventVars>>
  BY DEF LeaveRemoveProducers
<1>3. LeaveNode(s)
         => /\ LeaveMove(s, "node", "last")
            /\ producer'[s] = IF producer[s] = "none" THEN "none"
                              ELSE "closed"
            /\ \A t \in Sockets \ {s} : producer'[t] = producer[t]
            /\ UNCHANGED <<storeVars, eventVars>>
  BY DEF LeaveNode
<1>4. LeaveTell(s) => LeaveMove(s, "last", "done") /\ UNCHANGED <<storeVars, producer>>
  BY DEF LeaveTell
<1> QED
  BY <1>1, <1>2, <1>3, <1>4

LEMMA ClientsStep ==
    ASSUME TypeOK, ClientsInOrder, [Next]_vars
    PROVE  ClientsInOrder'
<1> USE DEF ClientsInOrder, Joining
<1>1. StoreTypeOK
  BY TypeParts
<1>2. CASE UNCHANGED <<client, join, leave>>
  BY <1>2
<1>3. ASSUME NEW s \in Sockets, JoinStart(s)
      PROVE  ClientsInOrder'
  <2>1. client[s] = "new" /\ UNCHANGED <<client, leave>>
    BY <1>3 DEF JoinStart
  <2>2. JoinMove(s, "idle", "add")
    BY <1>3, JoinPcs
  <2> QED
    BY <2>1, <2>2 DEF JoinMove
<1>4. ASSUME NEW s \in Sockets, JoinStep(s)
      PROVE  ClientsInOrder'
  <2>1. \/ JoinMove(s, "add", "peers") /\ UNCHANGED <<client, leave>>
        \/ JoinMove(s, "peers", "producers") /\ UNCHANGED <<client, leave>>
        \/ JoinMove(s, "producers", "producers") /\ UNCHANGED <<client, leave>>
        \/ /\ JoinMove(s, "producers", "idle") /\ leave' = leave
           /\ \A t \in Sockets : client'[t] # client[t]
                  => t = s /\ client[s] = "new"
    BY <1>1, <1>4, JoinPcs
       DEF JoinStep, AddPeer, ReadPeers, ReadProducers, Commit, Enter,
           StoreTypeOK
  <2> QED
    BY <2>1 DEF JoinMove
<1>5. ASSUME NEW s \in Sockets, GoesOn(s)
      PROVE  ClientsInOrder'
  <2>1. /\ client[s] \in {"joined", "capable"}
        /\ \A t \in Sockets \ {s} : client'[t] = client[t]
        /\ UNCHANGED <<join, leave>>
    BY <1>1, <1>5, GoesOnEffect DEF handlerVars
  <2> QED
    BY <2>1
<1>6. ASSUME NEW s \in Sockets, Disconnect(s)
      PROVE  ClientsInOrder'
  <2>1. /\ client'[s] = "gone"
        /\ \A t \in Sockets \ {s} : client'[t] = client[t]
        /\ \A t \in Sockets : leave'[t] # leave[t] => t = s /\ InChannel(s)
        /\ join' = join
    BY <1>1, <1>6 DEF Disconnect, StoreTypeOK
  <2> QED
    BY <2>1 DEF InChannel
<1>7. ASSUME NEW s \in Sockets, LeaveStep(s)
      PROVE  ClientsInOrder'
  <2>1. /\ leave[s] # "none"
        /\ \A t \in Sockets \ {s} : leave'[t] = leave[t]
        /\ UNCHANGED <<client, join>>
    BY <1>1, <1>7, LeaveMoves DEF LeaveStep, LeaveMove
  <2> QED
    BY <2>1
<1> QED
  BY <1>2, <1>3, <1>4, <1>5, <1>6, <1>7, Cases, RequestFrame, ToggleFrame
     DEF handlerVars

LEMMA PeersStep ==
    ASSUME TypeOK, ClientsInOrder, PeersStored, [Next]_vars
    PROVE  PeersStored'
<1> USE DEF PeersStored
<1>1. StoreTypeOK
  BY TypeParts
<1>2. CASE UNCHANGED <<peersHash, client, join, leave>>
  BY <1>2 DEF InChannel
<1>3. ASSUME NEW s \in Sockets, JoinStart(s)
      PROVE  PeersStored'
  <2>1. UNCHANGED <<peersHash, client, leave>>
    BY <1>3 DEF JoinStart, storeVars
  <2>2. JoinMove(s, "idle", "add")
    BY <1>3, JoinPcs
  <2> QED
    BY <2>1, <2>2 DEF JoinMove, InChannel
<1>4. ASSUME NEW s \in Sockets, AddPeer(s)
      PROVE  PeersStored'
  <2>1. peersHash' = peersHash \cup {s} /\ UNCHANGED <<client, leave>>
    BY <1>4 DEF AddPeer
  <2>2. JoinMove(s, "add", "peers")
    BY <1>4, JoinPcs
  <2>3. leave[s] = "none"
    BY <2>2 DEF JoinMove, ClientsInOrder, Joining
  <2> QED
    BY <2>1, <2>2, <2>3 DEF JoinMove, InChannel
<1>5. ASSUME NEW s \in Sockets,
             ReadPeers(s) \/ \E p \in Sockets : ReadProducers(s, p)
      PROVE  PeersStored'
  <2>1. UNCHANGED <<peersHash, client, leave>>
    BY <1>5 DEF ReadPeers, ReadProducers, storeVars
  <2>2. \/ JoinMove(s, "peers", "producers")
        \/ JoinMove(s, "producers", "producers")
    BY <1>5, JoinPcs
  <2> QED
    BY <2>1, <2>2 DEF JoinMove, InChannel
<1>6. ASSUME NEW s \in Sockets, Commit(s)
      PROVE  PeersStored'
  <2>1. /\ UNCHANGED <<peersHash, leave>>
        /\ \A t \in Sockets \ {s} : client'[t] = client[t]
    BY <1>6 DEF Commit, Enter, storeVars
  <2>2. JoinMove(s, "producers", "idle")
    BY <1>6, JoinPcs
  <2> QED
    BY <2>1, <2>2 DEF JoinMove, InChannel
<1>7. ASSUME NEW s \in Sockets, GoesOn(s)
      PROVE  PeersStored'
  <2>1. /\ InChannel(s)
        /\ \A t \in Sockets \ {s} : client'[t] = client[t]
        /\ UNCHANGED <<peersHash, join, leave>>
    BY <1>1, <1>7, GoesOnEffect DEF handlerVars, storeVars, InChannel
  <2> QED
    BY <2>1 DEF InChannel
<1>8. ASSUME NEW s \in Sockets, Disconnect(s)
      PROVE  PeersStored'
  <2>1. /\ client'[s] = "gone"
        /\ \A t \in Sockets \ {s} : client'[t] = client[t]
        /\ \A t \in Sockets : leave'[t] # leave[t] => leave'[t] = "hdel"
        /\ UNCHANGED <<peersHash, join>>
    BY <1>1, <1>8 DEF Disconnect, StoreTypeOK, storeVars
  <2> QED
    BY <2>1 DEF InChannel
<1>9. ASSUME NEW s \in Sockets, LeaveStep(s)
      PROVE  PeersStored'
  <2>1. /\ leave[s] # "none"
        /\ \A t \in Sockets \ {s} : leave'[t] = leave[t]
        /\ UNCHANGED <<client, join>>
        /\ \/ peersHash' = peersHash \ {s}
           \/ /\ peersHash' = peersHash
              /\ leave[s] \in {"del", "node", "last"}
    BY <1>1, <1>9, LeaveMoves DEF LeaveStep, LeaveMove, storeVars
  <2>2. ~InChannel(s) /\ join[s].pc = "idle"
    BY <2>1 DEF ClientsInOrder, InChannel, Joining
  <2> QED
    BY <2>1, <2>2 DEF InChannel
<1> QED
  BY <1>2, <1>3, <1>4, <1>5, <1>6, <1>7, <1>8, <1>9, Cases, RequestFrame,
     ToggleFrame
     DEF handlerVars, storeVars, JoinStep

-----------------------------------------------------------------------------
(* What a step of a request does.  From: what the request is; the record   *)
(* of it becomes do, pc.                                                   *)
RequestMove(s, from, do, pc) ==
    /\ request[s].pc = from
    /\ RequestAt(s, do, pc)

ProducerBecomes(s, state) ==
    /\ producer'[s] = state
    /\ \A t \in Sockets \ {s} : producer'[t] = producer[t]

LEMMA ProducerSet ==
    ASSUME StoreTypeOK, NEW s \in Sockets, NEW state,
           producer' = [producer EXCEPT ![s] = state]
    PROVE  ProducerBecomes(s, state)
BY DEF StoreTypeOK, ProducerBecomes

LEMMA RequestMoves2 ==
    ASSUME TypeOK, NEW s \in Sockets
    PROVE  /\ ProduceStart(s)
                 => /\ RequestMove(s, "idle", "produce", "peer")
                    /\ client[s] = "ready" /\ producer[s] = "none"
                    /\ UNCHANGED <<storeVars, producer, announced, eventVars>>
           /\ GetPeer(s)
                 => /\ \/ RequestMove(s, "peer", request[s].do, "node")
                       \/ RequestMove(s, "peer", "nothing", "idle")
                    /\ UNCHANGED <<storeVars, producer, announced, eventVars,
                                   overlap>>
           /\ NodeProduces(s)
                 => /\ Producing(s)
                    /\ \/ /\ RequestMove(s, "node", "produce", "hset")
                          /\ ProducerBecomes(s, "playing")
                          /\ KnownToNode(s)
                       \/ /\ RequestMove(s, "node", "nothing", "idle")
                          /\ UNCHANGED producer
                    /\ UNCHANGED <<storeVars, announced, eventVars, overlap>>
           /\ AddProducer(s)
                 => /\ RequestMove(s, "hset", "produce", "expire")
                    /\ Producing(s)
                    /\ producersHash' = producersHash \cup {s}
                    /\ UNCHANGED <<peersHash, producer, announced, eventVars,
                                   overlap>>
<1> USE DEF RequestMove
<1>1. RequestTypeOK /\ StoreTypeOK
  BY TypeParts
<1>2. NoRequest.pc = "idle"
  BY DEF NoRequest
<1>3. ProduceStart(s)
         => /\ RequestMove(s, "idle", "produce", "peer")
            /\ client[s] = "ready" /\ producer[s] = "none"
            /\ UNCHANGED <<storeVars, producer, announced, eventVars>>
  BY <1>1, <1>2, RequestStarts DEF ProduceStart
<1>5. GetPeer(s)
         => /\ \/ RequestMove(s, "peer", request[s].do, "node")
               \/ RequestMove(s, "peer", "nothing", "idle")
            /\ UNCHANGED <<storeVars, producer, announced, eventVars, overlap>>
  BY <1>1, RequestSteps, RequestStops DEF GetPeer, sideVars
<1>6. ASSUME NodeProduces(s)
      PROVE  /\ Producing(s)
             /\ \/ /\ RequestMove(s, "node", "produce", "hset")
                   /\ ProducerBecomes(s, "playing")
                   /\ KnownToNode(s)
                \/ /\ RequestMove(s, "node", "nothing", "idle")
                   /\ UNCHANGED producer
             /\ UNCHANGED <<storeVars, announced, eventVars, overlap>>
  <2>1. request[s].do = "produce" /\ request[s].pc = "node"
    BY <1>6 DEF NodeProduces, RequestIs
  <2>2. \/ /\ KnownToNode(s)
           /\ producer' = [producer EXCEPT ![s] = "playing"]
           /\ RequestGoesTo(s, "hset")
        \/ RequestEnds(s) /\ UNCHANGED producer
    BY <1>6 DEF NodeProduces
  <2>3. UNCHANGED <<storeVars, announced, eventVars, overlap>>
    BY <1>6 DEF NodeProduces, sideVars
  <2> QED
    BY <1>1, <2>1, <2>2, <2>3, ProducerSet, RequestSteps, RequestStops
       DEF Producing
<1>7. ASSUME AddProducer(s)
      PROVE  /\ RequestMove(s, "hset", "produce", "expire")
             /\ Producing(s)
             /\ producersHash' = producersHash \cup {s}
             /\ UNCHANGED <<peersHash, producer, announced, eventVars, overlap>>
  <2>1. request[s].do = "produce" /\ request[s].pc = "hset"
    BY <1>7 DEF AddProducer, RequestIs
  <2> QED
    BY <1>1, <1>7, <2>1, RequestSteps DEF AddProducer, Producing, sideVars
<1> QED
  BY <1>3, <1>5, <1>6, <1>7

LEMMA RequestMoves3 ==
    ASSUME TypeOK, NEW s \in Sockets
    PROVE  /\ Announce(s)
                 => /\ RequestMove(s, "expire", "nothing", "idle")
                    /\ Producing(s)
                    /\ announced' = announced \cup {s}
                    /\ UNCHANGED <<storeVars, producer, overlap>>
           /\ ProduceFails(s)
                 => /\ RequestMove(s, request[s].pc, "nothing", "idle")
                    /\ Producing(s)
                    /\ \/ UNCHANGED producer
                       \/ /\ ProducerBecomes(s, "playing")
                          /\ KnownToNode(s)
                          /\ request[s].pc = "node"
                    /\ producersHash' \in {producersHash, producersHash \cup {s}}
                    /\ UNCHANGED <<peersHash, announced, eventVars, overlap>>
<1> USE DEF RequestMove
<1>1. RequestTypeOK /\ StoreTypeOK
  BY TypeParts
<1>2. ASSUME Announce(s)
      PROVE  /\ RequestMove(s, "expire", "nothing", "idle")
             /\ Producing(s)
             /\ announced' = announced \cup {s}
             /\ UNCHANGED <<storeVars, producer, overlap>>
  <2>1. request[s].do = "produce" /\ request[s].pc = "expire"
    BY <1>2 DEF Announce, RequestIs
  <2> QED
    BY <1>1, <1>2, <2>1, RequestStops DEF Announce, Producing, sideVars
<1>3. ASSUME ProduceFails(s)
      PROVE  /\ RequestMove(s, request[s].pc, "nothing", "idle")
             /\ Producing(s)
             /\ \/ UNCHANGED producer
                \/ /\ ProducerBecomes(s, "playing")
                   /\ KnownToNode(s)
                   /\ request[s].pc = "node"
             /\ producersHash' \in {producersHash, producersHash \cup {s}}
             /\ UNCHANGED <<peersHash, announced, eventVars, overlap>>
  <2>1. RequestAt(s, "nothing", "idle")
    BY <1>1, <1>3, RequestStops DEF ProduceFails
  <2>2. \/ UNCHANGED producer
        \/ /\ producer' = [producer EXCEPT ![s] = "playing"]
           /\ KnownToNode(s)
           /\ request[s].pc = "node"
    BY <1>3 DEF ProduceFails
  <2>3. /\ producersHash' \in {producersHash, producersHash \cup {s}}
        /\ Producing(s)
        /\ UNCHANGED <<peersHash, announced, eventVars, overlap>>
    BY <1>3 DEF ProduceFails
  <2> QED
    BY <1>1, <2>1, <2>2, <2>3, ProducerSet
<1> QED
  BY <1>2, <1>3

(* A producer may only become open by a produce request; a toggle finds it *)
(* open and leaves it so.                                                  *)
LEMMA ToggleProducer ==
    ASSUME TypeOK, NEW r \in Toggles, ToggleStep(r)
    PROVE  \/ producer' = producer
           \/ /\ producer[r[1]] \in {"playing", "paused"}
              /\ ProducerBecomes(r[1], Wanted(r))
<1>1. StoreTypeOK /\ r[1] \in Sockets
  BY TypeParts, TogglerTyped
<1>2. CASE Apply(r)
  BY <1>1, <1>2, ProducerSet DEF Apply, IsOpen
<1> QED
  BY <1>2, ToggleFrame

LEMMA RequestsStep ==
    ASSUME TypeOK, ClientsInOrder, RequestsInOrder, [Next]_vars
    PROVE  RequestsInOrder'
<1> USE DEF RequestsInOrder
<1>1. StoreTypeOK /\ RequestTypeOK /\ RequestTypeOK'
  BY TypeParts, RequestStepTyped
<1>2. CASE UNCHANGED <<producersHash, producer, client, request, leave, announced>>
  BY <1>2 DEF InChannel, Producing
<1>3. ASSUME NEW s \in Sockets, JoinStart(s) \/ JoinStep(s)
      PROVE  RequestsInOrder'
  <2>1. /\ UNCHANGED <<producersHash, producer, request, leave, announced>>
        /\ \A t \in Sockets : client'[t] # client[t]
              => client[t] = "new" /\ client'[t] # "new"
    BY <1>1, <1>3 DEF JoinStart, JoinStep, AddPeer, ReadPeers, ReadProducers,
          Commit, Enter, storeVars, StoreTypeOK
  <2>2. NoRequest.pc = "idle"
    BY DEF NoRequest
  <2> QED
    BY <2>1, <2>2 DEF InChannel, Producing
<1>4. ASSUME NEW s \in Sockets, GoesOn(s)
      PROVE  RequestsInOrder'
  <2>1. /\ InChannel(s) /\ client'[s] # "new"
        /\ \A t \in Sockets \ {s} : client'[t] = client[t]
        /\ UNCHANGED <<producersHash, producer, request, leave, announced>>
    BY <1>1, <1>4, GoesOnEffect DEF handlerVars, storeVars, InChannel
  <2> QED
    BY <2>1 DEF InChannel, Producing
<1>5. ASSUME NEW s \in Sockets, Disconnect(s)
      PROVE  RequestsInOrder'
  <2>1. /\ client'[s] = "gone"
        /\ \A t \in Sockets \ {s} : client'[t] = client[t]
        /\ \A t \in Sockets : leave'[t] # leave[t] => t = s /\ InChannel(s)
        /\ UNCHANGED <<producersHash, producer, request, announced>>
    BY <1>1, <1>5 DEF Disconnect, StoreTypeOK, storeVars
  <2>2. InChannel(s) => leave[s] = "none"
    BY DEF ClientsInOrder, InChannel
  <2> QED
    BY <2>1, <2>2 DEF InChannel, Producing
<1>6. ASSUME NEW s \in Sockets, LeaveStep(s)
      PROVE  RequestsInOrder'
  <2>1. /\ leave[s] # "none"
        /\ \A t \in Sockets \ {s} :
              leave'[t] = leave[t] /\ producer'[t] = producer[t]
        /\ leave[s] \in {"last", "done"} => leave'[s] \in {"last", "done"}
        /\ producer'[s] = producer[s]
              \/ /\ producer[s] # "none" /\ producer'[s] = "closed"
                 /\ leave'[s] = "last"
        /\ producersHash' \in {producersHash, producersHash \ {s}}
        /\ UNCHANGED <<client, request, announced>>
    BY <1>1, <1>6, LeaveMoves DEF LeaveStep, LeaveMove, storeVars
  <2>2. ~InChannel(s)
    BY <2>1 DEF ClientsInOrder, InChannel
  <2> QED
    BY <2>1, <2>2 DEF InChannel, Producing
<1>7. ASSUME NEW s \in Sockets, Requesting(s)
      PROVE  RequestsInOrder'
  <2>1. UNCHANGED <<client, leave>>
    BY <1>7, RequestFrame
  <2>2. CASE ProduceStart(s)
    BY <2>1, <2>2, RequestMoves2
       DEF RequestMove, RequestAt, Producing, InChannel, storeVars
  <2>4. CASE GetPeer(s)
    BY <2>1, <2>4, <1>1, RequestMoves2, IdleRequest
       DEF RequestMove, RequestAt, Producing, InChannel, storeVars, RequestTypeOK
  <2>5. CASE NodeProduces(s)
    BY <2>1, <2>5, <1>1, RequestMoves2, IdleRequest
       DEF RequestMove, RequestAt, Producing, InChannel, storeVars,
           ProducerBecomes, KnownToNode, RequestTypeOK
  <2>6. CASE AddProducer(s)
    BY <2>1, <2>6, <1>1, RequestMoves2, IdleRequest
       DEF RequestMove, RequestAt, Producing, InChannel, RequestTypeOK
  <2>7. CASE Announce(s)
    BY <2>1, <2>7, <1>1, RequestMoves3, IdleRequest
       DEF RequestMove, RequestAt, Producing, InChannel, storeVars, RequestTypeOK
  <2>8. CASE ProduceFails(s)
    BY <2>1, <2>8, <1>1, RequestMoves3, IdleRequest
       DEF RequestMove, RequestAt, Producing, InChannel, ProducerBecomes,
           KnownToNode, RequestTypeOK
  <2> QED
    BY <1>7, <2>2, <2>4, <2>5, <2>6, <2>7, <2>8 DEF Requesting, RequestStep
<1>8. ASSUME NEW r \in Toggles, ToggleStep(r)
      PROVE  RequestsInOrder'
  <2>1. UNCHANGED <<producersHash, client, request, leave, announced>>
    BY <1>8, ToggleFrame DEF storeVars, handlerVars
  <2>2. \A s \in Sockets :
           \/ producer'[s] = producer[s]
           \/ /\ producer[s] \in {"playing", "paused"}
              /\ producer'[s] \in {"playing", "paused"}
    BY <1>8, ToggleProducer, TogglerTyped DEF ProducerBecomes
  <2> QED
    BY <2>1, <2>2 DEF InChannel, Producing
<1> QED
  BY <1>2, <1>3, <1>4, <1>5, <1>6, <1>7, <1>8, Cases DEF handlerVars, storeVars

(* Which toggles are used changes only by a start, which takes the next.   *)
LEMMA UsedStep ==
    ASSUME TypeOK, [Next]_vars, NEW r \in Toggles
    PROVE  \/ toggle'[r] = toggle[r]
           \/ ToggleStep(r)
<1>1. BoundTypeOK
  BY TypeParts
<1>2. CASE UNCHANGED toggle
  BY <1>2
<1>3. ASSUME NEW q \in Toggles, ToggleStep(q)
      PROVE  toggle'[r] = toggle[r] \/ ToggleStep(r)
  <2>1. r # q => toggle'[r] = toggle[r]
    BY <1>1, <1>3, ToggleSteps DEF ToggleAt
  <2> QED
    BY <1>3, <2>1
<1> QED
  BY <1>2, <1>3
     DEF Next, vars, sideVars, JoinStart, JoinStep, AddPeer, ReadPeers,
         ReadProducers, Commit, Enter, ClientStep, GetRouterRtpCapabilities,
         CreateTransports, Consume, ProduceStart, RequestStep, GetPeer,
         NodeProduces, AddProducer, Announce, ProduceFails, Disconnect,
         LeaveStep, LeaveRemovePeer, LeaveRemoveProducers, LeaveNode, LeaveTell,
         Deliver

LEMMA UsedStays ==
    ASSUME TypeOK, [Next]_vars, NEW r \in Toggles, ~ToggleIs(r, {"unused"})
    PROVE  ~ToggleIs(r, {"unused"})'
<1>1. BoundTypeOK
  BY TypeParts
<1>2. CASE ToggleStep(r)
  BY <1>1, <1>2, ToggleSteps DEF ToggleAt, ToggleIs
<1> QED
  BY <1>2, UsedStep DEF ToggleIs

LEMMA TogglesStep ==
    ASSUME TypeOK, TogglesInOrder, announced \subseteq announced', [Next]_vars
    PROVE  TogglesInOrder'
<1> SUFFICES ASSUME NEW r \in Toggles, ~ToggleIs(r, {"unused"})'
             PROVE  /\ r[1] \in announced'
                    /\ \A k \in 1 .. r[2] - 1 : ~ToggleIs(<<r[1], k>>, {"unused"})'
  BY DEF TogglesInOrder
<1>1. BoundTypeOK
  BY TypeParts
<1>2. /\ r[1] \in announced
      /\ \A k \in 1 .. r[2] - 1 : ~ToggleIs(<<r[1], k>>, {"unused"})
  <2>1. CASE ~ToggleIs(r, {"unused"})
    BY <2>1 DEF TogglesInOrder
  <2>2. CASE ToggleIs(r, {"unused"})
    <3>1. \E do : ToggleStart(r, do)
      BY <1>1, <2>2, UsedStep, ToggleSteps DEF ToggleIs, Pending
    <3> QED
      BY <3>1 DEF ToggleStart, IsNextToggle, ToggleIs
  <2> QED
    BY <2>1, <2>2
<1>3. ASSUME NEW k \in 1 .. r[2] - 1
      PROVE  <<r[1], k>> \in Toggles
  BY EventsBounds DEF Toggles
<1> QED
  BY <1>2, <1>3, UsedStays

(* Only a start puts a handler under way, and it sees the others.          *)
LEMMA OverlapsStep ==
    ASSUME TypeOK, ClientsInOrder, Overlaps, [Next]_vars
    PROVE  Overlaps' /\ overlap \subseteq overlap'
<1>1. StoreTypeOK
  BY TypeParts
<1>2. ASSUME overlap \subseteq overlap',
             \A t \in Sockets : /\ Joining(t)' => Joining(t)
                                /\ Producing(t)' => Producing(t)
                                /\ Leaving(t)' => Leaving(t)
      PROVE  Overlaps'
  BY <1>2 DEF Overlaps
<1>3. CASE UNCHANGED <<join, request, leave, overlap>>
  BY <1>3 DEF Overlaps, Joining, Producing, Leaving
<1>4. ASSUME NEW s \in Sockets, JoinStart(s)
      PROVE  Overlaps' /\ overlap \subseteq overlap'
  <2>1. /\ \A t \in Sockets \ {s} : Joining(t)' <=> Joining(t)
        /\ ~Joining(s)
    BY <1>4, JoinPcs DEF JoinMove, Joining
  <2>2. \A t \in Sockets : /\ Producing(t)' <=> Producing(t)
                           /\ Leaving(t)' <=> Leaving(t)
    BY <1>4 DEF JoinStart, Producing, Leaving
  <2>3. /\ overlap \subseteq overlap'
        /\ \A p \in Sockets :
              /\ Joining(p) => <<s, p, "join">> \in overlap'
              /\ Joining(p) => <<p, s, "join">> \in overlap'
              /\ Producing(p) => <<s, p, "produce">> \in overlap'
              /\ Leaving(p) => <<s, p, "leave">> \in overlap'
    BY <1>4 DEF JoinStart, Meet
  <2>5. SUFFICES ASSUME NEW t \in Sockets, NEW p \in Sockets, t # p, Joining(t)'
                 PROVE  /\ Joining(p)' => <<t, p, "join">> \in overlap'
                        /\ Producing(p)' => <<t, p, "produce">> \in overlap'
                        /\ Leaving(p)' => <<t, p, "leave">> \in overlap'
    BY <2>3 DEF Overlaps
  <2>6. CASE t = s
    BY <2>1, <2>2, <2>3, <2>5, <2>6
  <2>7. CASE t # s /\ p = s
    <3>1. leave[s] = "none"
      BY <1>4 DEF JoinStart, ClientsInOrder
    <3> QED
      BY <2>1, <2>2, <2>3, <2>5, <2>7, <3>1 DEF Overlaps, Leaving
  <2>8. CASE t # s /\ p # s
    BY <2>1, <2>2, <2>3, <2>5, <2>8 DEF Overlaps
  <2> QED
    BY <2>6, <2>7, <2>8
<1>5. ASSUME NEW s \in Sockets, JoinStep(s)
      PROVE  Overlaps' /\ overlap \subseteq overlap'
  <2>1. UNCHANGED <<request, leave, overlap>>
    BY <1>5 DEF JoinStep, AddPeer, ReadPeers, ReadProducers, Commit, Enter,
          sideVars
  <2>2. \A t \in Sockets : Joining(t)' => Joining(t)
    BY <1>5, JoinPcs DEF JoinStep, JoinMove, Joining
  <2>3. \A t \in Sockets : /\ Producing(t)' => Producing(t)
                           /\ Leaving(t)' => Leaving(t)
    BY <2>1 DEF Producing, Leaving
  <2> QED
    BY <1>2, <2>1, <2>2, <2>3
<1>6. ASSUME NEW s \in Sockets, GoesOn(s)
      PROVE  Overlaps' /\ overlap \subseteq overlap'
  BY <1>1, <1>3, <1>6, GoesOnEffect DEF handlerVars, sideVars
<1>7. ASSUME NEW s \in Sockets, Disconnect(s)
      PROVE  Overlaps' /\ overlap \subseteq overlap'
  <2>1. UNCHANGED <<join, request>>
    BY <1>7 DEF Disconnect
  <2>2. /\ overlap \subseteq overlap'
        /\ \A t \in Sockets : leave'[t] # leave[t] =>
              /\ t = s
              /\ \A u \in Sockets : Joining(u) => <<u, s, "leave">> \in overlap'
    BY <1>1, <1>7 DEF Disconnect, StoreTypeOK, Meet
  <2>3. \A t \in Sockets : /\ Joining(t)' <=> Joining(t)
                           /\ Producing(t)' <=> Producing(t)
    BY <2>1 DEF Joining, Producing
  <2>4. \A t, p \in Sockets :
           t # p /\ Joining(t) /\ Leaving(p)' => <<t, p, "leave">> \in overlap'
    BY <2>2 DEF Leaving, Overlaps
  <2> QED
    BY <2>2, <2>3, <2>4 DEF Overlaps
<1>8. ASSUME NEW s \in Sockets, LeaveStep(s)
      PROVE  Overlaps' /\ overlap \subseteq overlap'
  <2>1. UNCHANGED <<join, request, overlap>>
    BY <1>1, <1>8, LeaveMoves DEF LeaveStep, LeaveMove, sideVars
  <2>2. \A t \in Sockets : Leaving(t)' => Leaving(t)
    BY <1>1, <1>8, LeaveMoves DEF LeaveStep, LeaveMove, Leaving
  <2>3. \A t \in Sockets : /\ Joining(t)' => Joining(t)
                           /\ Producing(t)' => Producing(t)
    BY <2>1 DEF Joining, Producing
  <2> QED
    BY <1>2, <2>1, <2>2, <2>3
<1>9. ASSUME NEW s \in Sockets, Requesting(s)
      PROVE  Overlaps' /\ overlap \subseteq overlap'
  <2>1. UNCHANGED <<join, leave>>
    BY <1>9, RequestFrame
  <2>2. \A t \in Sockets : /\ Joining(t)' <=> Joining(t)
                           /\ Leaving(t)' <=> Leaving(t)
    BY <2>1 DEF Joining, Leaving
  <2>3. CASE ProduceStart(s)
    <3>1. /\ overlap \subseteq overlap'
          /\ \A t \in Sockets : Joining(t) => <<t, s, "produce">> \in overlap'
      BY <2>3 DEF ProduceStart, Meet
    <3>2. \A t \in Sockets \ {s} : Producing(t)' <=> Producing(t)
      BY <2>3, RequestMoves2 DEF RequestMove, RequestAt, Producing
    <3> QED
      BY <2>2, <3>1, <3>2 DEF Overlaps
  <2>4. CASE ~ProduceStart(s)
    <3>1. overlap' = overlap
      BY <1>9, <2>4, RequestMoves2, RequestMoves3 DEF Requesting, RequestStep
    <3>2. \A t \in Sockets : Producing(t)' => Producing(t)
      BY <1>9, <2>4, RequestMoves2, RequestMoves3
         DEF Requesting, RequestStep, RequestMove, RequestAt, Producing
    <3> QED
      BY <1>2, <2>2, <3>1, <3>2
  <2> QED
    BY <2>3, <2>4
<1> QED
  BY <1>3, <1>4, <1>5, <1>6, <1>7, <1>8, <1>9, Cases, ToggleFrame DEF handlerVars

-----------------------------------------------------------------------------
(***************************************************************************)
(* What clients are told is true.                                          *)
(***************************************************************************)
Way(p, t) == <<home[p], home[t]>>

EventsAreTrue ==
    \A l \in Links : \A p \in Sockets :
        /\ \A kind \in EventKinds : On(link[l], Event(kind, p)) => home[p] = l[1]
        /\ On(link[l], Event("newProducer", p)) => producer[p] # "none"
        /\ On(link[l], Event("peerClosed", p)) => leave[p] = "done"
        /\ On(link[l], Event("producerPaused", p)) => p \in announced
        /\ On(link[l], Event("producerResumed", p)) => p \in announced

ViewsAreTrue ==
    \A t, p \in Sockets :
        /\ view[t].consume[p] = "asked" => producer[p] # "none"
        /\ view[t].consume[p] = "refused" => client[p] = "gone"
        /\ view[t].heard[p] # "none"
              => p \in announced /\ client[t] # "new" /\ t # p

(* The steps that send an event, but for the join's, and what they send.   *)
Sends(s, kind) ==
    \/ Announce(s) /\ kind = "newProducer"
    \/ \E r \in TogglesOf(s) : Tell(r) /\ kind = Says(r)
    \/ LeaveTell(s) /\ kind = "peerClosed"

EventShape ==
    \/ UNCHANGED <<link, view>>
    \/ \E l \in Links : Deliver(l) /\ Delivered(l)
    \/ \E s \in Sockets : Commit(s) /\ Committed(s)
    \/ \E s \in Sockets : \E kind \in EventKinds \ {"newPeer"} :
          Sends(s, kind) /\ Emitted(s, Event(kind, s))
    \/ \E t, p \in Sockets : Consume(t, p) /\ Answers(t, p) /\ link' = link

LEMMA EventShapes ==
    ASSUME TypeOK, [Next]_vars
    PROVE  EventShape
<1>1. ViewTypeOK
  BY TypeParts
<1>2. CASE UNCHANGED <<link, view>>
  BY <1>2 DEF EventShape
<1>3. ASSUME NEW l \in Links, Deliver(l)
      PROVE  EventShape
  BY <1>3, DeliverEffect DEF EventShape
<1>4. ASSUME NEW s \in Sockets, Commit(s)
      PROVE  EventShape
  BY <1>4, CommitEffect DEF EventShape
<1>5. ASSUME NEW s \in Sockets, NEW kind \in EventKinds \ {"newPeer"},
             Sends(s, kind), Emit(s, Event(kind, s))
      PROVE  EventShape
  <2>1. Emitted(s, Event(kind, s))
    BY <1>5, EventTyped, EmitEffect
  <2> QED
    BY <1>5, <2>1 DEF EventShape
<1>6. ASSUME NEW s \in Sockets, Announce(s) \/ LeaveTell(s)
      PROVE  EventShape
  <2>1. CASE Announce(s)
    <3>1. Sends(s, "newProducer") /\ Emit(s, Event("newProducer", s))
      BY <2>1 DEF Sends, Announce
    <3> QED
      BY <1>5, <3>1 DEF EventKinds
  <2>2. CASE LeaveTell(s)
    <3>1. Sends(s, "peerClosed") /\ Emit(s, Event("peerClosed", s))
      BY <2>2 DEF Sends, LeaveTell
    <3> QED
      BY <1>5, <3>1 DEF EventKinds
  <2> QED
    BY <1>6, <2>1, <2>2
<1>8. ASSUME NEW r \in Toggles, Tell(r)
      PROVE  EventShape
  <2>1. r[1] \in Sockets /\ Says(r) \in EventKinds \ {"newPeer"}
    BY TogglerTyped DEF EventKinds
  <2>2. Sends(r[1], Says(r)) /\ Emit(r[1], Event(Says(r), r[1]))
    BY <1>8, TogglerTyped DEF Sends, Tell
  <2> QED
    BY <1>5, <2>1, <2>2
<1>7. ASSUME NEW t \in Sockets, NEW p \in Sockets, Consume(t, p)
      PROVE  EventShape
  <2>1. link' = link
    BY <1>7 DEF Consume
  <2> QED
    BY <1>1, <1>7, <2>1, ConsumeEffect DEF EventShape
<1> QED
  BY <1>2, <1>3, <1>4, <1>6, <1>7, <1>8, EventSteps

(* What stays as it is once it is so.                                      *)
Lasting ==
    /\ home' = home
    /\ announced \subseteq announced'
    /\ \A p \in Sockets :
          /\ producer[p] # "none" => producer'[p] # "none"
          /\ leave[p] = "done" => leave'[p] = "done"
          /\ client[p] = "gone" => client'[p] = "gone"
          /\ client[p] # "new" => client'[p] # "new"

LEMMA LastingStep ==
    ASSUME TypeOK, ClientsInOrder, [Next]_vars
    PROVE  Lasting
<1> USE DEF Lasting
<1>1. StoreTypeOK
  BY TypeParts
<1>2. CASE UNCHANGED <<home, producer, client, leave, announced>>
  BY <1>2
<1>3. ASSUME NEW s \in Sockets, JoinStart(s) \/ JoinStep(s)
      PROVE  Lasting
  <2>1. /\ UNCHANGED <<home, producer, leave, announced>>
        /\ \A t \in Sockets : client'[t] # client[t]
              => client[t] = "new" /\ client'[t] # "new"
    BY <1>1, <1>3 DEF JoinStart, JoinStep, AddPeer, ReadPeers, ReadProducers,
          Commit, Enter, storeVars, StoreTypeOK
  <2> QED
    BY <2>1
<1>4. ASSUME NEW s \in Sockets, GoesOn(s)
      PROVE  Lasting
  BY <1>1, <1>4, GoesOnEffect DEF handlerVars
<1>5. ASSUME NEW s \in Sockets, Disconnect(s)
      PROVE  Lasting
  <2>1. /\ client'[s] = "gone"
        /\ \A t \in Sockets \ {s} : client'[t] = client[t]
        /\ \A t \in Sockets : leave'[t] # leave[t] => t = s /\ InChannel(s)
        /\ UNCHANGED <<home, producer, announced>>
    BY <1>1, <1>5 DEF Disconnect, StoreTypeOK
  <2> QED
    BY <2>1 DEF ClientsInOrder, InChannel
<1>6. ASSUME NEW s \in Sockets, LeaveStep(s)
      PROVE  Lasting
  BY <1>1, <1>6, LeaveMoves DEF LeaveStep, LeaveMove
<1>7. ASSUME NEW s \in Sockets, Requesting(s)
      PROVE  Lasting
  <2>1. UNCHANGED <<home, client, leave>>
    BY <1>7, RequestFrame
  <2>2. announced \subseteq announced'
    BY <1>7, RequestMoves2, RequestMoves3 DEF Requesting, RequestStep
  <2>3. producer' = producer \/ \E state \in {"playing", "paused"} :
                                   ProducerBecomes(s, state)
    BY <1>7, RequestMoves2, RequestMoves3 DEF Requesting, RequestStep
  <2> QED
    BY <2>1, <2>2, <2>3 DEF ProducerBecomes
<1>8. ASSUME NEW r \in Toggles, ToggleStep(r)
      PROVE  Lasting
  <2>1. UNCHANGED <<home, client, leave, announced>>
    BY <1>8, ToggleFrame DEF handlerVars
  <2>2. \A p \in Sockets : producer[p] # "none" => producer'[p] # "none"
    BY <1>8, ToggleProducer, TogglerTyped DEF ProducerBecomes
  <2> QED
    BY <2>1, <2>2
<1> QED
  BY <1>2, <1>3, <1>4, <1>5, <1>6, <1>7, <1>8, Cases DEF handlerVars

(* An event is on a link because it was or because it is sent.             *)
LEMMA OnStep ==
    ASSUME TypeOK, [Next]_vars, NEW l \in Links, NEW f \in Events,
           On(link'[l], f)
    PROVE  \/ On(link[l], f)
           \/ \E s \in Sockets :
                 /\ l[1] = home[s]
                 /\ \/ Commit(s) /\ f = Event("newPeer", s)
                    \/ \E kind \in EventKinds \ {"newPeer"} :
                          Sends(s, kind) /\ f = Event(kind, s)
<1>1. CASE link' = link
  BY <1>1
<1>2. ASSUME NEW m \in Links, Delivered(m)
      PROVE  On(link[l], f)
  BY <1>2 DEF Delivered
<1>3. ASSUME NEW s \in Sockets, NEW e \in Events, Published(s, e)
      PROVE  On(link[l], f) \/ (l[1] = home[s] /\ f = e)
  BY <1>3 DEF Published
<1>4. ASSUME NEW s \in Sockets, NEW kind \in EventKinds
      PROVE  Event(kind, s) \in Events
  BY EventTyped
<1>5. "newPeer" \in EventKinds
  BY DEF EventKinds
<1> QED
  BY <1>1, <1>2, <1>3, <1>4, <1>5, EventShapes DEF EventShape, Committed, Emitted

(* A toggle that is told is of an announced producer.                      *)
LEMMA TellsTruly ==
    ASSUME TogglesInOrder, NEW p \in Sockets, NEW r \in TogglesOf(p), Tell(r)
    PROVE  p \in announced /\ Says(r) \in {"producerPaused", "producerResumed"}
<1>1. r \in Toggles /\ r[1] = p
  BY DEF TogglesOf
<1>2. ~ToggleIs(r, {"unused"})
  BY DEF Tell, ToggleIs
<1> QED
  BY <1>1, <1>2, TogglerTyped DEF TogglesInOrder

LEMMA EventsTrueStep ==
    ASSUME TypeOK, ClientsInOrder, RequestsInOrder, TogglesInOrder,
           EventsAreTrue, [Next]_vars
    PROVE  EventsAreTrue'
<1> SUFFICES ASSUME NEW l \in Links, NEW p \in Sockets, NEW kind \in EventKinds,
                    On(link'[l], Event(kind, p))
             PROVE  /\ home'[p] = l[1]
                    /\ kind = "newProducer" => producer'[p] # "none"
                    /\ kind = "peerClosed" => leave'[p] = "done"
                    /\ kind \in {"producerPaused", "producerResumed"}
                          => p \in announced'
  BY DEF EventsAreTrue, EventKinds
<1>1. Lasting /\ StoreTypeOK
  BY LastingStep, TypeParts
<1>2. CASE On(link[l], Event(kind, p))
  BY <1>1, <1>2 DEF EventsAreTrue, Lasting
<1>3. CASE l[1] = home[p] /\ kind = "newPeer"
  BY <1>1, <1>3 DEF Lasting
<1>4. CASE l[1] = home[p] /\ Sends(p, kind)
  <2>1. CASE Announce(p) /\ kind = "newProducer"
    <3>1. request[p].pc = "expire" /\ UNCHANGED <<home, producer>>
      BY <2>1, <1>1, RequestMoves3 DEF RequestMove, Lasting
    <3> QED
      BY <1>4, <2>1, <3>1 DEF RequestsInOrder
  <2>2. CASE \E r \in TogglesOf(p) : Tell(r) /\ kind = Says(r)
    <3>1. p \in announced /\ kind \in {"producerPaused", "producerResumed"}
      BY <2>2, TellsTruly
    <3> QED
      BY <1>1, <1>4, <3>1 DEF Lasting
  <2>3. CASE LeaveTell(p) /\ kind = "peerClosed"
    BY <1>1, <1>4, <2>3, LeaveMoves DEF LeaveMove, Lasting
  <2> QED
    BY <1>4, <2>1, <2>2, <2>3 DEF Sends
<1>5. Event(kind, p) \in Events
  BY EventTyped
<1> QED
  BY <1>2, <1>3, <1>4, <1>5, OnStep, EventsDiffer

(* What a view becomes, event by event.                                    *)
Views(t) ==
    \/ view'[t] = view[t]
    \/ Commit(t) /\ Committed(t)
    \/ \E p \in Sockets : Consume(t, p) /\ Answers(t, p)
    \/ /\ InChannel(t)
       /\ \E e \in Events :
             /\ e.of # t
             /\ Hears(t, e)
             /\ \/ /\ home[e.of] # home[t]
                   /\ On(link[Way(e.of, t)], e)
                   /\ \A g \in Events : Followed(link[Way(e.of, t)], e, g)
                         => On(link'[Way(e.of, t)], g)
                \/ /\ home[e.of] = home[t]
                   /\ \/ Sends(e.of, e.kind) /\ e.kind # "newPeer"
                      \/ Commit(e.of) /\ e.kind = "newPeer"

LEMMA ViewSteps ==
    ASSUME TypeOK, EventsAreTrue, [Next]_vars, NEW t \in Sockets
    PROVE  Views(t)
<1>1. CASE UNCHANGED <<link, view>>
  BY <1>1 DEF Views
<1>2. ASSUME NEW l \in Links, Delivered(l)
      PROVE  Views(t)
  <2>1. CASE ~(InChannel(t) /\ home[t] = l[2])
    BY <1>2, <2>1 DEF Delivered, Views
  <2>2. CASE InChannel(t) /\ home[t] = l[2]
    <3> DEFINE e == Head(link[l])
    <3>1. /\ e \in Events /\ Hears(t, e) /\ On(link[l], e)
          /\ \A g \in Events : Followed(link[l], e, g) => On(link'[l], g)
      BY <1>2, <2>2 DEF Delivered
    <3> HIDE DEF e
    <3>2. e.of \in Sockets /\ e.kind \in EventKinds /\ e = Event(e.kind, e.of)
      BY <3>1, EventFields
    <3>3. home[e.of] = l[1]
      BY <3>1, <3>2 DEF EventsAreTrue
    <3>4. l = Way(e.of, t) /\ home[e.of] # home[t]
      BY <2>2, <3>3 DEF Way, Links
    <3>5. e.of # t
      BY <3>4
    <3> QED
      BY <2>2, <3>1, <3>4, <3>5 DEF Views
  <2> QED
    BY <2>1, <2>2
<1>3. ASSUME NEW s \in Sockets, Commit(s), Committed(s)
      PROVE  Views(t)
  <2>1. CASE t = s
    BY <1>3, <2>1 DEF Views
  <2>2. CASE t # s
    <3> DEFINE e == Event("newPeer", s)
    <3>1. e \in Events /\ e.of = s /\ e.kind = "newPeer"
      BY EventTyped DEF EventKinds
    <3>2. IF InChannel(t) /\ home[t] = home[s] THEN Hears(t, e)
                                               ELSE view'[t] = view[t]
      BY <1>3, <2>2 DEF Committed
    <3> HIDE DEF e
    <3> QED
      BY <1>3, <2>2, <3>1, <3>2 DEF Views
  <2> QED
    BY <2>1, <2>2
<1>4. ASSUME NEW s \in Sockets, NEW kind \in EventKinds \ {"newPeer"},
             Sends(s, kind), Emitted(s, Event(kind, s))
      PROVE  Views(t)
  <2> DEFINE e == Event(kind, s)
  <2>1. e \in Events /\ e.of = s /\ e.kind = kind
    BY EventTyped
  <2>2. IF InChannel(t) /\ home[t] = home[s] /\ t # s THEN Hears(t, e)
                                                      ELSE view'[t] = view[t]
    BY <1>4 DEF Emitted
  <2> HIDE DEF e
  <2> QED
    BY <1>4, <2>1, <2>2 DEF Views
<1>5. ASSUME NEW u \in Sockets, NEW p \in Sockets, Consume(u, p), Answers(u, p)
      PROVE  Views(t)
  <2>1. CASE t = u
    BY <1>5, <2>1 DEF Views
  <2>2. CASE t # u
    BY <1>5, <2>2 DEF Answers, Views
  <2> QED
    BY <2>1, <2>2
<1> QED
  BY <1>1, <1>2, <1>3, <1>4, <1>5, EventShapes DEF EventShape

LEMMA ViewsTrueStep ==
    ASSUME TypeOK, ClientsInOrder, RequestsInOrder, TogglesInOrder,
           EventsAreTrue, ViewsAreTrue, [Next]_vars
    PROVE  ViewsAreTrue'
<1> SUFFICES ASSUME NEW t \in Sockets, NEW p \in Sockets
             PROVE  /\ view'[t].consume[p] = "asked" => producer'[p] # "none"
                    /\ view'[t].consume[p] = "refused" => client'[p] = "gone"
                    /\ view'[t].heard[p] # "none"
                          => p \in announced' /\ client'[t] # "new" /\ t # p
  BY DEF ViewsAreTrue
<1>1. /\ Lasting /\ StoreTypeOK
      /\ view[t].consume[p] = "asked" => producer[p] # "none"
      /\ view[t].consume[p] = "refused" => client[p] = "gone"
      /\ view[t].heard[p] # "none"
            => p \in announced /\ client[t] # "new" /\ t # p
  BY LastingStep, TypeParts DEF ViewsAreTrue
<1>2. CASE view'[t] = view[t]
  BY <1>1, <1>2 DEF Lasting
<1>3. CASE Committed(t)
  BY <1>1, <1>3 DEF Lasting, Committed
<1>4. ASSUME NEW q \in Sockets, Answers(t, q)
      PROVE  /\ view'[t].consume[p] = "asked" => producer'[p] # "none"
             /\ view'[t].consume[p] = "refused" => client'[p] = "gone"
             /\ view'[t].heard[p] # "none"
                   => p \in announced' /\ client'[t] # "new" /\ t # p
  <2>1. CASE p # q
    BY <1>1, <1>4, <2>1 DEF Lasting, Answers
  <2>2. CASE p = q
    <3>1. ASSUME view'[t].consume[p] = "refused"
          PROVE  client'[p] = "gone"
      <4>1. producer[p] # "none" /\ producer[p] \notin {"playing", "paused"}
        BY <1>1, <1>4, <2>2, <3>1 DEF Answers
      <4>2. producer[p] = "closed"
        BY <1>1, <4>1 DEF StoreTypeOK, ProducerStates
      <4> QED
        BY <1>1, <4>2 DEF RequestsInOrder, ClientsInOrder, Lasting
    <3> QED
      BY <1>1, <1>4, <2>2, <3>1 DEF Lasting, Answers
  <2> QED
    BY <2>1, <2>2
<1>5. ASSUME InChannel(t), NEW e \in Events, e.of # t, Hears(t, e),
             e.kind = "newProducer" => producer[e.of] # "none",
             e.kind \in {"producerPaused", "producerResumed"}
                => e.of \in announced
      PROVE  /\ view'[t].consume[p] = "asked" => producer'[p] # "none"
             /\ view'[t].consume[p] = "refused" => client'[p] = "gone"
             /\ view'[t].heard[p] # "none"
                   => p \in announced' /\ client'[t] # "new" /\ t # p
  <2>1. /\ view'[t].consume[p] = ConsumeAfter(t, e, p, view[t].consume[p])
        /\ view'[t].heard[p] = HeardAfter(e, p, view[t].heard[p])
    BY <1>5 DEF Hears
  <2>2. view'[t].consume[p] # view[t].consume[p]
           => /\ view'[t].consume[p] \in {"blind", "early", "asked"}
              /\ producer[p] # "none"
    BY <1>5, <2>1, AskedTyped DEF ConsumeAfter
  <2>3. view'[t].heard[p] # view[t].heard[p] => p \in announced /\ t # p
    BY <1>5, <2>1 DEF HeardAfter
  <2> QED
    BY <1>1, <1>5, <2>2, <2>3 DEF Lasting, InChannel
<1>6. ASSUME NEW e \in Events, home[e.of] # home[t], On(link[Way(e.of, t)], e)
      PROVE  /\ e.kind = "newProducer" => producer[e.of] # "none"
             /\ e.kind \in {"producerPaused", "producerResumed"}
                   => e.of \in announced
  <2>1. e.of \in Sockets /\ e = Event(e.kind, e.of)
    BY EventFields
  <2>2. Way(e.of, t) \in Links
    BY <1>1, <1>6, <2>1 DEF Way, Links, StoreTypeOK
  <2> QED
    BY <1>6, <2>1, <2>2 DEF EventsAreTrue
<1>7. ASSUME NEW e \in Events, Sends(e.of, e.kind)
      PROVE  /\ e.kind = "newProducer" => producer[e.of] # "none"
             /\ e.kind \in {"producerPaused", "producerResumed"}
                   => e.of \in announced
  <2>1. e.of \in Sockets
    BY EventFields
  <2>2. CASE Announce(e.of) /\ e.kind = "newProducer"
    BY <2>1, <2>2, RequestMoves3 DEF RequestMove, RequestsInOrder
  <2>3. CASE \E r \in TogglesOf(e.of) : Tell(r) /\ e.kind = Says(r)
    BY <2>1, <2>3, TellsTruly
  <2> QED
    BY <1>7, <2>2, <2>3 DEF Sends
<1> QED
  BY <1>2, <1>3, <1>4, <1>5, <1>6, <1>7, ViewSteps DEF Views
-----------------------------------------------------------------------------
(***************************************************************************)
(* What is announced reaches everybody.                                    *)
(***************************************************************************)
OnWay(p, t, kind) ==
    home[p] # home[t] /\ On(link[Way(p, t)], Event(kind, p))

(* A producer that was announced is known, or its event is on the way.     *)
ProducersReach ==
    \A t, p \in Sockets :
        t # p /\ InChannel(p) /\ p \in announced
              /\ <<t, p, "produce">> \notin overlap =>
          /\ InChannel(t) => KnowsProducer(t, p) \/ OnWay(p, t, "newProducer")
          /\ join[t].pc = "producers"
                => p \in join[t].unread \cup join[t].found

PeersReach ==
    \A t, p \in Sockets :
        t # p /\ InChannel(p) /\ <<t, p, "join">> \notin overlap =>
          /\ InChannel(t) => p \in view[t].peers \/ OnWay(p, t, "newPeer")
          /\ join[t].pc = "producers" => p \in join[t].peers

(* The closing of a peer comes after what told of it.                      *)
LeavesReach ==
    \A t, p \in Sockets : t # p /\ leave[p] = "done" =>
        /\ home[p] # home[t]
              => Followed(link[Way(p, t)], Event("newPeer", p),
                                           Event("peerClosed", p))
        /\ <<t, p, "leave">> \notin overlap =>
             /\ InChannel(t) /\ p \in view[t].peers => OnWay(p, t, "peerClosed")
             /\ join[t].pc = "producers" => p \notin join[t].peers

(* The event that tells of the state the producer is in, and the other.    *)
Saying(p)   == IF producer[p] = "paused" THEN "producerPaused"
                                         ELSE "producerResumed"
Opposite(p) == IF producer[p] = "paused" THEN "producerResumed"
                                         ELSE "producerPaused"

(* What was heard last of p, or is to come last, is the state it is in.    *)
ToldOf(p) ==
    /\ \A l \in Links : Followed(link[l], Event(Opposite(p), p),
                                          Event(Saying(p), p))
    /\ \A t \in Sockets : InChannel(t) =>
          \/ view[t].heard[p] \in {"none", producer[p]}
          \/ OnWay(p, t, Saying(p))

(* A last toggle that began when no other was under way is still the only  *)
(* one, and what it tells is true when it tells it and afterwards.         *)
ToggleReaches(r) ==
    /\ \A q \in TogglesOf(r[1]) \ {r} : ~Pending(q)
    /\ ToggleIs(r, {"tell"}) => producer[r[1]] = Wanted(r)
    /\ ToggleIs(r, {"told"}) => ToldOf(r[1])

TogglesReach ==
    \A r \in Toggles :
        InChannel(r[1]) /\ IsLastToggle(r) /\ toggle[r].apart => ToggleReaches(r)

LEMMA WayTyped ==
    ASSUME StoreTypeOK, NEW p \in Sockets, NEW t \in Sockets, home[p] # home[t]
    PROVE  Way(p, t) \in Links
BY DEF Way, Links, StoreTypeOK

(* An event on its way stays there or arrives.                             *)
LEMMA WayStep ==
    ASSUME TypeOK, ClientsInOrder, [Next]_vars,
           NEW t \in Sockets, NEW p \in Sockets, NEW kind \in EventKinds,
           InChannel(t), OnWay(p, t, kind)
    PROVE  OnWay(p, t, kind)' \/ Hears(t, Event(kind, p))
<1> DEFINE e == Event(kind, p)
           w == Way(p, t)
<1>1. /\ home' = home
      /\ home[p] # home[t]
      /\ On(link[w], e)
      /\ e \in Events
  BY LastingStep, EventTyped DEF Lasting, OnWay
<1>2. w \in Links /\ w[2] = home[t]
  BY <1>1, WayTyped, TypeParts DEF Way
<1>3. SUFFICES On(link'[w], e) \/ Hears(t, e)
  BY <1>1 DEF OnWay, Way
<1> HIDE DEF e, w
<1>4. ASSUME NEW s \in Sockets, NEW f \in Events, Published(s, f)
      PROVE  On(link'[w], e)
  BY <1>1, <1>2, <1>4 DEF Published
<1>5. ASSUME NEW l \in Links, Delivered(l)
      PROVE  On(link'[w], e) \/ Hears(t, e)
  <2>1. CASE l # w
    BY <1>1, <1>2, <1>5, <2>1 DEF Delivered
  <2>2. CASE l = w
    BY <1>1, <1>2, <1>5, <2>2 DEF Delivered
  <2> QED
    BY <2>1, <2>2
<1>6. ASSUME NEW s \in Sockets, NEW k \in EventKinds
      PROVE  Event(k, s) \in Events
  BY EventTyped
<1>7. "newPeer" \in EventKinds
  BY DEF EventKinds
<1> QED
  BY <1>1, <1>4, <1>5, <1>6, <1>7, EventShapes DEF EventShape, Committed, Emitted

(* What is followed stays so, unless it is sent once more.                 *)
LEMMA FollowedStep ==
    ASSUME TypeOK, [Next]_vars, NEW l \in Links,
           NEW f \in Events, NEW g \in Events, Followed(link[l], f, g)
    PROVE  \/ Followed(link'[l], f, g)
           \/ \E s \in Sockets :
                 \/ Commit(s) /\ f = Event("newPeer", s)
                 \/ \E kind \in EventKinds \ {"newPeer"} :
                       Sends(s, kind) /\ f = Event(kind, s)
<1>1. ASSUME NEW s \in Sockets, NEW e \in Events, Published(s, e)
      PROVE  Followed(link'[l], f, g) \/ f = e
  BY <1>1 DEF Published
<1>2. ASSUME NEW m \in Links, Delivered(m)
      PROVE  Followed(link'[l], f, g)
  BY <1>2 DEF Delivered
<1>3. ASSUME NEW s \in Sockets, NEW kind \in EventKinds
      PROVE  Event(kind, s) \in Events
  BY EventTyped
<1>4. "newPeer" \in EventKinds
  BY DEF EventKinds
<1> QED
  BY <1>1, <1>2, <1>3, <1>4, EventShapes DEF EventShape, Committed, Emitted

(* A client is in the channel because it was, or because its join commits. *)
LEMMA EnterStep ==
    ASSUME TypeOK, [Next]_vars, NEW t \in Sockets, InChannel(t)'
    PROVE  InChannel(t) \/ (Commit(t) /\ client[t] = "new")
<1>1. StoreTypeOK
  BY TypeParts
<1>2. CASE UNCHANGED client
  BY <1>2 DEF InChannel
<1>3. ASSUME NEW s \in Sockets, JoinStart(s) \/ JoinStep(s)
      PROVE  client'[t] = client[t] \/ (Commit(t) /\ client[t] = "new")
  BY <1>1, <1>3 DEF JoinStart, JoinStep, AddPeer, ReadPeers, ReadProducers,
        Commit, Enter, storeVars, StoreTypeOK
<1>4. ASSUME NEW s \in Sockets, GoesOn(s)
      PROVE  client'[t] = client[t] \/ InChannel(t)
  BY <1>1, <1>4, GoesOnEffect DEF InChannel
<1>5. ASSUME NEW s \in Sockets, Disconnect(s)
      PROVE  client'[t] = client[t]
  <2>1. client' = [client EXCEPT ![s] = "gone"]
    BY <1>5 DEF Disconnect
  <2>2. client'[t] # "gone"
    BY DEF InChannel
  <2> QED
    BY <1>1, <2>1, <2>2 DEF StoreTypeOK
<1>6. ASSUME NEW s \in Sockets, LeaveStep(s)
      PROVE  UNCHANGED client
  BY <1>1, <1>6, LeaveMoves DEF LeaveStep, LeaveMove
<1> QED
  BY <1>2, <1>3, <1>4, <1>5, <1>6, Cases, RequestFrame, ToggleFrame DEF InChannel

(* What a join knows of the others when it reads their producers.          *)
LEMMA ReadStep ==
    ASSUME TypeOK, [Next]_vars, NEW t \in Sockets, join'[t].pc = "producers"
    PROVE  \/ join'[t] = join[t]
           \/ /\ ReadPeers(t)
              /\ join'[t].peers = peersHash \ {t}
              /\ join'[t].unread = peersHash \ {t}
           \/ \E q \in Sockets :
                 /\ ReadProducers(t, q)
                 /\ join[t].pc = "producers"
                 /\ join'[t].peers = join[t].peers
                 /\ join'[t].unread = join[t].unread \ {q}
                 /\ join'[t].found = join[t].found \cup ({q} \cap producersHash)
<1>1. StoreTypeOK
  BY TypeParts
<1>2. ASSUME NEW s \in Sockets,
             \/ JoinMove(s, "idle", "add") \/ JoinMove(s, "add", "peers")
             \/ JoinMove(s, "producers", "idle")
      PROVE  join'[t] = join[t]
  BY <1>2 DEF JoinMove
<1>3. ASSUME NEW s \in Sockets, ReadPeers(s)
      PROVE  \/ join'[t] = join[t]
             \/ /\ ReadPeers(t)
                /\ join'[t].peers = peersHash \ {t}
                /\ join'[t].unread = peersHash \ {t}
  BY <1>3, ReadPeersEffect
<1>4. ASSUME NEW s \in Sockets, NEW q \in Sockets, ReadProducers(s, q)
      PROVE  \/ join'[t] = join[t]
             \/ /\ ReadProducers(t, q)
                /\ join[t].pc = "producers"
                /\ join'[t].peers = join[t].peers
                /\ join'[t].unread = join[t].unread \ {q}
                /\ join'[t].found = join[t].found \cup ({q} \cap producersHash)
  BY <1>4, ReadProducersEffect
<1>5. ASSUME NEW s \in Sockets, GoesOn(s) \/ Disconnect(s) \/ LeaveStep(s)
      PROVE  UNCHANGED join
  BY <1>1, <1>5, GoesOnEffect, LeaveMoves
     DEF LeaveStep, LeaveMove, Disconnect, handlerVars
<1> QED
  BY <1>2, <1>3, <1>4, <1>5, Cases, RequestFrame, ToggleFrame, JoinPcs
     DEF handlerVars, JoinStep

LEMMA KindsTyped ==
    /\ "newPeer" \in EventKinds /\ "peerClosed" \in EventKinds
    /\ "newProducer" \in EventKinds
    /\ "producerPaused" \in EventKinds /\ "producerResumed" \in EventKinds
BY DEF EventKinds

(* Who is in the channel has not begun to leave, nor is it joining.        *)
LEMMA StaysQuiet ==
    ASSUME TypeOK, ClientsInOrder, NEW p \in Sockets, InChannel(p)
    PROVE  /\ leave[p] = "none" /\ ~Joining(p)
           /\ ~Commit(p) /\ ~LeaveStep(p)
<1>1. leave[p] = "none" /\ ~Joining(p)
  BY DEF ClientsInOrder, InChannel
<1> QED
  BY <1>1 DEF Commit, Enter, Joining, LeaveStep, LeaveRemovePeer,
        LeaveRemoveProducers, LeaveNode, LeaveTell

(* What is known of a producer stays known.                                *)
LEMMA KnownStep ==
    ASSUME TypeOK, ClientsInOrder, EventsAreTrue, [Next]_vars,
           NEW t \in Sockets, NEW p \in Sockets,
           InChannel(t), KnowsProducer(t, p)
    PROVE  KnowsProducer(t, p)'
<1> USE DEF KnowsProducer
<1>1. ~Commit(t)
  BY StaysQuiet
<1>2. ASSUME NEW e \in Events, Hears(t, e)
      PROVE  view'[t].consume[p] # "none"
  BY <1>2 DEF Hears, ConsumeAfter
<1>3. ASSUME NEW q \in Sockets, Answers(t, q)
      PROVE  view'[t].consume[p] # "none"
  BY <1>3 DEF Answers
<1> QED
  BY <1>1, <1>2, <1>3, ViewSteps DEF Views

(* A producer is announced because it was, or now, by its own handler.     *)
LEMMA AnnouncedStep ==
    ASSUME TypeOK, [Next]_vars, NEW p \in Sockets, p \in announced'
    PROVE  p \in announced \/ Announce(p)
<1>1. StoreTypeOK
  BY TypeParts
<1>2. ASSUME NEW s \in Sockets,
             JoinStart(s) \/ JoinStep(s) \/ GoesOn(s) \/ Disconnect(s) \/ LeaveStep(s)
      PROVE  UNCHANGED announced
  BY <1>1, <1>2, GoesOnEffect, LeaveMoves
     DEF JoinStart, JoinStep, AddPeer, ReadPeers, ReadProducers, Commit, Enter,
         Disconnect, LeaveStep, LeaveMove
<1>3. ASSUME NEW s \in Sockets, Requesting(s)
      PROVE  p \in announced \/ Announce(p)
  BY <1>3, RequestMoves2, RequestMoves3 DEF Requesting, RequestStep
<1> QED
  BY <1>2, <1>3, Cases, ToggleFrame

LEMMA ProducersReachStep ==
    ASSUME TypeOK, ClientsInOrder, PeersStored, RequestsInOrder, Overlaps,
           EventsAreTrue, ProducersReach, [Next]_vars
    PROVE  ProducersReach'
<1> SUFFICES ASSUME NEW t \in Sockets, NEW p \in Sockets, t # p,
                    InChannel(p)', p \in announced',
                    <<t, p, "produce">> \notin overlap'
             PROVE  /\ InChannel(t)'
                         => KnowsProducer(t, p)' \/ OnWay(p, t, "newProducer")'
                    /\ join'[t].pc = "producers"
                         => p \in join'[t].unread \cup join'[t].found
  BY DEF ProducersReach
<1>1. /\ Lasting /\ StoreTypeOK
      /\ <<t, p, "produce">> \notin overlap
  BY LastingStep, OverlapsStep, TypeParts
<1>2. CASE p \notin announced
  <2>1. Announce(p)
    BY <1>2, AnnouncedStep
  <2>2. /\ Producing(p)
        /\ UNCHANGED <<client, join, home>>
    BY <2>1, RequestMoves3 DEF Announce
  <2>3. Emitted(p, Event("newProducer", p))
    BY <2>1, EmitEffect, EventTyped, KindsTyped DEF Announce
  <2>4. ASSUME InChannel(t)
        PROVE  KnowsProducer(t, p)' \/ OnWay(p, t, "newProducer")'
    <3>1. CASE home[t] = home[p]
      <4> DEFINE e == Event("newProducer", p)
      <4>1. Hears(t, e) /\ e.kind = "newProducer" /\ e.of = p
        BY <2>3, <2>4, <3>1, EventTyped, KindsTyped DEF Emitted
      <4> HIDE DEF e
      <4>2. view'[t].consume[p] = ConsumeAfter(t, e, p, view[t].consume[p])
        BY <4>1 DEF Hears
      <4> QED
        BY <4>1, <4>2, AskedTyped DEF ConsumeAfter, KnowsProducer
    <3>2. CASE home[t] # home[p]
      <4>1. Way(p, t) \in Links /\ Way(p, t)[1] = home[p]
        BY <1>1, <3>2, WayTyped DEF Way
      <4>2. On(link'[Way(p, t)], Event("newProducer", p))
        BY <2>3, <4>1, EventTyped, KindsTyped DEF Emitted, Published
      <4> QED
        BY <2>2, <3>2, <4>2 DEF OnWay, Way
    <3> QED
      BY <3>1, <3>2
  <2>5. join[t].pc # "producers"
    BY <1>1, <2>2 DEF Overlaps, Joining
  <2> QED
    BY <2>2, <2>4, <2>5 DEF InChannel
<1>3. CASE p \in announced
  <2>1. InChannel(p)
    BY <1>3, EnterStep DEF RequestsInOrder
  <2>2. ASSUME InChannel(t)'
        PROVE  KnowsProducer(t, p)' \/ OnWay(p, t, "newProducer")'
    <3>1. CASE InChannel(t)
      <4>1. CASE KnowsProducer(t, p)
        BY <3>1, <4>1, KnownStep
      <4>2. CASE OnWay(p, t, "newProducer")
        <5> DEFINE e == Event("newProducer", p)
        <5>1. OnWay(p, t, "newProducer")' \/ Hears(t, e)
          BY <3>1, <4>2, WayStep, KindsTyped
        <5>2. e.kind = "newProducer" /\ e.of = p
          BY EventTyped, KindsTyped
        <5> HIDE DEF e
        <5>3. Hears(t, e) => KnowsProducer(t, p)'
          BY <5>2, AskedTyped DEF Hears, ConsumeAfter, KnowsProducer
        <5> QED
          BY <5>1, <5>3
      <4> QED
        BY <1>1, <1>3, <2>1, <3>1, <4>1, <4>2 DEF ProducersReach
    <3>2. CASE Commit(t)
      <4>1. /\ join[t].pc = "producers" /\ join[t].unread = {}
            /\ Committed(t)
        BY <3>2, CommitEffect DEF Commit, Enter
      <4>2. p \in join[t].found
        BY <1>1, <1>3, <2>1, <4>1 DEF ProducersReach
      <4> QED
        BY <4>1, <4>2 DEF Committed, KnowsProducer
    <3> QED
      BY <2>2, <3>1, <3>2, EnterStep
  <2>3. ASSUME join'[t].pc = "producers"
        PROVE  p \in join'[t].unread \cup join'[t].found
    <3>1. p \in peersHash /\ p \in producersHash
      BY <1>3, <2>1 DEF PeersStored, RequestsInOrder
    <3>2. join[t].pc = "producers" => p \in join[t].unread \cup join[t].found
      BY <1>1, <1>3, <2>1 DEF ProducersReach
    <3> QED
      BY <2>3, <3>1, <3>2, ReadStep
  <2> QED
    BY <2>2, <2>3
<1> QED
  BY <1>2, <1>3

LEMMA PeersReachStep ==
    ASSUME TypeOK, ClientsInOrder, PeersStored, Overlaps, EventsAreTrue,
           PeersReach, [Next]_vars
    PROVE  PeersReach'
<1> SUFFICES ASSUME NEW t \in Sockets, NEW p \in Sockets, t # p,
                    InChannel(p)', <<t, p, "join">> \notin overlap'
             PROVE  /\ InChannel(t)'
                         => p \in view'[t].peers \/ OnWay(p, t, "newPeer")'
                    /\ join'[t].pc = "producers" => p \in join'[t].peers
  BY DEF PeersReach
<1>1. /\ Lasting /\ StoreTypeOK
      /\ <<t, p, "join">> \notin overlap
  BY LastingStep, OverlapsStep, TypeParts
<1> DEFINE e == Event("newPeer", p)
<1>2. e \in Events /\ e.kind = "newPeer" /\ e.of = p
  BY EventTyped, KindsTyped
<1>3. Hears(t, e) => p \in view'[t].peers
  <2> HIDE DEF e
  <2> QED
    BY <1>2 DEF Hears, PeersAfter
<1>4. CASE ~InChannel(p)
  <2>1. Commit(p) /\ Joining(p)
    BY <1>4, EnterStep DEF Commit, Enter, Joining
  <2>2. Committed(p)
    BY <2>1, CommitEffect
  <2>3. join'[t] = join[t] /\ join[t].pc # "producers"
    BY <1>1, <2>1, JoinPcs DEF JoinMove, Overlaps, Joining
  <2>4. ASSUME InChannel(t)'
        PROVE  p \in view'[t].peers \/ OnWay(p, t, "newPeer")'
    <3>1. InChannel(t)
      <4>1. ~Commit(t)
        BY <2>3 DEF Commit, Enter
      <4> QED
        BY <2>4, <4>1, EnterStep
    <3>2. CASE home[t] = home[p]
      BY <1>3, <2>2, <3>1, <3>2 DEF Committed
    <3>3. CASE home[t] # home[p]
      <4>1. Way(p, t) \in Links /\ Way(p, t)[1] = home[p]
        BY <1>1, <3>3, WayTyped DEF Way
      <4>2. On(link'[Way(p, t)], Event("newPeer", p))
        BY <1>2, <2>2, <4>1 DEF Committed, Published
      <4> QED
        BY <1>1, <3>3, <4>2 DEF OnWay, Way, Lasting
    <3> QED
      BY <3>2, <3>3
  <2> QED
    BY <2>3, <2>4
<1>5. CASE InChannel(p)
  <2>1. ASSUME InChannel(t)'
        PROVE  p \in view'[t].peers \/ OnWay(p, t, "newPeer")'
    <3>1. CASE InChannel(t)
      <4>1. CASE p \in view[t].peers
        <5>1. ASSUME NEW f \in Events, Hears(t, f), p \notin view'[t].peers
              PROVE  f = Event("peerClosed", p)
          <6>1. f.kind = "peerClosed" /\ f.of = p
            BY <4>1, <5>1 DEF Hears, PeersAfter
          <6> QED
            BY <6>1, EventFields
        <5>2. leave[p] # "done" /\ ~LeaveTell(p)
          BY <1>5, StaysQuiet DEF LeaveStep
        <5>3. ~(home[p] # home[t] /\ On(link[Way(p, t)], Event("peerClosed", p)))
          BY <1>1, <5>2, WayTyped DEF EventsAreTrue
        <5>4. ~Sends(p, "peerClosed")
          BY <5>2 DEF Sends, Says
        <5>5. Event("peerClosed", p).kind = "peerClosed" /\ Event("peerClosed", p).of = p
          BY EventTyped, KindsTyped
        <5>6. ~Commit(t)
          BY <3>1, StaysQuiet
        <5>7. ASSUME NEW q \in Sockets, Answers(t, q)
              PROVE  p \in view'[t].peers
          BY <4>1, <5>7 DEF Answers
        <5> HIDE DEF e
        <5> QED
          BY <4>1, <5>1, <5>3, <5>4, <5>5, <5>6, <5>7, ViewSteps DEF Views
      <4>2. CASE OnWay(p, t, "newPeer")
        BY <1>3, <3>1, <4>2, WayStep, KindsTyped
      <4> QED
        BY <1>1, <1>5, <3>1, <4>1, <4>2 DEF PeersReach
    <3>2. CASE Commit(t)
      <4>1. join[t].pc = "producers" /\ Committed(t)
        BY <3>2, CommitEffect DEF Commit, Enter
      <4> QED
        BY <1>1, <1>5, <4>1 DEF Committed, PeersReach
    <3> QED
      BY <2>1, <3>1, <3>2, EnterStep
  <2>2. ASSUME join'[t].pc = "producers"
        PROVE  p \in join'[t].peers
    <3>1. p \in peersHash
      BY <1>5 DEF PeersStored
    <3>2. join[t].pc = "producers" => p \in join[t].peers
      BY <1>1, <1>5 DEF PeersReach
    <3> QED
      BY <2>2, <3>1, <3>2, ReadStep
  <2> QED
    BY <2>1, <2>2
<1> QED
  BY <1>4, <1>5

(* Only its own leave says that a peer is gone.                            *)
LEMMA DoneStep ==
    ASSUME TypeOK, [Next]_vars, NEW p \in Sockets, leave'[p] = "done"
    PROVE  leave[p] = "done" \/ LeaveTell(p)
<1>1. StoreTypeOK
  BY TypeParts
<1>2. ASSUME NEW s \in Sockets, JoinStart(s) \/ JoinStep(s) \/ GoesOn(s)
      PROVE  UNCHANGED leave
  BY <1>1, <1>2, GoesOnEffect
     DEF JoinStart, JoinStep, AddPeer, ReadPeers, ReadProducers, Commit, Enter,
         handlerVars
<1>3. ASSUME NEW s \in Sockets, Disconnect(s)
      PROVE  leave[p] = "done"
  BY <1>1, <1>3 DEF Disconnect, StoreTypeOK
<1>4. ASSUME NEW s \in Sockets, LeaveStep(s)
      PROVE  leave[p] = "done" \/ LeaveTell(p)
  BY <1>1, <1>4, LeaveMoves DEF LeaveStep, LeaveMove
<1> QED
  BY <1>2, <1>3, <1>4, Cases, RequestFrame, ToggleFrame DEF handlerVars

LEMMA LeavesReachStep ==
    ASSUME TypeOK, ClientsInOrder, PeersStored, Overlaps, EventsAreTrue,
           LeavesReach, [Next]_vars
    PROVE  LeavesReach'
<1> SUFFICES ASSUME NEW t \in Sockets, NEW p \in Sockets, t # p,
                    leave'[p] = "done"
             PROVE  /\ home'[p] # home'[t]
                         => Followed(link'[Way(p, t)'], Event("newPeer", p),
                                                        Event("peerClosed", p))
                    /\ <<t, p, "leave">> \notin overlap' =>
                         /\ InChannel(t)' /\ p \in view'[t].peers
                               => OnWay(p, t, "peerClosed")'
                         /\ join'[t].pc = "producers" => p \notin join'[t].peers
  BY DEF LeavesReach
<1> DEFINE new    == Event("newPeer", p)
           closed == Event("peerClosed", p)
<1>1. /\ Lasting /\ StoreTypeOK
      /\ Way(p, t)' = Way(p, t)
      /\ overlap \subseteq overlap'
  BY LastingStep, OverlapsStep, TypeParts DEF Lasting, Way
<1>2. /\ new \in Events /\ new.kind = "newPeer" /\ new.of = p
      /\ closed \in Events /\ closed.kind = "peerClosed" /\ closed.of = p
      /\ new # closed
  BY EventTyped, KindsTyped, EventsDiffer
<1>3. Hears(t, closed) => p \notin view'[t].peers
  <2> HIDE DEF closed
  <2> QED
    BY <1>2 DEF Hears, PeersAfter
<1>4. CASE LeaveTell(p)
  <2>1. /\ leave[p] = "last"
        /\ Emitted(p, closed)
        /\ UNCHANGED <<home, client, join>>
    BY <1>2, <1>4, EmitEffect DEF LeaveTell
  <2>2. ASSUME home[p] # home[t]
        PROVE  /\ Followed(link'[Way(p, t)], new, closed)
               /\ On(link'[Way(p, t)], closed)
    <3>1. Way(p, t) \in Links /\ Way(p, t)[1] = home[p]
      BY <1>1, <2>2, WayTyped DEF Way
    <3> HIDE DEF new, closed
    <3> QED
      BY <1>2, <2>1, <3>1 DEF Emitted, Published
  <2>3. InChannel(t) /\ home[t] = home[p] => p \notin view'[t].peers
    BY <1>3, <2>1 DEF Emitted
  <2>4. Joining(t) => <<t, p, "leave">> \in overlap'
    BY <1>1, <2>1 DEF Overlaps, Leaving
  <2>5. join'[t].pc = "producers" => Joining(t)
    BY <2>1 DEF Joining
  <2>6. InChannel(t)' <=> InChannel(t)
    BY <2>1 DEF InChannel
  <2> QED
    BY <1>1, <2>1, <2>2, <2>3, <2>4, <2>5, <2>6 DEF OnWay
<1>5. CASE leave[p] = "done"
  <2>1. ~Commit(p) /\ p \notin peersHash
    BY <1>5 DEF ClientsInOrder, Joining, Commit, Enter, PeersStored
  <2>2. ASSUME home[p] # home[t]
        PROVE  Followed(link'[Way(p, t)], new, closed)
    <3>1. Way(p, t) \in Links /\ Followed(link[Way(p, t)], new, closed)
      BY <1>1, <1>5, <2>2, WayTyped DEF LeavesReach
    <3>2. ASSUME NEW s \in Sockets, NEW kind \in EventKinds,
                 new = Event(kind, s)
          PROVE  kind = "newPeer" /\ s = p
      BY <3>2, EventsDiffer
    <3>3. ~\E s \in Sockets :
             \/ Commit(s) /\ new = Event("newPeer", s)
             \/ \E kind \in EventKinds \ {"newPeer"} :
                   Sends(s, kind) /\ new = Event(kind, s)
      <4> HIDE DEF new
      <4> QED
        BY <2>1, <3>2, KindsTyped
    <3> HIDE DEF new, closed
    <3> QED
      BY <1>2, <3>1, <3>3, FollowedStep
  <2>3. ASSUME <<t, p, "leave">> \notin overlap', InChannel(t)',
               p \in view'[t].peers
        PROVE  OnWay(p, t, "peerClosed")'
    <3>1. CASE InChannel(t) /\ p \in view[t].peers
      <4>1. OnWay(p, t, "peerClosed")
        BY <1>1, <1>5, <2>3, <3>1 DEF LeavesReach
      <4> QED
        BY <1>3, <2>3, <3>1, <4>1, WayStep, KindsTyped
    <3>2. CASE InChannel(t) /\ p \notin view[t].peers
      <4>1. ASSUME NEW f \in Events, Hears(t, f)
            PROVE  f = new
        <5>1. f.kind = "newPeer" /\ f.of = p
          BY <2>3, <3>2, <4>1 DEF Hears, PeersAfter
        <5> QED
          BY <5>1, EventFields
      <4>2. ~Commit(t)
        BY <3>2, StaysQuiet
      <4>3. ASSUME NEW q \in Sockets, Answers(t, q)
            PROVE  FALSE
        BY <2>3, <3>2, <4>3 DEF Answers
      <4>4. /\ home[p] # home[t]
            /\ Followed(link[Way(p, t)], new, closed)
                  => On(link'[Way(p, t)], closed)
        <5> HIDE DEF new, closed
        <5> QED
          BY <1>2, <2>1, <2>3, <3>2, <4>1, <4>2, <4>3, ViewSteps DEF Views
      <4>5. Followed(link[Way(p, t)], new, closed)
        BY <1>5, <4>4 DEF LeavesReach
      <4> QED
        BY <1>1, <4>4, <4>5 DEF OnWay, Lasting
    <3>3. CASE Commit(t)
      <4>1. join[t].pc = "producers" /\ Committed(t)
        BY <3>3, CommitEffect DEF Commit, Enter
      <4>2. p \notin join[t].peers
        BY <1>1, <1>5, <2>3, <4>1 DEF LeavesReach
      <4> QED
        BY <2>3, <4>1, <4>2 DEF Committed
    <3> QED
      BY <2>3, <3>1, <3>2, <3>3, EnterStep
  <2>4. ASSUME <<t, p, "leave">> \notin overlap', join'[t].pc = "producers"
        PROVE  p \notin join'[t].peers
    <3>1. join[t].pc = "producers" => p \notin join[t].peers
      BY <1>1, <1>5, <2>4 DEF LeavesReach
    <3> QED
      BY <2>1, <2>4, <3>1, ReadStep
  <2> QED
    BY <1>1, <2>2, <2>3, <2>4 DEF Lasting
<1> QED
  BY <1>4, <1>5, DoneStep

-----------------------------------------------------------------------------
(* The producer of a peer in the channel is changed by its toggles only.   *)
LEMMA ProducerStays ==
    ASSUME TypeOK, ClientsInOrder, RequestsInOrder, [Next]_vars,
           NEW p \in Sockets, InChannel(p), p \in announced,
           \A q \in TogglesOf(p) : ~ToggleStep(q)
    PROVE  producer'[p] = producer[p]
<1>1. StoreTypeOK /\ ~Producing(p) /\ ~LeaveStep(p)
  BY TypeParts, StaysQuiet DEF RequestsInOrder
<1>2. CASE UNCHANGED producer
  BY <1>2
<1>3. ASSUME NEW s \in Sockets,
             JoinStart(s) \/ JoinStep(s) \/ GoesOn(s) \/ Disconnect(s)
      PROVE  UNCHANGED producer
  BY <1>1, <1>3, GoesOnEffect
     DEF JoinStart, JoinStep, AddPeer, ReadPeers, ReadProducers, Commit, Enter,
         Disconnect, handlerVars
<1>4. ASSUME NEW s \in Sockets, LeaveStep(s)
      PROVE  producer'[p] = producer[p]
  BY <1>1, <1>4, LeaveMoves DEF LeaveStep, LeaveMove
<1>5. ASSUME NEW s \in Sockets \ {p}, Requesting(s)
      PROVE  producer'[p] = producer[p]
  BY <1>5, RequestMoves2, RequestMoves3
     DEF Requesting, RequestStep, ProducerBecomes
<1>6. ASSUME Requesting(p)
      PROVE  producer'[p] = producer[p]
  BY <1>1, <1>6, RequestMoves2, RequestMoves3 DEF Requesting, RequestStep
<1>7. ASSUME NEW r \in Toggles, ToggleStep(r)
      PROVE  producer'[p] = producer[p]
  <2>1. r[1] # p
    BY <1>7 DEF TogglesOf
  <2> QED
    BY <1>7, <2>1, ToggleProducer DEF ProducerBecomes
<1> QED
  BY <1>2, <1>3, <1>4, <1>5, <1>6, <1>7, Cases

LEMMA SayingTyped ==
    ASSUME NEW p \in Sockets
    PROVE  /\ Saying(p) \in {"producerPaused", "producerResumed"}
           /\ Opposite(p) \in {"producerPaused", "producerResumed"}
           /\ Saying(p) # Opposite(p)
           /\ Event(Saying(p), p) \in Events /\ Event(Opposite(p), p) \in Events
<1>1. /\ Saying(p) \in {"producerPaused", "producerResumed"}
      /\ Opposite(p) \in {"producerPaused", "producerResumed"}
      /\ Saying(p) # Opposite(p)
  BY DEF Saying, Opposite
<1> QED
  BY <1>1, EventTyped, KindsTyped

(* What is said after a step of the producer's own handler.                *)
LEMMA ToldToggles ==
    ASSUME TypeOK, EventsAreTrue', ViewsAreTrue', [Next]_vars,
           NEW p \in Sockets, NEW r \in TogglesOf(p),
           Tell(r), producer[p] = Wanted(r)
    PROVE  ToldOf(p)'
<1>1. /\ r[1] = p
      /\ producer' = producer
      /\ UNCHANGED <<home, client>>
  BY DEF TogglesOf, Tell
<1> DEFINE said  == Event(Saying(p), p)
           other == Event(Opposite(p), p)
<1>2. /\ Saying(p)' = Saying(p) /\ Opposite(p)' = Opposite(p)
      /\ said' = said /\ other' = other
  BY <1>1 DEF Saying, Opposite
<1>3. /\ said \in Events /\ other \in Events /\ said # other
      /\ said.kind = Saying(p) /\ said.of = p
  BY SayingTyped, EventTyped, EventsDiffer, KindsTyped
<1>4. Emitted(p, said)
  <2>1. Saying(p) = Says(r)
    BY DEF Saying, Wanted, Says
  <2>2. Emit(p, said)
    BY <1>1, <2>1 DEF Tell
  <2> HIDE DEF said
  <2> QED
    BY <1>3, <2>2, EmitEffect
<1>5. ASSUME NEW l \in Links
      PROVE  Followed(link'[l], other, said)
  <2>1. CASE l[1] = home[p]
    <3> HIDE DEF said, other
    <3> QED
      BY <1>3, <1>4, <2>1 DEF Emitted, Published
  <2>2. CASE l[1] # home[p]
    <3>1. \A kind \in EventKinds : On(link'[l], Event(kind, p)) => home'[p] = l[1]
      BY DEF EventsAreTrue
    <3>2. ~On(link'[l], other)
      BY <1>1, <2>2, <3>1, SayingTyped, KindsTyped
    <3> QED
      BY <3>2 DEF Followed, On
  <2> QED
    BY <2>1, <2>2
<1>6. ASSUME NEW t \in Sockets, InChannel(t)'
      PROVE  \/ view'[t].heard[p] \in {"none", producer'[p]}
             \/ OnWay(p, t, Saying(p))'
  <2>1. InChannel(t)
    BY <1>1, <1>6 DEF InChannel
  <2>2. CASE t = p
    BY <2>2 DEF ViewsAreTrue
  <2>3. CASE t # p /\ home[t] = home[p]
    <3>1. Hears(t, said)
      BY <1>4, <2>1, <2>3 DEF Emitted
    <3> HIDE DEF said
    <3>2. view'[t].heard[p] = HeardAfter(said, p, view[t].heard[p])
      BY <3>1 DEF Hears
    <3>3. producer[p] = "paused" \/ producer[p] = "playing"
      BY DEF Wanted
    <3> QED
      BY <1>1, <1>3, <3>2, <3>3 DEF HeardAfter, Saying
  <2>4. CASE home[t] # home[p]
    <3>1. Way(p, t) \in Links /\ Way(p, t)[1] = home[p]
      BY <2>4, WayTyped, TypeParts DEF Way
    <3>2. On(link'[Way(p, t)], said)
      BY <1>3, <1>4, <3>1 DEF Emitted, Published
    <3> QED
      BY <1>1, <1>2, <2>4, <3>2 DEF OnWay, Way
  <2> QED
    BY <2>2, <2>3, <2>4
<1> QED
  BY <1>1, <1>2, <1>5, <1>6 DEF ToldOf

(* What was said about a producer remains so while nothing changes it.     *)
LEMMA UntoldToggles ==
    ASSUME TypeOK, ClientsInOrder, RequestsInOrder, EventsAreTrue,
           ViewsAreTrue, [Next]_vars,
           NEW p \in Sockets, InChannel(p), p \in announced,
           producer'[p] = producer[p],
           \A q \in TogglesOf(p) : ~Tell(q),
           ToldOf(p)
    PROVE  ToldOf(p)'
<1> DEFINE said  == Event(Saying(p), p)
           other == Event(Opposite(p), p)
<1>1. /\ Saying(p)' = Saying(p) /\ Opposite(p)' = Opposite(p)
      /\ said' = said /\ other' = other
  BY DEF Saying, Opposite
<1>2. /\ said \in Events /\ other \in Events /\ said # other
      /\ said.kind = Saying(p) /\ said.of = p
  BY SayingTyped, EventTyped, EventsDiffer, KindsTyped
<1>3. \A l \in Links : Followed(link[l], other, said)
  BY DEF ToldOf
<1>4. ASSUME NEW s \in Sockets, NEW kind \in EventKinds, Sends(s, kind)
      PROVE  other # Event(kind, s) /\ said # Event(kind, s)
  <2>1. s = p => kind \notin {"producerPaused", "producerResumed"}
    BY <1>4 DEF Sends
  <2> QED
    BY <2>1, EventsDiffer, SayingTyped
<1>5. ASSUME NEW l \in Links
      PROVE  Followed(link'[l], other, said)
  <2>1. \A s \in Sockets : other # Event("newPeer", s)
    BY EventsDiffer, SayingTyped
  <2> HIDE DEF said, other
  <2> QED
    BY <1>2, <1>3, <1>4, <2>1, FollowedStep
<1>6. ASSUME NEW t \in Sockets, InChannel(t)'
      PROVE  \/ view'[t].heard[p] \in {"none", producer[p]}
             \/ OnWay(p, t, Saying(p))'
  <2>1. CASE Commit(t) /\ client[t] = "new"
    <3>1. view'[t].heard[p] = view[t].heard[p]
      BY <2>1, CommitEffect DEF Committed
    <3> QED
      BY <2>1, <3>1 DEF ViewsAreTrue
  <2>2. CASE InChannel(t)
    <3>1. CASE view'[t].heard[p] = view[t].heard[p]
      <4>1. producer[p] \in {"playing", "paused"}
        BY TypeParts DEF RequestsInOrder, ClientsInOrder, InChannel,
              StoreTypeOK, ProducerStates
      <4>2. Hears(t, said) => view'[t].heard[p] = producer[p]
        <5> HIDE DEF said
        <5> QED
          BY <1>2, <4>1 DEF Hears, HeardAfter, Saying
      <4>3. OnWay(p, t, Saying(p)) =>
               OnWay(p, t, Saying(p))' \/ Hears(t, said)
        <5>1. PICK k \in EventKinds : k = Saying(p)
          BY SayingTyped, KindsTyped
        <5>2. OnWay(p, t, k) => OnWay(p, t, k)' \/ Hears(t, Event(k, p))
          BY <2>2, WayStep
        <5>3. OnWay(p, t, k)' => OnWay(p, t, Saying(p))'
          BY <1>1, <5>1 DEF OnWay
        <5> QED
          BY <5>1, <5>2, <5>3
      <4> QED
        BY <2>2, <3>1, <4>2, <4>3 DEF ToldOf
    <3>2. CASE view'[t].heard[p] # view[t].heard[p]
      <4>1. ~Commit(t)
        BY <2>2, StaysQuiet
      <4>2. ASSUME NEW q \in Sockets, Answers(t, q)
            PROVE  FALSE
        BY <3>2, <4>2 DEF Answers
      <4>3. PICK e \in Events :
               /\ Hears(t, e)
               /\ \/ /\ home[e.of] # home[t]
                     /\ \A g \in Events : Followed(link[Way(e.of, t)], e, g)
                           => On(link'[Way(e.of, t)], g)
                  \/ Sends(e.of, e.kind) \/ e.kind = "newPeer"
        BY <3>2, <4>1, <4>2, ViewSteps DEF Views
      <4>4. /\ e.of = p /\ e.kind \in {"producerPaused", "producerResumed"}
            /\ e = said \/ e = other
        <5>1. /\ e.of = p
              /\ e.kind \in {"producerPaused", "producerResumed"}
          BY <3>2, <4>3 DEF Hears, HeardAfter
        <5>2. e.kind = Saying(p) \/ e.kind = Opposite(p)
          BY <5>1 DEF Saying, Opposite
        <5> QED
          BY <5>1, <5>2, EventFields
      <4>5. /\ home[p] # home[t]
            /\ \A g \in Events : Followed(link[Way(p, t)], e, g)
                  => On(link'[Way(p, t)], g)
        <5>1. ~Sends(p, e.kind)
          BY <4>4 DEF Sends
        <5> QED
          BY <4>3, <4>4, <5>1
      <4>6. CASE e = said
        <5>1. producer[p] \in {"playing", "paused"}
          BY TypeParts DEF RequestsInOrder, ClientsInOrder, InChannel,
                StoreTypeOK, ProducerStates
        <5>2. view'[t].heard[p] = HeardAfter(e, p, view[t].heard[p])
          BY <4>3 DEF Hears
        <5>3. e.of = p /\ e.kind = Saying(p)
          BY <1>2, <4>6
        <5> QED
          BY <5>1, <5>2, <5>3 DEF HeardAfter, Saying
      <4>7. CASE e = other
        <5>1. Way(p, t) \in Links
          BY <4>5, WayTyped, TypeParts
        <5>2. On(link'[Way(p, t)], said)
          <6> HIDE DEF said, other
          <6> QED
            BY <1>2, <1>3, <4>5, <4>7, <5>1
        <5>3. home' = home
          BY LastingStep DEF Lasting
        <5> QED
          BY <1>1, <4>5, <5>2, <5>3 DEF OnWay, Way
      <4> QED
        BY <4>4, <4>6, <4>7
    <3> QED
      BY <3>1, <3>2
  <2> QED
    BY <1>6, <2>1, <2>2, EnterStep
<1> QED
  BY <1>1, <1>5, <1>6 DEF ToldOf

(* A toggle that goes on was not a start; the last one is alone.           *)
LEMMA LastStep ==
    ASSUME TypeOK, TogglesInOrder, [Next]_vars,
           NEW r \in Toggles, IsLastToggle(r)', ~ToggleIs(r, {"unused"})
    PROVE  /\ IsLastToggle(r)
           /\ toggle'[r].apart = toggle[r].apart
           /\ \A q \in TogglesOf(r[1]) \ {r} : ~Pending(q) => ~ToggleStep(q)
<1>1. BoundTypeOK /\ MaxToggles \in Nat
  BY TypeParts, EventsBounds
<1>2. IsLastToggle(r)
  <2>1. ASSUME NEW k \in r[2] + 1 .. MaxToggles
        PROVE  toggle[<<r[1], k>>].pc = "unused"
    <3>1. <<r[1], k>> \in Toggles
      BY <1>1 DEF Toggles
    <3>2. ToggleIs(<<r[1], k>>, {"unused"})'
      BY <2>1 DEF IsLastToggle, ToggleIs
    <3> QED
      BY <3>1, <3>2, UsedStays DEF ToggleIs
  <2> QED
    BY <2>1 DEF IsLastToggle, ToggleIs
<1>3. toggle'[r].apart = toggle[r].apart
  <2>1. ASSUME ToggleStep(r)
        PROVE  toggle'[r].apart = toggle[r].apart
    <3>1. ~\E do : ToggleStart(r, do)
      BY DEF ToggleStart, IsNextToggle, ToggleIs
    <3> QED
      BY <1>1, <2>1, <3>1, ToggleSteps
  <2> QED
    BY <2>1, UsedStep
<1>4. ASSUME NEW q \in TogglesOf(r[1]) \ {r}, ~Pending(q), ToggleStep(q)
      PROVE  FALSE
  <2>1. q \in Toggles /\ q[1] = r[1] /\ q[2] # r[2]
    BY <1>4, TogglerTyped DEF TogglesOf
  <2>2. PICK do : ToggleStart(q, do)
    BY <1>1, <1>4, <2>1, ToggleSteps
  <2>3. ToggleIs(q, {"unused"}) /\ ~ToggleIs(q, {"unused"})'
    BY <1>1, <2>1, <2>2, ToggleStarts DEF ToggleAt, ToggleStart, IsNextToggle, ToggleIs
  <2>4. q = <<r[1], q[2]>> /\ q[2] \in 1 .. MaxToggles /\ r[2] \in 1 .. MaxToggles
    BY <2>1, TogglerTyped
  <2>5. CASE q[2] < r[2]
    <3>1. q[2] \in 1 .. r[2] - 1
      BY <1>1, <2>4, <2>5
    <3> QED
      BY <2>3, <2>4, <3>1 DEF TogglesInOrder
  <2>6. CASE q[2] > r[2]
    <3>1. q[2] \in r[2] + 1 .. MaxToggles
      BY <1>1, <2>4, <2>6
    <3> QED
      BY <2>3, <2>4, <3>1 DEF IsLastToggle, ToggleIs
  <2> QED
    BY <1>1, <2>1, <2>4, <2>5, <2>6
<1> QED
  BY <1>2, <1>3, <1>4

LEMMA TogglesReachStep ==
    ASSUME TypeOK, ClientsInOrder, RequestsInOrder, TogglesInOrder,
           EventsAreTrue, ViewsAreTrue, TogglesReach, [Next]_vars
    PROVE  TogglesReach'
<1> SUFFICES ASSUME NEW r \in Toggles, InChannel(r[1])', IsLastToggle(r)',
                    toggle'[r].apart
             PROVE  ToggleReaches(r)'
  BY DEF TogglesReach
<1> DEFINE p == r[1]
<1>1. /\ EventsAreTrue' /\ ViewsAreTrue' /\ BoundTypeOK
      /\ p \in Sockets /\ r \in TogglesOf(p)
  BY EventsTrueStep, ViewsTrueStep, TogglerTyped, TypeParts
<1> HIDE DEF p
<1>2. CASE ToggleIs(r, {"unused"})
  <2>1. ~ToggleIs(r, {"unused"})'
    BY DEF IsLastToggle, ToggleIs
  <2>2. ToggleStep(r)
    BY <1>2, <2>1, UsedStep DEF ToggleIs
  <2>3. ToggleAt(r, "peer") /\ Apart(r[1])
    BY <1>1, <1>2, <2>2, ToggleSteps DEF ToggleIs, Pending
  <2>4. \A q \in TogglesOf(r[1]) \ {r} : ~Pending(q)'
    BY <2>3 DEF Apart, ToggleAt, TogglesOf, Pending, ToggleIs
  <2>5. toggle'[r].pc = "peer"
    BY <2>3 DEF ToggleAt
  <2> QED
    BY <2>4, <2>5 DEF ToggleReaches, ToggleIs, TogglesOf
<1>3. CASE ~ToggleIs(r, {"unused"})
  <2>1. /\ IsLastToggle(r) /\ toggle[r].apart
        /\ \A q \in TogglesOf(r[1]) \ {r} : ~Pending(q) => ~ToggleStep(q)
    BY <1>3, LastStep
  <2>2. p \in announced /\ InChannel(p)
    <3>1. p \in announced
      BY <1>3 DEF TogglesInOrder, p
    <3> QED
      BY <1>1, <3>1, EnterStep DEF RequestsInOrder, p
  <2>3. ToggleReaches(r)
    BY <2>1, <2>2 DEF TogglesReach, p
  <2>4. \A q \in TogglesOf(r[1]) \ {r} : ~ToggleStep(q) /\ ~Pending(q)
    BY <2>1, <2>3 DEF ToggleReaches
  <2>5. \A q \in TogglesOf(r[1]) \ {r} : ~Pending(q)'
    BY <2>4, UsedStep DEF TogglesOf, Pending, ToggleIs
  <2>6. CASE ToggleStep(r)
    <3>1. ~\E do : ToggleStart(r, do)
      BY <1>3 DEF ToggleStart, IsNextToggle, ToggleIs
    <3>2. CASE Tell(r) /\ ToggleAt(r, "told")
      <4>1. producer[p] = Wanted(r)
        BY <2>3, <3>2 DEF ToggleReaches, Tell, p
      <4>2. ToldOf(p)'
        BY <1>1, <3>2, <4>1, ToldToggles
      <4>3. toggle'[r].pc = "told"
        BY <3>2 DEF ToggleAt
      <4> QED
        BY <2>5, <4>2, <4>3 DEF ToggleReaches, ToggleIs, TogglesOf, p
    <3>3. CASE /\ NodeToggles(r) /\ IsOpen(r[1]) /\ ToggleAt(r, "tell")
               /\ toggle'[r].do = toggle[r].do
      <4>1. producer' = [producer EXCEPT ![p] = Wanted(r)]
        BY <3>3 DEF NodeToggles, Apply, p
      <4>2. producer'[p] = Wanted(r)
        BY <1>1, <4>1, TypeParts DEF StoreTypeOK
      <4>3. toggle'[r].pc = "tell" /\ Wanted(r)' = Wanted(r)
        BY <3>3 DEF ToggleAt, Wanted
      <4> QED
        BY <2>5, <4>2, <4>3 DEF ToggleReaches, ToggleIs, TogglesOf, p
    <3>4. ASSUME NEW pc \in {"node", "over", "late"}, ToggleAt(r, pc)
          PROVE  ToggleReaches(r)'
      <4>1. toggle'[r].pc = pc
        BY <3>4 DEF ToggleAt
      <4> QED
        BY <2>5, <4>1 DEF ToggleReaches, ToggleIs, TogglesOf
    <3> QED
      BY <1>1, <2>6, <3>1, <3>2, <3>3, <3>4, ToggleSteps
  <2>7. CASE ~ToggleStep(r)
    <3>1. toggle'[r] = toggle[r]
      BY <2>7, UsedStep
    <3>2. \A q \in TogglesOf(p) : ~ToggleStep(q) /\ ~Tell(q)
      BY <2>4, <2>7 DEF ToggleStep, p
    <3>3. producer'[p] = producer[p]
      BY <1>1, <2>2, <3>2, ProducerStays
    <3>4. ToldOf(p) => ToldOf(p)'
      BY <1>1, <2>2, <3>2, <3>3, UntoldToggles
    <3>5. Wanted(r)' = Wanted(r)
      BY <3>1 DEF Wanted
    <3> QED
      BY <2>3, <2>5, <3>1, <3>3, <3>4, <3>5
         DEF ToggleReaches, ToggleIs, TogglesOf, p
  <2> QED
    BY <2>6, <2>7
<1> QED
  BY <1>2, <1>3

-----------------------------------------------------------------------------
(***************************************************************************)
(* The inductive invariant, and what follows from it.                      *)
(***************************************************************************)
Handlers == /\ ClientsInOrder /\ PeersStored /\ RequestsInOrder
            /\ TogglesInOrder /\ Overlaps
Truth    == EventsAreTrue /\ ViewsAreTrue
Reach    == ProducersReach /\ PeersReach /\ LeavesReach /\ TogglesReach
Inv      == TypeOK /\ Handlers /\ Truth /\ Reach

LEMMA InvInit ==
    ASSUME Init
    PROVE  Inv
<1>1. TypeOK
  BY TypeInit
<1>2. /\ NotJoining.pc = "idle"
      /\ NoRequest.pc = "idle" /\ NoRequest.do = "nothing"
      /\ \A p \in Sockets : /\ Unaware.consume[p] = "none"
                            /\ Unaware.heard[p] = "none"
  BY DEF NotJoining, NoRequest, Unaware
<1>3. \A s \in Sockets :
         /\ client[s] = "new" /\ leave[s] = "none" /\ producer[s] = "none"
         /\ join[s] = NotJoining /\ request[s] = NoRequest
         /\ view[s] = Unaware /\ s \notin announced
  BY DEF Init
<1>4. \A l \in Links : link[l] = <<>>
  BY DEF Init
<1>5. Handlers
  <2>1. TogglesInOrder
    BY DEF Init, TogglesInOrder, ToggleIs, NoToggle
  <2> QED
    BY <1>2, <1>3, <2>1
       DEF Handlers, ClientsInOrder, PeersStored, RequestsInOrder, Overlaps,
           Joining, Producing, InChannel
<1>6. Truth
  <2>1. \A l \in Links : \A e : ~On(link[l], e)
    BY <1>4, NothingOnEmpty
  <2>2. EventsAreTrue
    BY <2>1 DEF EventsAreTrue
  <2>3. ViewsAreTrue
    BY <1>2, <1>3 DEF ViewsAreTrue
  <2> QED
    BY <2>2, <2>3 DEF Truth
<1>7. Reach
  <2>1. \A p \in Sockets : ~InChannel(p)
    BY <1>3 DEF InChannel
  <2>2. TogglesReach
    BY <2>1, TogglerTyped DEF TogglesReach
  <2> QED
    BY <1>3, <2>2 DEF Reach, ProducersReach, PeersReach, LeavesReach, InChannel
<1> QED
  BY <1>1, <1>5, <1>6, <1>7 DEF Inv

LEMMA InvStep ==
    ASSUME Inv, [Next]_vars
    PROVE  Inv'
<1>1. TypeOK /\ Handlers /\ Truth /\ Reach
  BY DEF Inv
<1>2. TypeOK'
  BY <1>1, TypeStep
<1>3. Handlers'
  BY <1>1, ClientsStep, PeersStep, RequestsStep, TogglesStep, OverlapsStep,
     LastingStep DEF Handlers, Lasting
<1>4. Truth'
  BY <1>1, EventsTrueStep, ViewsTrueStep DEF Handlers, Truth
<1>5. Reach'
  BY <1>1, ProducersReachStep, PeersReachStep, LeavesReachStep, TogglesReachStep
     DEF Handlers, Truth, Reach
<1> QED
  BY <1>2, <1>3, <1>4, <1>5 DEF Inv

THEOREM Invariant == Spec => []Inv
<1>1. Init => Inv
  BY InvInit
<1>2. Inv /\ [Next]_vars => Inv'
  BY InvStep
<1> QED
  BY <1>1, <1>2, PTL DEF Spec

LEMMA NothingOnTheWay ==
    ASSUME StoreTypeOK, NEW t \in Sockets, NEW p \in Sockets, NEW kind,
           \A l \in Links : l[1] = home[p] => link[l] = <<>>
    PROVE  ~OnWay(p, t, kind)
<1>1. home[p] # home[t] => Way(p, t) \in Links /\ Way(p, t)[1] = home[p]
  BY WayTyped DEF Way
<1> QED
  BY <1>1, NothingOnEmpty DEF OnWay

(* Between the backfill of a join and the broadcast of a produce no client *)
(* misses a producer, on whichever instances the two handlers run, unless  *)
(* they ran at the same time.                                              *)
THEOREM NoProducerIsMissed == Spec => []ProducersAreKnown
<1>1. ASSUME Inv
      PROVE  ProducersAreKnown
  <2>1. StoreTypeOK /\ ProducersReach
    BY <1>1, TypeParts DEF Inv, Reach
  <2>2. SUFFICES ASSUME Quiet, NEW t \in Sockets, NEW p \in Sockets,
                        t # p, InChannel(t), InChannel(p), p \in announced,
                        <<t, p, "produce">> \notin overlap
                 PROVE  KnowsProducer(t, p)
    BY DEF ProducersAreKnown
  <2>3. ~OnWay(p, t, "newProducer")
    BY <2>1, <2>2, NothingOnTheWay DEF Quiet
  <2> QED
    BY <2>1, <2>2, <2>3 DEF ProducersReach
<1> QED
  BY <1>1, Invariant, PTL

(* Clients know of each other and forget who left, if their handlers did   *)
(* not overlap: answers, newPeer and peerClosed leave no gap and no ghost. *)
THEOREM NoPeerIsMissed == Spec => []PeersAreKnown
<1>1. ASSUME Inv
      PROVE  PeersAreKnown
  <2>1. StoreTypeOK /\ PeersReach /\ LeavesReach
    BY <1>1, TypeParts DEF Inv, Reach
  <2>2. SUFFICES ASSUME Quiet, NEW t \in Sockets, NEW p \in Sockets,
                        t # p, InChannel(t)
                 PROVE  /\ InChannel(p) /\ <<t, p, "join">> \notin overlap
                              => p \in view[t].peers
                        /\ leave[p] = "done" /\ <<t, p, "leave">> \notin overlap
                              => p \notin view[t].peers
    BY DEF PeersAreKnown
  <2>3. \A kind : ~OnWay(p, t, kind)
    BY <2>1, <2>2, NothingOnTheWay DEF Quiet
  <2> QED
    BY <2>1, <2>2, <2>3 DEF PeersReach, LeavesReach
<1> QED
  BY <1>1, Invariant, PTL

(* When the last pause or resume of a producer is told and its events have *)
(* arrived, what a client last heard is whether the producer is paused,    *)
(* whatever became of those before it: as long as they were over when it   *)
(* began.                                                                  *)
THEOREM NoPauseIsLost == Spec => []PauseIsKnown
<1>1. ASSUME Inv
      PROVE  PauseIsKnown
  <2>1. StoreTypeOK /\ TogglesReach
    BY <1>1, TypeParts DEF Inv, Reach
  <2>2. SUFFICES ASSUME NEW t \in Sockets, NEW p \in Sockets,
                        InChannel(t), InChannel(p),
                        NEW r \in TogglesOf(p),
                        IsLastToggle(r), ToggleIs(r, {"told"}), toggle[r].apart,
                        \A l \in Links : l[1] = home[p] => link[l] = <<>>,
                        view[t].heard[p] # "none"
                 PROVE  view[t].heard[p] = producer[p]
    BY DEF PauseIsKnown
  <2>3. ~OnWay(p, t, Saying(p))
    BY <2>1, <2>2, NothingOnTheWay
  <2>4. r \in Toggles /\ r[1] = p
    BY DEF TogglesOf
  <2>5. ToldOf(p)
    BY <2>1, <2>2, <2>4 DEF TogglesReach, ToggleReaches
  <2> QED
    BY <2>2, <2>3, <2>5 DEF ToldOf
<1> QED
  BY <1>1, Invariant, PTL

(* A client that is ready when it is told of a producer is not refused it, *)
(* unless its owner has left: nothing is announced before the node has it. *)
THEOREM NobodyIsRefused == Spec => []ReadyClientCanConsume
<1>1. Inv => ReadyClientCanConsume
  BY DEF Inv, Truth, ViewsAreTrue, ReadyClientCanConsume
<1> QED
  BY <1>1, Invariant, PTL
=============================================================================
