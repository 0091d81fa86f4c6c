------------------------- MODULE MediaStreamsProofs -------------------------
(***************************************************************************)
(* Theorems about MediaStreams, for every number of rooms, peers, workers, *)
(* routers, transports, producers and consumers and of requests under way  *)
(* at once, however many fail.                                             *)
(***************************************************************************)
EXTENDS MediaStreams, MediaRoomsProofs

-----------------------------------------------------------------------------
(***************************************************************************)
(* What the streams need of the rooms they are in.                         *)
(***************************************************************************)

(* What a peer sends or receives with is open, on its own router, as long  *)
(* as that router is, and closed after.                                    *)
FieldsAreOpen ==
    \A x \in Routers, p \in PeerIds : peers[x][p] # None =>
        \A t \in {send[peers[x][p]], recv[peers[x][p]]} : t # None =>
            /\ transport[t].state = router[x].state
            /\ router[x].state = "open" => transport[t].on = x

(* No two peers, nor the two directions of one peer, share a transport.    *)
FieldsApart ==
    \A x, y \in Routers, p, q \in PeerIds :
        LET o == peers[x][p]
            u == peers[y][q]
        IN  o # None /\ u # None =>
               /\ send[o] # None /\ send[o] = send[u] => o = u
               /\ recv[o] # None /\ recv[o] = recv[u] => o = u
               /\ send[o] # None => send[o] # recv[u]

RoomInv ==
    TypeOK /\ OpenRouterUnder /\ SlotsApart /\ FieldsAreOpen /\ FieldsApart

(* The ways a step changes peers and transports.                           *)
Opened(x) ==
    /\ router[x].state = "closed"
    /\ \E r \in RoomIds, w \in Workers :
          router' = [router EXCEPT ![x] = [state |-> "open", room |-> r,
                                           worker |-> w]]
    /\ peers' = [peers EXCEPT ![x] = NoPeers]
    /\ UNCHANGED <<send, recv, transport>>

Removal(x, p) == RemoveFromRoom(x, p) /\ UNCHANGED router

Asked(x, p, o) ==
    /\ peers[x][p] = None
    /\ FreePeer(o)
    /\ peers' = [peers EXCEPT ![x] = [peers[x] EXCEPT ![p] = o]]
    /\ send' = [send EXCEPT ![o] = None]
    /\ recv' = [recv EXCEPT ![o] = None]
    /\ UNCHANGED <<router, transport>>

Installed(t, k) ==
    /\ FreeTransport(t)
    /\ k \in CreateCalls
    /\ peers[k.room][k.id] = k.peer
    /\ Install(t, k)
    /\ UNCHANGED <<peers, router>>

LEMMA PeerSteps ==
    ASSUME TypeOK, [Next]_vars
    PROVE  \/ UNCHANGED <<peers, send, recv, transport, router>>
           \/ \E x \in Routers : Opened(x)
           \/ \E r \in RoomIds, x \in Routers : FinishClose(r, x)
           \/ \E x \in Routers, p \in PeerIds : Removal(x, p)
           \/ \E x \in Routers, p \in PeerIds, o \in PeerObjects : Asked(x, p, o)
           \/ \E t \in Transports, k \in CreateCalls : Installed(t, k)
<1> DEFINE Quiet == UNCHANGED <<peers, send, recv, transport, router>>
<1>1. ASSUME NEW r \in RoomIds, RouterCreated(r)
      PROVE  \E x \in Routers : Opened(x)
  <2>1. pendingRooms[r] \in Workers
    BY <1>1 DEF RouterCreated, TypeOK
  <2>2. PICK x \in Routers :
          /\ router[x].state = "closed"
          /\ router' = [router EXCEPT ![x] = [state |-> "open", room |-> r,
                                              worker |-> pendingRooms[r]]]
          /\ peers' = [peers EXCEPT ![x] = NoPeers]
    BY <1>1 DEF RouterCreated, FreeRouter
  <2>3. UNCHANGED <<send, recv, transport>>
    BY <1>1 DEF RouterCreated
  <2> QED
    BY <2>1, <2>2, <2>3 DEF Opened
<1>2. ASSUME NEW r \in RoomIds, CloseRoom(r)
      PROVE  \E x \in Routers : FinishClose(r, x)
  <2>1. rooms[r] \in Routers
    BY <1>2 DEF CloseRoom, TypeOK
  <2> QED
    BY <1>2, <2>1 DEF CloseRoom
<1>3. ASSUME NEW c \in Calls, RecordingStopped(c)
      PROVE  \E r \in RoomIds, x \in Routers : FinishClose(r, x)
  <2>1. call[c].id \in RoomIds /\ call[c].room \in Routers
    BY <1>3, CallContext DEF RecordingStopped, CloseCalls
  <2> QED
    BY <1>3, <2>1 DEF RecordingStopped
<1>4. ASSUME NEW r \in RoomIds, NEW p \in PeerIds, RemovePeer(r, p)
      PROVE  \E x \in Routers : Removal(x, p)
  <2>1. rooms[r] \in Routers
    BY <1>4 DEF RemovePeer, TypeOK
  <2> QED
    BY <1>4, <2>1 DEF RemovePeer, Removal
<1>5. ASSUME NEW c \in Calls, TransportFails(c)
      PROVE  Quiet \/ \E x \in Routers, p \in PeerIds : Removal(x, p)
  <2>1. call[c].room \in Routers /\ call[c].id \in PeerIds
    BY <1>5, CallContext DEF TransportFails, CreateCalls
  <2> QED
    BY <1>5, <2>1 DEF TransportFails, Removal
<1>6. ASSUME NEW c \in Calls, TransportCreated(c)
      PROVE  Quiet \/ \E t \in Transports, k \in CreateCalls : Installed(t, k)
  <2>1. call[c] \in CreateCalls
    BY <1>6, CallContext DEF TransportCreated
  <2> QED
    BY <1>6, <2>1 DEF TransportCreated, Installed
<1>7. ASSUME NEW c \in Calls, NEW r \in RoomIds, NEW p \in PeerIds,
             NEW d \in {"send", "recv"}, CreateTransport(c, r, p, d)
      PROVE  Quiet \/ \E x \in Routers, o \in PeerObjects : Asked(x, p, o)
  <2>1. PICK x \in Routers, o \in PeerObjects, existed \in BOOLEAN :
           TransportAsked(c, r, p, d, x, o, existed)
    BY <1>7, CreateTransportSteps
  <2>2. UNCHANGED <<router, transport>>
    BY <1>7 DEF CreateTransport
  <2> QED
    BY <2>1, <2>2 DEF TransportAsked, Asked
<1>8. ASSUME NEW r \in RoomIds,
             \/ CreateRoom(r) \/ RouterFails(r)
             \/ \E on \in BOOLEAN : SetRecording(r, on)
             \/ \E c \in Calls : CloseRecordedRoom(c, r)
      PROVE  Quiet
  BY <1>8 DEF CreateRoom, RouterFails, SetRecording, CloseRecordedRoom
<1>9. ASSUME NEW c \in Calls, StopFails(c) PROVE Quiet
  BY <1>9 DEF StopFails
<1>10. CASE UNCHANGED vars
  BY <1>10 DEF vars
<1> HIDE DEF Quiet
<1>11. ASSUME Next
       PROVE  \/ Quiet
              \/ \E x \in Routers : Opened(x)
              \/ \E r \in RoomIds, x \in Routers : FinishClose(r, x)
              \/ \E x \in Routers, p \in PeerIds : Removal(x, p)
              \/ \E x \in Routers, p \in PeerIds, o \in PeerObjects :
                    Asked(x, p, o)
              \/ \E t \in Transports, k \in CreateCalls : Installed(t, k)
  BY <1>11, <1>1, <1>2, <1>3, <1>4, <1>5, <1>6, <1>7, <1>8, <1>9 DEF Next
<1> QED
  BY <1>10, <1>11 DEF Quiet

(* What the streams may count on in a step of the rooms: a peer that stays *)
(* stays where it is; one that goes closes its transports; a transport     *)
(* that stays open stays what it was, and its peer's.                      *)
PeersKept ==
    \A x, y \in Routers, p, q \in PeerIds :
        peers[x][p] # None /\ peers'[y][q] = peers[x][p] => y = x /\ q = p

StaysOpen(t) == transport[t].state = "open" /\ transport'[t].state = "open"

FieldsKept ==
    \A x \in Routers, p \in PeerIds :
        peers[x][p] # None /\ peers'[x][p] = peers[x][p] =>
            \A t \in Transports : StaysOpen(t) =>
                /\ send[peers[x][p]] = t => send'[peers[x][p]] = t
                /\ recv[peers[x][p]] = t => recv'[peers[x][p]] = t

TransportsKept ==
    \A t \in Transports : StaysOpen(t) => transport'[t] = transport[t]

LeaversClose ==
    \A x \in Routers, p \in PeerIds :
        peers[x][p] # None /\ peers'[x][p] # peers[x][p] =>
            \A t \in Transports : t \in {send[peers[x][p]], recv[peers[x][p]]} =>
                transport'[t].state = "closed"

KeptApart == SlotsApart' /\ FieldsAreOpen' /\ FieldsApart'
Effects   == PeersKept /\ FieldsKept /\ TransportsKept /\ LeaversClose

LEMMA QuietEffects ==
    ASSUME RoomInv, UNCHANGED <<peers, send, recv, transport, router>>
    PROVE  KeptApart /\ Effects
<1>1. KeptApart
  BY DEF RoomInv, KeptApart, SlotsApart, FieldsAreOpen, FieldsApart
<1>2. PeersKept
  BY DEF RoomInv, PeersKept, SlotsApart
<1> QED
  BY <1>1, <1>2 DEF Effects, FieldsKept, TransportsKept, LeaversClose

(* A router that is opened has no peers yet, and nothing on it was open.   *)
LEMMA OpenedEffects ==
    ASSUME RoomInv, NEW x \in Routers, Opened(x)
    PROVE  KeptApart /\ Effects
<1>1. /\ router[x].state = "closed"
      /\ \A y \in Routers : y # x => router'[y] = router[y] /\ peers'[y] = peers[y]
      /\ \A p \in PeerIds : peers'[x][p] = None
      /\ UNCHANGED <<send, recv, transport>>
  BY DEF RoomInv, TypeOK, Opened, NoPeers
<1>2. \A y \in Routers, q \in PeerIds : peers'[y][q] # None =>
         y # x /\ peers'[y][q] = peers[y][q]
  BY <1>1
<1>3. SlotsApart'
  BY <1>2 DEF RoomInv, SlotsApart
<1>4. FieldsAreOpen'
  BY <1>1, <1>2 DEF RoomInv, FieldsAreOpen
<1>5. FieldsApart'
  BY <1>1, <1>2 DEF RoomInv, FieldsApart
<1>6. PeersKept
  BY <1>2 DEF RoomInv, PeersKept, SlotsApart
<1>7. FieldsKept /\ TransportsKept
  BY <1>1 DEF FieldsKept, TransportsKept
<1>8. LeaversClose
  <2> SUFFICES ASSUME NEW y \in Routers, NEW q \in PeerIds,
                      peers[y][q] # None, peers'[y][q] # peers[y][q],
                      NEW t \in Transports,
                      t \in {send[peers[y][q]], recv[peers[y][q]]}
               PROVE  transport'[t].state = "closed"
    BY DEF LeaversClose
  <2>1. y = x
    BY <1>1
  <2>2. transport[t].state = router[x].state
    BY <2>1, NoneIsNothing DEF RoomInv, FieldsAreOpen
  <2> QED
    BY <1>1, <2>2
<1> QED
  BY <1>3, <1>4, <1>5, <1>6, <1>7, <1>8 DEF KeptApart, Effects

(* A room that closes closes what its peers send and receive with.         *)
LEMMA ClosingEffects ==
    ASSUME RoomInv, NEW r \in RoomIds, NEW x \in Routers, FinishClose(r, x)
    PROVE  KeptApart /\ Effects
<1>1. /\ router'[x].state = "closed"
      /\ \A y \in Routers : y # x => router'[y] = router[y]
      /\ \A t \in Transports :
            transport'[t] = IF transport[t].on = x THEN NoTransport
                            ELSE transport[t]
      /\ UNCHANGED <<peers, send, recv>>
  BY DEF RoomInv, TypeOK, FinishClose, Close
<1>2. /\ SlotsApart'
      /\ FieldsApart'
      /\ PeersKept
  BY <1>1 DEF RoomInv, SlotsApart, FieldsApart, PeersKept
<1>3. FieldsAreOpen'
  <2> SUFFICES ASSUME NEW y \in Routers, NEW p \in PeerIds, peers[y][p] # None,
                      NEW t \in {send[peers[y][p]], recv[peers[y][p]]}, t # None
               PROVE  /\ transport'[t].state = router'[y].state
                      /\ router'[y].state = "open" => transport'[t].on = y
    BY <1>1 DEF FieldsAreOpen
  <2>1. /\ transport[t].state = router[y].state
        /\ router[y].state = "open" => transport[t].on = y
    BY DEF RoomInv, FieldsAreOpen
  <2>2. t \in Transports
    BY DEF RoomInv, TypeOK
  <2>3. router[y].state \in {"open", "closed"}
    BY DEF RoomInv, TypeOK
  <2> QED
    BY <1>1, <2>1, <2>2, <2>3 DEF NoTransport
<1>4. FieldsKept /\ TransportsKept /\ LeaversClose
  BY <1>1 DEF FieldsKept, TransportsKept, LeaversClose, StaysOpen, NoTransport
<1> QED
  BY <1>2, <1>3, <1>4 DEF KeptApart, Effects

(* A peer that is removed takes its own transports with it, no others.     *)
LEMMA RemovalEffects ==
    ASSUME RoomInv, NEW x \in Routers, NEW p \in PeerIds, Removal(x, p)
    PROVE  KeptApart /\ Effects
<1>1. CASE peers[x][p] = None
  BY <1>1, QuietEffects DEF Removal, RemoveFromRoom
<1>2. CASE peers[x][p] # None
  <2> DEFINE o == peers[x][p]
  <2>1. /\ \A t \in Transports :
              transport'[t] = IF t \in {send[o], recv[o]} THEN NoTransport
                              ELSE transport[t]
        /\ peers' = [peers EXCEPT ![x][p] = None]
        /\ send' = [send EXCEPT ![o] = None]
        /\ recv' = [recv EXCEPT ![o] = None]
        /\ UNCHANGED router
    BY <1>2 DEF Removal, RemoveFromRoom, Close
  <2>2. /\ peers'[x][p] = None
        /\ \A y \in Routers, q \in PeerIds :
              ~(y = x /\ q = p) => peers'[y][q] = peers[y][q]
    BY <2>1 DEF RoomInv, TypeOK
  <2>3. \A u \in PeerObjects : u # o => send'[u] = send[u] /\ recv'[u] = recv[u]
    BY <2>1 DEF RoomInv, TypeOK
  <2>4. \A y \in Routers, q \in PeerIds : peers'[y][q] # None =>
           /\ peers'[y][q] = peers[y][q] /\ peers[y][q] # o
           /\ peers[y][q] \in PeerObjects
    BY <1>2, <2>2 DEF RoomInv, SlotsApart, TypeOK
  <2> HIDE DEF o
  <2>5. SlotsApart'
    BY <2>4 DEF RoomInv, SlotsApart
  <2>6. FieldsApart'
    BY <2>3, <2>4 DEF RoomInv, FieldsApart
  <2>7. FieldsAreOpen'
    <3> SUFFICES ASSUME NEW y \in Routers, NEW q \in PeerIds,
                        peers[y][q] # None, peers[y][q] # o,
                        peers[y][q] \in PeerObjects,
                        NEW t \in {send[peers[y][q]], recv[peers[y][q]]}, t # None
                 PROVE  /\ transport'[t].state = router[y].state
                        /\ router[y].state = "open" => transport'[t].on = y
      BY <2>1, <2>3, <2>4 DEF FieldsAreOpen
    <3>1. t \in Transports
      BY DEF RoomInv, TypeOK
    <3>2. t \notin {send[o], recv[o]}
      BY <1>2 DEF RoomInv, FieldsApart, o
    <3> QED
      BY <2>1, <3>1, <3>2 DEF RoomInv, FieldsAreOpen
  <2>8. PeersKept
    BY <2>4 DEF RoomInv, PeersKept, SlotsApart
  <2>9. FieldsKept
    BY <2>3, <2>4 DEF FieldsKept
  <2>10. TransportsKept
    BY <2>1 DEF TransportsKept, StaysOpen, NoTransport
  <2>11. LeaversClose
    BY <2>1, <2>2 DEF LeaversClose, NoTransport, o
  <2> QED
    BY <2>5, <2>6, <2>7, <2>8, <2>9, <2>10, <2>11 DEF KeptApart, Effects
<1> QED
  BY <1>1, <1>2

(* A peer that is brought in is a new one, without a transport.            *)
LEMMA AskedEffects ==
    ASSUME RoomInv, NEW x \in Routers, NEW p \in PeerIds, NEW o \in PeerObjects,
           Asked(x, p, o)
    PROVE  KeptApart /\ Effects
<1>1. /\ peers'[x][p] = o /\ peers[x][p] = None
      /\ send'[o] = None /\ recv'[o] = None
      /\ UNCHANGED <<router, transport>>
      /\ \A y \in Routers, q \in PeerIds :
            ~(y = x /\ q = p) => peers'[y][q] = peers[y][q]
      /\ \A u \in PeerObjects : u # o => send'[u] = send[u] /\ recv'[u] = recv[u]
      /\ \A y \in Routers, q \in PeerIds : peers[y][q] # o
      /\ \A y \in Routers, q \in PeerIds : peers[y][q] \in PeerObjects \cup {None}
  BY DEF RoomInv, TypeOK, Asked, FreePeer
<1>2. SlotsApart'
  BY <1>1 DEF RoomInv, SlotsApart
<1>3. FieldsAreOpen'
  BY <1>1 DEF RoomInv, FieldsAreOpen
<1>4. FieldsApart'
  BY <1>1 DEF RoomInv, FieldsApart
<1>5. PeersKept
  BY <1>1 DEF RoomInv, PeersKept, SlotsApart
<1>6. FieldsKept /\ TransportsKept /\ LeaversClose
  BY <1>1 DEF FieldsKept, TransportsKept, LeaversClose
<1> QED
  BY <1>2, <1>3, <1>4, <1>5, <1>6 DEF KeptApart, Effects

(* A transport that is installed was nobody's, and closes the one it takes *)
(* the place of.                                                           *)
LEMMA InstalledEffects ==
    ASSUME RoomInv, NEW t \in Transports, NEW k \in CreateCalls, Installed(t, k)
    PROVE  KeptApart /\ Effects
<1> DEFINE o   == k.peer
           old == IF k.direction = "send" THEN send[o] ELSE recv[o]
<1>1. /\ k.room \in Routers /\ k.id \in PeerIds /\ o \in PeerObjects
      /\ o # None /\ peers[k.room][k.id] = o
      /\ UNCHANGED <<peers, router>>
  BY NoneIsNothing DEF CreateCalls, Installed
<1>2. /\ transport[t].state = "closed"
      /\ \A y \in Routers, q \in PeerIds : peers[y][q] # None =>
            send[peers[y][q]] # t /\ recv[peers[y][q]] # t
  BY DEF Installed, FreeTransport
<1>3. /\ transport'[t] = [state |-> router[k.room].state, on |-> k.room]
      /\ \A u \in Transports : u # t /\ u # old => transport'[u] = transport[u]
      /\ \A u \in Transports : u # t /\ u = old => transport'[u] = NoTransport
  BY DEF Installed, Install
<1>4. /\ \A u \in PeerObjects : u # o => send'[u] = send[u] /\ recv'[u] = recv[u]
      /\ \/ k.direction = "send" /\ send'[o] = t /\ recv'[o] = recv[o]
         \/ k.direction # "send" /\ recv'[o] = t /\ send'[o] = send[o]
  BY <1>1 DEF RoomInv, TypeOK, Installed, Install
<1>5. \A y \in Routers, q \in PeerIds : peers[y][q] # None =>
         /\ peers[y][q] \in PeerObjects
         /\ send[peers[y][q]] \in Transports \cup {None}
         /\ recv[peers[y][q]] \in Transports \cup {None}
         /\ peers[y][q] = o => y = k.room
  BY <1>1 DEF RoomInv, TypeOK, SlotsApart
(* The replaced transport is in no other field.                            *)
<1>6. \A y \in Routers, q \in PeerIds : peers[y][q] # None =>
         /\ send[peers[y][q]] # None /\ send[peers[y][q]] = old
               => peers[y][q] = o /\ k.direction = "send"
         /\ recv[peers[y][q]] # None /\ recv[peers[y][q]] = old
               => peers[y][q] = o /\ k.direction # "send"
  BY <1>1 DEF RoomInv, FieldsApart
<1> HIDE DEF old
<1>7. SlotsApart' /\ PeersKept
  BY <1>1 DEF RoomInv, SlotsApart, PeersKept
<1>8. FieldsApart'
  BY <1>1, <1>2, <1>4, <1>5 DEF RoomInv, FieldsApart
<1>9. FieldsAreOpen'
  <2> SUFFICES ASSUME NEW y \in Routers, NEW q \in PeerIds, peers[y][q] # None,
                      NEW u \in {send'[peers[y][q]], recv'[peers[y][q]]}, u # None
               PROVE  /\ transport'[u].state = router[y].state
                      /\ router[y].state = "open" => transport'[u].on = y
    BY <1>1 DEF FieldsAreOpen
  <2>1. CASE u = t
    <3>1. peers[y][q] = o
      BY <1>2, <1>4, <1>5, <2>1
    <3> QED
      BY <1>3, <1>5, <2>1, <3>1
  <2>2. CASE u # t
    <3>1. u \in {send[peers[y][q]], recv[peers[y][q]]} /\ u \in Transports
      BY <1>4, <1>5, <2>2
    <3>2. u # old
      BY <1>4, <1>5, <1>6, <2>2, <3>1
    <3> QED
      BY <1>3, <2>2, <3>1, <3>2 DEF RoomInv, FieldsAreOpen
  <2> QED
    BY <2>1, <2>2
<1>10. FieldsKept
  <2> SUFFICES ASSUME NEW y \in Routers, NEW q \in PeerIds, peers[y][q] # None,
                      NEW u \in Transports, StaysOpen(u)
               PROVE  /\ send[peers[y][q]] = u => send'[peers[y][q]] = u
                      /\ recv[peers[y][q]] = u => recv'[peers[y][q]] = u
    BY DEF FieldsKept
  <2>1. u # old /\ u # t
    BY <1>2, <1>3 DEF StaysOpen, NoTransport
  <2> QED
    BY <1>4, <1>5, <2>1 DEF old
<1>11. TransportsKept
  BY <1>2, <1>3 DEF TransportsKept, StaysOpen, NoTransport
<1>12. LeaversClose
  BY <1>1 DEF LeaversClose
<1> QED
  BY <1>7, <1>8, <1>9, <1>10, <1>11, <1>12 DEF KeptApart, Effects

LEMMA RoomEffects ==
    ASSUME RoomInv, [Next]_vars
    PROVE  KeptApart /\ Effects
<1>1. TypeOK
  BY DEF RoomInv
<1> QED
  BY <1>1, PeerSteps, QuietEffects, OpenedEffects, ClosingEffects, RemovalEffects,
     AskedEffects, InstalledEffects

-----------------------------------------------------------------------------
(***************************************************************************)
(* The streams.                                                            *)
(***************************************************************************)
(* Peer object o of router x sends (a producer has no source) or receives  *)
(* with transport t.                                                       *)
Uses(o, x, t, source) ==
    /\ o # None
    /\ \E p \in PeerIds : peers[x][p] = o
    /\ source = None => t = send[o]
    /\ source # None => t = recv[o]

IsOpenOn(t, x) ==
    t \in Transports /\ transport[t].state = "open" /\ transport[t].on = x

(* An open stream is in the map of the peer that uses its transport, which *)
(* is open.                                                                *)
StreamsAreHeld ==
    \A z \in Streams : stream[z].state = "open" =>
        /\ IsOpenOn(stream[z].on, stream[z].router)
        /\ \E o \in PeerObjects :
              /\ z \in held[o]
              /\ Uses(o, stream[z].router, stream[z].on, stream[z].source)

(* The producer of an open consumer is open, on the same router.           *)
SourcesAreOpen ==
    \A z \in Streams : stream[z].state = "open" /\ stream[z].source # None =>
        LET from == stream[z].source
        IN  /\ stream[from].state = "open"
            /\ stream[from].router = stream[z].router
            /\ stream[from].source = None

(* The maps of the peers in rooms hold the streams there are, each once.   *)
MapsAreApart ==
    \A o \in PeerObjects : \A z \in held[o] :
        /\ InRoom(o)
        /\ stream[z].state # "closed"
        /\ \A u \in PeerObjects : z \in held[u] => u = o

(* A suspended request that is not late has a transport that is open, of a *)
(* peer that is there; one that is late has a peer that had a transport    *)
(* replaced, or none.                                                      *)
RequestsAreTrue ==
    \A c \in Calls : LET k == awaiting[c] IN k.op # "none" =>
        /\ ~k.late => IsOpenOn(k.on, k.router) /\ Uses(k.peer, k.router, k.on, k.source)
        /\ k.late /\ k.peer # None => k.peer \in replaced
        /\ k.peer # None => InRoom(k.peer)
        /\ k.source # None /\ stream[k.source].state # "closed" =>
              /\ stream[k.source].source = None
              /\ stream[k.source].router = k.router

(* A ghost is in the map of a peer that had a transport replaced.          *)
GhostsAreHeld ==
    \A o \in PeerObjects : \A z \in held[o] :
        stream[z].state = "ghost" => o \in replaced

StreamInv ==
    /\ StreamTypeOK
    /\ StreamsAreHeld
    /\ SourcesAreOpen
    /\ MapsAreApart
    /\ RequestsAreTrue
    /\ GhostsAreHeld

StreamRecords == [state : {"open", "closed", "ghost"},
                  on : Transports \cup {None}, router : Routers \cup {None},
                  source : Streams \cup {None}]
Waiting == [op : {"produce", "consume"}, room : RoomIds, id : PeerIds,
            peer : PeerObjects \cup {None}, on : Transports, router : Routers,
            source : Streams \cup {None}, late : BOOLEAN]

(* A request that is suspended has all it needs.                           *)
LEMMA StreamTypes ==
    ASSUME StreamTypeOK
    PROVE  /\ stream \in [Streams -> StreamRecords]
           /\ held \in [PeerObjects -> SUBSET Streams]
           /\ awaiting \in [Calls -> {NoRequest} \cup Waiting]
           /\ \A c \in Calls : awaiting[c].op # "none" => awaiting[c] \in Waiting
           /\ replaced \in SUBSET PeerObjects
BY DEF StreamTypeOK, StreamRecords, Waiting, NoRequest

LEMMA NoStreamType == NoStream \in StreamRecords
BY DEF NoStream, StreamRecords

-----------------------------------------------------------------------------
(***************************************************************************)
(* The streams in a step of the rooms.                                     *)
(***************************************************************************)
(* How a request goes on.                                                  *)
Onward(k) == [k EXCEPT !.peer = IF @ # None /\ Removed(@) THEN None ELSE @,
                       !.late = @ \/ Closes(k.on)]

LEMMA RequestsOnward ==
    ASSUME StreamTypeOK, RequestsGoOn, NEW c \in Calls
    PROVE  /\ awaiting[c].op = "none" => awaiting'[c] = awaiting[c]
           /\ awaiting[c].op # "none" =>
                 LET k == awaiting[c]
                 IN  /\ awaiting'[c] \in Waiting
                     /\ awaiting'[c].op = k.op /\ awaiting'[c].on = k.on
                     /\ awaiting'[c].router = k.router
                     /\ awaiting'[c].source = k.source
                     /\ awaiting'[c].late <=> (k.late \/ Closes(k.on))
                     /\ awaiting'[c].peer =
                           IF k.peer # None /\ Removed(k.peer) THEN None
                           ELSE k.peer
<1> DEFINE k == awaiting[c]
<1>1. awaiting'[c] = IF k.op = "none" THEN k ELSE Onward(k)
  BY DEF RequestsGoOn, Onward
<1>2. ASSUME k.op # "none"
      PROVE  /\ Onward(k) \in Waiting
             /\ Onward(k).op = k.op /\ Onward(k).on = k.on
             /\ Onward(k).router = k.router /\ Onward(k).source = k.source
             /\ Onward(k).late <=> (k.late \/ Closes(k.on))
             /\ Onward(k).peer = IF k.peer # None /\ Removed(k.peer) THEN None
                                 ELSE k.peer
  <2>1. k \in Waiting
    BY <1>2, StreamTypes
  <2> DEFINE gone == k.peer # None /\ Removed(k.peer)
             shut == k.late \/ Closes(k.on)
  <2>2. Onward(k) = [k EXCEPT !.peer = IF gone THEN None ELSE k.peer,
                              !.late = shut]
    BY <2>1 DEF Onward, Waiting
  <2>3. shut \in BOOLEAN
    BY <2>1 DEF Waiting
  <2> HIDE DEF gone, shut, k
  <2>4. /\ Onward(k) \in Waiting
        /\ Onward(k).op = k.op /\ Onward(k).on = k.on
        /\ Onward(k).router = k.router /\ Onward(k).source = k.source
        /\ Onward(k).late = shut
        /\ Onward(k).peer = IF gone THEN None ELSE k.peer
    BY <2>1, <2>2, <2>3 DEF Waiting
  <2> QED
    BY <2>4 DEF gone, shut
<1> QED
  BY <1>1, <1>2

(* The rooms' step leaves the streams typed.                               *)
LEMMA RoomStepTyped ==
    ASSUME StreamTypeOK, RoomStep
    PROVE  StreamTypeOK'
<1>1. stream' \in [Streams -> StreamRecords]
  BY StreamTypes, NoStreamType DEF RoomStep, StreamsClose
<1>2. held' \in [PeerObjects -> SUBSET Streams]
  BY StreamTypes DEF RoomStep, StreamsClose
<1>3. awaiting' \in [Calls -> {NoRequest} \cup Waiting]
  <2>1. \A c \in Calls : awaiting'[c] \in {NoRequest} \cup Waiting
    BY StreamTypes, RequestsOnward DEF RoomStep
  <2> QED
    BY <2>1 DEF RoomStep, RequestsGoOn
<1>4. replaced' \in SUBSET PeerObjects
  BY DEF RoomStep
<1> QED
  BY <1>1, <1>2, <1>3, <1>4 DEF StreamTypeOK, StreamRecords, Waiting

(* Whoever uses a transport that stays open stays, and goes on using it.   *)
KeepsUsing(o, x, t, source) ==
    /\ \E p \in PeerIds : peers'[x][p] = o
    /\ source = None => t = send'[o]
    /\ source # None => t = recv'[o]

LEMMA StaysInUse ==
    ASSUME Effects, NEW o, NEW x \in Routers, NEW t \in Transports,
           NEW source, Uses(o, x, t, source), StaysOpen(t)
    PROVE  KeepsUsing(o, x, t, source)
<1>1. PICK p \in PeerIds : o = peers[x][p] /\ o # None
  BY DEF Uses
<1>2. t \in {send[o], recv[o]} /\ transport'[t].state # "closed"
  BY DEF Uses, StaysOpen
<1>3. peers'[x][p] = o
  BY <1>1, <1>2 DEF Effects, LeaversClose
<1> QED
  BY <1>1, <1>3 DEF Effects, FieldsKept, Uses, KeepsUsing

(* A stream that is open after the step was open before it, on a transport *)
(* that stays open, and its peer stays.                                    *)
LEMMA Survivors ==
    ASSUME RoomInv, TypeOK', StreamInv, StreamsClose, NEW z \in Streams,
           stream'[z].state = "open"
    PROVE  /\ stream'[z] = stream[z]
           /\ z \notin Ended /\ z \notin Forgotten
           /\ stream[z].on \in Transports /\ stream[z].router \in Routers
           /\ StaysOpen(stream[z].on)
<1>1. /\ z \notin Ended /\ z \notin Forgotten
      /\ stream'[z] = stream[z] /\ stream[z].state = "open"
  BY DEF StreamsClose, NoStream
<1>2. /\ stream[z].on \in Transports
      /\ transport[stream[z].on].state = "open"
      /\ transport[stream[z].on].on = stream[z].router
  BY <1>1 DEF StreamInv, StreamsAreHeld, IsOpenOn
<1>3. stream[z].router \in Routers
  BY <1>2 DEF RoomInv, OpenRouterUnder
<1>4. transport'[stream[z].on].state # "closed"
  BY <1>1, <1>2 DEF Ended, OnClosing, Closes
<1>5. transport'[stream[z].on].state = "open"
  BY <1>2, <1>4 DEF TypeOK
<1> QED
  BY <1>1, <1>2, <1>3, <1>5 DEF StaysOpen

(* A step of the rooms leaves every open stream with the peer it was with, *)
(* on a transport that is open.                                            *)
LEMMA HeldStep ==
    ASSUME RoomInv, TypeOK', Effects, StreamInv, StreamsClose
    PROVE  StreamsAreHeld'
<1> SUFFICES ASSUME NEW z \in Streams, stream'[z].state = "open"
             PROVE  /\ IsOpenOn(stream[z].on, stream[z].router)'
                    /\ \E o \in PeerObjects :
                          /\ z \in held'[o]
                          /\ Uses(o, stream[z].router, stream[z].on,
                                  stream[z].source)'
  BY DEF StreamsAreHeld
<1> DEFINE x == stream[z].router
           on == stream[z].on
           from == stream[z].source
<1>1. /\ stream'[z] = stream[z] /\ z \notin Ended /\ z \notin Forgotten
      /\ on \in Transports /\ x \in Routers /\ StaysOpen(on)
  BY Survivors
<1>2. PICK o \in PeerObjects : z \in held[o] /\ Uses(o, x, on, from)
  BY <1>1 DEF StreamInv, StreamsAreHeld
<1>3. transport'[on] = transport[on] /\ transport[on].state = "open"
  BY <1>1 DEF Effects, TransportsKept, StaysOpen
<1>4. transport[on].on = x
  BY <1>1 DEF StreamInv, StreamsAreHeld, IsOpenOn
<1> HIDE DEF x, on, from
<1>5. KeepsUsing(o, x, on, from)
  BY <1>1, <1>2, StaysInUse DEF x, on
<1>6. z \in held'[o] /\ o # None
  BY <1>1, <1>2 DEF StreamsClose, Uses
<1> QED
  BY <1>1, <1>3, <1>4, <1>5, <1>6 DEF IsOpenOn, Uses, KeepsUsing, x, on, from

(* Of a consumer that stays open, the producer stays open.                 *)
LEMMA SourcesStep ==
    ASSUME RoomInv, TypeOK', Effects, StreamInv, StreamsClose
    PROVE  SourcesAreOpen'
<1> SUFFICES ASSUME NEW z \in Streams, stream'[z].state = "open",
                    stream'[z].source # None
             PROVE  LET from == stream'[z].source
                    IN  /\ stream'[from].state = "open"
                        /\ stream'[from].router = stream'[z].router
                        /\ stream'[from].source = None
  BY DEF SourcesAreOpen
<1> DEFINE from == stream[z].source
<1>1. stream'[z] = stream[z] /\ z \notin Ended
  BY Survivors
<1>2. from \in Streams
  BY <1>1, StreamTypes DEF StreamInv, StreamRecords
<1>3. /\ stream[from].state = "open" /\ stream[from].source = None
      /\ stream[from].router = stream[z].router
  BY <1>1 DEF StreamInv, SourcesAreOpen
<1>4. ~OnClosing(from)
  BY <1>1, <1>2, <1>3 DEF Ended
<1>5. from \notin Ended
  BY <1>2, <1>3, <1>4 DEF Ended
<1>6. from \notin Forgotten
  <2> SUFFICES ASSUME NEW o \in PeerObjects, Removed(o), from \in held[o]
               PROVE  FALSE
    BY DEF Forgotten
  <2> DEFINE on == stream[from].on
             x == stream[from].router
  <2>1. PICK u \in PeerObjects : from \in held[u] /\ Uses(u, x, on, None)
    BY <1>2, <1>3 DEF StreamInv, StreamsAreHeld
  <2>2. u = o
    BY <2>1 DEF StreamInv, MapsAreApart
  <2>3. /\ on \in Transports /\ transport[on].state = "open"
        /\ transport[on].on = x
    BY <1>2, <1>3 DEF StreamInv, StreamsAreHeld, IsOpenOn
  <2>4. x \in Routers
    BY <2>3 DEF RoomInv, OpenRouterUnder
  <2>5. transport'[on].state = "open"
    BY <1>3, <1>4, <2>3 DEF OnClosing, Closes, TypeOK
  <2>6. StaysOpen(on)
    BY <2>3, <2>5 DEF StaysOpen
  <2>7. \E p \in PeerIds : peers'[x][p] = o
    BY <2>1, <2>2, <2>3, <2>4, <2>6, StaysInUse DEF KeepsUsing
  <2> QED
    BY <2>4, <2>7 DEF Removed, Stays
<1>7. stream'[from] = stream[from]
  BY <1>2, <1>5, <1>6 DEF StreamsClose
<1> QED
  BY <1>1, <1>3, <1>7

(* The maps lose what is over, and those of removed peers all they hold.   *)
LEMMA MapsStep ==
    ASSUME StreamInv, StreamsClose
    PROVE  MapsAreApart'
<1> SUFFICES ASSUME NEW o \in PeerObjects, NEW z \in held'[o]
             PROVE  /\ InRoom(o)'
                    /\ stream'[z].state # "closed"
                    /\ \A u \in PeerObjects : z \in held'[u] => u = o
  BY DEF MapsAreApart
<1>1. z \in held[o] /\ z \notin Ended /\ z \notin Forgotten
  BY DEF StreamsClose
<1>2. z \in Streams
  BY <1>1, StreamTypes DEF StreamInv
<1>3. stream'[z] = stream[z] /\ \A u \in PeerObjects : held'[u] \subseteq held[u]
  BY <1>1, <1>2 DEF StreamsClose
<1>4. InRoom(o) /\ ~Removed(o)
  BY <1>1 DEF StreamInv, MapsAreApart, Forgotten
<1> QED
  BY <1>1, <1>3, <1>4 DEF StreamInv, MapsAreApart, Removed, Stays, InRoom

(* A request whose transport closes is late from then on; until then its   *)
(* peer cannot go.                                                         *)
LEMMA RequestsStep ==
    ASSUME RoomInv, TypeOK', Effects, StreamInv, RoomStep
    PROVE  RequestsAreTrue'
<1> SUFFICES ASSUME NEW c \in Calls, awaiting'[c].op # "none"
             PROVE  LET n == awaiting'[c]
                    IN  /\ ~n.late =>
                              /\ n.on \in Transports
                              /\ transport'[n.on].state = "open"
                              /\ transport'[n.on].on = n.router
                              /\ n.peer # None
                              /\ \E p \in PeerIds : peers'[n.router][p] = n.peer
                              /\ n.source = None => n.on = send'[n.peer]
                              /\ n.source # None => n.on = recv'[n.peer]
                        /\ n.late /\ n.peer # None => n.peer \in replaced'
                        /\ n.peer # None =>
                              \E x \in Routers, p \in PeerIds :
                                 peers'[x][p] = n.peer
                        /\ n.source # None /\ stream'[n.source].state # "closed" =>
                              /\ stream'[n.source].source = None
                              /\ stream'[n.source].router = n.router
  BY DEF RequestsAreTrue, IsOpenOn, Uses, InRoom
<1> DEFINE k == awaiting[c]
           n == awaiting'[c]
<1>1. /\ k.op # "none"
      /\ n.on = k.on /\ n.router = k.router /\ n.source = k.source
      /\ n.late <=> (k.late \/ Closes(k.on))
      /\ n.peer = IF k.peer # None /\ Removed(k.peer) THEN None ELSE k.peer
  BY RequestsOnward DEF StreamInv, RoomStep
<1>2. k \in Waiting
  BY <1>1, StreamTypes DEF StreamInv
<1>3. /\ k.on \in Transports /\ k.router \in Routers
      /\ k.peer \in PeerObjects \cup {None} /\ k.source \in Streams \cup {None}
  BY <1>2 DEF Waiting
<1>4. /\ ~k.late => IsOpenOn(k.on, k.router)
                      /\ Uses(k.peer, k.router, k.on, k.source)
      /\ k.late /\ k.peer # None => k.peer \in replaced
      /\ k.peer # None => InRoom(k.peer)
      /\ k.source # None /\ stream[k.source].state # "closed" =>
            /\ stream[k.source].source = None
            /\ stream[k.source].router = k.router
  BY <1>1 DEF StreamInv, RequestsAreTrue
<1> HIDE DEF k, n
<1>5. ASSUME ~n.late
      PROVE  /\ transport'[k.on].state = "open" /\ transport'[k.on].on = k.router
             /\ k.peer # None
             /\ \E p \in PeerIds : peers'[k.router][p] = k.peer
             /\ k.source = None => k.on = send'[k.peer]
             /\ k.source # None => k.on = recv'[k.peer]
             /\ n.peer = k.peer
  <2>1. /\ transport[k.on].state = "open" /\ transport[k.on].on = k.router
        /\ Uses(k.peer, k.router, k.on, k.source)
    BY <1>1, <1>4, <1>5 DEF IsOpenOn
  <2>2. transport'[k.on].state = "open"
    BY <1>1, <1>3, <1>5, <2>1 DEF Closes, TypeOK
  <2>3. StaysOpen(k.on) /\ transport'[k.on] = transport[k.on]
    BY <1>3, <2>1, <2>2 DEF Effects, TransportsKept, StaysOpen
  <2>4. /\ \E p \in PeerIds : peers'[k.router][p] = k.peer
        /\ k.source = None => k.on = send'[k.peer]
        /\ k.source # None => k.on = recv'[k.peer]
    BY <1>3, <2>1, <2>3, StaysInUse DEF KeepsUsing
  <2>5. ~Removed(k.peer)
    BY <1>3, <2>4 DEF Removed, Stays
  <2> QED
    BY <1>1, <2>1, <2>3, <2>4, <2>5 DEF Uses
<1>6. ASSUME n.peer # None
      PROVE  \E x \in Routers, p \in PeerIds : peers'[x][p] = n.peer
  BY <1>1, <1>4, <1>6 DEF Removed, Stays
<1>7. ASSUME n.late, n.peer # None PROVE n.peer \in replaced'
  <2>1. /\ n.peer = k.peer /\ ~Removed(k.peer) /\ k.peer \in PeerObjects
        /\ InRoom(k.peer)
    BY <1>1, <1>3, <1>4, <1>7
  <2>2. replaced' = {o \in PeerObjects : \/ o \in replaced /\ ~Removed(o)
                                         \/ Replaces(o)}
    BY DEF RoomStep
  <2>3. CASE k.late
    BY <1>4, <1>7, <2>1, <2>2, <2>3
  <2>4. CASE ~k.late
    <3>1. k.on \in {send[k.peer], recv[k.peer]} /\ k.on # None
      BY <1>3, <1>4, <2>4, NoneIsNothing DEF Uses
    <3>2. Closes(k.on)
      BY <1>1, <1>7, <2>4
    <3>3. Replaces(k.peer)
      BY <2>1, <3>1, <3>2 DEF Replaces, Removed, Stays
    <3> QED
      BY <2>1, <2>2, <3>3
  <2> QED
    BY <2>3, <2>4
<1>8. ASSUME k.source # None, stream'[k.source].state # "closed"
      PROVE  /\ stream'[k.source].source = None
             /\ stream'[k.source].router = k.router
  <2>1. stream'[k.source] = stream[k.source]
    BY <1>3, <1>8 DEF RoomStep, StreamsClose, NoStream
  <2> QED
    BY <1>4, <1>8, <2>1
<1> QED
  BY <1>1, <1>3, <1>5, <1>6, <1>7, <1>8 DEF n

(* A peer that stays stays among those that had a transport replaced.      *)
LEMMA GhostsStep ==
    ASSUME StreamInv, RoomStep
    PROVE  GhostsAreHeld'
<1> SUFFICES ASSUME NEW o \in PeerObjects, NEW z \in held'[o],
                    stream'[z].state = "ghost"
             PROVE  o \in replaced'
  BY DEF GhostsAreHeld
<1>1. z \in held[o] /\ z \notin Ended /\ z \notin Forgotten
  BY DEF RoomStep, StreamsClose
<1>2. z \in Streams
  BY <1>1, StreamTypes DEF StreamInv
<1>3. stream'[z] = stream[z]
  BY <1>1, <1>2 DEF RoomStep, StreamsClose
<1>4. o \in replaced /\ ~Removed(o)
  BY <1>1, <1>3 DEF StreamInv, GhostsAreHeld, Forgotten
<1> QED
  BY <1>4 DEF RoomStep

(* A step of the rooms keeps the streams' invariant.                       *)
LEMMA RoomStepKeeps ==
    ASSUME RoomInv, TypeOK', StreamInv, RoomStep
    PROVE  StreamInv'
<1>1. Effects /\ StreamsClose
  BY RoomEffects DEF RoomStep
<1>2. StreamTypeOK
  BY DEF StreamInv
<1> QED
  BY <1>1, <1>2, RoomStepTyped, HeldStep, SourcesStep, MapsStep, RequestsStep,
     GhostsStep DEF StreamInv

-----------------------------------------------------------------------------
(***************************************************************************)
(* The streams in their own steps: a request is made, and it is answered.  *)
(***************************************************************************)
(* What a request that is made has found: its transport is the one its     *)
(* peer uses, and what it is to consume is a producer of the room.         *)
Found(r, p, t, source) ==
    /\ rooms[r] # None /\ peers[rooms[r]][p] # None
    /\ t \in Transports
    /\ source = None => t = send[peers[rooms[r]][p]]
    /\ source # None => /\ t = recv[peers[rooms[r]][p]]
                        /\ source \in Streams
                        /\ stream[source].source = None
                        /\ stream[source].router = rooms[r]

LEMMA RequestsFind ==
    ASSUME TypeOK, NEW c \in Calls, NEW r \in RoomIds, NEW p \in PeerIds
    PROVE  /\ Produce(c, r, p) =>
                 \E t \in Transports : /\ Found(r, p, t, None)
                                       /\ Request(c, "produce", r, p, t, None)
           /\ \A z \in Streams : Consume(c, r, p, z) =>
                 \E t \in Transports : /\ Found(r, p, t, z)
                                       /\ Request(c, "consume", r, p, t, z)
<1>1. HasPeer(r, p) =>
        /\ rooms[r] # None /\ peers[rooms[r]][p] # None
        /\ send[peers[rooms[r]][p]] \in Transports \cup {None}
        /\ recv[peers[rooms[r]][p]] \in Transports \cup {None}
  BY DEF TypeOK, HasPeer
<1>2. \A z \in Streams : z # None
  BY StreamsAssumption
<1> QED
  BY <1>1, <1>2 DEF Produce, Consume, CanConsume, Found

(* A request that is made is a true one.                                   *)
LEMMA RequestKeeps ==
    ASSUME RoomInv, NamesAreTrue, StreamInv, UNCHANGED vars,
           NEW op \in {"produce", "consume"}, NEW c \in Calls,
           NEW r \in RoomIds, NEW p \in PeerIds, NEW t \in Transports,
           NEW source, Found(r, p, t, source), Request(c, op, r, p, t, source)
    PROVE  StreamInv'
<1> DEFINE x == rooms[r]
           o == peers[x][p]
           n == [op |-> op, room |-> r, id |-> p, peer |-> o, on |-> t,
                 router |-> x, source |-> source, late |-> FALSE]
<1>1. x \in Routers /\ o \in PeerObjects /\ o # None
  BY DEF Found, RoomInv, TypeOK
<1>2. source \in Streams \cup {None}
  BY DEF Found
<1>3. /\ awaiting' = [awaiting EXCEPT ![c] = n]
      /\ UNCHANGED <<stream, held, replaced>>
  BY DEF Request
<1>4. UNCHANGED <<peers, send, recv, transport>>
  BY DEF vars
<1>5. transport[t].state = "open" /\ transport[t].on = x
  <2>1. router[x].state = "open"
    BY DEF Found, NamesAreTrue
  <2>2. t \in {send[o], recv[o]} /\ t # None
    BY NoneIsNothing DEF Found
  <2> QED
    BY <1>1, <2>1, <2>2 DEF RoomInv, FieldsAreOpen
<1>6. n \in Waiting
  BY <1>1, <1>2 DEF Waiting
<1>7. /\ awaiting'[c] = n
      /\ \A b \in Calls : b # c => awaiting'[b] = awaiting[b]
      /\ awaiting' \in [Calls -> {NoRequest} \cup Waiting]
  BY <1>3, <1>6, StreamTypes DEF StreamInv
<1>8. StreamTypeOK'
  BY <1>3, <1>7, StreamTypes DEF StreamInv, StreamTypeOK, StreamRecords, Waiting
<1>9. StreamsAreHeld' /\ SourcesAreOpen' /\ MapsAreApart' /\ GhostsAreHeld'
  BY <1>3, <1>4 DEF StreamInv, StreamsAreHeld, SourcesAreOpen, MapsAreApart,
     GhostsAreHeld, IsOpenOn, Uses, InRoom
<1>10. RequestsAreTrue'
  <2>1. ASSUME NEW b \in Calls, awaiting'[b].op # "none"
        PROVE  LET k == awaiting'[b]
               IN  /\ ~k.late => /\ IsOpenOn(k.on, k.router)
                                 /\ Uses(k.peer, k.router, k.on, k.source)
                   /\ k.late /\ k.peer # None => k.peer \in replaced
                   /\ k.peer # None => InRoom(k.peer)
                   /\ k.source # None /\ stream[k.source].state # "closed" =>
                         /\ stream[k.source].source = None
                         /\ stream[k.source].router = k.router
    <3>1. CASE b # c
      BY <1>7, <2>1, <3>1 DEF StreamInv, RequestsAreTrue
    <3>2. CASE b = c
      <4>1. /\ IsOpenOn(t, x) /\ Uses(o, x, t, source) /\ InRoom(o)
            /\ source # None => /\ stream[source].source = None
                               /\ stream[source].router = x
        BY <1>1, <1>5 DEF Found, IsOpenOn, Uses, InRoom
      <4>2. awaiting'[b] = n
        BY <1>7, <3>2
      <4> QED
        BY <4>1, <4>2
    <3> QED
      BY <3>1, <3>2
  <2> QED
    BY <1>3, <1>4, <2>1 DEF RequestsAreTrue, IsOpenOn, Uses, InRoom
<1> QED
  BY <1>8, <1>9, <1>10 DEF StreamInv

(* A request that is answered with nothing leaves nothing.                 *)
LEMMA AnswerKeeps ==
    ASSUME StreamInv, UNCHANGED vars, NEW c \in Calls,
           awaiting' = [awaiting EXCEPT ![c] = NoRequest],
           UNCHANGED <<stream, held, replaced>>
    PROVE  StreamInv'
<1>1. UNCHANGED <<peers, send, recv, transport>>
  BY DEF vars
<1>2. /\ awaiting' \in [Calls -> {NoRequest} \cup Waiting]
      /\ \A b \in Calls : awaiting'[b].op # "none" => awaiting'[b] = awaiting[b]
  BY StreamTypes DEF StreamInv, NoRequest
<1>3. StreamTypeOK'
  BY <1>2, StreamTypes DEF StreamInv, StreamTypeOK, StreamRecords, Waiting
<1>4. StreamsAreHeld' /\ SourcesAreOpen' /\ MapsAreApart' /\ GhostsAreHeld'
  BY <1>1 DEF StreamInv, StreamsAreHeld, SourcesAreOpen, MapsAreApart,
     GhostsAreHeld, IsOpenOn, Uses, InRoom
<1>5. RequestsAreTrue'
  BY <1>1, <1>2 DEF StreamInv, RequestsAreTrue, IsOpenOn, Uses, InRoom
<1> QED
  BY <1>3, <1>4, <1>5 DEF StreamInv

(* A stream that is made is put into the map of a peer that is there: open *)
(* and on a transport that is, or a ghost.                                 *)
LEMMA NewStreamKeeps ==
    ASSUME StreamInv, UNCHANGED vars, NEW c \in Calls, NEW z \in Streams,
           Made(c), awaiting[c].peer # None, NewStream(c, z),
           held' = [held EXCEPT ![awaiting[c].peer] = @ \cup {z}]
    PROVE  StreamInv'
<1> DEFINE k == awaiting[c]
           n == [state |-> IF k.late THEN "ghost" ELSE "open",
                 on |-> k.on, router |-> k.router, source |-> k.source]
<1>1. /\ k.op # "none" /\ k.peer # None
      /\ k.source # None => stream[k.source].state = "open"
      /\ awaiting' = [awaiting EXCEPT ![c] = NoRequest]
      /\ stream[z].state = "closed"
      /\ \A b \in Calls : awaiting[b].source # z
      /\ stream' = [stream EXCEPT ![z] = n]
      /\ UNCHANGED <<replaced, peers, send, recv, transport>>
  BY DEF Made, NewStream, Free, vars
<1>2. k \in Waiting
  BY <1>1, StreamTypes DEF StreamInv
<1>3. /\ k.peer \in PeerObjects /\ k.on \in Transports /\ k.router \in Routers
      /\ k.source \in Streams \cup {None} /\ k.late \in BOOLEAN
  BY <1>1, <1>2 DEF Waiting
<1>4. /\ ~k.late => IsOpenOn(k.on, k.router)
                      /\ Uses(k.peer, k.router, k.on, k.source)
      /\ k.late => k.peer \in replaced
      /\ InRoom(k.peer)
      /\ k.source # None /\ stream[k.source].state # "closed" =>
            /\ stream[k.source].source = None
            /\ stream[k.source].router = k.router
  BY <1>1 DEF StreamInv, RequestsAreTrue
<1> HIDE DEF k
<1>5. n \in StreamRecords
  BY <1>3 DEF StreamRecords
<1>6. /\ n.state = IF k.late THEN "ghost" ELSE "open"
      /\ n.on = k.on /\ n.router = k.router /\ n.source = k.source
  OBVIOUS
<1> HIDE DEF n
<1>7. /\ stream'[z] = n
      /\ \A y \in Streams : y # z => stream'[y] = stream[y]
      /\ stream' \in [Streams -> StreamRecords]
  BY <1>1, <1>5, StreamTypes DEF StreamInv
<1>8. /\ held' \in [PeerObjects -> SUBSET Streams]
      /\ held'[k.peer] = held[k.peer] \cup {z}
      /\ \A o \in PeerObjects : o # k.peer => held'[o] = held[o]
  BY <1>3, StreamTypes DEF StreamInv, k
<1>9. /\ awaiting' \in [Calls -> {NoRequest} \cup Waiting]
      /\ \A b \in Calls : awaiting'[b].op # "none" => awaiting'[b] = awaiting[b]
  BY <1>1, StreamTypes DEF StreamInv, NoRequest
(* The new identifier was in no map.                                       *)
<1>10. \A o \in PeerObjects : z \notin held[o]
  BY <1>1 DEF StreamInv, MapsAreApart
<1>11. StreamTypeOK'
  BY <1>1, <1>7, <1>8, <1>9, StreamTypes
     DEF StreamInv, StreamTypeOK, StreamRecords, Waiting
<1>12. StreamsAreHeld'
  <2>1. ASSUME NEW y \in Streams, stream'[y].state = "open"
        PROVE  /\ IsOpenOn(stream'[y].on, stream'[y].router)
               /\ \E o \in PeerObjects :
                     /\ y \in held'[o]
                     /\ Uses(o, stream'[y].router, stream'[y].on,
                             stream'[y].source)
    <3>1. CASE y = z
      <4>1. ~k.late
        BY <1>6, <1>7, <2>1, <3>1
      <4> QED
        BY <1>3, <1>4, <1>6, <1>7, <1>8, <3>1, <4>1
    <3>2. CASE y # z
      <4>1. stream'[y] = stream[y]
        BY <1>7, <3>2
      <4>2. PICK o \in PeerObjects :
              /\ y \in held[o]
              /\ Uses(o, stream[y].router, stream[y].on, stream[y].source)
        BY <2>1, <4>1 DEF StreamInv, StreamsAreHeld
      <4>3. y \in held'[o]
        BY <1>8, <4>2
      <4> QED
        BY <2>1, <4>1, <4>2, <4>3 DEF StreamInv, StreamsAreHeld
    <3> QED
      BY <3>1, <3>2
  <2> QED
    BY <1>1, <2>1 DEF StreamsAreHeld, IsOpenOn, Uses
<1>13. SourcesAreOpen'
  <2> SUFFICES ASSUME NEW y \in Streams, stream'[y].state = "open",
                      stream'[y].source # None
               PROVE  LET from == stream'[y].source
                      IN  /\ stream'[from].state = "open"
                          /\ stream'[from].router = stream'[y].router
                          /\ stream'[from].source = None
    BY DEF SourcesAreOpen
  <2> DEFINE from == stream'[y].source
  <2>1. /\ from \in Streams /\ stream[from].state = "open"
        /\ stream[from].router = stream'[y].router
        /\ stream[from].source = None
    <3>1. CASE y = z
      BY <1>1, <1>3, <1>4, <1>6, <1>7, <3>1 DEF k
    <3>2. CASE y # z
      BY <1>7, <3>2, StreamTypes DEF StreamInv, SourcesAreOpen, StreamRecords
    <3> QED
      BY <3>1, <3>2
  <2>2. from # z
    BY <1>1, <2>1
  <2>3. stream'[from] = stream[from]
    BY <1>7, <2>1, <2>2
  <2> QED
    BY <2>1, <2>3
<1>14. MapsAreApart'
  <2> SUFFICES ASSUME NEW o \in PeerObjects, NEW y \in held'[o]
               PROVE  /\ InRoom(o)
                      /\ stream'[y].state # "closed"
                      /\ \A u \in PeerObjects : y \in held'[u] => u = o
    BY <1>1 DEF MapsAreApart, InRoom
  <2>1. CASE y = z
    BY <1>4, <1>6, <1>7, <1>8, <1>10, <2>1
  <2>2. CASE y # z
    <3>1. y \in held[o] /\ y \in Streams
      BY <1>8, <2>2
    <3> QED
      BY <1>7, <1>8, <2>2, <3>1 DEF StreamInv, MapsAreApart
  <2> QED
    BY <2>1, <2>2
<1>15. GhostsAreHeld'
  <2> SUFFICES ASSUME NEW o \in PeerObjects, NEW y \in held'[o],
                      stream'[y].state = "ghost"
               PROVE  o \in replaced
    BY <1>1 DEF GhostsAreHeld
  <2>1. CASE y = z
    BY <1>4, <1>6, <1>7, <1>8, <1>10, <2>1
  <2>2. CASE y # z
    <3>1. y \in held[o] /\ y \in Streams
      BY <1>8, <2>2
    <3> QED
      BY <1>7, <2>2, <3>1 DEF StreamInv, GhostsAreHeld
  <2> QED
    BY <2>1, <2>2
<1>16. RequestsAreTrue'
  <2>1. ASSUME NEW b \in Calls, awaiting'[b].op # "none"
        PROVE  LET j == awaiting'[b]
               IN  /\ ~j.late => /\ IsOpenOn(j.on, j.router)
                                 /\ Uses(j.peer, j.router, j.on, j.source)
                   /\ j.late /\ j.peer # None => j.peer \in replaced
                   /\ j.peer # None => InRoom(j.peer)
                   /\ j.source # None /\ stream'[j.source].state # "closed" =>
                         /\ stream'[j.source].source = None
                         /\ stream'[j.source].router = j.router
    <3>1. awaiting'[b] = awaiting[b] /\ awaiting[b] \in Waiting
      BY <1>9, <2>1, StreamTypes DEF StreamInv
    <3>2. awaiting[b].source # None =>
            stream'[awaiting[b].source] = stream[awaiting[b].source]
      BY <1>1, <1>7, <3>1 DEF Waiting
    <3> QED
      BY <2>1, <3>1, <3>2 DEF StreamInv, RequestsAreTrue
  <2> QED
    BY <1>1, <2>1 DEF RequestsAreTrue, IsOpenOn, Uses, InRoom
<1> QED
  BY <1>11, <1>12, <1>13, <1>14, <1>15, <1>16 DEF StreamInv

-----------------------------------------------------------------------------
(***************************************************************************)
(* Theorems.                                                               *)
(***************************************************************************)
(* The steps of the streams leave the rooms alone.                         *)
LEMMA RoomsGoOn == [StreamNext]_allVars => [Next]_vars
BY DEF StreamNext, RoomStep, StreamStep, allVars

(* The sfu node with its streams is an sfu node: what holds of its rooms,  *)
(* peers and transports holds with producers and consumers on them, and    *)
(* with requests that mediasoup has not answered yet.                      *)
LEMMA StreamsRunOnRooms == StreamSpec => Spec
<1>1. StreamInit => Init
  BY DEF StreamInit
<1> QED
  BY <1>1, RoomsGoOn, PTL DEF StreamSpec, Spec

(* The part of RoomInv that the transports' own invariant does not give.   *)
Fields == SlotsApart /\ FieldsAreOpen /\ FieldsApart /\ NamesAreTrue

LEMMA RoomInvariant == Spec => [](RoomInv /\ NamesAreTrue)
<1>1. Init => Fields
  <2>1. Init => NamesAreTrue
    BY RegistryInit
  <2>2. Init => SlotsApart /\ FieldsAreOpen /\ FieldsApart
    BY DEF Init, NoPeers, SlotsApart, FieldsAreOpen, FieldsApart
  <2> QED
    BY <2>1, <2>2 DEF Fields
<1>2. TransportInv /\ Fields => RoomInv /\ NamesAreTrue
  BY DEF TransportInv, Fields, RoomInv
<1>3. TransportInv /\ Fields /\ [Next]_vars => Fields'
  <2> SUFFICES ASSUME TransportInv, Fields, [Next]_vars PROVE Fields'
    OBVIOUS
  <2>1. RoomInv /\ NamesAreTrue /\ TypeOK
    BY <1>2 DEF RoomInv
  <2>2. KeptApart
    BY <2>1, RoomEffects
  <2>3. NamesAreTrue'
    BY <2>1, NamesStep
  <2> QED
    BY <2>2, <2>3 DEF KeptApart, Fields
<1> QED
  BY <1>1, <1>2, <1>3, TransportInvariant, PTL DEF Spec

(* Every step, of the rooms or of the streams, keeps the invariant.        *)
LEMMA StreamStepKeeps ==
    ASSUME RoomInv, NamesAreTrue, TypeOK', StreamInv, [StreamNext]_allVars
    PROVE  StreamInv'
<1>0. TypeOK
  BY DEF RoomInv
<1>1. CASE RoomStep
  BY <1>1, RoomStepKeeps
<1>2. ASSUME UNCHANGED vars, NEW c \in Calls, NEW r \in RoomIds, NEW p \in PeerIds,
             Produce(c, r, p) \/ \E z \in Streams : Consume(c, r, p, z)
      PROVE  StreamInv'
  <2>1. PICK t \in Transports, op \in {"produce", "consume"},
             source \in Streams \cup {None} :
           Found(r, p, t, source) /\ Request(c, op, r, p, t, source)
    BY <1>0, <1>2, RequestsFind
  <2> QED
    BY <1>2, <2>1, RequestKeeps
<1>3. ASSUME UNCHANGED vars, NEW c \in Calls, StreamCreated(c)
      PROVE  StreamInv'
  <2>1. CASE awaiting[c].peer = None
    <3>1. /\ awaiting' = [awaiting EXCEPT ![c] = NoRequest]
          /\ UNCHANGED <<stream, held, replaced>>
      BY <1>3, <2>1 DEF StreamCreated, Made
    <3> QED
      BY <1>3, <3>1, AnswerKeeps
  <2>2. CASE awaiting[c].peer # None
    <3>1. Made(c)
      BY <1>3 DEF StreamCreated
    <3>2. PICK z \in Streams :
            /\ NewStream(c, z)
            /\ held' = [held EXCEPT ![awaiting[c].peer] = @ \cup {z}]
      BY <1>3, <2>2 DEF StreamCreated, Put
    <3> QED
      BY <1>3, <2>2, <3>1, <3>2, NewStreamKeeps
  <2> QED
    BY <2>1, <2>2
<1>4. ASSUME UNCHANGED vars, NEW c \in Calls, StreamFails(c)
      PROVE  StreamInv'
  BY <1>4, AnswerKeeps DEF StreamFails
<1>5. CASE UNCHANGED allVars
  <2>1. UNCHANGED <<peers, send, recv, transport, stream, held, awaiting, replaced>>
    BY <1>5 DEF allVars, streamVars, vars
  <2> QED
    BY <2>1 DEF StreamInv, StreamTypeOK, StreamsAreHeld, SourcesAreOpen,
       MapsAreApart, RequestsAreTrue, GhostsAreHeld, IsOpenOn, Uses, InRoom
<1> QED
  BY <1>1, <1>2, <1>3, <1>4, <1>5 DEF StreamNext, StreamStep

LEMMA StreamInvariant ==
    StreamSpec => [](RoomInv /\ NamesAreTrue /\ StreamInv)
<1>1. StreamInit => StreamInv
  <2> SUFFICES ASSUME StreamInit PROVE StreamInv
    OBVIOUS
  <2>1. StreamTypeOK
    BY DEF StreamInit, StreamTypeOK, NoStream
  <2> QED
    BY <2>1 DEF StreamInit, StreamInv, StreamsAreHeld, SourcesAreOpen,
       MapsAreApart, RequestsAreTrue, GhostsAreHeld, NoStream, NoRequest
<1>2. RoomInv /\ NamesAreTrue /\ RoomInv' /\ StreamInv /\ [StreamNext]_allVars
        => StreamInv'
  BY StreamStepKeeps DEF RoomInv
<1> QED
  BY <1>1, <1>2, StreamsRunOnRooms, RoomInvariant, PTL DEF StreamSpec

(* Type correctness: in particular a request that is suspended always has  *)
(* the transport, the router and the room it was made for.                 *)
THEOREM StreamTypeCorrect == StreamSpec => []StreamTypeOK
<1>1. StreamInv => StreamTypeOK
  BY DEF StreamInv
<1> QED
  BY <1>1, StreamInvariant, PTL

(* In every reachable state each open producer and consumer is in the map  *)
(* of a peer of its MediaRoom, which requests find, on the transport that  *)
(* peer uses, and the producer of a consumer is open on the same router:   *)
(* whatever was closed, replaced or removed while mediasoup was making it, *)
(* no open stream is out of reach, but in a room that an overtaken closing *)
(* deleted from the registry.                                              *)
THEOREM StreamsAreReachable == StreamSpec => []OpenStreamsAreReachable
<1>1. RoomInv /\ RegistryInv /\ StreamInv => OpenStreamsAreReachable
  <2> SUFFICES ASSUME RoomInv, RegistryInv, StreamInv, NEW z \in Streams,
                      stream[z].state = "open"
               PROVE  LET x == stream[z].router
                          from == stream[z].source
                      IN  /\ IsNamed(x)
                          /\ \E p \in PeerIds :
                                LET o == peers[x][p]
                                IN  /\ o # None
                                    /\ z \in held[o]
                                    /\ stream[z].on =
                                         IF from = None THEN send[o] ELSE recv[o]
                          /\ from # None => /\ stream[from].state = "open"
                                            /\ stream[from].router = x
    BY DEF OpenStreamsAreReachable
  <2>1. PICK o \in PeerObjects :
          z \in held[o] /\ Uses(o, stream[z].router, stream[z].on, stream[z].source)
    BY DEF StreamInv, StreamsAreHeld
  <2>2. IsNamed(stream[z].router)
    BY OpenIsNamed DEF StreamInv, StreamsAreHeld, IsOpenOn, RoomInv
  <2> QED
    BY <2>1, <2>2 DEF Uses, StreamInv, SourcesAreOpen
<1> QED
  BY <1>1, StreamInvariant, StreamsRunOnRooms, RegistryInvariant, PTL

(* A producer or consumer that mediasoup will not tell of its closing is   *)
(* found only with a peer that had a transport replaced: a client that     *)
(* comes back, and a new room of the same name, inherit none.              *)
THEOREM GhostsAreContained == StreamSpec => []GhostsAreOfReplacedTransports
<1>1. RoomInv /\ StreamInv => GhostsAreOfReplacedTransports
  <2> SUFFICES ASSUME RoomInv, StreamInv, NEW r \in RoomIds, NEW p \in PeerIds,
                      HasPeer(r, p), NEW z \in held[peers[rooms[r]][p]],
                      stream[z].state = "ghost"
               PROVE  peers[rooms[r]][p] \in replaced
    BY DEF GhostsAreOfReplacedTransports
  <2>1. peers[rooms[r]][p] \in PeerObjects
    BY DEF HasPeer, RoomInv, TypeOK
  <2> QED
    BY <2>1 DEF StreamInv, GhostsAreHeld
<1> QED
  BY <1>1, StreamInvariant, PTL
=============================================================================
