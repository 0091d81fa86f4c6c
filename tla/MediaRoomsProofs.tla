-------------------------- MODULE MediaRoomsProofs --------------------------
(***************************************************************************)
(* Theorems about one sfu node, for every set of rooms, peers, workers,    *)
(* routers, transports and concurrent requests and any number of failures. *)
(***************************************************************************)
EXTENDS MediaRooms, FiniteSetTheorems, TLAPS

-----------------------------------------------------------------------------
(***************************************************************************)
(* Types.                                                                  *)
(***************************************************************************)

(* None is none of the identifiers a field may hold.                       *)
LEMMA NoneIsNothing ==
    /\ None \notin Routers /\ None \notin PeerObjects /\ None \notin Transports
    /\ None \notin Workers /\ None \notin RoomIds
BY NoneAssumption

(* What a request that awaits mediasoup, or the end of a recording, knows. *)
LEMMA CallContext ==
    ASSUME TypeOK, NEW c \in Calls
    PROVE  /\ call[c].op = "createTransport" => call[c] \in CreateCalls
           /\ call[c].op = "closeRoom" => call[c] \in CloseCalls
BY DEF TypeOK, CreateCalls, CloseCalls, Resting

(* Reserving a worker and giving one back keep the counts natural.         *)
LEMMA CountsStayNatural ==
    ASSUME TypeOK, NEW w
    PROVE  /\ w \in Workers /\ ReserveWorker(w) => load' \in [Workers -> Nat]
           /\ TrackRouterClosed(w) =>
                 load' \in [Workers -> Nat] /\ released' \in BOOLEAN
<1>1. load \in [Workers -> Nat]
  BY DEF TypeOK
<1>2. CASE w \in Workers
  <2>1. load[w] \in Nat
    BY <1>1, <1>2
  <2>2. /\ load[w] + 1 \in Nat
        /\ (IF load[w] = 0 THEN 0 ELSE load[w] - 1) \in Nat
    BY <2>1
  <2> QED
    BY <1>1, <1>2, <2>2 DEF ReserveWorker, TrackRouterClosed
<1>3. CASE w \notin Workers
  <2> DEFINE n == IF load[w] = 0 THEN 0 ELSE load[w] - 1
  <2>1. [load EXCEPT ![w] = n] \in [Workers -> Nat]
    <3> HIDE DEF n
    <3> QED
      BY <1>1, <1>3
  <2> QED
    BY <1>3, <2>1 DEF TrackRouterClosed
<1> QED
  BY <1>2, <1>3

(* Closing transports keeps their type.                                    *)
LEMMA CloseType ==
    ASSUME TypeOK, NEW ts, Close(ts)
    PROVE  transport' \in [Transports -> [state : {"open", "closed"},
                                          on : Routers \cup {None}]]
BY DEF TypeOK, Close, NoTransport

(* A removed peer leaves typed fields.                                     *)
LEMMA RemovalType ==
    ASSUME TypeOK, NEW x \in Routers, NEW p \in PeerIds, RemoveFromRoom(x, p)
    PROVE  /\ peers' \in [Routers -> [PeerIds -> PeerObjects \cup {None}]]
           /\ send' \in [PeerObjects -> Transports \cup {None}]
           /\ recv' \in [PeerObjects -> Transports \cup {None}]
           /\ transport' \in [Transports -> [state : {"open", "closed"},
                                             on : Routers \cup {None}]]
<1>1. CASE peers[x][p] = None
  BY <1>1 DEF RemoveFromRoom, TypeOK
<1>2. CASE peers[x][p] # None
  <2> DEFINE o == peers[x][p]
  <2>1. /\ Close({send[o], recv[o]})
        /\ peers' = [peers EXCEPT ![x] = [peers[x] EXCEPT ![p] = None]]
        /\ send' = [send EXCEPT ![o] = None]
        /\ recv' = [recv EXCEPT ![o] = None]
    BY <1>2 DEF RemoveFromRoom
  <2>2. peers[x] \in [PeerIds -> PeerObjects \cup {None}]
    BY DEF TypeOK
  <2>3. [peers[x] EXCEPT ![p] = None] \in [PeerIds -> PeerObjects \cup {None}]
    BY <2>2
  <2>4. peers' \in [Routers -> [PeerIds -> PeerObjects \cup {None}]]
    BY <2>1, <2>3 DEF TypeOK
  <2>5. o \in PeerObjects
    BY <1>2, <2>2
  <2>6. /\ send' \in [PeerObjects -> Transports \cup {None}]
        /\ recv' \in [PeerObjects -> Transports \cup {None}]
    BY <2>1, <2>5 DEF TypeOK
  <2> QED
    BY <2>1, <2>4, <2>6, CloseType
<1> QED
  BY <1>1, <1>2

(* Closing a room leaves a typed registry.                                 *)
LEMMA FinishCloseType ==
    ASSUME TypeOK, NEW r \in RoomIds, NEW x \in Routers, FinishClose(r, x)
    PROVE  /\ rooms' \in [RoomIds -> Routers \cup {None}]
           /\ router' \in [Routers -> [state : {"open", "closed"},
                                       room : RoomIds \cup {None},
                                       worker : Workers \cup {None}]]
           /\ transport' \in [Transports -> [state : {"open", "closed"},
                                             on : Routers \cup {None}]]
           /\ load' \in [Workers -> Nat] /\ released' \in BOOLEAN
<1>1. router' = [router EXCEPT ![x].state = "closed"]
        /\ rooms' = [rooms EXCEPT ![r] = None]
  BY DEF FinishClose
<1>2. router[x] \in [state : {"open", "closed"}, room : RoomIds \cup {None},
                     worker : Workers \cup {None}]
  BY DEF TypeOK
<1>3. [router[x] EXCEPT !.state = "closed"] \in
         [state : {"open", "closed"}, room : RoomIds \cup {None},
          worker : Workers \cup {None}]
  BY <1>2
<1>4. rooms' \in [RoomIds -> Routers \cup {None}]
        /\ router' \in [Routers -> [state : {"open", "closed"},
                                    room : RoomIds \cup {None},
                                    worker : Workers \cup {None}]]
  BY <1>1, <1>3 DEF TypeOK
<1> QED
  BY <1>4, CloseType, CountsStayNatural DEF FinishClose

(* A transport is installed at a peer.                                     *)
LEMMA InstallType ==
    ASSUME TypeOK, NEW t \in Transports, NEW k \in CreateCalls, Install(t, k)
    PROVE  /\ send' \in [PeerObjects -> Transports \cup {None}]
           /\ recv' \in [PeerObjects -> Transports \cup {None}]
           /\ transport' \in [Transports -> [state : {"open", "closed"},
                                             on : Routers \cup {None}]]
<1>1. k.room \in Routers /\ k.peer \in PeerObjects
        /\ router[k.room].state \in {"open", "closed"}
  BY DEF CreateCalls, TypeOK
<1>2. transport' \in [Transports -> [state : {"open", "closed"},
                                     on : Routers \cup {None}]]
  BY <1>1 DEF Install, TypeOK, NoTransport
<1>3. CASE k.direction = "send"
  <2>1. send' = [send EXCEPT ![k.peer] = t] /\ recv' = recv
    BY <1>3 DEF Install
  <2> QED
    BY <1>1, <1>2, <2>1 DEF TypeOK
<1>4. CASE k.direction # "send"
  <2>1. recv' = [recv EXCEPT ![k.peer] = t] /\ send' = send
    BY <1>4 DEF Install
  <2> QED
    BY <1>1, <1>2, <2>1 DEF TypeOK
<1> QED
  BY <1>3, <1>4

(* A request brings its peer in, or finds it, and remembers which.         *)
TransportAsked(c, r, p, d, x, o, existed) ==
    /\ x = rooms[r]
    /\ call[c].op = "none"
    /\ call' = [call EXCEPT ![c] =
                   [op |-> "createTransport", room |-> x, id |-> p,
                    peer |-> o, existed |-> existed, direction |-> d]]
    /\ \/ /\ existed
          /\ peers[x][p] = o
          /\ UNCHANGED <<peers, send, recv>>
       \/ /\ ~existed
          /\ peers[x][p] = None
          /\ FreePeer(o)
          /\ peers' = [peers EXCEPT ![x] = [peers[x] EXCEPT ![p] = o]]
          /\ send' = [send EXCEPT ![o] = None]
          /\ recv' = [recv EXCEPT ![o] = None]

LEMMA CreateTransportSteps ==
    ASSUME TypeOK, NEW c \in Calls, NEW r \in RoomIds, NEW p \in PeerIds,
           NEW d \in {"send", "recv"}, CreateTransport(c, r, p, d)
    PROVE  \E x \in Routers, o \in PeerObjects, existed \in BOOLEAN :
              TransportAsked(c, r, p, d, x, o, existed)
<1> DEFINE x == rooms[r]
           known == peers[x][p]
           Request(o) == [op |-> "createTransport", room |-> x, id |-> p,
                          peer |-> o, existed |-> known # None, direction |-> d]
<1>1. x \in Routers
  BY DEF CreateTransport, TypeOK
<1>2. known \in PeerObjects \cup {None}
  BY <1>1 DEF TypeOK
<1>3. CASE known # None
  <2>1. /\ call[c].op = "none"
        /\ call' = [call EXCEPT ![c] = Request(known)]
        /\ UNCHANGED <<peers, send, recv>>
    BY <1>3 DEF CreateTransport
  <2>2. Request(known).existed = TRUE
    BY <1>3
  <2> QED
    BY <1>1, <1>2, <1>3, <2>1, <2>2 DEF TransportAsked
<1>4. CASE known = None
  <2>1. PICK o \in PeerObjects :
           /\ FreePeer(o)
           /\ peers' = [peers EXCEPT ![x][p] = o]
           /\ send' = [send EXCEPT ![o] = None]
           /\ recv' = [recv EXCEPT ![o] = None]
           /\ call' = [call EXCEPT ![c] = Request(o)]
    BY <1>4 DEF CreateTransport
  <2>2. call[c].op = "none"
    BY DEF CreateTransport
  <2>3. Request(o) = [op |-> "createTransport", room |-> x, id |-> p,
                      peer |-> o, existed |-> FALSE, direction |-> d]
    BY <1>4
  <2> QED
    BY <1>1, <1>4, <2>1, <2>2, <2>3 DEF TransportAsked
<1> QED
  BY <1>3, <1>4

(* Such a request leaves typed peers and requests.                         *)
LEMMA CreateTransportType ==
    ASSUME TypeOK, NEW c \in Calls, NEW r \in RoomIds, NEW p \in PeerIds,
           NEW d \in {"send", "recv"}, CreateTransport(c, r, p, d)
    PROVE  /\ peers' \in [Routers -> [PeerIds -> PeerObjects \cup {None}]]
           /\ send' \in [PeerObjects -> Transports \cup {None}]
           /\ recv' \in [PeerObjects -> Transports \cup {None}]
           /\ call' \in [Calls -> {Resting} \cup CreateCalls \cup CloseCalls]
<1>1. PICK x \in Routers, o \in PeerObjects, existed \in BOOLEAN :
         TransportAsked(c, r, p, d, x, o, existed)
  BY CreateTransportSteps
<1>2. [op |-> "createTransport", room |-> x, id |-> p, peer |-> o,
       existed |-> existed, direction |-> d] \in CreateCalls
  BY DEF CreateCalls
<1>3. [peers[x] EXCEPT ![p] = o] \in [PeerIds -> PeerObjects \cup {None}]
  BY DEF TypeOK
<1>4. call' \in [Calls -> {Resting} \cup CreateCalls \cup CloseCalls]
  BY <1>1, <1>2 DEF TransportAsked, TypeOK
<1>5. CASE UNCHANGED <<peers, send, recv>>
  BY <1>4, <1>5 DEF TypeOK
<1>6. CASE /\ peers' = [peers EXCEPT ![x] = [peers[x] EXCEPT ![p] = o]]
           /\ send' = [send EXCEPT ![o] = None]
           /\ recv' = [recv EXCEPT ![o] = None]
  BY <1>3, <1>4, <1>6 DEF TypeOK
<1> QED
  BY <1>1, <1>5, <1>6 DEF TransportAsked

(* Every reachable state of the node has its type: the registry, the       *)
(* pool's counts, the peers, their transports and the requests under way.  *)
THEOREM TypeCorrect == Spec => []TypeOK
<1> USE DEF historyVars
<1>1. Init => TypeOK
  <2> SUFFICES ASSUME Init PROVE TypeOK
    OBVIOUS
  <2>1. /\ rooms \in [RoomIds -> Routers \cup {None}]
        /\ pendingRooms \in [RoomIds -> Workers \cup {None}]
        /\ load \in [Workers -> Nat]
        /\ send \in [PeerObjects -> Transports \cup {None}]
        /\ recv \in [PeerObjects -> Transports \cup {None}]
        /\ recording \in [Routers -> BOOLEAN]
        /\ released \in BOOLEAN /\ overtaken \in SUBSET RoomIds
        /\ faults \in Nat
    BY DEF Init
  <2>2. router \in [Routers -> [state : {"open", "closed"},
                                room : RoomIds \cup {None},
                                worker : Workers \cup {None}]]
    BY DEF Init, NoRouter
  <2>3. transport \in [Transports -> [state : {"open", "closed"},
                                      on : Routers \cup {None}]]
    BY DEF Init, NoTransport
  <2>4. peers \in [Routers -> [PeerIds -> PeerObjects \cup {None}]]
    BY DEF Init, NoPeers
  <2>5. call \in [Calls -> {Resting} \cup CreateCalls \cup CloseCalls]
    BY DEF Init
  <2> QED
    BY <2>1, <2>2, <2>3, <2>4, <2>5 DEF TypeOK
<1>2. TypeOK /\ [Next]_vars => TypeOK'
  <2> SUFFICES ASSUME TypeOK, [Next]_vars PROVE TypeOK'
    OBVIOUS
  <2>1. ASSUME NEW r \in RoomIds, CreateRoom(r) PROVE TypeOK'
    <3> PICK w \in Workers : /\ ReserveWorker(w)
                             /\ pendingRooms' = [pendingRooms EXCEPT ![r] = w]
      BY <2>1 DEF CreateRoom
    <3> QED
      BY <2>1, CountsStayNatural DEF CreateRoom, TypeOK
  <2>2. ASSUME NEW r \in RoomIds, RouterCreated(r) PROVE TypeOK'
    <3> PICK x \in Routers :
          /\ router' = [router EXCEPT ![x] = [state |-> "open", room |-> r,
                                              worker |-> pendingRooms[r]]]
          /\ recording' = [recording EXCEPT ![x] = FALSE]
          /\ peers' = [peers EXCEPT ![x] = NoPeers]
          /\ rooms' = [rooms EXCEPT ![r] = x]
      BY <2>2 DEF RouterCreated
    <3>1. NoPeers \in [PeerIds -> PeerObjects \cup {None}]
      BY DEF NoPeers
    <3>2. [state |-> "open", room |-> r, worker |-> pendingRooms[r]] \in
             [state : {"open", "closed"}, room : RoomIds \cup {None},
              worker : Workers \cup {None}]
      BY DEF TypeOK
    <3> QED
      BY <2>2, <3>1, <3>2 DEF RouterCreated, TypeOK
  <2>3. ASSUME NEW r \in RoomIds, RouterFails(r) PROVE TypeOK'
    BY <2>3, CountsStayNatural DEF RouterFails, Fault, TypeOK
  <2>4. ASSUME NEW r \in RoomIds, CloseRoom(r) PROVE TypeOK'
    <3>1. rooms[r] \in Routers
      BY <2>4 DEF CloseRoom, TypeOK
    <3> QED
      BY <2>4, <3>1, FinishCloseType DEF CloseRoom, FinishClose, TypeOK
  <2>5. ASSUME NEW r \in RoomIds, NEW on \in BOOLEAN, SetRecording(r, on)
        PROVE  TypeOK'
    BY <2>5 DEF SetRecording, TypeOK
  <2>6. ASSUME NEW r \in RoomIds, NEW p \in PeerIds, RemovePeer(r, p)
        PROVE  TypeOK'
    <3>1. rooms[r] \in Routers
      BY <2>6 DEF RemovePeer, TypeOK
    <3> QED
      BY <2>6, <3>1, RemovalType DEF RemovePeer, TypeOK
  <2>7. ASSUME NEW r \in RoomIds, NEW c \in Calls, CloseRecordedRoom(c, r)
        PROVE  TypeOK'
    <3>1. [op |-> "closeRoom", room |-> rooms[r], id |-> r] \in CloseCalls
      BY <2>7 DEF CloseRecordedRoom, CloseCalls, TypeOK
    <3> QED
      BY <2>7, <3>1 DEF CloseRecordedRoom, TypeOK
  <2>8. ASSUME NEW c \in Calls, TransportCreated(c) PROVE TypeOK'
    <3>1. call[c] \in CreateCalls
      BY <2>8, CallContext DEF TransportCreated
    <3>2. CASE peers[call[c].room][call[c].id] # call[c].peer
      BY <2>8, <3>2 DEF TransportCreated, TypeOK
    <3>3. CASE peers[call[c].room][call[c].id] = call[c].peer
      <4> PICK t \in Transports : Install(t, call[c])
        BY <2>8, <3>3 DEF TransportCreated
      <4> QED
        BY <2>8, <3>1, InstallType DEF TransportCreated, TypeOK
    <3> QED
      BY <3>2, <3>3
  <2>9. ASSUME NEW c \in Calls, TransportFails(c) PROVE TypeOK'
    <3>1. call[c] \in CreateCalls
      BY <2>9, CallContext DEF TransportFails
    <3>2. call[c].room \in Routers /\ call[c].id \in PeerIds
      BY <3>1 DEF CreateCalls
    <3>3. faults' \in Nat
      BY <2>9 DEF TransportFails, Fault, TypeOK
    <3>4. CASE call[c].existed
      BY <2>9, <3>3, <3>4 DEF TransportFails, TypeOK
    <3>5. CASE ~call[c].existed
      BY <2>9, <3>2, <3>3, <3>5, RemovalType DEF TransportFails, TypeOK
    <3> QED
      BY <3>4, <3>5
  <2>10. ASSUME NEW c \in Calls, RecordingStopped(c) PROVE TypeOK'
    <3>1. call[c].id \in RoomIds /\ call[c].room \in Routers
      BY <2>10, CallContext DEF RecordingStopped, CloseCalls
    <3> QED
      BY <2>10, <3>1, FinishCloseType DEF RecordingStopped, FinishClose, TypeOK
  <2>11. ASSUME NEW c \in Calls, StopFails(c) PROVE TypeOK'
    BY <2>11 DEF StopFails, Fault, TypeOK
  <2>12. ASSUME NEW c \in Calls, NEW r \in RoomIds, NEW p \in PeerIds,
                NEW d \in {"send", "recv"}, CreateTransport(c, r, p, d)
         PROVE  TypeOK'
    <3>1. UNCHANGED <<rooms, pendingRooms, load, router, recording, transport,
                      historyVars, faults>>
      BY <2>12 DEF CreateTransport
    <3> QED
      BY <2>12, <3>1, CreateTransportType DEF TypeOK
  <2>13. CASE UNCHANGED vars
    BY <2>13 DEF vars, TypeOK
  <2> QED
    BY <2>1, <2>2, <2>3, <2>4, <2>5, <2>6, <2>7, <2>8, <2>9, <2>10, <2>11,
       <2>12, <2>13 DEF Next
<1> QED
  BY <1>1, <1>2, PTL DEF Spec
-----------------------------------------------------------------------------
(***************************************************************************)
(* Transports.                                                             *)
(***************************************************************************)

(* No transport is open on a closed router: closeRoom takes them with it.  *)
OpenRouterUnder ==
    \A t \in Transports :
        transport[t].state = "open" =>
            /\ transport[t].on \in Routers
            /\ router[transport[t].on].state = "open"

(* An open transport is a peer's, in the MediaRoom it is on.               *)
TransportsHeld ==
    \A t \in Transports :
        transport[t].state = "open" =>
            LET x == transport[t].on
            IN  \E p \in PeerIds : LET o == peers[x][p]
                                   IN  o # None /\ t \in {send[o], recv[o]}

TransportInv == TypeOK /\ OpenRouterUnder /\ TransportsHeld

(* What the steps that leave peers and transports alone do to routers.     *)
LEMMA QuietSteps ==
    ASSUME TransportInv, UNCHANGED <<peers, send, recv, transport>>,
           \A x \in Routers : router[x].state = "open"
                                => router'[x].state = "open"
    PROVE  OpenRouterUnder' /\ TransportsHeld'
BY DEF TransportInv, OpenRouterUnder, TransportsHeld

(* A peer that is removed takes its open transports with it.               *)
LEMMA RemovalClosesTransports ==
    ASSUME TransportInv, NEW x \in Routers, NEW p \in PeerIds,
           RemoveFromRoom(x, p), UNCHANGED router
    PROVE  OpenRouterUnder' /\ TransportsHeld'
<1>1. CASE peers[x][p] = None
  BY <1>1, QuietSteps DEF RemoveFromRoom
<1>2. CASE peers[x][p] # None
  <2> DEFINE o == peers[x][p]
  <2>1. /\ \A t \in Transports :
              transport'[t] = IF t \in {send[o], recv[o]} THEN NoTransport
                              ELSE transport[t]
        /\ peers' = [peers EXCEPT ![x][p] = None]
        /\ send' = [send EXCEPT ![o] = None]
        /\ recv' = [recv EXCEPT ![o] = None]
    BY <1>2 DEF RemoveFromRoom, Close
  <2>2. \A y \in Routers, q \in PeerIds :
           peers[y][q] # o => peers'[y][q] = peers[y][q]
    BY <2>1 DEF TransportInv, TypeOK
  <2>3. \A u \in PeerObjects : u # o => send'[u] = send[u] /\ recv'[u] = recv[u]
    BY <2>1 DEF TransportInv, TypeOK
  <2>4. ASSUME NEW t \in Transports, transport'[t].state = "open"
        PROVE  /\ transport'[t] = transport[t]
               /\ t \notin {send[o], recv[o]}
    BY <2>1, <2>4 DEF NoTransport
  <2>5. OpenRouterUnder'
    BY <2>4 DEF TransportInv, OpenRouterUnder
  <2>6. ASSUME NEW t \in Transports, transport'[t].state = "open"
        PROVE  \E q \in PeerIds : LET u == peers'[transport'[t].on][q]
                                 IN  u # None /\ t \in {send'[u], recv'[u]}
    <3> DEFINE y == transport[t].on
    <3>1. y \in Routers /\ transport[t].state = "open"
      BY <2>4, <2>6 DEF TransportInv, OpenRouterUnder
    <3>2. PICK q \in PeerIds : /\ peers[y][q] # None
                               /\ t \in {send[peers[y][q]], recv[peers[y][q]]}
      BY <3>1 DEF TransportInv, TransportsHeld
    <3>3. peers[y][q] # o
      BY <2>4, <2>6, <3>2
    <3>4. peers[y][q] \in PeerObjects
      BY <3>1, <3>2 DEF TransportInv, TypeOK
    <3> QED
      BY <2>2, <2>3, <2>4, <2>6, <3>1, <3>2, <3>3, <3>4
  <2> QED
    BY <2>5, <2>6 DEF TransportsHeld
<1> QED
  BY <1>1, <1>2

(* A room that closes closes every transport on its router.                *)
LEMMA ClosingClosesTransports ==
    ASSUME TransportInv, NEW r \in RoomIds, NEW x \in Routers,
           FinishClose(r, x)
    PROVE  OpenRouterUnder' /\ TransportsHeld'
<1>1. \A t \in Transports :
         transport'[t] = IF transport[t].on = x THEN NoTransport
                         ELSE transport[t]
  BY DEF FinishClose, Close
<1>2. \A t \in Transports : transport'[t].state = "open" =>
         transport'[t] = transport[t] /\ transport[t].on # x
  BY <1>1 DEF NoTransport
<1>3. \A y \in Routers : y # x => router'[y] = router[y]
  BY DEF FinishClose, TransportInv, TypeOK
<1>4. UNCHANGED <<peers, send, recv>>
  BY DEF FinishClose
<1> QED
  BY <1>2, <1>3, <1>4 DEF TransportInv, OpenRouterUnder, TransportsHeld

(* A transport that is installed belongs to the peer it was made for; the  *)
(* one it replaces is closed.                                              *)
LEMMA InstalledIsHeld ==
    ASSUME TransportInv, NEW t \in Transports, NEW k \in CreateCalls,
           peers[k.room][k.id] = k.peer, Install(t, k),
           UNCHANGED <<peers, router>>
    PROVE  OpenRouterUnder' /\ TransportsHeld'
<1>1. k.room \in Routers /\ k.id \in PeerIds /\ k.peer \in PeerObjects
        /\ k.peer # None
  BY NoneIsNothing DEF CreateCalls
<1> DEFINE old == IF k.direction = "send" THEN send[k.peer] ELSE recv[k.peer]
<1>2. \A u \in Transports :
         transport'[u] = IF u = t THEN [state |-> router[k.room].state,
                                        on |-> k.room]
                         ELSE IF u = old THEN NoTransport
                         ELSE transport[u]
  BY DEF Install
<1>3. \A u \in Transports : u # t /\ transport'[u].state = "open" =>
         transport'[u] = transport[u] /\ u # old
  BY <1>2 DEF NoTransport
<1>4. transport'[t] = [state |-> router[k.room].state, on |-> k.room]
  BY <1>2
<1>5. OpenRouterUnder'
  BY <1>1, <1>3, <1>4 DEF TransportInv, OpenRouterUnder
<1>6. t \in {send'[k.peer], recv'[k.peer]}
  BY <1>1 DEF Install, TransportInv, TypeOK
<1>7. ASSUME NEW u \in Transports, u # old, NEW o \in PeerObjects,
             u \in {send[o], recv[o]}
      PROVE  u \in {send'[o], recv'[o]}
  <2>1. CASE k.direction = "send"
    <3>1. send' = [send EXCEPT ![k.peer] = t] /\ recv' = recv
      BY <2>1 DEF Install
    <3> QED
      BY <1>1, <1>7, <2>1, <3>1 DEF TransportInv, TypeOK
  <2>2. CASE k.direction # "send"
    <3>1. recv' = [recv EXCEPT ![k.peer] = t] /\ send' = send
      BY <2>2 DEF Install
    <3> QED
      BY <1>1, <1>7, <2>2, <3>1 DEF TransportInv, TypeOK
  <2> QED
    BY <2>1, <2>2
<1>8. ASSUME NEW u \in Transports, transport'[u].state = "open"
      PROVE  \E q \in PeerIds : LET o == peers'[transport'[u].on][q]
                               IN  o # None /\ u \in {send'[o], recv'[o]}
  <2>1. CASE u = t
    BY <1>1, <1>4, <1>6, <2>1
  <2>2. CASE u # t
    <3>1. transport'[u] = transport[u] /\ u # old
      BY <1>3, <1>8, <2>2
    <3>2. transport[u].on \in Routers
      BY <1>8, <3>1 DEF TransportInv, OpenRouterUnder
    <3>3. PICK q \in PeerIds :
             LET o == peers[transport[u].on][q]
             IN  o # None /\ u \in {send[o], recv[o]}
      BY <1>8, <3>1 DEF TransportInv, TransportsHeld
    <3>4. peers[transport[u].on][q] \in PeerObjects
      BY <3>2, <3>3 DEF TransportInv, TypeOK
    <3> QED
      BY <1>7, <3>1, <3>3, <3>4
  <2> QED
    BY <2>1, <2>2
<1> QED
  BY <1>5, <1>8 DEF TransportsHeld

(* No step leaves an open transport to nobody.                             *)
LEMMA TransportStep ==
    ASSUME TransportInv, [Next]_vars
    PROVE  OpenRouterUnder' /\ TransportsHeld'
<1> USE DEF TransportInv
<1>1. ASSUME NEW r \in RoomIds, CreateRoom(r)
      PROVE  OpenRouterUnder' /\ TransportsHeld'
  BY <1>1, QuietSteps DEF CreateRoom
<1>2. ASSUME NEW r \in RoomIds, RouterCreated(r)
      PROVE  OpenRouterUnder' /\ TransportsHeld'
  <2>1. PICK x \in Routers :
          /\ router[x].state = "closed"
          /\ router' = [router EXCEPT ![x] = [state |-> "open", room |-> r,
                                              worker |-> pendingRooms[r]]]
          /\ peers' = [peers EXCEPT ![x] = NoPeers]
    BY <1>2 DEF RouterCreated, FreeRouter
  <2>2. UNCHANGED <<send, recv, transport>>
    BY <1>2 DEF RouterCreated
  <2>3. \A t \in Transports :
           transport[t].state = "open" => transport[t].on # x
    BY <2>1 DEF OpenRouterUnder
  <2>4. \A y \in Routers : y # x => router'[y] = router[y] /\ peers'[y] = peers[y]
    BY <2>1 DEF TypeOK
  <2> QED
    BY <2>2, <2>3, <2>4 DEF OpenRouterUnder, TransportsHeld
<1>3. ASSUME NEW r \in RoomIds, RouterFails(r)
      PROVE  OpenRouterUnder' /\ TransportsHeld'
  BY <1>3, QuietSteps DEF RouterFails
<1>4. ASSUME NEW r \in RoomIds, CloseRoom(r)
      PROVE  OpenRouterUnder' /\ TransportsHeld'
  <2>1. rooms[r] \in Routers
    BY <1>4 DEF CloseRoom, TypeOK
  <2> QED
    BY <1>4, <2>1, ClosingClosesTransports DEF CloseRoom
<1>5. ASSUME NEW r \in RoomIds, NEW on \in BOOLEAN, SetRecording(r, on)
      PROVE  OpenRouterUnder' /\ TransportsHeld'
  BY <1>5, QuietSteps DEF SetRecording
<1>6. ASSUME NEW r \in RoomIds, NEW p \in PeerIds, RemovePeer(r, p)
      PROVE  OpenRouterUnder' /\ TransportsHeld'
  <2>1. rooms[r] \in Routers
    BY <1>6 DEF RemovePeer, TypeOK
  <2> QED
    BY <1>6, <2>1, RemovalClosesTransports DEF RemovePeer
<1>7. ASSUME NEW r \in RoomIds, NEW c \in Calls, CloseRecordedRoom(c, r)
      PROVE  OpenRouterUnder' /\ TransportsHeld'
  BY <1>7, QuietSteps DEF CloseRecordedRoom
<1>8. ASSUME NEW c \in Calls, TransportCreated(c)
      PROVE  OpenRouterUnder' /\ TransportsHeld'
  <2>1. call[c] \in CreateCalls
    BY <1>8, CallContext DEF TransportCreated
  <2>2. CASE peers[call[c].room][call[c].id] # call[c].peer
    BY <1>8, <2>2, QuietSteps DEF TransportCreated
  <2>3. CASE peers[call[c].room][call[c].id] = call[c].peer
    <3>1. PICK t \in Transports : Install(t, call[c])
      BY <1>8, <2>3 DEF TransportCreated
    <3>2. UNCHANGED <<peers, router>>
      BY <1>8 DEF TransportCreated
    <3> QED
      BY <2>1, <2>3, <3>1, <3>2, InstalledIsHeld
  <2> QED
    BY <2>2, <2>3
<1>9. ASSUME NEW c \in Calls, TransportFails(c)
      PROVE  OpenRouterUnder' /\ TransportsHeld'
  <2>1. call[c].room \in Routers /\ call[c].id \in PeerIds
    BY <1>9, CallContext DEF TransportFails, CreateCalls
  <2>2. UNCHANGED router
    BY <1>9 DEF TransportFails
  <2>3. CASE call[c].existed
    BY <1>9, <2>2, <2>3, QuietSteps DEF TransportFails
  <2>4. CASE ~call[c].existed
    BY <1>9, <2>1, <2>2, <2>4, RemovalClosesTransports DEF TransportFails
  <2> QED
    BY <2>3, <2>4
<1>10. ASSUME NEW c \in Calls, RecordingStopped(c)
       PROVE  OpenRouterUnder' /\ TransportsHeld'
  <2>1. call[c].id \in RoomIds /\ call[c].room \in Routers
    BY <1>10, CallContext DEF RecordingStopped, CloseCalls
  <2> QED
    BY <1>10, <2>1, ClosingClosesTransports DEF RecordingStopped
<1>11. ASSUME NEW c \in Calls, StopFails(c)
       PROVE  OpenRouterUnder' /\ TransportsHeld'
  BY <1>11, QuietSteps DEF StopFails
<1>12. ASSUME NEW c \in Calls, NEW r \in RoomIds, NEW p \in PeerIds,
              NEW d \in {"send", "recv"}, CreateTransport(c, r, p, d)
       PROVE  OpenRouterUnder' /\ TransportsHeld'
  <2>1. UNCHANGED <<router, transport>>
    BY <1>12 DEF CreateTransport
  <2>2. PICK x \in Routers, o \in PeerObjects, existed \in BOOLEAN :
          TransportAsked(c, r, p, d, x, o, existed)
    BY <1>12, CreateTransportSteps
  <2>3. CASE UNCHANGED <<peers, send, recv>>
    BY <2>1, <2>3, QuietSteps
  <2>4. CASE /\ peers[x][p] = None
             /\ FreePeer(o)
             /\ peers' = [peers EXCEPT ![x] = [peers[x] EXCEPT ![p] = o]]
             /\ send' = [send EXCEPT ![o] = None]
             /\ recv' = [recv EXCEPT ![o] = None]
    <3>1. \A y \in Routers, q \in PeerIds :
             peers[y][q] # None =>
                /\ peers'[y][q] = peers[y][q]
                /\ send'[peers[y][q]] = send[peers[y][q]]
                /\ recv'[peers[y][q]] = recv[peers[y][q]]
      BY <2>4 DEF FreePeer, TypeOK
    <3> QED
      BY <2>1, <3>1 DEF OpenRouterUnder, TransportsHeld
  <2> QED
    BY <2>2, <2>3, <2>4 DEF TransportAsked
<1>13. CASE UNCHANGED vars
  BY <1>13, QuietSteps DEF vars
<1> QED
  BY <1>1, <1>2, <1>3, <1>4, <1>5, <1>6, <1>7, <1>8, <1>9, <1>10, <1>11,
     <1>12, <1>13 DEF Next

LEMMA TransportInvariant == Spec => []TransportInv
<1>1. Init => OpenRouterUnder /\ TransportsHeld
  BY DEF Init, NoTransport, OpenRouterUnder, TransportsHeld
<1>2. TransportInv /\ [Next]_vars => OpenRouterUnder' /\ TransportsHeld'
  BY TransportStep
<1> QED
  BY <1>1, <1>2, TypeCorrect, PTL DEF Spec, TransportInv

-----------------------------------------------------------------------------
(***************************************************************************)
(* The worker pool.                                                        *)
(***************************************************************************)

(* The counts change only where a worker is reserved or given back.        *)
LEMMA CountsChange ==
    ASSUME Next
    PROVE  \/ \E w \in Workers : ReserveWorker(w) /\ UNCHANGED released
           \/ released'
           \/ UNCHANGED <<load, released>>
<1> USE DEF historyVars
<1>1. ASSUME NEW r \in RoomIds, CreateRoom(r)
      PROVE  \E w \in Workers : ReserveWorker(w) /\ UNCHANGED released
  BY <1>1 DEF CreateRoom
<1>2. ASSUME NEW r \in RoomIds, RouterFails(r) \/ CloseRoom(r)
      PROVE  released'
  BY <1>2 DEF RouterFails, CloseRoom, FinishClose, TrackRouterClosed
<1>3. ASSUME NEW c \in Calls, RecordingStopped(c)
      PROVE  released'
  BY <1>3 DEF RecordingStopped, FinishClose, TrackRouterClosed
<1>4. ASSUME NEW r \in RoomIds,
             \/ RouterCreated(r)
             \/ \E on \in BOOLEAN : SetRecording(r, on)
             \/ \E p \in PeerIds : RemovePeer(r, p)
             \/ \E c \in Calls : CloseRecordedRoom(c, r)
      PROVE  UNCHANGED <<load, released>>
  BY <1>4 DEF RouterCreated, SetRecording, RemovePeer, CloseRecordedRoom
<1>5. ASSUME NEW c \in Calls,
             TransportCreated(c) \/ TransportFails(c) \/ StopFails(c)
      PROVE  UNCHANGED <<load, released>>
  BY <1>5 DEF TransportCreated, TransportFails, StopFails
<1>6. ASSUME NEW c \in Calls, NEW r \in RoomIds, NEW p \in PeerIds,
             NEW d \in {"send", "recv"}, CreateTransport(c, r, p, d)
      PROVE  UNCHANGED <<load, released>>
  BY <1>6 DEF CreateTransport
<1> QED
  BY <1>1, <1>2, <1>3, <1>4, <1>5, <1>6 DEF Next

(* For any pool and any number of rooms created at once, the workers'      *)
(* counts differ by one at most until a router is given back.              *)
THEOREM BurstsAreSpread == Spec => []BurstIsSpread
<1>1. Init => BurstIsSpread
  BY DEF Init, BurstIsSpread
<1>2. TypeOK /\ BurstIsSpread /\ [Next]_vars => BurstIsSpread'
  <2> SUFFICES ASSUME TypeOK, BurstIsSpread, [Next]_vars, ~released',
                      NEW v \in Workers, NEW w \in Workers
               PROVE  load'[v] <= load'[w] + 1
    BY DEF BurstIsSpread
  <2>1. load \in [Workers -> Nat] /\ PoolIndex \in [Workers -> Nat]
    BY WorkersAssumption DEF TypeOK
  <2>2. CASE \E u \in Workers : ReserveWorker(u) /\ UNCHANGED released
    <3>1. PICK u \in Workers : ReserveWorker(u) /\ UNCHANGED released
      BY <2>2
    <3>2. load[u] <= load[w] /\ load[v] <= load[w] + 1
      BY <2>1, <3>1 DEF ReserveWorker, LeastLoaded, BurstIsSpread
    <3>3. load' = [load EXCEPT ![u] = load[u] + 1]
      BY <3>1 DEF ReserveWorker
    <3> QED
      BY <2>1, <3>2, <3>3
  <2>3. CASE UNCHANGED <<load, released>>
    BY <2>3 DEF BurstIsSpread
  <2> QED
    BY <2>2, <2>3, CountsChange DEF vars, historyVars
<1> QED
  BY <1>1, <1>2, TypeCorrect, PTL DEF Spec

-----------------------------------------------------------------------------
(***************************************************************************)
(* Peers without a transport.                                              *)
(***************************************************************************)

(* A MediaPeer object is in one place.                                     *)
SlotsApart ==
    \A x, y \in Routers, p, q \in PeerIds :
        peers[x][p] = peers[y][q] /\ peers[x][p] # None => x = y /\ p = q

(* If the object a request works for is in a room at all, it is where the  *)
(* request found or put it.                                                *)
RequestKnowsSlot ==
    \A c \in Calls, x \in Routers, p \in PeerIds :
        call[c].op = "createTransport" /\ peers[x][p] = call[c].peer =>
            x = call[c].room /\ p = call[c].id

PeersInv == TypeOK /\ SlotsApart /\ RequestKnowsSlot /\ NoStuckPeer

(* A request under way brought peer object o in, and answers for it.       *)
BroughtIn(o) ==
    \E c \in Calls : /\ call[c].op = "createTransport"
                     /\ call[c].peer = o
                     /\ ~call[c].existed

(* A step is harmless when the peers of the rooms only become fewer, those *)
(* that stay do not lose a transport, and of those without one the request *)
(* that brought them in goes on.                                           *)
LEMMA HarmlessSteps ==
    ASSUME PeersInv,
           \A c \in Calls : call'[c].op = "createTransport" => call'[c] = call[c],
           \A x \in Routers, p \in PeerIds : peers'[x][p] # None =>
              /\ peers'[x][p] = peers[x][p]
              /\ LET o == peers[x][p]
                 IN  send'[o] = None /\ recv'[o] = None =>
                        /\ send[o] = None /\ recv[o] = None
                        /\ BroughtIn(o) =>
                              \E c \in Calls :
                                 /\ call'[c].op = "createTransport"
                                 /\ call'[c].peer = o
                                 /\ ~call'[c].existed
    PROVE  SlotsApart' /\ RequestKnowsSlot' /\ NoStuckPeer'
<1>1. SlotsApart'
  BY DEF PeersInv, SlotsApart
<1>2. RequestKnowsSlot'
  <2> SUFFICES ASSUME NEW c \in Calls, NEW x \in Routers, NEW p \in PeerIds,
                      call'[c].op = "createTransport",
                      peers'[x][p] = call'[c].peer
               PROVE  x = call'[c].room /\ p = call'[c].id
    BY DEF RequestKnowsSlot
  <2>1. call'[c] = call[c] /\ call[c] \in CreateCalls
    BY CallContext DEF PeersInv
  <2>2. peers'[x][p] # None
    BY <2>1, NoneIsNothing DEF CreateCalls
  <2> QED
    BY <2>1, <2>2 DEF PeersInv, RequestKnowsSlot
<1>3. NoStuckPeer'
  BY DEF PeersInv, NoStuckPeer, BroughtIn
<1> QED
  BY <1>1, <1>2, <1>3

(* Whatever peer is removed, nothing changes for the others.               *)
LEMMA RemovalSparesOthers ==
    ASSUME PeersInv, NEW x \in Routers, NEW p \in PeerIds, RemoveFromRoom(x, p)
    PROVE  /\ peers'[x][p] = None
           /\ \A y \in Routers, q \in PeerIds : peers'[y][q] # None =>
                 /\ peers'[y][q] = peers[y][q]
                 /\ send'[peers[y][q]] = send[peers[y][q]]
                 /\ recv'[peers[y][q]] = recv[peers[y][q]]
<1>1. CASE peers[x][p] = None
  BY <1>1 DEF RemoveFromRoom
<1>2. CASE peers[x][p] # None
  <2> DEFINE o == peers[x][p]
  <2>1. /\ peers' = [peers EXCEPT ![x][p] = None]
        /\ send' = [send EXCEPT ![o] = None]
        /\ recv' = [recv EXCEPT ![o] = None]
    BY <1>2 DEF RemoveFromRoom
  <2>2. /\ peers'[x][p] = None
        /\ \A y \in Routers, q \in PeerIds :
              peers'[y][q] # None =>
                 peers'[y][q] = peers[y][q] /\ ~(y = x /\ q = p)
    BY <2>1 DEF PeersInv, TypeOK
  <2>3. \A y \in Routers, q \in PeerIds :
           peers'[y][q] # None => peers[y][q] # o /\ peers[y][q] \in PeerObjects
    BY <1>2, <2>2 DEF PeersInv, SlotsApart, TypeOK
  <2> QED
    BY <2>1, <2>2, <2>3 DEF PeersInv, TypeOK
<1> QED
  BY <1>1, <1>2

(* Requests that only end, other than the one that brought the peer in,    *)
(* and steps that touch neither peers nor requests, are harmless.          *)
LEMMA StillBroughtIn ==
    ASSUME PeersInv, UNCHANGED <<peers, send, recv>>,
           \A c \in Calls : \/ call'[c] = call[c]
                            \/ /\ call'[c].op # "createTransport"
                               /\ call[c].op = "createTransport" =>
                                     call[c].existed
    PROVE  SlotsApart' /\ RequestKnowsSlot' /\ NoStuckPeer'
<1>1. \A o : BroughtIn(o) => \E c \in Calls :
                               /\ call'[c].op = "createTransport"
                               /\ call'[c].peer = o
                               /\ ~call'[c].existed
  BY DEF BroughtIn
<1>2. SlotsApart'
  BY DEF PeersInv, SlotsApart
<1>3. RequestKnowsSlot'
  BY DEF PeersInv, RequestKnowsSlot
<1>4. NoStuckPeer'
  BY <1>1 DEF PeersInv, NoStuckPeer, BroughtIn
<1> QED
  BY <1>2, <1>3, <1>4

(* A request rests, whatever it was.                                       *)
LEMMA RestingType ==
    ASSUME TypeOK, NEW c \in Calls, call' = [call EXCEPT ![c] = Resting]
    PROVE  /\ call'[c].op = "none"
           /\ \A b \in Calls : b # c => call'[b] = call[b]
BY DEF TypeOK, Resting

(* A transport that was made for a peer that is still there: it is not     *)
(* without one, and no other peer has lost its request.                    *)
LEMMA InstalledNotStuck ==
    ASSUME PeersInv, NEW c \in Calls, NEW t \in Transports,
           call[c] \in CreateCalls,
           peers[call[c].room][call[c].id] = call[c].peer,
           Install(t, call[c]), UNCHANGED peers,
           call' = [call EXCEPT ![c] = Resting]
    PROVE  SlotsApart' /\ RequestKnowsSlot' /\ NoStuckPeer'
<1> DEFINE k == call[c]
<1>1. k.peer \in PeerObjects
  BY DEF CreateCalls
<1>2. send'[k.peer] = t \/ recv'[k.peer] = t
  BY <1>1 DEF Install, PeersInv, TypeOK
<1>3. \A o \in PeerObjects : o # k.peer => send'[o] = send[o] /\ recv'[o] = recv[o]
  BY <1>1 DEF Install, PeersInv, TypeOK
<1>4. /\ call'[c].op = "none"
      /\ \A b \in Calls : b # c => call'[b] = call[b]
  BY RestingType DEF PeersInv
<1>5. SlotsApart'
  BY DEF PeersInv, SlotsApart
<1>6. RequestKnowsSlot'
  BY <1>4 DEF PeersInv, RequestKnowsSlot
<1>7. ASSUME NEW x \in Routers, NEW p \in PeerIds,
             peers[x][p] # None,
             send'[peers[x][p]] = None, recv'[peers[x][p]] = None
      PROVE  \E b \in Calls : /\ call'[b].op = "createTransport"
                              /\ call'[b].peer = peers[x][p]
                              /\ ~call'[b].existed
  <2>1. peers[x][p] # k.peer
    BY <1>2, <1>7, NoneIsNothing
  <2>2. peers[x][p] \in PeerObjects
    BY <1>7 DEF PeersInv, TypeOK
  <2>3. PICK b \in Calls : /\ call[b].op = "createTransport"
                          /\ call[b].peer = peers[x][p]
                          /\ ~call[b].existed
    BY <1>3, <1>7, <2>1, <2>2 DEF PeersInv, NoStuckPeer
  <2> QED
    BY <1>4, <2>1, <2>3
<1>8. NoStuckPeer'
  BY <1>7 DEF NoStuckPeer
<1> QED
  BY <1>5, <1>6, <1>8

(* A request that brings its peer in answers for it.                       *)
LEMMA RequestsAreNotStuck ==
    ASSUME PeersInv, NEW c \in Calls, NEW r \in RoomIds, NEW p \in PeerIds,
           NEW d \in {"send", "recv"}, CreateTransport(c, r, p, d)
    PROVE  SlotsApart' /\ RequestKnowsSlot' /\ NoStuckPeer'
<1>1. PICK x \in Routers, o \in PeerObjects, existed \in BOOLEAN :
         TransportAsked(c, r, p, d, x, o, existed)
  BY CreateTransportSteps DEF PeersInv
<1>2. /\ call'[c] = [op |-> "createTransport", room |-> x, id |-> p, peer |-> o,
                     existed |-> existed, direction |-> d]
      /\ \A b \in Calls : b # c => call'[b] = call[b]
  BY <1>1 DEF PeersInv, TypeOK, TransportAsked
<1>3. \A u : BroughtIn(u) => \E b \in Calls :
                               /\ call'[b].op = "createTransport"
                               /\ call'[b].peer = u
                               /\ ~call'[b].existed
  BY <1>1, <1>2 DEF BroughtIn, TransportAsked
<1>4. peers'[x][p] = o /\ o # None
  BY <1>1, NoneIsNothing DEF PeersInv, TypeOK, TransportAsked
<1>5. ASSUME NEW y \in Routers, NEW q \in PeerIds,
             peers'[y][q] # peers[y][q] \/ peers'[y][q] = o
      PROVE  y = x /\ q = p
  BY <1>1, <1>4, <1>5 DEF PeersInv, SlotsApart, TypeOK, FreePeer, TransportAsked
<1>6. SlotsApart'
  BY <1>4, <1>5 DEF PeersInv, SlotsApart
<1>7. RequestKnowsSlot'
  <2> SUFFICES ASSUME NEW b \in Calls, NEW y \in Routers, NEW q \in PeerIds,
                      call'[b].op = "createTransport",
                      peers'[y][q] = call'[b].peer
               PROVE  y = call'[b].room /\ q = call'[b].id
    BY DEF RequestKnowsSlot
  <2>1. CASE b = c
    BY <1>2, <1>5, <2>1
  <2>2. CASE b # c
    <3>1. call'[b] = call[b]
      BY <1>2, <2>2
    <3>2. CASE peers'[y][q] = peers[y][q]
      BY <3>1, <3>2 DEF PeersInv, RequestKnowsSlot
    <3>3. CASE peers'[y][q] # peers[y][q]
      <4>1. y = x /\ q = p
        BY <1>5, <3>3
      <4>2. FreePeer(o) /\ call[b].peer = o
        BY <1>1, <1>4, <3>1, <3>3, <4>1 DEF TransportAsked
      <4> QED
        BY <3>1, <4>2 DEF FreePeer
    <3> QED
      BY <3>2, <3>3
  <2> QED
    BY <2>1, <2>2
<1>8. NoStuckPeer'
  <2> SUFFICES ASSUME NEW y \in Routers, NEW q \in PeerIds,
                      peers'[y][q] # None,
                      send'[peers'[y][q]] = None, recv'[peers'[y][q]] = None
               PROVE  \E b \in Calls : /\ call'[b].op = "createTransport"
                                       /\ call'[b].peer = peers'[y][q]
                                       /\ ~call'[b].existed
    BY DEF NoStuckPeer
  <2>1. CASE existed
    <3>1. UNCHANGED <<peers, send, recv>>
      BY <1>1, <2>1 DEF TransportAsked
    <3> QED
      BY <1>3, <3>1 DEF PeersInv, NoStuckPeer, BroughtIn
  <2>2. CASE ~existed
    <3>1. CASE y = x /\ q = p
      BY <1>2, <1>4, <2>2, <3>1
    <3>2. CASE ~(y = x /\ q = p)
      <4>1. peers'[y][q] = peers[y][q] /\ peers[y][q] # o
        BY <1>5, <3>2
      <4>2. /\ send'[peers[y][q]] = send[peers[y][q]]
            /\ recv'[peers[y][q]] = recv[peers[y][q]]
        BY <1>1, <2>2, <4>1 DEF PeersInv, TypeOK, TransportAsked
      <4> QED
        BY <1>3, <4>1, <4>2 DEF PeersInv, NoStuckPeer, BroughtIn
    <3> QED
      BY <3>1, <3>2
  <2> QED
    BY <2>1, <2>2
<1> QED
  BY <1>6, <1>7, <1>8

(* In every reachable state a peer without a transport is one whose first  *)
(* request is still under way, and will discard it if it fails: no peer    *)
(* keeps its MediaRoom from becoming empty for good.                       *)
THEOREM PeersAreNotStuck == Spec => []NoStuckPeer
<1> DEFINE Kept == SlotsApart /\ RequestKnowsSlot /\ NoStuckPeer
<1>1. Init => Kept
  BY DEF Init, NoPeers, Resting, SlotsApart, RequestKnowsSlot, NoStuckPeer
<1>2. PeersInv /\ [Next]_vars => Kept'
  <2> SUFFICES ASSUME PeersInv, [Next]_vars
               PROVE  SlotsApart' /\ RequestKnowsSlot' /\ NoStuckPeer'
    OBVIOUS
  <2> USE DEF PeersInv
  <2>1. ASSUME NEW r \in RoomIds, CreateRoom(r)
        PROVE  SlotsApart' /\ RequestKnowsSlot' /\ NoStuckPeer'
    BY <2>1, StillBroughtIn DEF CreateRoom
  <2>3. ASSUME NEW r \in RoomIds, RouterFails(r)
        PROVE  SlotsApart' /\ RequestKnowsSlot' /\ NoStuckPeer'
    BY <2>3, StillBroughtIn DEF RouterFails
  <2>4. ASSUME NEW r \in RoomIds, CloseRoom(r)
        PROVE  SlotsApart' /\ RequestKnowsSlot' /\ NoStuckPeer'
    BY <2>4, StillBroughtIn DEF CloseRoom, FinishClose
  <2>5. ASSUME NEW r \in RoomIds, NEW on \in BOOLEAN, SetRecording(r, on)
        PROVE  SlotsApart' /\ RequestKnowsSlot' /\ NoStuckPeer'
    BY <2>5, StillBroughtIn DEF SetRecording
  <2>2. ASSUME NEW r \in RoomIds, RouterCreated(r)
        PROVE  SlotsApart' /\ RequestKnowsSlot' /\ NoStuckPeer'
    <3>1. PICK x \in Routers : peers' = [peers EXCEPT ![x] = NoPeers]
      BY <2>2 DEF RouterCreated
    <3>2. UNCHANGED <<send, recv, call>>
      BY <2>2 DEF RouterCreated
    <3>3. \A y \in Routers, q \in PeerIds :
             peers'[y][q] # None => peers'[y][q] = peers[y][q]
      BY <3>1 DEF NoPeers, TypeOK
    <3>4. SlotsApart'
      BY <3>3 DEF SlotsApart
    <3>5. NoStuckPeer'
      BY <3>2, <3>3 DEF NoStuckPeer
    <3>6. RequestKnowsSlot'
      BY <3>2, <3>3, CallContext, NoneIsNothing DEF RequestKnowsSlot, CreateCalls
    <3> QED
      BY <3>4, <3>5, <3>6
  <2>6. ASSUME NEW r \in RoomIds, NEW p \in PeerIds, RemovePeer(r, p)
        PROVE  SlotsApart' /\ RequestKnowsSlot' /\ NoStuckPeer'
    <3>1. rooms[r] \in Routers
      BY <2>6 DEF RemovePeer, TypeOK
    <3>2. RemoveFromRoom(rooms[r], p) /\ UNCHANGED call
      BY <2>6 DEF RemovePeer
    <3> QED
      BY <3>1, <3>2, RemovalSparesOthers, HarmlessSteps DEF BroughtIn
  <2>7. ASSUME NEW r \in RoomIds, NEW c \in Calls, CloseRecordedRoom(c, r)
        PROVE  SlotsApart' /\ RequestKnowsSlot' /\ NoStuckPeer'
    <3>1. /\ call[c].op = "none" /\ UNCHANGED <<peers, send, recv>>
          /\ call' = [call EXCEPT ![c] =
                         [op |-> "closeRoom", room |-> rooms[r], id |-> r]]
      BY <2>7 DEF CloseRecordedRoom
    <3>2. /\ \A b \in Calls : b # c => call'[b] = call[b]
          /\ call'[c] = [op |-> "closeRoom", room |-> rooms[r], id |-> r]
      BY <3>1 DEF TypeOK
    <3> QED
      BY <3>1, <3>2, StillBroughtIn
  <2>8. ASSUME NEW c \in Calls, TransportCreated(c)
        PROVE  SlotsApart' /\ RequestKnowsSlot' /\ NoStuckPeer'
    <3>1. /\ call[c] \in CreateCalls
          /\ call' = [call EXCEPT ![c] = Resting]
          /\ UNCHANGED peers
      BY <2>8, CallContext DEF TransportCreated
    <3>2. CASE peers[call[c].room][call[c].id] # call[c].peer
      <4>1. UNCHANGED <<send, recv>>
        BY <2>8, <3>2 DEF TransportCreated
      <4>2. \A x \in Routers, p \in PeerIds : peers[x][p] # call[c].peer
        BY <3>1, <3>2 DEF RequestKnowsSlot, CreateCalls
      <4>3. /\ call'[c].op = "none"
            /\ \A b \in Calls : b # c => call'[b] = call[b]
        BY <3>1, RestingType
      <4> QED
        BY <3>1, <4>1, <4>2, <4>3, HarmlessSteps DEF BroughtIn
    <3>3. CASE peers[call[c].room][call[c].id] = call[c].peer
      <4>1. PICK t \in Transports : Install(t, call[c])
        BY <2>8, <3>3 DEF TransportCreated
      <4> QED
        BY <3>1, <3>3, <4>1, InstalledNotStuck
    <3> QED
      BY <3>2, <3>3
  <2>9. ASSUME NEW c \in Calls, TransportFails(c)
        PROVE  SlotsApart' /\ RequestKnowsSlot' /\ NoStuckPeer'
    <3>1. /\ call[c] \in CreateCalls
          /\ call' = [call EXCEPT ![c] = Resting]
      BY <2>9, CallContext DEF TransportFails
    <3>2. /\ call'[c].op = "none"
          /\ \A b \in Calls : b # c => call'[b] = call[b]
      BY <3>1, RestingType
    <3>3. CASE call[c].existed
      <4>1. UNCHANGED <<peers, send, recv>>
        BY <2>9, <3>3 DEF TransportFails
      <4> QED
        BY <3>2, <3>3, <4>1, StillBroughtIn
    <3>4. CASE ~call[c].existed
      <4>1. call[c].room \in Routers /\ call[c].id \in PeerIds
        BY <3>1 DEF CreateCalls
      <4>2. RemoveFromRoom(call[c].room, call[c].id)
        BY <2>9, <3>4 DEF TransportFails
      <4>3. /\ peers'[call[c].room][call[c].id] = None
            /\ \A y \in Routers, q \in PeerIds : peers'[y][q] # None =>
                  /\ peers'[y][q] = peers[y][q]
                  /\ send'[peers[y][q]] = send[peers[y][q]]
                  /\ recv'[peers[y][q]] = recv[peers[y][q]]
        BY <4>1, <4>2, RemovalSparesOthers
      <4>4. \A y \in Routers, q \in PeerIds :
               peers'[y][q] # None => peers[y][q] # call[c].peer
        BY <2>9, <4>3 DEF RequestKnowsSlot, TransportFails
      <4> QED
        BY <3>2, <4>3, <4>4, HarmlessSteps DEF BroughtIn
    <3> QED
      BY <3>3, <3>4
  <2>10. ASSUME NEW c \in Calls, RecordingStopped(c)
         PROVE  SlotsApart' /\ RequestKnowsSlot' /\ NoStuckPeer'
    <3>1. /\ call[c].op = "closeRoom" /\ UNCHANGED <<peers, send, recv>>
          /\ call' = [call EXCEPT ![c] = Resting]
      BY <2>10 DEF RecordingStopped, FinishClose
    <3> QED
      BY <3>1, RestingType, StillBroughtIn
  <2>11. ASSUME NEW c \in Calls, StopFails(c)
         PROVE  SlotsApart' /\ RequestKnowsSlot' /\ NoStuckPeer'
    <3>1. /\ call[c].op = "closeRoom" /\ UNCHANGED <<peers, send, recv>>
          /\ call' = [call EXCEPT ![c] = Resting]
      BY <2>11 DEF StopFails
    <3> QED
      BY <3>1, RestingType, StillBroughtIn
  <2>12. ASSUME NEW c \in Calls, NEW r \in RoomIds, NEW p \in PeerIds,
                NEW d \in {"send", "recv"}, CreateTransport(c, r, p, d)
         PROVE  SlotsApart' /\ RequestKnowsSlot' /\ NoStuckPeer'
    BY <2>12, RequestsAreNotStuck
  <2>13. CASE UNCHANGED vars
    BY <2>13, StillBroughtIn DEF vars
  <2> QED
    BY <2>1, <2>2, <2>3, <2>4, <2>5, <2>6, <2>7, <2>8, <2>9, <2>10, <2>11,
       <2>12, <2>13 DEF Next
<1> QED
  BY <1>1, <1>2, TypeCorrect, PTL DEF Spec, PeersInv

-----------------------------------------------------------------------------
(***************************************************************************)
(* The registry and the pool's counts.                                     *)
(***************************************************************************)
(* A room id names an open router that was made for it, an open router was *)
(* made for some room id, and a closing that awaits the end of a recording *)
(* knows the id of its own MediaRoom.                                      *)
NamesAreTrue ==
    /\ \A x \in Routers :
          router[x].state = "open" => router[x].room \in RoomIds
    /\ \A r \in RoomIds : rooms[r] # None =>
          /\ router[rooms[r]].state = "open"
          /\ router[rooms[r]].room = r
    /\ \A c \in Calls : call[c].op = "closeRoom" =>
          router[call[c].room].room = call[c].id

(* The ids name what they should.                                          *)
LEMMA NamesStep ==
    ASSUME TypeOK, NamesAreTrue, [Next]_vars
    PROVE  NamesAreTrue'
<1>0. /\ \A r \in RoomIds : rooms[r] # None =>
            /\ rooms[r] \in Routers
            /\ router[rooms[r]].state = "open" /\ router[rooms[r]].room = r
      /\ \A c \in Calls : call[c].op = "closeRoom" =>
            /\ call[c].room \in Routers
            /\ router[call[c].room].room = call[c].id
  BY CallContext DEF TypeOK, NamesAreTrue, CloseCalls
<1>1. ASSUME NEW r \in RoomIds, RouterCreated(r) PROVE NamesAreTrue'
  <2>1. PICK x \in Routers :
          /\ FreeRouter(x)
          /\ router' = [router EXCEPT ![x] = [state |-> "open", room |-> r,
                                              worker |-> pendingRooms[r]]]
          /\ rooms' = [rooms EXCEPT ![r] = x]
    BY <1>1 DEF RouterCreated
  <2>2. /\ router'[x].state = "open" /\ router'[x].room = r
        /\ \A y \in Routers : y # x => router'[y] = router[y]
        /\ rooms'[r] = x
        /\ \A q \in RoomIds : q # r => rooms'[q] = rooms[q] /\ rooms[q] # x
        /\ \A c \in Calls : call[c].room # x
        /\ UNCHANGED call
    BY <1>1, <2>1 DEF RouterCreated, FreeRouter, TypeOK
  <2> QED
    BY <1>0, <2>2 DEF NamesAreTrue
<1>2. ASSUME NEW r \in RoomIds, NEW x \in Routers, router[x].room = r,
             FinishClose(r, x),
             \A c \in Calls : call'[c] = call[c] \/ call'[c].op = "none"
      PROVE  NamesAreTrue'
  <2>1. /\ router'[x].room = router[x].room
        /\ \A y \in Routers : y # x => router'[y] = router[y]
        /\ rooms'[r] = None
        /\ \A q \in RoomIds : q # r => rooms'[q] = rooms[q]
    BY <1>2 DEF FinishClose, TypeOK
  <2> QED
    BY <1>0, <1>2, <2>1 DEF NamesAreTrue
<1>3. ASSUME NEW r \in RoomIds, CloseRoom(r) PROVE NamesAreTrue'
  <2>1. /\ rooms[r] \in Routers /\ router[rooms[r]].room = r
        /\ FinishClose(r, rooms[r])
        /\ UNCHANGED call
    BY <1>0, <1>3 DEF CloseRoom
  <2> QED
    BY <1>2, <2>1
<1>4. ASSUME NEW c \in Calls, RecordingStopped(c) PROVE NamesAreTrue'
  <2>1. /\ call[c].room \in Routers /\ router[call[c].room].room = call[c].id
        /\ call[c].id \in RoomIds
        /\ FinishClose(call[c].id, call[c].room)
        /\ call' = [call EXCEPT ![c] = Resting]
    BY <1>0, <1>4, CallContext DEF RecordingStopped, CloseCalls
  <2>2. \A b \in Calls : call'[b] = call[b] \/ call'[b].op = "none"
    BY <2>1, RestingType
  <2> QED
    BY <1>2, <2>1, <2>2
<1>5. ASSUME NEW r \in RoomIds, NEW c \in Calls, CloseRecordedRoom(c, r)
      PROVE  NamesAreTrue'
  <2>1. /\ call'[c] = [op |-> "closeRoom", room |-> rooms[r], id |-> r]
        /\ rooms[r] # None
        /\ \A b \in Calls : b # c => call'[b] = call[b]
        /\ UNCHANGED <<rooms, router>>
    BY <1>5 DEF CloseRecordedRoom, TypeOK
  <2> QED
    BY <1>0, <2>1 DEF NamesAreTrue
<1>6. ASSUME NEW c \in Calls,
             TransportCreated(c) \/ TransportFails(c) \/ StopFails(c)
      PROVE  NamesAreTrue'
  <2>1. UNCHANGED <<rooms, router>> /\ call' = [call EXCEPT ![c] = Resting]
    BY <1>6 DEF TransportCreated, TransportFails, StopFails
  <2>2. \A b \in Calls : call'[b] = call[b] \/ call'[b].op = "none"
    BY <2>1, RestingType
  <2> QED
    BY <1>0, <2>1, <2>2 DEF NamesAreTrue
<1>7. ASSUME NEW c \in Calls, NEW r \in RoomIds, NEW p \in PeerIds,
             NEW d \in {"send", "recv"}, CreateTransport(c, r, p, d)
      PROVE  NamesAreTrue'
  <2>1. PICK x \in Routers, o \in PeerObjects, existed \in BOOLEAN :
           TransportAsked(c, r, p, d, x, o, existed)
    BY <1>7, CreateTransportSteps
  <2>2. /\ call'[c].op = "createTransport"
        /\ \A b \in Calls : b # c => call'[b] = call[b]
    BY <2>1 DEF TransportAsked, TypeOK
  <2>3. UNCHANGED <<rooms, router>>
    BY <1>7 DEF CreateTransport
  <2> QED
    BY <1>0, <2>2, <2>3 DEF NamesAreTrue
<1>8. CASE UNCHANGED <<rooms, router, call>>
  BY <1>8 DEF NamesAreTrue
<1>9. ASSUME NEW r \in RoomIds,
             \/ CreateRoom(r) \/ RouterFails(r)
             \/ \E on \in BOOLEAN : SetRecording(r, on)
             \/ \E p \in PeerIds : RemovePeer(r, p)
      PROVE  NamesAreTrue'
  BY <1>8, <1>9 DEF CreateRoom, RouterFails, SetRecording, RemovePeer
<1>10. CASE UNCHANGED vars
  BY <1>8, <1>10 DEF vars
<1> QED
  BY <1>1, <1>3, <1>4, <1>5, <1>6, <1>7, <1>9, <1>10 DEF Next

(* A closing deletes the room id it knows, which its MediaRoom was made    *)
(* for; the id is overtaken if it names another by now.                    *)
Closing(r, x) ==
    /\ FinishClose(r, x)
    /\ router[x].room = r
    /\ overtaken' = IF rooms[r] = x THEN overtaken ELSE overtaken \cup {r}

LEMMA RegistrySteps ==
    ASSUME TypeOK, NamesAreTrue, [Next]_vars
    PROVE  \/ UNCHANGED <<rooms, pendingRooms, router, load, overtaken>>
           \/ \E r \in RoomIds :
                 \/ CreateRoom(r) \/ RouterCreated(r) \/ RouterFails(r)
                 \/ \E x \in Routers : Closing(r, x)
<1> USE DEF historyVars
<1>1. ASSUME NEW c \in Calls, RecordingStopped(c)
      PROVE  \E r \in RoomIds, x \in Routers : Closing(r, x)
  <2>1. call[c].id \in RoomIds /\ call[c].room \in Routers
    BY <1>1, CallContext DEF RecordingStopped, CloseCalls
  <2>2. router[call[c].room].room = call[c].id
    BY <1>1 DEF RecordingStopped, NamesAreTrue
  <2> QED
    BY <1>1, <2>1, <2>2 DEF RecordingStopped, Closing
<1>2. ASSUME NEW r \in RoomIds, CloseRoom(r)
      PROVE  \E x \in Routers : Closing(r, x)
  <2>1. rooms[r] \in Routers /\ router[rooms[r]].room = r
    BY <1>2 DEF CloseRoom, NamesAreTrue, TypeOK
  <2> QED
    BY <1>2, <2>1 DEF CloseRoom, Closing
<1>3. ASSUME NEW r \in RoomIds,
             \/ \E on \in BOOLEAN : SetRecording(r, on)
             \/ \E p \in PeerIds : RemovePeer(r, p)
             \/ \E c \in Calls : CloseRecordedRoom(c, r)
      PROVE  UNCHANGED <<rooms, pendingRooms, router, load, overtaken>>
  BY <1>3 DEF SetRecording, RemovePeer, CloseRecordedRoom
<1>4. ASSUME NEW c \in Calls,
             TransportCreated(c) \/ TransportFails(c) \/ StopFails(c)
      PROVE  UNCHANGED <<rooms, pendingRooms, router, load, overtaken>>
  BY <1>4 DEF TransportCreated, TransportFails, StopFails
<1>5. ASSUME NEW c \in Calls, NEW r \in RoomIds, NEW p \in PeerIds,
             NEW d \in {"send", "recv"}, CreateTransport(c, r, p, d)
      PROVE  UNCHANGED <<rooms, pendingRooms, router, load, overtaken>>
  BY <1>5 DEF CreateTransport
<1>6. UNCHANGED vars => UNCHANGED <<rooms, pendingRooms, router, load, overtaken>>
  BY DEF vars
<1> QED
  BY <1>1, <1>2, <1>3, <1>4, <1>5, <1>6 DEF Next

(* What RegistryHoldsOpenRouters says of one room id.                      *)
Registered(r) ==
    /\ \A x \in Routers :
          rooms[r] = x <=> router[x].state = "open" /\ router[x].room = r
    /\ rooms[r] # None => pendingRooms[r] = None

(* A closing touches no other room id than its own, and leaves that in     *)
(* order unless it is overtaken.                                           *)
LEMMA ClosingKeepsRegistry ==
    ASSUME TypeOK, RegistryHoldsOpenRouters, NEW r \in RoomIds,
           NEW x \in Routers, Closing(r, x), NEW q \in RoomIds \ overtaken'
    PROVE  Registered(q)'
<1>1. /\ rooms' = [rooms EXCEPT ![r] = None]
      /\ router' = [router EXCEPT ![x].state = "closed"]
      /\ router[x].room = r /\ UNCHANGED pendingRooms
      /\ q \notin overtaken /\ (q = r => rooms[r] = x)
  BY DEF Closing, FinishClose
<1>2. /\ rooms'[r] = None /\ router'[x].state = "closed"
      /\ \A y \in Routers : router'[y].room = router[y].room
      /\ \A y \in Routers \ {x} : router'[y] = router[y]
  BY <1>1 DEF TypeOK
<1>3. Registered(q)
  BY <1>1 DEF RegistryHoldsOpenRouters, Registered
<1>4. CASE q = r
  BY <1>1, <1>2, <1>3, <1>4, NoneIsNothing DEF Registered
<1>5. CASE q # r
  <2>1. rooms'[q] = rooms[q]
    BY <1>1, <1>5 DEF TypeOK
  <2> QED
    BY <1>1, <1>2, <1>3, <1>5, <2>1 DEF Registered
<1> QED
  BY <1>4, <1>5

LEMMA RegistryStep ==
    ASSUME TypeOK, NamesAreTrue, RegistryHoldsOpenRouters, [Next]_vars
    PROVE  RegistryHoldsOpenRouters'
<1> SUFFICES ASSUME NEW q \in RoomIds \ overtaken' PROVE Registered(q)'
  BY DEF RegistryHoldsOpenRouters, Registered
<1> USE DEF historyVars
<1>0. q \notin overtaken => Registered(q)
  BY DEF RegistryHoldsOpenRouters, Registered
<1>1. ASSUME NEW r \in RoomIds, CreateRoom(r) PROVE Registered(q)'
  <2>1. PICK w \in Workers : pendingRooms' = [pendingRooms EXCEPT ![r] = w]
    BY <1>1 DEF CreateRoom
  <2>2. rooms[r] = None /\ UNCHANGED <<rooms, router, overtaken>>
    BY <1>1 DEF CreateRoom
  <2> QED
    BY <1>0, <2>1, <2>2 DEF Registered, TypeOK
<1>2. ASSUME NEW r \in RoomIds, RouterCreated(r) PROVE Registered(q)'
  <2>1. PICK x \in Routers :
          /\ router' = [router EXCEPT ![x] = [state |-> "open", room |-> r,
                                              worker |-> pendingRooms[r]]]
          /\ rooms' = [rooms EXCEPT ![r] = x]
          /\ router[x].state = "closed"
          /\ \A p \in RoomIds : rooms[p] # x
    BY <1>2 DEF RouterCreated, FreeRouter
  <2>2. /\ pendingRooms[r] # None
        /\ pendingRooms' = [pendingRooms EXCEPT ![r] = None]
        /\ UNCHANGED overtaken
    BY <1>2 DEF RouterCreated
  <2>3. /\ rooms'[r] = x /\ router'[x].state = "open" /\ router'[x].room = r
        /\ pendingRooms'[r] = None
        /\ \A p \in RoomIds : p # r => rooms'[p] = rooms[p]
                                   /\ pendingRooms'[p] = pendingRooms[p]
        /\ \A y \in Routers : y # x => router'[y] = router[y]
    BY <2>1, <2>2 DEF TypeOK
  <2>4. Registered(q)
    BY <1>0, <2>2
  <2>5. CASE q = r
    <3>1. rooms[r] = None
      BY <2>2, <2>4, <2>5 DEF Registered
    <3>2. \A y \in Routers : y # x =>
             ~(router[y].state = "open" /\ router[y].room = r)
      BY <2>4, <2>5, <3>1, NoneIsNothing DEF Registered
    <3> QED
      BY <2>3, <2>5, <3>2 DEF Registered
  <2>6. CASE q # r
    BY <2>1, <2>3, <2>4, <2>6 DEF Registered
  <2> QED
    BY <2>5, <2>6
<1>3. ASSUME NEW r \in RoomIds, RouterFails(r) PROVE Registered(q)'
  BY <1>0, <1>3 DEF RouterFails, Registered, TypeOK
<1>4. CASE UNCHANGED <<rooms, pendingRooms, router, load, overtaken>>
  BY <1>0, <1>4 DEF Registered
<1> QED
  BY <1>1, <1>2, <1>3, <1>4, ClosingKeepsRegistry, RegistrySteps

LEMMA RegistryInit ==
    ASSUME Init
    PROVE  RegistryHoldsOpenRouters /\ NamesAreTrue
BY NoneIsNothing DEF Init, NoRouter, Resting, RegistryHoldsOpenRouters,
   NamesAreTrue

RegistryInv == TypeOK /\ NamesAreTrue /\ RegistryHoldsOpenRouters

LEMMA RegistryInvariant == Spec => []RegistryInv
<1>1. Init => RegistryHoldsOpenRouters /\ NamesAreTrue
  BY RegistryInit
<1>2. TypeOK /\ NamesAreTrue /\ [Next]_vars => NamesAreTrue'
  BY NamesStep
<1>3. TypeOK /\ NamesAreTrue /\ RegistryHoldsOpenRouters /\ [Next]_vars
         => RegistryHoldsOpenRouters'
  BY RegistryStep
<1> QED
  BY <1>1, <1>2, <1>3, TypeCorrect, PTL DEF Spec, RegistryInv

(* In every reachable state a room id names the one open router that was   *)
(* made for it, and no room is being created that exists, however the      *)
(* creations and closings of any number of rooms interleave: only a        *)
(* closing that was overtaken spoils an entry, and no other than its own.  *)
THEOREM RegistryIsExact == Spec => []RegistryHoldsOpenRouters
<1>1. RegistryInv => RegistryHoldsOpenRouters
  BY DEF RegistryInv
<1> QED
  BY <1>1, RegistryInvariant, PTL

(* Requests find the MediaRoom of an open transport.                       *)
LEMMA OpenIsNamed ==
    ASSUME OpenRouterUnder, RegistryInv, NEW t \in Transports,
           transport[t].state = "open"
    PROVE  IsNamed(transport[t].on)
<1> DEFINE x == transport[t].on
<1>1. x \in Routers /\ router[x].state = "open"
  BY DEF OpenRouterUnder
<1>2. router[x].room \in RoomIds
  BY <1>1 DEF RegistryInv, NamesAreTrue
<1> QED
  BY <1>1, <1>2 DEF RegistryInv, RegistryHoldsOpenRouters, IsNamed

(* In every reachable state each open transport is the send or the recv    *)
(* transport of a peer of its MediaRoom, and requests find that MediaRoom, *)
(* so that somebody can close it: removed peers, replaced transports,      *)
(* failed requests and closed rooms, recorded or not, leave none behind,   *)
(* but for a room id from which an overtaken closing deleted the room.     *)
THEOREM TransportsAreOwned == Spec => []NoOrphanTransport
<1>1. TransportInv /\ RegistryInv => NoOrphanTransport
  BY OpenIsNamed DEF NoOrphanTransport, TransportInv, TransportsHeld
<1> QED
  BY <1>1, TransportInvariant, RegistryInvariant, PTL

(* The routers of a worker, and the rooms being created on it.             *)
OpenOn(w)  == {x \in Routers : router[x].state = "open" /\ router[x].worker = w}
MadeFor(w) == {r \in RoomIds : pendingRooms[r] = w}

CountedOn(w) ==
    /\ IsFiniteSet(OpenOn(w))
    /\ IsFiniteSet(MadeFor(w))
    /\ load[w] = Cardinality(OpenOn(w)) + Cardinality(MadeFor(w))

Counted == \A w \in Workers : CountedOn(w)

(* A worker's count after a step that adds to its sets or takes from them. *)
LEMMA CountsFollow ==
    ASSUME NEW w, CountedOn(w),
           \/ /\ OpenOn(w)' = OpenOn(w) /\ MadeFor(w)' = MadeFor(w)
              /\ load'[w] = load[w]
           \/ \E r : /\ OpenOn(w)' = OpenOn(w)
                     /\ r \notin MadeFor(w) /\ MadeFor(w)' = MadeFor(w) \cup {r}
                     /\ load'[w] = load[w] + 1
           \/ \E r : /\ OpenOn(w)' = OpenOn(w)
                     /\ r \in MadeFor(w) /\ MadeFor(w)' = MadeFor(w) \ {r}
                     /\ load'[w] = IF load[w] = 0 THEN 0 ELSE load[w] - 1
           \/ \E x : /\ x \in OpenOn(w) /\ OpenOn(w)' = OpenOn(w) \ {x}
                     /\ MadeFor(w)' = MadeFor(w)
                     /\ load'[w] = IF load[w] = 0 THEN 0 ELSE load[w] - 1
           \/ \E r, x : /\ x \notin OpenOn(w) /\ OpenOn(w)' = OpenOn(w) \cup {x}
                        /\ r \in MadeFor(w) /\ MadeFor(w)' = MadeFor(w) \ {r}
                        /\ load'[w] = load[w]
    PROVE  CountedOn(w)'
<1> DEFINE a  == OpenOn(w)
           b  == MadeFor(w)
           aa == OpenOn(w)'
           bb == MadeFor(w)'
<1>1. /\ IsFiniteSet(a) /\ IsFiniteSet(b)
      /\ Cardinality(a) \in Nat /\ Cardinality(b) \in Nat
      /\ load[w] = Cardinality(a) + Cardinality(b)
  BY FS_CardinalityType DEF CountedOn
<1>2. SUFFICES /\ IsFiniteSet(aa) /\ IsFiniteSet(bb)
               /\ load'[w] = Cardinality(aa) + Cardinality(bb)
  BY DEF CountedOn
<1>3. \A x : /\ IsFiniteSet(a \cup {x}) /\ IsFiniteSet(b \cup {x})
             /\ IsFiniteSet(a \ {x}) /\ IsFiniteSet(b \ {x})
             /\ x \notin a => Cardinality(a \cup {x}) = Cardinality(a) + 1
             /\ x \notin b => Cardinality(b \cup {x}) = Cardinality(b) + 1
             /\ x \in a => Cardinality(a \ {x}) = Cardinality(a) - 1
             /\ x \in b => Cardinality(b \ {x}) = Cardinality(b) - 1
  BY <1>1, FS_AddElement, FS_RemoveElement
<1>4. \A x : /\ x \in a => Cardinality(a) # 0
             /\ x \in b => Cardinality(b) # 0
  BY <1>1, FS_EmptySet
<1> HIDE DEF a, b, aa, bb
<1>5. \/ aa = a /\ bb = b /\ load'[w] = load[w]
      \/ \E r : /\ aa = a /\ r \notin b /\ bb = b \cup {r}
                /\ load'[w] = load[w] + 1
      \/ \E r : /\ aa = a /\ r \in b /\ bb = b \ {r}
                /\ load'[w] = IF load[w] = 0 THEN 0 ELSE load[w] - 1
      \/ \E x : /\ x \in a /\ aa = a \ {x} /\ bb = b
                /\ load'[w] = IF load[w] = 0 THEN 0 ELSE load[w] - 1
      \/ \E r, x : /\ x \notin a /\ aa = a \cup {x} /\ r \in b /\ bb = b \ {r}
                   /\ load'[w] = load[w]
  BY DEF a, b, aa, bb
<1>6. CASE aa = a /\ bb = b /\ load'[w] = load[w]
  BY <1>1, <1>6
<1>7. ASSUME NEW r, aa = a, r \notin b, bb = b \cup {r},
             load'[w] = load[w] + 1
      PROVE  /\ IsFiniteSet(aa) /\ IsFiniteSet(bb)
             /\ load'[w] = Cardinality(aa) + Cardinality(bb)
  <2>1. Cardinality(bb) = Cardinality(b) + 1 /\ IsFiniteSet(bb)
    BY <1>3, <1>7
  <2> QED
    BY <1>1, <1>7, <2>1
<1>8. ASSUME NEW r, aa = a, r \in b, bb = b \ {r},
             load'[w] = IF load[w] = 0 THEN 0 ELSE load[w] - 1
      PROVE  /\ IsFiniteSet(aa) /\ IsFiniteSet(bb)
             /\ load'[w] = Cardinality(aa) + Cardinality(bb)
  <2>1. /\ Cardinality(bb) = Cardinality(b) - 1 /\ IsFiniteSet(bb)
        /\ Cardinality(b) # 0
    BY <1>3, <1>4, <1>8
  <2> QED
    BY <1>1, <1>8, <2>1
<1>9. ASSUME NEW x, x \in a, aa = a \ {x}, bb = b,
             load'[w] = IF load[w] = 0 THEN 0 ELSE load[w] - 1
      PROVE  /\ IsFiniteSet(aa) /\ IsFiniteSet(bb)
             /\ load'[w] = Cardinality(aa) + Cardinality(bb)
  <2>1. /\ Cardinality(aa) = Cardinality(a) - 1 /\ IsFiniteSet(aa)
        /\ Cardinality(a) # 0
    BY <1>3, <1>4, <1>9
  <2> QED
    BY <1>1, <1>9, <2>1
<1>10. ASSUME NEW r, NEW x, x \notin a, aa = a \cup {x}, r \in b,
              bb = b \ {r}, load'[w] = load[w]
       PROVE  /\ IsFiniteSet(aa) /\ IsFiniteSet(bb)
              /\ load'[w] = Cardinality(aa) + Cardinality(bb)
  <2>1. /\ Cardinality(aa) = Cardinality(a) + 1 /\ IsFiniteSet(aa)
        /\ Cardinality(bb) = Cardinality(b) - 1 /\ IsFiniteSet(bb)
    BY <1>3, <1>10
  <2> QED
    BY <1>1, <1>10, <2>1
<1> QED
  BY <1>5, <1>6, <1>7, <1>8, <1>9, <1>10

LEMMA CountedStep ==
    ASSUME RegistryInv, overtaken = {} => Counted, [Next]_vars,
           overtaken' = {}, NEW w \in Workers
    PROVE  CountedOn(w)'
<1> USE DEF RegistryInv, historyVars
<1>0. overtaken = {}
  BY RegistrySteps DEF CreateRoom, RouterCreated, RouterFails, Closing
<1>1. /\ CountedOn(w) /\ load \in [Workers -> Nat]
      /\ w # None
  BY <1>0, NoneIsNothing DEF Counted, TypeOK
<1>2. CASE UNCHANGED <<rooms, pendingRooms, router, load>>
  BY <1>1, <1>2, CountsFollow DEF OpenOn, MadeFor
<1>3. ASSUME NEW r \in RoomIds, CreateRoom(r)
      PROVE  CountedOn(w)'
  <2>1. PICK v \in Workers : /\ load' = [load EXCEPT ![v] = @ + 1]
                             /\ pendingRooms' = [pendingRooms EXCEPT ![r] = v]
    BY <1>3 DEF CreateRoom, ReserveWorker
  <2>2. OpenOn(w)' = OpenOn(w)
    BY <1>3 DEF CreateRoom, OpenOn
  <2>3. r \notin MadeFor(w)
    BY <1>1, <1>3 DEF CreateRoom, MadeFor
  <2>4. /\ MadeFor(w)' = IF w = v THEN MadeFor(w) \cup {r} ELSE MadeFor(w)
        /\ load'[w] = IF w = v THEN load[w] + 1 ELSE load[w]
    BY <1>1, <2>1, <2>3 DEF MadeFor, TypeOK
  <2> QED
    BY <1>1, <2>2, <2>3, <2>4, CountsFollow
<1>4. ASSUME NEW r \in RoomIds, RouterCreated(r)
      PROVE  CountedOn(w)'
  <2>1. PICK x \in Routers :
           /\ router[x].state = "closed"
           /\ router' = [router EXCEPT ![x] = [state |-> "open", room |-> r,
                                               worker |-> pendingRooms[r]]]
    BY <1>4 DEF RouterCreated, FreeRouter
  <2>2. pendingRooms' = [pendingRooms EXCEPT ![r] = None] /\ load' = load
    BY <1>4 DEF RouterCreated
  <2>3. /\ router'[x].state = "open" /\ router'[x].worker = pendingRooms[r]
        /\ \A y \in Routers \ {x} : router'[y] = router[y]
    BY <2>1 DEF TypeOK
  <2>4. x \notin OpenOn(w)
    BY <2>1 DEF OpenOn
  <2>5. OpenOn(w)' = IF pendingRooms[r] = w THEN OpenOn(w) \cup {x} ELSE OpenOn(w)
    BY <2>3, <2>4 DEF OpenOn
  <2>6. MadeFor(w)' = IF pendingRooms[r] = w THEN MadeFor(w) \ {r} ELSE MadeFor(w)
    BY <1>1, <2>2 DEF MadeFor, TypeOK
  <2>7. pendingRooms[r] = w => r \in MadeFor(w)
    BY DEF MadeFor
  <2> QED
    BY <1>1, <2>2, <2>4, <2>5, <2>6, <2>7, CountsFollow
<1>5. ASSUME NEW r \in RoomIds, RouterFails(r)
      PROVE  CountedOn(w)'
  <2>1. /\ load' = [load EXCEPT ![pendingRooms[r]] = IF @ = 0 THEN 0 ELSE @ - 1]
        /\ pendingRooms' = [pendingRooms EXCEPT ![r] = None]
        /\ router' = router
    BY <1>5 DEF RouterFails, TrackRouterClosed
  <2>2. OpenOn(w)' = OpenOn(w)
    BY <2>1 DEF OpenOn
  <2>3. MadeFor(w)' = IF pendingRooms[r] = w THEN MadeFor(w) \ {r} ELSE MadeFor(w)
    BY <1>1, <2>1 DEF MadeFor, TypeOK
  <2>4. load'[w] = IF pendingRooms[r] = w
                     THEN (IF load[w] = 0 THEN 0 ELSE load[w] - 1) ELSE load[w]
    BY <1>1, <2>1
  <2>5. pendingRooms[r] = w => r \in MadeFor(w)
    BY DEF MadeFor
  <2> QED
    BY <1>1, <2>2, <2>3, <2>4, <2>5, CountsFollow
<1>6. ASSUME NEW r \in RoomIds, NEW x \in Routers, Closing(r, x)
      PROVE  CountedOn(w)'
  <2>1. FinishClose(r, x) /\ router[x].state = "open"
    BY <1>0, <1>6 DEF Closing, RegistryHoldsOpenRouters
  <2>2. /\ load' = [load EXCEPT ![router[x].worker] = IF @ = 0 THEN 0 ELSE @ - 1]
        /\ pendingRooms' = pendingRooms
        /\ router'[x].state = "closed"
        /\ \A y \in Routers \ {x} : router'[y] = router[y]
    BY <2>1 DEF FinishClose, TrackRouterClosed, TypeOK
  <2>3. MadeFor(w)' = MadeFor(w)
    BY <2>2 DEF MadeFor
  <2>4. OpenOn(w)' = IF router[x].worker = w THEN OpenOn(w) \ {x} ELSE OpenOn(w)
    BY <2>1, <2>2 DEF OpenOn
  <2>5. load'[w] = IF router[x].worker = w
                     THEN (IF load[w] = 0 THEN 0 ELSE load[w] - 1) ELSE load[w]
    BY <1>1, <2>2
  <2>6. router[x].worker = w => x \in OpenOn(w)
    BY <2>1 DEF OpenOn
  <2> QED
    BY <1>1, <2>3, <2>4, <2>5, <2>6, CountsFollow
<1> QED
  BY <1>2, <1>3, <1>4, <1>5, <1>6, RegistrySteps

(* Until a closing is overtaken the pool's count of each worker is the     *)
(* number of its open routers and of those being created for it, whatever  *)
(* fails and closes: the clamp at zero never hides a router counted twice. *)
THEOREM PoolCountsRouters == Spec => []LoadCountsRouters
<1>1. Init => Counted
  <2> SUFFICES ASSUME Init, NEW w \in Workers
               PROVE  CountedOn(w)
    BY DEF Counted
  <2>1. OpenOn(w) = {} /\ MadeFor(w) = {} /\ load[w] = 0
    BY NoneIsNothing DEF Init, OpenOn, MadeFor, NoRouter
  <2> QED
    BY <2>1, FS_EmptySet DEF CountedOn
<1>2. RegistryInv /\ (overtaken = {} => Counted) /\ [Next]_vars
         => (overtaken = {} => Counted)'
  BY CountedStep DEF Counted
<1>3. (overtaken = {} => Counted) => LoadCountsRouters
  BY DEF Counted, CountedOn, OpenOn, MadeFor, LoadCountsRouters
<1> QED
  BY <1>1, <1>2, <1>3, RegistryInvariant, PTL DEF Spec

(* Without a recording no closing awaits anything, and none is overtaken.  *)
ClosesAtOnce ==
    /\ overtaken = {}
    /\ \A x \in Routers : ~recording[x]
    /\ \A c \in Calls : call[c].op # "closeRoom"

LEMMA ClosesAtOnceStep ==
    ASSUME TypeOK, Recording = FALSE, ClosesAtOnce, [Next]_vars
    PROVE  ClosesAtOnce'
<1> USE DEF ClosesAtOnce, historyVars
<1>1. CASE UNCHANGED <<recording, call, overtaken>>
  BY <1>1
<1>2. ASSUME NEW r \in RoomIds, RouterCreated(r)
      PROVE  ClosesAtOnce'
  <2>1. \E x \in Routers : recording' = [recording EXCEPT ![x] = FALSE]
    BY <1>2 DEF RouterCreated
  <2>2. UNCHANGED <<call, overtaken>>
    BY <1>2 DEF RouterCreated
  <2> QED
    BY <2>1, <2>2 DEF TypeOK
<1>3. ASSUME NEW r \in RoomIds, NEW c \in Calls, CloseRecordedRoom(c, r)
      PROVE  FALSE
  BY <1>3 DEF CloseRecordedRoom, TypeOK
<1>4. ASSUME NEW c \in Calls, RecordingStopped(c) \/ StopFails(c)
      PROVE  FALSE
  BY <1>4 DEF RecordingStopped, StopFails
<1>5. ASSUME NEW c \in Calls, TransportCreated(c) \/ TransportFails(c)
      PROVE  ClosesAtOnce'
  <2>1. call' = [call EXCEPT ![c] = Resting] /\ UNCHANGED <<recording, overtaken>>
    BY <1>5 DEF TransportCreated, TransportFails
  <2>2. \A b \in Calls : call'[b] = call[b] \/ call'[b].op = "none"
    BY <2>1, RestingType
  <2> QED
    BY <2>1, <2>2
<1>6. ASSUME NEW c \in Calls, NEW r \in RoomIds, NEW p \in PeerIds,
             NEW d \in {"send", "recv"}, CreateTransport(c, r, p, d)
      PROVE  ClosesAtOnce'
  <2>1. UNCHANGED <<recording, overtaken>>
    BY <1>6 DEF CreateTransport
  <2>2. \E x \in Routers, o \in PeerObjects, existed \in BOOLEAN :
           call' = [call EXCEPT ![c] =
                      [op |-> "createTransport", room |-> x, id |-> p,
                       peer |-> o, existed |-> existed, direction |-> d]]
    BY <1>6, CreateTransportSteps DEF TransportAsked
  <2>3. \A b \in Calls : call'[b] = call[b] \/ call'[b].op = "createTransport"
    BY <2>2 DEF TypeOK
  <2> QED
    BY <2>1, <2>3
<1> QED
  BY <1>1, <1>2, <1>3, <1>4, <1>5, <1>6
     DEF Next, vars, CreateRoom, RouterFails, CloseRoom, SetRecording, RemovePeer

(* Where rooms are not recorded no closing is overtaken: the registry is   *)
(* exact and the pool's counts are right, whatever is created, closed and  *)
(* fails.                                                                  *)
THEOREM UnrecordedRoomsAreExact ==
    ASSUME Recording = FALSE
    PROVE  Spec => [](/\ overtaken = {}
                      /\ RegistryHoldsOpenRouters
                      /\ LoadCountsRouters)
<1>1. Init => ClosesAtOnce
  BY DEF Init, Resting, ClosesAtOnce
<1>2. TypeOK /\ ClosesAtOnce /\ [Next]_vars => ClosesAtOnce'
  BY ClosesAtOnceStep
<1>3. ClosesAtOnce => overtaken = {}
  BY DEF ClosesAtOnce
<1> QED
  BY <1>1, <1>2, <1>3, TypeCorrect, RegistryIsExact, PoolCountsRouters, PTL
     DEF Spec

-----------------------------------------------------------------------------
(***************************************************************************)
(* The abstract node.                                                      *)
(***************************************************************************)
Hosted  == {r \in RoomIds : rooms[r] # None}
Present == {m \in RoomIds \X PeerIds :
              rooms[m[1]] # None /\ peers[rooms[m[1]]][m[2]] # None}
Awaited == {call[c].id : c \in {d \in Calls : call[d].op = "closeRoom"}}

(* The registry names a router for the room it was made for, so that no    *)
(* two rooms share one, and no room is created that is there.  Unlike      *)
(* RegistryHoldsOpenRouters this holds of an overtaken room id as well.    *)
RegistryNames ==
    \A r \in RoomIds :
        rooms[r] # None => router[rooms[r]].room = r /\ pendingRooms[r] = None

LEMMA RegistryNamesStep ==
    ASSUME TypeOK, RegistryNames, [Next]_vars
    PROVE  RegistryNames'
<1>1. CASE UNCHANGED <<rooms, pendingRooms, router>>
  BY <1>1 DEF RegistryNames
<1>2. ASSUME NEW r \in RoomIds, CreateRoom(r)
      PROVE  RegistryNames'
  <2>1. PICK w \in Workers : pendingRooms' = [pendingRooms EXCEPT ![r] = w]
    BY <1>2 DEF CreateRoom
  <2> QED
    BY <1>2, <2>1 DEF CreateRoom, RegistryNames, TypeOK
<1>3. ASSUME NEW r \in RoomIds, RouterFails(r)
      PROVE  RegistryNames'
  BY <1>3 DEF RouterFails, RegistryNames, TypeOK
<1>4. ASSUME NEW r \in RoomIds, RouterCreated(r)
      PROVE  RegistryNames'
  <2>1. PICK x \in Routers :
          /\ \A q \in RoomIds : rooms[q] # x
          /\ router' = [router EXCEPT ![x] = [state |-> "open", room |-> r,
                                              worker |-> pendingRooms[r]]]
          /\ rooms' = [rooms EXCEPT ![r] = x]
          /\ pendingRooms' = [pendingRooms EXCEPT ![r] = None]
    BY <1>4 DEF RouterCreated, FreeRouter
  <2>2. /\ rooms'[r] = x /\ router'[x].room = r /\ pendingRooms'[r] = None
        /\ \A q \in RoomIds \ {r} : rooms'[q] = rooms[q]
                                   /\ pendingRooms'[q] = pendingRooms[q]
        /\ \A y \in Routers \ {x} : router'[y] = router[y]
    BY <2>1 DEF TypeOK
  <2>3. \A q \in RoomIds : rooms[q] # None => rooms[q] \in Routers \ {x}
    BY <2>1 DEF TypeOK
  <2> QED
    BY <2>2, <2>3 DEF RegistryNames
<1>5. ASSUME NEW r \in RoomIds, NEW x \in Routers, FinishClose(r, x)
      PROVE  RegistryNames'
  <2>1. /\ rooms'[r] = None
        /\ \A q \in RoomIds \ {r} : rooms'[q] = rooms[q]
        /\ \A y \in Routers : router'[y].room = router[y].room
        /\ UNCHANGED pendingRooms
    BY <1>5 DEF FinishClose, TypeOK
  <2>2. \A q \in RoomIds : rooms[q] # None => rooms[q] \in Routers
    BY DEF TypeOK
  <2> QED
    BY <2>1, <2>2 DEF RegistryNames
<1>6. ASSUME NEW r \in RoomIds, CloseRoom(r)
      PROVE  RegistryNames'
  BY <1>5, <1>6 DEF CloseRoom, TypeOK
<1>7. ASSUME NEW c \in Calls, RecordingStopped(c)
      PROVE  RegistryNames'
  <2>1. call[c] \in CloseCalls
    BY <1>7, CallContext DEF RecordingStopped
  <2> QED
    BY <1>5, <1>7, <2>1 DEF RecordingStopped, CloseCalls
<1>8. CASE \/ \E r \in RoomIds : \/ \E on \in BOOLEAN : SetRecording(r, on)
                                 \/ \E p \in PeerIds : RemovePeer(r, p)
                                 \/ \E c \in Calls : CloseRecordedRoom(c, r)
           \/ \E c \in Calls : \/ TransportCreated(c) \/ TransportFails(c)
                              \/ StopFails(c)
           \/ \E c \in Calls, r \in RoomIds, p \in PeerIds,
                 d \in {"send", "recv"} : CreateTransport(c, r, p, d)
           \/ UNCHANGED vars
  BY <1>1, <1>8 DEF SetRecording, RemovePeer, CloseRecordedRoom, TransportCreated,
     TransportFails, StopFails, CreateTransport, vars
<1> QED
  BY <1>2, <1>3, <1>4, <1>6, <1>7, <1>8 DEF Next

(* A request that starts or ends changes the closings under way.           *)
LEMMA AwaitedChange ==
    ASSUME TypeOK, NEW c \in Calls, NEW v, call' = [call EXCEPT ![c] = v]
    PROVE  /\ call[c].op # "closeRoom" /\ v.op # "closeRoom"
                 => Awaited' = Awaited
           /\ call[c].op # "closeRoom" /\ v.op = "closeRoom"
                 => Awaited' = Awaited \cup {v.id}
           /\ call[c].op = "closeRoom" /\ v.op # "closeRoom"
                 => Awaited' \in {Awaited, Awaited \ {call[c].id}}
<1>1. call'[c] = v /\ \A d \in Calls \ {c} : call'[d] = call[d]
  BY DEF TypeOK
<1> QED
  BY <1>1 DEF Awaited

(* What a removal does to who is present: at most one peer of one room     *)
(* goes.                                                                   *)
LEMMA RemovalDismisses ==
    ASSUME TypeOK, RegistryNames, UNCHANGED rooms,
           NEW x \in Routers, NEW p \in PeerIds, RemoveFromRoom(x, p)
    PROVE  \/ Present' = Present
           \/ \E r \in RoomIds : Present' = Present \ {<<r, p>>}
<1>1. CASE peers[x][p] = None
  BY <1>1 DEF RemoveFromRoom, Present
<1>2. CASE peers[x][p] # None
  <2>1. /\ peers'[x][p] = None
        /\ \A y \in Routers, q \in PeerIds :
              <<y, q>> # <<x, p>> => peers'[y][q] = peers[y][q]
    BY <1>2 DEF RemoveFromRoom, TypeOK
  <2>2. \A q \in RoomIds : rooms[q] # None => rooms[q] \in Routers
    BY DEF TypeOK
  <2>3. CASE \E r \in RoomIds : rooms[r] = x
    <3>1. PICK r \in RoomIds : rooms[r] = x
      BY <2>3
    <3>2. \A q \in RoomIds : rooms[q] = x => q = r
      BY <3>1, NoneIsNothing DEF RegistryNames
    <3>3. Present' = Present \ {<<r, p>>}
      BY <2>1, <2>2, <3>1, <3>2 DEF Present
    <3> QED
      BY <3>3
  <2>4. CASE \A r \in RoomIds : rooms[r] # x
    BY <2>1, <2>2, <2>4 DEF Present
  <2> QED
    BY <2>3, <2>4
<1> QED
  BY <1>1, <1>2

(* What a closing does to the rooms: one goes, with whoever is in it.      *)
LEMMA ClosingForgets ==
    ASSUME TypeOK, NEW r \in RoomIds, NEW x, FinishClose(r, x)
    PROVE  /\ Hosted' = Hosted \ {r}
           /\ Present' = {m \in Present : m[1] # r}
<1>1. /\ rooms'[r] = None /\ \A q \in RoomIds \ {r} : rooms'[q] = rooms[q]
      /\ UNCHANGED peers
  BY DEF FinishClose, TypeOK
<1> QED
  BY <1>1 DEF Hosted, Present

PromptStep ==
    \/ UNCHANGED <<Hosted, Present, Awaited>>
    \/ \E r \in RoomIds :
          \/ /\ Hosted' = Hosted \cup {r}
             /\ UNCHANGED <<Present, Awaited>>
          \/ /\ \A p \in PeerIds : <<r, p>> \notin Present
             /\ Hosted' = Hosted \ {r}
             /\ Present' = {m \in Present : m[1] # r}
             /\ UNCHANGED Awaited
          \/ \E p \in PeerIds : /\ r \in Hosted
                                /\ Present' = Present \cup {<<r, p>>}
                                /\ UNCHANGED <<Hosted, Awaited>>
          \/ \E p \in PeerIds : /\ Present' = Present \ {<<r, p>>}
                                /\ UNCHANGED <<Hosted, Awaited>>

LEMMA PromptSteps ==
    ASSUME PromptStep
    PROVE  [Node!PromptNext]_(Node!nodeVars)
<1> USE DEF Hosted, Present, Awaited
<1>1. CASE UNCHANGED <<Hosted, Present, Awaited>>
  BY <1>1 DEF Node!nodeVars
<1>2. ASSUME NEW r \in RoomIds,
             Hosted' = Hosted \cup {r}, UNCHANGED <<Present, Awaited>>
      PROVE  Node!PromptNext
  BY <1>2 DEF Node!PromptNext, Node!Host
<1>3. ASSUME NEW r \in RoomIds, \A p \in PeerIds : <<r, p>> \notin Present,
             Hosted' = Hosted \ {r}, Present' = {m \in Present : m[1] # r},
             UNCHANGED Awaited
      PROVE  Node!PromptNext
  BY <1>3 DEF Node!PromptNext, Node!Close, Node!NobodyIn, Node!Forget
<1>4. ASSUME NEW r \in RoomIds, NEW p \in PeerIds, r \in Hosted,
             Present' = Present \cup {<<r, p>>}, UNCHANGED <<Hosted, Awaited>>
      PROVE  Node!PromptNext
  BY <1>4 DEF Node!PromptNext, Node!Admit
<1>5. ASSUME NEW r \in RoomIds, NEW p \in PeerIds,
             Present' = Present \ {<<r, p>>}, UNCHANGED <<Hosted, Awaited>>
      PROVE  Node!PromptNext
  BY <1>5 DEF Node!PromptNext, Node!Dismiss
<1> QED
  BY <1>1, <1>2, <1>3, <1>4, <1>5 DEF PromptStep

(* The steps that do not wait for the end of a recording.                  *)
LEMMA NodeStepPrompt ==
    ASSUME TypeOK, RegistryNames, [Next]_vars,
           \A c \in Calls : ~ RecordingStopped(c) /\ ~ StopFails(c),
           \A c \in Calls, r \in RoomIds : ~ CloseRecordedRoom(c, r)
    PROVE  PromptStep
<1>1. CASE UNCHANGED <<rooms, peers, Awaited>>
  BY <1>1 DEF PromptStep, Hosted, Present
<1>2. ASSUME NEW r \in RoomIds, RouterCreated(r)
      PROVE  PromptStep
  <2>1. PICK x \in Routers :
          /\ \A q \in RoomIds : rooms[q] # x
          /\ peers' = [peers EXCEPT ![x] = NoPeers]
          /\ rooms' = [rooms EXCEPT ![r] = x]
    BY <1>2 DEF RouterCreated, FreeRouter
  <2>2. rooms[r] = None /\ UNCHANGED call
    BY <1>2 DEF RouterCreated, RegistryNames
  <2>3. /\ rooms'[r] = x /\ x # None
        /\ \A q \in RoomIds \ {r} : rooms'[q] = rooms[q]
        /\ \A p \in PeerIds : peers'[x][p] = None
        /\ \A y \in Routers \ {x} : peers'[y] = peers[y]
        /\ \A q \in RoomIds : rooms[q] # None => rooms[q] \in Routers \ {x}
    BY <2>1, NoneIsNothing DEF TypeOK, NoPeers
  <2>4. Hosted' = Hosted \cup {r} /\ Present' = Present
    BY <2>2, <2>3 DEF Hosted, Present
  <2> QED
    BY <2>2, <2>4 DEF PromptStep, Awaited
<1>3. ASSUME NEW x \in Routers, NEW p \in PeerIds, RemoveFromRoom(x, p),
             UNCHANGED <<rooms, Awaited>>
      PROVE  PromptStep
  BY <1>3, RemovalDismisses DEF PromptStep, Hosted
<1>4. ASSUME NEW r \in RoomIds, NEW p \in PeerIds, RemovePeer(r, p)
      PROVE  PromptStep
  <2>1. /\ rooms[r] \in Routers /\ RemoveFromRoom(rooms[r], p)
        /\ UNCHANGED <<rooms, call>>
    BY <1>4 DEF RemovePeer, TypeOK
  <2> QED
    BY <1>3, <2>1 DEF Awaited
<1>5. ASSUME NEW c \in Calls, TransportCreated(c) \/ TransportFails(c)
      PROVE  PromptStep
  <2>1. call[c] \in CreateCalls /\ call' = [call EXCEPT ![c] = Resting]
    BY <1>5, CallContext DEF TransportCreated, TransportFails
  <2>2. Awaited' = Awaited /\ UNCHANGED rooms
    BY <1>5, <2>1, AwaitedChange DEF TransportCreated, TransportFails, CreateCalls,
       Resting
  <2>3. CASE UNCHANGED peers
    BY <1>1, <2>2, <2>3
  <2>4. CASE RemoveFromRoom(call[c].room, call[c].id)
    BY <1>3, <2>1, <2>2, <2>4 DEF CreateCalls
  <2> QED
    BY <1>5, <2>3, <2>4 DEF TransportCreated, TransportFails
<1>6. ASSUME NEW c \in Calls, NEW r \in RoomIds, NEW p \in PeerIds,
             NEW d \in {"send", "recv"}, CreateTransport(c, r, p, d)
      PROVE  PromptStep
  <2>1. PICK x \in Routers, o \in PeerObjects, existed \in BOOLEAN :
           TransportAsked(c, r, p, d, x, o, existed)
    BY <1>6, CreateTransportSteps
  <2>2. Awaited' = Awaited /\ UNCHANGED rooms
    BY <1>6, <2>1, AwaitedChange DEF TransportAsked, CreateTransport
  <2>3. CASE UNCHANGED peers
    BY <1>1, <2>2, <2>3
  <2>4. CASE peers' = [peers EXCEPT ![x] = [peers[x] EXCEPT ![p] = o]]
    <3>1. /\ rooms[r] = x /\ x # None /\ o # None
      BY <2>1, NoneIsNothing DEF TransportAsked
    <3>2. /\ peers'[x][p] = o
          /\ \A y \in Routers, q \in PeerIds :
                <<y, q>> # <<x, p>> => peers'[y][q] = peers[y][q]
      BY <2>4 DEF TypeOK
    <3>3. \A q \in RoomIds : rooms[q] = x => q = r
      BY <3>1 DEF RegistryNames
    <3>4. \A q \in RoomIds : rooms[q] # None => rooms[q] \in Routers
      BY DEF TypeOK
    <3>5. Present' = Present \cup {<<r, p>>} /\ r \in Hosted /\ Hosted' = Hosted
      BY <2>2, <3>1, <3>2, <3>3, <3>4 DEF Present, Hosted
    <3> QED
      BY <2>2, <3>5 DEF PromptStep
  <2> QED
    BY <2>1, <2>3, <2>4 DEF TransportAsked
<1>7. ASSUME NEW r \in RoomIds, CloseRoom(r)
      PROVE  PromptStep
  <2>1. Hosted' = Hosted \ {r} /\ Present' = {m \in Present : m[1] # r}
    BY <1>7, ClosingForgets DEF CloseRoom
  <2>2. \A p \in PeerIds : <<r, p>> \notin Present
    BY <1>7 DEF CloseRoom, IsEmpty, Present
  <2>3. Awaited' = Awaited
    BY <1>7 DEF CloseRoom, Awaited
  <2> QED
    BY <2>1, <2>2, <2>3 DEF PromptStep
<1>8. CASE \/ \E r \in RoomIds : \/ CreateRoom(r) \/ RouterFails(r)
                                 \/ \E on \in BOOLEAN : SetRecording(r, on)
           \/ UNCHANGED vars
  <2>1. UNCHANGED <<rooms, peers, call>>
    BY <1>8 DEF CreateRoom, RouterFails, SetRecording, vars
  <2> QED
    BY <1>1, <2>1 DEF Awaited
<1> QED
  BY <1>2, <1>4, <1>5, <1>6, <1>7, <1>8 DEF Next

(* The steps of a closing that waits for the end of a recording.           *)
LEMMA NodeStepAwaiting ==
    ASSUME TypeOK, NEW c \in Calls,
           \/ \E r \in RoomIds : CloseRecordedRoom(c, r)
           \/ RecordingStopped(c)
           \/ StopFails(c)
    PROVE  [Node!NodeNext]_(Node!nodeVars)
<1>1. ASSUME NEW r \in RoomIds, CloseRecordedRoom(c, r)
      PROVE  Node!NodeNext
  <2> DEFINE closeCall == [op |-> "closeRoom", room |-> rooms[r], id |-> r]
  <2>1. closeCall.op = "closeRoom" /\ closeCall.id = r
    OBVIOUS
  <2>2. call[c].op = "none" /\ call' = [call EXCEPT ![c] = closeCall]
    BY <1>1 DEF CloseRecordedRoom
  <2> HIDE DEF closeCall
  <2>3. Awaited' = Awaited \cup {r}
    BY <2>1, <2>2, AwaitedChange
  <2>4. /\ Hosted' = Hosted /\ Present' = Present /\ r \in Hosted
        /\ \A p \in PeerIds : <<r, p>> \notin Present
    BY <1>1 DEF CloseRecordedRoom, IsEmpty, Hosted, Present
  <2>5. Node!BeginClosing(r)
    BY <2>3, <2>4 DEF Node!BeginClosing, Node!NobodyIn, Hosted, Present, Awaited
  <2> QED
    BY <2>5 DEF Node!NodeNext
<1>2. ASSUME RecordingStopped(c) \/ StopFails(c)
      PROVE  [Node!NodeNext]_(Node!nodeVars)
  <2>1. /\ call[c] \in CloseCalls /\ call[c].op = "closeRoom"
        /\ call' = [call EXCEPT ![c] = Resting]
    BY <1>2, CallContext DEF RecordingStopped, StopFails
  <2>2. PICK r \in RoomIds : r = call[c].id
    BY <2>1 DEF CloseCalls
  <2>3. r \in Awaited /\ Awaited' \in {Awaited, Awaited \ {r}}
    BY <2>1, <2>2, AwaitedChange DEF Awaited, Resting
  <2>4. CASE RecordingStopped(c)
    <3>1. Hosted' = Hosted \ {r} /\ Present' = {m \in Present : m[1] # r}
      BY <2>2, <2>4, ClosingForgets DEF RecordingStopped
    <3>2. Node!EndClosing(r)
      BY <2>3, <3>1 DEF Node!EndClosing, Node!Forget, Hosted, Present, Awaited
    <3> QED
      BY <3>2 DEF Node!NodeNext
  <2>5. CASE StopFails(c)
    <3>1. Hosted' = Hosted /\ Present' = Present
      BY <2>5 DEF StopFails, Hosted, Present
    <3>2. Node!AbandonClosing(r) \/ UNCHANGED Node!nodeVars
      BY <2>3, <3>1 DEF Node!AbandonClosing, Node!nodeVars, Hosted, Present, Awaited
    <3> QED
      BY <3>2 DEF Node!NodeNext
  <2> QED
    BY <1>2, <2>4, <2>5
<1> QED
  BY <1>1, <1>2

LEMMA NodeInitial ==
    ASSUME Init
    PROVE  Node!NodeInit /\ RegistryNames
BY DEF Init, Resting, Node!NodeInit, RegistryNames

(* A node keeps the promise of MediaNode, for any rooms, peers, routers,   *)
(* requests under way and failures, recorded or not: peers enter and leave *)
(* one at a time, nobody's room is replaced, and a room goes only by a     *)
(* closing that found it empty when it was asked for.                      *)
THEOREM NodeIsImplemented == Spec => ImplementsNode
<1>1. Init => Node!NodeInit /\ RegistryNames
  BY NodeInitial
<1>2. TypeOK /\ RegistryNames /\ [Next]_vars => RegistryNames'
  BY RegistryNamesStep
<1>3. TypeOK /\ RegistryNames /\ [Next]_vars => [Node!NodeNext]_(Node!nodeVars)
  <2> SUFFICES ASSUME TypeOK, RegistryNames, [Next]_vars
               PROVE  [Node!NodeNext]_(Node!nodeVars)
    OBVIOUS
  <2>1. CASE \E c \in Calls : \/ \E r \in RoomIds : CloseRecordedRoom(c, r)
                             \/ RecordingStopped(c)
                             \/ StopFails(c)
    BY <2>1, NodeStepAwaiting
  <2>2. CASE /\ \A c \in Calls : ~ RecordingStopped(c) /\ ~ StopFails(c)
             /\ \A c \in Calls, r \in RoomIds : ~ CloseRecordedRoom(c, r)
    <3>1. [Node!PromptNext]_(Node!nodeVars)
      BY <2>2, NodeStepPrompt, PromptSteps
    <3> QED
      BY <3>1 DEF Node!NodeNext
  <2> QED
    BY <2>1, <2>2
<1> QED
  BY <1>1, <1>2, <1>3, TypeCorrect, PTL DEF Spec, ImplementsNode, Node!NodeSpec

(* Where rooms are not recorded no closing awaits anything, and a room     *)
(* goes only while nobody is in it: what the realtime service takes a      *)
(* node to do.                                                             *)
THEOREM UnrecordedNodeIsPrompt ==
    ASSUME Recording = FALSE
    PROVE  Spec => ImplementsPromptNode
<1>1. Init => Node!NodeInit /\ RegistryNames /\ ClosesAtOnce
  <2>1. Init => ClosesAtOnce
    BY DEF Init, Resting, ClosesAtOnce
  <2> QED
    BY <2>1, NodeInitial
<1>2. TypeOK /\ RegistryNames /\ [Next]_vars => RegistryNames'
  BY RegistryNamesStep
<1>3. TypeOK /\ ClosesAtOnce /\ [Next]_vars => ClosesAtOnce'
  BY ClosesAtOnceStep
<1>4. TypeOK /\ RegistryNames /\ ClosesAtOnce /\ [Next]_vars
         => [Node!PromptNext]_(Node!nodeVars)
  <2> SUFFICES ASSUME TypeOK, RegistryNames, ClosesAtOnce, [Next]_vars
               PROVE  [Node!PromptNext]_(Node!nodeVars)
    OBVIOUS
  <2>1. \A c \in Calls : ~ RecordingStopped(c) /\ ~ StopFails(c)
    BY DEF ClosesAtOnce, RecordingStopped, StopFails
  <2>2. \A c \in Calls, r \in RoomIds : ~ CloseRecordedRoom(c, r)
    BY DEF ClosesAtOnce, CloseRecordedRoom, TypeOK
  <2> QED
    BY <2>1, <2>2, NodeStepPrompt, PromptSteps
<1> QED
  BY <1>1, <1>2, <1>3, <1>4, TypeCorrect, PTL
     DEF Spec, ImplementsPromptNode, Node!PromptSpec
=============================================================================
