----------------------------- MODULE MediaRooms -----------------------------
(***************************************************************************)
(* One sfu node: its MediaRooms, their peers and transports, and the pool  *)
(* of mediasoup workers.  The process is single-threaded; requests         *)
(* interleave where the code awaits mediasoup (a router or a transport     *)
(* being created) or the recording service (closing a recorded room).      *)
(*                                                                         *)
(* An object is named by an identifier.  Identifiers of objects nothing    *)
(* refers to any more are used again, as memory is.  A MediaRoom has one   *)
(* router for life, and goes by its identifier.                            *)
(***************************************************************************)
EXTENDS Integers, FiniteSets, FiniteSetsExt

CONSTANTS
    RoomIds,      \* room ids requests may name
    PeerIds,      \* peer ids requests may name
    Workers,      \* the mediasoup workers of the pool
    PoolIndex,    \* the position of each worker in WorkerPoolService.workers
    Routers,      \* identifiers of routers, and of their MediaRooms
    PeerObjects,  \* identifiers of MediaPeer objects
    Transports,   \* identifiers of WebRtcTransports
    Calls,        \* bound: requests under way at the same time
    None,
    MaxFaults,    \* bound: mediasoup and file-system failures
    Recording     \* whether clients record rooms

ASSUME WorkersAssumption ==
    /\ Workers # {} /\ IsFiniteSet(Workers)
    /\ PoolIndex \in [Workers -> Nat]
ASSUME NoneAssumption ==
    None \notin Routers \cup PeerObjects \cup Transports \cup Workers \cup RoomIds
ASSUME ConfigAssumption == MaxFaults \in Nat /\ Recording \in BOOLEAN

VARIABLES
    rooms,        \* MediaRoomsService.rooms: the MediaRoom of each room id
    pendingRooms, \* MediaRoomsService.pendingRooms, by its reserved worker
    load,         \* WorkerPoolService.routersPerWorker
    router,       \* each router, and the room id and worker it was made for
    recording,    \* MediaRoom.recording
    peers,        \* MediaRoom.peers: the MediaPeer of each peer id
    send,         \* MediaPeer.sendTransport
    recv,         \* MediaPeer.recvTransport
    transport,    \* each transport, and the router it is on
    call,         \* the requests suspended at an await
    released,     \* history: a worker was given back a router
    overtaken,    \* history: ids deleted when they named the closed room no more
    faults        \* failures so far, bounded by MaxFaults

historyVars == <<released, overtaken>>
vars == <<rooms, pendingRooms, load, router, recording, peers, send, recv,
          transport, call, historyVars, faults>>

NoRouter    == [state |-> "closed", room |-> None, worker |-> None]
NoTransport == [state |-> "closed", on |-> None]
Resting     == [op |-> "none", room |-> None]

CreateCalls == [op : {"createTransport"}, room : Routers, id : PeerIds,
                peer : PeerObjects, existed : BOOLEAN,
                direction : {"send", "recv"}]
CloseCalls  == [op : {"closeRoom"}, room : Routers, id : RoomIds]

NoPeers == [p \in PeerIds |-> None]

Init ==
    /\ rooms = [r \in RoomIds |-> None]
    /\ pendingRooms = [r \in RoomIds |-> None]
    /\ load = [w \in Workers |-> 0]
    /\ router = [x \in Routers |-> NoRouter]
    /\ recording = [x \in Routers |-> FALSE]
    /\ peers = [x \in Routers |-> NoPeers]
    /\ send = [o \in PeerObjects |-> None]
    /\ recv = [o \in PeerObjects |-> None]
    /\ transport = [t \in Transports |-> NoTransport]
    /\ call = [c \in Calls |-> Resting]
    /\ released = FALSE
    /\ overtaken = {}
    /\ faults = 0

Fault == faults < MaxFaults /\ faults' = faults + 1

(* Identifiers that may name a new object: nothing refers to the old one.  *)
FreeRouter(x) ==
    /\ router[x].state = "closed"
    /\ \A r \in RoomIds : rooms[r] # x
    /\ \A c \in Calls : call[c].room # x

FreePeer(o) ==
    /\ \A x \in Routers, p \in PeerIds : peers[x][p] # o
    /\ \A c \in Calls : call[c].op = "createTransport" => call[c].peer # o

FreeTransport(t) ==
    /\ transport[t].state = "closed"
    /\ \A x \in Routers, p \in PeerIds :
          LET o == peers[x][p] IN o # None => send[o] # t /\ recv[o] # t

-----------------------------------------------------------------------------
(***************************************************************************)
(* WorkerPoolService                                                       *)
(***************************************************************************)
(* Mutant: the first worker of the pool, however loaded.                   *)
FirstListed(w) == \A v \in Workers \ {w} : PoolIndex[w] < PoolIndex[v]

(* w is the first of the workers with the fewest routers.                  *)
LeastLoaded(w) ==
    \A v \in Workers \ {w} :
        \/ load[w] < load[v]
        \/ load[w] = load[v] /\ PoolIndex[w] < PoolIndex[v]

ReserveWorker(w) ==
    /\ LeastLoaded(w)
    /\ load' = [load EXCEPT ![w] = @ + 1]

(* Mutant: the count is not kept from going below zero.                    *)
TrackRouterClosedUnclamped(w) ==
    /\ load' = [load EXCEPT ![w] = @ - 1]
    /\ released' = TRUE

TrackRouterClosed(w) ==
    /\ load' = [load EXCEPT ![w] = IF @ = 0 THEN 0 ELSE @ - 1]
    /\ released' = TRUE

-----------------------------------------------------------------------------
(***************************************************************************)
(* MediaRoomsService                                                       *)
(***************************************************************************)
(* Mutant: a room that is there is created again.                          *)
CreateRoomAgain(r) ==
    /\ pendingRooms[r] = None
    /\ \E w \in Workers :
          /\ ReserveWorker(w)
          /\ pendingRooms' = [pendingRooms EXCEPT ![r] = w]
    /\ UNCHANGED <<rooms, router, recording, peers, send, recv, transport,
                   call, historyVars, faults>>

(* getOrCreateRoom, when there is neither the room nor a creation of it.   *)
CreateRoom(r) ==
    /\ rooms[r] = None
    /\ pendingRooms[r] = None
    /\ \E w \in Workers :
          /\ ReserveWorker(w)
          /\ pendingRooms' = [pendingRooms EXCEPT ![r] = w]
    /\ UNCHANGED <<rooms, router, recording, peers, send, recv, transport,
                   call, historyVars, faults>>

RouterCreated(r) ==
    /\ pendingRooms[r] # None
    /\ \E x \in Routers :
          /\ FreeRouter(x)
          /\ router' = [router EXCEPT ![x] = [state |-> "open", room |-> r,
                                              worker |-> pendingRooms[r]]]
          /\ recording' = [recording EXCEPT ![x] = FALSE]
          /\ peers' = [peers EXCEPT ![x] = NoPeers]
          /\ rooms' = [rooms EXCEPT ![r] = x]
    /\ pendingRooms' = [pendingRooms EXCEPT ![r] = None]
    /\ UNCHANGED <<load, send, recv, transport, call, historyVars, faults>>

(* Mutant: a worker stays reserved for a router that could not be made.    *)
RouterFailsUncounted(r) ==
    /\ pendingRooms[r] # None
    /\ Fault
    /\ pendingRooms' = [pendingRooms EXCEPT ![r] = None]
    /\ UNCHANGED <<rooms, load, router, recording, peers, send, recv,
                   transport, call, historyVars>>

RouterFails(r) ==
    /\ pendingRooms[r] # None
    /\ Fault
    /\ TrackRouterClosed(pendingRooms[r])
    /\ pendingRooms' = [pendingRooms EXCEPT ![r] = None]
    /\ UNCHANGED <<rooms, router, recording, peers, send, recv, transport,
                   call, overtaken>>

Close(ts) ==
    transport' = [t \in Transports |->
                    IF t \in ts THEN NoTransport ELSE transport[t]]

(* MediaRoom.removePeer: nothing reads the fields of a removed MediaPeer.  *)
RemoveFromRoom(x, p) ==
    LET o == peers[x][p]
    IN  IF o = None THEN UNCHANGED <<peers, send, recv, transport>>
        ELSE /\ Close({send[o], recv[o]})
             /\ peers' = [peers EXCEPT ![x][p] = None]
             /\ send' = [send EXCEPT ![o] = None]
             /\ recv' = [recv EXCEPT ![o] = None]

RemovePeer(r, p) ==
    /\ rooms[r] # None
    /\ RemoveFromRoom(rooms[r], p)
    /\ UNCHANGED <<rooms, pendingRooms, load, router, recording, call,
                   historyVars, faults>>

(* createTransport up to its await: the peer is there from now on.         *)
CreateTransport(c, r, p, d) ==
    /\ call[c].op = "none"
    /\ rooms[r] # None
    /\ LET x == rooms[r]
           known == peers[x][p]
           Request(o) == [op |-> "createTransport", room |-> x, id |-> p,
                          peer |-> o, existed |-> known # None, direction |-> d]
       IN  \/ /\ known # None
              /\ call' = [call EXCEPT ![c] = Request(known)]
              /\ UNCHANGED <<peers, send, recv>>
           \/ /\ known = None
              /\ \E o \in PeerObjects :
                    /\ FreePeer(o)
                    /\ peers' = [peers EXCEPT ![x][p] = o]
                    /\ send' = [send EXCEPT ![o] = None]
                    /\ recv' = [recv EXCEPT ![o] = None]
                    /\ call' = [call EXCEPT ![c] = Request(o)]
    /\ UNCHANGED <<rooms, pendingRooms, load, router, recording, transport,
                   historyVars, faults>>

(* The transport becomes the peer's, in place of the one it had.           *)
Install(t, k) ==
    LET old == IF k.direction = "send" THEN send[k.peer] ELSE recv[k.peer]
    IN  /\ transport' = [u \in Transports |->
                           IF u = t THEN [state |-> router[k.room].state,
                                          on |-> k.room]
                           ELSE IF u = old THEN NoTransport
                           ELSE transport[u]]
        /\ IF k.direction = "send"
             THEN send' = [send EXCEPT ![k.peer] = t] /\ UNCHANGED recv
             ELSE recv' = [recv EXCEPT ![k.peer] = t] /\ UNCHANGED send

(* Mutant: nobody checks whether the peer was removed meanwhile.           *)
TransportCreatedUnchecked(c) ==
    /\ call[c].op = "createTransport"
    /\ \E t \in Transports : FreeTransport(t) /\ Install(t, call[c])
    /\ call' = [call EXCEPT ![c] = Resting]
    /\ UNCHANGED <<rooms, pendingRooms, load, router, recording, peers,
                   historyVars, faults>>

(* mediasoup made the transport; if the peer was removed meanwhile, the    *)
(* transport is closed and the request is answered with an error.          *)
TransportCreated(c) ==
    /\ call[c].op = "createTransport"
    /\ LET k == call[c]
       IN  IF peers[k.room][k.id] # k.peer
             THEN UNCHANGED <<transport, send, recv>>
             ELSE \E t \in Transports : FreeTransport(t) /\ Install(t, k)
    /\ call' = [call EXCEPT ![c] = Resting]
    /\ UNCHANGED <<rooms, pendingRooms, load, router, recording, peers,
                   historyVars, faults>>

(* Mutant: a peer whose first transport failed is not discarded.           *)
TransportFailsUndiscarded(c) ==
    /\ call[c].op = "createTransport"
    /\ IF router[call[c].room].state = "open" THEN Fault ELSE UNCHANGED faults
    /\ call' = [call EXCEPT ![c] = Resting]
    /\ UNCHANGED <<rooms, pendingRooms, load, router, recording, peers, send,
                   recv, transport, historyVars>>

(* mediasoup failed, or the router was closed under the request.           *)
TransportFails(c) ==
    /\ call[c].op = "createTransport"
    /\ LET k == call[c]
       IN  /\ IF router[k.room].state = "open" THEN Fault ELSE UNCHANGED faults
           /\ IF k.existed THEN UNCHANGED <<peers, send, recv, transport>>
                           ELSE RemoveFromRoom(k.room, k.id)
    /\ call' = [call EXCEPT ![c] = Resting]
    /\ UNCHANGED <<rooms, pendingRooms, load, router, recording, historyVars>>

(* Mutant: a peer that has no transport yet does not count.                *)
HasNoTransport(x) ==
    \A p \in PeerIds : LET o == peers[x][p]
                       IN  o # None => send[o] = None /\ recv[o] = None

IsEmpty(x) == \A p \in PeerIds : peers[x][p] = None

(* Mutant: a closed room is not deleted from the registry.                 *)
FinishCloseRegistered(r, x) ==
    /\ router' = [router EXCEPT ![x].state = "closed"]
    /\ Close({t \in Transports : transport[t].on = x})
    /\ TrackRouterClosed(router[x].worker)
    /\ UNCHANGED <<rooms, pendingRooms, peers, send, recv>>

(* The end of closeRoom: the router and all its transports close, and the  *)
(* room id is forgotten, whatever it names by now.                         *)
FinishClose(r, x) ==
    /\ router' = [router EXCEPT ![x].state = "closed"]
    /\ Close({t \in Transports : transport[t].on = x})
    /\ TrackRouterClosed(router[x].worker)
    /\ rooms' = [rooms EXCEPT ![r] = None]
    /\ UNCHANGED <<pendingRooms, peers, send, recv>>

CloseRoom(r) ==
    /\ rooms[r] # None
    /\ IsEmpty(rooms[r])
    /\ ~recording[rooms[r]]
    /\ FinishClose(r, rooms[r])
    /\ UNCHANGED <<recording, call, overtaken, faults>>

(* A recorded room is closed after its recording is: closeRoom awaits.     *)
CloseRecordedRoom(c, r) ==
    /\ call[c].op = "none"
    /\ rooms[r] # None
    /\ IsEmpty(rooms[r])
    /\ recording[rooms[r]]
    /\ recording' = [recording EXCEPT ![rooms[r]] = FALSE]
    /\ call' = [call EXCEPT ![c] =
                   [op |-> "closeRoom", room |-> rooms[r], id |-> r]]
    /\ UNCHANGED <<rooms, pendingRooms, load, router, peers, send, recv,
                   transport, historyVars, faults>>

(* The closing goes on without looking at the room again.                  *)
RecordingStopped(c) ==
    /\ call[c].op = "closeRoom"
    /\ FinishClose(call[c].id, call[c].room)
    /\ overtaken' = IF rooms[call[c].id] = call[c].room THEN overtaken
                    ELSE overtaken \cup {call[c].id}
    /\ call' = [call EXCEPT ![c] = Resting]
    /\ UNCHANGED <<recording, faults>>

(* Writing the meeting's files failed: the room is not closed.             *)
StopFails(c) ==
    /\ call[c].op = "closeRoom"
    /\ Fault
    /\ call' = [call EXCEPT ![c] = Resting]
    /\ UNCHANGED <<rooms, pendingRooms, load, router, recording, peers, send,
                   recv, transport, historyVars>>

SetRecording(r, on) ==
    /\ Recording
    /\ rooms[r] # None
    /\ recording' = [recording EXCEPT ![rooms[r]] = on]
    /\ UNCHANGED <<rooms, pendingRooms, load, router, peers, send, recv,
                   transport, call, historyVars, faults>>

-----------------------------------------------------------------------------
Next ==
    \/ \E r \in RoomIds : \/ CreateRoom(r)
                          \/ RouterCreated(r)
                          \/ RouterFails(r)
                          \/ CloseRoom(r)
                          \/ \E on \in BOOLEAN : SetRecording(r, on)
                          \/ \E p \in PeerIds : RemovePeer(r, p)
                          \/ \E c \in Calls : CloseRecordedRoom(c, r)
    \/ \E c \in Calls : \/ TransportCreated(c)
                        \/ TransportFails(c)
                        \/ RecordingStopped(c)
                        \/ StopFails(c)
    \/ \E c \in Calls, r \in RoomIds, p \in PeerIds, d \in {"send", "recv"} :
          CreateTransport(c, r, p, d)

Spec == Init /\ [][Next]_vars

-----------------------------------------------------------------------------
TypeOK ==
    /\ rooms \in [RoomIds -> Routers \cup {None}]
    /\ pendingRooms \in [RoomIds -> Workers \cup {None}]
    /\ load \in [Workers -> Nat]
    /\ router \in [Routers -> [state : {"open", "closed"},
                               room : RoomIds \cup {None},
                               worker : Workers \cup {None}]]
    /\ recording \in [Routers -> BOOLEAN]
    /\ peers \in [Routers -> [PeerIds -> PeerObjects \cup {None}]]
    /\ send \in [PeerObjects -> Transports \cup {None}]
    /\ recv \in [PeerObjects -> Transports \cup {None}]
    /\ transport \in [Transports -> [state : {"open", "closed"},
                                     on : Routers \cup {None}]]
    /\ call \in [Calls -> {Resting} \cup CreateCalls \cup CloseCalls]
    /\ released \in BOOLEAN
    /\ overtaken \in SUBSET RoomIds
    /\ faults \in Nat

(* The MediaRoom a room id names is the one open router that was made for  *)
(* it, and none is being made beside it: no router leaks, and no peers of  *)
(* one room end up on two routers (docs/sfu-signaling-design.md:86-94).    *)
(* The code keeps this but for a room id from which a closing that awaited *)
(* the end of a recording deleted another MediaRoom than its own           *)
(* (media-rooms.service.ts:258-264): closeRoom looks at the room before    *)
(* its await and not after it.  The harm stays with that room id.          *)
RegistryHoldsOpenRouters ==
    \A r \in RoomIds \ overtaken :
        /\ \A x \in Routers :
              rooms[r] = x <=> router[x].state = "open" /\ router[x].room = r
        /\ rooms[r] # None => pendingRooms[r] = None

(* The pool's count of each worker is the number of its open routers and   *)
(* of those being created for it, whatever fails and closes, until a       *)
(* closing is overtaken: that one may close a router for the second time.  *)
LoadCountsRouters ==
    overtaken = {} =>
        \A w \in Workers :
            load[w] = Cardinality({x \in Routers : /\ router[x].state = "open"
                                                   /\ router[x].worker = w})
                    + Cardinality({r \in RoomIds : pendingRooms[r] = w})

(* The requests that name r reach MediaRoom x, unless a closing of r was   *)
(* overtaken.                                                              *)
IsNamed(x) ==
    \E r \in RoomIds : router[x].room = r /\ (rooms[r] = x \/ r \in overtaken)

(* Every open transport can be closed by somebody: it is the send or the   *)
(* recv transport of a peer of its own MediaRoom, and requests find that   *)
(* MediaRoom by its room id.  None survives a removed peer, a replaced     *)
(* transport or a failed request.  A MediaRoom whose room id an overtaken  *)
(* closing has deleted is beyond every request, its transports with it.    *)
NoOrphanTransport ==
    \A t \in Transports :
        transport[t].state = "open" =>
            LET x == transport[t].on
            IN  /\ IsNamed(x)
                /\ \E p \in PeerIds : LET o == peers[x][p]
                                       IN  o # None /\ t \in {send[o], recv[o]}

(* A peer that never got a transport is not kept for good: the request     *)
(* that brought it in is still under way and will discard it if it fails,  *)
(* so the room can become empty (media-rooms.service.ts:132-138).          *)
NoStuckPeer ==
    \A x \in Routers, p \in PeerIds :
        LET o == peers[x][p]
        IN  o # None /\ send[o] = None /\ recv[o] = None =>
               \E c \in Calls : /\ call[c].op = "createTransport"
                                /\ call[c].peer = o
                                /\ ~call[c].existed

(* While no router has been given back, a burst of creations is spread     *)
(* evenly: a worker is reserved before its router is awaited               *)
(* (worker-pool.service.ts:44-64).                                         *)
BurstIsSpread ==
    ~released => \A v, w \in Workers : load[v] <= load[w] + 1

(* The node, as its callers know it.                                       *)
Node == INSTANCE MediaNode WITH
    hosted  <- {r \in RoomIds : rooms[r] # None},
    present <- {m \in RoomIds \X PeerIds :
                  rooms[m[1]] # None /\ peers[rooms[m[1]]][m[2]] # None},
    closing <- {call[c].id : c \in {d \in Calls : call[d].op = "closeRoom"}}

(* Whatever awaits, fails and is used again: peers enter and leave one at  *)
(* a time, nobody's room is replaced by a second creation of it, and a     *)
(* room goes only by a closing that found it empty                         *)
(* (media-rooms.service.ts:31-51, 251-267).                                *)
ImplementsNode == Node!NodeSpec

(* Where rooms are not recorded, none goes while somebody is in it.        *)
ImplementsPromptNode == Node!PromptSpec
=============================================================================
