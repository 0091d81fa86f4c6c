---------------------------- MODULE MediaStreams ----------------------------
(***************************************************************************)
(* The producers and consumers of an sfu node, on top of MediaRooms.  A    *)
(* produce and a consume are suspended while mediasoup makes the stream;   *)
(* meanwhile the transport or the producer may be closed and the peer be   *)
(* removed.  mediasoup then fails the request; or, if it had made the      *)
(* stream before it closed the transport, the service is given an object   *)
(* that nobody will tell of its closing, here a "ghost".                   *)
(*                                                                         *)
(* Streams that mediasoup has closed stay in the maps of a MediaPeer,      *)
(* where a look-up refuses them; here they leave the maps.                 *)
(***************************************************************************)
EXTENDS MediaRooms

CONSTANT
    Streams   \* identifiers of producers and consumers

ASSUME StreamsAssumption == None \notin Streams

VARIABLES
    stream,   \* each producer and consumer
    held,     \* MediaPeer.producers and MediaPeer.consumers
    awaiting, \* the produce and consume requests suspended at their await
    replaced  \* history: the MediaPeers that had a transport replaced

streamVars == <<stream, held, awaiting, replaced>>
allVars    == <<vars, streamVars>>

NoStream  == [state |-> "closed", on |-> None, router |-> None,
              source |-> None]
NoRequest == [op |-> "none", room |-> None, id |-> None, peer |-> None,
              on |-> None, router |-> None, source |-> None, late |-> FALSE]

StreamInit ==
    /\ Init
    /\ stream = [z \in Streams |-> NoStream]
    /\ held = [o \in PeerObjects |-> {}]
    /\ awaiting = [c \in Calls |-> NoRequest]
    /\ replaced = {}

Free(z) == /\ stream[z].state = "closed"
           /\ \A c \in Calls : awaiting[c].source # z

InRoom(o)  == \E x \in Routers, p \in PeerIds : peers[x][p] = o
Stays(o)   == \E x \in Routers, p \in PeerIds : peers'[x][p] = o
Removed(o) == InRoom(o) /\ ~Stays(o)
Closes(t)  == transport[t].state = "open" /\ transport'[t].state = "closed"

-----------------------------------------------------------------------------
(***************************************************************************)
(* A step of MediaRooms, and what it closes: the streams on the transports *)
(* that close, and the consumers of the producers that close.              *)
(***************************************************************************)
OnClosing(z) == stream[z].state = "open" /\ Closes(stream[z].on)

Ended ==
    {z \in Streams :
        \/ OnClosing(z)
        \/ /\ stream[z].state = "open"
           /\ stream[z].source # None
           /\ OnClosing(stream[z].source)}

(* What the MediaPeer of a removed peer held is out of everybody's reach.  *)
Forgotten == UNION {held[o] : o \in {q \in PeerObjects : Removed(q)}}

StreamsClose ==
    LET over == Ended \cup Forgotten
    IN  /\ stream' = [z \in Streams |->
                        IF z \in over THEN NoStream ELSE stream[z]]
        /\ held' = [o \in PeerObjects |-> held[o] \ over]

RequestsGoOn ==
    awaiting' = [c \in Calls |->
       LET k == awaiting[c]
       IN  IF k.op = "none" THEN k
           ELSE [k EXCEPT !.peer = IF @ # None /\ Removed(@) THEN None ELSE @,
                          !.late = @ \/ Closes(k.on)]]

Replaces(o) == /\ Stays(o)
               /\ \E t \in {send[o], recv[o]} : t # None /\ Closes(t)

(* A request is suspended at one await.                                    *)
OneAwait == \A c \in Calls : call[c].op = "none" \/ awaiting[c].op = "none"

RoomStep ==
    /\ Next
    /\ StreamsClose
    /\ RequestsGoOn
    /\ OneAwait'
    /\ replaced' = {o \in PeerObjects : \/ o \in replaced /\ ~Removed(o)
                                        \/ Replaces(o)}

-----------------------------------------------------------------------------
(***************************************************************************)
(* produce and consume                                                     *)
(***************************************************************************)
Request(c, op, r, p, t, source) ==
    /\ call[c].op = "none"
    /\ awaiting[c].op = "none"
    /\ awaiting' = [awaiting EXCEPT ![c] =
          [op |-> op, room |-> r, id |-> p, peer |-> peers[rooms[r]][p],
           on |-> t, router |-> rooms[r], source |-> source, late |-> FALSE]]
    /\ UNCHANGED <<stream, held, replaced>>

HasPeer(r, p) == rooms[r] # None /\ peers[rooms[r]][p] # None

(* The transport named must be the peer's send transport.                  *)
Produce(c, r, p) ==
    /\ HasPeer(r, p)
    /\ LET t == send[peers[rooms[r]][p]]
       IN  t # None /\ Request(c, "produce", r, p, t, None)

(* canConsume asks the room's router, which lists a ghost as well.         *)
CanConsume(r, z) == /\ stream[z].state # "closed"
                    /\ stream[z].source = None
                    /\ stream[z].router = rooms[r]

(* Mutant: a peer without a recv transport is not turned away.             *)
ConsumeAnywhere(c, r, p, z) ==
    /\ HasPeer(r, p)
    /\ CanConsume(r, z)
    /\ Request(c, "consume", r, p, recv[peers[rooms[r]][p]], z)

Consume(c, r, p, z) ==
    /\ HasPeer(r, p)
    /\ CanConsume(r, z)
    /\ LET t == recv[peers[rooms[r]][p]]
       IN  t # None /\ Request(c, "consume", r, p, t, z)

NewStream(c, z) ==
    LET k == awaiting[c]
    IN  /\ Free(z)
        /\ stream' = [stream EXCEPT ![z] =
              [state |-> IF k.late THEN "ghost" ELSE "open",
               on |-> k.on, router |-> k.router, source |-> k.source]]

Put(o, c) == \E z \in Streams : /\ NewStream(c, z)
                                /\ held' = [held EXCEPT ![o] = @ \cup {z}]

Made(c) ==
    /\ awaiting[c].op # "none"
    /\ LET z == awaiting[c].source IN z # None => stream[z].state = "open"
    /\ awaiting' = [awaiting EXCEPT ![c] = NoRequest]
    /\ UNCHANGED replaced

(* Mutant: the peer is looked up again, by its id, after the await.        *)
StreamCreatedForId(c) ==
    /\ Made(c)
    /\ IF HasPeer(awaiting[c].room, awaiting[c].id)
         THEN Put(peers[rooms[awaiting[c].room]][awaiting[c].id], c)
         ELSE UNCHANGED <<stream, held>>

(* Mutant: the stream is put into no map.                                  *)
StreamCreatedUnheld(c) ==
    /\ Made(c)
    /\ IF awaiting[c].peer = None THEN UNCHANGED stream
                                  ELSE \E z \in Streams : NewStream(c, z)
    /\ UNCHANGED held

(* mediasoup made the stream: it is put into the map of the MediaPeer it   *)
(* was asked for, and is lost if that peer was removed.                    *)
StreamCreated(c) ==
    /\ Made(c)
    /\ IF awaiting[c].peer = None THEN UNCHANGED <<stream, held>>
                                  ELSE Put(awaiting[c].peer, c)

(* mediasoup refused, or what the stream was for has closed.               *)
StreamFails(c) ==
    /\ awaiting[c].op # "none"
    /\ awaiting' = [awaiting EXCEPT ![c] = NoRequest]
    /\ UNCHANGED <<stream, held, replaced>>

StreamStep ==
    \/ \E c \in Calls, r \in RoomIds, p \in PeerIds :
          Produce(c, r, p) \/ \E z \in Streams : Consume(c, r, p, z)
    \/ \E c \in Calls : StreamCreated(c) \/ StreamFails(c)

StreamNext == RoomStep \/ (StreamStep /\ UNCHANGED vars)

StreamSpec == StreamInit /\ [][StreamNext]_allVars

-----------------------------------------------------------------------------
StreamTypeOK ==
    /\ stream \in [Streams -> [state : {"open", "closed", "ghost"},
                               on : Transports \cup {None},
                               router : Routers \cup {None},
                               source : Streams \cup {None}]]
    /\ held \in [PeerObjects -> SUBSET Streams]
    /\ awaiting \in [Calls -> {NoRequest} \cup
          [op : {"produce", "consume"}, room : RoomIds, id : PeerIds,
           peer : PeerObjects \cup {None}, on : Transports, router : Routers,
           source : Streams \cup {None}, late : BOOLEAN]]
    /\ replaced \in SUBSET PeerObjects

(* Every open stream can be found and closed: it is in the map of a peer   *)
(* of a MediaRoom that requests find by its room id, on the transport this *)
(* peer sends or receives with, and a consumer's producer is open on the   *)
(* same router (media-rooms.service.ts:158-170, 179-198).  As for the      *)
(* transports, a room id that an overtaken closing has deleted is left out.*)
OpenStreamsAreReachable ==
    \A z \in Streams : stream[z].state = "open" =>
        LET x == stream[z].router
            from == stream[z].source
        IN  /\ IsNamed(x)
            /\ \E p \in PeerIds :
                  LET o == peers[x][p]
                  IN  /\ o # None
                      /\ z \in held[o]
                      /\ stream[z].on = IF from = None THEN send[o] ELSE recv[o]
            /\ from # None => /\ stream[from].state = "open"
                              /\ stream[from].router = x

(* A ghost is found only with a peer that had a transport replaced: a      *)
(* client that comes back, or a new room of the same name, inherits no     *)
(* stream of a request that outlived its peer                              *)
(* (media-rooms.service.ts:164-165, 191-196).                              *)
GhostsAreOfReplacedTransports ==
    \A r \in RoomIds, p \in PeerIds :
        HasPeer(r, p) =>
            LET o == peers[rooms[r]][p]
            IN  (\E z \in held[o] : stream[z].state = "ghost")
                   => o \in replaced
=============================================================================
