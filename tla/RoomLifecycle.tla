---------------------------- MODULE RoomLifecycle ----------------------------
(***************************************************************************)
(* A room from the first join to the last leave.  Stateless realtime       *)
(* instances keep the room's metadata and its peers in Redis and its       *)
(* MediaRoom on one sfu node; every handler is a sequence of awaited Redis *)
(* commands and HTTP requests, and the handlers of all sockets interleave  *)
(* at each await.  One action is one await: the command or request takes   *)
(* effect and the synchronous code behind it runs.                         *)
(***************************************************************************)
EXTENDS Integers, FiniteSets

CONSTANTS
    Sockets,      \* socket connections; a socket's id is its peer id
    Instances,    \* replicas of apps/realtime
    HomeOf,       \* the instance each socket is connected to
    Rooms,        \* room ids
    Nodes,        \* sfu nodes (SFU_SERVICE_URLS)
    ListedAt,     \* the position of each node in SFU_SERVICE_URLS
    None,         \* no room, no node
    MediaSockets, \* the sockets whose client goes on to ask for a transport
    MaxJoins,     \* bound: join messages a socket sends
    MaxFaults,    \* bound: failures in one behaviour
    FaultKinds    \* the failures considered: see AllFaultKinds

AllFaultKinds ==
    { "read",     \* a Redis read fails
      "write",    \* a Redis write fails, before or after taking effect
      "sfu",      \* an HTTP request to an sfu node fails or times out
      "node",     \* an sfu node restarts
      "crash" }   \* a realtime instance crashes

ASSUME HomeAssumption  == HomeOf \in [Sockets -> Instances]
ASSUME RoomsAssumption == IsFiniteSet(Rooms)
ASSUME NoneAssumption  == None \notin Rooms /\ None \notin Nodes
ASSUME BoundAssumption == MaxJoins \in Nat /\ MaxFaults \in Nat
ASSUME NodeAssumption  == ListedAt \in [Nodes -> Nat]
ASSUME FaultAssumption == FaultKinds \subseteq AllFaultKinds

VARIABLES
    roomKey,      \* Redis room:<r>, reduced to its sfuNodeUrl
    peersHash,    \* Redis room:<r>:peers
    mediaRooms,   \* <<n, r>>: node n has a MediaRoom for r
    mediaPeers,   \* <<n, r, s>>: that MediaRoom has a MediaPeer for s
    late,         \* requests under way to a node, whose sender moved on
    pendingRooms, \* <<i, r>>: instance i is creating room r
    conn,         \* each socket's connection
    data,         \* client.data.roomId
    rejoined,     \* history: sockets that sent join with client.data set
    seen,         \* the other peers the last join of a socket read
    stats,        \* the room count of each node, as far as a join has asked
    join,         \* the join handler of each socket
    leave,        \* the handleDisconnect handler of each socket
    media,        \* the createWebRtcTransport handler of each socket
    joins,        \* join messages sent, bounded by MaxJoins
    faults        \* failures so far, bounded by MaxFaults

redisVars  == <<roomKey, peersHash>>
sfuVars    == <<mediaRooms, mediaPeers, late>>
socketVars == <<conn, data, rejoined, joins>>
readVars   == <<seen, stats>>
vars == <<redisVars, sfuVars, pendingRooms, socketVars, readVars,
          join, leave, media, faults>>

JoinPCs  == {"idle", "get", "wait", "pick", "put", "set", "add", "read",
             "rollback", "commit"}
LeavePCs == {"none", "get", "hdel", "sfuRemove", "isEmpty", "close", "done"}
MediaPCs == {"idle", "peer", "room", "call"}

(* No node has given its room count yet.                                   *)
Unread  == -1
Unasked == [n \in Nodes |-> Unread]

At(pc, r, n) == [pc |-> pc, room |-> r, node |-> n]
Idle   == At("idle", None, None)
Unborn == At("none", None, None)
Left   == At("done", None, None)

(* A handler carries the room it is about and, from the step that finds it *)
(* on, the node of that room.                                              *)
Handler(pcs) == [pc : pcs, room : Rooms \cup {None}, node : Nodes \cup {None}]
JoinHandlers ==
    {h \in Handler(JoinPCs) : /\ h.pc # "idle" => h.room \in Rooms
                              /\ h.pc \in {"put", "set"} => h.node \in Nodes}
LeaveHandlers ==
    {h \in Handler(LeavePCs) :
        /\ h.pc \notin {"none", "done"} => h.room \in Rooms
        /\ h.pc \notin {"none", "get", "done"} => h.node \in Nodes}
MediaHandlers ==
    {h \in Handler(MediaPCs) : /\ h.pc # "idle" => h.room \in Rooms
                               /\ h.pc = "call" => h.node \in Nodes}

Requests == [op : {"createRoom", "createTransport", "removePeer", "closeRoom"},
             node : Nodes, room : Rooms, peer : Sockets]
Request(op, n, r, s) == [op |-> op, node |-> n, room |-> r, peer |-> s]

Init ==
    /\ roomKey = [r \in Rooms |-> None]
    /\ peersHash = [r \in Rooms |-> {}]
    /\ mediaRooms = {}
    /\ mediaPeers = {}
    /\ late = {}
    /\ pendingRooms = {}
    /\ conn = [s \in Sockets |-> "open"]
    /\ data = [s \in Sockets |-> None]
    /\ rejoined = {}
    /\ seen = [s \in Sockets |-> {}]
    /\ stats = [s \in Sockets |-> Unasked]
    /\ join = [s \in Sockets |-> Idle]
    /\ leave = [s \in Sockets |-> Unborn]
    /\ media = [s \in Sockets |-> Idle]
    /\ joins = [s \in Sockets |-> 0]
    /\ faults = 0

(* A failure of the given kind happens now.                                *)
Fault(kind) ==
    /\ kind \in FaultKinds
    /\ faults < MaxFaults
    /\ faults' = faults + 1

JoinGoesTo(s, pc) ==
    join' = [join EXCEPT ![s] = At(pc, join[s].room, join[s].node)]
LeaveGoesTo(s, pc) ==
    leave' = [leave EXCEPT ![s] = At(pc, leave[s].room, leave[s].node)]
MediaGoesTo(s, pc) ==
    media' = [media EXCEPT ![s] = At(pc, media[s].room, media[s].node)]
JoinEnds(s)  == join' = [join EXCEPT ![s] = Idle]
LeaveEnds(s) == leave' = [leave EXCEPT ![s] = Left]
MediaEnds(s) == media' = [media EXCEPT ![s] = Idle]

-----------------------------------------------------------------------------
(***************************************************************************)
(* apps/sfu, as far as the signaling service can tell: the effect of each  *)
(* request at the instant the node serves it.                              *)
(***************************************************************************)
SfuCreateRoom(n, r) ==
    /\ mediaRooms' = mediaRooms \cup {<<n, r>>}
    /\ UNCHANGED mediaPeers

SfuCreateTransport(n, r, s) ==
    /\ mediaPeers' = IF <<n, r>> \in mediaRooms
                       THEN mediaPeers \cup {<<n, r, s>>} ELSE mediaPeers
    /\ UNCHANGED mediaRooms

SfuRemovePeer(n, r, s) ==
    /\ mediaPeers' = mediaPeers \ {<<n, r, s>>}
    /\ UNCHANGED mediaRooms

(* Mutant: an occupied room is closed like an empty one.                   *)
SfuCloseAnyRoom(n, r) ==
    /\ mediaRooms' = mediaRooms \ {<<n, r>>}
    /\ mediaPeers' = {m \in mediaPeers : m[1] # n \/ m[2] # r}

SfuRoomIsEmpty(n, r) == \A s \in Sockets : <<n, r, s>> \notin mediaPeers

SfuCloseRoom(n, r) ==
    /\ mediaRooms' = IF SfuRoomIsEmpty(n, r)
                       THEN mediaRooms \ {<<n, r>>} ELSE mediaRooms
    /\ UNCHANGED mediaPeers

RoomCount(n) == Cardinality({r \in Rooms : <<n, r>> \in mediaRooms})

(* n is the first of the nodes with the fewest rooms among those that      *)
(* answered, by the counts they answered with.                             *)
LeastLoaded(n, counts) ==
    /\ counts[n] # Unread
    /\ \A m \in Nodes \ {n} :
          \/ counts[m] = Unread
          \/ counts[n] < counts[m]
          \/ counts[n] = counts[m] /\ ListedAt[n] < ListedAt[m]

(* The HTTP requests a socket's handlers are waiting on: one whose caller   *)
(* gave up, or crashed, may still reach the node later.                    *)
Outstanding(s) ==
    {q \in { Request("createRoom", join[s].node, join[s].room, s),
             Request("removePeer", leave[s].node, leave[s].room, s),
             Request("createTransport", media[s].node, media[s].room, s) } :
        \/ q.op = "createRoom" /\ join[s].pc = "put"
        \/ q.op = "removePeer" /\ leave[s].pc = "sfuRemove"
        \/ q.op = "createTransport" /\ media[s].pc = "call"}

-----------------------------------------------------------------------------
(***************************************************************************)
(* SignalingGateway.join, SignalingService.join, RoomsService.             *)
(***************************************************************************)
JoinStart(s, r) ==
    /\ conn[s] = "open"
    /\ join[s].pc = "idle"
    /\ joins[s] < MaxJoins
    /\ join' = [join EXCEPT ![s] = At("get", r, None)]
    /\ joins' = [joins EXCEPT ![s] = @ + 1]
    /\ rejoined' = IF data[s] = None THEN rejoined ELSE rejoined \cup {s}
    /\ UNCHANGED <<redisVars, sfuVars, pendingRooms, conn, data, readVars,
                   leave, media, faults>>

(* getOrCreateRoom finds the room's key, or this instance's creation of it *)
(* under way, or starts that creation.                                     *)
FindRoom(s) ==
    /\ join[s].pc = "get"
    /\ LET r == join[s].room
           creating == <<HomeOf[s], r>> \in pendingRooms
       IN  \/ /\ roomKey[r] # None
              /\ JoinGoesTo(s, "add")
              /\ UNCHANGED pendingRooms
           \/ /\ roomKey[r] = None /\ creating
              /\ JoinGoesTo(s, "wait")
              /\ UNCHANGED pendingRooms
           \/ /\ roomKey[r] = None /\ ~creating
              /\ JoinGoesTo(s, "pick")
              /\ pendingRooms' = pendingRooms \cup {<<HomeOf[s], r>>}
    /\ UNCHANGED <<redisVars, sfuVars, socketVars, readVars, leave, media,
                   faults>>

(* The nodes are asked at once and answer one at a time; meanwhile rooms   *)
(* come and go.                                                            *)
FetchNodeStats(s) ==
    /\ join[s].pc = "pick"
    /\ \E n \in Nodes : /\ stats[s][n] = Unread
                        /\ stats' = [stats EXCEPT ![s][n] = RoomCount(n)]
    /\ UNCHANGED <<redisVars, sfuVars, pendingRooms, socketVars, seen, join,
                   leave, media, faults>>

(* All have answered or failed.                                            *)
PickLeastLoaded(s) ==
    /\ join[s].pc = "pick"
    /\ IF \E n \in Nodes : stats[s][n] = Unread
         THEN Fault("sfu") ELSE UNCHANGED faults
    /\ \E n \in Nodes : /\ LeastLoaded(n, stats[s])
                        /\ join' = [join EXCEPT ![s] =
                                       At("put", join[s].room, n)]
    /\ stats' = [stats EXCEPT ![s] = Unasked]
    /\ UNCHANGED <<redisVars, sfuVars, pendingRooms, socketVars, seen, leave,
                   media>>

CreateMediaRoom(s) ==
    /\ join[s].pc = "put"
    /\ SfuCreateRoom(join[s].node, join[s].room)
    /\ JoinGoesTo(s, "set")
    /\ UNCHANGED <<redisVars, late, pendingRooms, socketVars, readVars, leave,
                   media, faults>>

(* Mutant: the waiting joins never learn how the creation ended.           *)
AwaitingForgotten(s) == {s}

(* The joins of this instance that await the creation s is running, and s. *)
Awaiting(s) ==
    {w \in Sockets : /\ join[w].pc = "wait"
                     /\ join[w].room = join[s].room
                     /\ HomeOf[w] = HomeOf[s]} \cup {s}

(* Mutant: the finally block that deletes the pending promise is missing.  *)
CreationEndsPending(s, outcome) ==
    /\ UNCHANGED pendingRooms
    /\ join' = [w \in Sockets |->
                  IF w \notin Awaiting(s) THEN join[w]
                  ELSE IF outcome = "rejected" THEN Idle
                  ELSE At("add", join[w].room, None)]

CreationEnds(s, outcome) ==
    /\ pendingRooms' = pendingRooms \ {<<HomeOf[s], join[s].room>>}
    /\ join' = [w \in Sockets |->
                  IF w \notin Awaiting(s) THEN join[w]
                  ELSE IF outcome = "rejected" THEN Idle
                  ELSE At("add", join[w].room, None)]

StoreRoom(s) ==
    /\ join[s].pc = "set"
    /\ roomKey' = [roomKey EXCEPT ![join[s].room] = join[s].node]
    /\ CreationEnds(s, "fulfilled")
    /\ UNCHANGED <<peersHash, sfuVars, socketVars, readVars, leave, media,
                   faults>>

(* No node answered, or the sfu request failed, or the SET did: every join *)
(* waiting for this creation is rejected with it.                          *)
RejectCreation(s) ==
    /\ \/ /\ join[s].pc \in {"pick", "put"}
          /\ Fault("sfu")
          /\ \E unheard \in SUBSET Outstanding(s) : late' = late \cup unheard
          /\ UNCHANGED roomKey
       \/ /\ join[s].pc = "set"
          /\ Fault("write")
          /\ \/ roomKey' = [roomKey EXCEPT ![join[s].room] = join[s].node]
             \/ UNCHANGED roomKey
          /\ UNCHANGED late
    /\ CreationEnds(s, "rejected")
    /\ stats' = [stats EXCEPT ![s] = Unasked]
    /\ UNCHANGED <<peersHash, mediaRooms, mediaPeers, socketVars, seen, leave,
                   media>>

AddPeer(s) ==
    /\ join[s].pc = "add"
    /\ peersHash' = [peersHash EXCEPT ![join[s].room] = @ \cup {s}]
    /\ JoinGoesTo(s, "read")
    /\ UNCHANGED <<roomKey, sfuVars, pendingRooms, socketVars, readVars, leave,
                   media, faults>>

OtherPeers(r, s) == peersHash[r] \ {s}

(* Mutant: only peers whose own join has completed are listed.             *)
ReadCommittedOthers(s) ==
    /\ join[s].pc = "read"
    /\ seen' = [seen EXCEPT ![s] =
                   {p \in OtherPeers(join[s].room, s) : data[p] = join[s].room}]
    /\ JoinGoesTo(s, "commit")
    /\ UNCHANGED <<redisVars, sfuVars, pendingRooms, socketVars, stats, leave,
                   media, faults>>

ReadOthers(s) ==
    /\ join[s].pc = "read"
    /\ seen' = [seen EXCEPT ![s] = OtherPeers(join[s].room, s)]
    /\ JoinGoesTo(s, "commit")
    /\ UNCHANGED <<redisVars, sfuVars, pendingRooms, socketVars, stats, leave,
                   media, faults>>

(* The gateway records the room on the socket, connected or not.           *)
Commit(s) ==
    /\ join[s].pc = "commit"
    /\ data' = [data EXCEPT ![s] = join[s].room]
    /\ JoinEnds(s)
    /\ UNCHANGED <<redisVars, sfuVars, pendingRooms, conn, rejoined, joins,
                   readVars, leave, media, faults>>

(* Mutant: a failing read after the add rejects without the roll-back.     *)
JoinReadFailsUnrolled(s) ==
    /\ Fault("read")
    /\ join[s].pc \in {"get", "read"}
    /\ JoinEnds(s)
    /\ UNCHANGED <<redisVars, sfuVars, pendingRooms, socketVars, readVars,
                   leave, media>>

(* A Redis read failed: before the peer was added, the join just rejects;  *)
(* after, it takes the peer out again first.                               *)
JoinReadFails(s) ==
    /\ Fault("read")
    /\ \/ join[s].pc = "get" /\ JoinEnds(s)
       \/ join[s].pc = "read" /\ JoinGoesTo(s, "rollback")
    /\ UNCHANGED <<redisVars, sfuVars, pendingRooms, socketVars, readVars,
                   leave, media>>

Rollback(s) ==
    /\ join[s].pc = "rollback"
    /\ peersHash' = [peersHash EXCEPT ![join[s].room] = @ \ {s}]
    /\ JoinEnds(s)
    /\ UNCHANGED <<roomKey, sfuVars, pendingRooms, socketVars, readVars, leave,
                   media, faults>>

(* The HSET of addPeer (or the EXPIRE behind it), or the rollback, failed. *)
JoinWriteFails(s) ==
    /\ Fault("write")
    /\ \/ /\ join[s].pc = "add"
          /\ \/ peersHash' = [peersHash EXCEPT ![join[s].room] = @ \cup {s}]
             \/ UNCHANGED peersHash
       \/ /\ join[s].pc = "rollback"
          /\ UNCHANGED peersHash
    /\ JoinEnds(s)
    /\ UNCHANGED <<roomKey, sfuVars, pendingRooms, socketVars, readVars, leave,
                   media>>

-----------------------------------------------------------------------------
(***************************************************************************)
(* SignalingGateway.handleDisconnect and SignalingService.leave.           *)
(***************************************************************************)
Disconnect(s) ==
    /\ conn[s] = "open"
    /\ conn' = [conn EXCEPT ![s] = "closed"]
    /\ leave' = IF data[s] = None THEN leave
                ELSE [leave EXCEPT ![s] = At("get", data[s], None)]
    /\ UNCHANGED <<redisVars, sfuVars, pendingRooms, data, rejoined, joins,
                   readVars, join, media, faults>>

(* Mutant: the early return for a room that is gone is missing.            *)
LeaveGetMissingRoom(s) ==
    /\ leave[s].pc = "get"
    /\ LET r == leave[s].room
       IN  leave' = [leave EXCEPT ![s] = At("hdel", r, roomKey[r])]
    /\ UNCHANGED <<redisVars, sfuVars, pendingRooms, socketVars, readVars,
                   join, media, faults>>

LeaveGetRoom(s) ==
    /\ leave[s].pc = "get"
    /\ LET r == leave[s].room
       IN  IF roomKey[r] = None THEN LeaveEnds(s)
           ELSE leave' = [leave EXCEPT ![s] = At("hdel", r, roomKey[r])]
    /\ UNCHANGED <<redisVars, sfuVars, pendingRooms, socketVars, readVars,
                   join, media, faults>>

LeaveRemovePeer(s) ==
    /\ leave[s].pc = "hdel"
    /\ peersHash' = [peersHash EXCEPT ![leave[s].room] = @ \ {s}]
    /\ LeaveGoesTo(s, "sfuRemove")
    /\ UNCHANGED <<roomKey, sfuVars, pendingRooms, socketVars, readVars, join,
                   media, faults>>

LeaveSfuRemovePeer(s) ==
    /\ leave[s].pc = "sfuRemove"
    /\ SfuRemovePeer(leave[s].node, leave[s].room, s)
    /\ LeaveGoesTo(s, "isEmpty")
    /\ UNCHANGED <<redisVars, late, pendingRooms, socketVars, readVars, join,
                   media, faults>>

(* Mutant: a failing removePeer request ends the leave.                    *)
LeaveSfuRemoveRejects(s) ==
    /\ leave[s].pc = "sfuRemove"
    /\ Fault("sfu")
    /\ \E unheard \in SUBSET Outstanding(s) : late' = late \cup unheard
    /\ LeaveEnds(s)
    /\ UNCHANGED <<redisVars, mediaRooms, mediaPeers, pendingRooms, socketVars,
                   readVars, join, media>>

(* A failing removePeer request is logged and the leave carries on.        *)
LeaveSfuRemoveFails(s) ==
    /\ leave[s].pc = "sfuRemove"
    /\ Fault("sfu")
    /\ \E unheard \in SUBSET Outstanding(s) : late' = late \cup unheard
    /\ LeaveGoesTo(s, "isEmpty")
    /\ UNCHANGED <<redisVars, mediaRooms, mediaPeers, pendingRooms, socketVars,
                   readVars, join, media>>

(* Mutant: the leaving peer is counted although it was already removed.    *)
LeaveIsLast(s) ==
    /\ leave[s].pc = "isEmpty"
    /\ IF Cardinality(peersHash[leave[s].room]) = 1 THEN LeaveGoesTo(s, "close")
                                                    ELSE LeaveEnds(s)
    /\ UNCHANGED <<redisVars, sfuVars, pendingRooms, socketVars, readVars,
                   join, media, faults>>

LeaveIsEmpty(s) ==
    /\ leave[s].pc = "isEmpty"
    /\ IF peersHash[leave[s].room] = {} THEN LeaveGoesTo(s, "close")
                                        ELSE LeaveEnds(s)
    /\ UNCHANGED <<redisVars, sfuVars, pendingRooms, socketVars, readVars,
                   join, media, faults>>

(* Mutant: the keys are deleted on the strength of the earlier isEmpty.    *)
CloseRoomUnchecked(r, closed) ==
    /\ closed = TRUE
    /\ roomKey' = [roomKey EXCEPT ![r] = None]
    /\ peersHash' = [peersHash EXCEPT ![r] = {}]

(* The Lua script closeRoomIfEmpty; it returns whether the room is closed. *)
CloseRoomIfEmpty(r, closed) ==
    /\ closed = (peersHash[r] = {})
    /\ roomKey' = IF closed THEN [roomKey EXCEPT ![r] = None] ELSE roomKey
    /\ UNCHANGED peersHash

LeaveCloseRoom(s) ==
    /\ leave[s].pc = "close"
    /\ LET n == leave[s].node
           r == leave[s].room
       IN  \E closed \in BOOLEAN :
              /\ CloseRoomIfEmpty(r, closed)
              /\ late' = IF closed THEN late \cup {Request("closeRoom", n, r, s)}
                                   ELSE late
    /\ LeaveEnds(s)
    /\ UNCHANGED <<mediaRooms, mediaPeers, pendingRooms, socketVars, readVars,
                   join, media, faults>>

(* A Redis command of the leave failed: the handler rejects where it is.   *)
LeaveFails(s) ==
    /\ \/ /\ leave[s].pc \in {"get", "isEmpty"}
          /\ Fault("read")
          /\ UNCHANGED redisVars
       \/ /\ leave[s].pc \in {"hdel", "close"}
          /\ Fault("write")
          /\ UNCHANGED redisVars
       \/ /\ leave[s].pc = "hdel"
          /\ Fault("write")
          /\ peersHash' = [peersHash EXCEPT ![leave[s].room] = @ \ {s}]
          /\ UNCHANGED roomKey
       \/ /\ leave[s].pc = "close"
          /\ Fault("write")
          /\ \E closed \in BOOLEAN : CloseRoomIfEmpty(leave[s].room, closed)
    /\ LeaveEnds(s)
    /\ UNCHANGED <<sfuVars, pendingRooms, socketVars, readVars, join, media>>

-----------------------------------------------------------------------------
(***************************************************************************)
(* SignalingService.createWebRtcTransport, the request that brings a peer  *)
(* into its MediaRoom.  Bound: a socket has one such handler at a time.    *)
(***************************************************************************)
MediaStart(s) ==
    /\ s \in MediaSockets
    /\ conn[s] = "open"
    /\ data[s] # None
    /\ media[s].pc = "idle"
    /\ media' = [media EXCEPT ![s] = At("peer", data[s], None)]
    /\ UNCHANGED <<redisVars, sfuVars, pendingRooms, socketVars, readVars,
                   join, leave, faults>>

MediaGetPeer(s) ==
    /\ media[s].pc = "peer"
    /\ IF s \in peersHash[media[s].room] THEN MediaGoesTo(s, "room")
                                         ELSE MediaEnds(s)
    /\ UNCHANGED <<redisVars, sfuVars, pendingRooms, socketVars, readVars,
                   join, leave, faults>>

MediaResolveNode(s) ==
    /\ media[s].pc = "room"
    /\ LET r == media[s].room
       IN  IF roomKey[r] = None THEN MediaEnds(s)
           ELSE media' = [media EXCEPT ![s] = At("call", r, roomKey[r])]
    /\ UNCHANGED <<redisVars, sfuVars, pendingRooms, socketVars, readVars,
                   join, leave, faults>>

(* The node serves the request, with an error if it has no such MediaRoom. *)
MediaCall(s) ==
    /\ media[s].pc = "call"
    /\ SfuCreateTransport(media[s].node, media[s].room, s)
    /\ MediaEnds(s)
    /\ UNCHANGED <<redisVars, late, pendingRooms, socketVars, readVars, join,
                   leave, faults>>

MediaFails(s) ==
    /\ \/ /\ media[s].pc \in {"peer", "room"}
          /\ Fault("read")
          /\ UNCHANGED late
       \/ /\ media[s].pc = "call"
          /\ Fault("sfu")
          /\ \E unheard \in SUBSET Outstanding(s) : late' = late \cup unheard
    /\ MediaEnds(s)
    /\ UNCHANGED <<redisVars, mediaRooms, mediaPeers, pendingRooms, socketVars,
                   readVars, join, leave>>

-----------------------------------------------------------------------------
(***************************************************************************)
(* Requests nobody waits for, restarts and crashes.                        *)
(***************************************************************************)
DeliverLate(q) ==
    /\ q \in late
    /\ \/ q.op = "createRoom" /\ SfuCreateRoom(q.node, q.room)
       \/ q.op = "createTransport" /\ SfuCreateTransport(q.node, q.room, q.peer)
       \/ q.op = "removePeer" /\ SfuRemovePeer(q.node, q.room, q.peer)
       \/ q.op = "closeRoom" /\ SfuCloseRoom(q.node, q.room)
    /\ late' = late \ {q}
    /\ UNCHANGED <<redisVars, pendingRooms, socketVars, readVars, join, leave,
                   media, faults>>

(* A request that never reaches its node; nothing sends it again.          *)
LoseLate(q) ==
    /\ q \in late
    /\ Fault("sfu")
    /\ late' = late \ {q}
    /\ UNCHANGED <<redisVars, mediaRooms, mediaPeers, pendingRooms, socketVars,
                   readVars, join, leave, media>>

NodeRestart(n) ==
    /\ Fault("node")
    /\ mediaRooms' = {m \in mediaRooms : m[1] # n}
    /\ mediaPeers' = {m \in mediaPeers : m[1] # n}
    /\ UNCHANGED <<redisVars, late, pendingRooms, socketVars, readVars, join,
                   leave, media>>

(* Everything an instance holds in memory is gone, and its sockets with it;*)
(* no handleDisconnect runs for them.                                      *)
InstanceCrash(i) ==
    LET here == {s \in Sockets : HomeOf[s] = i}
    IN  /\ Fault("crash")
        /\ conn' = [s \in Sockets |-> IF s \in here THEN "crashed" ELSE conn[s]]
        /\ data' = [s \in Sockets |-> IF s \in here THEN None ELSE data[s]]
        /\ join' = [s \in Sockets |-> IF s \in here THEN Idle ELSE join[s]]
        /\ leave' = [s \in Sockets |-> IF s \in here THEN Left ELSE leave[s]]
        /\ media' = [s \in Sockets |-> IF s \in here THEN Idle ELSE media[s]]
        /\ pendingRooms' = {c \in pendingRooms : c[1] # i}
        /\ stats' = [s \in Sockets |-> IF s \in here THEN Unasked ELSE stats[s]]
        /\ \E unheard \in SUBSET UNION {Outstanding(s) : s \in here} :
              late' = late \cup unheard
        /\ UNCHANGED <<redisVars, mediaRooms, mediaPeers, rejoined, joins, seen>>

-----------------------------------------------------------------------------
JoinStep(s) ==
    \/ FindRoom(s)
    \/ FetchNodeStats(s)
    \/ PickLeastLoaded(s)
    \/ CreateMediaRoom(s)
    \/ StoreRoom(s)
    \/ AddPeer(s)
    \/ ReadOthers(s)
    \/ Commit(s)
    \/ Rollback(s)

JoinFault(s) == RejectCreation(s) \/ JoinReadFails(s) \/ JoinWriteFails(s)

LeaveStep(s) ==
    \/ LeaveGetRoom(s)
    \/ LeaveRemovePeer(s)
    \/ LeaveSfuRemovePeer(s)
    \/ LeaveIsEmpty(s)
    \/ LeaveCloseRoom(s)

LeaveFault(s) == LeaveSfuRemoveFails(s) \/ LeaveFails(s)

MediaStep(s) == MediaGetPeer(s) \/ MediaResolveNode(s) \/ MediaCall(s)

Next ==
    \/ \E s \in Sockets, r \in Rooms : JoinStart(s, r)
    \/ \E s \in Sockets : JoinStep(s) \/ JoinFault(s)
    \/ \E s \in Sockets : Disconnect(s) \/ LeaveStep(s) \/ LeaveFault(s)
    \/ \E s \in Sockets : MediaStart(s) \/ MediaStep(s) \/ MediaFails(s)
    \/ \E q \in late : DeliverLate(q) \/ LoseLate(q)
    \/ \E n \in Nodes : NodeRestart(n)
    \/ \E i \in Instances : InstanceCrash(i)

Spec == Init /\ [][Next]_vars

(* Redis answers, and an HTTP request is answered or times out after 10 s: *)
(* no handler that has started stays where it is.                          *)
Fairness ==
    \A s \in Sockets : /\ WF_vars(JoinStep(s))
                       /\ WF_vars(LeaveStep(s))
                       /\ WF_vars(MediaStep(s))

FairSpec == Spec /\ Fairness

-----------------------------------------------------------------------------
TypeOK ==
    /\ roomKey \in [Rooms -> Nodes \cup {None}]
    /\ peersHash \in [Rooms -> SUBSET Sockets]
    /\ mediaRooms \in SUBSET (Nodes \X Rooms)
    /\ mediaPeers \in SUBSET (Nodes \X Rooms \X Sockets)
    /\ late \in SUBSET Requests
    /\ pendingRooms \in SUBSET (Instances \X Rooms)
    /\ conn \in [Sockets -> {"open", "closed", "crashed"}]
    /\ data \in [Sockets -> Rooms \cup {None}]
    /\ rejoined \in SUBSET Sockets
    /\ seen \in [Sockets -> SUBSET Sockets]
    /\ stats \in [Sockets -> [Nodes -> Nat \cup {Unread}]]
    /\ join \in [Sockets -> JoinHandlers]
    /\ leave \in [Sockets -> LeaveHandlers]
    /\ media \in [Sockets -> MediaHandlers]
    /\ joins \in [Sockets -> Nat]
    /\ faults \in Nat

-----------------------------------------------------------------------------
(* s has been added to r and nothing has taken it out since: its join is   *)
(* past the HSET, or it joined and its leave is before the HDEL.  Sockets  *)
(* that joined twice are left out: the roll-back of a second join takes    *)
(* out what the first one added.                                           *)
Member(s, r) ==
    /\ s \notin rejoined
    /\ \/ join[s].pc \in {"read", "commit", "rollback"} /\ join[s].room = r
       \/ data[s] = r /\ leave[s].pc \in {"none", "get", "hdel"}

(* A peer that was added stays recorded until its own leave or roll-back   *)
(* removes it: no interleaving of other sockets' leaves, and no closing of *)
(* the room between their emptiness check and their delete, evicts it.     *)
NoEvictedMember ==
    \A s \in Sockets, r \in Rooms : Member(s, r) => s \in peersHash[r]

(* s has its list of the others in r and still is a member.                *)
Informed(s, r) ==
    Member(s, r) /\ (join[s].pc = "commit" \/ data[s] = r)

(* Of two peers that joined the same room, however their joins overlap and *)
(* on whichever instances, at least one was told of the other (join adds   *)
(* before it reads; signaling.service.ts:22-24).                           *)
OneSeesTheOther ==
    \A r \in Rooms : \A p, q \in Sockets :
        p # q /\ Informed(p, r) /\ Informed(q, r)
            => p \in seen[q] \/ q \in seen[p]

Creating(s, i, r) ==
    /\ join[s].pc \in {"pick", "put", "set"}
    /\ join[s].room = r
    /\ HomeOf[s] = i

(* The pendingRooms map of an instance has an entry exactly while one join *)
(* creates that room, and a join waits only for a creation under way: no   *)
(* promise is forgotten, overtaken or awaited after it settled.            *)
PendingIsOneCreation ==
    \A i \in Instances, r \in Rooms :
        /\ <<i, r>> \in pendingRooms <=> \E s \in Sockets : Creating(s, i, r)
        /\ \A s, t \in Sockets : Creating(s, i, r) /\ Creating(t, i, r) => s = t
        /\ \A s \in Sockets :
              join[s].pc = "wait" /\ join[s].room = r /\ HomeOf[s] = i
                  => <<i, r>> \in pendingRooms

(* A join that is rejected because a read failed leaves no peer behind:    *)
(* whoever is recorded has a join running or has joined that room          *)
(* (signaling.service.ts:49-55).  Only for behaviours without failing      *)
(* writes and crashes.                                                     *)
RejectedJoinLeavesNoPeer ==
    \A r \in Rooms : \A s \in peersHash[r] \ rejoined :
        \/ join[s].pc \in {"read", "commit", "rollback"} /\ join[s].room = r
        \/ data[s] = r

(* Every join is answered, also one that waits for a room that another     *)
(* join is creating, whether that creation succeeds or fails.              *)
JoinTerminates ==
    \A s \in Sockets : join[s].pc # "idle" ~> join[s].pc = "idle"

(* A room whose last peer is gone is closed, or is entered again: two      *)
(* peers that leave at once do not both leave the closing to the other.    *)
EmptyRoomIsClosed ==
    \A r \in Rooms :
        roomKey[r] # None /\ peersHash[r] = {}
            ~> roomKey[r] = None \/ peersHash[r] # {}

(* A room that nobody is in has a handler that sees to it: a join about to *)
(* enter it, or a leave that has yet to close it.  However leaves, joins   *)
(* and failing sfu requests overlap, no leave gives up on an empty room    *)
(* (signaling.service.ts:179-206).  Only for behaviours without failing    *)
(* reads and writes and crashes.                                           *)
EmptyRoomIsAttended ==
    \A r \in Rooms : roomKey[r] # None /\ peersHash[r] = {} =>
        \E s \in Sockets :
            \/ join[s].pc = "add" /\ join[s].room = r
            \/ /\ leave[s].pc \in {"sfuRemove", "isEmpty", "close"}
               /\ leave[s].room = r

(* Membership, as this module implements it.                               *)
Membership == INSTANCE RoomMembership WITH
    Peers   <- Sockets,
    open    <- {r \in Rooms : roomKey[r] # None},
    members <- peersHash,
    seen    <- seen

(* Every behaviour of the handlers is one of the abstract room: members    *)
(* change one at a time and a room is closed only while nobody is in it.   *)
ImplementsMembership == Membership!MembershipSpec

(* The nodes, as this module sees them: no closing awaits anything.        *)
Node(n) == INSTANCE MediaNode WITH
    RoomIds <- Rooms,
    PeerIds <- Sockets,
    hosted  <- {r \in Rooms : <<n, r>> \in mediaRooms},
    present <- {m \in Rooms \X Sockets : <<n, m[1], m[2]>> \in mediaPeers},
    closing <- {}

(* Whatever reaches a node late or never, until it restarts it does what   *)
(* one promises whose rooms are not recorded: an occupied room is not      *)
(* closed, and a room that is not there is not entered.                    *)
NodesStep ==
    \A n \in Nodes :
        \/ [Node(n)!PromptNext]_(Node(n)!nodeVars)
        \/ Node(n)!Restart /\ faults' > faults

ImplementsNodes ==
    (\A n \in Nodes : Node(n)!NodeInit) /\ [][NodesStep]_sfuVars

-----------------------------------------------------------------------------
(***************************************************************************)
(* What the repository says of the program and the code does not keep.     *)
(***************************************************************************)
Joined(s, r) == conn[s] = "open" /\ data[s] = r

(* The join-during-close race is closed (rooms.service.ts:109-113): a      *)
(* connected peer's room has its metadata.                                 *)
JoinedPeerHasRoom ==
    \A s \in Sockets, r \in Rooms : Joined(s, r) => roomKey[r] # None
=============================================================================
