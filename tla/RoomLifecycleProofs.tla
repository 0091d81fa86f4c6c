------------------------- MODULE RoomLifecycleProofs -------------------------
(***************************************************************************)
(* Theorems about RoomLifecycle, for every set of sockets, instances,      *)
(* rooms and nodes and for every bound and every kind of failure.          *)
(***************************************************************************)
EXTENDS RoomLifecycle, FiniteSetTheorems, TLAPS

-----------------------------------------------------------------------------
(***************************************************************************)
(* Handlers keep the room and the node they need.                          *)
(***************************************************************************)

(* The resting states are handler states.                                  *)
LEMMA RestingHandlers ==
    /\ Idle \in JoinHandlers /\ Idle \in MediaHandlers
    /\ Unborn \in LeaveHandlers /\ Left \in LeaveHandlers
BY DEF Idle, Unborn, Left, At, Handler, JoinHandlers, LeaveHandlers,
       MediaHandlers, JoinPCs, LeavePCs, MediaPCs

(* Changing one socket's handler to a handler state keeps the types.       *)
LEMMA HandlerUpdate ==
    ASSUME TypeOK, NEW s \in Sockets
    PROVE  /\ \A h \in JoinHandlers :
                 [join EXCEPT ![s] = h] \in [Sockets -> JoinHandlers]
           /\ \A h \in LeaveHandlers :
                 [leave EXCEPT ![s] = h] \in [Sockets -> LeaveHandlers]
           /\ \A h \in MediaHandlers :
                 [media EXCEPT ![s] = h] \in [Sockets -> MediaHandlers]
BY DEF TypeOK

(* What a handler under way knows.                                         *)
LEMMA HandlerContext ==
    ASSUME TypeOK, NEW s \in Sockets
    PROVE  /\ join[s].pc # "idle" => join[s].room \in Rooms
           /\ join[s].pc \in {"put", "set"} => join[s].node \in Nodes
           /\ join[s].node \in Nodes \cup {None}
           /\ leave[s].pc \notin {"none", "done"} => leave[s].room \in Rooms
           /\ leave[s].pc \notin {"none", "get", "done"} => leave[s].node \in Nodes
           /\ media[s].pc # "idle" => media[s].room \in Rooms
           /\ media[s].pc = "call" => media[s].node \in Nodes
           /\ media[s].node \in Nodes \cup {None}
<1>1. join[s] \in JoinHandlers /\ leave[s] \in LeaveHandlers
        /\ media[s] \in MediaHandlers
  BY DEF TypeOK
<1> QED
  BY <1>1 DEF JoinHandlers, LeaveHandlers, MediaHandlers, Handler

(* A join that goes on within its room stays typed.                        *)
LEMMA JoinGoes ==
    ASSUME TypeOK, NEW s \in Sockets, NEW pc \in JoinPCs \ {"put"},
           join[s].pc # "idle", join[s].pc = "put" \/ pc # "set",
           JoinGoesTo(s, pc)
    PROVE  join' \in [Sockets -> JoinHandlers]
<1>1. At(pc, join[s].room, join[s].node) \in JoinHandlers
  BY HandlerContext DEF At, JoinHandlers, Handler
<1> QED
  BY <1>1, HandlerUpdate DEF JoinGoesTo

(* A leave that goes on after it has found its room stays typed.           *)
LEMMA LeaveGoes ==
    ASSUME TypeOK, NEW s \in Sockets, NEW pc \in LeavePCs,
           leave[s].pc \notin {"none", "get", "done"}, LeaveGoesTo(s, pc)
    PROVE  leave' \in [Sockets -> LeaveHandlers]
<1>1. At(pc, leave[s].room, leave[s].node) \in LeaveHandlers
  BY HandlerContext DEF At, LeaveHandlers, Handler
<1> QED
  BY <1>1, HandlerUpdate DEF LeaveGoesTo

(* A handler that ends stays typed.                                        *)
LEMMA HandlerEnds ==
    ASSUME TypeOK, NEW s \in Sockets
    PROVE  /\ JoinEnds(s) => join' \in [Sockets -> JoinHandlers]
           /\ LeaveEnds(s) => leave' \in [Sockets -> LeaveHandlers]
           /\ MediaEnds(s) => media' \in [Sockets -> MediaHandlers]
BY HandlerUpdate, RestingHandlers DEF JoinEnds, LeaveEnds, MediaEnds

(* The end of a creation leaves every join typed.                          *)
LEMMA CreationEndsTyped ==
    ASSUME TypeOK, NEW s \in Sockets, NEW outcome, join[s].pc # "idle",
           CreationEnds(s, outcome)
    PROVE  /\ join' \in [Sockets -> JoinHandlers]
           /\ pendingRooms' \in SUBSET (Instances \X Rooms)
<1>1. ASSUME NEW w \in Awaiting(s)
      PROVE  At("add", join[w].room, None) \in JoinHandlers
  <2>1. w \in Sockets /\ join[w].pc # "idle"
    BY DEF Awaiting
  <2> QED
    BY <2>1, HandlerContext DEF At, JoinHandlers, JoinPCs, Handler
<1>2. \A w \in Sockets : join[w] \in JoinHandlers
  BY DEF TypeOK
<1> QED
  BY <1>1, <1>2, RestingHandlers DEF CreationEnds, TypeOK

(* What a handler waits for is a request to some node.                     *)
LEMMA OutstandingTyped ==
    ASSUME TypeOK, NEW s \in Sockets
    PROVE  Outstanding(s) \in SUBSET Requests
BY HandlerContext DEF Outstanding, Request, Requests

-----------------------------------------------------------------------------
(* A node answers with a number.                                           *)
LEMMA RoomCountTyped == \A n \in Nodes : RoomCount(n) \in Nat
<1> SUFFICES ASSUME NEW n \in Nodes PROVE RoomCount(n) \in Nat
  OBVIOUS
<1>1. IsFiniteSet({r \in Rooms : <<n, r>> \in mediaRooms})
  BY RoomsAssumption, FS_Subset
<1> QED
  BY <1>1, FS_CardinalityType DEF RoomCount

(* Type correctness: in particular no handler reaches a request without    *)
(* the room and the node it sends it to.                                   *)
THEOREM TypeCorrect == Spec => []TypeOK
<1>1. Init => TypeOK
  BY RestingHandlers DEF Init, Unasked, TypeOK
<1>2. TypeOK /\ [Next]_vars => TypeOK'
  <2> SUFFICES ASSUME TypeOK, [Next]_vars PROVE TypeOK'
    OBVIOUS
  <2> USE DEF redisVars, sfuVars, socketVars, readVars
  <2>1. ASSUME NEW s \in Sockets, NEW r \in Rooms, JoinStart(s, r) PROVE TypeOK'
    <3>1. At("get", r, None) \in JoinHandlers
      BY DEF At, JoinHandlers, JoinPCs, Handler
    <3>2. join' \in [Sockets -> JoinHandlers]
      BY <2>1, <3>1, HandlerUpdate DEF JoinStart
    <3> QED
      BY <2>1, <3>2 DEF JoinStart, TypeOK
  <2>2. ASSUME NEW s \in Sockets, FindRoom(s) PROVE TypeOK'
    <3>1. join[s].room \in Rooms /\ HomeOf[s] \in Instances
      BY <2>2, HandlerContext, HomeAssumption DEF FindRoom
    <3>2. join' \in [Sockets -> JoinHandlers]
      BY <2>2, JoinGoes DEF FindRoom, JoinPCs
    <3>3. pendingRooms' \in SUBSET (Instances \X Rooms)
      BY <2>2, <3>1 DEF FindRoom, TypeOK
    <3> QED
      BY <2>2, <3>2, <3>3 DEF FindRoom, TypeOK
  <2>3. ASSUME NEW s \in Sockets, PickLeastLoaded(s) PROVE TypeOK'
    <3>1. PICK n \in Nodes : join' = [join EXCEPT ![s] = At("put", join[s].room, n)]
      BY <2>3 DEF PickLeastLoaded
    <3>2. At("put", join[s].room, n) \in JoinHandlers
      BY <2>3, HandlerContext DEF PickLeastLoaded, At, JoinHandlers, JoinPCs, Handler
    <3>3. join' \in [Sockets -> JoinHandlers]
      BY <3>1, <3>2, HandlerUpdate
    <3>4. faults' \in Nat
      BY <2>3 DEF PickLeastLoaded, Fault, TypeOK
    <3>5. stats' \in [Sockets -> [Nodes -> Nat \cup {Unread}]]
      BY <2>3 DEF PickLeastLoaded, Unasked, TypeOK
    <3> QED
      BY <2>3, <3>3, <3>4, <3>5 DEF PickLeastLoaded, TypeOK
  <2>4. ASSUME NEW s \in Sockets, CreateMediaRoom(s) PROVE TypeOK'
    <3>1. join' \in [Sockets -> JoinHandlers]
      BY <2>4, JoinGoes DEF CreateMediaRoom, JoinPCs
    <3>2. mediaRooms' \in SUBSET (Nodes \X Rooms)
      BY <2>4, HandlerContext DEF CreateMediaRoom, SfuCreateRoom, TypeOK
    <3> QED
      BY <2>4, <3>1, <3>2 DEF CreateMediaRoom, SfuCreateRoom, TypeOK
  <2>5. ASSUME NEW s \in Sockets, StoreRoom(s) PROVE TypeOK'
    <3>1. /\ join' \in [Sockets -> JoinHandlers]
          /\ pendingRooms' \in SUBSET (Instances \X Rooms)
      BY <2>5, CreationEndsTyped DEF StoreRoom
    <3>2. roomKey' \in [Rooms -> Nodes \cup {None}]
      BY <2>5, HandlerContext DEF StoreRoom, TypeOK
    <3> QED
      BY <2>5, <3>1, <3>2 DEF StoreRoom, TypeOK
  <2>6. ASSUME NEW s \in Sockets, AddPeer(s) PROVE TypeOK'
    <3>1. join' \in [Sockets -> JoinHandlers]
      BY <2>6, JoinGoes DEF AddPeer, JoinPCs
    <3> QED
      BY <2>6, <3>1 DEF AddPeer, TypeOK
  <2>7. ASSUME NEW s \in Sockets, ReadOthers(s) PROVE TypeOK'
    <3>1. join' \in [Sockets -> JoinHandlers]
      BY <2>7, JoinGoes DEF ReadOthers, JoinPCs
    <3>2. OtherPeers(join[s].room, s) \in SUBSET Sockets
      BY <2>7, HandlerContext DEF ReadOthers, OtherPeers, TypeOK
    <3> QED
      BY <2>7, <3>1, <3>2 DEF ReadOthers, TypeOK
  <2>8. ASSUME NEW s \in Sockets, Commit(s) PROVE TypeOK'
    <3>1. join' \in [Sockets -> JoinHandlers]
      BY <2>8, HandlerEnds DEF Commit
    <3>2. data' \in [Sockets -> Rooms \cup {None}]
      BY <2>8, HandlerContext DEF Commit, TypeOK
    <3> QED
      BY <2>8, <3>1, <3>2 DEF Commit, TypeOK
  <2>9. ASSUME NEW s \in Sockets, Rollback(s) PROVE TypeOK'
    <3>1. join' \in [Sockets -> JoinHandlers]
      BY <2>9, HandlerEnds DEF Rollback
    <3> QED
      BY <2>9, <3>1 DEF Rollback, TypeOK
  <2>10. ASSUME NEW s \in Sockets, RejectCreation(s) PROVE TypeOK'
    <3>1. /\ join' \in [Sockets -> JoinHandlers]
          /\ pendingRooms' \in SUBSET (Instances \X Rooms)
      BY <2>10, CreationEndsTyped DEF RejectCreation
    <3>2. roomKey' \in [Rooms -> Nodes \cup {None}]
      BY <2>10, HandlerContext DEF RejectCreation, TypeOK
    <3>3. late' \in SUBSET Requests /\ faults' \in Nat
      BY <2>10, OutstandingTyped DEF RejectCreation, Fault, TypeOK
    <3>4. stats' \in [Sockets -> [Nodes -> Nat \cup {Unread}]]
      BY <2>10 DEF RejectCreation, Unasked, TypeOK
    <3> QED
      BY <2>10, <3>1, <3>2, <3>3, <3>4 DEF RejectCreation, TypeOK
  <2>11. ASSUME NEW s \in Sockets, JoinReadFails(s) PROVE TypeOK'
    <3>1. join' \in [Sockets -> JoinHandlers]
      BY <2>11, JoinGoes, HandlerEnds DEF JoinReadFails, JoinPCs
    <3> QED
      BY <2>11, <3>1 DEF JoinReadFails, Fault, TypeOK
  <2>12. ASSUME NEW s \in Sockets, JoinWriteFails(s) PROVE TypeOK'
    <3>1. join' \in [Sockets -> JoinHandlers]
      BY <2>12, HandlerEnds DEF JoinWriteFails
    <3>2. peersHash' \in [Rooms -> SUBSET Sockets]
      BY <2>12 DEF JoinWriteFails, TypeOK
    <3> QED
      BY <2>12, <3>1, <3>2 DEF JoinWriteFails, Fault, TypeOK
  <2>13. ASSUME NEW s \in Sockets, Disconnect(s) PROVE TypeOK'
    <3>1. data[s] # None => At("get", data[s], None) \in LeaveHandlers
      BY DEF At, LeaveHandlers, LeavePCs, Handler, TypeOK
    <3>2. leave' \in [Sockets -> LeaveHandlers]
      BY <2>13, <3>1, HandlerUpdate DEF Disconnect, TypeOK
    <3> QED
      BY <2>13, <3>2 DEF Disconnect, TypeOK
  <2>14. ASSUME NEW s \in Sockets, LeaveGetRoom(s) PROVE TypeOK'
    <3> DEFINE r == leave[s].room
    <3>1. roomKey[r] # None => At("hdel", r, roomKey[r]) \in LeaveHandlers
      BY <2>14, HandlerContext DEF LeaveGetRoom, At, LeaveHandlers, LeavePCs,
         Handler, TypeOK
    <3>2. leave' \in [Sockets -> LeaveHandlers]
      BY <2>14, <3>1, HandlerUpdate, HandlerEnds DEF LeaveGetRoom
    <3> QED
      BY <2>14, <3>2 DEF LeaveGetRoom, TypeOK
  <2>15. ASSUME NEW s \in Sockets, LeaveRemovePeer(s) PROVE TypeOK'
    <3>1. leave' \in [Sockets -> LeaveHandlers]
      BY <2>15, LeaveGoes DEF LeaveRemovePeer, LeavePCs
    <3> QED
      BY <2>15, <3>1 DEF LeaveRemovePeer, TypeOK
  <2>16. ASSUME NEW s \in Sockets, LeaveSfuRemovePeer(s) PROVE TypeOK'
    <3>1. leave' \in [Sockets -> LeaveHandlers]
      BY <2>16, LeaveGoes DEF LeaveSfuRemovePeer, LeavePCs
    <3> QED
      BY <2>16, <3>1 DEF LeaveSfuRemovePeer, SfuRemovePeer, TypeOK
  <2>17. ASSUME NEW s \in Sockets, LeaveIsEmpty(s) PROVE TypeOK'
    <3>1. leave' \in [Sockets -> LeaveHandlers]
      BY <2>17, LeaveGoes, HandlerEnds DEF LeaveIsEmpty, LeavePCs
    <3> QED
      BY <2>17, <3>1 DEF LeaveIsEmpty, TypeOK
  <2>18. ASSUME NEW s \in Sockets, LeaveCloseRoom(s) PROVE TypeOK'
    <3>1. leave' \in [Sockets -> LeaveHandlers]
      BY <2>18, HandlerEnds DEF LeaveCloseRoom
    <3>2. Request("closeRoom", leave[s].node, leave[s].room, s) \in Requests
      BY <2>18, HandlerContext DEF LeaveCloseRoom, Request, Requests
    <3>3. late' \in SUBSET Requests
      BY <2>18, <3>2 DEF LeaveCloseRoom, TypeOK
    <3>4. roomKey' \in [Rooms -> Nodes \cup {None}] /\ UNCHANGED peersHash
      BY <2>18 DEF LeaveCloseRoom, CloseRoomIfEmpty, TypeOK
    <3> QED
      BY <2>18, <3>1, <3>3, <3>4 DEF LeaveCloseRoom, TypeOK
  <2>19. ASSUME NEW s \in Sockets, LeaveSfuRemoveFails(s) PROVE TypeOK'
    <3>1. leave' \in [Sockets -> LeaveHandlers]
      BY <2>19, LeaveGoes DEF LeaveSfuRemoveFails, LeavePCs
    <3>2. late' \in SUBSET Requests /\ faults' \in Nat
      BY <2>19, OutstandingTyped DEF LeaveSfuRemoveFails, Fault, TypeOK
    <3> QED
      BY <2>19, <3>1, <3>2 DEF LeaveSfuRemoveFails, TypeOK
  <2>20. ASSUME NEW s \in Sockets, LeaveFails(s) PROVE TypeOK'
    <3>1. leave' \in [Sockets -> LeaveHandlers]
      BY <2>20, HandlerEnds DEF LeaveFails
    <3>2. roomKey' \in [Rooms -> Nodes \cup {None}]
      BY <2>20 DEF LeaveFails, CloseRoomIfEmpty, TypeOK
    <3>3. peersHash' \in [Rooms -> SUBSET Sockets]
      BY <2>20 DEF LeaveFails, CloseRoomIfEmpty, TypeOK
    <3>4. faults' \in Nat
      BY <2>20 DEF LeaveFails, Fault, TypeOK
    <3> QED
      BY <2>20, <3>1, <3>2, <3>3, <3>4 DEF LeaveFails, TypeOK
  <2>21. ASSUME NEW s \in Sockets, MediaStart(s) PROVE TypeOK'
    <3>1. At("peer", data[s], None) \in MediaHandlers
      BY <2>21 DEF MediaStart, At, MediaHandlers, MediaPCs, Handler, TypeOK
    <3>2. media' \in [Sockets -> MediaHandlers]
      BY <2>21, <3>1, HandlerUpdate DEF MediaStart
    <3> QED
      BY <2>21, <3>2 DEF MediaStart, TypeOK
  <2>22. ASSUME NEW s \in Sockets, MediaGetPeer(s) PROVE TypeOK'
    <3>1. At("room", media[s].room, media[s].node) \in MediaHandlers
      BY <2>22, HandlerContext DEF MediaGetPeer, At, MediaHandlers, MediaPCs,
         Handler
    <3>2. media' \in [Sockets -> MediaHandlers]
      BY <2>22, <3>1, HandlerUpdate, HandlerEnds DEF MediaGetPeer, MediaGoesTo
    <3> QED
      BY <2>22, <3>2 DEF MediaGetPeer, TypeOK
  <2>23. ASSUME NEW s \in Sockets, MediaResolveNode(s) PROVE TypeOK'
    <3> DEFINE r == media[s].room
    <3>1. roomKey[r] # None => At("call", r, roomKey[r]) \in MediaHandlers
      BY <2>23, HandlerContext DEF MediaResolveNode, At, MediaHandlers, MediaPCs,
         Handler, TypeOK
    <3>2. media' \in [Sockets -> MediaHandlers]
      BY <2>23, <3>1, HandlerUpdate, HandlerEnds DEF MediaResolveNode
    <3> QED
      BY <2>23, <3>2 DEF MediaResolveNode, TypeOK
  <2>24. ASSUME NEW s \in Sockets, MediaCall(s) PROVE TypeOK'
    <3>1. media' \in [Sockets -> MediaHandlers]
      BY <2>24, HandlerEnds DEF MediaCall
    <3>2. mediaPeers' \in SUBSET (Nodes \X Rooms \X Sockets)
      BY <2>24, HandlerContext DEF MediaCall, SfuCreateTransport, TypeOK
    <3> QED
      BY <2>24, <3>1, <3>2 DEF MediaCall, SfuCreateTransport, TypeOK
  <2>25. ASSUME NEW s \in Sockets, MediaFails(s) PROVE TypeOK'
    <3>1. media' \in [Sockets -> MediaHandlers]
      BY <2>25, HandlerEnds DEF MediaFails
    <3>2. late' \in SUBSET Requests /\ faults' \in Nat
      BY <2>25, OutstandingTyped DEF MediaFails, Fault, TypeOK
    <3> QED
      BY <2>25, <3>1, <3>2 DEF MediaFails, TypeOK
  <2>26. ASSUME NEW q \in late, DeliverLate(q) PROVE TypeOK'
    <3>1. q.node \in Nodes /\ q.room \in Rooms /\ q.peer \in Sockets
      BY DEF TypeOK, Requests
    <3>2. /\ mediaRooms' \in SUBSET (Nodes \X Rooms)
          /\ mediaPeers' \in SUBSET (Nodes \X Rooms \X Sockets)
      BY <2>26, <3>1 DEF DeliverLate, SfuCreateRoom, SfuCreateTransport,
         SfuRemovePeer, SfuCloseRoom, TypeOK
    <3> QED
      BY <2>26, <3>2 DEF DeliverLate, TypeOK
  <2>27. ASSUME NEW q \in late, LoseLate(q) PROVE TypeOK'
    BY <2>27 DEF LoseLate, Fault, TypeOK
  <2>28. ASSUME NEW n \in Nodes, NodeRestart(n) PROVE TypeOK'
    BY <2>28 DEF NodeRestart, Fault, TypeOK
  <2>29. ASSUME NEW i \in Instances, InstanceCrash(i) PROVE TypeOK'
    <3> DEFINE here == {s \in Sockets : HomeOf[s] = i}
    <3>1. /\ join' \in [Sockets -> JoinHandlers]
          /\ leave' \in [Sockets -> LeaveHandlers]
          /\ media' \in [Sockets -> MediaHandlers]
      BY <2>29, RestingHandlers DEF InstanceCrash, TypeOK
    <3>2. UNION {Outstanding(s) : s \in here} \in SUBSET Requests
      BY OutstandingTyped
    <3>3. late' \in SUBSET Requests
      BY <2>29, <3>2 DEF InstanceCrash, TypeOK
    <3>4. /\ conn' \in [Sockets -> {"open", "closed", "crashed"}]
          /\ data' \in [Sockets -> Rooms \cup {None}]
          /\ pendingRooms' \in SUBSET (Instances \X Rooms)
          /\ faults' \in Nat
          /\ stats' \in [Sockets -> [Nodes -> Nat \cup {Unread}]]
      BY <2>29 DEF InstanceCrash, Fault, Unasked, TypeOK
    <3> QED
      BY <2>29, <3>1, <3>3, <3>4 DEF InstanceCrash, TypeOK
  <2>30. ASSUME NEW s \in Sockets, FetchNodeStats(s) PROVE TypeOK'
    BY <2>30, RoomCountTyped DEF FetchNodeStats, TypeOK
  <2>31. CASE UNCHANGED vars
    BY <2>31 DEF vars, TypeOK
  <2> QED
    BY <2>1, <2>2, <2>3, <2>4, <2>5, <2>6, <2>7, <2>8, <2>9, <2>10, <2>11,
       <2>12, <2>13, <2>14, <2>15, <2>16, <2>17, <2>18, <2>19, <2>20, <2>21,
       <2>22, <2>23, <2>24, <2>25, <2>26, <2>27, <2>28, <2>29, <2>30, <2>31
       DEF Next, JoinStep, JoinFault, LeaveStep, LeaveFault, MediaStep
<1> QED
  BY <1>1, <1>2, PTL DEF Spec

-----------------------------------------------------------------------------
(***************************************************************************)
(* Members are not evicted.                                                *)
(***************************************************************************)

(* How a socket's handlers relate to its connection: no leave before the   *)
(* disconnect, a leave is about the joined room, and a socket that has     *)
(* joined and never sent join again has no join running.                   *)
SocketInv ==
    \A s \in Sockets :
        /\ conn[s] = "open" => leave[s].pc = "none"
        /\ s \notin rejoined /\ leave[s].pc \notin {"none", "done"}
             => data[s] # None /\ leave[s].room = data[s]
        /\ s \notin rejoined /\ data[s] # None => join[s].pc = "idle"

MemberInv == TypeOK /\ SocketInv /\ NoEvictedMember

(* The end of a creation changes only joins that were under way.           *)
LEMMA CreationEndsIdle ==
    ASSUME NEW s \in Sockets, NEW outcome, CreationEnds(s, outcome),
           join[s].pc # "idle"
    PROVE  \A w \in Sockets :
              /\ join[w].pc = "idle" => join'[w] = join[w]
              /\ join'[w].pc \in {"idle", "add"} \/ join'[w] = join[w]
BY DEF CreationEnds, Awaiting, Idle, At

LEMMA SocketInvStep ==
    ASSUME TypeOK, SocketInv, [Next]_vars
    PROVE  SocketInv'
<1> USE DEF redisVars, sfuVars, socketVars, readVars,
            JoinGoesTo, LeaveGoesTo, JoinEnds, LeaveEnds, Idle, Left, At
<1>0. /\ join \in [Sockets -> JoinHandlers]
      /\ leave \in [Sockets -> LeaveHandlers]
      /\ data \in [Sockets -> Rooms \cup {None}]
      /\ conn \in [Sockets -> {"open", "closed", "crashed"}]
  BY DEF TypeOK
<1>1. ASSUME NEW s \in Sockets, NEW r \in Rooms, JoinStart(s, r) PROVE SocketInv'
  BY <1>0, <1>1 DEF JoinStart, SocketInv
<1>2. ASSUME NEW s \in Sockets, StoreRoom(s) \/ RejectCreation(s) PROVE SocketInv'
  <2>1. /\ \A w \in Sockets : join[w].pc = "idle" => join'[w] = join[w]
        /\ UNCHANGED <<conn, data, rejoined, leave>>
    BY <1>2, CreationEndsIdle DEF StoreRoom, RejectCreation
  <2> QED
    BY <2>1 DEF SocketInv
<1>3. ASSUME NEW s \in Sockets,
             \/ FindRoom(s) \/ FetchNodeStats(s) \/ PickLeastLoaded(s)
             \/ CreateMediaRoom(s)
             \/ AddPeer(s) \/ ReadOthers(s) \/ Rollback(s)
             \/ JoinReadFails(s) \/ JoinWriteFails(s)
      PROVE  SocketInv'
  <2>1. /\ join[s].pc # "idle"
        /\ \A w \in Sockets \ {s} : join'[w] = join[w]
        /\ UNCHANGED <<conn, data, rejoined, leave>>
    BY <1>0, <1>3 DEF FindRoom, FetchNodeStats, PickLeastLoaded,
       CreateMediaRoom, AddPeer,
       ReadOthers, Rollback, JoinReadFails, JoinWriteFails
  <2> QED
    BY <2>1 DEF SocketInv
<1>4. ASSUME NEW s \in Sockets, Commit(s) PROVE SocketInv'
  BY <1>0, <1>4 DEF Commit, SocketInv
<1>5. ASSUME NEW s \in Sockets, Disconnect(s) PROVE SocketInv'
  BY <1>0, <1>5 DEF Disconnect, SocketInv
<1>6. ASSUME NEW s \in Sockets,
             \/ LeaveGetRoom(s) \/ LeaveRemovePeer(s) \/ LeaveSfuRemovePeer(s)
             \/ LeaveIsEmpty(s) \/ LeaveCloseRoom(s) \/ LeaveSfuRemoveFails(s)
             \/ LeaveFails(s)
      PROVE  SocketInv'
  <2>1. /\ leave[s].pc \notin {"none", "done"}
        /\ leave'[s].pc = "done" \/ leave'[s].room = leave[s].room
        /\ \A w \in Sockets \ {s} : leave'[w] = leave[w]
        /\ UNCHANGED <<conn, data, rejoined, join>>
    BY <1>0, <1>6 DEF LeaveGetRoom, LeaveRemovePeer, LeaveSfuRemovePeer,
       LeaveIsEmpty, LeaveCloseRoom, LeaveSfuRemoveFails, LeaveFails
  <2> QED
    BY <2>1 DEF SocketInv
<1>7. ASSUME NEW i \in Instances, InstanceCrash(i) PROVE SocketInv'
  BY <1>0, <1>7 DEF InstanceCrash, SocketInv
<1>8. CASE UNCHANGED <<conn, data, rejoined, leave, join>>
  BY <1>8 DEF SocketInv
<1>9. CASE \E s \in Sockets : MediaStart(s) \/ MediaStep(s) \/ MediaFails(s)
  BY <1>9, <1>8 DEF MediaStart, MediaStep, MediaGetPeer, MediaResolveNode,
     MediaCall, MediaFails
<1>10. CASE \/ \E q \in late : DeliverLate(q) \/ LoseLate(q)
            \/ \E n \in Nodes : NodeRestart(n)
  BY <1>10, <1>8 DEF DeliverLate, LoseLate, NodeRestart
<1>11. CASE UNCHANGED vars
  BY <1>11, <1>8 DEF vars
<1> QED
  BY <1>1, <1>2, <1>3, <1>4, <1>5, <1>6, <1>7, <1>9, <1>10, <1>11
     DEF Next, JoinStep, JoinFault, LeaveStep, LeaveFault

(* No step evicts a member.                                                *)
LEMMA MemberStep ==
    ASSUME MemberInv, [Next]_vars
    PROVE  NoEvictedMember'
<1> USE DEF redisVars, sfuVars, socketVars, readVars,
            JoinGoesTo, LeaveGoesTo, JoinEnds, LeaveEnds, Idle, Left, At
<1>0. /\ join \in [Sockets -> JoinHandlers]
      /\ leave \in [Sockets -> LeaveHandlers]
      /\ data \in [Sockets -> Rooms \cup {None}]
      /\ peersHash \in [Rooms -> SUBSET Sockets]
      /\ \A s \in Sockets, r \in Rooms : Member(s, r) => s \in peersHash[r]
      /\ TypeOK /\ SocketInv
  BY DEF MemberInv, TypeOK, NoEvictedMember
<1>1. ASSUME NEW s \in Sockets, NEW q \in Rooms, JoinStart(s, q)
      PROVE  NoEvictedMember'
  <2>1. \A t \in Sockets, r \in Rooms : Member(t, r)' => Member(t, r)
    BY <1>0, <1>1 DEF JoinStart, Member
  <2> QED
    BY <1>0, <1>1, <2>1 DEF JoinStart, NoEvictedMember
<1>2. ASSUME NEW s \in Sockets, StoreRoom(s) \/ RejectCreation(s)
      PROVE  NoEvictedMember'
  <2>1. /\ \A w \in Sockets : join'[w].pc \in {"idle", "add"} \/ join'[w] = join[w]
        /\ UNCHANGED <<data, rejoined, leave, peersHash>>
    BY <1>2, CreationEndsIdle DEF StoreRoom, RejectCreation
  <2> QED
    BY <1>0, <2>1 DEF NoEvictedMember, Member
<1>3. ASSUME NEW s \in Sockets,
             \/ FindRoom(s) \/ FetchNodeStats(s) \/ PickLeastLoaded(s)
             \/ CreateMediaRoom(s)
             \/ ReadOthers(s) \/ JoinReadFails(s)
      PROVE  NoEvictedMember'
  <2>1. /\ \/ join'[s].pc \notin {"read", "commit", "rollback"}
           \/ join[s].pc = "read" /\ join'[s].room = join[s].room
        /\ \A w \in Sockets \ {s} : join'[w] = join[w]
        /\ UNCHANGED <<data, rejoined, leave, peersHash>>
    BY <1>0, <1>3 DEF FindRoom, FetchNodeStats, PickLeastLoaded,
       CreateMediaRoom, ReadOthers,
       JoinReadFails
  <2> QED
    BY <1>0, <2>1 DEF NoEvictedMember, Member
<1>4. ASSUME NEW s \in Sockets, AddPeer(s) PROVE NoEvictedMember'
  <2>1. join[s].room \in Rooms
    BY <1>0, <1>4, HandlerContext DEF AddPeer
  <2>2. /\ s \in peersHash'[join[s].room]
        /\ \A r \in Rooms : peersHash[r] \subseteq peersHash'[r]
    BY <1>0, <1>4, <2>1 DEF AddPeer
  <2>3. \A t \in Sockets, r \in Rooms :
            Member(t, r)' => Member(t, r) \/ (t = s /\ r = join[s].room)
    BY <1>0, <1>4 DEF AddPeer, Member
  <2> QED
    BY <1>0, <2>2, <2>3 DEF NoEvictedMember
<1>5. ASSUME NEW s \in Sockets, Commit(s) PROVE NoEvictedMember'
  <2>1. \A t \in Sockets, r \in Rooms : Member(t, r)' => Member(t, r)
    BY <1>0, <1>5 DEF Commit, Member
  <2> QED
    BY <1>0, <1>5, <2>1 DEF Commit, NoEvictedMember
<1>6. ASSUME NEW s \in Sockets, Rollback(s) \/ JoinWriteFails(s)
      PROVE  NoEvictedMember'
  <2>1. /\ join[s].pc # "idle" /\ join'[s].pc = "idle"
        /\ \A t \in Sockets \ {s} : join'[t] = join[t]
        /\ \A r \in Rooms : peersHash[r] \ {s} \subseteq peersHash'[r]
        /\ UNCHANGED <<data, rejoined, leave>>
    BY <1>0, <1>6 DEF Rollback, JoinWriteFails
  <2>2. \A r \in Rooms : ~Member(s, r)'
    BY <1>0, <2>1, NoneAssumption DEF Member, SocketInv
  <2>3. \A t \in Sockets \ {s}, r \in Rooms : Member(t, r)' => Member(t, r)
    BY <2>1 DEF Member
  <2> QED
    BY <1>0, <2>1, <2>2, <2>3 DEF NoEvictedMember
<1>7. ASSUME NEW s \in Sockets, Disconnect(s) PROVE NoEvictedMember'
  <2>1. \A t \in Sockets, r \in Rooms : Member(t, r)' => Member(t, r)
    BY <1>0, <1>7 DEF Disconnect, Member, SocketInv
  <2> QED
    BY <1>0, <1>7, <2>1 DEF Disconnect, NoEvictedMember
<1>8. ASSUME NEW s \in Sockets,
             \/ LeaveGetRoom(s) \/ LeaveSfuRemovePeer(s) \/ LeaveIsEmpty(s)
             \/ LeaveCloseRoom(s) \/ LeaveSfuRemoveFails(s)
      PROVE  NoEvictedMember'
  <2>1. /\ \/ leave'[s].pc \notin {"none", "get", "hdel"}
           \/ leave[s].pc = "get"
        /\ \A t \in Sockets \ {s} : leave'[t] = leave[t]
        /\ UNCHANGED <<data, rejoined, join, peersHash>>
    BY <1>0, <1>8 DEF LeaveGetRoom, LeaveSfuRemovePeer, LeaveIsEmpty,
       LeaveCloseRoom, LeaveSfuRemoveFails, CloseRoomIfEmpty
  <2> QED
    BY <1>0, <2>1 DEF NoEvictedMember, Member
<1>9. ASSUME NEW s \in Sockets, LeaveRemovePeer(s) \/ LeaveFails(s)
      PROVE  NoEvictedMember'
  <2>1. /\ leave[s].pc \notin {"none", "done"}
        /\ leave'[s].pc \notin {"none", "get", "hdel"}
        /\ \A t \in Sockets \ {s} : leave'[t] = leave[t]
        /\ \A r \in Rooms : peersHash[r] \ {s} \subseteq peersHash'[r]
        /\ UNCHANGED <<data, rejoined, join>>
    BY <1>0, <1>9 DEF LeaveRemovePeer, LeaveFails, CloseRoomIfEmpty
  <2>2. \A r \in Rooms : ~Member(s, r)'
    BY <1>0, <2>1, NoneAssumption DEF Member, SocketInv
  <2>3. \A t \in Sockets \ {s}, r \in Rooms : Member(t, r)' => Member(t, r)
    BY <2>1 DEF Member
  <2> QED
    BY <1>0, <2>1, <2>2, <2>3 DEF NoEvictedMember
<1>10. ASSUME NEW i \in Instances, InstanceCrash(i) PROVE NoEvictedMember'
  <2>1. \A t \in Sockets, r \in Rooms : Member(t, r)' => Member(t, r)
    BY <1>0, <1>10, NoneAssumption DEF InstanceCrash, Member
  <2> QED
    BY <1>0, <1>10, <2>1 DEF InstanceCrash, NoEvictedMember
<1>11. CASE UNCHANGED <<data, rejoined, leave, join, peersHash>>
  BY <1>0, <1>11 DEF NoEvictedMember, Member
<1>12. CASE \E s \in Sockets : MediaStart(s) \/ MediaStep(s) \/ MediaFails(s)
  BY <1>12, <1>11 DEF MediaStart, MediaStep, MediaGetPeer, MediaResolveNode,
     MediaCall, MediaFails
<1>13. CASE \/ \E q \in late : DeliverLate(q) \/ LoseLate(q)
            \/ \E n \in Nodes : NodeRestart(n)
  BY <1>13, <1>11 DEF DeliverLate, LoseLate, NodeRestart
<1>14. CASE UNCHANGED vars
  BY <1>14, <1>11 DEF vars
<1> QED
  BY <1>1, <1>2, <1>3, <1>4, <1>5, <1>6, <1>7, <1>8, <1>9, <1>10, <1>12, <1>13,
     <1>14 DEF Next, JoinStep, JoinFault, LeaveStep, LeaveFault

(* A peer that was added stays recorded until its own leave or roll-back   *)
(* removes it.                                                             *)
THEOREM MembersStay == Spec => []NoEvictedMember
<1>1. Init => SocketInv /\ NoEvictedMember
  BY NoneAssumption
     DEF Init, SocketInv, NoEvictedMember, Member, Idle, Unborn, At
<1>2. TypeOK /\ TypeOK' /\ SocketInv /\ NoEvictedMember /\ [Next]_vars
        => SocketInv' /\ NoEvictedMember'
  BY SocketInvStep, MemberStep DEF MemberInv
<1> QED
  BY <1>1, <1>2, TypeCorrect, PTL DEF Spec

-----------------------------------------------------------------------------
(***************************************************************************)
(* A rejected join leaves nobody behind, while no write fails and no       *)
(* instance crashes.                                                       *)
(***************************************************************************)
LEMMA RejectedStep ==
    ASSUME FaultKinds \cap {"write", "crash"} = {},
           TypeOK, SocketInv, RejectedJoinLeavesNoPeer, [Next]_vars
    PROVE  RejectedJoinLeavesNoPeer'
<1> USE DEF redisVars, sfuVars, socketVars, readVars,
            JoinGoesTo, LeaveGoesTo, JoinEnds, LeaveEnds, Idle, Left, At
<1>0. /\ join \in [Sockets -> JoinHandlers]
      /\ data \in [Sockets -> Rooms \cup {None}]
      /\ peersHash \in [Rooms -> SUBSET Sockets]
      /\ rejoined \in SUBSET Sockets
      /\ \A r \in Rooms : \A s \in peersHash[r] \ rejoined :
            \/ join[s].pc \in {"read", "commit", "rollback"} /\ join[s].room = r
            \/ data[s] = r
  BY DEF TypeOK, RejectedJoinLeavesNoPeer
(* A join that is not past its HSET has recorded nobody yet.               *)
<1>A. \A s \in Sockets \ rejoined, r \in Rooms :
         join[s].pc \notin {"idle", "read", "commit", "rollback"}
           => s \notin peersHash[r]
  BY <1>0, NoneAssumption DEF SocketInv
<1>1. ASSUME NEW s \in Sockets, NEW q \in Rooms, JoinStart(s, q)
      PROVE  RejectedJoinLeavesNoPeer'
  <2>1. /\ rejoined \subseteq rejoined' /\ UNCHANGED <<data, peersHash>>
        /\ \A t \in Sockets \ {s} : join'[t] = join[t]
        /\ join[s].pc = "idle"
    BY <1>0, <1>1 DEF JoinStart
  <2>2. \A r \in Rooms : s \in peersHash[r] => s \in rejoined'
    BY <1>0, <1>1, NoneAssumption DEF JoinStart
  <2> QED
    BY <1>0, <2>1, <2>2 DEF RejectedJoinLeavesNoPeer
<1>2. ASSUME NEW s \in Sockets, StoreRoom(s) \/ RejectCreation(s)
      PROVE  RejectedJoinLeavesNoPeer'
  <2>1. UNCHANGED <<data, rejoined, peersHash>>
    BY <1>2 DEF StoreRoom, RejectCreation
  <2>2. \A w \in Sockets :
           join'[w] = join[w] \/ join[w].pc \in {"wait", "pick", "put", "set"}
    BY <1>2 DEF StoreRoom, RejectCreation, CreationEnds, Awaiting
  <2> QED
    BY <1>0, <2>1, <2>2 DEF RejectedJoinLeavesNoPeer
<1>3. ASSUME NEW s \in Sockets,
             \/ FindRoom(s) \/ FetchNodeStats(s) \/ PickLeastLoaded(s)
             \/ CreateMediaRoom(s)
             \/ ReadOthers(s) \/ JoinReadFails(s)
      PROVE  RejectedJoinLeavesNoPeer'
  <2>1. /\ \/ join[s].pc \notin {"idle", "read", "commit", "rollback"}
           \/ /\ join[s].pc = "read" /\ join'[s].pc \in {"commit", "rollback"}
              /\ join'[s].room = join[s].room
        /\ \A w \in Sockets \ {s} : join'[w] = join[w]
        /\ UNCHANGED <<data, rejoined, peersHash>>
    BY <1>0, <1>3 DEF FindRoom, FetchNodeStats, PickLeastLoaded,
       CreateMediaRoom, ReadOthers,
       JoinReadFails
  <2> QED
    BY <1>0, <1>A, <2>1 DEF RejectedJoinLeavesNoPeer
<1>4. ASSUME NEW s \in Sockets, AddPeer(s) PROVE RejectedJoinLeavesNoPeer'
  <2>1. /\ \A r \in Rooms : \A t \in peersHash'[r] :
              t \in peersHash[r] \/ (t = s /\ r = join[s].room)
        /\ \A w \in Sockets \ {s} : join'[w] = join[w]
        /\ join'[s].pc = "read" /\ join'[s].room = join[s].room
        /\ join[s].pc = "add"
        /\ UNCHANGED <<data, rejoined>>
    BY <1>0, <1>4 DEF AddPeer
  <2>2. \A r \in Rooms : s \in peersHash[r] => s \in rejoined
    BY <1>0, <1>A, <2>1
  <2>3. \A r \in Rooms : \A t \in peersHash'[r] \ rejoined : t # s =>
           \/ join'[t].pc \in {"read", "commit", "rollback"} /\ join'[t].room = r
           \/ data'[t] = r
    BY <1>0, <2>1
  <2>4. \A r \in Rooms : s \in peersHash'[r] \ rejoined => r = join[s].room
    BY <2>1, <2>2
  <2> QED
    BY <2>1, <2>3, <2>4 DEF RejectedJoinLeavesNoPeer
<1>5. ASSUME NEW s \in Sockets, Commit(s) PROVE RejectedJoinLeavesNoPeer'
  <2>1. /\ data'[s] = join[s].room /\ join[s].pc = "commit"
        /\ \A t \in Sockets \ {s} : join'[t] = join[t] /\ data'[t] = data[t]
        /\ UNCHANGED <<peersHash, rejoined>>
    BY <1>0, <1>5 DEF Commit
  <2>2. \A r \in Rooms : s \notin rejoined => data[s] # r
    BY <2>1, NoneAssumption DEF SocketInv
  <2> QED
    BY <1>0, <2>1, <2>2 DEF RejectedJoinLeavesNoPeer
<1>6. ASSUME NEW s \in Sockets, Rollback(s) PROVE RejectedJoinLeavesNoPeer'
  <2>1. /\ join[s].pc = "rollback" /\ join[s].room \in Rooms
        /\ \A t \in Sockets \ {s} : join'[t] = join[t]
        /\ \A r \in Rooms : peersHash'[r] \subseteq peersHash[r]
        /\ s \notin peersHash'[join[s].room]
        /\ UNCHANGED <<data, rejoined>>
    BY <1>0, <1>6, HandlerContext DEF Rollback
  <2> QED
    BY <1>0, <2>1 DEF RejectedJoinLeavesNoPeer
<1>7. ASSUME NEW s \in Sockets, JoinWriteFails(s)
      PROVE  RejectedJoinLeavesNoPeer'
  BY <1>7 DEF JoinWriteFails, Fault
<1>8. ASSUME NEW s \in Sockets,
             \/ Disconnect(s)
             \/ LeaveGetRoom(s) \/ LeaveRemovePeer(s) \/ LeaveSfuRemovePeer(s)
             \/ LeaveIsEmpty(s) \/ LeaveCloseRoom(s) \/ LeaveSfuRemoveFails(s)
             \/ LeaveFails(s)
      PROVE  RejectedJoinLeavesNoPeer'
  <2>1. /\ \A r \in Rooms : peersHash'[r] \subseteq peersHash[r]
        /\ UNCHANGED <<data, rejoined, join>>
    BY <1>0, <1>8 DEF Disconnect, LeaveGetRoom, LeaveRemovePeer,
       LeaveSfuRemovePeer, LeaveIsEmpty, LeaveCloseRoom, LeaveSfuRemoveFails,
       LeaveFails, CloseRoomIfEmpty
  <2> QED
    BY <1>0, <2>1 DEF RejectedJoinLeavesNoPeer
<1>9. ASSUME NEW i \in Instances, InstanceCrash(i)
      PROVE  RejectedJoinLeavesNoPeer'
  BY <1>9 DEF InstanceCrash, Fault
<1>10. CASE UNCHANGED <<data, rejoined, join, peersHash>>
  BY <1>0, <1>10 DEF RejectedJoinLeavesNoPeer
<1>11. CASE \E s \in Sockets : MediaStart(s) \/ MediaStep(s) \/ MediaFails(s)
  BY <1>11, <1>10 DEF MediaStart, MediaStep, MediaGetPeer, MediaResolveNode,
     MediaCall, MediaFails
<1>12. CASE \/ \E q \in late : DeliverLate(q) \/ LoseLate(q)
            \/ \E n \in Nodes : NodeRestart(n)
  BY <1>12, <1>10 DEF DeliverLate, LoseLate, NodeRestart
<1>13. CASE UNCHANGED vars
  BY <1>13, <1>10 DEF vars
<1> QED
  BY <1>1, <1>2, <1>3, <1>4, <1>5, <1>6, <1>7, <1>8, <1>9, <1>11, <1>12, <1>13
     DEF Next, JoinStep, JoinFault, LeaveStep, LeaveFault

(* A join that a failing read rejects leaves no peer behind: whoever is    *)
(* recorded has a join running or has joined that room.  A write that      *)
(* fails, or a crash, is what does leave one behind, so neither is among   *)
(* the failures this is about.                                             *)
THEOREM NoPeerLeftBehind ==
    ASSUME FaultKinds \cap {"write", "crash"} = {}
    PROVE  Spec => []RejectedJoinLeavesNoPeer
<1>1. Init => SocketInv /\ RejectedJoinLeavesNoPeer
  BY NoneAssumption
     DEF Init, SocketInv, RejectedJoinLeavesNoPeer, Idle, Unborn, At
<1>2. TypeOK /\ SocketInv /\ RejectedJoinLeavesNoPeer /\ [Next]_vars
        => SocketInv' /\ RejectedJoinLeavesNoPeer'
  BY SocketInvStep, RejectedStep
<1> QED
  BY <1>1, <1>2, TypeCorrect, PTL DEF Spec

-----------------------------------------------------------------------------
(***************************************************************************)
(* Overlapping joins.                                                      *)
(***************************************************************************)
LEMMA VisibilityStep ==
    ASSUME MemberInv, OneSeesTheOther, [Next]_vars
    PROVE  OneSeesTheOther'
<1> USE DEF redisVars, sfuVars, socketVars, readVars,
            JoinGoesTo, LeaveGoesTo, JoinEnds, LeaveEnds, Idle, Left, At
<1>0. /\ join \in [Sockets -> JoinHandlers]
      /\ leave \in [Sockets -> LeaveHandlers]
      /\ data \in [Sockets -> Rooms \cup {None}]
      /\ seen \in [Sockets -> SUBSET Sockets]
      /\ \A s \in Sockets, r \in Rooms : Member(s, r) => s \in peersHash[r]
      /\ TypeOK /\ SocketInv
  BY DEF MemberInv, TypeOK, NoEvictedMember
<1>1. ASSUME UNCHANGED seen,
             \A s \in Sockets, r \in Rooms : Informed(s, r)' => Informed(s, r)
      PROVE  OneSeesTheOther'
  BY <1>1 DEF OneSeesTheOther
<1>2. ASSUME NEW s \in Sockets, NEW q \in Rooms, JoinStart(s, q)
      PROVE  OneSeesTheOther'
  <2>1. \A t \in Sockets, r \in Rooms : Informed(t, r)' => Informed(t, r)
    BY <1>0, <1>2 DEF JoinStart, Informed, Member
  <2> QED
    BY <1>1, <1>2, <2>1 DEF JoinStart
<1>3. ASSUME NEW s \in Sockets, StoreRoom(s) \/ RejectCreation(s)
      PROVE  OneSeesTheOther'
  <2>1. /\ \A w \in Sockets : join'[w].pc \in {"idle", "add"} \/ join'[w] = join[w]
        /\ UNCHANGED <<data, rejoined, leave, seen>>
    BY <1>3, CreationEndsIdle DEF StoreRoom, RejectCreation
  <2>2. \A t \in Sockets, r \in Rooms : Informed(t, r)' => Informed(t, r)
    BY <2>1 DEF Informed, Member
  <2> QED
    BY <1>1, <2>1, <2>2
<1>4. ASSUME NEW s \in Sockets,
             \/ FindRoom(s) \/ FetchNodeStats(s) \/ PickLeastLoaded(s)
             \/ CreateMediaRoom(s)
             \/ AddPeer(s) \/ JoinReadFails(s) \/ JoinWriteFails(s)
             \/ Rollback(s)
      PROVE  OneSeesTheOther'
  <2>1. /\ join'[s].pc # "commit"
        /\ join[s].pc # "idle"
        /\ \A w \in Sockets \ {s} : join'[w] = join[w]
        /\ UNCHANGED <<data, rejoined, leave, seen>>
    BY <1>0, <1>4 DEF FindRoom, FetchNodeStats, PickLeastLoaded,
       CreateMediaRoom, AddPeer,
       JoinReadFails, JoinWriteFails, Rollback
  <2>2. \A r \in Rooms : ~Informed(s, r)'
    BY <1>0, <2>1, NoneAssumption DEF Informed, Member, SocketInv
  <2>3. \A t \in Sockets \ {s}, r \in Rooms : Informed(t, r)' => Informed(t, r)
    BY <2>1 DEF Informed, Member
  <2> QED
    BY <1>1, <2>1, <2>2, <2>3
(* The step that matters: s reads a room all of whose members it finds.    *)
<1>5. ASSUME NEW s \in Sockets, ReadOthers(s) PROVE OneSeesTheOther'
  <2> DEFINE q == join[s].room
  <2>1. seen'[s] = peersHash[q] \ {s} /\ \A t \in Sockets \ {s} : seen'[t] = seen[t]
    BY <1>0, <1>5 DEF ReadOthers, OtherPeers
  <2>2. \A t \in Sockets \ {s}, r \in Rooms :
            Informed(t, r)' => Informed(t, r) /\ Member(t, r)
    BY <1>0, <1>5 DEF ReadOthers, Informed, Member
  <2>3. \A r \in Rooms : Informed(s, r)' => r = q
    BY <1>0, <1>5, NoneAssumption DEF ReadOthers, Informed, Member, SocketInv
  <2>4. \A t \in Sockets \ {s}, r \in Rooms :
            Informed(s, r)' /\ Informed(t, r)' => t \in seen'[s]
    BY <1>0, <2>1, <2>2, <2>3
  <2>5. \A p, t \in Sockets \ {s}, r \in Rooms :
            p # t /\ Informed(p, r)' /\ Informed(t, r)'
                => p \in seen'[t] \/ t \in seen'[p]
    BY <2>1, <2>2 DEF OneSeesTheOther
  <2> QED
    BY <2>4, <2>5 DEF OneSeesTheOther
<1>6. ASSUME NEW s \in Sockets, Commit(s) PROVE OneSeesTheOther'
  <2>1. \A t \in Sockets, r \in Rooms : Informed(t, r)' => Informed(t, r)
    BY <1>0, <1>6 DEF Commit, Informed, Member
  <2> QED
    BY <1>1, <1>6, <2>1 DEF Commit
<1>7. ASSUME NEW s \in Sockets, Disconnect(s) PROVE OneSeesTheOther'
  <2>1. \A t \in Sockets, r \in Rooms : Informed(t, r)' => Informed(t, r)
    BY <1>0, <1>7 DEF Disconnect, Informed, Member, SocketInv
  <2> QED
    BY <1>1, <1>7, <2>1 DEF Disconnect
<1>8. ASSUME NEW s \in Sockets,
             \/ LeaveGetRoom(s) \/ LeaveRemovePeer(s) \/ LeaveSfuRemovePeer(s)
             \/ LeaveIsEmpty(s) \/ LeaveCloseRoom(s) \/ LeaveSfuRemoveFails(s)
             \/ LeaveFails(s)
      PROVE  OneSeesTheOther'
  <2>1. /\ \/ leave'[s].pc \notin {"none", "get", "hdel"}
           \/ leave[s].pc = "get"
        /\ \A t \in Sockets \ {s} : leave'[t] = leave[t]
        /\ UNCHANGED <<data, rejoined, join, seen>>
    BY <1>0, <1>8 DEF LeaveGetRoom, LeaveRemovePeer, LeaveSfuRemovePeer,
       LeaveIsEmpty, LeaveCloseRoom, LeaveSfuRemoveFails, LeaveFails
  <2>2. \A t \in Sockets, r \in Rooms : Informed(t, r)' => Informed(t, r)
    BY <2>1 DEF Informed, Member
  <2> QED
    BY <1>1, <2>1, <2>2
<1>9. ASSUME NEW i \in Instances, InstanceCrash(i) PROVE OneSeesTheOther'
  <2>1. \A t \in Sockets, r \in Rooms : Informed(t, r)' => Informed(t, r)
    BY <1>0, <1>9, NoneAssumption DEF InstanceCrash, Informed, Member
  <2> QED
    BY <1>1, <1>9, <2>1 DEF InstanceCrash
<1>10. CASE UNCHANGED <<data, rejoined, leave, join, seen>>
  BY <1>1, <1>10 DEF Informed, Member
<1>11. CASE \E s \in Sockets : MediaStart(s) \/ MediaStep(s) \/ MediaFails(s)
  BY <1>11, <1>10 DEF MediaStart, MediaStep, MediaGetPeer, MediaResolveNode,
     MediaCall, MediaFails
<1>12. CASE \/ \E q \in late : DeliverLate(q) \/ LoseLate(q)
            \/ \E n \in Nodes : NodeRestart(n)
  BY <1>12, <1>10 DEF DeliverLate, LoseLate, NodeRestart
<1>13. CASE UNCHANGED vars
  BY <1>13, <1>10 DEF vars
<1> QED
  BY <1>2, <1>3, <1>4, <1>5, <1>6, <1>7, <1>8, <1>9, <1>11, <1>12, <1>13
     DEF Next, JoinStep, JoinFault, LeaveStep, LeaveFault

(* Of two peers that joined the same room, at least one was told of the    *)
(* other.                                                                  *)
THEOREM MutualVisibility == Spec => []OneSeesTheOther
<1>1. Init => SocketInv /\ NoEvictedMember /\ OneSeesTheOther
  BY NoneAssumption
     DEF Init, SocketInv, NoEvictedMember, OneSeesTheOther, Informed, Member,
         Idle, Unborn, At
<1>2. TypeOK /\ TypeOK' /\ SocketInv /\ NoEvictedMember /\ OneSeesTheOther
        /\ [Next]_vars
        => SocketInv' /\ NoEvictedMember' /\ OneSeesTheOther'
  BY SocketInvStep, MemberStep, VisibilityStep DEF MemberInv
<1> QED
  BY <1>1, <1>2, TypeCorrect, PTL DEF Spec

-----------------------------------------------------------------------------
(***************************************************************************)
(* Room creations.                                                         *)
(***************************************************************************)

(* The joins that are at one of the steps of a creation, or wait for one.  *)
Busy == {"wait", "pick", "put", "set"}

(* Steps that leave the creations of every instance alone.                 *)
LEMMA PendingFrame ==
    ASSUME PendingIsOneCreation, UNCHANGED pendingRooms,
           \A t \in Sockets :
              \/ join'[t] = join[t]
              \/ join[t].pc \notin Busy /\ join'[t].pc \notin Busy
              \/ /\ join[t].pc \in Busy \ {"wait"} /\ join'[t].pc \in Busy \ {"wait"}
                 /\ join'[t].room = join[t].room
    PROVE  PendingIsOneCreation'
<1>1. \A t \in Sockets, i \in Instances, r \in Rooms :
          Creating(t, i, r)' <=> Creating(t, i, r)
  BY DEF Creating, Busy
<1>2. \A t \in Sockets : join'[t].pc = "wait" => join'[t] = join[t]
  BY DEF Busy
<1> QED
  BY <1>1, <1>2 DEF PendingIsOneCreation

LEMMA PendingStep ==
    ASSUME TypeOK, PendingIsOneCreation, [Next]_vars
    PROVE  PendingIsOneCreation'
<1> USE DEF redisVars, sfuVars, socketVars, readVars,
            JoinGoesTo, JoinEnds, Idle, At
<1>0. join \in [Sockets -> JoinHandlers]
  BY DEF TypeOK
<1>1. ASSUME NEW s \in Sockets, NEW q \in Rooms, JoinStart(s, q)
      PROVE  PendingIsOneCreation'
  BY <1>0, <1>1, PendingFrame DEF JoinStart, Busy
<1>2. ASSUME NEW s \in Sockets, FindRoom(s) PROVE PendingIsOneCreation'
  <2> DEFINE q == join[s].room
             j == HomeOf[s]
  <2>0. q \in Rooms /\ j \in Instances
    BY <1>2, HandlerContext, HomeAssumption DEF FindRoom
  <2>1. CASE join'[s].pc = "add" /\ UNCHANGED pendingRooms
    BY <1>0, <1>2, <2>1, PendingFrame DEF FindRoom, Busy
  <2>2. CASE /\ <<j, q>> \in pendingRooms /\ UNCHANGED pendingRooms
             /\ JoinGoesTo(s, "wait")
    <3>1. \A t \in Sockets, i \in Instances, r \in Rooms :
              Creating(t, i, r)' <=> Creating(t, i, r)
      BY <1>0, <1>2, <2>2 DEF FindRoom, Creating
    <3>2. \A t \in Sockets \ {s} : join'[t] = join[t]
      BY <1>0, <2>2
    <3>3. join'[s].room = q
      BY <1>0, <2>2
    <3> QED
      BY <2>2, <3>1, <3>2, <3>3 DEF PendingIsOneCreation
  <2>3. CASE /\ <<j, q>> \notin pendingRooms
             /\ pendingRooms' = pendingRooms \cup {<<j, q>>}
             /\ JoinGoesTo(s, "pick")
    <3>1. \A t \in Sockets \ {s}, i \in Instances, r \in Rooms :
              Creating(t, i, r)' <=> Creating(t, i, r)
      BY <1>0, <2>3 DEF Creating
    <3>2. \A i \in Instances, r \in Rooms :
              Creating(s, i, r)' <=> i = j /\ r = q
      BY <1>0, <2>3 DEF Creating
    <3>3. \A i \in Instances, r \in Rooms : ~Creating(s, i, r)
      BY <1>2 DEF FindRoom, Creating
    <3>4. \A t \in Sockets : ~Creating(t, j, q)
      BY <2>0, <2>3 DEF PendingIsOneCreation
    <3>5. \A t \in Sockets : join'[t].pc = "wait" => join'[t] = join[t]
      BY <1>0, <2>3
    <3>6. ASSUME NEW i \in Instances, NEW r \in Rooms
          PROVE  <<i, r>> \in pendingRooms' <=> \E t \in Sockets : Creating(t, i, r)'
      <4>1. CASE i = j /\ r = q
        BY <2>3, <3>2, <4>1
      <4>2. CASE ~(i = j /\ r = q)
        BY <2>3, <3>1, <3>2, <3>3, <4>2 DEF PendingIsOneCreation
      <4> QED
        BY <4>1, <4>2
    <3>7. ASSUME NEW i \in Instances, NEW r \in Rooms,
                 NEW t \in Sockets, NEW u \in Sockets,
                 Creating(t, i, r)', Creating(u, i, r)'
          PROVE  t = u
      <4>1. CASE i = j /\ r = q
        BY <3>1, <3>4, <3>7, <4>1
      <4>2. CASE ~(i = j /\ r = q)
        <5>1. t # s /\ u # s
          BY <3>2, <3>7, <4>2
        <5>2. Creating(t, i, r) /\ Creating(u, i, r)
          BY <3>1, <3>7, <5>1
        <5> QED
          BY <5>2 DEF PendingIsOneCreation
      <4> QED
        BY <4>1, <4>2
    <3>8. ASSUME NEW i \in Instances, NEW r \in Rooms, NEW t \in Sockets,
                 (join[t].pc = "wait" /\ join[t].room = r /\ HomeOf[t] = i)'
          PROVE  <<i, r>> \in pendingRooms'
      BY <2>3, <3>5, <3>8 DEF PendingIsOneCreation
    <3> QED
      BY <3>6, <3>7, <3>8 DEF PendingIsOneCreation
  <2> QED
    BY <1>0, <1>2, <2>1, <2>2, <2>3 DEF FindRoom
<1>3. ASSUME NEW s \in Sockets, StoreRoom(s) \/ RejectCreation(s)
      PROVE  PendingIsOneCreation'
  <2> DEFINE q == join[s].room
             j == HomeOf[s]
  <2>0. /\ q \in Rooms /\ j \in Instances
        /\ Creating(s, j, q)
        /\ pendingRooms' = pendingRooms \ {<<j, q>>}
    BY <1>3, HandlerContext, HomeAssumption
       DEF StoreRoom, RejectCreation, CreationEnds, Creating
  <2>1. \A t \in Awaiting(s) : join'[t].pc \notin Busy
    BY <1>3 DEF StoreRoom, RejectCreation, CreationEnds, Awaiting, Busy
  <2>2. \A t \in Sockets \ Awaiting(s) : join'[t] = join[t]
    BY <1>3 DEF StoreRoom, RejectCreation, CreationEnds
  <2>3. \A t \in Sockets, i \in Instances, r \in Rooms :
            Creating(t, i, r)' <=> Creating(t, i, r) /\ t # s
    BY <2>0, <2>1, <2>2 DEF Creating, Awaiting, Busy
  <2>4. \A i \in Instances, r \in Rooms :
            Creating(s, i, r) => i = j /\ r = q
    BY DEF Creating
  <2>5. \A t \in Sockets : Creating(t, j, q) => t = s
    BY <2>0 DEF PendingIsOneCreation
  <2>6. \A t \in Sockets :
            join'[t].pc = "wait" => /\ join'[t] = join[t]
                                    /\ <<HomeOf[t], join[t].room>> # <<j, q>>
    BY <2>1, <2>2 DEF Awaiting, Busy
  <2>7. ASSUME NEW i \in Instances, NEW r \in Rooms
        PROVE  <<i, r>> \in pendingRooms' <=> \E t \in Sockets : Creating(t, i, r)'
    <3>1. CASE i = j /\ r = q
      BY <2>0, <2>3, <2>5, <3>1
    <3>2. CASE ~(i = j /\ r = q)
      BY <2>0, <2>3, <2>4, <3>2 DEF PendingIsOneCreation
    <3> QED
      BY <3>1, <3>2
  <2>8. ASSUME NEW i \in Instances, NEW r \in Rooms,
               NEW t \in Sockets, NEW u \in Sockets,
               Creating(t, i, r)', Creating(u, i, r)'
        PROVE  t = u
    BY <2>3, <2>8 DEF PendingIsOneCreation
  <2>9. ASSUME NEW i \in Instances, NEW r \in Rooms, NEW t \in Sockets,
               (join[t].pc = "wait" /\ join[t].room = r /\ HomeOf[t] = i)'
        PROVE  <<i, r>> \in pendingRooms'
    <3>1. <<i, r>> # <<j, q>>
      BY <2>6, <2>9
    <3> QED
      BY <2>0, <2>6, <2>9, <3>1 DEF PendingIsOneCreation
  <2> QED
    BY <2>7, <2>8, <2>9 DEF PendingIsOneCreation
<1>4. ASSUME NEW s \in Sockets,
             \/ FetchNodeStats(s) \/ PickLeastLoaded(s)
             \/ CreateMediaRoom(s) \/ AddPeer(s)
             \/ ReadOthers(s) \/ Commit(s) \/ Rollback(s)
             \/ JoinReadFails(s) \/ JoinWriteFails(s)
      PROVE  PendingIsOneCreation'
  <2>1. /\ \/ join[s].pc \notin Busy /\ join'[s].pc \notin Busy
           \/ /\ join[s].pc \in Busy \ {"wait"} /\ join'[s].pc \in Busy \ {"wait"}
              /\ join'[s].room = join[s].room
        /\ \A t \in Sockets \ {s} : join'[t] = join[t]
        /\ UNCHANGED pendingRooms
    BY <1>0, <1>4 DEF FetchNodeStats, PickLeastLoaded, CreateMediaRoom,
       AddPeer, ReadOthers,
       Commit, Rollback, JoinReadFails, JoinWriteFails, Busy
  <2> QED
    BY <2>1, PendingFrame
<1>5. ASSUME NEW i \in Instances, InstanceCrash(i) PROVE PendingIsOneCreation'
  <2>1. /\ \A t \in Sockets : HomeOf[t] # i => join'[t] = join[t]
        /\ \A t \in Sockets : HomeOf[t] = i => join'[t].pc = "idle"
        /\ pendingRooms' = {c \in pendingRooms : c[1] # i}
    BY <1>5 DEF InstanceCrash
  <2>2. \A t \in Sockets, k \in Instances, r \in Rooms :
            Creating(t, k, r)' <=> Creating(t, k, r) /\ k # i
    BY <2>1 DEF Creating
  <2> QED
    BY <2>1, <2>2 DEF PendingIsOneCreation
<1>6. CASE UNCHANGED <<join, pendingRooms>>
  BY <1>6, PendingFrame
<1>7. CASE \E s \in Sockets : Disconnect(s) \/ LeaveStep(s) \/ LeaveFault(s)
  BY <1>6, <1>7 DEF Disconnect, LeaveStep, LeaveFault, LeaveGetRoom,
     LeaveRemovePeer, LeaveSfuRemovePeer, LeaveIsEmpty, LeaveCloseRoom,
     LeaveSfuRemoveFails, LeaveFails
<1>8. CASE \E s \in Sockets : MediaStart(s) \/ MediaStep(s) \/ MediaFails(s)
  BY <1>6, <1>8 DEF MediaStart, MediaStep, MediaGetPeer, MediaResolveNode,
     MediaCall, MediaFails
<1>9. CASE \/ \E q \in late : DeliverLate(q) \/ LoseLate(q)
           \/ \E n \in Nodes : NodeRestart(n)
  BY <1>6, <1>9 DEF DeliverLate, LoseLate, NodeRestart
<1>10. CASE UNCHANGED vars
  BY <1>6, <1>10 DEF vars
<1> QED
  BY <1>1, <1>2, <1>3, <1>4, <1>5, <1>7, <1>8, <1>9, <1>10
     DEF Next, JoinStep, JoinFault

(* An instance's pendingRooms entry is one creation under way, and a join  *)
(* waits only for such a creation.                                         *)
THEOREM PendingCreations == Spec => []PendingIsOneCreation
<1>1. Init => PendingIsOneCreation
  BY DEF Init, PendingIsOneCreation, Creating, Idle, At
<1>2. TypeOK /\ PendingIsOneCreation /\ [Next]_vars => PendingIsOneCreation'
  BY PendingStep
<1> QED
  BY <1>1, <1>2, TypeCorrect, PTL DEF Spec

-----------------------------------------------------------------------------
(***************************************************************************)
(* Rooms that nobody is in, and the node of a room.                        *)
(***************************************************************************)

(* What sees to a room that nobody is in.                                  *)
Attends(s, r) ==
    \/ join[s].pc = "add" /\ join[s].room = r
    \/ leave[s].pc \in {"sfuRemove", "isEmpty", "close"} /\ leave[s].room = r

LEMMA AttendedFrame ==
    ASSUME EmptyRoomIsAttended, NEW r \in Rooms,
           roomKey[r] # None /\ peersHash[r] = {},
           \A t \in Sockets : Attends(t, r) => Attends(t, r)'
    PROVE  \E t \in Sockets : Attends(t, r)'
BY DEF EmptyRoomIsAttended, Attends

NoneRollsBack == \A s \in Sockets : join[s].pc # "rollback"

LEMMA NoneRollsBackStep ==
    ASSUME TypeOK, NoneRollsBack, "read" \notin FaultKinds, [Next]_vars
    PROVE  NoneRollsBack'
<1> USE DEF redisVars, sfuVars, socketVars, readVars,
            JoinGoesTo, JoinEnds, Idle, At
<1>0. join \in [Sockets -> JoinHandlers]
  BY DEF TypeOK
<1>1. CASE UNCHANGED join
  BY <1>1 DEF NoneRollsBack
<1>2. ASSUME NEW s \in Sockets, JoinStep(s) \/ JoinFault(s)
      PROVE  NoneRollsBack'
  BY <1>0, <1>2 DEF NoneRollsBack, JoinStep, JoinFault, FindRoom,
     FetchNodeStats, PickLeastLoaded, CreateMediaRoom, StoreRoom, AddPeer,
        ReadOthers, Commit,
     Rollback, RejectCreation, CreationEnds, JoinReadFails, JoinWriteFails,
     Fault
<1>3. ASSUME NEW s \in Sockets, NEW r \in Rooms, JoinStart(s, r)
      PROVE  NoneRollsBack'
  BY <1>0, <1>3 DEF NoneRollsBack, JoinStart
<1>4. ASSUME NEW i \in Instances, InstanceCrash(i)
      PROVE  NoneRollsBack'
  BY <1>4 DEF NoneRollsBack, InstanceCrash
<1>5. CASE \/ \E s \in Sockets : Disconnect(s) \/ LeaveStep(s) \/ LeaveFault(s)
           \/ \E s \in Sockets : MediaStart(s) \/ MediaStep(s) \/ MediaFails(s)
  BY <1>1, <1>5 DEF Disconnect, LeaveStep, LeaveFault, LeaveGetRoom,
     LeaveRemovePeer, LeaveSfuRemovePeer, LeaveIsEmpty, LeaveCloseRoom,
     LeaveSfuRemoveFails, LeaveFails, MediaStart, MediaStep, MediaGetPeer,
     MediaResolveNode, MediaCall, MediaFails
<1>6. CASE \/ \E q \in late : DeliverLate(q) \/ LoseLate(q)
           \/ \E n \in Nodes : NodeRestart(n)
           \/ UNCHANGED vars
  BY <1>1, <1>6 DEF DeliverLate, LoseLate, NodeRestart, vars
<1> QED
  BY <1>2, <1>3, <1>4, <1>5, <1>6 DEF Next

LEMMA AttendedStep ==
    ASSUME TypeOK, SocketInv, NoneRollsBack, EmptyRoomIsAttended, [Next]_vars,
           FaultKinds \cap {"read", "write", "crash"} = {}
    PROVE  EmptyRoomIsAttended'
<1> SUFFICES ASSUME NEW r \in Rooms, roomKey'[r] # None, peersHash'[r] = {}
             PROVE  \E t \in Sockets : Attends(t, r)'
  BY DEF EmptyRoomIsAttended, Attends
<1> USE DEF redisVars, sfuVars, socketVars, readVars,
            JoinGoesTo, JoinEnds, LeaveGoesTo, LeaveEnds, Idle, Left, At
<1>0. /\ join \in [Sockets -> JoinHandlers]
      /\ leave \in [Sockets -> LeaveHandlers]
      /\ roomKey \in [Rooms -> Nodes \cup {None}]
      /\ peersHash \in [Rooms -> SUBSET Sockets]
  BY DEF TypeOK
<1>1. CASE UNCHANGED <<roomKey, peersHash, join, leave>>
  BY <1>1, AttendedFrame DEF Attends
<1>2. ASSUME NEW s \in Sockets, StoreRoom(s)
      PROVE  \E t \in Sockets : Attends(t, r)'
  <2>1. /\ join[s].pc = "set"
        /\ UNCHANGED <<peersHash, leave>>
        /\ roomKey' = [roomKey EXCEPT ![join[s].room] = join[s].node]
        /\ join'[s].pc = "add" /\ join'[s].room = join[s].room
        /\ \A t \in Sockets : join[t].pc = "add" => join'[t] = join[t]
    BY <1>2 DEF StoreRoom, CreationEnds, Awaiting
  <2>2. CASE r = join[s].room
    BY <2>1, <2>2 DEF Attends
  <2>3. CASE r # join[s].room
    <3>1. roomKey[r] # None /\ peersHash[r] = {}
      BY <1>0, <2>1, <2>3
    <3> QED
      BY <2>1, <3>1, AttendedFrame DEF Attends
  <2> QED
    BY <2>2, <2>3
<1>3. ASSUME NEW s \in Sockets, RejectCreation(s)
      PROVE  \E t \in Sockets : Attends(t, r)'
  <2>1. /\ UNCHANGED <<roomKey, peersHash, leave>>
        /\ \A t \in Sockets : join[t].pc = "add" => join'[t] = join[t]
    BY <1>3 DEF RejectCreation, CreationEnds, Awaiting, Fault
  <2> QED
    BY <2>1, AttendedFrame DEF Attends
<1>4. ASSUME NEW s \in Sockets, AddPeer(s)
      PROVE  \E t \in Sockets : Attends(t, r)'
  <2>1. /\ join[s].pc = "add" /\ UNCHANGED <<roomKey, leave>>
        /\ peersHash' = [peersHash EXCEPT ![join[s].room] = @ \cup {s}]
        /\ \A t \in Sockets \ {s} : join'[t] = join[t]
    BY <1>0, <1>4 DEF AddPeer
  <2>2. r # join[s].room /\ peersHash[r] = {}
    BY <1>0, <2>1
  <2> QED
    BY <2>1, <2>2, AttendedFrame DEF Attends
<1>5. ASSUME NEW s \in Sockets,
             \/ FindRoom(s) \/ FetchNodeStats(s) \/ PickLeastLoaded(s)
             \/ CreateMediaRoom(s)
             \/ ReadOthers(s) \/ Commit(s) \/ \E q \in Rooms : JoinStart(s, q)
      PROVE  \E t \in Sockets : Attends(t, r)'
  <2>1. /\ join[s].pc # "add" /\ UNCHANGED <<roomKey, peersHash, leave>>
        /\ \A t \in Sockets \ {s} : join'[t] = join[t]
    BY <1>0, <1>5 DEF FindRoom, FetchNodeStats, PickLeastLoaded,
       CreateMediaRoom, ReadOthers,
       Commit, JoinStart
  <2> QED
    BY <2>1, AttendedFrame DEF Attends
<1>6. ASSUME NEW s \in Sockets, Disconnect(s) \/ LeaveGetRoom(s)
      PROVE  \E t \in Sockets : Attends(t, r)'
  <2>1. /\ leave[s].pc \notin {"sfuRemove", "isEmpty", "close"}
        /\ UNCHANGED <<roomKey, peersHash, join>>
        /\ \A t \in Sockets \ {s} : leave'[t] = leave[t]
    BY <1>0, <1>6 DEF Disconnect, LeaveGetRoom, SocketInv
  <2> QED
    BY <2>1, AttendedFrame DEF Attends
<1>7. ASSUME NEW s \in Sockets, LeaveRemovePeer(s)
      PROVE  \E t \in Sockets : Attends(t, r)'
  <2>1. /\ leave[s].pc = "hdel" /\ UNCHANGED <<roomKey, join>>
        /\ peersHash' = [peersHash EXCEPT ![leave[s].room] = @ \ {s}]
        /\ leave'[s].pc = "sfuRemove" /\ leave'[s].room = leave[s].room
        /\ \A t \in Sockets \ {s} : leave'[t] = leave[t]
    BY <1>0, <1>7 DEF LeaveRemovePeer
  <2>2. CASE r = leave[s].room
    BY <2>1, <2>2 DEF Attends
  <2>3. CASE r # leave[s].room
    <3>1. roomKey[r] # None /\ peersHash[r] = {}
      BY <1>0, <2>1, <2>3
    <3> QED
      BY <2>1, <3>1, AttendedFrame DEF Attends
  <2> QED
    BY <2>2, <2>3
<1>8. ASSUME NEW s \in Sockets, LeaveSfuRemovePeer(s) \/ LeaveSfuRemoveFails(s)
      PROVE  \E t \in Sockets : Attends(t, r)'
  <2>1. /\ UNCHANGED <<roomKey, peersHash, join>>
        /\ leave'[s].pc = "isEmpty" /\ leave'[s].room = leave[s].room
        /\ \A t \in Sockets \ {s} : leave'[t] = leave[t]
    BY <1>0, <1>8 DEF LeaveSfuRemovePeer, LeaveSfuRemoveFails
  <2> QED
    BY <2>1, AttendedFrame DEF Attends
<1>9. ASSUME NEW s \in Sockets, LeaveIsEmpty(s)
      PROVE  \E t \in Sockets : Attends(t, r)'
  <2>1. /\ UNCHANGED <<roomKey, peersHash, join>>
        /\ \A t \in Sockets \ {s} : leave'[t] = leave[t]
        /\ peersHash[leave[s].room] = {}
             => leave'[s].pc = "close" /\ leave'[s].room = leave[s].room
    BY <1>0, <1>9 DEF LeaveIsEmpty
  <2> QED
    BY <2>1, AttendedFrame DEF Attends
<1>10. ASSUME NEW s \in Sockets, LeaveCloseRoom(s)
       PROVE  \E t \in Sockets : Attends(t, r)'
  <2>1. /\ UNCHANGED <<peersHash, join>>
        /\ \A t \in Sockets \ {s} : leave'[t] = leave[t]
        /\ \E closed \in BOOLEAN : CloseRoomIfEmpty(leave[s].room, closed)
        /\ leave[s].room \in Rooms
    BY <1>0, <1>10, HandlerContext DEF LeaveCloseRoom, CloseRoomIfEmpty
  <2>2. r # leave[s].room /\ roomKey[r] # None
    BY <1>0, <2>1 DEF CloseRoomIfEmpty
  <2> QED
    BY <2>1, <2>2, AttendedFrame DEF Attends
<1>11. ASSUME NEW s \in Sockets,
              \/ Rollback(s) \/ JoinReadFails(s) \/ JoinWriteFails(s)
              \/ LeaveFails(s)
       PROVE  FALSE
  BY <1>11 DEF Rollback, NoneRollsBack, JoinReadFails, JoinWriteFails,
     LeaveFails, Fault
<1>12. ASSUME NEW i \in Instances, InstanceCrash(i)
       PROVE  FALSE
  BY <1>12 DEF InstanceCrash, Fault
<1>13. CASE \/ \E s \in Sockets : MediaStart(s) \/ MediaStep(s) \/ MediaFails(s)
            \/ \E q \in late : DeliverLate(q) \/ LoseLate(q)
            \/ \E n \in Nodes : NodeRestart(n)
            \/ UNCHANGED vars
  BY <1>1, <1>13 DEF MediaStart, MediaStep, MediaGetPeer, MediaResolveNode,
     MediaCall, MediaFails, DeliverLate, LoseLate, NodeRestart, vars
<1> QED
  BY <1>2, <1>3, <1>4, <1>5, <1>6, <1>7, <1>8, <1>9, <1>10, <1>11, <1>12, <1>13
     DEF Next, JoinStep, JoinFault, LeaveStep, LeaveFault

(* Where Redis answers and no instance crashes, a room that nobody is in   *)
(* has a handler that will enter or close it, whatever the nodes fail at   *)
(* and however many leave at once: what EmptyRoomIsClosed needs, but for   *)
(* the fairness that lets this handler go on.                              *)
THEOREM EmptyRoomsAreAttended ==
    ASSUME FaultKinds \cap {"read", "write", "crash"} = {}
    PROVE  Spec => []EmptyRoomIsAttended
<1>1. Init => SocketInv /\ NoneRollsBack /\ EmptyRoomIsAttended
  BY NoneAssumption
     DEF Init, SocketInv, NoneRollsBack, EmptyRoomIsAttended, Idle, Unborn, At
<1>2. TypeOK /\ TypeOK' /\ SocketInv /\ NoneRollsBack /\ EmptyRoomIsAttended
        /\ [Next]_vars
        => SocketInv' /\ NoneRollsBack' /\ EmptyRoomIsAttended'
  BY SocketInvStep, NoneRollsBackStep, AttendedStep
<1> QED
  BY <1>1, <1>2, TypeCorrect, PTL DEF Spec

(* A join creates a room only if the room has no node.                     *)
CreationIsFirst ==
    \A s \in Sockets :
        join[s].pc \in {"pick", "put", "set"} => roomKey[join[s].room] = None

(* The node of a room is picked once (rooms/types/index.ts:6-8).           *)
NodeIsKept ==
    \A r \in Rooms : roomKey[r] # None => roomKey'[r] \in {roomKey[r], None}

LEMMA CreationIsFirstStep ==
    ASSUME TypeOK, PendingIsOneCreation, CreationIsFirst, [Next]_vars,
           \A s, t \in Sockets : HomeOf[s] = HomeOf[t]
    PROVE  CreationIsFirst' /\ NodeIsKept
<1> USE DEF redisVars, sfuVars, socketVars, readVars,
            JoinGoesTo, JoinEnds, Idle, At
<1>0. /\ join \in [Sockets -> JoinHandlers]
      /\ roomKey \in [Rooms -> Nodes \cup {None}]
  BY DEF TypeOK
<1>1. CASE UNCHANGED <<roomKey, join>>
  BY <1>1 DEF CreationIsFirst, NodeIsKept
<1>2. ASSUME NEW s \in Sockets, StoreRoom(s) \/ RejectCreation(s)
      PROVE  CreationIsFirst' /\ NodeIsKept
  <2>1. /\ join[s].pc \in {"pick", "put", "set"} /\ join[s].room \in Rooms
        /\ HomeOf[s] \in Instances
    BY <1>2, HandlerContext, HomeAssumption DEF StoreRoom, RejectCreation
  <2>2. \A q \in Rooms : q # join[s].room => roomKey'[q] = roomKey[q]
    BY <1>0, <1>2 DEF StoreRoom, RejectCreation
  <2>3. \A t \in Sockets :
           \/ join'[t].pc \in {"idle", "add"}
           \/ t # s /\ join'[t] = join[t]
    BY <1>2 DEF StoreRoom, RejectCreation, CreationEnds, Awaiting
  <2>4. ASSUME NEW t \in Sockets \ {s}, join[t].pc \in {"pick", "put", "set"}
        PROVE  join[t].room # join[s].room
    <3>1. HomeOf[t] = HomeOf[s]
      OBVIOUS
    <3>2. join[t].room = join[s].room
            => /\ Creating(s, HomeOf[s], join[s].room)
               /\ Creating(t, HomeOf[s], join[s].room)
      BY <2>1, <2>4, <3>1 DEF Creating
    <3> QED
      BY <2>1, <3>2 DEF PendingIsOneCreation
  <2>5. \A t \in Sockets : join[t].pc # "idle" => join[t].room \in Rooms
    BY HandlerContext
  <2>6. roomKey[join[s].room] = None
    BY <2>1 DEF CreationIsFirst
  <2> QED
    BY <2>2, <2>3, <2>4, <2>5, <2>6 DEF CreationIsFirst, NodeIsKept
<1>3. ASSUME NEW s \in Sockets, FindRoom(s)
      PROVE  CreationIsFirst' /\ NodeIsKept
  <2>1. /\ UNCHANGED roomKey
        /\ join'[s].room = join[s].room
        /\ join'[s].pc \in {"pick", "put", "set"} => roomKey[join[s].room] = None
        /\ \A t \in Sockets \ {s} : join'[t] = join[t]
    BY <1>0, <1>3 DEF FindRoom
  <2> QED
    BY <2>1 DEF CreationIsFirst, NodeIsKept
<1>4. ASSUME NEW s \in Sockets,
             \/ FetchNodeStats(s) \/ PickLeastLoaded(s)
             \/ CreateMediaRoom(s) \/ AddPeer(s)
             \/ ReadOthers(s) \/ Commit(s) \/ Rollback(s)
             \/ JoinReadFails(s) \/ JoinWriteFails(s)
             \/ \E q \in Rooms : JoinStart(s, q)
      PROVE  CreationIsFirst' /\ NodeIsKept
  <2>1. /\ UNCHANGED roomKey
        /\ \/ join'[s].pc \notin {"pick", "put", "set"}
           \/ /\ join[s].pc \in {"pick", "put", "set"}
              /\ join'[s].room = join[s].room
        /\ \A t \in Sockets \ {s} : join'[t] = join[t]
    BY <1>0, <1>4 DEF FetchNodeStats, PickLeastLoaded, CreateMediaRoom,
       AddPeer, ReadOthers,
       Commit, Rollback, JoinReadFails, JoinWriteFails, JoinStart
  <2> QED
    BY <2>1 DEF CreationIsFirst, NodeIsKept
<1>5. ASSUME NEW s \in Sockets, LeaveCloseRoom(s) \/ LeaveFails(s)
      PROVE  CreationIsFirst' /\ NodeIsKept
  <2>1. UNCHANGED join /\ \A q \in Rooms : roomKey'[q] \in {roomKey[q], None}
    BY <1>0, <1>5 DEF LeaveCloseRoom, LeaveFails, CloseRoomIfEmpty
  <2>2. \A t \in Sockets : join[t].pc # "idle" => join[t].room \in Rooms
    BY HandlerContext
  <2> QED
    BY <2>1, <2>2 DEF CreationIsFirst, NodeIsKept
<1>6. ASSUME NEW i \in Instances, InstanceCrash(i)
      PROVE  CreationIsFirst' /\ NodeIsKept
  BY <1>6 DEF InstanceCrash, CreationIsFirst, NodeIsKept
<1>7. CASE \E s \in Sockets : \/ Disconnect(s) \/ LeaveGetRoom(s)
                              \/ LeaveRemovePeer(s) \/ LeaveSfuRemovePeer(s)
                              \/ LeaveIsEmpty(s) \/ LeaveSfuRemoveFails(s)
  BY <1>1, <1>7 DEF Disconnect, LeaveGetRoom, LeaveRemovePeer,
     LeaveSfuRemovePeer, LeaveIsEmpty, LeaveSfuRemoveFails
<1>8. CASE \/ \E s \in Sockets : MediaStart(s) \/ MediaStep(s) \/ MediaFails(s)
           \/ \E q \in late : DeliverLate(q) \/ LoseLate(q)
           \/ \E n \in Nodes : NodeRestart(n)
           \/ UNCHANGED vars
  BY <1>1, <1>8 DEF MediaStart, MediaStep, MediaGetPeer, MediaResolveNode,
     MediaCall, MediaFails, DeliverLate, LoseLate, NodeRestart, vars
<1> QED
  BY <1>2, <1>3, <1>4, <1>5, <1>6, <1>7, <1>8
     DEF Next, JoinStep, JoinFault, LeaveStep, LeaveFault

(* With one realtime instance a room that has a node keeps it until it is  *)
(* closed, whatever fails: the second SET of a creation takes a second     *)
(* instance, since the joins of one share their creation                   *)
(* (rooms.service.ts:41-58).                                               *)
THEOREM OneInstanceKeepsNode ==
    ASSUME \A s, t \in Sockets : HomeOf[s] = HomeOf[t]
    PROVE  Spec => [][NodeIsKept]_vars
<1>1. Init => CreationIsFirst
  BY DEF Init, CreationIsFirst, Idle, At
<1>2. TypeOK /\ PendingIsOneCreation /\ CreationIsFirst /\ [Next]_vars
        => CreationIsFirst' /\ NodeIsKept
  BY CreationIsFirstStep
<1> QED
  BY <1>1, <1>2, TypeCorrect, PendingCreations, PTL DEF Spec

-----------------------------------------------------------------------------
(***************************************************************************)
(* The abstract room.                                                      *)
(***************************************************************************)
LEMMA MembershipStep ==
    ASSUME TypeOK, [Next]_vars
    PROVE  [Membership!MembershipNext]_(Membership!membershipVars)
<1> DEFINE Opened == {r \in Rooms : roomKey[r] # None}
<1> USE DEF redisVars, sfuVars, socketVars, readVars,
            Membership!membershipVars
<1>0. /\ roomKey \in [Rooms -> Nodes \cup {None}]
      /\ peersHash \in [Rooms -> SUBSET Sockets]
      /\ seen \in [Sockets -> SUBSET Sockets]
  BY DEF TypeOK
<1>1. CASE UNCHANGED <<roomKey, peersHash, seen>>
  BY <1>1
<1>2. ASSUME NEW s \in Sockets, StoreRoom(s) \/ RejectCreation(s)
      PROVE  [Membership!MembershipNext]_(Membership!membershipVars)
  <2>1. PICK q \in Rooms :
            q = join[s].room /\ (join[s].pc = "set" => join[s].node \in Nodes)
    BY <1>2, HandlerContext DEF StoreRoom, RejectCreation
  <2>2. CASE UNCHANGED roomKey
    BY <1>1, <1>2, <2>2 DEF StoreRoom, RejectCreation
  <2>3. CASE join[s].pc = "set" /\ roomKey' = [roomKey EXCEPT ![q] = join[s].node]
    <3>1. {r \in Rooms : roomKey'[r] # None} = Opened \cup {q}
      BY <1>0, <2>1, <2>3, NoneAssumption
    <3>2. UNCHANGED <<peersHash, seen>>
      BY <1>2 DEF StoreRoom, RejectCreation
    <3>3. Membership!Open(q)
      BY <3>1, <3>2 DEF Membership!Open
    <3>4. Membership!MembershipNext
      BY <2>1, <3>3 DEF Membership!MembershipNext
    <3> QED
      BY <3>4
  <2> QED
    BY <1>2, <2>1, <2>2, <2>3 DEF StoreRoom, RejectCreation
<1>3. ASSUME NEW s \in Sockets, AddPeer(s) \/ Rollback(s) \/ JoinWriteFails(s)
      PROVE  [Membership!MembershipNext]_(Membership!membershipVars)
  <2>1. PICK q \in Rooms : q = join[s].room
    BY <1>3, HandlerContext DEF AddPeer, Rollback, JoinWriteFails
  <2>2. /\ UNCHANGED <<roomKey, seen>>
        /\ \/ peersHash' = [peersHash EXCEPT ![q] = @ \cup {s}]
           \/ peersHash' = [peersHash EXCEPT ![q] = @ \ {s}]
           \/ UNCHANGED peersHash
    BY <1>3, <2>1 DEF AddPeer, Rollback, JoinWriteFails
  <2>3. Membership!Enter(s, q) \/ Membership!Exit(s, q) \/ UNCHANGED peersHash
    BY <2>2 DEF Membership!Enter, Membership!Exit
  <2> QED
    BY <1>1, <2>1, <2>2, <2>3 DEF Membership!MembershipNext
<1>4. ASSUME NEW s \in Sockets, ReadOthers(s)
      PROVE  [Membership!MembershipNext]_(Membership!membershipVars)
  <2>1. PICK q \in Rooms : q = join[s].room
    BY <1>4, HandlerContext DEF ReadOthers
  <2>2. Membership!See(s, q)
    BY <1>4, <2>1 DEF ReadOthers, OtherPeers, Membership!See
  <2> QED
    BY <2>1, <2>2 DEF Membership!MembershipNext
<1>5. ASSUME NEW s \in Sockets, NEW closed \in BOOLEAN,
             leave[s].pc = "close", CloseRoomIfEmpty(leave[s].room, closed),
             UNCHANGED seen
      PROVE  [Membership!MembershipNext]_(Membership!membershipVars)
  <2>1. PICK q \in Rooms : q = leave[s].room
    BY <1>5, HandlerContext
  <2>2. CASE closed
    <3>1. {r \in Rooms : roomKey'[r] # None} = Opened \ {q}
      BY <1>0, <1>5, <2>1, <2>2 DEF CloseRoomIfEmpty
    <3>2. Membership!Close(q)
      BY <1>5, <2>1, <2>2, <3>1 DEF CloseRoomIfEmpty, Membership!Close
    <3>3. Membership!MembershipNext
      BY <2>1, <3>2 DEF Membership!MembershipNext
    <3> QED
      BY <3>3
  <2>3. CASE ~closed
    BY <1>1, <1>5, <2>3 DEF CloseRoomIfEmpty
  <2> QED
    BY <2>2, <2>3
<1>6. ASSUME NEW s \in Sockets, LeaveRemovePeer(s) \/ LeaveFails(s)
      PROVE  [Membership!MembershipNext]_(Membership!membershipVars)
  <2>1. PICK q \in Rooms : q = leave[s].room
    BY <1>6, HandlerContext DEF LeaveRemovePeer, LeaveFails
  <2>2. CASE /\ peersHash' = [peersHash EXCEPT ![q] = @ \ {s}]
             /\ UNCHANGED <<roomKey, seen>>
    <3>1. Membership!Exit(s, q)
      BY <2>2 DEF Membership!Exit
    <3> QED
      BY <2>1, <3>1 DEF Membership!MembershipNext
  <2> QED
    BY <1>1, <1>5, <1>6, <2>1, <2>2 DEF LeaveRemovePeer, LeaveFails
<1>7. ASSUME NEW s \in Sockets, LeaveCloseRoom(s)
      PROVE  [Membership!MembershipNext]_(Membership!membershipVars)
  BY <1>5, <1>7 DEF LeaveCloseRoom
<1>8. CASE \/ \E s \in Sockets, r \in Rooms : JoinStart(s, r)
           \/ \E s \in Sockets : \/ FindRoom(s) \/ FetchNodeStats(s) \/ PickLeastLoaded(s)
                                 \/ CreateMediaRoom(s) \/ Commit(s)
                                 \/ JoinReadFails(s)
           \/ \E s \in Sockets : \/ Disconnect(s) \/ LeaveGetRoom(s)
                                 \/ LeaveSfuRemovePeer(s) \/ LeaveIsEmpty(s)
                                 \/ LeaveSfuRemoveFails(s)
  BY <1>1, <1>8 DEF JoinStart, FindRoom, FetchNodeStats, PickLeastLoaded,
     CreateMediaRoom, Commit,
     JoinReadFails, Disconnect, LeaveGetRoom, LeaveSfuRemovePeer, LeaveIsEmpty,
     LeaveSfuRemoveFails
<1>9. CASE \E s \in Sockets : MediaStart(s) \/ MediaStep(s) \/ MediaFails(s)
  BY <1>1, <1>9 DEF MediaStart, MediaStep, MediaGetPeer, MediaResolveNode,
     MediaCall, MediaFails
<1>10. CASE \/ \E q \in late : DeliverLate(q) \/ LoseLate(q)
            \/ \E n \in Nodes : NodeRestart(n)
            \/ \E i \in Instances : InstanceCrash(i)
  BY <1>1, <1>10 DEF DeliverLate, LoseLate, NodeRestart, InstanceCrash
<1>11. CASE UNCHANGED vars
  BY <1>1, <1>11 DEF vars
<1> QED
  BY <1>2, <1>3, <1>4, <1>6, <1>7, <1>8, <1>9, <1>10, <1>11
     DEF Next, JoinStep, JoinFault, LeaveStep, LeaveFault

(* The handlers implement the abstract room.                               *)
THEOREM Refinement == Spec => ImplementsMembership
<1>1. Init => Membership!MembershipInit
  BY DEF Init, Membership!MembershipInit
<1>2. TypeOK /\ [Next]_vars
        => [Membership!MembershipNext]_(Membership!membershipVars)
  BY MembershipStep
<1> QED
  BY <1>1, <1>2, TypeCorrect, PTL
     DEF Spec, ImplementsMembership, Membership!MembershipSpec
-----------------------------------------------------------------------------
(***************************************************************************)
(* The abstract node, once for each node.                                  *)
(***************************************************************************)
HostedAt(n)  == {r \in Rooms : <<n, r>> \in mediaRooms}
PresentAt(n) == {m \in Rooms \X Sockets : <<n, m[1], m[2]>> \in mediaPeers}

Prompt(n) == [Node(n)!PromptNext]_(Node(n)!nodeVars)

(* What a node does is told from the rooms it has and who is in them.      *)
LEMMA NodeUntouched ==
    ASSUME NEW n \in Nodes, UNCHANGED <<HostedAt(n), PresentAt(n)>>
    PROVE  Prompt(n)
BY DEF Prompt, HostedAt, PresentAt, Node!nodeVars

LEMMA NodeHosts ==
    ASSUME NEW n \in Nodes, NEW r \in Rooms,
           HostedAt(n)' = HostedAt(n) \cup {r}, UNCHANGED PresentAt(n)
    PROVE  Prompt(n)
BY DEF Prompt, HostedAt, PresentAt, Node!PromptNext, Node!Host

LEMMA NodeAdmits ==
    ASSUME NEW n \in Nodes, NEW r \in Rooms, NEW s \in Sockets,
           r \in HostedAt(n), UNCHANGED HostedAt(n),
           PresentAt(n)' = PresentAt(n) \cup {<<r, s>>}
    PROVE  Prompt(n)
BY DEF Prompt, HostedAt, PresentAt, Node!PromptNext, Node!Admit

LEMMA NodeDismisses ==
    ASSUME NEW n \in Nodes, NEW r \in Rooms, NEW s \in Sockets,
           UNCHANGED HostedAt(n),
           PresentAt(n)' = PresentAt(n) \ {<<r, s>>}
    PROVE  Prompt(n)
BY DEF Prompt, HostedAt, PresentAt, Node!PromptNext, Node!Dismiss

LEMMA NodeCloses ==
    ASSUME NEW n \in Nodes, NEW r \in Rooms,
           \A s \in Sockets : <<r, s>> \notin PresentAt(n),
           HostedAt(n)' = HostedAt(n) \ {r}, UNCHANGED PresentAt(n)
    PROVE  Prompt(n)
<1>1. PresentAt(n)' = {m \in PresentAt(n) : m[1] # r}
  BY DEF PresentAt
<1> QED
  BY <1>1 DEF Prompt, HostedAt, PresentAt, Node!PromptNext, Node!Close,
     Node!NobodyIn, Node!Forget

(* A request changes nothing but the room it names on the node it reaches, *)
(* and there it does what a node promises.                                 *)
LEMMA RequestIsPrompt ==
    ASSUME TypeOK, NEW o \in Nodes, NEW r \in Rooms, NEW s \in Sockets,
           \/ SfuCreateRoom(o, r)
           \/ SfuCreateTransport(o, r, s)
           \/ SfuRemovePeer(o, r, s)
           \/ SfuCloseRoom(o, r),
           NEW n \in Nodes
    PROVE  Prompt(n)
<1>0. /\ mediaRooms \in SUBSET (Nodes \X Rooms)
      /\ mediaPeers \in SUBSET (Nodes \X Rooms \X Sockets)
  BY DEF TypeOK
<1>1. CASE n # o
  <2>1. \A q \in Rooms : <<n, q>> \in mediaRooms' <=> <<n, q>> \in mediaRooms
    BY <1>1 DEF SfuCreateRoom, SfuCreateTransport, SfuRemovePeer, SfuCloseRoom
  <2>2. \A q \in Rooms, t \in Sockets :
           <<n, q, t>> \in mediaPeers' <=> <<n, q, t>> \in mediaPeers
    BY <1>1 DEF SfuCreateRoom, SfuCreateTransport, SfuRemovePeer, SfuCloseRoom
  <2>3. UNCHANGED <<HostedAt(n), PresentAt(n)>>
    BY <2>1, <2>2 DEF HostedAt, PresentAt
  <2> QED
    BY <2>3, NodeUntouched
<1>2. CASE n = o /\ SfuCreateRoom(o, r)
  <2>1. HostedAt(n)' = HostedAt(n) \cup {r} /\ UNCHANGED PresentAt(n)
    BY <1>2 DEF SfuCreateRoom, HostedAt, PresentAt
  <2> QED
    BY <2>1, NodeHosts
<1>3. CASE n = o /\ SfuCreateTransport(o, r, s)
  <2>1. UNCHANGED HostedAt(n)
    BY <1>3 DEF SfuCreateTransport, HostedAt
  <2>2. CASE <<n, r>> \in mediaRooms
    <3>1. r \in HostedAt(n) /\ mediaPeers' = mediaPeers \cup {<<n, r, s>>}
      BY <1>3, <2>2 DEF SfuCreateTransport, HostedAt
    <3>2. PresentAt(n)' = PresentAt(n) \cup {<<r, s>>}
      BY <3>1 DEF PresentAt
    <3> QED
      BY <2>1, <3>1, <3>2, NodeAdmits
  <2>3. CASE <<n, r>> \notin mediaRooms
    <3>1. UNCHANGED PresentAt(n)
      BY <1>3, <2>3 DEF SfuCreateTransport, PresentAt
    <3> QED
      BY <2>1, <3>1, NodeUntouched
  <2> QED
    BY <2>2, <2>3
<1>4. CASE n = o /\ SfuRemovePeer(o, r, s)
  <2>1. UNCHANGED HostedAt(n)
    BY <1>4 DEF SfuRemovePeer, HostedAt
  <2>2. PresentAt(n)' = PresentAt(n) \ {<<r, s>>}
    BY <1>4 DEF SfuRemovePeer, PresentAt
  <2> QED
    BY <2>1, <2>2, NodeDismisses
<1>5. CASE n = o /\ SfuCloseRoom(o, r)
  <2>1. UNCHANGED PresentAt(n)
    BY <1>5 DEF SfuCloseRoom, PresentAt
  <2>2. CASE SfuRoomIsEmpty(o, r)
    <3>1. mediaRooms' = mediaRooms \ {<<n, r>>}
      BY <1>5, <2>2 DEF SfuCloseRoom
    <3>2. HostedAt(n)' = HostedAt(n) \ {r}
      BY <3>1 DEF HostedAt
    <3>3. \A t \in Sockets : <<r, t>> \notin PresentAt(n)
      BY <1>5, <2>2 DEF SfuRoomIsEmpty, PresentAt
    <3> QED
      BY <2>1, <3>2, <3>3, NodeCloses
  <2>3. CASE ~ SfuRoomIsEmpty(o, r)
    <3>1. UNCHANGED HostedAt(n)
      BY <1>5, <2>3 DEF SfuCloseRoom, HostedAt
    <3> QED
      BY <2>1, <3>1, NodeUntouched
  <2> QED
    BY <2>2, <2>3
<1> QED
  BY <1>1, <1>2, <1>3, <1>4, <1>5

LEMMA RestartEmptiesNode ==
    ASSUME TypeOK, NEW o \in Nodes, NodeRestart(o), NEW n \in Nodes
    PROVE  Prompt(n) \/ (Node(n)!Restart /\ faults' > faults)
<1>1. CASE n = o
  <2>1. faults' > faults
    BY DEF NodeRestart, Fault, TypeOK
  <2>2. HostedAt(n)' = {} /\ PresentAt(n)' = {}
    BY <1>1 DEF NodeRestart, HostedAt, PresentAt
  <2>3. Node(n)!Restart
    BY <2>2 DEF HostedAt, PresentAt, Node!Restart
  <2> QED
    BY <2>1, <2>3
<1>2. CASE n # o
  <2>1. UNCHANGED <<HostedAt(n), PresentAt(n)>>
    BY <1>2 DEF NodeRestart, HostedAt, PresentAt
  <2> QED
    BY <2>1, NodeUntouched
<1> QED
  BY <1>1, <1>2

LEMMA NodesStepByStep ==
    ASSUME TypeOK, [Next]_vars, NEW n \in Nodes
    PROVE  Prompt(n) \/ (Node(n)!Restart /\ faults' > faults)
<1> USE DEF redisVars, sfuVars, socketVars, readVars
<1>1. CASE UNCHANGED <<mediaRooms, mediaPeers>>
  <2>1. UNCHANGED <<HostedAt(n), PresentAt(n)>>
    BY <1>1 DEF HostedAt, PresentAt
  <2> QED
    BY <2>1, NodeUntouched
<1>2. ASSUME NEW s \in Sockets, CreateMediaRoom(s)
      PROVE  Prompt(n)
  <2>1. join[s].node \in Nodes /\ join[s].room \in Rooms
    BY <1>2, HandlerContext DEF CreateMediaRoom
  <2> QED
    BY <1>2, <2>1, RequestIsPrompt DEF CreateMediaRoom
<1>3. ASSUME NEW s \in Sockets, LeaveSfuRemovePeer(s)
      PROVE  Prompt(n)
  <2>1. leave[s].node \in Nodes /\ leave[s].room \in Rooms
    BY <1>3, HandlerContext DEF LeaveSfuRemovePeer
  <2> QED
    BY <1>3, <2>1, RequestIsPrompt DEF LeaveSfuRemovePeer
<1>4. ASSUME NEW s \in Sockets, MediaCall(s)
      PROVE  Prompt(n)
  <2>1. media[s].node \in Nodes /\ media[s].room \in Rooms
    BY <1>4, HandlerContext DEF MediaCall
  <2> QED
    BY <1>4, <2>1, RequestIsPrompt DEF MediaCall
<1>5. ASSUME NEW q \in late, DeliverLate(q)
      PROVE  Prompt(n)
  <2>1. q.node \in Nodes /\ q.room \in Rooms /\ q.peer \in Sockets
    BY DEF TypeOK, Requests
  <2> QED
    BY <1>5, <2>1, RequestIsPrompt DEF DeliverLate
<1>6. CASE \/ \E s \in Sockets, r \in Rooms : JoinStart(s, r)
           \/ \E s \in Sockets : \/ FindRoom(s) \/ FetchNodeStats(s) \/ PickLeastLoaded(s)
                                 \/ StoreRoom(s) \/ AddPeer(s) \/ ReadOthers(s)
                                 \/ Commit(s) \/ Rollback(s)
           \/ \E s \in Sockets : JoinFault(s)
  BY <1>1, <1>6 DEF JoinStart, FindRoom, FetchNodeStats, PickLeastLoaded,
     StoreRoom, AddPeer,
     ReadOthers, Commit, Rollback, JoinFault, RejectCreation, JoinReadFails,
     JoinWriteFails
<1>7. CASE \E s \in Sockets : \/ Disconnect(s) \/ LeaveGetRoom(s)
                              \/ LeaveRemovePeer(s) \/ LeaveIsEmpty(s)
                              \/ LeaveCloseRoom(s) \/ LeaveFault(s)
  BY <1>1, <1>7 DEF Disconnect, LeaveGetRoom, LeaveRemovePeer, LeaveIsEmpty,
     LeaveCloseRoom, LeaveFault, LeaveSfuRemoveFails, LeaveFails
<1>8. CASE \/ \E s \in Sockets : \/ MediaStart(s) \/ MediaGetPeer(s)
                                 \/ MediaResolveNode(s) \/ MediaFails(s)
           \/ \E q \in late : LoseLate(q)
           \/ \E i \in Instances : InstanceCrash(i)
  BY <1>1, <1>8 DEF MediaStart, MediaGetPeer, MediaResolveNode, MediaFails,
     LoseLate, InstanceCrash
<1>9. CASE \E o \in Nodes : NodeRestart(o)
  BY <1>9, RestartEmptiesNode
<1>10. CASE UNCHANGED vars
  BY <1>1, <1>10 DEF vars
<1> QED
  BY <1>2, <1>3, <1>4, <1>5, <1>6, <1>7, <1>8, <1>9, <1>10
     DEF Next, JoinStep, LeaveStep, MediaStep

(* Each node, whatever reaches it late or not at all and whoever crashes,  *)
(* does only what an unrecorded MediaNode does, until it restarts: no      *)
(* request of the signaling service, in whatever order, closes an occupied *)
(* room or enters one that is not there.                                   *)
THEOREM NodesArePrompt == Spec => ImplementsNodes
<1>1. Init => \A n \in Nodes : Node(n)!NodeInit
  BY DEF Init, Node!NodeInit
<1>2. TypeOK /\ [Next]_vars => NodesStep
  BY NodesStepByStep DEF NodesStep, Prompt
<1> QED
  BY <1>1, <1>2, TypeCorrect, PTL DEF Spec, ImplementsNodes
=============================================================================
