---------------------------- MODULE MCMediaRooms ----------------------------
(***************************************************************************)
(* Instances of MediaRooms for TLC.                                        *)
(***************************************************************************)
EXTENDS MediaRooms, TLC

CONSTANTS w1, w2

PoolOrder == w1 :> 0 @@ w2 :> 1
PoolIndexSome == [w \in Workers |-> PoolOrder[w]]

(* Identifiers are interchangeable; workers are not, the pool is a list.   *)
Identifiers ==
    Permutations(RoomIds) \cup Permutations(PeerIds) \cup Permutations(Routers)
      \cup Permutations(PeerObjects) \cup Permutations(Transports)
      \cup Permutations(Calls)
=============================================================================
