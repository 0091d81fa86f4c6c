--------------------------- MODULE MCRoomLifecycle ---------------------------
(***************************************************************************)
(* Instances of RoomLifecycle for TLC.                                     *)
(***************************************************************************)
EXTENDS RoomLifecycle, TLC

CONSTANTS s1, s2, s3, i1, i2, n1, n2

(* Up to three sockets, the first two on different instances.              *)
SocketHomes == s1 :> i1 @@ s2 :> i2 @@ s3 :> i1
HomeOfSome == [s \in Sockets |-> SocketHomes[s]]
HomeOfOne  == [s \in Sockets |-> i1]

(* SFU_SERVICE_URLS lists n1 before n2.                                    *)
NodeOrder == n1 :> 1 @@ n2 :> 2
ListedOrder == [n \in Nodes |-> NodeOrder[n]]
=============================================================================
