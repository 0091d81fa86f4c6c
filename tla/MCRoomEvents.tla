---------------------------- MODULE MCRoomEvents ----------------------------
(***************************************************************************)
(* Instances of RoomEvents for TLC.                                        *)
(***************************************************************************)
EXTENDS RoomEvents, TLC

(* Any socket on any instance, and no two on the same one.                 *)
AnyHomes   == [Sockets -> Instances]
ApartHomes == {h \in AnyHomes : \A s, t \in Sockets : h[s] = h[t] => s = t}

(* The instances are interchangeable, the sockets have their own parts.    *)
InstanceSymmetry == Permutations(Instances)
=============================================================================
