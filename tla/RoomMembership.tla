--------------------------- MODULE RoomMembership ---------------------------
(***************************************************************************)
(* What the realtime service promises about a room, whatever the number of *)
(* instances, handlers and failures behind it: a room is opened, peers     *)
(* enter it, take one snapshot of the others, leave it, and it is closed   *)
(* only while nobody is in it.  RoomLifecycle implements this module.      *)
(***************************************************************************)
CONSTANTS
    Peers,      \* every peer that may ever join
    Rooms       \* every room id that may ever be used

VARIABLES
    open,       \* the rooms that have metadata
    members,    \* members[r]: the peers recorded in room r
    seen        \* seen[p]: the others p was told of when it last joined

membershipVars == <<open, members, seen>>

MembershipTypeOK ==
    /\ open \in SUBSET Rooms
    /\ members \in [Rooms -> SUBSET Peers]
    /\ seen \in [Peers -> SUBSET Peers]

MembershipInit ==
    /\ open = {}
    /\ members = [r \in Rooms |-> {}]
    /\ seen = [p \in Peers |-> {}]

-----------------------------------------------------------------------------
(* A room gets metadata (again, when two instances create it at once).     *)
Open(r) ==
    /\ open' = open \cup {r}
    /\ UNCHANGED <<members, seen>>

(* One peer is added to one room.                                          *)
Enter(p, r) ==
    /\ members' = [members EXCEPT ![r] = @ \cup {p}]
    /\ UNCHANGED <<open, seen>>

(* A joining peer learns who else is in the room, all at one instant.      *)
See(p, r) ==
    /\ seen' = [seen EXCEPT ![p] = members[r] \ {p}]
    /\ UNCHANGED <<open, members>>

(* One peer, and no other, is taken out of one room.                       *)
Exit(p, r) ==
    /\ members' = [members EXCEPT ![r] = @ \ {p}]
    /\ UNCHANGED <<open, seen>>

(* A room loses its metadata only while it has no member.                  *)
Close(r) ==
    /\ members[r] = {}
    /\ open' = open \ {r}
    /\ UNCHANGED <<members, seen>>

MembershipNext ==
    \E r \in Rooms :
        \/ Open(r)
        \/ Close(r)
        \/ \E p \in Peers : Enter(p, r) \/ See(p, r) \/ Exit(p, r)

MembershipSpec == MembershipInit /\ [][MembershipNext]_membershipVars
=============================================================================
