------------------------------ MODULE MediaNode ------------------------------
(***************************************************************************)
(* What one sfu node promises to those who call it, whatever its routers,  *)
(* transports and suspended requests: rooms come and go by their ids,      *)
(* peers enter and leave a room one at a time, and a room with somebody in *)
(* it goes only by a closing that was asked for while nobody was.          *)
(* MediaRooms implements this module; RoomLifecycle sees its nodes so.     *)
(***************************************************************************)
CONSTANTS
    RoomIds,    \* every room id a request may name
    PeerIds     \* every peer id a request may name

VARIABLES
    hosted,     \* the rooms the node has
    present,    \* <<r, p>>: peer p is in room r
    closing     \* the rooms with a closing that awaits their recording

nodeVars == <<hosted, present, closing>>

NodeInit == hosted = {} /\ present = {} /\ closing = {}

NobodyIn(r) == \A p \in PeerIds : <<r, p>> \notin present

-----------------------------------------------------------------------------
Host(r) ==
    /\ hosted' = hosted \cup {r}
    /\ UNCHANGED <<present, closing>>

(* Only a room that is there is entered.                                   *)
Admit(r, p) ==
    /\ r \in hosted
    /\ present' = present \cup {<<r, p>>}
    /\ UNCHANGED <<hosted, closing>>

(* One peer, and no other, is taken out of one room.                       *)
Dismiss(r, p) ==
    /\ present' = present \ {<<r, p>>}
    /\ UNCHANGED <<hosted, closing>>

(* A room goes, and whoever is in it with it; other rooms stay.            *)
Forget(r) ==
    /\ hosted' = hosted \ {r}
    /\ present' = {m \in present : m[1] # r}

Close(r) ==
    /\ NobodyIn(r)
    /\ Forget(r)
    /\ UNCHANGED closing

(* The closing of a recorded room looks, awaits, and does not look again.  *)
BeginClosing(r) ==
    /\ r \in hosted
    /\ NobodyIn(r)
    /\ closing' = closing \cup {r}
    /\ UNCHANGED <<hosted, present>>

(* A room may have more than one closing under way.                        *)
EndClosing(r) ==
    /\ r \in closing
    /\ Forget(r)
    /\ closing' \in {closing, closing \ {r}}

AbandonClosing(r) ==
    /\ closing' = closing \ {r}
    /\ UNCHANGED <<hosted, present>>

Restart == hosted' = {} /\ present' = {} /\ closing' = {}

-----------------------------------------------------------------------------
PromptNext ==
    \E r \in RoomIds :
        \/ Host(r)
        \/ Close(r)
        \/ \E p \in PeerIds : Admit(r, p) \/ Dismiss(r, p)

NodeNext ==
    \/ PromptNext
    \/ \E r \in RoomIds : BeginClosing(r) \/ EndClosing(r) \/ AbandonClosing(r)

(* The node with closings that wait, and the one whose closings do not, so *)
(* that nobody loses the room that is there; neither restarts.             *)
NodeSpec   == NodeInit /\ [][NodeNext]_nodeVars
PromptSpec == NodeInit /\ [][PromptNext]_nodeVars
=============================================================================
