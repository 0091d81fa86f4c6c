-------------------------------- MODULE Chat --------------------------------
(***************************************************************************)
(* The chat of one room: a message is appended to a Redis stream and then  *)
(* broadcast to the channel, the sender included; a client may ask for the *)
(* history, whole or after an id; the leave that closes the room deletes   *)
(* the stream, in a call nobody awaits, and the room may be open again by  *)
(* then.  The handlers interleave at each await, and may stop at one: a    *)
(* request fails, before or after it took effect, or the instance crashes. *)
(*                                                                         *)
(* Membership is kept to what the chat reads of it: RoomLifecycle has all  *)
(* of join and leave.  A meeting ends when the closing script runs.        *)
(***************************************************************************)
EXTENDS Integers, Sequences, FiniteSets

CONSTANTS
    Sockets,      \* socket connections; a socket's id is its peer id
    Earlier,      \* the sockets that are in the room at the start
    HistoryLimit, \* MAXLEN of the stream
    MaxMessages,  \* bound: messages sent
    MaxReads,     \* bound: histories asked for, by each socket
    MaxFaults     \* bound: requests that fail, and crashes

ASSUME ChatConstants ==
    /\ Earlier \subseteq Sockets
    /\ HistoryLimit \in Nat \ {0}
    /\ MaxMessages \in Nat /\ MaxReads \in Nat /\ MaxFaults \in Nat

VARIABLES
    peers,    \* Redis room:<r>:peers
    stream,   \* Redis chat:<r>, the messages in the order of their ids
    lastId,   \* the id of the last message appended
    status,   \* how far each socket is; in the channel when "in"
    send,     \* the sendChatMessage handler of each socket
    read,     \* the getChatHistory handler of each socket
    leave,    \* the handleDisconnect handler of each socket
    link,     \* broadcasts under way, from each sender to each socket
    view,     \* what each client has got
    meeting,  \* history: the number of the meeting
    unsaid,   \* history: the ids of messages stored and never broadcast
    sending,  \* messages started, bounded by MaxMessages
    faults    \* failed requests and crashes, bounded by MaxFaults

storeVars   == <<peers, stream, lastId>>
handlerVars == <<send, read, leave>>
clientVars  == <<link, view>>
historyVars == <<meeting, unsaid>>
boundVars   == <<sending, faults>>
vars == <<storeVars, status, handlerVars, clientVars, historyVars, boundVars>>

Ids      == Nat \ {0}
Messages == [id : Ids, of : Nat, late : BOOLEAN]
Never    == -1

NotSending == [pc |-> "idle", of |-> 0, id |-> 0]
NotReading == [pc |-> "idle", after |-> 0, found |-> {}, void |-> {}]
NotLeaving == [pc |-> "none", of |-> 0]
NothingGot == [got |-> {}, from |-> Never, void |-> {}, reads |-> 0]

Init ==
    /\ peers = Earlier
    /\ stream = <<>>
    /\ lastId = 0
    /\ status = [s \in Sockets |-> IF s \in Earlier THEN "in" ELSE "new"]
    /\ send = [s \in Sockets |-> NotSending]
    /\ read = [s \in Sockets |-> NotReading]
    /\ leave = [s \in Sockets |-> NotLeaving]
    /\ link = [l \in Sockets \X Sockets |-> <<>>]
    /\ view = [s \in Sockets |-> NothingGot]
    /\ meeting = 1
    /\ unsaid = {}
    /\ sending = 0
    /\ faults = 0

-----------------------------------------------------------------------------
(***************************************************************************)
(* join, as the chat sees it: the peer is in Redis, then in the channel.   *)
(***************************************************************************)
AddPeer(s) ==
    /\ status[s] = "new"
    /\ peers' = peers \cup {s}
    /\ status' = [status EXCEPT ![s] = "added"]
    /\ UNCHANGED <<stream, lastId, handlerVars, clientVars, historyVars,
                   boundVars>>

EnterChannel(s) ==
    /\ status[s] = "added"
    /\ status' = [status EXCEPT ![s] = "in"]
    /\ UNCHANGED <<storeVars, handlerVars, clientVars, historyVars, boundVars>>

-----------------------------------------------------------------------------
(***************************************************************************)
(* sendChatMessage                                                         *)
(***************************************************************************)
StartSend(s) ==
    /\ status[s] = "in"
    /\ send[s].pc = "idle"
    /\ sending < MaxMessages
    /\ sending' = sending + 1
    /\ send' = [send EXCEPT ![s].pc = "peer"]
    /\ UNCHANGED <<storeVars, status, read, leave, clientVars, historyVars,
                   faults>>

GetPeer(s) ==
    /\ send[s].pc = "peer"
    /\ send' = [send EXCEPT ![s] =
                  IF s \in peers
                    THEN [pc |-> "xadd", of |-> meeting, id |-> 0]
                    ELSE NotSending]
    /\ UNCHANGED <<storeVars, status, read, leave, clientVars, historyVars,
                   boundVars>>

(* XADD MAXLEN ~: Redis may drop the oldest entries beyond the limit, and  *)
(* may leave them for later.                                               *)
Trimmed(messages) ==
    {SubSeq(messages, i, Len(messages)) :
        i \in {j \in 1 .. Len(messages) :
                 j = 1 \/ Len(messages) - j + 1 >= HistoryLimit}}

Store(s) ==
    /\ lastId' = lastId + 1
    /\ stream' \in Trimmed(Append(stream,
                     [id |-> lastId + 1, of |-> send[s].of,
                      late |-> send[s].of # meeting]))

AddMessage(s) ==
    /\ send[s].pc = "xadd"
    /\ Store(s)
    /\ send' = [send EXCEPT ![s] = [@ EXCEPT !.pc = "emit", !.id = lastId + 1]]
    /\ UNCHANGED <<peers, status, read, leave, clientVars, historyVars,
                   boundVars>>

(* XADD fails.  It may have taken effect before its answer was lost, and   *)
(* then the client library may send it again; if not, the handler rejects. *)
AddFails(s) ==
    /\ send[s].pc = "xadd"
    /\ faults < MaxFaults
    /\ faults' = faults + 1
    /\ \/ /\ send' = [send EXCEPT ![s] = NotSending]
          /\ UNCHANGED <<stream, lastId, unsaid>>
       \/ /\ Store(s)
          /\ unsaid' = unsaid \cup {lastId + 1}
          /\ \/ send' = [send EXCEPT ![s] = NotSending]
             \/ UNCHANGED send
    /\ UNCHANGED <<peers, status, read, leave, clientVars, meeting, sending>>

SendToOthers(s) ==
    link' = [l \in Sockets \X Sockets |->
               IF l[1] = s /\ l[2] # s /\ status[l[2]] # "gone"
               THEN Append(link[l], send[s].id) ELSE link[l]]

(* server.to(roomId).emit: the sender's own instance delivers at once.     *)
Emit(s) ==
    /\ send[s].pc = "emit"
    /\ SendToOthers(s)
    /\ view' = IF status[s] = "in"
                 THEN [view EXCEPT ![s].got = @ \cup {send[s].id}] ELSE view
    /\ send' = [send EXCEPT ![s] = NotSending]
    /\ UNCHANGED <<storeVars, status, read, leave, historyVars, boundVars>>

(* A broadcast reaches the sockets that are in the channel when it comes.  *)
Deliver(s, t) ==
    /\ link[<<s, t>>] # <<>>
    /\ view' = IF status[t] = "in"
                 THEN [view EXCEPT ![t].got = @ \cup {Head(link[<<s, t>>])}]
                 ELSE view
    /\ link' = [link EXCEPT ![<<s, t>>] = Tail(@)]
    /\ UNCHANGED <<storeVars, status, handlerVars, historyVars, boundVars>>

-----------------------------------------------------------------------------
(***************************************************************************)
(* getChatHistory                                                          *)
(***************************************************************************)
Ask(t, after) ==
    /\ read[t].pc = "idle"
    /\ view[t].reads < MaxReads
    /\ after \in {0} \cup view[t].got
    /\ read' = [read EXCEPT ![t] = [NotReading EXCEPT !.pc = "range",
                                                      !.after = after]]
    /\ view' = [view EXCEPT ![t].reads = @ + 1]
    /\ UNCHANGED <<storeVars, status, send, leave, link, historyVars,
                   boundVars>>

(* Mutant: the history can be asked for once the peer is in Redis.         *)
StartReadEarly(t, after) == status[t] \in {"added", "in"} /\ Ask(t, after)

StartRead(t, after) == status[t] = "in" /\ Ask(t, after)

(* Mutant: the id asked after is in the range itself.                      *)
FromAfter(t) == read[t].after .. lastId

Wanted(t) == read[t].after + 1 .. lastId

(* XRANGE; the ids that are no longer in the stream are remembered.        *)
GetHistory(t) ==
    /\ read[t].pc = "range"
    /\ LET stored == {stream[i].id : i \in DOMAIN stream}
       IN  read' = [read EXCEPT ![t] =
                      [@ EXCEPT !.pc = "answer",
                                !.found = stored \cap Wanted(t),
                                !.void = Wanted(t) \ stored]]
    /\ UNCHANGED <<storeVars, status, send, leave, clientVars, historyVars,
                   boundVars>>

Answered(v, k) ==
    [v EXCEPT !.got = @ \cup k.found,
              !.void = @ \cup k.void,
              !.from = IF @ = Never \/ k.after < @ THEN k.after ELSE @]

AnswerRead(t) ==
    /\ read[t].pc = "answer"
    /\ view' = [view EXCEPT ![t] = Answered(@, read[t])]
    /\ read' = [read EXCEPT ![t] = NotReading]
    /\ UNCHANGED <<storeVars, status, send, leave, link, historyVars,
                   boundVars>>

-----------------------------------------------------------------------------
(***************************************************************************)
(* handleDisconnect and leave, up to the deletion of the history.          *)
(***************************************************************************)
LeaveGoesTo(s, pc) == leave' = [leave EXCEPT ![s].pc = pc]

(* Nothing reaches the client any more.                                    *)
LoseClient(s) ==
    /\ status' = [status EXCEPT ![s] = "gone"]
    /\ read' = [read EXCEPT ![s] = NotReading]
    /\ view' = [view EXCEPT ![s] = NothingGot]
    /\ link' = [l \in Sockets \X Sockets |->
                  IF l[2] = s THEN <<>> ELSE link[l]]

Disconnect(s) ==
    /\ status[s] = "in"
    /\ LoseClient(s)
    /\ LeaveGoesTo(s, "hdel")
    /\ UNCHANGED <<storeVars, send, historyVars, boundVars>>

RemovePeer(s) ==
    /\ leave[s].pc = "hdel"
    /\ peers' = peers \ {s}
    /\ LeaveGoesTo(s, "empty")
    /\ UNCHANGED <<stream, lastId, status, send, read, clientVars,
                   historyVars, boundVars>>

IsEmpty(s) ==
    /\ leave[s].pc = "empty"
    /\ LeaveGoesTo(s, IF peers = {} THEN "close" ELSE "done")
    /\ UNCHANGED <<storeVars, status, send, read, clientVars, historyVars,
                   boundVars>>

(* Mutant: what the closing script returns is not looked at.               *)
CloseRoomRegardless(s) ==
    /\ leave[s].pc = "close"
    /\ meeting' = IF peers = {} THEN meeting + 1 ELSE meeting
    /\ leave' = [leave EXCEPT ![s] = [pc |-> "delete", of |-> meeting]]
    /\ UNCHANGED <<storeVars, status, send, read, clientVars, unsaid,
                   boundVars>>

(* closeRoomIfEmpty; the history goes only with a room that was closed.    *)
CloseRoom(s) ==
    /\ leave[s].pc = "close"
    /\ IF peers = {}
         THEN /\ meeting' = meeting + 1
              /\ leave' = [leave EXCEPT ![s] =
                             [pc |-> "delete", of |-> meeting]]
         ELSE LeaveGoesTo(s, "done") /\ UNCHANGED meeting
    /\ UNCHANGED <<storeVars, status, send, read, clientVars, unsaid,
                   boundVars>>

(* Mutant: the history is left to the limit of the stream.                 *)
KeepHistory(s) ==
    /\ leave[s].pc = "delete"
    /\ LeaveGoesTo(s, "done")
    /\ UNCHANGED <<storeVars, status, send, read, clientVars, historyVars,
                   boundVars>>

(* DEL, in a call nobody awaits: others may have opened the room again.    *)
DeleteRoomHistory(s) ==
    /\ leave[s].pc = "delete"
    /\ stream' = <<>>
    /\ LeaveGoesTo(s, "done")
    /\ UNCHANGED <<peers, lastId, status, send, read, clientVars,
                   historyVars, boundVars>>

(* The leave stops at the await it is in.  With a room that was closed,    *)
(* the history stays.                                                      *)
Unfinished == {"hdel", "empty", "close", "delete"}

Abandoned(l) ==
    IF l.pc \in Unfinished
    THEN [l EXCEPT !.pc = IF @ = "delete" THEN "kept" ELSE "done"] ELSE l

(* A request of the leave fails.  One that took effect is the action that  *)
(* models it, followed by this one.                                        *)
LeaveFails(s) ==
    /\ leave[s].pc \in Unfinished
    /\ faults < MaxFaults
    /\ faults' = faults + 1
    /\ leave' = [leave EXCEPT ![s] = Abandoned(@)]
    /\ UNCHANGED <<storeVars, status, send, read, clientVars, historyVars,
                   sending>>

(* The instance of the socket dies: its handlers stop, and no leave begins.*)
Crash(s) ==
    /\ status[s] # "new"
    /\ faults < MaxFaults
    /\ faults' = faults + 1
    /\ LoseClient(s)
    /\ send' = [send EXCEPT ![s] = NotSending]
    /\ unsaid' = IF send[s].pc = "emit"
                  THEN unsaid \cup {send[s].id} ELSE unsaid
    /\ leave' = [leave EXCEPT ![s] = Abandoned(@)]
    /\ UNCHANGED <<storeVars, meeting, sending>>

-----------------------------------------------------------------------------
Next ==
    \/ \E s \in Sockets : \/ AddPeer(s)
                          \/ EnterChannel(s)
                          \/ Disconnect(s)
    \/ \E s \in Sockets : \/ StartSend(s)
                          \/ GetPeer(s)
                          \/ AddMessage(s)
                          \/ AddFails(s)
                          \/ Emit(s)
    \/ \E s, t \in Sockets : Deliver(s, t)
    \/ \E t \in Sockets : \/ \E after \in 0 .. lastId : StartRead(t, after)
                          \/ GetHistory(t)
                          \/ AnswerRead(t)
    \/ \E s \in Sockets : \/ RemovePeer(s)
                          \/ IsEmpty(s)
                          \/ CloseRoom(s)
                          \/ DeleteRoomHistory(s)
                          \/ LeaveFails(s)
                          \/ Crash(s)

Spec == Init /\ [][Next]_vars

-----------------------------------------------------------------------------
TypeOK ==
    /\ peers \in SUBSET Sockets
    /\ stream \in Seq(Messages)
    /\ lastId \in Nat
    /\ status \in [Sockets -> {"new", "added", "in", "gone"}]
    /\ send \in [Sockets -> [pc : {"idle", "peer", "xadd", "emit"},
                             of : Nat, id : Nat]]
    /\ read \in [Sockets -> [pc : {"idle", "range", "answer"},
                             after : Nat,
                             found : SUBSET Ids, void : SUBSET Ids]]
    /\ leave \in [Sockets -> [pc : {"none", "hdel", "empty", "close",
                                    "delete", "done", "kept"}, of : Nat]]
    /\ link \in [Sockets \X Sockets -> Seq(Ids)]
    /\ view \in [Sockets -> [got : SUBSET Ids, from : {Never} \cup Nat,
                             void : SUBSET Ids, reads : 0 .. MaxReads]]
    /\ meeting \in Nat
    /\ unsaid \in SUBSET Ids
    /\ sending \in 0 .. MaxMessages
    /\ faults \in 0 .. MaxFaults

-----------------------------------------------------------------------------
OnItsWay(n, t) ==
    \/ \E s \in Sockets : send[s].pc = "emit" /\ send[s].id = n
    \/ \E s \in Sockets : \E i \in DOMAIN link[<<s, t>>] : link[<<s, t>>][i] = n

(* History and broadcast leave no gap: a client in the channel that has    *)
(* read the history after some id has every later message, or will get it, *)
(* but for those that had been trimmed or deleted when the history was     *)
(* read, and for those that nobody broadcasts: the handler's XADD took     *)
(* effect and failed, or its instance died before the broadcast            *)
(* (chat.gateway.ts:38-45, 55, chat.service.ts:27-38).                     *)
NoMessageIsMissed ==
    \A t \in Sockets :
        status[t] = "in" /\ view[t].from # Never =>
            \A n \in view[t].from + 1 .. lastId :
                \/ n \in view[t].got \cup view[t].void \cup unsaid
                \/ OnItsWay(n, t)

(* The history of a meeting holds no message of an earlier one, unless the *)
(* leave that closed the earlier one is still to delete it or stopped      *)
(* before that, or the message was stored after its meeting had ended      *)
(* (signaling.service.ts:198-211).                                         *)
HistoryIsOfItsMeeting ==
    \A i \in DOMAIN stream :
        \/ stream[i].of = meeting
        \/ stream[i].late
        \/ \E s \in Sockets : /\ leave[s].pc \in {"delete", "kept"}
                              /\ leave[s].of = stream[i].of

EmptiedBehindMeeting ==
    stream # <<>> /\ stream' = <<>> =>
        \E s \in Sockets : /\ leave[s].pc = "delete" /\ leave'[s].pc = "done"
                           /\ leave[s].of < meeting

(* No message is deleted by a leave that did not end a meeting: a room     *)
(* that somebody joined between the check for emptiness and the closing    *)
(* keeps its chat (signaling.service.ts:193-202).                          *)
ChatOutlivesOtherLeaves == [][EmptiedBehindMeeting]_vars
=============================================================================
