----------------------------- MODULE ChatProofs -----------------------------
(***************************************************************************)
(* Theorems about the chat of a room, for any sockets, messages, readings  *)
(* and failures, and any limit of the history.                             *)
(***************************************************************************)
EXTENDS Chat, TLAPS

-----------------------------------------------------------------------------
(***************************************************************************)
(* Types.                                                                  *)
(***************************************************************************)

(* What XADD leaves is never empty, and holds only what was there before.  *)
LEMMA TrimmedStream ==
    ASSUME NEW S, NEW q \in Seq(S), q # <<>>, NEW u \in Trimmed(q)
    PROVE  /\ u \in Seq(S)
           /\ u # <<>>
           /\ \A i \in DOMAIN u : \E j \in DOMAIN q : u[i] = q[j]
<1>1. PICK i \in 1 .. Len(q) : u = SubSeq(q, i, Len(q))
  BY DEF Trimmed
<1>2. /\ Len(q) \in Nat
      /\ u \in Seq(S)
      /\ Len(u) = Len(q) - i + 1
      /\ \A k \in 1 .. Len(u) : u[k] = q[i + k - 1]
  BY <1>1
<1>3. \A k \in DOMAIN u : u[k] = q[i + k - 1] /\ i + k - 1 \in DOMAIN q
  BY <1>1, <1>2
<1> QED
  BY <1>2, <1>3

(* The message a sender appends.                                           *)
NewMessage(s) == [id |-> lastId + 1, of |-> send[s].of,
                  late |-> send[s].of # meeting]

(* XADD keeps old messages or drops them, and adds one.                    *)
LEMMA AddedMessage ==
    ASSUME TypeOK, NEW s \in Sockets, Store(s)
    PROVE  /\ NewMessage(s) \in Messages
           /\ stream' \in Seq(Messages)
           /\ stream' # <<>>
           /\ \A i \in DOMAIN stream' :
                 \/ stream'[i] = NewMessage(s)
                 \/ \E j \in DOMAIN stream : stream'[i] = stream[j]
<1> DEFINE q == Append(stream, NewMessage(s))
<1>1. /\ lastId + 1 \in Nat \ {0}
      /\ send[s].of \in Nat
  BY DEF TypeOK
<1>2. NewMessage(s) \in Messages
  BY <1>1 DEF NewMessage, Messages, Ids
<1>3. /\ q \in Seq(Messages)
      /\ q # <<>>
      /\ \A j \in DOMAIN q : \/ q[j] = NewMessage(s)
                             \/ j \in DOMAIN stream /\ q[j] = stream[j]
  <2>1. stream \in Seq(Messages)
    BY DEF TypeOK
  <2>2. /\ q \in Seq(Messages)
        /\ Len(q) = Len(stream) + 1
        /\ q[Len(stream) + 1] = NewMessage(s)
        /\ \A j \in 1 .. Len(stream) : q[j] = stream[j]
    BY <1>2, <2>1
  <2>3. /\ Len(stream) \in Nat
        /\ DOMAIN q = 1 .. Len(stream) + 1
        /\ DOMAIN stream = 1 .. Len(stream)
    BY <2>1, <2>2
  <2> HIDE DEF q
  <2> QED
    BY <2>2, <2>3
<1>4. stream' \in Trimmed(q)
  BY DEF Store, NewMessage
<1> HIDE DEF q
<1>5. /\ stream' \in Seq(Messages)
      /\ stream' # <<>>
      /\ \A i \in DOMAIN stream' : \E j \in DOMAIN q : stream'[i] = q[j]
  BY <1>3, <1>4, TrimmedStream
<1> QED
  BY <1>2, <1>3, <1>5

(* A broadcast puts ids on the links.                                      *)
LEMMA LinksStayTyped ==
    ASSUME TypeOK, NEW s \in Sockets, send[s].pc = "emit", SendToOthers(s),
           send[s].id \in Ids
    PROVE  link' \in [Sockets \X Sockets -> Seq(Ids)]
<1>1. \A l \in Sockets \X Sockets : /\ link[l] \in Seq(Ids)
                                    /\ Append(link[l], send[s].id) \in Seq(Ids)
  BY DEF TypeOK
<1> QED
  BY <1>1 DEF SendToOthers

(* A message that is broadcast has its id: it comes from XADD.             *)
SentIsStored ==
    \A s \in Sockets : send[s].pc = "emit" => send[s].id \in Ids

TypeInv == TypeOK /\ SentIsStored

LEMMA TypeInit == Init => TypeInv
BY ChatConstants DEF Init, TypeInv, TypeOK, SentIsStored, NotSending, NotReading,
   NotLeaving, NothingGot, Never

LeaveStates == {"none", "hdel", "empty", "close", "delete", "done", "kept"}
LeaveType == [pc : LeaveStates, of : Nat]
ViewType  == [got : SUBSET Ids, from : {Never} \cup Nat, void : SUBSET Ids,
              reads : 0 .. MaxReads]

(* A leave that goes on to another await.                                  *)
LEMMA LeaveMoves ==
    ASSUME TypeOK, NEW s \in Sockets, NEW pc,
           pc \in LeaveStates,
           LeaveGoesTo(s, pc)
    PROVE  /\ leave' \in [Sockets -> LeaveType]
           /\ leave'[s].pc = pc /\ leave'[s].of = leave[s].of
           /\ \A u \in Sockets : u # s => leave'[u] = leave[u]
<1>1. leave \in [Sockets -> LeaveType]
  BY DEF TypeOK, LeaveType, LeaveStates
<1>2. leave' = [leave EXCEPT ![s] = [leave[s] EXCEPT !.pc = pc]]
  BY DEF LeaveGoesTo
<1>3. /\ [leave[s] EXCEPT !.pc = pc] \in LeaveType
      /\ [leave[s] EXCEPT !.pc = pc].pc = pc
      /\ [leave[s] EXCEPT !.pc = pc].of = leave[s].of
  BY <1>1 DEF LeaveType
<1> HIDE DEF LeaveType
<1> QED
  BY <1>1, <1>2, <1>3

(* A leave that stops where it is.                                         *)
LEMMA LeaveStops ==
    ASSUME TypeOK, NEW s \in Sockets,
           leave' = [leave EXCEPT ![s] = Abandoned(@)]
    PROVE  /\ leave' \in [Sockets -> LeaveType]
           /\ leave'[s].of = leave[s].of
           /\ leave'[s].pc # "delete"
           /\ leave[s].pc = "none" => leave'[s].pc = "none"
           /\ leave[s].pc \in {"delete", "kept"} => leave'[s].pc = "kept"
           /\ \A u \in Sockets : u # s => leave'[u] = leave[u]
<1> DEFINE new == Abandoned(leave[s])
<1>1. leave \in [Sockets -> LeaveType]
  BY DEF TypeOK, LeaveType, LeaveStates
<1>2. leave' = [leave EXCEPT ![s] = new]
  OBVIOUS
<1>3. leave[s] \in LeaveType
  BY <1>1
<1>4. /\ new \in LeaveType
      /\ new.of = leave[s].of
      /\ new.pc # "delete"
      /\ leave[s].pc = "none" => new.pc = "none"
      /\ leave[s].pc \in {"delete", "kept"} => new.pc = "kept"
  BY <1>3 DEF Abandoned, Unfinished, LeaveType, LeaveStates
<1> HIDE DEF new, LeaveType
<1> QED
  BY <1>1, <1>2, <1>4

(* One more fault, within the bound.                                       *)
LEMMA FaultCounted ==
    ASSUME TypeOK, faults < MaxFaults, faults' = faults + 1
    PROVE  faults' \in 0 .. MaxFaults
<1>1. faults \in Nat
  BY ChatConstants DEF TypeOK
<1> QED
  BY <1>1, ChatConstants

(* A client that gets messages.                                            *)
LEMMA ViewGets ==
    ASSUME TypeOK, NEW t \in Sockets, NEW G \in SUBSET Ids,
           view' = [view EXCEPT ![t].got = @ \cup G]
    PROVE  /\ view' \in [Sockets -> ViewType]
           /\ G \subseteq view'[t].got
           /\ \A u \in Sockets : /\ view[u].got \subseteq view'[u].got
                                 /\ view'[u].from = view[u].from
                                 /\ view'[u].void = view[u].void
<1> DEFINE new == [view[t] EXCEPT !.got = view[t].got \cup G]
<1>1. view \in [Sockets -> ViewType]
  BY DEF TypeOK, ViewType
<1>2. view' = [view EXCEPT ![t] = new]
  OBVIOUS
<1>3. /\ new \in ViewType
      /\ G \subseteq new.got /\ view[t].got \subseteq new.got
      /\ new.from = view[t].from /\ new.void = view[t].void
  BY <1>1 DEF ViewType
<1> HIDE DEF new, ViewType
<1> QED
  BY <1>1, <1>2, <1>3

(* A client that asks for the history.                                     *)
LEMMA ViewAsks ==
    ASSUME TypeOK, NEW t \in Sockets, view[t].reads < MaxReads,
           view' = [view EXCEPT ![t].reads = @ + 1]
    PROVE  /\ view' \in [Sockets -> ViewType]
           /\ \A u \in Sockets : /\ view'[u].got = view[u].got
                                 /\ view'[u].from = view[u].from
                                 /\ view'[u].void = view[u].void
<1> DEFINE new == [view[t] EXCEPT !.reads = view[t].reads + 1]
<1>1. view \in [Sockets -> ViewType]
  BY DEF TypeOK, ViewType
<1>2. view' = [view EXCEPT ![t] = new]
  OBVIOUS
<1>3. view[t].reads + 1 \in 0 .. MaxReads
  <2>1. view[t].reads \in 0 .. MaxReads
    BY <1>1 DEF ViewType
  <2> QED
    BY <2>1, ChatConstants
<1>4. /\ new \in ViewType
      /\ new.got = view[t].got
      /\ new.from = view[t].from /\ new.void = view[t].void
  BY <1>1, <1>3 DEF ViewType
<1> HIDE DEF new, ViewType
<1> QED
  BY <1>1, <1>2, <1>4

(* A client that is lost keeps nothing, and nothing is on its way to it.   *)
LEMMA LostIsTyped ==
    ASSUME TypeOK, NEW s \in Sockets, LoseClient(s)
    PROVE  /\ status' \in [Sockets -> {"new", "added", "in", "gone"}]
           /\ read' \in [Sockets -> [pc : {"idle", "range", "answer"}, after : Nat,
                                     found : SUBSET Ids, void : SUBSET Ids]]
           /\ view' \in [Sockets -> ViewType]
           /\ link' \in [Sockets \X Sockets -> Seq(Ids)]
<1>1. link' \in [Sockets \X Sockets -> Seq(Ids)]
  BY DEF LoseClient, TypeOK
<1>2. view' \in [Sockets -> ViewType]
  BY ChatConstants DEF LoseClient, TypeOK, NothingGot, ViewType
<1>3. read' \in [Sockets -> [pc : {"idle", "range", "answer"}, after : Nat,
                            found : SUBSET Ids, void : SUBSET Ids]]
  BY DEF LoseClient, TypeOK, NotReading
<1> QED
  BY <1>1, <1>2, <1>3 DEF LoseClient, TypeOK

LEMMA TypeJoin ==
    ASSUME TypeInv, NEW s \in Sockets,
           AddPeer(s) \/ EnterChannel(s) \/ Disconnect(s) \/ Crash(s)
    PROVE  TypeInv'
<1>1. CASE AddPeer(s)
  BY <1>1 DEF TypeInv, TypeOK, SentIsStored, AddPeer, handlerVars, clientVars,
     historyVars, boundVars
<1>2. CASE EnterChannel(s)
  BY <1>2 DEF TypeInv, TypeOK, SentIsStored, EnterChannel, storeVars, handlerVars,
     clientVars, historyVars, boundVars
<1>3. CASE Disconnect(s)
  <2>1. leave' \in [Sockets -> LeaveType]
    BY <1>3, LeaveMoves DEF Disconnect, TypeInv, LeaveStates
  <2>2. LoseClient(s)
    BY <1>3 DEF Disconnect
  <2> QED
    BY <1>3, <2>1, <2>2, LostIsTyped DEF TypeInv, TypeOK, SentIsStored, Disconnect,
       storeVars, historyVars, boundVars, LeaveType, LeaveStates, ViewType
<1>4. CASE Crash(s)
  <2>1. leave' \in [Sockets -> LeaveType]
    BY <1>4, LeaveStops DEF Crash, TypeInv
  <2>2. faults' \in 0 .. MaxFaults
    BY <1>4, FaultCounted DEF Crash, TypeInv
  <2>3. unsaid' \in SUBSET Ids
    BY <1>4 DEF Crash, TypeInv, TypeOK, SentIsStored
  <2>4. /\ send' \in [Sockets -> [pc : {"idle", "peer", "xadd", "emit"},
                                  of : Nat, id : Nat]]
        /\ SentIsStored'
    BY <1>4 DEF Crash, TypeInv, TypeOK, SentIsStored, NotSending
  <2>5. LoseClient(s)
    BY <1>4 DEF Crash
  <2> QED
    BY <1>4, <2>1, <2>2, <2>3, <2>4, <2>5, LostIsTyped DEF TypeInv, TypeOK, Crash,
       storeVars, LeaveType, LeaveStates, ViewType
<1> QED
  BY <1>1, <1>2, <1>3, <1>4

LEMMA TypeSend ==
    ASSUME TypeInv, NEW s \in Sockets,
           StartSend(s) \/ GetPeer(s) \/ AddMessage(s) \/ AddFails(s) \/ Emit(s)
    PROVE  TypeInv'
<1> DEFINE SendType == [pc : {"idle", "peer", "xadd", "emit"}, of : Nat, id : Nat]
<1>1. CASE StartSend(s)
  <2>1. sending' \in 0 .. MaxMessages
    <3>1. sending \in Nat /\ sending < MaxMessages /\ sending' = sending + 1
      BY <1>1, ChatConstants DEF StartSend, TypeInv, TypeOK
    <3> QED
      BY <3>1, ChatConstants
  <2>2. send' \in [Sockets -> SendType]
    <3>1. send \in [Sockets -> SendType]
      BY DEF TypeInv, TypeOK
    <3>2. send' = [send EXCEPT ![s].pc = "peer"]
      BY <1>1 DEF StartSend
    <3> QED
      BY <3>1, <3>2
  <2>3. SentIsStored'
    BY <1>1 DEF StartSend, TypeInv, TypeOK, SentIsStored
  <2> QED
    BY <1>1, <2>1, <2>2, <2>3 DEF TypeInv, TypeOK, StartSend, storeVars,
       clientVars, historyVars
<1>2. CASE GetPeer(s)
  <2>1. send' \in [Sockets -> SendType]
    BY <1>2 DEF TypeInv, TypeOK, GetPeer, NotSending
  <2>2. SentIsStored'
    BY <1>2 DEF TypeInv, TypeOK, SentIsStored, GetPeer, NotSending
  <2> QED
    BY <1>2, <2>1, <2>2 DEF TypeInv, TypeOK, GetPeer, storeVars,
       clientVars, historyVars, boundVars
<1>3. CASE AddMessage(s)
  <2>1. stream' \in Seq(Messages)
    BY <1>3, AddedMessage DEF AddMessage, TypeInv
  <2>2. send' \in [Sockets -> SendType] /\ lastId' \in Nat
    <3>1. lastId + 1 \in Nat /\ lastId' = lastId + 1
      BY <1>3 DEF AddMessage, Store, TypeInv, TypeOK
    <3>2. send \in [Sockets -> SendType]
      BY DEF TypeInv, TypeOK
    <3>3. send' = [send EXCEPT ![s] = [@ EXCEPT !.pc = "emit",
                                                !.id = lastId + 1]]
      BY <1>3 DEF AddMessage
    <3>4. [send[s] EXCEPT !.pc = "emit", !.id = lastId + 1] \in SendType
      BY <3>1, <3>2
    <3> QED
      BY <3>1, <3>2, <3>3, <3>4
  <2>3. SentIsStored'
    <3>1. /\ send'[s].id \in Ids
          /\ \A u \in Sockets : u # s => send'[u] = send[u]
      BY <1>3 DEF TypeInv, TypeOK, AddMessage, Ids
    <3> QED
      BY <3>1 DEF TypeInv, SentIsStored
  <2> QED
    BY <1>3, <2>1, <2>2, <2>3 DEF TypeInv, TypeOK, AddMessage, clientVars,
       historyVars, boundVars
<1>4. CASE Emit(s)
  <2>1. send[s].id \in Ids
    BY <1>4 DEF Emit, TypeInv, SentIsStored
  <2>2. link' \in [Sockets \X Sockets -> Seq(Ids)]
    BY <1>4, <2>1, LinksStayTyped DEF Emit, TypeInv
  <2>3. view' \in [Sockets -> ViewType]
    <3>1. CASE status[s] = "in"
      <4>1. /\ {send[s].id} \in SUBSET Ids
            /\ view' = [view EXCEPT ![s].got = @ \cup {send[s].id}]
        BY <1>4, <2>1, <3>1 DEF Emit
      <4> QED
        BY <4>1, ViewGets DEF TypeInv
    <3>2. CASE status[s] # "in"
      BY <1>4, <3>2 DEF Emit, TypeInv, TypeOK, ViewType
    <3> QED
      BY <3>1, <3>2
  <2>4. send' \in [Sockets -> SendType] /\ SentIsStored'
    BY <1>4 DEF Emit, TypeInv, TypeOK, SentIsStored, NotSending
  <2> QED
    BY <1>4, <2>2, <2>3, <2>4 DEF TypeInv, TypeOK, Emit, storeVars, historyVars,
       boundVars, ViewType
<1>5. CASE AddFails(s)
  <2>1. faults' \in 0 .. MaxFaults
    BY <1>5, FaultCounted DEF AddFails, TypeInv
  <2>2. send' \in [Sockets -> SendType] /\ SentIsStored'
    <3>1. send \in [Sockets -> SendType] /\ SentIsStored
      BY DEF TypeInv, TypeOK
    <3>2. send' = send \/ send' = [send EXCEPT ![s] = NotSending]
      BY <1>5 DEF AddFails
    <3>3. NotSending \in SendType /\ NotSending.pc = "idle"
      BY DEF NotSending
    <3> HIDE DEF SendType
    <3>4. CASE send' = send
      BY <3>1, <3>4 DEF SentIsStored
    <3>5. CASE send' = [send EXCEPT ![s] = NotSending]
      BY <3>1, <3>3, <3>5 DEF SentIsStored
    <3> QED
      BY <3>2, <3>4, <3>5
  <2>3. lastId \in Nat /\ lastId + 1 \in Ids
    BY DEF TypeInv, TypeOK, Ids
  <2>4. stream' \in Seq(Messages) /\ lastId' \in Nat /\ unsaid' \in SUBSET Ids
    <3>1. CASE Store(s) /\ unsaid' = unsaid \cup {lastId + 1}
      <4>1. stream' \in Seq(Messages)
        BY <3>1, AddedMessage DEF TypeInv
      <4> QED
        BY <2>3, <3>1, <4>1 DEF Store, TypeInv, TypeOK
    <3>2. CASE UNCHANGED <<stream, lastId, unsaid>>
      BY <3>2 DEF TypeInv, TypeOK
    <3> QED
      BY <1>5, <3>1, <3>2 DEF AddFails
  <2> QED
    BY <1>5, <2>1, <2>2, <2>4 DEF AddFails, TypeInv, TypeOK, clientVars
<1> QED
  BY <1>1, <1>2, <1>3, <1>4, <1>5

(* What comes from a link is an id.                                        *)
LEMMA DeliveredId ==
    ASSUME TypeInv, NEW s \in Sockets, NEW t \in Sockets, Deliver(s, t)
    PROVE  Head(link[<<s, t>>]) \in Ids /\ Tail(link[<<s, t>>]) \in Seq(Ids)
<1>1. link[<<s, t>>] \in Seq(Ids) /\ link[<<s, t>>] # <<>>
  BY DEF Deliver, TypeInv, TypeOK
<1> QED
  BY <1>1

LEMMA TypeDeliver ==
    ASSUME TypeInv, NEW s \in Sockets, NEW t \in Sockets, Deliver(s, t)
    PROVE  TypeInv'
<1>2. Head(link[<<s, t>>]) \in Ids /\ Tail(link[<<s, t>>]) \in Seq(Ids)
  BY DeliveredId
<1>3. link' \in [Sockets \X Sockets -> Seq(Ids)]
  BY <1>2 DEF Deliver, TypeInv, TypeOK
<1>4. view' \in [Sockets -> ViewType]
  <2>1. CASE status[t] = "in"
    <3>1. /\ {Head(link[<<s, t>>])} \in SUBSET Ids
          /\ view' = [view EXCEPT ![t].got = @ \cup {Head(link[<<s, t>>])}]
      BY <1>2, <2>1 DEF Deliver
    <3> QED
      BY <3>1, ViewGets DEF TypeInv
  <2>2. CASE status[t] # "in"
    BY <2>2 DEF Deliver, TypeInv, TypeOK, ViewType
  <2> QED
    BY <2>1, <2>2
<1> QED
  BY <1>3, <1>4 DEF TypeInv, TypeOK, SentIsStored, Deliver, storeVars, handlerVars,
     historyVars, boundVars, ViewType

LEMMA TypeRead ==
    ASSUME TypeInv, NEW t \in Sockets,
           \/ \E after \in 0 .. lastId : StartRead(t, after)
           \/ GetHistory(t)
           \/ AnswerRead(t)
    PROVE  TypeInv'
<1> DEFINE ReadType == [pc : {"idle", "range", "answer"}, after : Nat,
                        found : SUBSET Ids, void : SUBSET Ids]
<1>1. ASSUME NEW after \in 0 .. lastId, StartRead(t, after) PROVE TypeInv'
  <2>1. after \in Nat
    BY DEF TypeInv, TypeOK
  <2>2. read' \in [Sockets -> ReadType]
    BY <1>1, <2>1 DEF StartRead, Ask, NotReading, TypeInv, TypeOK
  <2>3. view' \in [Sockets -> ViewType]
    BY <1>1, ViewAsks DEF StartRead, Ask, TypeInv
  <2> QED
    BY <1>1, <2>2, <2>3 DEF StartRead, Ask, TypeInv, TypeOK, SentIsStored, storeVars,
       historyVars, boundVars, ViewType
<1>2. CASE GetHistory(t)
  <2>1. Wanted(t) \subseteq Ids
    BY DEF Wanted, Ids, TypeInv, TypeOK
  <2>2. read' \in [Sockets -> ReadType]
    <3> DEFINE stored == {stream[i].id : i \in DOMAIN stream}
    <3>1. /\ stored \cap Wanted(t) \in SUBSET Ids
          /\ Wanted(t) \ stored \in SUBSET Ids
      BY <2>1
    <3>2. read' = [read EXCEPT ![t] =
                     [@ EXCEPT !.pc = "answer", !.found = stored \cap Wanted(t),
                               !.void = Wanted(t) \ stored]]
      BY <1>2 DEF GetHistory
    <3>3. read \in [Sockets -> ReadType]
      BY DEF TypeInv, TypeOK
    <3> HIDE DEF stored
    <3>4. [read[t] EXCEPT !.pc = "answer", !.found = stored \cap Wanted(t),
                          !.void = Wanted(t) \ stored] \in ReadType
      BY <3>1, <3>3
    <3> QED
      BY <3>2, <3>3, <3>4
  <2> QED
    BY <1>2, <2>2 DEF GetHistory, TypeInv, TypeOK, SentIsStored, storeVars, clientVars,
       historyVars, boundVars
<1>3. CASE AnswerRead(t)
  <2>1. read[t].found \in SUBSET Ids /\ read[t].void \in SUBSET Ids
        /\ read[t].after \in Nat
    BY DEF TypeInv, TypeOK
  <2>2. read' \in [Sockets -> ReadType]
    BY <1>3 DEF AnswerRead, NotReading, TypeInv, TypeOK
  <2>3. view' \in [Sockets -> ViewType]
    <3>1. view \in [Sockets -> ViewType]
      BY DEF TypeInv, TypeOK, ViewType
    <3>2. view[t] \in ViewType /\ read[t] \in ReadType
      BY <3>1 DEF TypeInv, TypeOK
    <3>3. Answered(view[t], read[t]) \in ViewType
      BY <3>2 DEF Answered, ViewType
    <3> QED
      BY <1>3, <3>1, <3>3 DEF AnswerRead
  <2> QED
    BY <1>3, <2>2, <2>3 DEF AnswerRead, TypeInv, TypeOK, SentIsStored, storeVars,
       historyVars, boundVars, ViewType
<1> QED
  BY <1>1, <1>2, <1>3

LEMMA TypeLeave ==
    ASSUME TypeInv, NEW s \in Sockets,
           \/ RemovePeer(s) \/ IsEmpty(s) \/ CloseRoom(s)
           \/ DeleteRoomHistory(s) \/ LeaveFails(s)
    PROVE  TypeInv'
<1>1. CASE RemovePeer(s)
  <2>1. leave' \in [Sockets -> LeaveType]
    BY <1>1, LeaveMoves DEF RemovePeer, TypeInv, LeaveStates
  <2> QED
    BY <1>1, <2>1 DEF TypeInv, TypeOK, SentIsStored, RemovePeer, clientVars,
       historyVars, boundVars, LeaveType, LeaveStates
<1>2. CASE IsEmpty(s)
  <2>1. leave' \in [Sockets -> LeaveType]
    BY <1>2, LeaveMoves DEF IsEmpty, TypeInv, LeaveStates
  <2> QED
    BY <1>2, <2>1 DEF TypeInv, TypeOK, SentIsStored, IsEmpty, storeVars, clientVars,
       historyVars, boundVars, LeaveType, LeaveStates
<1>3. CASE CloseRoom(s)
  <2>1. meeting \in Nat /\ meeting + 1 \in Nat
    BY DEF TypeInv, TypeOK
  <2>2. meeting' \in Nat
    BY <1>3, <2>1 DEF CloseRoom
  <2>3. leave' \in [Sockets -> LeaveType]
    <3>1. leave \in [Sockets -> LeaveType]
      BY DEF TypeInv, TypeOK, LeaveType, LeaveStates
    <3>2. CASE peers = {}
      BY <1>3, <2>1, <3>1, <3>2 DEF CloseRoom, LeaveType, LeaveStates
    <3>3. CASE peers # {}
      BY <1>3, <3>3, LeaveMoves DEF CloseRoom, TypeInv, LeaveStates
    <3> QED
      BY <3>2, <3>3
  <2> QED
    BY <1>3, <2>2, <2>3 DEF TypeInv, TypeOK, SentIsStored, CloseRoom, storeVars,
       clientVars, historyVars, boundVars, LeaveType, LeaveStates
<1>4. CASE DeleteRoomHistory(s)
  <2>1. stream' \in Seq(Messages)
    BY <1>4 DEF DeleteRoomHistory
  <2>2. leave' \in [Sockets -> LeaveType]
    BY <1>4, LeaveMoves DEF DeleteRoomHistory, TypeInv, LeaveStates
  <2> QED
    BY <1>4, <2>1, <2>2 DEF TypeInv, TypeOK, SentIsStored, DeleteRoomHistory,
       clientVars, historyVars, boundVars, LeaveType, LeaveStates
<1>5. CASE LeaveFails(s)
  <2>1. faults' \in 0 .. MaxFaults
    BY <1>5, FaultCounted DEF LeaveFails, TypeInv
  <2>2. leave' \in [Sockets -> LeaveType]
    BY <1>5, LeaveStops DEF LeaveFails, TypeInv
  <2> QED
    BY <1>5, <2>1, <2>2 DEF TypeInv, TypeOK, SentIsStored, LeaveFails, storeVars,
       clientVars, historyVars, LeaveType, LeaveStates
<1> QED
  BY <1>1, <1>2, <1>3, <1>4, <1>5

LEMMA TypeStep == TypeInv /\ [Next]_vars => TypeInv'
<1> SUFFICES ASSUME TypeInv, [Next]_vars PROVE TypeInv'
  OBVIOUS
<1>1. CASE UNCHANGED vars
  BY <1>1 DEF TypeInv, TypeOK, SentIsStored, vars, storeVars, handlerVars, clientVars,
     historyVars, boundVars
<1>2. CASE Next
  BY <1>2, TypeJoin, TypeSend, TypeDeliver, TypeRead, TypeLeave DEF Next
<1> QED
  BY <1>1, <1>2

(* Every reachable state of the handlers, the stream and the clients has   *)
(* its type.                                                               *)
THEOREM TypeCorrect == Spec => []TypeOK
<1>1. TypeInv => TypeOK
  BY DEF TypeInv
<1> QED
  BY <1>1, TypeInit, TypeStep, PTL DEF Spec

-----------------------------------------------------------------------------
(***************************************************************************)
(* The history and its meeting.                                            *)
(***************************************************************************)

(* Only XADD and DEL change the stream.                                    *)
LEMMA StreamFrame ==
    ASSUME TypeInv, [Next]_vars
    PROVE  \/ UNCHANGED stream
           \/ \E s \in Sockets : /\ Store(s)
                                 /\ UNCHANGED <<leave, meeting>>
           \/ \E s \in Sockets : DeleteRoomHistory(s)
BY DEF Next, vars, storeVars, handlerVars, clientVars, boundVars, AddPeer,
   EnterChannel, Disconnect, StartSend, GetPeer, AddMessage, AddFails, Emit,
   Deliver, StartRead, Ask, GetHistory, AnswerRead, RemovePeer, IsEmpty, CloseRoom,
   LeaveFails, Crash, historyVars

(* A socket leaves once, and nothing is read for one that is not there.    *)
SocketInv ==
    \A t \in Sockets :
        /\ status[t] # "gone" => leave[t].pc = "none"
        /\ status[t] # "in" => view[t].from = Never /\ read[t].pc = "idle"

LEMMA SocketInit == Init => SocketInv
BY DEF Init, SocketInv, NothingGot, NotReading, NotLeaving

LEMMA SocketStep == TypeInv /\ SocketInv /\ [Next]_vars => SocketInv'
<1> SUFFICES ASSUME TypeInv, SocketInv, [Next]_vars PROVE SocketInv'
  OBVIOUS
<1>1. CASE UNCHANGED <<status, leave, view, read>>
  BY <1>1 DEF SocketInv
<1>2. ASSUME NEW s \in Sockets,
             AddPeer(s) \/ EnterChannel(s) \/ Disconnect(s)
      PROVE  SocketInv'
  BY <1>2 DEF SocketInv, TypeInv, TypeOK, AddPeer, EnterChannel, Disconnect,
     LoseClient, LeaveGoesTo, NothingGot, NotReading, handlerVars, clientVars
<1>3. ASSUME NEW s \in Sockets,
             \/ StartSend(s) \/ GetPeer(s) \/ AddMessage(s) \/ AddFails(s)
             \/ Emit(s)
      PROVE  SocketInv'
  <2>1. UNCHANGED <<status, leave, read>>
    BY <1>3 DEF StartSend, GetPeer, AddMessage, AddFails, Emit
  <2>2. CASE Emit(s)
    <3>1. \A u \in Sockets : view'[u].from = view[u].from
      <4>1. send[s].id \in Ids
        BY <2>2 DEF Emit, TypeInv, SentIsStored
      <4> QED
        BY <2>2, <4>1, ViewGets DEF Emit, TypeInv
    <3> QED
      BY <2>1, <3>1 DEF SocketInv
  <2>3. CASE UNCHANGED view
    BY <2>1, <2>3 DEF SocketInv
  <2> QED
    BY <1>3, <2>2, <2>3 DEF StartSend, GetPeer, AddMessage, AddFails, clientVars
<1>4. ASSUME NEW s \in Sockets, NEW t \in Sockets, Deliver(s, t) PROVE SocketInv'
  <2>1. \A u \in Sockets : view'[u].from = view[u].from
    BY <1>4, DeliveredId, ViewGets DEF Deliver, TypeInv
  <2> QED
    BY <1>4, <2>1 DEF SocketInv, Deliver, handlerVars
<1>5. ASSUME NEW t \in Sockets,
             \/ \E after \in 0 .. lastId : StartRead(t, after)
             \/ GetHistory(t) \/ AnswerRead(t)
      PROVE  SocketInv'
  <2>1. status[t] = "in" /\ UNCHANGED <<status, leave>>
    BY <1>5 DEF SocketInv, StartRead, Ask, GetHistory, AnswerRead
  <2>2. \A u \in Sockets : u # t => view'[u] = view[u] /\ read'[u] = read[u]
    BY <1>5 DEF StartRead, Ask, GetHistory, AnswerRead, TypeInv, TypeOK, clientVars
  <2> QED
    BY <2>1, <2>2 DEF SocketInv
<1>6. ASSUME NEW s \in Sockets,
             \/ RemovePeer(s) \/ IsEmpty(s) \/ CloseRoom(s)
             \/ DeleteRoomHistory(s) \/ LeaveFails(s)
      PROVE  SocketInv'
  <2>1. leave[s].pc # "none" /\ UNCHANGED <<status, view, read>>
    BY <1>6 DEF RemovePeer, IsEmpty, CloseRoom, DeleteRoomHistory, LeaveFails,
       Unfinished, clientVars
  <2>2. \A u \in Sockets : u # s => leave'[u] = leave[u]
    BY <1>6 DEF RemovePeer, IsEmpty, CloseRoom, DeleteRoomHistory, LeaveFails,
       LeaveGoesTo, TypeInv, TypeOK
  <2> QED
    BY <2>1, <2>2 DEF SocketInv
<1>7. ASSUME NEW s \in Sockets, Crash(s) PROVE SocketInv'
  <2>1. /\ status'[s] = "gone"
        /\ \A u \in Sockets : u # s => /\ leave'[u] = leave[u]
                                      /\ status'[u] = status[u]
                                      /\ view'[u] = view[u] /\ read'[u] = read[u]
    BY <1>7 DEF Crash, LoseClient, TypeInv, TypeOK
  <2>2. view'[s].from = Never /\ read'[s].pc = "idle"
    BY <1>7 DEF Crash, LoseClient, NothingGot, NotReading, TypeInv, TypeOK
  <2> QED
    BY <2>1, <2>2 DEF SocketInv
<1> QED
  BY <1>1, <1>2, <1>3, <1>4, <1>5, <1>6, <1>7 DEF Next, vars, handlerVars, clientVars

(* A deletion under way belongs to a meeting that has ended.               *)
DeletionFollowsMeeting ==
    \A s \in Sockets : leave[s].pc = "delete" => leave[s].of < meeting

(* Leaves and meetings change in the leave handlers alone.                 *)
LEMMA LeaveFrame ==
    ASSUME TypeInv, [Next]_vars
    PROVE  \/ UNCHANGED <<leave, meeting>>
           \/ \E s \in Sockets : \/ Disconnect(s) \/ RemovePeer(s)
                                 \/ IsEmpty(s) \/ CloseRoom(s)
                                 \/ DeleteRoomHistory(s) \/ LeaveFails(s)
                                 \/ Crash(s)
BY DEF Next, vars, storeVars, handlerVars, clientVars, historyVars, AddPeer,
   EnterChannel, StartSend, GetPeer, AddMessage, AddFails, Emit, Deliver, StartRead,
   Ask, GetHistory, AnswerRead

LEMMA DeletionStep ==
    ASSUME TypeInv, DeletionFollowsMeeting, [Next]_vars
    PROVE  DeletionFollowsMeeting'
<1>1. meeting \in Nat /\ \A s \in Sockets : leave[s].of \in Nat
  BY DEF TypeInv, TypeOK
<1>2. leave \in [Sockets -> LeaveType]
  BY DEF TypeInv, TypeOK, LeaveType, LeaveStates
<1>3. CASE UNCHANGED <<leave, meeting>>
  BY <1>3 DEF DeletionFollowsMeeting
<1>4. ASSUME NEW s \in Sockets,
             \/ Disconnect(s) \/ RemovePeer(s) \/ IsEmpty(s)
             \/ DeleteRoomHistory(s)
      PROVE  DeletionFollowsMeeting'
  <2>1. /\ meeting' = meeting
        /\ \E pc \in {"hdel", "empty", "close", "done"} :
              leave' = [leave EXCEPT ![s].pc = pc]
    BY <1>4 DEF Disconnect, RemovePeer, IsEmpty, DeleteRoomHistory, LeaveGoesTo,
       historyVars
  <2> QED
    BY <1>2, <2>1 DEF DeletionFollowsMeeting, LeaveType
<1>5. ASSUME NEW s \in Sockets, CloseRoom(s) PROVE DeletionFollowsMeeting'
  <2>1. CASE peers = {}
    BY <1>1, <1>2, <1>5, <2>1 DEF CloseRoom, DeletionFollowsMeeting, LeaveType
  <2>2. CASE peers # {}
    BY <1>2, <1>5, <2>2 DEF CloseRoom, LeaveGoesTo, DeletionFollowsMeeting,
       LeaveType
  <2> QED
    BY <2>1, <2>2
<1>6. ASSUME NEW s \in Sockets, LeaveFails(s) \/ Crash(s)
      PROVE  DeletionFollowsMeeting'
  <2>1. meeting' = meeting /\ leave' = [leave EXCEPT ![s] = Abandoned(@)]
    BY <1>6 DEF LeaveFails, Crash, historyVars
  <2>2. /\ leave'[s].pc # "delete"
        /\ \A u \in Sockets : u # s => leave'[u] = leave[u]
    BY <2>1, LeaveStops DEF TypeInv
  <2> QED
    BY <2>1, <2>2 DEF DeletionFollowsMeeting
<1> QED
  BY <1>3, <1>4, <1>5, <1>6, LeaveFrame

(* A leave that closed the meeting n, and has not deleted its history.     *)
Holds(s, n) == leave[s].pc \in {"delete", "kept"} /\ leave[s].of = n

(* What is in the stream after a step was there before or is the message   *)
(* the step adds.                                                          *)
LEMMA HistoryStep ==
    ASSUME TypeInv, SocketInv, HistoryIsOfItsMeeting, [Next]_vars
    PROVE  HistoryIsOfItsMeeting'
<1> DEFINE Excused(m) == \/ m.of = meeting
                         \/ m.late
                         \/ \E s \in Sockets : Holds(s, m.of)
           ExcusedThen(m) == \/ m.of = meeting'
                             \/ m.late
                             \/ \E s \in Sockets :
                                   /\ leave'[s].pc \in {"delete", "kept"}
                                   /\ leave'[s].of = m.of
<1>1. \A i \in DOMAIN stream : stream[i] \in Messages /\ Excused(stream[i])
  BY DEF HistoryIsOfItsMeeting, Holds, TypeInv, TypeOK
<1>2. HistoryIsOfItsMeeting' <=> \A i \in DOMAIN stream' : ExcusedThen(stream'[i])
  BY DEF HistoryIsOfItsMeeting, Holds
<1>3. /\ meeting \in Nat
      /\ leave \in [Sockets -> LeaveType]
  BY DEF TypeInv, TypeOK, LeaveType, LeaveStates
<1>4. ASSUME NEW s \in Sockets, Store(s), UNCHANGED <<leave, meeting>>
      PROVE  HistoryIsOfItsMeeting'
  <2>1. \A m : ExcusedThen(m) <=> Excused(m)
    BY <1>4 DEF Holds
  <2>2. Excused(NewMessage(s))
    BY DEF NewMessage
  <2>3. \A i \in DOMAIN stream' : \/ stream'[i] = NewMessage(s)
                                  \/ \E j \in DOMAIN stream : stream'[i] = stream[j]
    BY <1>4, AddedMessage DEF TypeInv
  <2> HIDE DEF Excused, ExcusedThen
  <2> QED
    BY <1>1, <1>2, <2>1, <2>2, <2>3
<1>5. ASSUME NEW s \in Sockets, DeleteRoomHistory(s) PROVE HistoryIsOfItsMeeting'
  <2>1. stream' = <<>>
    BY <1>5 DEF DeleteRoomHistory
  <2> QED
    BY <2>1 DEF HistoryIsOfItsMeeting
<1>6. CASE UNCHANGED stream /\ UNCHANGED <<leave, meeting>>
  BY <1>6 DEF HistoryIsOfItsMeeting
<1>7. ASSUME NEW s \in Sockets, UNCHANGED stream,
             \/ Disconnect(s) \/ RemovePeer(s) \/ IsEmpty(s) \/ CloseRoom(s)
             \/ LeaveFails(s) \/ Crash(s)
      PROVE  HistoryIsOfItsMeeting'
  <2>1. ASSUME Disconnect(s) \/ RemovePeer(s) \/ IsEmpty(s)
        PROVE  /\ meeting' = meeting
               /\ \A u \in Sockets, n \in Nat : Holds(u, n) => Holds(u, n)'
    <3>1. /\ leave[s].pc \notin {"delete", "kept"}
          /\ meeting' = meeting
          /\ \E pc \in {"hdel", "empty", "close", "done"} :
                leave' = [leave EXCEPT ![s].pc = pc]
      BY <2>1, <1>3 DEF Disconnect, RemovePeer, IsEmpty, LeaveGoesTo, historyVars,
         SocketInv
    <3> QED
      BY <1>3, <3>1 DEF Holds
  <2>2. ASSUME CloseRoom(s)
        PROVE  /\ \A u \in Sockets, n \in Nat : Holds(u, n) => Holds(u, n)'
               /\ \/ meeting' = meeting
                  \/ leave'[s].pc = "delete" /\ leave'[s].of = meeting
    <3>1. leave[s].pc = "close"
      BY <2>2 DEF CloseRoom
    <3>2. CASE peers = {}
      <4>1. leave' = [leave EXCEPT ![s] = [pc |-> "delete", of |-> meeting]]
        BY <2>2, <3>2 DEF CloseRoom
      <4> QED
        BY <1>3, <3>1, <4>1 DEF Holds
    <3>3. CASE peers # {}
      BY <1>3, <2>2, <3>1, <3>3 DEF CloseRoom, LeaveGoesTo, Holds
    <3> QED
      BY <3>2, <3>3
  <2>3. ASSUME LeaveFails(s) \/ Crash(s)
        PROVE  /\ meeting' = meeting
               /\ \A u \in Sockets, n \in Nat : Holds(u, n) => Holds(u, n)'
    <3>1. meeting' = meeting /\ leave' = [leave EXCEPT ![s] = Abandoned(@)]
      BY <2>3 DEF LeaveFails, Crash, historyVars
    <3> QED
      BY <3>1, LeaveStops DEF Holds, TypeInv
  <2>4. \A m \in Messages : Excused(m) => ExcusedThen(m)
    <3>1. \A m \in Messages : m.of \in Nat
      BY DEF Messages
    <3>2. /\ \A u \in Sockets, n \in Nat : Holds(u, n) => Holds(u, n)'
          /\ \/ meeting' = meeting
             \/ leave'[s].pc = "delete" /\ leave'[s].of = meeting
      BY <1>7, <2>1, <2>2, <2>3
    <3>3. ASSUME NEW m \in Messages, Excused(m) PROVE ExcusedThen(m)
      <4>1. CASE m.of = meeting
        BY <3>2, <4>1
      <4>2. CASE m.late
        BY <4>2
      <4>3. CASE \E u \in Sockets : Holds(u, m.of)
        <5>1. PICK u \in Sockets : Holds(u, m.of)
          BY <4>3
        <5>2. Holds(u, m.of)'
          BY <3>1, <3>2, <5>1
        <5> QED
          BY <5>2 DEF Holds
      <4> QED
        BY <3>3, <4>1, <4>2, <4>3
    <3> QED
      BY <3>3
  <2> HIDE DEF Excused, ExcusedThen
  <2> QED
    BY <1>1, <1>2, <1>7, <2>4
<1>8. CASE UNCHANGED stream
  BY <1>5, <1>6, <1>7, <1>8, LeaveFrame
<1> QED
  BY <1>4, <1>5, <1>8, StreamFrame

(* The history of a meeting holds no message of an earlier one, but for    *)
(* those of a meeting whose own closing has not deleted them yet or        *)
(* stopped before that, and messages stored late                           *)
(* (signaling.service.ts:198-211).                                         *)
THEOREM HistoryOfOneMeeting == Spec => []HistoryIsOfItsMeeting
<1>1. Init => HistoryIsOfItsMeeting
  BY DEF Init, HistoryIsOfItsMeeting
<1>2. TypeInv /\ SocketInv /\ HistoryIsOfItsMeeting /\ [Next]_vars
         => HistoryIsOfItsMeeting'
  BY HistoryStep
<1> QED
  BY <1>1, <1>2, TypeInit, TypeStep, SocketInit, SocketStep, PTL DEF Spec

(* Messages are deleted only behind the end of a meeting: by no leave that *)
(* found the room occupied again (signaling.service.ts:193-202).           *)
THEOREM DeletionsFollowMeetings == Spec => ChatOutlivesOtherLeaves
<1>1. Init => DeletionFollowsMeeting
  BY DEF Init, DeletionFollowsMeeting, NotLeaving
<1>2. TypeInv /\ DeletionFollowsMeeting /\ [Next]_vars => DeletionFollowsMeeting'
  BY DeletionStep
<1>3. TypeInv /\ DeletionFollowsMeeting /\ [Next]_vars
         => [EmptiedBehindMeeting]_vars
  <2> SUFFICES ASSUME TypeInv, DeletionFollowsMeeting, [Next]_vars
               PROVE  EmptiedBehindMeeting
    OBVIOUS
  <2>1. ASSUME NEW s \in Sockets, Store(s) PROVE stream' # <<>>
    BY <2>1, AddedMessage DEF TypeInv
  <2>2. ASSUME NEW s \in Sockets, DeleteRoomHistory(s)
        PROVE  EmptiedBehindMeeting
    BY <2>2 DEF DeleteRoomHistory, LeaveGoesTo, DeletionFollowsMeeting, TypeInv,
       TypeOK, EmptiedBehindMeeting
  <2>3. CASE UNCHANGED stream
    BY <2>3 DEF EmptiedBehindMeeting
  <2>4. CASE stream' # <<>>
    BY <2>4 DEF EmptiedBehindMeeting
  <2> QED
    BY <2>1, <2>2, <2>3, <2>4, StreamFrame
<1> QED
  BY <1>1, <1>2, <1>3, TypeInit, TypeStep, PTL DEF Spec, ChatOutlivesOtherLeaves

-----------------------------------------------------------------------------
(***************************************************************************)
(* No gap between the history and the broadcasts.                          *)
(***************************************************************************)

(* The client has the message, or will get it, or nobody will.             *)
Reached(n, t) == n \in view[t].got \cup unsaid \/ OnItsWay(n, t)

(* The same after a step, case by case.                                    *)
LEMMA ReachedThen ==
    ASSUME NEW t \in Sockets, NEW n, NEW s \in Sockets,
           \/ n \in view'[t].got \/ n \in unsaid'
           \/ send'[s].pc = "emit" /\ send'[s].id = n
           \/ \E j \in DOMAIN link'[<<s, t>>] : link'[<<s, t>>][j] = n
    PROVE  Reached(n, t)'
<1>1. CASE \E j \in DOMAIN link'[<<s, t>>] : link'[<<s, t>>][j] = n
  <2>1. PICK j \in DOMAIN link'[<<s, t>>] : link'[<<s, t>>][j] = n
    BY <1>1
  <2> QED
    BY <2>1 DEF Reached, OnItsWay
<1> QED
  BY <1>1 DEF Reached, OnItsWay

(* What a reading will bring, with what has been broadcast since, covers   *)
(* all that follows the id it asked for.                                   *)
AnswerCovers ==
    \A t \in Sockets :
        read[t].pc = "answer" =>
            \A n \in read[t].after + 1 .. lastId :
                n \in read[t].found \cup read[t].void \/ Reached(n, t)

(* A message put on a link is behind those that are on it.                 *)
LEMMA AppendAdds ==
    ASSUME NEW q \in Seq(Ids), NEW e \in Ids, NEW v, v = Append(q, e)
    PROVE  \E j \in DOMAIN v : v[j] = e
<1>1. Len(q) + 1 \in DOMAIN v /\ v[Len(q) + 1] = e
  OBVIOUS
<1> QED
  BY <1>1

LEMMA AppendKeeps ==
    ASSUME NEW e \in Ids, NEW n
    PROVE  \A q \in Seq(Ids) : \A v :
               v = Append(q, e) /\ (\E i \in DOMAIN q : q[i] = n) =>
                   \E j \in DOMAIN v : v[j] = n
<1> SUFFICES ASSUME NEW q \in Seq(Ids), NEW v, v = Append(q, e),
                    NEW i \in DOMAIN q, q[i] = n
             PROVE  \E j \in DOMAIN v : v[j] = n
  OBVIOUS
<1>1. i \in DOMAIN v /\ v[i] = q[i]
  OBVIOUS
<1> QED
  BY <1>1

(* A message taken from a link leaves the others on it.                    *)
LEMMA TailKeeps ==
    ASSUME NEW n
    PROVE  \A q \in Seq(Ids) : \A v :
               q # <<>> /\ v = Tail(q) /\ (\E i \in DOMAIN q : q[i] = n) =>
                   n = Head(q) \/ \E j \in DOMAIN v : v[j] = n
<1> SUFFICES ASSUME NEW q \in Seq(Ids), q # <<>>, NEW v, v = Tail(q),
                    NEW i \in DOMAIN q, q[i] = n
             PROVE  n = Head(q) \/ \E j \in DOMAIN v : v[j] = n
  OBVIOUS
<1>1. /\ Len(q) \in Nat \ {0} /\ i \in 1 .. Len(q)
      /\ v \in Seq(Ids) /\ Len(v) = Len(q) - 1
      /\ \A j \in 1 .. Len(q) - 1 : v[j] = q[j + 1]
  OBVIOUS
<1>2. CASE i = 1
  BY <1>2
<1>3. CASE i # 1
  <2>1. i - 1 \in 1 .. Len(q) - 1 /\ v[i - 1] = q[i]
    BY <1>1, <1>3
  <2>2. DOMAIN v = 1 .. Len(q) - 1
    BY <1>1
  <2> QED
    BY <2>1, <2>2
<1> QED
  BY <1>2, <1>3

(* The steps that move messages; another one leaves them where they are.   *)
LEMMA MessageFrame ==
    ASSUME TypeInv, [Next]_vars
    PROVE  \/ UNCHANGED <<send, link, view, unsaid>>
           \/ \E s \in Sockets : \/ StartSend(s) \/ GetPeer(s)
                                 \/ AddMessage(s) \/ AddFails(s)
           \/ \E s \in Sockets : Emit(s)
           \/ \E s \in Sockets, t \in Sockets : Deliver(s, t)
           \/ \E t \in Sockets : \/ \E after \in 0 .. lastId : StartRead(t, after)
                                 \/ AnswerRead(t)
           \/ \E s \in Sockets : Disconnect(s) \/ Crash(s)
BY DEF Next, vars, storeVars, handlerVars, clientVars, historyVars, AddPeer,
   EnterChannel, GetHistory, RemovePeer, IsEmpty, CloseRoom, DeleteRoomHistory,
   LeaveFails

(* A broadcast takes a message from its sender to the client.              *)
LEMMA EmitKeeps ==
    ASSUME TypeInv, NEW s \in Sockets, Emit(s),
           NEW t \in Sockets, status[t] = "in", NEW n, Reached(n, t)
    PROVE  Reached(n, t)'
<1>1. /\ send[s].pc = "emit" /\ send[s].id \in Ids
      /\ send' = [send EXCEPT ![s] = NotSending]
      /\ link' = [l \in Sockets \X Sockets |->
                    IF l[1] = s /\ l[2] # s /\ status[l[2]] # "gone"
                    THEN Append(link[l], send[s].id) ELSE link[l]]
      /\ \A u \in Sockets, v \in Sockets : link[<<u, v>>] \in Seq(Ids)
  BY DEF Emit, SendToOthers, TypeInv, TypeOK, SentIsStored
<1>2. /\ view[t].got \subseteq view'[t].got
      /\ t = s => send[s].id \in view'[t].got
      /\ unsaid' = unsaid
  BY DEF Emit, historyVars, TypeInv, TypeOK
<1>3. CASE n \in view[t].got \cup unsaid
  BY <1>2, <1>3 DEF Reached
<1>4. ASSUME NEW u \in Sockets, send[u].pc = "emit", send[u].id = n
      PROVE  Reached(n, t)'
  <2>1. CASE u # s
    <3>1. send'[u] = send[u]
      BY <1>1, <2>1 DEF TypeInv, TypeOK
    <3> QED
      BY <1>4, <3>1 DEF Reached, OnItsWay
  <2>2. CASE u = s /\ t = s
    BY <1>2, <1>4, <2>2 DEF Reached
  <2>3. CASE u = s /\ t # s
    <3>1. link'[<<s, t>>] = Append(link[<<s, t>>], n)
      BY <1>1, <1>4, <2>3
    <3>2. link[<<s, t>>] \in Seq(Ids) /\ n \in Ids
      BY <1>1, <1>4, <2>3
    <3>3. \A v : v = Append(link[<<s, t>>], n) => \E j \in DOMAIN v : v[j] = n
      BY <3>2, AppendAdds, Zenon
    <3>4. \E j \in DOMAIN link'[<<s, t>>] : link'[<<s, t>>][j] = n
      BY <3>1, <3>3, Zenon
    <3> QED
      BY <3>4, ReachedThen
  <2> QED
    BY <2>1, <2>2, <2>3
<1>5. ASSUME NEW u \in Sockets, NEW i \in DOMAIN link[<<u, t>>],
             link[<<u, t>>][i] = n
      PROVE  Reached(n, t)'
  <2>1. PICK e \in Ids : e = send[s].id
    BY <1>1
  <2>2. \/ link'[<<u, t>>] = link[<<u, t>>]
        \/ link'[<<u, t>>] = Append(link[<<u, t>>], e)
    BY <1>1, <2>1
  <2>3. /\ link[<<u, t>>] \in Seq(Ids)
        /\ \E k \in DOMAIN link[<<u, t>>] : link[<<u, t>>][k] = n
    BY <1>1, <1>5
  <2>4. \E j \in DOMAIN link'[<<u, t>>] : link'[<<u, t>>][j] = n
    <3>1. \A q \in Seq(Ids) : \A v :
              v = Append(q, e) /\ (\E k \in DOMAIN q : q[k] = n) =>
                  \E j \in DOMAIN v : v[j] = n
      BY <2>1, AppendKeeps
    <3>2. CASE link'[<<u, t>>] = Append(link[<<u, t>>], e)
      BY <2>3, <3>1, <3>2, Zenon
    <3>3. CASE link'[<<u, t>>] = link[<<u, t>>]
      BY <2>3, <3>3, Zenon
    <3> QED
      BY <2>2, <3>2, <3>3
  <2> QED
    BY <2>4, ReachedThen
<1> QED
  BY <1>3, <1>4, <1>5 DEF Reached, OnItsWay

(* A broadcast that comes is got, and the others stay on their way.        *)
LEMMA DeliverKeeps ==
    ASSUME TypeInv, NEW s \in Sockets, NEW u \in Sockets, Deliver(s, u),
           NEW t \in Sockets, status[t] = "in", NEW n, Reached(n, t)
    PROVE  Reached(n, t)'
<1>1. /\ send' = send
      /\ link[<<s, u>>] # <<>>
      /\ link' = [link EXCEPT ![<<s, u>>] = Tail(@)]
      /\ \A v \in Sockets, w \in Sockets : link[<<v, w>>] \in Seq(Ids)
      /\ unsaid' = unsaid
  BY DEF Deliver, handlerVars, historyVars, TypeInv, TypeOK
<1>2. /\ view[t].got \subseteq view'[t].got
      /\ t = u => Head(link[<<s, u>>]) \in view'[t].got
  <2>1. CASE status[u] = "in"
    <3>1. /\ {Head(link[<<s, u>>])} \in SUBSET Ids
          /\ view' = [view EXCEPT ![u].got = @ \cup {Head(link[<<s, u>>])}]
      BY <2>1, DeliveredId DEF Deliver
    <3>2. /\ {Head(link[<<s, u>>])} \subseteq view'[u].got
          /\ \A v \in Sockets : view[v].got \subseteq view'[v].got
      BY <3>1, ViewGets DEF TypeInv
    <3> QED
      BY <3>2
  <2>2. CASE status[u] # "in"
    BY <2>2 DEF Deliver
  <2> QED
    BY <2>1, <2>2
<1>3. CASE n \in view[t].got \cup unsaid
  BY <1>1, <1>2, <1>3 DEF Reached
<1>4. CASE \E v \in Sockets : send[v].pc = "emit" /\ send[v].id = n
  BY <1>1, <1>4 DEF Reached, OnItsWay
<1>5. ASSUME NEW v \in Sockets, NEW i \in DOMAIN link[<<v, t>>],
             link[<<v, t>>][i] = n
      PROVE  Reached(n, t)'
  <2>1. CASE <<v, t>> # <<s, u>>
    <3>1. link'[<<v, t>>] = link[<<v, t>>]
      BY <1>1, <2>1
    <3> QED
      BY <1>5, <3>1 DEF Reached, OnItsWay
  <2>2. CASE v = s /\ t = u
    <3>1. link'[<<s, u>>] = Tail(link[<<s, u>>])
      BY <1>1 DEF TypeInv, TypeOK
    <3>2. /\ link[<<s, u>>] \in Seq(Ids) /\ link[<<s, u>>] # <<>>
          /\ \E k \in DOMAIN link[<<s, u>>] : link[<<s, u>>][k] = n
      BY <1>1, <1>5, <2>2
    <3>3. \A q \in Seq(Ids) : \A w :
              q # <<>> /\ w = Tail(q) /\ (\E k \in DOMAIN q : q[k] = n) =>
                  n = Head(q) \/ \E j \in DOMAIN w : w[j] = n
      BY TailKeeps
    <3>4. \/ n = Head(link[<<s, u>>])
          \/ \E j \in DOMAIN link'[<<s, u>>] : link'[<<s, u>>][j] = n
      BY <3>1, <3>2, <3>3, Zenon
    <3> QED
      BY <1>2, <2>2, <3>4, ReachedThen
  <2> QED
    BY <2>1, <2>2
<1> QED
  BY <1>3, <1>4, <1>5 DEF Reached, OnItsWay

(* A client in the channel keeps what it has and gets what is on its way.  *)
LEMMA ReachedStays ==
    ASSUME TypeInv, [Next]_vars, NEW t \in Sockets, status[t] = "in",
           status'[t] = "in", NEW n, Reached(n, t)
    PROVE  Reached(n, t)'
<1>1. CASE UNCHANGED <<send, link, view, unsaid>>
  BY <1>1 DEF Reached, OnItsWay
<1>2. ASSUME NEW s \in Sockets,
             StartSend(s) \/ GetPeer(s) \/ AddMessage(s) \/ AddFails(s)
      PROVE  Reached(n, t)'
  <2>1. /\ UNCHANGED <<link, view>> /\ unsaid \subseteq unsaid'
        /\ send[s].pc # "emit"
    BY <1>2 DEF StartSend, GetPeer, AddMessage, AddFails, clientVars, historyVars
  <2>2. \A u \in Sockets : u # s => send'[u] = send[u]
    BY <1>2 DEF StartSend, GetPeer, AddMessage, AddFails, TypeInv, TypeOK
  <2> QED
    BY <2>1, <2>2 DEF Reached, OnItsWay
<1>3. ASSUME NEW u \in Sockets,
             \/ \E after \in 0 .. lastId : StartRead(u, after)
             \/ AnswerRead(u)
      PROVE  Reached(n, t)'
  <2>1. CASE \E after \in 0 .. lastId : StartRead(u, after)
    <3>1. /\ UNCHANGED <<send, link, unsaid>>
          /\ view[t].got \subseteq view'[t].got
      BY <2>1 DEF StartRead, Ask, historyVars, TypeInv, TypeOK
    <3> QED
      BY <3>1 DEF Reached, OnItsWay
  <2>2. CASE AnswerRead(u)
    <3>1. /\ UNCHANGED <<send, link, unsaid>>
          /\ view[t].got \subseteq view'[t].got
      BY <2>2 DEF AnswerRead, Answered, historyVars, TypeInv, TypeOK
    <3> QED
      BY <3>1 DEF Reached, OnItsWay
  <2> QED
    BY <1>3, <2>1, <2>2
<1>4. ASSUME NEW s \in Sockets, Disconnect(s) \/ Crash(s) PROVE Reached(n, t)'
  <2>1. s # t
    BY <1>4 DEF Disconnect, Crash, LoseClient, TypeInv, TypeOK
  <2>2. view'[t] = view[t] /\ \A u \in Sockets : link'[<<u, t>>] = link[<<u, t>>]
    BY <1>4, <2>1 DEF Disconnect, Crash, LoseClient, TypeInv, TypeOK
  <2>3. /\ unsaid \subseteq unsaid'
        /\ \A u \in Sockets : \/ send'[u] = send[u]
                              \/ send[u].pc = "emit" => send[u].id \in unsaid'
    BY <1>4 DEF Disconnect, Crash, historyVars, TypeInv, TypeOK
  <2> QED
    BY <2>2, <2>3 DEF Reached, OnItsWay
<1> QED
  BY <1>1, <1>2, <1>3, <1>4, EmitKeeps, DeliverKeeps, MessageFrame

(* The message a step stores is on its way to all.                         *)
LEMMA StoredIsReached ==
    ASSUME TypeInv, [Next]_vars
    PROVE  \/ lastId' = lastId
           \/ /\ lastId' = lastId + 1
              /\ \A t \in Sockets, n \in {lastId + 1} : Reached(n, t)'
<1>1. ASSUME NEW s \in Sockets, AddMessage(s)
      PROVE  /\ lastId' = lastId + 1
             /\ \A t \in Sockets, n \in {lastId + 1} : Reached(n, t)'
  <2>1. /\ lastId' = lastId + 1
        /\ send'[s].pc = "emit" /\ send'[s].id = lastId + 1
    BY <1>1 DEF AddMessage, Store, TypeInv, TypeOK
  <2> QED
    BY <2>1, ReachedThen
<1>2. ASSUME NEW s \in Sockets, AddFails(s)
      PROVE  \/ lastId' = lastId
             \/ /\ lastId' = lastId + 1
                /\ \A t \in Sockets, n \in {lastId + 1} : Reached(n, t)'
  BY <1>2, ReachedThen DEF AddFails, Store
<1>3. lastId' = lastId \/ \E s \in Sockets : AddMessage(s) \/ AddFails(s)
  BY DEF Next, vars, storeVars, handlerVars, clientVars, boundVars, AddPeer,
     EnterChannel, Disconnect, StartSend, GetPeer, Emit, Deliver, StartRead, Ask,
     GetHistory, AnswerRead, RemovePeer, IsEmpty, CloseRoom, DeleteRoomHistory,
     LeaveFails, Crash
<1> QED
  BY <1>1, <1>2, <1>3

(* A reading's answer changes only when XRANGE gives it.                   *)
LEMMA ReadFrame ==
    ASSUME TypeInv, [Next]_vars, NEW t \in Sockets, read'[t].pc = "answer"
    PROVE  read'[t] = read[t] \/ GetHistory(t)
<1>1. ASSUME NEW u \in Sockets,
             \/ \E after \in 0 .. lastId : StartRead(u, after)
             \/ AnswerRead(u) \/ Disconnect(u) \/ Crash(u)
      PROVE  read'[t] = read[t]
  <2>1. CASE \E after \in 0 .. lastId : StartRead(u, after)
    BY <2>1 DEF StartRead, Ask, NotReading, TypeInv, TypeOK
  <2>2. CASE AnswerRead(u)
    BY <2>2 DEF AnswerRead, NotReading, TypeInv, TypeOK
  <2>3. CASE Disconnect(u) \/ Crash(u)
    BY <2>3 DEF Disconnect, Crash, LoseClient, NotReading, TypeInv, TypeOK
  <2> QED
    BY <1>1, <2>1, <2>2, <2>3
<1>2. ASSUME NEW u \in Sockets, GetHistory(u)
      PROVE  read'[t] = read[t] \/ GetHistory(t)
  BY <1>2 DEF GetHistory, TypeInv, TypeOK
<1>3. \/ read' = read
      \/ \E u \in Sockets : GetHistory(u)
      \/ \E u \in Sockets : \/ \E after \in 0 .. lastId : StartRead(u, after)
                            \/ AnswerRead(u) \/ Disconnect(u) \/ Crash(u)
  BY DEF Next, vars, handlerVars, AddPeer, EnterChannel, StartSend, GetPeer,
     AddMessage, AddFails, Emit, Deliver, RemovePeer, IsEmpty, CloseRoom, DeleteRoomHistory,
     LeaveFails
<1> QED
  BY <1>1, <1>2, <1>3

(* What a client has read from changes when it gets an answer.             *)
LEMMA ViewFrame ==
    ASSUME TypeInv, [Next]_vars, NEW t \in Sockets,
           status'[t] = "in", view'[t].from # Never
    PROVE  \/ view'[t].from = view[t].from /\ view'[t].void = view[t].void
           \/ AnswerRead(t)
<1>1. ASSUME NEW u \in Sockets, NEW s \in Sockets,
             \/ \E after \in 0 .. lastId : StartRead(u, after)
             \/ Emit(u) \/ Deliver(s, u) \/ Disconnect(u) \/ Crash(u)
      PROVE  view'[t].from = view[t].from /\ view'[t].void = view[t].void
  <2>1. CASE \E after \in 0 .. lastId : StartRead(u, after)
    <3>1. PICK after \in 0 .. lastId : StartRead(u, after)
      BY <2>1
    <3> QED
      BY <3>1, ViewAsks DEF StartRead, Ask, TypeInv
  <2>2. CASE Emit(u)
    <3>1. send[u].id \in Ids
      BY <2>2 DEF Emit, TypeInv, SentIsStored
    <3> QED
      BY <2>2, <3>1, ViewGets DEF Emit, TypeInv
  <2>3. CASE Deliver(s, u)
    BY <2>3, DeliveredId, ViewGets DEF Deliver, TypeInv
  <2>4. CASE Disconnect(u) \/ Crash(u)
    BY <2>4 DEF Disconnect, Crash, LoseClient, TypeInv, TypeOK
  <2> QED
    BY <1>1, <2>1, <2>2, <2>3, <2>4
<1>2. ASSUME NEW u \in Sockets, AnswerRead(u)
      PROVE  view'[t] = view[t] \/ AnswerRead(t)
  BY <1>2 DEF AnswerRead, TypeInv, TypeOK
<1>3. \/ view' = view
      \/ \E u \in Sockets : AnswerRead(u)
      \/ \E u \in Sockets, s \in Sockets :
            \/ \E after \in 0 .. lastId : StartRead(u, after)
            \/ Emit(u) \/ Deliver(s, u) \/ Disconnect(u) \/ Crash(u)
  BY DEF Next, vars, clientVars, AddPeer, EnterChannel, StartSend, GetPeer,
     AddMessage, AddFails, GetHistory, RemovePeer, IsEmpty, CloseRoom, DeleteRoomHistory,
     LeaveFails
<1> QED
  BY <1>1, <1>2, <1>3

(* An answer that covers the messages stored so far keeps covering them,   *)
(* and one that is stored behind it is on its way.                         *)
LEMMA CoverStep ==
    TypeInv /\ SocketInv /\ SocketInv' /\ AnswerCovers /\ [Next]_vars
        => AnswerCovers'
<1> SUFFICES ASSUME TypeInv, SocketInv, SocketInv', AnswerCovers, [Next]_vars,
                    NEW t \in Sockets, read'[t].pc = "answer",
                    NEW n \in read'[t].after + 1 .. lastId'
             PROVE  n \in read'[t].found \cup read'[t].void \/ Reached(n, t)'
  BY DEF AnswerCovers
<1>1. lastId \in Nat /\ read[t].after \in Nat
  BY DEF TypeInv, TypeOK
<1>2. CASE read'[t] = read[t]
  <2>1. status[t] = "in" /\ status'[t] = "in"
    BY <1>2 DEF SocketInv
  <2>2. CASE n = lastId + 1 /\ lastId' = lastId + 1
    BY <1>1, <2>2, StoredIsReached
  <2>3. CASE n \in read[t].after + 1 .. lastId
    BY <1>2, <2>1, <2>3, ReachedStays DEF AnswerCovers
  <2>4. lastId' = lastId \/ lastId' = lastId + 1
    BY StoredIsReached
  <2> QED
    BY <1>1, <1>2, <2>2, <2>3, <2>4
<1>3. CASE GetHistory(t)
  <2>1. /\ lastId' = lastId
        /\ read'[t].after = read[t].after
        /\ Wanted(t) \subseteq read'[t].found \cup read'[t].void
    BY <1>3 DEF GetHistory, storeVars, TypeInv, TypeOK
  <2> QED
    BY <2>1 DEF Wanted
<1> QED
  BY <1>2, <1>3, ReadFrame

LEMMA NoGapStep ==
    TypeInv /\ SocketInv /\ AnswerCovers /\ NoMessageIsMissed /\ [Next]_vars
        => NoMessageIsMissed'
<1> SUFFICES ASSUME TypeInv, SocketInv, AnswerCovers, NoMessageIsMissed,
                    [Next]_vars
             PROVE  NoMessageIsMissed'
  OBVIOUS
<1> SUFFICES ASSUME NEW t \in Sockets, status'[t] = "in", view'[t].from # Never,
                    NEW n \in view'[t].from + 1 .. lastId'
             PROVE  n \in view'[t].void \/ Reached(n, t)'
  BY DEF NoMessageIsMissed, Reached
<1>1. /\ lastId \in Nat /\ view[t].from \in {Never} \cup Nat
      /\ read[t].after \in Nat
  BY DEF TypeInv, TypeOK
<1>2. CASE view'[t].from = view[t].from /\ view'[t].void = view[t].void
  <2>1. status[t] = "in"
    BY <1>2 DEF SocketInv
  <2>2. CASE n = lastId + 1 /\ lastId' = lastId + 1
    BY <1>1, <2>2, StoredIsReached
  <2>3. CASE n \in view[t].from + 1 .. lastId
    <3>1. n \in view[t].void \/ Reached(n, t)
      BY <1>2, <2>1, <2>3 DEF NoMessageIsMissed, Reached
    <3> QED
      BY <1>2, <2>1, <3>1, ReachedStays
  <2>4. lastId' = lastId \/ lastId' = lastId + 1
    BY StoredIsReached
  <2> QED
    BY <1>1, <1>2, <2>2, <2>3, <2>4
<1>3. CASE AnswerRead(t)
  <2>1. /\ read[t].pc = "answer" /\ status[t] = "in"
        /\ lastId' = lastId
        /\ view'[t] = Answered(view[t], read[t])
    BY <1>3 DEF AnswerRead, SocketInv, storeVars, TypeInv, TypeOK
  <2>2. /\ view'[t].got = view[t].got \cup read[t].found
        /\ view'[t].void = view[t].void \cup read[t].void
        /\ view'[t].from = read[t].after \/ view'[t].from = view[t].from
    BY <2>1 DEF Answered, TypeInv, TypeOK
  <2>3. n \in read[t].found => Reached(n, t)'
    BY <2>2 DEF Reached
  <2>4. Reached(n, t) => Reached(n, t)'
    BY <2>1, ReachedStays
  <2>5. CASE view'[t].from = read[t].after
    <3>1. n \in read[t].found \cup read[t].void \/ Reached(n, t)
      BY <2>1, <2>5 DEF AnswerCovers
    <3> QED
      BY <2>2, <2>3, <2>4, <3>1
  <2>6. CASE view'[t].from = view[t].from
    <3>1. n \in view[t].void \/ Reached(n, t)
      BY <2>1, <2>6 DEF NoMessageIsMissed, Reached
    <3> QED
      BY <2>2, <2>4, <3>1
  <2> QED
    BY <2>2, <2>5, <2>6
<1> QED
  BY <1>2, <1>3, ViewFrame

(* A client that has read the history after some id has every later        *)
(* message or will get it, but for those that had been trimmed or deleted  *)
(* by then, or that nobody broadcasts: history and broadcasts leave no gap *)
(* (chat.gateway.ts:38-45, 55, chat.service.ts:27-38).                     *)
THEOREM HistoryAndBroadcastMeet == Spec => []NoMessageIsMissed
<1>1. Init => AnswerCovers /\ NoMessageIsMissed
  BY DEF Init, AnswerCovers, NoMessageIsMissed, NotReading, NothingGot
<1> QED
  BY <1>1, TypeInit, TypeStep, SocketInit, SocketStep, CoverStep, NoGapStep, PTL
  DEF Spec
=============================================================================
