--------------------------- MODULE RecordingProofs ---------------------------
(***************************************************************************)
(* Theorems about the recording of a room, for any peers, producers, taps  *)
(* and failures.                                                           *)
(***************************************************************************)
EXTENDS Recording, TLAPS

-----------------------------------------------------------------------------
(***************************************************************************)
(* Types.                                                                  *)
(***************************************************************************)
ObjectStates  == {"none", "open", "closed"}
SessionStates == {"none", "open", "closing", "finalised", "unfinalised",
                  "broken"}

(* The objects and the fields that StopPeers assigns, next.                *)
StoppedTypeOK ==
    /\ transport' \in [Taps -> ObjectStates]
    /\ consumer' \in [Taps -> ObjectStates]
    /\ session' \in [Taps -> SessionStates]
    /\ plainTransport' \in [Peers -> Taps \cup {None}]
    /\ recordingConsumer' \in [Peers -> Taps \cup {None}]
    /\ recordingSession' \in [Peers -> Taps \cup {None}]

LEMMA StopPeersTyped ==
    ASSUME TypeOK, NEW ps, NEW more,
           NEW end \in {"closing", "unfinalised"}, StopPeers(ps, more, end)
    PROVE  StoppedTypeOK
BY DEF TypeOK, StopPeers, CloseSessions, StoppedTypeOK, ObjectStates,
       SessionStates

LEMMA UntouchedTyped ==
    ASSUME TypeOK, UNCHANGED <<objectVars, fieldVars>>
    PROVE  StoppedTypeOK
BY DEF TypeOK, StoppedTypeOK, ObjectStates, SessionStates, objectVars, fieldVars

LEMMA UnusedTyped == Unused \in TapRecords
BY RecordingBounds DEF Unused, TapRecords, TapStates

LEMMA TapMovesTyped ==
    ASSUME NEW r \in TapRecords,
           NEW pc \in {"transport", "consume", "session", "connect", "refused",
                       "done"}
    PROVE  /\ [r EXCEPT !.pc = pc] \in TapRecords
           /\ [r EXCEPT !.pc = pc].pc = pc
           /\ [r EXCEPT !.pc = pc].source = r.source
           /\ [r EXCEPT !.pc = pc].awaits = r.awaits
           /\ [r EXCEPT !.pc = pc].met = r.met
BY DEF TapRecords, TapStates

LEMMA TapPreparedTyped ==
    ASSUME NEW r \in TapRecords, NEW f \in Files
    PROVE  [r EXCEPT !.pc = "transport", !.file = f] \in TapRecords
BY DEF TapRecords, TapStates

(* Where a tap goes, and that it is the only one that moves.               *)
LEMMA TapMoves ==
    ASSUME tap \in [Taps -> TapRecords], NEW t \in Taps,
           NEW pc \in {"transport", "consume", "session", "connect", "refused",
                       "done"},
           TapGoesTo(t, pc)
    PROVE  /\ tap' \in [Taps -> TapRecords]
           /\ tap'[t].pc = pc
           /\ tap'[t].source = tap[t].source
           /\ tap'[t].met = tap[t].met
           /\ \A u \in Taps \ {t} : tap'[u] = tap[u]
<1> DEFINE r == [tap[t] EXCEPT !.pc = pc]
<1>1. tap' = [tap EXCEPT ![t] = r]
  BY DEF TapGoesTo
<1>2. tap[t] \in TapRecords
  OBVIOUS
<1>3. /\ r \in TapRecords /\ r.pc = pc
      /\ r.source = tap[t].source /\ r.met = tap[t].met
  BY <1>2, TapMovesTyped
<1> HIDE DEF r
<1> QED
  BY <1>1, <1>3

LEMMA TapPrepared ==
    ASSUME tap \in [Taps -> TapRecords], NEW t \in Taps, Prepared(t)
    PROVE  /\ tap' \in [Taps -> TapRecords]
           /\ tap'[t].pc = "transport"
           /\ tap'[t].source = tap[t].source
           /\ tap'[t].met = tap[t].met
           /\ \A u \in Taps \ {t} : tap'[u] = tap[u]
<1>1. FileOf(t[1]) \in Files
  BY DEF FileOf, Files, Taps
<1>2. tap' = [tap EXCEPT ![t] = [tap[t] EXCEPT !.pc = "transport",
                                               !.file = FileOf(t[1])]]
  BY DEF Prepared
<1>3. /\ tap[t] \in TapRecords
      /\ [tap[t] EXCEPT !.pc = "transport", !.file = FileOf(t[1])]
            \in TapRecords
  BY <1>1, TapPreparedTyped
<1>4. /\ [tap[t] EXCEPT !.pc = "transport", !.file = FileOf(t[1])].pc
            = "transport"
      /\ [tap[t] EXCEPT !.pc = "transport", !.file = FileOf(t[1])].source
            = tap[t].source
      /\ [tap[t] EXCEPT !.pc = "transport", !.file = FileOf(t[1])].met
            = tap[t].met
  BY <1>3 DEF TapRecords
<1> QED
  BY <1>2, <1>3, <1>4

(* The taps of the peers in DOMAIN source begin.                           *)
Sources(source) ==
    /\ DOMAIN source \subseteq Peers
    /\ \A p \in DOMAIN source : source[p] \in 1 .. MaxProducers

LEMMA TapsBegin ==
    ASSUME TypeOK, NEW source, Sources(source), BeginTaps(source)
    PROVE  /\ tap' \in [Taps -> TapRecords]
           /\ StopPeers(DOMAIN source, {}, "closing")
           /\ \A p \in DOMAIN source : \E t \in TapsOf(p) : IsNextTap(t)
           /\ \A t \in Taps :
                 IF t[1] \in DOMAIN source /\ IsNextTap(t)
                   THEN /\ tap'[t].pc = "prepare"
                        /\ tap'[t].source = source[t[1]]
                        /\ tap'[t].met = UnderWay(t[1])
                   ELSE tap'[t] = tap[t]
<1> DEFINE new(t) == t[1] \in DOMAIN source /\ IsNextTap(t)
           old(p) == recordingSession[p]
           awaited(p) == IF old(p) # None /\ session[old(p)] = "open"
                           THEN old(p) ELSE None
           begun(t) == [pc |-> "prepare", source |-> source[t[1]],
                        file |-> None, awaits |-> awaited(t[1]),
                        met |-> UnderWay(t[1])]
<1>1. /\ tap' = [t \in Taps |-> IF new(t) THEN begun(t) ELSE tap[t]]
      /\ StopPeers(DOMAIN source, {}, "closing")
      /\ \A p \in DOMAIN source : \E t \in TapsOf(p) : IsNextTap(t)
  BY DEF BeginTaps
<1>2. ASSUME NEW t \in Taps, new(t)
      PROVE  begun(t) \in TapRecords
  <2>1. source[t[1]] \in 0 .. MaxProducers
    BY <1>2, RecordingBounds DEF Sources
  <2>2. t[1] \in Peers
    BY DEF Taps
  <2>3. awaited(t[1]) \in Taps \cup {None}
    BY <2>2 DEF TypeOK
  <2>4. UnderWay(t[1]) \in SUBSET TapStates
    BY DEF UnderWay, TapsOf, TypeOK, TapRecords
  <2> HIDE DEF awaited
  <2> QED
    BY <2>1, <2>3, <2>4 DEF TapRecords, TapStates
<1>3. \A t \in Taps : /\ begun(t).pc = "prepare"
                     /\ begun(t).source = source[t[1]]
                     /\ begun(t).met = UnderWay(t[1])
  OBVIOUS
<1>4. tap \in [Taps -> TapRecords]
  BY DEF TypeOK
<1> HIDE DEF begun
<1> QED
  BY <1>1, <1>2, <1>3, <1>4

(* What producing and losing all producers leave of a peer's producers.    *)
LEMMA ProducerAdded ==
    ASSUME TypeOK, NEW p \in Peers, Len(producers[p]) < MaxProducers,
           producers' = [producers EXCEPT ![p] = Append(@, "open")]
    PROVE  /\ producers' \in [Peers -> Seq({"open", "closed"})]
           /\ \A q \in Peers : Len(producers'[q]) <= MaxProducers
           /\ \A q \in Peers \ {p} : producers'[q] = producers[q]
           /\ DOMAIN producers'[p] = 1 .. Len(producers[p]) + 1
           /\ producers'[p][Len(producers[p]) + 1] = "open"
           /\ \A i \in DOMAIN producers[p] :
                 i \in DOMAIN producers'[p] /\ producers'[p][i] = producers[p][i]
           /\ Len(producers[p]) \in Nat
           /\ DOMAIN producers[p] = 1 .. Len(producers[p])
<1> DEFINE s == producers[p]
<1>1. /\ s \in Seq({"open", "closed"})
      /\ producers \in [Peers -> Seq({"open", "closed"})]
      /\ \A q \in Peers : Len(producers[q]) <= MaxProducers
  BY DEF TypeOK
<1>2. /\ Append(s, "open") \in Seq({"open", "closed"})
      /\ Len(Append(s, "open")) = Len(s) + 1
      /\ DOMAIN Append(s, "open") = 1 .. Len(s) + 1
      /\ DOMAIN s = 1 .. Len(s)
      /\ Len(s) \in Nat
      /\ Append(s, "open")[Len(s) + 1] = "open"
      /\ \A i \in 1 .. Len(s) : Append(s, "open")[i] = s[i]
  BY <1>1
<1>3. /\ producers'[p] = Append(s, "open")
      /\ \A q \in Peers \ {p} : producers'[q] = producers[q]
  BY <1>1
<1>4. producers' \in [Peers -> Seq({"open", "closed"})]
  BY <1>1, <1>2
<1>5. \A q \in Peers : Len(producers'[q]) <= MaxProducers
  BY <1>1, <1>2, <1>3, RecordingBounds
<1>6. \A i \in DOMAIN s : i \in DOMAIN Append(s, "open")
  BY <1>2
<1> QED
  BY <1>2, <1>3, <1>4, <1>5, <1>6

LEMMA ProducersClose ==
    ASSUME TypeOK, NEW p \in Peers,
           producers' = [producers EXCEPT ![p] = AllClosed(p)]
    PROVE  /\ producers' \in [Peers -> Seq({"open", "closed"})]
           /\ \A q \in Peers : Len(producers'[q]) <= MaxProducers
           /\ \A q \in Peers \ {p} : producers'[q] = producers[q]
           /\ DOMAIN producers'[p] = DOMAIN producers[p]
           /\ \A i \in DOMAIN producers'[p] : producers'[p][i] = "closed"
           /\ producers'[p] = <<>> => producers[p] = <<>>
<1>1. /\ producers[p] \in Seq({"open", "closed"})
      /\ producers \in [Peers -> Seq({"open", "closed"})]
      /\ \A q \in Peers : Len(producers[q]) <= MaxProducers
  BY DEF TypeOK
<1>2. /\ AllClosed(p) \in Seq({"open", "closed"})
      /\ Len(AllClosed(p)) = Len(producers[p])
      /\ DOMAIN AllClosed(p) = DOMAIN producers[p]
      /\ \A i \in DOMAIN AllClosed(p) : AllClosed(p)[i] = "closed"
      /\ AllClosed(p) = <<>> => producers[p] = <<>>
  <2>1. /\ Len(producers[p]) \in Nat
        /\ DOMAIN producers[p] = 1 .. Len(producers[p])
    BY <1>1
  <2>2. AllClosed(p) \in [1 .. Len(producers[p]) -> {"open", "closed"}]
    BY DEF AllClosed
  <2>3. /\ AllClosed(p) \in Seq({"open", "closed"})
        /\ Len(AllClosed(p)) = Len(producers[p])
    BY <2>1, <2>2
  <2>4. AllClosed(p) = <<>> => producers[p] = <<>>
    BY <1>1, <2>3
  <2> QED
    BY <2>1, <2>2, <2>3, <2>4 DEF AllClosed
<1>3. /\ producers'[p] = AllClosed(p)
      /\ \A q \in Peers \ {p} : producers'[q] = producers[q]
  BY <1>1
<1>4. producers' \in [Peers -> Seq({"open", "closed"})]
  BY <1>1, <1>2
<1>5. \A q \in Peers : Len(producers'[q]) <= MaxProducers
  BY <1>1, <1>2, <1>3
<1> QED
  BY <1>2, <1>3, <1>4, <1>5

(* The sources the two actions that begin taps choose.                     *)
LEMMA StartSources ==
    ASSUME NEW source \in [{p \in Present : HasAudio(p)} -> 1 .. MaxProducers]
    PROVE  Sources(source)
BY DEF Sources, Present

LEMMA ProduceSources ==
    ASSUME TypeOK, NEW p \in Peers, Len(producers[p]) < MaxProducers
    PROVE  Sources([q \in {p} |-> Len(producers[p]) + 1])
<1>1. Len(producers[p]) \in Nat
  BY DEF TypeOK
<1> QED
  BY <1>1, RecordingBounds DEF Sources

(* The variables in three groups, each of which a step sets to its type.   *)
RoomTypeOK ==
    /\ recording \in BOOLEAN
    /\ member \in [Peers -> {"new", "in", "out"}]
    /\ named \in SUBSET Peers
    /\ producers \in [Peers -> Seq({"open", "closed"})]
    /\ \A p \in Peers : Len(producers[p]) <= MaxProducers

LEMMA TypeParts ==
    ASSUME RoomTypeOK', tap' \in [Taps -> TapRecords], StoppedTypeOK,
           faults' \in Nat
    PROVE  TypeOK'
BY DEF TypeOK, RoomTypeOK, StoppedTypeOK, ObjectStates, SessionStates

LEMMA TypeStep ==
    ASSUME TypeOK, [Next]_vars
    PROVE  TypeOK'
<1>1. CASE UNCHANGED vars
  BY <1>1, UntouchedTyped, TypeParts
     DEF TypeOK, RoomTypeOK, vars, roomVars
<1> USE DEF RoomTypeOK
<1>2. ASSUME NEW listed \in SUBSET Peers, StartRecording(listed)
      PROVE  TypeOK'
  <2>1. PICK source \in [{p \in Present : HasAudio(p)} -> 1 .. MaxProducers] :
           BeginTaps(source)
    BY <1>2 DEF StartRecording
  <2>2. /\ tap' \in [Taps -> TapRecords]
        /\ StoppedTypeOK
    BY <2>1, StartSources, TapsBegin, StopPeersTyped
  <2>3. RoomTypeOK' /\ faults' \in Nat
    BY <1>2 DEF TypeOK, StartRecording, Present
  <2> QED
    BY <2>2, <2>3, TypeParts
<1>3. CASE StopRecording
  <2>1. StoppedTypeOK
    BY <1>3, StopPeersTyped DEF StopRecording
  <2>2. RoomTypeOK' /\ tap' \in [Taps -> TapRecords] /\ faults' \in Nat
    BY <1>3 DEF TypeOK, StopRecording
  <2> QED
    BY <2>1, <2>2, TypeParts
<1>4. ASSUME NEW p \in Peers, Enter(p)
      PROVE  TypeOK'
  <2>1. UNCHANGED <<objectVars, fieldVars>>
    BY <1>4 DEF Enter
  <2>2. RoomTypeOK' /\ tap' \in [Taps -> TapRecords] /\ faults' \in Nat
    BY <1>4 DEF TypeOK, Enter
  <2> QED
    BY <2>1, <2>2, UntouchedTyped, TypeParts
<1>5. ASSUME NEW p \in Peers, Produce(p)
      PROVE  TypeOK'
  <2>1. RoomTypeOK' /\ faults' \in Nat
    <3>1. /\ producers' \in [Peers -> Seq({"open", "closed"})]
          /\ \A q \in Peers : Len(producers'[q]) <= MaxProducers
      BY <1>5, ProducerAdded DEF Produce
    <3> QED
      BY <1>5, <3>1 DEF TypeOK, Produce
  <2>2. CASE BeginTaps([q \in {p} |-> Len(producers[p]) + 1])
    <3>1. Sources([q \in {p} |-> Len(producers[p]) + 1])
      BY <1>5, ProduceSources DEF Produce
    <3>2. /\ tap' \in [Taps -> TapRecords]
          /\ StoppedTypeOK
      BY <2>2, <3>1, TapsBegin, StopPeersTyped
    <3> QED
      BY <2>1, <3>2, TypeParts
  <2>3. CASE UNCHANGED <<tap, objectVars, fieldVars>>
    <3>1. tap' \in [Taps -> TapRecords]
      BY <2>3 DEF TypeOK
    <3>2. UNCHANGED <<objectVars, fieldVars>>
      BY <2>3
    <3> QED
      BY <2>1, <3>1, <3>2, UntouchedTyped, TypeParts
  <2> QED
    BY <1>5, <2>2, <2>3 DEF Produce
<1>6. ASSUME NEW p \in Peers, ReplaceSendTransport(p)
      PROVE  TypeOK'
  <2>1. /\ producers' \in [Peers -> Seq({"open", "closed"})]
        /\ \A q \in Peers : Len(producers'[q]) <= MaxProducers
    BY <1>6, ProducersClose DEF ReplaceSendTransport
  <2>2. UNCHANGED <<objectVars, fieldVars>>
    BY <1>6 DEF ReplaceSendTransport
  <2>3. RoomTypeOK' /\ tap' \in [Taps -> TapRecords] /\ faults' \in Nat
    BY <1>6, <2>1 DEF TypeOK, ReplaceSendTransport
  <2> QED
    BY <2>2, <2>3, UntouchedTyped, TypeParts
<1>7. ASSUME NEW p \in Peers, RemovePeer(p)
      PROVE  TypeOK'
  <2>1. /\ producers' \in [Peers -> Seq({"open", "closed"})]
        /\ \A q \in Peers : Len(producers'[q]) <= MaxProducers
    BY <1>7, ProducersClose DEF RemovePeer
  <2>2. StoppedTypeOK
    BY <1>7, StopPeersTyped DEF RemovePeer
  <2>3. RoomTypeOK' /\ tap' \in [Taps -> TapRecords] /\ faults' \in Nat
    BY <1>7, <2>1 DEF TypeOK, RemovePeer
  <2> QED
    BY <2>2, <2>3, TypeParts
<1>8. ASSUME NEW t \in Taps, TapPeer(t)
      PROVE  TypeOK'
  <2> t[1] \in Peers
    BY DEF Taps
  <2>1. RoomTypeOK'
    BY <1>8 DEF TypeOK, TapPeer, Prepared, PrepareFails, TransportReady,
          TransportFails, ConsumerReady, ConsumeFails, SessionReady,
          SessionFails, Connected, ConnectFails, roomVars
  <2>2. faults' \in Nat
    BY <1>8 DEF TypeOK, TapPeer, Prepared, PrepareFails, TransportReady,
          TransportFails, ConsumerReady, ConsumeFails, SessionReady,
          SessionFails, Connected, ConnectFails, Fault
  <2>3. tap' \in [Taps -> TapRecords]
    <3>1. tap \in [Taps -> TapRecords]
      BY DEF TypeOK
    <3>2. CASE Prepared(t)
      BY <3>1, <3>2, TapPrepared
    <3>3. CASE \E pc \in {"transport", "consume", "session", "connect",
                           "refused", "done"} : TapGoesTo(t, pc)
      BY <3>1, <3>3, TapMoves
    <3> QED
      BY <1>8, <3>2, <3>3
         DEF TapPeer, PrepareFails, TransportReady, TransportFails,
             ConsumerReady, ConsumeFails, SessionReady, SessionFails,
             Connected, ConnectFails
  <2>4. StoppedTypeOK
    <3>1. CASE \/ Prepared(t) \/ PrepareFails(t) \/ TransportFails(t)
               \/ SessionFails(t) \/ Connected(t)
      <4>1. UNCHANGED <<objectVars, fieldVars>>
        BY <3>1 DEF Prepared, PrepareFails, TransportFails, SessionFails,
              Connected
      <4> QED
        BY <4>1, UntouchedTyped
    <3>2. CASE TransportReady(t) \/ ConsumeFails(t)
      <4>1. /\ transport' \in [Taps -> ObjectStates]
            /\ plainTransport' \in [Peers -> Taps \cup {None}]
        <5>1. CASE TransportReady(t)
          <6> DEFINE audible == producers[t[1]][tap[t].source] = "open"
          <6>1. /\ transport' = [transport EXCEPT ![t] =
                                    IF audible THEN "open" ELSE "closed"]
                /\ plainTransport' = [plainTransport EXCEPT ![t[1]] =
                                         IF audible THEN t ELSE None]
            BY <5>1 DEF TransportReady
          <6> HIDE DEF audible
          <6> QED
            BY <6>1 DEF TypeOK, ObjectStates
        <5>2. CASE ConsumeFails(t)
          BY <5>2 DEF TypeOK, ConsumeFails, ObjectStates
        <5> QED
          BY <3>2, <5>1, <5>2
      <4>2. UNCHANGED <<consumer, session, recordingConsumer, recordingSession>>
        BY <3>2 DEF TransportReady, ConsumeFails
      <4> QED
        BY <4>1, <4>2 DEF TypeOK, StoppedTypeOK, ObjectStates, SessionStates
    <3>3. CASE ConsumerReady(t)
      <4>1. /\ consumer' \in [Taps -> ObjectStates]
            /\ recordingConsumer' \in [Peers -> Taps \cup {None}]
        BY <3>3 DEF TypeOK, ConsumerReady, ObjectStates
      <4>2. UNCHANGED <<transport, session, plainTransport, recordingSession>>
        BY <3>3 DEF ConsumerReady
      <4> QED
        BY <4>1, <4>2 DEF TypeOK, StoppedTypeOK, ObjectStates, SessionStates
    <3>5. CASE SessionReady(t)
      <4>1. /\ session' \in [Taps -> SessionStates]
            /\ recordingSession' \in [Peers -> Taps \cup {None}]
        BY <3>5 DEF TypeOK, SessionReady, SessionStates
      <4>2. UNCHANGED <<transport, consumer, plainTransport, recordingConsumer>>
        BY <3>5 DEF SessionReady
      <4> QED
        BY <4>1, <4>2 DEF TypeOK, StoppedTypeOK, ObjectStates, SessionStates
    <3>4. CASE ConnectFails(t)
      BY <3>4, StopPeersTyped DEF ConnectFails
    <3> QED
      BY <1>8, <3>1, <3>2, <3>3, <3>4, <3>5 DEF TapPeer
  <2> QED
    BY <2>1, <2>2, <2>3, <2>4, TypeParts
<1>9. ASSUME NEW t \in Taps,
             \/ ProducerClosed(t) \/ SocketError(t)
             \/ SessionClosed(t) \/ SessionCloseFails(t)
      PROVE  TypeOK'
  <2>1. /\ RoomTypeOK'
        /\ tap' \in [Taps -> TapRecords]
        /\ faults' \in Nat
    BY <1>9 DEF TypeOK, ProducerClosed, SocketError, SessionClosed,
          SessionCloseFails, roomVars, Fault
  <2>2. StoppedTypeOK
    <3>1. CASE ProducerClosed(t)
      BY <3>1, StopPeersTyped DEF ProducerClosed
    <3>2. CASE SocketError(t) \/ SessionClosed(t) \/ SessionCloseFails(t)
      BY <3>2 DEF TypeOK, SocketError, SessionClosed, SessionCloseFails,
            CloseSessions, StoppedTypeOK, ObjectStates, SessionStates, fieldVars
    <3> QED
      BY <1>9, <3>1, <3>2
  <2> QED
    BY <2>1, <2>2, TypeParts
<1> QED
  BY <1>1, <1>2, <1>3, <1>4, <1>5, <1>6, <1>7, <1>8, <1>9 DEF Next

LEMMA TypeInit ==
    ASSUME Init
    PROVE  TypeOK
<1>1. /\ recording \in BOOLEAN
      /\ member \in [Peers -> {"new", "in", "out"}]
      /\ named \in SUBSET Peers
      /\ faults \in Nat
  BY DEF Init
<1>2. /\ producers \in [Peers -> Seq({"open", "closed"})]
      /\ \A p \in Peers : Len(producers[p]) <= MaxProducers
  BY RecordingBounds DEF Init
<1>3. tap \in [Taps -> TapRecords]
  BY UnusedTyped DEF Init
<1>4. /\ transport \in [Taps -> {"none", "open", "closed"}]
      /\ consumer \in [Taps -> {"none", "open", "closed"}]
      /\ session \in [Taps -> {"none", "open", "closing", "finalised",
                               "unfinalised", "broken"}]
  BY DEF Init
<1>5. /\ plainTransport \in [Peers -> Taps \cup {None}]
      /\ recordingConsumer \in [Peers -> Taps \cup {None}]
      /\ recordingSession \in [Peers -> Taps \cup {None}]
  BY DEF Init
<1> QED
  BY <1>1, <1>2, <1>3, <1>4, <1>5 DEF TypeOK

(* Every field of a peer and of a tap has the type the code gives it.      *)
THEOREM TypeCorrect == Spec => []TypeOK
<1>1. Init => TypeOK
  BY TypeInit
<1>2. TypeOK /\ [Next]_vars => TypeOK'
  BY TypeStep
<1> QED
  BY <1>1, <1>2, PTL DEF Spec

-----------------------------------------------------------------------------
(***************************************************************************)
(* What is true of every tap, whatever else runs.                          *)
(***************************************************************************)

(* A tap reads from an audio producer that its peer made.                  *)
SourceExists ==
    \A t \in Taps : tap[t].pc # "unused"
        => tap[t].source \in DOMAIN producers[t[1]]

(* Only a peer in the room has open producers, a peer to come has none.    *)
ProducersOfMembers ==
    \A p \in Peers :
        /\ member[p] = "new" => producers[p] = <<>>
        /\ \A i \in DOMAIN producers[p] :
              producers[p][i] = "open" => member[p] = "in"

(* A peer holds what its own taps made.                                    *)
OwnFields ==
    \A p \in Peers :
        /\ plainTransport[p] # None => plainTransport[p][1] = p
        /\ recordingConsumer[p] # None => recordingConsumer[p][1] = p
        /\ recordingSession[p] # None => recordingSession[p][1] = p

(* What a tap makes is there once the tap has come that far.               *)
MadeInOrder ==
    \A t \in Taps :
        /\ consumer[t] # "none" => tap[t].pc # "unused"
        /\ session[t] # "none" => tap[t].pc \in {"connect", "refused", "done"}

BrokenIsFault == \A t \in Taps : session[t] = "broken" => faults > 0

(* A tap meets others when it begins.                                      *)
UnmetBefore == \A t \in Taps : tap[t].pc = "unused" => tap[t].met = {}

Basics ==
    /\ SourceExists
    /\ UnmetBefore
    /\ ProducersOfMembers
    /\ OwnFields
    /\ MadeInOrder
    /\ BrokenIsFault

(* What StopPeers does to each tap and each peer.                          *)
StopEffect(ps, more, end) ==
    /\ \A t \in Taps :
          /\ transport'[t] \in {transport[t], "closed"}
          /\ consumer'[t] # consumer[t]
                => consumer[t] = "open" /\ consumer'[t] = "closed"
          /\ session'[t] # session[t]
                => session[t] = "open" /\ session'[t] = end
          /\ t[1] \notin ps
                => /\ transport'[t] = transport[t]
                   /\ session'[t] = session[t]
                   /\ t \notin more => consumer'[t] = consumer[t]
          /\ t[1] \in ps
                => /\ plainTransport[t[1]] = t => transport'[t] = "closed"
                   /\ recordingSession[t[1]] = t => session'[t] # "open"
    /\ \A p \in Peers :
          IF p \in ps
            THEN /\ plainTransport'[p] = None
                 /\ recordingConsumer'[p] = None
                 /\ recordingSession'[p] = None
            ELSE /\ plainTransport'[p] = plainTransport[p]
                 /\ recordingConsumer'[p] = recordingConsumer[p]
                 /\ recordingSession'[p] = recordingSession[p]

LEMMA StopPeersEffect ==
    ASSUME TypeOK, OwnFields, NEW ps \in SUBSET Peers, NEW more,
           NEW end \in {"closing", "unfinalised"}, StopPeers(ps, more, end)
    PROVE  StopEffect(ps, more, end)
<1>1. ASSUME NEW t \in Taps, t[1] \notin ps
      PROVE  /\ t \notin Held(plainTransport, ps)
             /\ t \notin Held(recordingConsumer, ps)
             /\ t \notin Held(recordingSession, ps)
  BY <1>1, RecordingNone DEF Held, OwnFields
<1>2. ASSUME NEW t \in Taps, t[1] \in ps
      PROVE  /\ plainTransport[t[1]] = t => t \in Held(plainTransport, ps)
             /\ recordingSession[t[1]] = t => t \in Held(recordingSession, ps)
  BY <1>2 DEF Held
<1>3. ASSUME NEW t \in Taps
      PROVE  /\ transport'[t] = IF t \in Held(plainTransport, ps)
                                  THEN "closed" ELSE transport[t]
             /\ consumer'[t] =
                   IF /\ t \in Held(plainTransport, ps)
                                 \cup Held(recordingConsumer, ps) \cup more
                      /\ consumer[t] = "open"
                     THEN "closed" ELSE consumer[t]
             /\ session'[t] = IF /\ t \in Held(recordingSession, ps)
                                 /\ session[t] = "open"
                                THEN end ELSE session[t]
  BY DEF StopPeers, CloseSessions
<1>4. ASSUME NEW p \in Peers
      PROVE  IF p \in ps
               THEN /\ plainTransport'[p] = None
                    /\ recordingConsumer'[p] = None
                    /\ recordingSession'[p] = None
               ELSE /\ plainTransport'[p] = plainTransport[p]
                    /\ recordingConsumer'[p] = recordingConsumer[p]
                    /\ recordingSession'[p] = recordingSession[p]
  BY DEF StopPeers
<1>5. ASSUME NEW t \in Taps
      PROVE  /\ transport'[t] \in {transport[t], "closed"}
             /\ consumer'[t] # consumer[t]
                   => consumer[t] = "open" /\ consumer'[t] = "closed"
             /\ session'[t] # session[t]
                   => session[t] = "open" /\ session'[t] = end
             /\ t[1] \notin ps
                   => /\ transport'[t] = transport[t]
                      /\ session'[t] = session[t]
                      /\ t \notin more => consumer'[t] = consumer[t]
             /\ t[1] \in ps
                   => /\ plainTransport[t[1]] = t => transport'[t] = "closed"
                      /\ recordingSession[t[1]] = t => session'[t] # "open"
  BY <1>1, <1>2, <1>3
<1> QED
  BY <1>4, <1>5 DEF StopEffect

(* Producers are kept, open or closed, as long as their peer is.           *)
ProducersGrow ==
    \A p \in Peers : \A i \in DOMAIN producers[p] : i \in DOMAIN producers'[p]

LEMMA ProducersStep ==
    ASSUME TypeOK, ProducersOfMembers, [Next]_vars
    PROVE  ProducersOfMembers' /\ ProducersGrow
<1>1. CASE UNCHANGED <<member, producers>>
  BY <1>1 DEF ProducersOfMembers, ProducersGrow
<1>2. ASSUME NEW p \in Peers, Enter(p)
      PROVE  ProducersOfMembers' /\ ProducersGrow
  BY <1>2 DEF Enter, TypeOK, ProducersOfMembers, ProducersGrow
<1>3. ASSUME NEW p \in Peers, Produce(p)
      PROVE  ProducersOfMembers' /\ ProducersGrow
  <2>1. /\ \A q \in Peers \ {p} : producers'[q] = producers[q]
        /\ \A i \in DOMAIN producers[p] : i \in DOMAIN producers'[p]
    BY <1>3, ProducerAdded DEF Produce
  <2>2. member' = member /\ member[p] = "in"
    BY <1>3 DEF Produce
  <2> QED
    BY <2>1, <2>2 DEF ProducersOfMembers, ProducersGrow
<1>4. ASSUME NEW p \in Peers, ReplaceSendTransport(p) \/ RemovePeer(p)
      PROVE  ProducersOfMembers' /\ ProducersGrow
  <2>1. /\ \A q \in Peers \ {p} : producers'[q] = producers[q]
        /\ DOMAIN producers'[p] = DOMAIN producers[p]
        /\ \A i \in DOMAIN producers'[p] : producers'[p][i] = "closed"
    BY <1>4, ProducersClose DEF ReplaceSendTransport, RemovePeer
  <2>2. /\ \A q \in Peers \ {p} : member'[q] = member[q]
        /\ member'[p] # "new"
    BY <1>4 DEF ReplaceSendTransport, RemovePeer, TypeOK
  <2> QED
    BY <2>1, <2>2 DEF ProducersOfMembers, ProducersGrow
<1> QED
  BY <1>1, <1>2, <1>3, <1>4
     DEF Next, vars, roomVars, StartRecording, StopRecording, TapPeer,
         Prepared, PrepareFails, TransportReady, TransportFails, ConsumerReady,
         ConsumeFails, SessionReady, SessionFails, Connected, ConnectFails,
         ProducerClosed, SocketError, SessionClosed, SessionCloseFails

(* Which taps a step moves.  OthersWait says it for a step of one tap.     *)
OthersWait(t) == \A u \in Taps \ {t} : tap'[u] = tap[u]

LEMMA TapStep ==
    ASSUME TypeOK, NEW t \in Taps, TapPeer(t)
    PROVE  /\ OthersWait(t)
           /\ tap[t].pc \notin {"unused", "done"}
           /\ tap'[t].pc \notin {"unused", "prepare"}
           /\ tap'[t].source = tap[t].source
           /\ tap'[t].met = tap[t].met
           /\ UNCHANGED roomVars
<1>1. tap \in [Taps -> TapRecords]
  BY DEF TypeOK
<1>2. CASE Prepared(t)
  <2>1. UNCHANGED roomVars /\ tap[t].pc = "prepare"
    BY <1>2 DEF Prepared
  <2> QED
    BY <1>1, <1>2, <2>1, TapPrepared DEF OthersWait
<1>3. ASSUME NEW pc \in {"transport", "consume", "session", "connect",
                         "refused", "done"},
             TapGoesTo(t, pc)
      PROVE  /\ OthersWait(t)
             /\ tap'[t].pc \notin {"unused", "prepare"}
             /\ tap'[t].source = tap[t].source
             /\ tap'[t].met = tap[t].met
  BY <1>1, <1>3, TapMoves DEF OthersWait
<1>4. CASE ~Prepared(t)
  <2>1. \E pc \in {"transport", "consume", "session", "connect", "refused",
                    "done"} : TapGoesTo(t, pc)
    BY <1>4 DEF TapPeer, PrepareFails, TransportReady, TransportFails,
             ConsumerReady, ConsumeFails, SessionReady, SessionFails,
             Connected, ConnectFails
  <2>2. UNCHANGED roomVars /\ tap[t].pc \notin {"unused", "done"}
    BY <1>4 DEF TapPeer, PrepareFails, TransportReady, TransportFails,
             ConsumerReady, ConsumeFails, SessionReady, SessionFails,
             Connected, ConnectFails
  <2> QED
    BY <1>3, <2>1, <2>2
<1> QED
  BY <1>2, <1>4

LEMMA SourceStep ==
    ASSUME TypeOK, SourceExists, ProducersOfMembers, [Next]_vars
    PROVE  SourceExists'
<1>1. ProducersGrow
  BY ProducersStep
<1>2. \A t \in Taps : t[1] \in Peers
  BY DEF Taps
<1>3. CASE UNCHANGED tap
  BY <1>1, <1>2, <1>3 DEF ProducersGrow, SourceExists
<1>4. ASSUME NEW source, Sources(source), BeginTaps(source),
             \A p \in DOMAIN source : source[p] \in DOMAIN producers'[p]
      PROVE  SourceExists'
  <2>1. \A t \in Taps :
           IF t[1] \in DOMAIN source /\ IsNextTap(t)
             THEN tap'[t].source = source[t[1]]
             ELSE tap'[t] = tap[t]
    BY <1>4, TapsBegin
  <2> QED
    BY <1>1, <1>2, <1>4, <2>1 DEF ProducersGrow, SourceExists
<1>5. ASSUME NEW listed \in SUBSET Peers, StartRecording(listed)
      PROVE  SourceExists'
  <2>1. PICK source \in [{p \in Present : HasAudio(p)} -> 1 .. MaxProducers] :
           /\ \A p \in DOMAIN source : IsFirstOpen(p, source[p])
           /\ BeginTaps(source)
    BY <1>5 DEF StartRecording
  <2>2. \A p \in Peers : DOMAIN producers[p] = 1 .. Len(producers[p])
    BY DEF TypeOK
  <2>3. Sources(source)
    BY StartSources
  <2>4. producers' = producers
    BY <1>5 DEF StartRecording
  <2>5. \A p \in DOMAIN source : source[p] \in DOMAIN producers'[p]
    BY <2>1, <2>2, <2>3, <2>4 DEF IsFirstOpen, Sources
  <2> QED
    BY <1>4, <2>1, <2>3, <2>5
<1>6. ASSUME NEW p \in Peers, Produce(p)
      PROVE  SourceExists'
  <2> DEFINE source == [q \in {p} |-> Len(producers[p]) + 1]
  <2>1. CASE UNCHANGED tap
    BY <1>3, <2>1
  <2>2. CASE BeginTaps(source)
    <3>1. Sources(source)
      BY <1>6, ProduceSources DEF Produce
    <3>2. /\ DOMAIN producers'[p] = 1 .. Len(producers[p]) + 1
          /\ Len(producers[p]) \in Nat
      BY <1>6, ProducerAdded DEF Produce
    <3>3. \A q \in DOMAIN source : source[q] \in DOMAIN producers'[q]
      BY <3>2
    <3> QED
      BY <1>4, <2>2, <3>1, <3>3
  <2> QED
    BY <1>6, <2>1, <2>2 DEF Produce
<1>7. ASSUME NEW t \in Taps, TapPeer(t)
      PROVE  SourceExists'
  BY <1>1, <1>2, <1>7, TapStep DEF ProducersGrow, SourceExists, OthersWait
<1> QED
  BY <1>3, <1>5, <1>6, <1>7
     DEF Next, vars, StopRecording, Enter, ReplaceSendTransport, RemovePeer,
         ProducerClosed, SocketError, SessionClosed, SessionCloseFails

(* What a step does to taps, objects and fields: nothing, a stop, a start  *)
(* of taps, a move of one tap, or something of one session.                *)
Quiet == UNCHANGED <<tap, objectVars, fieldVars>>
Stops(ps, more, end) == StopPeers(ps, more, end) /\ UNCHANGED tap
Begins(source) == Sources(source) /\ BeginTaps(source)
SessionEnds(t) == SocketError(t) \/ SessionClosed(t) \/ SessionCloseFails(t)

Ends == {"closing", "unfinalised"}
SourceFunctions == UNION {[ps -> 1 .. MaxProducers] : ps \in SUBSET Peers}

StepShape ==
    \/ Quiet
    \/ \E ps \in SUBSET Peers, more \in SUBSET Taps, end \in Ends :
          Stops(ps, more, end)
    \/ \E source \in SourceFunctions : Begins(source)
    \/ \E t \in Taps : TapPeer(t) \/ SessionEnds(t)

LEMMA StepShapes ==
    ASSUME TypeOK, [Next]_vars
    PROVE  StepShape
<1>1. CASE Quiet
  BY <1>1 DEF StepShape
<1>2. ASSUME NEW ps \in SUBSET Peers, NEW more \in SUBSET Taps,
             NEW end \in Ends, Stops(ps, more, end)
      PROVE  StepShape
  BY <1>2 DEF StepShape
<1>3. ASSUME NEW source, Sources(source), BeginTaps(source),
             source \in [DOMAIN source -> 1 .. MaxProducers]
      PROVE  StepShape
  <2>1. source \in SourceFunctions
    BY <1>3 DEF SourceFunctions, Sources
  <2> QED
    BY <1>3, <2>1 DEF StepShape, Begins
<1>4. ASSUME NEW listed \in SUBSET Peers, StartRecording(listed)
      PROVE  StepShape
  BY <1>3, <1>4, StartSources DEF StartRecording
<1>5. ASSUME NEW p \in Peers, Produce(p)
      PROVE  StepShape
  <2> DEFINE source == [q \in {p} |-> Len(producers[p]) + 1]
  <2>1. CASE UNCHANGED <<tap, objectVars, fieldVars>>
    BY <1>1, <2>1 DEF Quiet
  <2>2. CASE BeginTaps(source)
    <3>1. Sources(source)
      BY <1>5, ProduceSources DEF Produce
    <3>2. source \in [DOMAIN source -> 1 .. MaxProducers]
      BY <3>1 DEF Sources
    <3> QED
      BY <1>3, <2>2, <3>1, <3>2
  <2> QED
    BY <1>5, <2>1, <2>2 DEF Produce
<1>6. CASE StopRecording
  <2>1. Present \in SUBSET Peers /\ {} \in SUBSET Taps
    BY DEF Present
  <2>2. Stops(Present, {}, "closing")
    BY <1>6 DEF StopRecording, Stops
  <2> QED
    BY <1>2, <2>1, <2>2 DEF Ends
<1>7. ASSUME NEW p \in Peers, RemovePeer(p)
      PROVE  StepShape
  <2>1. Stops({p}, {}, "unfinalised")
    BY <1>7 DEF RemovePeer, Stops
  <2> QED
    BY <1>2, <2>1 DEF Ends
<1>8. ASSUME NEW t \in Taps, ProducerClosed(t)
      PROVE  StepShape
  <2>1. Stops({t[1]}, {t}, "closing")
    BY <1>8 DEF ProducerClosed, Stops
  <2>2. {t[1]} \in SUBSET Peers /\ {t} \in SUBSET Taps
    BY DEF Taps
  <2> QED
    BY <1>2, <2>1, <2>2 DEF Ends
<1>9. ASSUME NEW p \in Peers, Enter(p) \/ ReplaceSendTransport(p)
      PROVE  StepShape
  BY <1>1, <1>9 DEF Enter, ReplaceSendTransport, Quiet
<1>10. ASSUME NEW t \in Taps, TapPeer(t) \/ SessionEnds(t)
       PROVE  StepShape
  BY <1>10 DEF StepShape
<1>11. CASE UNCHANGED vars
  BY <1>1, <1>11 DEF vars, Quiet
<1> QED
  BY <1>4, <1>5, <1>6, <1>7, <1>8, <1>9, <1>10, <1>11 DEF Next, SessionEnds

LEMMA StopsEffect ==
    ASSUME TypeOK, OwnFields, NEW ps \in SUBSET Peers, NEW more,
           NEW end \in Ends, Stops(ps, more, end)
    PROVE  StopEffect(ps, more, end) /\ UNCHANGED tap
BY StopPeersEffect DEF Stops, Ends

(* What beginning taps does: those that begin were unused, one of a peer,  *)
(* and their peers are stopped.                                            *)
BeginEffect(source) ==
    /\ DOMAIN source \in SUBSET Peers
    /\ StopEffect(DOMAIN source, {}, "closing")
    /\ \A p \in DOMAIN source : \E t \in TapsOf(p) :
          /\ tap[t].pc = "unused"
          /\ tap'[t].pc = "prepare"
    /\ \A t \in Taps : tap'[t] # tap[t]
          => /\ t[1] \in DOMAIN source
             /\ tap[t].pc = "unused"
             /\ tap'[t].pc = "prepare"
             /\ tap'[t].met = UnderWay(t[1])
             /\ \A u \in Taps : u[1] = t[1] /\ tap'[u] # tap[u] => u = t

LEMMA NextTapIsOne ==
    ASSUME NEW t \in Taps, NEW u \in Taps, t[1] = u[1],
           IsNextTap(t), IsNextTap(u)
    PROVE  t = u
<1>1. PICK p \in Peers, k \in 1 .. MaxTaps, l \in 1 .. MaxTaps :
         t = <<p, k>> /\ u = <<p, l>>
  BY DEF Taps
<1>2. ~(k < l) /\ ~(l < k)
  BY <1>1, RecordingBounds DEF IsNextTap
<1> QED
  BY <1>1, <1>2, RecordingBounds

LEMMA BeginsEffect ==
    ASSUME TypeOK, OwnFields, NEW source, Begins(source)
    PROVE  BeginEffect(source)
<1>1. Sources(source) /\ BeginTaps(source)
  BY DEF Begins
<1>2. /\ StopPeers(DOMAIN source, {}, "closing")
      /\ \A p \in DOMAIN source : \E t \in TapsOf(p) : IsNextTap(t)
      /\ \A t \in Taps :
            IF t[1] \in DOMAIN source /\ IsNextTap(t)
              THEN tap'[t].pc = "prepare" /\ tap'[t].met = UnderWay(t[1])
              ELSE tap'[t] = tap[t]
  BY <1>1, TapsBegin
<1>3. DOMAIN source \in SUBSET Peers
  BY <1>1 DEF Sources
<1>4. StopEffect(DOMAIN source, {}, "closing")
  BY <1>2, <1>3, StopPeersEffect
<1>5. ASSUME NEW p \in DOMAIN source
      PROVE  \E t \in TapsOf(p) : tap[t].pc = "unused" /\ tap'[t].pc = "prepare"
  <2>1. PICK t \in TapsOf(p) : IsNextTap(t)
    BY <1>2
  <2> QED
    BY <1>2, <2>1 DEF TapsOf, IsNextTap
<1>6. \A t \in Taps : tap'[t] # tap[t]
         => /\ t[1] \in DOMAIN source
            /\ tap[t].pc = "unused"
            /\ tap'[t].pc = "prepare"
            /\ tap'[t].met = UnderWay(t[1])
            /\ \A u \in Taps : u[1] = t[1] /\ tap'[u] # tap[u] => u = t
  BY <1>2, NextTapIsOne DEF IsNextTap
<1> QED
  BY <1>3, <1>4, <1>5, <1>6 DEF BeginEffect

LEMMA OwnStep ==
    ASSUME TypeOK, OwnFields, [Next]_vars
    PROVE  OwnFields'
<1>1. CASE UNCHANGED fieldVars
  BY <1>1 DEF OwnFields, fieldVars
<1>2. ASSUME NEW ps, NEW more, NEW end, StopEffect(ps, more, end)
      PROVE  OwnFields'
  <2>1. \A p \in Peers :
           /\ plainTransport'[p] \in {None, plainTransport[p]}
           /\ recordingConsumer'[p] \in {None, recordingConsumer[p]}
           /\ recordingSession'[p] \in {None, recordingSession[p]}
    BY <1>2 DEF StopEffect
  <2> QED
    BY <2>1 DEF OwnFields
<1>3. ASSUME NEW t \in Taps, TapPeer(t)
      PROVE  OwnFields'
  <2>1. CASE TransportReady(t) \/ ConsumeFails(t)
    <3>1. /\ \A p \in Peers : \/ plainTransport'[p] = plainTransport[p]
                              \/ plainTransport'[p] = None
                              \/ p = t[1] /\ plainTransport'[p] = t
          /\ UNCHANGED <<recordingConsumer, recordingSession>>
      <4>1. CASE TransportReady(t)
        <5> DEFINE audible == producers[t[1]][tap[t].source] = "open"
        <5>1. /\ plainTransport' = [plainTransport EXCEPT ![t[1]] =
                                         IF audible THEN t ELSE None]
              /\ UNCHANGED <<recordingConsumer, recordingSession>>
          BY <4>1 DEF TransportReady
        <5> HIDE DEF audible
        <5> QED
          BY <5>1 DEF TypeOK
      <4>2. CASE ConsumeFails(t)
        BY <4>2 DEF ConsumeFails, TypeOK
      <4> QED
        BY <2>1, <4>1, <4>2
    <3> QED
      BY <3>1 DEF OwnFields
  <2>2. CASE ConsumerReady(t)
    <3>1. /\ \A p \in Peers :
                \/ recordingConsumer'[p] = recordingConsumer[p]
                \/ p = t[1] /\ recordingConsumer'[p] = t
          /\ UNCHANGED <<plainTransport, recordingSession>>
      BY <2>2 DEF ConsumerReady, TypeOK
    <3> QED
      BY <3>1 DEF OwnFields
  <2>3. CASE SessionReady(t)
    <3>1. /\ \A p \in Peers :
                \/ recordingSession'[p] = recordingSession[p]
                \/ p = t[1] /\ recordingSession'[p] = t
          /\ UNCHANGED <<plainTransport, recordingConsumer>>
      BY <2>3 DEF SessionReady, TypeOK
    <3> QED
      BY <3>1 DEF OwnFields
  <2>4. CASE ConnectFails(t)
    <3>1. StopEffect({t[1]}, {}, "closing")
      BY <2>4, StopPeersEffect DEF ConnectFails, Taps
    <3> QED
      BY <1>2, <3>1
  <2> QED
    BY <1>1, <1>3, <2>1, <2>2, <2>3, <2>4
       DEF TapPeer, Prepared, PrepareFails, TransportFails, SessionFails,
           Connected
<1>4. ASSUME NEW t \in Taps, SessionEnds(t)
      PROVE  OwnFields'
  BY <1>1, <1>4 DEF SessionEnds, SocketError, SessionClosed, SessionCloseFails
<1> QED
  BY <1>1, <1>2, <1>3, <1>4, StepShapes, StopsEffect, BeginsEffect
     DEF StepShape, Quiet, BeginEffect

(* What the step of a tap makes.                                           *)
TapMakes(t) ==
    /\ \A u \in Taps : consumer'[u] # consumer[u]
          => consumer[u] # "none" \/ u = t
    /\ \A u \in Taps : session'[u] # session[u]
          => \/ session[u] = "open" /\ session'[u] = "closing"
             \/ /\ u = t
                /\ tap[t].pc = "session"
                /\ tap'[t].pc \in {"connect", "refused"}
                /\ session'[t] = "open"
    /\ tap[t].pc \in {"connect", "refused", "done"} => tap'[t].pc = "done"
    /\ faults' >= faults

LEMMA TapStepMakes ==
    ASSUME TypeOK, OwnFields, NEW t \in Taps, TapPeer(t)
    PROVE  TapMakes(t)
<1> USE DEF TapMakes
<1>1. tap \in [Taps -> TapRecords] /\ faults \in Nat
  BY DEF TypeOK
<1>2. CASE \/ PrepareFails(t) \/ TransportFails(t) \/ SessionFails(t)
           \/ Connected(t)
  BY <1>1, <1>2, TapMoves
     DEF PrepareFails, TransportFails, SessionFails, Connected, objectVars, Fault
<1>3. CASE Prepared(t)
  BY <1>1, <1>3 DEF Prepared, objectVars
<1>4. CASE TransportReady(t) \/ ConsumeFails(t)
  BY <1>1, <1>4, TapMoves DEF TransportReady, ConsumeFails, Fault
<1>5. CASE ConsumerReady(t)
  BY <1>1, <1>5, TapMoves DEF ConsumerReady, TypeOK
<1>6. CASE SessionReady(t)
  <2>1. /\ \A u \in Taps : session'[u] # session[u]
              => u = t /\ session'[t] = "open"
        /\ tap[t].pc = "session"
        /\ UNCHANGED <<consumer, faults>>
    BY <1>6 DEF SessionReady, TypeOK
  <2>2. tap'[t].pc \in {"connect", "refused"}
    BY <1>1, <1>6, TapMoves DEF SessionReady
  <2> QED
    BY <1>1, <2>1, <2>2
<1>7. CASE ConnectFails(t)
  <2>1. StopEffect({t[1]}, {}, "closing")
    BY <1>7, StopPeersEffect DEF ConnectFails, Taps
  <2>2. tap'[t].pc = "done" /\ faults' >= faults
    BY <1>1, <1>7, TapMoves DEF ConnectFails, Fault
  <2> QED
    BY <2>1, <2>2, <1>7 DEF StopEffect, ConnectFails
<1> QED
  BY <1>2, <1>3, <1>4, <1>5, <1>6, <1>7 DEF TapPeer

LEMMA MadeStep ==
    ASSUME TypeOK, OwnFields, MadeInOrder, [Next]_vars
    PROVE  MadeInOrder'
<1>1. CASE Quiet
  BY <1>1 DEF Quiet, objectVars, MadeInOrder
<1>2. ASSUME NEW ps, NEW more, NEW end, StopEffect(ps, more, end),
             \A t \in Taps : tap'[t] # tap[t]
                => tap[t].pc = "unused" /\ tap'[t].pc = "prepare"
      PROVE  MadeInOrder'
  BY <1>2 DEF StopEffect, MadeInOrder
<1>3. ASSUME NEW t \in Taps, TapPeer(t)
      PROVE  MadeInOrder'
  BY <1>3, TapStepMakes, TapStep DEF TapMakes, OthersWait, MadeInOrder
<1>4. ASSUME NEW t \in Taps, SessionEnds(t)
      PROVE  MadeInOrder'
  <2>1. /\ UNCHANGED <<tap, consumer>>
        /\ \A u \in Taps : session'[u] # session[u] => session[u] # "none"
    BY <1>4 DEF SessionEnds, SocketError, SessionClosed, SessionCloseFails,
          CloseSessions, TypeOK
  <2> QED
    BY <2>1 DEF MadeInOrder
<1> QED
  BY <1>1, <1>2, <1>3, <1>4, StepShapes, StopsEffect, BeginsEffect
     DEF StepShape, BeginEffect

LEMMA BrokenStep ==
    ASSUME TypeOK, OwnFields, BrokenIsFault, [Next]_vars
    PROVE  BrokenIsFault' /\ faults' >= faults
<1>1. faults \in Nat /\ faults' \in Nat
  BY TypeStep DEF TypeOK
<1>2. ASSUME NEW t \in Taps, SessionEnds(t)
      PROVE  /\ faults' >= faults
             /\ \A u \in Taps : session'[u] = "broken"
                   => session[u] = "broken" \/ faults' > 0
  BY <1>1, <1>2 DEF SessionEnds, SocketError, SessionClosed, SessionCloseFails,
        CloseSessions, TypeOK, Fault
<1>3. ASSUME NEW t \in Taps, TapPeer(t)
      PROVE  /\ faults' >= faults
             /\ \A u \in Taps : session'[u] = "broken" => session[u] = "broken"
  BY <1>3, TapStepMakes DEF TapMakes
<1>4. CASE ~\E t \in Taps : TapPeer(t) \/ SessionEnds(t)
  <2>1. faults' = faults
    BY <1>4 DEF Next, SessionEnds, vars, StartRecording, StopRecording, Enter,
          Produce, ReplaceSendTransport, RemovePeer, ProducerClosed
  <2>2. ASSUME NEW ps, NEW more, NEW end \in Ends, StopEffect(ps, more, end)
        PROVE  \A u \in Taps : session'[u] = "broken" => session[u] = "broken"
    BY <2>2 DEF StopEffect, Ends
  <2>3. CASE Quiet
    BY <2>1, <2>3, <1>1 DEF Quiet, objectVars, BrokenIsFault
  <2>4. CASE ~Quiet
    <3>1. \A u \in Taps : session'[u] = "broken" => session[u] = "broken"
      BY <1>4, <2>2, <2>4, StepShapes, StopsEffect, BeginsEffect
         DEF StepShape, BeginEffect, Ends
    <3> QED
      BY <2>1, <3>1, <1>1 DEF BrokenIsFault
  <2> QED
    BY <2>3, <2>4
<1>5. ASSUME NEW t \in Taps, TapPeer(t) \/ SessionEnds(t)
      PROVE  /\ faults' >= faults
             /\ \A u \in Taps : session'[u] = "broken"
                   => session[u] = "broken" \/ faults' > 0
  BY <1>2, <1>3, <1>5
<1>6. ASSUME NEW t \in Taps, TapPeer(t) \/ SessionEnds(t)
      PROVE  BrokenIsFault'
  BY <1>1, <1>5, <1>6 DEF BrokenIsFault
<1> QED
  BY <1>4, <1>5, <1>6

(* What a tap has met it has met.                                          *)
LEMMA MetStep ==
    ASSUME TypeOK, OwnFields, UnmetBefore, [Next]_vars
    PROVE  UnmetBefore' /\ \A t \in Taps : tap[t].met \subseteq tap'[t].met
<1>1. CASE UNCHANGED tap
  BY <1>1 DEF UnmetBefore
<1>2. ASSUME NEW source, Begins(source)
      PROVE  UnmetBefore' /\ \A t \in Taps : tap[t].met \subseteq tap'[t].met
  BY <1>2, BeginsEffect DEF BeginEffect, UnmetBefore
<1>3. ASSUME NEW t \in Taps, TapPeer(t)
      PROVE  UnmetBefore' /\ \A u \in Taps : tap[u].met \subseteq tap'[u].met
  BY <1>3, TapStep DEF OthersWait, UnmetBefore
<1>4. ASSUME NEW t \in Taps, SessionEnds(t)
      PROVE  UNCHANGED tap
  BY <1>4 DEF SessionEnds, SocketError, SessionClosed, SessionCloseFails
<1> QED
  BY <1>1, <1>2, <1>3, <1>4, StepShapes DEF StepShape, Quiet, Stops

LEMMA BasicsStep ==
    ASSUME TypeOK, Basics, [Next]_vars
    PROVE  Basics'
BY ProducersStep, SourceStep, OwnStep, MadeStep, BrokenStep, MetStep DEF Basics

LEMMA BasicsInit ==
    ASSUME Init
    PROVE  Basics
BY DEF Init, Unused, Basics, SourceExists, ProducersOfMembers, OwnFields,
       MadeInOrder, BrokenIsFault, UnmetBefore

LEMMA BasicsHold == Spec => []Basics
<1>1. Init => Basics
  BY BasicsInit
<1>2. TypeOK /\ Basics /\ [Next]_vars => Basics'
  BY BasicsStep
<1> QED
  BY <1>1, <1>2, TypeCorrect, PTL DEF Spec

-----------------------------------------------------------------------------
(* Sessions end once.                                                      *)
LEMMA SessionStep ==
    ASSUME TypeOK, Basics, [Next]_vars
    PROVE  StaysClosed
<1>1. OwnFields /\ MadeInOrder
  BY DEF Basics
<1>2. CASE Quiet
  BY <1>2 DEF Quiet, objectVars, StaysClosed
<1>3. ASSUME NEW ps, NEW more, NEW end, StopEffect(ps, more, end)
      PROVE  StaysClosed
  BY <1>3 DEF StopEffect, StaysClosed
<1>4. ASSUME NEW t \in Taps, TapPeer(t)
      PROVE  StaysClosed
  BY <1>1, <1>4, TapStepMakes DEF TapMakes, MadeInOrder, StaysClosed
<1>5. ASSUME NEW t \in Taps, SessionEnds(t)
      PROVE  StaysClosed
  BY <1>5 DEF SessionEnds, SocketError, SessionClosed, SessionCloseFails,
        CloseSessions, TypeOK, StaysClosed
<1> QED
  BY <1>1, <1>2, <1>3, <1>4, <1>5, StepShapes, StopsEffect, BeginsEffect
     DEF StepShape, BeginEffect

(* The file handle of a session is closed once, whichever of a stop, a     *)
(* departure, a closing producer, a failing connect, a socket error and a  *)
(* new tap come to it, and in whatever order.                              *)
THEOREM ClosedOnce == Spec => SessionClosedOnce
<1>1. TypeOK /\ Basics /\ [Next]_vars => StaysClosed
  BY SessionStep
<1>2. TypeOK /\ Basics /\ [Next]_vars => [StaysClosed]_vars
  BY <1>1
<1> QED
  BY <1>2, TypeCorrect, BasicsHold, PTL DEF Spec, SessionClosedOnce

-----------------------------------------------------------------------------
(***************************************************************************)
(* Peers that are tapped by one tap at a time.  The code does not see to   *)
(* it: a producer made while a tap of its peer is under way starts another *)
(* one, which does not know what the first is still making.                *)
(***************************************************************************)
OneTapInTurn ==
    \A t, u \in Taps :
        t[1] = u[1] /\ Running(t) /\ Running(u) /\ TappedInTurn(t[1]) => t = u

LEMMA InTurnBefore ==
    ASSUME TypeOK, Basics, [Next]_vars, NEW p \in Peers
    PROVE  /\ TappedInTurn(p)' => TappedInTurn(p)
           /\ TappedInTime(p)' => TappedInTime(p)
<1>1. \A t \in Taps : tap[t].met \subseteq tap'[t].met
  BY MetStep DEF Basics
<1> QED
  BY <1>1 DEF TappedInTurn, TappedInTime, TapsOf

LEMMA InTurnStep ==
    ASSUME TypeOK, Basics, OneTapInTurn, [Next]_vars
    PROVE  OneTapInTurn'
<1> SUFFICES ASSUME NEW t \in Taps, NEW u \in Taps, t[1] = u[1],
                    Running(t)', Running(u)', TappedInTurn(t[1])'
             PROVE  t = u
  BY DEF OneTapInTurn
<1>1. /\ OwnFields /\ t[1] \in Peers
      /\ TappedInTurn(t[1])
  BY InTurnBefore DEF Basics, Taps
<1>2. CASE UNCHANGED tap
  BY <1>1, <1>2 DEF OneTapInTurn, Running
<1>3. ASSUME NEW source, Begins(source)
      PROVE  t = u
  <2>1. BeginEffect(source)
    BY <1>1, <1>3, BeginsEffect
  <2>2. ASSUME NEW v \in Taps, NEW w \in Taps, v[1] = t[1], w[1] = t[1],
               tap'[v] # tap[v], tap'[w] = tap[w]
        PROVE  ~Running(w)
    <3>1. tap'[v].met = UnderWay(t[1]) /\ tap'[v].met = {}
      BY <2>1, <2>2 DEF BeginEffect, TappedInTurn, TapsOf
    <3> QED
      BY <2>2, <3>1 DEF UnderWay, TapsOf
  <2>3. CASE tap'[t] = tap[t] /\ tap'[u] = tap[u]
    BY <1>1, <2>3 DEF OneTapInTurn, Running
  <2>4. CASE tap'[t] # tap[t] /\ tap'[u] # tap[u]
    BY <2>1, <2>4 DEF BeginEffect
  <2> QED
    BY <2>2, <2>3, <2>4 DEF Running
<1>4. ASSUME NEW v \in Taps, TapPeer(v)
      PROVE  t = u
  <2>1. OthersWait(v) /\ Running(v)
    BY <1>4, TapStep DEF Running
  <2>2. Running(t) /\ Running(u)
    BY <2>1 DEF OthersWait, Running
  <2> QED
    BY <1>1, <2>2 DEF OneTapInTurn
<1>5. ASSUME NEW v \in Taps, SessionEnds(v)
      PROVE  UNCHANGED tap
  BY <1>5 DEF SessionEnds, SocketError, SessionClosed, SessionCloseFails
<1> QED
  BY <1>2, <1>3, <1>4, <1>5, StepShapes DEF StepShape, Quiet, Stops

(* An open transport, and an open session, is the one its peer holds;      *)
(* until a tap makes its own, its peer holds none.                         *)
HoldsTap(t) ==
    /\ transport[t] = "open" => plainTransport[t[1]] = t /\ member[t[1]] = "in"
    /\ session[t] = "open"
          => /\ recordingSession[t[1]] = t
             /\ member[t[1]] = "in" \/ tap[t].pc = "refused"
    /\ tap[t].pc \in {"prepare", "transport"} => plainTransport[t[1]] = None
    /\ tap[t].pc \in {"prepare", "transport", "consume", "session"}
          => recordingSession[t[1]] = None
    /\ Running(t) => plainTransport[t[1]] \in {None, t}

Holdings == \A t \in Taps : TappedInTurn(t[1]) => HoldsTap(t)

(* A tap touches nothing of the other peers.                               *)
TouchesOwn(t) ==
    /\ \A u \in Taps : u[1] # t[1]
          => /\ tap'[u] = tap[u]
             /\ transport'[u] = transport[u]
             /\ consumer'[u] = consumer[u]
             /\ session'[u] = session[u]
    /\ \A q \in Peers \ {t[1]} :
          /\ plainTransport'[q] = plainTransport[q]
          /\ recordingConsumer'[q] = recordingConsumer[q]
          /\ recordingSession'[q] = recordingSession[q]

(* TransportReady without its local definitions.                           *)
Audible(t) == producers[t[1]][tap[t].source] = "open"

LEMMA TransportReadyEffect ==
    ASSUME TypeOK, NEW t \in Taps, TransportReady(t)
    PROVE  /\ tap[t].pc = "transport"
           /\ tap'[t].pc = IF Audible(t) THEN "consume" ELSE "done"
           /\ transport'[t] = IF Audible(t) THEN "open" ELSE "closed"
           /\ plainTransport'[t[1]] = IF Audible(t) THEN t ELSE None
           /\ \A u \in Taps \ {t} : transport'[u] = transport[u]
           /\ \A q \in Peers \ {t[1]} : plainTransport'[q] = plainTransport[q]
           /\ UNCHANGED <<roomVars, consumer, session, recordingConsumer,
                          recordingSession, faults>>
<1>1. /\ tap[t].pc = "transport"
      /\ transport' = [transport EXCEPT ![t] =
                          IF Audible(t) THEN "open" ELSE "closed"]
      /\ plainTransport' = [plainTransport EXCEPT ![t[1]] =
                               IF Audible(t) THEN t ELSE None]
      /\ TapGoesTo(t, IF Audible(t) THEN "consume" ELSE "done")
      /\ UNCHANGED <<roomVars, consumer, session, recordingConsumer,
                     recordingSession, faults>>
  BY DEF TransportReady, Audible
<1>2. tap'[t].pc = IF Audible(t) THEN "consume" ELSE "done"
  BY <1>1, TapMoves DEF TypeOK
<1>3. t[1] \in Peers
  BY DEF Taps
<1> HIDE DEF Audible
<1> QED
  BY <1>1, <1>2, <1>3 DEF TypeOK

LEMMA TapTouchesOwn ==
    ASSUME TypeOK, OwnFields, NEW t \in Taps, TapPeer(t)
    PROVE  TouchesOwn(t)
<1> USE DEF TouchesOwn
<1>1. \A u \in Taps : u[1] # t[1] => tap'[u] = tap[u]
  BY TapStep DEF OthersWait
<1>2. CASE \/ Prepared(t) \/ PrepareFails(t) \/ TransportFails(t)
           \/ SessionFails(t) \/ Connected(t)
  BY <1>1, <1>2 DEF Prepared, PrepareFails, TransportFails, SessionFails,
        Connected, objectVars, fieldVars
<1>3. CASE TransportReady(t)
  BY <1>1, <1>3, TransportReadyEffect
<1>4. CASE ConsumerReady(t)
  BY <1>1, <1>4 DEF ConsumerReady, TypeOK
<1>5. CASE ConsumeFails(t)
  BY <1>1, <1>5 DEF ConsumeFails, TypeOK
<1>6. CASE SessionReady(t)
  BY <1>1, <1>6 DEF SessionReady, TypeOK
<1>7. CASE ConnectFails(t)
  <2>1. StopEffect({t[1]}, {}, "closing")
    BY <1>7, StopPeersEffect DEF ConnectFails, Taps
  <2> QED
    BY <1>1, <2>1 DEF StopEffect
<1> QED
  BY <1>2, <1>3, <1>4, <1>5, <1>6, <1>7 DEF TapPeer

LEMMA HoldingsStop ==
    ASSUME TypeOK, Basics, Holdings, NEW ps \in SUBSET Peers, NEW more,
           NEW end \in Ends, StopEffect(ps, more, end),
           \A p \in Peers \ ps : member[p] = "in" => member'[p] = "in",
           \A t \in Taps : tap'[t] # tap[t]
              => /\ tap[t].pc = "unused"
                 /\ tap'[t].pc = "prepare"
                 /\ t[1] \in ps,
           [Next]_vars
    PROVE  Holdings'
<1> SUFFICES ASSUME NEW t \in Taps, TappedInTurn(t[1])'
             PROVE  HoldsTap(t)'
  BY DEF Holdings
<1>1. HoldsTap(t)
  BY InTurnBefore DEF Holdings, Taps
<1>2. t[1] \in Peers /\ MadeInOrder
  BY DEF Taps, Basics
<1>3. CASE t[1] \in ps
  BY <1>1, <1>2, <1>3 DEF StopEffect, HoldsTap, MadeInOrder, Ends
<1>4. CASE t[1] \notin ps
  BY <1>1, <1>2, <1>4 DEF StopEffect, HoldsTap, Running
<1> QED
  BY <1>3, <1>4

LEMMA HoldingsTap ==
    ASSUME TypeOK, Basics, Holdings, OneTapInTurn, NEW t \in Taps, TapPeer(t),
           [Next]_vars
    PROVE  Holdings'
<1> SUFFICES ASSUME NEW u \in Taps, TappedInTurn(u[1])'
             PROVE  HoldsTap(u)'
  BY DEF Holdings
<1>1. /\ HoldsTap(u) /\ (u[1] = t[1] => HoldsTap(t))
      /\ t[1] \in Peers /\ u[1] \in Peers
      /\ TappedInTurn(u[1])
      /\ OwnFields /\ MadeInOrder /\ SourceExists /\ ProducersOfMembers
  <2>1. t[1] \in Peers /\ u[1] \in Peers
    BY DEF Taps
  <2>2. TappedInTurn(u[1])
    BY <2>1, InTurnBefore
  <2> QED
    BY <2>1, <2>2 DEF Basics, Holdings
<1>2. /\ TouchesOwn(t) /\ OthersWait(t)
      /\ tap[t].pc \notin {"unused", "done"}
      /\ member' = member
  BY <1>1, TapStep, TapTouchesOwn DEF roomVars
<1>3. CASE u[1] # t[1]
  BY <1>1, <1>2, <1>3 DEF TouchesOwn, HoldsTap, Running
<1>4. CASE u # t /\ u[1] = t[1]
  <2>1. tap'[u] = tap[u] /\ tap[u].pc \in {"unused", "done"}
    BY <1>1, <1>2, <1>4 DEF OthersWait, OneTapInTurn, Running
  <2>2. session'[u] # session[u] => session'[u] = "closing"
    BY <1>1, <1>4, TapStepMakes DEF TapMakes
  <2>3. CASE \/ Prepared(t) \/ PrepareFails(t) \/ TransportFails(t)
             \/ SessionFails(t) \/ Connected(t)
    <3>1. UNCHANGED <<objectVars, fieldVars>>
      BY <2>3 DEF Prepared, PrepareFails, TransportFails, SessionFails, Connected
    <3> QED
      BY <1>1, <1>2, <2>1, <3>1 DEF objectVars, fieldVars, HoldsTap, Running
  <2>4. CASE TransportReady(t)
    <3>1. /\ tap[t].pc = "transport"
          /\ transport'[u] = transport[u]
          /\ UNCHANGED <<session, recordingSession>>
      BY <1>4, <2>4, TransportReadyEffect
    <3>2. transport[u] # "open"
      BY <1>1, <1>4, <3>1, RecordingNone DEF HoldsTap
    <3> QED
      BY <1>1, <1>2, <2>1, <3>1, <3>2 DEF HoldsTap, Running
  <2>5. CASE ConsumerReady(t)
    BY <1>1, <1>2, <2>1, <2>5 DEF ConsumerReady, HoldsTap, Running
  <2>6. CASE ConsumeFails(t)
    <3>1. /\ tap[t].pc = "consume"
          /\ transport'[u] = transport[u]
          /\ UNCHANGED <<session, recordingSession>>
      BY <1>4, <2>6 DEF ConsumeFails, TypeOK
    <3>2. transport[u] # "open"
      BY <1>1, <1>4, <3>1, RecordingNone DEF HoldsTap, Running
    <3> QED
      BY <1>1, <1>2, <2>1, <3>1, <3>2 DEF HoldsTap, Running
  <2>7. CASE SessionReady(t)
    <3>1. /\ tap[t].pc = "session"
          /\ session'[u] = session[u]
          /\ UNCHANGED <<transport, plainTransport>>
      BY <1>4, <2>7 DEF SessionReady, TypeOK
    <3>2. session[u] # "open"
      BY <1>1, <1>4, <3>1, RecordingNone DEF HoldsTap
    <3> QED
      BY <1>1, <1>2, <2>1, <3>1, <3>2 DEF HoldsTap, Running
  <2>8. CASE ConnectFails(t)
    <3>1. StopEffect({t[1]}, {}, "closing")
      BY <1>1, <2>8, StopPeersEffect DEF ConnectFails
    <3> QED
      BY <1>1, <1>2, <1>4, <2>1, <3>1 DEF StopEffect, HoldsTap, Running
  <2> QED
    BY <2>3, <2>4, <2>5, <2>6, <2>7, <2>8 DEF TapPeer
<1>5. CASE u = t
  <2> tap \in [Taps -> TapRecords]
    BY DEF TypeOK
  <2>1. CASE Prepared(t)
    <3>1. UNCHANGED <<objectVars, fieldVars>> /\ tap[t].pc = "prepare"
      BY <2>1 DEF Prepared
    <3> QED
      BY <1>1, <1>2, <1>5, <2>1, <3>1, TapPrepared
         DEF objectVars, fieldVars, HoldsTap, Running
  <2>2. CASE PrepareFails(t) \/ TransportFails(t) \/ SessionFails(t)
    <3>1. /\ UNCHANGED <<objectVars, fieldVars>>
          /\ TapGoesTo(t, "done")
          /\ tap[t].pc # "refused"
      BY <2>2 DEF PrepareFails, TransportFails, SessionFails
    <3>2. tap'[t].pc = "done"
      BY <3>1, TapMoves
    <3> QED
      BY <1>1, <1>2, <1>5, <3>1, <3>2 DEF objectVars, fieldVars, HoldsTap, Running
  <2>3. CASE Connected(t)
    <3>1. /\ UNCHANGED <<objectVars, fieldVars>>
          /\ TapGoesTo(t, "done")
          /\ tap[t].pc # "refused"
      BY <2>3 DEF Connected
    <3>2. tap'[t].pc = "done"
      BY <3>1, TapMoves
    <3> QED
      BY <1>1, <1>2, <1>5, <3>1, <3>2 DEF objectVars, fieldVars, HoldsTap, Running
  <2>4. CASE TransportReady(t)
    <3>1. Audible(t) => member[t[1]] = "in"
      BY <1>1, <1>2 DEF Audible, SourceExists, ProducersOfMembers
    <3>2. recordingSession[t[1]] = None /\ session[t] = "none"
      <4>1. HoldsTap(t) /\ MadeInOrder
        BY <1>1, <1>5
      <4> QED
        BY <2>4, <4>1, TransportReadyEffect DEF HoldsTap, MadeInOrder, TypeOK
    <3> HIDE DEF Audible
    <3> QED
      BY <1>2, <1>5, <2>4, <3>1, <3>2, TransportReadyEffect
         DEF HoldsTap, Running
  <2>5. CASE ConsumerReady(t)
    <3>1. tap[t].pc = "consume" /\ tap'[t].pc = "session"
      BY <2>5, TapMoves DEF ConsumerReady
    <3>2. UNCHANGED <<transport, session, plainTransport, recordingSession>>
      BY <2>5 DEF ConsumerReady
    <3> QED
      BY <1>1, <1>2, <1>5, <3>1, <3>2 DEF HoldsTap, Running
  <2>6. CASE ConsumeFails(t)
    <3>1. tap[t].pc = "consume" /\ tap'[t].pc = "done"
      BY <2>6, TapMoves DEF ConsumeFails
    <3>2. /\ transport'[t] = "closed"
          /\ UNCHANGED <<session, recordingSession>>
      BY <2>6 DEF ConsumeFails, TypeOK
    <3> QED
      BY <1>1, <1>2, <1>5, <3>1, <3>2 DEF HoldsTap, Running
  <2>7. CASE SessionReady(t)
    <3>1. /\ tap[t].pc = "session"
          /\ tap'[t].pc = IF transport[t] = "open" THEN "connect" ELSE "refused"
      BY <2>7, TapMoves DEF SessionReady
    <3>2. /\ recordingSession'[t[1]] = t
          /\ UNCHANGED <<transport, plainTransport>>
      BY <1>1, <2>7 DEF SessionReady, TypeOK
    <3> QED
      BY <1>1, <1>2, <1>5, <3>1, <3>2 DEF HoldsTap, Running
  <2>8. CASE ConnectFails(t)
    <3>1. /\ tap[t].pc \in {"connect", "refused"}
          /\ tap'[t].pc = "done"
      BY <2>8, TapMoves DEF ConnectFails
    <3>2. StopEffect({t[1]}, {}, "closing")
      BY <1>1, <2>8, StopPeersEffect DEF ConnectFails
    <3> QED
      BY <1>1, <1>2, <1>5, <3>1, <3>2 DEF StopEffect, HoldsTap, Running
  <2> QED
    BY <2>1, <2>2, <2>3, <2>4, <2>5, <2>6, <2>7, <2>8 DEF TapPeer
<1> QED
  BY <1>3, <1>4, <1>5

(* Only by leaving does a peer stop being in the room.                     *)
LEMMA MembersStay ==
    ASSUME TypeOK, [Next]_vars, NEW p \in Peers, member[p] = "in",
           member'[p] # "in"
    PROVE  RemovePeer(p)
<1>1. \A q \in Peers : RemovePeer(q) => q = p
  BY DEF RemovePeer, TypeOK
<1>2. \A q \in Peers : ~Enter(q)
  BY DEF Enter, TypeOK
<1>3. \A t \in Taps : ~TapPeer(t)
  BY TapStep DEF roomVars
<1> QED
  BY <1>1, <1>2, <1>3
     DEF Next, vars, roomVars, StartRecording, StopRecording, Produce,
         ReplaceSendTransport, ProducerClosed, SocketError, SessionClosed,
         SessionCloseFails

LEMMA HoldingsStep ==
    ASSUME TypeOK, Basics, Holdings, OneTapInTurn, [Next]_vars
    PROVE  Holdings'
<1>1. OwnFields
  BY DEF Basics
<1>2. ASSUME NEW p \in Peers, RemovePeer(p)
      PROVE  Holdings'
  <2>1. Stops({p}, {}, "unfinalised") /\ "unfinalised" \in Ends
    BY <1>2 DEF RemovePeer, Stops, Ends
  <2>2. StopEffect({p}, {}, "unfinalised") /\ UNCHANGED tap
    BY <1>1, <2>1, StopsEffect
  <2>3. \A q \in Peers \ {p} : member'[q] = member[q]
    BY <1>2 DEF RemovePeer
  <2> QED
    BY <2>1, <2>2, <2>3, HoldingsStop
<1>3. CASE \A p \in Peers : member[p] = "in" => member'[p] = "in"
  <2>1. CASE Quiet
    BY <1>3, <2>1
       DEF Quiet, objectVars, fieldVars, Holdings, HoldsTap, TappedInTurn,
           TapsOf, Running, Taps
  <2>2. ASSUME NEW ps \in SUBSET Peers, NEW more, NEW end \in Ends,
               Stops(ps, more, end)
        PROVE  Holdings'
    BY <1>1, <1>3, <2>2, StopsEffect, HoldingsStop
  <2>3. ASSUME NEW source, Begins(source)
        PROVE  Holdings'
    <3>1. BeginEffect(source)
      BY <1>1, <2>3, BeginsEffect
    <3>2. "closing" \in Ends
      BY DEF Ends
    <3> QED
      BY <1>3, <3>1, <3>2, HoldingsStop DEF BeginEffect
  <2>4. ASSUME NEW t \in Taps, SessionEnds(t)
        PROVE  Holdings'
    <3>1. /\ UNCHANGED <<roomVars, tap, transport, consumer, fieldVars>>
          /\ \A u \in Taps : session'[u] = "open" => session[u] = "open"
      BY <2>4 DEF SessionEnds, SocketError, SessionClosed, SessionCloseFails,
            CloseSessions, TypeOK
    <3> QED
      BY <3>1 DEF roomVars, fieldVars, Holdings, HoldsTap, TappedInTurn,
            TapsOf, Running
  <2> QED
    BY <2>1, <2>2, <2>3, <2>4, StepShapes, HoldingsTap DEF StepShape
<1> QED
  BY <1>2, <1>3, MembersStay

LEMMA HoldingsInit ==
    ASSUME Init
    PROVE  OneTapInTurn /\ Holdings
BY DEF Init, Unused, OneTapInTurn, Holdings, HoldsTap, Running

(* For a peer tapped by one tap after the other: when a peer that left has *)
(* no tap under way any more, no transport and no session of it is open,   *)
(* wherever the departure, a stop, a closing producer or a failure met     *)
(* its taps.                                                               *)
THEOREM NothingIsLeft == Spec => []DepartedPeerLeavesNothing
<1>1. Init => OneTapInTurn /\ Holdings
  BY HoldingsInit
<1>2. TypeOK /\ Basics /\ OneTapInTurn /\ Holdings /\ [Next]_vars
         => OneTapInTurn' /\ Holdings'
  BY InTurnStep, HoldingsStep
<1>3. TypeOK /\ Holdings => DepartedPeerLeavesNothing
  BY DEF Holdings, HoldsTap, DepartedPeerLeavesNothing, TapsOf, Running
<1> QED
  BY <1>1, <1>2, <1>3, TypeCorrect, BasicsHold, PTL DEF Spec

-----------------------------------------------------------------------------
(***************************************************************************)
(* What has audio is recorded.                                             *)
(***************************************************************************)

(* A tap that has done all it could by now, and whose objects are open.    *)
Healthy(t) ==
    /\ tap[t].pc \notin {"unused", "refused"}
    /\ tap[t].pc \in {"consume", "session", "connect", "done"}
          => transport[t] = "open"
    /\ tap[t].pc \in {"session", "connect", "done"} => consumer[t] = "open"
    /\ tap[t].pc \in {"connect", "done"} => session[t] = "open"

HasOnlyOpen(p) ==
    /\ member[p] = "in"
    /\ producers[p] # <<>>
    /\ \A i \in DOMAIN producers[p] : producers[p][i] = "open"

(* The taps of the peer that are under way are healthy, and one of them    *)
(* has a session to make yet or the session the peer holds is healthy.     *)
HoldsHealthy(p) ==
    \E t \in Taps : /\ t[1] = p
                    /\ recordingSession[p] = t
                    /\ tap[t].pc \in {"connect", "done"}
                    /\ Healthy(t)

IsServed(p) ==
    /\ \A t \in Taps : t[1] = p /\ Running(t) => Healthy(t)
    /\ \/ \E t \in Taps : t[1] = p /\ Running(t) /\ tap[t].pc # "connect"
       \/ HoldsHealthy(p)

(* A peer that is to be recorded is, or a tap is on its way to it.         *)
IsTended(p) ==
    recording /\ faults = 0 /\ HasOnlyOpen(p) /\ TappedInTime(p) => IsServed(p)

AllTended == \A p \in Peers : IsTended(p)

(* Nothing of a peer that its recording depends on changes.                *)
LeavesTaps(p) ==
    /\ \A t \in Taps : t[1] = p
          => /\ tap'[t] = tap[t]
             /\ transport'[t] = transport[t]
             /\ consumer'[t] = consumer[t]
             /\ session[t] = "open" => session'[t] = "open"
    /\ recordingSession'[p] = recordingSession[p]

LEMMA ServedStays ==
    ASSUME NEW p \in Peers, LeavesTaps(p), IsServed(p)
    PROVE  IsServed(p)'
<1>1. ASSUME NEW t \in Taps, t[1] = p
      PROVE  /\ Healthy(t) => Healthy(t)'
             /\ Running(t)' <=> Running(t)
             /\ tap'[t].pc = tap[t].pc
  BY <1>1 DEF LeavesTaps, Healthy, Running
<1>2. ASSUME HoldsHealthy(p)
      PROVE  HoldsHealthy(p)'
  <2>1. PICK t \in Taps : /\ t[1] = p
                         /\ recordingSession[p] = t
                         /\ tap[t].pc \in {"connect", "done"}
                         /\ Healthy(t)
    BY <1>2 DEF HoldsHealthy
  <2>2. /\ Healthy(t)'
        /\ tap'[t].pc \in {"connect", "done"}
        /\ recordingSession'[p] = t
    BY <1>1, <2>1 DEF LeavesTaps
  <2> QED
    BY <2>1, <2>2 DEF HoldsHealthy
<1>3. ASSUME NEW t \in Taps, t[1] = p, Running(t)'
      PROVE  Healthy(t)'
  <2>1. Healthy(t)
    BY <1>1, <1>3 DEF IsServed
  <2> QED
    BY <1>1, <1>3, <2>1
<1>4. \/ \E t \in Taps : t[1] = p /\ Running(t)' /\ tap'[t].pc # "connect"
      \/ HoldsHealthy(p)'
  <2>1. CASE HoldsHealthy(p)
    BY <1>2, <2>1
  <2>2. ASSUME NEW t \in Taps, t[1] = p, Running(t), tap[t].pc # "connect"
        PROVE  Running(t)' /\ tap'[t].pc # "connect"
    BY <1>1, <2>2
  <2> QED
    BY <2>1, <2>2 DEF IsServed
<1> QED
  BY <1>3, <1>4 DEF IsServed

LEMMA InTimeStays ==
    ASSUME NEW p \in Peers, LeavesTaps(p)
    PROVE  TappedInTime(p)' <=> TappedInTime(p)
BY DEF LeavesTaps, TappedInTime, TapsOf

(* The step does not concern p.                                            *)
LEMMA TendedStays ==
    ASSUME TypeOK, NEW p \in Peers, IsTended(p), LeavesTaps(p),
           member'[p] = member[p], producers'[p] = producers[p],
           recording' = recording, faults' >= faults, faults' \in Nat
    PROVE  IsTended(p)'
<1>1. SUFFICES ASSUME recording', faults' = 0, HasOnlyOpen(p)',
                      TappedInTime(p)'
               PROVE  IsServed(p)'
  BY DEF IsTended
<1>2. recording /\ faults = 0 /\ HasOnlyOpen(p) /\ TappedInTime(p)
  BY <1>1, InTimeStays DEF HasOnlyOpen, TypeOK
<1> QED
  BY <1>2, ServedStays DEF IsTended

(* A peer whose tap begins is tended: what it meets has nothing yet.       *)
LEMMA BegunIsTended ==
    ASSUME NEW source, BeginEffect(source), NEW p \in DOMAIN source
    PROVE  IsTended(p)'
<1> SUFFICES ASSUME TappedInTime(p)'
             PROVE  IsServed(p)'
  BY DEF IsTended
<1>1. PICK t \in TapsOf(p) : tap[t].pc = "unused" /\ tap'[t].pc = "prepare"
  BY DEF BeginEffect
<1>2. t \in Taps /\ t[1] = p
  BY <1>1 DEF TapsOf
<1>3. UnderWay(p) \subseteq {"prepare", "transport"}
  <2>1. tap'[t].met = UnderWay(p)
    BY <1>1, <1>2 DEF BeginEffect
  <2>2. tap'[t].met \subseteq {"prepare", "transport"}
    BY <1>1 DEF TappedInTime, TapsOf
  <2> QED
    BY <2>1, <2>2
<1>4. ASSUME NEW u \in Taps, u[1] = p, Running(u)'
      PROVE  Healthy(u)'
  <2>1. CASE tap'[u] # tap[u]
    BY <1>4, <2>1 DEF BeginEffect, Healthy
  <2>2. CASE tap'[u] = tap[u]
    <3>1. tap[u].pc \in UnderWay(p)
      BY <1>4, <2>2 DEF UnderWay, TapsOf, Running
    <3> QED
      BY <1>3, <2>2, <3>1 DEF Healthy
  <2> QED
    BY <2>1, <2>2
<1> QED
  BY <1>1, <1>2, <1>4 DEF IsServed, Running

LEMMA StopLeavesOthers ==
    ASSUME NEW ps, NEW more, NEW end, StopEffect(ps, more, end),
           NEW p \in Peers, p \notin ps, \A t \in more : t[1] # p,
           \A t \in Taps : tap'[t] # tap[t] => t[1] # p
    PROVE  LeavesTaps(p)
BY DEF StopEffect, LeavesTaps

LEMMA OnlyOpenHasAudio ==
    ASSUME TypeOK, NEW p \in Peers, HasOnlyOpen(p)
    PROVE  HasAudio(p)
<1>1. /\ producers[p] \in Seq({"open", "closed"})
      /\ producers[p] # <<>>
      /\ Len(producers[p]) <= MaxProducers
      /\ \A i \in DOMAIN producers[p] : producers[p][i] = "open"
  BY DEF TypeOK, HasOnlyOpen
<1>2. /\ Len(producers[p]) \in Nat \ {0}
      /\ DOMAIN producers[p] = 1 .. Len(producers[p])
  BY <1>1
<1>3. 1 \in 1 .. Len(producers[p]) /\ 1 \in 1 .. MaxProducers
  BY <1>1, <1>2, RecordingBounds
<1>4. IsFirstOpen(p, 1)
  BY <1>1, <1>2, <1>3 DEF IsFirstOpen
<1> QED
  BY <1>3, <1>4 DEF HasAudio

(* A tap of an audible peer, with nothing failing, stays healthy, and      *)
(* leaves the other taps alone.                                            *)
HealthyMove(t) ==
    /\ \A u \in Taps \ {t} : /\ tap'[u] = tap[u]
                             /\ transport'[u] = transport[u]
                             /\ consumer'[u] = consumer[u]
                             /\ session'[u] = session[u]
    /\ \/ /\ Running(t)' /\ tap'[t].pc # "connect"
          /\ recordingSession'[t[1]] = recordingSession[t[1]]
       \/ tap'[t].pc = "connect" /\ recordingSession'[t[1]] = t
       \/ /\ tap[t].pc = "connect" /\ tap'[t].pc = "done"
          /\ recordingSession'[t[1]] = recordingSession[t[1]]

LEMMA HealthyTap ==
    ASSUME TypeOK, Basics, NEW t \in Taps, TapPeer(t), Healthy(t),
           HasOnlyOpen(t[1]), faults' = 0
    PROVE  Healthy(t)' /\ HealthyMove(t)
<1>1. /\ SourceExists /\ MadeInOrder /\ BrokenIsFault /\ OwnFields
      /\ tap \in [Taps -> TapRecords]
      /\ t[1] \in Peers
      /\ faults \in Nat
      /\ \A u \in Taps \ {t} : tap'[u] = tap[u]
  BY TapStep DEF OthersWait, Basics, TypeOK, Taps
<1>2. tap[t].pc \notin {"unused", "done", "refused"}
  BY TapStep DEF Healthy
<1>3. ~Fault /\ faults = 0
  <2>1. faults' >= faults
    BY <1>1, TapStepMakes DEF TapMakes
  <2> QED
    BY <1>1, <2>1 DEF Fault
<1>4. \A u \in Taps : session[u] # "broken"
  BY <1>1, <1>3 DEF BrokenIsFault
<1>5. CASE Prepared(t)
  <2>1. tap'[t].pc = "transport"
    BY <1>1, <1>5, TapPrepared
  <2>2. UNCHANGED <<objectVars, fieldVars>>
    BY <1>5 DEF Prepared
  <2> QED
    BY <1>1, <2>1, <2>2 DEF Healthy, HealthyMove, Running, objectVars, fieldVars
<1>6. ~PrepareFails(t) /\ ~TransportFails(t) /\ ~SessionFails(t)
  <2>1. tap[t].awaits # None => tap[t].awaits \in Taps
    BY <1>1 DEF TapRecords
  <2> QED
    BY <1>3, <1>4, <2>1 DEF PrepareFails, TransportFails, SessionFails
<1>7. ~ConsumeFails(t) /\ ~ConnectFails(t)
  BY <1>2, <1>3 DEF ConsumeFails, ConnectFails, Healthy
<1>8. CASE TransportReady(t)
  <2>1. Audible(t)
    BY <1>1, <1>2 DEF SourceExists, HasOnlyOpen, Audible
  <2> QED
    BY <1>1, <1>8, <2>1, TransportReadyEffect DEF Healthy, HealthyMove, Running
<1>9. CASE ConsumerReady(t)
  <2>1. tap[t].pc = "consume" /\ tap'[t].pc = "session"
    BY <1>1, <1>9, TapMoves DEF ConsumerReady
  <2>2. /\ consumer'[t] = "open"
        /\ \A u \in Taps \ {t} : consumer'[u] = consumer[u]
        /\ UNCHANGED <<transport, session, recordingSession>>
    BY <1>9 DEF ConsumerReady, TypeOK
  <2> QED
    BY <1>1, <2>1, <2>2 DEF Healthy, HealthyMove, Running
<1>10. CASE SessionReady(t)
  <2>1. /\ tap[t].pc = "session"
        /\ tap'[t].pc = IF transport[t] = "open" THEN "connect" ELSE "refused"
    BY <1>1, <1>10, TapMoves DEF SessionReady
  <2>2. /\ session'[t] = "open"
        /\ \A u \in Taps \ {t} : session'[u] = session[u]
        /\ recordingSession'[t[1]] = t
        /\ UNCHANGED <<transport, consumer>>
    BY <1>1, <1>10 DEF SessionReady, TypeOK
  <2> QED
    BY <1>1, <2>1, <2>2 DEF Healthy, HealthyMove
<1>11. CASE Connected(t)
  <2>1. tap[t].pc = "connect" /\ tap'[t].pc = "done"
    BY <1>1, <1>11, TapMoves DEF Connected
  <2>2. UNCHANGED <<objectVars, fieldVars>>
    BY <1>11 DEF Connected
  <2> QED
    BY <1>1, <2>1, <2>2 DEF Healthy, HealthyMove, objectVars, fieldVars
<1> QED
  BY <1>5, <1>6, <1>7, <1>8, <1>9, <1>10, <1>11 DEF TapPeer

LEMMA ServedTap ==
    ASSUME TypeOK, Basics, NEW t \in Taps, TapPeer(t), IsServed(t[1]),
           HasOnlyOpen(t[1]), faults' = 0
    PROVE  IsServed(t[1])'
<1>1. Running(t)
  BY TapStep DEF Running
<1>2. Healthy(t)' /\ HealthyMove(t)
  BY <1>1, HealthyTap DEF IsServed
<1>3. \A u \in Taps : u[1] = t[1] /\ Running(u)' => Healthy(u)'
  BY <1>2 DEF IsServed, HealthyMove, Healthy, Running
<1>4. \/ \E u \in Taps : u[1] = t[1] /\ Running(u)' /\ tap'[u].pc # "connect"
      \/ HoldsHealthy(t[1])'
  <2>1. CASE Running(t)' /\ tap'[t].pc # "connect"
    BY <2>1
  <2>2. CASE tap'[t].pc = "connect" /\ recordingSession'[t[1]] = t
    BY <1>2, <2>2 DEF HoldsHealthy
  <2>3. CASE /\ tap[t].pc = "connect" /\ tap'[t].pc = "done"
             /\ recordingSession'[t[1]] = recordingSession[t[1]]
    <3>1. CASE \E u \in Taps : u[1] = t[1] /\ Running(u) /\ tap[u].pc # "connect"
      <4>1. PICK u \in Taps : u[1] = t[1] /\ Running(u) /\ tap[u].pc # "connect"
        BY <3>1
      <4>2. tap'[u] = tap[u]
        BY <1>2, <2>3, <4>1 DEF HealthyMove
      <4> QED
        BY <4>1, <4>2 DEF Running
    <3>2. CASE HoldsHealthy(t[1])
      <4>1. PICK u \in Taps : /\ u[1] = t[1]
                             /\ recordingSession[t[1]] = u
                             /\ tap[u].pc \in {"connect", "done"}
                             /\ Healthy(u)
        BY <3>2 DEF HoldsHealthy
      <4>2. Healthy(u)' /\ tap'[u].pc \in {"connect", "done"}
        BY <1>2, <2>3, <4>1 DEF HealthyMove, Healthy
      <4> QED
        BY <2>3, <4>1, <4>2 DEF HoldsHealthy
    <3> QED
      BY <3>1, <3>2 DEF IsServed
  <2> QED
    BY <1>2, <2>1, <2>2, <2>3 DEF HealthyMove
<1> QED
  BY <1>3, <1>4 DEF IsServed

LEMMA TendedStep ==
    ASSUME TypeOK, Basics, AllTended, [Next]_vars
    PROVE  AllTended'
<1> SUFFICES ASSUME NEW p \in Peers
             PROVE  IsTended(p)'
  BY DEF AllTended
<1>1. /\ IsTended(p)
      /\ SourceExists /\ MadeInOrder /\ ProducersOfMembers /\ OwnFields
      /\ faults \in Nat /\ faults' \in Nat /\ faults' >= faults
      /\ \A t \in Taps : t[1] \in Peers
  BY TypeStep, BrokenStep DEF AllTended, Basics, TypeOK, Taps
<1>2. CASE UNCHANGED vars
  BY <1>1, <1>2, TendedStays
     DEF vars, roomVars, objectVars, fieldVars, LeavesTaps
<1>3. ASSUME NEW q \in Peers, Enter(q)
      PROVE  IsTended(p)'
  <2>1. LeavesTaps(p) /\ UNCHANGED <<recording, producers>>
    BY <1>3 DEF Enter, objectVars, fieldVars, LeavesTaps
  <2>2. CASE q = p
    <3>1. producers'[p] = <<>>
      BY <1>1, <1>3, <2>1, <2>2 DEF Enter, ProducersOfMembers
    <3> QED
      BY <3>1 DEF IsTended, HasOnlyOpen
  <2>3. CASE q # p
    <3>1. member'[p] = member[p]
      BY <1>3, <2>3 DEF Enter
    <3> QED
      BY <1>1, <2>1, <3>1, TendedStays
  <2> QED
    BY <2>2, <2>3
<1>4. ASSUME NEW q \in Peers, ReplaceSendTransport(q)
      PROVE  IsTended(p)'
  <2>1. LeavesTaps(p) /\ UNCHANGED <<recording, member>>
    BY <1>4 DEF ReplaceSendTransport, objectVars, fieldVars,
          LeavesTaps
  <2>2. /\ \A r \in Peers \ {q} : producers'[r] = producers[r]
        /\ producers'[q] \in Seq({"open", "closed"})
        /\ \A i \in DOMAIN producers'[q] : producers'[q][i] = "closed"
    BY <1>4, ProducersClose DEF ReplaceSendTransport
  <2>3. CASE q = p
    <3>1. ~HasOnlyOpen(p)'
      <4>1. ASSUME producers'[p] # <<>>
            PROVE  1 \in DOMAIN producers'[p]
        BY <2>2, <2>3, <4>1
      <4> QED
        BY <2>2, <2>3, <4>1 DEF HasOnlyOpen
    <3> QED
      BY <3>1 DEF IsTended
  <2>4. CASE q # p
    BY <1>1, <2>1, <2>2, <2>4, TendedStays
  <2> QED
    BY <2>3, <2>4
<1>5. ASSUME NEW q \in Peers, RemovePeer(q)
      PROVE  IsTended(p)'
  <2>1. CASE q = p
    <3>1. member'[p] = "out"
      BY <1>5, <2>1 DEF RemovePeer, TypeOK
    <3> QED
      BY <3>1 DEF IsTended, HasOnlyOpen
  <2>2. CASE q # p
    <3>1. StopEffect({q}, {}, "unfinalised")
      BY <1>1, <1>5, StopPeersEffect DEF RemovePeer
    <3>2. LeavesTaps(p)
      BY <1>5, <2>2, <3>1, StopLeavesOthers DEF RemovePeer
    <3>3. /\ member'[p] = member[p]
          /\ producers'[p] = producers[p]
          /\ recording' = recording
      BY <1>5, <2>2, ProducersClose DEF RemovePeer
    <3> QED
      BY <1>1, <3>2, <3>3, TendedStays
  <2> QED
    BY <2>1, <2>2
<1>6. CASE StopRecording
  BY <1>6 DEF StopRecording, IsTended
<1>7. ASSUME NEW listed \in SUBSET Peers, StartRecording(listed)
      PROVE  IsTended(p)'
  <2>1. PICK source \in [{q \in Present : HasAudio(q)} -> 1 .. MaxProducers] :
           BeginTaps(source)
    BY <1>7 DEF StartRecording
  <2>2. BeginEffect(source)
    BY <1>1, <2>1, StartSources, BeginsEffect DEF Begins
  <2>3. CASE p \in DOMAIN source
    BY <2>2, <2>3, BegunIsTended
  <2>4. CASE p \notin DOMAIN source
    <3>1. ~HasOnlyOpen(p)
      BY <2>4, OnlyOpenHasAudio DEF HasOnlyOpen, Present
    <3>2. ~HasOnlyOpen(p)'
      BY <1>7, <3>1 DEF StartRecording, HasOnlyOpen
    <3> QED
      BY <3>2 DEF IsTended
  <2> QED
    BY <2>3, <2>4
<1>8. ASSUME NEW q \in Peers, Produce(q)
      PROVE  IsTended(p)'
  <2> DEFINE source == [r \in {q} |-> Len(producers[q]) + 1]
  <2>1. UNCHANGED <<recording, member, faults>>
    BY <1>8 DEF Produce
  <2>2. /\ \A r \in Peers \ {q} : producers'[r] = producers[r]
        /\ \A i \in DOMAIN producers[q] :
              i \in DOMAIN producers'[q] /\ producers'[q][i] = producers[q][i]
    BY <1>8, ProducerAdded DEF Produce
  <2>3. CASE BeginTaps(source)
    <3>1. BeginEffect(source)
      BY <1>1, <1>8, <2>3, ProduceSources, BeginsEffect DEF Begins, Produce
    <3>2. CASE q = p
      BY <3>1, <3>2, BegunIsTended
    <3>3. CASE q # p
      <4>1. LeavesTaps(p)
        BY <3>1, <3>3, StopLeavesOthers DEF BeginEffect
      <4> QED
        BY <1>1, <2>1, <2>2, <3>3, <4>1, TendedStays
    <3> QED
      BY <3>2, <3>3
  <2>4. CASE Quiet /\ ~(recording /\ ~IsTapped(q))
    <3>1. LeavesTaps(p)
      BY <2>4 DEF Quiet, objectVars, fieldVars, LeavesTaps
    <3>2. CASE q # p
      BY <1>1, <2>1, <2>2, <3>1, <3>2, TendedStays
    <3>3. CASE q = p
      <4>1. SUFFICES ASSUME recording', faults' = 0, HasOnlyOpen(p)',
                            TappedInTime(p)'
                     PROVE  IsServed(p)'
        BY DEF IsTended
      <4>2. recording /\ faults = 0 /\ IsTapped(p)
        BY <2>1, <2>4, <3>3, <4>1
      <4>3. PICK t \in Taps : t[1] = p /\ consumer[t] = "open"
        BY <1>1, <4>2 DEF IsTapped, OwnFields, TypeOK
      <4>4. tap[t].source \in DOMAIN producers[p]
        BY <1>1, <4>3 DEF MadeInOrder, SourceExists
      <4>5. HasOnlyOpen(p)
        <5>1. producers[p] # <<>>
          BY <4>4
        <5>2. member[p] = "in"
          BY <2>1, <4>1 DEF HasOnlyOpen
        <5>3. \A i \in DOMAIN producers[p] : producers[p][i] = "open"
          BY <2>2, <3>3, <4>1 DEF HasOnlyOpen
        <5> QED
          BY <5>1, <5>2, <5>3 DEF HasOnlyOpen
      <4> QED
        BY <1>1, <3>1, <4>1, <4>2, <4>5, ServedStays, InTimeStays DEF IsTended
    <3> QED
      BY <3>2, <3>3
  <2> QED
    BY <1>8, <2>3, <2>4 DEF Produce, Quiet
<1>9. ASSUME NEW t \in Taps, TapPeer(t)
      PROVE  IsTended(p)'
  <2>1. /\ UNCHANGED roomVars
        /\ Running(t)
    BY <1>9, TapStep DEF Running
  <2>2. CASE t[1] # p
    <3>1. LeavesTaps(p)
      BY <1>1, <1>9, <2>2, TapTouchesOwn DEF TouchesOwn, LeavesTaps
    <3> QED
      BY <1>1, <2>1, <3>1, TendedStays DEF roomVars
  <2>3. CASE t[1] = p
    <3>1. SUFFICES ASSUME recording', faults' = 0, HasOnlyOpen(p)',
                          TappedInTime(p)'
                   PROVE  IsServed(p)'
      BY DEF IsTended
    <3>2. TappedInTime(p)
      BY <3>1, InTurnBefore
    <3>3. HasOnlyOpen(p) /\ IsServed(p)
      BY <1>1, <2>1, <3>1, <3>2 DEF roomVars, HasOnlyOpen, IsTended
    <3> QED
      BY <1>9, <2>3, <3>1, <3>3, ServedTap
  <2> QED
    BY <2>2, <2>3
<1>10. ASSUME NEW t \in Taps, ProducerClosed(t)
       PROVE  IsTended(p)'
  <2>1. UNCHANGED <<roomVars, tap, faults>>
    BY <1>10 DEF ProducerClosed
  <2>2. CASE t[1] # p
    <3>1. StopEffect({t[1]}, {t}, "closing")
      BY <1>1, <1>10, StopPeersEffect DEF ProducerClosed
    <3>2. LeavesTaps(p)
      BY <2>1, <2>2, <3>1, StopLeavesOthers
    <3> QED
      BY <1>1, <2>1, <3>2, TendedStays DEF roomVars
  <2>3. CASE t[1] = p
    <3>1. tap[t].source \in DOMAIN producers[p]
      BY <1>1, <1>10, <2>3 DEF ProducerClosed, MadeInOrder, SourceExists
    <3>2. ~HasOnlyOpen(p)
      BY <1>10, <2>3, <3>1 DEF ProducerClosed, HasOnlyOpen
    <3> QED
      BY <2>1, <3>2 DEF roomVars, HasOnlyOpen, IsTended
  <2> QED
    BY <2>2, <2>3
<1>11. ASSUME NEW t \in Taps, SessionEnds(t)
       PROVE  IsTended(p)'
  <2>1. CASE Fault
    BY <1>1, <2>1 DEF Fault, IsTended
  <2>2. CASE SessionClosed(t)
    <3>1. /\ UNCHANGED <<roomVars, tap, transport, consumer, fieldVars, faults>>
          /\ \A u \in Taps : session[u] = "open" => session'[u] = "open"
      BY <2>2 DEF SessionClosed, TypeOK
    <3>2. LeavesTaps(p)
      BY <3>1 DEF LeavesTaps, fieldVars
    <3> QED
      BY <1>1, <3>1, <3>2, TendedStays DEF roomVars
  <2> QED
    BY <1>11, <2>1, <2>2 DEF SessionEnds, SocketError, SessionCloseFails
<1> QED
  BY <1>2, <1>3, <1>4, <1>5, <1>6, <1>7, <1>8, <1>9, <1>10, <1>11
     DEF Next, SessionEnds

LEMMA TendedInit ==
    ASSUME Init
    PROVE  AllTended
BY DEF Init, AllTended, IsTended

LEMMA TendedIsRecorded ==
    ASSUME TypeOK, AllTended
    PROVE  ProducerIsRecorded
<1> SUFFICES ASSUME recording, faults = 0, NEW p \in Present, HasAudio(p),
                    \A i \in DOMAIN producers[p] : producers[p][i] = "open",
                    TappedInTime(p),
                    \A t \in TapsOf(p) : ~Running(t)
             PROVE  IsRecorded(p)
  BY DEF ProducerIsRecorded
<1>1. p \in Peers /\ HasOnlyOpen(p)
  <2>1. p \in Peers /\ member[p] = "in"
    BY DEF Present
  <2>2. producers[p] # <<>>
    BY <2>1 DEF HasAudio, IsFirstOpen, TypeOK
  <2> QED
    BY <2>1, <2>2 DEF HasOnlyOpen
<1>2. IsServed(p) /\ \A t \in Taps : t[1] = p => ~Running(t)
  BY <1>1 DEF AllTended, IsTended, TapsOf
<1>3. PICK t \in Taps : /\ t[1] = p
                       /\ recordingSession[p] = t
                       /\ tap[t].pc \in {"connect", "done"}
                       /\ Healthy(t)
  BY <1>2 DEF IsServed, HoldsHealthy
<1>4. {transport[t], consumer[t], session[t]} = {"open"}
  BY <1>3 DEF Healthy
<1> QED
  BY <1>3, <1>4, RecordingNone DEF IsRecorded

(* As long as nothing fails: while a room is recorded, every peer that has *)
(* audio, and lost none, is recorded as soon as its taps have run to their *)
(* ends, be there several at a time, unless one of them began when another *)
(* had its transport.                                                      *)
THEOREM AudioIsRecorded == Spec => []ProducerIsRecorded
<1>1. Init => AllTended
  BY TendedInit
<1>2. TypeOK /\ Basics /\ AllTended /\ [Next]_vars => AllTended'
  BY TendedStep
<1>3. TypeOK /\ AllTended => ProducerIsRecorded
  BY TendedIsRecorded
<1> QED
  BY <1>1, <1>2, <1>3, TypeCorrect, BasicsHold, PTL DEF Spec
=============================================================================
