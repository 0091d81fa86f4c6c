------------------------------ MODULE Recording ------------------------------
(***************************************************************************)
(* The recording of one MediaRoom.  Starting the recording and producing   *)
(* audio while it is on each tap a peer: a chain of awaited calls that     *)
(* gives the peer a plain transport, a consumer on it and a session that   *)
(* writes a file.  Stops, departures, closing producers and other taps     *)
(* interleave at each await.  One action is one await and the synchronous  *)
(* code behind it.                                                         *)
(*                                                                         *)
(* A tap makes at most one transport, one consumer and one session: they   *)
(* go by the tap, <<p, k>> for the k-th tap of peer p.  A peer here is a   *)
(* MediaPeer object: it enters the room once and leaves it once.           *)
(***************************************************************************)
EXTENDS Integers, Sequences

CONSTANTS
    Peers,        \* MediaPeer objects of the room
    DisplayFile,  \* the file name each peer's display name is turned into
    IdFile,       \* the file name each peer's id is turned into
    None,
    MaxProducers, \* bound: audio producers of a peer
    MaxTaps,      \* bound: taps of a peer
    MaxFaults,    \* bound: failures of mediasoup, sockets and files
    Replacing     \* whether clients replace their send transport

Taps  == Peers \X (1 .. MaxTaps)
Files == {DisplayFile[p] : p \in Peers} \cup {IdFile[p] : p \in Peers}

ASSUME RecordingBounds ==
    MaxProducers \in Nat /\ MaxTaps \in Nat /\ MaxFaults \in Nat
ASSUME RecordingNone == None \notin Taps /\ None \notin Files

VARIABLES
    recording,         \* MediaRoom.recording
    member,            \* whether each peer is yet to come, in the room, or out
    named,             \* peers whose displayName is set
    producers,         \* each peer's audio producers, in the order of the Map
    tap,               \* the taps: where each is, what it knows, and where
                       \* those it began beside had come to (met, history)
    transport,         \* the plain transport of each tap
    consumer,          \* the consumer of each tap
    session,           \* the RecordingSession of each tap
    plainTransport,    \* MediaPeer.plainTransport
    recordingConsumer, \* MediaPeer.recordingConsumer
    recordingSession,  \* MediaPeer.recordingSession
    faults             \* failures so far, bounded by MaxFaults

roomVars   == <<recording, member, named, producers>>
objectVars == <<transport, consumer, session>>
fieldVars  == <<plainTransport, recordingConsumer, recordingSession>>
vars == <<roomVars, tap, objectVars, fieldVars, faults>>

Unused == [pc |-> "unused", source |-> 0, file |-> None, awaits |-> None,
           met |-> {}]

Init ==
    /\ recording = FALSE
    /\ member = [p \in Peers |-> "new"]
    /\ named = {}
    /\ producers = [p \in Peers |-> <<>>]
    /\ tap = [t \in Taps |-> Unused]
    /\ transport = [t \in Taps |-> "none"]
    /\ consumer = [t \in Taps |-> "none"]
    /\ session = [t \in Taps |-> "none"]
    /\ plainTransport = [p \in Peers |-> None]
    /\ recordingConsumer = [p \in Peers |-> None]
    /\ recordingSession = [p \in Peers |-> None]
    /\ faults = 0

Fault == faults < MaxFaults /\ faults' = faults + 1

Present == {p \in Peers : member[p] = "in"}
Running(t) == tap[t].pc \notin {"unused", "done"}
TapsOf(p) == {t \in Taps : t[1] = p}
(* The taps of a peer are used in their order.                             *)
IsNextTap(t) == /\ tap[t].pc = "unused"
                /\ \A k \in 1 .. t[2] - 1 : tap[<<t[1], k>>].pc # "unused"
(* Where the taps of a peer that are under way have come to.               *)
UnderWay(p) == {tap[t].pc : t \in {u \in TapsOf(p) : Running(u)}}
TapGoesTo(t, pc) == tap' = [tap EXCEPT ![t].pc = pc]

(* The first audio producer of the peer that is not closed.                *)
IsFirstOpen(p, i) ==
    /\ i \in 1 .. Len(producers[p])
    /\ producers[p][i] = "open"
    /\ \A j \in 1 .. i - 1 : producers[p][j] = "closed"
HasAudio(p) == \E i \in 1 .. MaxProducers : IsFirstOpen(p, i)
AllClosed(p) == [i \in 1 .. Len(producers[p]) |-> "closed"]

-----------------------------------------------------------------------------
Held(field, ps) == {field[p] : p \in ps}

(* Mutant: a session that is already closed is closed again.               *)
CloseSessionsAgain(ss, end) ==
    session' = [t \in Taps |-> IF t \in ss THEN end ELSE session[t]]

(* A session is closed once, whoever comes first.                          *)
CloseSessions(ss, end) ==
    session' = [t \in Taps |->
                  IF t \in ss /\ session[t] = "open" THEN end ELSE session[t]]

(* stopPeerRecording up to its await, for some peers, which leaves sessions *)
(* "closing"; MediaRoom's own version leaves them "unfinalised".  A        *)
(* transport takes its consumer with it.                                   *)
StopPeers(ps, more, end) ==
    /\ transport' = [t \in Taps |->
                       IF t \in Held(plainTransport, ps) THEN "closed"
                       ELSE transport[t]]
    /\ consumer' = [t \in Taps |->
                      IF /\ t \in Held(plainTransport, ps)
                                    \cup Held(recordingConsumer, ps) \cup more
                         /\ consumer[t] = "open"
                      THEN "closed" ELSE consumer[t]]
    /\ CloseSessions(Held(recordingSession, ps), end)
    /\ plainTransport' =
          [p \in Peers |-> IF p \in ps THEN None ELSE plainTransport[p]]
    /\ recordingConsumer' =
          [p \in Peers |-> IF p \in ps THEN None ELSE recordingConsumer[p]]
    /\ recordingSession' =
          [p \in Peers |-> IF p \in ps THEN None ELSE recordingSession[p]]

(* tapPeer up to its first await, for some peers at once: whatever the     *)
(* peer had is stopped, and its open session's end is awaited.             *)
BeginTaps(source) ==
    LET ps == DOMAIN source
        new(t) == t[1] \in ps /\ IsNextTap(t)
        old(p) == recordingSession[p]
        awaited(p) == IF old(p) # None /\ session[old(p)] = "open"
                        THEN old(p) ELSE None
    IN  /\ \A p \in ps : \E t \in TapsOf(p) : IsNextTap(t)
        /\ tap' = [t \in Taps |->
                     IF new(t) THEN [pc |-> "prepare", source |-> source[t[1]],
                                     file |-> None, awaits |-> awaited(t[1]),
                                     met |-> UnderWay(t[1])]
                     ELSE tap[t]]
        /\ StopPeers(ps, {}, "closing")

-----------------------------------------------------------------------------
(***************************************************************************)
(* The requests of MediaRoomsService.                                      *)
(***************************************************************************)
Enter(p) ==
    /\ member[p] = "new"
    /\ member' = [member EXCEPT ![p] = "in"]
    /\ UNCHANGED <<recording, named, producers, tap, objectVars, fieldVars,
                   faults>>

(* listed: the peers the realtime service names.  Those in the room get    *)
(* their display name; every peer that has audio is tapped.                *)
StartRecording(listed) ==
    /\ recording' = TRUE
    /\ named' = named \cup (listed \cap Present)
    /\ \E source \in [{p \in Present : HasAudio(p)} -> 1 .. MaxProducers] :
          /\ \A p \in DOMAIN source : IsFirstOpen(p, source[p])
          /\ BeginTaps(source)
    /\ UNCHANGED <<member, producers, faults>>

StopRecording ==
    /\ recording' = FALSE
    /\ StopPeers(Present, {}, "closing")
    /\ UNCHANGED <<member, named, producers, tap, faults>>

IsTapped(p) ==
    LET c == recordingConsumer[p] IN c # None /\ consumer[c] = "open"

(* Mutant: a producer made while the recording is on is not tapped.        *)
ProduceUntapped(p) ==
    /\ member[p] = "in"
    /\ Len(producers[p]) < MaxProducers
    /\ producers' = [producers EXCEPT ![p] = Append(@, "open")]
    /\ UNCHANGED <<recording, member, named, faults, tap, objectVars, fieldVars>>

(* produce, for audio: the peer is tapped if the room is being recorded    *)
(* and the peer is not.                                                    *)
Produce(p) ==
    /\ member[p] = "in"
    /\ Len(producers[p]) < MaxProducers
    /\ producers' = [producers EXCEPT ![p] = Append(@, "open")]
    /\ IF recording /\ ~IsTapped(p)
         THEN BeginTaps([q \in {p} |-> Len(producers[p]) + 1])
         ELSE UNCHANGED <<tap, objectVars, fieldVars>>
    /\ UNCHANGED <<recording, member, named, faults>>

(* A second send transport closes the first, and its producers.            *)
ReplaceSendTransport(p) ==
    /\ Replacing
    /\ member[p] = "in"
    /\ producers' = [producers EXCEPT ![p] = AllClosed(p)]
    /\ UNCHANGED <<recording, member, named, tap, objectVars, fieldVars, faults>>

(* MediaRoom.removePeer: the header of the peer's file is left as it is.   *)
RemovePeer(p) ==
    /\ member[p] = "in"
    /\ member' = [member EXCEPT ![p] = "out"]
    /\ StopPeers({p}, {}, "unfinalised")
    /\ producers' = [producers EXCEPT ![p] = AllClosed(p)]
    /\ UNCHANGED <<recording, named, tap, faults>>

-----------------------------------------------------------------------------
(***************************************************************************)
(* tapPeer, behind each of its awaits.                                     *)
(***************************************************************************)
(* Mutant: a peer without a display name is not known by its id instead.   *)
FileOfUndefined(p) == IF p \in named THEN DisplayFile[p] ELSE <<"undefined">>

FileOf(p) == IF p \in named THEN DisplayFile[p] ELSE IdFile[p]

OldSessionEnds(t) ==
    tap[t].awaits # None => session[tap[t].awaits] # "closing"

(* The old session is closed and the directory is there; the file is named.*)
Prepared(t) ==
    /\ tap[t].pc = "prepare"
    /\ OldSessionEnds(t)
    /\ tap[t].awaits # None => session[tap[t].awaits] # "broken"
    /\ tap' = [tap EXCEPT ![t] = [@ EXCEPT !.pc = "transport",
                                         !.file = FileOf(t[1])]]
    /\ UNCHANGED <<roomVars, objectVars, fieldVars, faults>>

PrepareFails(t) ==
    /\ tap[t].pc = "prepare"
    /\ OldSessionEnds(t)
    /\ IF tap[t].awaits # None /\ session[tap[t].awaits] = "broken"
         THEN UNCHANGED faults ELSE Fault
    /\ TapGoesTo(t, "done")
    /\ UNCHANGED <<roomVars, objectVars, fieldVars>>

(* Consuming a producer that is closed by now is refused at once, and the  *)
(* transport is closed again.                                              *)
TransportReady(t) ==
    /\ tap[t].pc = "transport"
    /\ LET p == t[1]
           audible == producers[p][tap[t].source] = "open"
       IN  /\ transport' = [transport EXCEPT ![t] =
                               IF audible THEN "open" ELSE "closed"]
           /\ plainTransport' = [plainTransport EXCEPT ![p] =
                                    IF audible THEN t ELSE None]
           /\ TapGoesTo(t, IF audible THEN "consume" ELSE "done")
    /\ UNCHANGED <<roomVars, consumer, session, recordingConsumer,
                   recordingSession, faults>>

TransportFails(t) ==
    /\ tap[t].pc = "transport"
    /\ Fault
    /\ TapGoesTo(t, "done")
    /\ UNCHANGED <<roomVars, objectVars, fieldVars>>

ConsumerReady(t) ==
    /\ tap[t].pc = "consume"
    /\ consumer' = [consumer EXCEPT ![t] = "open"]
    /\ recordingConsumer' = [recordingConsumer EXCEPT ![t[1]] = t]
    /\ TapGoesTo(t, "session")
    /\ UNCHANGED <<roomVars, transport, session, plainTransport,
                   recordingSession, faults>>

ConsumeFails(t) ==
    /\ tap[t].pc = "consume"
    /\ IF transport[t] = "open" THEN Fault ELSE UNCHANGED faults
    /\ transport' = [transport EXCEPT ![t] = "closed"]
    /\ plainTransport' = [plainTransport EXCEPT ![t[1]] = None]
    /\ TapGoesTo(t, "done")
    /\ UNCHANGED <<roomVars, consumer, session, recordingConsumer,
                   recordingSession>>

(* The file is open and the socket bound; connecting a transport that was  *)
(* closed meanwhile will be refused.                                       *)
SessionReady(t) ==
    /\ tap[t].pc = "session"
    /\ session' = [session EXCEPT ![t] = "open"]
    /\ recordingSession' = [recordingSession EXCEPT ![t[1]] = t]
    /\ TapGoesTo(t, IF transport[t] = "open" THEN "connect" ELSE "refused")
    /\ UNCHANGED <<roomVars, transport, consumer, plainTransport,
                   recordingConsumer, faults>>

SessionFails(t) ==
    /\ tap[t].pc = "session"
    /\ Fault
    /\ TapGoesTo(t, "done")
    /\ UNCHANGED <<roomVars, objectVars, fieldVars>>

Connected(t) ==
    /\ tap[t].pc = "connect"
    /\ TapGoesTo(t, "done")
    /\ UNCHANGED <<roomVars, objectVars, fieldVars, faults>>

(* Mutant: a failing connect leaves the session to itself.                 *)
ConnectFailsUncleaned(t) ==
    /\ tap[t].pc \in {"connect", "refused"}
    /\ IF transport[t] = "open" THEN Fault ELSE UNCHANGED faults
    /\ TapGoesTo(t, "done")
    /\ UNCHANGED <<roomVars, objectVars, fieldVars>>

(* The peer, whatever it holds by now, is stopped.                         *)
ConnectFails(t) ==
    /\ tap[t].pc \in {"connect", "refused"}
    /\ IF transport[t] = "open" THEN Fault ELSE UNCHANGED faults
    /\ StopPeers({t[1]}, {}, "closing")
    /\ TapGoesTo(t, "done")
    /\ UNCHANGED roomVars

-----------------------------------------------------------------------------
(* The worker reports that the producer a consumer reads from has closed:  *)
(* the peer, whatever it holds by now, is stopped.                         *)
ProducerClosed(t) ==
    /\ consumer[t] = "open"
    /\ transport[t] = "open"
    /\ producers[t[1]][tap[t].source] = "closed"
    /\ StopPeers({t[1]}, {t}, "closing")
    /\ UNCHANGED <<roomVars, tap, faults>>

(* An error on the session's socket closes the session, nothing else.      *)
SocketError(t) ==
    /\ session[t] = "open"
    /\ Fault
    /\ CloseSessions({t}, "closing")
    /\ UNCHANGED <<roomVars, tap, transport, consumer, fieldVars>>

(* The sizes are written to the header and the file is closed.             *)
SessionClosed(t) ==
    /\ session[t] = "closing"
    /\ session' = [session EXCEPT ![t] = "finalised"]
    /\ UNCHANGED <<roomVars, tap, transport, consumer, fieldVars, faults>>

SessionCloseFails(t) ==
    /\ session[t] = "closing"
    /\ Fault
    /\ session' = [session EXCEPT ![t] = "broken"]
    /\ UNCHANGED <<roomVars, tap, transport, consumer, fieldVars>>

-----------------------------------------------------------------------------
TapPeer(t) ==
    \/ Prepared(t) \/ PrepareFails(t)
    \/ TransportReady(t) \/ TransportFails(t)
    \/ ConsumerReady(t) \/ ConsumeFails(t)
    \/ SessionReady(t) \/ SessionFails(t)
    \/ Connected(t) \/ ConnectFails(t)

Next ==
    \/ \E listed \in SUBSET Peers : StartRecording(listed)
    \/ StopRecording
    \/ \E p \in Peers : \/ Enter(p)
                        \/ Produce(p)
                        \/ ReplaceSendTransport(p)
                        \/ RemovePeer(p)
    \/ \E t \in Taps : \/ TapPeer(t)
                       \/ ProducerClosed(t)
                       \/ SocketError(t)
                       \/ SessionClosed(t)
                       \/ SessionCloseFails(t)

Spec == Init /\ [][Next]_vars

-----------------------------------------------------------------------------
TapStates == {"unused", "prepare", "transport", "consume", "session",
              "connect", "refused", "done"}
TapRecords == [pc : TapStates,
               source : 0 .. MaxProducers,
               file : Files \cup {None},
               awaits : Taps \cup {None},
               met : SUBSET TapStates]

TypeOK ==
    /\ recording \in BOOLEAN
    /\ member \in [Peers -> {"new", "in", "out"}]
    /\ named \in SUBSET Peers
    /\ producers \in [Peers -> Seq({"open", "closed"})]
    /\ \A p \in Peers : Len(producers[p]) <= MaxProducers
    /\ tap \in [Taps -> TapRecords]
    /\ transport \in [Taps -> {"none", "open", "closed"}]
    /\ consumer \in [Taps -> {"none", "open", "closed"}]
    /\ session \in [Taps -> {"none", "open", "closing", "finalised",
                             "unfinalised", "broken"}]
    /\ plainTransport \in [Peers -> Taps \cup {None}]
    /\ recordingConsumer \in [Peers -> Taps \cup {None}]
    /\ recordingSession \in [Peers -> Taps \cup {None}]
    /\ faults \in Nat

(* No step undoes the end of a session, or changes which end it was.       *)
StaysClosed ==
    \A t \in Taps :
        /\ session[t] \in {"finalised", "unfinalised", "broken"}
              => session'[t] = session[t]
        /\ session[t] = "closing" => session'[t] # "unfinalised"

(* A file handle is closed once: of a stop, a departure, a closing         *)
(* producer, a failing connect and a socket error that meet at one         *)
(* session, the first closes it, and the others change nothing of how it   *)
(* ended (recording.service.ts:305, media-room.entity.ts:62).              *)
SessionClosedOnce == [][StaysClosed]_vars

(* Whether no tap of a peer began beside another of its taps, and whether   *)
(* one did at most while the other had nothing to be stopped yet.          *)
TappedInTurn(p) == \A t \in TapsOf(p) : tap[t].met = {}
TappedInTime(p) ==
    \A t \in TapsOf(p) : tap[t].met \subseteq {"prepare", "transport"}

(* When the last tap of a peer that left has run to its end, wherever the  *)
(* departure caught it, neither a plain transport (and its consumer) nor a *)
(* session (its socket and file) is left open                              *)
(* (media-room.entity.ts:59-79 with recording.service.ts:143-149).  For    *)
(* peers tapped by one tap after the other: of two that overlap the peer   *)
(* knows the later one's objects only.                                     *)
DepartedPeerLeavesNothing ==
    \A p \in Peers :
        /\ member[p] = "out"
        /\ TappedInTurn(p)
        /\ \A t \in TapsOf(p) : ~Running(t)
        => \A u \in TapsOf(p) : "open" \notin {transport[u], session[u]}

IsRecorded(p) ==
    LET t == recordingSession[p]
    IN  t # None /\ {transport[t], consumer[t], session[t]} = {"open"}

(* While a room is recorded, every peer with audio is, as soon as its taps *)
(* have run to their ends: between the start that looks at the producers   *)
(* there are and the produce that looks at the recording flag no peer is   *)
(* missed, though it may be tapped twice, nothing keeping the two apart    *)
(* (recording.service.ts:47-53, 80-92).  For peers that lose no producer,  *)
(* as long as nothing fails, and unless a tap began when another of the    *)
(* peer had its transport already: it closes that transport, and the       *)
(* refusal the other one meets stops whatever the peer holds by then       *)
(* (recording.service.ts:92, 143-147).                                     *)
ProducerIsRecorded ==
    recording /\ faults = 0 =>
        \A p \in Present :
            /\ HasAudio(p)
            /\ \A i \in DOMAIN producers[p] : producers[p][i] = "open"
            /\ TappedInTime(p)
            /\ \A t \in TapsOf(p) : ~Running(t)
            => IsRecorded(p)
=============================================================================
