------------------------------ MODULE RoomEvents ------------------------------
(***************************************************************************)
(* What the clients of one room are told.  A join reads the peers and      *)
(* their producers, then enters the socket.io channel, announces itself    *)
(* and is given the backfill; produce, pause, resume and leave change the  *)
(* node and Redis, then tell the channel.  The handlers interleave at each *)
(* await, and an event reaches the sockets of its own instance at once,    *)
(* those of another through the Redis adapter, in the order it was sent.   *)
(*                                                                         *)
(* The room stays open: a further peer, who does nothing, is in it.  Its   *)
(* opening and closing, and failing joins and leaves, are the subject of   *)
(* RoomLifecycle.  A client behaves like a peer of load-test/signal-bots,  *)
(* which consumes every producer it is told of, and pauses and resumes its *)
(* own without waiting for answers: nothing orders two handlers of one     *)
(* socket.                                                                 *)
(***************************************************************************)
EXTENDS Integers, Sequences, FiniteSets

CONSTANTS
    Sockets,     \* socket connections; a socket's id is its peer id
    Instances,   \* replicas of apps/realtime
    Publishers,  \* bound: the sockets that produce, one producer each
    Leavers,     \* bound: the sockets that disconnect
    MaxToggles,  \* bound: pause and resume requests of a socket
    MaxFaults,   \* bound: failures of produce, pause and resume
    Homes        \* the ways the sockets may be spread over the instances

(* The pause and resume requests: <<s, k>> is the k-th of s.               *)
Toggles == Sockets \X (1 .. MaxToggles)

ASSUME EventsBounds == MaxToggles \in Nat /\ MaxFaults \in Nat
ASSUME EventsHomes == Homes \subseteq [Sockets -> Instances]

VARIABLES
    home,          \* the instance each socket is connected to
    peersHash,     \* Redis room:<r>:peers
    producersHash, \* the peers whose Redis hash of producers has their one
    producer,      \* the node: each peer's producer
    client,        \* how far each client is; in the channel from "joined" on
    join,          \* the join handler of each socket
    request,       \* the produce handler of each socket
    toggle,        \* the pauseProducer and resumeProducer handlers
    leave,         \* the handleDisconnect handler of each socket
    link,          \* events under way from one instance to another
    view,          \* what each client has been told
    announced,     \* history: producers whose newProducer was sent
    overlap,       \* history: <<t, p, what>>: t's join ran beside p's handler
    faults         \* failures so far, bounded by MaxFaults

storeVars   == <<peersHash, producersHash>>
handlerVars == <<join, request, leave>>
eventVars   == <<link, view>>
sideVars    == <<toggle, overlap, faults>>
vars == <<home, storeVars, producer, client, handlerVars, eventVars, announced,
          sideVars>>

Links     == {l \in Instances \X Instances : l[1] # l[2]}
Events    == [kind : {"newPeer", "peerClosed", "newProducer",
                      "producerPaused", "producerResumed"}, of : Sockets]
Event(kind, p) == [kind |-> kind, of |-> p]

NotJoining == [pc |-> "idle", peers |-> {}, unread |-> {}, found |-> {}]
NoRequest  == [do |-> "nothing", pc |-> "idle"]
NoToggle   == [do |-> "nothing", pc |-> "unused", apart |-> FALSE]
Unaware    == [peers   |-> {},
               consume |-> [p \in Sockets |-> "none"],
               heard   |-> [p \in Sockets |-> "none"]]

Init ==
    /\ home \in Homes
    /\ peersHash = {}
    /\ producersHash = {}
    /\ producer = [s \in Sockets |-> "none"]
    /\ client = [s \in Sockets |-> "new"]
    /\ join = [s \in Sockets |-> NotJoining]
    /\ request = [s \in Sockets |-> NoRequest]
    /\ leave = [s \in Sockets |-> "none"]
    /\ link = [l \in Links |-> <<>>]
    /\ view = [s \in Sockets |-> Unaware]
    /\ announced = {}
    /\ overlap = {}
    /\ toggle = [r \in Toggles |-> NoToggle]
    /\ faults = 0

InChannel(s) == client[s] \in {"joined", "capable", "ready"}
Local(i) == {t \in Sockets : InChannel(t) /\ home[t] = i}

Joining(s)   == join[s].pc # "idle"
Producing(s) == request[s].do = "produce"
Leaving(s)   == leave[s] \notin {"none", "done"}

(* t's join and a handler of p are under way at the same time.             *)
Meet(pairs) == overlap' = overlap \cup pairs

-----------------------------------------------------------------------------
(***************************************************************************)
(* Events and what a client makes of them.                                 *)
(***************************************************************************)
(* The bot consumes a producer the first time it is told of it: without    *)
(* capabilities ("blind") until it has asked for them, without a transport *)
(* to receive on ("early") until it has created one.                       *)
Asked(t) == CASE client[t] = "capable" -> "early"
              [] client[t] = "ready"   -> "asked"
              [] OTHER                 -> "blind"

ToldOfProducer(t, v, p) ==
    IF v.consume[p] = "none" THEN [v EXCEPT !.consume[p] = Asked(t)] ELSE v

Told(t, e) ==
    LET v == view[t]
    IN  CASE e.kind = "newPeer"         -> [v EXCEPT !.peers = @ \cup {e.of}]
          [] e.kind = "peerClosed"      -> [v EXCEPT !.peers = @ \ {e.of}]
          [] e.kind = "newProducer"     -> ToldOfProducer(t, v, e.of)
          [] e.kind = "producerPaused"  -> [v EXCEPT !.heard[e.of] = "paused"]
          [] e.kind = "producerResumed" -> [v EXCEPT !.heard[e.of] = "playing"]

ViewsAfter(audience, e) ==
    [t \in Sockets |-> IF t \in audience THEN Told(t, e) ELSE view[t]]

Publish(s, e) ==
    link' = [l \in Links |-> IF l[1] = home[s] THEN Append(link[l], e)
                             ELSE link[l]]

(* client.to(roomId).emit: everybody in the channel but the sender.        *)
Emit(s, e) ==
    /\ view' = ViewsAfter(Local(home[s]) \ {s}, e)
    /\ Publish(s, e)

Deliver(l) ==
    /\ link[l] # <<>>
    /\ view' = ViewsAfter(Local(l[2]), Head(link[l]))
    /\ link' = [link EXCEPT ![l] = Tail(@)]
    /\ UNCHANGED <<home, storeVars, producer, client, handlerVars, announced,
                   sideVars>>

-----------------------------------------------------------------------------
(***************************************************************************)
(* join                                                                    *)
(***************************************************************************)
JoinStart(s) ==
    /\ client[s] = "new"
    /\ join[s].pc = "idle"
    /\ join' = [join EXCEPT ![s].pc = "add"]
    /\ Meet(   {<<s, p, "join">> : p \in {q \in Sockets : Joining(q)}}
          \cup {<<p, s, "join">> : p \in {q \in Sockets : Joining(q)}}
          \cup {<<s, p, "produce">> : p \in {q \in Sockets : Producing(q)}}
          \cup {<<s, p, "leave">> : p \in {q \in Sockets : Leaving(q)}})
    /\ UNCHANGED <<home, storeVars, producer, client, request, leave, eventVars,
                   announced, toggle, faults>>

AddPeer(s) ==
    /\ join[s].pc = "add"
    /\ peersHash' = peersHash \cup {s}
    /\ join' = [join EXCEPT ![s].pc = "peers"]
    /\ UNCHANGED <<home, producersHash, producer, client, request, leave, eventVars,
                   announced, sideVars>>

(* Mutant: the joining peer is not left out.                               *)
AllPeers(s) == peersHash

OtherPeers(s) == peersHash \ {s}

ReadPeers(s) ==
    /\ join[s].pc = "peers"
    /\ join' = [join EXCEPT ![s] = [pc |-> "producers", peers |-> OtherPeers(s),
                                    unread |-> OtherPeers(s), found |-> {}]]
    /\ UNCHANGED <<home, storeVars, producer, client, request, leave, eventVars,
                   announced, sideVars>>

(* The hashes of the others' producers are read by commands of their own.  *)
ReadProducers(s, p) ==
    /\ join[s].pc = "producers"
    /\ p \in join[s].unread
    /\ join' = [join EXCEPT ![s] =
                  [pc |-> "producers", peers |-> @.peers, unread |-> @.unread \ {p},
                   found |-> @.found \cup ({p} \cap producersHash)]]
    /\ UNCHANGED <<home, storeVars, producer, client, request, leave, eventVars,
                   announced, sideVars>>

(* The client enters the channel, the others are told, and it is given the *)
(* producers found and then the answer, in this order.                     *)
Enter(s, backfill) ==
    /\ join[s].pc = "producers"
    /\ join[s].unread = {}
    /\ join' = [join EXCEPT ![s] = NotJoining]
    /\ client' = [client EXCEPT ![s] = IF @ = "new" THEN "joined" ELSE @]
    /\ Publish(s, Event("newPeer", s))
    /\ view' = [ViewsAfter(Local(home[s]) \ {s}, Event("newPeer", s))
                  EXCEPT ![s] = [peers   |-> join[s].peers,
                                 consume |-> [p \in Sockets |->
                                    IF p \in backfill THEN "blind" ELSE "none"],
                                 heard   |-> view[s].heard]]
    /\ UNCHANGED <<home, storeVars, producer, request, leave, announced, sideVars>>

(* Mutant: the producers there already were are not announced.             *)
CommitWithoutBackfill(s) == Enter(s, {})

Commit(s) == Enter(s, join[s].found)

-----------------------------------------------------------------------------
(***************************************************************************)
(* The client after its join: capabilities, then transports.               *)
(***************************************************************************)
GetRouterRtpCapabilities(s) ==
    /\ client[s] = "joined"
    /\ client' = [client EXCEPT ![s] = "capable"]
    /\ UNCHANGED <<home, storeVars, producer, handlerVars, eventVars, announced,
                   sideVars>>

CreateTransports(s) ==
    /\ client[s] = "capable"
    /\ client' = [client EXCEPT ![s] = "ready"]
    /\ UNCHANGED <<home, storeVars, producer, handlerVars, eventVars, announced,
                   sideVars>>

(* The node answers a consume request: the producer must be open, and the  *)
(* client must have sent its capabilities and have a transport.            *)
Consume(t, p) ==
    LET asked == view[t].consume[p]
        open  == producer[p] \in {"playing", "paused"}
    IN  /\ asked \in {"blind", "early", "asked"}
        /\ InChannel(t)
        /\ view' = [view EXCEPT ![t].consume[p] =
              CASE asked = "asked" -> IF open THEN "granted" ELSE "refused"
                [] asked = "early" -> IF open /\ client[t] = "ready"
                                        THEN "granted" ELSE "missed"
                [] asked = "blind" -> "missed"]
        /\ UNCHANGED <<home, storeVars, producer, client, handlerVars, link,
                       announced, sideVars>>

-----------------------------------------------------------------------------
(***************************************************************************)
(* produce                                                                 *)
(***************************************************************************)
RequestIs(s, do, pc) == request[s] = [do |-> do, pc |-> pc]
RequestGoesTo(s, pc) == request' = [request EXCEPT ![s].pc = pc]
RequestEnds(s) == request' = [request EXCEPT ![s] = NoRequest]
KnownToNode(s) == leave[s] \notin {"last", "done"}

ProduceStart(s) ==
    /\ s \in Publishers
    /\ client[s] = "ready"
    /\ request[s] = NoRequest
    /\ producer[s] = "none"
    /\ request' = [request EXCEPT ![s] = [do |-> "produce", pc |-> "peer"]]
    /\ Meet({<<t, s, "produce">> : t \in {q \in Sockets : Joining(q)}})
    /\ UNCHANGED <<home, storeVars, producer, client, join, leave, eventVars,
                   announced, toggle, faults>>

(* Mutant: a producer is announced before the node has it.                 *)
AnnouncedAtOnce(s) ==
    /\ request[s].pc = "peer"
    /\ s \in peersHash
    /\ RequestGoesTo(s, "node")
    /\ Emit(s, Event("newProducer", s))
    /\ UNCHANGED <<home, storeVars, producer, client, join, leave, announced,
                   sideVars>>

(* getPeer and getRoom: a peer that is gone is not found.                  *)
GetPeer(s) ==
    /\ request[s].pc = "peer"
    /\ IF s \in peersHash THEN RequestGoesTo(s, "node") ELSE RequestEnds(s)
    /\ UNCHANGED <<home, storeVars, producer, client, join, leave, eventVars,
                   announced, sideVars>>

NodeProduces(s) ==
    /\ RequestIs(s, "produce", "node")
    /\ IF KnownToNode(s)
         THEN /\ producer' = [producer EXCEPT ![s] = "playing"]
              /\ RequestGoesTo(s, "hset")
         ELSE RequestEnds(s) /\ UNCHANGED producer
    /\ UNCHANGED <<home, storeVars, client, join, leave, eventVars, announced,
                   sideVars>>

(* addProducer: HSET, then EXPIRE; only then is the producer announced.    *)
AddProducer(s) ==
    /\ RequestIs(s, "produce", "hset")
    /\ producersHash' = producersHash \cup {s}
    /\ RequestGoesTo(s, "expire")
    /\ UNCHANGED <<home, peersHash, producer, client, join, leave, eventVars,
                   announced, sideVars>>

Announce(s) ==
    /\ RequestIs(s, "produce", "expire")
    /\ Emit(s, Event("newProducer", s))
    /\ announced' = announced \cup {s}
    /\ RequestEnds(s)
    /\ UNCHANGED <<home, storeVars, producer, client, join, leave, sideVars>>

(* The node's answer, the HSET or the EXPIRE fails; nothing is undone.     *)
ProduceFails(s) ==
    /\ Producing(s)
    /\ faults < MaxFaults
    /\ faults' = faults + 1
    /\ \/ /\ request[s].pc = "node"
          /\ producer' = IF KnownToNode(s)
                           THEN [producer EXCEPT ![s] = "playing"] ELSE producer
          /\ UNCHANGED producersHash
       \/ /\ request[s].pc = "hset"
          /\ producersHash' \in {producersHash, producersHash \cup {s}}
          /\ UNCHANGED producer
       \/ /\ request[s].pc = "expire"
          /\ UNCHANGED <<producersHash, producer>>
    /\ RequestEnds(s)
    /\ UNCHANGED <<home, peersHash, client, join, leave, eventVars, announced,
                   toggle, overlap>>

-----------------------------------------------------------------------------
(***************************************************************************)
(* pauseProducer and resumeProducer.  The handlers of one socket run side  *)
(* by side: apart says that one began when no other was under way, and     *)
(* nothing of an earlier one was left for the node to do.                  *)
(***************************************************************************)
TogglesOf(s) == {r \in Toggles : r[1] = s}
ToggleIs(r, pcs) == toggle[r].pc \in pcs
ToggleGoesTo(r, pc) == toggle' = [toggle EXCEPT ![r].pc = pc]
ToggleEnds(r, pc) == toggle' = [toggle EXCEPT ![r].pc = pc, ![r].do = "nothing"]
Pending(r) == ToggleIs(r, {"peer", "node", "tell", "late"})
IsNextToggle(r) ==
    /\ toggle[r].pc = "unused"
    /\ \A k \in 1 .. r[2] - 1 : toggle[<<r[1], k>>].pc # "unused"
IsLastToggle(r) ==
    /\ toggle[r].pc # "unused"
    /\ \A k \in r[2] + 1 .. MaxToggles : toggle[<<r[1], k>>].pc = "unused"

ToggleStart(r, do) ==
    /\ do \in {"pause", "resume"}
    /\ client[r[1]] = "ready"
    /\ r[1] \in announced
    /\ IsNextToggle(r)
    /\ toggle' = [toggle EXCEPT ![r] =
                     [do |-> do, pc |-> "peer",
                      apart |-> \A q \in TogglesOf(r[1]) : ~Pending(q)]]
    /\ UNCHANGED <<home, storeVars, producer, client, handlerVars, eventVars,
                   announced, overlap, faults>>

(* getPeer and getRoom, for these two.                                     *)
GetToggler(r) ==
    /\ ToggleIs(r, {"peer"})
    /\ IF r[1] \in peersHash THEN ToggleGoesTo(r, "node") ELSE ToggleEnds(r, "over")
    /\ UNCHANGED <<home, storeVars, producer, client, handlerVars, eventVars,
                   announced, overlap, faults>>

IsOpen(s) == producer[s] \in {"playing", "paused"}

(* What is asked for, and the event that tells of it.                      *)
Wanted(r) == IF toggle[r].do = "pause" THEN "paused" ELSE "playing"
Says(r) == IF toggle[r].do = "pause" THEN "producerPaused" ELSE "producerResumed"

(* The node finds the peer's own producer, if it is open.                  *)
Apply(r) ==
    producer' = IF IsOpen(r[1]) THEN [producer EXCEPT ![r[1]] = Wanted(r)]
                                ELSE producer

NodeToggles(r) ==
    /\ ToggleIs(r, {"node"})
    /\ Apply(r)
    /\ IF IsOpen(r[1]) THEN ToggleGoesTo(r, "tell") ELSE ToggleEnds(r, "over")
    /\ UNCHANGED <<home, storeVars, client, handlerVars, eventVars, announced,
                   overlap, faults>>

(* The read of Redis or the request to the node fails.  The node has done  *)
(* what it was asked to, or not, or, after a timeout, is still to do it;   *)
(* nobody is told.                                                         *)
ToggleFails(r) ==
    /\ ToggleIs(r, {"peer", "node"})
    /\ faults < MaxFaults
    /\ faults' = faults + 1
    /\ \/ ToggleEnds(r, "over") /\ UNCHANGED producer
       \/ ToggleIs(r, {"node"}) /\ ToggleEnds(r, "over") /\ Apply(r)
       \/ ToggleIs(r, {"node"}) /\ ToggleGoesTo(r, "late") /\ UNCHANGED producer
    /\ UNCHANGED <<home, storeVars, client, handlerVars, eventVars, announced,
                   overlap>>

NodeTogglesLate(r) ==
    /\ ToggleIs(r, {"late"})
    /\ Apply(r)
    /\ ToggleEnds(r, "over")
    /\ UNCHANGED <<home, storeVars, client, handlerVars, eventVars, announced,
                   overlap, faults>>

(* Mutant: the resume handler says what the pause handler says.            *)
TellPaused(r) ==
    /\ ToggleIs(r, {"tell"})
    /\ Emit(r[1], Event("producerPaused", r[1]))
    /\ ToggleEnds(r, "told")
    /\ UNCHANGED <<home, storeVars, producer, client, handlerVars, announced,
                   overlap, faults>>

Tell(r) ==
    /\ ToggleIs(r, {"tell"})
    /\ Emit(r[1], Event(Says(r), r[1]))
    /\ ToggleEnds(r, "told")
    /\ UNCHANGED <<home, storeVars, producer, client, handlerVars, announced,
                   overlap, faults>>

-----------------------------------------------------------------------------
(***************************************************************************)
(* handleDisconnect and leave                                              *)
(***************************************************************************)
(* The socket is out of the channel; leave runs if its join had committed. *)
Disconnect(s) ==
    /\ s \in Leavers
    /\ client[s] # "gone"
    /\ client' = [client EXCEPT ![s] = "gone"]
    /\ IF InChannel(s)
         THEN /\ leave' = [leave EXCEPT ![s] = "hdel"]
              /\ Meet({<<t, s, "leave">> : t \in {q \in Sockets : Joining(q)}})
         ELSE UNCHANGED <<leave, overlap>>
    /\ UNCHANGED <<home, storeVars, producer, join, request, eventVars, announced,
                   toggle, faults>>

LeaveRemovePeer(s) ==
    /\ leave[s] = "hdel"
    /\ peersHash' = peersHash \ {s}
    /\ leave' = [leave EXCEPT ![s] = "del"]
    /\ UNCHANGED <<home, producersHash, producer, client, join, request, eventVars,
                   announced, sideVars>>

LeaveRemoveProducers(s) ==
    /\ leave[s] = "del"
    /\ producersHash' = producersHash \ {s}
    /\ leave' = [leave EXCEPT ![s] = "node"]
    /\ UNCHANGED <<home, peersHash, producer, client, join, request, eventVars,
                   announced, sideVars>>

LeaveNode(s) ==
    /\ leave[s] = "node"
    /\ producer' = [producer EXCEPT ![s] = IF @ = "none" THEN @ ELSE "closed"]
    /\ leave' = [leave EXCEPT ![s] = "last"]
    /\ UNCHANGED <<home, storeVars, client, join, request, eventVars, announced,
                   sideVars>>

(* Mutant: the others are told only by a leave that closes the room.       *)
LeaveUntold(s) ==
    /\ leave[s] = "last"
    /\ leave' = [leave EXCEPT ![s] = "done"]
    /\ UNCHANGED <<home, storeVars, producer, client, join, request, eventVars,
                   announced, sideVars>>

(* Somebody is still in the room, and is told.                             *)
LeaveTell(s) ==
    /\ leave[s] = "last"
    /\ Emit(s, Event("peerClosed", s))
    /\ leave' = [leave EXCEPT ![s] = "done"]
    /\ UNCHANGED <<home, storeVars, producer, client, join, request, announced,
                   sideVars>>

-----------------------------------------------------------------------------
JoinStep(s) == \/ AddPeer(s)
               \/ ReadPeers(s)
               \/ \E p \in Sockets : ReadProducers(s, p)
               \/ Commit(s)

ClientStep(s) == \/ GetRouterRtpCapabilities(s)
                 \/ CreateTransports(s)
                 \/ \E p \in Sockets : Consume(s, p)

RequestStep(s) == \/ GetPeer(s)
                  \/ NodeProduces(s)
                  \/ AddProducer(s)
                  \/ Announce(s)
                  \/ ProduceFails(s)

ToggleStep(r) == \/ \E do \in {"pause", "resume"} : ToggleStart(r, do)
                 \/ GetToggler(r)
                 \/ NodeToggles(r)
                 \/ ToggleFails(r)
                 \/ NodeTogglesLate(r)
                 \/ Tell(r)

LeaveStep(s) == \/ LeaveRemovePeer(s)
                \/ LeaveRemoveProducers(s)
                \/ LeaveNode(s)
                \/ LeaveTell(s)

Next ==
    \/ \E s \in Sockets : JoinStart(s) \/ JoinStep(s)
    \/ \E s \in Sockets : ClientStep(s)
    \/ \E s \in Sockets : ProduceStart(s) \/ RequestStep(s)
    \/ \E r \in Toggles : ToggleStep(r)
    \/ \E s \in Sockets : Disconnect(s) \/ LeaveStep(s)
    \/ \E l \in Links : Deliver(l)

Spec == Init /\ [][Next]_vars

-----------------------------------------------------------------------------
ToggleRecords == [do : {"nothing", "pause", "resume"},
                  pc : {"unused", "peer", "node", "tell", "late", "told",
                        "over"},
                  apart : BOOLEAN]

TypeOK ==
    /\ home \in [Sockets -> Instances]
    /\ peersHash \in SUBSET Sockets
    /\ producersHash \in SUBSET Sockets
    /\ producer \in [Sockets -> {"none", "playing", "paused", "closed"}]
    /\ client \in [Sockets -> {"new", "joined", "capable", "ready", "gone"}]
    /\ join \in [Sockets -> [pc : {"idle", "add", "peers", "producers"},
                             peers : SUBSET Sockets,
                             unread : SUBSET Sockets,
                             found : SUBSET Sockets]]
    /\ \A s \in Sockets :
          s \notin join[s].peers \cup join[s].unread \cup join[s].found
    /\ request \in [Sockets ->
                      [do : {"nothing", "produce"},
                       pc : {"idle", "peer", "node", "hset", "expire"}]]
    /\ leave \in [Sockets -> {"none", "hdel", "del", "node", "last", "done"}]
    /\ link \in [Links -> Seq(Events)]
    /\ view \in [Sockets ->
          [peers : SUBSET Sockets,
           consume : [Sockets -> {"none", "blind", "early", "asked", "granted",
                                  "refused", "missed"}],
           heard : [Sockets -> {"none", "playing", "paused"}]]]
    /\ announced \in SUBSET Sockets
    /\ overlap \in SUBSET (Sockets \X Sockets \X {"join", "produce", "leave"})
    /\ toggle \in [Toggles -> ToggleRecords]
    /\ faults \in Nat

-----------------------------------------------------------------------------
Quiet == \A l \in Links : link[l] = <<>>
KnowsProducer(t, p) == view[t].consume[p] # "none"

(* Between the backfill of a join and the broadcast of a produce, no       *)
(* client misses a producer, whatever the order of the two handlers and    *)
(* on whichever instances, unless they ran at the same time                *)
(* (signaling.service.ts:35-46, signaling.gateway.ts:46-48, 91).           *)
ProducersAreKnown ==
    Quiet => \A t, p \in Sockets :
        /\ t # p /\ InChannel(t) /\ InChannel(p)
        /\ p \in announced
        /\ <<t, p, "produce">> \notin overlap
        => KnowsProducer(t, p)

(* Clients whose joins did not overlap know of each other, and a client    *)
(* forgets a peer whose leave did not overlap its join: answers, newPeer   *)
(* and peerClosed leave no gap and no ghost, although they are sent by     *)
(* three handlers over two kinds of path (signaling.gateway.ts:44, 172).   *)
PeersAreKnown ==
    Quiet => \A t, p \in Sockets : t # p /\ InChannel(t) =>
        /\ InChannel(p) /\ <<t, p, "join">> \notin overlap
              => p \in view[t].peers
        /\ leave[p] = "done" /\ <<t, p, "leave">> \notin overlap
              => p \notin view[t].peers

(* When the last pause or resume of a producer has been told and its       *)
(* events have arrived, what a client last heard is whether the producer   *)
(* is paused (docs/sfu-signaling-design.md:122-127), whatever became of    *)
(* those before it, told in another order than they took effect in or      *)
(* failed after they did: as long as the last one began when they were     *)
(* over, for the gateway orders nothing between two handlers of one socket *)
(* (signaling.gateway.ts:114-138).                                         *)
PauseIsKnown ==
    \A t, p \in Sockets :
        /\ InChannel(t) /\ InChannel(p)
        /\ \E r \in TogglesOf(p) :
              IsLastToggle(r) /\ ToggleIs(r, {"told"}) /\ toggle[r].apart
        /\ \A l \in Links : l[1] = home[p] => link[l] = <<>>
        /\ view[t].heard[p] # "none"
        => view[t].heard[p] = producer[p]

(* A client that has its capabilities and its transports when it is told   *)
(* of a producer can consume it, unless its owner has left: nothing is     *)
(* announced before the node has it (signaling.service.ts:108-118).        *)
ReadyClientCanConsume ==
    \A t, p \in Sockets : view[t].consume[p] = "refused" => client[p] = "gone"

-----------------------------------------------------------------------------
(* What the repository says and the code does not keep.                    *)

(* A joining client is told of the producers that exist when it gets its   *)
(* answer: it has no other way to learn of them                            *)
(* (docs/sfu-signaling-design.md:131-139).                                 *)
NobodyMissesAProducer ==
    Quiet => \A t, p \in Sockets :
        t # p /\ InChannel(t) /\ InChannel(p) /\ p \in announced
            => KnowsProducer(t, p)
=============================================================================
