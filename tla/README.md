# A verification of meet-server in TLA+

meet-server is the signaling and media-forwarding backend of group video calls:
stateless `apps/realtime` instances (socket.io, Redis) in front of independent
`apps/sfu` nodes (mediasoup), which they call over HTTP. The modules here model
what both do between one `await` and the next, TLC checks them on small
instances, and TLAPS proves every invariant the runs check, and every refinement,
for any number of sockets, instances, rooms, nodes, peers and packets.

## Inventory

| Component | State | Operations | Correct when |
|---|---|---|---|
| `signaling.gateway`, `signaling.service`, `rooms.service` (realtime) | Redis `room:<r>`, `room:<r>:peers`, `peer:<r>:<p>:producers`; `pendingRooms` of each instance; `client.data` of each socket | `join`, `createWebRtcTransport`, `connect`, `produce`, `consume`, pause/resume, start/stop recording, `handleDisconnect` | a member is recorded until it leaves; two members know of each other; a room is closed when, and only when, it is empty |
| `redis-scripts` | – | `closeRoomIfEmpty` (Lua) | checks and deletes in one step |
| `sfu-client`, `sfu-registry` (realtime) | – | one HTTP request per operation, 10 s timeout; `pickLeastLoaded` | a room keeps its node; a failure reaches the caller |
| `chat` (realtime) | Redis stream `chat:<r>` | `sendChatMessage`, `getChatHistory`, `deleteRoomHistory` | history lives as long as its room |
| `media-rooms` (sfu) | `rooms`, `pendingRooms`, per MediaRoom `peers`, `recording`; per MediaPeer its transports, producers, consumers | create-or-get, `createTransport`, `connect`, `produce`, `consume`, pause/resume, `removePeer`, `closeRoom` | each open router is registered, each open transport can be closed, an occupied room is not closed |
| `workers` (sfu) | `routersPerWorker` | `reserveWorker`, `trackRouterClosed`, spawn, shutdown | counts equal open routers; bursts are spread |
| `recording` (sfu) | per MediaPeer `plainTransport`, `recordingConsumer`, `recordingSession` | start, stop, tap a peer, packets, `meeting.json` | while recording each peer with audio is recorded once; nothing stays open afterwards |
| `libs/media-contracts` | – | DTOs, routes, `buildMediaRoomPath` | a path is built from its pattern |
| bootstrap, config, Redis adapter, WS filter, `deploy/`, `load-test/` | – | wiring | – |

How they interact. Every socket message runs a handler on its instance: a chain
of Redis commands and HTTP requests, each awaited. Nothing orders the handlers of
different sockets, or two handlers of one socket, and instances share only Redis
and the nodes. On a disconnect the gateway calls `leave` when the socket has
joined; the last one to leave closes the room in Redis, and then asks the node to
close the MediaRoom without waiting for the answer. A node is one Node.js process;
its requests interleave where it awaits mediasoup or the file system. Recording
listens to mediasoup events (`producerclose`) and to UDP sockets.

What is hard: check-then-act over an await (room key, emptiness, a peer that
"existed"); requests that time out at the caller and take effect later; instances
that crash with their handlers half done; promises shared by several handlers;
resources handed from one await to the next. `PROJECT.json` lists each under
`hazards`, at its line.

## Modules

| Module | Models |
|---|---|
| `RoomMembership` | the abstract room: opened, entered, seen, left, closed only while nobody is in it |
| `MediaNode` | the abstract sfu node: rooms hosted and closed, peers admitted and dismissed, closings that wait or do not |
| `RoomLifecycle` | `join`, `handleDisconnect`/`leave` and `createWebRtcTransport` of every socket on every instance, the Redis keys, and the nodes as the realtime side sees them |
| `RoomLifecycleProofs` | the theorems about `RoomLifecycle` |
| `MediaRooms` | one sfu node: rooms, routers, peers, transports, the worker pool |
| `MediaRoomsProofs` | the theorems about `MediaRooms` |
| `MediaStreams` | the producers and consumers of a node, on top of `MediaRooms`, which it extends |
| `MediaStreamsProofs` | the theorems about `MediaStreams`, on those about `MediaRooms` |
| `Recording` | the recording of one MediaRoom: who is tapped, and when a session ends |
| `RecordingProofs` | the theorems about `Recording` |
| `RecordingFile` | one recording session: packets, silence, unawaited writes, the sizes in the header |
| `RecordingFileProofs` | the theorems about `RecordingFile` |
| `RoomEvents` | what clients are told: `join`'s answer and backfill, `newPeer`, `newProducer`, pause and resume, `peerClosed`, through the Redis adapter |
| `RoomEventsProofs` | the theorems about `RoomEvents` |
| `Chat` | the chat of a room: broadcast and history, and the deletion when a meeting ends |
| `ChatProofs` | the theorems about `Chat` |
| `MC...` | instances of these for TLC |

**RoomLifecycle.** `join[s]`, `leave[s]` and `media[s]` are the handlers of socket
`s`; `pc` names the await a handler stands at: for a join `get` (GET of the room
key), `wait` (another join's creation), `pick` (statistics of the nodes), `put`
(PUT of the MediaRoom), `set` (SET of the room key), `add` (HSET), `read` (the
others and their producers), `rollback`, `commit`; for a leave `get`, `hdel`,
`sfuRemove`, `isEmpty`, `close` (the Lua script). One action is the effect of the
awaited command and the synchronous code behind it. `roomKey[r]` is the Redis
value reduced to the node it names, `peersHash[r]` the members; the node is a set
of MediaRooms and of MediaPeers. At `pick` the nodes answer one by one
(`FetchNodeStats`): `stats[s]` holds what each has said so far, which may be
out of date when the last answers and the choice is made. `late` holds the requests nobody waits for any
more: the closing of a MediaRoom, which the code does not await, and any request
whose caller timed out or crashed. They are delivered in any order, or lost.
`rejoined` is a history variable. The kinds of failure are constants of a run:
a Redis read, a Redis write (with or without its effect), an HTTP request, the
restart of a node, the crash of an instance. Each failing step ends where the
code's `throw` or `catch` ends.

Redis commands that a handler issues one after the other without reading
anything in between (HSET and EXPIRE, HDEL and DEL, the GETs of the producers)
are one step where the second does not change what is modelled; a failure between
them is a `write` failure that took effect.

`MediaNode` stands between the two sides of the HTTP interface. `RoomLifecycle`
maps each of its nodes to one (`Node(n)`: the pairs of `mediaRooms` and
`mediaPeers` that name `n`, no closing that waits), and `MediaRooms` maps itself
to one (`Node`: the ids in `rooms`, the peers in their `peers` maps, the rooms
with a suspended `closeRoom`). So the signaling side assumes of a node no more
than a node does, as far as rooms are not recorded: `RoomLifecycle` has neither
the closing that awaits a recording nor the MediaPeer that a failing
`createTransport` brings and takes away again, and only there does a node restart.

**MediaRooms.** `rooms`, `pendingRooms`, `load` are the maps of the services;
`call` holds the requests suspended at an await. Objects have identifiers that
are used again when nothing refers to the old object. A failed or finished
request rests. Two history variables say when a guarantee of the code has ended:
`released`, that a worker was given back a router, and `overtaken`, the room ids
that a closing deleted when they named its room no more. The second one happens
when two closings of a recorded room await the end of its recording: the code looks
at the room before the await and deletes by id after it
(`media-rooms.service.ts:258-264`).

**Recording.** A tap of a peer is a process with one state per await of
`tapPeer`; the k-th tap of a peer names the transport, consumer and session it
makes. The peer's three fields are variables of their own, since overlapping taps
overwrite them, and `met`, a history field of a tap, says how far the other taps
of its peer were when it began. `StopPeers` is the synchronous part of `stopPeerRecording`,
which every party calls: the taps, the stop, `producerclose`, `removePeer`.

**MediaStreams.** A step of `MediaRooms` is taken together with what it does to
the streams (`RoomStep`): mediasoup closes those on a closed transport and the
consumers of a closed producer, and what the MediaPeer of a removed peer held is
out of reach. Its own steps are `produce` and `consume`, each suspended at one
await. A request whose transport closes meanwhile fails, or is answered with a
stream nobody will be told the end of: a *ghost*, in the map of the MediaPeer it
was asked for. What mediasoup does is external; which map the answer goes into is
the code's (it keeps the MediaPeer over the await and does not look the id up
again).

**RoomEvents.** `join[s]`, `request[s]` (its `produce`) and `leave[s]` are the
handlers of a socket, one action per await as in `RoomLifecycle`, `toggle` its
pauses and resumes, `link` the events on their way from one instance to another,
in order, `view[s]` what the client has been told. A client does not wait for the
answer to a pause before it resumes: these handlers run side by side, and each may
fail before the node acts, after it acted, or time out and be acted on later
(`ToggleFails`, `NodeTogglesLate`), which nobody is told of. `apart` says that a
toggle began when no earlier one of the socket was under way or still to reach the
node. The
client is the one of `load-test/signal-bots.ts`: it consumes each producer the
first time it is told of it, then or never. `overlap` remembers which handlers
ran at the same time, which is what the properties have to exclude. A further
peer keeps the room open: opening, closing and failing joins are
`RoomLifecycle`'s. The instance of each socket is chosen in `Init` (`home`, one of
`Homes`).

**RecordingFile.** Packets are known by the time they stand for; the code sees that
time modulo `ClockWrap`. They are handled in any order or never. Each write is in
`writing` until it ends or fails, and the handle closes when none is left, as
Node's `FileHandle.close` does. `closer` is how far closing has come: by
`closeRecordingSession`, or by `MediaRoom.stopPeerRecording` when the peer leaves.

**Chat.** `send`, `read` and `leave` are handlers, `stream` the Redis stream, `link` the
broadcasts. Trimming (`MAXLEN ~`) is a choice: Redis may drop what exceeds the
limit or leave it. `meeting` counts the closings of the room: the deletion of the
history runs unawaited behind one, and the next meeting may have begun. XADD may
fail with or without effect, or be sent again by the client library; a leave may
fail at any await; an instance may crash (`AddFails`, `LeaveFails`, `Crash`).
`unsaid` remembers the messages that were stored and that nobody broadcasts, and a
leave that stops between the closing of the room and the deletion of its history
rests at `kept`. A closing whose answer is lost, or one that fails at the DEL of a
producers hash, is `CloseRoom` and then `LeaveFails`.

## Runs

| Run | Instance | Shows |
|---|---|---|
| `RoomLifecycle_rooms` | 2 sockets on 2 instances, 2 rooms, 2 joins each, 1 failing read | rooms do not disturb each other's members; two members know of each other; the roll-back removes what the join added |
| `RoomLifecycle_faults` | 2 sockets, 2 instances, 2 nodes, transports, 1 failure of any kind | types and members under failures, and refinement of `RoomMembership`, and of `MediaNode` by each node |
| `RoomLifecycle_live` | 3 sockets, 2 of them on one of 2 instances, 1 room, 1 failing sfu request, fair | joins of one instance share one creation; every join is answered, an empty room is closed or entered again and until then has a handler that sees to it |
| `MediaRooms_pool` | 3 rooms, recorded or not, 2 peers, 2 peer objects, 1 transport, 1 request at a time, 2 routers, 2 workers, 1 failure | registry and counts agree with the routers, but for overtaken rooms; a burst is spread; no room is created over another (refinement of `MediaNode`) |
| `MediaStreams_peers` | 1 peer, 2 requests, 2 routers, 2 peer objects, 2 transports, 2 streams, recording, 1 failure | no transport without an owner, no peer kept without a transport, also when a closing awaits the recording; every open stream is in its peer's map, on its peer's transport, its producer open, and its room found by its id unless overtaken; ghosts only with a peer that had a transport replaced; refinement of `MediaNode` |
| `Recording_tapped` | 1 peer, 2 producers, 2 taps that may overlap, replaced transports, 2 failures | `start` and `produce` miss no producer between them, also when both tap the peer; a peer tapped in turn leaves nothing open; no session is closed twice |
| `RoomEvents_told` | 2 sockets on 1 or 2 instances, one produces, leaves, and sends 2 pauses or resumes side by side or in turn, 1 failure | backfill and broadcasts leave no gap and no ghost between handlers that did not overlap; a pause or resume that began alone and is told puts every client right, whatever came before; a client that is ready can consume what it is told of |
| `RecordingFile_wav` | 4 packets, a frame, two frames and a limit apart, in any order or lost, a clock that wraps or not, 1 failed write | the header gives the bytes of a session closed the ordinary way; a wrap or a late packet cannot be heard; the file keeps time up to a frame for each gap |
| `Chat_history` | 3 sockets, 2 of them in the room at the start, 2 messages, 1 reading each, limit 1, 1 failed request or crash | history and live messages leave no gap; a meeting's history goes with the meeting, and with no other leave |

The bounds. Two handlers are enough for every race of the room's keys, three for
a creation with a waiter on its instance and a joiner on the other, and for two
leavers beside a joiner; a room is all a key is about, and two show that rooms
are separate. One failure reaches each `catch` at each await, two a failure in
what another failure left. Two requests of one peer, each with a peer object of
its own, are what an overlap takes; the second router is the room created again.
What a client is told of another depends on the handlers of the two, so two
sockets show every order of a pair; a third would only add events about itself.
Two toggles overlap, follow one another or come late; a third adds none of these.
What taps do to each other they do to taps of one peer, so one peer shows it.
The chat's third socket is the one that holds a meeting open, or opens the next.
The constants of a recording are scaled down from 960, 320, 48000 and 2^32 to
6, 2, 24 and 200, with gaps on both sides of each bound the code compares with;
a stream is shorter than the clock, as in the code no packet is 24 hours late.
Chat instances have one socket each; a crash of one with several is several
crashes. Named bounds in the guards: `MaxJoins`, `MaxFaults`, `Calls`, `MaxProducers`,
`MaxTaps`, `Publishers`, `Leavers`, `MaxToggles`, `MaxMessages`, `MaxReads`,
`StartTimes`, `Pauses`, `MaxPackets`. `MaxTaps` bounds the
taps of a peer, which nothing in the code does; taps that overlap are in the run.
What a tap undoes of another the properties name: `DepartedPeerLeavesNothing` is
about peers none of whose taps began beside another (`TappedInTurn`),
`ProducerIsRecorded` about peers where a tap began beside another at most while that
one had no transport yet (`TappedInTime`); so the race of a start and a produce,
which both find the peer untapped, is covered.
`ProducerIsRecorded` is about behaviours without failures and peers that lose no
producer: a tap that fails is logged, not tried again. `RejectedJoinLeavesNoPeer`
is about reads and sfu requests: a write may fail after it took effect, outside
the `try`. `EmptyRoomIsAttended` is about failing sfu requests only: a leave
that Redis fails ends where it is, and nobody else closes the room.
`HistoryIsOfItsMeeting` leaves out the messages of a meeting whose own closing has
not come to its deletion yet or stopped before it, which nothing repeats, and those
stored after their meeting ended; `NoMessageIsMissed` those trimmed or deleted
before they were read and those in `unsaid`. `PauseIsKnown` is about a socket whose
last toggle was `apart` and was told. `FileKeepsTime` is about
packets in order without a gap of a second or more, which the code does not fill.
`CountMatchesWrites` counts the bytes of a failed write as lost: the header
then says more than the file holds.

The invariants of a node are about every state, also those behind an overtaken
closing: `RegistryHoldsOpenRouters` about the rooms whose ids are not in
`overtaken`, `LoadCountsRouters` while none is (the pool's counts have no ids), and
`NoOrphanTransport` and `OpenStreamsAreReachable` ask that the room of an open
transport or stream is found by its id, unless that id is overtaken. Requests that
name another room do not suffer from it.

Fairness. `FairSpec` asks that no handler stays at an await for ever: ioredis
answers or rejects, and `sfu-client.module.ts:13-18` gives every HTTP request a
timeout. Nothing is assumed of late requests, of clients or of failures.

## What the code does not keep

Three sentences of the repository that TLC finds violated; `PROJECT.json` quotes
them under `findings`.

| Run | What happens |
|---|---|
| `Finding_room_key` | join reads the key, leave closes the room, join adds its peer: a member of a room without metadata |
| `Finding_missed_producer` | on two instances, a producer is stored after a join's reads and announced before the socket enters the channel: the client never learns of it |
| `Finding_wav_header` | a recorded peer leaves: its file is closed with the sizes it was opened with, zero |

Further behaviours of the models that no run checks, each listed under `hazards`:

- the unawaited closing of an old MediaRoom arrives after the room was created
  again, and closes the new one (`DeliverLate`; `signaling.service.ts:193-197`
  says that an occupied room does not lose its MediaRoom);
- two instances create a room on two nodes, and the second SET moves the room
  (`StoreRoom` twice; `rooms/types/index.ts:6-8` says the node is picked once);
- a recorded MediaRoom is closed though a peer came back while `closeRoom` awaited
  the end of the recording (`TransportCreated`, then `RecordingStopped`);
- two taps of one peer overlap, and two sessions are open on one file
  (`SessionReady` of both); when the peer leaves, one of them stays open, and a tap
  that began when another had its transport may leave the peer unrecorded
  (`ConnectFails` of a tap that is not `TappedInTime`);
- a tap opens its file while the sizes of the peer's last session are still being
  written to it: it awaits the end only of a session it closes itself
  (`SessionReady` of a tap begun after `ProducerClosed` or `ConnectFails`);
- a second `join` of a socket leaves the peer recorded in the first room
  (`JoinStart` when `data[s]` is set);
- a socket that disconnects during its join is recorded after it is gone, and
  nothing removes it (`Disconnect` before the join commits);
- a `createTransport` request that arrives behind `removePeer` brings the
  MediaPeer back, and the MediaRoom is never closed (`DeliverLate`);
- the second of two closings of a recorded MediaRoom forgets the room created in
  between (`RecordingStopped` twice, `overtaken`): its transports and streams stay
  open, no request finds them, and the worker's count goes down twice for one router;
- of two first requests of a peer, the failure of one closes the transport of the
  other (`TransportFails` after `TransportCreated`);
- two display names that become one file name share the file (`DisplayFile`);
- a tap that is under way when the recording is stopped goes on to record
  (`StopRecording`, then `SessionReady`);
- a peer whose `peerClosed` is sent between a join's read and the socket's entry
  into the channel stays in the client's list (`LeaveTell` before `Commit`);
- pauses and resumes that overlap are told in another order than the node acted, or
  one that timed out is acted on and never told: clients keep showing the opposite
  until the next one (`ToggleStart` beside another, `ToggleFails`,
  `NodeTogglesLate`);
- a producer whose HSET succeeded and whose EXPIRE failed is in later backfills
  and was never announced; one the node made before Redis failed stays open
  (`ProduceFails`);
- the backfill comes before the join's answer (the design document has it after),
  so that a client like the load test's consumes it without capabilities (`Asked`);
- the deletion of a closed meeting's history runs after the next meeting has begun
  and takes its messages along (`DeleteRoomHistory`), and a message stored after
  the deletion brings the stream back (`AddMessage`);
- a message is stored and never broadcast, as its XADD took effect and is reported
  as failed or its instance died; if XADD is sent again, it is stored twice and
  broadcast once (`AddFails`, `Crash`);
- a leave fails behind the closing of the room, and the next meeting reads the
  history of the last (`LeaveFails`);
- an instance dies: the peers of its sockets stay recorded, and their room is not
  closed (`InstanceCrash`);
- starting twice taps a peer twice, and the failure of one tap stops what the
  other set up (`ConnectFails` beside another tap).

## Proofs

`RoomLifecycleProofs`, for all values of the constants that meet the assumptions
of `RoomLifecycle` (every socket has a home, there are finitely many rooms, `None`
is no room and no node, the bounds are naturals):

- `TypeCorrect`: `Spec => []TypeOK`. Handlers that carry a room or node only past
  the step that finds it are typed so (`JoinHandlers`, `LeaveHandlers`,
  `MediaHandlers`), which is what later steps need to be defined.
- `MembersStay`: `Spec => []NoEvictedMember`. Inductive with `SocketInv`: a socket
  leaves only when closed, its leave is about the room in `client.data`, and what
  it joined twice is in `rejoined`. Only `CloseRoomIfEmpty` deletes a hash, and it
  does so while the hash is empty; other steps take out their own socket.
- `MutualVisibility`: `Spec => []OneSeesTheOther`. At a peer's read every member is
  recorded (`MembersStay`): a member that already read either saw this peer or is
  seen by it.
- `NoPeerLeftBehind`: `Spec => []RejectedJoinLeavesNoPeer`, where neither writes to
  Redis fail nor instances crash (`FaultKinds`): a write that takes effect and is
  reported to have failed does leave a peer. Inductive with `SocketInv`.
- `PendingCreations`: `Spec => []PendingIsOneCreation`. `Busy` and `PendingFrame`
  separate the steps that leave creations alone from the four that do not.
- `Refinement`: `Spec => ImplementsMembership`, step by step.
- `NodesArePrompt`: `Spec => ImplementsNodes`. A request changes one node's rooms
  and peers (`RequestIsPrompt`), whether its sender still waits for it or it is
  late; what it does there is one step of `MediaNode` or none.
- `EmptyRoomsAreAttended`: `Spec => []EmptyRoomIsAttended`, where neither reads nor
  writes fail and no instance crashes: then there is no roll-back, and whoever
  empties a room is a leave, on its way to the closing. With the fairness of
  `FairSpec` this is why `EmptyRoomIsClosed` holds.
- `OneInstanceKeepsNode`: `Spec => [][NodeIsKept]_vars` where all sockets are of one
  instance, also if it crashes: a creation under way finds the room without a node
  (`CreationIsFirst`, by `PendingIsOneCreation`). TLC finds `CreationIsFirst`
  violated with two instances, which is how a room moves (above, "What the code
  does not keep").

`MediaRoomsProofs`, for all values of the constants of `MediaRooms` that meet its
assumptions (a finite, ordered pool of at least one worker; `None` is no
identifier):

- `TypeCorrect`: `Spec => []TypeOK`.
- `TransportsAreOwned`: `Spec => []NoOrphanTransport`, also for recorded rooms; that
  the room is found by its id is `RegistryInvariant`'s (below).
  Inductive with `OpenRouterUnder` (no transport is open on a closed router),
  which is needed where a router's identifier is used again: three lemmas say
  what a removal, a closing and an installed transport leave open.
- `PeersAreNotStuck`: `Spec => []NoStuckPeer`. Inductive with `SlotsApart` (a
  MediaPeer is in one place) and `RequestKnowsSlot` (a request's peer is where the
  request put it, or gone): without the second a finished request might have been
  the only one to answer for a peer elsewhere.
- `BurstsAreSpread`: `Spec => []BurstIsSpread`, from the types and the choice of
  the least loaded worker.
- `RegistryIsExact` and `PoolCountsRouters`: `Spec => []RegistryHoldsOpenRouters` and
  `Spec => []LoadCountsRouters`, recorded or not and whatever closings overlap. Both
  properties speak of `overtaken`, where the guarantee of the code ends: it looks
  before the await and not after. Inductive with `NamesAreTrue`: an id names an open
  router made for it, and a closing in its await knows the id of its own MediaRoom.
  The count of a worker changes with its set of open and pending
  routers (`CountedStep`, by the library's theorems about cardinalities).
- `UnrecordedRoomsAreExact`: where nothing is recorded a closing awaits nothing, no
  id is overtaken, and both hold without exception.
- `NodeIsImplemented`: `Spec => ImplementsNode`, recorded or not. It needs that two
  ids never name one router and that a room being created has no router yet
  (`RegistryNames`): otherwise a peer that comes into one room would come into
  another, and a second creation would replace the peers of the first.
  `NodeStepPrompt` has the steps that wait for nothing, `NodeStepAwaiting` those of
  a closing that waits for its recording.
- `UnrecordedNodeIsPrompt`: where nothing is recorded, `Spec => ImplementsPromptNode`:
  a room goes only while nobody is in it. No run lists it, as one that records
  nothing would leave out the recorded closings; `RoomLifecycle_faults` checks the
  same abstract node of each node as the rooms service sees it.

`ChatProofs`, for any sockets, any limit of the stream and any number of messages,
readings and failures (`ChatConstants`: the bounds are naturals, the limit is
positive, those in the room at the start are sockets):

- `TypeCorrect`: `Spec => []TypeOK`. Inductive with `SentIsStored`: a message that
  is broadcast has the id XADD gave it. `TrimmedStream` says what XADD leaves.
- `HistoryOfOneMeeting`: `Spec => []HistoryIsOfItsMeeting`, also where requests fail
  and instances crash, with `SocketInv`: a socket leaves once, so that no deletion
  under way is overwritten by a later step of the same leave. `LeaveStops` says what
  a failure or a crash does to a leave: a deletion that was to come is `kept`.
- `DeletionsFollowMeetings`: `Spec => ChatOutlivesOtherLeaves`, from
  `DeletionFollowsMeeting`: a deletion under way belongs to a meeting that ended.
- `HistoryAndBroadcastMeet`: `Spec => []NoMessageIsMissed`. Inductive with
  `AnswerCovers`: an answer under way, together with what was broadcast since
  XRANGE, covers all that follows the id asked for, but for what nobody broadcasts
  (`unsaid`). `ReachedStays` says that a
  message on its way to a client in the channel stays on its way or arrives, and
  `StoredIsReached` that a new one is on its way to all.

`MediaStreamsProofs`, under the assumptions of `MediaRooms` and of streams whose
identifiers are no `None`:

- The lemma `StreamsRunOnRooms` carries every theorem about `MediaRooms` over: a
  step of `StreamNext` is one of `Next` or leaves the rooms alone, by definition.
- `StreamTypeCorrect`, `StreamsAreReachable` and `GhostsAreContained`: the three
  stream invariants. First `RoomInv` and `NamesAreTrue`: what a peer's field names is
  an open transport of its own router (`FieldsAreOpen`) and of no other field
  (`FieldsApart`), and a closing in its await knows its room; every way in which a
  step of the rooms changes peers and transports has its lemma (`OpenedEffects`,
  `ClosingEffects`, `RemovalEffects`, `InstalledEffects`). What they keep
  (`PeersKept`, `FieldsKept`, `TransportsKept`, `LeaversClose`) is all that
  `StreamInv` needs of them. Its parts: an open stream is in one map, on that peer's
  transport (`StreamsAreHeld`, `MapsAreApart`); an open consumer has an open
  producer; and a suspended request has either its transport still or a peer that
  had it replaced (`RequestsAreTrue`), which is where ghosts come from.

`RoomEventsProofs`, for any sockets, instances, publishers, leavers, toggles and
failures:

- `TypeCorrect`, and `NoProducerIsMissed`, `NoPeerIsMissed`, `NoPauseIsLost`,
  `NobodyIsRefused`: the five invariants of the run. They follow from one
  (`Invariant`): how far the handlers of a socket are and what they have stored by
  then (`Handlers`), that events and views are true of what happened (`Truth`), and
  that what was announced is known or on its way (`Reach`): to each socket in the
  channel, in the order on its link (`Way`, `Followed`), a `peerClosed` behind all
  that told of the peer, and behind the last pause or resume, when it began alone and has
  been told, nothing that says the opposite.

`RecordingProofs`, for any peers, producers, taps, display names and failures:

- `TypeCorrect`; `ClosedOnce`: `Spec => SessionClosedOnce`, also for taps that
  overlap. Inductive: `Basics` (a field of a peer names a tap of its own, and what a
  tap makes exists once the tap has come that far).
- `NothingIsLeft`: `Spec => []DepartedPeerLeavesNothing`, for any number of taps, in
  turn or not. Inductive: `OneTapInTurn` (of a peer whose taps never began beside
  another, one at most is under way) and `Holdings` (what is open is what such a
  peer's field names, and while a tap of it runs it holds nothing else).
- `AudioIsRecorded`: `Spec => []ProducerIsRecorded`, also where a start and a produce
  both tap the peer. Inductive: `AllTended` (a peer that is to be recorded is, or a
  tap that has done all it could is on its way to it).

`RecordingFileProofs`, for any constants that meet `FileConstants` (a frame is
shorter than the limit, that shorter than half the clock; packets are sent a
frame or more apart):

- `TypeCorrect`, `CountIsExact`, `HeaderIsExact`. The writes under way have a weight
  (`Weighs`: a measure of their subsets that grows by the bytes of each), and the
  count is the file's bytes, those lost and that weight (`Counting`). Writes start
  below the count, so that a new one is none of them. `Closing` says which sizes
  have been written and that nothing is counted any more.
- `TimeIsKept`: where the frame is a whole number of ticks to a sample (in the code
  960 to 320), `Spec => []FileKeepsTime`. Inductive with `TimeInv`: the session knows
  the last packet's time modulo the clock, and counts whole samples. The arithmetic
  (`DifferenceOfRemainders`, `WholeSamples`) is proved from the division theorem.
- `WrapIsInvisibleInAStep`: while a stream is shorter than the clock, each packet
  adds the silence of the time that passed, whatever wraps and comes late.
- `WrapCannotBeHeard`: `Spec /\ []StreamIsShort => []WrapIsInvisible`. The reference
  the file is compared with is a sum over all its packets, defined by recursion.
  That this sum exists, that it is the only one and what a packet adds to it is an
  induction over the packets; it is led as an induction over the steps that wrote
  them (`SumsExist`, `SumsAgree`): the packets of a file are those of an earlier
  state and at most one more (`SumIsLonger`, `SumIsShorter`).

`[]StreamIsShort` is the only temporal hypothesis; it restricts the behaviours the
theorem is about, not the model, and the bounds of `RecordingFile_wav` imply it.
What a property leaves out of the behaviours with overtaken closings, overlapping
taps or toggles, failures and crashes stands in the property itself, by history
variables. The inductive invariants were checked by TLC before they were proved.

Only model-checked: `JoinTerminates` and `EmptyRoomIsClosed`, liveness properties
under fairness, which TLAPS does not reach; nor does it `ENABLED`. Their safety
parts are proved: a join that waits has a creation to wait for
(`PendingCreations`), and an empty room a handler that sees to it
(`EmptyRoomsAreAttended`).

## Not modelled

- The times to live of the Redis keys: a room that nobody joins for a day is left
  to them, and what a join sees between two expirations is not modelled.
- `connectWebRtcTransport` and `resumeConsumer` (and pause and resume on the
  node, beyond `RoomEvents`): they look an object up and change only what mediasoup
  keeps.
- The layout of RTP packets and of the WAV header, the order of two unawaited
  writes, RTCP on the same port, `meeting.json`.
- The spawning and dying of workers, configuration, bootstrap, message formats,
  `buildMediaRoomPath`, the manifests.

In `Recording` the MediaRoom's router stays open and a producer is made only by a
peer in the room; a file handle opened for a session whose socket could not be
bound is not counted. In `RoomLifecycle` a socket has one `createWebRtcTransport`
and one `join` handler at a time, in `RoomEvents` one `produce`, in `Chat` one
`sendChatMessage` and one `getChatHistory`. In `Chat` a read that fails changes
nothing and is left out, as is a DEL that is sent again; the Redis adapter is
taken to lose no broadcast between instances that are up. A request of
`MediaStreams` is at one await; the tap behind `produce` is in `Recording`.

## Plan

Done: the room's life and its abstraction, a node's rooms, peers, transports and
streams, and its abstraction on both sides of the HTTP interface, recordings and
their files, what clients are told, and the chat, each checked and each with
theorems.

Next, in this order:

1. An abstraction of a recording (a peer's audio goes nowhere, to one file, or is
   over) that `Recording` implements for peers tapped by one tap at a time.
2. The times to live of the room's keys, as the expiration of the key and of each
   hash between any two steps of `RoomLifecycle`.
