SPECIFICATION StreamSpec
CONSTANTS
  None = None
  RoomIds = {r1}
  PeerIds = {p1}
  Workers = {w1}
  PoolIndex <- OneWorker
  Routers = {x1, x2}
  PeerObjects = {o1, o2}
  Transports = {t1, t2}
  Calls = {c1, c2}
  Streams = {z1, z2}
  MaxFaults = 1
  Recording = TRUE
SYMMETRY Identifiers
INVARIANTS
  TypeOK
  NoOrphanTransport
  NoStuckPeer
  StreamTypeOK
  OpenStreamsAreReachable
  GhostsAreOfReplacedTransports
PROPERTIES
  ImplementsNode
