SPECIFICATION Spec
CONSTANTS
  w1 = w1
  w2 = w2
  None = None
  RoomIds = {r1, r2, r3}
  PeerIds = {p1, p2}
  Workers = {w1, w2}
  PoolIndex <- PoolIndexSome
  Routers = {x1, x2}
  PeerObjects = {o1, o2}
  Transports = {t1}
  Calls = {c1}
  MaxFaults = 1
  Recording = TRUE
SYMMETRY Identifiers
INVARIANTS
  RegistryHoldsOpenRouters
  LoadCountsRouters
  BurstIsSpread
PROPERTIES
  ImplementsNode
