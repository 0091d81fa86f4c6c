SPECIFICATION Spec
CONSTANTS
  Sockets = {s1, s2}
  Instances = {i1, i2}
  Publishers = {s1}
  Leavers = {s1}
  MaxToggles = 2
  MaxFaults = 1
  Homes <- AnyHomes
SYMMETRY InstanceSymmetry
INVARIANTS
  TypeOK
  ProducersAreKnown
  PeersAreKnown
  PauseIsKnown
  ReadyClientCanConsume
\* The system may rest: every client is in the room and asks for nothing.
CHECK_DEADLOCK FALSE
