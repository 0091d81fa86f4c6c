SPECIFICATION Spec
CONSTANTS
  s1 = s1
  s2 = s2
  s3 = s3
  i1 = i1
  i2 = i2
  n1 = n1
  n2 = n2
  None = None
  Sockets = {s1, s2}
  Instances = {i1, i2}
  HomeOf <- HomeOfSome
  Rooms = {r1}
  Nodes = {n1, n2}
  ListedAt <- ListedOrder
  MediaSockets = {s1, s2}
  MaxJoins = 1
  MaxFaults = 1
  FaultKinds = {"read", "write", "sfu", "node", "crash"}
INVARIANTS
  TypeOK
  NoEvictedMember
PROPERTIES
  ImplementsMembership
  ImplementsNodes
\* The system may rest: every socket gone and nothing under way.
CHECK_DEADLOCK FALSE
