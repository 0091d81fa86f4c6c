SPECIFICATION Spec
CONSTANTS
  Sockets = {s1, s2}
  Instances = {i1, i2}
  Publishers = {s1}
  Leavers = {}
  MaxToggles = 0
  MaxFaults = 0
  Homes <- ApartHomes
SYMMETRY InstanceSymmetry
INVARIANTS
  NobodyMissesAProducer
\* The system may rest: every client is in the room and asks for nothing.
CHECK_DEADLOCK FALSE
