SPECIFICATION Spec
CONSTANTS
  None = None
  Peers = {p1}
  DisplayFile <- OwnName
  IdFile <- OwnId
  MaxProducers = 2
  MaxTaps = 2
  MaxFaults = 2
  Replacing = TRUE
INVARIANTS
  TypeOK
  DepartedPeerLeavesNothing
  ProducerIsRecorded
PROPERTIES
  SessionClosedOnce
