SPECIFICATION Spec
CONSTANTS
  s1 = s1
  s2 = s2
  s3 = s3
  Sockets = {s1, s2, s3}
  Earlier <- EarlierSockets
  HistoryLimit = 1
  MaxMessages = 2
  MaxReads = 1
  MaxFaults = 1
SYMMETRY Hosts
INVARIANTS
  TypeOK
  NoMessageIsMissed
  HistoryIsOfItsMeeting
PROPERTIES
  ChatOutlivesOtherLeaves
\* The system may rest: every socket gone and nothing under way.
CHECK_DEADLOCK FALSE
