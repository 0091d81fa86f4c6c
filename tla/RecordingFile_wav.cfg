SPECIFICATION Spec
CONSTANTS
  OpusFrameSamples = 6
  TargetFrameSamples = 2
  BytesPerSample = 2
  MaxSilenceGapTicks = 24
  WavHeaderSize = 44
  ClockWrap = 200
  StartTimes <- Starts
  Pauses = {6, 13, 24}
  MaxPackets = 4
  MaxFaults = 1
INVARIANTS
  TypeOK
  HeaderMatchesFile
  CountMatchesWrites
  WrapIsInvisible
  FileKeepsTime
\* The system may rest: the file is closed.
CHECK_DEADLOCK FALSE
