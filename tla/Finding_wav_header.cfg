SPECIFICATION Spec
CONSTANTS
  OpusFrameSamples = 6
  TargetFrameSamples = 2
  BytesPerSample = 2
  MaxSilenceGapTicks = 24
  WavHeaderSize = 44
  ClockWrap = 200
  StartTimes <- Starts
  Pauses = {6, 13, 24}
  MaxPackets = 2
  MaxFaults = 0
INVARIANTS
  ClosedFileIsAWavFile
\* The system may rest: the file is closed.
CHECK_DEADLOCK FALSE
