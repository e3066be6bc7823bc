SPECIFICATION PathFairSpec
CONSTANTS
  far = far
  Stages = 3
  Ports <- PathPorts
  Far = {far}
  Data <- PathWords
  NoData <- Nothing
  Idle = idle
  Depth = 2
  Traffic <- NoTraffic
  NoSample = nosample
  NoPut = noput
  Gaps = {1, 8}
  MaxSamples <- ProgramSamples
  Commands <- ProgramWords
INVARIANTS SamplesInOrder PathKeepsUp
PROPERTIES PutOnce FilteredArrives HeldCommandApplies
