SPECIFICATION RtlFairSpec
CONSTANTS
  idle = idle
  far = far
  w1 = w1
  w2 = w2
  Stages = 2
  Ports <- ThreePorts
  Far = {far}
  Data = {w1}
  NoData = nodata
  Idle = idle
  Depth = 1
  Traffic <- FabricTraffic
INVARIANTS FabricLaw
PROPERTIES Implements FabricSettles
