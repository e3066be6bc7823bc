SPECIFICATION ObservedFairSpec
CONSTANTS
  idle = idle
  far = far
  w1 = w1
  w2 = w2
  Stages = 2
  Ports <- ThreePorts
  Far = {far}
  Data = {w1, w2}
  NoData = nodata
  Idle = idle
  Depth = 2
  Traffic <- OfferedTraffic
  Nobody = nobody
INVARIANTS TypeOK NoCollision LatencyBound
PROPERTIES DeliveredIsSent SentIsDelivered HeadIsServed ImplementsFlows
