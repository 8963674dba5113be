SPECIFICATION FairSpec
CONSTANTS
  Classes <- LogicalChannelClass
  ServiceCycle <- SERVICE_CYCLE
  MaxServiceGap <- max_service_gap
  Capacity = 1
  ControlCapacity = 1
  LaneCapacity = 1
  MaxResources = 1
  CatchUps <- MCCatchUps
CHECK_DEADLOCK FALSE
INVARIANTS NoLostWakeup LaggedMeansOverflow AcksDrained CatchUpFirst
PROPERTIES LanesServed WriterEnds
