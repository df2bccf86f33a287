SPECIFICATION Spec
CONSTANTS
  N = 6
  Packet <- SmallPacket
  DescNeeded = 4
  WakeLevel = 4
  Mac82547 = TRUE
INVARIANTS
  PointersInOrder
  HardwareReadsMapped
  PacketsOwnedOnce
  StoppedQueueHasWaker
PROPERTY QueueRestarts
