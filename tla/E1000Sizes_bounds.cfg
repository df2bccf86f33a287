SPECIFICATION Spec
CONSTANTS
  MaxPwr = 6
  FirstMax = 31
  Heads = {14, 31, 32, 64, 66, 128, 132}
  Frag = {3, 9, 12, 64, 65, 129}
  MaxFrags = 2
  Mss = {0, 2, 3, 5, 8, 9, 20}
  Frames <- FrameSizes
  Lengths <- PacketLengths
  Traffic <- SomeTraffic
  Count = 512
  Places = {4096, 61440, 65536, 126976}
INVARIANTS
  DescriptorsReserved
  FrameAboveHighWater
  FifoHeadInRange
  RateInRange
  RingMemoryOwned
CHECK_DEADLOCK FALSE
