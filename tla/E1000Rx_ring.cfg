SPECIFICATION Spec
CONSTANTS
  N = 5
  Weight = 4
  Batch = 2
  Mac82542 = TRUE
INVARIANTS
  RingAgrees
  OnlyWholeFrames
  TossedAreFragments
 
