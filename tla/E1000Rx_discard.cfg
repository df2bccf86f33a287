\* A reset in the middle of a frame that spans two buffers.
SPECIFICATION Spec
CONSTANTS
  N = 5
  Weight = 4
  Batch = 2
  Mac82542 = FALSE
INVARIANT
  NoWholeFrameTossed
