\* The device interrupt, requested and freed with different cookies.
CONSTANTS
  Modes = {0}
  DescParams = {64}
  RuntimeWrites = FALSE
  MaxOpens = 2
SPECIFICATION Spec
INVARIANT
  IrqHandlerInsideNetdev
