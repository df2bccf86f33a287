\* Parameters fixed at load time, receive interrupts from the timer.
CONSTANTS
  Modes = {1}
  DescParams = {0, 31, 45, 512, 600}
  RuntimeWrites = FALSE
  MaxOpens = 2
SPECIFICATION FairSpec
INVARIANTS
  TimerInsideNetdev
  QuiescentWhenDown
  DescCountDocumented
PROPERTIES
  OperationsComplete
