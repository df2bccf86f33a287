\* Every mode, parameters rewritten at any moment.
CONSTANTS
  Modes = {0, 1, 2}
  DescParams = {0, 40}
  RuntimeWrites = TRUE
  MaxOpens = 2
SPECIFICATION Spec
INVARIANTS
  CleanTouchesLiveMemory
  OperationsInsideBinding
  NapiTracksUp
PROPERTIES
  UnbindReleasesAll
  RxSourceUntilStop
