SPECIFICATION Spec
CONSTANT Faults = { "suspend", "error", "remove" }
INVARIANTS
  NapiEnableOk
  RingsLive
  WatchdogAlive
  ProbeUnwinds
CHECK_DEADLOCK FALSE
