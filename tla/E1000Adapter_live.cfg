SPECIFICATION FairSpec
CONSTANT Faults = { }
PROPERTY LinkLeadsToCarrier
CHECK_DEADLOCK FALSE
