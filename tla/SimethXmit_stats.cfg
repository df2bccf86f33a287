\* Three packets.  The hook succeeds, fails with a code that is counted and
\* with one that is not, takes a packet with a positive result, or asks for
\* another attempt.  A packet may be refused for ever; MaxCalls stops the run
\* there.
CONSTANTS
  K = 3
  HookReturns <- SomeReturns
  MaxCalls = 5
SPECIFICATION Spec
INVARIANTS
  
  SnapshotSkew
