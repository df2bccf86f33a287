\* Three descriptors per ring and bursts of three: every sequence goes round both
\* rings, the first burst ends and rx descriptors are reused.
CONSTANTS
  N = 3
  Burst = 3
  W = 8
  RunModes = {"none", "txonly", "rxonly", "txfirst", "rxfirst", "multi"}
  MaxTx = 4
  MaxRx = 4
SPECIFICATION FairSpec
INVARIANTS
  TypeOK
  RxWriteOwned
  RxCountExact
PROPERTIES
  TxIsFifo
  RxIsFifo
  SigintTerminates
  TxServed
