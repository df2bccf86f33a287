---------------------------- MODULE MCSimethXmit ----------------------------
(* The hook's results for TLC: success, the two codes start_xmit counts,   *)
(* a code it does not, a positive result, and NETDEV_TX_BUSY itself.       *)
EXTENDS SimethXmit

SomeReturns == { 0, -1, -2, -3, 1, NETDEV_TX_BUSY }
=============================================================================
