---------------------------- MODULE MCE1000Sizes ---------------------------
(* Lengths for E1000Sizes, scaled down to descriptors of at most 64 bytes  *)
(* (they hold 4096), and frame sizes around every boundary of e1000_reset. *)
EXTENDS E1000Sizes

FrameSizes ==
  { 1518, 1522, 16128 } \cup { 512 * k + d : k \in 3..31, d \in { 0, 1 } }

\* The smallest packet, an ordinary one, and the longest of each frame size.
PacketLengths == { 60, 1514 } \cup { max - 4 : max \in FrameSizes }

\* Few and many packets, small, ordinary and jumbo.
SomeTraffic ==
  { [packets |-> p, bytes |-> p * b] : p \in { 0, 1, 4, 9, 12, 40 },
                                       b \in { 64, 600, 1500, 9000 } }
=============================================================================
