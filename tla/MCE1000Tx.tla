----------------------------- MODULE MCE1000Tx -----------------------------
(* Small rings and packets for E1000Tx.                                    *)
EXTENDS E1000Tx

\* One buffer, with a context descriptor and without one, and two buffers: in a
\* ring of 6 two packets of one buffer fit together, so that one is mapped or
\* queued while another awaits its doorbell or its cleaning.  The last packet
\* asks for more than the ring has.
SmallPacket == {[ctx |-> 0, bufs |-> 1], [ctx |-> 1, bufs |-> 1],
                [ctx |-> 0, bufs |-> 2], [ctx |-> 1, bufs |-> 3]}
=============================================================================
