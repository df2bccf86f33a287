----------------------------- MODULE SimethXmit -----------------------------
(***************************************************************************)
(* The transmit path of simeth.c, simeth_ndo_start_xmit, called by the     *)
(* stack's queueing discipline one packet at a time, while another CPU     *)
(* reads the statistics with simeth_ndo_get_stats64.  The writer changes   *)
(* the counters without u64_stats_update_begin, so the reader's            *)
(* u64_stats_fetch_retry never sees a change and never retries.            *)
(***************************************************************************)
EXTENDS Integers, Sequences

CONSTANTS
  K,            \* the stack sends packets 1 .. K; packet s has s bytes
  HookReturns,  \* what simeth_xmit_mac_fn may return
  MaxCalls      \* bound: calls of start_xmit

ASSUME XmitAssumption ==
  /\ K \in Nat
  /\ HookReturns \subseteq Int
  /\ MaxCalls \in Nat

VARIABLES
  queue,    \* the stack's packets for this device, oldest first
  xpc,      \* where the transmitting CPU is in start_xmit
  skb,      \* the packet start_xmit was called with; 0 outside a call
  ret,      \* what simeth_xmit_mac_fn returned
  frees,    \* how often each packet has been freed
  tx,       \* cpstats.tx_stats
  rpc,      \* the step of get_stats64 the reading CPU takes next
  show,     \* showstats while get_stats64 fills it in
  shown,    \* showstats of the last completed get_stats64
  calls,    \* bound: calls of start_xmit
  untold,   \* history: packets the hook took with a positive result
  totals    \* history: totals[k] is the bytes of the first k packets counted

reader == << rpc, show, shown >>
writer == << queue, xpc, skb, ret, frees, tx, calls, untold, totals >>
vars   == << writer, reader >>

Skbs == 1 .. K

(* NETDEV_TX_BUSY: the packet was not taken.  The stack offers a packet    *)
(* again for any result of at least NET_XMIT_MASK.                         *)
NETDEV_TX_BUSY == 16
NET_XMIT_MASK == 15

NoStats == [packets |-> 0, bytes |-> 0]

Init ==
  /\ queue = [k \in Skbs |-> k]
  /\ xpc = "idle" /\ skb = 0 /\ ret = 0
  /\ frees = [s \in Skbs |-> 0]
  /\ tx = [packets |-> 0, bytes |-> 0, dropped |-> 0, errors |-> 0]
  /\ rpc = 1 /\ show = NoStats /\ shown = NoStats
  /\ calls = 0 /\ untold = 0 /\ totals = << >>

-----------------------------------------------------------------------------
(* The stack hands its oldest packet to start_xmit, with the queue's lock  *)
(* held; the hook simeth_xmit_mac_fn sends it, and without a hook all is   *)
(* well.                                                                   *)
StartXmit ==
  /\ xpc = "idle" /\ queue # << >> /\ calls < MaxCalls
  /\ skb' = Head(queue)
  /\ queue' = Tail(queue)
  /\ ret' \in HookReturns \cup { 0 }
  /\ xpc' = "count"
  /\ calls' = calls + 1
  /\ UNCHANGED << frees, tx, untold, totals, reader >>

Total(k) == IF k \in DOMAIN totals THEN totals[k] ELSE 0

CountPackets ==
  /\ xpc = "count" /\ ret = 0
  /\ tx' = [tx EXCEPT !.packets = @ + 1]
  /\ totals' = Append(totals, Total(Len(totals)) + skb)
  /\ xpc' = "bytes"
  /\ UNCHANGED << queue, skb, ret, frees, calls, untold, reader >>

CountBytes ==
  /\ xpc = "bytes"
  /\ tx' = [tx EXCEPT !.bytes = @ + skb]
  /\ xpc' = "free"
  /\ UNCHANGED << queue, skb, ret, frees, calls, untold, totals, reader >>

(* A failure is counted by its code; a code without a case, and a positive *)
(* result, for which txst is still 0, is only logged.                      *)
Failed(t) == [t EXCEPT !.dropped = IF ret = -1 THEN @ + 1 ELSE @,
                       !.errors  = IF ret = -2 THEN @ + 1 ELSE @]

CountFailure ==
  /\ xpc = "count" /\ ret # 0
  /\ tx' = Failed(tx)
  /\ xpc' = "free"
  /\ UNCHANGED << queue, skb, ret, frees, calls, untold, totals, reader >>

(* What start_xmit returns: a negative code becomes NETDEV_TX_BUSY, a      *)
(* positive one stays.                                                     *)
ReturnedAsIs == ret

Returned == IF ret < 0 THEN NETDEV_TX_BUSY ELSE ret

(* dev_kfree_skb, whatever the outcome; then the stack (dev_xmit_complete) *)
(* sees the result.                                                        *)
FreeSkb ==
  /\ xpc = "free"
  /\ frees' = [frees EXCEPT ![skb] = @ + 1]
  /\ IF Returned >= NET_XMIT_MASK
     THEN queue' = << skb >> \o queue /\ UNCHANGED untold
     ELSE /\ untold' = untold + (IF Returned > 0 THEN 1 ELSE 0)
          /\ UNCHANGED queue
  /\ xpc' = "idle" /\ skb' = 0
  /\ UNCHANGED << ret, tx, calls, totals, reader >>

-----------------------------------------------------------------------------
(* get_stats64 copies packets, then bytes.                                 *)
ReadBytesFirst == << "bytes", "packets" >>

ReadOrder == << "packets", "bytes" >>

Read == \E k \in 1 .. 2 :
  /\ rpc = k
  /\ show' = [show EXCEPT ![ReadOrder[k]] = tx[ReadOrder[k]]]
  /\ rpc' = k + 1
  /\ UNCHANGED << shown, writer >>

Show ==
  /\ rpc = 3
  /\ shown' = show
  /\ rpc' = 1
  /\ UNCHANGED << show, writer >>

Next == \/ StartXmit \/ CountPackets \/ CountBytes \/ CountFailure \/ FreeSkb
        \/ Read \/ Show

Spec == Init /\ [][Next]_vars

-----------------------------------------------------------------------------
(* Properties.                                                             *)

(* However often packets were refused and offered again: between two calls *)
(* every packet that the stack no longer holds was counted once, with its  *)
(* bytes, and no packet it still holds was, but for those that the hook    *)
(* took with a positive result, which start_xmit takes for a failure.      *)
SentOnce ==
  xpc = "idle" =>
    /\ tx.packets + untold = K - Len(queue)
    /\ tx.packets = Len(totals) /\ tx.bytes = Total(Len(totals))

(* The two numbers get_stats64 shows may be of different moments, but the  *)
(* bytes are the total of some number of packets, at most one less than    *)
(* the packets shown: a reader never sees bytes lag further behind.        *)
SnapshotSkew ==
  \/ shown.packets <= 1
  \/ \E k \in (shown.packets - 1) .. Len(totals) : shown.bytes = totals[k]

-----------------------------------------------------------------------------
(* What one would expect of start_xmit and the code does not do.           *)

(* Each call is counted: simeth.c:549 has cases for -1 and -2 only.        *)
EveryCallCounted ==
  xpc = "idle" => tx.packets + tx.dropped + tx.errors = calls

(* A packet is freed once: dev_kfree_skb is called also for a packet that  *)
(* NETDEV_TX_BUSY gives back to the stack.                                 *)
FreedOnce == \A s \in Skbs : frees[s] <= 1
=============================================================================
