------------------------------ MODULE E1000Tx ------------------------------
(***************************************************************************)
(* The transmit ring of the e1000 driver.  e1000_xmit_frame runs under the *)
(* transmit lock, e1000_clean_tx_irq in the poll, the fifo stall task and  *)
(* the reset task in workers; the hardware fetches descriptors from its    *)
(* head to the tail the driver wrote.  Which descriptors a packet takes is *)
(* E1000Sizes' matter: here a packet is the number of descriptors it uses. *)
(***************************************************************************)
EXTENDS Naturals, FiniteSets

CONSTANTS
  N,            \* tx_ring->count
  Packet,       \* packets: [ctx : 0..1, bufs : 1..], bufs data descriptors
  DescNeeded,   \* MAX_SKB_FRAGS + 7, what the next packet may need
  WakeLevel,    \* TX_WAKE_THRESHOLD
  Mac82547      \* half duplex 82547, which needs the fifo workaround

\* The smallest ring (80 descriptors) holds what DescNeeded and the wake
\* threshold ask for.  A packet may ask for more than the ring has: TSO with a
\* small mss cuts it into many buffers.
ASSUME TxAssumption ==
  /\ N \in Nat \ {0} /\ DescNeeded \in 0..(N - 1) /\ WakeLevel \in 0..(N - 1)
  /\ Packet \subseteq [ctx : 0..1, bufs : Nat \ {0}]
  /\ Mac82547 \in BOOLEAN

Slot == 0..(N - 1)

VARIABLES
  xmit, pkt, more,     \* e1000_xmit_frame: place, packet, skb->xmit_more
  ntu, ntc, tail,      \* next_to_use, next_to_clean, the TDT register
  head,                \* the TDH register
  dma, skb, watch,     \* buffer_info: mapped, packet, next_to_watch
  desc, dd,            \* descriptors: what they hold; written back
  poll, at, cleaned,   \* e1000_clean_tx_irq: place, i, count > 0
  stopped, carrier,    \* netif_stop_queue, netif_carrier_on
  stall, task, reset,  \* tx_fifo_stall, fifo_stall_task and reset_task queued
  owed,                \* a packet was refused while an earlier one waits for
                       \* the doorbell
  silent               \* only a transmit timeout will start the queue again

ring == << ntu, ntc, tail, head >>
slots == << dma, skb, watch, desc, dd >>
frame == << xmit, pkt, more >>
clean == << poll, at, cleaned >>
works == << stall, task, reset >>
ghost == << owed, silent >>
vars == << ring, slots, frame, clean, stopped, carrier, works, ghost >>

Inc(i, k) == (i + k) % N
Span(i, k) == { Inc(i, j) : j \in 0..(k - 1) }

\* E1000_DESC_UNUSED: one descriptor stays unused, so that head = tail means
\* an empty ring.
Unused == (IF ntc > ntu THEN 0 ELSE N) + ntc - ntu - 1

Empty == [i \in Slot |-> FALSE]
NoPacket == [ctx |-> 0, bufs |-> 0]

Init ==
  /\ xmit = "idle" /\ pkt = NoPacket /\ more = FALSE
  /\ ntu = 0 /\ ntc = 0 /\ tail = 0 /\ head = 0
  /\ dma = Empty /\ skb = Empty /\ watch = [i \in Slot |-> 0]
  /\ desc = [i \in Slot |-> "none"] /\ dd = Empty
  /\ poll = "idle" /\ at = 0 /\ cleaned = FALSE
  /\ stopped = FALSE /\ carrier = FALSE
  /\ stall = FALSE /\ task = FALSE /\ reset = FALSE
  /\ owed = FALSE /\ silent = FALSE

-----------------------------------------------------------------------------
(* e1000_xmit_frame                                                        *)

\* What a packet reserves: "count++" for the context if there is one, and
\* once more in any case; its buffers; "2 desc gap to keep tail from touching
\* head".
Reserve(p) == p.ctx + 1 + p.bufs + 2

XGoto(place) == xmit' = place

\* e1000_xmit_frame returns; it returns without having queued its packet.
Return == XGoto("idle") /\ pkt' = NoPacket
Refused == Return /\ more' = FALSE /\ owed' = (owed \/ tail # ntu)

\* The stack sends a packet, or one that was refused again; e1000_maybe_stop_tx.
XmitStart(p, m) ==
  /\ xmit = "idle" /\ carrier /\ ~stopped
  /\ pkt' = p /\ more' = m
  /\ XGoto(IF Unused >= Reserve(p) THEN "fifo" ELSE "full")
  /\ UNCHANGED << ring, slots, clean, stopped, carrier, works, ghost >>

\* netif_stop_queue in __e1000_maybe_stop_tx: the room seen before it may be
\* out of date.
XmitHalt ==
  /\ \/ xmit = "full" /\ XGoto("recheck")
     \/ xmit = "low" /\ XGoto("stop_recheck")
  /\ stopped' = TRUE
  /\ UNCHANGED << ring, slots, pkt, more, clean, carrier, works, ghost >>

\* As XmitRecheck, without the second look.
XmitRecheckNever ==
  /\ xmit = "recheck"
  /\ Refused
  /\ UNCHANGED << ring, slots, clean, stopped, carrier, works, silent >>

\* __e1000_maybe_stop_tx looks again: the poll may have made room meanwhile.
\* NETDEV_TX_BUSY otherwise, and the stack keeps the packet; one that is too
\* large for the ring stops the queue even if the ring is empty.
XmitRecheck ==
  /\ xmit = "recheck"
  /\ IF Unused < Reserve(pkt)
     THEN Refused /\ silent' = (silent \/ Reserve(pkt) >= N)
          /\ UNCHANGED stopped
     ELSE /\ XGoto("fifo") /\ stopped' = FALSE /\ silent' = FALSE
          /\ UNCHANGED << pkt, more, owed >>
  /\ UNCHANGED << ring, slots, clean, carrier, works >>

\* e1000_82547_fifo_workaround: the packet fits, or must wait for the fifo to
\* drain, as every packet must while another one waits.
XmitFifo ==
  /\ xmit = "fifo"
  /\ \/ /\ ~(Mac82547 /\ stall)
        /\ XGoto("map") /\ UNCHANGED stall
     \/ /\ Mac82547
        /\ XGoto("stall") /\ stall' = TRUE
  /\ UNCHANGED << ring, slots, pkt, more, clean, stopped, carrier, task,
                  reset, ghost >>

XmitStall ==
  /\ xmit = "stall"
  /\ stopped' = TRUE /\ task' = TRUE
  /\ Refused
  /\ UNCHANGED << ring, slots, clean, carrier, stall, reset, silent >>

First == Inc(ntu, pkt.ctx)
Last == Inc(First, pkt.bufs - 1)

\* e1000_tso or e1000_tx_csum takes a slot for the context (and moves
\* next_to_use past it, here only in XmitQueue: the room that the poll sees
\* meanwhile differs by this slot), e1000_tx_map one for each of k buffers.
\* Every slot watches itself until the packet is complete.
Context == Span(ntu, pkt.ctx)
Filled(k) == Span(First, k)
Watching(k) ==
  [i \in Slot |-> IF i \in Context \cup Filled(k) THEN i ELSE watch[i]]

XmitMap ==
  /\ xmit = "map"
  /\ watch' = Watching(pkt.bufs)
  /\ dma' = [i \in Slot |-> dma[i] \/ i \in Filled(pkt.bufs)]
  /\ XGoto("publish")
  /\ UNCHANGED << ring, skb, desc, dd, pkt, more, clean, stopped, carrier,
                  works, owed, silent >>

\* dma_error after k buffers were mapped: count is decremented before it is
\* used to walk back, so that the first of them keeps its mapping.  The
\* packet is freed and next_to_use put back.
Unwound(k) == Filled(k) \ { First }

XmitMapFails(k) ==
  /\ xmit = "map" /\ k < pkt.bufs
  /\ dma' = [i \in Slot |-> IF i \in Filled(k) THEN i \notin Unwound(k)
                            ELSE dma[i] /\ i # Inc(First, k)]
  /\ watch' = Watching(k)
  /\ Refused
  /\ UNCHANGED << ring, skb, desc, dd, clean, stopped, carrier, works, silent >>

\* The packet cannot be padded or pulled, or skb_cow_head fails in e1000_tso:
\* it is freed before any slot is touched.
XmitDrop ==
  /\ xmit = "map" \/ (xmit = "idle" /\ carrier /\ ~stopped)
  /\ Refused
  /\ UNCHANGED << ring, slots, clean, stopped, carrier, works, silent >>

\* The end of e1000_tx_map: the last slot owns the packet, the first one
\* watches the last.
XmitPublishFirst ==
  /\ xmit = "publish"
  /\ skb' = [skb EXCEPT ![First] = TRUE]
  /\ watch' = [watch EXCEPT ![ntu] = Last]
  /\ XGoto("queue")
  /\ UNCHANGED << ring, dma, desc, dd, pkt, more, clean, stopped,
                  carrier, works, ghost >>

XmitPublish ==
  /\ xmit = "publish"
  /\ skb' = [skb EXCEPT ![Last] = TRUE]
  /\ watch' = [watch EXCEPT ![ntu] = Last]
  /\ XGoto("queue")
  /\ UNCHANGED << ring, dma, desc, dd, pkt, more, clean, stopped,
                  carrier, works, ghost >>

\* e1000_tx_queue writes the descriptors; only the last one reports.
XmitQueue ==
  /\ xmit = "queue"
  /\ LET kind(i) == IF i = Last THEN "eop" ELSE "data"
     IN desc' = [i \in Slot |-> IF i \in Filled(pkt.bufs) THEN kind(i)
                               ELSE IF i \in Context THEN "ctx" ELSE desc[i]]
  /\ dd' = [i \in Slot |-> dd[i] /\ i \notin Filled(pkt.bufs)]
  /\ ntu' = Inc(Last, 1)
  /\ XGoto("stop")
  /\ UNCHANGED << ntc, tail, head, dma, skb, watch, pkt, more, clean,
                  stopped, carrier, works, ghost >>

\* "Make sure there is space in the ring for the next send."
XmitStop ==
  /\ xmit = "stop"
  /\ XGoto(IF Unused >= DescNeeded THEN "tail" ELSE "low")
  /\ UNCHANGED << ring, slots, pkt, more, clean, stopped, carrier, works,
                  ghost >>

XmitStopRecheck ==
  /\ xmit = "stop_recheck"
  /\ stopped' = (Unused < DescNeeded)
  /\ silent' = (silent /\ stopped')
  /\ XGoto("tail")
  /\ UNCHANGED << ring, slots, pkt, more, clean, carrier, works, owed >>

\* The doorbell, unless the stack promised another packet and can send it.
XmitTail ==
  /\ xmit = "tail"
  /\ LET rings == ~more \/ stopped
     IN /\ tail' = IF rings THEN ntu ELSE tail
        /\ owed' = (owed /\ ~rings) /\ more' = (more /\ ~rings)
  /\ Return
  /\ UNCHANGED << ntu, ntc, head, slots, clean, stopped, carrier, works,
                  silent >>

XmitNext ==
  \/ XmitHalt \/ XmitRecheck \/ XmitFifo \/ XmitStall \/ XmitMap \/ XmitDrop
  \/ (\E k \in 0..N : XmitMapFails(k))
  \/ XmitPublish \/ XmitQueue \/ XmitStop \/ XmitStopRecheck \/ XmitTail

-----------------------------------------------------------------------------
(* The hardware sends what lies before the tail and reports each packet.   *)

HwFetch ==
  /\ head # tail /\ carrier
  /\ head' = Inc(head, 1)
  /\ dd' = [dd EXCEPT ![head] = desc[head] = "eop" \/ @]
  /\ UNCHANGED << ntu, ntc, tail, dma, skb, watch, desc, frame, clean, stopped,
                  carrier, works, ghost >>

-----------------------------------------------------------------------------
(* e1000_clean_tx_irq                                                      *)

PollStart ==
  /\ poll = "idle"
  /\ poll' = "clean" /\ at' = ntc /\ cleaned' = FALSE
  /\ UNCHANGED << ring, slots, frame, stopped, carrier, works, ghost >>

\* One packet, up to the slot that its first slot watches: unmapped, freed,
\* and its descriptors made ready to be watched again.
CleanedKeepsDD(used) == dd
Cleaned(used) == [i \in Slot |-> dd[i] /\ i \notin used]

\* e1000_unmap_and_free_tx_resource, for dma and for skb.
Freed(info, used) == [i \in Slot |-> info[i] /\ i \notin used]

PollCleanUnreported ==
  /\ poll = "clean" /\ at # ntu
  /\ LET used == Span(at, ((watch[at] + N - at) % N) + 1)
     IN /\ dma' = Freed(dma, used) /\ skb' = Freed(skb, used)
        /\ dd' = Cleaned(used)
        /\ desc' = [i \in Slot |-> IF i \in used THEN "none" ELSE desc[i]]
  /\ at' = Inc(watch[at], 1) /\ cleaned' = TRUE
  /\ UNCHANGED << ring, watch, frame, poll, stopped, carrier, works,
                  ghost >>

PollClean ==
  /\ poll = "clean"
  /\ dd[watch[at]]
  /\ LET used == Span(at, ((watch[at] + N - at) % N) + 1)
     IN /\ dma' = Freed(dma, used) /\ skb' = Freed(skb, used)
        /\ dd' = Cleaned(used)
        /\ desc' = [i \in Slot |-> IF i \in used THEN "none" ELSE desc[i]]
  /\ at' = Inc(watch[at], 1) /\ cleaned' = TRUE
  /\ UNCHANGED << ring, watch, frame, poll, stopped, carrier, works,
                  ghost >>

PollStore ==
  /\ poll = "clean"
  /\ ~dd[watch[at]]
  /\ ntc' = at
  /\ poll' = "wake"
  /\ UNCHANGED << ntu, tail, head, slots, frame, at, cleaned, stopped, carrier,
                  works, ghost >>

\* The queue is to be started again once there is room for the largest
\* packet, and if it is stopped then.
PollWake ==
  /\ poll = "wake"
  /\ poll' = IF cleaned /\ carrier /\ Unused >= WakeLevel THEN "awake"
                                                         ELSE "idle"
  /\ silent' = (silent \/ (stopped /\ ~carrier)) /\ cleaned' = FALSE
  /\ UNCHANGED << ring, slots, frame, at, stopped, carrier, works, owed >>

PollAwake ==
  /\ poll = "awake"
  /\ stopped' = FALSE /\ silent' = FALSE /\ poll' = "idle"
  /\ UNCHANGED << ring, slots, frame, at, cleaned, carrier, works, owed >>

\* "Detected Tx Unit Hang": the packet at next_to_clean has an old time stamp,
\* whether the hardware was told of it or not.  The queue is stopped until the
\* transmit timeout.
PollHang ==
  /\ poll = "wake" /\ ntc # ntu
  /\ stopped' = TRUE /\ silent' = TRUE
  /\ poll' = "idle" /\ cleaned' = FALSE
  /\ UNCHANGED << ring, slots, frame, at, carrier, works, owed >>

PollNext ==
  PollStart \/ PollClean \/ PollStore \/ PollWake \/ PollAwake \/ PollHang

-----------------------------------------------------------------------------
(* The work items and the stack's timeout.                                 *)

\* e1000_82547_tx_fifo_stall_task
StallTask ==
  /\ task
  /\ IF stall /\ head = tail
     THEN stall' = FALSE /\ task' = FALSE /\ stopped' = FALSE /\ silent' = FALSE
     ELSE /\ task' = stall
          /\ silent' = (silent \/ (stopped /\ ~stall))
          /\ UNCHANGED << stall, stopped >>
  /\ UNCHANGED << ring, slots, frame, clean, carrier, reset, owed >>

\* The watchdog: the carrier follows the link, and without it a ring that is
\* not empty is reset.
Watchdog(link) ==
  /\ carrier' = link
  /\ reset' = (reset \/ (~link /\ Unused + 1 < N))
  /\ UNCHANGED << ring, slots, frame, clean, stopped, stall, task, ghost >>

TxTimeout ==
  /\ carrier /\ stopped
  /\ reset' = TRUE
  /\ UNCHANGED << ring, slots, frame, clean, stopped, carrier, stall, task,
                  ghost >>

\* e1000_down waits for the transmit lock and for the poll, cancels the stall
\* task and cleans the ring; e1000_up starts the queue.
ResetKeepsStopped ==
  /\ reset /\ xmit = "idle" /\ poll = "idle"
  /\ reset' = FALSE /\ stall' = FALSE /\ task' = FALSE
  /\ dma' = Empty /\ skb' = Empty /\ dd' = Empty
  /\ watch' = [i \in Slot |-> 0] /\ desc' = [i \in Slot |-> "none"]
  /\ ntu' = 0 /\ ntc' = 0 /\ tail' = 0 /\ head' = 0 /\ at' = 0
  /\ carrier' = FALSE
  /\ owed' = FALSE /\ silent' = FALSE
  /\ UNCHANGED << frame, poll, cleaned, stopped >>

Reset ==
  /\ reset /\ xmit = "idle" /\ poll = "idle"
  /\ reset' = FALSE /\ stall' = FALSE /\ task' = FALSE
  /\ dma' = Empty /\ skb' = Empty /\ dd' = Empty
  /\ watch' = [i \in Slot |-> 0] /\ desc' = [i \in Slot |-> "none"]
  /\ ntu' = 0 /\ ntc' = 0 /\ tail' = 0 /\ head' = 0 /\ at' = 0
  /\ carrier' = FALSE /\ stopped' = FALSE
  /\ owed' = FALSE /\ silent' = FALSE
  /\ UNCHANGED << frame, poll, cleaned >>

Next ==
  \/ (\E p \in Packet, m \in BOOLEAN : XmitStart(p, m))
  \/ XmitNext \/ HwFetch \/ PollNext \/ StallTask
  \/ (\E link \in BOOLEAN : Watchdog(link)) \/ TxTimeout \/ Reset

\* A call of the stack returns, an interrupt or the watchdog's starts the
\* poll, the reset task and the stack's timer run, and the cable is plugged in
\* again; the hardware may hang, and the stall task need not run.
Fairness ==
  /\ WF_vars(xmit # "idle" /\ XmitNext) /\ WF_vars(PollNext)
  /\ WF_vars(Watchdog(TRUE)) /\ SF_vars(TxTimeout) /\ SF_vars(Reset)

Spec == Init /\ [][Next]_vars /\ Fairness

-----------------------------------------------------------------------------

\* Every variable keeps its type.
TypeOK ==
  /\ pkt \in Packet \cup { NoPacket }
  /\ { ntu, ntc, tail, head, at } \subseteq Slot
  /\ dma \in [Slot -> BOOLEAN] /\ skb \in [Slot -> BOOLEAN]
  /\ dd \in [Slot -> BOOLEAN] /\ watch \in [Slot -> Slot]
  /\ desc \in [Slot -> { "none", "ctx", "data", "eop" }]
  /\ xmit \in { "idle", "recheck", "fifo", "stall", "map", "publish", "queue",
                "stop", "full", "low", "stop_recheck", "tail" }
  /\ poll \in { "idle", "clean", "wake", "awake" }
  /\ { more, cleaned, stopped, carrier, stall, task, reset, owed, silent }
       \subseteq BOOLEAN

Dist(i, j) == (j + N - i) % N

\* Going round the ring from next_to_clean one meets the poll, the head, the
\* tail and next_to_use in this order, and never next_to_clean again: the
\* poll frees nothing the hardware still reads, and a full ring is never
\* taken for an empty one (and every variable keeps its type).
PointersInOrder ==
  /\ TypeOK
  /\ Dist(ntc, at) <= Dist(ntc, head) \/ poll = "idle"
  /\ Dist(ntc, head) <= Dist(ntc, tail) /\ Dist(ntc, tail) <= Dist(ntc, ntu)

\* What the hardware will fetch is mapped, and the packet is not freed.
HardwareReadsMapped ==
  \A i \in Span(head, Dist(head, tail)) :
    /\ desc[i] \in { "data", "eop" } => dma[i]
    /\ desc[i] = "eop" => skb[i]
    /\ desc[i] # "none"

\* Outside of what is queued, and of what e1000_xmit_frame is filling in, no
\* slot owns a packet: each packet is freed once.
PacketsOwnedOnce ==
  \A i \in Slot :
    skb[i] <=> \/ /\ i \in Span(ntc, Dist(ntc, ntu)) /\ desc[i] = "eop"
                  /\ poll = "clean" => i \notin Span(ntc, Dist(ntc, at))
               \/ xmit = "queue" /\ i = Last

\* A stopped queue is started again by the poll or by the stall task; the
\* transmit timeout is needed only after a hang, a lost link, a lost doorbell,
\* a packet larger than the ring, or when the stall task ran too early.
StoppedQueueHasWaker ==
  stopped /\ carrier /\ xmit = "idle" /\ poll = "idle"
  => \/ head # tail \/ dd[watch[ntc]] \/ task \/ reset
     \/ owed \/ silent

\* A queue never stays stopped: whoever stopped it, and even when the hardware
\* hangs, it is started again.
QueueRestarts == []<>~stopped

\* A packet waits for the doorbell only while the stack may send the one it
\* promised.  The code refutes this: when that one is refused, dropped or
\* stalled, the packets before it stay in the ring without a doorbell.
NoDoorbellLost == xmit = "idle" /\ tail # ntu => more

\* No mapping is overwritten before it is undone.  The code refutes this:
\* dma_error leaves the first buffer of the packet mapped.
NoMappingLost == xmit = "map" => \A i \in Filled(pkt.bufs) : ~dma[i]
=============================================================================
