--------------------------- MODULE E1000TxProofs ---------------------------
(***************************************************************************)
(* Proofs of the safety properties of E1000Tx: for a ring of any size and  *)
(* any packets that it can hold.                                           *)
(***************************************************************************)
EXTENDS E1000Tx, Integers, TLAPS

-----------------------------------------------------------------------------
(* Places on the ring.                                                     *)

\* The slot k places after i, and how far ahead of i slot j is, without %.
Plus(i, k) == IF i + k < N THEN i + k ELSE i + k - N
Ahead(i, j) == IF i <= j THEN j - i ELSE j - i + N

\* The first slot that was not cleaned.
Oldest == IF poll = "clean" THEN at ELSE ntc

-----------------------------------------------------------------------------
(* The inductive invariant.                                                *)

\* A call of e1000_xmit_frame has a packet, and from e1000_maybe_stop_tx to
\* e1000_tx_queue the room it reserved, whatever the poll does meanwhile.
RoomInv ==
  /\ xmit # "idle" => pkt \in Packet
  /\ xmit \in { "fifo", "map", "publish", "queue" }
       => Ahead(ntc, ntu) + Reserve(pkt) < N

\* The poll stays between next_to_clean and next_to_use; the head and the tail
\* between the poll and next_to_use.
OrderInv ==
  /\ Ahead(ntc, Oldest) <= Ahead(ntc, ntu)
  /\ Ahead(Oldest, head) <= Ahead(Oldest, tail)
  /\ Ahead(Oldest, tail) <= Ahead(Oldest, ntu)
  /\ poll = "clean" /\ ~cleaned => at = ntc
  /\ poll \in { "wake", "awake" } => at = ntc

\* Exactly the slots from the poll to next_to_use hold descriptors; those the
\* hardware reports are the ends of packets before the head, and these ends
\* own the packets.
SlotOk(i) ==
  /\ desc[i] # "none" <=> Ahead(Oldest, i) < Ahead(Oldest, ntu)
  /\ dd[i] <=> desc[i] = "eop" /\ Ahead(Oldest, i) < Ahead(Oldest, head)
  /\ skb[i] <=> desc[i] = "eop" \/ (xmit = "queue" /\ i = Last)

SlotsInv == \A i \in Slot : SlotOk(i)

\* Buffers are mapped before their descriptors are written.
MappedOk(i) ==
  /\ desc[i] \in { "data", "eop" } => dma[i]
  /\ xmit \in { "publish", "queue" } /\ i \in Filled(pkt.bufs) => dma[i]

MappedInv == \A i \in Slot : MappedOk(i)

\* The first slot of a packet watches the last one.
Watches(i) ==
  /\ desc[watch[i]] = "eop"
  /\ Ahead(Oldest, i) <= Ahead(Oldest, watch[i])

\* The first slot that was not cleaned is the first one of a packet, and so is
\* every slot that follows a packet; so will be the one at next_to_use.
WatchInv ==
  /\ Oldest # ntu => Watches(Oldest)
  /\ \A i \in Slot : desc[i] = "eop" /\ Plus(i, 1) # ntu => Watches(Plus(i, 1))
  /\ xmit = "queue" => watch[ntu] = Last

\* Something will start a stopped queue again: the poll, since it has cleaned
\* or will find something to clean, or the call that stopped it, by its second
\* look at the room.
WakerInv ==
  stopped => \/ silent \/ task \/ xmit \in { "recheck", "stop_recheck" }
             \/ poll = "awake" \/ (poll \in { "clean", "wake" } /\ cleaned)
             \/ Oldest # ntu

\* A packet waits for the doorbell while the stack may send the one it promised,
\* or since that one was refused.
DoorbellInv ==
  xmit = "idle" /\ tail # ntu => (more /\ (stopped => silent)) \/ owed

IInv == /\ TypeOK /\ RoomInv /\ OrderInv /\ SlotsInv /\ MappedInv /\ WatchInv
        /\ WakerInv /\ DoorbellInv

-----------------------------------------------------------------------------
(* Inc, Dist and Span in linear arithmetic.                                *)

\* One subtraction reduces a sum of two slots.
LEMMA ModOnce ==
  ASSUME NEW x \in Nat, x < N + N
  PROVE  x % N = IF x < N THEN x ELSE x - N
  BY TxAssumption

\* Inc moves forward by one subtraction at most,
LEMMA IncIs ==
  ASSUME NEW i \in Slot, NEW k \in 0..N
  PROVE  Inc(i, k) = Plus(i, k)
  BY TxAssumption, ModOnce DEF Slot, Inc, Plus

\* stays in the ring,
LEMMA IncIn ==
  ASSUME NEW i \in Slot, NEW k \in 0..N
  PROVE  Inc(i, k) \in Slot
<1>1. Plus(i, k) \in Slot
  BY TxAssumption DEF Plus, Slot
<1>2. QED
  BY <1>1, IncIs

\* and Dist is the distance ahead.
LEMMA DistIs ==
  ASSUME NEW i \in Slot, NEW j \in Slot
  PROVE  Dist(i, j) = Ahead(i, j)
  BY TxAssumption, ModOnce DEF Slot, Dist, Ahead

\* A span of k slots from i holds those less than k ahead of i.
LEMMA SpanIs ==
  ASSUME NEW i \in Slot, NEW k \in 0..N, NEW j \in Slot
  PROVE  j \in Span(i, k) <=> Ahead(i, j) < k
<1>1. ASSUME NEW m \in 0..(k - 1)
      PROVE Ahead(i, Plus(i, m)) = m /\ Plus(i, m) \in Slot
  BY TxAssumption DEF Ahead, Plus, Slot
<1>2. Plus(i, Ahead(i, j)) = j /\ Ahead(i, j) \in Nat
  BY TxAssumption DEF Ahead, Plus, Slot
<1>3. \A m \in 0..(k - 1) : Inc(i, m) = Plus(i, m)
  BY IncIs, TxAssumption
<1>4. QED
  BY <1>1, <1>2, <1>3 DEF Span

\* The pointers are numbers below N.
LEMMA Pointers ==
  ASSUME TypeOK
  PROVE  /\ ntc \in Int /\ ntu \in Int /\ tail \in Int /\ head \in Int
         /\ at \in Int /\ N \in Int /\ 0 < N
         /\ 0 <= ntc /\ 0 <= ntu /\ 0 <= tail /\ 0 <= head /\ 0 <= at
         /\ ntc < N /\ ntu < N /\ tail < N /\ head < N /\ at < N
<1>1. N \in Int /\ 0 < N
  BY TxAssumption
<1>2. ntc \in Slot /\ ntu \in Slot /\ tail \in Slot /\ head \in Slot /\ at \in Slot
  BY DEF TypeOK
<1>3. QED
  BY <1>1, <1>2 DEF Slot

\* E1000_DESC_UNUSED is what one lap leaves, but for one slot.
LEMMA UnusedIs ==
  ASSUME TypeOK
  PROVE  Unused = N - 1 - Ahead(ntc, ntu)
  BY Pointers DEF Unused, Ahead

\* The packet fits between next_to_use and next_to_clean.
LEMMA RoomIs ==
  ASSUME TypeOK, RoomInv, xmit \in { "map", "publish", "queue" }
  PROVE  /\ pkt \in Packet /\ Ahead(ntc, ntu) + pkt.ctx + pkt.bufs + 3 < N
         /\ pkt.ctx \in 0..1 /\ pkt.bufs \in Int /\ 1 <= pkt.bufs
         /\ pkt.ctx + pkt.bufs + 3 < N
<1>1. pkt \in Packet /\ Ahead(ntc, ntu) + Reserve(pkt) < N
  BY DEF RoomInv
<1>2. /\ Ahead(ntc, ntu) \in Int /\ 0 <= Ahead(ntc, ntu)
      /\ pkt.ctx \in 0..1 /\ pkt.bufs \in Int /\ 1 <= pkt.bufs
  BY <1>1, TxAssumption, Pointers DEF Ahead
<1>3. QED
  BY <1>1, <1>2, TxAssumption DEF Reserve

\* The slots that a packet takes, from next_to_use on.
LEMMA PacketIs ==
  ASSUME TypeOK, RoomInv, xmit \in { "map", "publish", "queue" }
  PROVE  /\ pkt.ctx \in 0..1 /\ pkt.bufs \in Int /\ 1 <= pkt.bufs
         /\ pkt.ctx + pkt.bufs + 3 < N
         /\ First = Plus(ntu, pkt.ctx) /\ Last = Plus(ntu, pkt.ctx + pkt.bufs - 1)
         /\ First \in Slot /\ Last \in Slot
         /\ Inc(Last, 1) = Plus(ntu, pkt.ctx + pkt.bufs)
         /\ \A i \in Slot : i \in Context <=> Ahead(ntu, i) < pkt.ctx
         /\ \A k \in 0..pkt.bufs, i \in Slot :
              i \in Filled(k) <=> /\ pkt.ctx <= Ahead(ntu, i)
                                  /\ Ahead(ntu, i) < pkt.ctx + k
<1>1. /\ pkt.ctx \in 0..1 /\ pkt.bufs \in Int /\ 1 <= pkt.bufs
      /\ pkt.ctx + pkt.bufs + 3 < N
  BY RoomIs
<1>2. ntu \in Slot /\ pkt.ctx \in 0..N /\ pkt.bufs - 1 \in 0..N /\ 1 \in 0..N
  BY <1>1, TxAssumption DEF TypeOK
<1>3. First = Plus(ntu, pkt.ctx) /\ First \in Slot
  BY <1>2, IncIs, IncIn DEF First
<1>4. Last = Plus(First, pkt.bufs - 1) /\ Last \in Slot
  BY <1>2, <1>3, IncIs, IncIn DEF Last
<1>5. Last = Plus(ntu, pkt.ctx + pkt.bufs - 1)
  BY <1>1, <1>3, <1>4, Pointers DEF Plus
<1>6. Inc(Last, 1) = Plus(Last, 1)
  BY <1>2, <1>4, IncIs
<1>7. Inc(Last, 1) = Plus(ntu, pkt.ctx + pkt.bufs)
  BY <1>1, <1>5, <1>6, Pointers DEF Plus
<1>8. \A i \in Slot : i \in Context <=> Ahead(ntu, i) < pkt.ctx
  BY <1>2, SpanIs DEF Context
<1>9. ASSUME NEW k \in 0..pkt.bufs, NEW i \in Slot
      PROVE  i \in Filled(k) <=> /\ pkt.ctx <= Ahead(ntu, i)
                                 /\ Ahead(ntu, i) < pkt.ctx + k
  <2>1. i \in Filled(k) <=> Ahead(First, i) < k
    BY <1>1, <1>3, SpanIs, TxAssumption DEF Filled
  <2>2. i \in Int /\ 0 <= i /\ i < N
    BY TxAssumption DEF Slot
  <2>3. QED
    BY <1>1, <1>3, <2>1, <2>2, Pointers DEF Plus, Ahead
<1>10. QED
  BY <1>1, <1>3, <1>4, <1>5, <1>7, <1>8, <1>9

\* The slots that the poll cleans at once: up to the one watched.
LEMMA UsedIs ==
  ASSUME TypeOK, NEW i \in Slot
  PROVE  /\ watch[at] \in Slot /\ Inc(watch[at], 1) = Plus(watch[at], 1)
         /\ i \in Span(at, ((watch[at] + N - at) % N) + 1)
              <=> Ahead(at, i) <= Ahead(at, watch[at])
<1>1. at \in Slot /\ watch[at] \in Slot /\ 1 \in 0..N
  BY TxAssumption DEF TypeOK
<1>2. (watch[at] + N - at) % N = Ahead(at, watch[at])
  BY <1>1, DistIs DEF Dist
<1>3. /\ Ahead(at, watch[at]) + 1 \in 0..N
      /\ Ahead(at, watch[at]) \in Int /\ Ahead(at, i) \in Int
  BY <1>1, TxAssumption DEF Ahead, Slot
<1>4. i \in Span(at, Ahead(at, watch[at]) + 1)
        <=> Ahead(at, i) < Ahead(at, watch[at]) + 1
  BY <1>1, <1>3, SpanIs
<1>5. Inc(watch[at], 1) = Plus(watch[at], 1)
  BY <1>1, IncIs
<1>6. QED
  BY <1>1, <1>2, <1>3, <1>4, <1>5

\* The poll is at a slot.
LEMMA OldestIs ==
  ASSUME TypeOK
  PROVE  Oldest \in Slot /\ Oldest \in Int /\ 0 <= Oldest /\ Oldest < N
  BY Pointers DEF TypeOK, Oldest

-----------------------------------------------------------------------------
(* What the actions do to the slots.                                       *)

\* Mapping, whether it fails or not, touches slots of the packet only.
LEMMA MapIs ==
  ASSUME TypeOK, RoomInv, XmitMap \/ \E k \in 0..N : XmitMapFails(k)
  PROVE  /\ watch' \in [Slot -> Slot] /\ dma' \in [Slot -> BOOLEAN]
         /\ \A i \in Slot : Ahead(ntu, i) >= pkt.ctx + pkt.bufs
                              => watch'[i] = watch[i] /\ dma'[i] = dma[i]
<1>1. /\ xmit \in { "map", "publish", "queue" }
      /\ pkt.ctx \in 0..1 /\ pkt.bufs \in Int /\ 1 <= pkt.bufs
  BY RoomIs DEF XmitMap, XmitMapFails
<1>2. PICK k \in 0..pkt.bufs :
        /\ watch' = Watching(k)
        /\ \/ dma' = [i \in Slot |-> dma[i] \/ i \in Filled(k)]
           \/ /\ k < pkt.bufs
              /\ dma' = [i \in Slot |->
                           IF i \in Filled(k) THEN i \notin Unwound(k)
                           ELSE dma[i] /\ i # Inc(First, k)]
  <2>1. CASE XmitMap
    <3>1. pkt.bufs \in 0..pkt.bufs
      BY <1>1, PacketIs
    <3>2. QED
      BY <2>1, <3>1 DEF XmitMap
  <2>2. ASSUME NEW k \in 0..N, XmitMapFails(k)
        PROVE k \in 0..pkt.bufs /\ k < pkt.bufs
    BY <1>1, <2>2, PacketIs DEF XmitMapFails
  <2>3. QED
    BY <2>1, <2>2 DEF XmitMapFails
<1>3. watch' \in [Slot -> Slot]
  BY <1>2 DEF Watching, TypeOK
<1>4. dma' \in [Slot -> BOOLEAN]
  BY <1>2 DEF TypeOK
<1>5. ASSUME NEW i \in Slot, Ahead(ntu, i) >= pkt.ctx + pkt.bufs
      PROVE  watch'[i] = watch[i] /\ dma'[i] = dma[i]
  <2>0. ntu \in Slot /\ i \in Int /\ 0 <= i /\ i < N
    BY TxAssumption DEF TypeOK, Slot
  <2>1. i \notin Filled(k) /\ i \notin Context
    BY <1>1, <1>5, <2>0, PacketIs, Pointers DEF Ahead
  <2>2. k < pkt.bufs => i # Inc(First, k)
    <3>1. Inc(First, k) = Plus(First, k)
      BY <1>1, PacketIs, IncIs, TxAssumption
    <3>2. QED
      BY <1>1, <1>5, <2>0, <3>1, PacketIs, Pointers DEF Ahead, Plus
  <2>3. dma[i] \in BOOLEAN
    BY DEF TypeOK
  <2>4. watch'[i] = watch[i]
    BY <1>2, <2>1 DEF Watching
  <2>5. dma'[i] = dma[i]
    BY <1>2, <2>1, <2>2, <2>3
  <2>6. QED
    BY <2>4, <2>5
<1>6. QED
  BY <1>3, <1>4, <1>5

\* e1000_tx_queue fills the packet's slots, ends it at the last one and
\* touches no other.
LEMMA QueueIs ==
  ASSUME TypeOK, RoomInv, XmitQueue
  PROVE  /\ pkt \in Packet /\ ntu' = Plus(ntu, pkt.ctx + pkt.bufs)
         /\ desc' \in [Slot -> { "none", "ctx", "data", "eop" }]
         /\ dd' \in [Slot -> BOOLEAN]
         /\ \A i \in Slot :
              /\ Ahead(ntu, i) < pkt.ctx + pkt.bufs
                   => desc'[i] # "none" /\ (desc'[i] = "eop" <=> i = Last)
              /\ Ahead(ntu, i) >= pkt.ctx + pkt.bufs
                   => desc'[i] = desc[i] /\ dd'[i] = dd[i]
              /\ desc'[i] \in { "data", "eop" }
                   => desc'[i] = desc[i] \/ i \in Filled(pkt.bufs)
              /\ dd'[i] => dd[i]
<1>1. /\ xmit \in { "map", "publish", "queue" } /\ pkt \in Packet
      /\ pkt.ctx \in 0..1 /\ pkt.bufs \in Int /\ 1 <= pkt.bufs
  BY RoomIs DEF XmitQueue
<1>2. ntu' = Plus(ntu, pkt.ctx + pkt.bufs)
  BY <1>1, PacketIs DEF XmitQueue
<1>3. desc' \in [Slot -> { "none", "ctx", "data", "eop" }]
  BY DEF XmitQueue, TypeOK
<1>4. dd' \in [Slot -> BOOLEAN]
  BY DEF XmitQueue, TypeOK
<1>5. ASSUME NEW i \in Slot
      PROVE  /\ Ahead(ntu, i) < pkt.ctx + pkt.bufs
                  => desc'[i] # "none" /\ (desc'[i] = "eop" <=> i = Last)
             /\ Ahead(ntu, i) >= pkt.ctx + pkt.bufs
                  => desc'[i] = desc[i] /\ dd'[i] = dd[i]
             /\ desc'[i] \in { "data", "eop" }
                  => desc'[i] = desc[i] \/ i \in Filled(pkt.bufs)
             /\ dd'[i] => dd[i]
  <2>a. pkt.bufs \in 0..pkt.bufs
    BY <1>1, PacketIs
  <2>0. ntu \in Slot /\ i \in Int /\ 0 <= i /\ i < N /\ pkt.bufs \in 0..pkt.bufs
    BY <2>a, TxAssumption DEF TypeOK, Slot
  <2>1. i \in Filled(pkt.bufs) <=> /\ pkt.ctx <= Ahead(ntu, i)
                                   /\ Ahead(ntu, i) < pkt.ctx + pkt.bufs
    BY <1>1, <2>0, PacketIs
  <2>2. i = Last <=> Ahead(ntu, i) = pkt.ctx + pkt.bufs - 1
    BY <1>1, <2>0, PacketIs, Pointers DEF Ahead, Plus
  <2>3. i \in Context <=> Ahead(ntu, i) < pkt.ctx
    BY <1>1, PacketIs
  <2>4. dd'[i] = (dd[i] /\ i \notin Filled(pkt.bufs))
    BY DEF XmitQueue
  <2>5. desc'[i] = IF i \in Filled(pkt.bufs)
                   THEN IF i = Last THEN "eop" ELSE "data"
                   ELSE IF i \in Context THEN "ctx" ELSE desc[i]
    BY DEF XmitQueue
  <2>6. pkt.ctx \in Int /\ pkt.bufs \in Int /\ Ahead(ntu, i) \in Int /\ 1 <= pkt.bufs
    BY <1>1, <2>0, PacketIs, Pointers DEF Ahead
  <2>7. dd[i] \in BOOLEAN
    BY DEF TypeOK
  <2>8. QED
    BY <2>1, <2>2, <2>3, <2>4, <2>5, <2>6, <2>7
<1>6. QED
  BY <1>1, <1>2, <1>3, <1>4, <1>5

\* The poll cleans the slots up to the one watched, and touches no other.
LEMMA CleanIs ==
  ASSUME TypeOK, PollClean
  PROVE  /\ dma' \in [Slot -> BOOLEAN] /\ skb' \in [Slot -> BOOLEAN]
         /\ dd' \in [Slot -> BOOLEAN]
         /\ desc' \in [Slot -> { "none", "ctx", "data", "eop" }]
         /\ watch[at] \in Slot /\ at' = Plus(watch[at], 1)
         /\ \A i \in Slot :
              /\ Ahead(at, i) <= Ahead(at, watch[at])
                   => ~dma'[i] /\ ~skb'[i] /\ ~dd'[i] /\ desc'[i] = "none"
              /\ Ahead(at, i) > Ahead(at, watch[at])
                   => /\ dma'[i] = dma[i] /\ skb'[i] = skb[i]
                      /\ dd'[i] = dd[i] /\ desc'[i] = desc[i]
<1> DEFINE used == Span(at, ((watch[at] + N - at) % N) + 1)
<1>1. /\ dma' = Freed(dma, used) /\ skb' = Freed(skb, used) /\ dd' = Cleaned(used)
      /\ desc' = [i \in Slot |-> IF i \in used THEN "none" ELSE desc[i]]
      /\ at' = Inc(watch[at], 1)
  BY DEF PollClean
<1>2. watch[at] \in Slot /\ Inc(watch[at], 1) = Plus(watch[at], 1)
  BY UsedIs DEF TypeOK
<1>3. ASSUME NEW i \in Slot
      PROVE  /\ i \in used <=> Ahead(at, i) <= Ahead(at, watch[at])
             /\ Ahead(at, i) \in Int /\ Ahead(at, watch[at]) \in Int
  <2>1. i \in used <=> Ahead(at, i) <= Ahead(at, watch[at])
    BY UsedIs
  <2>2. at \in Slot /\ watch[at] \in Slot
    BY <1>2 DEF TypeOK
  <2>3. QED
    BY <2>1, <2>2, TxAssumption DEF Ahead, Slot
<1> HIDE DEF used
<1>4. /\ dma' \in [Slot -> BOOLEAN] /\ skb' \in [Slot -> BOOLEAN]
      /\ dd' \in [Slot -> BOOLEAN]
      /\ desc' \in [Slot -> { "none", "ctx", "data", "eop" }]
  BY <1>1 DEF Freed, Cleaned, TypeOK
<1>5. \A i \in Slot :
        /\ i \in used => ~dma'[i] /\ ~skb'[i] /\ ~dd'[i] /\ desc'[i] = "none"
        /\ i \notin used => /\ dma'[i] = dma[i] /\ skb'[i] = skb[i]
                            /\ dd'[i] = dd[i] /\ desc'[i] = desc[i]
  BY <1>1 DEF Freed, Cleaned, TypeOK
<1>6. QED
  BY <1>1, <1>2, <1>3, <1>4, <1>5

-----------------------------------------------------------------------------
(* Every step preserves each part of the invariant.                        *)

\* Each step keeps the types.
LEMMA TypeStep == TypeOK /\ RoomInv /\ [Next]_vars => TypeOK'
<1> SUFFICES ASSUME TypeOK, RoomInv, [Next]_vars
             PROVE  TypeOK'
  OBVIOUS
<1>0. \A i \in Slot, k \in 0..N : Inc(i, k) \in Slot
  BY IncIn
<1>a. 0 \in Slot /\ 1 \in 0..N
  BY TxAssumption DEF Slot
<1> USE DEF TypeOK, Return, Refused, XGoto, ring, slots, frame, clean, works,
        ghost
<1>1. ASSUME NEW p \in Packet, NEW m \in BOOLEAN, XmitStart(p, m)
      PROVE  TypeOK'
  BY <1>1 DEF XmitStart
<1>2. CASE XmitHalt
  BY <1>2 DEF XmitHalt
<1>3. CASE XmitRecheck
  BY <1>3 DEF XmitRecheck
<1>4. CASE XmitFifo
  BY <1>4 DEF XmitFifo
<1>5. CASE XmitStall
  BY <1>5 DEF XmitStall
<1>6. CASE XmitMap
  BY <1>6, MapIs DEF XmitMap
<1>7. ASSUME NEW k \in 0..N, XmitMapFails(k)
      PROVE  TypeOK'
  BY <1>7, MapIs DEF XmitMapFails
<1>8. CASE XmitDrop
  BY <1>8 DEF XmitDrop
<1>9. CASE XmitPublish
  <2>1. Last \in Slot
    BY <1>9, PacketIs DEF XmitPublish, RoomInv
  <2>2. QED
    BY <1>9, <2>1 DEF XmitPublish
<1>10. CASE XmitQueue
  <2>1. ntu' \in Slot
    BY <1>10, <1>0, <1>a, PacketIs DEF XmitQueue, RoomInv
  <2>2. QED
    BY <1>10, <2>1, QueueIs DEF XmitQueue
<1>11. CASE XmitStop
  BY <1>11 DEF XmitStop
<1>12. CASE XmitStopRecheck
  BY <1>12 DEF XmitStopRecheck
<1>13. CASE XmitTail
  BY <1>13 DEF XmitTail
<1>14. CASE HwFetch
  BY <1>14, <1>0, <1>a DEF HwFetch
<1>15. CASE PollStart
  BY <1>15 DEF PollStart
<1>16. CASE PollClean
  <2>1. at' \in Slot
    BY <1>16, <1>0, <1>a DEF PollClean
  <2>2. QED
    BY <1>16, <2>1, CleanIs DEF PollClean
<1>17. CASE PollStore
  BY <1>17 DEF PollStore
<1>18. CASE PollWake
  BY <1>18 DEF PollWake
<1>19. CASE PollAwake
  BY <1>19 DEF PollAwake
<1>20. CASE PollHang
  BY <1>20 DEF PollHang
<1>21. CASE StallTask
  BY <1>21 DEF StallTask
<1>22. ASSUME NEW link \in BOOLEAN, Watchdog(link)
       PROVE  TypeOK'
  BY <1>22 DEF Watchdog
<1>23. CASE TxTimeout
  BY <1>23 DEF TxTimeout
<1>24. CASE Reset
  BY <1>24, <1>a DEF Reset, Empty
<1>25. CASE UNCHANGED vars
  BY <1>25 DEF vars, ring, slots, frame, clean, works, ghost
<1>26. QED
  BY <1>1, <1>2, <1>3, <1>4, <1>5, <1>6, <1>7, <1>8, <1>9, <1>10, <1>11,
     <1>12, <1>13, <1>14, <1>15, <1>16, <1>17, <1>18, <1>19, <1>20, <1>21,
     <1>22, <1>23, <1>24, <1>25 DEF Next, XmitNext, PollNext

\* No step takes away the room that a packet has reserved.
LEMMA RoomStep == TypeOK /\ RoomInv /\ OrderInv /\ [Next]_vars => RoomInv'
<1> SUFFICES ASSUME TypeOK, RoomInv, OrderInv, [Next]_vars
             PROVE  RoomInv'
  OBVIOUS
<1> USE Pointers, UnusedIs DEF RoomInv, OrderInv, Oldest, Ahead, Return,
        Refused, XGoto, ring, slots, frame, clean, works, ghost
<1>1. ASSUME NEW p \in Packet, NEW m \in BOOLEAN, XmitStart(p, m)
      PROVE  RoomInv'
  <2>1. Reserve(p) \in Int
    BY TxAssumption DEF Reserve
  <2>2. QED
    BY <1>1, <2>1 DEF XmitStart, Reserve
<1>2. CASE XmitHalt
  BY <1>2 DEF XmitHalt
<1>3. CASE XmitRecheck
  <2>1. Reserve(pkt) \in Int
    BY <1>3, TxAssumption DEF XmitRecheck, Reserve
  <2>2. QED
    BY <1>3, <2>1 DEF XmitRecheck, Reserve
<1>4. CASE XmitFifo
  BY <1>4 DEF XmitFifo
<1>5. CASE XmitStall
  BY <1>5 DEF XmitStall
<1>6. CASE XmitMap
  BY <1>6 DEF XmitMap
<1>7. ASSUME NEW k \in 0..N, XmitMapFails(k)
      PROVE  RoomInv'
  BY <1>7 DEF XmitMapFails
<1>8. CASE XmitDrop
  BY <1>8 DEF XmitDrop
<1>9. CASE XmitPublish
  BY <1>9 DEF XmitPublish
<1>10. CASE XmitQueue
  BY <1>10 DEF XmitQueue
<1>11. CASE XmitStop
  BY <1>11 DEF XmitStop
<1>12. CASE XmitStopRecheck
  BY <1>12 DEF XmitStopRecheck
<1>13. CASE XmitTail
  BY <1>13 DEF XmitTail
<1>14. CASE HwFetch
  BY <1>14 DEF HwFetch
<1>15. CASE PollStart
  BY <1>15 DEF PollStart
<1>16. CASE PollClean
  BY <1>16 DEF PollClean
<1>17. CASE PollStore
  <2>1. xmit # "idle" => Reserve(pkt) \in Int
    BY TxAssumption DEF Reserve
  <2>2. QED
    BY <1>17, <2>1 DEF PollStore, Reserve
<1>18. CASE PollWake
  BY <1>18 DEF PollWake
<1>19. CASE PollAwake
  BY <1>19 DEF PollAwake
<1>20. CASE PollHang
  BY <1>20 DEF PollHang
<1>21. CASE StallTask
  BY <1>21 DEF StallTask
<1>22. ASSUME NEW link \in BOOLEAN, Watchdog(link)
       PROVE  RoomInv'
  BY <1>22 DEF Watchdog
<1>23. CASE TxTimeout
  BY <1>23 DEF TxTimeout
<1>24. CASE Reset
  BY <1>24 DEF Reset
<1>25. CASE UNCHANGED vars
  BY <1>25 DEF vars, ring, slots, frame, clean, works, ghost
<1>26. QED
  BY <1>1, <1>2, <1>3, <1>4, <1>5, <1>6, <1>7, <1>8, <1>9, <1>10, <1>11,
     <1>12, <1>13, <1>14, <1>15, <1>16, <1>17, <1>18, <1>19, <1>20, <1>21,
     <1>22, <1>23, <1>24, <1>25 DEF Next, XmitNext, PollNext

\* No step forgets a packet that awaits its doorbell.
LEMMA DoorbellStep == TypeOK /\ DoorbellInv /\ [Next]_vars => DoorbellInv'
<1> SUFFICES ASSUME TypeOK, DoorbellInv, [Next]_vars
             PROVE  DoorbellInv'
  OBVIOUS
<1> USE DEF DoorbellInv, TypeOK, Return, Refused, XGoto, ring, slots, frame,
        clean, works, ghost
<1>1. ASSUME NEW p \in Packet, NEW m \in BOOLEAN, XmitStart(p, m)
      PROVE  DoorbellInv'
  BY <1>1 DEF XmitStart
<1>2. CASE XmitHalt
  BY <1>2 DEF XmitHalt
<1>3. CASE XmitRecheck
  BY <1>3 DEF XmitRecheck
<1>4. CASE XmitFifo
  BY <1>4 DEF XmitFifo
<1>5. CASE XmitStall
  BY <1>5 DEF XmitStall
<1>6. CASE XmitMap
  BY <1>6 DEF XmitMap
<1>7. ASSUME NEW k \in 0..N, XmitMapFails(k)
      PROVE  DoorbellInv'
  BY <1>7 DEF XmitMapFails
<1>8. CASE XmitDrop
  BY <1>8 DEF XmitDrop
<1>9. CASE XmitPublish
  BY <1>9 DEF XmitPublish
<1>10. CASE XmitQueue
  BY <1>10 DEF XmitQueue
<1>11. CASE XmitStop
  BY <1>11 DEF XmitStop
<1>12. CASE XmitStopRecheck
  BY <1>12 DEF XmitStopRecheck
<1>13. CASE XmitTail
  BY <1>13 DEF XmitTail
<1>14. CASE HwFetch
  BY <1>14 DEF HwFetch
<1>15. CASE PollStart
  BY <1>15 DEF PollStart
<1>16. CASE PollClean
  BY <1>16 DEF PollClean
<1>17. CASE PollStore
  BY <1>17 DEF PollStore
<1>18. CASE PollWake
  BY <1>18 DEF PollWake
<1>19. CASE PollAwake
  BY <1>19 DEF PollAwake
<1>20. CASE PollHang
  BY <1>20 DEF PollHang
<1>21. CASE StallTask
  BY <1>21 DEF StallTask
<1>22. ASSUME NEW link \in BOOLEAN, Watchdog(link)
       PROVE  DoorbellInv'
  BY <1>22 DEF Watchdog
<1>23. CASE TxTimeout
  BY <1>23 DEF TxTimeout
<1>24. CASE Reset
  BY <1>24 DEF Reset
<1>25. CASE UNCHANGED vars
  BY <1>25 DEF vars, ring, slots, frame, clean, works, ghost
<1>26. QED
  BY <1>1, <1>2, <1>3, <1>4, <1>5, <1>6, <1>7, <1>8, <1>9, <1>10, <1>11,
     <1>12, <1>13, <1>14, <1>15, <1>16, <1>17, <1>18, <1>19, <1>20, <1>21,
     <1>22, <1>23, <1>24, <1>25 DEF Next, XmitNext, PollNext

\* No step lets the poll pass the head, the head the tail, or the tail
\* next_to_use.
LEMMA OrderStep ==
  TypeOK /\ RoomInv /\ OrderInv /\ SlotsInv /\ [Next]_vars => OrderInv'
<1> SUFFICES ASSUME TypeOK, RoomInv, OrderInv, SlotsInv, [Next]_vars
             PROVE  OrderInv'
  OBVIOUS
<1> USE Pointers DEF OrderInv, Oldest, Ahead, Plus, Return, Refused, XGoto,
        ring, slots, frame, clean, works, ghost
<1>1. ASSUME NEW p \in Packet, NEW m \in BOOLEAN, XmitStart(p, m)
      PROVE  OrderInv'
  BY <1>1 DEF XmitStart
<1>2. CASE XmitHalt
  BY <1>2 DEF XmitHalt
<1>3. CASE XmitRecheck
  BY <1>3 DEF XmitRecheck
<1>4. CASE XmitFifo
  BY <1>4 DEF XmitFifo
<1>5. CASE XmitStall
  BY <1>5 DEF XmitStall
<1>6. CASE XmitMap
  BY <1>6 DEF XmitMap
<1>7. ASSUME NEW k \in 0..N, XmitMapFails(k)
      PROVE  OrderInv'
  BY <1>7 DEF XmitMapFails
<1>8. CASE XmitDrop
  BY <1>8 DEF XmitDrop
<1>9. CASE XmitPublish
  BY <1>9 DEF XmitPublish
<1>10. CASE XmitQueue
  <2>1. /\ pkt \in Packet /\ ntu' = Plus(ntu, pkt.ctx + pkt.bufs)
        /\ Ahead(ntc, ntu) + pkt.ctx + pkt.bufs + 3 < N
        /\ pkt.ctx \in 0..1 /\ pkt.bufs \in Int /\ 1 <= pkt.bufs
    BY <1>10, QueueIs, RoomIs DEF XmitQueue
  <2>2. QED
    BY <1>10, <2>1 DEF XmitQueue
<1>11. CASE XmitStop
  BY <1>11 DEF XmitStop
<1>12. CASE XmitStopRecheck
  BY <1>12 DEF XmitStopRecheck
<1>13. CASE XmitTail
  BY <1>13 DEF XmitTail
<1>14. CASE HwFetch
  <2>1. head' = Plus(head, 1)
    BY <1>14, IncIs, TxAssumption DEF HwFetch, TypeOK
  <2>2. QED
    BY <1>14, <2>1 DEF HwFetch
<1>15. CASE PollStart
  BY <1>15 DEF PollStart
<1>16. CASE PollClean
  <2>1. watch[at] \in Slot /\ at' = Plus(watch[at], 1)
    BY <1>16, CleanIs
  <2>2. Ahead(at, watch[at]) < Ahead(at, head)
    BY <1>16, <2>1 DEF PollClean, SlotsInv, SlotOk
  <2>3. watch[at] \in Int /\ 0 <= watch[at] /\ watch[at] < N
    BY <2>1, TxAssumption DEF Slot
  <2>4. QED
    BY <1>16, <2>1, <2>2, <2>3 DEF PollClean
<1>17. CASE PollStore
  BY <1>17 DEF PollStore
<1>18. CASE PollWake
  BY <1>18 DEF PollWake
<1>19. CASE PollAwake
  BY <1>19 DEF PollAwake
<1>20. CASE PollHang
  BY <1>20 DEF PollHang
<1>21. CASE StallTask
  BY <1>21 DEF StallTask
<1>22. ASSUME NEW link \in BOOLEAN, Watchdog(link)
       PROVE  OrderInv'
  BY <1>22 DEF Watchdog
<1>23. CASE TxTimeout
  BY <1>23 DEF TxTimeout
<1>24. CASE Reset
  BY <1>24 DEF Reset
<1>25. CASE UNCHANGED vars
  BY <1>25 DEF vars, ring, slots, frame, clean, works, ghost
<1>26. QED
  BY <1>1, <1>2, <1>3, <1>4, <1>5, <1>6, <1>7, <1>8, <1>9, <1>10, <1>11,
     <1>12, <1>13, <1>14, <1>15, <1>16, <1>17, <1>18, <1>19, <1>20, <1>21,
     <1>22, <1>23, <1>24, <1>25 DEF Next, XmitNext, PollNext

\* No step leaves a descriptor, a report or a packet in a slot that is not
\* queued.
LEMMA SlotsStep ==
  TypeOK /\ RoomInv /\ OrderInv /\ SlotsInv /\ [Next]_vars => SlotsInv'
<1> SUFFICES ASSUME TypeOK, RoomInv, OrderInv, SlotsInv, [Next]_vars,
                    NEW i \in Slot
             PROVE  SlotOk(i)'
  BY DEF SlotsInv
<1>a. /\ dd[i] \in BOOLEAN /\ skb[i] \in BOOLEAN
      /\ desc[i] \in { "none", "ctx", "data", "eop" }
  BY DEF TypeOK
<1>0. /\ i \in Int /\ 0 <= i /\ i < N /\ dd[i] \in BOOLEAN /\ skb[i] \in BOOLEAN
      /\ desc[i] \in { "none", "ctx", "data", "eop" } /\ 1 \in 0..N
  BY <1>a, TxAssumption DEF Slot
<1>b. SlotOk(i)
  BY DEF SlotsInv
<1> USE <1>b, Pointers DEF SlotOk, Return, Refused, XGoto, ring, slots, frame,
        clean, works, ghost
<1>1. ASSUME NEW p \in Packet, NEW m \in BOOLEAN, XmitStart(p, m)
      PROVE  SlotOk(i)'
  BY <1>1 DEF XmitStart, Oldest
<1>2. CASE XmitHalt
  BY <1>2 DEF XmitHalt, Oldest
<1>3. CASE XmitRecheck
  BY <1>3 DEF XmitRecheck, Oldest
<1>4. CASE XmitFifo
  BY <1>4 DEF XmitFifo, Oldest
<1>5. CASE XmitStall
  BY <1>5 DEF XmitStall, Oldest
<1>6. CASE XmitMap
  BY <1>6 DEF XmitMap, Oldest
<1>7. ASSUME NEW k \in 0..N, XmitMapFails(k)
      PROVE  SlotOk(i)'
  BY <1>7 DEF XmitMapFails, Oldest
<1>8. CASE XmitDrop
  BY <1>8 DEF XmitDrop, Oldest
<1>9. CASE XmitPublish
  <2>1. Last' = Last /\ Last \in Slot
    BY <1>9, PacketIs DEF XmitPublish, RoomInv, Last, First
  <2>2. QED
    BY <1>9, <1>0, <2>1 DEF XmitPublish, Oldest, TypeOK
<1>10. CASE XmitQueue
  <2>1. /\ pkt \in Packet /\ ntu' = Plus(ntu, pkt.ctx + pkt.bufs)
        /\ Ahead(ntc, ntu) + pkt.ctx + pkt.bufs + 3 < N
        /\ pkt.ctx \in 0..1 /\ pkt.bufs \in Int /\ 1 <= pkt.bufs
    BY <1>10, QueueIs, RoomIs DEF XmitQueue
  <2>2. /\ Ahead(ntu, i) < pkt.ctx + pkt.bufs
             => desc'[i] # "none" /\ (desc'[i] = "eop" <=> i = Last)
        /\ Ahead(ntu, i) >= pkt.ctx + pkt.bufs
             => desc'[i] = desc[i] /\ dd'[i] = dd[i]
        /\ dd'[i] => dd[i]
    BY <1>10, QueueIs
  <2>3. i = Last => Ahead(ntu, i) < pkt.ctx + pkt.bufs
    BY <1>10, <2>1, <1>0, PacketIs DEF XmitQueue, Ahead, Plus
  <2>4. Oldest' = Oldest /\ head' = head /\ skb' = skb /\ xmit = "queue" /\ xmit' = "stop"
    BY <1>10 DEF XmitQueue, Oldest
  <2>5. Ahead(Oldest, i) < Ahead(Oldest, ntu)
          <=> Ahead(Oldest, i) < Ahead(Oldest, ntu') /\ Ahead(ntu, i) >= pkt.ctx + pkt.bufs
    BY <1>0, <2>1 DEF OrderInv, Oldest, Ahead, Plus
  <2>6. Ahead(ntu, i) < pkt.ctx + pkt.bufs => Ahead(Oldest, i) < Ahead(Oldest, ntu')
    BY <1>0, <2>1 DEF OrderInv, Oldest, Ahead, Plus
  <2>7. Ahead(Oldest, i) < Ahead(Oldest, head) => Ahead(Oldest, i) < Ahead(Oldest, ntu)
    BY <1>0 DEF OrderInv, Oldest, Ahead
  <2>8. Ahead(ntu, i) \in Int /\ pkt.ctx \in Int
    BY <1>0, <2>1 DEF Ahead
  <2>9. QED
    BY <1>0, <2>1, <2>2, <2>3, <2>4, <2>5, <2>6, <2>7, <2>8
<1>11. CASE XmitStop
  BY <1>11 DEF XmitStop, Oldest
<1>12. CASE XmitStopRecheck
  BY <1>12 DEF XmitStopRecheck, Oldest
<1>13. CASE XmitTail
  BY <1>13 DEF XmitTail, Oldest
<1>14. CASE HwFetch
  <2>1. head' = Plus(head, 1)
    BY <1>14, <1>0, IncIs DEF HwFetch, TypeOK
  <2>2. Oldest' = Oldest /\ ntu' = ntu /\ skb' = skb /\ desc' = desc /\ xmit' = xmit
        /\ Last' = Last /\ dd'[i] = IF i = head THEN desc[i] = "eop" \/ dd[i] ELSE dd[i]
    BY <1>14 DEF HwFetch, Oldest, Last, First, TypeOK
  <2>3. Ahead(Oldest, i) < Ahead(Oldest, head')
          <=> Ahead(Oldest, i) < Ahead(Oldest, head) \/ i = head
    <3> HIDE DEF SlotOk
    <3>1. Ahead(Oldest, head) <= Ahead(Oldest, tail) /\ head # tail
      BY <1>14 DEF HwFetch, OrderInv
    <3>2. QED
      BY <1>0, <2>1, <3>1, OldestIs DEF Ahead, Plus
  <2>4. QED
    BY <1>0, <2>2, <2>3
<1>15. CASE PollStart
  BY <1>15 DEF PollStart, Oldest, Last, First
<1>16. CASE PollClean
  <2>1. /\ watch[at] \in Slot /\ at' = Plus(watch[at], 1) /\ dd[watch[at]]
        /\ Ahead(at, i) <= Ahead(at, watch[at])
             => ~skb'[i] /\ ~dd'[i] /\ desc'[i] = "none"
        /\ Ahead(at, i) > Ahead(at, watch[at])
             => skb'[i] = skb[i] /\ dd'[i] = dd[i] /\ desc'[i] = desc[i]
    BY <1>16, CleanIs DEF PollClean
  <2>2. Oldest = at /\ Oldest' = at' /\ head' = head /\ ntu' = ntu
        /\ xmit' = xmit /\ Last' = Last
    BY <1>16 DEF PollClean, Oldest, Last, First
  <2>3. Ahead(at, watch[at]) < Ahead(at, head)
    BY <2>1, <2>2 DEF SlotsInv
  <2>4. watch[at] \in Int /\ 0 <= watch[at] /\ watch[at] < N
    BY <2>1, TxAssumption DEF Slot
  <2>5. /\ Ahead(at, i) <= Ahead(at, watch[at])
             => ~(Ahead(at', i) < Ahead(at', ntu)) /\ ~(Ahead(at', i) < Ahead(at', head))
        /\ Ahead(at, i) > Ahead(at, watch[at])
             => /\ Ahead(at', i) < Ahead(at', ntu) <=> Ahead(at, i) < Ahead(at, ntu)
                /\ Ahead(at', i) < Ahead(at', head) <=> Ahead(at, i) < Ahead(at, head)
    BY <1>0, <2>1, <2>2, <2>3, <2>4 DEF OrderInv, Ahead, Plus
  <2>6. Ahead(at, i) \in Int /\ Ahead(at, watch[at]) \in Int
    BY <1>0, <2>4 DEF Ahead
  <2>7. xmit = "queue" /\ i = Last => Ahead(at, i) > Ahead(at, watch[at])
    <3>1. SUFFICES ASSUME xmit = "queue", i = Last
                   PROVE  Ahead(at, i) > Ahead(at, watch[at])
      OBVIOUS
    <3>2. /\ Ahead(ntc, ntu) + pkt.ctx + pkt.bufs + 3 < N
          /\ pkt.ctx \in 0..1 /\ pkt.bufs \in Int /\ 1 <= pkt.bufs
          /\ i = Plus(ntu, pkt.ctx + pkt.bufs - 1)
      BY <3>1, RoomIs, PacketIs
    <3>3. QED
      BY <1>0, <2>2, <2>3, <2>4, <3>2 DEF OrderInv, Ahead, Plus
  <2>8. QED
    BY <1>0, <2>1, <2>2, <2>5, <2>6, <2>7
<1>17. CASE PollStore
  BY <1>17 DEF PollStore, Oldest, Last, First
<1>18. CASE PollWake
  BY <1>18 DEF PollWake, Oldest, Last, First
<1>19. CASE PollAwake
  BY <1>19 DEF PollAwake, Oldest, Last, First
<1>20. CASE PollHang
  BY <1>20 DEF PollHang, Oldest, Last, First
<1>21. CASE StallTask
  BY <1>21 DEF StallTask, Oldest, Last, First
<1>22. ASSUME NEW link \in BOOLEAN, Watchdog(link)
       PROVE  SlotOk(i)'
  BY <1>22 DEF Watchdog, Oldest, Last, First
<1>23. CASE TxTimeout
  BY <1>23 DEF TxTimeout, Oldest, Last, First
<1>24. CASE Reset
  <2>1. Oldest' = 0 /\ ntu' = 0 /\ head' = 0 /\ xmit' = "idle" /\ ~skb'[i] /\ ~dd'[i]
        /\ desc'[i] = "none"
    BY <1>24 DEF Reset, Oldest, Empty
  <2>2. QED
    BY <1>0, <2>1 DEF Ahead
<1>25. CASE UNCHANGED vars
  BY <1>25 DEF vars, Oldest, Last, First
<1>26. QED
  BY <1>1, <1>2, <1>3, <1>4, <1>5, <1>6, <1>7, <1>8, <1>9, <1>10, <1>11,
     <1>12, <1>13, <1>14, <1>15, <1>16, <1>17, <1>18, <1>19, <1>20, <1>21,
     <1>22, <1>23, <1>24, <1>25 DEF Next, XmitNext, PollNext

\* No step unmaps a buffer that a descriptor names.
LEMMA MappedStep ==
  TypeOK /\ RoomInv /\ OrderInv /\ SlotsInv /\ MappedInv /\ [Next]_vars =>
    MappedInv'
<1> SUFFICES ASSUME TypeOK, RoomInv, OrderInv, SlotsInv, MappedInv, [Next]_vars,
                    NEW i \in Slot
             PROVE  MappedOk(i)'
  BY DEF MappedInv
<1>a. desc[i] \in { "none", "ctx", "data", "eop" }
  BY DEF TypeOK
<1>0. i \in Int /\ 0 <= i /\ i < N /\ desc[i] \in { "none", "ctx", "data", "eop" }
  BY <1>a, TxAssumption DEF Slot
<1>b. MappedOk(i)
  BY DEF MappedInv
<1> USE <1>b DEF MappedOk, Return, Refused, XGoto, ring, slots, frame, clean,
        works, ghost
<1>1. ASSUME NEW p \in Packet, NEW m \in BOOLEAN, XmitStart(p, m)
      PROVE  MappedOk(i)'
  BY <1>1 DEF XmitStart
<1>2. CASE XmitHalt
  BY <1>2 DEF XmitHalt, Filled, First
<1>3. CASE XmitRecheck
  BY <1>3 DEF XmitRecheck, Filled, First
<1>4. CASE XmitFifo
  BY <1>4 DEF XmitFifo, Filled, First
<1>5. CASE XmitStall
  BY <1>5 DEF XmitStall, Filled, First
<1>6. CASE XmitMap
  <2>1. i \in Filled(pkt.bufs) => dma'[i]
    BY <1>6 DEF XmitMap
  <2>2. dma[i] => dma'[i]
    BY <1>6 DEF XmitMap
  <2>3. desc' = desc /\ pkt' = pkt /\ ntu' = ntu
    BY <1>6 DEF XmitMap
  <2>4. QED
    BY <2>1, <2>2, <2>3 DEF Filled, First
<1>7. ASSUME NEW k \in 0..N, XmitMapFails(k)
      PROVE  MappedOk(i)'
  <2>1. pkt \in Packet /\ Ahead(ntc, ntu) + pkt.ctx + pkt.bufs + 3 < N
        /\ pkt.ctx \in 0..1 /\ pkt.bufs \in Int
    BY <1>7, RoomIs DEF XmitMapFails
  <2>2. desc[i] # "none" => Ahead(ntu, i) >= pkt.ctx + pkt.bufs
    <3>1. SUFFICES ASSUME desc[i] # "none"
                   PROVE  Ahead(ntu, i) >= pkt.ctx + pkt.bufs
      OBVIOUS
    <3>2. Ahead(Oldest, i) < Ahead(Oldest, ntu)
      BY <3>1 DEF SlotsInv, SlotOk
    <3>3. QED
      BY <1>0, <2>1, <3>2, OldestIs, Pointers DEF OrderInv, Ahead
  <2>3. QED
    BY <1>7, <2>2, MapIs DEF XmitMapFails
<1>8. CASE XmitDrop
  BY <1>8 DEF XmitDrop, Filled, First
<1>9. CASE XmitPublish
  BY <1>9 DEF XmitPublish, Filled, First
<1>10. CASE XmitQueue
  <2>1. /\ desc'[i] \in { "data", "eop" }
             => desc'[i] = desc[i] \/ i \in Filled(pkt.bufs)
    BY <1>10, QueueIs
  <2>2. dma' = dma /\ xmit = "queue" /\ xmit' = "stop"
    BY <1>10 DEF XmitQueue
  <2>3. QED
    BY <2>1, <2>2
<1>11. CASE XmitStop
  BY <1>11 DEF XmitStop, Filled, First
<1>12. CASE XmitStopRecheck
  BY <1>12 DEF XmitStopRecheck, Filled, First
<1>13. CASE XmitTail
  BY <1>13 DEF XmitTail, Filled, First
<1>14. CASE HwFetch
  BY <1>14 DEF HwFetch, Filled, First
<1>15. CASE PollStart
  BY <1>15 DEF PollStart, Filled, First
<1>16. CASE PollClean
  <2>1. /\ Ahead(at, i) <= Ahead(at, watch[at]) => desc'[i] = "none"
        /\ Ahead(at, i) > Ahead(at, watch[at])
             => dma'[i] = dma[i] /\ desc'[i] = desc[i]
        /\ watch[at] \in Slot
    BY <1>16, CleanIs
  <2>2. pkt' = pkt /\ ntu' = ntu /\ xmit' = xmit /\ Filled(pkt.bufs)' = Filled(pkt.bufs)
    BY <1>16 DEF PollClean, Filled, First
  <2>3. watch[at] \in Int /\ 0 <= watch[at] /\ watch[at] < N
    BY <2>1, TxAssumption DEF Slot
  <2>4. Ahead(at, watch[at]) < Ahead(at, head)
    BY <1>16, <2>1 DEF PollClean, SlotsInv, SlotOk, Oldest
  <2>5. ASSUME xmit \in { "publish", "queue" }, i \in Filled(pkt.bufs)
        PROVE  Ahead(at, i) > Ahead(at, watch[at])
    <3>1. /\ pkt \in Packet /\ Ahead(ntc, ntu) + pkt.ctx + pkt.bufs + 3 < N
          /\ pkt.ctx \in 0..1 /\ pkt.bufs \in Int /\ 1 <= pkt.bufs
      BY <2>5, RoomIs
    <3>2. pkt.bufs \in 0..pkt.bufs
      BY <3>1
    <3>3. pkt.ctx <= Ahead(ntu, i) /\ Ahead(ntu, i) < pkt.ctx + pkt.bufs
      BY <2>5, <3>1, <3>2, PacketIs
    <3>4. Oldest = at
      BY <1>16 DEF PollClean, Oldest
    <3>5. QED
      BY <1>0, <2>3, <2>4, <3>1, <3>3, <3>4, Pointers DEF OrderInv, Ahead
  <2>6. Ahead(at, i) \in Int /\ Ahead(at, watch[at]) \in Int
    BY <1>0, <2>3, Pointers DEF Ahead
  <2>7. QED
    BY <2>1, <2>2, <2>5, <2>6
<1>17. CASE PollStore
  BY <1>17 DEF PollStore, Filled, First
<1>18. CASE PollWake
  BY <1>18 DEF PollWake, Filled, First
<1>19. CASE PollAwake
  BY <1>19 DEF PollAwake, Filled, First
<1>20. CASE PollHang
  BY <1>20 DEF PollHang, Filled, First
<1>21. CASE StallTask
  BY <1>21 DEF StallTask, Filled, First
<1>22. ASSUME NEW link \in BOOLEAN, Watchdog(link)
       PROVE  MappedOk(i)'
  BY <1>22 DEF Watchdog, Filled, First
<1>23. CASE TxTimeout
  BY <1>23 DEF TxTimeout, Filled, First
<1>24. CASE Reset
  BY <1>24 DEF Reset
<1>25. CASE UNCHANGED vars
  BY <1>25 DEF vars, ring, slots, frame, Filled, First
<1>26. QED
  BY <1>1, <1>2, <1>3, <1>4, <1>5, <1>6, <1>7, <1>8, <1>9, <1>10, <1>11,
     <1>12, <1>13, <1>14, <1>15, <1>16, <1>17, <1>18, <1>19, <1>20, <1>21,
     <1>22, <1>23, <1>24, <1>25 DEF Next, XmitNext, PollNext

\* No step lets the poll lose its way from packet to packet.
LEMMA WatchStep ==
  TypeOK /\ RoomInv /\ OrderInv /\ SlotsInv /\ WatchInv /\ [Next]_vars =>
    WatchInv'
<1> SUFFICES ASSUME TypeOK, RoomInv, OrderInv, SlotsInv, WatchInv, [Next]_vars
             PROVE  WatchInv'
  OBVIOUS
<1>a. ASSUME UNCHANGED << desc, watch, ntu, Oldest >>,
             xmit' = "queue" => xmit = "queue" /\ UNCHANGED pkt
      PROVE  WatchInv'
  BY <1>a DEF WatchInv, Watches, Last, First
<1>b. ASSUME UNCHANGED << desc, ntu, Oldest >>, xmit' = "queue" => watch'[ntu] = Last',
             \A i \in Slot : Ahead(Oldest, i) < Ahead(Oldest, ntu)
                               => watch'[i] = watch[i]
      PROVE  WatchInv'
  <2>1. Oldest # ntu => Ahead(Oldest, Oldest) < Ahead(Oldest, ntu)
    BY OldestIs, Pointers DEF Ahead
  <2>2. ASSUME NEW i \in Slot, desc[i] = "eop", Plus(i, 1) # ntu
        PROVE  Plus(i, 1) \in Slot /\ Ahead(Oldest, Plus(i, 1)) < Ahead(Oldest, ntu)
    <3>1. Ahead(Oldest, i) < Ahead(Oldest, ntu)
      BY <2>2 DEF SlotsInv, SlotOk
    <3>2. i \in Int /\ 0 <= i /\ i < N
      BY TxAssumption DEF Slot
    <3>3. Ahead(Oldest, Plus(i, 1)) < Ahead(Oldest, ntu)
      BY <2>2, <3>1, <3>2, OldestIs, Pointers DEF Ahead, Plus
    <3>4. Plus(i, 1) \in Slot
      BY <3>2, Pointers DEF Plus, Slot
    <3>5. QED
      BY <3>3, <3>4
  <2>3. QED
    BY <1>b, <2>1, <2>2, OldestIs DEF WatchInv, Watches
<1> USE DEF Return, Refused, XGoto, ring, slots, frame, clean, works, ghost
<1>1. ASSUME NEW p \in Packet, NEW m \in BOOLEAN, XmitStart(p, m)
      PROVE  WatchInv'
  BY <1>1, <1>a DEF XmitStart, Oldest
<1>2. CASE XmitHalt
  BY <1>2, <1>a DEF XmitHalt, Oldest
<1>3. CASE XmitRecheck
  BY <1>3, <1>a DEF XmitRecheck, Oldest
<1>4. CASE XmitFifo
  BY <1>4, <1>a DEF XmitFifo, Oldest
<1>5. CASE XmitStall
  BY <1>5, <1>a DEF XmitStall, Oldest
<1>6. CASE XmitMap
  <2>1. Ahead(ntc, ntu) + pkt.ctx + pkt.bufs + 3 < N
        /\ pkt.ctx \in 0..1 /\ pkt.bufs \in Int
    BY <1>6, RoomIs DEF XmitMap
  <2>2. ASSUME NEW i \in Slot, Ahead(Oldest, i) < Ahead(Oldest, ntu)
        PROVE  watch'[i] = watch[i]
    <3>1. i \in Int /\ 0 <= i /\ i < N
      BY TxAssumption DEF Slot
    <3>2. Ahead(ntu, i) >= pkt.ctx + pkt.bufs
      BY <2>1, <2>2, <3>1, OldestIs, Pointers DEF OrderInv, Ahead
    <3>3. QED
      BY <1>6, <3>2, MapIs
  <2>3. QED
    BY <1>6, <1>b, <2>2 DEF XmitMap, Oldest
<1>7. ASSUME NEW k \in 0..N, XmitMapFails(k)
      PROVE  WatchInv'
  <2>1. Ahead(ntc, ntu) + pkt.ctx + pkt.bufs + 3 < N
        /\ pkt.ctx \in 0..1 /\ pkt.bufs \in Int
    BY <1>7, RoomIs DEF XmitMapFails
  <2>2. ASSUME NEW i \in Slot, Ahead(Oldest, i) < Ahead(Oldest, ntu)
        PROVE  watch'[i] = watch[i]
    <3>1. i \in Int /\ 0 <= i /\ i < N
      BY TxAssumption DEF Slot
    <3>2. Ahead(ntu, i) >= pkt.ctx + pkt.bufs
      BY <2>1, <2>2, <3>1, OldestIs, Pointers DEF OrderInv, Ahead
    <3>3. QED
      BY <1>7, <3>2, MapIs
  <2>3. QED
    BY <1>7, <1>b, <2>2 DEF XmitMapFails, Oldest
<1>8. CASE XmitDrop
  BY <1>8, <1>a DEF XmitDrop, Oldest
<1>9. CASE XmitPublish
  <2>1. ASSUME NEW i \in Slot, Ahead(Oldest, i) < Ahead(Oldest, ntu)
        PROVE  i # ntu
    BY <2>1, OldestIs, Pointers DEF Ahead
  <2>2. Last' = Last /\ ntu \in Slot /\ watch' = [watch EXCEPT ![ntu] = Last]
        /\ watch \in [Slot -> Slot]
    BY <1>9 DEF XmitPublish, Last, First, TypeOK
  <2>3. QED
    BY <1>9, <1>b, <2>1, <2>2 DEF XmitPublish, Oldest
<1>10. CASE XmitQueue
  <2>1. /\ pkt \in Packet /\ ntu' = Plus(ntu, pkt.ctx + pkt.bufs)
        /\ Ahead(ntc, ntu) + pkt.ctx + pkt.bufs + 3 < N
        /\ pkt.ctx \in 0..1 /\ pkt.bufs \in Int /\ 1 <= pkt.bufs
    BY <1>10, QueueIs, RoomIs DEF XmitQueue
  <2>2. \A i \in Slot :
          /\ Ahead(ntu, i) < pkt.ctx + pkt.bufs => (desc'[i] = "eop" <=> i = Last)
          /\ Ahead(ntu, i) >= pkt.ctx + pkt.bufs => desc'[i] = desc[i]
    BY <1>10, QueueIs
  <2>3. Last \in Slot /\ Last = Plus(ntu, pkt.ctx + pkt.bufs - 1)
    BY <1>10, <2>1, PacketIs DEF XmitQueue
  <2>4. Ahead(ntu, Last) < pkt.ctx + pkt.bufs /\ Plus(Last, 1) = ntu'
    BY <2>1, <2>3, Pointers DEF Ahead, Plus
  <2>5. Ahead(Oldest, ntu) <= Ahead(Oldest, Last)
    BY <2>1, <2>3, OldestIs, Pointers DEF OrderInv, Ahead, Plus
  <2>6. desc'[Last] = "eop" /\ watch[ntu] = Last
    BY <1>10, <2>2, <2>3, <2>4 DEF XmitQueue, WatchInv
  <2>7. watch' = watch /\ Oldest' = Oldest /\ xmit' = "stop"
    BY <1>10 DEF XmitQueue, Oldest
  <2>8. ASSUME NEW w \in Slot, desc[w] = "eop" PROVE desc'[w] = "eop"
    <3>1. Ahead(Oldest, w) < Ahead(Oldest, ntu)
      BY <2>8 DEF SlotsInv, SlotOk
    <3>2. w \in Int /\ 0 <= w /\ w < N
      BY TxAssumption DEF Slot
    <3>3. Ahead(ntu, w) >= pkt.ctx + pkt.bufs
      BY <2>1, <3>1, <3>2, OldestIs, Pointers DEF OrderInv, Ahead
    <3>4. QED
      BY <2>2, <2>8, <3>3
  <2>9. ASSUME NEW i \in Slot, Watches(i) PROVE Watches(i)'
    <3>1. watch[i] \in Slot
      BY DEF TypeOK
    <3>2. QED
      BY <2>7, <2>8, <2>9, <3>1 DEF Watches
  <2>a. PICK n \in Slot, o \in Slot : n = ntu /\ o = Oldest
    BY OldestIs DEF TypeOK
  <2>10. Watches(n)'
    BY <2>a, <2>5, <2>6, <2>7 DEF Watches
  <2>11. (Oldest # ntu)' => Watches(Oldest)'
    <3>1. Watches(o)'
      BY <2>a, <2>9, <2>10 DEF WatchInv
    <3>2. QED
      BY <2>a, <2>7, <3>1 DEF Watches
  <2>12. ASSUME NEW i \in Slot, desc'[i] = "eop", Plus(i, 1) # ntu'
         PROVE  Watches(Plus(i, 1))'
    <3>1. i \in Int /\ 0 <= i /\ i < N
      BY TxAssumption DEF Slot
    <3>2. Ahead(ntu, i) \in Int /\ pkt.ctx + pkt.bufs \in Int /\ Plus(i, 1) \in Slot
      BY <2>1, <3>1, Pointers DEF Ahead, Plus, Slot
    <3>3. desc[i] = "eop"
      BY <2>2, <2>4, <2>12, <3>2
    <3>4. CASE Plus(i, 1) = ntu
      BY <2>a, <2>10, <3>4
    <3>5. CASE Plus(i, 1) # ntu
      BY <2>9, <3>2, <3>3, <3>5 DEF WatchInv
    <3>6. QED
      BY <3>4, <3>5
  <2>13. QED
    BY <2>7, <2>11, <2>12 DEF WatchInv
<1>11. CASE XmitStop
  BY <1>11, <1>a DEF XmitStop, Oldest
<1>12. CASE XmitStopRecheck
  BY <1>12, <1>a DEF XmitStopRecheck, Oldest
<1>13. CASE XmitTail
  BY <1>13, <1>a DEF XmitTail, Oldest
<1>14. CASE HwFetch
  BY <1>14, <1>a DEF HwFetch, Oldest
<1>15. CASE PollStart
  BY <1>15, <1>a DEF PollStart, Oldest
<1>16. CASE PollClean
  <2>1. /\ watch[at] \in Slot /\ at' = Plus(watch[at], 1) /\ dd[watch[at]]
        /\ \A i \in Slot :
             /\ Ahead(at, i) <= Ahead(at, watch[at]) => desc'[i] = "none"
             /\ Ahead(at, i) > Ahead(at, watch[at]) => desc'[i] = desc[i]
    BY <1>16, CleanIs DEF PollClean
  <2>2. Oldest = at /\ Oldest' = at' /\ ntu' = ntu /\ watch' = watch
        /\ xmit' = xmit /\ pkt' = pkt /\ Last' = Last
    BY <1>16 DEF PollClean, Oldest, Last, First
  <2>3. Ahead(at, watch[at]) < Ahead(at, head) /\ desc[watch[at]] = "eop"
    BY <2>1, <2>2 DEF SlotsInv, SlotOk
  <2>4. watch[at] \in Int /\ 0 <= watch[at] /\ watch[at] < N
    BY <2>1, TxAssumption DEF Slot
  <2>5. at' \in Slot /\ at' \in Int /\ 0 <= at' /\ at' < N
        /\ Ahead(at, at') = Ahead(at, watch[at]) + 1
    BY <2>1, <2>2, <2>3, <2>4, Pointers DEF OrderInv, Ahead, Plus, Slot
  <2>6. ASSUME NEW i \in Slot, Ahead(at, i) > Ahead(at, watch[at]), Watches(i)
        PROVE  Watches(i)'
    <3>1. watch[i] \in Slot
      BY DEF TypeOK
    <3>2. /\ i \in Int /\ 0 <= i /\ i < N
          /\ watch[i] \in Int /\ 0 <= watch[i] /\ watch[i] < N
      BY <3>1, TxAssumption DEF Slot
    <3>3. Ahead(at, watch[i]) > Ahead(at, watch[at])
          /\ Ahead(at', i) <= Ahead(at', watch[i])
      BY <2>1, <2>2, <2>4, <2>6, <3>2, Pointers DEF Watches, Ahead, Plus
    <3>4. QED
      BY <2>1, <2>2, <2>6, <3>1, <3>3 DEF Watches
  <2>7. (Oldest # ntu)' => Watches(Oldest)'
    <3>1. PICK a \in Slot : a = at'
      BY <2>5
    <3>2. a # ntu => Watches(a)
      BY <2>1, <2>3, <3>1 DEF WatchInv
    <3>3. Ahead(at, a) > Ahead(at, watch[at])
      BY <2>4, <2>5, <3>1, Pointers DEF Ahead
    <3>4. a # ntu => Watches(a)'
      BY <2>6, <3>2, <3>3
    <3>5. QED
      BY <2>2, <3>1, <3>4 DEF Watches
  <2>8. ASSUME NEW i \in Slot, desc'[i] = "eop", Plus(i, 1) # ntu
        PROVE  Watches(Plus(i, 1))'
    <3>1. i \in Int /\ 0 <= i /\ i < N
      BY TxAssumption DEF Slot
    <3>2. Ahead(at, i) \in Int /\ Ahead(at, watch[at]) \in Int /\ Plus(i, 1) \in Slot
      BY <2>4, <3>1, Pointers DEF Ahead, Plus, Slot
    <3>3. desc[i] = "eop" /\ Ahead(at, i) > Ahead(at, watch[at])
      BY <2>1, <2>8, <3>2
    <3>4. Watches(Plus(i, 1))
      BY <2>8, <3>3 DEF WatchInv
    <3>5. Ahead(at, i) < Ahead(at, ntu)
      BY <2>2, <3>3 DEF SlotsInv, SlotOk
    <3>6. Ahead(at, Plus(i, 1)) > Ahead(at, watch[at])
      BY <2>4, <3>1, <3>3, <3>5, Pointers DEF Ahead, Plus
    <3>7. QED
      BY <2>6, <3>2, <3>4, <3>6
  <2>9. QED
    BY <2>2, <2>7, <2>8 DEF WatchInv
<1>17. CASE PollStore
  BY <1>17, <1>a DEF PollStore, Oldest
<1>18. CASE PollWake
  BY <1>18, <1>a DEF PollWake, Oldest
<1>19. CASE PollAwake
  BY <1>19, <1>a DEF PollAwake, Oldest
<1>20. CASE PollHang
  BY <1>20, <1>a DEF PollHang, Oldest
<1>21. CASE StallTask
  BY <1>21, <1>a DEF StallTask, Oldest
<1>22. ASSUME NEW link \in BOOLEAN, Watchdog(link)
       PROVE  WatchInv'
  BY <1>22, <1>a DEF Watchdog, Oldest
<1>23. CASE TxTimeout
  BY <1>23, <1>a DEF TxTimeout, Oldest
<1>24. CASE Reset
  <2>1. Oldest' = 0 /\ ntu' = 0 /\ xmit' = "idle"
        /\ desc' = [i \in Slot |-> "none"]
    BY <1>24 DEF Reset, Oldest
  <2>2. QED
    BY <2>1 DEF WatchInv
<1>25. CASE UNCHANGED vars
  BY <1>25, <1>a DEF vars, Oldest
<1>26. QED
  BY <1>1, <1>2, <1>3, <1>4, <1>5, <1>6, <1>7, <1>8, <1>9, <1>10, <1>11,
     <1>12, <1>13, <1>14, <1>15, <1>16, <1>17, <1>18, <1>19, <1>20, <1>21,
     <1>22, <1>23, <1>24, <1>25 DEF Next, XmitNext, PollNext

\* No step leaves a stopped queue that nobody will start.
LEMMA WakerStep ==
  TypeOK /\ RoomInv /\ OrderInv /\ WakerInv /\ [Next]_vars => WakerInv'
<1> SUFFICES ASSUME TypeOK, RoomInv, OrderInv, WakerInv, [Next]_vars
             PROVE  WakerInv'
  OBVIOUS
<1> USE DEF WakerInv, Oldest, Return, Refused, XGoto, ring, slots, frame,
        clean, works, ghost
<1>1. ASSUME NEW p \in Packet, NEW m \in BOOLEAN, XmitStart(p, m)
      PROVE  WakerInv'
  BY <1>1 DEF XmitStart
<1>2. CASE XmitHalt
  BY <1>2 DEF XmitHalt
<1>3. CASE XmitRecheck
  <2>1. Unused < N - 1 => ntc # ntu
    BY UnusedIs, Pointers DEF Ahead
  <2>2. Reserve(pkt) \in Int /\ Unused \in Int
    BY <1>3, UnusedIs, TxAssumption, Pointers
       DEF XmitRecheck, RoomInv, Reserve, Ahead
  <2>3. Unused < Reserve(pkt) => ntc # ntu \/ Reserve(pkt) >= N
    BY <2>1, <2>2, TxAssumption
  <2>4. QED
    BY <1>3, <2>3 DEF XmitRecheck, OrderInv
<1>4. CASE XmitFifo
  BY <1>4 DEF XmitFifo
<1>5. CASE XmitStall
  BY <1>5 DEF XmitStall
<1>6. CASE XmitMap
  BY <1>6 DEF XmitMap
<1>7. ASSUME NEW k \in 0..N, XmitMapFails(k)
      PROVE  WakerInv'
  BY <1>7 DEF XmitMapFails
<1>8. CASE XmitDrop
  BY <1>8 DEF XmitDrop
<1>9. CASE XmitPublish
  BY <1>9 DEF XmitPublish
<1>10. CASE XmitQueue
  <2>1. /\ pkt \in Packet /\ ntu' = Plus(ntu, pkt.ctx + pkt.bufs)
        /\ Ahead(ntc, ntu) + pkt.ctx + pkt.bufs + 3 < N
        /\ pkt.ctx \in 0..1 /\ pkt.bufs \in Int /\ 1 <= pkt.bufs
    BY <1>10, QueueIs, RoomIs DEF XmitQueue
  <2>2. Oldest # ntu'
    BY <2>1, OldestIs, Pointers DEF OrderInv, Ahead, Plus
  <2>3. QED
    BY <1>10, <2>2 DEF XmitQueue
<1>11. CASE XmitStop
  BY <1>11 DEF XmitStop
<1>12. CASE XmitStopRecheck
  <2>1. Unused < N - 1 => ntc # ntu
    BY UnusedIs, Pointers DEF Ahead
  <2>2. Unused < DescNeeded => ntc # ntu
    BY <2>1, TxAssumption, UnusedIs, Pointers DEF Ahead
  <2>3. QED
    BY <1>12, <2>2 DEF XmitStopRecheck, OrderInv, TypeOK
<1>13. CASE XmitTail
  BY <1>13 DEF XmitTail
<1>14. CASE HwFetch
  BY <1>14 DEF HwFetch
<1>15. CASE PollStart
  BY <1>15 DEF PollStart
<1>16. CASE PollClean
  BY <1>16 DEF PollClean
<1>17. CASE PollStore
  BY <1>17 DEF PollStore
<1>18. CASE PollWake
  <2>1. Unused < N - 1 => ntc # ntu
    BY UnusedIs, Pointers DEF Ahead
  <2>2. Unused \in Int /\ WakeLevel \in Int /\ WakeLevel < N /\ N \in Int
    BY TxAssumption, UnusedIs, Pointers DEF Ahead
  <2>3. ~(Unused >= WakeLevel) => ntc # ntu
    BY <2>1, <2>2
  <2>4. QED
    BY <1>18, <2>3 DEF PollWake, TypeOK
<1>19. CASE PollAwake
  BY <1>19 DEF PollAwake
<1>20. CASE PollHang
  BY <1>20 DEF PollHang
<1>21. CASE StallTask
  BY <1>21 DEF StallTask, TypeOK
<1>22. ASSUME NEW link \in BOOLEAN, Watchdog(link)
       PROVE  WakerInv'
  BY <1>22 DEF Watchdog
<1>23. CASE TxTimeout
  BY <1>23 DEF TxTimeout
<1>24. CASE Reset
  BY <1>24 DEF Reset
<1>25. CASE UNCHANGED vars
  BY <1>25 DEF vars, ring, slots, frame, clean, works, ghost
<1>26. QED
  BY <1>1, <1>2, <1>3, <1>4, <1>5, <1>6, <1>7, <1>8, <1>9, <1>10, <1>11,
     <1>12, <1>13, <1>14, <1>15, <1>16, <1>17, <1>18, <1>19, <1>20, <1>21,
     <1>22, <1>23, <1>24, <1>25 DEF Next, XmitNext, PollNext

-----------------------------------------------------------------------------
(* The theorems.                                                           *)

\* The invariant holds in every reachable state.
LEMMA Invariance == Spec => []IInv
<1>1. Init => IInv
  <2> SUFFICES ASSUME Init PROVE IInv
    OBVIOUS
  <2>1. 0 \in Slot /\ N \in Int /\ 0 < N
    BY TxAssumption DEF Slot
  <2>2. TypeOK
    BY <2>1 DEF Init, TypeOK, Empty
  <2>3. RoomInv /\ OrderInv
    BY <2>1 DEF Init, RoomInv, OrderInv, Oldest, Ahead
  <2>4. SlotsInv /\ MappedInv
    <3> SUFFICES ASSUME NEW i \in Slot PROVE SlotOk(i) /\ MappedOk(i)
      BY DEF SlotsInv, MappedInv
    <3>1. /\ desc[i] = "none" /\ ~dd[i] /\ ~skb[i] /\ xmit = "idle"
          /\ Oldest = 0 /\ ntu = 0 /\ i \in Int /\ 0 <= i
      BY <2>1 DEF Init, Empty, Oldest, Slot
    <3>2. QED
      BY <3>1 DEF SlotOk, MappedOk, Ahead
  <2>5. WatchInv /\ WakerInv /\ DoorbellInv
    BY DEF Init, WatchInv, WakerInv, DoorbellInv, Oldest
  <2>6. QED
    BY <2>2, <2>3, <2>4, <2>5 DEF IInv
<1>2. IInv /\ [Next]_vars => IInv'
  BY TypeStep, RoomStep, OrderStep, SlotsStep, MappedStep, WatchStep, WakerStep,
     DoorbellStep DEF IInv
<1>3. QED
  BY <1>1, <1>2, PTL DEF Spec

\* The poll never passes the head, the head never passes the tail, and a ring
\* that is full is never taken for an empty one.
THEOREM PointersSafe == Spec => []PointersInOrder
<1>1. IInv => PointersInOrder
  <2> SUFFICES ASSUME IInv PROVE PointersInOrder
    OBVIOUS
  <2>0. TypeOK /\ OrderInv
    BY DEF IInv
  <2>1. ntc \in Slot /\ at \in Slot /\ head \in Slot /\ tail \in Slot /\ ntu \in Slot
    BY <2>0 DEF TypeOK
  <2>2. /\ Dist(ntc, at) = Ahead(ntc, at) /\ Dist(ntc, head) = Ahead(ntc, head)
        /\ Dist(ntc, tail) = Ahead(ntc, tail) /\ Dist(ntc, ntu) = Ahead(ntc, ntu)
    BY <2>1, DistIs
  <2>3. /\ Ahead(ntc, at) <= Ahead(ntc, head) \/ poll = "idle"
        /\ Ahead(ntc, head) <= Ahead(ntc, tail)
        /\ Ahead(ntc, tail) <= Ahead(ntc, ntu)
    <3>1. poll \in { "idle", "clean", "wake", "awake" }
      BY <2>0 DEF TypeOK
    <3>2. QED
      BY <2>0, <3>1, Pointers DEF OrderInv, Oldest, Ahead
  <2>4. QED
    BY <2>0, <2>2, <2>3 DEF PointersInOrder
<1>2. QED
  BY <1>1, Invariance, PTL

\* Whatever the hardware will fetch has been written, is mapped, and belongs to
\* a packet that was not freed.
THEOREM MappingSafe == Spec => []HardwareReadsMapped
<1>1. IInv => HardwareReadsMapped
  <2> SUFFICES ASSUME IInv, NEW i \in Span(head, Dist(head, tail))
               PROVE  /\ desc[i] \in { "data", "eop" } => dma[i]
                      /\ desc[i] = "eop" => skb[i]
                      /\ desc[i] # "none"
    BY DEF HardwareReadsMapped
  <2>0. TypeOK /\ OrderInv /\ head \in Slot /\ tail \in Slot
    BY DEF IInv, TypeOK
  <2>1. Dist(head, tail) = Ahead(head, tail) /\ Ahead(head, tail) \in 0..N
    BY <2>0, DistIs, TxAssumption DEF Ahead, Slot
  <2>2. i \in Slot
    BY <2>0, <2>1, IncIn, TxAssumption DEF Span
  <2>3. Ahead(head, i) < Ahead(head, tail)
    BY <2>0, <2>1, <2>2, SpanIs
  <2>4. i \in Int /\ 0 <= i /\ i < N
    BY <2>2, TxAssumption DEF Slot
  <2>5. Ahead(Oldest, i) < Ahead(Oldest, ntu)
    BY <2>0, <2>3, <2>4, OldestIs, Pointers DEF OrderInv, Ahead
  <2>6. QED
    BY <2>2, <2>5 DEF IInv, SlotsInv, SlotOk, MappedInv, MappedOk
<1>2. QED
  BY <1>1, Invariance, PTL

\* The slots that own a packet are the ends of the packets queued and not
\* cleaned, and the one being published: each packet is freed once.
THEOREM OwnershipSafe == Spec => []PacketsOwnedOnce
<1>1. IInv => PacketsOwnedOnce
  <2> SUFFICES ASSUME IInv, NEW i \in Slot
      PROVE  skb[i] <=> \/ /\ i \in Span(ntc, Dist(ntc, ntu)) /\ desc[i] = "eop"
                           /\ poll = "clean" => i \notin Span(ntc, Dist(ntc, at))
                        \/ xmit = "queue" /\ i = Last
    BY DEF PacketsOwnedOnce
  <2>0. TypeOK /\ OrderInv /\ ntc \in Slot /\ ntu \in Slot /\ at \in Slot
    BY DEF IInv, TypeOK
  <2>1. /\ Dist(ntc, ntu) = Ahead(ntc, ntu) /\ Ahead(ntc, ntu) \in 0..N
        /\ Dist(ntc, at) = Ahead(ntc, at) /\ Ahead(ntc, at) \in 0..N
    BY <2>0, DistIs, TxAssumption DEF Ahead, Slot
  <2>2. /\ i \in Span(ntc, Dist(ntc, ntu)) <=> Ahead(ntc, i) < Ahead(ntc, ntu)
        /\ i \in Span(ntc, Dist(ntc, at)) <=> Ahead(ntc, i) < Ahead(ntc, at)
    BY <2>0, <2>1, SpanIs
  <2>3. i \in Int /\ 0 <= i /\ i < N
    BY TxAssumption DEF Slot
  <2>4. SlotOk(i)
    BY DEF IInv, SlotsInv
  <2>5. desc[i] = "eop" => /\ Ahead(ntc, i) < Ahead(ntc, ntu)
                           /\ poll = "clean" => ~(Ahead(ntc, i) < Ahead(ntc, at))
    BY <2>0, <2>3, <2>4, Pointers DEF SlotOk, OrderInv, Oldest, Ahead
  <2>6. QED
    BY <2>2, <2>4, <2>5 DEF SlotOk
<1>2. QED
  BY <1>1, Invariance, PTL

\* No interleaving of e1000_xmit_frame, which looks at the room, stops the
\* queue and looks again, with the poll, which makes room and starts a stopped
\* queue, leaves the queue stopped with nobody to start it.
THEOREM WakerSafe == Spec => []StoppedQueueHasWaker
<1>1. IInv => StoppedQueueHasWaker
  <2> SUFFICES ASSUME IInv, stopped, carrier, xmit = "idle", poll = "idle",
                      ~task, ~owed, ~silent, head = tail
               PROVE  dd[watch[ntc]]
    BY DEF StoppedQueueHasWaker
  <2>1. Oldest = ntc /\ ntc # ntu
    BY DEF IInv, WakerInv, Oldest
  <2>2. tail = ntu
    BY DEF IInv, DoorbellInv
  <2>3. watch[ntc] \in Slot /\ desc[watch[ntc]] = "eop"
    BY <2>1 DEF IInv, TypeOK, WatchInv, Watches
  <2>4. QED
    BY <2>1, <2>2, <2>3 DEF IInv, SlotsInv, SlotOk
<1>2. QED
  BY <1>1, Invariance, PTL
=============================================================================
