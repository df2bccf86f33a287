---------------------------- MODULE E1000Sizes -----------------------------
(***************************************************************************)
(* The arithmetic of the e1000 driver: how many descriptors a packet is    *)
(* cut into and how many were reserved for it, how e1000_reset divides the *)
(* packet buffer, the transmit fifo of the 82547, the interrupt rate, and  *)
(* the memory of the rings, which must not cross 64 KB.  They share        *)
(* nothing: Init chooses which one a behaviour exercises.                  *)
(***************************************************************************)
EXTENDS Integers, Sequences

CONSTANTS
  MaxPwr,      \* E1000_MAX_TXD_PWR
  FirstMax,    \* the 2015 bytes of errata 10
  Heads, Frag, \* lengths of the linear part and of a fragment
  MaxFrags,    \* fragments of a packet
  Mss,         \* gso_size, 0 without segmentation
  Frames,      \* max_frame_size
  Lengths,     \* of packets for the 82547's fifo
  Traffic,     \* [packets, bytes] between two interrupts
  Count,       \* descriptors of a ring
  Places       \* addresses that dma_alloc_coherent returns

\* 1 << k
Power[k \in 0..(MaxPwr + 1)] == IF k = 0 THEN 1 ELSE 2 * Power[k - 1]

ASSUME SizesAssumption ==
  /\ MaxPwr \in Nat /\ MaxPwr >= 4 /\ MaxFrags \in Nat
  /\ FirstMax \in 5..(Power[MaxPwr] - 1)

ASSUME LengthsAssumption ==
  Heads \subseteq Nat \ 0..8 /\ Frag \subseteq Nat \ {0} /\ Mss \subseteq Nat

ASSUME BuffersAssumption ==
  Frames \subseteq 60..16128 /\ Count \in 80..4096

ASSUME FifoAssumption == Lengths \subseteq Nat

ASSUME PlacesAssumption == Places \subseteq Nat

ASSUME TrafficAssumption == Traffic \subseteq [packets : Nat, bytes : Nat]

VARIABLES
  part,                 \* "map", "fifo", "itr" or "rings"
  pkt, chip,            \* the packet; the bus and its errata
  reserved,             \* what e1000_xmit_frame made sure of
  f, left, off, count,  \* e1000_tx_map: fragment, len, offset, count
  lastTso,              \* last_tx_tso
  mac, frame, fifoHead, \* adapter, max_frame_size, tx_fifo_head
  setting, itr, rate,   \* itr_setting, adapter->itr, [tx, rx] latency ranges
  ring, stage,          \* the ring that e1000_open sets up, and where it is
  live, desc            \* allocations held; the address of each ring's desc

mapping == << pkt, chip, reserved, f, left, off, count, lastTso >>
buffer == << mac, frame, fifoHead >>
throttle == << setting, itr, rate >>
memory == << ring, stage, live, desc >>
vars == << part, mapping, buffer, throttle, memory >>

Lesser(a, b) == IF a < b THEN a ELSE b
Greater(a, b) == IF a > b THEN a ELSE b
Align(n, k) == ((n + k - 1) \div k) * k

-----------------------------------------------------------------------------
(* Descriptors                                                             *)

MaxPerTxd(p) ==
  IF p.mss > 0 THEN Lesser(4 * p.mss, Power[MaxPwr]) ELSE Power[MaxPwr]

\* fls(max_per_txd) - 1
Pwr(p) ==
  CHOOSE k \in 0..MaxPwr :
    Power[k] <= MaxPerTxd(p) /\ MaxPerTxd(p) < Power[k + 1]

\* TXD_USE_COUNT
UseCount(n, p) == (n + Power[Pwr(p)] - 1) \div Power[Pwr(p)]

\* ... of all fragments
FragsCount(p) ==
  LET sum[i \in 0..Len(p.frags)] ==
        IF i = 0 THEN 0 ELSE sum[i - 1] + UseCount(p.frags[i], p)
  IN sum[Len(p.frags)]

One(cond) == IF cond THEN 1 ELSE 0

\* "descriptor for non-tso packet in a linear SKB that follows a tso"
AfterTso(p, last) == p.frags = << >> /\ last /\ p.mss = 0

\* What e1000_xmit_frame asks for, the context descriptor and the gap of two
\* left out.
ReserveNoSentinel(p, c, last) ==
  One(AfterTso(p, last)) + UseCount(p.head, p)
  + One(c.dword) + One(c.pcix /\ p.head > FirstMax)
  + FragsCount(p)
  + (IF c.dword THEN Len(p.frags) ELSE 0)
Reserve(p, c, last) ==
  1 + One(AfterTso(p, last)) + UseCount(p.head, p)
  + One(c.dword) + One(c.pcix /\ p.head > FirstMax)
  + FragsCount(p)
  + (IF c.dword THEN Len(p.frags) ELSE 0)

\* The end of a buffer lies in an evenly aligned dword (82544 in PCI-X mode).
EvenDword(end) == end % 8 < 4

\* One buffer: the packet's next bytes, shortened by each workaround.
ChunkSize ==
  LET whole == Lesser(left, MaxPerTxd(pkt))
      tso == IF f = 0 /\ AfterTso(pkt, lastTso) THEN whole - 4 ELSE whole
      sentinel == IF pkt.mss > 0 /\ f = Len(pkt.frags) /\ tso = left /\ tso > 8
                  THEN tso - 4 ELSE tso
      first == IF chip.pcix /\ f = 0 /\ count = 0
               THEN Lesser(sentinel, FirstMax) ELSE sentinel
  IN IF chip.dword /\ EvenDword(off + first - 1) /\ first > 4
     THEN first - 4 ELSE first

\* e1000_tx_map, one buffer at a time.  A fragment's offset counts from the
\* start of the fragment.
MapChunk ==
  /\ part = "map" /\ left > 0
  /\ count' = count + 1
  /\ lastTso' = (lastTso /\ ~(f = 0 /\ AfterTso(pkt, lastTso)))
  /\ IF left > ChunkSize \/ f = Len(pkt.frags)
     THEN left' = left - ChunkSize /\ off' = off + ChunkSize /\ f' = f
     ELSE left' = pkt.frags[f + 1] /\ off' = 0 /\ f' = f + 1
  /\ UNCHANGED << part, pkt, chip, reserved, buffer, throttle, memory >>

-----------------------------------------------------------------------------
(* The packet buffer                                                       *)

\* E1000_PBA_48K, 30K and 40K; the adapters that e1000_reset tells apart.
Mac == { "82540", "82545", "82547" }

\* "To maintain wire speed transmits": the newer parts take from the 48 KB of
\* receive space what two frames lack in the 16 KB of transmit space, rounded
\* down to 8 KB; "Rx wins".
Repartition(max) ==
  LET minTx == Align((max + 16 - 4) * 2, 1024) \div 1024
      minRx == Align(max, 1024) \div 1024
      lacks == minTx - 16
  IN IF lacks > 0 /\ lacks < 48
     THEN Greater(((48 - lacks) \div 8) * 8, minRx) ELSE 48

Pba(m, max) ==
  CASE m = "82545" -> IF max > 1518 THEN Repartition(max) ELSE 48
    [] m = "82540" -> IF max > 8192 THEN 40 ELSE 48
    [] m = "82547" -> IF max > 8192 THEN 22 ELSE 30

\* fc_high_water, sixteen bits wide, in units of 8 bytes.
HighWaterNinety(m, max) == (((Pba(m, max) * 9216) \div 10) \div 8) * 8
HighWater(m, max) ==
  LET hwm == Lesser((Pba(m, max) * 9216) \div 10, Pba(m, max) * 1024 - max)
  IN ((hwm % 65536) \div 8) * 8

FifoSize(m, max) == (40 - Pba(m, max)) * 1024

\* skb_fifo_len: a header, and in units of 16 bytes.
FifoLen(n) == Align(n + 16, 16)

\* e1000_82547_fifo_workaround, for a packet of n bytes.
FifoNoWrap(n) == fifoHead + FifoLen(n)
FifoAdvance(n) ==
  LET next == fifoHead + FifoLen(n)
  IN IF next >= FifoSize(mac, frame) THEN next - FifoSize(mac, frame) ELSE next

\* A packet of n bytes, the frame without its checksum.  In half duplex one
\* that would not fit waits until the fifo is empty, and
\* e1000_82547_tx_fifo_stall_task starts again at its beginning.
FifoSend(n, half) ==
  /\ part = "fifo" /\ mac = "82547" /\ n <= frame - 4
  /\ fifoHead' = IF /\ half
                    /\ FifoLen(n) >= 992 + FifoSize(mac, frame) - fifoHead
                 THEN 0 ELSE FifoAdvance(n)
  /\ UNCHANGED << part, mapping, mac, frame, throttle, memory >>

-----------------------------------------------------------------------------
(* The interrupt rate                                                      *)

\* lowest_latency, low_latency, bulk_latency
Latency == 0..2

\* e1000_update_itr
UpdateItr(now, t) ==
  LET size == t.bytes \div t.packets
  IN CASE t.packets = 0 -> now
       [] t.packets > 0 /\ now = 0 ->
            IF size > 8000 THEN 2
            ELSE IF t.packets < 5 /\ t.bytes > 512 THEN 1 ELSE 0
       [] t.packets > 0 /\ now = 1 ->
            IF t.bytes > 10000
            THEN IF size > 1200 \/ t.packets < 10 THEN 2
                 ELSE IF t.packets > 35 THEN 0 ELSE 1
            ELSE IF size > 2000 THEN 2
                 ELSE IF t.packets <= 2 /\ t.bytes < 512 THEN 0 ELSE 1
       [] t.packets > 0 /\ now = 2 ->
            IF \/ t.bytes > 25000 /\ t.packets > 35
               \/ t.bytes < 6000
            THEN 1 ELSE 2

\* "conservative mode (itr 3) eliminates the lowest_latency setting"
ConservativeNot(r) == r
Conservative(r) == IF setting = 3 /\ r = 0 THEN 1 ELSE r

Wanted(r) == CASE r = 0 -> 70000 [] r = 1 -> 20000 [] r = 2 -> 4000

\* e1000_set_itr: up in steps, down at once.
SetItr(tx, rx, gigabit) ==
  /\ part = "itr"
  /\ rate' = IF gigabit
             THEN [tx |-> Conservative(UpdateItr(rate.tx, tx)),
                   rx |-> Conservative(UpdateItr(rate.rx, rx))]
             ELSE rate
  /\ LET new == IF gigabit THEN Wanted(Greater(rate'.tx, rate'.rx)) ELSE 4000
     IN itr' = IF new > itr THEN Lesser(itr + (new \div 4), new) ELSE new
  /\ UNCHANGED << part, mapping, buffer, setting, memory >>

-----------------------------------------------------------------------------
(* The memory of the rings                                                 *)

\* Descriptors of 16 bytes, rounded up to 4096.
RingBytes == Align(Count * 16, 4096)

\* e1000_check_64k_bound: errata 23 of the 82545 and 82546.
Crosses(a) ==
  mac = "82545" /\ a \div 65536 # (a + RingBytes - 1) \div 65536

Ring == { "tx", "rx" }

\* What is allocated for a ring: buffer_info, desc, and olddesc, the desc of a
\* first attempt.
Memory == Ring \X { "info", "desc", "old" }

\* Each of `got` is allocated once, each of `freed` freed once.
Hold(got, freed) ==
  live' = [m \in Memory |-> live[m] + One(m \in got) - One(m \in freed)]

\* e1000_free_tx_resources and e1000_free_rx_resources
Whole(r) == { << r, "info" >>, << r, "desc" >> }

\* err_setup_rx of e1000_open: the transmit ring was complete.
Unwound == IF ring = "rx" THEN Whole("tx") ELSE {}

\* setup_tx_desc_die and setup_rx_desc_die
DescDie == { << ring, "info" >> }

\* The second attempt has failed: olddesc, and then setup_*_desc_die.
RetryDieKeepsOld == DescDie
RetryDie == { << ring, "old" >> } \cup DescDie

At(r, place) == ring' = r /\ stage' = place

\* The setup of a ring fails with `freed` given back, and so e1000_open.
Fail(got, freed) == Hold(got, freed \cup Unwound) /\ At("tx", "closed")

Done == IF ring = "tx" THEN At("rx", "info") ELSE At("rx", "irq")

SetupInfo ==
  /\ part = "rings" /\ stage \in { "closed", "info" }
  /\ \/ Fail({}, {})
     \/ Hold({ << ring, "info" >> }, {}) /\ At(ring, "desc")
  /\ UNCHANGED << part, mapping, buffer, throttle, desc >>

SetupDesc(a) ==
  /\ stage = "desc"
  /\ desc' = [desc EXCEPT ![ring] = a]
  /\ IF Crosses(a)
     THEN Hold({ << ring, "old" >> }, {}) /\ At(ring, "retry")
     ELSE Hold({ << ring, "desc" >> }, {}) /\ Done
  /\ UNCHANGED << part, mapping, buffer, throttle >>

\* "Try again, without freeing the previous", so that the second one lies
\* elsewhere; when it crosses too, "give up".
SetupRetry(a) ==
  /\ stage = "retry" /\ a # desc[ring]
  /\ desc' = [desc EXCEPT ![ring] = a]
  /\ IF Crosses(a)
     THEN Fail({ << ring, "desc" >> }, { << ring, "desc" >> } \cup RetryDie)
     ELSE Hold({ << ring, "desc" >> }, { << ring, "old" >> }) /\ Done
  /\ UNCHANGED << part, mapping, buffer, throttle >>

\* No memory for the descriptors, at the first or at the second attempt.
SetupFails ==
  /\ \/ stage = "desc" /\ Fail({}, DescDie)
     \/ stage = "retry" /\ Fail({}, RetryDie)
  /\ UNCHANGED << part, mapping, buffer, throttle, desc >>

\* e1000_request_irq
RequestIrq ==
  /\ stage = "irq"
  /\ stage' = "open"
  /\ UNCHANGED << part, mapping, buffer, throttle, ring, live, desc >>

\* err_req_irq of e1000_open and e1000_close: e1000_free_all_rx_resources and
\* e1000_free_all_tx_resources.
Release ==
  /\ stage \in { "irq", "open" }
  /\ Hold({}, Whole("tx") \cup Whole("rx")) /\ At("tx", "closed")
  /\ UNCHANGED << part, mapping, buffer, throttle, desc >>

-----------------------------------------------------------------------------

Packets ==
  [head : Heads, mss : Mss,
   frags : UNION { [1..n -> Frag] : n \in 0..MaxFrags }]
NoPacket == [head |-> 0, mss |-> 0, frags |-> << >>]
NoChip == [pcix |-> FALSE, dword |-> FALSE]

\* pcix_82544 implies PCI-X; the linear part starts anywhere in 8 bytes.
InitMap ==
  /\ part = "map"
  /\ pkt \in Packets
  /\ chip \in { c \in [pcix : BOOLEAN, dword : BOOLEAN] : c.dword => c.pcix }
  /\ f = 0 /\ left = pkt.head /\ off \in 0..7 /\ count = 0
  /\ lastTso \in BOOLEAN
  /\ reserved = Reserve(pkt, chip, lastTso)
  /\ mac = "82540" /\ frame = 1518 /\ setting = 1

InitOther ==
  /\ part \in { "fifo", "itr", "rings" }
  /\ pkt = NoPacket /\ chip = NoChip /\ lastTso = FALSE
  /\ reserved = 0 /\ f = 0 /\ left = 0 /\ off = 0 /\ count = 0
  /\ \/ part = "fifo" /\ mac \in Mac /\ frame \in Frames /\ setting = 1
     \/ part = "rings" /\ mac \in Mac /\ frame = 1518 /\ setting = 1
     \/ part = "itr" /\ mac = "82540" /\ frame = 1518 /\ setting \in { 1, 3 }

\* The adapter is zero when it is allocated; e1000_check_options starts a
\* dynamic rate at 20000.
Init ==
  /\ InitMap \/ InitOther
  /\ fifoHead = 0 /\ itr = 20000 /\ rate = [tx |-> 0, rx |-> 0]
  /\ ring = "tx" /\ stage = "closed"
  /\ live = [m \in Memory |-> 0] /\ desc = [r \in Ring |-> 0]

Next ==
  \/ MapChunk
  \/ (\E n \in Lengths, half \in BOOLEAN : FifoSend(n, half))
  \/ (\E tx, rx \in Traffic, gigabit \in BOOLEAN : SetItr(tx, rx, gigabit))
  \/ SetupInfo \/ (\E a \in Places : SetupDesc(a) \/ SetupRetry(a))
  \/ SetupFails \/ RequestIrq \/ Release

Spec == Init /\ [][Next]_vars

-----------------------------------------------------------------------------

\* The packet is never cut into more descriptors than were reserved, whatever
\* workarounds meet in it: TSO sentinels, the first buffer in PCI-X mode, the
\* alignment of the 82544, a packet after a TSO one.
DescriptorsReserved == count <= reserved

\* "The high water mark must be low enough to fit one full frame above it in
\* the Rx FIFO", for every frame size and adapter, and the low one is not
\* below zero.
FrameAboveHighWater ==
  /\ Pba(mac, frame) * 1024 - HighWater(mac, frame) >= frame
  /\ HighWater(mac, frame) > 8

\* The head of the transmit fifo stays inside it: one subtraction is enough.
FifoHeadInRange == mac = "82547" => fifoHead < FifoSize(mac, frame)

\* The rate stays where the divisor of the ITR register is sound, and a
\* conservative one never exceeds 20000, however the traffic changes.
RateInRange == itr >= 4000 /\ itr <= (IF setting = 3 THEN 20000 ELSE 70000)

\* However e1000_open fails, what it allocated is freed, and freed once; an
\* open adapter owns both rings, neither across 64 KB, and nothing of a first
\* attempt.
RingMemoryOwned ==
  /\ stage = "closed" => \A m \in Memory : live[m] = 0
  /\ stage = "open" =>
       /\ \A m \in Memory : live[m] = One(m \in Whole("tx") \cup Whole("rx"))
       /\ \A r \in Ring : ~Crosses(desc[r])
=============================================================================
