-------------------------- MODULE SimethXmitProofs --------------------------
(***************************************************************************)
(* Proofs, for any number of packets and of calls and for any results of   *)
(* the hook, of the properties of SimethXmit: a packet the stack no longer *)
(* holds is counted once, and the bytes a reader is shown never lag behind *)
(* the packets by more than one.                                           *)
(***************************************************************************)
EXTENDS SimethXmit, TLAPS

-----------------------------------------------------------------------------
(* Types.                                                                  *)

TypeInv ==
  /\ queue \in Seq(Skbs)
  /\ xpc \in { "idle", "count", "bytes", "free" }
  /\ xpc # "idle" => skb \in Skbs
  /\ ret \in Int
  /\ frees \in [Skbs -> Nat]
  /\ tx \in [packets : Nat, bytes : Nat, dropped : Nat, errors : Nat]
  /\ rpc \in 1 .. 3
  /\ show \in [packets : Nat, bytes : Nat]
  /\ shown \in [packets : Nat, bytes : Nat]
  /\ calls \in Nat
  /\ untold \in Nat
  /\ totals \in Seq(Nat)

(* Every step of the transmitter and of the reader keeps the types.        *)
LEMMA TypeStep == TypeInv /\ [Next]_vars => TypeInv'
<1> SUFFICES ASSUME TypeInv, [Next]_vars PROVE TypeInv'
  OBVIOUS
<1> USE XmitAssumption DEF reader, writer
<1>1. CASE StartXmit
  <2>1. queue \in Seq(Skbs) /\ queue # << >>
    BY <1>1 DEF TypeInv, StartXmit
  <2>2. Head(queue) \in Skbs /\ Tail(queue) \in Seq(Skbs)
    BY <2>1
  <2>3. QED
    BY <1>1, <2>2 DEF TypeInv, StartXmit
<1>2. CASE CountPackets
  <2>1. tx \in [packets : Nat, bytes : Nat, dropped : Nat, errors : Nat]
    BY DEF TypeInv
  <2>2. tx' \in [packets : Nat, bytes : Nat, dropped : Nat, errors : Nat]
    <3>1. tx' = [tx EXCEPT !.packets = tx.packets + 1] /\ tx.packets + 1 \in Nat
      BY <1>2, <2>1 DEF CountPackets
    <3>2. QED
      BY <2>1, <3>1
  <2>3. totals \in Seq(Nat) /\ skb \in Nat
    <3>1. totals \in Seq(Nat) /\ skb \in Skbs
      BY <1>2 DEF TypeInv, CountPackets
    <3>2. QED
      BY <3>1 DEF Skbs
  <2>4. Total(Len(totals)) \in Nat
    BY <2>3 DEF Total
  <2>5. totals' \in Seq(Nat)
    BY <1>2, <2>3, <2>4 DEF CountPackets
  <2>6. QED
    BY <1>2, <2>2, <2>5 DEF TypeInv, CountPackets
<1>3. CASE CountBytes
  <2>1. tx \in [packets : Nat, bytes : Nat, dropped : Nat, errors : Nat]
        /\ skb \in Nat
    BY <1>3 DEF TypeInv, CountBytes, Skbs
  <2>2. tx' \in [packets : Nat, bytes : Nat, dropped : Nat, errors : Nat]
    BY <1>3, <2>1 DEF CountBytes
  <2>3. QED
    BY <1>3, <2>2 DEF TypeInv, CountBytes
<1>4. CASE CountFailure
  <2>1. tx \in [packets : Nat, bytes : Nat, dropped : Nat, errors : Nat]
    BY DEF TypeInv
  <2>2. tx' \in [packets : Nat, bytes : Nat, dropped : Nat, errors : Nat]
    <3> DEFINE u == [tx EXCEPT !.dropped = IF ret = -1 THEN @ + 1 ELSE @]
    <3>1. u \in [packets : Nat, bytes : Nat, dropped : Nat, errors : Nat]
      BY <2>1
    <3>2. tx' = [u EXCEPT !.errors = IF ret = -2 THEN @ + 1 ELSE @]
      BY <1>4 DEF CountFailure, Failed
    <3> HIDE DEF u
    <3>3. QED
      BY <3>1, <3>2
  <2>3. QED
    BY <1>4, <2>2 DEF TypeInv, CountFailure
<1>5. CASE FreeSkb
  <2>1. skb \in Skbs /\ queue \in Seq(Skbs) /\ frees \in [Skbs -> Nat]
    BY <1>5 DEF TypeInv, FreeSkb
  <2>2. queue' \in Seq(Skbs)
    <3>1. queue' = << skb >> \o queue \/ queue' = queue
      BY <1>5 DEF FreeSkb
    <3>2. << skb >> \o queue \in Seq(Skbs)
      BY <2>1
    <3>3. QED
      BY <2>1, <3>1, <3>2
  <2>3. frees' \in [Skbs -> Nat]
    BY <1>5, <2>1 DEF FreeSkb
  <2>4. untold' \in Nat
    <3>1. untold \in Nat
      BY DEF TypeInv
    <3>2. untold' = untold \/ untold' = untold + 1
      BY <1>5, <3>1 DEF FreeSkb
    <3>3. QED
      BY <3>1, <3>2
  <2>5. QED
    BY <1>5, <2>2, <2>3, <2>4 DEF TypeInv, FreeSkb
<1>6. CASE Read
  <2>1. /\ show \in [packets : Nat, bytes : Nat]
        /\ tx \in [packets : Nat, bytes : Nat, dropped : Nat, errors : Nat]
    BY DEF TypeInv
  <2>2. show' \in [packets : Nat, bytes : Nat] /\ rpc' \in 1 .. 3
    BY <1>6, <2>1 DEF Read, ReadOrder
  <2>3. QED
    BY <1>6, <2>2 DEF TypeInv, Read
<1>7. CASE Show
  BY <1>7 DEF TypeInv, Show
<1>8. CASE UNCHANGED vars
  BY <1>8 DEF TypeInv, vars, writer
<1>9. QED
  BY <1>1, <1>2, <1>3, <1>4, <1>5, <1>6, <1>7, <1>8 DEF Next

(* The types hold at all times.                                            *)
LEMMA TypeInvariant == Spec => []TypeInv
<1>1. Init => TypeInv
  BY XmitAssumption DEF Init, TypeInv, NoStats, Skbs
<1>2. QED
  BY <1>1, TypeStep, PTL DEF Spec

-----------------------------------------------------------------------------
(* What a reader is shown.                                                 *)

(* The packets counted so far, and of how many the bytes are counted: one  *)
(* less between the two assignments of start_xmit.                         *)
TotalsInv ==
  /\ tx.packets = Len(totals)
  /\ xpc = "bytes" =>
       /\ Len(totals) > 0
       /\ totals[Len(totals)] = Total(Len(totals) - 1) + skb
  /\ tx.bytes = Total(IF xpc = "bytes" THEN Len(totals) - 1 ELSE Len(totals))

(* Bytes b go with p packets: they are the total of at least p - 1.        *)
Fits(p, b) == p <= 1 \/ \E k \in (p - 1) .. Len(totals) : b = totals[k]

(* The packets read are not ahead of the count, and what was read fits.    *)
ReadInv ==
  /\ rpc = 2 => show.packets <= tx.packets
  /\ rpc = 3 => Fits(show.packets, show.bytes)
  /\ Fits(shown.packets, shown.bytes)

(* A packet more counted leaves the totals of the packets before.          *)
LEMMA TotalsGrow ==
  ASSUME TypeInv, CountPackets
  PROVE  /\ Len(totals') = Len(totals) + 1
         /\ \A k \in 1 .. Len(totals) : totals'[k] = totals[k]
         /\ totals'[Len(totals')] = Total(Len(totals)) + skb
         /\ Total(Len(totals)) \in Nat
<1>1. totals \in Seq(Nat) /\ skb \in Nat
  <2>1. totals \in Seq(Nat) /\ skb \in Skbs
    BY DEF TypeInv, CountPackets
  <2>2. QED
    BY <2>1, XmitAssumption DEF Skbs
<1>2. Total(Len(totals)) \in Nat
  BY <1>1 DEF Total
<1>3. totals' = Append(totals, Total(Len(totals)) + skb)
  BY DEF CountPackets
<1>4. QED
  BY <1>1, <1>2, <1>3

(* The writer's two assignments.                                           *)
LEMMA TotalsStep == TypeInv /\ TotalsInv /\ [Next]_vars => TotalsInv'
<1> SUFFICES ASSUME TypeInv, TotalsInv, [Next]_vars PROVE TotalsInv'
  OBVIOUS
<1>a. /\ totals \in Seq(Nat) /\ Len(totals) \in Nat
      /\ tx \in [packets : Nat, bytes : Nat, dropped : Nat, errors : Nat]
  BY DEF TypeInv
<1>1. CASE CountPackets
  <2>1. /\ xpc = "count" /\ xpc' = "bytes" /\ skb' = skb
        /\ tx'.packets = tx.packets + 1 /\ tx'.bytes = tx.bytes
    BY <1>1, <1>a DEF CountPackets
  <2>2. /\ Len(totals') = Len(totals) + 1
        /\ \A k \in 1 .. Len(totals) : totals'[k] = totals[k]
        /\ totals'[Len(totals')] = Total(Len(totals)) + skb
        /\ totals' \in Seq(Nat)
    BY <1>1, TotalsGrow, TypeStep DEF TypeInv, Next
  <2>3. Total(Len(totals) - 1)' = Total(Len(totals))
    <3>1. /\ DOMAIN totals = 1 .. Len(totals)
          /\ DOMAIN totals' = 1 .. Len(totals) + 1
          /\ Len(totals') - 1 = Len(totals)
      BY <1>a, <2>2
    <3>2. Len(totals) \in DOMAIN totals' <=> Len(totals) \in DOMAIN totals
      BY <1>a, <3>1
    <3>3. Len(totals) \in DOMAIN totals =>
            totals'[Len(totals)] = totals[Len(totals)]
      BY <2>2, <3>1
    <3>4. QED
      BY <3>1, <3>2, <3>3 DEF Total
  <2>4. QED
    BY <1>a, <2>1, <2>2, <2>3 DEF TotalsInv
<1>2. CASE CountBytes
  <2>1. /\ xpc = "bytes" /\ xpc' = "free" /\ totals' = totals
        /\ tx'.packets = tx.packets /\ tx'.bytes = tx.bytes + skb
    BY <1>2, <1>a DEF CountBytes
  <2>2. QED
    BY <1>a, <2>1 DEF TotalsInv, Total
<1>3. CASE CountFailure
  <2>1. /\ xpc = "count" /\ xpc' = "free" /\ totals' = totals
        /\ tx'.packets = tx.packets /\ tx'.bytes = tx.bytes
    BY <1>3, <1>a DEF CountFailure, Failed
  <2>2. QED
    BY <2>1 DEF TotalsInv, Total
<1>4. CASE StartXmit \/ FreeSkb
  BY <1>4 DEF StartXmit, FreeSkb, TotalsInv, Total
<1>5. CASE Read \/ Show \/ UNCHANGED vars
  BY <1>5 DEF Read, Show, vars, writer, TotalsInv, Total
<1>6. QED
  BY <1>1, <1>2, <1>3, <1>4, <1>5 DEF Next

(* The reader's two copies, with any number of packets counted in between. *)
LEMMA ReadStep ==
  TypeInv /\ TotalsInv /\ ReadInv /\ [Next]_vars => ReadInv'
<1> SUFFICES ASSUME TypeInv, TotalsInv, ReadInv, [Next]_vars PROVE ReadInv'
  OBVIOUS
<1>a. /\ totals \in Seq(Nat) /\ Len(totals) \in Nat
      /\ tx \in [packets : Nat, bytes : Nat, dropped : Nat, errors : Nat]
      /\ show \in [packets : Nat, bytes : Nat]
      /\ shown \in [packets : Nat, bytes : Nat]
      /\ rpc \in 1 .. 3
  BY DEF TypeInv
<1>1. CASE CountPackets
  <2>1. /\ rpc' = rpc /\ show' = show /\ shown' = shown
        /\ tx'.packets = tx.packets + 1
    BY <1>1, <1>a DEF CountPackets, reader
  <2>2. /\ Len(totals') = Len(totals) + 1
        /\ \A k \in 1 .. Len(totals) : totals'[k] = totals[k]
    BY <1>1, TotalsGrow
  <2>3. ASSUME NEW p \in Nat, NEW b \in Nat, Fits(p, b)
        PROVE  p <= 1 \/ \E k \in (p - 1) .. Len(totals') : b = totals'[k]
    <3>1. CASE p > 1
      <4>1. PICK k \in (p - 1) .. Len(totals) : b = totals[k]
        BY <2>3, <3>1 DEF Fits
      <4>2. k \in 1 .. Len(totals) /\ k \in (p - 1) .. Len(totals')
        BY <1>a, <2>2, <3>1
      <4>3. QED
        BY <2>2, <4>1, <4>2
    <3>2. QED
      BY <3>1
  <2>4. Fits(shown.packets, shown.bytes)'
    <3>1. /\ shown.packets \in Nat /\ shown.bytes \in Nat
          /\ Fits(shown.packets, shown.bytes)
      BY <1>a DEF ReadInv
    <3>2. QED
      BY <2>1, <2>3, <3>1 DEF Fits
  <2>5. rpc' = 3 => Fits(show.packets, show.bytes)'
    <3>1. /\ show.packets \in Nat /\ show.bytes \in Nat
          /\ rpc' = 3 => Fits(show.packets, show.bytes)
      BY <1>a, <2>1 DEF ReadInv
    <3>2. QED
      BY <2>1, <2>3, <3>1 DEF Fits
  <2>6. rpc' = 2 => show'.packets <= tx'.packets
    BY <1>a, <2>1 DEF ReadInv
  <2>7. QED
    BY <2>4, <2>5, <2>6 DEF ReadInv
<1>2. CASE CountBytes
  <2>1. tx'.packets = tx.packets
    BY <1>2, <1>a DEF CountBytes
  <2>2. QED
    BY <1>2, <2>1 DEF CountBytes, reader, ReadInv, Fits
<1>3. CASE CountFailure
  <2>1. tx'.packets = tx.packets
    BY <1>3, <1>a DEF CountFailure, Failed
  <2>2. QED
    BY <1>3, <2>1 DEF CountFailure, reader, ReadInv, Fits
<1>4. CASE StartXmit \/ FreeSkb
  BY <1>4 DEF StartXmit, FreeSkb, reader, ReadInv, Fits
<1>5. CASE Read
  <2>1. tx' = tx /\ totals' = totals /\ shown' = shown
    BY <1>5 DEF Read, writer
  <2>2. CASE rpc = 1
    <3>1. rpc' = 2 /\ show'.packets = tx.packets
      BY <1>5, <1>a, <2>2 DEF Read, ReadOrder
    <3>2. QED
      BY <1>a, <2>1, <3>1 DEF ReadInv, Fits
  <2>3. CASE rpc = 2
    <3>1. rpc' = 3 /\ show'.packets = show.packets /\ show'.bytes = tx.bytes
      BY <1>5, <1>a, <2>3 DEF Read, ReadOrder
    <3>2. show.packets <= Len(totals)
      BY <2>3 DEF ReadInv, TotalsInv
    <3>3. Fits(show.packets, tx.bytes)
      <4>1. PICK k \in 0 .. Len(totals) :
               tx.bytes = Total(k) /\ k >= Len(totals) - 1
        BY <1>a DEF TotalsInv
      <4>2. CASE show.packets > 1
        <5>1. k \in (show.packets - 1) .. Len(totals) /\ tx.bytes = totals[k]
          BY <1>a, <3>2, <4>1, <4>2 DEF Total
        <5>2. QED
          BY <5>1 DEF Fits
      <4>3. QED
        BY <1>a, <4>2 DEF Fits
    <3>4. QED
      BY <2>1, <3>1, <3>3 DEF ReadInv, Fits
  <2>4. QED
    BY <1>5, <2>2, <2>3 DEF Read
<1>6. CASE Show
  BY <1>6 DEF Show, writer, ReadInv, Fits
<1>7. CASE UNCHANGED vars
  BY <1>7 DEF vars, writer, reader, ReadInv, Fits
<1>8. QED
  BY <1>1, <1>2, <1>3, <1>4, <1>5, <1>6, <1>7 DEF Next

(* The bytes get_stats64 shows are the total of some number of packets, at *)
(* most one less than the packets shown, however long the reader waits     *)
(* between its two copies, and although neither side synchronises.         *)
THEOREM SkewSafe == Spec => []SnapshotSkew
<1>1. Init => TotalsInv /\ ReadInv
  BY DEF Init, TotalsInv, Total, ReadInv, Fits, NoStats
<1>2. ReadInv => SnapshotSkew
  BY DEF ReadInv, Fits, SnapshotSkew
<1>3. QED
  BY <1>1, <1>2, TotalsStep, ReadStep, TypeInvariant, PTL DEF Spec

-----------------------------------------------------------------------------
(* Every packet is counted once.                                           *)

(* A packet in a call counts as with the stack until it is counted, and if *)
(* it failed until start_xmit returns.                                     *)
InFlight ==
  IF xpc = "count" \/ (xpc = "free" /\ ret # 0) THEN 1 ELSE 0

(* Every packet is counted, or untold, or still with the stack.            *)
SentInv ==
  /\ tx.packets + untold + Len(queue) + InFlight = K
  /\ xpc = "bytes" => ret = 0

(* Each way out of a call moves the packet from one count to another.      *)
LEMMA SentStep == TypeInv /\ SentInv /\ [Next]_vars => SentInv'
<1> SUFFICES ASSUME TypeInv, SentInv, [Next]_vars PROVE SentInv'
  OBVIOUS
<1>a. /\ tx \in [packets : Nat, bytes : Nat, dropped : Nat, errors : Nat]
      /\ tx.packets \in Nat /\ untold \in Nat /\ ret \in Int /\ K \in Nat
      /\ queue \in Seq(Skbs) /\ Len(queue) \in Nat
  BY XmitAssumption DEF TypeInv
<1>1. CASE StartXmit
  <2>1. Len(queue') = Len(queue) - 1
    BY <1>1, <1>a DEF StartXmit
  <2>2. QED
    BY <1>1, <1>a, <2>1 DEF StartXmit, SentInv, InFlight
<1>2. CASE CountPackets
  <2>1. tx'.packets = tx.packets + 1
    BY <1>2, <1>a DEF CountPackets
  <2>2. QED
    BY <1>2, <1>a, <2>1 DEF CountPackets, SentInv, InFlight
<1>3. CASE CountBytes
  <2>1. tx'.packets = tx.packets
    BY <1>3, <1>a DEF CountBytes
  <2>2. QED
    BY <1>3, <2>1 DEF CountBytes, SentInv, InFlight
<1>4. CASE CountFailure
  <2>1. tx'.packets = tx.packets
    BY <1>4, <1>a DEF CountFailure, Failed
  <2>2. QED
    BY <1>4, <2>1 DEF CountFailure, SentInv, InFlight
<1>5. CASE FreeSkb
  <2>1. tx' = tx /\ xpc = "free" /\ xpc' = "idle"
    BY <1>5 DEF FreeSkb
  <2>2. CASE Returned >= NET_XMIT_MASK
    <3>1. ret # 0
      BY <1>a, <2>2 DEF Returned, NET_XMIT_MASK
    <3>2. Len(queue') = Len(queue) + 1 /\ untold' = untold
      <4>1. skb \in Skbs /\ queue' = << skb >> \o queue
        BY <1>5, <2>1, <2>2 DEF FreeSkb, TypeInv
      <4>2. QED
        BY <1>5, <1>a, <2>2, <4>1 DEF FreeSkb
    <3>3. QED
      BY <1>a, <2>1, <3>1, <3>2 DEF SentInv, InFlight
  <2>3. CASE ~(Returned >= NET_XMIT_MASK)
    <3>1. Returned > 0 <=> ret # 0
      BY <1>a, <2>3 DEF Returned, NET_XMIT_MASK, NETDEV_TX_BUSY
    <3>2. /\ queue' = queue
          /\ untold' = untold + IF ret # 0 THEN 1 ELSE 0
      BY <1>5, <2>3, <3>1 DEF FreeSkb
    <3>3. QED
      BY <1>a, <2>1, <3>2 DEF SentInv, InFlight
  <2>4. QED
    BY <2>2, <2>3
<1>6. CASE Read \/ Show
  BY <1>6 DEF Read, Show, writer, SentInv, InFlight
<1>7. CASE UNCHANGED vars
  BY <1>7 DEF vars, writer, SentInv, InFlight
<1>8. QED
  BY <1>1, <1>2, <1>3, <1>4, <1>5, <1>6, <1>7 DEF Next

(* Whatever results simeth_xmit_mac_fn gives and however often a packet    *)
(* comes again: between two calls the counters hold every packet the stack *)
(* has given away once, with its bytes, and none that it has, but for the  *)
(* packets that a positive result makes start_xmit take for a failure.     *)
THEOREM SentSafe == Spec => []SentOnce
<1>1. Init => TotalsInv /\ SentInv
  <2> SUFFICES ASSUME Init PROVE TotalsInv /\ SentInv
    OBVIOUS
  <2>1. queue \in Seq(Skbs) /\ Len(queue) = K
    BY XmitAssumption DEF Init, Skbs
  <2>2. QED
    BY <2>1, XmitAssumption DEF Init, TotalsInv, Total, SentInv, InFlight
<1>2. TypeInv /\ TotalsInv /\ SentInv => SentOnce
  <2> SUFFICES ASSUME TypeInv, TotalsInv, SentInv, xpc = "idle"
               PROVE  /\ tx.packets + untold = K - Len(queue)
                      /\ tx.packets = Len(totals)
                      /\ tx.bytes = Total(Len(totals))
    BY DEF SentOnce
  <2>1. tx.packets \in Nat /\ untold \in Nat /\ Len(queue) \in Nat
    BY DEF TypeInv
  <2>2. QED
    BY <2>1, XmitAssumption DEF TotalsInv, SentInv, InFlight
<1>3. QED
  BY <1>1, <1>2, TotalsStep, SentStep, TypeInvariant, PTL DEF Spec
=============================================================================
