--------------------------- MODULE E1000RxProofs ---------------------------
(***************************************************************************)
(* Proofs of the safety properties of E1000Rx: for a ring of any size, any *)
(* weight of a poll and any batch of buffers.                              *)
(***************************************************************************)
EXTENDS E1000Rx, Integers, TLAPS

-----------------------------------------------------------------------------
(* Places on the ring.                                                     *)

\* The slot k places after i, and how far ahead of i slot j is, without %.
Plus(i, k) == IF i + k < N THEN i + k ELSE i + k - N
Ahead(i, j) == IF i <= j THEN j - i ELSE j - i + N

-----------------------------------------------------------------------------
(* The inductive invariant.                                                *)

\* Between the loop's rounds the poll has room in its batch, and without a
\* loop there is none.
LoopInv ==
  Sound =>
    /\ poll = "clean" => count < Batch
    /\ poll \in { "idle", "store" } => count = 0
    /\ poll = "store" => at = ntc

\* Poll, head and tail are in this order, next_to_use is right after the tail,
\* and what the poll is about to give back fits between it and the poll, with
\* a slot to spare.  Or no buffer was ever given to the hardware.
OrderInv ==
  Sound =>
    /\ Ahead(Oldest, head) <= Ahead(Oldest, rdt)
    /\ \/ ntu = Plus(rdt, 1) /\ count < Ahead(ntu, Oldest)
       \/ ntu = rdt /\ head = rdt /\ Oldest = rdt /\ count = 0

\* Exactly the slots from the poll to the head are written, and all those up
\* to next_to_use have memory.
SlotsInv ==
  Sound =>
    \A i \in Slot :
      /\ stat[i] # "clear" <=> Ahead(Oldest, i) < Ahead(Oldest, head)
      /\ Ahead(Oldest, i) < Ahead(Oldest, ntu) => buf[i] /\ dma[i]

\* What continues a frame follows what a frame continues after, up to the
\* slot that the hardware will write next.
Inner == Ends \cup { "middle" }

FramesInv ==
  Sound =>
    /\ \A i \in Slot : Ahead(Oldest, i) + 1 < Ahead(Oldest, head)
                         => (stat[Plus(i, 1)] \in Inner <=> stat[i] \in More)
    /\ \A i \in Slot : Ahead(Oldest, i) + 1 = Ahead(Oldest, head)
                         => (inside <=> stat[i] \in More)

\* The poll has taken off the front of a frame, and not its end.
Mid == stat[Oldest] \in Inner \/ (Oldest = head /\ inside)

\* That is what discarding, or the chain, tells it; discarding may be left
\* from before a restart.
MidInv ==
  Sound =>
    /\ ~wrong /\ tossed # "fresh"
    /\ jumbo => top = (IF Mid THEN "front" ELSE "none")
    /\ ~jumbo => (Mid => discarding) /\ (discarding /\ ~Mid => stale)

IInv == TypeOK /\ LoopInv /\ OrderInv /\ SlotsInv /\ FramesInv /\ MidInv

-----------------------------------------------------------------------------
(* Inc, Dist and Span in linear arithmetic.                                *)

\* One subtraction reduces a sum of two slots.
LEMMA ModOnce ==
  ASSUME NEW x \in Nat, x < N + N
  PROVE  x % N = IF x < N THEN x ELSE x - N
  BY RxAssumption

\* Inc moves forward by one subtraction at most,
LEMMA IncIs ==
  ASSUME NEW i \in Slot, NEW k \in 0..N
  PROVE  Inc(i, k) = Plus(i, k)
  BY RxAssumption, ModOnce DEF Slot, Inc, Plus

\* stays in the ring,
LEMMA IncIn ==
  ASSUME NEW i \in Slot, NEW k \in 0..N
  PROVE  Inc(i, k) \in Slot
<1>1. Plus(i, k) \in Slot
  BY RxAssumption DEF Plus, Slot
<1>2. QED
  BY <1>1, IncIs

\* and Dist is the distance ahead.
LEMMA DistIs ==
  ASSUME NEW i \in Slot, NEW j \in Slot
  PROVE  Dist(i, j) = Ahead(i, j)
  BY RxAssumption, ModOnce DEF Slot, Dist, Ahead

\* A span of k slots from i holds those less than k ahead of i.
LEMMA SpanIs ==
  ASSUME NEW i \in Slot, NEW k \in 0..N, NEW j \in Slot
  PROVE  j \in Span(i, k) <=> Ahead(i, j) < k
<1>1. ASSUME NEW m \in 0..(k - 1)
      PROVE Ahead(i, Plus(i, m)) = m /\ Plus(i, m) \in Slot
  BY RxAssumption DEF Ahead, Plus, Slot
<1>2. Plus(i, Ahead(i, j)) = j /\ Ahead(i, j) \in Nat
  BY RxAssumption DEF Ahead, Plus, Slot
<1>3. \A m \in 0..(k - 1) : Inc(i, m) = Plus(i, m)
  BY IncIs, RxAssumption
<1>4. QED
  BY <1>1, <1>2, <1>3 DEF Span

\* The pointers are numbers below N.
LEMMA Pointers ==
  ASSUME TypeOK
  PROVE  /\ ntc \in Int /\ ntu \in Int /\ rdt \in Int /\ head \in Int /\ at \in Int
         /\ count \in Int /\ N \in Int /\ 2 < N /\ 0 <= count
         /\ 0 <= ntc /\ 0 <= ntu /\ 0 <= rdt /\ 0 <= head /\ 0 <= at
         /\ ntc < N /\ ntu < N /\ rdt < N /\ head < N /\ at < N
  BY RxAssumption DEF TypeOK, Slot

-----------------------------------------------------------------------------
(* What the actions have in common.                                        *)

\* alloc_rx_buf fills slots from next_to_use on, and leaves alone those after
\* the one it fails at.
LEMMA RefillIs ==
  ASSUME TypeOK, NEW k \in 0..N, NEW j \in 0..N, Refill(k, j)
  PROVE  /\ j <= k /\ ntu' = Plus(ntu, j)
         /\ rdt' = IF j > 0 THEN Plus(ntu, j - 1) ELSE rdt
         /\ buf' \in [Slot -> BOOLEAN] /\ dma' \in [Slot -> BOOLEAN]
         /\ \A i \in Slot : Ahead(ntu, i) < j => buf'[i] /\ dma'[i]
         /\ \A i \in Slot : Ahead(ntu, i) > j
                              => buf'[i] = buf[i] /\ dma'[i] = dma[i]
<1> USE RxAssumption DEF TypeOK
<1>1. Inc(ntu, j) = Plus(ntu, j) /\ (j > 0 => Inc(ntu, j - 1) = Plus(ntu, j - 1))
  BY IncIs
<1>2. \A i \in Slot : i \in Span(ntu, j) <=> Ahead(ntu, i) < j
  BY SpanIs
<1>3. \A i \in Slot : Ahead(ntu, i) > j => i # Plus(ntu, j)
  BY DEF Ahead, Plus, Slot
<1>4. j <= k /\ ntu' = Plus(ntu, j)
      /\ rdt' = IF j > 0 THEN Plus(ntu, j - 1) ELSE rdt
  BY <1>1 DEF Refill
<1>5. buf' \in [Slot -> BOOLEAN] /\ dma' \in [Slot -> BOOLEAN]
  BY DEF Refill
<1>6. \A i \in Slot : Ahead(ntu, i) < j => buf'[i] /\ dma'[i]
  BY <1>2 DEF Refill
<1>7. \A i \in Slot : Ahead(ntu, i) > j => buf'[i] = buf[i] /\ dma'[i] = dma[i]
  <2> SUFFICES ASSUME NEW i \in Slot, Ahead(ntu, i) > j
               PROVE  buf'[i] = buf[i] /\ dma'[i] = dma[i]
    OBVIOUS
  <2>1. i \notin Span(ntu, j) /\ i # Inc(ntu, j)
    BY <1>1, <1>2, <1>3 DEF Ahead, Slot
  <2>2. QED
    BY <2>1 DEF Refill
<1>8. QED
  BY <1>4, <1>5, <1>6, <1>7

\* The poll refills at most as many slots as the ring has.
LEMMA UnusedIs ==
  ASSUME TypeOK
  PROVE  Unused = IF ntc = ntu THEN N - 1 ELSE Ahead(ntu, ntc) - 1
  BY RxAssumption DEF TypeOK, Unused, Ahead, Slot

\* Whatever it does with a frame, the poll clears the slot, goes on to the next
\* one, and touches the memory of no other.
LEMMA DescIs ==
  ASSUME TypeOK, PollDesc
  PROVE  /\ Going /\ stat' = [stat EXCEPT ![at] = "clear"]
         /\ at' = Plus(at, 1) /\ work' = work + 1 /\ count' = count + 1
         /\ poll' = IF count + 1 >= Batch THEN "return" ELSE "clean"
         /\ UNCHANGED << jumbo, ring, head, inside, broken >>
         /\ reused => reused'
         /\ buf' \in [Slot -> BOOLEAN] /\ dma' \in [Slot -> BOOLEAN]
         /\ \A i \in Slot : i # at => buf'[i] = buf[i] /\ dma'[i] = dma[i]
<1> USE DEF TypeOK
<1>1. Inc(at, 1) = Plus(at, 1)
  BY IncIs, RxAssumption
<1>2. /\ Going /\ NextDesc /\ UNCHANGED << jumbo, ring, head, inside, broken >>
      /\ reused => reused'
  BY DEF PollDesc, Receive, JumboError, JumboChain, JumboEnd, GetFrags, ghost
<1>3. Take \/ Keep \/ KeepPage
  BY DEF PollDesc, Receive, JumboError, JumboChain, JumboEnd
<1>4. /\ buf' \in [Slot -> BOOLEAN] /\ dma' \in [Slot -> BOOLEAN]
      /\ \A i \in Slot : i # at => buf'[i] = buf[i] /\ dma'[i] = dma[i]
  BY <1>3 DEF Take, Keep, KeepPage, Unmap
<1>5. QED
  BY <1>1, <1>2, <1>4 DEF NextDesc

\* A restart leaves the first j slots with memory, and nothing written.
LEMMA RestartIs ==
  ASSUME NEW j \in 0..N, Sound',
         Restart82542(j) \/ \E big \in BOOLEAN : Reset(big, j)
  PROVE  /\ Oldest' = 0 /\ head' = 0 /\ ntu' = j /\ j < N
         /\ \A i \in Slot : stat'[i] = "clear" /\ (i < j => buf'[i] /\ dma'[i])
         /\ inside' = FALSE /\ top' = "none" /\ stale' = discarding
         /\ discarding' = discarding
<1>1. PICK big : Restart(big, j)
  BY DEF Restart82542, Reset
<1>2. \A i \in Slot : stat'[i] = "clear" /\ (i < j => buf'[i] /\ dma'[i])
  BY <1>1 DEF Restart, Filled
<1>3. Oldest' = 0
  BY <1>1 DEF Restart, Restart82542, Reset, Oldest, Sound, loop
<1>4. QED
  BY <1>1, <1>2, <1>3 DEF Restart, Restart82542, Reset

-----------------------------------------------------------------------------
(* Every step preserves each part of the invariant.                        *)

\* Each step keeps the types.
LEMMA TypeStep == TypeOK /\ LoopInv /\ [Next]_vars => TypeOK'
<1> SUFFICES ASSUME TypeOK, LoopInv, [Next]_vars PROVE TypeOK'
  OBVIOUS
<1> USE RxAssumption DEF TypeOK
<1>0. \A i \in Slot, k \in 0..N : Inc(i, k) \in Slot
  BY IncIn
<1>0a. ASSUME PollDesc
       PROVE  /\ { ntc, ntu, rdt, head, at }' \subseteq Slot
              /\ (buf \in [Slot -> BOOLEAN])' /\ (dma \in [Slot -> BOOLEAN])'
              /\ (stat \in [Slot -> Written \cup { "clear" }])'
              /\ work' \in 0..Weight /\ count' \in 0..Batch
              /\ poll' \in { "return", "clean" }
              /\ jumbo' = jumbo /\ inside' = inside /\ broken' = broken
  <2>1. at' \in Slot
    BY <1>0, <1>0a
       DEF PollDesc, Receive, JumboError, JumboChain, JumboEnd, NextDesc
  <2>2. work' \in 0..Weight /\ count' \in 0..Batch
    BY <1>0a, DescIs DEF Going, LoopInv, Sound
  <2>3. QED
    BY <1>0a, <2>1, <2>2, DescIs DEF ring
<1>1. ASSUME NEW s \in Written, HwWrite(s) PROVE TypeOK'
  BY <1>1, <1>0 DEF HwWrite, ring, loop, ghost
<1>2. CASE PollStart
  BY <1>2 DEF PollStart, ring, slots, ghost
<1>3. ASSUME NEW accept \in BOOLEAN, Receive(accept) PROVE TypeOK'
  <2>1. PollDesc
    BY <1>3 DEF PollDesc
  <2>2. /\ { ntc, ntu, rdt, head, at }' \subseteq Slot
        /\ (buf \in [Slot -> BOOLEAN])' /\ (dma \in [Slot -> BOOLEAN])'
        /\ (stat \in [Slot -> Written \cup { "clear" }])'
        /\ work' \in 0..Weight /\ count' \in 0..Batch
        /\ poll' \in { "return", "clean" }
        /\ jumbo' = jumbo /\ inside' = inside /\ broken' = broken
    BY <2>1, <1>0a
  <2>3. tossed' \in { "none", "stale", "fresh" }
    BY <1>3 DEF Receive
  <2>4. /\ top' = top /\ freed' = freed /\ reused' = reused
        /\ { discarding, stale, wrong }' \subseteq BOOLEAN
    BY <1>3 DEF Receive, DiscardAfter
  <2>5. QED
    BY <2>2, <2>3, <2>4
<1>4. CASE JumboError \/ JumboChain \/ JumboEnd
  <2>1. PollDesc
    BY <1>4 DEF PollDesc
  <2>2. /\ top' \in { "none", "front", "gap" } /\ discarding' = discarding
        /\ stale' = stale /\ tossed' = tossed
        /\ { wrong, freed, reused }' \subseteq BOOLEAN
    BY <1>4 DEF JumboError, JumboChain, JumboEnd, GetFrags, ghost
  <2>3. QED
    BY <2>1, <2>2, <1>0a
<1>5. CASE PollBreak
  <2>1. CASE ReceiveBreak
    BY <2>1 DEF ReceiveBreak, Going, ring, slots, ghost
  <2>2. CASE JumboBreak
    <3>1. at' \in Slot
      BY <2>2, <1>0 DEF JumboBreak
    <3>2. work' \in 0..Weight /\ count' \in 0..Batch
      BY <2>2 DEF JumboBreak, Going, LoopInv, Sound
    <3>3. QED
      BY <2>2, <3>1, <3>2 DEF JumboBreak, KeepPage, Unmap, ring
  <2>3. QED
    BY <1>5, <2>1, <2>2 DEF PollBreak
<1>6. CASE PollStore
  BY <1>6 DEF PollStore, slots, ghost
<1>7. ASSUME NEW j \in 0..N, PollReturn(j) PROVE TypeOK'
  <2>1. ntu' \in Slot /\ rdt' \in Slot
    BY <1>7, <1>0 DEF PollReturn, Refill
  <2>2. (buf \in [Slot -> BOOLEAN])' /\ (dma \in [Slot -> BOOLEAN])'
    BY <1>7 DEF PollReturn, Refill
  <2>3. QED
    BY <1>7, <2>1, <2>2 DEF PollReturn, ghost
<1>8. ASSUME NEW j \in 0..N, PollRefill(j) PROVE TypeOK'
  <2>1. ntu' \in Slot /\ rdt' \in Slot
    BY <1>8, <1>0 DEF PollRefill, Refill
  <2>2. (buf \in [Slot -> BOOLEAN])' /\ (dma \in [Slot -> BOOLEAN])'
    BY <1>8 DEF PollRefill, Refill
  <2>3. QED
    BY <1>8, <2>1, <2>2 DEF PollRefill, ghost
<1>8a. \A j \in 0..N : j < N => j \in Slot /\ 0 \in Slot /\ (j > 0 => j - 1 \in Slot)
  BY DEF Slot
<1>8b. \A j \in 0..N : Filled(j) \in [Slot -> BOOLEAN]
  BY DEF Filled
<1>9. ASSUME NEW j \in 0..N, Restart82542(j) PROVE TypeOK'
  BY <1>8a, <1>8b, <1>9 DEF Restart82542, Restart, loop
<1>10. ASSUME NEW big \in BOOLEAN, NEW j \in 0..N, Reset(big, j) PROVE TypeOK'
  <2>1. 0 \in 0..Weight /\ 0 \in 0..Batch
    OBVIOUS
  <2>2. { ntc, ntu, rdt, head, at }' \subseteq Slot
    BY <1>8a, <1>10 DEF Reset, Restart
  <2>3. QED
    BY <1>8b, <1>10, <2>1, <2>2 DEF Reset, Restart
<1>11. CASE UNCHANGED vars
  BY <1>11 DEF vars, ring, slots, loop, ghost
<1>12. QED
  BY <1>1, <1>2, <1>3, <1>4, <1>5, <1>6, <1>7, <1>8, <1>9, <1>10, <1>11
     DEF Next, PollDesc

\* No step overfills the batch.
LEMMA LoopStep == TypeOK /\ LoopInv /\ [Next]_vars => LoopInv'
<1> SUFFICES ASSUME TypeOK, LoopInv, [Next]_vars PROVE LoopInv'
  OBVIOUS
<1> USE RxAssumption DEF TypeOK, LoopInv, Sound
<1>1. ASSUME NEW s \in Written, HwWrite(s) PROVE LoopInv'
  BY <1>1 DEF HwWrite, ring, loop, ghost
<1>2. CASE PollStart
  BY <1>2 DEF PollStart
<1>3. CASE PollDesc
  BY <1>3, DescIs DEF Going
<1>4. CASE PollBreak
  BY <1>4 DEF PollBreak, ReceiveBreak, JumboBreak
<1>5. CASE PollStore
  BY <1>5 DEF PollStore
<1>6. ASSUME NEW j \in 0..N, PollReturn(j) PROVE LoopInv'
  BY <1>6 DEF PollReturn
<1>7. ASSUME NEW j \in 0..N, PollRefill(j) PROVE LoopInv'
  BY <1>7 DEF PollRefill
<1>8. ASSUME NEW j \in 0..N, Restart82542(j) PROVE LoopInv'
  BY <1>8 DEF Restart82542, loop
<1>9. ASSUME NEW big \in BOOLEAN, NEW j \in 0..N, Reset(big, j) PROVE LoopInv'
  BY <1>9 DEF Reset
<1>10. CASE UNCHANGED vars
  BY <1>10 DEF vars, ring, slots, loop, ghost
<1>11. QED
  BY <1>1, <1>2, <1>3, <1>4, <1>5, <1>6, <1>7, <1>8, <1>9, <1>10 DEF Next

\* No step lets the head pass the tail, or the tail the poll.
LEMMA OrderStep ==
  TypeOK /\ LoopInv /\ OrderInv /\ SlotsInv /\ [Next]_vars => OrderInv'
<1> SUFFICES ASSUME TypeOK, LoopInv, OrderInv, SlotsInv, [Next]_vars
             PROVE  OrderInv'
  OBVIOUS
<1>0. ntc \in Slot /\ ntu \in Slot /\ head \in Slot /\ at \in Slot
      /\ 1 \in 0..N
  BY RxAssumption DEF TypeOK
<1> USE Pointers DEF LoopInv, OrderInv, Sound, Oldest, Plus, Ahead
<1>1. ASSUME NEW s \in Written, HwWrite(s) PROVE OrderInv'
  <2>1. head' = Plus(head, 1)
    BY <1>0, <1>1, IncIs DEF HwWrite
  <2>2. QED
    BY <1>1, <2>1 DEF HwWrite, ring, loop, ghost
<1>2. CASE PollStart
  BY <1>2 DEF PollStart, ring, ghost
<1>3. CASE PollDesc
  <2>1. Ahead(at, head) > 0
    BY <1>0, <1>3, DescIs DEF Going, SlotsInv
  <2>2. QED
    BY <1>3, <2>1, DescIs DEF Going, ring
<1>4. CASE PollBreak
  BY <1>4 DEF PollBreak, ReceiveBreak, JumboBreak, Going, ring
<1>5. CASE PollStore
  BY <1>5 DEF PollStore, Going, ghost
<1>6. ASSUME NEW j \in 0..N, PollReturn(j) PROVE OrderInv'
  <2>1. count \in 0..N
    BY <1>6 DEF PollReturn
  <2>2. /\ j <= count /\ ntu' = Plus(ntu, j)
        /\ rdt' = IF j > 0 THEN Plus(ntu, j - 1) ELSE rdt
    BY <1>6, <2>1, RefillIs DEF PollReturn
  <2>3. CASE ntu = Plus(rdt, 1) /\ count < Ahead(ntu, at)
    <3>1. /\ broken' = broken /\ reused' = reused /\ head' = head /\ at' = at
          /\ ~broken /\ ~reused
          /\ poll = "return" /\ poll' = "clean" /\ count' = 0
      BY <1>6 DEF PollReturn, ghost
    <3>2. Ahead(at, head) <= Ahead(at, rdt)
      BY <3>1
    <3>3. Ahead(at, head) <= Ahead(at, rdt')
      BY <2>1, <2>2, <2>3, <3>2
    <3>4. ntu' = Plus(rdt', 1) /\ 0 < Ahead(ntu', at)
      BY <2>1, <2>2, <2>3
    <3>5. QED
      BY <3>1, <3>3, <3>4
  <2>4. CASE ntu = rdt /\ head = rdt /\ at = rdt /\ count = 0
    BY <1>6, <2>2, <2>4 DEF PollReturn, ghost
  <2>5. QED
    BY <1>6, <2>3, <2>4 DEF PollReturn
<1>7. ASSUME NEW j \in 0..N, PollRefill(j) PROVE OrderInv'
  <2>1. Unused \in 0..N /\ Unused = IF ntc = ntu THEN N - 1 ELSE Ahead(ntu, ntc) - 1
    BY UnusedIs
  <2>2. /\ j <= Unused /\ ntu' = Plus(ntu, j)
        /\ rdt' = IF j > 0 THEN Plus(ntu, j - 1) ELSE rdt
    BY <1>7, <2>1, RefillIs DEF PollRefill
  <2>3. CASE ntu = Plus(rdt, 1) /\ 0 < Ahead(ntu, ntc)
    BY <1>7, <2>1, <2>2, <2>3 DEF PollRefill, ghost
  <2>4. CASE ntu = rdt /\ head = rdt /\ ntc = rdt
    BY <1>7, <2>1, <2>2, <2>4 DEF PollRefill, ghost
  <2>5. QED
    BY <1>7, <2>3, <2>4 DEF PollRefill
<1>8. ASSUME NEW j \in 0..N, Restart82542(j) PROVE OrderInv'
  <2>1. CASE poll # "idle"
    BY <1>8, <2>1 DEF Restart82542
  <2>2. CASE poll = "idle"
    BY <1>8, <2>2 DEF Restart82542, Restart, loop
  <2>3. QED
    BY <2>1, <2>2
<1>9. ASSUME NEW big \in BOOLEAN, NEW j \in 0..N, Reset(big, j) PROVE OrderInv'
  BY <1>9 DEF Reset, Restart
<1>10. CASE UNCHANGED vars
  BY <1>10 DEF vars, ring, slots, loop, ghost
<1>11. QED
  BY <1>1, <1>2, <1>3, <1>4, <1>5, <1>6, <1>7, <1>8, <1>9, <1>10 DEF Next

\* No step leaves a written slot behind the poll, or one without memory before
\* the tail.
LEMMA SlotsStep ==
  TypeOK /\ LoopInv /\ OrderInv /\ SlotsInv /\ [Next]_vars => SlotsInv'
<1> SUFFICES ASSUME TypeOK, LoopInv, OrderInv, SlotsInv, [Next]_vars, Sound',
                    NEW i \in Slot
             PROVE  (/\ stat[i] # "clear" <=> Ahead(Oldest, i) < Ahead(Oldest, head)
                     /\ Ahead(Oldest, i) < Ahead(Oldest, ntu) => buf[i] /\ dma[i])'
  BY DEF SlotsInv
<1> DEFINE Goal == (/\ stat[i] # "clear" <=> Ahead(Oldest, i) < Ahead(Oldest, head)
                    /\ Ahead(Oldest, i) < Ahead(Oldest, ntu) => buf[i] /\ dma[i])'
<1>0. /\ i \in Int /\ 0 <= i /\ i < N
      /\ ntc \in Slot /\ ntu \in Slot /\ head \in Slot /\ at \in Slot /\ 1 \in 0..N
      /\ stat \in [Slot -> Written \cup { "clear" }]
      /\ buf \in [Slot -> BOOLEAN] /\ dma \in [Slot -> BOOLEAN]
  BY RxAssumption DEF TypeOK, Slot
<1> USE <1>0, Pointers DEF Sound, Oldest, Plus, Ahead
<1>1. ASSUME NEW s \in Written, HwWrite(s) PROVE Goal
  <2>1. head' = Plus(head, 1) /\ s # "clear"
    BY <1>1, IncIs DEF HwWrite, Written, More, Faulty, Ends
  <2>2. QED
    BY <1>1, <2>1 DEF HwWrite, SlotsInv, OrderInv, ring, loop, ghost
<1>2. CASE PollStart
  BY <1>2 DEF PollStart, SlotsInv, ring, slots, ghost
<1>3. CASE PollDesc
  <2>1. Ahead(at, head) > 0
    BY <1>3, DescIs DEF Going, SlotsInv
  <2>2. QED
    BY <1>3, <2>1, DescIs DEF Going, SlotsInv, OrderInv, ring
<1>4. CASE PollBreak
  BY <1>4 DEF PollBreak, ReceiveBreak, JumboBreak, Going, SlotsInv, ring, slots
<1>5. CASE PollStore
  BY <1>5 DEF PollStore, Going, SlotsInv, slots, ghost
<1>6. ASSUME NEW j \in 0..N, PollReturn(j) PROVE Goal
  <2>1. count \in 0..N
    BY <1>6 DEF PollReturn, OrderInv
  <2>2. /\ j <= count /\ ntu' = Plus(ntu, j)
        /\ Ahead(ntu, i) < j => buf'[i] /\ dma'[i]
        /\ Ahead(ntu, i) > j => buf'[i] = buf[i] /\ dma'[i] = dma[i]
    BY <1>6, <2>1, RefillIs DEF PollReturn
  <2>3. QED
    BY <1>6, <2>1, <2>2 DEF PollReturn, OrderInv, SlotsInv, ghost
<1>7. ASSUME NEW j \in 0..N, PollRefill(j) PROVE Goal
  <2>1. Unused \in 0..N /\ Unused = IF ntc = ntu THEN N - 1 ELSE Ahead(ntu, ntc) - 1
    BY UnusedIs
  <2>2. /\ j <= Unused /\ ntu' = Plus(ntu, j)
        /\ Ahead(ntu, i) < j => buf'[i] /\ dma'[i]
        /\ Ahead(ntu, i) > j => buf'[i] = buf[i] /\ dma'[i] = dma[i]
    BY <1>7, <2>1, RefillIs DEF PollRefill
  <2>3. QED
    BY <1>7, <2>1, <2>2 DEF PollRefill, LoopInv, OrderInv, SlotsInv, ghost
<1>8. ASSUME NEW j \in 0..N, Restart82542(j) PROVE Goal
  <2> HIDE DEF Oldest
  <2>1. /\ Oldest' = 0 /\ head' = 0 /\ ntu' = j /\ j < N /\ stat'[i] = "clear"
        /\ i < j => buf'[i] /\ dma'[i]
    BY <1>8, RestartIs
  <2>2. QED
    BY <2>1
<1>9. ASSUME NEW big \in BOOLEAN, NEW j \in 0..N, Reset(big, j) PROVE Goal
  <2> HIDE DEF Oldest
  <2>1. /\ Oldest' = 0 /\ head' = 0 /\ ntu' = j /\ j < N /\ stat'[i] = "clear"
        /\ i < j => buf'[i] /\ dma'[i]
    BY <1>9, RestartIs
  <2>2. QED
    BY <2>1
<1>10. CASE UNCHANGED vars
  BY <1>10 DEF vars, SlotsInv, ring, slots, loop, ghost
<1>11. QED
  BY <1>1, <1>2, <1>3, <1>4, <1>5, <1>6, <1>7, <1>8, <1>9, <1>10 DEF Next

\* No step separates the parts of a frame.
LEMMA FramesStep ==
  TypeOK /\ LoopInv /\ OrderInv /\ SlotsInv /\ FramesInv /\ [Next]_vars
    => FramesInv'
<1> SUFFICES ASSUME TypeOK, LoopInv, OrderInv, SlotsInv, FramesInv, [Next]_vars,
                    Sound', NEW i \in Slot
             PROVE  (/\ Ahead(Oldest, i) + 1 < Ahead(Oldest, head)
                          => (stat[Plus(i, 1)] \in Inner <=> stat[i] \in More)
                     /\ Ahead(Oldest, i) + 1 = Ahead(Oldest, head)
                          => (inside <=> stat[i] \in More))'
  BY DEF FramesInv
<1> DEFINE Goal == (/\ Ahead(Oldest, i) + 1 < Ahead(Oldest, head)
                         => (stat[Plus(i, 1)] \in Inner <=> stat[i] \in More)
                    /\ Ahead(Oldest, i) + 1 = Ahead(Oldest, head)
                         => (inside <=> stat[i] \in More))'
<1>0. /\ i \in Int /\ 0 <= i /\ i < N /\ Plus(i, 1) \in Slot
      /\ ntc \in Slot /\ ntu \in Slot /\ head \in Slot /\ at \in Slot /\ 1 \in 0..N
      /\ stat \in [Slot -> Written \cup { "clear" }] /\ inside \in BOOLEAN
  BY RxAssumption DEF TypeOK, Slot, Plus
<1> USE <1>0, Pointers DEF Sound, Oldest, Plus, Ahead
<1>1. ASSUME NEW s \in Written, HwWrite(s) PROVE Goal
  <2>1. head' = Plus(head, 1)
    BY <1>1, IncIs DEF HwWrite
  <2>2. (s \in Inner <=> inside) /\ (inside' <=> s \in More)
    BY <1>1 DEF HwWrite, Inner, More, Ends
  <2>3. /\ broken' = broken /\ reused' = reused /\ ntc' = ntc /\ at' = at
        /\ ~broken /\ ~reused /\ poll' = poll /\ head # rdt
        /\ stat' = [stat EXCEPT ![head] = s]
    BY <1>1 DEF HwWrite, ring, loop, ghost
  <2>4. Oldest' = Oldest /\ Oldest \in Slot
    BY <2>3
  <2> HIDE DEF Oldest
  <2>5. Oldest \in Int /\ 0 <= Oldest /\ Oldest < N
    BY <2>4 DEF Slot
  <2>6. Ahead(Oldest, head) <= Ahead(Oldest, rdt)
    BY <2>3 DEF OrderInv
  <2>7. Ahead(Oldest, head) < N - 1
    BY <2>3, <2>5, <2>6
  <2> HIDE DEF Plus, Ahead
  <2>8. /\ Ahead(Oldest, i) + 1 < Ahead(Oldest, head)
             => (stat[Plus(i, 1)] \in Inner <=> stat[i] \in More)
        /\ Ahead(Oldest, i) + 1 = Ahead(Oldest, head)
             => (inside <=> stat[i] \in More)
    BY <2>3 DEF FramesInv
  <2> USE DEF Plus, Ahead
  <2>9. QED
    BY <2>1, <2>2, <2>3, <2>4, <2>5, <2>7, <2>8
<1>2. CASE PollStart
  BY <1>2 DEF PollStart, FramesInv, ring, slots, ghost
<1>3. CASE PollDesc
  <2>1. Ahead(at, head) > 0
    BY <1>3, DescIs DEF Going, SlotsInv
  <2>2. QED
    BY <1>3, <2>1, DescIs DEF Going, FramesInv, OrderInv, ring
<1>4. CASE PollBreak
  BY <1>4 DEF PollBreak, ReceiveBreak, JumboBreak, Going, FramesInv, ring, slots
<1>5. CASE PollStore
  BY <1>5 DEF PollStore, Going, FramesInv, slots, ghost
<1>6. CASE \E j \in 0..N : PollReturn(j) \/ PollRefill(j)
  BY <1>6 DEF PollReturn, PollRefill, LoopInv, FramesInv, ghost
<1>7. ASSUME NEW j \in 0..N, Restart82542(j) PROVE Goal
  <2> HIDE DEF Oldest
  <2>1. /\ Oldest' = 0 /\ head' = 0 /\ ntu' = j /\ j < N /\ stat'[i] = "clear"
        /\ i < j => buf'[i] /\ dma'[i]
    BY <1>7, RestartIs
  <2>2. QED
    BY <2>1
<1>8. ASSUME NEW big \in BOOLEAN, NEW j \in 0..N, Reset(big, j) PROVE Goal
  <2> HIDE DEF Oldest
  <2>1. /\ Oldest' = 0 /\ head' = 0 /\ ntu' = j /\ j < N /\ stat'[i] = "clear"
        /\ i < j => buf'[i] /\ dma'[i]
    BY <1>8, RestartIs
  <2>2. QED
    BY <2>1
<1>9. CASE UNCHANGED vars
  BY <1>9 DEF vars, FramesInv, ring, slots, loop, ghost
<1>10. QED
  BY <1>1, <1>2, <1>3, <1>4, <1>5, <1>6, <1>7, <1>8, <1>9 DEF Next

\* After a slot the poll is in the middle of a frame exactly if that slot said
\* that more would follow.
LEMMA MidAfter ==
  ASSUME TypeOK, OrderInv, SlotsInv, FramesInv, PollDesc
  PROVE  Mid' <=> stat[at] \in More
<1>0. /\ head \in Slot /\ at \in Slot /\ Plus(at, 1) \in Slot
      /\ stat \in [Slot -> Written \cup { "clear" }] /\ inside \in BOOLEAN
  BY RxAssumption DEF TypeOK, Slot, Plus
<1>1. Going /\ Sound /\ Oldest = at /\ Oldest' = Plus(at, 1)
  BY DescIs DEF Going, Sound, Oldest
<1>2. Ahead(at, head) > 0
  BY <1>0, <1>1, Pointers DEF Going, SlotsInv, Ahead
<1>3. Plus(at, 1) # at
  BY <1>0, Pointers DEF Plus
<1>4. CASE Plus(at, 1) = head
  <2>1. Ahead(at, at) + 1 = Ahead(at, head)
    BY <1>4, Pointers DEF Ahead, Plus
  <2>2. stat[head] = "clear"
    BY <1>0, <1>1, Pointers DEF SlotsInv, Ahead
  <2>3. QED
    BY <1>0, <1>1, <1>3, <1>4, <2>1, <2>2, DescIs
       DEF FramesInv, Mid, Inner, Ends
<1>5. CASE Plus(at, 1) # head
  <2>1. Ahead(at, at) + 1 < Ahead(at, head)
    BY <1>2, <1>5, Pointers DEF Ahead, Plus
  <2>2. QED
    BY <1>0, <1>1, <1>3, <1>5, <2>1, DescIs DEF FramesInv, Mid
<1>6. QED
  BY <1>4, <1>5

\* No step makes discarding, or the chain, forget where the poll is in a frame.
LEMMA MidStep ==
  TypeOK /\ LoopInv /\ OrderInv /\ SlotsInv /\ FramesInv /\ MidInv /\ [Next]_vars
    => MidInv'
<1> SUFFICES ASSUME TypeOK, LoopInv, OrderInv, SlotsInv, FramesInv, MidInv,
                    [Next]_vars, Sound'
             PROVE  MidInv'
  BY DEF MidInv
<1>0. /\ { jumbo, inside, discarding, broken, stale, reused, wrong }
           \subseteq BOOLEAN
      /\ head \in Slot /\ at \in Slot /\ ntc \in Slot /\ 1 \in 0..N
      /\ stat \in [Slot -> Written \cup { "clear" }]
      /\ tossed \in { "none", "stale", "fresh" }
  BY RxAssumption DEF TypeOK
<1> USE <1>0
<1>a. ASSUME Mid' <=> Mid, UNCHANGED << jumbo, discarding, top, ghost >>
      PROVE  MidInv'
  BY <1>a DEF MidInv, Sound, ghost
<1>1. ASSUME NEW s \in Written, HwWrite(s) PROVE MidInv'
  <2>1. head' = Plus(head, 1) /\ head # rdt /\ Sound
    BY <1>1, IncIs DEF HwWrite, Sound
  <2>2. (s \in Inner <=> inside) /\ "clear" \notin Inner
    BY <1>1 DEF HwWrite, Inner, More, Ends
  <2>3. Oldest' = Oldest /\ Oldest # head' /\ Oldest \in Slot
    BY <1>1, <2>1, Pointers
       DEF HwWrite, Oldest, OrderInv, Plus, Ahead, ring, loop
  <2>4. Oldest = head => stat[head] = "clear"
    BY <2>1, Pointers DEF SlotsInv, Ahead
  <2>5. Mid' <=> Mid
    BY <1>1, <2>2, <2>3, <2>4 DEF HwWrite, Mid
  <2>6. QED
    BY <1>1, <1>a, <2>5 DEF HwWrite
<1>2. CASE PollStart
  BY <1>a, <1>2 DEF PollStart, Mid, Oldest, slots
<1>3. ASSUME NEW accept \in BOOLEAN, Receive(accept) PROVE MidInv'
  <2>1. Going /\ Sound /\ ~jumbo /\ (Mid' <=> stat[at] \in More)
    BY <1>3, MidAfter DEF PollDesc, Receive, Going, Sound
  <2>2. stat[at] \in Ends => Mid
    BY <2>1 DEF Going, Mid, Oldest, Inner
  <2>3. stat[at] = "whole" => ~Mid
    <3>1. SUFFICES ASSUME stat[at] = "whole", at = head PROVE FALSE
      BY <2>1 DEF Going, Mid, Oldest, Inner, Ends
    <3>2. QED
      BY <2>1, <3>1, Pointers DEF Going, SlotsInv, Oldest, Ahead
  <2>4. ~wrong'
    BY <1>3, <2>1, <2>2 DEF Receive, MidInv
  <2>5. tossed' # "fresh"
    BY <1>3, <2>1, <2>3 DEF Receive, MidInv
  <2>6. /\ Mid' => discarding'
        /\ discarding' => Mid'
    BY <1>3, <2>1 DEF Receive, DiscardAfter
  <2>7. QED
    BY <1>3, <2>1, <2>4, <2>5, <2>6 DEF Receive, MidInv
<1>4. CASE JumboError \/ JumboChain \/ JumboEnd
  <2>1. Going /\ Sound /\ jumbo /\ jumbo' /\ (Mid' <=> stat[at] \in More)
    BY <1>4, MidAfter
       DEF PollDesc, JumboError, JumboChain, JumboEnd, Going, Sound
  <2>2. at # head
    BY <2>1, Pointers DEF Going, SlotsInv, Oldest, Ahead
  <2>3. top = IF stat[at] \in Inner THEN "front" ELSE "none"
    BY <2>1, <2>2 DEF MidInv, Mid, Going, Oldest
  <2>4. top' = IF stat[at] \in More THEN "front" ELSE "none"
    BY <1>4, <2>3
       DEF JumboError, JumboChain, JumboEnd, Inner, More, Ends, Faulty
  <2>5. ~wrong' /\ tossed' = tossed
    BY <1>4, <2>1, <2>3
       DEF JumboError, JumboChain, JumboEnd, MidInv, Inner, More,
                            Ends, ghost
  <2>6. QED
    BY <2>1, <2>4, <2>5 DEF MidInv
<1>5. CASE PollBreak
  BY <1>a, <1>5
     DEF PollBreak, ReceiveBreak, JumboBreak, Going, Sound, Mid, Oldest, slots
<1>6. CASE PollStore
  BY <1>a, <1>6 DEF PollStore, Going, Mid, Oldest, slots
<1>7. CASE \E j \in 0..N : PollReturn(j) \/ PollRefill(j)
  BY <1>a, <1>7 DEF PollReturn, PollRefill, LoopInv, Sound, Mid, Oldest
<1>z. 0 \in Slot
  BY RxAssumption DEF Slot
<1>8. ASSUME NEW j \in 0..N, Restart82542(j) PROVE MidInv'
  <2>1. ~wrong' /\ tossed' # "fresh"
    BY <1>8 DEF Restart82542, MidInv, Sound
  <2>2. ~Mid'
    BY <1>8, <1>z, RestartIs DEF Mid, Inner, Ends
  <2>3. top' = "none" /\ stale' = discarding /\ discarding' = discarding
    BY <1>8, RestartIs
  <2>4. QED
    BY <2>1, <2>2, <2>3 DEF MidInv
<1>9. ASSUME NEW big \in BOOLEAN, NEW j \in 0..N, Reset(big, j) PROVE MidInv'
  <2>1. ~wrong' /\ tossed' # "fresh"
    BY <1>9 DEF Reset
  <2>2. ~Mid'
    BY <1>9, <1>z, RestartIs DEF Mid, Inner, Ends
  <2>3. top' = "none" /\ stale' = discarding /\ discarding' = discarding
    BY <1>9, RestartIs
  <2>4. QED
    BY <2>1, <2>2, <2>3 DEF MidInv
<1>10. CASE UNCHANGED vars
  BY <1>10, <1>a DEF vars, Mid, Oldest, ring, slots, loop, ghost
<1>11. QED
  BY <1>1, <1>2, <1>3, <1>4, <1>5, <1>6, <1>7, <1>8, <1>9, <1>10
     DEF Next, PollDesc

-----------------------------------------------------------------------------
(* The theorems.                                                           *)

\* The invariant holds in every reachable state.
LEMMA Invariance == Spec => []IInv
<1>1. Init => IInv
  <2> SUFFICES ASSUME Init PROVE IInv
    OBVIOUS
  <2>1. PICK j \in 0..(N - 1) : /\ buf = Filled(j) /\ dma = Filled(j) /\ ntu = j
                                /\ rdt = (IF j > 0 THEN j - 1 ELSE 0)
    BY DEF Init
  <2>a. Filled(j) \in [Slot -> BOOLEAN]
    BY DEF Filled
  <2>b. \A i \in Slot : i < j => Filled(j)[i]
    BY DEF Filled
  <2>2. /\ Filled(j) \in [Slot -> BOOLEAN]
        /\ \A i \in Slot : i < j => buf[i] /\ dma[i]
    BY <2>1, <2>a, <2>b
  <2>3. j \in Slot /\ rdt \in Slot /\ 0 \in Slot /\ Oldest = 0
        /\ 0 \in 0..Weight /\ 0 \in 0..Batch
    BY <2>1, RxAssumption DEF Init, Slot, Oldest
  <2>4. TypeOK
    BY <2>1, <2>2, <2>3 DEF Init, TypeOK
  <2>5. LoopInv
    BY RxAssumption DEF Init, LoopInv
  <2>6. OrderInv
    BY <2>1, <2>3, RxAssumption DEF Init, OrderInv, Ahead, Plus, Slot
  <2>7. SlotsInv
    BY <2>1, <2>2, <2>3, RxAssumption DEF Init, SlotsInv, Ahead, Slot
  <2>8. FramesInv
    BY <2>3, RxAssumption DEF Init, FramesInv, Ahead, Slot
  <2>9. MidInv
    BY <2>3, RxAssumption DEF Init, MidInv, Mid, Inner, Ends
  <2>10. QED
    BY <2>4, <2>5, <2>6, <2>7, <2>8, <2>9 DEF IInv
<1>2. IInv /\ [Next]_vars => IInv'
  BY TypeStep, LoopStep, OrderStep, SlotsStep, FramesStep, MidStep DEF IInv
<1>3. QED
  BY <1>1, <1>2, PTL DEF Spec

\* Hardware and poll agree on every slot of a ring of any size: batches given
\* back, failed allocations and restarts never let the tail reach the poll,
\* and the hardware never writes where it was given no memory.
THEOREM RingSafe == Spec => []RingAgrees
<1>1. IInv => RingAgrees
  <2> SUFFICES ASSUME IInv, Sound PROVE RingAgrees
    BY DEF IInv, RingAgrees
  <2>0. TypeOK /\ Oldest \in Slot /\ head \in Slot /\ rdt \in Slot
    BY DEF IInv, TypeOK, Oldest
  <2>1. /\ Dist(Oldest, head) = Ahead(Oldest, head)
        /\ Dist(Oldest, rdt) = Ahead(Oldest, rdt)
        /\ Dist(head, rdt) = Ahead(head, rdt)
    BY <2>0, DistIs
  <2>2. /\ Ahead(Oldest, head) <= Ahead(Oldest, rdt)
        /\ Ahead(Oldest, rdt) <= Ahead(Oldest, ntu)
    BY <2>0, Pointers DEF IInv, OrderInv, Ahead, Plus, Oldest
  <2>3. /\ Ahead(Oldest, head) \in 0..N /\ Ahead(Oldest, rdt) \in 0..N
        /\ Ahead(head, rdt) \in 0..N
    BY <2>0, RxAssumption DEF Ahead, Slot
  <2>4. ASSUME NEW i \in Span(Oldest, Dist(Oldest, head))
        PROVE stat[i] # "clear"
    <3>1. i \in Slot
      BY <2>0, <2>1, <2>3, IncIn, RxAssumption DEF Span
    <3>2. QED
      BY <2>0, <2>1, <2>3, <3>1, SpanIs DEF IInv, SlotsInv
  <2>5. ASSUME NEW i \in Span(head, Dist(head, rdt)) PROVE stat[i] = "clear"
    <3>1. i \in Slot
      BY <2>0, <2>1, <2>3, IncIn, RxAssumption DEF Span
    <3>2. Ahead(head, i) < Ahead(head, rdt)
      BY <2>0, <2>1, <2>3, <3>1, SpanIs
    <3>3. ~(Ahead(Oldest, i) < Ahead(Oldest, head))
      BY <2>0, <2>2, <3>1, <3>2, RxAssumption DEF Ahead, Slot
    <3>4. QED
      BY <3>1, <3>3 DEF IInv, SlotsInv
  <2>6. ASSUME NEW i \in Span(Oldest, Dist(Oldest, rdt)) PROVE buf[i] /\ dma[i]
    <3>1. i \in Slot
      BY <2>0, <2>1, <2>3, IncIn, RxAssumption DEF Span
    <3>2. Ahead(Oldest, i) < Ahead(Oldest, rdt)
      BY <2>0, <2>1, <2>3, <3>1, SpanIs
    <3>3. Ahead(Oldest, i) < Ahead(Oldest, ntu)
      BY <2>0, <2>2, <3>1, <3>2, Pointers, RxAssumption DEF Ahead, Slot
    <3>4. QED
      BY <3>1, <3>3 DEF IInv, SlotsInv
  <2>7. QED
    BY <2>0, <2>1, <2>2, <2>4, <2>5, <2>6 DEF RingAgrees
<1>2. QED
  BY <1>1, Invariance, PTL

\* No fragment of a frame is delivered as a frame, however the loop is
\* interrupted by batches, by the single-frame poll's failures and by resets.
\* In the jumbo poll this lasts until a failed allocation skips a descriptor
\* (JumboBreak) or the freed skb of a chain with an error is used (GetFrags).
THEOREM FramesSafe == Spec => []OnlyWholeFrames
<1>1. IInv => OnlyWholeFrames
  BY DEF IInv, MidInv, OnlyWholeFrames
<1>2. QED
  BY <1>1, Invariance, PTL

\* A frame tossed because adapter->discarding was set is a fragment, unless
\* discarding was left from before a restart.
THEOREM TossingSafe == Spec => []TossedAreFragments
<1>1. IInv => TossedAreFragments
  BY DEF IInv, MidInv, TossedAreFragments
<1>2. QED
  BY <1>1, Invariance, PTL
=============================================================================
