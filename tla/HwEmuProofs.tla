---------------------------- MODULE HwEmuProofs ----------------------------
(***************************************************************************)
(* Proofs, for rings and bursts of any length, of the safety properties of *)
(* HwEmu.                                                                  *)
(***************************************************************************)
EXTENDS HwEmu, FiniteSetTheorems, TLAPS

(* A cursor that is advanced, by the emulator or by the guest, stays in    *)
(* the ring.                                                               *)
LEMMA AdvType == \A i \in Slot : Adv(i) \in Slot /\ GuestAdv(i) \in Slot
  BY RingAssumption DEF Adv, GuestAdv, Slot

(* A counter that is incremented or decremented wraps.                     *)
LEMMA CountType ==
  \A c \in 0 .. W - 1 : (c + 1) % W \in 0 .. W - 1 /\ (c - 1) % W \in 0 .. W - 1
  BY RingAssumption

-----------------------------------------------------------------------------
(* Type correctness.                                                       *)

(* The steps keep the threads in known places.                             *)
LEMMA ControlStep == ControlType /\ [Next]_vars => ControlType'
<1> SUFFICES ASSUME ControlType, [Next]_vars PROVE ControlType'
  OBVIOUS
<1> USE DEF ControlType, Places, Waiting, Thread, emulator
<1>1. CASE Setup \/ Choose
  BY <1>1, RingAssumption DEF Setup, Choose, StartPc
<1>2. CASE Sigint
  BY <1>2 DEF Sigint
<1>3. CASE TxTake
  BY <1>3 DEF TxTake
<1>4. CASE FirstDone
  BY <1>4 DEF FirstDone
<1>5. CASE Join
  BY <1>5 DEF Join
<1>6. CASE Reset
  BY <1>6 DEF Reset
<1>7. ASSUME NEW t \in Thread, RxClaim(t) PROVE ControlType'
  BY <1>7 DEF RxClaim
<1>8. ASSUME NEW t \in Thread, RxCopy(t) PROVE ControlType'
  BY <1>8 DEF RxCopy
<1>9. ASSUME NEW t \in Thread, RxHand(t) PROVE ControlType'
  BY <1>9 DEF RxHand
<1>10. ASSUME NEW t \in Thread, Quit(t) PROVE ControlType'
  BY <1>10 DEF Quit
<1>11. CASE GuestFill
  BY <1>11 DEF GuestFill
<1>12. CASE GuestSend
  BY <1>12 DEF GuestSend
<1>13. CASE GuestReceive
  BY <1>13 DEF GuestReceive
<1>14. CASE UNCHANGED vars
  BY <1>14 DEF vars
<1>15. QED
  BY <1>1, <1>2, <1>3, <1>4, <1>5, <1>6, <1>7, <1>8, <1>9, <1>10, <1>11,
     <1>12, <1>13, <1>14 DEF Next, Emulator, Guest, RxLoop, Finished

(* The steps keep the cursors in their rings and the counters in their     *)
(* ranges.                                                                 *)
LEMMA CursorsStep == CursorsType /\ [Next]_vars => CursorsType'
<1> SUFFICES ASSUME CursorsType, [Next]_vars PROVE CursorsType'
  OBVIOUS
<1> USE RingAssumption DEF CursorsType, emulator, guest, history
<1>1. CASE Setup \/ Choose
  BY <1>1 DEF Setup, Choose, rxRing, txRing
<1>2. CASE Sigint
  BY <1>2 DEF Sigint
<1>3. CASE TxTake
  BY <1>3, AdvType, CountType DEF TxTake, BurstEnds, Thread
<1>4. CASE FirstDone
  BY <1>4 DEF FirstDone
<1>5. CASE Join
  BY <1>5 DEF Join
<1>6. CASE Reset
  BY <1>6, AdvType DEF Reset
<1>7. ASSUME NEW t \in Thread, RxClaim(t) PROVE CursorsType'
  BY <1>7 DEF RxClaim
<1>8. ASSUME NEW t \in Thread, RxCopy(t) PROVE CursorsType'
  BY <1>8 DEF RxCopy
<1>9. ASSUME NEW t \in Thread, RxHand(t) PROVE CursorsType'
  BY <1>9, AdvType, CountType DEF RxHand, BurstEnds, Thread
<1>10. ASSUME NEW t \in Thread, Quit(t) PROVE CursorsType'
  BY <1>10, CountType DEF Quit, FinalRxCount
<1>11. CASE GuestFill
  BY <1>11 DEF GuestFill
<1>12. CASE GuestSend
  BY <1>12, AdvType DEF GuestSend
<1>13. CASE GuestReceive
  BY <1>13, AdvType DEF GuestReceive
<1>14. CASE UNCHANGED vars
  BY <1>14 DEF vars
<1>15. QED
  BY <1>1, <1>2, <1>3, <1>4, <1>5, <1>6, <1>7, <1>8, <1>9, <1>10, <1>11,
     <1>12, <1>13, <1>14 DEF Next, Emulator, Guest, RxLoop, Finished

(* The steps keep both rings well-formed.                                  *)
LEMMA RingsStep == CursorsType /\ RingsType /\ [Next]_vars => RingsType'
<1> SUFFICES ASSUME CursorsType, RingsType, [Next]_vars PROVE RingsType'
  OBVIOUS
<1> USE DEF RingsType, rxRing, txRing, guest
<1>1. CASE Setup \/ Choose
  BY <1>1 DEF Setup, Choose, rxRing, txRing
<1>2. CASE Sigint
  BY <1>2 DEF Sigint
<1>3. CASE TxTake
  BY <1>3 DEF TxTake, CursorsType, Thread
<1>4. CASE FirstDone
  BY <1>4 DEF FirstDone
<1>5. CASE Join
  BY <1>5 DEF Join
<1>6. CASE Reset
  BY <1>6 DEF Reset, CursorsType
<1>7. ASSUME NEW t \in Thread, RxClaim(t) PROVE RingsType'
  BY <1>7 DEF RxClaim
<1>8. ASSUME NEW t \in Thread, RxCopy(t) PROVE RingsType'
  BY <1>8 DEF RxCopy, CursorsType, Thread
<1>9. ASSUME NEW t \in Thread, RxHand(t) PROVE RingsType'
  BY <1>9 DEF RxHand, CursorsType, Thread
<1>10. ASSUME NEW t \in Thread, Quit(t) PROVE RingsType'
  BY <1>10 DEF Quit
<1>11. CASE GuestFill
  BY <1>11 DEF GuestFill, CursorsType
<1>12. CASE GuestSend
  <2>1. txHdr' \in [Slot -> Nat]
    BY <1>12 DEF GuestSend, CursorsType
  <2>2. txOwn' \in [Slot -> BOOLEAN] /\ filling' \in BOOLEAN
    BY <1>12 DEF GuestSend, CursorsType
  <2>3. QED
    BY <1>12, <2>1, <2>2 DEF GuestSend
<1>13. CASE GuestReceive
  BY <1>13 DEF GuestReceive, CursorsType
<1>14. CASE UNCHANGED vars
  BY <1>14 DEF vars
<1>15. QED
  BY <1>1, <1>2, <1>3, <1>4, <1>5, <1>6, <1>7, <1>8, <1>9, <1>10, <1>11,
     <1>12, <1>13, <1>14 DEF Next, Emulator, Guest, RxLoop, Finished

(* Every variable of the emulator keeps its type: no cursor ever leaves    *)
(* its ring, however the threads, the guest and SIGINT interleave.         *)
THEOREM TypeCorrect == Spec => []TypeOK
<1>1. Init => ControlType
  BY DEF Init, ControlType, Places, Waiting, Thread
<1>2. Init => CursorsType
  BY RingAssumption DEF Init, CursorsType, Slot, Thread
<1>3. ASSUME Init PROVE RingsType
  <2>1. /\ rxBody \in [Slot -> Nat] /\ rxHdr \in [Slot -> Nat]
        /\ txBody \in [Slot -> Nat] /\ txHdr \in [Slot -> Nat]
    BY <1>3 DEF Init
  <2>2. /\ rxOwn \in [Slot -> BOOLEAN] /\ txOwn \in [Slot -> BOOLEAN]
        /\ filling \in BOOLEAN
    BY <1>3 DEF Init
  <2>3. QED
    BY <2>1, <2>2 DEF RingsType
<1>4. QED
  BY <1>1, <1>2, <1>3, ControlStep, CursorsStep, RingsStep, PTL
     DEF Spec, TypeOK

-----------------------------------------------------------------------------
(* The threads.                                                            *)

RxPlaces == { "rx_wait", "rx_copy", "rx_hand" }

(* Thread 1 exists only in the two-thread mode, where main never receives; *)
(* before set-up there is no thread 1, and main gets past pthread_join     *)
(* only without it.                                                        *)
ThreadInv ==
  /\ pc[1] \in RxPlaces \cup { "off", "quit" }
  /\ pc[1] # "off" => mode = "multi" /\ rxtid = "created"
  /\ pc[0] \in { "init", "prompt" } => pc[1] = "off"
  /\ mode = "multi" =>
       pc[0] \in { "tx_wait", "quit", "reset", "done", "crashed" }
  /\ pc[0] \in { "reset", "done" } => pc[1] \in { "off", "quit" }

(* The two threads keep out of each other's way.                           *)
LEMMA ThreadStep == ControlType /\ ThreadInv /\ [Next]_vars => ThreadInv'
<1> SUFFICES ASSUME ControlType, ThreadInv, [Next]_vars PROVE ThreadInv'
  OBVIOUS
<1> USE DEF ControlType, ThreadInv, RxPlaces, Thread, emulator
<1>1. CASE Setup \/ Choose
  BY <1>1, RingAssumption DEF Setup, Choose, StartPc, Waiting
<1>2. CASE Sigint
  BY <1>2 DEF Sigint
<1>3. CASE TxTake
  BY <1>3 DEF TxTake, RxTx
<1>4. CASE FirstDone
  BY <1>4 DEF FirstDone
<1>5. CASE Join
  BY <1>5 DEF Join, Joined
<1>6. CASE Reset
  BY <1>6 DEF Reset
<1>7. ASSUME NEW t \in Thread, RxClaim(t) PROVE ThreadInv'
  BY <1>7 DEF RxClaim
<1>8. ASSUME NEW t \in Thread, RxCopy(t) PROVE ThreadInv'
  BY <1>8 DEF RxCopy
<1>9. ASSUME NEW t \in Thread, RxHand(t) PROVE ThreadInv'
  BY <1>9 DEF RxHand, RxTx
<1>10. ASSUME NEW t \in Thread, Quit(t) PROVE ThreadInv'
  BY <1>10 DEF Quit, MayQuit, Waiting
<1>11. CASE GuestFill
  BY <1>11 DEF GuestFill
<1>12. CASE GuestSend
  BY <1>12 DEF GuestSend
<1>13. CASE GuestReceive
  BY <1>13 DEF GuestReceive
<1>14. CASE UNCHANGED vars
  BY <1>14 DEF vars
<1>15. QED
  BY <1>1, <1>2, <1>3, <1>4, <1>5, <1>6, <1>7, <1>8, <1>9, <1>10, <1>11,
     <1>12, <1>13, <1>14 DEF Next, Emulator, Guest, RxLoop, Finished

(* The emulator's threads are always where ThreadInv puts them.            *)
LEMMA ThreadInvariant == Spec => []ThreadInv
<1>1. Init => ThreadInv
  BY DEF Init, ThreadInv, RxPlaces, Thread
<1>2. Spec => []ControlType
  BY TypeCorrect, PTL DEF TypeOK
<1>3. QED
  BY <1>1, <1>2, ThreadStep, PTL DEF Spec

(* main resets the ownership bits only when no loop runs any more          *)
(* (pthread_join): no reset can race with a hand-over by thread 1.         *)
THEOREM ResetSafe == Spec => []ResetAfterLoops
<1>1. ThreadInv => ResetAfterLoops
  BY DEF ThreadInv, ResetAfterLoops
<1>2. QED
  BY <1>1, ThreadInvariant, PTL

-----------------------------------------------------------------------------
(* The rx ring.                                                            *)

Copying == \E t \in Thread : pc[t] \in { "rx_copy", "rx_hand" }

(* During the first burst the cursor is where the count is, and everything *)
(* from the cursor on is the emulator's.                                   *)
RxInv ==
  /\ pc[0] = "init" => rxd = 0 /\ rxburst = 0
  /\ Copying => rxOwn[rxd]
  /\ rxburst < Burst /\ pc[0] # "init" =>
       /\ rxd = (IF Copying THEN rxburst - 1 ELSE rxburst)
       /\ \A i \in Slot : i >= rxd => rxOwn[i]

(* Two threads never hand over rx descriptors at the same time.            *)
LEMMA OneCopier ==
  ASSUME ThreadInv, NEW t \in Thread, NEW u \in Thread, u # t,
         pc[t] = "rx_hand"
  PROVE  pc[u] \notin { "rx_copy", "rx_hand" }
<1>1. CASE t = 0
  BY <1>1 DEF ThreadInv, Thread, RxPlaces
<1>2. CASE t = 1
  BY <1>2 DEF ThreadInv, Thread, RxPlaces
<1>3. QED
  BY <1>1, <1>2 DEF Thread

(* The guest, the resets and the rx loop preserve RxInv.                   *)
LEMMA RxStep == TypeOK /\ ThreadInv /\ RxInv /\ [Next]_vars => RxInv'
<1> SUFFICES ASSUME TypeOK, ThreadInv, RxInv, [Next]_vars PROVE RxInv'
  OBVIOUS
<1> USE RingAssumption DEF TypeOK, ControlType, CursorsType, RingsType,
        ThreadInv, RxPlaces, RxInv, Copying, Thread, Slot,
        emulator, rxRing
<1>1. CASE Setup
  <2>1. ~Copying'
    <3>1. pc[1] = "off" /\ DOMAIN pc = {0, 1}
      BY <1>1 DEF Setup
    <3>2. \A m \in RunModes : StartPc(m) \notin { "rx_copy", "rx_hand" }
      BY RingAssumption DEF StartPc
    <3> HIDE DEF TypeOK, ThreadInv, RxInv
    <3>3. pc'[0] \notin { "rx_copy", "rx_hand" } /\ pc'[1] \in { "off", "rx_wait" }
      BY <1>1, <3>1, <3>2 DEF Setup
    <3>4. QED
      BY <3>3
  <2>2. /\ rxd' = rxd /\ rxburst' = rxburst /\ rxd = 0 /\ rxburst = 0
        /\ \A i \in Slot : rxOwn'[i]
    BY <1>1 DEF Setup
  <2> HIDE DEF TypeOK, ThreadInv, Copying, Slot
  <2>3. QED
    BY <2>1, <2>2
<1>16. CASE Choose
  <2>1. ~Copying /\ ~Copying'
    <3>1. pc[1] = "off" /\ pc[0] = "prompt" /\ DOMAIN pc = {0, 1}
      BY <1>16 DEF Choose
    <3>2. \A m \in RunModes : StartPc(m) \notin { "rx_copy", "rx_hand", "init" }
      BY RingAssumption DEF StartPc
    <3> HIDE DEF TypeOK, ThreadInv, RxInv
    <3>3. pc'[0] \notin { "rx_copy", "rx_hand" } /\ pc'[1] = "off"
      BY <1>16, <3>1, <3>2 DEF Choose
    <3>4. QED
      BY <3>1, <3>3
  <2>2. pc[0] # "init" /\ rxd' = rxd /\ rxburst' = rxburst /\ rxOwn' = rxOwn
    BY <1>16 DEF Choose
  <2>3. pc'[0] # "init"
    <3>1. \A m \in RunModes : StartPc(m) # "init"
      BY RingAssumption DEF StartPc
    <3>2. DOMAIN pc = {0, 1}
      BY <1>16 DEF Choose
    <3> HIDE DEF TypeOK, ThreadInv, RxInv
    <3>3. QED
      BY <1>16, <3>1, <3>2 DEF Choose
  <2> HIDE DEF TypeOK, ThreadInv, Copying, Slot
  <2>4. QED
    BY <2>1, <2>2, <2>3
<1>2. CASE Sigint
  BY <1>2 DEF Sigint
<1>3. CASE TxTake
  <2>1. /\ rxd' = rxd /\ rxburst' = rxburst /\ rxOwn' = rxOwn
        /\ pc[0] # "init" /\ DOMAIN pc = {0, 1}
    BY <1>3 DEF TxTake
  <2> HIDE DEF TypeOK, ThreadInv, Slot
  <2>2. /\ pc'[1] = pc[1] /\ pc'[0] # "init"
        /\ pc[0] \notin { "rx_copy", "rx_hand" }
        /\ pc'[0] \notin { "rx_copy", "rx_hand" }
    <3> HIDE DEF RxInv
    <3>1. /\ pc[0] \in { "tx_wait", "first_tx" }
          /\ \/ pc' = pc
             \/ \E p \in { "first_done", "rx_wait" } : pc' = [pc EXCEPT ![0] = p]
      BY <1>3 DEF TxTake
    <3>2. QED
      BY <2>1, <3>1
  <2>3. Copying' <=> Copying
    BY <2>2
  <2> HIDE DEF Copying
  <2>4. QED
    BY <2>1, <2>2, <2>3
<1>4. CASE FirstDone
  BY <1>4 DEF FirstDone
<1>5. CASE Join
  <2>1. /\ rxd' = rxd /\ rxburst' = rxburst /\ rxOwn' = rxOwn
        /\ pc[0] = "quit" /\ DOMAIN pc = {0, 1}
        /\ \E p \in { "reset", "crashed" } : pc' = [pc EXCEPT ![0] = p]
    BY <1>5 DEF Join
  <2> HIDE DEF TypeOK, ThreadInv, Slot
  <2>2. pc'[1] = pc[1] /\ pc'[0] \in { "reset", "crashed" }
    BY <2>1
  <2>3. Copying' <=> Copying
    BY <2>1, <2>2
  <2> HIDE DEF Copying
  <2>4. QED
    BY <2>1, <2>2, <2>3
<1>6. CASE Reset
  BY <1>6 DEF Reset
<1>7. ASSUME NEW t \in Thread, RxClaim(t) PROVE RxInv'
  <2>1. ~Copying /\ Copying' /\ pc[0] # "init" /\ pc'[0] # "init"
    BY <1>7 DEF RxClaim
  <2>2. /\ rxOwn' = rxOwn /\ rxd' = rxd
        /\ rxburst' = IF rxburst = Burst THEN rxburst ELSE rxburst + 1
        /\ rxburst = Burst => rxOwn[rxd]
    BY <1>7 DEF RxClaim, MayClaim
  <2>3. rxd \in Slot /\ rxburst \in 0..Burst /\ Burst \in Nat
    OBVIOUS
  <2> HIDE DEF TypeOK, ThreadInv, RxInv, Copying, Slot
  <2>4. rxburst < Burst => rxd = rxburst /\ \A i \in Slot : i >= rxd => rxOwn[i]
    BY <2>1, Zenon DEF RxInv
  <2>5. rxOwn'[rxd']
    <3>1. CASE rxburst = Burst
      BY <2>2, <3>1
    <3>2. CASE rxburst < Burst
      BY <2>2, <2>3, <2>4, <3>2 DEF Slot
    <3>3. QED
      BY <2>3, <3>1, <3>2
  <2>6. rxburst' < Burst =>
          rxd' = rxburst' - 1 /\ \A i \in Slot : i >= rxd' => rxOwn'[i]
    BY <2>2, <2>3, <2>4
  <2>7. QED
    BY <2>1, <2>5, <2>6, Zenon DEF RxInv
<1>8. ASSUME NEW t \in Thread, RxCopy(t) PROVE RxInv'
  BY <1>8 DEF RxCopy
<1>9. ASSUME NEW t \in Thread, RxHand(t) PROVE RxInv'
  <2>1. \E p \in { "rx_wait", "tx_wait" } : pc' = [pc EXCEPT ![t] = p]
    BY <1>9 DEF RxHand
  <2>2. /\ pc[t] = "rx_hand" /\ rxburst' = rxburst /\ rxd' = Adv(rxd)
        /\ rxOwn' = [rxOwn EXCEPT ![rxd] = FALSE]
    BY <1>9 DEF RxHand
  <2>3. Copying /\ pc[0] # "init"
    BY <2>2
  <2>4. ~Copying' /\ pc'[0] # "init"
    <3>1. pc \in [Thread -> Places]
      OBVIOUS
    <3> HIDE DEF TypeOK, ControlType, ThreadInv, RxInv, Copying, Thread
    <3>2. \A u \in Thread : u # t => pc[u] \notin { "rx_copy", "rx_hand" }
      BY <2>2, OneCopier
    <3>3. \A u \in Thread : pc'[u] \notin { "rx_copy", "rx_hand" }
      BY <2>1, <3>1, <3>2
    <3>4. pc'[0] # "init"
      BY <2>1, <2>3, <3>1 DEF Thread
    <3>5. QED
      BY <3>3, <3>4 DEF Copying
  <2>5. /\ rxd \in Slot /\ rxburst \in 0..Burst /\ Burst \in Nat /\ N \in Nat
        /\ Burst <= N /\ rxOwn \in [Slot -> BOOLEAN]
    OBVIOUS
  <2> HIDE DEF TypeOK, ThreadInv, RxInv, Copying, Slot
  <2>6. rxburst < Burst =>
          rxd = rxburst - 1 /\ \A i \in Slot : i >= rxd => rxOwn[i]
    BY <2>3, Zenon DEF RxInv
  <2>7. rxburst' < Burst => rxd' = rxburst'
    BY <2>2, <2>5, <2>6 DEF Adv, Slot
  <2>8. rxburst' < Burst => \A i \in Slot : i >= rxd' => rxOwn'[i]
    <3>1. SUFFICES ASSUME rxburst < Burst, NEW i \in Slot, i >= rxd'
                   PROVE rxOwn'[i]
      BY <2>2
    <3>2. i > rxd /\ i # rxd
      BY <2>2, <2>5, <2>6, <2>7, <3>1 DEF Slot
    <3>3. rxOwn[i]
      BY <2>5, <2>6, <3>1, <3>2 DEF Slot
    <3>4. QED
      BY <2>2, <2>5, <3>2, <3>3
  <2>9. QED
    BY <2>4, <2>7, <2>8, Zenon DEF RxInv
<1>10. ASSUME NEW t \in Thread, Quit(t) PROVE RxInv'
  BY <1>10 DEF Quit, MayQuit, Waiting
<1>11. CASE GuestFill
  BY <1>11 DEF GuestFill
<1>12. CASE GuestSend
  BY <1>12 DEF GuestSend
<1>13. CASE GuestReceive
  BY <1>13 DEF GuestReceive
<1>14. CASE UNCHANGED vars
  BY <1>14 DEF vars
<1>15. QED
  BY <1>1, <1>2, <1>3, <1>4, <1>5, <1>6, <1>7, <1>8, <1>9, <1>10, <1>11,
     <1>12, <1>13, <1>14, <1>16 DEF Next, Emulator, Guest, RxLoop, Finished

(* The emulator writes only rx descriptors it owns, for rings and bursts   *)
(* of any length with Burst <= N: loop_rxonly and loop_rxtx need not look  *)
(* at the owner during the first burst.                                    *)
THEOREM RxWriteSafe == Spec => []RxWriteOwned
<1>1. Init => RxInv
  BY DEF Init, RxInv, Copying, Thread
<1>2. RxInv => RxWriteOwned
  BY DEF RxInv, Copying, RxWriteOwned
<1>3. QED
  BY <1>1, <1>2, RxStep, TypeCorrect, ThreadInvariant, PTL DEF Spec

-----------------------------------------------------------------------------
(* The count of received packets.                                          *)

(* Every natural number is a multiple of w and a remainder below w.        *)
LEMMA Division ==
  ASSUME NEW w \in Nat \ {0}, NEW x \in Nat
  PROVE  \E q \in Nat, r \in 0 .. w - 1 : x = (w * q) + r
<1>1. /\ x % w \in 0 .. w - 1
      /\ x \div w \in Nat
      /\ x = (w * (x \div w)) + (x % w)
  OBVIOUS
<1>2. QED
  BY <1>1

(* The remainder of such a sum is its second part.                         *)
LEMMA Remainder ==
  ASSUME NEW w \in Nat \ {0}, NEW q \in Nat, NEW r \in 0 .. w - 1
  PROVE  ((w * q) + r) % w = r
  OBVIOUS

(* A counter that wraps at w still counts modulo w, up and down again.     *)
LEMMA WrappedCount ==
  ASSUME NEW w \in Nat \ {0}, NEW x \in Nat
  PROVE  /\ ((x % w) + 1) % w = (x + 1) % w
         /\ (((x + 1) % w) - 1) % w = x % w
<1>1. PICK q \in Nat, r \in 0 .. w - 1 : x = (w * q) + r
  BY Division
<1>2. x % w = r
  BY <1>1, Remainder
<1>3. CASE r + 1 < w
  <2>1. x + 1 = (w * q) + (r + 1)
    BY <1>1
  <2>2. r + 1 \in 0 .. w - 1
    BY <1>3
  <2>3. (x + 1) % w = r + 1
    BY <2>1, <2>2, Remainder
  <2>4. (r + 1) % w = r + 1 /\ r % w = r /\ r + 1 - 1 = r
    BY <1>3
  <2>5. QED
    BY <1>2, <2>3, <2>4
<1>4. CASE r + 1 = w
  <2>1. x + 1 = (w * (q + 1)) + 0
    BY <1>1, <1>4
  <2>2. 0 \in 0 .. w - 1 /\ q + 1 \in Nat
    BY <1>4
  <2>3. (x + 1) % w = 0
    BY <2>1, <2>2, Remainder
  <2>4. (r + 1) % w = 0 /\ (0 - 1) % w = r
    BY <1>4
  <2>5. QED
    BY <1>2, <2>3, <2>4
<1>5. QED
  BY <1>3, <1>4

(* The places main's receiving modes use: the sequence without an rx loop  *)
(* never receives and loop_rxonly never sends.                             *)
PlaceInv ==
  /\ pc[0] \in { "first_tx", "first_done" } => mode \in RxTx
  /\ pc[0] \in RxPlaces => mode \in RxTx \cup { "rxonly" }
  /\ pc[0] = "tx_wait" => mode # "rxonly"
  /\ mode = "none" => pc[0] \in { "init", "prompt", "reset", "done" }
  /\ \/ pc[0] \in { "init", "prompt", "first_tx", "first_done" }
     \/ mode \in { "none", "txonly" }
     => delivered = 0 /\ rxburst = 0 /\ rxpkts = 0

(* The thread that receives has left its loop.                             *)
RxQuit == IF mode = "multi" THEN pc[1] = "quit"
          ELSE pc[0] \in { "quit", "reset", "done", "crashed" }

(* What is counted of d packets delivered by a loop that still runs: the   *)
(* last packet of the first burst is counted too.                          *)
Counted(d) == IF d < Burst THEN 0 ELSE (d - Burst + 1) % W

(* rxburst counts the packets of the first burst as they are claimed, and  *)
(* rxpkts_cnt is one too many until the loop has been left, or becomes the *)
(* largest number then.                                                    *)
CountInv ==
  /\ rxburst < Burst => delivered = IF Copying THEN rxburst - 1 ELSE rxburst
  /\ rxburst = Burst => delivered >= IF Copying THEN Burst - 1 ELSE Burst
  /\ ~RxQuit => rxpkts = Counted(delivered)
  /\ RxQuit => \/ mode \in { "none", "txonly" }
               \/ rxpkts = IF delivered >= Burst THEN (delivered - Burst) % W
                                                 ELSE W - 1
               \/ mode \in RxTx /\ delivered = 0 /\ rxpkts = 0

(* The modes keep to their places.                                         *)
LEMMA PlaceStep ==
  TypeOK /\ ThreadInv /\ PlaceInv /\ [Next]_vars => PlaceInv'
<1> SUFFICES ASSUME TypeOK, ThreadInv, PlaceInv, [Next]_vars PROVE PlaceInv'
  OBVIOUS
<1> USE DEF TypeOK, ControlType, CursorsType, ThreadInv, PlaceInv, RxPlaces,
        RxTx, Thread, emulator, history
<1>1. CASE Setup \/ Choose
  BY <1>1, RingAssumption DEF Setup, Choose, StartPc
<1>2. CASE Sigint
  BY <1>2 DEF Sigint
<1>3. CASE TxTake
  BY <1>3 DEF TxTake
<1>4. CASE FirstDone
  BY <1>4 DEF FirstDone
<1>5. CASE Join
  BY <1>5 DEF Join
<1>6. CASE Reset
  BY <1>6 DEF Reset
<1>7. ASSUME NEW t \in Thread, RxClaim(t) PROVE PlaceInv'
  BY <1>7 DEF RxClaim
<1>8. ASSUME NEW t \in Thread, RxCopy(t) PROVE PlaceInv'
  BY <1>8 DEF RxCopy
<1>9. ASSUME NEW t \in Thread, RxHand(t) PROVE PlaceInv'
  BY <1>9 DEF RxHand
<1>10. ASSUME NEW t \in Thread, Quit(t) PROVE PlaceInv'
  BY <1>10 DEF Quit, MayQuit, Waiting, FinalRxCount, LeavesRxLoop
<1>11. CASE GuestFill
  BY <1>11 DEF GuestFill
<1>12. CASE GuestSend
  BY <1>12 DEF GuestSend
<1>13. CASE GuestReceive
  BY <1>13 DEF GuestReceive
<1>14. CASE UNCHANGED vars
  BY <1>14 DEF vars
<1>15. QED
  BY <1>1, <1>2, <1>3, <1>4, <1>5, <1>6, <1>7, <1>8, <1>9, <1>10, <1>11,
     <1>12, <1>13, <1>14 DEF Next, Emulator, Guest, RxLoop, Finished

(* CountInv depends on few variables and on two facts about the threads.   *)
LEMMA CountKept ==
  ASSUME CountInv, Copying' <=> Copying, RxQuit' <=> RxQuit,
         rxburst' = rxburst, rxpkts' = rxpkts, delivered' = delivered,
         mode' = mode
  PROVE  CountInv'
  BY DEF CountInv, Counted

(* Claiming, handing over and leaving the loop keep the count in step with *)
(* what was delivered.                                                     *)
LEMMA CountStep ==
  TypeOK /\ ThreadInv /\ PlaceInv /\ CountInv /\ [Next]_vars => CountInv'
<1> SUFFICES ASSUME TypeOK, ThreadInv, PlaceInv, CountInv, [Next]_vars
             PROVE CountInv'
  OBVIOUS
<1> USE RingAssumption DEF Thread
<1>a. /\ rxburst \in 0 .. Burst /\ rxpkts \in 0 .. W - 1 /\ delivered \in Nat
      /\ pc \in [Thread -> Places]
  BY DEF TypeOK, ControlType, CursorsType
<1>1. CASE Setup
  <2>1. /\ delivered' = 0 /\ rxburst' = 0 /\ rxpkts' = 0 /\ pc[1] = "off"
    BY <1>1 DEF Setup, PlaceInv, ThreadInv, history
  <2>2. \A m \in RunModes : StartPc(m) \notin { "rx_copy", "rx_hand" }
    BY RingAssumption DEF StartPc
  <2>3. ~Copying'
    BY <1>1, <1>a, <2>1, <2>2 DEF Setup, Copying
  <2>4. ~RxQuit'
    <3>1. pc'[1] # "quit" /\ pc'[0] \in { "prompt", "tx_wait" }
      BY <1>1, <1>a, <2>1 DEF Setup, StartPc
    <3>2. QED
      BY <3>1 DEF RxQuit
  <2>5. QED
    BY <2>1, <2>3, <2>4, RingAssumption DEF CountInv, Counted
<1>16. CASE Choose
  <2>1. /\ delivered' = 0 /\ rxburst' = 0 /\ rxpkts' = 0 /\ pc[1] = "off"
    BY <1>16 DEF Choose, PlaceInv, ThreadInv, history
  <2>2. \A m \in RunModes :
          StartPc(m) \notin { "rx_copy", "rx_hand", "quit", "done", "crashed" }
          /\ (StartPc(m) = "reset" => m = "none")
    BY RingAssumption DEF StartPc
  <2>3. ~Copying'
    BY <1>16, <1>a, <2>1, <2>2 DEF Choose, Copying
  <2>4. RxQuit' => mode' = "none"
    BY <1>16, <1>a, <2>1, <2>2 DEF Choose, RxQuit
  <2>5. QED
    BY <2>1, <2>3, <2>4, RingAssumption DEF CountInv, Counted
<1>2. CASE Sigint
  BY <1>2, CountKept DEF Sigint, Copying, RxQuit, emulator, history
<1>3. CASE TxTake
  <2>1. /\ rxburst' = rxburst /\ rxpkts' = rxpkts /\ delivered' = delivered
        /\ mode' = mode
    BY <1>3 DEF TxTake
  <2>2. /\ pc'[1] = pc[1]
        /\ pc[0] \in Waiting /\ pc'[0] \in Waiting
    BY <1>3, <1>a DEF TxTake, Waiting
  <2>3. QED
    BY <2>1, <2>2, CountKept DEF Copying, RxQuit, Waiting
<1>4. CASE FirstDone
  <2>1. /\ rxburst' = rxburst /\ rxpkts' = rxpkts /\ delivered' = delivered
        /\ mode' = mode
    BY <1>4 DEF FirstDone, history
  <2>2. /\ pc'[1] = pc[1]
        /\ pc[0] \in Waiting /\ pc'[0] \in Waiting
    BY <1>4, <1>a DEF FirstDone, Waiting
  <2>3. QED
    BY <2>1, <2>2, CountKept DEF Copying, RxQuit, Waiting
<1>5. CASE Join
  <2>1. /\ rxburst' = rxburst /\ rxpkts' = rxpkts /\ delivered' = delivered
        /\ mode' = mode
    BY <1>5 DEF Join, history
  <2>2. /\ pc'[1] = pc[1]
        /\ pc[0] = "quit" /\ pc'[0] \in { "reset", "crashed" }
    BY <1>5, <1>a DEF Join
  <2>3. QED
    BY <2>1, <2>2, CountKept DEF Copying, RxQuit
<1>6. CASE Reset
  <2>1. /\ rxburst' = rxburst /\ rxpkts' = rxpkts /\ delivered' = delivered
        /\ mode' = mode
    BY <1>6 DEF Reset, history
  <2>2. /\ pc'[1] = pc[1]
        /\ pc[0] = "reset" /\ pc'[0] \in { "reset", "done" }
    BY <1>6, <1>a DEF Reset
  <2>3. QED
    BY <2>1, <2>2, CountKept DEF Copying, RxQuit
<1>7. ASSUME NEW t \in Thread, RxClaim(t) PROVE CountInv'
  <2>1. /\ rxpkts' = rxpkts /\ delivered' = delivered /\ mode' = mode
        /\ rxburst' = IF rxburst = Burst THEN rxburst ELSE rxburst + 1
    BY <1>7 DEF RxClaim, history
  <2>2. ~Copying /\ Copying' /\ ~RxQuit /\ ~RxQuit'
    BY <1>7, <1>a DEF RxClaim, ThreadInv, RxPlaces, Copying, RxQuit
  <2>3. QED
    BY <1>a, <2>1, <2>2 DEF CountInv, Counted
<1>8. ASSUME NEW t \in Thread, RxCopy(t) PROVE CountInv'
  <2>1. /\ rxburst' = rxburst /\ rxpkts' = rxpkts /\ delivered' = delivered
        /\ mode' = mode
    BY <1>8 DEF RxCopy, history
  <2>2. Copying /\ Copying' /\ ~RxQuit /\ ~RxQuit'
    BY <1>8, <1>a DEF RxCopy, ThreadInv, RxPlaces, Copying, RxQuit
  <2>3. QED
    BY <2>1, <2>2, CountKept
<1>9. ASSUME NEW t \in Thread, RxHand(t) PROVE CountInv'
  <2>1. /\ rxburst' = rxburst /\ delivered' = delivered + 1 /\ mode' = mode
        /\ rxpkts' = IF rxburst = Burst THEN (rxpkts + 1) % W ELSE rxpkts
    BY <1>9 DEF RxHand
  <2>2. Copying /\ ~RxQuit
    BY <1>9, <1>a DEF RxHand, ThreadInv, RxPlaces, Copying, RxQuit
  <2>3. ~Copying' /\ ~RxQuit'
    <3>1. pc[t] = "rx_hand"
          /\ \E p \in { "rx_wait", "tx_wait" } : pc' = [pc EXCEPT ![t] = p]
      BY <1>9 DEF RxHand
    <3>2. QED
      BY <1>a, <2>1, <3>1 DEF ThreadInv, RxPlaces, Copying, RxQuit
  <2>4. CASE rxburst < Burst
    BY <1>a, <2>1, <2>2, <2>3, <2>4 DEF CountInv, Counted
  <2>5. CASE rxburst = Burst /\ delivered = Burst - 1
    <3>1. rxpkts = 0
      BY <1>a, <2>2, <2>5 DEF CountInv, Counted
    <3>2. rxpkts' = Counted(delivered') /\ delivered' = Burst
      BY <1>a, <2>1, <2>5, <3>1 DEF Counted
    <3>3. QED
      BY <2>1, <2>3, <2>5, <3>2 DEF CountInv
  <2>6. CASE rxburst = Burst /\ delivered >= Burst
    <3> DEFINE x == delivered - Burst + 1
    <3>1. x \in Nat /\ rxpkts = x % W
      BY <1>a, <2>2, <2>6 DEF CountInv, Counted
    <3>2. rxpkts' = (x + 1) % W
      BY <2>1, <2>6, <3>1, WrappedCount
    <3>3. rxpkts' = Counted(delivered') /\ delivered' >= Burst
      BY <1>a, <2>1, <2>6, <3>2 DEF Counted
    <3>4. QED
      BY <2>1, <2>3, <2>6, <3>3 DEF CountInv
  <2>7. QED
    BY <1>a, <2>2, <2>4, <2>5, <2>6 DEF CountInv
<1>10. ASSUME NEW t \in Thread, Quit(t) PROVE CountInv'
  <2>1. /\ rxburst' = rxburst /\ delivered' = delivered /\ mode' = mode
        /\ rxpkts' = IF LeavesRxLoop(t) THEN (rxpkts - 1) % W ELSE rxpkts
    BY <1>10 DEF Quit, FinalRxCount, history
  <2>2. pc[t] \in Waiting /\ pc' = [pc EXCEPT ![t] = "quit"]
    BY <1>10 DEF Quit, MayQuit
  <2>3. Copying' <=> Copying
    BY <1>a, <2>2 DEF Copying, Waiting
  <2>4. CASE mode = "multi" /\ t = 0
    <3>1. ~LeavesRxLoop(t)
      BY <2>2, <2>4 DEF LeavesRxLoop, ThreadInv, RxTx, Waiting
    <3>2. RxQuit' <=> RxQuit
      BY <1>a, <2>1, <2>2, <2>4 DEF RxQuit
    <3>3. QED
      BY <2>1, <2>3, <3>1, <3>2, CountKept
  <2>5. CASE ~(mode = "multi" /\ t = 0)
    <3>1. ~RxQuit /\ RxQuit'
      BY <1>a, <2>1, <2>2, <2>5 DEF RxQuit, ThreadInv, RxPlaces, Waiting
    <3>2. CASE LeavesRxLoop(t) /\ delivered >= Burst
      <4> DEFINE x == delivered - Burst
      <4>1. x \in Nat /\ rxpkts = (x + 1) % W
        BY <1>a, <3>1, <3>2 DEF CountInv, Counted
      <4>2. rxpkts' = x % W
        BY <2>1, <3>2, <4>1, WrappedCount
      <4>3. QED
        BY <2>1, <2>3, <3>1, <3>2, <4>2 DEF CountInv
    <3>3. CASE ~LeavesRxLoop(t)
      <4>1. delivered = 0 /\ mode \in { "none", "txonly" } \cup RxTx
        BY <2>2, <2>5, <3>3
           DEF LeavesRxLoop, PlaceInv, ThreadInv, RxPlaces, RxTx, Waiting,
               TypeOK, ControlType
      <4>2. rxpkts' = 0
        BY <1>a, <2>1, <3>1, <3>3, <4>1 DEF CountInv, Counted
      <4>3. QED
        BY <1>a, <2>1, <2>3, <3>1, <4>1, <4>2 DEF CountInv
    <3>4. CASE LeavesRxLoop(t) /\ delivered < Burst
      <4>1. rxpkts = 0 /\ (0 - 1) % W = W - 1
        BY <1>a, <3>1, <3>4 DEF CountInv, Counted
      <4>2. rxpkts' = W - 1
        BY <2>1, <3>4, <4>1
      <4>3. QED
        BY <1>a, <2>1, <2>3, <3>1, <3>4, <4>2 DEF CountInv
    <3>5. QED
      BY <1>a, <3>2, <3>3, <3>4
  <2>6. QED
    BY <2>4, <2>5
<1>11. CASE GuestFill
  BY <1>11, CountKept DEF GuestFill, Copying, RxQuit, emulator, history
<1>12. CASE GuestSend
  BY <1>12, CountKept DEF GuestSend, Copying, RxQuit, emulator, history
<1>13. CASE GuestReceive
  BY <1>13, CountKept DEF GuestReceive, Copying, RxQuit, emulator, history
<1>14. CASE UNCHANGED vars
  BY <1>14, CountKept DEF vars, Copying, RxQuit, emulator, history
<1>15. QED
  BY <1>1, <1>2, <1>3, <1>4, <1>5, <1>6, <1>7, <1>8, <1>9, <1>10, <1>11,
     <1>12, <1>13, <1>14, <1>16 DEF Next, Emulator, Guest, RxLoop, Finished

(* The count a receiving loop leaves behind, for every width, ring and     *)
(* burst.  After the first burst it is exact modulo the width: the         *)
(* increment for the last packet of that burst is what the decrement after *)
(* the loop takes back.  Within the first burst the decrement wraps, and   *)
(* the count is the largest number, unless the loop was skipped.           *)
THEOREM RxCountSafe == Spec => []RxCountExact
<1>1. Init => PlaceInv /\ CountInv
  <2>1. Init => PlaceInv
    BY DEF Init, PlaceInv, RxPlaces, Thread
  <2>2. Init => CountInv
    BY RingAssumption DEF Init, CountInv, Counted, Copying, RxQuit, Thread
  <2>3. QED
    BY <2>1, <2>2
<1>2. ThreadInv /\ PlaceInv /\ CountInv => RxCountExact
  <2> SUFFICES ASSUME ThreadInv, PlaceInv, CountInv,
                      NEW t \in Thread, pc[t] = "quit",
                      mode # "txonly", mode = "multi" => t = 1
               PROVE  \/ rxpkts = IF delivered >= Burst
                                  THEN (delivered - Burst) % W ELSE W - 1
                      \/ mode \in RxTx /\ delivered = 0 /\ rxpkts = 0
    BY DEF RxCountExact
  <2>1. RxQuit
    BY DEF ThreadInv, RxQuit, Thread
  <2>2. mode # "none"
    BY DEF PlaceInv, ThreadInv, Thread
  <2>3. QED
    BY <2>1, <2>2 DEF CountInv
<1>3. QED
  BY <1>1, <1>2, PlaceStep, CountStep, TypeCorrect, ThreadInvariant, PTL
     DEF Spec

-----------------------------------------------------------------------------
(* The tx ring.                                                            *)

(* An rx burst of loop_rxtx has moved the tx cursor burst places past te.  *)
TxInv ==
  /\ pc[0] \in { "init", "prompt" } => txd[0] = 0 /\ te = 0 /\ burst = 0
  /\ pc[0] \in { "tx_wait", "first_tx", "first_done" } => txd[0] = te
  /\ pc[0] = "first_done" => burst = 0
  /\ mode \in RxTx /\ pc[0] \in RxPlaces =>
       txd[0] = (IF te + burst < N THEN te + burst ELSE te + burst - N)

(* With bursts as long as the ring, every step preserves TxInv.            *)
LEMMA TxStep ==
  ASSUME Burst = N
  PROVE  TypeOK /\ ThreadInv /\ TxInv /\ [Next]_vars => TxInv'
<1> SUFFICES ASSUME TypeOK, ThreadInv, TxInv, [Next]_vars PROVE TxInv'
  OBVIOUS
<1> USE RingAssumption DEF TypeOK, ControlType, CursorsType, ThreadInv,
        TxInv, RxPlaces, RxTx, Thread, Slot, emulator, history
<1>1. CASE Setup \/ Choose
  BY <1>1, RingAssumption DEF Setup, Choose, StartPc
<1>2. CASE Sigint
  BY <1>2 DEF Sigint
<1>3. CASE TxTake
  BY <1>3 DEF TxTake, Adv, BurstEnds
<1>4. CASE FirstDone
  BY <1>4 DEF FirstDone
<1>5. CASE Join
  BY <1>5 DEF Join
<1>6. CASE Reset
  BY <1>6 DEF Reset
<1>7. ASSUME NEW t \in Thread, RxClaim(t) PROVE TxInv'
  BY <1>7 DEF RxClaim
<1>8. ASSUME NEW t \in Thread, RxCopy(t) PROVE TxInv'
  BY <1>8 DEF RxCopy
<1>9. ASSUME NEW t \in Thread, RxHand(t) PROVE TxInv'
  BY <1>9 DEF RxHand, Adv, BurstEnds
<1>10. ASSUME NEW t \in Thread, Quit(t) PROVE TxInv'
  BY <1>10 DEF Quit
<1>11. CASE GuestFill
  BY <1>11 DEF GuestFill
<1>12. CASE GuestSend
  BY <1>12 DEF GuestSend
<1>13. CASE GuestReceive
  BY <1>13 DEF GuestReceive
<1>14. CASE UNCHANGED vars
  BY <1>14 DEF vars
<1>15. QED
  BY <1>1, <1>2, <1>3, <1>4, <1>5, <1>6, <1>7, <1>8, <1>9, <1>10, <1>11,
     <1>12, <1>13, <1>14 DEF Next, Emulator, Guest, RxLoop, Finished

(* With bursts as long as the ring, as in hwemu.c where both are 32, a tx  *)
(* burst of loop_rxtx begins where the last one ended although the rx      *)
(* burst between them moves the same cursor.                               *)
THEOREM TxCursorSafe ==
  ASSUME Burst = N
  PROVE  Spec => []TxCursorAligned
<1>1. Init => TxInv
  BY DEF Init, TxInv, RxPlaces, Thread
<1>2. TxInv => TxCursorAligned
  BY DEF TxInv, TxCursorAligned
<1>3. QED
  BY <1>1, <1>2, TxStep, TypeCorrect, ThreadInvariant, PTL DEF Spec

-----------------------------------------------------------------------------
(* Each ring is a FIFO channel.                                            *)

(* The slot k places after i, and how many places j is after i.            *)
Plus(i, k)  == IF i + k < N THEN i + k ELSE i + k - N
Ahead(i, j) == IF j >= i THEN j - i ELSE j - i + N

(* S is the n slots from start on.                                         *)
Segment(S, start, n) == \A i \in Slot : i \in S <=> Ahead(start, i) < n

(* The descriptors that hold a packet: sent by the guest and not taken, or *)
(* handed to the guest and not received.                                   *)
TxHeld == { i \in Slot : txOwn[i] }
RxHeld == { i \in Slot : ~rxOwn[i] }

(* Set up and not yet closed.                                              *)
Running == pc[0] # "init" /\ ChannelOpen

(* The descriptors in use are contiguous, from the consumer's cursor to    *)
(* the producer's.                                                         *)
TxSegment ==
  /\ Segment(TxHeld, te, Cardinality(TxHeld))
  /\ gtx = Plus(te, Cardinality(TxHeld))
  /\ filling => ~txOwn[gtx]

RxSegment ==
  /\ Segment(RxHeld, grx, Cardinality(RxHeld))
  /\ rxd = Plus(grx, Cardinality(RxHeld))

TxRingInv ==
  /\ pc[0] = "init" => te = 0 /\ gtx = 0 /\ ~filling
  /\ Running => TxSegment

RxRingInv ==
  /\ pc[0] = "init" => rxd = 0 /\ grx = 0
  /\ Running => RxSegment

(* What the guest writes is a packet it sends.                             *)
ValuesInv ==
  /\ sent <= MaxTx /\ (filling => sent < MaxTx)
  /\ \A i \in Slot : /\ txBody[i] \in 0 .. MaxTx /\ txHdr[i] \in 0 .. MaxTx
                     /\ rxBody[i] \in 0 .. MaxTx /\ rxHdr[i] \in 0 .. MaxTx

(* The remainder that the guest's cursor and RingSeq take.                 *)
LEMMA ModOnce == \A x \in 0 .. 2 * N - 1 : x % N = IF x < N THEN x ELSE x - N
  BY RingAssumption

(* Both cursors of a ring move to the next slot.                           *)
LEMMA NextSlot ==
  ASSUME NEW i \in Slot
  PROVE  Adv(i) = Plus(i, 1) /\ GuestAdv(i) = Plus(i, 1) /\ Plus(i, 1) \in Slot
  BY RingAssumption, ModOnce DEF Adv, GuestAdv, Plus, Slot

(* A segment that is not the whole ring grows at its end.                  *)
LEMMA SegmentPut ==
  ASSUME NEW S, NEW start \in Slot, NEW n \in 0 .. N - 1, Segment(S, start, n)
  PROVE  LET j == Plus(start, n)
         IN  /\ j \in Slot /\ j \notin S
             /\ Segment(S \cup { j }, start, n + 1)
             /\ Plus(j, 1) = Plus(start, n + 1)
<1> DEFINE j == Plus(start, n)
<1>1. j \in Slot /\ Ahead(start, j) = n /\ Plus(j, 1) = Plus(start, n + 1)
  BY RingAssumption DEF Plus, Ahead, Slot
<1>2. ASSUME NEW i \in Slot
      PROVE  Ahead(start, i) < n + 1 <=> (Ahead(start, i) < n \/ i = j)
  BY RingAssumption DEF Plus, Ahead, Slot
<1>3. QED
  BY <1>1, <1>2 DEF Segment

(* A segment that is not empty begins at its start and shrinks there.      *)
LEMMA SegmentGet ==
  ASSUME NEW S, NEW start \in Slot, NEW n \in 1 .. N, Segment(S, start, n)
  PROVE  /\ start \in S
         /\ Segment(S \ { start }, Plus(start, 1), n - 1)
         /\ Plus(start, n) = Plus(Plus(start, 1), n - 1)
<1>1. /\ Ahead(start, start) = 0
      /\ Plus(start, n) = Plus(Plus(start, 1), n - 1)
  BY RingAssumption DEF Plus, Ahead, Slot
<1>2. ASSUME NEW i \in Slot
      PROVE  Ahead(Plus(start, 1), i) < n - 1 <=>
             (Ahead(start, i) < n /\ i # start)
  BY RingAssumption DEF Plus, Ahead, Slot
<1>3. QED
  BY <1>1, <1>2 DEF Segment

(* What a ring holds as a sequence, without the remainders.                *)
LEMMA RingSeqIs ==
  ASSUME NEW start \in Slot, NEW n \in 0 .. N, NEW body, NEW hdr
  PROVE  RingSeq(start, n, body, hdr) =
           [k \in 1 .. n |-> << body[Plus(start, k - 1)],
                                hdr[Plus(start, k - 1)] >>]
<1>1. \A k \in 1 .. n : (start + k - 1) % N = Plus(start, k - 1)
  BY RingAssumption, ModOnce DEF Plus, Slot
<1>2. QED
  BY <1>1 DEF RingSeq

(* Two rings hold the same in the n slots from start on.                   *)
SameIn(start, n, body, hdr, body1, hdr1) ==
  \A i \in Slot : Ahead(start, i) < n => body1[i] = body[i] /\ hdr1[i] = hdr[i]

(* Writing outside a segment does not change what it holds.                *)
LEMMA RingSeqSame ==
  ASSUME NEW start \in Slot, NEW n \in 0 .. N,
         NEW body, NEW hdr, NEW body1, NEW hdr1,
         SameIn(start, n, body, hdr, body1, hdr1)
  PROVE  RingSeq(start, n, body1, hdr1) = RingSeq(start, n, body, hdr)
<1>1. ASSUME NEW k \in 1 .. n
      PROVE  Plus(start, k - 1) \in Slot /\ Ahead(start, Plus(start, k - 1)) < n
  BY RingAssumption DEF Plus, Ahead, Slot
<1>2. \A k \in 1 .. n :
        << body1[Plus(start, k - 1)], hdr1[Plus(start, k - 1)] >> =
        << body[Plus(start, k - 1)], hdr[Plus(start, k - 1)] >>
  BY <1>1 DEF SameIn
<1>3. RingSeq(start, n, body1, hdr1) =
        [k \in 1 .. n |-> << body1[Plus(start, k - 1)],
                             hdr1[Plus(start, k - 1)] >>]
  BY RingSeqIs
<1>4. RingSeq(start, n, body, hdr) =
        [k \in 1 .. n |-> << body[Plus(start, k - 1)],
                             hdr[Plus(start, k - 1)] >>]
  BY RingSeqIs
<1>5. QED
  BY <1>2, <1>3, <1>4, Zenon

(* A segment one slot longer holds one packet more, at its end.            *)
LEMMA RingSeqPut ==
  ASSUME NEW start \in Slot, NEW n \in 0 .. N - 1,
         NEW body, NEW hdr, NEW body1, NEW hdr1,
         SameIn(start, n, body, hdr, body1, hdr1)
  PROVE  RingSeq(start, n + 1, body1, hdr1) =
           Append(RingSeq(start, n, body, hdr),
                  << body1[Plus(start, n)], hdr1[Plus(start, n)] >>)
<1> DEFINE v(k) == << body1[Plus(start, k - 1)], hdr1[Plus(start, k - 1)] >>
<1>0. n \in 0 .. N /\ n + 1 \in 0 .. N
  BY RingAssumption
<1>1. RingSeq(start, n, body, hdr) = [k \in 1 .. n |-> v(k)]
  <2>1. RingSeq(start, n, body1, hdr1) = RingSeq(start, n, body, hdr)
    BY <1>0, RingSeqSame
  <2>2. RingSeq(start, n, body1, hdr1) = [k \in 1 .. n |-> v(k)]
    BY <1>0, RingSeqIs
  <2>3. QED
    BY <2>1, <2>2, Zenon
<1>2. RingSeq(start, n + 1, body1, hdr1) = [k \in 1 .. n + 1 |-> v(k)]
  <2>1. ASSUME NEW m \in 0 .. N
        PROVE  RingSeq(start, m, body1, hdr1) = [k \in 1 .. m |-> v(k)]
    BY RingSeqIs
  <2>2. QED
    BY <1>0, <2>1, Zenon
<1>3. v(n + 1) = << body1[Plus(start, n)], hdr1[Plus(start, n)] >>
  OBVIOUS
<1> HIDE DEF v
<1>4. [k \in 1 .. n + 1 |-> v(k)] = Append([k \in 1 .. n |-> v(k)], v(n + 1))
  OBVIOUS
<1>5. QED
  BY <1>1, <1>2, <1>3, <1>4

(* A segment without its first slot holds all packets but the oldest.      *)
LEMMA RingSeqGet ==
  ASSUME NEW start \in Slot, NEW n \in 1 .. N, NEW body, NEW hdr
  PROVE  /\ RingSeq(start, n, body, hdr) # << >>
         /\ RingSeq(Plus(start, 1), n - 1, body, hdr) =
              Tail(RingSeq(start, n, body, hdr))
<1> DEFINE v(k) == << body[Plus(start, k - 1)], hdr[Plus(start, k - 1)] >>
<1>1. RingSeq(start, n, body, hdr) = [k \in 1 .. n |-> v(k)]
  BY RingSeqIs, RingAssumption
<1>2. RingSeq(Plus(start, 1), n - 1, body, hdr) = [k \in 1 .. n - 1 |-> v(k + 1)]
  <2>1. \A k \in 1 .. n - 1 : Plus(Plus(start, 1), k - 1) = Plus(start, (k + 1) - 1)
    BY RingAssumption DEF Plus, Slot
  <2>2. n - 1 \in 0 .. N /\ Plus(start, 1) \in Slot
    BY NextSlot, RingAssumption
  <2>3. RingSeq(Plus(start, 1), n - 1, body, hdr) =
          [k \in 1 .. n - 1 |-> << body[Plus(Plus(start, 1), k - 1)],
                                   hdr[Plus(Plus(start, 1), k - 1)] >>]
    <3>1. ASSUME NEW i \in Slot, NEW m \in 0 .. N
          PROVE  RingSeq(i, m, body, hdr) =
                   [k \in 1 .. m |-> << body[Plus(i, k - 1)],
                                        hdr[Plus(i, k - 1)] >>]
      BY RingSeqIs
    <3>2. QED
      BY <2>2, <3>1, Zenon
  <2>4. QED
    BY <2>1, <2>3, Zenon
<1> HIDE DEF v
<1>3. [k \in 1 .. n - 1 |-> v(k + 1)] = Tail([k \in 1 .. n |-> v(k)])
      /\ [k \in 1 .. n |-> v(k)] # << >>
  OBVIOUS
<1>4. QED
  BY <1>1, <1>2, <1>3

(* The number of descriptors that hold a packet.                           *)
LEMMA SlotsFinite ==
  ASSUME NEW S \in SUBSET Slot
  PROVE  IsFiniteSet(S) /\ Cardinality(S) \in 0 .. N
<1>1. IsFiniteSet(Slot) /\ Cardinality(Slot) = N
  BY RingAssumption, FS_Interval DEF Slot
<1>2. QED
  BY <1>1, FS_Subset, FS_CardinalityType, RingAssumption

(* The two steps after which main only resets: pthread_join, and a choice  *)
(* of no sequence.                                                         *)
Ends == Join \/ (Choose /\ pc'[0] = "reset")

(* Only set-up opens the rings, and only such a step closes them.          *)
LEMMA Phases ==
  ASSUME TypeOK, [Next]_vars, ~Setup
  PROVE  /\ pc'[0] = "init" <=> pc[0] = "init"
         /\ Ends \/ (ChannelOpen' <=> ChannelOpen)
         /\ Ends => ~ChannelOpen' /\ ChannelOpen
<1> USE DEF ChannelOpen, Thread, Ends
<1>a. pc \in [Thread -> Places]
  BY DEF TypeOK, ControlType
<1>1. CASE TxTake
  BY <1>1, <1>a DEF TxTake, Join, Choose
<1>2. CASE FirstDone
  BY <1>2, <1>a DEF FirstDone, Join, Choose
<1>3. CASE Join
  BY <1>3, <1>a DEF Join
<1>8. CASE Choose
  <2>1. pc[0] = "prompt" /\ ~Join
    BY <1>8 DEF Choose, Join
  <2>2. \A m \in RunModes : StartPc(m) \notin { "init", "done", "crashed" }
    BY RingAssumption DEF StartPc
  <2>3. pc'[0] \notin { "init", "done", "crashed" }
    BY <1>8, <1>a, <2>2 DEF Choose
  <2>4. QED
    BY <1>8, <2>1, <2>3
<1>4. CASE Reset
  BY <1>4, <1>a DEF Reset, Join, Choose
<1>5. ASSUME NEW t \in Thread, RxLoop(t) \/ Quit(t)
      PROVE  /\ pc'[0] = "init" <=> pc[0] = "init"
             /\ ChannelOpen' <=> ChannelOpen
             /\ ~Join /\ ~Choose
  <2>1. /\ pc[t] \in Waiting \cup { "rx_copy", "rx_hand" }
        /\ \E p \in { "rx_copy", "rx_hand", "rx_wait", "tx_wait", "quit" } :
             pc' = [pc EXCEPT ![t] = p]
    BY <1>5 DEF RxLoop, RxClaim, RxCopy, RxHand, Quit, MayQuit, Waiting
  <2>2. pc[0] \in { "quit", "prompt" } => pc'[0] = pc[0]
    BY <1>a, <2>1 DEF Waiting
  <2>3. ~Join /\ ~Choose
    <3>1. \A m \in RunModes : StartPc(m) # "prompt"
      BY RingAssumption DEF StartPc
    <3>2. QED
      BY <1>a, <2>2, <3>1 DEF Join, Choose
  <2>4. QED
    BY <1>a, <2>1, <2>3 DEF Waiting
<1>6. CASE Guest \/ Sigint \/ UNCHANGED vars
  <2>1. pc' = pc
    BY <1>6 DEF Guest, GuestFill, GuestSend, GuestReceive, Sigint, vars,
                emulator
  <2>2. ~Join /\ ~Choose
    <3>1. \A m \in RunModes : StartPc(m) # "prompt"
      BY RingAssumption DEF StartPc
    <3>2. QED
      BY <1>a, <2>1, <3>1 DEF Join, Choose
  <2>3. QED
    BY <2>1, <2>2
<1>7. QED
  BY <1>1, <1>2, <1>3, <1>4, <1>5, <1>6, <1>8 DEF Next, Emulator, Finished

(* A step that leaves a ring and its cursors alone leaves its segment.     *)
LEMMA TxKept ==
  ASSUME TypeOK, TxRingInv, [Next]_vars, ~Setup,
         txOwn' = txOwn, te' = te, gtx' = gtx, filling' = filling
  PROVE  TxRingInv'
<1>1. TxHeld' = TxHeld
  BY DEF TxHeld
<1>2. TxSegment' <=> TxSegment
  BY <1>1 DEF TxSegment, Segment, Plus
<1>3. QED
  BY <1>2, Phases DEF TxRingInv, Running

(* The same for the rx ring.                                               *)
LEMMA RxKept ==
  ASSUME TypeOK, RxRingInv, [Next]_vars, ~Setup,
         rxOwn' = rxOwn, rxd' = rxd, grx' = grx
  PROVE  RxRingInv'
<1>1. RxHeld' = RxHeld
  BY DEF RxHeld
<1>2. RxSegment' <=> RxSegment
  BY <1>1 DEF RxSegment, Segment, Plus
<1>3. QED
  BY <1>2, Phases DEF RxRingInv, Running

(* An empty segment is the empty set.                                      *)
LEMMA SegmentEmpty == \A start \in Slot : Segment({}, start, 0)
  BY RingAssumption DEF Segment, Ahead, Slot

(* The guest sends a packet: the segment grows at the guest's cursor.      *)
LEMMA TxPut ==
  ASSUME TypeOK, TxSegment, GuestSend
  PROVE  /\ Cardinality(TxHeld) \in 0 .. N - 1
         /\ Cardinality(TxHeld') = Cardinality(TxHeld) + 1
         /\ TxSegment'
<1> DEFINE n == Cardinality(TxHeld)
<1>a. /\ te \in Slot /\ gtx \in Slot /\ txOwn \in [Slot -> BOOLEAN]
      /\ filling
  BY DEF TypeOK, CursorsType, RingsType, GuestSend
<1>1. /\ IsFiniteSet(TxHeld) /\ n \in 0 .. N
      /\ Segment(TxHeld, te, n) /\ gtx = Plus(te, n) /\ gtx \notin TxHeld
  <2>1. TxHeld \in SUBSET Slot
    BY DEF TxHeld
  <2>2. gtx \notin TxHeld
    BY <1>a DEF TxHeld, TxSegment
  <2>3. QED
    BY <2>1, <2>2, SlotsFinite DEF TxSegment
<1>2. /\ txOwn' = [txOwn EXCEPT ![gtx] = TRUE] /\ gtx' = GuestAdv(gtx)
      /\ filling' = FALSE /\ te' = te
  BY DEF GuestSend, history
<1>3. TxHeld' = TxHeld \cup { gtx }
  BY <1>a, <1>2 DEF TxHeld
<1>4. Cardinality(TxHeld') = n + 1
  BY <1>1, <1>3, FS_AddElement
<1> HIDE DEF n
<1>5. n \in 0 .. N - 1
  BY <1>1, <1>a, RingAssumption DEF Segment, Plus, Ahead, Slot
<1>6. Segment(TxHeld', te, n + 1) /\ gtx' = Plus(te, n + 1)
  BY <1>a, <1>1, <1>2, <1>3, <1>5, SegmentPut, NextSlot
<1>7. TxSegment'
  BY <1>2, <1>4, <1>6 DEF TxSegment, Segment, Ahead, Plus
<1>8. QED
  BY <1>4, <1>5, <1>7 DEF n

(* The emulator takes a packet: the segment shrinks at te.                 *)
LEMMA TxGet ==
  ASSUME TypeOK, TxSegment, TxTake, txd[0] = te
  PROVE  /\ Cardinality(TxHeld) \in 1 .. N
         /\ Cardinality(TxHeld') = Cardinality(TxHeld) - 1
         /\ te' = Plus(te, 1)
         /\ TxSegment'
<1> DEFINE n == Cardinality(TxHeld)
<1>a. /\ te \in Slot /\ gtx \in Slot /\ txOwn \in [Slot -> BOOLEAN]
      /\ txOwn[te]
  BY DEF TypeOK, CursorsType, RingsType, TxTake, TxReady
<1>1. /\ IsFiniteSet(TxHeld) /\ n \in 0 .. N
      /\ Segment(TxHeld, te, n) /\ gtx = Plus(te, n) /\ te \in TxHeld
  <2>1. TxHeld \in SUBSET Slot
    BY DEF TxHeld
  <2>2. te \in TxHeld
    BY <1>a DEF TxHeld
  <2>3. QED
    BY <2>1, <2>2, SlotsFinite DEF TxSegment
<1>2. /\ txOwn' = [txOwn EXCEPT ![te] = FALSE] /\ te' = Adv(te)
      /\ filling' = filling /\ gtx' = gtx
  BY DEF TxTake, guest
<1>3. TxHeld' = TxHeld \ { te }
  BY <1>a, <1>2 DEF TxHeld
<1>4. Cardinality(TxHeld') = n - 1
  BY <1>1, <1>3, FS_RemoveElement
<1>5. filling' => ~txOwn'[gtx']
  BY <1>a, <1>2 DEF TxSegment
<1> HIDE DEF n
<1>6. n \in 1 .. N
  BY <1>1, <1>a, RingAssumption DEF Segment, Ahead, Slot
<1>7. te' = Plus(te, 1)
  BY <1>a, <1>2, NextSlot
<1>8. Segment(TxHeld', te', n - 1) /\ gtx' = Plus(te', n - 1)
  BY <1>a, <1>1, <1>2, <1>3, <1>6, <1>7, SegmentGet
<1>9. TxSegment'
  BY <1>4, <1>5, <1>8 DEF TxSegment, Segment, Ahead, Plus
<1>10. QED
  BY <1>4, <1>6, <1>7, <1>9 DEF n

(* The emulator hands over a packet: the segment grows at its cursor.      *)
LEMMA RxPut ==
  ASSUME TypeOK, RxSegment, NEW t \in Thread, RxHand(t), rxOwn[rxd]
  PROVE  /\ Cardinality(RxHeld) \in 0 .. N - 1
         /\ Cardinality(RxHeld') = Cardinality(RxHeld) + 1
         /\ RxSegment'
<1> DEFINE n == Cardinality(RxHeld)
<1>a. grx \in Slot /\ rxd \in Slot /\ rxOwn \in [Slot -> BOOLEAN]
  BY DEF TypeOK, CursorsType, RingsType
<1>1. /\ IsFiniteSet(RxHeld) /\ n \in 0 .. N
      /\ Segment(RxHeld, grx, n) /\ rxd = Plus(grx, n) /\ rxd \notin RxHeld
  <2>1. RxHeld \in SUBSET Slot
    BY DEF RxHeld
  <2>2. rxd \notin RxHeld
    BY <1>a DEF RxHeld
  <2>3. QED
    BY <2>1, <2>2, SlotsFinite DEF RxSegment
<1>2. /\ rxOwn' = [rxOwn EXCEPT ![rxd] = FALSE] /\ rxd' = Adv(rxd)
      /\ grx' = grx
  BY DEF RxHand, guest
<1>3. RxHeld' = RxHeld \cup { rxd }
  BY <1>a, <1>2 DEF RxHeld
<1>4. Cardinality(RxHeld') = n + 1
  BY <1>1, <1>3, FS_AddElement
<1> HIDE DEF n
<1>5. n \in 0 .. N - 1
  BY <1>1, <1>a, RingAssumption DEF Segment, Plus, Ahead, Slot
<1>6. Segment(RxHeld', grx, n + 1) /\ rxd' = Plus(grx, n + 1)
  BY <1>a, <1>1, <1>2, <1>3, <1>5, SegmentPut, NextSlot
<1>7. RxSegment'
  BY <1>2, <1>4, <1>6 DEF RxSegment, Segment, Ahead, Plus
<1>8. QED
  BY <1>4, <1>5, <1>7 DEF n

(* The guest receives a packet: the segment shrinks at its cursor.         *)
LEMMA RxGet ==
  ASSUME TypeOK, RxSegment, GuestReceive
  PROVE  /\ Cardinality(RxHeld) \in 1 .. N
         /\ Cardinality(RxHeld') = Cardinality(RxHeld) - 1
         /\ grx' = Plus(grx, 1)
         /\ RxSegment'
<1> DEFINE n == Cardinality(RxHeld)
<1>a. /\ grx \in Slot /\ rxd \in Slot /\ rxOwn \in [Slot -> BOOLEAN]
      /\ ~rxOwn[grx]
  BY DEF TypeOK, CursorsType, RingsType, GuestReceive
<1>1. /\ IsFiniteSet(RxHeld) /\ n \in 0 .. N
      /\ Segment(RxHeld, grx, n) /\ rxd = Plus(grx, n) /\ grx \in RxHeld
  <2>1. RxHeld \in SUBSET Slot
    BY DEF RxHeld
  <2>2. grx \in RxHeld
    BY <1>a DEF RxHeld
  <2>3. QED
    BY <2>1, <2>2, SlotsFinite DEF RxSegment
<1>2. /\ rxOwn' = [rxOwn EXCEPT ![grx] = TRUE] /\ grx' = GuestAdv(grx)
      /\ rxd' = rxd
  BY DEF GuestReceive, emulator
<1>3. RxHeld' = RxHeld \ { grx }
  BY <1>a, <1>2 DEF RxHeld
<1>4. Cardinality(RxHeld') = n - 1
  BY <1>1, <1>3, FS_RemoveElement
<1> HIDE DEF n
<1>5. n \in 1 .. N
  BY <1>1, <1>a, RingAssumption DEF Segment, Ahead, Slot
<1>6. grx' = Plus(grx, 1)
  BY <1>a, <1>2, NextSlot
<1>7. Segment(RxHeld', grx', n - 1) /\ rxd' = Plus(grx', n - 1)
  BY <1>a, <1>1, <1>2, <1>3, <1>5, <1>6, SegmentGet
<1>8. RxSegment'
  BY <1>4, <1>7 DEF RxSegment, Segment, Ahead, Plus
<1>9. QED
  BY <1>4, <1>5, <1>6, <1>8 DEF n

(* With bursts as long as the ring, the guest and the tx loop keep the tx  *)
(* ring in order.                                                          *)
LEMMA TxRingStep ==
  TypeOK /\ TxCursorAligned /\ TxRingInv /\ [Next]_vars => TxRingInv'
<1> SUFFICES ASSUME TypeOK, TxCursorAligned, TxRingInv, [Next]_vars
             PROVE  TxRingInv'
  OBVIOUS
<1>1. CASE Setup
  <2>1. /\ pc[0] = "init" /\ txOwn' = [i \in Slot |-> FALSE]
        /\ te' = te /\ gtx' = gtx /\ filling' = filling
    BY <1>1 DEF Setup, guest, history
  <2>2. te = 0 /\ gtx = 0 /\ ~filling /\ te \in Slot
    BY <2>1 DEF TxRingInv, TypeOK, CursorsType
  <2>3. TxHeld' = {}
    BY <2>1 DEF TxHeld
  <2>4. Cardinality(TxHeld') = 0
    BY <2>3, FS_EmptySet
  <2>5. gtx' = Plus(te', 0) /\ Segment(TxHeld', te', 0)
    BY <2>1, <2>2, <2>3, SegmentEmpty, RingAssumption DEF Plus
  <2>6. TxSegment'
    BY <2>1, <2>2, <2>4, <2>5 DEF TxSegment, Segment, Plus, Ahead
  <2>7. QED
    BY <2>1, <2>2, <2>6 DEF TxRingInv
<1>2. CASE TxTake
  <2>1. Running /\ txd[0] = te /\ pc'[0] # "init" /\ ~Setup
    BY <1>2 DEF TxTake, Setup, Running, ChannelOpen, TxCursorAligned, TypeOK,
                ControlType, Thread
  <2>2. TxSegment'
    BY <1>2, <2>1, TxGet DEF TxRingInv
  <2>3. QED
    BY <2>1, <2>2 DEF TxRingInv
<1>3. CASE GuestSend
  <2>1. pc' = pc /\ pc[0] # "init" /\ (Running' <=> Running)
    BY <1>3 DEF GuestSend, Attached, emulator, Running, ChannelOpen
  <2>2. Running => TxSegment'
    BY <1>3, TxPut DEF TxRingInv
  <2>3. QED
    BY <2>1, <2>2 DEF TxRingInv
<1>4. CASE GuestFill
  <2>1. pc' = pc /\ pc[0] # "init" /\ (Running' <=> Running)
    BY <1>4 DEF GuestFill, Attached, emulator, Running, ChannelOpen
  <2>2. txOwn' = txOwn /\ te' = te /\ gtx' = gtx /\ ~txOwn[gtx]
    BY <1>4 DEF GuestFill, history
  <2>3. TxHeld' = TxHeld
    BY <2>2 DEF TxHeld
  <2>4. TxSegment => TxSegment'
    BY <2>2, <2>3 DEF TxSegment, Segment, Plus
  <2>5. QED
    BY <2>1, <2>4 DEF TxRingInv
<1>5. CASE Reset
  BY <1>5
     DEF Reset, TxRingInv, Running, ChannelOpen, TypeOK, ControlType, Thread
<1>6. ASSUME ~Setup, txOwn' = txOwn, te' = te, gtx' = gtx, filling' = filling
      PROVE  TxRingInv'
  BY <1>6, TxKept
<1>7. CASE Choose \/ FirstDone \/ Join \/ Sigint \/ GuestReceive
           \/ UNCHANGED vars
  <2>1. CASE Setup
    BY <1>1, <2>1
  <2>2. CASE ~Setup
    BY <1>6, <1>7, <2>2
       DEF Choose, FirstDone, Join, Sigint, GuestReceive, vars, txRing, guest,
           history
  <2>3. QED
    BY <2>1, <2>2
<1>8. ASSUME NEW t \in Thread, RxLoop(t) \/ Quit(t) PROVE TxRingInv'
  <2>1. CASE Setup
    BY <1>1, <2>1
  <2>2. CASE ~Setup
    BY <1>6, <1>8, <2>2
       DEF RxLoop, RxClaim, RxCopy, RxHand, Quit, txRing, guest, history
  <2>3. QED
    BY <2>1, <2>2
<1>9. QED
  BY <1>1, <1>2, <1>3, <1>4, <1>5, <1>7, <1>8
     DEF Next, Emulator, Guest, Finished

(* The rx loop and the guest keep the rx ring in order.                    *)
LEMMA RxRingStep ==
  TypeOK /\ ThreadInv /\ RxWriteOwned /\ RxRingInv /\ [Next]_vars
    => RxRingInv'
<1> SUFFICES ASSUME TypeOK, ThreadInv, RxWriteOwned, RxRingInv, [Next]_vars
             PROVE  RxRingInv'
  OBVIOUS
<1>1. CASE Setup
  <2>1. /\ pc[0] = "init" /\ rxOwn' = [i \in Slot |-> TRUE]
        /\ rxd' = rxd /\ grx' = grx
    BY <1>1 DEF Setup, guest
  <2>2. rxd = 0 /\ grx = 0 /\ grx \in Slot
    BY <2>1 DEF RxRingInv, TypeOK, CursorsType
  <2>3. RxHeld' = {}
    BY <2>1 DEF RxHeld
  <2>4. Cardinality(RxHeld') = 0
    BY <2>3, FS_EmptySet
  <2>5. rxd' = Plus(grx', 0) /\ Segment(RxHeld', grx', 0)
    BY <2>1, <2>2, <2>3, SegmentEmpty, RingAssumption DEF Plus
  <2>6. RxSegment'
    BY <2>1, <2>2, <2>4, <2>5 DEF RxSegment, Segment, Plus, Ahead
  <2>7. QED
    BY <2>1, <2>2, <2>6 DEF RxRingInv
<1>2. ASSUME NEW t \in Thread, RxHand(t), ~Setup PROVE RxRingInv'
  <2>1. rxOwn[rxd] /\ delivered' = delivered + 1 /\ delivered \in Nat
    BY <1>2 DEF RxHand, RxWriteOwned, TypeOK, CursorsType
  <2>2. ~Ends
    BY <2>1 DEF Ends, Join, Choose, history
  <2>3. Running' <=> Running
    BY <1>2, <2>2, Phases DEF Running
  <2>4. Running => RxSegment'
    BY <1>2, <2>1, RxPut DEF RxRingInv
  <2>5. pc[0] # "init"
    BY <1>2 DEF RxHand, ThreadInv, Thread
  <2>6. QED
    BY <1>2, <2>3, <2>4, <2>5, Phases DEF RxRingInv
<1>3. CASE GuestReceive
  <2>1. pc' = pc /\ pc[0] # "init" /\ (Running' <=> Running)
    BY <1>3 DEF GuestReceive, Attached, emulator, Running, ChannelOpen
  <2>2. Running => RxSegment'
    BY <1>3, RxGet DEF RxRingInv
  <2>3. QED
    BY <2>1, <2>2 DEF RxRingInv
<1>4. CASE Reset
  BY <1>4
     DEF Reset, RxRingInv, Running, ChannelOpen, TypeOK, ControlType, Thread
<1>5. CASE ~Setup /\ rxOwn' = rxOwn /\ rxd' = rxd /\ grx' = grx
  BY <1>5, RxKept
<1>6. ASSUME NEW t \in Thread, RxClaim(t) \/ RxCopy(t) \/ Quit(t)
      PROVE  rxOwn' = rxOwn /\ rxd' = rxd /\ grx' = grx
  BY <1>6 DEF RxClaim, RxCopy, Quit, rxRing, guest
<1>7. CASE \/ Choose \/ TxTake \/ FirstDone \/ Join \/ Sigint \/ GuestFill
           \/ GuestSend \/ UNCHANGED vars
  <2>1. rxOwn' = rxOwn /\ rxd' = rxd /\ grx' = grx
    BY <1>7 DEF Choose, TxTake, FirstDone, Join, Sigint, GuestFill,
                GuestSend, vars, emulator, rxRing, guest
  <2>2. QED
    BY <1>1, <1>5, <2>1
<1>8. QED
  BY <1>1, <1>2, <1>3, <1>4, <1>5, <1>6, <1>7
     DEF Next, Emulator, RxLoop, Guest, Finished

(* The guest writes packets it sends, and the rx loop copies them.         *)
LEMMA ValuesStep == TypeOK /\ ValuesInv /\ [Next]_vars => ValuesInv'
<1> SUFFICES ASSUME TypeOK, ValuesInv, [Next]_vars PROVE ValuesInv'
  OBVIOUS
<1> USE RingAssumption DEF ValuesInv, guest, rxRing, txRing
<1>a. /\ rxd \in Slot /\ gtx \in Slot /\ sent \in Nat
      /\ txd \in [Thread -> Slot]
      /\ rxBody \in [Slot -> Nat] /\ rxHdr \in [Slot -> Nat]
      /\ txBody \in [Slot -> Nat] /\ txHdr \in [Slot -> Nat]
  BY DEF TypeOK, CursorsType, RingsType
<1>1. CASE GuestFill
  BY <1>1, <1>a DEF GuestFill
<1>2. CASE GuestSend
  BY <1>2, <1>a DEF GuestSend
<1>3. ASSUME NEW t \in Thread, RxCopy(t) PROVE ValuesInv'
  BY <1>3, <1>a DEF RxCopy
<1>4. ASSUME NEW t \in Thread, RxHand(t) PROVE ValuesInv'
  BY <1>4, <1>a DEF RxHand
<1>5. ASSUME NEW t \in Thread, RxClaim(t) \/ Quit(t) PROVE ValuesInv'
  BY <1>5 DEF RxClaim, Quit
<1>6. CASE Setup \/ Choose \/ TxTake \/ FirstDone \/ Join \/ Reset
  BY <1>6 DEF Setup, Choose, TxTake, FirstDone, Join, Reset
<1>7. CASE GuestReceive \/ Sigint \/ UNCHANGED vars
  BY <1>7 DEF GuestReceive, Sigint, vars
<1>8. QED
  BY <1>1, <1>2, <1>3, <1>4, <1>5, <1>6, <1>7
     DEF Next, Emulator, RxLoop, Guest, Finished

(* What the two channels hold while the rings are open, and before and     *)
(* after.                                                                  *)
LEMMA Channels ==
  /\ Running => /\ TxChannel = RingSeq(te, Cardinality(TxHeld), txBody, txHdr)
                /\ RxChannel = RingSeq(grx, Cardinality(RxHeld), rxBody, rxHdr)
  /\ ~Running => TxChannel = << >> /\ RxChannel = << >>
  BY DEF Running, TxChannel, RxChannel, TxHeld, RxHeld

(* Every step of the emulator, of the guest and of the user is a step of   *)
(* the tx channel or none.                                                 *)
LEMMA TxRefines ==
  TypeOK /\ TxCursorAligned /\ TxRingInv /\ ValuesInv /\ [Next]_vars
    => [TxFifo!Next]_<< TxChannel, ChannelOpen >>
<1> SUFFICES ASSUME TypeOK, TxCursorAligned, TxRingInv, ValuesInv, [Next]_vars
             PROVE  [TxFifo!Next]_<< TxChannel, ChannelOpen >>
  OBVIOUS
<1>a. /\ te \in Slot /\ gtx \in Slot
      /\ txBody \in [Slot -> Nat] /\ txHdr \in [Slot -> Nat]
      /\ Cardinality(TxHeld) \in 0 .. N
  <2>1. TxHeld \in SUBSET Slot
    BY DEF TxHeld
  <2>2. QED
    BY <2>1, SlotsFinite DEF TypeOK, CursorsType, RingsType
<1>b. /\ Running' => TxChannel' = RingSeq(te', Cardinality(TxHeld'), txBody', txHdr')
      /\ ~Running' => TxChannel' = << >>
  BY DEF Running, TxChannel, TxHeld, RingSeq
<1>c. ChannelOpen \in BOOLEAN /\ ChannelOpen' \in BOOLEAN
  BY DEF ChannelOpen
<1>1. CASE Setup
  <2>1. ChannelOpen /\ TxChannel = << >>
    BY <1>1 DEF Setup, ChannelOpen, TxChannel
  <2>2. TxChannel' = << >>
    <3>1. TxHeld' = {}
      BY <1>1 DEF Setup, TxHeld
    <3>2. Cardinality(TxHeld') = 0
      BY <3>1, FS_EmptySet
    <3>3. Running' => TxChannel' = << >>
      BY <1>b, <3>2 DEF RingSeq
    <3>4. QED
      BY <1>b, <3>3
  <2>3. CASE ChannelOpen'
    BY <1>c, <2>1, <2>2, <2>3
  <2>4. CASE ~ChannelOpen'
    BY <1>c, <2>1, <2>2, <2>4 DEF TxFifo!Next, TxFifo!Close
  <2>5. QED
    BY <2>3, <2>4
<1>2. CASE Ends /\ ~Setup
  <2>1. ChannelOpen /\ ~ChannelOpen' /\ ~Running'
    BY <1>2, Phases DEF Running
  <2>2. QED
    BY <1>b, <1>c, <2>1 DEF TxFifo!Next, TxFifo!Close
<1>3. SUFFICES ASSUME ~Setup, ~Ends
               PROVE  [TxFifo!Next]_<< TxChannel, ChannelOpen >>
  BY <1>1, <1>2
<1>4. ChannelOpen' = ChannelOpen /\ (Running' <=> Running)
  BY <1>c, <1>3, Phases DEF Running
<1>5. CASE ~Running
  BY <1>b, <1>4, <1>5, Channels
<1>6. ASSUME Running, te' = te, TxHeld' = TxHeld, txBody' = txBody, txHdr' = txHdr
      PROVE  [TxFifo!Next]_<< TxChannel, ChannelOpen >>
  <2>1. TxChannel' = TxChannel
    BY <1>b, <1>4, <1>6, Channels
  <2>2. QED
    BY <1>4, <2>1
<1>7. CASE Running /\ TxTake
  <2>1. txd[0] = te /\ TxSegment /\ ChannelOpen
    BY <1>7 DEF TxCursorAligned, TxTake, TxRingInv, Running
  <2>2. /\ Cardinality(TxHeld) \in 1 .. N
        /\ Cardinality(TxHeld') = Cardinality(TxHeld) - 1
        /\ te' = Plus(te, 1)
    BY <1>7, <2>1, TxGet
  <2>3. txBody' = txBody /\ txHdr' = txHdr
    BY <1>7 DEF TxTake
  <2>4. TxChannel # << >> /\ TxChannel' = Tail(TxChannel)
    BY <1>a, <1>b, <1>4, <1>7, <2>2, <2>3, Channels, RingSeqGet
  <2>5. QED
    BY <1>4, <2>1, <2>4 DEF TxFifo!Next, TxFifo!Get
<1>8. CASE Running /\ GuestSend
  <2> DEFINE n == Cardinality(TxHeld)
  <2>1. TxSegment /\ ChannelOpen
    BY <1>8 DEF TxRingInv, Running
  <2>2. n \in 0 .. N - 1 /\ Cardinality(TxHeld') = n + 1
    BY <1>8, <2>1, TxPut
  <2>3. /\ txBody' = txBody /\ txHdr' = [txHdr EXCEPT ![gtx] = sent + 1]
        /\ te' = te /\ gtx = Plus(te, n) /\ sent < MaxTx
    BY <1>8, <2>1 DEF GuestSend, history, TxSegment, ValuesInv
  <2>4. TxChannel = RingSeq(te, n, txBody, txHdr)
    BY <1>8, Channels
  <2>5. TxChannel' = RingSeq(te, n + 1, txBody', txHdr')
    BY <1>b, <1>4, <1>8, <2>2, <2>3
  <2> HIDE DEF n
  <2>6. SameIn(te, n, txBody, txHdr, txBody', txHdr')
    <3>1. Ahead(te, gtx) = n
      BY <1>a, <2>2, <2>3, RingAssumption DEF Plus, Ahead, Slot
    <3>2. QED
      BY <1>a, <2>2, <2>3, <3>1 DEF SameIn
  <2>7. TxChannel' = Append(TxChannel, << txBody'[gtx], txHdr'[gtx] >>)
    <3>1. RingSeq(te, n + 1, txBody', txHdr') =
            Append(RingSeq(te, n, txBody, txHdr),
                   << txBody'[Plus(te, n)], txHdr'[Plus(te, n)] >>)
      BY <1>a, <2>2, <2>6, RingSeqPut
    <3>2. QED
      BY <2>3, <2>4, <2>5, <3>1
  <2>8. << txBody'[gtx], txHdr'[gtx] >> \in Packets
    BY <1>a, <2>3, RingAssumption DEF Packets, ValuesInv, TypeOK, CursorsType
  <2>9. Len(TxChannel) < N
    BY <2>2, <2>4, RingAssumption DEF RingSeq
  <2>10. QED
    BY <1>4, <2>1, <2>7, <2>8, <2>9 DEF TxFifo!Next, TxFifo!Put
<1>9. CASE Running /\ GuestFill
  <2> DEFINE n == Cardinality(TxHeld)
  <2>1. /\ Segment(TxHeld, te, n) /\ gtx \notin TxHeld
        /\ txBody' = [txBody EXCEPT ![gtx] = sent + 1] /\ txHdr' = txHdr
        /\ te' = te /\ TxHeld' = TxHeld
    BY <1>9 DEF TxRingInv, TxSegment, GuestFill, history, TxHeld
  <2>2. /\ TxChannel = RingSeq(te, n, txBody, txHdr)
        /\ TxChannel' = RingSeq(te, n, txBody', txHdr')
    BY <1>b, <1>4, <1>9, <2>1, Channels
  <2>3. n \in 0 .. N
    BY <1>a
  <2> HIDE DEF n
  <2>4. SameIn(te, n, txBody, txHdr, txBody', txHdr')
    BY <1>a, <2>1 DEF Segment, SameIn
  <2>5. TxChannel' = TxChannel
    BY <1>a, <2>2, <2>3, <2>4, RingSeqSame
  <2>6. QED
    BY <1>4, <2>5
<1>10. CASE Running /\ (Choose \/ FirstDone \/ Sigint \/ GuestReceive
                        \/ UNCHANGED vars)
  BY <1>6, <1>10 DEF Choose, FirstDone, Sigint, GuestReceive, vars, txRing,
                     history, TxHeld
<1>11. ASSUME Running, NEW t \in Thread, RxLoop(t) \/ Quit(t)
       PROVE  [TxFifo!Next]_<< TxChannel, ChannelOpen >>
  BY <1>6, <1>11 DEF RxLoop, RxClaim, RxCopy, RxHand, Quit, txRing, history,
                     TxHeld
<1>12. ~(Running /\ Reset)
  BY DEF Running, ChannelOpen, Reset
<1>13. QED
  BY <1>3, <1>5, <1>7, <1>8, <1>9, <1>10, <1>11, <1>12
     DEF Next, Emulator, Guest, Finished, Ends

(* The same for the rx channel.                                            *)
LEMMA RxRefines ==
  TypeOK /\ RxWriteOwned /\ RxRingInv /\ ValuesInv /\ [Next]_vars
    => [RxFifo!Next]_<< RxChannel, ChannelOpen >>
<1> SUFFICES ASSUME TypeOK, RxWriteOwned, RxRingInv, ValuesInv, [Next]_vars
             PROVE  [RxFifo!Next]_<< RxChannel, ChannelOpen >>
  OBVIOUS
<1>a. /\ grx \in Slot /\ rxd \in Slot /\ rxOwn \in [Slot -> BOOLEAN]
      /\ txd \in [Thread -> Slot]
      /\ rxBody \in [Slot -> Nat] /\ rxHdr \in [Slot -> Nat]
      /\ Cardinality(RxHeld) \in 0 .. N
  <2>1. RxHeld \in SUBSET Slot
    BY DEF RxHeld
  <2>2. QED
    BY <2>1, SlotsFinite DEF TypeOK, CursorsType, RingsType
<1>b. /\ Running' => RxChannel' = RingSeq(grx', Cardinality(RxHeld'), rxBody', rxHdr')
      /\ ~Running' => RxChannel' = << >>
  BY DEF Running, RxChannel, RxHeld, RingSeq
<1>c. ChannelOpen \in BOOLEAN /\ ChannelOpen' \in BOOLEAN
  BY DEF ChannelOpen
<1>1. CASE Setup
  <2>1. ChannelOpen /\ RxChannel = << >>
    BY <1>1 DEF Setup, ChannelOpen, RxChannel
  <2>2. RxChannel' = << >>
    <3>1. RxHeld' = {}
      BY <1>1 DEF Setup, RxHeld
    <3>2. Cardinality(RxHeld') = 0
      BY <3>1, FS_EmptySet
    <3>3. Running' => RxChannel' = << >>
      BY <1>b, <3>2 DEF RingSeq
    <3>4. QED
      BY <1>b, <3>3
  <2>3. CASE ChannelOpen'
    BY <1>c, <2>1, <2>2, <2>3
  <2>4. CASE ~ChannelOpen'
    BY <1>c, <2>1, <2>2, <2>4 DEF RxFifo!Next, RxFifo!Close
  <2>5. QED
    BY <2>3, <2>4
<1>2. CASE Ends /\ ~Setup
  <2>1. ChannelOpen /\ ~ChannelOpen' /\ ~Running'
    BY <1>2, Phases DEF Running
  <2>2. QED
    BY <1>b, <1>c, <2>1 DEF RxFifo!Next, RxFifo!Close
<1>3. SUFFICES ASSUME ~Setup, ~Ends
               PROVE  [RxFifo!Next]_<< RxChannel, ChannelOpen >>
  BY <1>1, <1>2
<1>4. ChannelOpen' = ChannelOpen /\ (Running' <=> Running)
  BY <1>c, <1>3, Phases DEF Running
<1>5. CASE ~Running
  BY <1>b, <1>4, <1>5, Channels
<1>6. ASSUME Running, grx' = grx, RxHeld' = RxHeld, rxBody' = rxBody, rxHdr' = rxHdr
      PROVE  [RxFifo!Next]_<< RxChannel, ChannelOpen >>
  <2>1. RxChannel' = RxChannel
    BY <1>b, <1>4, <1>6, Channels
  <2>2. QED
    BY <1>4, <2>1
<1>7. CASE Running /\ GuestReceive
  <2>1. RxSegment /\ ChannelOpen
    BY <1>7 DEF RxRingInv, Running
  <2>2. /\ Cardinality(RxHeld) \in 1 .. N
        /\ Cardinality(RxHeld') = Cardinality(RxHeld) - 1
        /\ grx' = Plus(grx, 1)
    BY <1>7, <2>1, RxGet
  <2>3. rxBody' = rxBody /\ rxHdr' = rxHdr
    BY <1>7 DEF GuestReceive
  <2>4. RxChannel # << >> /\ RxChannel' = Tail(RxChannel)
    BY <1>a, <1>b, <1>4, <1>7, <2>2, <2>3, Channels, RingSeqGet
  <2>5. QED
    BY <1>4, <2>1, <2>4 DEF RxFifo!Next, RxFifo!Get
<1>8. ASSUME Running, NEW t \in Thread, RxHand(t)
      PROVE  [RxFifo!Next]_<< RxChannel, ChannelOpen >>
  <2> DEFINE n == Cardinality(RxHeld)
  <2>1. RxSegment /\ ChannelOpen /\ rxOwn[rxd]
    BY <1>8 DEF RxRingInv, Running, RxWriteOwned, RxHand
  <2>2. n \in 0 .. N - 1 /\ Cardinality(RxHeld') = n + 1
    BY <1>8, <2>1, RxPut
  <2>3. /\ rxBody' = rxBody /\ rxHdr' = [rxHdr EXCEPT ![rxd] = txHdr[txd[t]]]
        /\ grx' = grx /\ rxd = Plus(grx, n)
    BY <1>8, <2>1 DEF RxHand, guest, RxSegment
  <2>4. RxChannel = RingSeq(grx, n, rxBody, rxHdr)
    BY <1>8, Channels
  <2>5. RxChannel' = RingSeq(grx, n + 1, rxBody', rxHdr')
    BY <1>b, <1>4, <1>8, <2>2, <2>3
  <2> HIDE DEF n
  <2>6. SameIn(grx, n, rxBody, rxHdr, rxBody', rxHdr')
    <3>1. Ahead(grx, rxd) = n
      BY <1>a, <2>2, <2>3, RingAssumption DEF Plus, Ahead, Slot
    <3>2. QED
      BY <1>a, <2>2, <2>3, <3>1 DEF SameIn
  <2>7. RxChannel' = Append(RxChannel, << rxBody'[rxd], rxHdr'[rxd] >>)
    <3>1. RingSeq(grx, n + 1, rxBody', rxHdr') =
            Append(RingSeq(grx, n, rxBody, rxHdr),
                   << rxBody'[Plus(grx, n)], rxHdr'[Plus(grx, n)] >>)
      BY <1>a, <2>2, <2>6, RingSeqPut
    <3>2. QED
      BY <2>3, <2>4, <2>5, <3>1
  <2>8. << rxBody'[rxd], rxHdr'[rxd] >> \in Packets
    BY <1>a, <2>3 DEF Packets, ValuesInv
  <2>9. Len(RxChannel) < N
    BY <2>2, <2>4, RingAssumption DEF RingSeq
  <2>10. QED
    BY <1>4, <2>1, <2>7, <2>8, <2>9 DEF RxFifo!Next, RxFifo!Put
<1>9. ASSUME Running, NEW t \in Thread, RxCopy(t)
      PROVE  [RxFifo!Next]_<< RxChannel, ChannelOpen >>
  <2> DEFINE n == Cardinality(RxHeld)
  <2>1. Segment(RxHeld, grx, n) /\ rxOwn[rxd]
    BY <1>9 DEF RxRingInv, RxSegment, RxCopy, RxWriteOwned
  <2>2. /\ rxd \notin RxHeld
        /\ rxBody' = [rxBody EXCEPT ![rxd] = txBody[txd[t]]] /\ rxHdr' = rxHdr
        /\ grx' = grx /\ RxHeld' = RxHeld
    BY <1>9, <2>1 DEF RxCopy, guest, RxHeld
  <2>3. /\ RxChannel = RingSeq(grx, n, rxBody, rxHdr)
        /\ RxChannel' = RingSeq(grx, n, rxBody', rxHdr')
    BY <1>b, <1>4, <1>9, <2>2, Channels
  <2>4. n \in 0 .. N
    BY <1>a
  <2> HIDE DEF n
  <2>5. SameIn(grx, n, rxBody, rxHdr, rxBody', rxHdr')
    BY <1>a, <2>1, <2>2 DEF Segment, SameIn
  <2>6. RxChannel' = RxChannel
    BY <1>a, <2>3, <2>4, <2>5, RingSeqSame
  <2>7. QED
    BY <1>4, <2>6
<1>10. CASE Running /\ (Choose \/ TxTake \/ FirstDone \/ Sigint \/ GuestFill
                        \/ GuestSend \/ UNCHANGED vars)
  BY <1>6, <1>10 DEF Choose, TxTake, FirstDone, Sigint, GuestFill, GuestSend,
                     vars, rxRing, guest, RxHeld
<1>11. ASSUME Running, NEW t \in Thread, RxClaim(t) \/ Quit(t)
       PROVE  [RxFifo!Next]_<< RxChannel, ChannelOpen >>
  BY <1>6, <1>11 DEF RxClaim, Quit, rxRing, guest, RxHeld
<1>12. ~(Running /\ Reset)
  BY DEF Running, ChannelOpen, Reset
<1>13. QED
  BY <1>3, <1>5, <1>7, <1>8, <1>9, <1>10, <1>11, <1>12
     DEF Next, Emulator, RxLoop, Guest, Finished, Ends

(* Before set-up both channels are empty and both rings in order.          *)
LEMMA FifoInit ==
  Init => /\ TxRingInv /\ RxRingInv /\ ValuesInv
          /\ TxFifo!Init /\ RxFifo!Init
<1> SUFFICES ASSUME Init
             PROVE  /\ TxRingInv /\ RxRingInv /\ ValuesInv
                    /\ TxFifo!Init /\ RxFifo!Init
  OBVIOUS
<1>1. pc[0] = "init"
  BY DEF Init, Thread
<1>2. TxRingInv /\ RxRingInv
  BY <1>1 DEF Init, TxRingInv, RxRingInv, Running
<1>3. ValuesInv
  BY RingAssumption DEF Init, ValuesInv
<1>4. TxFifo!Init /\ RxFifo!Init
  BY <1>1 DEF TxFifo!Init, RxFifo!Init, TxChannel, RxChannel, ChannelOpen
<1>5. QED
  BY <1>2, <1>3, <1>4

(* What a packet in a ring is stays within what the guest sends.           *)
LEMMA ValuesInvariant == Spec => []ValuesInv
  BY FifoInit, ValuesStep, TypeCorrect, PTL DEF Spec

(* With bursts as long as the ring, as in hwemu.c, the tx ring implements  *)
(* a FIFO channel from the guest to the emulator: whatever the modes, the  *)
(* threads and the user do, no packet the guest sends is lost, duplicated, *)
(* changed or overtaken until main closes the rings.                       *)
THEOREM TxFifoSafe ==
  ASSUME Burst = N
  PROVE  Spec => TxIsFifo
<1>1. Spec => []TxCursorAligned
  BY TxCursorSafe
<1>2. Spec => []TxRingInv
  BY <1>1, FifoInit, TxRingStep, TypeCorrect, PTL DEF Spec
<1>3. QED
  BY <1>1, <1>2, FifoInit, TxRefines, TypeCorrect, ValuesInvariant, PTL
     DEF Spec, TxIsFifo, TxFifo!Spec

(* The rx ring implements a FIFO channel from the emulator to the guest,   *)
(* for rings and bursts of any length with Burst <= N.                     *)
THEOREM RxFifoSafe == Spec => RxIsFifo
<1>1. Spec => []RxRingInv
  BY FifoInit, RxRingStep, TypeCorrect, ThreadInvariant, RxWriteSafe, PTL
     DEF Spec
<1>2. QED
  BY <1>1, FifoInit, RxRefines, TypeCorrect, ValuesInvariant, RxWriteSafe, PTL
     DEF Spec, RxIsFifo, RxFifo!Spec
=============================================================================
