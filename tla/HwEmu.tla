------------------------------- MODULE HwEmu -------------------------------
(***************************************************************************)
(* The host-side hardware emulator (simeth_nic/hwemu.c).  It shares two    *)
(* rings of descriptors with a driver in the guest.  In each descriptor    *)
(* the bit ownedByFpga says who may use it: the emulator hands an rx       *)
(* descriptor to the guest, or a tx descriptor back to it, by clearing the *)
(* bit, and the guest sets the bit to give the descriptor to the emulator. *)
(*                                                                         *)
(* Thread 0 is main; thread 1 exists only in the two-thread mode and runs  *)
(* loop_rxonly.  SIGINT clears we_live at any moment.  The guest driver is *)
(* not part of the repository; it is modelled from the protocol the        *)
(* emulator expects of it.                                                 *)
(***************************************************************************)
EXTENDS Integers, FiniteSets, Sequences

CONSTANTS
  N,          \* descriptors per ring (32 in the code)
  Burst,      \* length of a burst (32 in the code)
  W,          \* the counters are unsigned and wrap at W (2^64 in the code)
  RunModes,   \* test sequences the user may select
  MaxTx,      \* bound: packets the guest sends
  MaxRx       \* bound: packets the guest receives

ASSUME RingAssumption ==
  /\ N \in Nat \ {0}
  /\ Burst \in Nat \ {0}
  /\ Burst <= N
  /\ W \in Nat \ {0}
  /\ MaxTx \in Nat /\ MaxRx \in Nat
  /\ RunModes \subseteq { "none", "txonly", "rxonly", "txfirst", "rxfirst",
                          "multi" }

VARIABLES
  we_live,    \* cleared by the signal handler
  mode,       \* the selected test sequence
  pc,         \* where each thread is
  rxtid,      \* "none", "created", or "garbage" after a failed pthread_create
  rxd,        \* index of the rx descriptor in the rx loop
  txd,        \* index of the tx descriptor, one per thread
  burst,      \* burst32_done of loop_rxtx
  rxburst,    \* burst32rx_done
  rxpkts,     \* rxpkts_cnt
  txpkts,     \* txpkts_cnt
  ri,         \* index of the ownership-resetting loop
  rxOwn, rxBody, rxHdr,     \* rx ring: ownedByFpga, bytes, len and type
  txOwn, txBody, txHdr,     \* tx ring
  grx, gtx, filling,        \* guest: its cursors, a tx descriptor half written
  sent, received,           \* guest: packets sent and received
  te,         \* history: index after the last tx descriptor taken
  delivered   \* history: number of rx descriptors handed to the guest

emulator == << mode, pc, rxtid, rxd, txd, burst, rxburst, rxpkts, txpkts, ri >>
rxRing   == << rxOwn, rxBody, rxHdr >>
txRing   == << txOwn, txBody, txHdr >>
guest    == << grx, gtx, filling, sent, received >>
history  == << te, delivered >>
vars     == << we_live, emulator, rxRing, txRing, guest, history >>

Thread == {0, 1}
Slot   == 0 .. N - 1
RxTx   == { "txfirst", "rxfirst" }

(* d = (++d <= last) ? d : base                                            *)
AdvPastEnd(i) == IF i + 1 <= N THEN i + 1 ELSE 0

AdvTwo(i) == IF i + 2 <= N - 1 THEN i + 2 ELSE 0

Adv(i) == IF i + 1 <= N - 1 THEN i + 1 ELSE 0

-----------------------------------------------------------------------------
(* The memory holds whatever was left in it.                               *)
Init ==
  /\ we_live = TRUE
  /\ mode = "none"
  /\ pc = [t \in Thread |-> IF t = 0 THEN "init" ELSE "off"]
  /\ rxtid = "none"
  /\ rxd = 0
  /\ txd = [t \in Thread |-> 0]
  /\ burst = 0 /\ rxburst = 0
  /\ rxpkts = 0 /\ txpkts = 0
  /\ ri = 0
  /\ rxOwn \in [Slot -> BOOLEAN] /\ txOwn \in [Slot -> BOOLEAN]
  /\ rxBody = [i \in Slot |-> 0] /\ rxHdr = [i \in Slot |-> 0]
  /\ txBody = [i \in Slot |-> 0] /\ txHdr = [i \in Slot |-> 0]
  /\ grx = 0 /\ gtx = 0 /\ filling = FALSE
  /\ sent = 0 /\ received = 0
  /\ te = 0 /\ delivered = 0

-----------------------------------------------------------------------------
(* main: before the loops.                                                 *)

(* Where main begins each sequence.                                        *)
StartPc(m) == CASE m = "none"    -> "reset"
                [] m = "txonly"  -> "tx_wait"
                [] m = "multi"   -> "tx_wait"
                [] m = "rxonly"  -> "rx_wait"
                [] m = "txfirst" -> "first_tx"
                [] m = "rxfirst" -> "first_done"

(* All rx descriptors to the emulator, all tx descriptors to the guest.    *)
(* With an argument main then creates the thread, without one it prompts.  *)
(* pthread_create reports an error with a positive number and leaves rxtid *)
(* undefined; main tests ret < 0 and goes on.                              *)
Setup ==
  /\ pc[0] = "init"
  /\ rxOwn' = [i \in Slot |-> TRUE]
  /\ txOwn' = [i \in Slot |-> FALSE]
  /\ \/ /\ RunModes # { "multi" }
        /\ pc' = [pc EXCEPT ![0] = "prompt"]
        /\ UNCHANGED << mode, rxtid >>
     \/ /\ "multi" \in RunModes
        /\ mode' = "multi"
        /\ \/ /\ rxtid' = "created"
              /\ pc' = [pc EXCEPT ![0] = StartPc("multi"), ![1] = "rx_wait"]
           \/ /\ rxtid' \in { "none", "garbage" }
              /\ pc' = [pc EXCEPT ![0] = StartPc("multi")]
  /\ UNCHANGED << we_live, rxd, txd, burst, rxburst, rxpkts, txpkts, ri,
                  rxBody, rxHdr, txBody, txHdr, guest, history >>

(* The user answers the prompt.  A scanf that reads no number leaves n     *)
(* undefined, which may be any answer; a number without a sequence ends    *)
(* like 0.  SIGINT does not end the wait: signal() has the read restarted. *)
Choose ==
  /\ pc[0] = "prompt"
  /\ \E m \in RunModes \ { "multi" } :
       mode' = m /\ pc' = [pc EXCEPT ![0] = StartPc(m)]
  /\ UNCHANGED << we_live, rxtid, rxd, txd, burst, rxburst, rxpkts, txpkts,
                  ri, rxRing, txRing, guest, history >>

(* sighandler                                                              *)
Sigint ==
  /\ we_live
  /\ we_live' = FALSE
  /\ UNCHANGED << emulator, rxRing, txRing, guest, history >>

-----------------------------------------------------------------------------
(* The loops.                                                              *)

(* The burst of which b descriptors were done ends with the next one.      *)
BurstEnds(b) == b + 1 = Burst

(* One iteration of a tx loop of main, alone in loop_txonly and counted by *)
(* burst32_done in loop_rxtx: wait for a descriptor of the guest, give it  *)
(* back, go on to the next.                                                *)
TxReady == txOwn[txd[0]]

TxTake ==
  /\ pc[0] \in { "tx_wait", "first_tx" }
  /\ we_live
  /\ TxReady
  /\ txOwn' = [txOwn EXCEPT ![txd[0]] = FALSE]
  /\ te' = Adv(txd[0])
  /\ txpkts' = (txpkts + 1) % W
  /\ txd' = [txd EXCEPT ![0] = Adv(@)]
  /\ IF mode \in RxTx
     THEN /\ burst' = IF BurstEnds(burst) THEN 0 ELSE burst + 1
          /\ pc' = IF ~BurstEnds(burst) THEN pc
                   ELSE [pc EXCEPT ![0] = IF @ = "first_tx"
                                          THEN "first_done" ELSE "rx_wait"]
     ELSE UNCHANGED << burst, pc >>
  /\ UNCHANGED << we_live, mode, rxtid, rxd, rxburst, rxpkts, ri, rxRing,
                  txBody, txHdr, guest, delivered >>

(* if (!we_live) goto ENDL: between the first burst and the main loop.     *)
FirstDone ==
  /\ pc[0] = "first_done"
  /\ we_live
  /\ pc' = [pc EXCEPT ![0] = "rx_wait"]
  /\ UNCHANGED << we_live, mode, rxtid, rxd, txd, burst, rxburst, rxpkts,
                  txpkts, ri, rxRing, txRing, guest, history >>

(* The first Burst rx descriptors are used without looking at their owner: *)
(* the bit was set for all of them before the loop began.                  *)
MayClaimOneMore == rxburst <= Burst \/ rxOwn[rxd]

MayClaim == rxburst = Burst => rxOwn[rxd]

RxClaim(t) ==
  /\ pc[t] = "rx_wait"
  /\ we_live
  /\ MayClaim
  /\ rxburst' = IF rxburst = Burst THEN rxburst ELSE rxburst + 1
  /\ pc' = [pc EXCEPT ![t] = "rx_copy"]
  /\ UNCHANGED << we_live, mode, rxtid, rxd, txd, burst, rxpkts, txpkts, ri,
                  rxRing, txRing, guest, history >>

(* memcpy of the bytes of the tx descriptor at the thread's own tx cursor, *)
(* whoever owns it.  The code does not check len, which the guest writes;  *)
(* the model takes it to be no more than bytes[] holds.                    *)
RxCopy(t) ==
  /\ pc[t] = "rx_copy"
  /\ rxBody' = [rxBody EXCEPT ![rxd] = txBody[txd[t]]]
  /\ pc' = [pc EXCEPT ![t] = "rx_hand"]
  /\ UNCHANGED << we_live, mode, rxtid, rxd, txd, burst, rxburst, rxpkts,
                  txpkts, ri, rxOwn, rxHdr, txRing, guest, history >>

(* len and packet_type, then the descriptor is the guest's.                *)
RxHand(t) ==
  /\ pc[t] = "rx_hand"
  /\ rxHdr' = [rxHdr EXCEPT ![rxd] = txHdr[txd[t]]]
  /\ rxOwn' = [rxOwn EXCEPT ![rxd] = FALSE]
  /\ delivered' = delivered + 1
  /\ rxpkts' = IF rxburst = Burst THEN (rxpkts + 1) % W ELSE rxpkts
  /\ rxd' = Adv(rxd)
  /\ txd' = [txd EXCEPT ![t] = Adv(@)]
  /\ IF mode \in RxTx
     THEN /\ burst' = IF BurstEnds(burst) THEN 0 ELSE burst + 1
          /\ pc' = [pc EXCEPT ![t] = IF BurstEnds(burst) THEN "tx_wait"
                                                         ELSE "rx_wait"]
     ELSE /\ pc' = [pc EXCEPT ![t] = "rx_wait"]
          /\ UNCHANGED burst
  /\ UNCHANGED << we_live, mode, rxtid, rxburst, txpkts, ri, rxBody, txRing,
                  guest, te >>

(* The tests of we_live: a thread leaves its loop from wherever it waits.  *)
(* rxpkts_cnt is decremented after the loops that receive, but not on the  *)
(* way to ENDL.                                                            *)
Waiting == { "tx_wait", "first_tx", "first_done", "rx_wait" }

MayQuitOnlyIfReady(t) ==
  pc[t] \in Waiting /\ (pc[t] = "rx_wait" => MayClaim)

MayQuit(t) == pc[t] \in Waiting

LeavesRxLoop(t) == \/ pc[t] = "rx_wait"
                   \/ pc[t] = "tx_wait" /\ mode \in RxTx

CountNotCorrected(t) == rxpkts

FinalRxCount(t) == IF LeavesRxLoop(t) THEN (rxpkts - 1) % W ELSE rxpkts

Quit(t) ==
  /\ MayQuit(t)
  /\ ~we_live
  /\ rxpkts' = FinalRxCount(t)
  /\ pc' = [pc EXCEPT ![t] = "quit"]
  /\ UNCHANGED << we_live, mode, rxtid, rxd, txd, burst, rxburst, txpkts, ri,
                  rxRing, txRing, guest, history >>

-----------------------------------------------------------------------------
(* main: after the loops.                                                  *)

(* pthread_join waits for a thread that exists; for an identifier that     *)
(* names none it returns an error or the process crashes.                  *)
Joined == rxtid = "created" => pc[1] = "quit"

Join ==
  /\ pc[0] = "quit"
  /\ Joined
  /\ pc' \in { [pc EXCEPT ![0] = "reset"] } \cup
             { p \in { [pc EXCEPT ![0] = "crashed"] } : rxtid = "garbage" }
  /\ UNCHANGED << we_live, mode, rxtid, rxd, txd, burst, rxburst, rxpkts,
                  txpkts, ri, rxRing, txRing, guest, history >>

(* One iteration of the loop after END.  The guest may be running.         *)
Reset ==
  /\ pc[0] = "reset"
  /\ rxOwn' = [rxOwn EXCEPT ![ri] = TRUE]
  /\ txOwn' = [txOwn EXCEPT ![ri] = FALSE]
  /\ ri' = Adv(ri)
  /\ pc' = IF Adv(ri) = 0 THEN [pc EXCEPT ![0] = "done"] ELSE pc
  /\ UNCHANGED << we_live, mode, rxtid, rxd, txd, burst, rxburst, rxpkts,
                  txpkts, rxBody, rxHdr, txBody, txHdr, guest, history >>

-----------------------------------------------------------------------------
(* The guest driver (external).  It attaches once the emulator has set up  *)
(* the rings, and works through both in order.                             *)

Attached == pc[0] \notin { "init", "done", "crashed" }

GuestAdv(i) == (i + 1) % N

GuestFill ==
  /\ Attached /\ ~filling /\ ~txOwn[gtx] /\ sent < MaxTx
  /\ txBody' = [txBody EXCEPT ![gtx] = sent + 1]
  /\ filling' = TRUE
  /\ UNCHANGED << we_live, emulator, rxRing, txOwn, txHdr, grx, gtx, sent,
                  received, history >>

GuestSend ==
  /\ Attached /\ filling
  /\ txHdr' = [txHdr EXCEPT ![gtx] = sent + 1]
  /\ txOwn' = [txOwn EXCEPT ![gtx] = TRUE]
  /\ gtx' = GuestAdv(gtx)
  /\ sent' = sent + 1
  /\ filling' = FALSE
  /\ UNCHANGED << we_live, emulator, rxRing, txBody, grx, received, history >>

GuestReceive ==
  /\ Attached /\ ~rxOwn[grx] /\ received < MaxRx
  /\ rxOwn' = [rxOwn EXCEPT ![grx] = TRUE]
  /\ grx' = GuestAdv(grx)
  /\ received' = received + 1
  /\ UNCHANGED << we_live, emulator, rxBody, rxHdr, txRing, gtx, filling,
                  sent, history >>

-----------------------------------------------------------------------------
Terminated == pc[0] \in { "done", "crashed" }

(* The process has ended; nothing is left to do.                           *)
Finished == Terminated /\ UNCHANGED vars

RxLoop(t) == RxClaim(t) \/ RxCopy(t) \/ RxHand(t)

Emulator == \/ Setup \/ Choose \/ TxTake \/ FirstDone \/ Join \/ Reset
            \/ \E t \in Thread : RxLoop(t) \/ Quit(t)

Guest == GuestFill \/ GuestSend \/ GuestReceive

Next == Emulator \/ Guest \/ Sigint \/ Finished

Spec == Init /\ [][Next]_vars

(* Both threads are scheduled for ever; nothing is assumed of the guest,   *)
(* nor of the user, who may send SIGINT and need not answer the prompt.    *)
Fairness ==
  /\ WF_vars(Setup) /\ WF_vars(TxTake) /\ WF_vars(FirstDone)
  /\ WF_vars(Join) /\ WF_vars(Reset)
  /\ \A t \in Thread : WF_vars(RxLoop(t)) /\ WF_vars(Quit(t))

FairSpec == Spec /\ Fairness

-----------------------------------------------------------------------------
(* Properties.                                                             *)

Places == Waiting \cup { "init", "prompt", "off", "rx_copy", "rx_hand", "quit",
                         "reset", "done", "crashed" }

ControlType ==
  /\ we_live \in BOOLEAN
  /\ mode \in { "none", "txonly", "rxonly", "txfirst", "rxfirst", "multi" }
  /\ pc \in [Thread -> Places]
  /\ rxtid \in { "none", "created", "garbage" }

CursorsType ==
  /\ rxd \in Slot /\ txd \in [Thread -> Slot] /\ ri \in Slot /\ te \in Slot
  /\ grx \in Slot /\ gtx \in Slot
  /\ burst \in 0 .. Burst - 1 /\ rxburst \in 0 .. Burst
  /\ rxpkts \in 0 .. W - 1 /\ txpkts \in 0 .. W - 1
  /\ sent \in Nat /\ received \in Nat /\ delivered \in Nat

RingsType ==
  /\ rxOwn \in [Slot -> BOOLEAN] /\ txOwn \in [Slot -> BOOLEAN]
  /\ rxBody \in [Slot -> Nat] /\ rxHdr \in [Slot -> Nat]
  /\ txBody \in [Slot -> Nat] /\ txHdr \in [Slot -> Nat]
  /\ filling \in BOOLEAN

(* Every variable keeps its type: above all, each cursor stays inside its  *)
(* ring (the pointer comparisons with txd_last and rxd_last).              *)
TypeOK == ControlType /\ CursorsType /\ RingsType

(* The emulator writes only rx descriptors it owns, although loop_rxonly   *)
(* and loop_rxtx do not look at the owner during the first burst: a packet *)
(* the guest has not yet read is never overwritten.                        *)
RxWriteOwned ==
  \A t \in Thread : pc[t] \in { "rx_copy", "rx_hand" } => rxOwn[rxd]

(* loop_rxtx uses one tx cursor for both kinds of bursts, and the rx       *)
(* bursts move it too.  Whenever a tx burst looks at a descriptor it is    *)
(* the one after the last it took: none is skipped, none is taken twice.   *)
TxCursorAligned ==
  pc[0] \in { "tx_wait", "first_tx" } => txd[0] = te

(* main resets the ownership bits only when no loop runs any more          *)
(* (pthread_join): no reset can race with a hand-over by thread 1.         *)
ResetAfterLoops ==
  pc[0] \in { "reset", "done" } => pc[1] \in { "off", "quit" }

(* The count a receiving loop leaves behind is the number of packets       *)
(* delivered beyond the first burst, one or many, modulo the counter's     *)
(* width: the correction by one after the loop is right once.  A loop that *)
(* ends within the first burst leaves the largest number, as its counter   *)
(* is decremented at 0, unless loop_rxtx went to ENDL before its main loop.*)
RxCountExact ==
  \A t \in Thread :
    pc[t] = "quit" /\ mode # "txonly" /\ (mode = "multi" => t = 1) =>
      \/ rxpkts = IF delivered >= Burst THEN (delivered - Burst) % W
                                        ELSE W - 1
      \/ mode \in RxTx /\ delivered = 0 /\ rxpkts = 0

(* After SIGINT the program ends, whatever the guest does or fails to do,  *)
(* unless it waits at its prompt: no loop waits for an owner bit without   *)
(* looking at we_live, and no loop is begun again.                         *)
SigintTerminates == ~we_live ~> (Terminated \/ pc[0] = "prompt")

(* With the tx loop on a thread of its own, or alone, a packet the guest   *)
(* sends is taken even if the guest never reads what it is sent.           *)
TxServed ==
  \A i \in Slot :
    (mode \in { "txonly", "multi" } /\ txOwn[i]) ~> (~txOwn[i] \/ ~we_live)

(* Between set-up and the reset each ring is a FIFO channel.  The tx       *)
(* channel holds the descriptors from te on that the emulator owns, the rx *)
(* channel those from the guest's cursor on that it does not own.          *)
ChannelOpen == pc[0] \notin { "reset", "done", "crashed" }

RingSeq(start, n, body, hdr) ==
  [k \in 1 .. n |-> << body[(start + k - 1) % N], hdr[(start + k - 1) % N] >>]

TxChannel ==
  IF pc[0] = "init" \/ ~ChannelOpen THEN << >>
  ELSE RingSeq(te, Cardinality({ i \in Slot : txOwn[i] }), txBody, txHdr)

RxChannel ==
  IF pc[0] = "init" \/ ~ChannelOpen THEN << >>
  ELSE RingSeq(grx, Cardinality({ i \in Slot : ~rxOwn[i] }), rxBody, rxHdr)

Packets == (0 .. MaxTx) \X (0 .. MaxTx)

TxFifo == INSTANCE RingFifo WITH Values <- Packets, Capacity <- N,
                                 q <- TxChannel, open <- ChannelOpen

RxFifo == INSTANCE RingFifo WITH Values <- Packets, Capacity <- N,
                                 q <- RxChannel, open <- ChannelOpen

(* The tx ring implements a FIFO channel from the guest to the emulator.   *)
TxIsFifo == TxFifo!Spec

(* The rx ring implements a FIFO channel from the emulator to the guest.   *)
RxIsFifo == RxFifo!Spec

-----------------------------------------------------------------------------
(* What comments and messages of hwemu.c say and the code does not do.     *)

(* "1 unwanted increment in above logic.. so decrement": the count printed *)
(* by a receiving loop is a count of packets it delivered.                 *)
RxCountPlausible ==
  \A t \in Thread : pc[t] = "quit" => rxpkts <= delivered

(* "Main Thread0 takes tx and new Thread1 takes rx": in the two-thread     *)
(* mode main does not run its tx loop without an rx thread.                *)
MultiHasRxThread ==
  mode = "multi" /\ pc[0] = "tx_wait" => pc[1] # "off"
=============================================================================
