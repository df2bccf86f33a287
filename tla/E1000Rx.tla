------------------------------ MODULE E1000Rx ------------------------------
(***************************************************************************)
(* The receive ring of the e1000 driver, in both of its forms: one frame   *)
(* per buffer (e1000_clean_rx_irq) and, with a large mtu, frames chained   *)
(* over pages (e1000_clean_jumbo_rx_irq).  The hardware fills the slots    *)
(* from its head up to the tail register; the poll takes them off, and     *)
(* gives buffers back in batches.  Any allocation may fail.                *)
(***************************************************************************)
EXTENDS Naturals

CONSTANTS
  N,        \* rx_ring->count
  Weight,   \* work_to_do of a poll
  Batch,    \* E1000_RX_BUFFER_WRITE
  Mac82542  \* revision 2.0, which restarts the receive unit to set filters

ASSUME RxAssumption ==
  /\ N \in Nat /\ N > 2 /\ Weight \in Nat \ {0} /\ Batch \in Nat \ {0}
  /\ Mac82542 \in BOOLEAN

Slot == 0..(N - 1)

\* What a descriptor reports.  The driver sees DD, EOP and errors only: it
\* cannot tell a whole frame from the last part of one.
More == { "first", "middle" }
Faulty == { "bad", "badlast" }
Ends == { "last", "badlast" }
Written == More \cup Faulty \cup Ends \cup { "whole" }

VARIABLES
  jumbo,             \* which clean_rx and alloc_rx_buf e1000_configure_rx chose
  ntc, ntu,          \* next_to_clean, next_to_use
  rdt, head, inside, \* RDT, RDH; the hardware is inside a frame
  buf, dma,          \* buffer_info: memory; mapped
  stat,              \* descriptor status: "clear", or what was written
  poll, at,          \* clean_rx: place, i
  work, count,       \* work_done, cleaned_count
  discarding,        \* adapter->discarding
  top,               \* rx_skb_top: "none", the "front" of the frame being
                     \* received, or parts with a "gap"
  freed,             \* napi->skb was freed, and is still cached
  broken,            \* a descriptor was skipped, or the ring emptied, in a poll
  stale,             \* discarding is left from before the ring was emptied
  reused,            \* the freed one was used, or freed again
  wrong, tossed      \* a fragment was delivered; a whole frame was tossed

ring == << ntc, ntu, rdt >>
slots == << buf, dma, stat >>
loop == << poll, at, work, count >>
ghost == << broken, stale, reused, wrong, tossed >>
vars == << jumbo, ring, head, inside, slots, loop, discarding, top, freed,
           ghost >>

Inc(i, k) == (i + k) % N
Dist(i, j) == (j + N - i) % N
Span(i, k) == { Inc(i, j) : j \in 0..(k - 1) }

\* E1000_DESC_UNUSED
Unused == (IF ntc > ntu THEN 0 ELSE N) + ntc - ntu - 1

-----------------------------------------------------------------------------
(* alloc_rx_buf                                                            *)

\* A slot that kept its buffer is given back as it is; a page that was
\* unmapped must be mapped again.
NeedsMemory(i) == ~buf[i] \/ (jumbo /\ ~dma[i])

\* Of the k slots asked for, j are filled: all, or those before a failure.
\* The tail register trails next_to_use by one.
RefillSkips(k, j) ==
  /\ j = k \/ (j < k /\ NeedsMemory(Inc(ntu, j)))
  /\ buf' = [i \in Slot |-> buf[i] \/ i \in Span(ntu, j)]
  /\ dma' = [i \in Slot |-> dma[i] \/ i \in Span(ntu, j)]
  /\ ntu' = Inc(ntu, k)
  /\ rdt' = IF k > 0 THEN Inc(ntu, k - 1) ELSE rdt

RefillNoTail(k, j) ==
  /\ j = k
  /\ buf' = [i \in Slot |-> buf[i] \/ i \in Span(ntu, j)]
  /\ dma' = [i \in Slot |-> dma[i] \/ i \in Span(ntu, j)]
  /\ ntu' = Inc(ntu, j)
  /\ UNCHANGED rdt

Refill(k, j) ==
  /\ j = k \/ (j < k /\ NeedsMemory(Inc(ntu, j)))
  /\ LET given == Span(ntu, j)
         failed == IF j < k THEN { Inc(ntu, j) } ELSE {}
     IN /\ buf' = [i \in Slot |-> i \in given \/ (buf[i] /\ i \notin failed)]
        /\ dma' = [i \in Slot |-> i \in given \/ (dma[i] /\ i \notin failed)]
  /\ ntu' = Inc(ntu, j)
  /\ rdt' = IF j > 0 THEN Inc(ntu, j - 1) ELSE rdt

\* e1000_clean_rx_ring empties the ring, frees napi->skb (napi_free_frags)
\* and writes both registers, e1000_configure_rx chooses the functions by the
\* mtu, and alloc_rx_buf fills j slots.
Filled(j) == [i \in Slot |-> i < j]
Restart(big, j) ==
  /\ j < N
  /\ jumbo' = big
  /\ buf' = Filled(j) /\ dma' = Filled(j)
  /\ stat' = [i \in Slot |-> "clear"]
  /\ ntc' = 0 /\ ntu' = j /\ rdt' = (IF j > 0 THEN j - 1 ELSE 0) /\ head' = 0
  /\ inside' = FALSE /\ top' = "none"
  /\ reused' = (reused \/ freed) /\ freed' = FALSE

\* A ring that a skipped descriptor, or a restart under the poll, left
\* inconsistent is not followed any further until the next reset, and nothing
\* is once freed memory was used.
Sound == ~broken /\ ~reused

Init ==
  /\ jumbo \in BOOLEAN
  /\ \E j \in 0..(N - 1) :
       /\ buf = Filled(j) /\ dma = Filled(j)
       /\ ntu = j /\ rdt = (IF j > 0 THEN j - 1 ELSE 0)
  /\ stat = [i \in Slot |-> "clear"]
  /\ ntc = 0 /\ head = 0 /\ inside = FALSE
  /\ poll = "idle" /\ at = 0 /\ work = 0 /\ count = 0
  /\ discarding = FALSE /\ top = "none" /\ freed = FALSE
  /\ broken = FALSE /\ stale = FALSE /\ reused = FALSE
  /\ wrong = FALSE /\ tossed = "none"

-----------------------------------------------------------------------------
(* The hardware writes frames, over several slots when they are long.      *)

HwWrite(s) ==
  /\ Sound /\ head # rdt
  /\ s \in IF inside THEN Ends \cup { "middle" }
                     ELSE { "whole", "bad", "first" }
  /\ stat' = [stat EXCEPT ![head] = s]
  /\ head' = Inc(head, 1) /\ inside' = (s \in More)
  /\ UNCHANGED << jumbo, ring, buf, dma, loop, discarding, top, freed, ghost >>

-----------------------------------------------------------------------------
(* The poll                                                                *)

PollStart ==
  /\ Sound /\ poll = "idle"
  /\ poll' = "clean" /\ at' = ntc /\ work' = 0 /\ count' = 0
  /\ UNCHANGED << jumbo, ring, head, inside, slots, discarding, top, freed,
                  ghost >>

\* The loop goes on with the slot at i, or ends.
Going == Sound /\ poll = "clean" /\ stat[at] # "clear" /\ work < Weight

\* next_desc: the slot is clear, and a batch is given back.
NextDesc ==
  /\ stat' = [stat EXCEPT ![at] = "clear"]
  /\ at' = Inc(at, 1) /\ work' = work + 1 /\ count' = count + 1
  /\ poll' = IF count + 1 >= Batch THEN "return" ELSE "clean"

Keep == UNCHANGED << buf, dma >>
Take == buf' = [buf EXCEPT ![at] = FALSE] /\ dma' = [dma EXCEPT ![at] = FALSE]

\* e1000_clean_rx_irq.  A short frame is copied and its buffer kept, the
\* buffer of another becomes the packet.  Every part of a frame that takes
\* several slots is tossed.  A frame with errors is tossed, too, unless the
\* TBI workaround or RXALL accepts it.
DiscardForgets(eop) == FALSE
DiscardSticks(eop) == discarding \/ ~eop
DiscardAfter(eop) == ~eop

Receive(accept) ==
  /\ ~jumbo /\ Going
  /\ LET s == stat[at]
         eop == s \notin More
     IN /\ discarding' = DiscardAfter(eop)
        /\ stale' = (stale /\ ~eop)
        /\ tossed' = CASE s # "whole" \/ ~discarding -> tossed
                       [] stale -> "stale"
                       [] OTHER -> "fresh"
        /\ wrong' = (wrong \/ (/\ s \in Ends /\ ~discarding
                               /\ s \notin Faulty \/ accept))
  /\ Keep \/ Take
  /\ NextDesc
  /\ UNCHANGED << jumbo, ring, head, inside, top, freed, broken, reused >>

\* e1000_clean_jumbo_rx_irq.  The page is unmapped first.
Unmap == dma' = [dma EXCEPT ![at] = FALSE]
KeepPage == Unmap /\ UNCHANGED buf

\* napi_get_frags hands out the skb that napi->skb caches.
GetFrags == reused' = (reused \/ freed)

\* An error ends the chain: its skb is freed, but napi->skb is not forgotten.
\* The page is kept.
JumboError ==
  /\ jumbo /\ Going /\ stat[at] \in Faulty
  /\ top' = "none" /\ freed' = (freed \/ top # "none")
  /\ KeepPage /\ NextDesc
  /\ UNCHANGED << jumbo, ring, head, inside, discarding, ghost >>

\* The beginning or the middle of a chain.
JumboChain ==
  /\ jumbo /\ Going /\ stat[at] \in More
  /\ top' = IF \/ top = "none" /\ stat[at] = "first"
               \/ top = "front" /\ stat[at] = "middle"
            THEN "front" ELSE "gap"
  /\ IF top = "none" THEN GetFrags ELSE UNCHANGED reused
  /\ Take /\ NextDesc
  /\ UNCHANGED << jumbo, ring, head, inside, discarding, freed, broken, stale,
                  wrong, tossed >>

\* The end of a chain, or a frame in one page, which may be copied.
JumboEnd ==
  /\ jumbo /\ Going /\ stat[at] \notin More
  /\ wrong' = (wrong \/ ~\/ top = "front" /\ stat[at] \in Ends
                         \/ top = "none" /\ stat[at] \notin Ends)
  /\ \/ top # "none" /\ Take /\ UNCHANGED reused
     \/ top = "none" /\ Take /\ GetFrags
     \/ top = "none" /\ KeepPage /\ UNCHANGED reused
  /\ top' = "none"
  /\ NextDesc
  /\ UNCHANGED << jumbo, ring, head, inside, discarding, freed, broken, stale,
                  tossed >>

\* An allocation fails.  e1000_clean_rx_irq leaves the loop before it counts
\* the slot, and will see it again; e1000_clean_jumbo_rx_irq has already gone
\* past it, and leaves its status set.
ReceiveBreak ==
  /\ ~jumbo /\ Going
  /\ work' = work + 1 /\ poll' = "refill"
  /\ UNCHANGED << jumbo, ring, head, inside, slots, at, count, discarding, top,
                  freed, ghost >>

JumboBreak ==
  /\ jumbo /\ Going /\ top = "none" /\ (stat[at] \in More => ~freed)
  /\ KeepPage
  /\ at' = Inc(at, 1) /\ work' = work + 1 /\ count' = count + 1
  /\ poll' = "refill" /\ broken' = TRUE
  /\ UNCHANGED << jumbo, ring, head, inside, stat, discarding, top, freed,
                  stale, reused, wrong, tossed >>

PollDesc ==
  \/ (\E accept \in BOOLEAN : Receive(accept))
  \/ JumboError \/ JumboChain \/ JumboEnd

PollBreak == ReceiveBreak \/ JumboBreak

\* "return some buffers to hardware, one at a time is too slow"
PollReturn(j) ==
  /\ Sound /\ poll = "return"
  /\ Refill(count, j)
  /\ count' = 0 /\ poll' = "clean"
  /\ UNCHANGED << jumbo, ntc, head, inside, stat, at, work, discarding, top,
                  freed, ghost >>

PollStore ==
  /\ Sound
  /\ (poll = "clean" /\ ~Going) \/ poll = "refill"
  /\ ntc' = at
  /\ poll' = "store" /\ count' = 0
  /\ UNCHANGED << jumbo, ntu, rdt, head, inside, slots, at, work, discarding,
                  top, freed, ghost >>

PollRefill(j) ==
  /\ Sound /\ poll = "store"
  /\ Refill(Unused, j)
  /\ poll' = "idle" /\ work' = 0
  /\ UNCHANGED << jumbo, ntc, head, inside, stat, at, count, discarding, top,
                  freed, ghost >>

-----------------------------------------------------------------------------
(* Restarts.  Neither clears adapter->discarding.                          *)

\* e1000_down, which waits for the poll, and e1000_up; e1000_change_mtu may
\* have run in between.
Reset(big, j) ==
  /\ poll = "idle" \/ ~Sound
  /\ Restart(big, j)
  /\ poll' = "idle" /\ at' = 0 /\ work' = 0 /\ count' = 0
  /\ stale' = discarding
  /\ broken' = FALSE /\ wrong' = FALSE /\ tossed' = "none"
  /\ UNCHANGED discarding

\* e1000_enter_82542_rst and e1000_leave_82542_rst around a write of the
\* address filters, which wait for nobody.
Restart82542(j) ==
  /\ Sound /\ Mac82542
  /\ Restart(jumbo, j)
  /\ broken' = (broken \/ poll # "idle")
  /\ stale' = discarding
  /\ UNCHANGED << loop, discarding, wrong, tossed >>

Next ==
  \/ (\E s \in Written : HwWrite(s))
  \/ PollStart \/ PollDesc \/ PollBreak \/ PollStore
  \/ (\E j \in 0..N : PollReturn(j) \/ PollRefill(j) \/ Restart82542(j))
  \/ (\E big \in BOOLEAN, j \in 0..N : Reset(big, j))

\* The watchdog's software interrupt starts a poll every two seconds; a
\* shortage of memory ends.
Fairness ==
  /\ WF_vars(PollStart) /\ WF_vars(PollStore)
  /\ SF_vars(PollDesc)
  /\ SF_vars(PollReturn(count)) /\ SF_vars(PollRefill(Unused))
  /\ WF_vars(\E j \in 0..N : PollReturn(j) \/ PollRefill(j))

Spec == Init /\ [][Next]_vars /\ Fairness

-----------------------------------------------------------------------------

\* Every variable keeps its type.
TypeOK ==
  /\ { ntc, ntu, rdt, head, at } \subseteq Slot
  /\ buf \in [Slot -> BOOLEAN] /\ dma \in [Slot -> BOOLEAN]
  /\ stat \in [Slot -> Written \cup { "clear" }]
  /\ poll \in { "idle", "clean", "return", "refill", "store" }
  /\ work \in 0..Weight /\ count \in 0..Batch
  /\ top \in { "none", "front", "gap" }
  /\ tossed \in { "none", "stale", "fresh" }
  /\ { jumbo, inside, discarding, freed, broken, stale, reused, wrong }
       \subseteq BOOLEAN

\* The next slot that the poll takes off.
Oldest == IF poll = "idle" THEN ntc ELSE at

\* From the poll to the head the slots hold what the hardware wrote, from the
\* head to the tail memory it may write; the tail never reaches the poll,
\* whether buffers are given back in batches or after a failure.  (And every
\* variable keeps its type.)
RingAgrees ==
  /\ TypeOK
  /\ Sound =>
    /\ Dist(Oldest, head) <= Dist(Oldest, rdt)
    /\ \A i \in Span(Oldest, Dist(Oldest, head)) : stat[i] # "clear"
    /\ \A i \in Span(head, Dist(head, rdt)) : stat[i] = "clear"
    /\ \A i \in Span(Oldest, Dist(Oldest, rdt)) : buf[i] /\ dma[i]

\* What is delivered is a whole frame: the single-frame poll delivers no part
\* of a longer one, and the chains of the jumbo poll have neither gaps nor parts
\* of two frames.  This holds as long as the ring is followed: a failed
\* allocation makes the jumbo poll skip a descriptor, and an error within a
\* chain leaves a freed skb in napi->skb.
OnlyWholeFrames == Sound => ~wrong

\* "... the next frame that does have the EOP bit set, as it is by definition
\* only a frame fragment": between two restarts no whole frame is tossed.
TossedAreFragments == Sound => tossed # "fresh"

\* The same, across restarts, which leave adapter->discarding as it is.
NoWholeFrameTossed == Sound => tossed = "none"

\* A hardware that ran out of buffers is given new ones.
BuffersReturn == head = rdt ~> head # rdt \/ ~Sound

\* The skb of a chain that was freed is not used any more.  The code refutes
\* this: napi_get_frags returns it for the next frame.
NoFreedSkbUsed == ~reused

\* The jumbo poll clears every descriptor it goes past.  The code refutes this
\* when an allocation fails.
NoDescriptorSkipped == jumbo /\ ~Mac82542 => ~broken
=============================================================================
