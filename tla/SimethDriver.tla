---------------------------- MODULE SimethDriver ----------------------------
(***************************************************************************)
(* The life of one simeth network device (simeth/simeth.c): the PCI probe  *)
(* with its error unwinding, ndo_open and ndo_stop under the rtnl lock,    *)
(* the self-rearming receive timer, the optional device interrupt, and     *)
(* the removal of the device.                                              *)
(*                                                                         *)
(* Three threads of the kernel meet in this code: the driver core (probe   *)
(* and remove, never both at once), the holder of the rtnl lock (open and  *)
(* stop) and the timer softirq.  A fourth writes the module parameters     *)
(* through sysfs, which their mode 0660 allows at any time.                *)
(***************************************************************************)
EXTENDS Naturals, FiniteSets, Sequences, SimethParams

CONSTANTS
  Modes,          \* values g_rx_irqtimer may be given
  DescParams,     \* values g_n_txds and g_n_rxds may be given
  RuntimeWrites,  \* whether parameters are written after the module is loaded
  MaxOpens        \* bound: how many times the interface is brought up

ASSUME DriverAssumption ==
  /\ Modes \subseteq Nat
  /\ DescParams \subseteq Nat
  /\ RuntimeWrites \in BOOLEAN
  /\ MaxOpens \in Nat

VARIABLES
  g_rx_irqtimer,  \* 0: device interrupt, 1: timer, anything else: neither
  g_n_txds,       \* descriptors of the tx queue
  g_n_rxds,       \* descriptors of the rx queue
  core,           \* where the driver core's thread is in probe or remove
  held,           \* what the device now holds of the kernel's resources
  leaked,         \* kinds of resources no driver code can release any more
  ioaddr,         \* adapter->ioaddr has been assigned
  rtnl,           \* where the rtnl holder is in open or stop
  up,             \* the interface is up (the core's IFF_UP)
  carrier,        \* netif_carrier_ok
  txoff,          \* the driver has stopped the device's tx queue
  napi,           \* "absent", "disabled" or "enabled"
  txq, rxq,       \* the two queues
  lost,           \* ring buffers allocated, not freed and no longer pointed to
  timer,          \* rxtimer: queued in the timer wheel, callback running
  irqh,           \* simeth_irqh registrations with dev_id adapter
  opens           \* number of opens so far (bounds the model)

params  == << g_rx_irqtimer, g_n_txds, g_n_rxds >>
binding == << held, leaked, ioaddr >>
link    == << up, carrier, txoff >>
queues  == << txq, rxq, lost >>
irqs    == << timer, irqh >>
vars    == << params, core, binding, rtnl, link, napi, queues, irqs, opens >>

-----------------------------------------------------------------------------
(* Resources.                                                              *)

Resources == { "netdev", "pci", "mwi", "regions", "iomap", "master",
               "napi", "txq", "rxq", "netreg" }

(* A queue as memset leaves it, and what _simeth_setup_q makes of it for n *)
(* descriptors.  vzalloc may fail (it always does for no bytes), and so    *)
(* may dma_alloc_coherent; then bring is freed and keeps its value, and    *)
(* n_desc is still 0.                                                      *)
NullQ == [bring |-> "null", dring |-> "null", n_desc |-> 0]

SetupQEarlyCount(n) ==
  { [q |-> NullQ, ok |-> FALSE],
    [q |-> [NullQ EXCEPT !.bring = "freed", !.n_desc = n], ok |-> FALSE],
    [q |-> [bring |-> "mem", dring |-> "mem", n_desc |-> n], ok |-> TRUE] }

SetupQ(n) ==
  { [q |-> NullQ, ok |-> FALSE] } \cup
  { o \in { [q |-> [NullQ EXCEPT !.bring = "freed"], ok |-> FALSE],
            [q |-> [bring |-> "mem", dring |-> "mem", n_desc |-> n],
             ok |-> TRUE] } : n > 0 }

(* Ring buffers a queue still points to; memset and kfree of the queue     *)
(* forget them.                                                            *)
Rings(q) == (IF q.bring = "mem" THEN 1 ELSE 0) +
            (IF q.dring = "mem" THEN 1 ELSE 0)

-----------------------------------------------------------------------------
Init ==
  /\ g_rx_irqtimer \in Modes
  /\ g_n_txds \in DescParams
  /\ g_n_rxds \in DescParams
  /\ core = "unbound"
  /\ held = {}
  /\ leaked = {}
  /\ ioaddr = FALSE
  /\ rtnl = "idle"
  /\ up = FALSE
  /\ carrier = FALSE
  /\ txoff = FALSE
  /\ napi = "absent"
  /\ txq = NullQ
  /\ rxq = NullQ
  /\ lost = 0
  /\ timer = [pending |-> FALSE, running |-> FALSE]
  /\ irqh = 0
  /\ opens = 0

-----------------------------------------------------------------------------
(* Probe.                                                                  *)

(* The labels at the end of simeth_probe, in the order they fall through,  *)
(* and what the code after each one releases.  The label before            *)
(* iounmap (adapter->ioaddr) is commented out, so do_clear_master reaches  *)
(* it, and it unmaps nothing when adapter->ioaddr is still NULL.           *)
Labels == << "do_clean_adapter", "do_napi_del", "do_clear_master",
             "do_rel_regions", "do_dis_dev", "do_free_netdev" >>

ReleasedAt(label) ==
  CASE label = "do_clean_adapter" -> { "txq", "rxq" }
    [] label = "do_napi_del"      -> { "napi" }
    [] label = "do_clear_master"  -> { "master" } \cup
                                     { r \in { "iomap" } : ioaddr }
    [] label = "do_rel_regions"   -> { "regions" }
    [] label = "do_dis_dev"       -> { "pci" }
    [] label = "do_free_netdev"   -> { "netdev" }

UnwoundOneLate(label) ==
  UNION { ReleasedAt(Labels[i]) : i \in
    { j \in DOMAIN Labels : \E k \in 1 .. (j - 1) : Labels[k] = label } }

Unwound(label) ==
  UNION { ReleasedAt(Labels[i]) : i \in
    { j \in DOMAIN Labels : \E k \in 1 .. j : Labels[k] = label } }

(* goto label: release what the labels from there on release, return an    *)
(* error to the driver core.                                               *)
FailTo(label) ==
  /\ leaked' = leaked \cup (held \ Unwound(label))
  /\ held' = {}
  /\ core' = "unbound"
  /\ ioaddr' = FALSE
  /\ napi' = "absent"

(* The step succeeded and acquired the resources in rs.                    *)
Acquire(rs, next) ==
  /\ held' = held \cup rs
  /\ core' = next
  /\ UNCHANGED leaked

(* _simeth_adjust_descq_count, then alloc_etherdev: a new device starts    *)
(* with the carrier on and its tx queue running.                           *)
ProbeStart ==
  /\ core = "unbound"
  /\ g_n_txds' = Adjust(g_n_txds)
  /\ g_n_rxds' = Adjust(g_n_rxds)
  /\ \/ UNCHANGED << core, held, carrier, txoff >>
     \/ /\ core' = "enable"
        /\ held' = { "netdev" }
        /\ carrier' = TRUE
        /\ txoff' = FALSE
  /\ UNCHANGED << g_rx_irqtimer, leaked, ioaddr, rtnl, up, napi, queues,
                  irqs, opens >>

(* What no step of probe but the first touches.                            *)
ProbeFrame == UNCHANGED << params, rtnl, up, txoff, lost, irqs, opens >>

ProbeEnable ==
  /\ core = "enable"
  /\ \/ Acquire({ "pci" }, "bar") /\ UNCHANGED << ioaddr, napi >>
     \/ FailTo("do_free_netdev")
  /\ ProbeFrame /\ UNCHANGED << carrier, txq, rxq >>

(* BAR 2 must hold SIMETH_BAR_SZ bytes; a failing pci_set_mwi is ignored.  *)
ProbeBar ==
  /\ core = "bar"
  /\ \/ \E m \in SUBSET { "mwi" } :
          Acquire(m, "regions") /\ UNCHANGED << ioaddr, napi >>
     \/ FailTo("do_dis_dev")
  /\ ProbeFrame /\ UNCHANGED << carrier, txq, rxq >>

(* Failures to set the DMA mask are ignored.                               *)
ProbeRegions ==
  /\ core = "regions"
  /\ \/ Acquire({ "regions" }, "ioremap") /\ UNCHANGED << ioaddr, napi >>
     \/ FailTo("do_dis_dev")
  /\ ProbeFrame /\ UNCHANGED << carrier, txq, rxq >>

(* ioremap, then pci_set_master.                                           *)
ProbeIoremap ==
  /\ core = "ioremap"
  /\ \/ Acquire({ "iomap", "master" }, "save_state")
          /\ UNCHANGED << ioaddr, napi >>
     \/ FailTo("do_rel_regions")
  /\ ProbeFrame /\ UNCHANGED << carrier, txq, rxq >>

(* pci_save_state; adapter->ioaddr is assigned only after it.  The MAC     *)
(* address is a valid constant, so that step cannot fail.                  *)
ProbeSaveState ==
  /\ core = "save_state"
  /\ \/ Acquire({ "napi" }, "alloc_qs") /\ ioaddr' = TRUE
          /\ napi' = "disabled"
     \/ FailTo("do_clear_master")
  /\ ProbeFrame /\ UNCHANGED << carrier, txq, rxq >>

(* _simeth_setup_adapter: n_txqs = n_rxqs = 1; if the second kcalloc fails *)
(* _simeth_alloc_qs releases the first.                                    *)
ProbeAllocQs ==
  /\ core = "alloc_qs"
  /\ \/ /\ Acquire({ "txq", "rxq" }, "register")
        /\ txq' = NullQ /\ rxq' = NullQ
        /\ UNCHANGED << ioaddr, napi >>
     \/ FailTo("do_napi_del") /\ UNCHANGED << txq, rxq >>
  /\ ProbeFrame /\ UNCHANGED carrier

(* From here on the rtnl holder may open the device.                       *)
ProbeRegister ==
  /\ core = "register"
  /\ \/ Acquire({ "netreg" }, "carrier_off") /\ UNCHANGED << ioaddr, napi >>
     \/ FailTo("do_clean_adapter")
  /\ ProbeFrame /\ UNCHANGED << carrier, txq, rxq >>

(* The last statement of probe, outside the rtnl lock.                     *)
ProbeCarrierOff ==
  /\ core = "carrier_off"
  /\ carrier' = FALSE
  /\ core' = "bound"
  /\ ProbeFrame /\ UNCHANGED << binding, napi, txq, rxq >>

Probe ==
  \/ ProbeStart \/ ProbeEnable \/ ProbeBar \/ ProbeRegions \/ ProbeIoremap
  \/ ProbeSaveState \/ ProbeAllocQs \/ ProbeRegister \/ ProbeCarrierOff

-----------------------------------------------------------------------------
(* ndo_open, with the rtnl lock held.                                      *)

Registered == "netreg" \in held

OpenStart ==
  /\ rtnl = "idle" /\ ~up
  /\ Registered /\ core \in { "carrier_off", "bound" }
  /\ opens < MaxOpens
  /\ opens' = opens + 1
  /\ carrier' = FALSE
  /\ rtnl' = "open_txq"
  /\ UNCHANGED << params, core, binding, up, txoff, napi, queues, irqs >>

(* _simeth_setup_txqs.  With one queue the cleaning loop of its error path *)
(* does nothing, and open returns the error.                               *)
OpenTxqs ==
  /\ rtnl = "open_txq"
  /\ \E o \in SetupQ(g_n_txds) :
       /\ txq' = o.q
       /\ rtnl' = IF o.ok THEN "open_rxq" ELSE "idle"
  /\ lost' = lost + Rings(txq)
  /\ UNCHANGED << params, core, binding, link, napi, rxq, irqs, opens >>

(* _simeth_setup_rxqs.  On failure do_rel_txqs cleans the tx queue, which  *)
(* visits its n_desc buffers and frees none of its rings.                  *)
OpenRxqs ==
  /\ rtnl = "open_rxq"
  /\ \E o \in SetupQ(g_n_rxds) :
       /\ rxq' = o.q
       /\ rtnl' = IF o.ok THEN "open_irq" ELSE "idle"
  /\ lost' = lost + Rings(rxq)
  /\ UNCHANGED << params, core, binding, link, napi, txq, irqs, opens >>

(* _simeth_setup_irqh by the mode of the moment; open ignores its result.  *)
OpenIrq ==
  /\ rtnl = "open_irq"
  /\ rtnl' = "open_napi"
  /\ \/ /\ g_rx_irqtimer = 0
        /\ irqh' \in { irqh, irqh + 1 }
        /\ UNCHANGED timer
     \/ /\ g_rx_irqtimer = 1
        /\ timer' = [timer EXCEPT !.pending = TRUE]
        /\ UNCHANGED irqh
     \/ /\ g_rx_irqtimer \notin { 0, 1 }
        /\ UNCHANGED irqs
  /\ UNCHANGED << params, core, binding, link, napi, queues, opens >>

(* _simeth_config_engines is a stub.  napi_enable is a kernel BUG unless   *)
(* the context is disabled.                                                *)
OpenNapi ==
  /\ rtnl = "open_napi"
  /\ napi' = "enabled"
  /\ rtnl' = "open_carrier"
  /\ UNCHANGED << params, core, binding, link, queues, irqs, opens >>

OpenCarrier ==
  /\ rtnl = "open_carrier"
  /\ carrier' = TRUE
  /\ up' = TRUE
  /\ rtnl' = "idle"
  /\ UNCHANGED << params, core, binding, txoff, napi, queues, irqs, opens >>

Open == \/ OpenStart \/ OpenTxqs \/ OpenRxqs \/ OpenIrq \/ OpenNapi
        \/ OpenCarrier

-----------------------------------------------------------------------------
(* ndo_stop (simeth_down), with the rtnl lock held.                        *)

(* Stopping is the user's doing, or unregister_netdev's for an interface   *)
(* that is still up.                                                       *)
StopStart ==
  /\ rtnl = "idle" /\ up
  /\ core \in { "carrier_off", "bound", "unregister" }
  /\ carrier' = FALSE
  /\ rtnl' = "stop_irq"
  /\ UNCHANGED << params, core, binding, up, txoff, napi, queues, irqs,
                  opens >>

(* free_irq removes the registration whose dev_id it is given: the driver  *)
(* registers with adapter and frees with adapter->netdev.  It warns and    *)
(* returns when there is none.                                             *)
RequestDevId == "adapter"
FreeDevId    == "netdev"

FreeIrq(n) == IF RequestDevId = FreeDevId /\ n > 0 THEN n - 1 ELSE n

(* del_timer_sync returns only when the callback is not running.           *)
CanDelTimerNoSync == TRUE

CanDelTimerWhenIdle == ~timer.running /\ ~timer.pending

CanDelTimer == ~timer.running

(* _simeth_destroy_irqh, again by the mode of the moment.                  *)
StopIrq ==
  /\ rtnl = "stop_irq"
  /\ rtnl' = "stop_tx"
  /\ \/ /\ g_rx_irqtimer = 0
        /\ irqh' = FreeIrq(irqh)
        /\ UNCHANGED timer
     \/ /\ g_rx_irqtimer = 1
        /\ CanDelTimer
        /\ timer' = [timer EXCEPT !.pending = FALSE]
        /\ UNCHANGED irqh
     \/ /\ g_rx_irqtimer \notin { 0, 1 }
        /\ UNCHANGED irqs
  /\ UNCHANGED << params, core, binding, link, napi, queues, opens >>

(* netif_tx_disable.                                                       *)
StopTx ==
  /\ rtnl = "stop_tx"
  /\ txoff' = TRUE
  /\ rtnl' = "stop_napi"
  /\ UNCHANGED << params, core, binding, up, carrier, napi, queues, irqs,
                  opens >>

(* napi_disable waits for ever on a context that is not enabled.           *)
StopNapiSkipped ==
  /\ rtnl = "stop_napi"
  /\ rtnl' = "stop_clean"
  /\ UNCHANGED << params, core, binding, link, napi, queues, irqs, opens >>

StopNapi ==
  /\ rtnl = "stop_napi"
  /\ napi = "enabled"
  /\ napi' = "disabled"
  /\ rtnl' = "stop_clean"
  /\ UNCHANGED << params, core, binding, link, queues, irqs, opens >>

(* _simeth_clean_txqs and _simeth_clean_rxqs visit the buffers of both     *)
(* queues; every skb and dma_addr in them is still 0, so nothing changes,  *)
(* and the rings stay allocated.  The core then clears IFF_UP.             *)
StopClean ==
  /\ rtnl = "stop_clean"
  /\ up' = FALSE
  /\ rtnl' = "idle"
  /\ UNCHANGED << params, core, binding, carrier, txoff, napi, queues, irqs,
                  opens >>

Stop == StopStart \/ StopIrq \/ StopTx \/ StopNapi \/ StopClean

-----------------------------------------------------------------------------
(* The receive timer.  The callback always rearms itself: the branch that  *)
(* would schedule NAPI is disabled.                                        *)

TimerFire ==
  /\ timer.pending /\ ~timer.running
  /\ timer' = [pending |-> FALSE, running |-> TRUE]
  /\ UNCHANGED << params, core, binding, rtnl, link, napi, queues, irqh,
                  opens >>

RearmedNever(t) == [t EXCEPT !.running = FALSE]

Rearmed(t) == [pending |-> TRUE, running |-> FALSE]

simeth_rxtimer_cb ==
  /\ timer.running
  /\ timer' = Rearmed(timer)
  /\ UNCHANGED << params, core, binding, rtnl, link, napi, queues, irqh,
                  opens >>

-----------------------------------------------------------------------------
(* Removal.  unregister_netdev first closes an interface that is up.       *)

RemoveStart ==
  /\ core = "bound" /\ rtnl = "idle"
  /\ core' = "unregister"
  /\ UNCHANGED << params, binding, rtnl, link, napi, queues, irqs, opens >>

(* unregister_netdev takes the rtnl lock and closes the interface.         *)
StillOpen == rtnl = "idle"

Closed == rtnl = "idle" /\ ~up

(* unregister_netdev returns; netif_napi_del, iounmap, and the queue       *)
(* structures are freed with the rings they still point to.                *)
RemoveTeardown ==
  /\ core = "unregister" /\ Closed
  /\ core' = "free"
  /\ held' = held \ { "netreg", "napi", "iomap", "txq", "rxq" }
  /\ ioaddr' = FALSE
  /\ napi' = "absent"
  /\ lost' = lost + Rings(txq) + Rings(rxq)
  /\ txq' = NullQ /\ rxq' = NullQ
  /\ UNCHANGED << params, leaked, rtnl, link, irqs, opens >>

(* free_netdev, then the PCI side.  pci_set_mwi is not undone.             *)
RemoveFree ==
  /\ core = "free"
  /\ core' = "unbound"
  /\ leaked' = leaked \cup
               (held \ { "netdev", "regions", "master", "pci" })
  /\ held' = {}
  /\ UNCHANGED << params, ioaddr, rtnl, link, napi, queues, irqs, opens >>

Remove == RemoveStart \/ RemoveTeardown \/ RemoveFree

-----------------------------------------------------------------------------
(* Root writes a module parameter through sysfs.                           *)
WriteParam ==
  /\ RuntimeWrites
  /\ \/ g_rx_irqtimer' \in Modes /\ UNCHANGED << g_n_txds, g_n_rxds >>
     \/ g_n_txds' \in DescParams /\ UNCHANGED << g_rx_irqtimer, g_n_rxds >>
     \/ g_n_rxds' \in DescParams /\ UNCHANGED << g_rx_irqtimer, g_n_txds >>
  /\ UNCHANGED << core, binding, rtnl, link, napi, queues, irqs, opens >>

Next == \/ Probe \/ Open \/ Stop \/ Remove \/ TimerFire \/ simeth_rxtimer_cb
        \/ WriteParam

Spec == Init /\ [][Next]_vars

(* A thread inside open, stop or remove keeps running, and a callback      *)
(* returns.  del_timer_sync polls until it sees the callback not running:  *)
(* the callback is short and runs once in SIMETH_RXTIMER_TMO jiffies, so   *)
(* the poll sees it infinitely often and strong fairness is what it needs. *)
(* Nothing obliges the user to open, close or unbind the device.           *)
Fairness ==
  /\ WF_vars(OpenTxqs) /\ WF_vars(OpenRxqs) /\ WF_vars(OpenIrq)
  /\ WF_vars(OpenNapi) /\ WF_vars(OpenCarrier)
  /\ SF_vars(StopIrq) /\ WF_vars(StopTx) /\ WF_vars(StopNapi)
  /\ WF_vars(StopClean)
  /\ WF_vars(StopStart /\ core = "unregister")
  /\ WF_vars(RemoveTeardown) /\ WF_vars(RemoveFree)
  /\ WF_vars(simeth_rxtimer_cb)

FairSpec == Spec /\ Fairness

-----------------------------------------------------------------------------
(* Properties.                                                             *)

QueueStates == [bring : { "null", "mem", "freed" },
                dring : { "null", "mem" }, n_desc : Nat]

CountersType ==
  /\ g_rx_irqtimer \in Nat /\ g_n_txds \in Nat /\ g_n_rxds \in Nat
  /\ txq \in QueueStates /\ rxq \in QueueStates /\ lost \in Nat
  /\ irqh \in Nat /\ opens \in Nat

ControlType ==
  /\ core \in { "unbound", "enable", "bar", "regions", "ioremap",
                "save_state", "alloc_qs", "register", "carrier_off",
                "bound", "unregister", "free" }
  /\ held \subseteq Resources /\ leaked \subseteq Resources
  /\ ioaddr \in BOOLEAN
  /\ rtnl \in { "idle", "open_txq", "open_rxq", "open_irq", "open_napi",
                "open_carrier", "stop_irq", "stop_tx", "stop_napi",
                "stop_clean" }
  /\ up \in BOOLEAN /\ carrier \in BOOLEAN /\ txoff \in BOOLEAN
  /\ napi \in { "absent", "disabled", "enabled" }
  /\ timer \in [pending : BOOLEAN, running : BOOLEAN]

(* Every variable keeps its type.                                          *)
TypeOK == CountersType /\ ControlType

TimerActive == timer.pending \/ timer.running

(* The timer callback dereferences the adapter, which lives in the net     *)
(* device: it is never queued or running once free_netdev has run.  It     *)
(* relies on ndo_stop deleting the timer before remove goes on.            *)
TimerInsideNetdev == TimerActive => "netdev" \in held

(* An interface that is down is quiet: after ndo_stop, or after an open    *)
(* that failed half way, neither the timer nor NAPI is active.             *)
QuiescentWhenDown ==
  rtnl = "idle" /\ ~up => ~TimerActive /\ napi # "enabled"

Source == TimerActive \/ irqh > 0

(* A receive interrupt source that open has set up is there until stop     *)
(* destroys it: the timer never fails to rearm itself, and no open that    *)
(* fails half way, no removal and no write of a parameter takes it away.   *)
RxSourceUntilStop == [][Source /\ ~Source' => rtnl = "stop_irq"]_vars

(* napi_enable and napi_disable alternate, whatever open and stop fail at, *)
(* and NAPI is enabled exactly while the interface is up.                  *)
NapiTracksUp ==
  /\ rtnl = "idle" => (napi = "enabled" <=> up)
  /\ rtnl = "open_napi" => napi = "disabled"
  /\ rtnl = "stop_napi" => napi = "enabled"

(* _simeth_clean_q walks n_desc entries of q->bring: a queue that claims   *)
(* descriptors has live buffer memory, even after a setup that failed      *)
(* between the two allocations or was never run.                           *)
CleanTouchesLiveMemory ==
  \A q \in { txq, rxq } : q.n_desc # 0 => q.bring = "mem"

(* open and stop work on structures that remove has not freed: the queue   *)
(* array, the NAPI context and the net device outlive every rtnl operation *)
OperationsInsideBinding ==
  rtnl # "idle" \/ up =>
    { "netdev", "napi", "txq", "rxq", "netreg", "iomap", "pci" } \subseteq held

(* Whatever step of simeth_probe fails, and after simeth_remove, all that  *)
(* probe had acquired is released; only memory-write-invalidate stays on,  *)
(* and only a failing pci_save_state loses more.                           *)
UnbindReleasesAll ==
  [][ \A r \in leaked' \ leaked : r = "mwi" \/ core = "save_state" ]_vars

(* Once probe has returned, a closed interface reports no carrier.         *)
CarrierOffWhenDown ==
  core = "bound" /\ rtnl = "idle" /\ ~up => ~carrier

(* MODULE_PARM_DESC of g_n_txds and g_n_rxds: "32-512 ... Must be aligned  *)
(* as per simeth.h", of the queues the driver really sets up.              *)
DescCountDocumented ==
  \A q \in { txq, rxq } : q.n_desc # 0 => Documented(q.n_desc)

(* An open, stop or remove that has begun comes to its end: del_timer_sync *)
(* wins against a callback that always rearms, and napi_disable never      *)
(* waits for a context nobody enabled.                                     *)
OperationsComplete ==
  /\ rtnl # "idle" ~> rtnl = "idle"
  /\ core \in { "unregister", "free" } ~> core = "unbound"

-----------------------------------------------------------------------------
(* What comments and messages of simeth.c say and the code does not do.    *)

(* simeth_probe: "we'll enable [the carrier] after ifup happens via open   *)
(* call": an interface that is up has its carrier on.                      *)
CarrierOnAfterOpen == rtnl = "idle" /\ up => carrier

(* simeth.h: "If a real xmit is going to happen, this shall be 1", and     *)
(* XMIT_IS_REAL is 1: the tx queue of an interface that is up accepts      *)
(* packets.                                                                *)
TxQueueRunsAfterOpen == rtnl = "idle" /\ up => ~txoff

(* simeth_irqh is handed the adapter as its cookie; the comment "FIXME- Am *)
(* I right here?" in _simeth_destroy_irqh asks whether free_irq undoes     *)
(* request_irq: no handler outlives the device.                            *)
IrqHandlerInsideNetdev == irqh > 0 => "netdev" \in held

(* simeth_ndo_open returns 0 for a device that can receive: while the      *)
(* interface is up its timer goes on or its irq is registered.  Open       *)
(* ignores what _simeth_setup_irqh returns, a failing request_irq and a    *)
(* mode that is neither 0 nor 1.                                           *)
RxSourceWhileUp == rtnl = "idle" /\ up => Source

(* "do_rel_txqs": a failed open releases the queues it had set up, and a   *)
(* queue's rings are not forgotten while allocated.                        *)
RingsReleased == lost = 0
=============================================================================
