---------------------------- MODULE E1000Adapter ----------------------------
(***************************************************************************)
(* The life of one adapter under the e1000 driver: probe and remove, open  *)
(* and close, the down/up/reset protocol with its two flags, the watchdog  *)
(* and reset work items, the interrupt handler with its NAPI poll, suspend *)
(* and resume, and PCI error recovery.  The transmit queue is E1000Tx's.   *)
(*                                                                         *)
(* Three threads run e1000_down and e1000_up: "rtnl" holds the rtnl lock   *)
(* (ndo operations), "reset" is the worker of reset_task, "core" is the    *)
(* driver core (probe, remove, suspend, error recovery).  The watchdog has *)
(* a worker of its own.                                                    *)
(***************************************************************************)
EXTENDS Naturals, FiniteSets

CONSTANT Faults      \* which of "suspend", "error" and "remove" happen

ASSUME FaultAssumption == Faults \subseteq { "suspend", "error", "remove" }

VARIABLES
  pc, op,             \* where each thread is, and in which operation
  held, leaked,       \* what probe acquired until remove; what it forgot
  failed_at,          \* where probe failed
  DOWN, RESETTING,    \* adapter->flags
  running, present,   \* netdev state bits, kept by the networking core
  carrier,            \* netif_carrier_on, netif_carrier_off
  napi,               \* "off" is disabled, "sched" being polled
  poll, intr,         \* the softirq and the interrupt handler
  irq, ims, lsc,      \* handler registered; unmasked; link change latched
  tctl, link,         \* transmits enabled in the hardware; the cable
  get_link_status,    \* the watchdog is to look at the link
  rings,              \* descriptor rings allocated
  queued              \* pending work items

flags   == << DOWN, RESETTING >>
netdev  == << running, present >>
hard    == << irq, ims, lsc >>
mac     == << tctl, link, rings, get_link_status >>
binding == << held, leaked, failed_at >>
vars == << pc, op, binding, flags, netdev, carrier, napi, poll, intr, hard, mac,
           queued >>

Thread == { "rtnl", "reset", "core" }
Work   == { "watchdog", "reset" }

Goto(t, place) == pc' = [pc EXCEPT ![t] = place]
Begin(t, o, place) == Goto(t, place) /\ op' = [op EXCEPT ![t] = o]
End(t) ==
  Begin(t, "none", IF t = "core" THEN "bound" ELSE "idle")

Init ==
  /\ pc = [t \in Thread \cup { "watchdog" } |->
             IF t = "core" THEN "enable" ELSE "idle"]
  /\ op = [t \in Thread |-> "none"]
  /\ held = {} /\ leaked = {} /\ failed_at = "none"
  /\ DOWN = FALSE /\ RESETTING = FALSE
  /\ running = FALSE /\ present = TRUE
  /\ carrier = TRUE
  /\ napi = "off" /\ poll = "idle" /\ intr = "idle"
  /\ irq = FALSE /\ ims \in BOOLEAN /\ lsc = FALSE
  /\ tctl = FALSE /\ link \in BOOLEAN /\ rings = FALSE
  /\ get_link_status = FALSE
  /\ queued = {}

-----------------------------------------------------------------------------
(* e1000_down, e1000_up and e1000_reset, by thread t.                      *)

\* What comes after e1000_down, by the operation that called it.
AfterDown(o) ==
  CASE o = "close"   -> "close_free"
    [] o = "reinit"  -> "up_configure"
    [] o = "suspend" -> "suspend_save"
    [] o = "recover" -> "slot_reset"
    [] OTHER         -> "unregister"  \* remove

\* netif_carrier_off, and the transmit unit of the MAC.
DownStart(t) ==
  /\ pc[t] = "down"
  /\ carrier' = FALSE /\ tctl' = FALSE
  /\ Goto(t, "down_napi")
  /\ UNCHANGED << op, binding, flags, netdev, napi, poll, intr, hard, link,
                  rings, get_link_status, queued >>

\* napi_disable waits for the poll to end, and for NAPI to be enabled.
DownNapiAtOnce(t) ==
  /\ pc[t] = "down_napi"
  /\ napi' = "off"
  /\ Goto(t, "down_irq")
  /\ UNCHANGED << op, binding, flags, netdev, carrier, poll, intr, hard,
                  mac, queued >>

DownNapi(t) ==
  /\ pc[t] = "down_napi"
  /\ napi = "on"
  /\ napi' = "off"
  /\ Goto(t, "down_irq")
  /\ UNCHANGED << op, binding, flags, netdev, carrier, poll, intr, hard,
                  mac, queued >>

\* e1000_irq_disable: mask, and wait for a running handler.
DownIrq(t) ==
  /\ pc[t] = "down_irq"
  /\ intr = "idle"
  /\ ims' = FALSE
  /\ Goto(t, "down_flag")
  /\ UNCHANGED << op, binding, flags, netdev, carrier, napi, poll, intr,
                  irq, lsc, mac, queued >>

\* e1000_down_and_stop: the flag first, so that nothing is scheduled anew,
\* then the work items.
DownFlag(t) ==
  /\ pc[t] = "down_flag"
  /\ DOWN' = TRUE
  /\ Goto(t, "down_cancel")
  /\ UNCHANGED << op, binding, RESETTING, netdev, carrier, napi, poll, intr,
                  hard, mac, queued >>

\* "Only kill reset task if adapter is not resetting": the test, and then
\* cancel_work_sync.
DownCancel(t) ==
  /\ pc[t] = "down_cancel"
  /\ pc["watchdog"] = "idle"
  /\ queued' = queued \ { "watchdog" }
  /\ Goto(t, IF RESETTING THEN "down_reset" ELSE "down_kill")
  /\ UNCHANGED << op, binding, flags, netdev, carrier, napi, poll, intr, hard,
                  mac >>

DownKill(t) ==
  /\ pc[t] = "down_kill"
  /\ pc["reset"] = "idle"
  /\ queued' = queued \ { "reset" }
  /\ Goto(t, "down_reset")
  /\ UNCHANGED << op, binding, flags, netdev, carrier, napi, poll, intr,
                  hard, mac >>

\* e1000_reset by what it calls in the hardware's own code: e1000_reset_hw
\* stops the MAC, masks its interrupts and forgets their causes, e1000_init_hw
\* may start a negotiation and ask for a look at the link.
Reset ==
  /\ tctl' = FALSE /\ ims' = FALSE /\ lsc' = FALSE
  /\ get_link_status' \in { get_link_status, TRUE }

\* e1000_reset and the cleaning of the rings.  e1000_remove ends before it.
DownReset(t) ==
  /\ pc[t] = "down_reset"
  /\ IF op[t] = "remove"
     THEN UNCHANGED << tctl, ims, lsc, get_link_status >>
     ELSE Reset
  /\ Goto(t, AfterDown(op[t]))
  /\ UNCHANGED << op, binding, flags, netdev, carrier, napi, poll, intr,
                  irq, link, rings, queued >>

DownSteps(t) ==
  \/ DownStart(t)  \/ DownNapi(t) \/ DownIrq(t)  \/ DownFlag(t)
  \/ DownCancel(t) \/ DownKill(t) \/ DownReset(t)

\* e1000_configure, which refills the rx ring, and the flag.
UpConfigure(t) ==
  /\ pc[t] = "up_configure"
  /\ DOWN' = FALSE
  /\ Goto(t, "up_napi")
  /\ UNCHANGED << op, binding, RESETTING, netdev, carrier, napi, poll, intr,
                  hard, mac, queued >>

UpNapi(t) ==
  /\ pc[t] = "up_napi"
  /\ napi' = "on"
  /\ Goto(t, "up_irq")
  /\ UNCHANGED << op, binding, flags, netdev, carrier, poll, intr, hard,
                  mac, queued >>

\* e1000_irq_enable, and the link change interrupt that starts the watchdog.
UpIrqQuiet(t) ==
  /\ pc[t] = "up_irq"
  /\ ims' = TRUE
  /\ \/ op[t] = "open" /\ End(t)
     \/ op[t] = "reinit" /\ Goto(t, "unlock") /\ UNCHANGED op
     \/ op[t] \in { "resume", "recover" } /\ Goto(t, "attach") /\ UNCHANGED op
  /\ UNCHANGED << binding, flags, netdev, carrier, napi, poll, intr, irq, lsc,
                  mac, queued >>

UpIrq(t) ==
  /\ pc[t] = "up_irq"
  /\ ims' = TRUE /\ lsc' = TRUE
  /\ \/ op[t] = "open" /\ End(t)
     \/ op[t] = "reinit" /\ Goto(t, "unlock") /\ UNCHANGED op
     \/ op[t] \in { "resume", "recover" } /\ Goto(t, "attach") /\ UNCHANGED op
  /\ UNCHANGED << binding, flags, netdev, carrier, napi, poll, intr, irq, mac,
                  queued >>

UpSteps(t) == UpConfigure(t) \/ UpNapi(t) \/ UpIrq(t)

\* e1000_reinit_locked and e1000_change_mtu take the adapter with the
\* RESETTING bit.
Lock(t) ==
  /\ pc[t] = "lock"
  /\ ~RESETTING
  /\ RESETTING' = TRUE
  /\ Goto(t, IF t = "reset" \/ running THEN "down" ELSE "reset_only")
  /\ UNCHANGED << op, binding, DOWN, netdev, carrier, napi, poll, intr,
                  hard, mac, queued >>

\* e1000_change_mtu on an interface that is not running.
ResetOnly(t) ==
  /\ pc[t] = "reset_only"
  /\ Reset
  /\ Goto(t, "unlock")
  /\ UNCHANGED << op, binding, flags, netdev, carrier, napi, poll, intr,
                  irq, link, rings, queued >>

Unlock(t) ==
  /\ pc[t] = "unlock"
  /\ RESETTING' = FALSE
  /\ End(t)
  /\ UNCHANGED << binding, DOWN, netdev, carrier, napi, poll, intr, hard,
                  mac, queued >>

LockSteps(t) == Lock(t) \/ ResetOnly(t) \/ Unlock(t)

-----------------------------------------------------------------------------
(* The networking core, under the rtnl lock.                               *)

\* User processes, and with them the ndo operations, are frozen while the
\* system is suspended.
Frozen == op["core"] \in { "suspend", "resume" }

ProbePlaces == { "enable", "regions", "alloc", "ioremap", "hw_struct", "dma",
                 "sw_init", "mdio", "eeprom", "phy_addr", "register" }

Registered == pc["core"] \notin ProbePlaces \cup { "failed", "gone" }

RtnlFree == pc["rtnl"] = "idle" /\ Registered /\ ~Frozen

\* dev_open, and e1000_open up to the rings.
OpenAlloc ==
  /\ RtnlFree /\ present /\ ~running
  /\ carrier' = FALSE
  /\ \/ /\ running' = TRUE /\ rings' = TRUE
        /\ pc' = [pc EXCEPT !["rtnl"] = "open_irq"]
        /\ UNCHANGED << tctl, ims, lsc, get_link_status >>
     \/ Reset /\ UNCHANGED << running, rings, pc >>
  /\ UNCHANGED << op, binding, flags, present, napi, poll, intr, irq, link,
                  queued >>

\* e1000_configure and e1000_request_irq; "from here on the code is the same
\* as e1000_up".
OpenIrq ==
  /\ pc["rtnl"] = "open_irq"
  /\ \/ /\ irq' = TRUE /\ DOWN' = FALSE
        /\ Begin("rtnl", "open", "up_napi")
        /\ UNCHANGED << running, rings, tctl, ims, lsc, get_link_status >>
     \/ /\ running' = FALSE /\ rings' = FALSE
        /\ Reset /\ End("rtnl")
        /\ UNCHANGED << irq, DOWN >>
  /\ UNCHANGED << binding, RESETTING, present, carrier, napi, poll, intr,
                  link, queued >>

\* dev_close: the stack stops transmitting, then e1000_close.
CloseStart ==
  /\ RtnlFree /\ running
  /\ running' = FALSE
  /\ Begin("rtnl", "close", "wait")
  /\ UNCHANGED << binding, flags, present, carrier, napi, poll, intr, hard,
                  mac, queued >>

\* Close and suspend wait while RESETTING is set, but for at most
\* E1000_CHECK_RESET_COUNT naps: they may go on while a reset runs.
WaitReset(t) ==
  /\ pc[t] = "wait"
  /\ Goto(t, "down")
  /\ UNCHANGED << op, binding, flags, netdev, carrier, napi, poll, intr,
                  hard, mac, queued >>

\* free_irq waits for a running handler.
CloseFree ==
  /\ pc["rtnl"] = "close_free"
  /\ intr = "idle"
  /\ irq' = FALSE /\ rings' = FALSE
  /\ End("rtnl")
  /\ UNCHANGED << binding, flags, netdev, carrier, napi, poll, intr, ims,
                  lsc, tctl, link, get_link_status, queued >>

\* e1000_set_features on a running interface, and e1000_change_mtu.
Reinit ==
  /\ RtnlFree /\ present
  /\ Begin("rtnl", "reinit", "lock")
  /\ UNCHANGED << binding, flags, netdev, carrier, napi, poll, intr, hard,
                  mac, queued >>

\* e1000_set_features on an interface that is not running takes no lock.
FeaturesReset ==
  /\ RtnlFree /\ present /\ ~running
  /\ Reset
  /\ UNCHANGED << pc, op, binding, flags, netdev, carrier, napi, poll, intr,
                  irq, link, rings, queued >>

\* The stack's transmit watchdog, off while the interface is being opened.
TxTimeout ==
  /\ present /\ running /\ carrier /\ op["rtnl"] # "open"
  /\ queued' = queued \cup { "reset" }
  /\ UNCHANGED << pc, op, binding, flags, netdev, carrier, napi, poll, intr,
                  hard, mac >>

RtnlNext ==
  \/ OpenAlloc \/ OpenIrq \/ CloseStart \/ WaitReset("rtnl") \/ CloseFree
  \/ Reinit \/ FeaturesReset \/ DownSteps("rtnl") \/ UpSteps("rtnl")
  \/ LockSteps("rtnl")

-----------------------------------------------------------------------------
(* The work items.                                                         *)

\* e1000_reset_task
ResetStart ==
  /\ "reset" \in queued /\ pc["reset"] = "idle"
  /\ queued' = queued \ { "reset" }
  /\ Begin("reset", "reinit", "lock")
  /\ UNCHANGED << binding, flags, netdev, carrier, napi, poll, intr, hard,
                  mac >>

ResetNext ==
  ResetStart \/ DownSteps("reset") \/ UpSteps("reset") \/ LockSteps("reset")

\* Work that is scheduled unless the adapter is going down.
Scheduled(w) == IF DOWN THEN queued ELSE queued \cup { w }

WatchdogStart ==
  /\ "watchdog" \in queued /\ pc["watchdog"] = "idle"
  /\ queued' = queued \ { "watchdog" }
  /\ Goto("watchdog", "link")
  /\ UNCHANGED << op, binding, flags, netdev, carrier, napi, poll, intr,
                  hard, mac >>

\* e1000_has_link: on copper the link is looked at when an interrupt asked for
\* it, and taken to be up after it was found up; other media, and the ce4100,
\* look every time.
HasLink(up) ==
  IF get_link_status
  THEN /\ up = link
       /\ get_link_status' \in { TRUE, ~link }
  ELSE up = TRUE /\ UNCHANGED get_link_status

\* A change of the link: transmits are enabled before the carrier is on.
WatchdogLink ==
  /\ pc["watchdog"] = "link"
  /\ \E up \in BOOLEAN :
        HasLink(up) /\ carrier' = up /\ tctl' = (tctl \/ (up /\ ~carrier))
  /\ Goto("watchdog", "tx")
  /\ UNCHANGED << op, binding, flags, netdev, napi, poll, intr, hard, link,
                  rings, queued >>

\* Without link, packets still in the ring will never be sent: a reset is
\* imminent and the watchdog does not run again.
WatchdogTx ==
  /\ pc["watchdog"] = "tx"
  /\ \/ ~carrier /\ queued' = queued \cup { "reset" }
     \/ queued' = Scheduled("watchdog")
  /\ Goto("watchdog", "idle")
  /\ UNCHANGED << op, binding, flags, netdev, carrier, napi, poll, intr, hard,
                  mac >>

WatchdogNext == WatchdogStart \/ WatchdogLink \/ WatchdogTx

-----------------------------------------------------------------------------
(* The interrupt and the poll.                                             *)

LinkChange ==
  /\ link' = ~link /\ lsc' = TRUE
  /\ UNCHANGED << pc, op, binding, flags, netdev, carrier, napi, poll, intr,
                  irq, ims, tctl, rings, get_link_status, queued >>

\* e1000_intr reads ICR, which clears it.  The line is shared: the handler
\* may run while the adapter's own interrupts are masked.
IntrEnter ==
  /\ irq /\ intr = "idle"
  /\ lsc' = FALSE
  /\ intr' = IF DOWN THEN "idle" ELSE IF lsc THEN "lsc" ELSE "other"
  /\ UNCHANGED << pc, op, binding, flags, netdev, carrier, napi, poll, irq,
                  ims, mac, queued >>

\* napi_schedule_prep fails when NAPI is scheduled, disabled or being
\* disabled; interrupts are unmasked again then.
IntrActUnprepared ==
  /\ intr # "idle"
  /\ queued' = IF intr = "lsc" THEN Scheduled("watchdog") ELSE queued
  /\ napi' = "sched" /\ ims' = FALSE
  /\ get_link_status' = (get_link_status \/ intr = "lsc")
  /\ intr' = "idle"
  /\ UNCHANGED << pc, op, binding, flags, netdev, carrier, poll, irq, lsc,
                  tctl, link, rings >>

IntrAct ==
  /\ intr # "idle"
  /\ queued' = IF intr = "lsc" THEN Scheduled("watchdog") ELSE queued
  /\ IF napi = "on" /\ \A t \in Thread : pc[t] # "down_napi"
     THEN napi' = "sched" /\ ims' = FALSE
     ELSE ims' = ~DOWN /\ UNCHANGED napi
  /\ get_link_status' = (get_link_status \/ intr = "lsc")
  /\ intr' = "idle"
  /\ UNCHANGED << pc, op, binding, flags, netdev, carrier, poll, irq, lsc,
                  tctl, link, rings >>

\* e1000_clean ends with napi_complete_done, and only then unmasks.
PollClean ==
  /\ napi = "sched" /\ poll = "idle"
  /\ napi' = "on" /\ poll' = "enable"
  /\ UNCHANGED << pc, op, binding, flags, netdev, carrier, intr, hard, mac,
                  queued >>

PollEnable ==
  /\ poll = "enable"
  /\ ims' = (ims \/ ~DOWN)
  /\ poll' = "idle"
  /\ UNCHANGED << pc, op, binding, flags, netdev, carrier, napi, intr, irq,
                  lsc, mac, queued >>

IntrNext == IntrEnter \/ IntrAct
PollNext == PollClean \/ PollEnable

-----------------------------------------------------------------------------
(* The driver core: probe, remove, suspend, resume, PCI error recovery.    *)

NextPlace(place) ==
  CASE place = "enable"    -> "regions"  [] place = "regions"  -> "alloc"
    [] place = "alloc"     -> "ioremap"  [] place = "ioremap"  -> "hw_struct"
    [] place = "hw_struct" -> "dma"      [] place = "dma"      -> "sw_init"
    [] place = "sw_init"   -> "mdio"     [] place = "mdio"     -> "eeprom"
    [] place = "eeprom"    -> "phy_addr" [] place = "phy_addr" -> "register"
    [] OTHER -> "carrier"

Acquires(place) ==
  CASE place = "enable"  -> { "pci" }    [] place = "regions" -> { "regions" }
    [] place = "alloc"   -> { "netdev" } [] place = "ioremap" -> { "iomap" }
    [] place = "sw_init" -> { "queues" } [] place = "mdio"    -> { "mdio" }
    [] OTHER             -> {}

\* The labels err_register to err_pci_reg: what a failure at this place lets
\* go of.
Mapped(place) == place \notin { "enable", "regions", "alloc", "ioremap" }

UnwindsNotQueues(place) ==
  (IF place # "enable" THEN { "pci" } ELSE {})
  \cup (IF place \notin { "enable", "regions" } THEN { "regions" } ELSE {})
  \cup (IF Mapped(place) \/ place = "ioremap" THEN { "netdev" } ELSE {})
  \cup (IF Mapped(place) THEN { "iomap", "mdio" } ELSE {})

Unwinds(place) ==
  UnwindsNotQueues(place)
  \cup (IF place \in { "eeprom", "phy_addr", "register" }
        THEN { "queues" } ELSE {})

\* Probe resets the hardware once it knows the PHY.
Probe ==
  /\ pc["core"] \in ProbePlaces
  /\ Goto("core", NextPlace(pc["core"]))
  /\ held' = held \cup Acquires(pc["core"])
  /\ DOWN' = (DOWN \/ pc["core"] = "sw_init")
  /\ IF pc["core"] = "phy_addr"
     THEN Reset
     ELSE /\ ims' = (ims /\ pc["core"] # "sw_init")
          /\ UNCHANGED << tctl, lsc, get_link_status >>
  /\ UNCHANGED << op, leaked, failed_at, RESETTING, netdev, carrier, napi, poll,
                  intr, irq, link, rings, queued >>

ProbeFail ==
  /\ pc["core"] \in ProbePlaces
  /\ Goto("core", "failed")
  /\ leaked' = held \ Unwinds(pc["core"]) /\ held' = {}
  /\ failed_at' = pc["core"]
  /\ UNCHANGED << op, flags, netdev, carrier, napi, poll, intr, hard, mac,
                  queued >>

\* "carrier off reporting is important to ethtool even BEFORE open": it comes
\* after register_netdev, when an open may already be under way.
ProbeCarrier ==
  /\ pc["core"] = "carrier"
  /\ carrier' = FALSE
  /\ Goto("core", "bound")
  /\ UNCHANGED << op, binding, flags, netdev, napi, poll, intr, hard, mac,
                  queued >>

\* e1000_remove begins with e1000_down_and_stop.
RemoveStart ==
  /\ "remove" \in Faults /\ pc["core"] = "bound"
  /\ Begin("core", "remove", "down_flag")
  /\ UNCHANGED << binding, flags, netdev, carrier, napi, poll, intr, hard,
                  mac, queued >>

\* unregister_netdev closes the interface (CloseStart, under the same lock)
\* and waits, for softirqs too; then everything is freed.
RemoveFree ==
  /\ pc["core"] = "unregister" /\ pc["rtnl"] = "idle" /\ ~running
  /\ poll = "idle"
  /\ Goto("core", "gone")
  /\ held' = {}
  /\ UNCHANGED << op, leaked, failed_at, flags, netdev, carrier, napi, poll,
                  intr, hard, mac, queued >>

\* e1000_suspend and e1000_shutdown: __e1000_shutdown.
SuspendStart ==
  /\ "suspend" \in Faults /\ pc["core"] = "bound"
  /\ pc["rtnl"] = "idle"
  /\ present' = FALSE
  /\ Begin("core", "suspend", IF running THEN "wait" ELSE "suspend_save")
  /\ UNCHANGED << binding, flags, running, carrier, napi, poll, intr, hard,
                  mac, queued >>

\* A recovery step that fails leaves the interface detached.
GiveUp == End("core")

SuspendSave ==
  /\ pc["core"] = "suspend_save"
  /\ \/ GiveUp /\ UNCHANGED irq
     \/ /\ intr = "idle"
        /\ irq' = FALSE
        /\ Goto("core", "asleep")
        /\ UNCHANGED op
  /\ UNCHANGED << binding, flags, netdev, carrier, napi, poll, intr, ims, lsc,
                  mac, queued >>

\* e1000_resume up to e1000_up; pci_enable_device or request_irq may fail.
Resume ==
  /\ pc["core"] = "asleep"
  /\ \/ GiveUp /\ UNCHANGED << irq, tctl, ims, lsc, get_link_status >>
     \/ /\ irq' = running
        /\ Reset
        /\ Begin("core", "resume", IF running THEN "up_configure" ELSE "attach")
  /\ UNCHANGED << binding, flags, netdev, carrier, napi, poll, intr, link,
                  rings, queued >>

\* netif_device_attach
Attach ==
  /\ pc["core"] = "attach"
  /\ present' = TRUE
  /\ End("core")
  /\ UNCHANGED << binding, flags, running, carrier, napi, poll, intr, hard,
                  mac, queued >>

\* e1000_io_error_detected holds no lock of the networking core.
ErrorDetected ==
  /\ "error" \in Faults /\ pc["core"] = "bound"
  /\ present' = FALSE
  /\ \/ UNCHANGED << pc, op >>
     \/ /\ Begin("core", "recover", IF running THEN "down" ELSE "slot_reset")
  /\ UNCHANGED << binding, flags, running, carrier, napi, poll, intr, hard,
                  mac, queued >>

\* pci_disable_device, e1000_io_slot_reset
SlotReset ==
  /\ pc["core"] = "slot_reset"
  /\ \/ GiveUp /\ UNCHANGED << tctl, ims, lsc, get_link_status >>
     \/ Reset /\ Goto("core", "io_resume") /\ UNCHANGED op
  /\ UNCHANGED << binding, flags, netdev, carrier, napi, poll, intr, irq, link,
                  rings, queued >>

IoResume ==
  /\ pc["core"] = "io_resume"
  /\ Goto("core", IF running THEN "up_configure" ELSE "attach")
  /\ UNCHANGED << op, binding, flags, netdev, carrier, napi, poll, intr,
                  hard, mac, queued >>

CoreNext ==
  \/ Probe \/ ProbeFail \/ ProbeCarrier \/ RemoveStart \/ RemoveFree
  \/ SuspendStart \/ WaitReset("core") \/ SuspendSave \/ Resume \/ Attach
  \/ ErrorDetected \/ SlotReset \/ IoResume
  \/ DownSteps("core") \/ UpSteps("core")

Next ==
  \/ RtnlNext \/ ResetNext \/ WatchdogNext \/ IntrNext \/ PollNext
  \/ CoreNext \/ TxTimeout \/ LinkChange

Spec == Init /\ [][Next]_vars

\* What is scheduled runs: the workers, the softirq, an unmasked interrupt,
\* and an operation that was begun.
Fairness ==
  /\ SF_vars(ResetNext) /\ WF_vars(WatchdogNext) /\ WF_vars(PollNext)
  /\ WF_vars(ims /\ lsc /\ IntrEnter) /\ WF_vars(IntrAct)

FairSpec == Spec /\ Fairness

-----------------------------------------------------------------------------

\* The places of e1000_down, of e1000_up, and all of them.
DownPlaces == { "down", "down_napi", "down_irq", "down_flag", "down_cancel",
                "down_kill", "down_reset" }
UpPlaces   == { "up_configure", "up_napi", "up_irq" }
Places     == ProbePlaces \cup DownPlaces \cup UpPlaces \cup
              { "idle", "lock", "reset_only", "unlock", "open_irq", "wait",
                "close_free", "carrier", "bound", "failed", "suspend_save",
                "asleep", "attach", "slot_reset", "io_resume", "unregister",
                "gone", "link", "tx" }

\* Every variable keeps its type: threads, and what they share.
ThreadsType ==
  /\ op \in [Thread -> { "none", "open", "close", "reinit", "suspend",
                         "resume", "recover", "remove" }]
  /\ pc \in [Thread \cup { "watchdog" } -> Places]

SharedType ==
  /\ { DOWN, RESETTING, running, present, carrier, irq, ims, lsc, tctl, link,
       rings, get_link_status } \subseteq BOOLEAN
  /\ napi \in { "off", "on", "sched" }
  /\ poll \in { "idle", "enable" } /\ intr \in { "idle", "lsc", "other" }
  /\ queued \subseteq Work

TypeOK == ThreadsType /\ SharedType

\* napi_enable insists (BUG_ON) that NAPI is disabled.  Whoever calls it, its
\* own napi_disable is the last one that ended: it serves as the lock between
\* close, the reset task, suspend and error recovery, which share no other.
NapiEnableOk == \A t \in Thread : pc[t] = "up_napi" => napi = "off"

\* The poll, e1000_configure and the cleaning in e1000_down touch the rings
\* that e1000_close frees (and every variable keeps its type).
RingsLive ==
  /\ TypeOK
  /\ ( \/ napi = "sched"
       \/ \E t \in Thread : /\ pc[t] \in { "up_configure", "down_reset" }
                            /\ op[t] # "remove" )
     => rings

Settled == \A t \in Thread : pc[t] \in { "idle", "bound" }

\* The watchdog reschedules itself and stops whenever the adapter goes down
\* or asks for a reset: on an adapter that is up there is always something
\* that will run it again.
WatchdogAlive ==
  running /\ present /\ ~DOWN /\ Settled
  => \/ queued # {} \/ pc["watchdog"] # "idle"
     \/ lsc \/ intr = "lsc"

\* A failed probe lets go of all it acquired, with one exception: when the
\* MDIO registers of a ce4100 cannot be mapped, err_mdio_ioremap forgets the
\* two ring arrays.
Forgotten(place) == IF place = "mdio" THEN { "queues" } ELSE {}

ProbeUnwinds ==
  pc["core"] = "failed" => held = {} /\ leaked \subseteq Forgotten(failed_at)

\* Once the interface stays open and the cable plugged in, the carrier comes
\* on, and comes back after every reset.
LinkLeadsToCarrier ==
  <>[](/\ running /\ present /\ link
       /\ pc["rtnl"] = "idle" /\ pc["core"] = "bound")
  => []<>carrier

\* "enable transmits in the hardware" comes with the carrier: an adapter that
\* is up and has its carrier can send.
CarrierMeansTransmit ==
  running /\ present /\ carrier /\ Settled /\ pc["watchdog"] = "idle" => tctl

\* No work item is left once the adapter has been turned down.
NoWorkAfterDown ==
  ~running /\ Settled => queued = {} /\ pc["watchdog"] = "idle"
=============================================================================
