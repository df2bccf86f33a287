---------------------------- MODULE E1000Filter ----------------------------
(***************************************************************************)
(* The receive filters of the e1000 driver: promiscuous modes, address     *)
(* lists and VLANs.  The stack changes them under rtnl, while the reset    *)
(* task, which takes no lock the stack takes, resets the hardware and      *)
(* writes them all again.  Both read a register, change bits of it and     *)
(* write it back.                                                          *)
(***************************************************************************)
EXTENDS FiniteSets, Integers

CONSTANTS
  Lists,      \* pairs [uc, mc]: unicast and multicast lists of the netdev
  Entries,    \* exact filters beside the one of the station address
  Vlan,       \* VLAN identifiers, of one word of the VFTA
  MngVid,     \* hw->mng_cookie.vlan_id
  NoVid       \* E1000_MNG_VLAN_NONE, 65535

ASSUME FilterAssumption ==
  /\ Entries \in Nat /\ MngVid \in Vlan /\ NoVid \notin Vlan
  /\ \A l \in Lists : IsFiniteSet(l.uc) /\ IsFiniteSet(l.mc)

Thread == { "rtnl", "reset" }

VARIABLES
  promisc, allmulti, list, \* netdev: flags, and the address lists
  rxall, ctag,             \* features RXALL, HW_VLAN_CTAG_RX
  running,                 \* between e1000_open and e1000_close
  cookie,                  \* the firmware asks for a VLAN of its own
  rev2,                    \* an 82542 rev. 2.0, which has no VLAN filter
  active, mng,             \* active_vlans, mng_vlan_id
  rctl,                    \* RCTL: the set of its bits that are on
  rar, mta,                \* exact filters, hash table (addresses hashed)
  vfta, vme,               \* VLAN table, CTRL.VME
  pc, op, vid,             \* each thread: place, operation, its VLAN
  copy,                    \* each thread: the register it read
  raced,                   \* an operation of the stack overlapped a reset
  missed                   \* e1000_set_rx_mode found no memory

flags == << promisc, allmulti, list >>
features == << rxall, ctag >>
board == << cookie, rev2 >>
vlans == << active, mng >>
regs == << rctl, rar, mta, vfta, vme >>
threads == << pc, op, vid, copy >>
ghost == << raced, missed >>
vars == << flags, features, running, board, vlans, regs, threads, ghost >>

\* After e1000_probe's reset and e1000_vlan_filter_on_off; mng_vlan_id is 0
\* until the first open.  That the netdev is opened between register_netdev
\* and e1000_vlan_filter_on_off is left out.
Init ==
  /\ promisc = FALSE /\ allmulti = FALSE /\ list = [uc |-> {}, mc |-> {}]
  /\ cookie \in BOOLEAN /\ rev2 \in BOOLEAN
  /\ rxall = FALSE /\ ctag = ~rev2 /\ running = FALSE
  /\ active = {} /\ mng = 0
  /\ rctl = {} /\ rar = {} /\ mta = {} /\ vfta = {} /\ vme = ctag
  /\ pc = [t \in Thread |-> "idle"] /\ op = [t \in Thread |-> "none"]
  /\ vid = NoVid /\ copy = [t \in Thread |-> {}]
  /\ raced = FALSE /\ missed = FALSE

-----------------------------------------------------------------------------
(* Threads                                                                 *)

Idle(t) == pc[t] = "idle"
Busy(t) == ~Idle(t)

Begin(t, what, place) ==
  /\ Idle(t)
  /\ pc' = [pc EXCEPT ![t] = place] /\ op' = [op EXCEPT ![t] = what]

Goto(t, place) ==
  /\ pc' = [pc EXCEPT ![t] = place]
  /\ op' = [op EXCEPT ![t] = IF place = "idle" THEN "none" ELSE @]

\* er32 into a local variable, ew32 of what became of it.
Read(t, reg) == copy' = [copy EXCEPT ![t] = reg]
Write(t, bits) == rctl' = bits /\ copy' = [copy EXCEPT ![t] = {}]

\* b is set if cond, and cleared otherwise.
Put(bits, b, cond) == IF cond THEN bits \cup { b } ELSE bits \ { b }

\* A reset that nothing overlaps writes everything again.
Overlap(t) == raced' = IF t = "reset" THEN Busy("rtnl")
                                      ELSE raced \/ Busy("reset")

\* A bound: one operation of the stack overlaps a reset, and filters that it
\* may have left wrong are followed only by the next reset.
Followed == ~raced

-----------------------------------------------------------------------------
(* The management VLAN                                                     *)

\* e1000_vlan_rx_add_vid takes the management VLAN for one that is set.
AddsVid(v) == ~(cookie /\ v = mng)

\* e1000_update_mng_vlan, on a VLAN table with the entries tab.  The VLAN it
\* managed before, which the host does not use, it removes.
UpdateMng(tab) ==
  LET asks == active # {} /\ MngVid \notin active /\ cookie
      added == IF asks /\ AddsVid(MngVid) THEN { MngVid } ELSE {}
      killed == IF active # {} /\ MngVid \notin active
                THEN { mng } \ (active \cup { MngVid, NoVid }) ELSE {}
  IN /\ active' = active \cup added
     /\ vfta' = (tab \cup added) \ killed
     /\ mng' = CASE active = {} -> mng
                 [] asks \/ MngVid \in active -> MngVid
                 [] OTHER -> NoVid

-----------------------------------------------------------------------------
(* e1000_set_rx_mode                                                       *)

\* e1000_configure goes on with e1000_restore_vlan.
ModeDone(t) == Goto(t, IF op[t] = "config" THEN "restore" ELSE "idle")

\* Without memory it returns before it wrote anything.
ModeRead(t) ==
  /\ pc[t] = "mode"
  /\ \/ Read(t, rctl) /\ Goto(t, "mode_rctl") /\ UNCHANGED missed
     \/ /\ missed' = TRUE /\ UNCHANGED copy
        /\ ModeDone(t)
  /\ UNCHANGED << flags, features, running, board, vlans, regs, vid, raced >>

TooMany == Cardinality(list.uc) > Entries

ModeBits(bits) ==
  LET m == Put(bits, "MPE", promisc \/ allmulti)
      u == Put(m, "UPE", promisc \/ TooMany)
  IN IF promisc THEN u \ { "VFE" }
                ELSE IF active # {} THEN u \cup { "VFE" } ELSE u

ModeRctl(t) ==
  /\ pc[t] = "mode_rctl"
  /\ Write(t, ModeBits(copy[t]))
  /\ Goto(t, IF rev2 THEN "enter" ELSE "mode_addr")
  /\ UNCHANGED << flags, features, running, board, vlans, rar, mta, vfta, vme,
                  vid, ghost >>

\* Unicast addresses first, then multicast ones, as many as there are exact
\* filters; what remains goes to the hash table.
HashedNone(exact) == {}
Hashed(exact) == list.mc \ exact

ModeAddr(t) ==
  /\ pc[t] = "mode_addr"
  /\ LET uc == IF promisc \/ TooMany THEN {} ELSE list.uc
         room == Entries - Cardinality(uc)
         fits == IF Cardinality(list.mc) < room THEN Cardinality(list.mc)
                                                ELSE room
     IN \E mc \in SUBSET list.mc :
          /\ Cardinality(mc) = fits
          /\ rar' = uc \cup mc /\ mta' = Hashed(mc)
  /\ missed' = FALSE
  /\ IF rev2 THEN Goto(t, "leave") ELSE ModeDone(t)
  /\ UNCHANGED << flags, features, running, board, vlans, rctl, vfta, vme,
                  vid, copy, raced >>

-----------------------------------------------------------------------------
(* The 82542 takes addresses only while its receive unit is in reset.      *)

\* e1000_enter_82542_rst
EnterRead(t) ==
  /\ pc[t] = "enter"
  /\ Read(t, rctl) /\ Goto(t, "enter_write")
  /\ UNCHANGED << flags, features, running, board, vlans, regs, vid, ghost >>

EnterWrite(t) ==
  /\ pc[t] = "enter_write"
  /\ Write(t, copy[t] \cup { "RST" })
  /\ Goto(t, IF op[t] = "mac" THEN "leave" ELSE "mode_addr")
  /\ UNCHANGED << flags, features, running, board, vlans, rar, mta, vfta, vme,
                  vid, ghost >>

\* e1000_leave_82542_rst, and e1000_configure_rx if the netdev is up.
LeaveRead(t) ==
  /\ pc[t] = "leave"
  /\ Read(t, rctl) /\ Goto(t, "leave_write")
  /\ UNCHANGED << flags, features, running, board, vlans, regs, vid, ghost >>

LeaveWrite(t) ==
  /\ pc[t] = "leave_write"
  /\ Write(t, copy[t] \ { "RST" })
  /\ IF running \/ op[t] = "config" THEN Goto(t, "again") ELSE ModeDone(t)
  /\ UNCHANGED << flags, features, running, board, vlans, rar, mta, vfta, vme,
                  vid, ghost >>

-----------------------------------------------------------------------------
(* VLANs                                                                   *)

\* e1000_vlan_filter_on_off reads RCTL; "restore" is e1000_restore_vlan,
\* which does so when a VLAN is used.
OnRead(t) ==
  /\ pc[t] \in { "on", "restore", "off" }
  /\ vme' = IF pc[t] = "restore" /\ active = {} THEN vme ELSE ctag
  /\ IF pc[t] = "restore" /\ active = {}
     THEN Goto(t, "setup") /\ UNCHANGED copy
     ELSE Goto(t, IF pc[t] = "off" THEN "off_write" ELSE "on_write")
          /\ Read(t, rctl)
  /\ UNCHANGED << flags, features, running, board, vlans, rctl, rar, mta,
                  vfta, vid, ghost >>

OnAlways(bits) == bits \cup { "VFE" }
OnBits(bits) == IF promisc THEN bits ELSE bits \cup { "VFE" }

OnWrite(t) ==
  /\ pc[t] = "on_write"
  /\ Write(t, OnBits(copy[t]))
  /\ UpdateMng(vfta)
  /\ Goto(t, IF op[t] = "config" THEN "vids" ELSE "vfta")
  /\ UNCHANGED << flags, features, running, board, rar, mta, vme, vid, ghost >>

OffWrite(t) ==
  /\ pc[t] = "off_write"
  /\ Write(t, copy[t] \ { "VFE" })
  /\ Goto(t, "idle")
  /\ UNCHANGED << flags, features, running, board, vlans, rar, mta, vfta,
                  vme, vid, ghost >>

\* e1000_restore_vlan adds every VLAN in use, skipping the management VLAN.
RestoreVids(t) ==
  /\ pc[t] = "vids"
  /\ vfta' = vfta \cup { v \in active : AddsVid(v) }
  /\ Goto(t, "setup")
  /\ UNCHANGED << flags, features, running, board, vlans, rctl, rar, mta, vme,
                  vid, copy, ghost >>

\* The table's word is read, changed and written back, and then the bit of
\* active_vlans set or cleared.
VftaRead(t) ==
  /\ pc[t] = "vfta"
  /\ Read(t, vfta) /\ Goto(t, "vfta_write")
  /\ UNCHANGED << flags, features, running, board, vlans, regs, vid, ghost >>

VftaWrite(t) ==
  /\ pc[t] = "vfta_write"
  /\ vfta' = Put(copy[t], vid, op[t] = "add")
  /\ copy' = [copy EXCEPT ![t] = {}]
  /\ Goto(t, "bit")
  /\ UNCHANGED << flags, features, running, board, vlans, rctl, rar, mta, vme,
                  vid, ghost >>

SetBit(t) ==
  /\ pc[t] = "bit"
  /\ active' = Put(active, vid, op[t] = "add")
  /\ Goto(t, IF active' = {} THEN "off" ELSE "idle")
  /\ vid' = NoVid
  /\ UNCHANGED << flags, features, running, board, mng, regs, copy, ghost >>

-----------------------------------------------------------------------------
(* Configuration                                                           *)

\* e1000_setup_rctl
SetupRead(t) ==
  /\ pc[t] = "setup"
  /\ Read(t, rctl) /\ Goto(t, "setup_write")
  /\ UNCHANGED << flags, features, running, board, vlans, regs, vid, ghost >>

SetupBits(bits) == IF rxall THEN bits \ { "VFE" } ELSE bits

SetupWrite(t) ==
  /\ pc[t] = "setup_write"
  /\ Write(t, SetupBits(copy[t]))
  /\ Goto(t, "conf")
  /\ UNCHANGED << flags, features, running, board, vlans, rar, mta, vfta, vme,
                  vid, ghost >>

\* e1000_configure_rx disables the receiver and enables it again with what it
\* read first ("again": in e1000_leave_82542_rst).
ConfRead(t) ==
  /\ pc[t] \in { "conf", "again" }
  /\ Read(t, rctl) /\ rctl' = rctl \ { "EN" }
  /\ Goto(t, IF pc[t] = "conf" THEN "conf_on" ELSE "again_on")
  /\ UNCHANGED << flags, features, running, board, vlans, rar, mta, vfta, vme,
                  vid, ghost >>

ConfWrite(t) ==
  /\ pc[t] \in { "conf_on", "again_on" }
  /\ Write(t, copy[t] \cup { "EN" })
  /\ IF pc[t] = "conf_on" THEN Goto(t, "idle") /\ running' = TRUE
                          ELSE ModeDone(t) /\ UNCHANGED running
  /\ UNCHANGED << flags, features, board, vlans, rar, mta, vfta, vme, vid,
                  ghost >>

\* e1000_reset: the hardware forgets its filters, and the management VLAN is
\* asked for again.
HwReset(tags) ==
  /\ rctl' = {} /\ rar' = {} /\ mta' = {} /\ vme' = tags
  /\ UpdateMng({})

\* The reset task: e1000_down, and e1000_configure in e1000_up.
ResetTask ==
  /\ running /\ op["rtnl"] # "config"
  /\ Begin("reset", "config", "mode") /\ Overlap("reset")
  /\ HwReset(FALSE)
  /\ UNCHANGED << flags, features, running, board, vid, copy, missed >>

\* e1000_set_features resets, too, when RXALL or RXCSUM changed;
\* e1000_vlan_mode writes the new tag feature first.
SetFeatures(all) ==
  /\ rxall' = all
  /\ Idle("reset")
  /\ IF running THEN Begin("rtnl", "config", "mode")
                ELSE Idle("rtnl") /\ UNCHANGED << pc, op >>
  /\ HwReset(FALSE)
  /\ raced' = FALSE
  /\ UNCHANGED << flags, ctag, running, board, vid, copy, missed >>

SetVlanFeature ==
  /\ Followed /\ Idle("rtnl") /\ ~rev2
  /\ ctag' = ~ctag /\ vme' = ~ctag
  /\ raced' = (raced \/ Busy("reset"))
  /\ UNCHANGED << flags, rxall, running, board, vlans, rctl, rar, mta, vfta,
                  threads, missed >>

\* e1000_open: the management VLAN, then e1000_configure.
Open ==
  /\ ~running
  /\ Begin("rtnl", "config", "mode") /\ raced' = FALSE
  /\ IF cookie /\ active # {}
     THEN /\ active' = active \cup { MngVid } /\ mng' = MngVid
          /\ vfta' = IF MngVid \in active THEN vfta ELSE vfta \cup { MngVid }
     ELSE mng' = NoVid /\ UNCHANGED << active, vfta >>
  /\ UNCHANGED << flags, features, running, board, rctl, rar, mta, vme, vid,
                  copy, missed >>

\* e1000_close resets the hardware, then kills the management VLAN if that is
\* not in use.  The reset has emptied the table, so this does no more than
\* call e1000_vlan_filter_on_off when no VLAN is left.  Without a management
\* VLAN it tests bit 65535 of active_vlans, beyond their end, which may be
\* clear, and kills 65535, whose bit in the table is that of no VLAN.
Close ==
  /\ running /\ Idle("rtnl") /\ Idle("reset")
  /\ running' = FALSE
  /\ \E clear \in BOOLEAN :
       HwReset(cookie /\ active = {} /\ (mng = NoVid => clear) /\ ctag)
  /\ UNCHANGED << flags, features, board, threads, ghost >>

-----------------------------------------------------------------------------
(* The stack                                                               *)

SetRxMode(p, a, l) ==
  /\ Followed
  /\ promisc' = p /\ allmulti' = a /\ list' = l
  /\ << p, a, l >> # flags
  /\ IF running THEN Begin("rtnl", "mode", "mode") /\ Overlap("rtnl")
                ELSE Idle("rtnl") /\ UNCHANGED << pc, op, raced >>
  /\ UNCHANGED << features, running, board, vlans, regs, vid, copy, missed >>

AddVid(v) ==
  /\ Followed
  /\ ~rev2 /\ Begin("rtnl", "add", IF active = {} THEN "on" ELSE "vfta")
  /\ AddsVid(v)
  /\ vid' = v /\ Overlap("rtnl")
  /\ UNCHANGED << flags, features, running, board, vlans, regs, copy, missed >>

KillVid(v) ==
  /\ Followed /\ v \in active
  /\ Begin("rtnl", "kill", "vfta")
  /\ vid' = v /\ Overlap("rtnl")
  /\ UNCHANGED << flags, features, running, board, vlans, regs, copy, missed >>

\* e1000_set_mac; the station address itself is not followed.
SetMac ==
  /\ Followed /\ rev2
  /\ Begin("rtnl", "mac", "enter") /\ Overlap("rtnl")
  /\ UNCHANGED << flags, features, running, board, vlans, regs, vid, copy,
                  missed >>

ThreadNext(t) ==
  \/ ModeRead(t) \/ ModeRctl(t) \/ ModeAddr(t)
  \/ EnterRead(t) \/ EnterWrite(t) \/ LeaveRead(t) \/ LeaveWrite(t)
  \/ OnRead(t) \/ OnWrite(t) \/ OffWrite(t) \/ RestoreVids(t)
  \/ VftaRead(t) \/ VftaWrite(t) \/ SetBit(t)
  \/ SetupRead(t) \/ SetupWrite(t) \/ ConfRead(t) \/ ConfWrite(t)

Next ==
  \/ (\E t \in Thread : ThreadNext(t))
  \/ ResetTask \/ (\E all \in BOOLEAN : SetFeatures(all)) \/ SetVlanFeature
  \/ Open \/ Close \/ SetMac
  \/ (\E p, a \in BOOLEAN, l \in Lists : SetRxMode(p, a, l))
  \/ (\E v \in Vlan : AddVid(v) \/ KillVid(v))

Spec == Init /\ [][Next]_vars

-----------------------------------------------------------------------------

\* Every variable keeps its type.
TypeOK ==
  /\ list \in Lists \cup { [uc |-> {}, mc |-> {}] }
  /\ active \cup vfta \subseteq Vlan /\ vid \in Vlan \cup { NoVid }
  /\ mng \in { 0, MngVid, NoVid }
  /\ rctl \subseteq { "UPE", "MPE", "VFE", "EN", "RST" }
  /\ { promisc, allmulti, rxall, ctag, running, cookie, rev2, vme, raced,
       missed }
       \subseteq BOOLEAN

\* No operation is under way, and none since the last reset raced with one.
Settled == running /\ (\A t \in Thread : Idle(t)) /\ ~raced

\* The receiver is on, every address of the lists is received, and none beside
\* them that the modes do not ask for: what set_rx_mode wrote, and what a
\* reset wrote again, is what the stack asked for last.  (And every variable
\* keeps its type.)
AddressesAgree ==
  /\ TypeOK
  /\ Settled => "EN" \in rctl /\ "RST" \notin rctl
  /\ Settled /\ ~missed =>
    /\ \A a \in list.uc : a \in rar \/ "UPE" \in rctl
    /\ \A a \in list.mc : a \in rar \cup mta \/ "MPE" \in rctl
    /\ promisc => { "UPE", "MPE" } \subseteq rctl
    /\ ("UPE" \in rctl => promisc \/ TooMany)
    /\ ("MPE" \in rctl => promisc \/ allmulti)
    /\ rar \cup mta \subseteq list.uc \cup list.mc

\* Every VLAN in use passes the filter, but for the one the firmware manages,
\* and none that was removed does; promiscuous mode sees every VLAN; tags are
\* stripped as the feature says.
VlansAgree ==
  Settled /\ ~missed =>
    /\ vfta \subseteq active
    /\ \A v \in active : v \in vfta \/ (cookie /\ v = MngVid)
    /\ promisc => "VFE" \notin rctl
    /\ active # {} /\ ~promisc /\ ~rxall => "VFE" \in rctl
    /\ active # {} => vme = ctag

\* "Disable VLAN filter": an adapter that is to receive everything receives
\* every VLAN.  The code refutes this: a VLAN added, or e1000_set_rx_mode, turns
\* the filter on again.
RxAllSeesVlans == Settled /\ rxall => "VFE" \notin rctl

\* "Enable Receives": an adapter that runs receives.
ReceiverEnabled ==
  running /\ (\A t \in Thread : Idle(t)) => "EN" \in rctl

\* The host's VLANs pass, the one the firmware manages included: close kills
\* it "not if a vlan with the same ID is registered on the host OS".
HostVlansPass ==
  Settled /\ ~missed /\ "VFE" \in rctl => active \subseteq vfta
=============================================================================
