------------------------- MODULE E1000FilterProofs -------------------------
(***************************************************************************)
(* Proofs of the safety properties of E1000Filter: for any address lists,  *)
(* any number of exact filters and any set of VLANs.                       *)
(***************************************************************************)
EXTENDS E1000Filter, TLAPS

-----------------------------------------------------------------------------
(* The inductive invariant.                                                *)

Bits == { "UPE", "MPE", "VFE", "EN", "RST" }

MacPlaces    == { "enter", "enter_write", "leave", "leave_write", "again",
                  "again_on" }
ModePlaces   == { "mode", "mode_rctl", "mode_addr" } \cup MacPlaces
ConfPlaces   == { "setup", "setup_write", "conf", "conf_on" }
ConfigPlaces == ModePlaces \cup ConfPlaces
                  \cup { "restore", "on_write", "vids" }
VlanPlaces   == { "on", "on_write", "vfta", "vfta_write", "bit", "off",
                  "off_write" }

\* Where a thread can be in each of its operations; both threads configure,
\* the rest is the stack's.
At(t) ==
  \/ op[t] = "none"   /\ pc[t] = "idle"
  \/ op[t] = "config" /\ pc[t] \in ConfigPlaces
  \/ op[t] = "mode"   /\ pc[t] \in ModePlaces /\ t = "rtnl"
  \/ op[t] = "mac"    /\ pc[t] \in MacPlaces /\ t = "rtnl"
  \/ op[t] = "add"    /\ pc[t] \in VlanPlaces \ { "off", "off_write" }
                      /\ t = "rtnl"
  \/ op[t] = "kill"   /\ pc[t] \in VlanPlaces \ { "on", "on_write" }
                      /\ t = "rtnl"

ThreadInv ==
  /\ pc \in [Thread -> ConfigPlaces \cup VlanPlaces \cup { "idle" }]
  /\ op \in [Thread -> { "none", "config", "mode", "mac", "add", "kill" }]
  /\ \A t \in Thread : At(t)

\* Where a thread is about to write the RCTL it has read.
WritePlaces == { "mode_rctl", "enter_write", "leave_write", "on_write",
                 "off_write", "setup_write" }

\* A thread holds a copy of RCTL or of the VLAN table, and the stack's a VLAN
\* to add or kill.
CopyInv ==
  /\ copy = [t \in Thread |-> copy[t]]
  /\ \A t \in Thread :
       /\ pc[t] \in WritePlaces \cup { "conf_on", "again_on" }
          => copy[t] \subseteq Bits
       /\ pc[t] = "vfta_write" => copy[t] \subseteq Vlan
       /\ op[t] \in { "add", "kill" } /\ pc[t] \notin { "off", "off_write" }
          => vid \in Vlan

\* An operation raced with a reset, and the adapter runs: nothing is claimed.
Exact == ~raced \/ ~running

\* Otherwise one thread at most is at work, and the register it has read is
\* as it was.
AloneInv ==
  /\ ~running => Idle("reset")
  /\ ~running /\ raced => Idle("rtnl")
  /\ running => op["rtnl"] # "config" \/ Idle("reset")
  /\ Exact =>
       /\ Idle("rtnl") \/ Idle("reset")
       /\ \A t \in Thread :
            /\ pc[t] \in WritePlaces => copy[t] = rctl
            /\ pc[t] \in { "conf_on", "again_on" } => copy[t] \ { "EN" } = rctl
            /\ pc[t] = "vfta_write" => copy[t] = vfta

\* An adapter that runs, or is being opened, and was followed since the last
\* reset.
Live == ~raced /\ (running \/ op["rtnl"] = "config")

\* No thread is at one of these places.
Past(places) == \A t \in Thread : pc[t] \notin places

\* The modes in RCTL are those the stack asked for, once e1000_set_rx_mode
\* has written them, ...
ModesWritten ==
  \/ \E t \in Thread : op[t] # "mac" /\ pc[t] \in MacPlaces \cup { "mode_addr" }
  \/ ~missed /\ Past({ "mode", "mode_rctl" })

ModesInv ==
  Live /\ ModesWritten =>
    /\ "UPE" \in rctl <=> promisc \/ TooMany
    /\ "MPE" \in rctl <=> promisc \/ allmulti
    /\ promisc => "VFE" \notin rctl
    /\ /\ ~promisc /\ ~rxall
       /\ \/ active # {}
          \/ \E t \in Thread : /\ op[t] = "add"
                               /\ pc[t] \in { "vfta", "vfta_write", "bit" }
       => "VFE" \in rctl

\* ... and so are the address filters.
ListsInv ==
  /\ Live /\ ~missed
  /\ \A t \in Thread : \/ op[t] = "mac"
                      \/ pc[t] \notin { "mode", "mode_rctl", "enter",
                                       "enter_write", "mode_addr" }
  =>
    /\ \A a \in list.uc : a \in rar \/ promisc \/ TooMany
    /\ \A a \in list.mc : a \in rar \cup mta
    /\ rar \cup mta \subseteq list.uc \cup list.mc

\* The first open chooses the management VLAN.
MngInv == running \/ op["rtnl"] = "config" => mng \in { MngVid, NoVid }

\* The table holds no VLAN that is not in use, but for one being added; at
\* the bit of active_vlans it has been written, and filtering is turned off
\* only when none is in use.
TableInv ==
  /\ pc["rtnl"] \in { "off", "off_write" } => active = {}
  /\ Exact =>
       /\ pc["rtnl"] = "bit" => (vid \in vfta <=> op["rtnl"] = "add")
       /\ \A v \in vfta : v \in active \/ (pc["rtnl"] = "bit" /\ v = vid)

\* It holds every VLAN in use, but for the firmware's and one being killed,
\* once e1000_restore_vlan has run.
Configuring(t) == op[t] = "config" /\ pc[t] \notin ConfPlaces

RestoredInv ==
  Live /\ (\A t \in Thread : ~Configuring(t)) =>
    \A v \in active :
      \/ v \in vfta \/ (cookie /\ v = MngVid)
      \/ op["rtnl"] = "kill" /\ pc["rtnl"] = "bit" /\ v = vid

\* Tags are stripped as the feature says, as soon as a VLAN is in use.
TagsInv ==
  /\ Live
  /\ \A t \in Thread :
       op[t] = "config" => pc[t] \notin ModePlaces \cup { "restore" }
  /\ active # {} \/ (op["rtnl"] = "add" /\ pc["rtnl"] # "on")
  => vme = ctag

\* The receive unit is in reset only between entering and leaving it, and the
\* receiver off only where it is configured.
UnitInv ==
  /\ \A t \in Thread : pc[t] \in MacPlaces => rev2
  /\ Exact /\ "RST" \in rctl
       => /\ rev2
          /\ \E t \in Thread :
               pc[t] \in { "mode_addr", "leave", "leave_write" }
  /\ /\ running /\ ~raced
     /\ \A t \in Thread : op[t] # "config" /\ pc[t] # "again_on"
     => "EN" \in rctl

IInv == /\ TypeOK /\ ThreadInv /\ CopyInv /\ AloneInv /\ ModesInv /\ ListsInv
        /\ MngInv /\ TableInv /\ RestoredInv /\ TagsInv /\ UnitInv

-----------------------------------------------------------------------------
(* Every step preserves each part of it.                                   *)

\* The bits of RCTL that e1000_set_rx_mode computes: the modes of the stack,
\* and VLAN filtering when it is wanted and not promiscuous.
LEMMA ModeBitsPut ==
  ASSUME { promisc, allmulti } \subseteq BOOLEAN, NEW bits
  PROVE  /\ "UPE" \in ModeBits(bits) <=> promisc \/ TooMany
         /\ "MPE" \in ModeBits(bits) <=> promisc \/ allmulti
         /\ promisc => "VFE" \notin ModeBits(bits)
         /\ ~promisc /\ active # {} => "VFE" \in ModeBits(bits)
<1>1. CASE promisc
  <2>1. ModeBits(bits) = ((bits \cup { "MPE" }) \cup { "UPE" }) \ { "VFE" }
    BY <1>1 DEF ModeBits, Put
  <2>2. QED
    BY <1>1, <2>1
<1>2. CASE ~promisc /\ active # {}
  BY <1>2 DEF ModeBits, Put
<1>3. CASE ~promisc /\ active = {}
  BY <1>3 DEF ModeBits, Put
<1>4. QED
  BY <1>1, <1>2, <1>3

\* After e1000_set_rx_mode, e1000_configure goes on, and the stack is done.
LEMMA ModeDoneIs ==
  ASSUME ThreadInv, NEW t \in Thread, ModeDone(t)
  PROVE  \/ /\ op[t] = "config" /\ op' = op
            /\ pc' = [pc EXCEPT ![t] = "restore"]
         \/ /\ op[t] # "config" /\ op' = [op EXCEPT ![t] = "none"]
            /\ pc' = [pc EXCEPT ![t] = "idle"]
  BY DEF ThreadInv, ModeDone, Goto

\* Each step keeps the types.
LEMMA TypeStep == TypeOK /\ ThreadInv /\ CopyInv /\ [Next]_vars => TypeOK'
<1> SUFFICES ASSUME TypeOK, ThreadInv, CopyInv, [Next]_vars
             PROVE  TypeOK'
  OBVIOUS
<1> USE FilterAssumption DEF CopyInv, TypeOK, ThreadInv, At, Bits,
            ConfigPlaces, ModePlaces, MacPlaces, ConfPlaces, VlanPlaces,
            Thread, Idle, Busy, Begin, Goto, Read, Write, Put, ModeDone,
            flags, features, board, vlans, regs, threads, ghost, AddsVid,
            WritePlaces
<1>1. ASSUME NEW t \in Thread, ModeRead(t) PROVE TypeOK'
  BY <1>1 DEF ModeRead
<1>2. ASSUME NEW t \in Thread, ModeRctl(t) PROVE TypeOK'
  BY <1>2 DEF ModeRctl, ModeBits, TooMany
<1>3. ASSUME NEW t \in Thread, ModeAddr(t) PROVE TypeOK'
  BY <1>3 DEF ModeAddr, Hashed, TooMany
<1>4. ASSUME NEW t \in Thread, OnRead(t) PROVE TypeOK'
  BY <1>4 DEF OnRead
<1>5. ASSUME NEW t \in Thread, OnWrite(t) PROVE TypeOK'
  BY <1>5 DEF OnWrite, OnBits, UpdateMng
<1>6. ASSUME NEW t \in Thread, OffWrite(t) PROVE TypeOK'
  BY <1>6 DEF OffWrite
<1>7. ASSUME NEW t \in Thread, RestoreVids(t) PROVE TypeOK'
  BY <1>7 DEF RestoreVids
<1>8. ASSUME NEW t \in Thread, VftaRead(t) PROVE TypeOK'
  BY <1>8 DEF VftaRead
<1>9. ASSUME NEW t \in Thread, VftaWrite(t) PROVE TypeOK'
  BY <1>9 DEF VftaWrite
<1>10. ASSUME NEW t \in Thread, SetBit(t) PROVE TypeOK'
  BY <1>10 DEF SetBit
<1>11. ASSUME NEW t \in Thread, SetupRead(t) PROVE TypeOK'
  BY <1>11 DEF SetupRead
<1>12. ASSUME NEW t \in Thread, SetupWrite(t) PROVE TypeOK'
  BY <1>12 DEF SetupWrite, SetupBits
<1>13. CASE ResetTask
  BY <1>13 DEF ResetTask, HwReset, UpdateMng, Overlap
<1>14. ASSUME NEW all \in BOOLEAN, SetFeatures(all)
      PROVE  TypeOK'
  BY <1>14 DEF SetFeatures, HwReset, UpdateMng
<1>15. CASE SetVlanFeature
  BY <1>15 DEF SetVlanFeature, Followed
<1>16. CASE Open
  BY <1>16 DEF Open
<1>17. CASE Close
  BY <1>17 DEF Close, HwReset, UpdateMng
<1>18. ASSUME NEW p \in BOOLEAN, NEW a \in BOOLEAN,
             NEW l \in Lists, SetRxMode(p, a, l)
      PROVE  TypeOK'
  BY <1>18 DEF SetRxMode, Overlap, Followed
<1>19. ASSUME NEW v \in Vlan, AddVid(v)
      PROVE  TypeOK'
  BY <1>19 DEF AddVid, Overlap, Followed
<1>20. ASSUME NEW v \in Vlan, KillVid(v)
      PROVE  TypeOK'
  BY <1>20 DEF KillVid, Overlap, Followed
<1>21. CASE UNCHANGED vars
  BY <1>21 DEF vars
<1>23. ASSUME NEW t \in Thread, EnterRead(t) PROVE TypeOK'
  BY <1>23 DEF EnterRead
<1>24. ASSUME NEW t \in Thread, EnterWrite(t) PROVE TypeOK'
  BY <1>24 DEF EnterWrite
<1>25. ASSUME NEW t \in Thread, LeaveRead(t) PROVE TypeOK'
  BY <1>25 DEF LeaveRead
<1>26. ASSUME NEW t \in Thread, LeaveWrite(t) PROVE TypeOK'
  BY <1>26 DEF LeaveWrite
<1>27. ASSUME NEW t \in Thread, ConfRead(t) PROVE TypeOK'
  BY <1>27 DEF ConfRead
<1>28. ASSUME NEW t \in Thread, ConfWrite(t) PROVE TypeOK'
  BY <1>28 DEF ConfWrite
<1>29. CASE SetMac
  BY <1>29 DEF SetMac, Overlap, Followed
<1>30. QED
  BY <1>1, <1>2, <1>3, <1>4, <1>5, <1>6, <1>7, <1>8, <1>9, <1>10, <1>11,
     <1>12, <1>13, <1>14, <1>15, <1>16, <1>17, <1>18, <1>19, <1>20, <1>21,
     <1>23, <1>24, <1>25, <1>26, <1>27, <1>28, <1>29 DEF Next, ThreadNext

\* Each step leaves each thread at a place of its operation.
LEMMA ThreadStep == ThreadInv /\ [Next]_vars => ThreadInv'
<1> SUFFICES ASSUME ThreadInv, [Next]_vars
             PROVE  ThreadInv'
  OBVIOUS
<1> USE FilterAssumption DEF ThreadInv, At, Bits, ConfigPlaces, ModePlaces,
            MacPlaces, ConfPlaces, VlanPlaces, Thread, Idle, Busy, Begin,
            Goto, Read, Write, Put, ModeDone, flags, features, board, vlans,
            regs, threads, ghost, AddsVid, WritePlaces
<1>1. ASSUME NEW t \in Thread, ModeRead(t) PROVE ThreadInv'
  BY <1>1 DEF ModeRead
<1>2. ASSUME NEW t \in Thread, ModeRctl(t) PROVE ThreadInv'
  BY <1>2 DEF ModeRctl
<1>3. ASSUME NEW t \in Thread, ModeAddr(t) PROVE ThreadInv'
  BY <1>3 DEF ModeAddr, Hashed, TooMany
<1>4. ASSUME NEW t \in Thread, OnRead(t) PROVE ThreadInv'
  BY <1>4 DEF OnRead
<1>5. ASSUME NEW t \in Thread, OnWrite(t) PROVE ThreadInv'
  BY <1>5 DEF OnWrite
<1>6. ASSUME NEW t \in Thread, OffWrite(t) PROVE ThreadInv'
  BY <1>6 DEF OffWrite
<1>7. ASSUME NEW t \in Thread, RestoreVids(t) PROVE ThreadInv'
  BY <1>7 DEF RestoreVids
<1>8. ASSUME NEW t \in Thread, VftaRead(t) PROVE ThreadInv'
  BY <1>8 DEF VftaRead
<1>9. ASSUME NEW t \in Thread, VftaWrite(t) PROVE ThreadInv'
  BY <1>9 DEF VftaWrite
<1>10. ASSUME NEW t \in Thread, SetBit(t) PROVE ThreadInv'
  BY <1>10 DEF SetBit
<1>11. ASSUME NEW t \in Thread, SetupRead(t) PROVE ThreadInv'
  BY <1>11 DEF SetupRead
<1>12. ASSUME NEW t \in Thread, SetupWrite(t) PROVE ThreadInv'
  BY <1>12 DEF SetupWrite
<1>13. CASE ResetTask
  BY <1>13 DEF ResetTask, HwReset, UpdateMng, Overlap
<1>14. ASSUME NEW all \in BOOLEAN, SetFeatures(all)
      PROVE  ThreadInv'
  BY <1>14 DEF SetFeatures, HwReset, UpdateMng
<1>15. CASE SetVlanFeature
  BY <1>15 DEF SetVlanFeature, Followed
<1>16. CASE Open
  BY <1>16 DEF Open
<1>17. CASE Close
  BY <1>17 DEF Close, HwReset, UpdateMng
<1>18. ASSUME NEW p \in BOOLEAN, NEW a \in BOOLEAN,
             NEW l \in Lists, SetRxMode(p, a, l)
      PROVE  ThreadInv'
  BY <1>18 DEF SetRxMode, Overlap, Followed
<1>19. ASSUME NEW v \in Vlan, AddVid(v)
      PROVE  ThreadInv'
  BY <1>19 DEF AddVid, Overlap, Followed
<1>20. ASSUME NEW v \in Vlan, KillVid(v)
      PROVE  ThreadInv'
  BY <1>20 DEF KillVid, Overlap, Followed
<1>21. CASE UNCHANGED vars
  BY <1>21 DEF vars
<1>23. ASSUME NEW t \in Thread, EnterRead(t) PROVE ThreadInv'
  BY <1>23 DEF EnterRead
<1>24. ASSUME NEW t \in Thread, EnterWrite(t) PROVE ThreadInv'
  BY <1>24 DEF EnterWrite
<1>25. ASSUME NEW t \in Thread, LeaveRead(t) PROVE ThreadInv'
  BY <1>25 DEF LeaveRead
<1>26. ASSUME NEW t \in Thread, LeaveWrite(t) PROVE ThreadInv'
  BY <1>26 DEF LeaveWrite
<1>27. ASSUME NEW t \in Thread, ConfRead(t) PROVE ThreadInv'
  BY <1>27 DEF ConfRead
<1>28. ASSUME NEW t \in Thread, ConfWrite(t) PROVE ThreadInv'
  BY <1>28 DEF ConfWrite
<1>29. CASE SetMac
  BY <1>29 DEF SetMac, Overlap, Followed
<1>30. QED
  BY <1>1, <1>2, <1>3, <1>4, <1>5, <1>6, <1>7, <1>8, <1>9, <1>10, <1>11,
     <1>12, <1>13, <1>14, <1>15, <1>16, <1>17, <1>18, <1>19, <1>20, <1>21,
     <1>23, <1>24, <1>25, <1>26, <1>27, <1>28, <1>29 DEF Next, ThreadNext

\* No step reads something else into a copy.
LEMMA CopyStep == TypeOK /\ ThreadInv /\ CopyInv /\ [Next]_vars => CopyInv'
<1> SUFFICES ASSUME TypeOK, ThreadInv, CopyInv, [Next]_vars
             PROVE  CopyInv'
  OBVIOUS
<1> USE FilterAssumption DEF CopyInv, TypeOK, ThreadInv, At, Bits,
            ConfigPlaces, ModePlaces, MacPlaces, ConfPlaces, VlanPlaces,
            Thread, Idle, Busy, Begin, Goto, Read, Write, Put, ModeDone,
            flags, features, board, vlans, regs, threads, ghost, AddsVid,
            WritePlaces
<1>1. ASSUME NEW t \in Thread, ModeRead(t) PROVE CopyInv'
  BY <1>1 DEF ModeRead
<1>2. ASSUME NEW t \in Thread, ModeRctl(t) PROVE CopyInv'
  BY <1>2 DEF ModeRctl, ModeBits, TooMany
<1>3. ASSUME NEW t \in Thread, ModeAddr(t) PROVE CopyInv'
  BY <1>3 DEF ModeAddr, Hashed, TooMany
<1>4. ASSUME NEW t \in Thread, OnRead(t) PROVE CopyInv'
  BY <1>4 DEF OnRead
<1>5. ASSUME NEW t \in Thread, OnWrite(t) PROVE CopyInv'
  BY <1>5 DEF OnWrite
<1>6. ASSUME NEW t \in Thread, OffWrite(t) PROVE CopyInv'
  BY <1>6 DEF OffWrite
<1>7. ASSUME NEW t \in Thread, RestoreVids(t) PROVE CopyInv'
  BY <1>7 DEF RestoreVids
<1>8. ASSUME NEW t \in Thread, VftaRead(t) PROVE CopyInv'
  BY <1>8 DEF VftaRead
<1>9. ASSUME NEW t \in Thread, VftaWrite(t) PROVE CopyInv'
  BY <1>9 DEF VftaWrite
<1>10. ASSUME NEW t \in Thread, SetBit(t) PROVE CopyInv'
  BY <1>10 DEF SetBit
<1>11. ASSUME NEW t \in Thread, SetupRead(t) PROVE CopyInv'
  BY <1>11 DEF SetupRead
<1>12. ASSUME NEW t \in Thread, SetupWrite(t) PROVE CopyInv'
  BY <1>12 DEF SetupWrite, SetupBits
<1>13. CASE ResetTask
  BY <1>13 DEF ResetTask, HwReset, UpdateMng, Overlap
<1>14. ASSUME NEW all \in BOOLEAN, SetFeatures(all)
      PROVE  CopyInv'
  BY <1>14 DEF SetFeatures, HwReset, UpdateMng
<1>15. CASE SetVlanFeature
  BY <1>15 DEF SetVlanFeature, Followed
<1>16. CASE Open
  BY <1>16 DEF Open
<1>17. CASE Close
  BY <1>17 DEF Close, HwReset, UpdateMng
<1>18. ASSUME NEW p \in BOOLEAN, NEW a \in BOOLEAN,
             NEW l \in Lists, SetRxMode(p, a, l)
      PROVE  CopyInv'
  BY <1>18 DEF SetRxMode, Overlap, Followed
<1>19. ASSUME NEW v \in Vlan, AddVid(v)
      PROVE  CopyInv'
  BY <1>19 DEF AddVid, Overlap, Followed
<1>20. ASSUME NEW v \in Vlan, KillVid(v)
      PROVE  CopyInv'
  BY <1>20 DEF KillVid, Overlap, Followed
<1>21. CASE UNCHANGED vars
  BY <1>21 DEF vars
<1>23. ASSUME NEW t \in Thread, EnterRead(t) PROVE CopyInv'
  BY <1>23 DEF EnterRead
<1>24. ASSUME NEW t \in Thread, EnterWrite(t) PROVE CopyInv'
  BY <1>24 DEF EnterWrite
<1>25. ASSUME NEW t \in Thread, LeaveRead(t) PROVE CopyInv'
  BY <1>25 DEF LeaveRead
<1>26. ASSUME NEW t \in Thread, LeaveWrite(t) PROVE CopyInv'
  BY <1>26 DEF LeaveWrite
<1>27. ASSUME NEW t \in Thread, ConfRead(t) PROVE CopyInv'
  BY <1>27 DEF ConfRead
<1>28. ASSUME NEW t \in Thread, ConfWrite(t) PROVE CopyInv'
  BY <1>28 DEF ConfWrite
<1>29. CASE SetMac
  BY <1>29 DEF SetMac, Overlap, Followed
<1>30. QED
  BY <1>1, <1>2, <1>3, <1>4, <1>5, <1>6, <1>7, <1>8, <1>9, <1>10, <1>11,
     <1>12, <1>13, <1>14, <1>15, <1>16, <1>17, <1>18, <1>19, <1>20, <1>21,
     <1>23, <1>24, <1>25, <1>26, <1>27, <1>28, <1>29 DEF Next, ThreadNext

\* No step brings in a second thread unnoticed.
LEMMA AloneStep ==
  TypeOK /\ ThreadInv /\ CopyInv /\ AloneInv /\ [Next]_vars => AloneInv'
<1> SUFFICES ASSUME TypeOK, ThreadInv, CopyInv, AloneInv, [Next]_vars
             PROVE  AloneInv'
  OBVIOUS
<1> USE FilterAssumption DEF AloneInv, Exact, CopyInv, TypeOK, ThreadInv, At,
            Bits, ConfigPlaces, ModePlaces, MacPlaces, ConfPlaces, VlanPlaces,
            Thread, Idle, Busy, Begin, Goto, Read, Write, Put, ModeDone,
            flags, features, board, vlans, regs, threads, ghost, AddsVid,
            WritePlaces
<1>1. ASSUME NEW t \in Thread, ModeRead(t) PROVE AloneInv'
  BY <1>1 DEF ModeRead
<1>2. ASSUME NEW t \in Thread, ModeRctl(t) PROVE AloneInv'
  BY <1>2 DEF ModeRctl, ModeBits, TooMany
<1>3. ASSUME NEW t \in Thread, ModeAddr(t) PROVE AloneInv'
  BY <1>3 DEF ModeAddr, Hashed, TooMany
<1>4. ASSUME NEW t \in Thread, OnRead(t) PROVE AloneInv'
  BY <1>4 DEF OnRead
<1>5. ASSUME NEW t \in Thread, OnWrite(t) PROVE AloneInv'
  BY <1>5 DEF OnWrite, OnBits, UpdateMng
<1>6. ASSUME NEW t \in Thread, OffWrite(t) PROVE AloneInv'
  BY <1>6 DEF OffWrite
<1>7. ASSUME NEW t \in Thread, RestoreVids(t) PROVE AloneInv'
  BY <1>7 DEF RestoreVids
<1>8. ASSUME NEW t \in Thread, VftaRead(t) PROVE AloneInv'
  BY <1>8 DEF VftaRead
<1>9. ASSUME NEW t \in Thread, VftaWrite(t) PROVE AloneInv'
  BY <1>9 DEF VftaWrite
<1>10. ASSUME NEW t \in Thread, SetBit(t) PROVE AloneInv'
  BY <1>10 DEF SetBit
<1>11. ASSUME NEW t \in Thread, SetupRead(t) PROVE AloneInv'
  BY <1>11 DEF SetupRead
<1>12. ASSUME NEW t \in Thread, SetupWrite(t) PROVE AloneInv'
  BY <1>12 DEF SetupWrite, SetupBits
<1>13. CASE ResetTask
  BY <1>13 DEF ResetTask, HwReset, UpdateMng, Overlap
<1>14. ASSUME NEW all \in BOOLEAN, SetFeatures(all)
      PROVE  AloneInv'
  BY <1>14 DEF SetFeatures, HwReset, UpdateMng
<1>15. CASE SetVlanFeature
  BY <1>15 DEF SetVlanFeature, Followed
<1>16. CASE Open
  BY <1>16 DEF Open
<1>17. CASE Close
  BY <1>17 DEF Close, HwReset, UpdateMng
<1>18. ASSUME NEW p \in BOOLEAN, NEW a \in BOOLEAN,
             NEW l \in Lists, SetRxMode(p, a, l)
      PROVE  AloneInv'
  BY <1>18 DEF SetRxMode, Overlap, Followed
<1>19. ASSUME NEW v \in Vlan, AddVid(v)
      PROVE  AloneInv'
  BY <1>19 DEF AddVid, Overlap, Followed
<1>20. ASSUME NEW v \in Vlan, KillVid(v)
      PROVE  AloneInv'
  BY <1>20 DEF KillVid, Overlap, Followed
<1>21. CASE UNCHANGED vars
  BY <1>21 DEF vars
<1>23. ASSUME NEW t \in Thread, EnterRead(t) PROVE AloneInv'
  BY <1>23 DEF EnterRead
<1>24. ASSUME NEW t \in Thread, EnterWrite(t) PROVE AloneInv'
  BY <1>24 DEF EnterWrite
<1>25. ASSUME NEW t \in Thread, LeaveRead(t) PROVE AloneInv'
  BY <1>25 DEF LeaveRead
<1>26. ASSUME NEW t \in Thread, LeaveWrite(t) PROVE AloneInv'
  BY <1>26 DEF LeaveWrite
<1>27. ASSUME NEW t \in Thread, ConfRead(t) PROVE AloneInv'
  BY <1>27 DEF ConfRead
<1>28. ASSUME NEW t \in Thread, ConfWrite(t) PROVE AloneInv'
  BY <1>28 DEF ConfWrite
<1>29. CASE SetMac
  BY <1>29 DEF SetMac, Overlap, Followed
<1>30. QED
  BY <1>1, <1>2, <1>3, <1>4, <1>5, <1>6, <1>7, <1>8, <1>9, <1>10, <1>11,
     <1>12, <1>13, <1>14, <1>15, <1>16, <1>17, <1>18, <1>19, <1>20, <1>21,
     <1>23, <1>24, <1>25, <1>26, <1>27, <1>28, <1>29 DEF Next, ThreadNext

\* No step leaves RCTL with modes that the stack did not ask for.
LEMMA ModesStep ==
  TypeOK /\ ThreadInv /\ CopyInv /\ AloneInv /\ TableInv /\ ModesInv /\
  [Next]_vars => ModesInv'
<1> SUFFICES ASSUME TypeOK, ThreadInv, CopyInv, AloneInv, TableInv, ModesInv,
                    [Next]_vars
             PROVE  ModesInv'
  OBVIOUS
<1> USE FilterAssumption DEF ModesInv, ModesWritten, Live, Past, TooMany,
            TableInv, AloneInv, Exact, CopyInv, TypeOK, ThreadInv, At, Bits,
            ConfigPlaces, ModePlaces, MacPlaces, ConfPlaces, VlanPlaces,
            Thread, Idle, Busy, Begin, Goto, Read, Write, Put, ModeDone,
            flags, features, board, vlans, regs, threads, ghost, AddsVid,
            WritePlaces
<1>1. ASSUME NEW t \in Thread, ModeRead(t) PROVE ModesInv'
  BY <1>1 DEF ModeRead
<1>2. ASSUME NEW t \in Thread, ModeRctl(t) PROVE ModesInv'
  BY <1>2, ModeBitsPut DEF ModeRctl
<1>3. ASSUME NEW t \in Thread, ModeAddr(t) PROVE ModesInv'
  BY <1>3 DEF ModeAddr, Hashed, TooMany
<1>4. ASSUME NEW t \in Thread, OnRead(t) PROVE ModesInv'
  BY <1>4 DEF OnRead
<1>5. ASSUME NEW t \in Thread, OnWrite(t) PROVE ModesInv'
  BY <1>5 DEF OnWrite, OnBits, UpdateMng
<1>6. ASSUME NEW t \in Thread, OffWrite(t) PROVE ModesInv'
  BY <1>6 DEF OffWrite
<1>7. ASSUME NEW t \in Thread, RestoreVids(t) PROVE ModesInv'
  BY <1>7 DEF RestoreVids
<1>8. ASSUME NEW t \in Thread, VftaRead(t) PROVE ModesInv'
  BY <1>8 DEF VftaRead
<1>9. ASSUME NEW t \in Thread, VftaWrite(t) PROVE ModesInv'
  BY <1>9 DEF VftaWrite
<1>10. ASSUME NEW t \in Thread, SetBit(t) PROVE ModesInv'
  BY <1>10 DEF SetBit
<1>11. ASSUME NEW t \in Thread, SetupRead(t) PROVE ModesInv'
  BY <1>11 DEF SetupRead
<1>12. ASSUME NEW t \in Thread, SetupWrite(t) PROVE ModesInv'
  BY <1>12 DEF SetupWrite, SetupBits
<1>13. CASE ResetTask
  BY <1>13 DEF ResetTask, HwReset, UpdateMng, Overlap
<1>14. ASSUME NEW all \in BOOLEAN, SetFeatures(all)
      PROVE  ModesInv'
  BY <1>14 DEF SetFeatures, HwReset, UpdateMng
<1>15. CASE SetVlanFeature
  BY <1>15 DEF SetVlanFeature, Followed
<1>16. CASE Open
  BY <1>16 DEF Open
<1>17. CASE Close
  BY <1>17 DEF Close, HwReset, UpdateMng
<1>18. ASSUME NEW p \in BOOLEAN, NEW a \in BOOLEAN,
             NEW l \in Lists, SetRxMode(p, a, l)
      PROVE  ModesInv'
  BY <1>18 DEF SetRxMode, Overlap, Followed
<1>19. ASSUME NEW v \in Vlan, AddVid(v)
      PROVE  ModesInv'
  BY <1>19 DEF AddVid, Overlap, Followed
<1>20. ASSUME NEW v \in Vlan, KillVid(v)
      PROVE  ModesInv'
  BY <1>20 DEF KillVid, Overlap, Followed
<1>21. CASE UNCHANGED vars
  BY <1>21 DEF vars
<1>23. ASSUME NEW t \in Thread, EnterRead(t) PROVE ModesInv'
  BY <1>23 DEF EnterRead
<1>24. ASSUME NEW t \in Thread, EnterWrite(t) PROVE ModesInv'
  BY <1>24 DEF EnterWrite
<1>25. ASSUME NEW t \in Thread, LeaveRead(t) PROVE ModesInv'
  BY <1>25 DEF LeaveRead
<1>26. ASSUME NEW t \in Thread, LeaveWrite(t) PROVE ModesInv'
  BY <1>26 DEF LeaveWrite
<1>27. ASSUME NEW t \in Thread, ConfRead(t) PROVE ModesInv'
  BY <1>27 DEF ConfRead
<1>28. ASSUME NEW t \in Thread, ConfWrite(t) PROVE ModesInv'
  BY <1>28 DEF ConfWrite
<1>29. CASE SetMac
  BY <1>29 DEF SetMac, Overlap, Followed
<1>30. QED
  BY <1>1, <1>2, <1>3, <1>4, <1>5, <1>6, <1>7, <1>8, <1>9, <1>10, <1>11,
     <1>12, <1>13, <1>14, <1>15, <1>16, <1>17, <1>18, <1>19, <1>20, <1>21,
     <1>23, <1>24, <1>25, <1>26, <1>27, <1>28, <1>29 DEF Next, ThreadNext

\* No step leaves the address filters with other lists than the stack's.
LEMMA ListsStep ==
  TypeOK /\ ThreadInv /\ CopyInv /\ AloneInv /\ ListsInv /\ [Next]_vars =>
  ListsInv'
<1> SUFFICES ASSUME TypeOK, ThreadInv, CopyInv, AloneInv, ListsInv,
                    [Next]_vars
             PROVE  ListsInv'
  OBVIOUS
<1> USE FilterAssumption DEF ListsInv, Live, Past, TooMany, AloneInv, Exact,
            CopyInv, TypeOK, ThreadInv, At, Bits, ConfigPlaces, ModePlaces,
            MacPlaces, ConfPlaces, VlanPlaces, Thread, Idle, Busy, Begin,
            Goto, Read, Write, Put, ModeDone, flags, features, board, vlans,
            regs, threads, ghost, AddsVid, WritePlaces
<1>1. ASSUME NEW t \in Thread, ModeRead(t) PROVE ListsInv'
  BY <1>1 DEF ModeRead
<1>2. ASSUME NEW t \in Thread, ModeRctl(t) PROVE ListsInv'
  BY <1>2 DEF ModeRctl, ModeBits, TooMany
<1>3. ASSUME NEW t \in Thread, ModeAddr(t) PROVE ListsInv'
  BY <1>3 DEF ModeAddr, Hashed, TooMany
<1>4. ASSUME NEW t \in Thread, OnRead(t) PROVE ListsInv'
  BY <1>4 DEF OnRead
<1>5. ASSUME NEW t \in Thread, OnWrite(t) PROVE ListsInv'
  BY <1>5 DEF OnWrite, OnBits, UpdateMng
<1>6. ASSUME NEW t \in Thread, OffWrite(t) PROVE ListsInv'
  BY <1>6 DEF OffWrite
<1>7. ASSUME NEW t \in Thread, RestoreVids(t) PROVE ListsInv'
  BY <1>7 DEF RestoreVids
<1>8. ASSUME NEW t \in Thread, VftaRead(t) PROVE ListsInv'
  BY <1>8 DEF VftaRead
<1>9. ASSUME NEW t \in Thread, VftaWrite(t) PROVE ListsInv'
  BY <1>9 DEF VftaWrite
<1>10. ASSUME NEW t \in Thread, SetBit(t) PROVE ListsInv'
  BY <1>10 DEF SetBit
<1>11. ASSUME NEW t \in Thread, SetupRead(t) PROVE ListsInv'
  BY <1>11 DEF SetupRead
<1>12. ASSUME NEW t \in Thread, SetupWrite(t) PROVE ListsInv'
  BY <1>12 DEF SetupWrite, SetupBits
<1>13. CASE ResetTask
  BY <1>13 DEF ResetTask, HwReset, UpdateMng, Overlap
<1>14. ASSUME NEW all \in BOOLEAN, SetFeatures(all)
      PROVE  ListsInv'
  BY <1>14 DEF SetFeatures, HwReset, UpdateMng
<1>15. CASE SetVlanFeature
  BY <1>15 DEF SetVlanFeature, Followed
<1>16. CASE Open
  BY <1>16 DEF Open
<1>17. CASE Close
  BY <1>17 DEF Close, HwReset, UpdateMng
<1>18. ASSUME NEW p \in BOOLEAN, NEW a \in BOOLEAN,
             NEW l \in Lists, SetRxMode(p, a, l)
      PROVE  ListsInv'
  BY <1>18 DEF SetRxMode, Overlap, Followed
<1>19. ASSUME NEW v \in Vlan, AddVid(v)
      PROVE  ListsInv'
  BY <1>19 DEF AddVid, Overlap, Followed
<1>20. ASSUME NEW v \in Vlan, KillVid(v)
      PROVE  ListsInv'
  BY <1>20 DEF KillVid, Overlap, Followed
<1>21. CASE UNCHANGED vars
  BY <1>21 DEF vars
<1>23. ASSUME NEW t \in Thread, EnterRead(t) PROVE ListsInv'
  BY <1>23 DEF EnterRead
<1>24. ASSUME NEW t \in Thread, EnterWrite(t) PROVE ListsInv'
  BY <1>24 DEF EnterWrite
<1>25. ASSUME NEW t \in Thread, LeaveRead(t) PROVE ListsInv'
  BY <1>25 DEF LeaveRead
<1>26. ASSUME NEW t \in Thread, LeaveWrite(t) PROVE ListsInv'
  BY <1>26 DEF LeaveWrite
<1>27. ASSUME NEW t \in Thread, ConfRead(t) PROVE ListsInv'
  BY <1>27 DEF ConfRead
<1>28. ASSUME NEW t \in Thread, ConfWrite(t) PROVE ListsInv'
  <2>1. CASE pc[t] = "conf_on"
    BY <1>28, <2>1 DEF ConfWrite
  <2>2. CASE pc[t] = "again_on"
    BY <1>28, <2>2, ModeDoneIs DEF ConfWrite
  <2>3. QED
    BY <1>28, <2>1, <2>2 DEF ConfWrite
<1>29. CASE SetMac
  BY <1>29 DEF SetMac, Overlap, Followed
<1>30. QED
  BY <1>1, <1>2, <1>3, <1>4, <1>5, <1>6, <1>7, <1>8, <1>9, <1>10, <1>11,
     <1>12, <1>13, <1>14, <1>15, <1>16, <1>17, <1>18, <1>19, <1>20, <1>21,
     <1>23, <1>24, <1>25, <1>26, <1>27, <1>28, <1>29 DEF Next, ThreadNext

\* No step forgets that the management VLAN was chosen.
LEMMA MngStep ==
  TypeOK /\ ThreadInv /\ CopyInv /\ AloneInv /\ MngInv /\ [Next]_vars =>
  MngInv'
<1> SUFFICES ASSUME TypeOK, ThreadInv, CopyInv, AloneInv, MngInv,
                    [Next]_vars
             PROVE  MngInv'
  OBVIOUS
<1> USE FilterAssumption DEF MngInv, ThreadInv, At, Thread, Begin, Goto, Read,
            Write, flags, features, board, vlans, regs, threads, ghost
<1>1. ASSUME NEW t \in Thread, ModeRead(t) PROVE MngInv'
  BY <1>1, ModeDoneIs DEF ModeRead
<1>2. ASSUME NEW t \in Thread, ModeRctl(t) PROVE MngInv'
  BY <1>2 DEF ModeRctl, ModeBits, TooMany
<1>3. ASSUME NEW t \in Thread, ModeAddr(t) PROVE MngInv'
  BY <1>3, ModeDoneIs DEF ModeAddr
<1>4. ASSUME NEW t \in Thread, OnRead(t) PROVE MngInv'
  BY <1>4 DEF OnRead
<1>5. ASSUME NEW t \in Thread, OnWrite(t) PROVE MngInv'
  BY <1>5 DEF OnWrite, OnBits, UpdateMng
<1>6. ASSUME NEW t \in Thread, OffWrite(t) PROVE MngInv'
  BY <1>6 DEF OffWrite
<1>7. ASSUME NEW t \in Thread, RestoreVids(t) PROVE MngInv'
  BY <1>7 DEF RestoreVids
<1>8. ASSUME NEW t \in Thread, VftaRead(t) PROVE MngInv'
  BY <1>8 DEF VftaRead
<1>9. ASSUME NEW t \in Thread, VftaWrite(t) PROVE MngInv'
  BY <1>9 DEF VftaWrite
<1>10. ASSUME NEW t \in Thread, SetBit(t) PROVE MngInv'
  BY <1>10 DEF SetBit
<1>11. ASSUME NEW t \in Thread, SetupRead(t) PROVE MngInv'
  BY <1>11 DEF SetupRead
<1>12. ASSUME NEW t \in Thread, SetupWrite(t) PROVE MngInv'
  BY <1>12 DEF SetupWrite, SetupBits
<1>13. CASE ResetTask
  BY <1>13 DEF ResetTask, HwReset, UpdateMng, Overlap
<1>14. ASSUME NEW all \in BOOLEAN, SetFeatures(all)
      PROVE  MngInv'
  BY <1>14 DEF SetFeatures, HwReset, UpdateMng
<1>15. CASE SetVlanFeature
  BY <1>15 DEF SetVlanFeature, Followed
<1>16. CASE Open
  BY <1>16 DEF Open
<1>17. CASE Close
  BY <1>17 DEF Close, HwReset, UpdateMng
<1>18. ASSUME NEW p \in BOOLEAN, NEW a \in BOOLEAN,
             NEW l \in Lists, SetRxMode(p, a, l)
      PROVE  MngInv'
  BY <1>18 DEF SetRxMode, Overlap, Followed
<1>19. ASSUME NEW v \in Vlan, AddVid(v)
      PROVE  MngInv'
  BY <1>19 DEF AddVid, Overlap, Followed
<1>20. ASSUME NEW v \in Vlan, KillVid(v)
      PROVE  MngInv'
  BY <1>20 DEF KillVid, Overlap, Followed
<1>21. CASE UNCHANGED vars
  BY <1>21 DEF vars
<1>23. ASSUME NEW t \in Thread, EnterRead(t) PROVE MngInv'
  BY <1>23 DEF EnterRead
<1>24. ASSUME NEW t \in Thread, EnterWrite(t) PROVE MngInv'
  BY <1>24 DEF EnterWrite
<1>25. ASSUME NEW t \in Thread, LeaveRead(t) PROVE MngInv'
  BY <1>25 DEF LeaveRead
<1>26. ASSUME NEW t \in Thread, LeaveWrite(t) PROVE MngInv'
  BY <1>26, ModeDoneIs DEF LeaveWrite
<1>27. ASSUME NEW t \in Thread, ConfRead(t) PROVE MngInv'
  BY <1>27 DEF ConfRead
<1>28. ASSUME NEW t \in Thread, ConfWrite(t) PROVE MngInv'
  <2>1. CASE pc[t] = "conf_on"
    <3>1. running \/ op["rtnl"] = "config"
      BY <2>1, <1>28 DEF AloneInv, Idle, ConfPlaces, ModePlaces, MacPlaces,
                         VlanPlaces
    <3>2. mng' = mng
      BY <1>28 DEF ConfWrite
    <3>3. QED
      BY <3>1, <3>2
  <2>2. CASE pc[t] = "again_on"
    BY <1>28, <2>2, ModeDoneIs DEF ConfWrite
  <2>3. QED
    BY <1>28, <2>1, <2>2 DEF ConfWrite
<1>29. CASE SetMac
  BY <1>29 DEF SetMac, Overlap, Followed
<1>30. QED
  BY <1>1, <1>2, <1>3, <1>4, <1>5, <1>6, <1>7, <1>8, <1>9, <1>10, <1>11,
     <1>12, <1>13, <1>14, <1>15, <1>16, <1>17, <1>18, <1>19, <1>20, <1>21,
     <1>23, <1>24, <1>25, <1>26, <1>27, <1>28, <1>29 DEF Next, ThreadNext

\* No step puts into the table a VLAN that is not in use.
LEMMA TableStep ==
  TypeOK /\ ThreadInv /\ CopyInv /\ AloneInv /\ TableInv /\ [Next]_vars =>
  TableInv'
<1> SUFFICES ASSUME TypeOK, ThreadInv, CopyInv, AloneInv, TableInv,
                    [Next]_vars
             PROVE  TableInv'
  OBVIOUS
<1> USE FilterAssumption DEF TableInv, AloneInv, Exact, CopyInv, TypeOK,
            ThreadInv, At, Bits, ConfigPlaces, ModePlaces, MacPlaces,
            ConfPlaces, VlanPlaces, Thread, Idle, Busy, Begin, Goto, Read,
            Write, Put, flags, features, vlans, regs, threads, ghost, AddsVid,
            WritePlaces
<1>1. ASSUME NEW t \in Thread, ModeRead(t) PROVE TableInv'
  BY <1>1, ModeDoneIs DEF ModeRead
<1>2. ASSUME NEW t \in Thread, ModeRctl(t) PROVE TableInv'
  BY <1>2 DEF ModeRctl, ModeBits, TooMany
<1>3. ASSUME NEW t \in Thread, ModeAddr(t) PROVE TableInv'
  BY <1>3, ModeDoneIs DEF ModeAddr
<1>4. ASSUME NEW t \in Thread, OnRead(t) PROVE TableInv'
  BY <1>4 DEF OnRead
<1>5. ASSUME NEW t \in Thread, OnWrite(t) PROVE TableInv'
  BY <1>5 DEF OnWrite, OnBits, UpdateMng
<1>6. ASSUME NEW t \in Thread, OffWrite(t) PROVE TableInv'
  BY <1>6 DEF OffWrite
<1>7. ASSUME NEW t \in Thread, RestoreVids(t) PROVE TableInv'
  BY <1>7 DEF RestoreVids
<1>8. ASSUME NEW t \in Thread, VftaRead(t) PROVE TableInv'
  BY <1>8 DEF VftaRead
<1>9. ASSUME NEW t \in Thread, VftaWrite(t) PROVE TableInv'
  BY <1>9 DEF VftaWrite
<1>10. ASSUME NEW t \in Thread, SetBit(t) PROVE TableInv'
  BY <1>10 DEF SetBit
<1>11. ASSUME NEW t \in Thread, SetupRead(t) PROVE TableInv'
  BY <1>11 DEF SetupRead
<1>12. ASSUME NEW t \in Thread, SetupWrite(t) PROVE TableInv'
  BY <1>12 DEF SetupWrite, SetupBits
<1>13. CASE ResetTask
  BY <1>13 DEF ResetTask, HwReset, UpdateMng, Overlap
<1>14. ASSUME NEW all \in BOOLEAN, SetFeatures(all)
      PROVE  TableInv'
  BY <1>14 DEF SetFeatures, HwReset, UpdateMng
<1>15. CASE SetVlanFeature
  BY <1>15 DEF SetVlanFeature, Followed
<1>16. CASE Open
  BY <1>16 DEF Open
<1>17. CASE Close
  BY <1>17 DEF Close, HwReset, UpdateMng
<1>18. ASSUME NEW p \in BOOLEAN, NEW a \in BOOLEAN,
             NEW l \in Lists, SetRxMode(p, a, l)
      PROVE  TableInv'
  BY <1>18 DEF SetRxMode, Overlap, Followed
<1>19. ASSUME NEW v \in Vlan, AddVid(v)
      PROVE  TableInv'
  BY <1>19 DEF AddVid, Overlap, Followed
<1>20. ASSUME NEW v \in Vlan, KillVid(v)
      PROVE  TableInv'
  BY <1>20 DEF KillVid, Overlap, Followed
<1>21. CASE UNCHANGED vars
  BY <1>21 DEF vars
<1>23. ASSUME NEW t \in Thread, EnterRead(t) PROVE TableInv'
  BY <1>23 DEF EnterRead
<1>24. ASSUME NEW t \in Thread, EnterWrite(t) PROVE TableInv'
  BY <1>24 DEF EnterWrite
<1>25. ASSUME NEW t \in Thread, LeaveRead(t) PROVE TableInv'
  BY <1>25 DEF LeaveRead
<1>26. ASSUME NEW t \in Thread, LeaveWrite(t) PROVE TableInv'
  BY <1>26, ModeDoneIs DEF LeaveWrite
<1>27. ASSUME NEW t \in Thread, ConfRead(t) PROVE TableInv'
  BY <1>27 DEF ConfRead
<1>28. ASSUME NEW t \in Thread, ConfWrite(t) PROVE TableInv'
  BY <1>28, ModeDoneIs DEF ConfWrite
<1>29. CASE SetMac
  BY <1>29 DEF SetMac, Overlap, Followed
<1>30. QED
  BY <1>1, <1>2, <1>3, <1>4, <1>5, <1>6, <1>7, <1>8, <1>9, <1>10, <1>11,
     <1>12, <1>13, <1>14, <1>15, <1>16, <1>17, <1>18, <1>19, <1>20, <1>21,
     <1>23, <1>24, <1>25, <1>26, <1>27, <1>28, <1>29 DEF Next, ThreadNext

\* No step loses a VLAN in use, but for the firmware's.
LEMMA RestoredStep ==
  TypeOK /\ ThreadInv /\ CopyInv /\ AloneInv /\ MngInv /\ TableInv /\
  RestoredInv /\ [Next]_vars => RestoredInv'
<1> SUFFICES ASSUME TypeOK, ThreadInv, CopyInv, AloneInv, MngInv, TableInv,
                    RestoredInv, [Next]_vars
             PROVE  RestoredInv'
  OBVIOUS
<1> USE FilterAssumption DEF RestoredInv, MngInv, Configuring, Live, TableInv,
            AloneInv, Exact, CopyInv, TypeOK, ThreadInv, At, Bits,
            ConfigPlaces, ModePlaces, MacPlaces, ConfPlaces, VlanPlaces,
            Thread, Idle, Busy, Begin, Goto, Read, Write, Put, ModeDone,
            flags, features, board, vlans, regs, threads, ghost, AddsVid,
            WritePlaces
<1>1. ASSUME NEW t \in Thread, ModeRead(t) PROVE RestoredInv'
  BY <1>1 DEF ModeRead
<1>2. ASSUME NEW t \in Thread, ModeRctl(t) PROVE RestoredInv'
  BY <1>2 DEF ModeRctl, ModeBits, TooMany
<1>3. ASSUME NEW t \in Thread, ModeAddr(t) PROVE RestoredInv'
  BY <1>3 DEF ModeAddr, Hashed, TooMany
<1>4. ASSUME NEW t \in Thread, OnRead(t) PROVE RestoredInv'
  BY <1>4 DEF OnRead
<1>5. ASSUME NEW t \in Thread, OnWrite(t) PROVE RestoredInv'
  BY <1>5 DEF OnWrite, OnBits, UpdateMng
<1>6. ASSUME NEW t \in Thread, OffWrite(t) PROVE RestoredInv'
  BY <1>6 DEF OffWrite
<1>7. ASSUME NEW t \in Thread, RestoreVids(t) PROVE RestoredInv'
  BY <1>7 DEF RestoreVids
<1>8. ASSUME NEW t \in Thread, VftaRead(t) PROVE RestoredInv'
  BY <1>8 DEF VftaRead
<1>9. ASSUME NEW t \in Thread, VftaWrite(t) PROVE RestoredInv'
  BY <1>9 DEF VftaWrite
<1>10. ASSUME NEW t \in Thread, SetBit(t) PROVE RestoredInv'
  BY <1>10 DEF SetBit
<1>11. ASSUME NEW t \in Thread, SetupRead(t) PROVE RestoredInv'
  BY <1>11 DEF SetupRead
<1>12. ASSUME NEW t \in Thread, SetupWrite(t) PROVE RestoredInv'
  BY <1>12 DEF SetupWrite, SetupBits
<1>13. CASE ResetTask
  BY <1>13 DEF ResetTask, HwReset, UpdateMng, Overlap
<1>14. ASSUME NEW all \in BOOLEAN, SetFeatures(all)
      PROVE  RestoredInv'
  BY <1>14 DEF SetFeatures, HwReset, UpdateMng
<1>15. CASE SetVlanFeature
  BY <1>15 DEF SetVlanFeature, Followed
<1>16. CASE Open
  BY <1>16 DEF Open
<1>17. CASE Close
  BY <1>17 DEF Close, HwReset, UpdateMng
<1>18. ASSUME NEW p \in BOOLEAN, NEW a \in BOOLEAN,
             NEW l \in Lists, SetRxMode(p, a, l)
      PROVE  RestoredInv'
  BY <1>18 DEF SetRxMode, Overlap, Followed
<1>19. ASSUME NEW v \in Vlan, AddVid(v)
      PROVE  RestoredInv'
  BY <1>19 DEF AddVid, Overlap, Followed
<1>20. ASSUME NEW v \in Vlan, KillVid(v)
      PROVE  RestoredInv'
  BY <1>20 DEF KillVid, Overlap, Followed
<1>21. CASE UNCHANGED vars
  BY <1>21 DEF vars
<1>23. ASSUME NEW t \in Thread, EnterRead(t) PROVE RestoredInv'
  BY <1>23 DEF EnterRead
<1>24. ASSUME NEW t \in Thread, EnterWrite(t) PROVE RestoredInv'
  BY <1>24 DEF EnterWrite
<1>25. ASSUME NEW t \in Thread, LeaveRead(t) PROVE RestoredInv'
  BY <1>25 DEF LeaveRead
<1>26. ASSUME NEW t \in Thread, LeaveWrite(t) PROVE RestoredInv'
  BY <1>26 DEF LeaveWrite
<1>27. ASSUME NEW t \in Thread, ConfRead(t) PROVE RestoredInv'
  BY <1>27 DEF ConfRead
<1>28. ASSUME NEW t \in Thread, ConfWrite(t) PROVE RestoredInv'
  BY <1>28 DEF ConfWrite
<1>29. CASE SetMac
  BY <1>29 DEF SetMac, Overlap, Followed
<1>30. QED
  BY <1>1, <1>2, <1>3, <1>4, <1>5, <1>6, <1>7, <1>8, <1>9, <1>10, <1>11,
     <1>12, <1>13, <1>14, <1>15, <1>16, <1>17, <1>18, <1>19, <1>20, <1>21,
     <1>23, <1>24, <1>25, <1>26, <1>27, <1>28, <1>29 DEF Next, ThreadNext

\* No step strips tags against the feature.
LEMMA TagsStep ==
  TypeOK /\ ThreadInv /\ CopyInv /\ AloneInv /\ TagsInv /\ [Next]_vars =>
  TagsInv'
<1> SUFFICES ASSUME TypeOK, ThreadInv, CopyInv, AloneInv, TagsInv, [Next]_vars
             PROVE  TagsInv'
  OBVIOUS
<1> USE FilterAssumption DEF TagsInv, Live, Past, AloneInv, Exact, CopyInv,
            TypeOK, ThreadInv, At, Bits, ConfigPlaces, ModePlaces, MacPlaces,
            ConfPlaces, VlanPlaces, Thread, Idle, Busy, Begin, Goto, Read,
            Write, Put, ModeDone, flags, features, board, vlans, regs,
            threads, ghost, AddsVid, WritePlaces
<1>1. ASSUME NEW t \in Thread, ModeRead(t) PROVE TagsInv'
  BY <1>1 DEF ModeRead
<1>2. ASSUME NEW t \in Thread, ModeRctl(t) PROVE TagsInv'
  BY <1>2 DEF ModeRctl, ModeBits, TooMany
<1>3. ASSUME NEW t \in Thread, ModeAddr(t) PROVE TagsInv'
  BY <1>3 DEF ModeAddr, Hashed, TooMany
<1>4. ASSUME NEW t \in Thread, OnRead(t) PROVE TagsInv'
  BY <1>4 DEF OnRead
<1>5. ASSUME NEW t \in Thread, OnWrite(t) PROVE TagsInv'
  BY <1>5 DEF OnWrite, OnBits, UpdateMng
<1>6. ASSUME NEW t \in Thread, OffWrite(t) PROVE TagsInv'
  BY <1>6 DEF OffWrite
<1>7. ASSUME NEW t \in Thread, RestoreVids(t) PROVE TagsInv'
  BY <1>7 DEF RestoreVids
<1>8. ASSUME NEW t \in Thread, VftaRead(t) PROVE TagsInv'
  BY <1>8 DEF VftaRead
<1>9. ASSUME NEW t \in Thread, VftaWrite(t) PROVE TagsInv'
  BY <1>9 DEF VftaWrite
<1>10. ASSUME NEW t \in Thread, SetBit(t) PROVE TagsInv'
  BY <1>10 DEF SetBit
<1>11. ASSUME NEW t \in Thread, SetupRead(t) PROVE TagsInv'
  BY <1>11 DEF SetupRead
<1>12. ASSUME NEW t \in Thread, SetupWrite(t) PROVE TagsInv'
  BY <1>12 DEF SetupWrite, SetupBits
<1>13. CASE ResetTask
  BY <1>13 DEF ResetTask, HwReset, UpdateMng, Overlap
<1>14. ASSUME NEW all \in BOOLEAN, SetFeatures(all)
      PROVE  TagsInv'
  BY <1>14 DEF SetFeatures, HwReset, UpdateMng
<1>15. CASE SetVlanFeature
  BY <1>15 DEF SetVlanFeature, Followed
<1>16. CASE Open
  BY <1>16 DEF Open
<1>17. CASE Close
  BY <1>17 DEF Close, HwReset, UpdateMng
<1>18. ASSUME NEW p \in BOOLEAN, NEW a \in BOOLEAN,
             NEW l \in Lists, SetRxMode(p, a, l)
      PROVE  TagsInv'
  BY <1>18 DEF SetRxMode, Overlap, Followed
<1>19. ASSUME NEW v \in Vlan, AddVid(v)
      PROVE  TagsInv'
  BY <1>19 DEF AddVid, Overlap, Followed
<1>20. ASSUME NEW v \in Vlan, KillVid(v)
      PROVE  TagsInv'
  BY <1>20 DEF KillVid, Overlap, Followed
<1>21. CASE UNCHANGED vars
  BY <1>21 DEF vars
<1>23. ASSUME NEW t \in Thread, EnterRead(t) PROVE TagsInv'
  BY <1>23 DEF EnterRead
<1>24. ASSUME NEW t \in Thread, EnterWrite(t) PROVE TagsInv'
  BY <1>24 DEF EnterWrite
<1>25. ASSUME NEW t \in Thread, LeaveRead(t) PROVE TagsInv'
  BY <1>25 DEF LeaveRead
<1>26. ASSUME NEW t \in Thread, LeaveWrite(t) PROVE TagsInv'
  BY <1>26 DEF LeaveWrite
<1>27. ASSUME NEW t \in Thread, ConfRead(t) PROVE TagsInv'
  BY <1>27 DEF ConfRead
<1>28. ASSUME NEW t \in Thread, ConfWrite(t) PROVE TagsInv'
  BY <1>28 DEF ConfWrite
<1>29. CASE SetMac
  BY <1>29 DEF SetMac, Overlap, Followed
<1>30. QED
  BY <1>1, <1>2, <1>3, <1>4, <1>5, <1>6, <1>7, <1>8, <1>9, <1>10, <1>11,
     <1>12, <1>13, <1>14, <1>15, <1>16, <1>17, <1>18, <1>19, <1>20, <1>21,
     <1>23, <1>24, <1>25, <1>26, <1>27, <1>28, <1>29 DEF Next, ThreadNext

\* No step leaves the receive unit in reset, or off.
LEMMA UnitStep ==
  TypeOK /\ ThreadInv /\ CopyInv /\ AloneInv /\ UnitInv /\ [Next]_vars =>
  UnitInv'
<1> SUFFICES ASSUME TypeOK, ThreadInv, CopyInv, AloneInv, UnitInv, [Next]_vars
             PROVE  UnitInv'
  OBVIOUS
<1> USE FilterAssumption DEF UnitInv, Live, Past, AloneInv, Exact, CopyInv,
            TypeOK, ThreadInv, At, Bits, ConfigPlaces, ModePlaces, MacPlaces,
            ConfPlaces, VlanPlaces, Thread, Idle, Busy, Begin, Goto, Read,
            Write, Put, ModeDone, flags, features, board, vlans, regs,
            threads, ghost, AddsVid, WritePlaces
<1>1. ASSUME NEW t \in Thread, ModeRead(t) PROVE UnitInv'
  BY <1>1 DEF ModeRead
<1>2. ASSUME NEW t \in Thread, ModeRctl(t) PROVE UnitInv'
  BY <1>2 DEF ModeRctl, ModeBits, TooMany
<1>3. ASSUME NEW t \in Thread, ModeAddr(t) PROVE UnitInv'
  BY <1>3, ModeDoneIs DEF ModeAddr
<1>4. ASSUME NEW t \in Thread, OnRead(t) PROVE UnitInv'
  BY <1>4 DEF OnRead
<1>5. ASSUME NEW t \in Thread, OnWrite(t) PROVE UnitInv'
  BY <1>5 DEF OnWrite, OnBits, UpdateMng
<1>6. ASSUME NEW t \in Thread, OffWrite(t) PROVE UnitInv'
  BY <1>6 DEF OffWrite
<1>7. ASSUME NEW t \in Thread, RestoreVids(t) PROVE UnitInv'
  BY <1>7 DEF RestoreVids
<1>8. ASSUME NEW t \in Thread, VftaRead(t) PROVE UnitInv'
  BY <1>8 DEF VftaRead
<1>9. ASSUME NEW t \in Thread, VftaWrite(t) PROVE UnitInv'
  BY <1>9 DEF VftaWrite
<1>10. ASSUME NEW t \in Thread, SetBit(t) PROVE UnitInv'
  BY <1>10 DEF SetBit
<1>11. ASSUME NEW t \in Thread, SetupRead(t) PROVE UnitInv'
  BY <1>11 DEF SetupRead
<1>12. ASSUME NEW t \in Thread, SetupWrite(t) PROVE UnitInv'
  BY <1>12 DEF SetupWrite, SetupBits
<1>13. CASE ResetTask
  BY <1>13 DEF ResetTask, HwReset, UpdateMng, Overlap
<1>14. ASSUME NEW all \in BOOLEAN, SetFeatures(all)
      PROVE  UnitInv'
  BY <1>14 DEF SetFeatures, HwReset, UpdateMng
<1>15. CASE SetVlanFeature
  BY <1>15 DEF SetVlanFeature, Followed
<1>16. CASE Open
  BY <1>16 DEF Open
<1>17. CASE Close
  BY <1>17 DEF Close, HwReset, UpdateMng
<1>18. ASSUME NEW p \in BOOLEAN, NEW a \in BOOLEAN,
             NEW l \in Lists, SetRxMode(p, a, l)
      PROVE  UnitInv'
  BY <1>18 DEF SetRxMode, Overlap, Followed
<1>19. ASSUME NEW v \in Vlan, AddVid(v)
      PROVE  UnitInv'
  BY <1>19 DEF AddVid, Overlap, Followed
<1>20. ASSUME NEW v \in Vlan, KillVid(v)
      PROVE  UnitInv'
  BY <1>20 DEF KillVid, Overlap, Followed
<1>21. CASE UNCHANGED vars
  BY <1>21 DEF vars
<1>23. ASSUME NEW t \in Thread, EnterRead(t) PROVE UnitInv'
  BY <1>23 DEF EnterRead
<1>24. ASSUME NEW t \in Thread, EnterWrite(t) PROVE UnitInv'
  BY <1>24 DEF EnterWrite
<1>25. ASSUME NEW t \in Thread, LeaveRead(t) PROVE UnitInv'
  BY <1>25 DEF LeaveRead
<1>26. ASSUME NEW t \in Thread, LeaveWrite(t) PROVE UnitInv'
  BY <1>26 DEF LeaveWrite
<1>27. ASSUME NEW t \in Thread, ConfRead(t) PROVE UnitInv'
  BY <1>27 DEF ConfRead
<1>28. ASSUME NEW t \in Thread, ConfWrite(t) PROVE UnitInv'
  BY <1>28 DEF ConfWrite
<1>29. CASE SetMac
  BY <1>29 DEF SetMac, Overlap, Followed
<1>30. QED
  BY <1>1, <1>2, <1>3, <1>4, <1>5, <1>6, <1>7, <1>8, <1>9, <1>10, <1>11,
     <1>12, <1>13, <1>14, <1>15, <1>16, <1>17, <1>18, <1>19, <1>20, <1>21,
     <1>23, <1>24, <1>25, <1>26, <1>27, <1>28, <1>29 DEF Next, ThreadNext

-----------------------------------------------------------------------------
(* The theorems.                                                           *)

\* The invariant holds in every reachable state.
LEMMA Invariance == Spec => []IInv
<1>1. Init => IInv
  BY FilterAssumption
     DEF Init, IInv, TypeOK, ThreadInv, CopyInv, At, Bits, ConfigPlaces,
         ModePlaces,
         VlanPlaces, Thread, Idle, Exact, AloneInv, Live, Past, ModesWritten,
         ModesInv, ListsInv, TableInv, Configuring, RestoredInv, TagsInv,
         UnitInv, MngInv, WritePlaces,
         MacPlaces, ConfPlaces
<1>2. IInv /\ [Next]_vars => IInv'
  BY TypeStep, ThreadStep, CopyStep, AloneStep, ModesStep, ListsStep, MngStep,
     TableStep,
     RestoredStep, TagsStep, UnitStep DEF IInv
<1>3. QED
  BY <1>1, <1>2, PTL DEF Spec

\* Whatever the stack changes while the reset task writes the filters again:
\* once no thread is at work and no reset raced, an address of the lists is
\* received, and modes nobody asked for are off.
THEOREM AddressesSafe == Spec => []AddressesAgree
<1>1. IInv => AddressesAgree
  BY DEF IInv, AddressesAgree, Settled, Idle, Thread, ModesInv, ModesWritten,
         Live, Past, ModePlaces, MacPlaces, ListsInv, TooMany, ThreadInv,
         At, UnitInv, Exact, ConfigPlaces, ConfPlaces
<1>2. QED
  BY <1>1, Invariance, PTL

\* ... and the VLAN table holds the VLANs in use, but for the firmware's.
THEOREM VlansSafe == Spec => []VlansAgree
<1>1. ASSUME IInv, Settled, ~missed PROVE VlansAgree
  <2>1. /\ vfta \subseteq active
        /\ \A v \in active : v \in vfta \/ (cookie /\ v = MngVid)
    BY <1>1 DEF IInv, Settled, Idle, Thread, TableInv, Exact, RestoredInv,
                Configuring, Live, ThreadInv, At, ConfigPlaces, ModePlaces,
                MacPlaces, ConfPlaces
  <2>2. /\ promisc => "VFE" \notin rctl
        /\ active # {} /\ ~promisc /\ ~rxall => "VFE" \in rctl
    BY <1>1 DEF IInv, Settled, Idle, Thread, ModesInv, ModesWritten, Live, Past
  <2>3. active # {} => vme = ctag
    BY <1>1 DEF IInv, Settled, Idle, Thread, TagsInv, Live, ModePlaces,
                MacPlaces, ThreadInv, At, ConfigPlaces, ConfPlaces
  <2>4. QED
    BY <2>1, <2>2, <2>3 DEF VlansAgree
<1>2. IInv => VlansAgree
  BY <1>1 DEF VlansAgree
<1>3. QED
  BY <1>2, Invariance, PTL
=============================================================================
