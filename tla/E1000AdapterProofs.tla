------------------------- MODULE E1000AdapterProofs -------------------------
(***************************************************************************)
(* Proofs of the safety properties of E1000Adapter: for any sequence of    *)
(* opens, closes, resets, suspends, bus errors and removes.                *)
(***************************************************************************)
EXTENDS E1000Adapter, TLAPS

-----------------------------------------------------------------------------
(* The inductive invariant.                                                *)

\* Where a thread can be in each of its operations.
RtnlAt ==
  \/ op["rtnl"] = "none"   /\ pc["rtnl"] \in { "idle", "open_irq" }
  \/ op["rtnl"] = "open"   /\ pc["rtnl"] \in { "up_napi", "up_irq" }
  \/ op["rtnl"] = "close"  /\ pc["rtnl"] \in DownPlaces
                                  \cup { "wait", "close_free" }
  \/ op["rtnl"] = "reinit" /\ pc["rtnl"] \in DownPlaces \cup UpPlaces
                                  \cup { "lock", "reset_only", "unlock" }

ResetAt ==
  \/ op["reset"] = "none"   /\ pc["reset"] = "idle"
  \/ op["reset"] = "reinit" /\ pc["reset"] \in DownPlaces \cup UpPlaces
                                                  \cup { "lock", "unlock" }

CoreAt ==
  \/ op["core"] = "none"    /\ pc["core"] \in ProbePlaces
                                   \cup { "carrier", "bound", "failed" }
  \/ op["core"] = "suspend" /\ pc["core"] \in DownPlaces
                                   \cup { "wait", "suspend_save", "asleep" }
  \/ op["core"] = "resume"  /\ pc["core"] \in UpPlaces \cup { "attach" }
  \/ op["core"] = "recover" /\ pc["core"] \in DownPlaces \cup UpPlaces
                                   \cup { "slot_reset", "io_resume", "attach" }
  \/ op["core"] = "remove"  /\ pc["core"] \in { "down_flag", "down_cancel",
                                   "down_kill", "down_reset", "unregister",
                                   "gone" }

WatchdogAt == pc["watchdog"] \in { "idle", "link", "tx" }

\* Where each thread is.
ThreadsInv == ThreadsType /\ RtnlAt /\ ResetAt /\ CoreAt /\ WatchdogAt

\* No interface runs before probe registered it; while the system is suspended
\* rtnl is idle; an adapter that is suspended or recovers is detached; rtnl
\* takes down or brings up an interface that runs, unless it closes it.
CoreInv ==
  /\ pc["core"] \in ProbePlaces => ~running
  /\ op["core"] \in { "suspend", "resume" } => pc["rtnl"] = "idle"
  /\ op["core"] \in { "suspend", "resume", "recover" } => ~present
  /\ pc["rtnl"] = "reset_only" => ~running
  /\ pc["rtnl"] \in DownPlaces \cup UpPlaces \cup { "open_irq" }
     => running \/ op["rtnl"] = "close"

\* Thread t is between its napi_disable and its napi_enable, or opens or
\* closes an adapter whose NAPI is disabled.  A suspended or recovering core
\* thread is so only if the interface runs: it passes e1000_down by otherwise.
Holds(t) ==
  /\ op[t] # "remove"
  /\ \/ pc[t] \in { "open_irq", "close_free", "down_irq", "down_flag",
                    "down_cancel", "down_kill", "down_reset", "up_configure",
                    "up_napi" }
     \/ running /\ pc[t] \in { "suspend_save", "asleep", "slot_reset",
                               "io_resume" }

\* rtnl does nothing with an adapter that is closed.
Closed == ~running /\ pc["rtnl"] \in { "idle", "lock", "reset_only", "unlock" }

\* NAPI, disabled, serves as a lock: one thread at most holds it.
NapiInv ==
  /\ \A t \in Thread : Holds(t) => napi = "off"
  /\ \A t, u \in Thread : Holds(t) /\ Holds(u) => t = u
  /\ Closed => napi = "off" /\ \A t \in Thread : ~Holds(t)

\* The rings are allocated as long as somebody may touch them.
RingsInv == napi # "off" \/ (\E t \in Thread : Holds(t)) => rings

\* The flag is up between the step of e1000_down that sets it and the step
\* of e1000_up that clears it.
DownInv ==
  \A t \in Thread :
    Holds(t) /\ pc[t] \notin { "open_irq", "down_irq", "down_flag", "up_napi" }
    => DOWN

\* Thread t will set the flag, raise the link change interrupt, or find that
\* the interface cannot be opened.
Reviving(t) == pc[t] \in { "open_irq", "lock", "wait", "down", "down_napi",
                           "down_irq", "down_flag", "up_napi", "up_irq" }

AliveInv ==
  running /\ ~DOWN =>
    \/ queued # {} \/ pc["watchdog"] # "idle" \/ lsc \/ intr = "lsc"
    \/ op["core"] = "remove"
    \/ \E t \in Thread : Reviving(t)

\* What probe holds at a place, the labels it would jump to let go of, but for
\* the ring arrays when the MDIO registers cannot be mapped.
Acquired(place) == Unwinds(place) \cup Forgotten(place)

HeldInv ==
  /\ pc["core"] \in ProbePlaces => held \subseteq Acquired(pc["core"])
  /\ ProbeUnwinds

IInv == /\ SharedType /\ ThreadsInv /\ CoreInv /\ NapiInv /\ RingsInv /\ DownInv
        /\ AliveInv /\ HeldInv

-----------------------------------------------------------------------------
(* Every step preserves each part of it.                                   *)

\* Probe goes from a place to another one, and from the last one on.
LEMMA NextPlaceType ==
  \A p \in ProbePlaces : NextPlace(p) \in ProbePlaces \cup { "carrier" }
  BY DEF ProbePlaces, NextPlace

\* What probe acquires at a place it may hold at the next one.
LEMMA ProbeAcquires ==
  \A p \in ProbePlaces :
    NextPlace(p) \in ProbePlaces =>
      Acquired(p) \cup Acquires(p) \subseteq Acquired(NextPlace(p))
<1> SUFFICES ASSUME NEW p \in ProbePlaces, NextPlace(p) \in ProbePlaces
             PROVE  Acquired(p) \cup Acquires(p) \subseteq Acquired(NextPlace(p))
  OBVIOUS
<1> USE DEF Acquired, Unwinds, UnwindsNotQueues, Mapped, Forgotten, Acquires,
            NextPlace
<1>1. CASE p \in { "enable", "regions", "alloc", "ioremap" }
  BY <1>1
<1>2. CASE p \in { "hw_struct", "dma", "sw_init" }
  BY <1>2
<1>3. CASE p \in { "mdio", "eeprom", "phy_addr", "register" }
  BY <1>3 DEF ProbePlaces
<1>4. QED
  BY <1>1, <1>2, <1>3 DEF ProbePlaces

\* Each step leaves what the threads share in its type.
LEMMA SharedStep == SharedType /\ [Next]_vars => SharedType'
<1> SUFFICES ASSUME SharedType, [Next]_vars PROVE SharedType'
  OBVIOUS
<1> USE DEF SharedType, Work, Thread, Goto, Begin, End, binding, flags,
            netdev, hard, mac
<1>1. ASSUME NEW t \in Thread, DownStart(t) PROVE SharedType'
  BY <1>1 DEF DownStart
<1>2. ASSUME NEW t \in Thread, DownNapi(t) PROVE SharedType'
  BY <1>2 DEF DownNapi
<1>3. ASSUME NEW t \in Thread, DownIrq(t) PROVE SharedType'
  BY <1>3 DEF DownIrq
<1>4. ASSUME NEW t \in Thread, DownFlag(t) PROVE SharedType'
  BY <1>4 DEF DownFlag
<1>5. ASSUME NEW t \in Thread, DownCancel(t) PROVE SharedType'
  BY <1>5 DEF DownCancel
<1>6. ASSUME NEW t \in Thread, DownKill(t) PROVE SharedType'
  BY <1>6 DEF DownKill
<1>7. ASSUME NEW t \in Thread, DownReset(t) PROVE SharedType'
  BY <1>7 DEF DownReset, AfterDown, Reset
<1>8. ASSUME NEW t \in Thread, UpConfigure(t) PROVE SharedType'
  BY <1>8 DEF UpConfigure
<1>9. ASSUME NEW t \in Thread, UpNapi(t) PROVE SharedType'
  BY <1>9 DEF UpNapi
<1>10. ASSUME NEW t \in Thread, UpIrq(t) PROVE SharedType'
  BY <1>10 DEF UpIrq
<1>11. ASSUME NEW t \in { "rtnl", "reset" }, Lock(t) PROVE SharedType'
  BY <1>11 DEF Lock
<1>12. ASSUME NEW t \in { "rtnl", "reset" }, ResetOnly(t) PROVE SharedType'
  BY <1>12 DEF ResetOnly, Reset
<1>13. ASSUME NEW t \in { "rtnl", "reset" }, Unlock(t) PROVE SharedType'
  BY <1>13 DEF Unlock
<1>14. ASSUME NEW t \in { "rtnl", "core" }, WaitReset(t) PROVE SharedType'
  BY <1>14 DEF WaitReset
<1>15. CASE OpenAlloc
  BY <1>15 DEF OpenAlloc, Reset, RtnlFree, Frozen
<1>16. CASE OpenIrq
  BY <1>16 DEF OpenIrq, Reset
<1>17. CASE CloseStart
  BY <1>17 DEF CloseStart, RtnlFree, Frozen
<1>18. CASE CloseFree
  BY <1>18 DEF CloseFree
<1>19. CASE Reinit
  BY <1>19 DEF Reinit, RtnlFree, Frozen
<1>20. CASE FeaturesReset
  BY <1>20 DEF FeaturesReset, Reset, RtnlFree
<1>21. CASE TxTimeout
  BY <1>21 DEF TxTimeout
<1>22. CASE ResetStart
  BY <1>22 DEF ResetStart
<1>23. CASE WatchdogStart
  BY <1>23 DEF WatchdogStart
<1>24. CASE WatchdogLink
  BY <1>24 DEF WatchdogLink, HasLink
<1>25. CASE WatchdogTx
  BY <1>25 DEF WatchdogTx, Scheduled
<1>26. CASE LinkChange
  BY <1>26 DEF LinkChange
<1>27. CASE IntrEnter
  BY <1>27 DEF IntrEnter
<1>28. CASE IntrAct
  BY <1>28, ZenonT(40) DEF IntrAct, Scheduled
<1>29. CASE PollClean
  BY <1>29 DEF PollClean
<1>30. CASE PollEnable
  BY <1>30 DEF PollEnable
<1>31. CASE Probe
  BY <1>31, NextPlaceType DEF Probe, Reset
<1>32. CASE ProbeFail
  BY <1>32 DEF ProbeFail
<1>33. CASE ProbeCarrier
  BY <1>33 DEF ProbeCarrier
<1>34. CASE RemoveStart
  BY <1>34 DEF RemoveStart
<1>35. CASE RemoveFree
  BY <1>35 DEF RemoveFree
<1>36. CASE SuspendStart
  BY <1>36 DEF SuspendStart
<1>37. CASE SuspendSave
  BY <1>37 DEF SuspendSave, GiveUp
<1>38. CASE Resume
  BY <1>38 DEF Resume, GiveUp, Reset
<1>39. CASE Attach
  BY <1>39 DEF Attach
<1>40. CASE ErrorDetected
  BY <1>40 DEF ErrorDetected
<1>41. CASE SlotReset
  BY <1>41 DEF SlotReset, GiveUp, Reset
<1>42. CASE IoResume
  BY <1>42 DEF IoResume
<1>43. CASE UNCHANGED vars
  BY <1>43, SMTT(40) DEF vars
<1>44. QED
  BY <1>1, <1>2, <1>3, <1>4, <1>5, <1>6, <1>7, <1>8, <1>9, <1>10, <1>11,
     <1>12, <1>13, <1>14, <1>15, <1>16, <1>17, <1>18, <1>19, <1>20, <1>21,
     <1>22, <1>23, <1>24, <1>25, <1>26, <1>27, <1>28, <1>29, <1>30, <1>31,
     <1>32, <1>33, <1>34, <1>35, <1>36, <1>37, <1>38, <1>39, <1>40, <1>41,
     <1>42, <1>43
     DEF Next, RtnlNext, ResetNext, WatchdogNext, IntrNext, PollNext, CoreNext,
         DownSteps, UpSteps, LockSteps

\* Each step leaves every thread at a place of its operation.
LEMMA ThreadsStep == ThreadsInv /\ [Next]_vars => ThreadsInv'
<1> SUFFICES ASSUME ThreadsInv, [Next]_vars PROVE ThreadsInv'
  OBVIOUS
<1> USE DEF ThreadsType, Places, RtnlAt, ResetAt, CoreAt, WatchdogAt,
            ThreadsInv, DownPlaces, UpPlaces, ProbePlaces, Thread, Goto,
            Begin, End, binding, flags, netdev, hard, mac
<1>1. ASSUME NEW t \in Thread, DownStart(t) PROVE ThreadsInv'
  BY <1>1 DEF DownStart
<1>2. ASSUME NEW t \in Thread, DownNapi(t) PROVE ThreadsInv'
  BY <1>2 DEF DownNapi
<1>3. ASSUME NEW t \in Thread, DownIrq(t) PROVE ThreadsInv'
  BY <1>3 DEF DownIrq
<1>4. ASSUME NEW t \in Thread, DownFlag(t) PROVE ThreadsInv'
  BY <1>4 DEF DownFlag
<1>5. ASSUME NEW t \in Thread, DownCancel(t) PROVE ThreadsInv'
  BY <1>5 DEF DownCancel
<1>6. ASSUME NEW t \in Thread, DownKill(t) PROVE ThreadsInv'
  BY <1>6 DEF DownKill
<1>7. ASSUME NEW t \in Thread, DownReset(t) PROVE ThreadsInv'
  BY <1>7 DEF DownReset, AfterDown, Reset
<1>8. ASSUME NEW t \in Thread, UpConfigure(t) PROVE ThreadsInv'
  BY <1>8 DEF UpConfigure
<1>9. ASSUME NEW t \in Thread, UpNapi(t) PROVE ThreadsInv'
  BY <1>9 DEF UpNapi
<1>10. ASSUME NEW t \in Thread, UpIrq(t) PROVE ThreadsInv'
  BY <1>10 DEF UpIrq
<1>11. ASSUME NEW t \in { "rtnl", "reset" }, Lock(t) PROVE ThreadsInv'
  BY <1>11 DEF Lock
<1>12. ASSUME NEW t \in { "rtnl", "reset" }, ResetOnly(t) PROVE ThreadsInv'
  BY <1>12 DEF ResetOnly, Reset
<1>13. ASSUME NEW t \in { "rtnl", "reset" }, Unlock(t) PROVE ThreadsInv'
  BY <1>13 DEF Unlock
<1>14. ASSUME NEW t \in { "rtnl", "core" }, WaitReset(t) PROVE ThreadsInv'
  BY <1>14 DEF WaitReset
<1>15. CASE OpenAlloc
  BY <1>15 DEF OpenAlloc, RtnlFree, Frozen
<1>16. CASE OpenIrq
  BY <1>16 DEF OpenIrq
<1>17. CASE CloseStart
  BY <1>17 DEF CloseStart, RtnlFree, Frozen
<1>18. CASE CloseFree
  BY <1>18 DEF CloseFree
<1>19. CASE Reinit
  BY <1>19 DEF Reinit, RtnlFree, Frozen
<1>20. CASE FeaturesReset
  BY <1>20 DEF FeaturesReset, Reset, RtnlFree
<1>21. CASE TxTimeout
  BY <1>21 DEF TxTimeout
<1>22. CASE ResetStart
  BY <1>22 DEF ResetStart
<1>23. CASE WatchdogStart
  BY <1>23 DEF WatchdogStart
<1>24. CASE WatchdogLink
  BY <1>24 DEF WatchdogLink, HasLink
<1>25. CASE WatchdogTx
  BY <1>25 DEF WatchdogTx, Scheduled
<1>26. CASE LinkChange
  BY <1>26 DEF LinkChange
<1>27. CASE IntrEnter
  BY <1>27 DEF IntrEnter
<1>28. CASE IntrAct
  BY <1>28 DEF IntrAct, Scheduled
<1>29. CASE PollClean
  BY <1>29 DEF PollClean
<1>30. CASE PollEnable
  BY <1>30 DEF PollEnable
<1>31. CASE Probe
  BY <1>31, NextPlaceType DEF Probe, Reset
<1>32. CASE ProbeFail
  BY <1>32 DEF ProbeFail
<1>33. CASE ProbeCarrier
  BY <1>33 DEF ProbeCarrier
<1>34. CASE RemoveStart
  BY <1>34 DEF RemoveStart
<1>35. CASE RemoveFree
  BY <1>35 DEF RemoveFree
<1>36. CASE SuspendStart
  BY <1>36 DEF SuspendStart
<1>37. CASE SuspendSave
  BY <1>37 DEF SuspendSave, GiveUp
<1>38. CASE Resume
  BY <1>38 DEF Resume, GiveUp
<1>39. CASE Attach
  BY <1>39 DEF Attach
<1>40. CASE ErrorDetected
  BY <1>40 DEF ErrorDetected
<1>41. CASE SlotReset
  BY <1>41 DEF SlotReset, GiveUp
<1>42. CASE IoResume
  BY <1>42 DEF IoResume
<1>43. CASE UNCHANGED vars
  BY <1>43 DEF vars
<1>44. QED
  BY <1>1, <1>2, <1>3, <1>4, <1>5, <1>6, <1>7, <1>8, <1>9, <1>10, <1>11,
     <1>12, <1>13, <1>14, <1>15, <1>16, <1>17, <1>18, <1>19, <1>20, <1>21,
     <1>22, <1>23, <1>24, <1>25, <1>26, <1>27, <1>28, <1>29, <1>30, <1>31,
     <1>32, <1>33, <1>34, <1>35, <1>36, <1>37, <1>38, <1>39, <1>40, <1>41,
     <1>42, <1>43
     DEF Next, RtnlNext, ResetNext, WatchdogNext, IntrNext, PollNext, CoreNext,
         DownSteps, UpSteps, LockSteps

\* rtnl rests while the system is suspended, and no step attaches an adapter
\* before its recovery ends.
LEMMA CoreStep ==
  SharedType /\ ThreadsInv /\ CoreInv /\ [Next]_vars => CoreInv'
<1> SUFFICES ASSUME SharedType, ThreadsInv, CoreInv, [Next]_vars
             PROVE  CoreInv'
  OBVIOUS
<1> USE DEF CoreInv, SharedType, ThreadsType, Places, RtnlAt, ResetAt, CoreAt,
            WatchdogAt, ThreadsInv, DownPlaces, UpPlaces, ProbePlaces, Thread,
            Goto, Begin, End, binding, flags, netdev, hard, mac
<1>1. ASSUME NEW t \in Thread, DownStart(t) PROVE CoreInv'
  BY <1>1 DEF DownStart
<1>2. ASSUME NEW t \in Thread, DownNapi(t) PROVE CoreInv'
  BY <1>2 DEF DownNapi
<1>3. ASSUME NEW t \in Thread, DownIrq(t) PROVE CoreInv'
  BY <1>3 DEF DownIrq
<1>4. ASSUME NEW t \in Thread, DownFlag(t) PROVE CoreInv'
  BY <1>4 DEF DownFlag
<1>5. ASSUME NEW t \in Thread, DownCancel(t) PROVE CoreInv'
  BY <1>5 DEF DownCancel
<1>6. ASSUME NEW t \in Thread, DownKill(t) PROVE CoreInv'
  BY <1>6 DEF DownKill
<1>7. ASSUME NEW t \in Thread, DownReset(t) PROVE CoreInv'
  BY <1>7 DEF DownReset, AfterDown, Reset
<1>8. ASSUME NEW t \in Thread, UpConfigure(t) PROVE CoreInv'
  BY <1>8 DEF UpConfigure
<1>9. ASSUME NEW t \in Thread, UpNapi(t) PROVE CoreInv'
  BY <1>9 DEF UpNapi
<1>10. ASSUME NEW t \in Thread, UpIrq(t) PROVE CoreInv'
  BY <1>10 DEF UpIrq
<1>11. ASSUME NEW t \in { "rtnl", "reset" }, Lock(t) PROVE CoreInv'
  BY <1>11 DEF Lock
<1>12. ASSUME NEW t \in { "rtnl", "reset" }, ResetOnly(t) PROVE CoreInv'
  BY <1>12 DEF ResetOnly, Reset
<1>13. ASSUME NEW t \in { "rtnl", "reset" }, Unlock(t) PROVE CoreInv'
  BY <1>13 DEF Unlock
<1>14. ASSUME NEW t \in { "rtnl", "core" }, WaitReset(t) PROVE CoreInv'
  BY <1>14 DEF WaitReset
<1>15. CASE OpenAlloc
  BY <1>15 DEF OpenAlloc, RtnlFree, Registered, Frozen
<1>16. CASE OpenIrq
  BY <1>16 DEF OpenIrq, Reset
<1>17. CASE CloseStart
  BY <1>17 DEF CloseStart, RtnlFree, Frozen
<1>18. CASE CloseFree
  BY <1>18 DEF CloseFree
<1>19. CASE Reinit
  BY <1>19 DEF Reinit, RtnlFree, Frozen
<1>20. CASE FeaturesReset
  BY <1>20 DEF FeaturesReset, Reset, RtnlFree
<1>21. CASE TxTimeout
  BY <1>21 DEF TxTimeout
<1>22. CASE ResetStart
  BY <1>22 DEF ResetStart
<1>23. CASE WatchdogStart
  BY <1>23 DEF WatchdogStart
<1>24. CASE WatchdogLink
  BY <1>24 DEF WatchdogLink, HasLink
<1>25. CASE WatchdogTx
  BY <1>25 DEF WatchdogTx, Scheduled
<1>26. CASE LinkChange
  BY <1>26 DEF LinkChange
<1>27. CASE IntrEnter
  BY <1>27 DEF IntrEnter
<1>28. CASE IntrAct
  BY <1>28 DEF IntrAct, Scheduled
<1>29. CASE PollClean
  BY <1>29 DEF PollClean
<1>30. CASE PollEnable
  BY <1>30 DEF PollEnable
<1>31. CASE Probe
  BY <1>31, NextPlaceType DEF Probe, Reset
<1>32. CASE ProbeFail
  BY <1>32 DEF ProbeFail
<1>33. CASE ProbeCarrier
  BY <1>33 DEF ProbeCarrier
<1>34. CASE RemoveStart
  BY <1>34 DEF RemoveStart
<1>35. CASE RemoveFree
  BY <1>35 DEF RemoveFree
<1>36. CASE SuspendStart
  BY <1>36 DEF SuspendStart
<1>37. CASE SuspendSave
  BY <1>37 DEF SuspendSave, GiveUp
<1>38. CASE Resume
  BY <1>38, ZenonT(40) DEF Resume, GiveUp, Reset
<1>39. CASE Attach
  BY <1>39 DEF Attach
<1>40. CASE ErrorDetected
  BY <1>40 DEF ErrorDetected
<1>41. CASE SlotReset
  BY <1>41, ZenonT(40) DEF SlotReset, GiveUp, Reset
<1>42. CASE IoResume
  BY <1>42 DEF IoResume
<1>43. CASE UNCHANGED vars
  BY <1>43, SMTT(40) DEF vars
<1>44. QED
  BY <1>1, <1>2, <1>3, <1>4, <1>5, <1>6, <1>7, <1>8, <1>9, <1>10, <1>11,
     <1>12, <1>13, <1>14, <1>15, <1>16, <1>17, <1>18, <1>19, <1>20, <1>21,
     <1>22, <1>23, <1>24, <1>25, <1>26, <1>27, <1>28, <1>29, <1>30, <1>31,
     <1>32, <1>33, <1>34, <1>35, <1>36, <1>37, <1>38, <1>39, <1>40, <1>41,
     <1>42, <1>43
     DEF Next, RtnlNext, ResetNext, WatchdogNext, IntrNext, PollNext, CoreNext,
         DownSteps, UpSteps, LockSteps

\* No step makes a second thread hold NAPI, or enables it for a thread that
\* does not hold it.
LEMMA NapiStep ==
  SharedType /\ ThreadsInv /\ CoreInv /\ NapiInv /\ [Next]_vars => NapiInv'
<1> SUFFICES ASSUME SharedType, ThreadsInv, CoreInv, NapiInv, [Next]_vars
             PROVE  NapiInv'
  OBVIOUS
<1> USE DEF NapiInv, Holds, Closed, CoreInv, SharedType, ThreadsType, Places,
            RtnlAt, ResetAt, CoreAt, WatchdogAt, ThreadsInv, DownPlaces,
            UpPlaces, ProbePlaces, Thread, Goto, Begin, End, binding, flags,
            netdev, hard, mac
<1>1. ASSUME NEW t \in Thread, DownStart(t) PROVE NapiInv'
  BY <1>1 DEF DownStart
<1>2. ASSUME NEW t \in Thread, DownNapi(t) PROVE NapiInv'
  BY <1>2 DEF DownNapi
<1>3. ASSUME NEW t \in Thread, DownIrq(t) PROVE NapiInv'
  BY <1>3 DEF DownIrq
<1>4. ASSUME NEW t \in Thread, DownFlag(t) PROVE NapiInv'
  BY <1>4 DEF DownFlag
<1>5. ASSUME NEW t \in Thread, DownCancel(t) PROVE NapiInv'
  BY <1>5 DEF DownCancel
<1>6. ASSUME NEW t \in Thread, DownKill(t) PROVE NapiInv'
  BY <1>6 DEF DownKill
<1>7. ASSUME NEW t \in Thread, DownReset(t) PROVE NapiInv'
  BY <1>7 DEF DownReset, AfterDown, Reset
<1>8. ASSUME NEW t \in Thread, UpConfigure(t) PROVE NapiInv'
  BY <1>8 DEF UpConfigure
<1>9. ASSUME NEW t \in Thread, UpNapi(t) PROVE NapiInv'
  BY <1>9 DEF UpNapi
<1>10. ASSUME NEW t \in Thread, UpIrq(t) PROVE NapiInv'
  BY <1>10 DEF UpIrq
<1>11. ASSUME NEW t \in { "rtnl", "reset" }, Lock(t) PROVE NapiInv'
  BY <1>11 DEF Lock
<1>12. ASSUME NEW t \in { "rtnl", "reset" }, ResetOnly(t) PROVE NapiInv'
  BY <1>12 DEF ResetOnly, Reset
<1>13. ASSUME NEW t \in { "rtnl", "reset" }, Unlock(t) PROVE NapiInv'
  BY <1>13 DEF Unlock
<1>14. ASSUME NEW t \in { "rtnl", "core" }, WaitReset(t) PROVE NapiInv'
  BY <1>14 DEF WaitReset
<1>15. CASE OpenAlloc
  BY <1>15 DEF OpenAlloc, RtnlFree, Frozen
<1>16. CASE OpenIrq
  BY <1>16 DEF OpenIrq
<1>17. CASE CloseStart
  BY <1>17 DEF CloseStart, RtnlFree, Frozen
<1>18. CASE CloseFree
  BY <1>18 DEF CloseFree
<1>19. CASE Reinit
  BY <1>19 DEF Reinit, RtnlFree, Frozen
<1>20. CASE FeaturesReset
  BY <1>20 DEF FeaturesReset, Reset, RtnlFree
<1>21. CASE TxTimeout
  BY <1>21 DEF TxTimeout
<1>22. CASE ResetStart
  BY <1>22 DEF ResetStart
<1>23. CASE WatchdogStart
  BY <1>23 DEF WatchdogStart
<1>24. CASE WatchdogLink
  BY <1>24 DEF WatchdogLink, HasLink
<1>25. CASE WatchdogTx
  BY <1>25 DEF WatchdogTx, Scheduled
<1>26. CASE LinkChange
  BY <1>26 DEF LinkChange
<1>27. CASE IntrEnter
  BY <1>27 DEF IntrEnter
<1>28. CASE IntrAct
  BY <1>28 DEF IntrAct, Scheduled
<1>29. CASE PollClean
  BY <1>29 DEF PollClean
<1>30. CASE PollEnable
  BY <1>30 DEF PollEnable
<1>31. CASE Probe
  BY <1>31, NextPlaceType DEF Probe, Reset
<1>32. CASE ProbeFail
  BY <1>32 DEF ProbeFail
<1>33. CASE ProbeCarrier
  BY <1>33 DEF ProbeCarrier
<1>34. CASE RemoveStart
  BY <1>34 DEF RemoveStart
<1>35. CASE RemoveFree
  BY <1>35 DEF RemoveFree
<1>36. CASE SuspendStart
  BY <1>36 DEF SuspendStart
<1>37. CASE SuspendSave
  BY <1>37 DEF SuspendSave, GiveUp
<1>38. CASE Resume
  BY <1>38 DEF Resume, GiveUp
<1>39. CASE Attach
  BY <1>39 DEF Attach
<1>40. CASE ErrorDetected
  BY <1>40 DEF ErrorDetected
<1>41. CASE SlotReset
  BY <1>41 DEF SlotReset, GiveUp
<1>42. CASE IoResume
  BY <1>42 DEF IoResume
<1>43. CASE UNCHANGED vars
  BY <1>43 DEF vars
<1>44. QED
  BY <1>1, <1>2, <1>3, <1>4, <1>5, <1>6, <1>7, <1>8, <1>9, <1>10, <1>11,
     <1>12, <1>13, <1>14, <1>15, <1>16, <1>17, <1>18, <1>19, <1>20, <1>21,
     <1>22, <1>23, <1>24, <1>25, <1>26, <1>27, <1>28, <1>29, <1>30, <1>31,
     <1>32, <1>33, <1>34, <1>35, <1>36, <1>37, <1>38, <1>39, <1>40, <1>41,
     <1>42, <1>43
     DEF Next, RtnlNext, ResetNext, WatchdogNext, IntrNext, PollNext, CoreNext,
         DownSteps, UpSteps, LockSteps

\* No step frees rings that may still be touched: whoever frees them holds
\* NAPI, or finds it disabled.
LEMMA RingsStep ==
  SharedType /\ ThreadsInv /\ CoreInv /\ NapiInv /\ RingsInv
  /\ [Next]_vars => RingsInv'
<1> SUFFICES ASSUME SharedType, ThreadsInv, CoreInv, NapiInv, RingsInv,
                    [Next]_vars
             PROVE  RingsInv'
  OBVIOUS
<1> USE DEF RingsInv, NapiInv, Holds, Closed, CoreInv, SharedType,
            ThreadsType, Places, RtnlAt, ResetAt, CoreAt, WatchdogAt,
            ThreadsInv, DownPlaces, UpPlaces, ProbePlaces, Thread, Goto,
            Begin, End, binding, flags, netdev, hard, mac
<1>1. ASSUME NEW t \in Thread, DownStart(t) PROVE RingsInv'
  BY <1>1 DEF DownStart
<1>2. ASSUME NEW t \in Thread, DownNapi(t) PROVE RingsInv'
  BY <1>2 DEF DownNapi
<1>3. ASSUME NEW t \in Thread, DownIrq(t) PROVE RingsInv'
  BY <1>3 DEF DownIrq
<1>4. ASSUME NEW t \in Thread, DownFlag(t) PROVE RingsInv'
  BY <1>4 DEF DownFlag
<1>5. ASSUME NEW t \in Thread, DownCancel(t) PROVE RingsInv'
  BY <1>5 DEF DownCancel
<1>6. ASSUME NEW t \in Thread, DownKill(t) PROVE RingsInv'
  BY <1>6 DEF DownKill
<1>7. ASSUME NEW t \in Thread, DownReset(t) PROVE RingsInv'
  BY <1>7 DEF DownReset, AfterDown, Reset
<1>8. ASSUME NEW t \in Thread, UpConfigure(t) PROVE RingsInv'
  BY <1>8 DEF UpConfigure
<1>9. ASSUME NEW t \in Thread, UpNapi(t) PROVE RingsInv'
  BY <1>9 DEF UpNapi
<1>10. ASSUME NEW t \in Thread, UpIrq(t) PROVE RingsInv'
  BY <1>10 DEF UpIrq
<1>11. ASSUME NEW t \in { "rtnl", "reset" }, Lock(t) PROVE RingsInv'
  BY <1>11 DEF Lock
<1>12. ASSUME NEW t \in { "rtnl", "reset" }, ResetOnly(t) PROVE RingsInv'
  BY <1>12 DEF ResetOnly, Reset
<1>13. ASSUME NEW t \in { "rtnl", "reset" }, Unlock(t) PROVE RingsInv'
  BY <1>13 DEF Unlock
<1>14. ASSUME NEW t \in { "rtnl", "core" }, WaitReset(t) PROVE RingsInv'
  BY <1>14 DEF WaitReset
<1>15. CASE OpenAlloc
  BY <1>15 DEF OpenAlloc, RtnlFree, Frozen
<1>16. CASE OpenIrq
  BY <1>16 DEF OpenIrq
<1>17. CASE CloseStart
  BY <1>17 DEF CloseStart, RtnlFree, Frozen
<1>18. CASE CloseFree
  BY <1>18 DEF CloseFree
<1>19. CASE Reinit
  BY <1>19 DEF Reinit, RtnlFree, Frozen
<1>20. CASE FeaturesReset
  BY <1>20 DEF FeaturesReset, Reset, RtnlFree
<1>21. CASE TxTimeout
  BY <1>21 DEF TxTimeout
<1>22. CASE ResetStart
  BY <1>22 DEF ResetStart
<1>23. CASE WatchdogStart
  BY <1>23 DEF WatchdogStart
<1>24. CASE WatchdogLink
  BY <1>24 DEF WatchdogLink, HasLink
<1>25. CASE WatchdogTx
  BY <1>25 DEF WatchdogTx, Scheduled
<1>26. CASE LinkChange
  BY <1>26 DEF LinkChange
<1>27. CASE IntrEnter
  BY <1>27 DEF IntrEnter
<1>28. CASE IntrAct
  BY <1>28 DEF IntrAct, Scheduled
<1>29. CASE PollClean
  BY <1>29 DEF PollClean
<1>30. CASE PollEnable
  BY <1>30 DEF PollEnable
<1>31. CASE Probe
  BY <1>31, NextPlaceType DEF Probe, Reset
<1>32. CASE ProbeFail
  BY <1>32 DEF ProbeFail
<1>33. CASE ProbeCarrier
  BY <1>33 DEF ProbeCarrier
<1>34. CASE RemoveStart
  BY <1>34 DEF RemoveStart
<1>35. CASE RemoveFree
  BY <1>35 DEF RemoveFree
<1>36. CASE SuspendStart
  BY <1>36 DEF SuspendStart
<1>37. CASE SuspendSave
  BY <1>37 DEF SuspendSave, GiveUp
<1>38. CASE Resume
  BY <1>38, SMTT(40) DEF Resume, GiveUp
<1>39. CASE Attach
  BY <1>39 DEF Attach
<1>40. CASE ErrorDetected
  BY <1>40 DEF ErrorDetected
<1>41. CASE SlotReset
  <2>1. UNCHANGED << napi, running, rings >>
    BY <1>41 DEF SlotReset
  <2>2. \A t \in Thread : Holds(t)' => Holds(t)
    BY <1>41 DEF SlotReset, GiveUp
  <2>3. QED
    BY <2>1, <2>2
<1>42. CASE IoResume
  BY <1>42 DEF IoResume
<1>43. CASE UNCHANGED vars
  BY <1>43 DEF vars
<1>44. QED
  BY <1>1, <1>2, <1>3, <1>4, <1>5, <1>6, <1>7, <1>8, <1>9, <1>10, <1>11,
     <1>12, <1>13, <1>14, <1>15, <1>16, <1>17, <1>18, <1>19, <1>20, <1>21,
     <1>22, <1>23, <1>24, <1>25, <1>26, <1>27, <1>28, <1>29, <1>30, <1>31,
     <1>32, <1>33, <1>34, <1>35, <1>36, <1>37, <1>38, <1>39, <1>40, <1>41,
     <1>42, <1>43
     DEF Next, RtnlNext, ResetNext, WatchdogNext, IntrNext, PollNext, CoreNext,
         DownSteps, UpSteps, LockSteps

\* No step clears the flag under a thread that is down: it would have to
\* hold NAPI, too.
LEMMA DownStep ==
  SharedType /\ ThreadsInv /\ CoreInv /\ NapiInv /\ DownInv
  /\ [Next]_vars => DownInv'
<1> SUFFICES ASSUME SharedType, ThreadsInv, CoreInv, NapiInv, DownInv,
                    [Next]_vars
             PROVE  DownInv'
  OBVIOUS
<1> USE DEF DownInv, NapiInv, Holds, Closed, CoreInv, SharedType, ThreadsType,
            Places, RtnlAt, ResetAt, CoreAt, WatchdogAt, ThreadsInv,
            DownPlaces, UpPlaces, ProbePlaces, Thread, Goto, Begin, End,
            binding, flags, netdev, hard, mac
<1>1. ASSUME NEW t \in Thread, DownStart(t) PROVE DownInv'
  BY <1>1 DEF DownStart
<1>2. ASSUME NEW t \in Thread, DownNapi(t) PROVE DownInv'
  BY <1>2 DEF DownNapi
<1>3. ASSUME NEW t \in Thread, DownIrq(t) PROVE DownInv'
  BY <1>3 DEF DownIrq
<1>4. ASSUME NEW t \in Thread, DownFlag(t) PROVE DownInv'
  BY <1>4 DEF DownFlag
<1>5. ASSUME NEW t \in Thread, DownCancel(t) PROVE DownInv'
  BY <1>5 DEF DownCancel
<1>6. ASSUME NEW t \in Thread, DownKill(t) PROVE DownInv'
  BY <1>6 DEF DownKill
<1>7. ASSUME NEW t \in Thread, DownReset(t) PROVE DownInv'
  BY <1>7 DEF DownReset, AfterDown, Reset
<1>8. ASSUME NEW t \in Thread, UpConfigure(t) PROVE DownInv'
  BY <1>8 DEF UpConfigure
<1>9. ASSUME NEW t \in Thread, UpNapi(t) PROVE DownInv'
  BY <1>9 DEF UpNapi
<1>10. ASSUME NEW t \in Thread, UpIrq(t) PROVE DownInv'
  BY <1>10 DEF UpIrq
<1>11. ASSUME NEW t \in { "rtnl", "reset" }, Lock(t) PROVE DownInv'
  BY <1>11 DEF Lock
<1>12. ASSUME NEW t \in { "rtnl", "reset" }, ResetOnly(t) PROVE DownInv'
  BY <1>12 DEF ResetOnly, Reset
<1>13. ASSUME NEW t \in { "rtnl", "reset" }, Unlock(t) PROVE DownInv'
  BY <1>13 DEF Unlock
<1>14. ASSUME NEW t \in { "rtnl", "core" }, WaitReset(t) PROVE DownInv'
  BY <1>14 DEF WaitReset
<1>15. CASE OpenAlloc
  BY <1>15 DEF OpenAlloc, RtnlFree, Frozen
<1>16. CASE OpenIrq
  BY <1>16 DEF OpenIrq
<1>17. CASE CloseStart
  BY <1>17 DEF CloseStart, RtnlFree, Frozen
<1>18. CASE CloseFree
  BY <1>18 DEF CloseFree
<1>19. CASE Reinit
  BY <1>19 DEF Reinit, RtnlFree, Frozen
<1>20. CASE FeaturesReset
  BY <1>20 DEF FeaturesReset, Reset, RtnlFree
<1>21. CASE TxTimeout
  BY <1>21 DEF TxTimeout
<1>22. CASE ResetStart
  BY <1>22 DEF ResetStart
<1>23. CASE WatchdogStart
  BY <1>23 DEF WatchdogStart
<1>24. CASE WatchdogLink
  BY <1>24 DEF WatchdogLink, HasLink
<1>25. CASE WatchdogTx
  BY <1>25 DEF WatchdogTx, Scheduled
<1>26. CASE LinkChange
  BY <1>26 DEF LinkChange
<1>27. CASE IntrEnter
  BY <1>27 DEF IntrEnter
<1>28. CASE IntrAct
  BY <1>28 DEF IntrAct, Scheduled
<1>29. CASE PollClean
  BY <1>29 DEF PollClean
<1>30. CASE PollEnable
  BY <1>30 DEF PollEnable
<1>31. CASE Probe
  BY <1>31, NextPlaceType DEF Probe, Reset
<1>32. CASE ProbeFail
  BY <1>32 DEF ProbeFail
<1>33. CASE ProbeCarrier
  BY <1>33 DEF ProbeCarrier
<1>34. CASE RemoveStart
  BY <1>34 DEF RemoveStart
<1>35. CASE RemoveFree
  BY <1>35 DEF RemoveFree
<1>36. CASE SuspendStart
  BY <1>36 DEF SuspendStart
<1>37. CASE SuspendSave
  BY <1>37 DEF SuspendSave, GiveUp
<1>38. CASE Resume
  BY <1>38, SMTT(40) DEF Resume, GiveUp
<1>39. CASE Attach
  BY <1>39 DEF Attach
<1>40. CASE ErrorDetected
  BY <1>40 DEF ErrorDetected
<1>41. CASE SlotReset
  BY <1>41 DEF SlotReset, GiveUp
<1>42. CASE IoResume
  BY <1>42 DEF IoResume
<1>43. CASE UNCHANGED vars
  BY <1>43 DEF vars
<1>44. QED
  BY <1>1, <1>2, <1>3, <1>4, <1>5, <1>6, <1>7, <1>8, <1>9, <1>10, <1>11,
     <1>12, <1>13, <1>14, <1>15, <1>16, <1>17, <1>18, <1>19, <1>20, <1>21,
     <1>22, <1>23, <1>24, <1>25, <1>26, <1>27, <1>28, <1>29, <1>30, <1>31,
     <1>32, <1>33, <1>34, <1>35, <1>36, <1>37, <1>38, <1>39, <1>40, <1>41,
     <1>42, <1>43
     DEF Next, RtnlNext, ResetNext, WatchdogNext, IntrNext, PollNext, CoreNext,
         DownSteps, UpSteps, LockSteps

\* No step takes the last chance of the watchdog to run, but on the way down.
LEMMA AliveStep ==
  SharedType /\ ThreadsInv /\ CoreInv /\ DownInv /\ AliveInv
  /\ [Next]_vars => AliveInv'
<1> SUFFICES ASSUME SharedType, ThreadsInv, CoreInv, DownInv, AliveInv,
                    [Next]_vars
             PROVE  AliveInv'
  OBVIOUS
<1> USE DEF AliveInv, Reviving, DownInv, Holds, CoreInv, SharedType,
            ThreadsType, Places, RtnlAt, ResetAt, CoreAt, WatchdogAt,
            ThreadsInv, DownPlaces, UpPlaces, ProbePlaces, Thread, Goto,
            Begin, End, binding, flags, netdev, hard, mac
<1>1. ASSUME NEW t \in Thread, DownStart(t) PROVE AliveInv'
  BY <1>1 DEF DownStart
<1>2. ASSUME NEW t \in Thread, DownNapi(t) PROVE AliveInv'
  BY <1>2 DEF DownNapi
<1>3. ASSUME NEW t \in Thread, DownIrq(t) PROVE AliveInv'
  BY <1>3 DEF DownIrq
<1>4. ASSUME NEW t \in Thread, DownFlag(t) PROVE AliveInv'
  BY <1>4 DEF DownFlag
<1>5. ASSUME NEW t \in Thread, DownCancel(t) PROVE AliveInv'
  BY <1>5 DEF DownCancel
<1>6. ASSUME NEW t \in Thread, DownKill(t) PROVE AliveInv'
  BY <1>6 DEF DownKill
<1>7. ASSUME NEW t \in Thread, DownReset(t) PROVE AliveInv'
  BY <1>7 DEF DownReset, AfterDown, Reset
<1>8. ASSUME NEW t \in Thread, UpConfigure(t) PROVE AliveInv'
  BY <1>8 DEF UpConfigure
<1>9. ASSUME NEW t \in Thread, UpNapi(t) PROVE AliveInv'
  BY <1>9 DEF UpNapi
<1>10. ASSUME NEW t \in Thread, UpIrq(t) PROVE AliveInv'
  BY <1>10 DEF UpIrq
<1>11. ASSUME NEW t \in { "rtnl", "reset" }, Lock(t) PROVE AliveInv'
  BY <1>11 DEF Lock
<1>12. ASSUME NEW t \in { "rtnl", "reset" }, ResetOnly(t) PROVE AliveInv'
  BY <1>12 DEF ResetOnly, Reset
<1>13. ASSUME NEW t \in { "rtnl", "reset" }, Unlock(t) PROVE AliveInv'
  BY <1>13 DEF Unlock
<1>14. ASSUME NEW t \in { "rtnl", "core" }, WaitReset(t) PROVE AliveInv'
  BY <1>14 DEF WaitReset
<1>15. CASE OpenAlloc
  BY <1>15 DEF OpenAlloc, Reset, RtnlFree, Frozen
<1>16. CASE OpenIrq
  BY <1>16 DEF OpenIrq, Reset
<1>17. CASE CloseStart
  BY <1>17 DEF CloseStart, RtnlFree, Frozen
<1>18. CASE CloseFree
  BY <1>18 DEF CloseFree
<1>19. CASE Reinit
  BY <1>19 DEF Reinit, RtnlFree, Frozen
<1>20. CASE FeaturesReset
  BY <1>20 DEF FeaturesReset, Reset, RtnlFree
<1>21. CASE TxTimeout
  BY <1>21 DEF TxTimeout
<1>22. CASE ResetStart
  BY <1>22 DEF ResetStart
<1>23. CASE WatchdogStart
  BY <1>23 DEF WatchdogStart
<1>24. CASE WatchdogLink
  BY <1>24 DEF WatchdogLink, HasLink
<1>25. CASE WatchdogTx
  BY <1>25 DEF WatchdogTx, Scheduled
<1>26. CASE LinkChange
  BY <1>26 DEF LinkChange
<1>27. CASE IntrEnter
  BY <1>27 DEF IntrEnter
<1>28. CASE IntrAct
  BY <1>28 DEF IntrAct, Scheduled
<1>29. CASE PollClean
  BY <1>29 DEF PollClean
<1>30. CASE PollEnable
  BY <1>30 DEF PollEnable
<1>31. CASE Probe
  BY <1>31, NextPlaceType DEF Probe, Reset
<1>32. CASE ProbeFail
  BY <1>32 DEF ProbeFail
<1>33. CASE ProbeCarrier
  BY <1>33 DEF ProbeCarrier
<1>34. CASE RemoveStart
  BY <1>34 DEF RemoveStart
<1>35. CASE RemoveFree
  BY <1>35 DEF RemoveFree
<1>36. CASE SuspendStart
  BY <1>36 DEF SuspendStart
<1>37. CASE SuspendSave
  BY <1>37 DEF SuspendSave, GiveUp
<1>38. CASE Resume
  BY <1>38 DEF Resume, GiveUp, Reset
<1>39. CASE Attach
  BY <1>39 DEF Attach
<1>40. CASE ErrorDetected
  BY <1>40 DEF ErrorDetected
<1>41. CASE SlotReset
  BY <1>41 DEF SlotReset, GiveUp, Reset
<1>42. CASE IoResume
  BY <1>42 DEF IoResume
<1>43. CASE UNCHANGED vars
  BY <1>43 DEF vars
<1>44. QED
  BY <1>1, <1>2, <1>3, <1>4, <1>5, <1>6, <1>7, <1>8, <1>9, <1>10, <1>11,
     <1>12, <1>13, <1>14, <1>15, <1>16, <1>17, <1>18, <1>19, <1>20, <1>21,
     <1>22, <1>23, <1>24, <1>25, <1>26, <1>27, <1>28, <1>29, <1>30, <1>31,
     <1>32, <1>33, <1>34, <1>35, <1>36, <1>37, <1>38, <1>39, <1>40, <1>41,
     <1>42, <1>43
     DEF Next, RtnlNext, ResetNext, WatchdogNext, IntrNext, PollNext, CoreNext,
         DownSteps, UpSteps, LockSteps

\* Each step of probe holds what the labels let go of.
LEMMA HeldStep == ThreadsInv /\ HeldInv /\ [Next]_vars => HeldInv'
<1> SUFFICES ASSUME ThreadsInv, HeldInv, [Next]_vars PROVE HeldInv'
  OBVIOUS
<1> USE DEF HeldInv, ProbeUnwinds, ThreadsType, Places, RtnlAt, ResetAt,
            CoreAt, WatchdogAt, ThreadsInv, DownPlaces, UpPlaces, ProbePlaces,
            Thread, Goto, Begin, End, binding, flags, netdev, hard, mac
<1>1. ASSUME NEW t \in Thread, DownStart(t) PROVE HeldInv'
  BY <1>1 DEF DownStart
<1>2. ASSUME NEW t \in Thread, DownNapi(t) PROVE HeldInv'
  BY <1>2 DEF DownNapi
<1>3. ASSUME NEW t \in Thread, DownIrq(t) PROVE HeldInv'
  BY <1>3 DEF DownIrq
<1>4. ASSUME NEW t \in Thread, DownFlag(t) PROVE HeldInv'
  BY <1>4 DEF DownFlag
<1>5. ASSUME NEW t \in Thread, DownCancel(t) PROVE HeldInv'
  BY <1>5 DEF DownCancel
<1>6. ASSUME NEW t \in Thread, DownKill(t) PROVE HeldInv'
  BY <1>6 DEF DownKill
<1>7. ASSUME NEW t \in Thread, DownReset(t) PROVE HeldInv'
  BY <1>7 DEF DownReset, AfterDown, Reset
<1>8. ASSUME NEW t \in Thread, UpConfigure(t) PROVE HeldInv'
  BY <1>8 DEF UpConfigure
<1>9. ASSUME NEW t \in Thread, UpNapi(t) PROVE HeldInv'
  BY <1>9 DEF UpNapi
<1>10. ASSUME NEW t \in Thread, UpIrq(t) PROVE HeldInv'
  BY <1>10 DEF UpIrq
<1>11. ASSUME NEW t \in { "rtnl", "reset" }, Lock(t) PROVE HeldInv'
  BY <1>11 DEF Lock
<1>12. ASSUME NEW t \in { "rtnl", "reset" }, ResetOnly(t) PROVE HeldInv'
  BY <1>12 DEF ResetOnly, Reset
<1>13. ASSUME NEW t \in { "rtnl", "reset" }, Unlock(t) PROVE HeldInv'
  BY <1>13 DEF Unlock
<1>14. ASSUME NEW t \in { "rtnl", "core" }, WaitReset(t) PROVE HeldInv'
  BY <1>14 DEF WaitReset
<1>15. CASE OpenAlloc
  BY <1>15 DEF OpenAlloc, Reset, RtnlFree, Frozen
<1>16. CASE OpenIrq
  BY <1>16 DEF OpenIrq, Reset
<1>17. CASE CloseStart
  BY <1>17 DEF CloseStart, RtnlFree, Frozen
<1>18. CASE CloseFree
  BY <1>18 DEF CloseFree
<1>19. CASE Reinit
  BY <1>19 DEF Reinit, RtnlFree, Frozen
<1>20. CASE FeaturesReset
  BY <1>20 DEF FeaturesReset, Reset, RtnlFree
<1>21. CASE TxTimeout
  BY <1>21 DEF TxTimeout
<1>22. CASE ResetStart
  BY <1>22 DEF ResetStart
<1>23. CASE WatchdogStart
  BY <1>23 DEF WatchdogStart
<1>24. CASE WatchdogLink
  BY <1>24 DEF WatchdogLink, HasLink
<1>25. CASE WatchdogTx
  BY <1>25 DEF WatchdogTx, Scheduled
<1>26. CASE LinkChange
  BY <1>26 DEF LinkChange
<1>27. CASE IntrEnter
  BY <1>27 DEF IntrEnter
<1>28. CASE IntrAct
  BY <1>28 DEF IntrAct, Scheduled
<1>29. CASE PollClean
  BY <1>29 DEF PollClean
<1>30. CASE PollEnable
  BY <1>30 DEF PollEnable
<1>31. CASE Probe
  BY <1>31, NextPlaceType, ProbeAcquires DEF Probe, Reset
<1>32. CASE ProbeFail
  BY <1>32 DEF ProbeFail, Acquired
<1>33. CASE ProbeCarrier
  BY <1>33 DEF ProbeCarrier
<1>34. CASE RemoveStart
  BY <1>34 DEF RemoveStart
<1>35. CASE RemoveFree
  BY <1>35 DEF RemoveFree
<1>36. CASE SuspendStart
  BY <1>36 DEF SuspendStart
<1>37. CASE SuspendSave
  BY <1>37 DEF SuspendSave, GiveUp
<1>38. CASE Resume
  BY <1>38 DEF Resume, GiveUp, Reset
<1>39. CASE Attach
  BY <1>39 DEF Attach
<1>40. CASE ErrorDetected
  BY <1>40 DEF ErrorDetected
<1>41. CASE SlotReset
  BY <1>41 DEF SlotReset, GiveUp, Reset
<1>42. CASE IoResume
  BY <1>42 DEF IoResume
<1>43. CASE UNCHANGED vars
  BY <1>43 DEF vars
<1>44. QED
  BY <1>1, <1>2, <1>3, <1>4, <1>5, <1>6, <1>7, <1>8, <1>9, <1>10, <1>11,
     <1>12, <1>13, <1>14, <1>15, <1>16, <1>17, <1>18, <1>19, <1>20, <1>21,
     <1>22, <1>23, <1>24, <1>25, <1>26, <1>27, <1>28, <1>29, <1>30, <1>31,
     <1>32, <1>33, <1>34, <1>35, <1>36, <1>37, <1>38, <1>39, <1>40, <1>41,
     <1>42, <1>43
     DEF Next, RtnlNext, ResetNext, WatchdogNext, IntrNext, PollNext, CoreNext,
         DownSteps, UpSteps, LockSteps

-----------------------------------------------------------------------------
(* The theorems.                                                           *)

\* The invariant holds in every reachable state.
LEMMA Invariance == Spec => []IInv
<1>1. Init => IInv
  BY DEF Init, IInv, SharedType, ThreadsInv, ThreadsType, Places, DownPlaces,
         UpPlaces, ProbePlaces, RtnlAt, ResetAt, CoreAt, WatchdogAt, CoreInv,
         NapiInv, Holds, Closed, RingsInv, DownInv, AliveInv, HeldInv, Acquired,
         Unwinds, UnwindsNotQueues, Mapped, Forgotten, ProbeUnwinds, Thread, Work
<1>2. IInv /\ [Next]_vars => IInv'
  BY SharedStep, ThreadsStep, CoreStep, NapiStep, RingsStep, DownStep,
     AliveStep, HeldStep DEF IInv
<1>3. QED
  BY <1>1, <1>2, PTL DEF Spec

\* Every variable keeps its type, whatever fails and whoever interferes.
THEOREM TypeCorrect == Spec => []TypeOK
<1>1. IInv => TypeOK
  BY DEF IInv, ThreadsInv, TypeOK
<1>2. QED
  BY <1>1, Invariance, PTL

\* napi_enable is called only when NAPI is disabled, although close, the reset
\* task, suspend and error recovery share no lock: its BUG_ON never fires.
THEOREM NapiSafe == Spec => []NapiEnableOk
<1>1. IInv => NapiEnableOk
  BY DEF IInv, NapiInv, Holds, NapiEnableOk, ThreadsInv, RtnlAt, ResetAt,
         CoreAt, Thread
<1>2. QED
  BY <1>1, Invariance, PTL

\* Neither the poll nor e1000_configure nor the cleaning in e1000_down touches
\* rings that e1000_close, or an open that failed, has freed.
THEOREM RingsSafe == Spec => []RingsLive
<1>1. IInv => RingsLive
  BY DEF IInv, ThreadsInv, TypeOK, RingsInv, Holds, RingsLive
<1>2. QED
  BY <1>1, Invariance, PTL

\* On an adapter that is up something will always run the watchdog again,
\* however resets, closes and link changes interleave.
THEOREM WatchdogSafe == Spec => []WatchdogAlive
<1>1. IInv => WatchdogAlive
  BY DEF IInv, ThreadsInv, CoreAt, ProbePlaces, AliveInv, Reviving,
         WatchdogAlive, Settled, Thread
<1>2. QED
  BY <1>1, Invariance, PTL

\* Every error path of e1000_probe lets go of all that was acquired, but for
\* the ring arrays that err_mdio_ioremap forgets.
THEOREM ProbeSafe == Spec => []ProbeUnwinds
<1>1. IInv => ProbeUnwinds
  BY DEF IInv, HeldInv
<1>2. QED
  BY <1>1, Invariance, PTL
=============================================================================
