------------------------- MODULE SimethDriverProofs -------------------------
(***************************************************************************)
(* Proofs, for all values of the constants, of the invariants of           *)
(* SimethDriver that the runs check on small instances.                    *)
(***************************************************************************)
EXTENDS SimethDriver, TLAPS

-----------------------------------------------------------------------------
(* The operators the model is built from.                                  *)

(* Whatever number a descriptor-count parameter is given,                  *)
(* _simeth_adjust_descq_count makes of it one that its description allows. *)
LEMMA AdjustDocumented ==
  \A n \in Nat : Adjust(n) \in Nat /\ Documented(Adjust(n))
  BY DEF Adjust, OutOfRange, Documented, MinDescs, MaxDescs, DefDescs,
         DescBytes, DescAligner

(* A queue as memset leaves it is a queue.                                 *)
LEMMA NullQType == NullQ \in QueueStates
  BY DEF NullQ, QueueStates

(* What _simeth_setup_q leaves in a queue is a queue, and claims           *)
(* descriptors only with live buffer memory, and only as many as asked for.*)
LEMMA SetupQType ==
  ASSUME NEW n \in Nat, NEW o \in SetupQ(n)
  PROVE  /\ o.q \in QueueStates
         /\ o.q.n_desc # 0 => o.q.bring = "mem" /\ o.q.n_desc = n
<1>1. CASE o = [q |-> NullQ, ok |-> FALSE]
  BY <1>1 DEF NullQ, QueueStates
<1>2. CASE o = [q |-> [NullQ EXCEPT !.bring = "freed"], ok |-> FALSE]
  BY <1>2 DEF NullQ, QueueStates
<1>3. CASE o = [q |-> [bring |-> "mem", dring |-> "mem", n_desc |-> n],
                ok |-> TRUE]
  BY <1>3 DEF QueueStates
<1>4. QED
  BY <1>1, <1>2, <1>3 DEF SetupQ

(* A queue points to a natural number of ring buffers.                     *)
LEMMA RingsType == \A q \in QueueStates : Rings(q) \in Nat
  BY DEF Rings, QueueStates

-----------------------------------------------------------------------------
(* Type correctness.                                                       *)

(* The steps keep the parameters, the queues and the counters in their     *)
(* types.                                                                  *)
LEMMA CountersStep == CountersType /\ [Next]_vars => CountersType'
<1> SUFFICES ASSUME CountersType, [Next]_vars PROVE CountersType'
  OBVIOUS
<1> USE DEF CountersType, params, queues, irqs
<1>1. CASE ProbeStart
    BY <1>1, AdjustDocumented DEF ProbeStart
<1>2. CASE ProbeEnable
    BY <1>2 DEF ProbeEnable, ProbeFrame, Acquire, FailTo
<1>3. CASE ProbeBar
    BY <1>3 DEF ProbeBar, ProbeFrame, Acquire, FailTo
<1>4. CASE ProbeRegions
    BY <1>4 DEF ProbeRegions, ProbeFrame, Acquire, FailTo
<1>5. CASE ProbeIoremap
    BY <1>5 DEF ProbeIoremap, ProbeFrame, Acquire, FailTo
<1>6. CASE ProbeSaveState
    BY <1>6 DEF ProbeSaveState, ProbeFrame, Acquire, FailTo
<1>7. CASE ProbeAllocQs
    BY <1>7, NullQType DEF ProbeAllocQs, ProbeFrame, Acquire, FailTo
<1>8. CASE ProbeRegister
    BY <1>8 DEF ProbeRegister, ProbeFrame, Acquire, FailTo
<1>9. CASE ProbeCarrierOff
    BY <1>9 DEF ProbeCarrierOff, ProbeFrame
<1>10. CASE OpenStart
    BY <1>10 DEF OpenStart, Registered
<1>11. CASE OpenTxqs
    BY <1>11, SetupQType, RingsType DEF OpenTxqs
<1>12. CASE OpenRxqs
    BY <1>12, SetupQType, RingsType DEF OpenRxqs
<1>13. CASE OpenIrq
    BY <1>13 DEF OpenIrq
<1>14. CASE OpenNapi
    BY <1>14 DEF OpenNapi
<1>15. CASE OpenCarrier
    BY <1>15 DEF OpenCarrier
<1>16. CASE StopStart
    BY <1>16 DEF StopStart
<1>17. CASE StopIrq
    BY <1>17 DEF StopIrq, FreeIrq
<1>18. CASE StopTx
    BY <1>18 DEF StopTx
<1>19. CASE StopNapi
    BY <1>19 DEF StopNapi
<1>20. CASE StopClean
    BY <1>20 DEF StopClean
<1>21. CASE RemoveStart
    BY <1>21 DEF RemoveStart
<1>22. CASE RemoveTeardown
    BY <1>22, RingsType, NullQType DEF RemoveTeardown, Closed
<1>23. CASE RemoveFree
    BY <1>23 DEF RemoveFree
<1>24. CASE TimerFire
    BY <1>24 DEF TimerFire
<1>25. CASE simeth_rxtimer_cb
    BY <1>25 DEF simeth_rxtimer_cb
<1>26. CASE WriteParam
    BY <1>26, DriverAssumption DEF WriteParam
<1>27. CASE UNCHANGED vars
  BY <1>27 DEF vars
<1>28. QED
  BY <1>1, <1>2, <1>3, <1>4, <1>5, <1>6, <1>7, <1>8, <1>9, <1>10, <1>11,
     <1>12, <1>13, <1>14, <1>15, <1>16, <1>17, <1>18, <1>19, <1>20, <1>21,
     <1>22, <1>23, <1>24, <1>25, <1>26, <1>27 DEF Next, Probe, Open, Stop,
     Remove

(* The steps keep the places, the resources and the flags in their types.  *)
LEMMA ControlStep == ControlType /\ [Next]_vars => ControlType'
<1> SUFFICES ASSUME ControlType, [Next]_vars PROVE ControlType'
  OBVIOUS
<1> DEFINE CoreT  == core \in { "unbound", "enable", "bar", "regions", "ioremap",
                              "save_state", "alloc_qs", "register",
                              "carrier_off", "bound", "unregister", "free" }
           HeldT  == held \subseteq Resources /\ leaked \subseteq Resources
           RtnlT  == rtnl \in { "idle", "open_txq", "open_rxq", "open_irq",
                              "open_napi", "open_carrier", "stop_irq",
                              "stop_tx", "stop_napi", "stop_clean" }
           FlagT  == ioaddr \in BOOLEAN /\ up \in BOOLEAN /\ carrier \in BOOLEAN
                       /\ txoff \in BOOLEAN
           NapiT  == napi \in { "absent", "disabled", "enabled" }
           TimerT == timer \in [pending : BOOLEAN, running : BOOLEAN]
<1>a. ControlType' <=> CoreT' /\ HeldT' /\ RtnlT' /\ FlagT' /\ NapiT' /\ TimerT'
  BY Zenon DEF ControlType
<1>b. CoreT /\ HeldT /\ RtnlT /\ FlagT /\ NapiT /\ TimerT
  BY Zenon DEF ControlType
<1>c. \A r \in { "netdev", "pci", "mwi", "regions", "iomap", "master", "napi",
              "txq", "rxq", "netreg" } : r \in Resources
  BY DEF Resources
<1> USE DEF binding, link, irqs
<1>1. CASE ProbeStart
  <2>1. CoreT' /\ RtnlT' /\ NapiT'
    BY <1>1, <1>b DEF ProbeStart
  <2>2. HeldT'
    BY <1>1, <1>b, <1>c DEF ProbeStart
  <2>3. FlagT' /\ TimerT'
    BY <1>1, <1>b DEF ProbeStart
  <2>4. QED
    BY <1>a, <2>1, <2>2, <2>3, Zenon
<1>2. CASE ProbeEnable
  <2>1. CoreT' /\ RtnlT' /\ NapiT'
    BY <1>2, <1>b DEF ProbeEnable, ProbeFrame, Acquire, FailTo
  <2>2. HeldT'
    BY <1>2, <1>b, <1>c DEF ProbeEnable, ProbeFrame, Acquire, FailTo
  <2>3. FlagT' /\ TimerT'
    BY <1>2, <1>b DEF ProbeEnable, ProbeFrame, Acquire, FailTo
  <2>4. QED
    BY <1>a, <2>1, <2>2, <2>3, Zenon
<1>3. CASE ProbeBar
  <2>1. CoreT' /\ RtnlT' /\ NapiT'
    BY <1>3, <1>b DEF ProbeBar, ProbeFrame, Acquire, FailTo
  <2>2. HeldT'
    BY <1>3, <1>b, <1>c DEF ProbeBar, ProbeFrame, Acquire, FailTo
  <2>3. FlagT' /\ TimerT'
    BY <1>3, <1>b DEF ProbeBar, ProbeFrame, Acquire, FailTo
  <2>4. QED
    BY <1>a, <2>1, <2>2, <2>3, Zenon
<1>4. CASE ProbeRegions
  <2>1. CoreT' /\ RtnlT' /\ NapiT'
    BY <1>4, <1>b DEF ProbeRegions, ProbeFrame, Acquire, FailTo
  <2>2. HeldT'
    BY <1>4, <1>b, <1>c DEF ProbeRegions, ProbeFrame, Acquire, FailTo
  <2>3. FlagT' /\ TimerT'
    BY <1>4, <1>b DEF ProbeRegions, ProbeFrame, Acquire, FailTo
  <2>4. QED
    BY <1>a, <2>1, <2>2, <2>3, Zenon
<1>5. CASE ProbeIoremap
  <2>1. CoreT' /\ RtnlT' /\ NapiT'
    BY <1>5, <1>b DEF ProbeIoremap, ProbeFrame, Acquire, FailTo
  <2>2. HeldT'
    BY <1>5, <1>b, <1>c DEF ProbeIoremap, ProbeFrame, Acquire, FailTo
  <2>3. FlagT' /\ TimerT'
    BY <1>5, <1>b DEF ProbeIoremap, ProbeFrame, Acquire, FailTo
  <2>4. QED
    BY <1>a, <2>1, <2>2, <2>3, Zenon
<1>6. CASE ProbeSaveState
  <2>1. CoreT' /\ RtnlT' /\ NapiT'
    BY <1>6, <1>b DEF ProbeSaveState, ProbeFrame, Acquire, FailTo
  <2>2. HeldT'
    BY <1>6, <1>b, <1>c DEF ProbeSaveState, ProbeFrame, Acquire, FailTo
  <2>3. FlagT' /\ TimerT'
    BY <1>6, <1>b DEF ProbeSaveState, ProbeFrame, Acquire, FailTo
  <2>4. QED
    BY <1>a, <2>1, <2>2, <2>3, Zenon
<1>7. CASE ProbeAllocQs
  <2>1. CoreT' /\ RtnlT' /\ NapiT'
    BY <1>7, <1>b DEF ProbeAllocQs, ProbeFrame, Acquire, FailTo
  <2>2. HeldT'
    BY <1>7, <1>b, <1>c DEF ProbeAllocQs, ProbeFrame, Acquire, FailTo
  <2>3. FlagT' /\ TimerT'
    BY <1>7, <1>b DEF ProbeAllocQs, ProbeFrame, Acquire, FailTo
  <2>4. QED
    BY <1>a, <2>1, <2>2, <2>3, Zenon
<1>8. CASE ProbeRegister
  <2>1. CoreT' /\ RtnlT' /\ NapiT'
    BY <1>8, <1>b DEF ProbeRegister, ProbeFrame, Acquire, FailTo
  <2>2. HeldT'
    BY <1>8, <1>b, <1>c DEF ProbeRegister, ProbeFrame, Acquire, FailTo
  <2>3. FlagT' /\ TimerT'
    BY <1>8, <1>b DEF ProbeRegister, ProbeFrame, Acquire, FailTo
  <2>4. QED
    BY <1>a, <2>1, <2>2, <2>3, Zenon
<1>9. CASE ProbeCarrierOff
  <2>1. CoreT' /\ RtnlT' /\ NapiT'
    BY <1>9, <1>b DEF ProbeCarrierOff, ProbeFrame
  <2>2. HeldT'
    BY <1>9, <1>b, <1>c DEF ProbeCarrierOff, ProbeFrame
  <2>3. FlagT' /\ TimerT'
    BY <1>9, <1>b DEF ProbeCarrierOff, ProbeFrame
  <2>4. QED
    BY <1>a, <2>1, <2>2, <2>3, Zenon
<1>10. CASE OpenStart
  <2>1. CoreT' /\ RtnlT' /\ NapiT'
    BY <1>10, <1>b DEF OpenStart, Registered
  <2>2. HeldT'
    BY <1>10, <1>b, <1>c DEF OpenStart, Registered
  <2>3. FlagT' /\ TimerT'
    BY <1>10, <1>b DEF OpenStart, Registered
  <2>4. QED
    BY <1>a, <2>1, <2>2, <2>3, Zenon
<1>11. CASE OpenTxqs
  <2>1. CoreT' /\ RtnlT' /\ NapiT'
    BY <1>11, <1>b DEF OpenTxqs
  <2>2. HeldT'
    BY <1>11, <1>b, <1>c DEF OpenTxqs
  <2>3. FlagT' /\ TimerT'
    BY <1>11, <1>b DEF OpenTxqs
  <2>4. QED
    BY <1>a, <2>1, <2>2, <2>3, Zenon
<1>12. CASE OpenRxqs
  <2>1. CoreT' /\ RtnlT' /\ NapiT'
    BY <1>12, <1>b DEF OpenRxqs
  <2>2. HeldT'
    BY <1>12, <1>b, <1>c DEF OpenRxqs
  <2>3. FlagT' /\ TimerT'
    BY <1>12, <1>b DEF OpenRxqs
  <2>4. QED
    BY <1>a, <2>1, <2>2, <2>3, Zenon
<1>13. CASE OpenIrq
  <2>1. CoreT' /\ RtnlT' /\ NapiT'
    BY <1>13, <1>b DEF OpenIrq
  <2>2. HeldT'
    BY <1>13, <1>b, <1>c DEF OpenIrq
  <2>3. FlagT' /\ TimerT'
    BY <1>13, <1>b DEF OpenIrq
  <2>4. QED
    BY <1>a, <2>1, <2>2, <2>3, Zenon
<1>14. CASE OpenNapi
  <2>1. CoreT' /\ RtnlT' /\ NapiT'
    BY <1>14, <1>b DEF OpenNapi
  <2>2. HeldT'
    BY <1>14, <1>b, <1>c DEF OpenNapi
  <2>3. FlagT' /\ TimerT'
    BY <1>14, <1>b DEF OpenNapi
  <2>4. QED
    BY <1>a, <2>1, <2>2, <2>3, Zenon
<1>15. CASE OpenCarrier
  <2>1. CoreT' /\ RtnlT' /\ NapiT'
    BY <1>15, <1>b DEF OpenCarrier
  <2>2. HeldT'
    BY <1>15, <1>b, <1>c DEF OpenCarrier
  <2>3. FlagT' /\ TimerT'
    BY <1>15, <1>b DEF OpenCarrier
  <2>4. QED
    BY <1>a, <2>1, <2>2, <2>3, Zenon
<1>16. CASE StopStart
  <2>1. CoreT' /\ RtnlT' /\ NapiT'
    BY <1>16, <1>b DEF StopStart
  <2>2. HeldT'
    BY <1>16, <1>b, <1>c DEF StopStart
  <2>3. FlagT' /\ TimerT'
    BY <1>16, <1>b DEF StopStart
  <2>4. QED
    BY <1>a, <2>1, <2>2, <2>3, Zenon
<1>17. CASE StopIrq
  <2>1. CoreT' /\ RtnlT' /\ NapiT'
    BY <1>17, <1>b DEF StopIrq
  <2>2. HeldT'
    BY <1>17, <1>b, <1>c DEF StopIrq
  <2>3. FlagT' /\ TimerT'
    BY <1>17, <1>b DEF StopIrq
  <2>4. QED
    BY <1>a, <2>1, <2>2, <2>3, Zenon
<1>18. CASE StopTx
  <2>1. CoreT' /\ RtnlT' /\ NapiT'
    BY <1>18, <1>b DEF StopTx
  <2>2. HeldT'
    BY <1>18, <1>b, <1>c DEF StopTx
  <2>3. FlagT' /\ TimerT'
    BY <1>18, <1>b DEF StopTx
  <2>4. QED
    BY <1>a, <2>1, <2>2, <2>3, Zenon
<1>19. CASE StopNapi
  <2>1. CoreT' /\ RtnlT' /\ NapiT'
    BY <1>19, <1>b DEF StopNapi
  <2>2. HeldT'
    BY <1>19, <1>b, <1>c DEF StopNapi
  <2>3. FlagT' /\ TimerT'
    BY <1>19, <1>b DEF StopNapi
  <2>4. QED
    BY <1>a, <2>1, <2>2, <2>3, Zenon
<1>20. CASE StopClean
  <2>1. CoreT' /\ RtnlT' /\ NapiT'
    BY <1>20, <1>b DEF StopClean
  <2>2. HeldT'
    BY <1>20, <1>b, <1>c DEF StopClean
  <2>3. FlagT' /\ TimerT'
    BY <1>20, <1>b DEF StopClean
  <2>4. QED
    BY <1>a, <2>1, <2>2, <2>3, Zenon
<1>21. CASE RemoveStart
  <2>1. CoreT' /\ RtnlT' /\ NapiT'
    BY <1>21, <1>b DEF RemoveStart
  <2>2. HeldT'
    BY <1>21, <1>b, <1>c DEF RemoveStart
  <2>3. FlagT' /\ TimerT'
    BY <1>21, <1>b DEF RemoveStart
  <2>4. QED
    BY <1>a, <2>1, <2>2, <2>3, Zenon
<1>22. CASE RemoveTeardown
  <2>1. CoreT' /\ RtnlT' /\ NapiT'
    BY <1>22, <1>b DEF RemoveTeardown, Closed
  <2>2. HeldT'
    BY <1>22, <1>b, <1>c DEF RemoveTeardown, Closed
  <2>3. FlagT' /\ TimerT'
    BY <1>22, <1>b DEF RemoveTeardown, Closed
  <2>4. QED
    BY <1>a, <2>1, <2>2, <2>3, Zenon
<1>23. CASE RemoveFree
  <2>1. CoreT' /\ RtnlT' /\ NapiT'
    BY <1>23, <1>b DEF RemoveFree
  <2>2. HeldT'
    BY <1>23, <1>b, <1>c DEF RemoveFree
  <2>3. FlagT' /\ TimerT'
    BY <1>23, <1>b DEF RemoveFree
  <2>4. QED
    BY <1>a, <2>1, <2>2, <2>3, Zenon
<1>24. CASE TimerFire
  <2>1. CoreT' /\ RtnlT' /\ NapiT'
    BY <1>24, <1>b DEF TimerFire
  <2>2. HeldT'
    BY <1>24, <1>b, <1>c DEF TimerFire
  <2>3. FlagT' /\ TimerT'
    BY <1>24, <1>b DEF TimerFire
  <2>4. QED
    BY <1>a, <2>1, <2>2, <2>3, Zenon
<1>25. CASE simeth_rxtimer_cb
  <2>1. CoreT' /\ RtnlT' /\ NapiT'
    BY <1>25, <1>b DEF simeth_rxtimer_cb, Rearmed
  <2>2. HeldT'
    BY <1>25, <1>b, <1>c DEF simeth_rxtimer_cb, Rearmed
  <2>3. FlagT' /\ TimerT'
    BY <1>25, <1>b DEF simeth_rxtimer_cb, Rearmed
  <2>4. QED
    BY <1>a, <2>1, <2>2, <2>3, Zenon
<1>26. CASE WriteParam
  <2>1. CoreT' /\ RtnlT' /\ NapiT'
    BY <1>26, <1>b DEF WriteParam
  <2>2. HeldT'
    BY <1>26, <1>b, <1>c DEF WriteParam
  <2>3. FlagT' /\ TimerT'
    BY <1>26, <1>b DEF WriteParam
  <2>4. QED
    BY <1>a, <2>1, <2>2, <2>3, Zenon
<1>27. CASE UNCHANGED vars
  BY <1>27 DEF vars, ControlType
<1>28. QED
  BY <1>1, <1>2, <1>3, <1>4, <1>5, <1>6, <1>7, <1>8, <1>9, <1>10, <1>11,
     <1>12, <1>13, <1>14, <1>15, <1>16, <1>17, <1>18, <1>19, <1>20, <1>21,
     <1>22, <1>23, <1>24, <1>25, <1>26, <1>27 DEF Next, Probe, Open, Stop,
     Remove

(* The driver begins in states of the right type.                          *)
LEMMA InitControl == Init => ControlType
<1> SUFFICES ASSUME Init PROVE ControlType
  OBVIOUS
<1>1. timer = [pending |-> FALSE, running |-> FALSE]
  BY DEF Init
<1>2. up = FALSE /\ carrier = FALSE /\ txoff = FALSE /\ ioaddr = FALSE
  BY DEF Init
<1>3. /\ core = "unbound" /\ held = {} /\ leaked = {}
      /\ rtnl = "idle" /\ napi = "absent"
  BY DEF Init
<1>4. timer \in [pending : BOOLEAN, running : BOOLEAN]
  BY <1>1
<1>5. QED
  BY <1>2, <1>3, <1>4 DEF ControlType

(* Every variable of the driver model keeps its type.                      *)
THEOREM TypeCorrect == Spec => []TypeOK
<1>1. Init => CountersType
  BY DriverAssumption, NullQType DEF Init, CountersType
<1>2. Init => ControlType
  BY InitControl
<1>3. QED
  BY <1>1, <1>2, CountersStep, ControlStep, PTL DEF Spec, TypeOK

-----------------------------------------------------------------------------
(* The life of a binding: which resources are held where the driver core   *)
(* is, and how far the rtnl holder can be.                                 *)

RegisteredCore == { "carrier_off", "bound", "unregister" }

Opening  == { "open_txq", "open_rxq", "open_irq", "open_napi",
              "open_carrier" }

Stopping == { "stop_irq", "stop_tx", "stop_napi", "stop_clean" }

(* What probe has acquired before each of its steps.                       *)
HeldInv ==
  /\ core # "unbound" => "netdev" \in held
  /\ core \notin { "unbound", "enable" } => "pci" \in held
  /\ core \in { "save_state", "alloc_qs", "register" } \cup RegisteredCore
       => "iomap" \in held
  /\ core \in { "alloc_qs", "register" } \cup RegisteredCore
       => "napi" \in held
  /\ core \in { "register" } \cup RegisteredCore
       => "txq" \in held /\ "rxq" \in held
  /\ core \in RegisteredCore => "netreg" \in held

(* The rtnl holder works only on a registered device, opens only one that  *)
(* is down and not being removed, and stops only one that is up.           *)
PhaseInv ==
  /\ rtnl # "idle" \/ up => core \in RegisteredCore
  /\ rtnl \in Opening => ~up /\ core # "unregister"
  /\ rtnl \in Stopping => up

NapiOn == \/ rtnl = "idle" /\ up
          \/ rtnl \in { "open_carrier", "stop_irq", "stop_tx", "stop_napi" }

NapiInv ==
  /\ core \notin RegisteredCore => napi # "enabled"
  /\ core \in { "alloc_qs", "register" } => napi = "disabled"
  /\ core \in RegisteredCore =>
       napi = (IF NapiOn THEN "enabled" ELSE "disabled")

CarrierInv == rtnl # "idle" \/ (core = "bound" /\ ~up) => ~carrier

LifeInv == ControlType /\ HeldInv /\ PhaseInv /\ NapiInv /\ CarrierInv

(* Every step of probe, open, stop and remove preserves the invariant of   *)
(* the device's life.                                                      *)
LEMMA LifeStep == LifeInv /\ [Next]_vars => LifeInv'
<1> SUFFICES ASSUME LifeInv, [Next]_vars
             PROVE  HeldInv' /\ PhaseInv' /\ NapiInv' /\ CarrierInv'
  BY ControlStep DEF LifeInv
<1> USE DEF LifeInv, ControlType, HeldInv, PhaseInv, NapiInv, NapiOn,
            CarrierInv, RegisteredCore, Opening, Stopping, binding, link
<1>1. CASE ProbeStart
    BY <1>1 DEF ProbeStart
<1>2. CASE ProbeEnable
    BY <1>2 DEF ProbeEnable, ProbeFrame, Acquire, FailTo
<1>3. CASE ProbeBar
    BY <1>3 DEF ProbeBar, ProbeFrame, Acquire, FailTo
<1>4. CASE ProbeRegions
    BY <1>4 DEF ProbeRegions, ProbeFrame, Acquire, FailTo
<1>5. CASE ProbeIoremap
    BY <1>5 DEF ProbeIoremap, ProbeFrame, Acquire, FailTo
<1>6. CASE ProbeSaveState
    BY <1>6 DEF ProbeSaveState, ProbeFrame, Acquire, FailTo
<1>7. CASE ProbeAllocQs
    BY <1>7 DEF ProbeAllocQs, ProbeFrame, Acquire, FailTo
<1>8. CASE ProbeRegister
    BY <1>8 DEF ProbeRegister, ProbeFrame, Acquire, FailTo
<1>9. CASE ProbeCarrierOff
    BY <1>9 DEF ProbeCarrierOff, ProbeFrame
<1>10. CASE OpenStart
    BY <1>10 DEF OpenStart, Registered
<1>11. CASE OpenTxqs
    BY <1>11 DEF OpenTxqs
<1>12. CASE OpenRxqs
    BY <1>12 DEF OpenRxqs
<1>13. CASE OpenIrq
    BY <1>13 DEF OpenIrq
<1>14. CASE OpenNapi
    BY <1>14 DEF OpenNapi
<1>15. CASE OpenCarrier
    BY <1>15 DEF OpenCarrier
<1>16. CASE StopStart
    BY <1>16 DEF StopStart
<1>17. CASE StopIrq
    BY <1>17 DEF StopIrq
<1>18. CASE StopTx
    BY <1>18 DEF StopTx
<1>19. CASE StopNapi
    BY <1>19 DEF StopNapi
<1>20. CASE StopClean
    BY <1>20 DEF StopClean
<1>21. CASE RemoveStart
    BY <1>21 DEF RemoveStart
<1>22. CASE RemoveTeardown
    BY <1>22 DEF RemoveTeardown, Closed
<1>23. CASE RemoveFree
    BY <1>23 DEF RemoveFree
<1>24. CASE TimerFire
    BY <1>24 DEF TimerFire
<1>25. CASE simeth_rxtimer_cb
    BY <1>25 DEF simeth_rxtimer_cb
<1>26. CASE WriteParam
    BY <1>26 DEF WriteParam
<1>27. CASE UNCHANGED vars
  BY <1>27 DEF vars
<1>28. QED
  BY <1>1, <1>2, <1>3, <1>4, <1>5, <1>6, <1>7, <1>8, <1>9, <1>10, <1>11,
     <1>12, <1>13, <1>14, <1>15, <1>16, <1>17, <1>18, <1>19, <1>20, <1>21,
     <1>22, <1>23, <1>24, <1>25, <1>26, <1>27 DEF Next, Probe, Open, Stop,
     Remove

(* The invariant of the device's life holds in every state of the driver.  *)
LEMMA LifeInvariant == Spec => []LifeInv
<1>1. Init => LifeInv
  <2>1. Init => ControlType
    BY InitControl
  <2>2. Init => HeldInv /\ PhaseInv /\ NapiInv /\ CarrierInv
    BY DEF Init, HeldInv, PhaseInv, NapiInv, CarrierInv, RegisteredCore,
           Opening, Stopping
  <2>3. QED
    BY <2>1, <2>2 DEF LifeInv
<1>2. QED
  BY <1>1, LifeStep, PTL DEF Spec

(* Open and stop work only on structures that exist: the queue array, the  *)
(* NAPI context, the register window and the net device outlive every rtnl *)
(* operation (simeth_remove calls unregister_netdev first).                *)
THEOREM BindingSafe == Spec => []OperationsInsideBinding
<1>1. LifeInv => OperationsInsideBinding
  BY DEF LifeInv, ControlType, HeldInv, PhaseInv, RegisteredCore,
         OperationsInsideBinding
<1>2. QED
  BY <1>1, LifeInvariant, PTL

(* napi_enable and napi_disable alternate and NAPI is enabled exactly      *)
(* while the interface is up.                                              *)
THEOREM NapiSafe == Spec => []NapiTracksUp
<1>1. LifeInv => NapiTracksUp
  BY DEF LifeInv, ControlType, PhaseInv, NapiInv, NapiOn, RegisteredCore,
         Opening, Stopping, NapiTracksUp
<1>2. QED
  BY <1>1, LifeInvariant, PTL

(* Once probe has returned, a closed interface reports no carrier.         *)
THEOREM CarrierSafe == Spec => []CarrierOffWhenDown
<1>1. LifeInv => CarrierOffWhenDown
  BY DEF LifeInv, CarrierInv, CarrierOffWhenDown
<1>2. QED
  BY <1>1, LifeInvariant, PTL

-----------------------------------------------------------------------------
(* The queues.                                                             *)

(* A queue claims descriptors only while its buffer memory is live, so     *)
(* _simeth_clean_q never walks memory that a failed set-up has freed.      *)
THEOREM CleanSafe == Spec => []CleanTouchesLiveMemory
<1> DEFINE QInv == CountersType /\ CleanTouchesLiveMemory
<1>1. Init => QInv
  <2>1. Init => CountersType
    BY DriverAssumption, NullQType DEF Init, CountersType
  <2>2. QED
    BY <2>1 DEF Init, CleanTouchesLiveMemory, NullQ
<1>2. ASSUME QInv, [Next]_vars PROVE CleanTouchesLiveMemory'
  <2> USE <1>2 DEF CleanTouchesLiveMemory, queues
  <2>1. CASE ProbeStart
      BY <2>1 DEF ProbeStart
  <2>2. CASE ProbeEnable
      BY <2>2 DEF ProbeEnable, ProbeFrame, Acquire, FailTo
  <2>3. CASE ProbeBar
      BY <2>3 DEF ProbeBar, ProbeFrame, Acquire, FailTo
  <2>4. CASE ProbeRegions
      BY <2>4 DEF ProbeRegions, ProbeFrame, Acquire, FailTo
  <2>5. CASE ProbeIoremap
      BY <2>5 DEF ProbeIoremap, ProbeFrame, Acquire, FailTo
  <2>6. CASE ProbeSaveState
      BY <2>6 DEF ProbeSaveState, ProbeFrame, Acquire, FailTo
  <2>7. CASE ProbeAllocQs
      BY <2>7 DEF ProbeAllocQs, ProbeFrame, Acquire, FailTo, NullQ
  <2>8. CASE ProbeRegister
      BY <2>8 DEF ProbeRegister, ProbeFrame, Acquire, FailTo
  <2>9. CASE ProbeCarrierOff
      BY <2>9 DEF ProbeCarrierOff, ProbeFrame
  <2>10. CASE OpenStart
      BY <2>10 DEF OpenStart, Registered
  <2>11. CASE OpenTxqs
      BY <2>11, SetupQType DEF OpenTxqs, CountersType
  <2>12. CASE OpenRxqs
      BY <2>12, SetupQType DEF OpenRxqs, CountersType
  <2>13. CASE OpenIrq
      BY <2>13 DEF OpenIrq
  <2>14. CASE OpenNapi
      BY <2>14 DEF OpenNapi
  <2>15. CASE OpenCarrier
      BY <2>15 DEF OpenCarrier
  <2>16. CASE StopStart
      BY <2>16 DEF StopStart
  <2>17. CASE StopIrq
      BY <2>17 DEF StopIrq
  <2>18. CASE StopTx
      BY <2>18 DEF StopTx
  <2>19. CASE StopNapi
      BY <2>19 DEF StopNapi
  <2>20. CASE StopClean
      BY <2>20 DEF StopClean
  <2>21. CASE RemoveStart
      BY <2>21 DEF RemoveStart
  <2>22. CASE RemoveTeardown
      BY <2>22 DEF RemoveTeardown, Closed, NullQ
  <2>23. CASE RemoveFree
      BY <2>23 DEF RemoveFree
  <2>24. CASE TimerFire
      BY <2>24 DEF TimerFire
  <2>25. CASE simeth_rxtimer_cb
      BY <2>25 DEF simeth_rxtimer_cb
  <2>26. CASE WriteParam
      BY <2>26 DEF WriteParam
  <2>27. CASE UNCHANGED vars
    BY <2>27 DEF vars
  <2>28. QED
    BY <2>1, <2>2, <2>3, <2>4, <2>5, <2>6, <2>7, <2>8, <2>9, <2>10, <2>11,
       <2>12, <2>13, <2>14, <2>15, <2>16, <2>17, <2>18, <2>19, <2>20, <2>21,
       <2>22, <2>23, <2>24, <2>25, <2>26, <2>27 DEF Next, Probe, Open, Stop,
       Remove
<1>3. QED
  BY <1>1, <1>2, CountersStep, PTL DEF Spec

(* With parameters fixed at load time the queues the driver sets up have   *)
(* as many descriptors as the parameter descriptions allow, whatever the   *)
(* parameters were: simeth_probe adjusts them before any open.             *)
THEOREM DescCountSafe ==
  ASSUME RuntimeWrites = FALSE
  PROVE  Spec => []DescCountDocumented
<1> DEFINE Adjusted == core # "unbound" =>
                         Documented(g_n_txds) /\ Documented(g_n_rxds)
           DInv == CountersType /\ LifeInv /\ Adjusted /\ DescCountDocumented
<1>1. Init => Adjusted /\ DescCountDocumented
  BY DEF Init, DescCountDocumented, NullQ
<1>2. ASSUME DInv, [Next]_vars PROVE (Adjusted /\ DescCountDocumented)'
  <2> USE <1>2 DEF DescCountDocumented, LifeInv, ControlType, PhaseInv,
                   RegisteredCore, queues, params
  <2>1. CASE ProbeStart
      BY <2>1, AdjustDocumented DEF ProbeStart, CountersType
  <2>2. CASE ProbeEnable
      BY <2>2 DEF ProbeEnable, ProbeFrame, Acquire, FailTo
  <2>3. CASE ProbeBar
      BY <2>3 DEF ProbeBar, ProbeFrame, Acquire, FailTo
  <2>4. CASE ProbeRegions
      BY <2>4 DEF ProbeRegions, ProbeFrame, Acquire, FailTo
  <2>5. CASE ProbeIoremap
      BY <2>5 DEF ProbeIoremap, ProbeFrame, Acquire, FailTo
  <2>6. CASE ProbeSaveState
      BY <2>6 DEF ProbeSaveState, ProbeFrame, Acquire, FailTo
  <2>7. CASE ProbeAllocQs
      BY <2>7 DEF ProbeAllocQs, ProbeFrame, Acquire, FailTo, NullQ
  <2>8. CASE ProbeRegister
      BY <2>8 DEF ProbeRegister, ProbeFrame, Acquire, FailTo
  <2>9. CASE ProbeCarrierOff
      BY <2>9 DEF ProbeCarrierOff, ProbeFrame
  <2>10. CASE OpenStart
      BY <2>10 DEF OpenStart, Registered
  <2>11. CASE OpenTxqs
      BY <2>11, SetupQType DEF OpenTxqs, CountersType
  <2>12. CASE OpenRxqs
      BY <2>12, SetupQType DEF OpenRxqs, CountersType
  <2>13. CASE OpenIrq
      BY <2>13 DEF OpenIrq
  <2>14. CASE OpenNapi
      BY <2>14 DEF OpenNapi
  <2>15. CASE OpenCarrier
      BY <2>15 DEF OpenCarrier
  <2>16. CASE StopStart
      BY <2>16 DEF StopStart
  <2>17. CASE StopIrq
      BY <2>17 DEF StopIrq
  <2>18. CASE StopTx
      BY <2>18 DEF StopTx
  <2>19. CASE StopNapi
      BY <2>19 DEF StopNapi
  <2>20. CASE StopClean
      BY <2>20 DEF StopClean
  <2>21. CASE RemoveStart
      BY <2>21 DEF RemoveStart
  <2>22. CASE RemoveTeardown
      BY <2>22 DEF RemoveTeardown, Closed, NullQ
  <2>23. CASE RemoveFree
      BY <2>23 DEF RemoveFree
  <2>24. CASE TimerFire
      BY <2>24 DEF TimerFire
  <2>25. CASE simeth_rxtimer_cb
      BY <2>25 DEF simeth_rxtimer_cb
  <2>26. CASE WriteParam
      BY <2>26 DEF WriteParam
  <2>27. CASE UNCHANGED vars
    BY <2>27 DEF vars
  <2>28. QED
    BY <2>1, <2>2, <2>3, <2>4, <2>5, <2>6, <2>7, <2>8, <2>9, <2>10, <2>11,
       <2>12, <2>13, <2>14, <2>15, <2>16, <2>17, <2>18, <2>19, <2>20, <2>21,
       <2>22, <2>23, <2>24, <2>25, <2>26, <2>27 DEF Next, Probe, Open, Stop,
       Remove
<1>3. Init => CountersType
  BY DriverAssumption, NullQType DEF Init, CountersType
<1>4. QED
  BY <1>1, <1>2, <1>3, CountersStep, LifeInvariant, PTL DEF Spec

-----------------------------------------------------------------------------
(* The receive timer.                                                      *)

(* The timer is queued or running only in timer mode, and only between the *)
(* step of open that starts it and the step of stop that deletes it.       *)
TimerInv ==
  TimerActive =>
    /\ g_rx_irqtimer = 1
    /\ \/ rtnl \in { "open_napi", "open_carrier", "stop_irq" }
       \/ rtnl = "idle" /\ up

(* With parameters fixed at load time every step preserves TimerInv:       *)
(* del_timer_sync waits for the callback, and nothing queues it again.     *)
LEMMA TimerStep ==
  ASSUME RuntimeWrites = FALSE
  PROVE  LifeInv /\ TimerInv /\ [Next]_vars => TimerInv'
<1> SUFFICES ASSUME LifeInv, TimerInv, [Next]_vars PROVE TimerInv'
  OBVIOUS
<1> USE DEF LifeInv, ControlType, PhaseInv, TimerInv, TimerActive,
            Opening, Stopping, params, link, irqs
<1>1. CASE ProbeStart
    BY <1>1 DEF ProbeStart
<1>2. CASE ProbeEnable
    BY <1>2 DEF ProbeEnable, ProbeFrame, Acquire, FailTo
<1>3. CASE ProbeBar
    BY <1>3 DEF ProbeBar, ProbeFrame, Acquire, FailTo
<1>4. CASE ProbeRegions
    BY <1>4 DEF ProbeRegions, ProbeFrame, Acquire, FailTo
<1>5. CASE ProbeIoremap
    BY <1>5 DEF ProbeIoremap, ProbeFrame, Acquire, FailTo
<1>6. CASE ProbeSaveState
    BY <1>6 DEF ProbeSaveState, ProbeFrame, Acquire, FailTo
<1>7. CASE ProbeAllocQs
    BY <1>7 DEF ProbeAllocQs, ProbeFrame, Acquire, FailTo
<1>8. CASE ProbeRegister
    BY <1>8 DEF ProbeRegister, ProbeFrame, Acquire, FailTo
<1>9. CASE ProbeCarrierOff
    BY <1>9 DEF ProbeCarrierOff, ProbeFrame
<1>10. CASE OpenStart
    BY <1>10 DEF OpenStart, Registered
<1>11. CASE OpenTxqs
    BY <1>11 DEF OpenTxqs
<1>12. CASE OpenRxqs
    BY <1>12 DEF OpenRxqs
<1>13. CASE OpenIrq
    BY <1>13 DEF OpenIrq
<1>14. CASE OpenNapi
    BY <1>14 DEF OpenNapi
<1>15. CASE OpenCarrier
    BY <1>15 DEF OpenCarrier
<1>16. CASE StopStart
    BY <1>16 DEF StopStart
<1>17. CASE StopIrq
    BY <1>17 DEF StopIrq, CanDelTimer
<1>18. CASE StopTx
    BY <1>18 DEF StopTx
<1>19. CASE StopNapi
    BY <1>19 DEF StopNapi
<1>20. CASE StopClean
    BY <1>20 DEF StopClean
<1>21. CASE RemoveStart
    BY <1>21 DEF RemoveStart
<1>22. CASE RemoveTeardown
    BY <1>22 DEF RemoveTeardown, Closed
<1>23. CASE RemoveFree
    BY <1>23 DEF RemoveFree
<1>24. CASE TimerFire
    BY <1>24 DEF TimerFire
<1>25. CASE simeth_rxtimer_cb
    BY <1>25 DEF simeth_rxtimer_cb, Rearmed
<1>26. CASE WriteParam
    BY <1>26 DEF WriteParam
<1>27. CASE UNCHANGED vars
  BY <1>27 DEF vars
<1>28. QED
  BY <1>1, <1>2, <1>3, <1>4, <1>5, <1>6, <1>7, <1>8, <1>9, <1>10, <1>11,
     <1>12, <1>13, <1>14, <1>15, <1>16, <1>17, <1>18, <1>19, <1>20, <1>21,
     <1>22, <1>23, <1>24, <1>25, <1>26, <1>27 DEF Next, Probe, Open, Stop,
     Remove

(* With parameters fixed at load time TimerInv holds in every state.        *)
LEMMA TimerInvariant ==
  ASSUME RuntimeWrites = FALSE
  PROVE  Spec => []TimerInv
<1>1. Init => TimerInv
  BY DEF Init, TimerInv, TimerActive
<1>2. QED
  BY <1>1, TimerStep, LifeInvariant, PTL DEF Spec

(* With parameters fixed at load time the timer callback, which            *)
(* dereferences the adapter and rearms itself without a check, is never    *)
(* queued or running once free_netdev has run.                             *)
THEOREM TimerSafe ==
  ASSUME RuntimeWrites = FALSE
  PROVE  Spec => []TimerInsideNetdev
<1>1. LifeInv /\ TimerInv => TimerInsideNetdev
  BY DEF LifeInv, HeldInv, PhaseInv, TimerInv, TimerInsideNetdev,
         RegisteredCore
<1>2. QED
  BY <1>1, LifeInvariant, TimerInvariant, PTL

(* With parameters fixed at load time an interface that is down, after a   *)
(* stop or an open that failed half way, has no timer and no NAPI active.  *)
THEOREM QuiescentSafe ==
  ASSUME RuntimeWrites = FALSE
  PROVE  Spec => []QuiescentWhenDown
<1>1. LifeInv /\ TimerInv => QuiescentWhenDown
  BY DEF LifeInv, ControlType, NapiInv, NapiOn, TimerInv, QuiescentWhenDown
<1>2. QED
  BY <1>1, LifeInvariant, TimerInvariant, PTL

(* A receive interrupt source that open has set up is there until ndo_stop *)
(* destroys it, for every mode and every write of a parameter: the timer   *)
(* callback never ends without rearming, and nothing else takes a source   *)
(* away.                                                                   *)
THEOREM RxSourceSafe == Spec => RxSourceUntilStop
<1>1. ASSUME TypeOK, [Next]_vars, Source, ~Source'
      PROVE  rtnl = "stop_irq"
  <2>1. timer \in [pending : BOOLEAN, running : BOOLEAN] /\ irqh \in Nat
    BY <1>1 DEF TypeOK, ControlType, CountersType
  <2> USE <1>1 DEF Source, TimerActive, irqs
  <2>2. CASE Probe
    BY <2>2 DEF Probe, ProbeStart, ProbeEnable, ProbeBar, ProbeRegions,
       ProbeIoremap, ProbeSaveState, ProbeAllocQs, ProbeRegister,
       ProbeCarrierOff, ProbeFrame
  <2>3. CASE OpenIrq
    BY <2>1, <2>3 DEF OpenIrq
  <2>4. CASE OpenStart \/ OpenTxqs \/ OpenRxqs \/ OpenNapi \/ OpenCarrier
    BY <2>4 DEF OpenStart, OpenTxqs, OpenRxqs, OpenNapi, OpenCarrier
  <2>5. CASE StopIrq
    BY <2>5 DEF StopIrq
  <2>6. CASE StopStart \/ StopTx \/ StopNapi \/ StopClean
    BY <2>6 DEF StopStart, StopTx, StopNapi, StopClean
  <2>7. CASE Remove
    BY <2>7 DEF Remove, RemoveStart, RemoveTeardown, RemoveFree
  <2>8. CASE TimerFire
    BY <2>1, <2>8 DEF TimerFire
  <2>9. CASE simeth_rxtimer_cb
    BY <2>9 DEF simeth_rxtimer_cb, Rearmed
  <2>10. CASE WriteParam
    BY <2>10 DEF WriteParam
  <2>11. CASE UNCHANGED vars
    BY <2>11 DEF vars
  <2>12. QED
    BY <1>1, <2>2, <2>3, <2>4, <2>5, <2>6, <2>7, <2>8, <2>9, <2>10, <2>11
       DEF Next, Open, Stop
<1>2. TypeOK /\ [Next]_vars => [Source /\ ~Source' => rtnl = "stop_irq"]_vars
  BY <1>1
<1>3. QED
  BY <1>2, TypeCorrect, PTL DEF Spec, RxSourceUntilStop

-----------------------------------------------------------------------------
(* Error unwinding in probe.                                               *)

(* A jump to a label releases what every later label releases.             *)
LEMMA UnwindFrom ==
  ASSUME NEW i \in 1 .. 6, NEW j \in 1 .. 6, i <= j
  PROVE  ReleasedAt(Labels[j]) \subseteq Unwound(Labels[i])
<1>1. DOMAIN Labels = 1 .. 6
  BY DEF Labels
<1>2. i \in 1 .. j
  OBVIOUS
<1>3. QED
  BY <1>1, <1>2 DEF Unwound

(* What a jump to each label of simeth_probe releases, at least.           *)
LEMMA Unwinding ==
  /\ { "netdev" } \subseteq Unwound("do_free_netdev")
  /\ { "netdev", "pci" } \subseteq Unwound("do_dis_dev")
  /\ { "netdev", "pci", "regions" } \subseteq Unwound("do_rel_regions")
  /\ ioaddr => /\ { "netdev", "pci", "regions", "iomap", "master", "napi" }
                     \subseteq Unwound("do_napi_del")
               /\ { "netdev", "pci", "regions", "iomap", "master", "napi",
                    "txq", "rxq" } \subseteq Unwound("do_clean_adapter")
<1>1. /\ Labels[1] = "do_clean_adapter" /\ Labels[2] = "do_napi_del"
      /\ Labels[3] = "do_clear_master"  /\ Labels[4] = "do_rel_regions"
      /\ Labels[5] = "do_dis_dev"       /\ Labels[6] = "do_free_netdev"
  BY DEF Labels
<1>2. /\ ReleasedAt("do_free_netdev") = { "netdev" }
      /\ ReleasedAt("do_dis_dev") = { "pci" }
      /\ ReleasedAt("do_rel_regions") = { "regions" }
      /\ ioaddr => ReleasedAt("do_clear_master") = { "master", "iomap" }
      /\ ReleasedAt("do_napi_del") = { "napi" }
      /\ ReleasedAt("do_clean_adapter") = { "txq", "rxq" }
  BY DEF ReleasedAt
<1>3. \A i \in 1 .. 6 : \A j \in 1 .. 6 :
        i <= j => ReleasedAt(Labels[j]) \subseteq Unwound(Labels[i])
  BY UnwindFrom
<1>4. /\ ReleasedAt(Labels[6]) \subseteq Unwound(Labels[6])
      /\ \A j \in { 5, 6 } : ReleasedAt(Labels[j]) \subseteq Unwound(Labels[5])
      /\ \A j \in 4 .. 6 : ReleasedAt(Labels[j]) \subseteq Unwound(Labels[4])
      /\ \A j \in 2 .. 6 : ReleasedAt(Labels[j]) \subseteq Unwound(Labels[2])
      /\ \A j \in 1 .. 6 : ReleasedAt(Labels[j]) \subseteq Unwound(Labels[1])
  BY <1>3
<1>5. QED
  BY <1>1, <1>2, <1>4

(* No more is held than probe has acquired before each of its steps, and   *)
(* than remove has left.                                                   *)
WithinInv ==
  /\ core = "enable" => held \subseteq { "netdev" }
  /\ core = "bar" => held \subseteq { "netdev", "pci" }
  /\ core = "regions" => held \subseteq { "netdev", "pci", "mwi" }
  /\ core = "ioremap" => held \subseteq { "netdev", "pci", "mwi", "regions" }
  /\ core = "save_state" =>
       held \subseteq { "netdev", "pci", "mwi", "regions", "iomap", "master" }
  /\ core \in { "alloc_qs", "register" } => ioaddr
  /\ core = "alloc_qs" => held \subseteq { "netdev", "pci", "mwi", "regions",
                                           "iomap", "master", "napi" }
  /\ core = "register" => "netreg" \notin held
  /\ core = "free" =>
       held \subseteq { "netdev", "pci", "mwi", "regions", "master" }

(* The steps of probe and remove preserve WithinInv.                       *)
LEMMA WithinStep == ControlType /\ WithinInv /\ [Next]_vars => WithinInv'
<1> SUFFICES ASSUME ControlType, WithinInv, [Next]_vars PROVE WithinInv'
  OBVIOUS
<1> USE DEF ControlType, WithinInv, Resources, binding
<1>1. CASE ProbeStart
    BY <1>1 DEF ProbeStart
<1>2. CASE ProbeEnable
    BY <1>2 DEF ProbeEnable, ProbeFrame, Acquire, FailTo
<1>3. CASE ProbeBar
    BY <1>3 DEF ProbeBar, ProbeFrame, Acquire, FailTo
<1>4. CASE ProbeRegions
    BY <1>4 DEF ProbeRegions, ProbeFrame, Acquire, FailTo
<1>5. CASE ProbeIoremap
    BY <1>5 DEF ProbeIoremap, ProbeFrame, Acquire, FailTo
<1>6. CASE ProbeSaveState
    BY <1>6 DEF ProbeSaveState, ProbeFrame, Acquire, FailTo
<1>7. CASE ProbeAllocQs
    BY <1>7 DEF ProbeAllocQs, ProbeFrame, Acquire, FailTo
<1>8. CASE ProbeRegister
    BY <1>8 DEF ProbeRegister, ProbeFrame, Acquire, FailTo
<1>9. CASE ProbeCarrierOff
    BY <1>9 DEF ProbeCarrierOff, ProbeFrame
<1>10. CASE OpenStart
    BY <1>10 DEF OpenStart, Registered
<1>11. CASE OpenTxqs
    BY <1>11 DEF OpenTxqs
<1>12. CASE OpenRxqs
    BY <1>12 DEF OpenRxqs
<1>13. CASE OpenIrq
    BY <1>13 DEF OpenIrq
<1>14. CASE OpenNapi
    BY <1>14 DEF OpenNapi
<1>15. CASE OpenCarrier
    BY <1>15 DEF OpenCarrier
<1>16. CASE StopStart
    BY <1>16 DEF StopStart
<1>17. CASE StopIrq
    BY <1>17 DEF StopIrq
<1>18. CASE StopTx
    BY <1>18 DEF StopTx
<1>19. CASE StopNapi
    BY <1>19 DEF StopNapi
<1>20. CASE StopClean
    BY <1>20 DEF StopClean
<1>21. CASE RemoveStart
    BY <1>21 DEF RemoveStart
<1>22. CASE RemoveTeardown
    BY <1>22 DEF RemoveTeardown, Closed
<1>23. CASE RemoveFree
    BY <1>23 DEF RemoveFree
<1>24. CASE TimerFire
    BY <1>24 DEF TimerFire
<1>25. CASE simeth_rxtimer_cb
    BY <1>25 DEF simeth_rxtimer_cb
<1>26. CASE WriteParam
    BY <1>26 DEF WriteParam
<1>27. CASE UNCHANGED vars
  BY <1>27 DEF vars
<1>28. QED
  BY <1>1, <1>2, <1>3, <1>4, <1>5, <1>6, <1>7, <1>8, <1>9, <1>10, <1>11,
     <1>12, <1>13, <1>14, <1>15, <1>16, <1>17, <1>18, <1>19, <1>20, <1>21,
     <1>22, <1>23, <1>24, <1>25, <1>26, <1>27 DEF Next, Probe, Open, Stop,
     Remove

(* Whatever step of simeth_probe fails, and after simeth_remove, nothing   *)
(* probe acquired stays acquired, except memory-write-invalidate and what  *)
(* a failing pci_save_state loses.                                         *)
THEOREM UnbindSafe == Spec => UnbindReleasesAll
<1> DEFINE Released == \A r \in leaked' \ leaked : r = "mwi" \/ core = "save_state"
           UInv == ControlType /\ WithinInv
<1>1. Init => UInv
  BY InitControl DEF Init, WithinInv
<1>2. UInv /\ [Next]_vars => UInv'
  BY ControlStep, WithinStep
<1>3. ASSUME UInv, [Next]_vars PROVE [Released]_vars
  <2> USE <1>3 DEF WithinInv, ControlType, Resources, binding
  <2>1. CASE ProbeStart
      BY <2>1 DEF ProbeStart
  <2>2. CASE ProbeEnable
    <3>1. leaked' \in { leaked,
                           leaked \cup (held \ Unwound("do_free_netdev")) }
      BY <2>2 DEF ProbeEnable, Acquire, FailTo
    <3>2. held \subseteq { "netdev" }
      BY <2>2 DEF ProbeEnable
    <3>3. held \ Unwound("do_free_netdev") = {}
      BY <3>2, Unwinding, Zenon
    <3>4. QED
      BY <3>1, <3>3
  <2>3. CASE ProbeBar
    <3>1. leaked' \in { leaked,
                           leaked \cup (held \ Unwound("do_dis_dev")) }
      BY <2>3 DEF ProbeBar, Acquire, FailTo
    <3>2. held \subseteq { "netdev", "pci" }
      BY <2>3 DEF ProbeBar
    <3>3. held \ Unwound("do_dis_dev") = {}
      BY <3>2, Unwinding, Zenon
    <3>4. QED
      BY <3>1, <3>3
  <2>4. CASE ProbeRegions
    <3>1. leaked' \in { leaked,
                           leaked \cup (held \ Unwound("do_dis_dev")) }
      BY <2>4 DEF ProbeRegions, Acquire, FailTo
    <3>2. \A r \in held \ Unwound("do_dis_dev") : r = "mwi"
      BY <2>4, Unwinding DEF ProbeRegions
    <3>3. QED
      BY <3>1, <3>2
  <2>5. CASE ProbeIoremap
    <3>1. leaked' \in { leaked,
                           leaked \cup (held \ Unwound("do_rel_regions")) }
      BY <2>5 DEF ProbeIoremap, Acquire, FailTo
    <3>2. \A r \in held \ Unwound("do_rel_regions") : r = "mwi"
      BY <2>5, Unwinding DEF ProbeIoremap
    <3>3. QED
      BY <3>1, <3>2
  <2>6. CASE ProbeSaveState
      BY <2>6 DEF ProbeSaveState, ProbeFrame, Acquire, FailTo
  <2>7. CASE ProbeAllocQs
    <3>1. leaked' \in { leaked,
                           leaked \cup (held \ Unwound("do_napi_del")) }
      BY <2>7 DEF ProbeAllocQs, Acquire, FailTo
    <3>2. \A r \in held \ Unwound("do_napi_del") : r = "mwi"
      BY <2>7, Unwinding DEF ProbeAllocQs
    <3>3. QED
      BY <3>1, <3>2
  <2>8. CASE ProbeRegister
    <3>1. leaked' \in { leaked,
                           leaked \cup (held \ Unwound("do_clean_adapter")) }
      BY <2>8 DEF ProbeRegister, Acquire, FailTo
    <3>2. \A r \in held \ Unwound("do_clean_adapter") : r = "mwi"
      BY <2>8, Unwinding DEF ProbeRegister
    <3>3. QED
      BY <3>1, <3>2
  <2>9. CASE ProbeCarrierOff
      BY <2>9 DEF ProbeCarrierOff, ProbeFrame
  <2>10. CASE OpenStart
      BY <2>10 DEF OpenStart, Registered
  <2>11. CASE OpenTxqs
      BY <2>11 DEF OpenTxqs
  <2>12. CASE OpenRxqs
      BY <2>12 DEF OpenRxqs
  <2>13. CASE OpenIrq
      BY <2>13 DEF OpenIrq
  <2>14. CASE OpenNapi
      BY <2>14 DEF OpenNapi
  <2>15. CASE OpenCarrier
      BY <2>15 DEF OpenCarrier
  <2>16. CASE StopStart
      BY <2>16 DEF StopStart
  <2>17. CASE StopIrq
      BY <2>17 DEF StopIrq
  <2>18. CASE StopTx
      BY <2>18 DEF StopTx
  <2>19. CASE StopNapi
      BY <2>19 DEF StopNapi
  <2>20. CASE StopClean
      BY <2>20 DEF StopClean
  <2>21. CASE RemoveStart
      BY <2>21 DEF RemoveStart
  <2>22. CASE RemoveTeardown
      BY <2>22 DEF RemoveTeardown, Closed
  <2>23. CASE RemoveFree
      BY <2>23 DEF RemoveFree
  <2>24. CASE TimerFire
      BY <2>24 DEF TimerFire
  <2>25. CASE simeth_rxtimer_cb
      BY <2>25 DEF simeth_rxtimer_cb
  <2>26. CASE WriteParam
      BY <2>26 DEF WriteParam
  <2>27. CASE UNCHANGED vars
    BY <2>27 DEF vars
  <2>28. QED
    BY <2>1, <2>2, <2>3, <2>4, <2>5, <2>6, <2>7, <2>8, <2>9, <2>10, <2>11,
       <2>12, <2>13, <2>14, <2>15, <2>16, <2>17, <2>18, <2>19, <2>20, <2>21,
       <2>22, <2>23, <2>24, <2>25, <2>26, <2>27 DEF Next, Probe, Open, Stop,
       Remove
<1>4. QED
  BY <1>1, <1>2, <1>3, PTL DEF Spec, UnbindReleasesAll
=============================================================================
