------------------------- MODULE SensorMonitoringProofs -------------------------
(* Theorems about the sensor monitoring application (SensorMonitoring), for    *)
(* any buttons and LEDs and any queue sizes.                                   *)
EXTENDS SensorMonitoring, SequenceTheorems, TLAPS

\* What is unreported is in the press mask, so the notification that reads the
\* mask tells of it: nothing is left when the flag is cleared.
PressInv ==
  /\ TypeOK
  /\ unreported \subseteq press
  /\ tx.step = "send" => unreported \subseteq tx.buttons
  /\ tx.step = "clear" => unreported = {}
  /\ PressStaysPending

LEMMA QueueSizes == TxQueueSize \in Nat /\ RxQueueSize \in Nat
BY SensorAssumption

LEMMA IdleType == TxIdle \in [step : {"idle", "send", "clear"}, buttons : SUBSET Buttons]
BY DEF TxIdle

-----------------------------------------------------------------------------
(* The types.                                                              *)

\* An event that is put is queued or lost.
LEMMA PutTxType ==
  ASSUME TypeOK, NEW event \in TxEvents, PutTx(event)
  PROVE  txq' \in Seq(TxEvents) /\ Len(txq') <= TxQueueSize
BY QueueSizes DEF TypeOK, PutTx

LEMMA PutRxType ==
  ASSUME TypeOK, NEW msg \in RxMessages, PutRx(msg)
  PROVE  rxq' \in Seq(RxMessages) /\ Len(rxq') <= RxQueueSize
BY QueueSizes DEF TypeOK, PutRx

LEMMA TakeTxType ==
  ASSUME TypeOK, NEW events, TakeTx(events)
  PROVE  txq' \in Seq(TxEvents) /\ Len(txq') <= TxQueueSize /\ Head(txq) \in TxEvents
BY QueueSizes DEF TypeOK, TakeTx

LEMMA TxThreadType ==
  ASSUME TypeOK, TxThread
  PROVE  TypeOK'
<1>1. CASE TxEvent
  <2>1. txq' \in Seq(TxEvents) /\ Len(txq') <= TxQueueSize
    BY <1>1, TakeTxType DEF TxEvent
  <2>2. state' \in States
    BY <1>1 DEF TxEvent, StateAfter, States, TypeOK
  <2>3. asked' \in 0..MaxAsked
    BY <1>1, SensorAssumption DEF TxEvent, TypeOK
  <2>4. UNCHANGED <<rxq, tx, press, pending, unreported, leds>>
    BY <1>1 DEF TxEvent, buttonVars
  <2> QED
    BY <2>1, <2>2, <2>3, <2>4 DEF TypeOK
<1>2. CASE NotifyButtonScan
  <2>1. txq' \in Seq(TxEvents) /\ Len(txq') <= TxQueueSize
    BY <1>2, TakeTxType DEF NotifyButtonScan
  <2>2. tx' \in [step : {"idle", "send", "clear"}, buttons : SUBSET Buttons]
    BY <1>2 DEF NotifyButtonScan, TypeOK
  <2> QED
    BY <1>2, <2>1, <2>2 DEF NotifyButtonScan, buttonVars, TypeOK
<1>3. CASE NotifyButtonSent
  BY <1>3 DEF NotifyButtonSent, TypeOK
<1>4. CASE NotifyButtonFailed \/ NotifyButtonClear
  BY <1>4, IdleType DEF NotifyButtonFailed, NotifyButtonClear, buttonVars, TypeOK
<1> QED
  BY <1>1, <1>2, <1>3, <1>4 DEF TxThread

LEMMA RxThreadType ==
  ASSUME TypeOK, RxThread
  PROVE  TypeOK'
<1> DEFINE msg == Head(rxq)
<1>1. msg \in RxMessages /\ rxq' \in Seq(RxMessages) /\ Len(rxq') <= RxQueueSize
  BY QueueSizes DEF RxThread, TypeOK
<1>2. leds' \in SUBSET Leds
  <2>1. leds' = LedsAfter(msg) /\ leds \in SUBSET Leds
    BY DEF RxThread, TypeOK
  <2>2. msg.type \in {"led_on", "led_off"} => msg.ids \subseteq Leds
    BY <1>1 DEF RxMessages
  <2> QED
    BY <2>1, <2>2 DEF LedsAfter
<1>3. /\ txq' \in Seq(TxEvents) /\ Len(txq') <= TxQueueSize
      /\ press' \subseteq press /\ unreported' \subseteq unreported
  <2>1. CASE msg.type = "button_resp"
    BY <2>1 DEF RxThread, TypeOK
  <2>2. CASE msg.type # "button_resp"
    <3>1. \E event \in {"capability_success", "resp_led_on", "resp_led_off"} : PutTx(event)
      BY <2>2 DEF RxThread
    <3>2. UNCHANGED <<press, unreported>>
      BY <2>2 DEF RxThread
    <3> QED
      BY <3>1, <3>2, PutTxType DEF TxEvents
  <2> QED
    BY <2>1, <2>2
<1>4. UNCHANGED <<state, tx, pending, asked>>
  BY DEF RxThread
<1> QED
  BY <1>1, <1>2, <1>3, <1>4 DEF TypeOK

LEMMA InputsType ==
  ASSUME TypeOK,
         \/ ButtonTimer \/ NotifyTimer \/ StatusChanged \/ (\E b \in Buttons : Press(b))
         \/ CapabilityAnswered \/ CapabilityLost \/ MessageReceived
  PROVE  TypeOK'
<1>1. CASE ButtonTimer \/ NotifyTimer \/ StatusChanged
  <2>1. txq' \in Seq(TxEvents) /\ Len(txq') <= TxQueueSize
    BY <1>1, PutTxType DEF ButtonTimer, NotifyTimer, StatusChanged, TxEvents
  <2> QED
    BY <1>1, <2>1 DEF ButtonTimer, NotifyTimer, StatusChanged, buttonVars, TypeOK
<1>2. CASE \E b \in Buttons : Press(b)
  <2>1. press' \subseteq Buttons /\ unreported' \subseteq Buttons /\ pending' \in BOOLEAN
    BY <1>2 DEF Press, TypeOK
  <2> QED
    BY <1>2, <2>1 DEF Press, TypeOK
<1>3. CASE CapabilityAnswered \/ MessageReceived
  <2>1. \E msg \in RxMessages : PutRx(msg)
    BY <1>3 DEF CapabilityAnswered, MessageReceived, RxMessages
  <2>2. rxq' \in Seq(RxMessages) /\ Len(rxq') <= RxQueueSize
    BY <2>1, PutRxType
  <2>3. asked' \in 0..MaxAsked
    BY <1>3, SensorAssumption DEF CapabilityAnswered, MessageReceived, TypeOK
  <2> QED
    BY <1>3, <2>2, <2>3 DEF CapabilityAnswered, MessageReceived, buttonVars, TypeOK
<1>4. CASE CapabilityLost
  <2>1. asked' \in 0..MaxAsked
    BY <1>4, SensorAssumption DEF CapabilityLost, TypeOK
  <2> QED
    BY <1>4, <2>1 DEF CapabilityLost, buttonVars, TypeOK
<1> QED
  BY <1>1, <1>2, <1>3, <1>4

-----------------------------------------------------------------------------
(* The presses.                                                            *)

\* The notification clears the flag only when it has told of every press.
LEMMA TxThreadPress ==
  ASSUME PressInv, TxThread
  PROVE  PressInv'
<1>1. TypeOK'
  BY TxThreadType DEF PressInv
<1>2. CASE TxEvent
  BY <1>1, <1>2 DEF TxEvent, buttonVars, PressInv, PressStaysPending
<1>3. CASE NotifyButtonScan
  BY <1>1, <1>3 DEF NotifyButtonScan, buttonVars, PressInv, PressStaysPending
<1>4. CASE NotifyButtonSent
  <2>1. unreported' = {} /\ press' = press /\ tx'.step = "clear"
    BY <1>4 DEF NotifyButtonSent, PressInv, TypeOK
  <2> QED
    BY <1>1, <2>1 DEF PressInv, PressStaysPending
<1>5. CASE NotifyButtonFailed
  BY <1>1, <1>5 DEF NotifyButtonFailed, TxIdle, buttonVars, PressInv, PressStaysPending
<1>6. CASE NotifyButtonClear
  BY <1>1, <1>6 DEF NotifyButtonClear, TxIdle, PressInv, PressStaysPending
<1> QED
  BY <1>2, <1>3, <1>4, <1>5, <1>6 DEF TxThread

\* An answer takes a press away with what it says of it.
LEMMA RxThreadPress ==
  ASSUME PressInv, RxThread
  PROVE  PressInv'
<1>1. TypeOK'
  BY RxThreadType DEF PressInv
<1>2. UNCHANGED <<tx, pending>>
  BY DEF RxThread
<1>3. unreported' \subseteq press' /\ unreported' \subseteq unreported
  <2>1. CASE Head(rxq).type = "button_resp"
    BY <2>1 DEF RxThread, PressInv
  <2>2. CASE Head(rxq).type # "button_resp"
    BY <2>2 DEF RxThread, PressInv
  <2> QED
    BY <2>1, <2>2
<1> QED
  BY <1>1, <1>2, <1>3 DEF PressInv, PressStaysPending

LEMMA InputsPress ==
  ASSUME PressInv,
         \/ ButtonTimer \/ NotifyTimer \/ StatusChanged \/ (\E b \in Buttons : Press(b))
         \/ CapabilityAnswered \/ CapabilityLost \/ MessageReceived
  PROVE  PressInv'
<1>1. TypeOK'
  BY InputsType DEF PressInv
<1>2. CASE \E b \in Buttons : Press(b)
  <2>1. PICK b \in Buttons : Press(b)
    BY <1>2
  <2>2. pending' = TRUE /\ tx' = tx /\ press' = press \cup {b}
    BY <2>1 DEF Press
  <2>3. unreported' = IF tx.step = "idle" THEN unreported \cup {b} ELSE unreported
    BY <2>1 DEF Press
  <2> QED
    BY <1>1, <2>2, <2>3 DEF PressInv, PressStaysPending
<1>3. CASE UNCHANGED <<tx, press, pending, unreported>>
  BY <1>1, <1>3 DEF PressInv, PressStaysPending
<1> QED
  BY <1>2, <1>3 DEF ButtonTimer, NotifyTimer, StatusChanged, CapabilityAnswered, CapabilityLost,
     MessageReceived, buttonVars

LEMMA InitPressInv == Init => PressInv
<1> SUFFICES ASSUME Init PROVE PressInv
  OBVIOUS
<1>1. txq \in Seq(TxEvents) /\ Len(txq) = 0 /\ rxq \in Seq(RxMessages) /\ Len(rxq) = 0
  BY DEF Init
<1>2. state \in States /\ leds \in SUBSET Leds /\ pending \in BOOLEAN
  BY DEF Init, States
<1>a. asked \in 0..MaxAsked
  BY SensorAssumption DEF Init
<1>3. press = {} /\ unreported = {} /\ tx = TxIdle
  BY DEF Init
<1>4. TypeOK
  BY <1>1, <1>2, <1>a, <1>3, QueueSizes, IdleType DEF TypeOK
<1> QED
  BY <1>3, <1>4 DEF TxIdle, PressInv, PressStaysPending

\* The TX thread, the RX thread and the buttons keep the masks and the flag
\* consistent, in whatever order they run.
THEOREM PressInvHolds == Spec => []PressInv
<1>1. PressInv /\ [Next]_vars => PressInv'
  <2> SUFFICES ASSUME PressInv, [Next]_vars PROVE PressInv'
    OBVIOUS
  <2>1. CASE UNCHANGED vars
    BY <2>1 DEF vars, PressInv, TypeOK, PressStaysPending
  <2> QED
    BY <2>1, TxThreadPress, RxThreadPress, InputsPress DEF Next
<1> QED
  BY <1>1, InitPressInv, PTL DEF Spec

\* app_tx.c, app_rx.c, app_buttons.c: the state machine, its queues and the
\* button and LED masks keep their types and limits.
THEOREM SensorTypeCorrect == Spec => []TypeOK
<1>1. PressInv => TypeOK
  BY DEF PressInv
<1> QED
  BY <1>1, PressInvHolds, PTL

\* app_tx.c, app_buttons.c: a button that is pressed while no notification is
\* under way keeps the flag up until a message has told of it, or an answer of
\* the cloud has taken the press away.
THEOREM PressAlwaysStaysPending == Spec => []PressStaysPending
<1>1. PressInv => PressStaysPending
  BY DEF PressInv
<1> QED
  BY <1>1, PressInvHolds, PTL
=============================================================================
