--------------------------- MODULE SensorMonitoring ---------------------------
(***************************************************************************)
(* The sensor monitoring application (app/src/sensor_monitoring): its TX   *)
(* thread, a state machine fed by a short queue, its RX thread, the        *)
(* buttons and LEDs they share, and the timers, buttons and stack          *)
(* callbacks that queue events.  Built with SENSOR_AUTO_TX, the default.   *)
(*                                                                         *)
(* Every queue is put to without waiting: an event that finds it full is   *)
(* lost.  Messages go to the sidewalk thread's queue, which may be full,   *)
(* and the radio may lose them; the cloud is outside this repository and   *)
(* answers what it likes, or nothing.                                      *)
(***************************************************************************)
EXTENDS Integers, Sequences

CONSTANTS
  Buttons,      \* the button ids, 0..APP_BUTTONS_MAX-1
  Leds,         \* the LED ids
  TxQueueSize,  \* CONFIG_SID_END_DEVICE_TX_THREAD_QUEUE_SIZE
  RxQueueSize,  \* CONFIG_SID_END_DEVICE_RX_THREAD_QUEUE_SIZE
  MaxAsked,     \* bound: capability messages on their way at a time
  MaxInputs     \* bound: statuses, presses and requests

ASSUME SensorAssumption ==
  /\ TxQueueSize \in Nat \ {0} /\ RxQueueSize \in Nat \ {0}
  /\ MaxAsked \in Nat \ {0} /\ MaxInputs \in Nat

States == {"init", "capability", "data"}
TxEvents == {"time_sync_success", "time_sync_fail", "capability_success",
             "notify_sensor", "notify_button", "resp_led_on", "resp_led_off"}
RxMessages ==
       [type : {"capability_resp"}]
  \cup [type : {"button_resp"}, ids : SUBSET Buttons]
  \cup [type : {"led_on", "led_off"}, ids : SUBSET Leds]

VARIABLES
  state,       \* app_sm.ctx: the state of the TX state machine
  txq,         \* app_sm.msgq
  rxq,         \* rx_msgq
  tx,          \* what the TX thread is doing with a button notification
  press,       \* button_press_mask
  pending,     \* button_event_pending_processing
  leds,        \* leds_state
  asked,       \* the capability messages sent, and neither answered nor lost
  unreported,  \* history: the buttons pressed outside a notification, and
               \* neither reported nor answered since
  inputs       \* statuses, presses and requests so far (bound)

vars == <<state, txq, rxq, tx, press, pending, leds, asked, unreported, inputs>>
buttonVars == <<press, pending, unreported>>

TxIdle == [step |-> "idle", buttons |-> {}]

\* Mutant: the room on the queue is checked one too late.
PutTxOneMore(event) == txq' = IF Len(txq) <= TxQueueSize THEN Append(txq, event) ELSE txq

\* app_tx_event_send and app_rx_msg_received
PutTx(event) == txq' = IF Len(txq) < TxQueueSize THEN Append(txq, event) ELSE txq
PutRx(msg)   == rxq' = IF Len(rxq) < RxQueueSize THEN Append(rxq, msg) ELSE rxq

-----------------------------------------------------------------------------
(* The TX thread.                                                          *)

StateAfter(s, event) ==
  CASE s = "init" /\ event = "time_sync_success"        -> "capability"
    [] s = "capability" /\ event = "capability_success" -> "data"
    [] s = "data" /\ event = "time_sync_fail"           -> "capability"
    [] OTHER                                            -> s

TakeTx(events) ==
  /\ tx.step = "idle"
  /\ txq # <<>>
  /\ Head(txq) \in events
  /\ txq' = Tail(txq)

\* Mutant: the capability is sent when it is first needed, and not again.
AsksOnEntry == state # "capability" /\ StateAfter(state, Head(txq)) = "capability"

\* state_notify_capability sends the capability for every event of the sensor.
Asks == state = "capability" /\ Head(txq) = "notify_sensor"

\* Every event but a button's: the state changes, or a message is sent.  A
\* capability message may not find room on the sidewalk thread's queue; the
\* sensor's data and the LED responses are not looked at further.
TxEvent ==
  /\ \/ TakeTx(TxEvents \ {"notify_button"})
     \/ TakeTx({"notify_button"}) /\ state # "data"
  /\ state' = StateAfter(state, Head(txq))
  /\ asked' \in {asked} \cup (IF Asks /\ asked < MaxAsked THEN {asked + 1} ELSE {})
  /\ UNCHANGED <<rxq, tx, buttonVars, leds, inputs>>

\* The pressed buttons are read (no caller ever sets the notify mask) ...
NotifyButtonScan ==
  /\ TakeTx({"notify_button"})
  /\ state = "data"
  /\ tx' = [step |-> "send", buttons |-> press]
  /\ UNCHANGED <<state, rxq, buttonVars, leds, asked, inputs>>

\* ... the notification is queued for the stack ...
NotifyButtonSent ==
  /\ tx.step = "send"
  /\ tx' = [tx EXCEPT !.step = "clear"]
  /\ unreported' = unreported \ tx.buttons
  /\ UNCHANGED <<state, txq, rxq, press, pending, leds, asked, inputs>>

\* Mutant: the flag is cleared whether the notification was queued or not.
NotifyButtonGivenUp ==
  /\ tx.step = "send"
  /\ pending' = FALSE
  /\ tx' = TxIdle
  /\ UNCHANGED <<state, txq, rxq, press, unreported, leds, asked, inputs>>

\* ... or not, and then the flag stays for the next time ...
NotifyButtonFailed ==
  /\ tx.step = "send"
  /\ tx' = TxIdle
  /\ UNCHANGED <<state, txq, rxq, buttonVars, leds, asked, inputs>>

\* ... and the flag is cleared, whoever has set it meanwhile.
NotifyButtonClear ==
  /\ tx.step = "clear"
  /\ pending' = FALSE
  /\ tx' = TxIdle
  /\ UNCHANGED <<state, txq, rxq, press, unreported, leds, asked, inputs>>

TxThread ==
  TxEvent \/ NotifyButtonScan \/ NotifyButtonSent \/ NotifyButtonFailed \/ NotifyButtonClear

-----------------------------------------------------------------------------
(* The RX thread: one message.                                             *)

\* app_led_turn_on and app_led_turn_off, for each LED of the request
LedsAfter(msg) ==
  CASE msg.type = "led_on"  -> leds \cup msg.ids
    [] msg.type = "led_off" -> leds \ msg.ids
    [] OTHER                -> leds

RxThread ==
  /\ rxq # <<>>
  /\ rxq' = Tail(rxq)
  /\ LET msg == Head(rxq)
     IN /\ leds' = LedsAfter(msg)
        /\ CASE msg.type = "capability_resp" ->
                  PutTx("capability_success") /\ UNCHANGED <<press, unreported>>
             [] msg.type = "button_resp" ->
                  /\ press' = press \ msg.ids /\ unreported' = unreported \ msg.ids
                  /\ UNCHANGED txq
             [] msg.type = "led_on" ->
                  PutTx("resp_led_on") /\ UNCHANGED <<press, unreported>>
             [] OTHER ->
                  PutTx("resp_led_off") /\ UNCHANGED <<press, unreported>>
  /\ UNCHANGED <<state, tx, pending, asked, inputs>>

-----------------------------------------------------------------------------
(* Timers, buttons and the stack's callbacks.                              *)

\* Mutant: button_timer_cb asks for the flag to be down.
ButtonDueInverted == ~pending

ButtonDue == pending

\* button_timer_cb, every second
ButtonTimer ==
  /\ ButtonDue
  /\ PutTx("notify_button")
  /\ UNCHANGED <<state, rxq, tx, buttonVars, leds, asked, inputs>>

\* notify_timer_cb, and the sensor's wake handler
NotifyTimer ==
  /\ PutTx("notify_sensor")
  /\ UNCHANGED <<state, rxq, tx, buttonVars, leds, asked, inputs>>

Input == inputs < MaxInputs /\ inputs' = inputs + 1

\* on_sidewalk_status_changed
StatusChanged ==
  /\ Input
  /\ \E event \in {"time_sync_success", "time_sync_fail"} : PutTx(event)
  /\ UNCHANGED <<state, rxq, tx, buttonVars, leds, asked>>

\* app_btn_event_handler
Press(b) ==
  /\ Input
  /\ press' = press \cup {b}
  /\ pending' = TRUE
  /\ unreported' = IF tx.step = "idle" THEN unreported \cup {b} ELSE unreported
  /\ UNCHANGED <<state, txq, rxq, tx, leds, asked>>

\* The cloud answers a capability message ...
CapabilityAnswered ==
  /\ asked > 0
  /\ asked' = asked - 1
  /\ PutRx([type |-> "capability_resp"])
  /\ UNCHANGED <<state, txq, tx, buttonVars, leds, inputs>>

\* ... or the message is lost, or its answer is, or says that it failed.
CapabilityLost ==
  /\ asked > 0
  /\ asked' = asked - 1
  /\ UNCHANGED <<state, txq, rxq, tx, buttonVars, leds, inputs>>

\* Any other message of the cloud (on_sidewalk_msg_received).
MessageReceived ==
  /\ Input
  /\ \E msg \in RxMessages : msg.type # "capability_resp" /\ PutRx(msg)
  /\ UNCHANGED <<state, txq, tx, buttonVars, leds, asked>>

Init ==
  /\ state = "init" /\ txq = <<>> /\ rxq = <<>> /\ tx = TxIdle
  /\ press = {} /\ pending = FALSE /\ unreported = {} /\ leds = {}
  /\ asked = 0 /\ inputs = 0

Next ==
  \/ TxThread \/ RxThread
  \/ ButtonTimer \/ NotifyTimer
  \/ StatusChanged \/ (\E b \in Buttons : Press(b))
  \/ CapabilityAnswered \/ CapabilityLost \/ MessageReceived

Spec == Init /\ [][Next]_vars

\* The threads run, and what is tried again and again succeeds now and then:
\* a periodic timer, or the RX thread with an answer to a capability message,
\* finds room on the TX queue (weak fairness would let each find it full every
\* time), a message can be encoded and finds room on the sidewalk thread's
\* queue, and the cloud answers while both queues have room.  Nothing is asked
\* of any single attempt: a message that is sent once may be lost for good.
FindsRoom(A) == A /\ Len(txq) < TxQueueSize
AnswerTaken  == RxThread /\ Head(rxq).type = "capability_resp"
Fairness ==
  /\ WF_vars(TxThread) /\ WF_vars(RxThread)
  /\ SF_vars(FindsRoom(ButtonTimer)) /\ SF_vars(FindsRoom(NotifyTimer))
  /\ SF_vars(FindsRoom(AnswerTaken))
  /\ SF_vars(TxEvent /\ asked' # asked)
  /\ SF_vars(NotifyButtonSent)
  /\ SF_vars(FindsRoom(CapabilityAnswered /\ Len(rxq) < RxQueueSize))
FairSpec == Spec /\ Fairness

-----------------------------------------------------------------------------
\* The state machine, the queues, the masks and the flags keep their types and
\* limits.
TypeOK ==
  /\ state \in States
  /\ txq \in Seq(TxEvents) /\ Len(txq) <= TxQueueSize
  /\ rxq \in Seq(RxMessages) /\ Len(rxq) <= RxQueueSize
  /\ tx \in [step : {"idle", "send", "clear"}, buttons : SUBSET Buttons]
  /\ press \subseteq Buttons /\ unreported \subseteq Buttons
  /\ leds \in SUBSET Leds
  /\ pending \in BOOLEAN
  /\ asked \in 0..MaxAsked

\* The flag may be cleared for a press that no notification has told of only
\* while a notification is under way: a button pressed at any other time keeps
\* the flag up until a message with it has been queued, or until an answer of
\* the cloud has taken the press away (which may be the late answer to an
\* earlier press of the same button).
PressStaysPending == unreported # {} => pending

\* A device that has taken in that it has time, or has the event for it on its
\* queue, gets to send data, whatever statuses come, however often a capability
\* message or its answer is lost and whichever events find a queue full: the
\* capability is sent again until an answer gets through.  An event for time
\* that finds the queue full is not made up for until the next status.
TimeKnown == state # "init" \/ \E i \in 1..Len(txq) : txq[i] = "time_sync_success"
ReachesData == TimeKnown ~> (state = "data")

\* A pending button is dealt with, or the device has left the state in which
\* buttons are reported: a notification that finds no room is sent again.
PendingIsServed == (state = "data" /\ pending) ~> (~pending \/ state # "data")

=============================================================================
