------------------------------ MODULE MCDutFlow ------------------------------
(* Small instances of DutFlow: the sets the .cfg files give its constants. *)
EXTENDS DutFlow

\* `auto', a link with fallback, a strict link, and a strict RESPONSE.
Auto       == FlowRequest("any", TRUE, FALSE)
Prefer(l)  == FlowRequest(l, TRUE, FALSE)
Strict(l)  == FlowRequest(l, FALSE, FALSE)
Respond(l) == FlowRequest(l, FALSE, TRUE)
SetTo(m)   == [type |-> "set", mask |-> m]
Plain(t)   == [type |-> t]

Up(links)   == [ready |-> TRUE, synced |-> FALSE, links |-> links]
UpWithTime(links) == [ready |-> TRUE, synced |-> TRUE, links |-> links]

\* The flow's own commands and everything else that uses the session.
AllStatuses == {Up(BLE), UpWithTime(FSK), Up(BLELORA), NoStatus}
AllCommands ==
  {Auto, Prefer("lora"), Respond("ble"), SetTo(BLELORA), SetTo({}), Plain("switch"),
   Plain("cancel"), Plain("flow_status"), Plain("deinit"), Plain("ship"),
   Plain("link_switch"), Plain("auto_switch"), [type |-> "init", mask |-> BLE],
   [type |-> "start", mask |-> BLELORA], [type |-> "stop", mask |-> FSK]}

\* A device on which only the shell's flow uses the session.
FlowStatuses == {Up(BLE), UpWithTime(FSK), Up({"lora"})}
FlowCommands == {Auto, Strict("lora"), Prefer("ble"), Plain("cancel")}

\* BLE+LoRa has been asked for, and BLE is up before LoRa.
SetThenSend    == {SetTo(BLELORA), Prefer("ble")}
SwitchStatuses == {UpWithTime(FSK), Up(BLE)}

\* One kind of request on a device that has just booted.
OneRequest == {Prefer("ble")}
==============================================================================
