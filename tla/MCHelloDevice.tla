---------------------------- MODULE MCHelloDevice ----------------------------
(* The hello device with the link masks of sidewalk_event_link_switch and a  *)
(* file of two blocks that is transferred twice, so that it can come again   *)
(* while blocks of its first transfer are still queued.                      *)
EXTENDS HelloDevice

Radios == {"BLE", "FSK", "LoRa"}
Default == {"BLE"}
Switched ==
  [m \in SUBSET Radios |->
     CASE m = {"BLE"} -> {"FSK"} [] m = {"FSK"} -> {"BLE", "LoRa"} [] OTHER -> {"BLE"}]
NoMask == {"none"}
RebootHandler == Handler("reboot")
Boot == <<Handler("plain"), Handler("autostart")>>
=============================================================================
