-------------------------------- MODULE MCCliUi --------------------------------
(* The boards have two connection objects (CONFIG_BT_MAX_CONN); three let   *)
(* an old object of each side and a new one meet.  A second request to enter *)
(* ship mode comes after the first has failed.                               *)
EXTENDS CliUi
=============================================================================
