------------------------- MODULE MCSensorMonitoring -------------------------
(* Two buttons and one LED, queues of two and one: enough for an event to   *)
(* be lost on a full queue, and for a second button to be pressed while the *)
(* notification of the first is under way.                                  *)
EXTENDS SensorMonitoring
=============================================================================
