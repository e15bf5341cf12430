------------------------------ MODULE MCFskProbe ------------------------------
(* The FSK probe in each of its roles, with windows of two turns, a queue    *)
(* with room for the events of one call of irq_process and no more, a sweep  *)
(* whose length does not divide the number at which the windows wrap, and a  *)
(* frame number that outgrows its place before it wraps.                     *)
EXTENDS FskProbe

AllRoles == {"rx", "tx", "preamble", "wave"}
OfTheRadio ==
  [r \in AllRoles |-> IF r = "rx" THEN {"RX_DONE", "RX_ERROR", "SYNC_DET"} ELSE {"TX_DONE"}]
FirstOffset == -3
Strengths == {-4, -1, 2}
=============================================================================
