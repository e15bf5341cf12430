------------------------------- MODULE FlowSend -------------------------------
(***************************************************************************)
(* What the hello-flow promises about the one message it keeps             *)
(* (`sid flow send', app/include/cli/app_shell.h): it is tried on one link *)
(* at a time, never on a link twice over, and a strict-* send stays on the *)
(* link its sender named.                                                  *)
(***************************************************************************)
CONSTANTS Links, None

VARIABLE slot    \* None, or the message the flow keeps

Message == [mayMove : BOOLEAN, link : Links, tried : SUBSET Links, onAir : BOOLEAN]

Init == slot = None

\* A request takes the slot, whatever was in it.
Accept ==
  \E link \in Links, mayMove \in BOOLEAN :
    slot' = [mayMove |-> mayMove, link |-> link, tried |-> {link}, onAir |-> FALSE]

\* The stack takes the message.
Transmit == slot # None /\ ~slot.onAir /\ slot' = [slot EXCEPT !.onAir = TRUE]

\* The stack could not send it.
Bounce == slot # None /\ slot.onAir /\ slot' = [slot EXCEPT !.onAir = FALSE]

\* The message moves to a link it was not tried on.
Move ==
  /\ slot # None /\ slot.mayMove
  /\ \E link \in Links \ slot.tried :
       slot' = [slot EXCEPT !.link = link, !.tried = @ \cup {link}, !.onAir = FALSE]

\* The message was sent, given up or cancelled.
Release == slot # None /\ slot' = None

Next == Accept \/ Transmit \/ Bounce \/ Move \/ Release

Spec == Init /\ [][Next]_slot

===============================================================================
