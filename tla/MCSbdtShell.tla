----------------------------- MODULE MCSbdtShell -----------------------------
(* Three files and two entries: two can be received, finalized and asked    *)
(* for again at once, a third finds no entry.  The queue has room for all.  *)
EXTENDS SbdtShell
=============================================================================
