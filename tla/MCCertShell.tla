----------------------------- MODULE MCCertShell -----------------------------
(* The certificate commands with small buffers: fragments of one to four   *)
(* characters, so that every remainder of bits and every way to end a       *)
(* buffer occurs, and lengths 0 and 5, which are refused.                   *)
EXTENDS CertShell

Sizes == [ed25519 |-> 5, p256r1 |-> 7]
Curves == {"ed25519", "p256r1"}
=============================================================================
