------------------------------ MODULE CertShell ------------------------------
(***************************************************************************)
(* The `cert' shell commands (app/src/cli/sid_on_dev_cert_cli.c): an       *)
(* operator hands the certificate chain and the application server's key   *)
(* over in base64 fragments, then commits them to the on-device            *)
(* certificate library.                                                    *)
(*                                                                         *)
(* Of a fragment only its length matters, and whether the decoder takes    *)
(* it.  At six bits a character a decoder holds floor(6n/8) bytes after n  *)
(* of them.  The library is outside this repository: it remembers what it  *)
(* was given.                                                              *)
(***************************************************************************)
EXTENDS Integers

CONSTANTS
  Algos,        \* the curves a chain may be for
  ChainMax,     \* SID_ODC_<curve>_SCC_MAX_SIZE, by curve
  KeySize,      \* SID_ODC_ED25519_PUK_SIZE
  FragmentMax,  \* CERT_BASE64_FRAGMENT_MAX_SIZE
  Lengths       \* the fragment lengths an operator may type

ASSUME CertAssumption ==
  /\ ChainMax \in [Algos -> Nat]
  /\ KeySize \in Nat \ {0}
  /\ FragmentMax \in Nat
  /\ Lengths \subseteq Nat

VARIABLES
  chain,   \* cert_chain_base64_ctx, with cert_chain_params.cert_chain for `open'
  algo,    \* cert_chain_params.algo
  key,     \* cert_app_key_base64_ctx
  typed,   \* history: characters acknowledged since the last start, by kind
  given    \* the library: what it was last given, by kind

vars == <<chain, algo, key, typed, given>>

Kinds == {"chain", "key"}

\* A decoder: whether it has an output buffer, the buffer's size, and the
\* characters it has taken.
Decoder == [open : BOOLEAN, room : Nat, chars : Nat]
Closed  == [open |-> FALSE, room |-> 0, chars |-> 0]
Opened(size) == [open |-> TRUE, room |-> size, chars |-> 0]

Bytes(chars) == (6 * chars) \div 8

\* What the decoder has written to its buffer (total_out).
TotalOut(ctx) == IF Bytes(ctx.chars) < ctx.room THEN Bytes(ctx.chars) ELSE ctx.room

\* Mutant: only the room before the fragment is looked at.
FitsBefore(ctx, n) == Bytes(ctx.chars) <= ctx.room

\* All of the fragment is taken, and no byte is left without room for it.
Fits(ctx, n) == Bytes(ctx.chars + n) <= ctx.room

InLength(n) == 1 <= n /\ n <= FragmentMax

-----------------------------------------------------------------------------
\* cert chain start <curve>: what was there is dropped.
ChainStart ==
  /\ algo' \in Algos
  /\ chain' = Opened(ChainMax[algo'])
  /\ typed' = [typed EXCEPT !.chain = 0]
  /\ UNCHANGED <<key, given>>

\* A fragment that the decoder takes.
ChainWrite ==
  /\ chain.open
  /\ \E n \in Lengths :
       /\ InLength(n) /\ Fits(chain, n)
       /\ chain' = [chain EXCEPT !.chars = @ + n]
       /\ typed' = [typed EXCEPT !.chain = @ + n]
  /\ UNCHANGED <<algo, key, given>>

\* Mutant: the decoder keeps what it took of a fragment it then refused.
ChainKept(n) == chain' = IF Fits(chain, n) THEN [chain EXCEPT !.chars = @ + n] ELSE chain

\* The chain has to be started again.
ChainDropped(n) == chain' = Closed

\* A fragment with a bad character, or with more bytes than the buffer holds.
ChainWriteFails ==
  /\ chain.open
  /\ \E n \in Lengths : InLength(n) /\ ChainDropped(n)
  /\ UNCHANGED <<algo, key, typed, given>>

\* Whatever the library answers, the chain has to be started again.
ChainCommit ==
  /\ chain.open
  /\ given' = [given EXCEPT !.chain = TotalOut(chain)]
  /\ chain' = Closed
  /\ UNCHANGED <<algo, key, typed>>

KeyStart ==
  /\ key' = Opened(KeySize)
  /\ typed' = [typed EXCEPT !.key = 0]
  /\ UNCHANGED <<chain, algo, given>>

KeyWrite ==
  /\ key.open
  /\ \E n \in Lengths :
       /\ InLength(n) /\ Fits(key, n)
       /\ key' = [key EXCEPT !.chars = @ + n]
       /\ typed' = [typed EXCEPT !.key = @ + n]
  /\ UNCHANGED <<chain, algo, given>>

KeyWriteFails ==
  /\ key.open
  /\ \E n \in Lengths : InLength(n)
  /\ key' = Closed
  /\ UNCHANGED <<chain, algo, typed, given>>

KeyComplete == key.open /\ TotalOut(key) = KeySize

KeyCommit ==
  /\ given' = IF KeyComplete THEN [given EXCEPT !.key = TotalOut(key)] ELSE given
  /\ key' = Closed
  /\ UNCHANGED <<chain, algo, typed>>

Init ==
  /\ chain = Closed /\ algo \in Algos /\ key = Closed
  /\ typed = [k \in Kinds |-> 0]
  /\ given = [k \in Kinds |-> 0]

Next ==
  \/ ChainStart \/ ChainWrite \/ ChainWriteFails \/ ChainCommit
  \/ KeyStart \/ KeyWrite \/ KeyWriteFails \/ KeyCommit

Spec == Init /\ [][Next]_vars

-----------------------------------------------------------------------------
\* A decoder never holds more than its buffer has room for, with the room of
\* the curve the chain is for.
TypeOK ==
  /\ {chain, key} \subseteq Decoder
  /\ algo \in Algos
  /\ chain.open => chain.room = ChainMax[algo]
  /\ \A ctx \in {chain, key} : Bytes(ctx.chars) <= ctx.room
  /\ typed \in [Kinds -> Nat]
  /\ given \in [Kinds -> Nat]

\* The library is given what the operator was told was taken since the last
\* start: nothing of an earlier transfer, nothing of a fragment that was
\* refused, nothing cut off at the end of the buffer.
GivenAsTyped ==
  [][/\ given'.chain # given.chain => given'.chain = Bytes(typed.chain)
     /\ given'.key # given.key => given'.key = Bytes(typed.key)]_vars
=============================================================================
