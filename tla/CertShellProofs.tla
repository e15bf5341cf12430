---------------------------- MODULE CertShellProofs ----------------------------
(* Theorems about the `cert' commands (CertShell), for any buffer sizes, key *)
(* size and fragment lengths.                                                *)
EXTENDS CertShell, TLAPS

\* What a decoder has taken is what the operator was told was taken.
DecodersAsTyped ==
  /\ chain.open => chain.chars = typed.chain
  /\ key.open => key.chars = typed.key

CertInv == TypeOK /\ DecodersAsTyped

-----------------------------------------------------------------------------
\* Six bits a character: a whole number of bytes, and none without characters.
LEMMA BytesIsNat ==
  ASSUME NEW n \in Nat
  PROVE  Bytes(n) \in Nat /\ Bytes(0) = 0
BY DEF Bytes

\* A decoder whose buffer has room for what it took has written all of it.
LEMMA TotalOutIsBytes ==
  ASSUME NEW ctx \in Decoder, Bytes(ctx.chars) <= ctx.room
  PROVE  TotalOut(ctx) = Bytes(ctx.chars) /\ TotalOut(ctx) \in Nat
<1>1. ctx.chars \in Nat /\ ctx.room \in Nat
  BY DEF Decoder
<1>2. Bytes(ctx.chars) \in Nat
  BY <1>1, BytesIsNat
<1> QED
  BY <1>1, <1>2 DEF TotalOut

LEMMA NewDecoder ==
  ASSUME NEW size \in Nat
  PROVE  /\ Closed \in Decoder /\ ~Closed.open /\ Bytes(Closed.chars) <= Closed.room
         /\ Opened(size) \in Decoder /\ Opened(size).room = size /\ Opened(size).chars = 0
         /\ Bytes(Opened(size).chars) <= Opened(size).room
BY BytesIsNat DEF Closed, Opened, Decoder, Bytes

\* A fragment that fits leaves a decoder within its room.
LEMMA FragmentTaken ==
  ASSUME NEW ctx \in Decoder, NEW n \in Lengths, Fits(ctx, n),
         NEW new, new = [ctx EXCEPT !.chars = @ + n]
  PROVE  /\ new \in Decoder /\ new.chars = ctx.chars + n
         /\ new.open = ctx.open /\ new.room = ctx.room
         /\ Bytes(new.chars) <= new.room
<1>1. n \in Nat /\ ctx.chars \in Nat /\ ctx.room \in Nat
  BY CertAssumption DEF Decoder
<1>2. ctx.chars + n \in Nat
  BY <1>1
<1>3. new \in Decoder
  BY <1>2 DEF Decoder
<1>4. new.chars = ctx.chars + n /\ new.room = ctx.room
  BY DEF Decoder
<1>5. new.open = ctx.open
  BY DEF Decoder
<1> QED
  BY <1>3, <1>4, <1>5 DEF Fits

\* The parts of TypeOK, without the sets that pair the two decoders.
LEMMA TypeParts ==
  TypeOK <=> /\ chain \in Decoder /\ key \in Decoder
             /\ algo \in Algos
             /\ chain.open => chain.room = ChainMax[algo]
             /\ Bytes(chain.chars) <= chain.room /\ Bytes(key.chars) <= key.room
             /\ typed \in [Kinds -> Nat] /\ given \in [Kinds -> Nat]
BY DEF TypeOK

LEMMA KindsAre == "chain" \in Kinds /\ "key" \in Kinds /\ \A k \in Kinds : k = "chain" \/ k = "key"
BY DEF Kinds

-----------------------------------------------------------------------------
LEMMA InitCertInv == Init => CertInv
<1> SUFFICES ASSUME Init PROVE CertInv
  OBVIOUS
<1>1. chain = Closed /\ key = Closed /\ algo \in Algos
  BY DEF Init
<1>2. Closed \in Decoder /\ ~Closed.open /\ Bytes(Closed.chars) <= Closed.room
  BY NewDecoder
<1>3. typed \in [Kinds -> Nat] /\ given \in [Kinds -> Nat]
  BY KindsAre DEF Init
<1> QED
  BY <1>1, <1>2, <1>3, TypeParts DEF CertInv, DecodersAsTyped

LEMMA ChainStep ==
  ASSUME CertInv, ChainStart \/ ChainWrite \/ ChainWriteFails \/ ChainCommit
  PROVE  CertInv'
<1>1. /\ chain \in Decoder /\ key \in Decoder /\ algo \in Algos
      /\ chain.open => chain.room = ChainMax[algo]
      /\ Bytes(chain.chars) <= chain.room /\ Bytes(key.chars) <= key.room
      /\ typed \in [Kinds -> Nat] /\ given \in [Kinds -> Nat]
  BY TypeParts DEF CertInv
<1>2. key' = key
  BY DEF ChainStart, ChainWrite, ChainWriteFails, ChainDropped, ChainCommit
<1>3. CASE ChainStart
  <2>1. algo' \in Algos /\ chain' = Opened(ChainMax[algo']) /\ ChainMax[algo'] \in Nat
    BY <1>3, CertAssumption DEF ChainStart
  <2>2. chain' \in Decoder /\ chain'.room = ChainMax[algo'] /\ chain'.chars = 0
        /\ Bytes(chain'.chars) <= chain'.room
    BY <2>1, NewDecoder
  <2>3. typed' \in [Kinds -> Nat] /\ typed'.chain = 0 /\ typed'.key = typed.key /\ given' = given
    BY <1>1, <1>3, KindsAre DEF ChainStart
  <2> QED
    BY <1>1, <1>2, <2>1, <2>2, <2>3, TypeParts DEF CertInv, DecodersAsTyped, TypeOK
<1>4. CASE ChainWrite
  <2>1. PICK n \in Lengths : /\ Fits(chain, n)
                             /\ chain' = [chain EXCEPT !.chars = @ + n]
                             /\ typed' = [typed EXCEPT !.chain = @ + n]
    BY <1>4 DEF ChainWrite
  <2>2. /\ chain' \in Decoder /\ chain'.chars = chain.chars + n
        /\ chain'.open = chain.open /\ chain'.room = chain.room
        /\ Bytes(chain'.chars) <= chain'.room
    BY <1>1, <2>1, FragmentTaken
  <2>3. /\ typed' \in [Kinds -> Nat]
        /\ typed'.chain = typed.chain + n /\ typed'.key = typed.key
    BY <1>1, <2>1, CertAssumption, KindsAre
  <2>4. algo' = algo /\ given' = given /\ chain.open
    BY <1>4 DEF ChainWrite
  <2> QED
    BY <1>1, <1>2, <2>2, <2>3, <2>4 DEF CertInv, DecodersAsTyped, TypeOK
<1>5. CASE ChainWriteFails
  <2>1. chain' = Closed /\ UNCHANGED <<algo, typed, given>>
    BY <1>5 DEF ChainWriteFails, ChainDropped
  <2> QED
    BY <1>1, <1>2, <2>1, NewDecoder DEF CertInv, DecodersAsTyped, TypeOK
<1>6. CASE ChainCommit
  <2>1. chain' = Closed /\ UNCHANGED <<algo, typed>>
    BY <1>6 DEF ChainCommit
  <2>2. given' \in [Kinds -> Nat]
    BY <1>1, <1>6, TotalOutIsBytes, KindsAre DEF ChainCommit
  <2> QED
    BY <1>1, <1>2, <2>1, <2>2, NewDecoder DEF CertInv, DecodersAsTyped, TypeOK
<1> QED
  BY <1>3, <1>4, <1>5, <1>6

LEMMA KeyStep ==
  ASSUME CertInv, KeyStart \/ KeyWrite \/ KeyWriteFails \/ KeyCommit
  PROVE  CertInv'
<1>1. /\ chain \in Decoder /\ key \in Decoder /\ algo \in Algos
      /\ chain.open => chain.room = ChainMax[algo]
      /\ Bytes(chain.chars) <= chain.room /\ Bytes(key.chars) <= key.room
      /\ typed \in [Kinds -> Nat] /\ given \in [Kinds -> Nat]
  BY TypeParts DEF CertInv
<1>2. UNCHANGED <<chain, algo>>
  BY DEF KeyStart, KeyWrite, KeyWriteFails, KeyCommit
<1>3. CASE KeyStart
  <2>1. key' = Opened(KeySize) /\ KeySize \in Nat
    BY <1>3, CertAssumption DEF KeyStart
  <2>2. key' \in Decoder /\ key'.room = KeySize /\ key'.chars = 0 /\ Bytes(key'.chars) <= key'.room
    BY <2>1, NewDecoder
  <2>3. typed' \in [Kinds -> Nat] /\ typed'.key = 0 /\ typed'.chain = typed.chain /\ given' = given
    BY <1>1, <1>3, KindsAre DEF KeyStart
  <2> QED
    BY <1>1, <1>2, <2>2, <2>3 DEF CertInv, DecodersAsTyped, TypeOK
<1>4. CASE KeyWrite
  <2>1. PICK n \in Lengths : /\ Fits(key, n)
                             /\ key' = [key EXCEPT !.chars = @ + n]
                             /\ typed' = [typed EXCEPT !.key = @ + n]
    BY <1>4 DEF KeyWrite
  <2>2. /\ key' \in Decoder /\ key'.chars = key.chars + n
        /\ key'.open = key.open /\ key'.room = key.room
        /\ Bytes(key'.chars) <= key'.room
    BY <1>1, <2>1, FragmentTaken
  <2>3. /\ typed' \in [Kinds -> Nat]
        /\ typed'.key = typed.key + n /\ typed'.chain = typed.chain
    BY <1>1, <2>1, CertAssumption, KindsAre
  <2>4. given' = given /\ key.open
    BY <1>4 DEF KeyWrite
  <2> QED
    BY <1>1, <1>2, <2>2, <2>3, <2>4 DEF CertInv, DecodersAsTyped, TypeOK
<1>5. CASE KeyWriteFails
  <2>1. key' = Closed /\ UNCHANGED <<typed, given>>
    BY <1>5 DEF KeyWriteFails
  <2> QED
    BY <1>1, <1>2, <2>1, NewDecoder DEF CertInv, DecodersAsTyped, TypeOK
<1>6. CASE KeyCommit
  <2>1. key' = Closed /\ typed' = typed
    BY <1>6 DEF KeyCommit
  <2>2. given' \in [Kinds -> Nat]
    <3>1. CASE KeyComplete
      <4>1. given' = [given EXCEPT !.key = KeySize] /\ KeySize \in Nat
        BY <1>6, <3>1, CertAssumption DEF KeyCommit, KeyComplete
      <4> QED
        BY <1>1, <4>1, KindsAre
    <3>2. CASE ~KeyComplete
      BY <1>1, <1>6, <3>2 DEF KeyCommit
    <3> QED
      BY <3>1, <3>2
  <2> QED
    BY <1>1, <1>2, <2>1, <2>2, NewDecoder
    DEF CertInv, DecodersAsTyped, TypeOK
<1> QED
  BY <1>3, <1>4, <1>5, <1>6

\* Whatever an operator types, in whatever order and fragments, the decoders
\* stay within their buffers and hold what was acknowledged.
THEOREM CertInvAlways == Spec => []CertInv
<1>1. CertInv /\ UNCHANGED vars => CertInv'
  BY DEF vars, CertInv, TypeOK, DecodersAsTyped
<1>2. CertInv /\ [Next]_vars => CertInv'
  BY <1>1, ChainStep, KeyStep DEF Next
<1> QED
  BY <1>2, InitCertInv, PTL DEF Spec

\* sid_on_dev_cert_cli.c: no decoder holds more than its buffer has room for,
\* for every fragment length and curve.
THEOREM CertTypeCorrect == Spec => []TypeOK
<1>1. CertInv => TypeOK
  BY DEF CertInv
<1> QED
  BY <1>1, CertInvAlways, PTL

\* The library is given what the operator was told was taken since the last
\* start, and nothing else.
THEOREM GivenAsTypedAlways == Spec => GivenAsTyped
<1> DEFINE AsTyped == /\ given'.chain # given.chain => given'.chain = Bytes(typed.chain)
                      /\ given'.key # given.key => given'.key = Bytes(typed.key)
<1>1. CertInv /\ [Next]_vars => [AsTyped]_vars
  <2> SUFFICES ASSUME CertInv, Next PROVE AsTyped
    OBVIOUS
  <2>1. /\ chain \in Decoder /\ key \in Decoder /\ given \in [Kinds -> Nat]
        /\ Bytes(chain.chars) <= chain.room /\ Bytes(key.chars) <= key.room
    BY TypeParts DEF CertInv
  <2>2. CASE ChainCommit
    <3>1. given'.chain = TotalOut(chain) /\ given'.key = given.key /\ chain.open
      BY <2>1, <2>2, KindsAre DEF ChainCommit
    <3>2. TotalOut(chain) = Bytes(typed.chain)
      BY <2>1, <3>1, TotalOutIsBytes DEF CertInv, DecodersAsTyped
    <3> QED
      BY <3>1, <3>2
  <2>3. CASE KeyCommit /\ KeyComplete
    <3>1. given'.key = TotalOut(key) /\ given'.chain = given.chain /\ key.open
      BY <2>1, <2>3, KindsAre DEF KeyCommit, KeyComplete
    <3>2. TotalOut(key) = Bytes(typed.key)
      BY <2>1, <3>1, TotalOutIsBytes DEF CertInv, DecodersAsTyped
    <3> QED
      BY <3>1, <3>2
  <2>4. CASE given' = given
    BY <2>4
  <2> QED
    BY <2>2, <2>3, <2>4 DEF Next, ChainStart, ChainWrite, ChainWriteFails, KeyStart, KeyWrite,
       KeyWriteFails, KeyCommit
<1> QED
  BY <1>1, CertInvAlways, PTL DEF Spec, GivenAsTyped
=============================================================================
