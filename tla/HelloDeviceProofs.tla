--------------------------- MODULE HelloDeviceProofs ---------------------------
(* Theorems about the firmware transfer (DfuTransfer), for any number of     *)
(* files, slots, blocks and transfers and for any queue size, and about the  *)
(* hello device (HelloDevice): its steps are steps of the firmware transfer, *)
(* so what is proved of that holds of the device; its link mask comes back   *)
(* after a restart; and the image it keeps works.                            *)
EXTENDS HelloDevice, WellFoundedInduction, TLAPS

-----------------------------------------------------------------------------
(* The table of scratch buffers.                                           *)

\* A set of slots that is not empty has a first one.
LEMMA FirstIsIn ==
  ASSUME NEW slots, slots \subseteq Slots, slots # {}
  PROVE  First(slots) \in slots
<1> DEFINE less == {p \in Nat \X Nat : p[1] < p[2]}
<1>1. IsWellFoundedOn(less, Nat)
  BY NatLessThanWellFounded DEF OpToRel
<1>2. slots \subseteq Nat
  BY ScratchAssumption DEF Slots
<1>3. PICK s \in slots : \A t \in slots : ~(<<t, s>> \in less)
  BY <1>1, <1>2, WFMin
<1>4. ASSUME NEW t \in slots
      PROVE  s <= t
  <2>1. t \in Nat /\ s \in Nat /\ <<t, s>> \in Nat \X Nat
    BY <1>2
  <2>2. ~(t < s)
    BY <1>3, <2>1
  <2> QED
    BY <2>1, <2>2
<1> QED
  BY <1>3, <1>4 DEF First

\* Creating a buffer for a file leaves the slots of other files alone.
LEMMA CreatedSlots ==
  ASSUME files \in [Slots -> FileCtx], NEW f \in FileIds, Created(f)
  PROVE  /\ files' \in [Slots -> FileCtx]
         /\ SlotsOf(f) = {}
         /\ \E s \in Slots : SlotsOf(f)' = {s} /\ files'[s].buffer
         /\ \A g \in FileIds \ {f} : SlotsOf(g)' = SlotsOf(g)
         /\ \A g \in FileIds \ {f} : \A s \in SlotsOf(g) : files'[s] = files[s]
<1> DEFINE new == First(SlotsOf(Unused))
<1>1. new \in Slots /\ files[new].id = Unused
  BY FirstIsIn DEF Created, CanCreate, SlotsOf
<1>2. files' = [files EXCEPT ![new] = [id |-> f, buffer |-> TRUE]]
  BY DEF Created
<1>3. files' \in [Slots -> FileCtx]
  BY <1>1, <1>2 DEF FileCtx
<1>4. \A s \in Slots : files'[s] = IF s = new THEN [id |-> f, buffer |-> TRUE] ELSE files[s]
  BY <1>1, <1>2
<1>5. SlotsOf(f) = {}
  BY DEF Created, CanCreate
<1>6. SlotsOf(f)' = {new} /\ files'[new].buffer
  <2>1. files'[new] = [id |-> f, buffer |-> TRUE]
    BY <1>1, <1>4
  <2>2. SlotsOf(f)' = {new}
    BY <1>1, <1>4, <1>5 DEF SlotsOf
  <2>3. files'[new].buffer
    BY <2>1
  <2> QED
    BY <2>2, <2>3
<1>7. \A g \in FileIds \ {f} : SlotsOf(g)' = SlotsOf(g)
  BY <1>1, <1>4, ScratchAssumption DEF SlotsOf
<1>8. \A g \in FileIds \ {f} : \A s \in SlotsOf(g) : files'[s] = files[s]
  BY <1>1, <1>4, ScratchAssumption DEF SlotsOf
<1> QED
  BY <1>1, <1>3, <1>5, <1>6, <1>7, <1>8

\* A file that is not given a buffer takes no other file's slot.
LEMMA NotCreatedSlots ==
  ASSUME files \in [Slots -> FileCtx], NEW f \in FileIds, NotCreated(f)
  PROVE  /\ files' \in [Slots -> FileCtx]
         /\ \A g \in FileIds : SlotsOf(g) # {} => SlotsOf(g)' = SlotsOf(g)
         /\ \A g \in FileIds : \A s \in SlotsOf(g) : files'[s] = files[s]
<1>1. CASE UNCHANGED files
  BY <1>1 DEF SlotsOf
<1>2. CASE ~UNCHANGED files
  <2> DEFINE new == First(SlotsOf(Unused))
  <2>1. CanCreate(f) /\ files' = [files EXCEPT ![new] = [id |-> f, buffer |-> FALSE]]
    BY <1>2 DEF NotCreated
  <2>2. new \in Slots /\ files[new].id = Unused
    BY <2>1, FirstIsIn DEF CanCreate, SlotsOf
  <2>3. \A s \in Slots : files'[s] = IF s = new THEN [id |-> f, buffer |-> FALSE] ELSE files[s]
    BY <2>1, <2>2
  <2>4. files' \in [Slots -> FileCtx]
    BY <2>1, <2>2 DEF FileCtx
  <2>5. SlotsOf(f) = {}
    BY <2>1 DEF CanCreate
  <2>6. \A g \in FileIds \ {f} : SlotsOf(g)' = SlotsOf(g)
    BY <2>2, <2>3, ScratchAssumption DEF SlotsOf
  <2>7. \A g \in FileIds : \A s \in SlotsOf(g) : files'[s] = files[s]
    BY <2>2, <2>3, ScratchAssumption DEF SlotsOf
  <2> QED
    BY <2>4, <2>5, <2>6, <2>7
<1> QED
  BY <1>1, <1>2

\* Removing a file's slot leaves the slots of other files alone.
LEMMA RemovedSlots ==
  ASSUME files \in [Slots -> FileCtx], NEW f \in FileIds, Removed(f)
  PROVE  /\ files' \in [Slots -> FileCtx]
         /\ \A g \in FileIds \ {f} : SlotsOf(g)' = SlotsOf(g)
         /\ \A g \in FileIds \ {f} : \A s \in SlotsOf(g) : files'[s] = files[s]
<1>1. CASE SlotsOf(f) = {}
  BY <1>1 DEF Removed, SlotsOf
<1>2. CASE SlotsOf(f) # {}
  <2> DEFINE old == First(SlotsOf(f))
  <2>1. files' = [files EXCEPT ![old] = [id |-> Unused, buffer |-> FALSE]]
    BY <1>2 DEF Removed
  <2>2. old \in Slots /\ files[old].id = f
    BY <1>2, FirstIsIn DEF SlotsOf
  <2>3. \A s \in Slots : files'[s] = IF s = old THEN [id |-> Unused, buffer |-> FALSE] ELSE files[s]
    BY <2>1, <2>2
  <2>4. files' \in [Slots -> FileCtx]
    BY <2>1, <2>2 DEF FileCtx
  <2> QED
    BY <2>2, <2>3, <2>4, ScratchAssumption DEF SlotsOf
<1> QED
  BY <1>1, <1>2

LEMMA ForgottenType ==
  ASSUME files \in [Slots -> FileCtx]
  PROVE  Forgotten \in [Slots -> FileCtx] /\ NoFiles \in [Slots -> FileCtx]
BY DEF Forgotten, NoFiles, FileCtx

-----------------------------------------------------------------------------
(* The inductive invariant.                                                *)

Transfer == [file : FileIds, sent : 0..Blocks, state : States]

\* The transfer that is under way is the last one the stack has begun.
OpenIsLast == \A n \in Open : n = Len(transfers)

\* Blocks that wait to be written are of transfers that have begun, and those
\* of an earlier transfer are ahead of those of a later one.
BlocksInOrder ==
  /\ \A i \in DOMAIN queue : queue[i] \notin Others => queue[i].transfer <= Len(transfers)
  /\ \A i, j \in DOMAIN queue :
       i < j /\ queue[i] \notin Others /\ queue[j] \notin Others
         => queue[i].transfer <= queue[j].transfer

\* A block that was sent and is not lent any more is in the image, and no block
\* of an earlier transfer is left that could replace it.
SentIsWritten ==
  \A n \in Open : \A b \in 1..transfers[n].sent :
    image.open /\ [transfer |-> n, block |-> b] \notin lent =>
      /\ image.by[b] = n
      /\ \A i \in DOMAIN queue : queue[i] \notin Others => queue[i].transfer = n

DfuInv ==
  DfuTypeOK /\ OpenIsLast /\ BlocksInOrder /\ SentIsWritten /\ ScratchIsOwned /\ FinalizedIsWhole

-----------------------------------------------------------------------------
(* The transfers and the queue.                                            *)

LEMMA TransferIsType ==
  ASSUME transfers \in Seq(Transfer), NEW n \in DOMAIN transfers, NEW st \in States
  PROVE  /\ TransferIs(n, st) \in Seq(Transfer)
         /\ DOMAIN TransferIs(n, st) = DOMAIN transfers
         /\ Len(TransferIs(n, st)) = Len(transfers)
         /\ TransferIs(n, st)[n].state = st
         /\ TransferIs(n, st)[n].sent = transfers[n].sent
         /\ TransferIs(n, st)[n].file = transfers[n].file
         /\ \A m \in DOMAIN transfers : m # n => TransferIs(n, st)[m] = transfers[m]
<1>1. transfers[n] \in Transfer
  OBVIOUS
<1>2. [transfers[n] EXCEPT !.state = st] \in Transfer
  BY <1>1 DEF Transfer
<1>3. TransferIs(n, st) = [transfers EXCEPT ![n] = [transfers[n] EXCEPT !.state = st]]
  BY DEF TransferIs
<1> QED
  BY <1>1, <1>2, <1>3 DEF Transfer

LEMMA EventIsNoOther ==
  ASSUME NEW e \in Event \cup Others, e \notin Others
  PROVE  e \in Event /\ e.transfer \in Numbers /\ e.block \in BlockNos
BY DEF Event

LEMMA EventsAreBlocks == Event \cap Others = {}
BY DfuAssumption DEF Event, Numbers, BlockNos

LEMMA QueueAppended ==
  ASSUME queue \in Seq(Event \cup Others), Len(queue) <= QueueSize, HasRoom,
         NEW e \in Event \cup Others
  PROVE  /\ Append(queue, e) \in Seq(Event \cup Others)
         /\ Len(Append(queue, e)) <= QueueSize
         /\ DOMAIN Append(queue, e) = DOMAIN queue \cup {Len(queue) + 1}
         /\ \A i \in DOMAIN queue : Append(queue, e)[i] = queue[i]
         /\ Append(queue, e)[Len(queue) + 1] = e
<1>1. QueueSize \in Nat /\ Len(queue) < QueueSize
  BY DfuAssumption DEF HasRoom
<1> QED
  BY <1>1

LEMMA QueueTaken ==
  ASSUME queue \in Seq(Event \cup Others), Len(queue) <= QueueSize, queue # <<>>
  PROVE  /\ Head(queue) \in Event \cup Others
         /\ 1 \in DOMAIN queue /\ Head(queue) = queue[1]
         /\ Tail(queue) \in Seq(Event \cup Others)
         /\ Len(Tail(queue)) <= QueueSize
         /\ \A i \in DOMAIN Tail(queue) : i + 1 \in DOMAIN queue /\ Tail(queue)[i] = queue[i + 1]
<1>1. QueueSize \in Nat
  BY DfuAssumption
<1> QED
  BY <1>1

-----------------------------------------------------------------------------
(* What the kinds of step do to the parts of the invariant.                *)

LEMMA NoneOpen ==
  ASSUME Open' = {}
  PROVE  OpenIsLast' /\ SentIsWritten'
BY DEF OpenIsLast, SentIsWritten

LEMMA ClosingLeavesNone ==
  ASSUME DfuInv, NEW n \in Open, NEW st \in States \ {"open"}, transfers' = TransferIs(n, st)
  PROVE  Open' = {}
<1>1. transfers \in Seq(Transfer) /\ n \in DOMAIN transfers
  BY DEF DfuInv, DfuTypeOK, Transfer, Open
<1>2. \A m \in Open : m = n
  BY DEF DfuInv, OpenIsLast
<1>3. /\ DOMAIN transfers' = DOMAIN transfers
      /\ transfers'[n].state = st
      /\ \A m \in DOMAIN transfers : m # n => transfers'[m] = transfers[m]
  BY <1>1, TransferIsType
<1> QED
  BY <1>2, <1>3 DEF Open

LEMMA OrderKept ==
  ASSUME DfuInv, queue' = queue, Len(transfers') \in Nat, Len(transfers) <= Len(transfers')
  PROVE  BlocksInOrder'
<1>1. \A i \in DOMAIN queue : queue[i] \notin Others => queue[i].transfer \in Nat
  BY EventIsNoOther, DfuAssumption DEF DfuInv, DfuTypeOK, Numbers
<1>2. Len(transfers) \in Nat
  BY DEF DfuInv, DfuTypeOK
<1> QED
  BY <1>1, <1>2 DEF DfuInv, BlocksInOrder

LEMMA OrderTaken ==
  ASSUME DfuInv, queue # <<>>, queue' = Tail(queue), Len(transfers') = Len(transfers)
  PROVE  BlocksInOrder'
<1>1. \A i \in DOMAIN queue' : i + 1 \in DOMAIN queue /\ queue'[i] = queue[i + 1] /\ i \in Nat
  BY QueueTaken DEF DfuInv, DfuTypeOK
<1> QED
  BY <1>1 DEF DfuInv, BlocksInOrder

LEMMA OrderAppended ==
  ASSUME DfuInv, HasRoom, Len(transfers') = Len(transfers), NEW e \in Event \cup Others,
         queue' = Append(queue, e), e \notin Others => e.transfer = Len(transfers)
  PROVE  BlocksInOrder'
<1>1. queue \in Seq(Event \cup Others) /\ Len(queue) <= QueueSize
  BY DEF DfuInv, DfuTypeOK
<1>2. /\ DOMAIN queue' = DOMAIN queue \cup {Len(queue) + 1}
      /\ \A i \in DOMAIN queue : queue'[i] = queue[i]
      /\ queue'[Len(queue) + 1] = e
  BY <1>1, QueueAppended
<1>3. \A i \in DOMAIN queue : i \in Nat /\ i < Len(queue) + 1
  BY <1>1
<1>4. Len(transfers) \in Nat
  BY DEF DfuInv, DfuTypeOK
<1>5. \A i \in DOMAIN queue' : queue'[i] \notin Others => queue'[i].transfer <= Len(transfers)
  BY <1>2, <1>4 DEF DfuInv, BlocksInOrder
<1>6. ASSUME NEW i \in DOMAIN queue', NEW j \in DOMAIN queue',
             i < j, queue'[i] \notin Others, queue'[j] \notin Others
      PROVE  queue'[i].transfer <= queue'[j].transfer
  <2>1. i \in DOMAIN queue
    BY <1>1, <1>2, <1>3, <1>6
  <2>2. CASE j \in DOMAIN queue
    BY <1>2, <1>6, <2>1, <2>2 DEF DfuInv, BlocksInOrder
  <2>3. CASE j = Len(queue) + 1
    BY <1>2, <1>5, <1>6, <2>3
  <2> QED
    BY <1>2, <2>2, <2>3
<1> QED
  BY <1>5, <1>6 DEF BlocksInOrder

LEMMA OwnedKept ==
  ASSUME ScratchIsOwned, files' = files, DOMAIN transfers' = DOMAIN transfers,
         \A m \in DOMAIN transfers :
           /\ transfers'[m].file = transfers[m].file
           /\ transfers'[m].state # "over" => transfers[m].state # "over"
  PROVE  ScratchIsOwned'
<1>1. \A f : SlotsOf(f)' = SlotsOf(f)
  BY DEF SlotsOf
<1> QED
  BY <1>1 DEF ScratchIsOwned

LEMMA NothingOwned ==
  ASSUME \A m \in DOMAIN transfers' : transfers'[m].state = "over"
  PROVE  ScratchIsOwned' /\ Open' = {}
BY DEF ScratchIsOwned, Open

-----------------------------------------------------------------------------
(* Types of what a step assigns.                                           *)

Image == [open : BOOLEAN, by : [BlockNos -> Numbers \cup {None}]]

LEMMA TypeParts ==
  ASSUME DfuTypeOK
  PROVE  /\ files \in [Slots -> FileCtx]
         /\ transfers \in Seq(Transfer) /\ Len(transfers) <= MaxTransferNo
         /\ lent \subseteq Event /\ strays \subseteq Event /\ image \in Image
         /\ queue \in Seq(Event \cup Others) /\ Len(queue) <= QueueSize
         /\ Len(transfers) \in Nat /\ DOMAIN transfers = 1..Len(transfers)
         /\ DOMAIN transfers \subseteq Numbers
BY DfuAssumption DEF DfuTypeOK, Transfer, Image, Numbers

LEMMA CancelledType ==
  ASSUME image \in Image
  PROVE  Cancelled \in Image /\ ~Cancelled.open /\ Cancelled.by = image.by
BY DEF Image, Cancelled

LEMMA NoImageType == NoImage \in Image /\ [NoImage EXCEPT !.open = TRUE] \in Image
BY DEF Image, NoImage

LEMMA BootQueueType ==
  /\ BootQueue \in Seq(Event \cup Others) /\ Len(BootQueue) <= QueueSize
  /\ \A i \in DOMAIN BootQueue : BootQueue[i] \in Others
BY DfuAssumption

LEMMA TransferFields ==
  ASSUME DfuTypeOK, NEW n \in DOMAIN transfers
  PROVE  /\ n \in Numbers /\ transfers[n] \in Transfer
         /\ transfers[n].file \in FileIds /\ transfers[n].sent \in 0..Blocks
         /\ transfers[n].state \in States
<1>1. n \in Numbers /\ transfers[n] \in Transfer
  BY TypeParts
<1> QED
  BY <1>1 DEF Transfer

LEMMA NextBlockType ==
  ASSUME DfuTypeOK, NEW n \in Open, transfers[n].sent < Blocks
  PROVE  NextBlock(n) \in Event /\ NextBlock(n).transfer = n
<1>1. n \in Numbers /\ transfers[n].sent \in 0..Blocks
  BY TransferFields DEF Open
<1> QED
  BY <1>1, DfuAssumption DEF NextBlock, Event, BlockNos, Numbers

-----------------------------------------------------------------------------
(* The steps.                                                              *)

LEMMA InitDfuInv == DfuInit => DfuInv
<1> SUFFICES ASSUME DfuInit PROVE DfuInv
  OBVIOUS
<1>1. DfuTypeOK
  <2>1. files \in [Slots -> FileCtx]
    BY DEF DfuInit, NoFiles, FileCtx
  <2>2. image \in Image
    BY NoImageType DEF DfuInit
  <2> QED
    BY <2>1, <2>2, BootQueueType, DfuAssumption DEF DfuInit, DfuTypeOK, Image
<1>2. Open = {}
  BY DEF DfuInit, Open
<1>3. BlocksInOrder
  BY BootQueueType DEF DfuInit, BlocksInOrder
<1> QED
  BY <1>1, <1>2, <1>3 DEF DfuInit, DfuInv, OpenIsLast, SentIsWritten, ScratchIsOwned, FinalizedIsWhole

LEMMA TransferAcceptedInv ==
  ASSUME DfuInv, NEW f \in FileIds, TransferAccepted(f)
  PROVE  DfuInv'
<1> DEFINE new == [file |-> f, sent |-> 0, state |-> "open"]
<1>1. DfuTypeOK /\ Open = {} /\ Len(transfers) < MaxTransferNo
  BY DEF DfuInv, TransferAccepted
<1>2. new \in Transfer /\ transfers' = Append(transfers, new)
  BY DfuAssumption DEF Transfer, States, TransferAccepted
<1>3. /\ transfers' \in Seq(Transfer)
      /\ Len(transfers') = Len(transfers) + 1
      /\ DOMAIN transfers' = DOMAIN transfers \cup {Len(transfers')}
      /\ \A m \in DOMAIN transfers : transfers'[m] = transfers[m] /\ m # Len(transfers')
      /\ transfers'[Len(transfers')] = new
  BY <1>1, <1>2, TypeParts
<1>4. Open' = {Len(transfers')}
  BY <1>1, <1>3 DEF Open
<1>5. Created(f) /\ files \in [Slots -> FileCtx]
  BY <1>1, TypeParts DEF TransferAccepted
<1>6. DfuTypeOK'
  <2>1. files' \in [Slots -> FileCtx]
    BY <1>5, CreatedSlots
  <2>2. image' \in Image
    BY NoImageType DEF TransferAccepted
  <2>3. Len(transfers') <= MaxTransferNo
    BY <1>1, <1>3, TypeParts, DfuAssumption
  <2> QED
    BY <1>1, <1>3, <2>1, <2>2, <2>3 DEF TransferAccepted, blockVars, DfuTypeOK, Transfer, Image
<1>7. OpenIsLast' /\ SentIsWritten'
  <2>1. transfers'[Len(transfers')].sent = 0
    BY <1>3
  <2> QED
    BY <1>4, <2>1 DEF OpenIsLast, SentIsWritten
<1>8. BlocksInOrder'
  BY <1>1, <1>3, TypeParts, OrderKept DEF TransferAccepted
<1>9. ScratchIsOwned'
  <2>1. \A m \in DOMAIN transfers : transfers[m].file \in FileIds
    BY <1>1, TransferFields
  <2>2. \A m \in DOMAIN transfers : transfers[m].state # "over" => transfers[m].file # f
    BY <1>5, CreatedSlots DEF DfuInv, ScratchIsOwned
  <2>3. ASSUME NEW m \in DOMAIN transfers', transfers'[m].state # "over",
               NEW g, g = transfers'[m].file
        PROVE  \E s \in Slots : SlotsOf(g)' = {s} /\ files'[s].buffer
    <3>1. CASE m = Len(transfers')
      BY <1>3, <1>5, <2>3, <3>1, CreatedSlots
    <3>2. CASE m \in DOMAIN transfers
      <4>1. g = transfers[m].file /\ transfers[m].state # "over"
        BY <1>3, <2>3, <3>2
      <4>2. PICK s \in Slots : SlotsOf(g) = {s} /\ files[s].buffer
        BY <3>2, <4>1 DEF DfuInv, ScratchIsOwned
      <4>3. g \in FileIds \ {f}
        BY <2>1, <2>2, <3>2, <4>1
      <4>4. SlotsOf(g)' = SlotsOf(g) /\ files'[s] = files[s]
        BY <1>5, <4>2, <4>3, CreatedSlots
      <4> QED
        BY <4>2, <4>4
    <3> QED
      BY <1>3, <2>3, <3>1, <3>2
  <2>4. ASSUME NEW m \in DOMAIN transfers', NEW n \in DOMAIN transfers',
               transfers'[n].state # "over", transfers'[m].state # "over",
               transfers'[m].file = transfers'[n].file
        PROVE  m = n
    <3>1. CASE m \in DOMAIN transfers /\ n \in DOMAIN transfers
      BY <1>3, <2>4, <3>1 DEF DfuInv, ScratchIsOwned
    <3>2. CASE m = Len(transfers') /\ n \in DOMAIN transfers
      BY <1>3, <2>2, <2>4, <3>2
    <3>3. CASE n = Len(transfers') /\ m \in DOMAIN transfers
      BY <1>3, <2>2, <2>4, <3>3
    <3> QED
      BY <1>3, <2>4, <3>1, <3>2, <3>3
  <2> QED
    BY <2>3, <2>4 DEF ScratchIsOwned
<1> QED
  BY <1>6, <1>7, <1>8, <1>9 DEF DfuInv, FinalizedIsWhole, TransferAccepted

LEMMA TransferRejectedInv ==
  ASSUME DfuInv, NEW f \in FileIds, TransferRejected(f)
  PROVE  DfuInv'
<1>1. DfuTypeOK /\ Open = {} /\ transfers' = transfers /\ queue' = queue
  BY DEF DfuInv, TransferRejected
<1>2. files \in [Slots -> FileCtx] /\ (files' = files \/ NotCreated(f))
  BY <1>1, TypeParts DEF TransferRejected
<1>3. DfuTypeOK'
  <2>1. files' \in [Slots -> FileCtx]
    BY <1>2, NotCreatedSlots
  <2>2. image' \in Image
    BY <1>1, TypeParts, NoImageType DEF TransferRejected
  <2> QED
    BY <1>1, <2>1, <2>2 DEF TransferRejected, blockVars, DfuTypeOK, Image
<1>4. OpenIsLast' /\ SentIsWritten'
  BY <1>1, NoneOpen DEF Open
<1>5. BlocksInOrder'
  BY <1>1, TypeParts, OrderKept
<1>6. ScratchIsOwned'
  <2>1. ASSUME NEW m \in DOMAIN transfers, transfers[m].state # "over",
               NEW g, g = transfers[m].file
        PROVE  \E s \in Slots : SlotsOf(g)' = {s} /\ files'[s].buffer
    <3>1. PICK s \in Slots : SlotsOf(g) = {s} /\ files[s].buffer
      BY <2>1 DEF DfuInv, ScratchIsOwned
    <3>2. g \in FileIds
      BY <1>1, <2>1, TransferFields
    <3>3. SlotsOf(g)' = SlotsOf(g) /\ files'[s] = files[s]
      <4>1. CASE files' = files
        BY <4>1 DEF SlotsOf
      <4>2. CASE NotCreated(f)
        BY <1>2, <3>1, <3>2, <4>2, NotCreatedSlots
      <4> QED
        BY <1>2, <4>1, <4>2
    <3> QED
      BY <3>1, <3>3
  <2> QED
    BY <1>1, <2>1 DEF DfuInv, ScratchIsOwned
<1> QED
  BY <1>3, <1>4, <1>5, <1>6 DEF DfuInv, FinalizedIsWhole, TransferRejected

\* The stack lends the next block, which goes on the queue or not: it is lent
\* when it is sent, so what is in the image stays all that was sent before.
LEMMA BlockSentInv ==
  ASSUME DfuInv, NEW n \in DOMAIN transfers, HasNextBlock(n),
         transfers' = BlockSent(n), lent' = lent \cup {NextBlock(n)},
         strays' \subseteq strays \cup {NextBlock(n)}, image' \in {image, Cancelled},
         queue' = queue \/ (HasRoom /\ queue' = Append(queue, NextBlock(n))),
         UNCHANGED <<files, finalized>>
  PROVE  DfuInv'
<1> DEFINE e == NextBlock(n)
<1>1. DfuTypeOK /\ n \in Open /\ transfers[n].sent < Blocks
  BY DEF DfuInv, HasNextBlock
<1>2. n = Len(transfers) /\ \A m \in Open : m = n
  BY <1>1 DEF DfuInv, OpenIsLast
<1>3. e \in Event /\ e.transfer = n /\ e.block = transfers[n].sent + 1 /\ e \notin Others
  BY <1>1, NextBlockType, EventsAreBlocks DEF NextBlock
<1>4. transfers' = [transfers EXCEPT ![n] = [transfers[n] EXCEPT !.sent = transfers[n].sent + 1]]
  BY DEF BlockSent
<1>5. [transfers[n] EXCEPT !.sent = transfers[n].sent + 1] \in Transfer
  BY <1>1, TransferFields, DfuAssumption DEF Transfer
<1>6. /\ transfers' \in Seq(Transfer) /\ DOMAIN transfers' = DOMAIN transfers
      /\ Len(transfers') = Len(transfers)
      /\ \A m \in DOMAIN transfers :
           transfers'[m].file = transfers[m].file /\ transfers'[m].state = transfers[m].state
      /\ transfers'[n].sent = transfers[n].sent + 1
  BY <1>1, <1>4, <1>5, TransferFields, TypeParts DEF Transfer
<1>7. /\ queue' \in Seq(Event \cup Others) /\ Len(queue') <= QueueSize
      /\ \A i \in DOMAIN queue' :
           \/ queue'[i] = e
           \/ i \in DOMAIN queue /\ queue'[i] = queue[i]
  <2>1. queue \in Seq(Event \cup Others) /\ Len(queue) <= QueueSize
    BY <1>1, TypeParts
  <2>2. CASE queue' = queue
    BY <2>1, <2>2
  <2>3. CASE HasRoom /\ queue' = Append(queue, e)
    BY <1>3, <2>1, <2>3, QueueAppended
  <2> QED
    BY <2>2, <2>3
<1>8. image' \in Image /\ (image'.open => image.open /\ image'.by = image.by)
  BY <1>1, TypeParts, CancelledType
<1>9. DfuTypeOK'
  BY <1>1, <1>3, <1>6, <1>7, <1>8, TypeParts DEF DfuTypeOK, Transfer, Image
<1>10. Open' = Open
  BY <1>6 DEF Open
<1>11. OpenIsLast'
  BY <1>6, <1>10 DEF DfuInv, OpenIsLast
<1>12. BlocksInOrder'
  <2>1. CASE queue' = queue
    BY <1>1, <1>6, <2>1, TypeParts, OrderKept
  <2>2. CASE HasRoom /\ queue' = Append(queue, e)
    BY <1>2, <1>3, <1>6, <2>2, OrderAppended
  <2> QED
    BY <2>1, <2>2
<1>13. SentIsWritten'
  <2>1. ASSUME NEW b \in 1..transfers'[n].sent, image'.open,
               [transfer |-> n, block |-> b] \notin lent'
        PROVE  /\ image'.by[b] = n
               /\ \A i \in DOMAIN queue' : queue'[i] \notin Others => queue'[i].transfer = n
    <3>1. transfers[n].sent \in Nat
      BY <1>1, TransferFields, DfuAssumption
    <3>2. e = [transfer |-> n, block |-> transfers[n].sent + 1]
      BY DEF NextBlock
    <3>3. b \in 1..transfers[n].sent /\ [transfer |-> n, block |-> b] \notin lent
      BY <1>6, <2>1, <3>1, <3>2
    <3>4. image.by[b] = n
          /\ \A i \in DOMAIN queue : queue[i] \notin Others => queue[i].transfer = n
      BY <1>1, <1>8, <2>1, <3>3 DEF DfuInv, SentIsWritten
    <3> QED
      BY <1>3, <1>7, <1>8, <2>1, <3>4
  <2> QED
    BY <1>2, <1>10, <2>1 DEF SentIsWritten
<1>14. ScratchIsOwned'
  BY <1>6, OwnedKept DEF DfuInv
<1> QED
  BY <1>9, <1>11, <1>12, <1>13, <1>14 DEF DfuInv, FinalizedIsWhole

LEMMA DataQueuedInv ==
  ASSUME DfuInv, NEW n \in DOMAIN transfers, DataQueued(n)
  PROVE  DfuInv'
BY BlockSentInv DEF DataQueued

\* The steps that end the transfer under way: no room, DFU mode, a cancel.
LEMMA CancelledInv ==
  ASSUME DfuInv, NEW n \in Open, transfers' = TransferIs(n, "cancelled"),
         lent' \subseteq lent, strays' \subseteq strays, image' \in {image, Cancelled},
         UNCHANGED <<files, finalized, queue>>
  PROVE  DfuInv'
<1>1. DfuTypeOK /\ transfers \in Seq(Transfer) /\ n \in DOMAIN transfers
  BY TypeParts DEF DfuInv, Open
<1>2. "cancelled" \in States \ {"open"}
  BY DEF States
<1>3. /\ transfers' \in Seq(Transfer) /\ DOMAIN transfers' = DOMAIN transfers
      /\ Len(transfers') = Len(transfers)
      /\ transfers'[n].state = "cancelled" /\ transfers'[n].file = transfers[n].file
      /\ \A m \in DOMAIN transfers : m # n => transfers'[m] = transfers[m]
  BY <1>1, <1>2, TransferIsType
<1>4. DfuTypeOK'
  <2>1. image' \in Image
    BY <1>1, TypeParts, CancelledType
  <2> QED
    BY <1>1, <1>3, <2>1, TypeParts DEF DfuTypeOK, Transfer, Image
<1>5. OpenIsLast' /\ SentIsWritten'
  BY <1>2, ClosingLeavesNone, NoneOpen
<1>6. BlocksInOrder'
  BY <1>1, <1>3, TypeParts, OrderKept
<1>7. ScratchIsOwned'
  <2>1. transfers[n].state # "over"
    BY DEF Open
  <2> QED
    BY <1>3, <2>1, OwnedKept DEF DfuInv
<1> QED
  BY <1>4, <1>5, <1>6, <1>7 DEF DfuInv, FinalizedIsWhole

\* A block for which there is no event is left behind, or ends the transfer.
LEMMA NoEventInv ==
  ASSUME DfuInv, NEW n \in DOMAIN transfers, HasNextBlock(n), Ended(n) \/ LeftBehind(n),
         image' \in {image, Cancelled}, UNCHANGED <<files, finalized, queue>>
  PROVE  DfuInv'
<1>1. CASE Ended(n)
  BY <1>1, CancelledInv DEF Ended, HasNextBlock
<1>2. CASE LeftBehind(n)
  BY <1>2, BlockSentInv DEF LeftBehind
<1> QED
  BY <1>1, <1>2

LEMMA EndsInv ==
  ASSUME DfuInv, NEW n \in DOMAIN transfers,
         DataNotAllocated(n) \/ DataFindsNoRoom(n) \/ DataInDfuMode(n) \/ TransferEnds(n)
  PROVE  DfuInv'
<1>1. CASE DataNotAllocated(n)
  BY <1>1, NoEventInv DEF DataNotAllocated
<1>2. CASE DataFindsNoRoom(n)
  BY <1>2, NoEventInv DEF DataFindsNoRoom, BlockRefused
<1>3. CASE DataInDfuMode(n)
  BY <1>3, NoEventInv DEF DataInDfuMode
<1>4. CASE TransferEnds(n)
  BY <1>4, CancelledInv DEF TransferEnds, Ended
<1> QED
  BY <1>1, <1>2, <1>3, <1>4

LEMMA FinalizeInv ==
  ASSUME DfuInv, NEW n \in DOMAIN transfers, Finalize(n)
  PROVE  DfuInv'
<1>1. /\ DfuTypeOK /\ transfers \in Seq(Transfer)
      /\ n \in Open /\ transfers[n].sent = Blocks /\ LentBy(n) = {}
      /\ transfers' \in {transfers, TransferIs(n, "done")} /\ image' = Cancelled
      /\ UNCHANGED <<files, lent, strays>>
  BY TypeParts DEF DfuInv, Finalize, blockVars
<1>2. "done" \in States \ {"open"}
  BY DEF States
<1>3. /\ transfers' \in Seq(Transfer) /\ DOMAIN transfers' = DOMAIN transfers
      /\ Len(transfers') = Len(transfers)
      /\ transfers'[n].state \in {"open", "done"} /\ transfers'[n].file = transfers[n].file
      /\ \A m \in DOMAIN transfers : m # n => transfers'[m] = transfers[m]
  <2>1. transfers[n].state = "open"
    BY <1>1 DEF Open
  <2> QED
    BY <1>1, <1>2, <2>1, TransferIsType
<1>4. /\ queue' \in Seq(Event \cup Others) /\ Len(queue') <= QueueSize
      /\ BlocksInOrder'
  <2>1. CASE HasRoom
    <3>1. queue' = Append(queue, Reboot) /\ Reboot \in Event \cup Others /\ Reboot \in Others
      BY <2>1, DfuAssumption DEF Finalize
    <3> QED
      BY <1>1, <1>3, <2>1, <3>1, TypeParts, QueueAppended, OrderAppended
  <2>2. CASE ~HasRoom
    <3>1. queue' = queue
      BY <2>2 DEF Finalize
    <3> QED
      BY <1>1, <1>3, <3>1, TypeParts, OrderKept
  <2> QED
    BY <2>1, <2>2
<1>5. \/ finalized' = finalized
      \/ image.open /\ finalized' = finalized \cup {[transfer |-> n, by |-> image.by]}
  BY DEF Finalize
<1>6. n \in Numbers /\ image \in Image /\ image.by \in [BlockNos -> Numbers \cup {None}]
  BY <1>1, TypeParts DEF Image
<1>7. DfuTypeOK'
  <2>1. image' \in Image
    BY <1>1, TypeParts, CancelledType
  <2>2. finalized' \subseteq [transfer : Numbers, by : [BlockNos -> Numbers \cup {None}]]
    BY <1>1, <1>5, <1>6 DEF DfuTypeOK
  <2> QED
    BY <1>1, <1>3, <1>4, <2>1, <2>2, TypeParts DEF DfuTypeOK, Transfer, Image
<1>8. OpenIsLast' /\ SentIsWritten'
  <2>1. Open' \subseteq Open
    BY <1>1, <1>3 DEF Open
  <2>2. ~image'.open
    BY <1>1, TypeParts, CancelledType
  <2> QED
    BY <1>3, <2>1, <2>2 DEF DfuInv, OpenIsLast, SentIsWritten
<1>9. ScratchIsOwned'
  <2>1. transfers[n].state # "over"
    BY <1>1 DEF Open
  <2> QED
    BY <1>1, <1>3, <2>1, OwnedKept DEF DfuInv
<1>10. FinalizedIsWhole'
  <2>1. ASSUME image.open, NEW b \in BlockNos
        PROVE  image.by[b] = n
    <3>1. [transfer |-> n, block |-> b] \notin lent
      BY <1>1 DEF LentBy
    <3>2. b \in 1..transfers[n].sent
      BY <1>1, <2>1 DEF BlockNos
    <3> QED
      BY <1>1, <2>1, <3>1, <3>2 DEF DfuInv, SentIsWritten
  <2> QED
    BY <1>5, <2>1 DEF DfuInv, FinalizedIsWhole
<1> QED
  BY <1>4, <1>7, <1>8, <1>9, <1>10 DEF DfuInv

LEMMA ReleaseScratchInv ==
  ASSUME DfuInv, NEW n \in DOMAIN transfers, ReleaseScratch(n)
  PROVE  DfuInv'
<1> DEFINE f == transfers[n].file
<1>1. /\ DfuTypeOK /\ transfers \in Seq(Transfer)
      /\ transfers[n].state \in {"cancelled", "done"}
      /\ transfers' = TransferIs(n, "over") /\ Removed(f)
      /\ UNCHANGED <<lent, strays, image, finalized, queue>>
  BY TypeParts DEF DfuInv, ReleaseScratch, blockVars
<1>2. "over" \in States
  BY DEF States
<1>3. /\ transfers' \in Seq(Transfer) /\ DOMAIN transfers' = DOMAIN transfers
      /\ Len(transfers') = Len(transfers)
      /\ transfers'[n].state = "over"
      /\ \A m \in DOMAIN transfers : m # n => transfers'[m] = transfers[m]
  BY <1>1, <1>2, TransferIsType
<1>4. f \in FileIds /\ files \in [Slots -> FileCtx]
  BY <1>1, TransferFields, TypeParts
<1>5. /\ files' \in [Slots -> FileCtx]
      /\ \A g \in FileIds \ {f} : SlotsOf(g)' = SlotsOf(g)
      /\ \A g \in FileIds \ {f} : \A s \in SlotsOf(g) : files'[s] = files[s]
  BY <1>1, <1>4, RemovedSlots
<1>6. DfuTypeOK'
  BY <1>1, <1>3, <1>5, TypeParts DEF DfuTypeOK, Transfer, Image
<1>7. Open' = Open /\ n \notin Open
  BY <1>1, <1>3 DEF Open
<1>8. \A m \in Open : m \in DOMAIN transfers /\ transfers'[m] = transfers[m]
  BY <1>3, <1>7 DEF Open
<1>9. OpenIsLast'
  BY <1>3, <1>7 DEF DfuInv, OpenIsLast
<1>10. SentIsWritten'
  BY <1>1, <1>7, <1>8 DEF DfuInv, SentIsWritten
<1>11. BlocksInOrder'
  BY <1>1, <1>3, TypeParts, OrderKept
<1>12. ScratchIsOwned'
  <2>1. ASSUME NEW m \in DOMAIN transfers', transfers'[m].state # "over"
        PROVE  m \in DOMAIN transfers /\ m # n /\ transfers'[m] = transfers[m]
               /\ transfers[m].state # "over" /\ transfers[m].file \in FileIds \ {f}
    <3>1. m \in DOMAIN transfers /\ m # n /\ transfers'[m] = transfers[m]
      BY <1>3, <2>1
    <3>2. transfers[m].state # "over" /\ transfers[m].file # f
      BY <1>1, <2>1, <3>1 DEF DfuInv, ScratchIsOwned
    <3> QED
      BY <1>1, <3>1, <3>2, TransferFields
  <2>2. ASSUME NEW m \in DOMAIN transfers', transfers'[m].state # "over",
               NEW g, g = transfers'[m].file
        PROVE  \E s \in Slots : SlotsOf(g)' = {s} /\ files'[s].buffer
    <3>1. m \in DOMAIN transfers /\ g = transfers[m].file /\ g \in FileIds \ {f}
          /\ transfers[m].state # "over"
      BY <2>1, <2>2
    <3>2. PICK s \in Slots : SlotsOf(g) = {s} /\ files[s].buffer
      BY <3>1 DEF DfuInv, ScratchIsOwned
    <3> QED
      BY <1>5, <3>1, <3>2
  <2>3. ASSUME NEW m \in DOMAIN transfers', NEW k \in DOMAIN transfers',
               transfers'[k].state # "over", transfers'[m].state # "over",
               transfers'[m].file = transfers'[k].file
        PROVE  m = k
    <3>1. /\ m \in DOMAIN transfers /\ transfers'[m] = transfers[m]
          /\ k \in DOMAIN transfers /\ transfers'[k] = transfers[k]
      BY <2>1, <2>3
    <3> QED
      BY <2>3, <3>1 DEF DfuInv, ScratchIsOwned
  <2> QED
    BY <2>2, <2>3 DEF ScratchIsOwned
<1> QED
  BY <1>1, <1>6, <1>9, <1>10, <1>11, <1>12 DEF DfuInv, FinalizedIsWhole

LEMMA WriteBlockInv ==
  ASSUME DfuInv, WriteBlock
  PROVE  DfuInv'
<1> DEFINE e == Head(queue)
<1>1. /\ DfuTypeOK /\ queue # <<>> /\ e \notin Others
      /\ queue' = Tail(queue) /\ image.open /\ lent' = lent \ {e}
      /\ UNCHANGED <<files, transfers, strays, finalized>>
  BY DEF DfuInv, WriteBlock, BlockReleased
<1>2. queue \in Seq(Event \cup Others) /\ Len(queue) <= QueueSize /\ image \in Image
  BY <1>1, TypeParts
<1>3. /\ e \in Event \cup Others
      /\ 1 \in DOMAIN queue /\ e = queue[1]
      /\ queue' \in Seq(Event \cup Others) /\ Len(queue') <= QueueSize
      /\ \A i \in DOMAIN queue' : i + 1 \in DOMAIN queue /\ queue'[i] = queue[i + 1]
  BY <1>1, <1>2, QueueTaken
<1>4. e \in Event /\ e.transfer \in Numbers /\ e.block \in BlockNos
  BY <1>1, <1>3, EventIsNoOther
<1>5. e = [transfer |-> e.transfer, block |-> e.block]
  BY <1>4 DEF Event
<1>6. /\ image' = [image EXCEPT !.by = [image.by EXCEPT ![e.block] = e.transfer]]
      /\ image.by \in [BlockNos -> Numbers \cup {None}]
  BY <1>2 DEF WriteBlock, Image
<1>7. /\ image' \in Image
      /\ \A b \in BlockNos : image'.by[b] = IF b = e.block THEN e.transfer ELSE image.by[b]
  BY <1>2, <1>4, <1>6 DEF Image
<1>8. DfuTypeOK'
  BY <1>1, <1>3, <1>7 DEF DfuTypeOK, Image
<1>9. Open' = Open /\ OpenIsLast'
  BY <1>1 DEF DfuInv, OpenIsLast, Open
<1>10. BlocksInOrder'
  BY <1>1, OrderTaken
<1>11. SentIsWritten'
  <2>1. ASSUME NEW n \in Open, NEW b \in 1..transfers[n].sent,
               [transfer |-> n, block |-> b] \notin lent'
        PROVE  /\ image'.by[b] = n
               /\ \A i \in DOMAIN queue' : queue'[i] \notin Others => queue'[i].transfer = n
    <3>1. b \in BlockNos
      <4>1. transfers[n].sent \in 0..Blocks
        BY <1>1, TransferFields DEF Open
      <4> QED
        BY <4>1, DfuAssumption DEF BlockNos
    <3>2. CASE [transfer |-> n, block |-> b] \notin lent
      <4>1. image.by[b] = n
            /\ \A i \in DOMAIN queue : queue[i] \notin Others => queue[i].transfer = n
        BY <1>1, <3>2 DEF DfuInv, SentIsWritten
      <4> QED
        BY <1>1, <1>3, <1>7, <3>1, <4>1
    <3>3. CASE [transfer |-> n, block |-> b] \in lent
      <4>1. [transfer |-> n, block |-> b] = e
        BY <1>1, <2>1, <3>3
      <4>2. e.transfer = n /\ e.block = b
        BY <4>1, <1>5
      <4>3. n = Len(transfers) /\ n \in Nat
        BY <1>1, TypeParts DEF DfuInv, OpenIsLast
      <4>4. ASSUME NEW i \in DOMAIN queue', queue'[i] \notin Others
            PROVE  queue'[i].transfer = n
        <5>1. i + 1 \in DOMAIN queue /\ queue'[i] = queue[i + 1] /\ 1 < i + 1
          BY <1>3
        <5>2. queue[i + 1].transfer \in Nat
          <6>1. queue[i + 1] \in Event \cup Others
            BY <1>2, <5>1
          <6> QED
            BY <4>4, <5>1, <6>1, EventIsNoOther, DfuAssumption DEF Numbers
        <5>3. queue[i + 1].transfer <= n /\ n <= queue[i + 1].transfer
          BY <1>1, <1>3, <4>2, <4>3, <4>4, <5>1 DEF DfuInv, BlocksInOrder
        <5> QED
          BY <4>3, <5>1, <5>2, <5>3
      <4> QED
        BY <1>7, <3>1, <4>2, <4>4
    <3> QED
      BY <3>2, <3>3
  <2> QED
    BY <1>1, <1>9, <2>1 DEF SentIsWritten
<1>12. ScratchIsOwned'
  BY <1>1, OwnedKept DEF DfuInv
<1> QED
  BY <1>1, <1>8, <1>9, <1>10, <1>11, <1>12 DEF DfuInv, FinalizedIsWhole

LEMMA WriteFailsInv ==
  ASSUME DfuInv, WriteFails
  PROVE  DfuInv'
<1> DEFINE e == Head(queue)
<1>1. /\ DfuTypeOK /\ queue # <<>> /\ queue' = Tail(queue)
      /\ image' = Cancelled /\ lent' = lent \ {e}
      /\ UNCHANGED <<files, strays, finalized>>
  BY DEF DfuInv, WriteFails, FailureEnds, BlockReleased
<1>2. /\ transfers \in Seq(Transfer) /\ image \in Image
      /\ queue \in Seq(Event \cup Others) /\ Len(queue) <= QueueSize
      /\ Len(transfers) \in Nat /\ DOMAIN transfers = 1..Len(transfers)
  BY <1>1, TypeParts
<1>3. /\ DOMAIN transfers' = DOMAIN transfers
      /\ \A m \in DOMAIN transfers :
           \/ transfers'[m] = transfers[m]
           \/ transfers'[m] = [transfers[m] EXCEPT !.state = "cancelled"] /\ m \in Open
      /\ transfers' = [m \in DOMAIN transfers |-> transfers'[m]]
  BY <1>2 DEF WriteFails, FailureEnds
<1>4. ASSUME NEW m \in DOMAIN transfers
      PROVE  /\ transfers'[m] \in Transfer /\ transfers'[m].file = transfers[m].file
             /\ transfers'[m] = transfers[m] \/ transfers'[m].state = "cancelled"
             /\ transfers'[m].state # "over" => transfers[m].state # "over"
  <2>1. transfers[m] \in Transfer
    BY <1>2
  <2>2. [transfers[m] EXCEPT !.state = "cancelled"] \in Transfer
    BY <2>1 DEF Transfer, States
  <2> QED
    BY <1>3, <2>1, <2>2 DEF Transfer, Open
<1>5. transfers' \in Seq(Transfer) /\ Len(transfers') = Len(transfers)
  <2>1. transfers' \in [1..Len(transfers) -> Transfer]
    BY <1>2, <1>3, <1>4
  <2> QED
    BY <1>2, <2>1
<1>6. /\ image' \in Image /\ ~image'.open
  BY <1>1, <1>2, CancelledType
<1>7. queue' \in Seq(Event \cup Others) /\ Len(queue') <= QueueSize
  BY <1>1, <1>2, QueueTaken
<1>8. DfuTypeOK'
  BY <1>1, <1>2, <1>5, <1>6, <1>7, TypeParts DEF DfuTypeOK, Transfer, Image
<1>9. OpenIsLast'
  <2>1. Open' \subseteq Open
    BY <1>3, <1>4 DEF Open
  <2> QED
    BY <1>5, <2>1 DEF DfuInv, OpenIsLast
<1>10. BlocksInOrder'
  BY <1>1, <1>5, OrderTaken
<1>11. ScratchIsOwned'
  BY <1>1, <1>3, <1>4, OwnedKept DEF DfuInv
<1>12. SentIsWritten'
  BY <1>6 DEF SentIsWritten
<1>13. FinalizedIsWhole'
  BY <1>1 DEF DfuInv, FinalizedIsWhole
<1> QED
  BY <1>8, <1>9, <1>10, <1>11, <1>12, <1>13 DEF DfuInv

LEMMA OtherEventInv ==
  ASSUME DfuInv, OtherEvent
  PROVE  DfuInv'
<1>1. /\ DfuTypeOK /\ queue # <<>> /\ queue' = Tail(queue)
      /\ UNCHANGED <<files, transfers, lent, strays, image, finalized>>
  BY DEF DfuInv, OtherEvent, blockVars
<1>2. queue \in Seq(Event \cup Others) /\ Len(queue) <= QueueSize
  BY <1>1, TypeParts
<1>3. /\ queue' \in Seq(Event \cup Others) /\ Len(queue') <= QueueSize
      /\ \A i \in DOMAIN queue' : i + 1 \in DOMAIN queue /\ queue'[i] = queue[i + 1]
  BY <1>1, <1>2, QueueTaken
<1>4. DfuTypeOK'
  BY <1>1, <1>3 DEF DfuTypeOK
<1>5. Open' = Open /\ OpenIsLast'
  BY <1>1 DEF DfuInv, OpenIsLast, Open
<1>6. SentIsWritten'
  BY <1>1, <1>3, <1>5 DEF DfuInv, SentIsWritten
<1>7. BlocksInOrder'
  BY <1>1, OrderTaken
<1>8. ScratchIsOwned'
  BY <1>1, OwnedKept DEF DfuInv
<1> QED
  BY <1>1, <1>4, <1>5, <1>6, <1>7, <1>8 DEF DfuInv, FinalizedIsWhole

LEMMA OtherQueuedInv ==
  ASSUME DfuInv, OtherQueued
  PROVE  DfuInv'
<1>1. PICK e \in Others : queue' = Append(queue, e)
  BY DEF OtherQueued
<1>2. /\ DfuTypeOK /\ HasRoom
      /\ UNCHANGED <<files, transfers, lent, strays, image, finalized>>
  BY DEF DfuInv, OtherQueued, blockVars
<1>3. queue \in Seq(Event \cup Others) /\ Len(queue) <= QueueSize
  BY <1>2, TypeParts
<1>4. /\ queue' \in Seq(Event \cup Others) /\ Len(queue') <= QueueSize
      /\ DOMAIN queue' = DOMAIN queue \cup {Len(queue) + 1}
      /\ \A i \in DOMAIN queue : queue'[i] = queue[i]
      /\ queue'[Len(queue) + 1] = e
  BY <1>1, <1>2, <1>3, QueueAppended
<1>5. DfuTypeOK'
  BY <1>2, <1>4 DEF DfuTypeOK
<1>6. Open' = Open /\ OpenIsLast'
  BY <1>2 DEF DfuInv, OpenIsLast, Open
<1>7. SentIsWritten'
  BY <1>2, <1>4, <1>6 DEF DfuInv, SentIsWritten
<1>8. BlocksInOrder'
  BY <1>1, <1>2, OrderAppended
<1>9. ScratchIsOwned'
  BY <1>2, OwnedKept DEF DfuInv
<1> QED
  BY <1>2, <1>5, <1>6, <1>7, <1>8, <1>9 DEF DfuInv, FinalizedIsWhole

\* The steps after which no transfer is left.
LEMMA AllOverInv ==
  ASSUME DfuInv, files' \in {Forgotten, NoFiles}, lent' = {}, strays' = {}, image' \in {image, NoImage},
         transfers' = [m \in DOMAIN transfers |-> [transfers[m] EXCEPT !.state = "over"]],
         queue' \in Seq(Event \cup Others), Len(queue') <= QueueSize,
         Len(transfers') = Len(transfers) => BlocksInOrder', finalized' = finalized
  PROVE  DfuInv'
<1>1. DfuTypeOK
  BY DEF DfuInv
<1>2. transfers \in Seq(Transfer) /\ files \in [Slots -> FileCtx] /\ image \in Image
      /\ Len(transfers) \in Nat /\ DOMAIN transfers = 1..Len(transfers)
  BY <1>1, TypeParts
<1>3. \A m \in DOMAIN transfers : transfers'[m] \in Transfer /\ transfers'[m].state = "over"
  <2>1. \A m \in DOMAIN transfers : transfers[m] \in Transfer
    BY <1>2
  <2> QED
    BY <2>1 DEF Transfer, States
<1>4. transfers' \in Seq(Transfer) /\ Len(transfers') = Len(transfers)
  <2>1. transfers' \in [1..Len(transfers) -> Transfer]
    BY <1>2, <1>3
  <2> QED
    BY <1>2, <2>1
<1>5. files' \in [Slots -> FileCtx] /\ image' \in Image
  BY <1>2, ForgottenType, NoImageType
<1>6. DfuTypeOK'
  BY <1>1, <1>2, <1>4, <1>5, TypeParts DEF DfuTypeOK, Transfer, Image
<1>7. ScratchIsOwned' /\ Open' = {}
  <2>1. DOMAIN transfers' = DOMAIN transfers
    OBVIOUS
  <2> QED
    BY <1>3, <2>1, NothingOwned
<1>8. OpenIsLast' /\ SentIsWritten'
  BY <1>7, NoneOpen
<1> QED
  BY <1>4, <1>6, <1>7, <1>8 DEF DfuInv, FinalizedIsWhole

LEMMA ReinitInv ==
  ASSUME DfuInv, Reinit
  PROVE  DfuInv'
<1>1. /\ queue # <<>> /\ queue' = Tail(queue) /\ lent' = {} /\ strays' = {} /\ files' = Forgotten
      /\ transfers' = [m \in DOMAIN transfers |-> [transfers[m] EXCEPT !.state = "over"]]
      /\ image' = image /\ finalized' = finalized
  BY DEF Reinit
<1>2. queue' \in Seq(Event \cup Others) /\ Len(queue') <= QueueSize
  BY <1>1, TypeParts, QueueTaken DEF DfuInv
<1>3. Len(transfers') = Len(transfers) => BlocksInOrder'
  BY <1>1, OrderTaken
<1> QED
  BY <1>1, <1>2, <1>3, AllOverInv

LEMMA RestartInv ==
  ASSUME DfuInv, Restart
  PROVE  DfuInv'
<1>1. /\ queue' = BootQueue /\ lent' = {} /\ strays' = {} /\ files' = NoFiles /\ image' = NoImage
      /\ transfers' = [m \in DOMAIN transfers |-> [transfers[m] EXCEPT !.state = "over"]]
      /\ finalized' = finalized
  BY DEF Restart
<1>2. queue' \in Seq(Event \cup Others) /\ Len(queue') <= QueueSize /\ BlocksInOrder'
  BY <1>1, BootQueueType DEF BlocksInOrder
<1> QED
  BY <1>1, <1>2, AllOverInv

-----------------------------------------------------------------------------
\* Whatever the stack offers, cancels and sends, and wherever a write fails, a
\* link switch or a restart falls, the inductive invariant holds.
THEOREM DfuInvAlways == DfuSpec => []DfuInv
<1>1. DfuInv /\ [DfuNext]_dfuVars => DfuInv'
  <2> SUFFICES ASSUME DfuInv, [DfuNext]_dfuVars PROVE DfuInv'
    OBVIOUS
  <2>1. CASE \E f \in FileIds : TransferAccepted(f) \/ TransferRejected(f)
    BY <2>1, TransferAcceptedInv, TransferRejectedInv
  <2>2. CASE \E n \in DOMAIN transfers : Callback(n)
    BY <2>2, DataQueuedInv, EndsInv, FinalizeInv, ReleaseScratchInv DEF Callback
  <2>3. CASE WriteBlock \/ WriteFails
    BY <2>3, WriteBlockInv, WriteFailsInv
  <2>4. CASE OtherEvent \/ OtherQueued
    BY <2>4, OtherEventInv, OtherQueuedInv
  <2>5. CASE Reinit \/ Restart
    BY <2>5, ReinitInv, RestartInv
  <2>6. CASE UNCHANGED dfuVars
    <3>1. UNCHANGED <<files, transfers, lent, strays, image, finalized, queue>>
      BY <2>6 DEF dfuVars, blockVars
    <3>2. DfuTypeOK' /\ BlocksInOrder' /\ FinalizedIsWhole'
      BY <3>1 DEF DfuInv, DfuTypeOK, BlocksInOrder, FinalizedIsWhole
    <3>3. Open' = Open
      BY <3>1 DEF Open
    <3>4. OpenIsLast' /\ SentIsWritten'
      BY <3>1, <3>3 DEF DfuInv, OpenIsLast, SentIsWritten
    <3>5. ScratchIsOwned'
      BY <3>1, OwnedKept DEF DfuInv
    <3> QED
      BY <3>2, <3>4, <3>5 DEF DfuInv
  <2> QED
    BY <2>1, <2>2, <2>3, <2>4, <2>5, <2>6 DEF DfuNext
<1> QED
  BY <1>1, InitDfuInv, PTL DEF DfuSpec

\* The table of scratch buffers, the queue, the image and the histories keep
\* their types, and no number of transfers overfills one of them.
THEOREM DfuTypeCorrect == DfuSpec => []DfuTypeOK
<1>1. DfuInv => DfuTypeOK
  BY DEF DfuInv
<1> QED
  BY <1>1, DfuInvAlways, PTL

\* scratch_buffer.c: a transfer the stack has memory for owns one slot of the
\* table, alone and with a buffer, also when requests for other files are
\* rejected, or when a link switch initialises the table, between.
THEOREM ScratchIsOwnedAlways == DfuSpec => []ScratchIsOwned
<1>1. DfuInv => ScratchIsOwned
  BY DEF DfuInv
<1> QED
  BY <1>1, DfuInvAlways, PTL

\* dfu_file_transfer.c: an image that is finalized has all blocks of the
\* transfer that finalizes it and none of an earlier one, for any number of
\* blocks and any queue.
THEOREM FinalizedIsWholeAlways == DfuSpec => []FinalizedIsWhole
<1>1. DfuInv => FinalizedIsWhole
  BY DEF DfuInv
<1> QED
  BY <1>1, DfuInvAlways, PTL

-----------------------------------------------------------------------------
(* The refinement.                                                         *)

\* Asking for a handler is queuing one of the queue's other events, or nothing.
LEMMA PressIsDfuStep ==
  ASSUME NEW name \in {"plain", "factory_reset", "link_switch", "enter_dfu", "exit_dfu"},
         Press(name)
  PROVE  [DfuNext]_dfuVars
<1>1. Handler(name) \in Others
  BY HelloAssumption DEF Handlers, Handler
<1>2. UNCHANGED <<files, transfers, blockVars, image, finalized>>
  BY DEF Press
<1>3. CASE HasRoom
  BY <1>1, <1>2, <1>3 DEF Press, Asked, OtherQueued, DfuNext
<1>4. CASE ~HasRoom
  BY <1>2, <1>4 DEF Press, Asked, dfuVars
<1> QED
  BY <1>3, <1>4

LEMMA StepIsDfuStep ==
  ASSUME [Next]_vars
  PROVE  [DfuNext]_dfuVars
<1>1. CASE SidewalkThread
  <2>1. Reinit \/ OtherEvent \/ Restart \/ WriteBlock \/ WriteFails
    BY <1>1 DEF SidewalkThread, Autostart, FactoryReset, LinkSwitch, LinkSwitchResets,
       HandlerLogs, EnterDfuMode, ExitDfuMode, RebootEvent, BlockEvent, Restarts
  <2> QED
    BY <2>1 DEF DfuNext
<1>2. CASE \E event \in {"plain", "factory_reset", "link_switch"} : PressButton(event)
  BY <1>2, PressIsDfuStep DEF PressButton
<1>3. CASE PressDfu
  BY <1>3, PressIsDfuStep DEF PressDfu
<1>4. CASE \E f \in FileIds : Request(f)
  BY <1>4 DEF Request, DfuNext
<1>5. CASE \E n \in DOMAIN transfers : Finalizes(n) \/ Transfers(n)
  BY <1>5 DEF Finalizes, Transfers, DfuNext, Callback
<1>6. CASE FactoryResetReported \/ PowerCut
  BY <1>6 DEF FactoryResetReported, PowerCut, Restarts, DfuNext
<1>7. CASE UNCHANGED vars
  BY <1>7 DEF vars
<1> QED
  BY <1>1, <1>2, <1>3, <1>4, <1>5, <1>6, <1>7 DEF Next

\* sidewalk_events.c and dfu_file_transfer.c share one queue and one thread:
\* whatever the buttons, the session's handlers and the restarts do around it,
\* the firmware transfer only ever takes steps of its own specification.
THEOREM DeviceRefinesDfu == Spec => RefinesDfu
<1>1. Init => DfuInit
  BY DEF Init
<1> QED
  BY <1>1, StepIsDfuStep, PTL DEF Spec, RefinesDfu, DfuSpec

\* On the device too, a transfer that the stack has memory for owns one slot
\* of the table, across link switches, factory resets and power cuts.
THEOREM DeviceScratchIsOwned == Spec => []ScratchIsOwned
BY DeviceRefinesDfu, ScratchIsOwnedAlways, PTL DEF RefinesDfu

\* On the device too, an image that is finalized is whole: also when a link
\* switch ends a transfer whose blocks are queued, and the file comes again.
THEOREM DeviceFinalizedIsWhole == Spec => []FinalizedIsWhole
BY DeviceRefinesDfu, FinalizedIsWholeAlways, PTL DEF RefinesDfu

-----------------------------------------------------------------------------
(* The inductive invariant of the device.                                  *)

SessionTypeOK ==
  /\ handle \in {"null", "live", "idle", "dead"}
  /\ mask \in SUBSET Links /\ (handle # "null" => mask # {})
  /\ stored \in {Missing} \cup SUBSET Links
  /\ resetting \in BOOLEAN /\ dfuMode \in BOOLEAN /\ goToDfu \in BOOLEAN
  /\ wanted \subseteq (SUBSET Links) \ {{}}
  /\ presses \in 0..MaxPresses /\ cuts \in 0..MaxCuts

FwTypeOK ==
  /\ fw \in [running : Numbers \cup {0}, staged : Numbers \cup {None},
             backup : Numbers \cup {0, None}]
  /\ opened \subseteq Numbers \cup {0}

\* What a start would come up with now is a mask it may come up with.
MaskIsWanted == MaskOfStored \in wanted

\* Image n was finalized, with all of its blocks.
Whole(n) == \E f \in finalized : f.transfer = n /\ \A b \in BlockNos : f.by[b] = n

\* The image to go back to has opened a session; and so has the one that runs,
\* when there is a session, another image is staged, or there is no way back.
ImagesOpened ==
  /\ handle # "null" \/ fw.staged # None \/ fw.backup = None => fw.running \in opened
  /\ fw.backup # None => fw.backup \in opened

ImagesWhole ==
  /\ fw.running # 0 => Whole(fw.running)
  /\ fw.staged # None => Whole(fw.staged)
  /\ fw.backup \notin {0, None} => Whole(fw.backup)

FwInv == FwTypeOK /\ ImagesOpened /\ ImagesWhole

DeviceInv == SessionTypeOK /\ MaskIsWanted /\ FwInv

-----------------------------------------------------------------------------
(* The session and the stored mask.                                        *)

LEMMA MaskOfStoredType ==
  ASSUME stored \in {Missing} \cup SUBSET Links
  PROVE  MaskOfStored \in (SUBSET Links) \ {{}}
BY HelloAssumption DEF MaskOfStored

\* What a mask that is stored does to the settings.
LEMMA StoresIsWanted ==
  ASSUME SessionTypeOK, MaskIsWanted, NEW m \in SUBSET Links, NEW meant \in (SUBSET Links) \ {{}},
         Stores(m, meant), m = meant \/ (m = {} /\ meant = DefaultMask)
  PROVE  /\ stored' \in {Missing} \cup SUBSET Links
         /\ wanted' \subseteq (SUBSET Links) \ {{}}
         /\ MaskIsWanted'
<1>1. CASE stored' = m /\ wanted' = {meant}
  <2>1. MaskOfStored' = meant
    BY <1>1, HelloAssumption DEF MaskOfStored
  <2> QED
    BY <1>1, <2>1 DEF MaskIsWanted
<1>2. CASE stored' = stored /\ wanted' = wanted \cup {meant}
  <2>1. MaskOfStored' = MaskOfStored
    BY <1>2 DEF MaskOfStored
  <2> QED
    BY <1>2, <2>1 DEF SessionTypeOK, MaskIsWanted
<1> QED
  BY <1>1, <1>2 DEF Stores

\* The mask of a start, read or not, is one it may come up with from then on.
LEMMA StartedMask ==
  ASSUME SessionTypeOK, MaskIsWanted, MaskRead \/ MaskNotRead
  PROVE  /\ mask' \in (SUBSET Links) \ {{}} /\ mask' \in wanted'
         /\ stored' \in {Missing} \cup SUBSET Links
         /\ wanted' \subseteq (SUBSET Links) \ {{}}
         /\ MaskIsWanted'
<1>1. CASE MaskRead
  <2>1. mask' = MaskOfStored /\ MaskOfStored' = MaskOfStored /\ wanted' = wanted
        /\ stored' = stored
    BY <1>1 DEF MaskRead, MaskOfStored
  <2> QED
    BY <2>1, MaskOfStoredType DEF SessionTypeOK, MaskIsWanted
<1>2. CASE MaskNotRead
  <2>1. mask' = DefaultMask /\ DefaultMask \in (SUBSET Links) \ {{}}
        /\ Stores(DefaultMask, DefaultMask)
    BY <1>2, HelloAssumption DEF MaskNotRead
  <2>2. DefaultMask \in wanted'
    BY <2>1 DEF Stores
  <2>3. DefaultMask \in SUBSET Links
    BY <2>1
  <2> QED
    BY <2>1, <2>2, <2>3, StoresIsWanted
<1> QED
  BY <1>1, <1>2

LEMMA RestartsSession ==
  ASSUME SessionTypeOK, MaskIsWanted, Restarts, stored' \in {Missing} \cup SUBSET Links,
         wanted' \subseteq (SUBSET Links) \ {{}}, cuts' \in 0..MaxCuts, MaskIsWanted'
  PROVE  SessionTypeOK' /\ MaskIsWanted'
BY DEF SessionTypeOK, Restarts

LEMMA SameMaskWanted ==
  ASSUME MaskIsWanted, stored' = stored, wanted' = wanted
  PROVE  MaskIsWanted'
BY DEF MaskIsWanted, MaskOfStored

LEMMA SwitchedMask ==
  ASSUME SessionTypeOK, handle # "null"
  PROVE  NextMask[mask] \in (SUBSET Links) \ {{}}
BY HelloAssumption DEF SessionTypeOK

LEMMA PressSession ==
  ASSUME SessionTypeOK, MaskIsWanted, NEW name, Press(name), goToDfu' \in BOOLEAN
  PROVE  SessionTypeOK' /\ MaskIsWanted'
<1>1. presses' \in 0..MaxPresses
  BY HelloAssumption DEF Press, SessionTypeOK
<1> QED
  BY <1>1, SameMaskWanted DEF Press, SessionTypeOK

LEMMA SessionStep ==
  ASSUME SessionTypeOK, MaskIsWanted, [Next]_vars
  PROVE  SessionTypeOK' /\ MaskIsWanted'
<1>1. CASE Autostart
  <2>1. /\ mask' \in (SUBSET Links) \ {{}}
        /\ stored' \in {Missing} \cup SUBSET Links
        /\ wanted' \subseteq (SUBSET Links) \ {{}} /\ MaskIsWanted'
    BY <1>1, StartedMask DEF Autostart
  <2>2. handle' \in {"null", "live", "idle", "dead"}
    BY <1>1 DEF Autostart, SessionTypeOK
  <2>3. UNCHANGED <<resetting, dfuMode, goToDfu, presses, cuts>>
    BY <1>1 DEF Autostart
  <2> QED
    BY <2>1, <2>2, <2>3 DEF SessionTypeOK
<1>2. CASE FactoryReset
  <2>1. Stores({}, DefaultMask) /\ DefaultMask \in (SUBSET Links) \ {{}}
    BY <1>2, HelloAssumption DEF FactoryReset
  <2>2. resetting' \in BOOLEAN
    <3>1. resetting \in BOOLEAN /\ (handle \in {"live", "idle"}) \in BOOLEAN
      BY DEF SessionTypeOK
    <3>2. resetting' \in {resetting, (handle \in {"live", "idle"})}
      BY <1>2, Zenon DEF FactoryReset, Initialised
    <3> QED
      BY <3>1, <3>2, Zenon
  <2>3. UNCHANGED <<handle, mask, dfuMode, goToDfu, presses, cuts>>
    BY <1>2 DEF FactoryReset
  <2> QED
    BY <2>1, <2>2, <2>3, StoresIsWanted DEF SessionTypeOK
<1>3. CASE LinkSwitch
  <2> DEFINE next == NextMask[mask]
  <2>1. next \in (SUBSET Links) \ {{}} /\ Stores(next, next) /\ mask' = next
    BY <1>3, SwitchedMask DEF LinkSwitch, StoresNew
  <2>2. handle' \in {"null", "live", "idle", "dead"} /\ resetting' \in BOOLEAN
    BY <1>3 DEF LinkSwitch, SessionTypeOK
  <2>3. UNCHANGED <<dfuMode, goToDfu, presses, cuts>>
    BY <1>3 DEF LinkSwitch
  <2>4. /\ stored' \in {Missing} \cup SUBSET Links
        /\ wanted' \subseteq (SUBSET Links) \ {{}} /\ MaskIsWanted'
    <3>1. next \in SUBSET Links
      BY <2>1
    <3> QED
      BY <2>1, <3>1, StoresIsWanted
  <2> QED
    BY <2>1, <2>2, <2>3, <2>4 DEF SessionTypeOK
<1>4. CASE LinkSwitchResets
  <2>1. handle # "null" /\ StoresNew(NextMask[mask]) /\ Restarts /\ UNCHANGED cuts
    BY <1>4 DEF LinkSwitchResets, Initialised
  <2>2. /\ stored' \in {Missing} \cup SUBSET Links
        /\ wanted' \subseteq (SUBSET Links) \ {{}} /\ MaskIsWanted'
    <3>1. NextMask[mask] \in (SUBSET Links) \ {{}}
      BY <2>1, SwitchedMask
    <3>2. NextMask[mask] \in SUBSET Links
      BY <3>1
    <3> QED
      BY <2>1, <3>1, <3>2, StoresIsWanted DEF StoresNew
  <2> QED
    BY <2>1, <2>2, RestartsSession DEF SessionTypeOK
<1>5. CASE HandlerLogs \/ BlockEvent
  <2>1. UNCHANGED <<sessionVars, wanted, presses, cuts>>
    BY <1>5 DEF HandlerLogs, BlockEvent
  <2> QED
    BY <2>1, SameMaskWanted DEF SessionTypeOK, sessionVars
<1>6. CASE EnterDfuMode \/ ExitDfuMode
  <2>1. dfuMode' \in BOOLEAN
    BY <1>6 DEF EnterDfuMode, ExitDfuMode, SessionTypeOK
  <2>2. UNCHANGED <<handle, mask, stored, resetting, goToDfu, wanted, presses, cuts>>
    BY <1>6 DEF EnterDfuMode, ExitDfuMode
  <2> QED
    BY <2>1, <2>2, SameMaskWanted DEF SessionTypeOK
<1>7. CASE RebootEvent \/ PowerCut
  <2>1. Restarts /\ UNCHANGED <<stored, wanted>>
    BY <1>7 DEF RebootEvent, PowerCut
  <2>2. cuts' \in 0..MaxCuts
    BY <1>7, HelloAssumption DEF RebootEvent, PowerCut, SessionTypeOK
  <2> QED
    BY <2>1, <2>2, SameMaskWanted, RestartsSession DEF SessionTypeOK
<1>8. CASE FactoryResetReported
  <2>1. UNCHANGED <<stored, wanted, cuts>>
    BY <1>8 DEF FactoryResetReported
  <2>2. CASE Restarts
    BY <2>1, <2>2, SameMaskWanted, RestartsSession DEF SessionTypeOK
  <2>3. CASE resetting' = FALSE /\ UNCHANGED <<handle, mask, dfuMode, goToDfu, presses>>
    BY <2>1, <2>3, SameMaskWanted DEF SessionTypeOK
  <2> QED
    BY <1>8, <2>2, <2>3 DEF FactoryResetReported
<1>9. CASE \E event \in {"plain", "factory_reset", "link_switch"} : PressButton(event)
  <2>1. PICK event : Press(event) /\ goToDfu' = goToDfu
    BY <1>9 DEF PressButton
  <2> QED
    BY <2>1, PressSession DEF SessionTypeOK
<1>10. CASE PressDfu
  <2>1. goToDfu' \in BOOLEAN
    BY <1>10 DEF PressDfu
  <2> QED
    BY <1>10, <2>1, PressSession DEF PressDfu
<1>11. CASE \E f \in FileIds : Request(f)
  <2>1. UNCHANGED <<sessionVars, wanted, presses, cuts>>
    BY <1>11 DEF Request
  <2> QED
    BY <2>1, SameMaskWanted DEF SessionTypeOK, sessionVars
<1>12. CASE \E n \in DOMAIN transfers : Finalizes(n) \/ Transfers(n)
  <2>1. UNCHANGED <<sessionVars, wanted, presses, cuts>>
    BY <1>12 DEF Finalizes, Transfers
  <2> QED
    BY <2>1, SameMaskWanted DEF SessionTypeOK, sessionVars
<1>13. CASE UNCHANGED vars
  <2>1. UNCHANGED <<sessionVars, wanted, presses, cuts>>
    BY <1>13 DEF vars
  <2> QED
    BY <2>1, SameMaskWanted DEF SessionTypeOK, sessionVars
<1> QED
  BY <1>1, <1>2, <1>3, <1>4, <1>5, <1>6, <1>7, <1>8, <1>9, <1>10, <1>11, <1>12, <1>13
  DEF Next, SidewalkThread

-----------------------------------------------------------------------------
(* The images.                                                             *)

LEMMA FinalizedGrows ==
  ASSUME [Next]_vars
  PROVE  finalized \subseteq finalized'
<1>1. [DfuNext]_dfuVars
  BY StepIsDfuStep
<1> QED
  BY <1>1 DEF DfuNext, dfuVars, Callback, TransferAccepted, TransferRejected, DataQueued,
     DataNotAllocated, DataFindsNoRoom, DataInDfuMode, TransferEnds, Finalize, ReleaseScratch, WriteBlock,
     WriteFails, OtherEvent, OtherQueued, Reinit, Restart

LEMMA WholeKept ==
  ASSUME finalized \subseteq finalized', NEW n, Whole(n)
  PROVE  Whole(n)'
BY DEF Whole

\* The steps that leave the boot loader alone, and may end a session.
LEMMA FwKept ==
  ASSUME FwInv, fw' = fw, opened' = opened, finalized \subseteq finalized',
         handle' # "null" => handle # "null"
  PROVE  FwInv'
<1>1. FwTypeOK' /\ ImagesOpened'
  BY DEF FwInv, FwTypeOK, ImagesOpened
<1>2. ImagesWhole'
  BY WholeKept DEF FwInv, ImagesWhole
<1> QED
  BY <1>1, <1>2 DEF FwInv

LEMMA SessionKeepsFw ==
  ASSUME FwInv, UNCHANGED <<handle, fw, opened>>, finalized \subseteq finalized'
  PROVE  FwInv'
BY FwKept

\* The images after a step that replaces one of the three.
LEMMA FwReplaced ==
  ASSUME FwInv, finalized \subseteq finalized', opened' \subseteq Numbers \cup {0},
         NEW r \in Numbers \cup {0}, NEW s \in Numbers \cup {None}, NEW b \in Numbers \cup {0, None},
         fw' = [running |-> r, staged |-> s, backup |-> b],
         handle' # "null" \/ s # None \/ b = None => r \in opened',
         b # None => b \in opened',
         r # 0 => Whole(r)', s # None => Whole(s)', b \notin {0, None} => Whole(b)'
  PROVE  FwInv'
<1>1. fw'.running = r /\ fw'.staged = s /\ fw'.backup = b
  OBVIOUS
<1>2. FwTypeOK'
  BY DEF FwTypeOK
<1>3. ImagesOpened'
  BY <1>1 DEF ImagesOpened
<1>4. ImagesWhole'
  BY <1>1 DEF ImagesWhole
<1> QED
  BY <1>2, <1>3, <1>4 DEF FwInv

\* The boot loader: the image it goes to, and the one it can go back from it
\* to, have opened a session where that is asked of them.
LEMMA RestartsFw ==
  ASSUME FwInv, Restarts, finalized \subseteq finalized'
  PROVE  FwInv'
<1>1. PICK r \in Numbers \cup {0}, s \in Numbers \cup {None}, b \in Numbers \cup {0, None} :
        fw = [running |-> r, staged |-> s, backup |-> b]
  BY DEF FwInv, FwTypeOK
<1>2. fw' = Booted /\ opened' = opened /\ handle' = "null"
  BY DEF Restarts
<1>3. opened' \subseteq Numbers \cup {0} /\ None \notin Numbers \cup {0}
  BY <1>2, HelloAssumption DEF FwInv, FwTypeOK
<1>4. /\ s # None \/ b = None => r \in opened'
      /\ b # None => b \in opened'
  BY <1>1, <1>2 DEF FwInv, ImagesOpened
<1>5. r # 0 => Whole(r)'
  BY <1>1, WholeKept DEF FwInv, ImagesWhole
<1>6. s # None => Whole(s)'
  BY <1>1, WholeKept DEF FwInv, ImagesWhole
<1>7. b \notin {0, None} => Whole(b)'
  BY <1>1, WholeKept DEF FwInv, ImagesWhole
<1>8. CASE s # None
  <2>1. fw' = [running |-> s, staged |-> None, backup |-> r]
    BY <1>1, <1>2, <1>8 DEF Booted
  <2>2. s \in Numbers \cup {0} /\ r \in Numbers \cup {0, None} /\ r # None
    BY <1>3, <1>8
  <2> QED
    BY <1>2, <1>3, <1>4, <1>5, <1>6, <1>8, <2>1, <2>2, FwReplaced
<1>9. CASE s = None /\ b # None
  <2>1. fw' = [running |-> b, staged |-> None, backup |-> None]
    BY <1>1, <1>2, <1>9 DEF Booted
  <2> QED
    BY <1>2, <1>3, <1>4, <1>7, <1>9, <2>1, FwReplaced
<1>10. CASE s = None /\ b = None
  <2>1. fw' = fw
    BY <1>1, <1>2, <1>10 DEF Booted
  <2> QED
    BY <1>2, <2>1, FwKept
<1> QED
  BY <1>8, <1>9, <1>10

LEMMA AutostartFw ==
  ASSUME FwInv, Autostart, finalized \subseteq finalized'
  PROVE  FwInv'
<1>1. PICK r \in Numbers \cup {0}, s \in Numbers \cup {None}, b \in Numbers \cup {0, None} :
        fw = [running |-> r, staged |-> s, backup |-> b]
  BY DEF FwInv, FwTypeOK
<1>2. /\ opened \subseteq Numbers \cup {0}
      /\ b # None => b \in opened
      /\ r # 0 => Whole(r)'
      /\ s # None => Whole(s)'
      /\ b \notin {0, None} => Whole(b)'
  BY <1>1, WholeKept DEF FwInv, FwTypeOK, ImagesOpened, ImagesWhole
<1>3. CASE fw' \in {fw, Confirmed(TRUE)} /\ opened' = opened \cup {fw.running}
  <2>1. opened' = opened \cup {r}
    BY <1>1, <1>3
  <2>2. opened' \subseteq Numbers \cup {0} /\ r \in opened' /\ (b # None => b \in opened')
    BY <1>2, <2>1
  <2>3. CASE fw' = fw
    BY <1>1, <1>2, <2>2, <2>3, FwReplaced
  <2>4. CASE fw' = Confirmed(TRUE)
    <3>1. fw' = [running |-> r, staged |-> s, backup |-> None]
      BY <1>1, <2>4 DEF Confirmed
    <3> QED
      BY <1>2, <2>2, <3>1, FwReplaced
  <2> QED
    BY <1>3, <2>3, <2>4
<1>4. CASE handle' = handle /\ fw' = Confirmed(FALSE) /\ UNCHANGED opened
  BY <1>4, SessionKeepsFw DEF Confirmed
<1> QED
  BY <1>3, <1>4 DEF Autostart

LEMMA RequestFw ==
  ASSUME FwInv, NEW f \in FileIds, Request(f), finalized \subseteq finalized'
  PROVE  FwInv'
<1>1. PICK r \in Numbers \cup {0}, s \in Numbers \cup {None}, b \in Numbers \cup {0, None} :
        fw = [running |-> r, staged |-> s, backup |-> b]
  BY DEF FwInv, FwTypeOK
<1>2. handle = "live" /\ fw' = Unstaged /\ UNCHANGED <<handle, opened>>
  BY DEF Request, sessionVars
<1>3. /\ opened' \subseteq Numbers \cup {0} /\ r \in opened'
      /\ b # None => b \in opened'
      /\ r # 0 => Whole(r)'
      /\ b \notin {0, None} => Whole(b)'
  BY <1>1, <1>2, WholeKept DEF FwInv, FwTypeOK, ImagesOpened, ImagesWhole
<1>4. CASE image' = image
  <2>1. fw' = fw
    BY <1>1, <1>2, <1>4 DEF Unstaged
  <2> QED
    BY <1>2, <2>1, SessionKeepsFw
<1>5. CASE image' # image
  <2>1. fw' = [running |-> r, staged |-> None, backup |-> b]
    BY <1>1, <1>2, <1>5 DEF Unstaged
  <2> QED
    BY <1>3, <2>1, FwReplaced
<1> QED
  BY <1>4, <1>5

LEMMA FinalizesFw ==
  ASSUME FwInv, DfuTypeOK, FinalizedIsWhole', NEW n \in DOMAIN transfers, Finalizes(n),
         finalized \subseteq finalized'
  PROVE  FwInv'
<1>1. PICK r \in Numbers \cup {0}, s \in Numbers \cup {None}, b \in Numbers \cup {0, None} :
        fw = [running |-> r, staged |-> s, backup |-> b]
  BY DEF FwInv, FwTypeOK
<1>2. handle = "live" /\ UNCHANGED <<handle, opened>> /\ Finalize(n)
  BY DEF Finalizes, sessionVars
<1>3. /\ opened' \subseteq Numbers \cup {0} /\ r \in opened'
      /\ b # None => b \in opened'
      /\ r # 0 => Whole(r)'
      /\ b \notin {0, None} => Whole(b)'
  BY <1>1, <1>2, WholeKept DEF FwInv, FwTypeOK, ImagesOpened, ImagesWhole
<1>4. CASE finalized' = finalized
  <2>1. fw' = fw
    BY <1>1, <1>4 DEF Finalizes
  <2> QED
    BY <1>2, <2>1, SessionKeepsFw
<1>5. CASE finalized' # finalized
  <2>1. fw' = [running |-> r, staged |-> n, backup |-> b]
    BY <1>1, <1>5 DEF Finalizes
  <2>2. [transfer |-> n, by |-> image.by] \in finalized'
    BY <1>2, <1>5 DEF Finalize
  <2>3. Whole(n)'
    <3>1. \A k \in BlockNos : [transfer |-> n, by |-> image.by].by[k] = n
      BY <2>2 DEF FinalizedIsWhole
    <3> QED
      BY <2>2, <3>1 DEF Whole
  <2>4. n \in Numbers /\ n \in Numbers \cup {None}
    BY TypeParts
  <2> QED
    BY <1>3, <2>1, <2>3, <2>4, FwReplaced
<1> QED
  BY <1>4, <1>5

LEMMA FwStep ==
  ASSUME FwInv, DfuTypeOK, FinalizedIsWhole', [Next]_vars
  PROVE  FwInv'
<1>1. finalized \subseteq finalized'
  BY FinalizedGrows
<1>2. CASE Autostart
  BY <1>1, <1>2, AutostartFw
<1>3. CASE FactoryReset \/ EnterDfuMode \/ ExitDfuMode
  BY <1>1, <1>3, SessionKeepsFw DEF FactoryReset, EnterDfuMode, ExitDfuMode
<1>4. CASE LinkSwitch
  BY <1>1, <1>4, FwKept DEF LinkSwitch
<1>5. CASE LinkSwitchResets \/ RebootEvent \/ PowerCut
  BY <1>1, <1>5, RestartsFw DEF LinkSwitchResets, RebootEvent, PowerCut
<1>6. CASE HandlerLogs \/ BlockEvent
  BY <1>1, <1>6, SessionKeepsFw DEF HandlerLogs, BlockEvent, sessionVars
<1>7. CASE FactoryResetReported
  <2>1. Restarts \/ UNCHANGED <<handle, fw, opened>>
    BY <1>7 DEF FactoryResetReported
  <2> QED
    BY <1>1, <2>1, RestartsFw, SessionKeepsFw
<1>8. CASE (\E event \in {"plain", "factory_reset", "link_switch"} : PressButton(event)) \/ PressDfu
  <2>1. UNCHANGED <<handle, fw, opened>>
    BY <1>8 DEF PressButton, PressDfu, Press
  <2> QED
    BY <1>1, <2>1, SessionKeepsFw
<1>9. CASE \E f \in FileIds : Request(f)
  BY <1>1, <1>9, RequestFw
<1>10. CASE \E n \in DOMAIN transfers : Finalizes(n)
  BY <1>1, <1>10, FinalizesFw
<1>11. CASE (\E n \in DOMAIN transfers : Transfers(n)) \/ UNCHANGED vars
  <2>1. UNCHANGED <<handle, fw, opened>>
    BY <1>11 DEF Transfers, vars, sessionVars
  <2> QED
    BY <1>1, <2>1, SessionKeepsFw
<1> QED
  BY <1>2, <1>3, <1>4, <1>5, <1>6, <1>7, <1>8, <1>9, <1>10, <1>11 DEF Next, SidewalkThread

-----------------------------------------------------------------------------
LEMMA InitDeviceInv == Init => SessionTypeOK /\ MaskIsWanted /\ FwInv
<1> SUFFICES ASSUME Init PROVE SessionTypeOK /\ MaskIsWanted /\ FwInv
  OBVIOUS
<1>1. stored \in {Missing} \cup SUBSET Links
  BY DEF Init
<1>2. SessionTypeOK /\ MaskIsWanted
  <2>1. MaskOfStored \in (SUBSET Links) \ {{}} /\ wanted = {MaskOfStored}
    BY <1>1, MaskOfStoredType DEF Init
  <2>2. wanted \subseteq (SUBSET Links) \ {{}} /\ MaskIsWanted
    BY <2>1 DEF MaskIsWanted
  <2>3. mask \in SUBSET Links /\ presses \in 0..MaxPresses /\ cuts \in 0..MaxCuts
    BY HelloAssumption DEF Init
  <2>4. handle = "null" /\ resetting = FALSE /\ dfuMode = FALSE /\ goToDfu = TRUE
    BY DEF Init
  <2> QED
    BY <1>1, <2>2, <2>3, <2>4 DEF SessionTypeOK
<1>3. FwTypeOK /\ ImagesOpened /\ ImagesWhole
  BY DEF Init, FwTypeOK, ImagesOpened, ImagesWhole
<1> QED
  BY <1>2, <1>3 DEF FwInv

\* Together with the firmware transfer's, the invariant of the session and of
\* the boot loader's images is inductive.
THEOREM DeviceInvAlways == Spec => [](DfuInv /\ DeviceInv)
<1>1. Spec => []DfuInv
  BY DeviceRefinesDfu, DfuInvAlways, PTL DEF RefinesDfu
<1>2. Init => DeviceInv
  BY InitDeviceInv DEF DeviceInv
<1>3. DfuInv /\ DfuInv' /\ DeviceInv /\ [Next]_vars => DeviceInv'
  BY SessionStep, FwStep DEF DeviceInv, DfuInv
<1> QED
  BY <1>1, <1>2, <1>3, PTL DEF Spec

\* sidewalk_events.c, app.c: the session, the settings and the images keep
\* their types; a session always has a mask of at least one link.
THEOREM DeviceTypeCorrect == Spec => []TypeOK
<1>1. DfuInv /\ DeviceInv => TypeOK
  BY DEF DfuInv, DeviceInv, SessionTypeOK, FwInv, FwTypeOK, TypeOK
<1> QED
  BY <1>1, DeviceInvAlways, PTL

\* boot_write_img_confirmed is called with a session only: the image that the
\* boot loader keeps has opened one, and is whole, for any number of images,
\* restarts and power cuts.
THEOREM KeptImageWorksAlways == Spec => []KeptImageWorks
<1>1. DeviceInv => KeptImageWorks
  BY DEF DeviceInv, FwInv, ImagesOpened, ImagesWhole, Whole, KeptImageWorks
<1> QED
  BY <1>1, DeviceInvAlways, PTL

\* sidewalk_event_autostart: only a start gives a device without a mask one, and
\* it is the mask that was last stored, or the default, which is then the one
\* that is stored: for any set of links and any switching rule, wherever reading
\* or writing the settings fails or the power is cut.
THEOREM MaskComesBackAlways == Spec => MaskComesBack
<1>1. DeviceInv /\ [Next]_vars => [mask = {} /\ mask' # {} => mask' \in wanted']_vars
  <2> SUFFICES ASSUME DeviceInv, Next, mask = {}, mask' # {}
               PROVE  mask' \in wanted'
    OBVIOUS
  <2>1. CASE Autostart
    BY <2>1, StartedMask DEF Autostart, DeviceInv
  <2>2. CASE LinkSwitch
    BY <2>2 DEF LinkSwitch, DeviceInv, SessionTypeOK
  <2>3. CASE ~Autostart /\ ~LinkSwitch
    BY <2>3 DEF Next, SidewalkThread, FactoryReset, LinkSwitchResets, HandlerLogs,
       EnterDfuMode, ExitDfuMode, RebootEvent, BlockEvent, PressButton, PressDfu, Press,
       Request, Finalizes, Transfers, FactoryResetReported, PowerCut, Restarts, sessionVars
  <2> QED
    BY <2>1, <2>2, <2>3
<1> QED
  BY <1>1, DeviceInvAlways, PTL DEF Spec, MaskComesBack
===============================================================================
