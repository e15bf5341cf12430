----------------------------- MODULE DfuTransfer -----------------------------
(***************************************************************************)
(* A firmware image that arrives as a bulk data transfer                   *)
(* (app/src/sbdt/dfu_file_transfer.c).  The stack asks whether a file is   *)
(* wanted, then lends its blocks one by one; a block is written to the     *)
(* image by an event on the sidewalk thread's queue, and given back.       *)
(* Callbacks run on the sidewalk thread too, inside sid_process, so they   *)
(* and the handlers are atomic to one another and meet only through the    *)
(* queue.                                                                  *)
(*                                                                         *)
(* The stack and the DFU library are outside this repository.  The stack   *)
(* offers one file at a time, asks to finalize a file when it has all of   *)
(* its blocks back, and may end a transfer at any time, also with blocks   *)
(* lent; it takes a block back that is released to it, but may refuse to   *)
(* cancel or to finalize a transfer it is asked to, which the application  *)
(* only logs.  The library has one image, which is open from img_init      *)
(* until it is told to cancel or to finalize it.                           *)
(***************************************************************************)
EXTENDS ScratchBuffer, Sequences

CONSTANTS
  Blocks,        \* the number of blocks of a file
  QueueSize,     \* CONFIG_SIDEWALK_THREAD_QUEUE_SIZE
  None,          \* no transfer
  Others,        \* the queue's other events
  Reboot,        \* sidewalk_event_reboot, one of them
  BootQueue,     \* the events that the application queues when it starts
  MaxTransferNo  \* bound: transfers in a behaviour

ASSUME DfuAssumption ==
  /\ Blocks \in Nat \ {0} /\ QueueSize \in Nat \ {0} /\ MaxTransferNo \in Nat
  /\ None \notin 1..MaxTransferNo
  /\ Others \cap [transfer : 1..MaxTransferNo, block : 1..Blocks] = {}
  /\ Reboot \in Others
  /\ BootQueue \in Seq(Others) /\ Len(BootQueue) <= QueueSize

VARIABLES
  transfers,  \* the stack: the accepted transfers, in order, also of old files
  lent,       \* the stack: the blocks the application has
  strays,     \* history: those of them for which there never was an event
  image,      \* the DFU library: the image being written
  finalized,  \* history: the images that were finalized
  queue       \* the sidewalk thread's queue

blockVars == <<lent, strays>>
dfuVars == <<files, transfers, blockVars, image, finalized, queue>>

BlockNos == 1..Blocks
Numbers == 1..MaxTransferNo
States == {"open", "cancelled", "done", "over"}

\* The event that writes a block: what sidewalk_transfer_t says of it.
Event == [transfer : Numbers, block : BlockNos]

Open == {n \in DOMAIN transfers : transfers[n].state = "open"}

NoImage == [open |-> FALSE, by |-> [b \in BlockNos |-> None]]
Cancelled == [image EXCEPT !.open = FALSE]
TransferIs(n, state) == [transfers EXCEPT ![n].state = state]

HasRoom == Len(queue) < QueueSize

LentBy(n) == {l \in lent : l.transfer = n}

-----------------------------------------------------------------------------
(* The callbacks.                                                          *)

\* on_transfer_request: the image is started first, so it is also when the
\* file is then rejected: in BLE DFU mode, or for want of a scratch buffer.
TransferAccepted(f) ==
  /\ Open = {} /\ Len(transfers) < MaxTransferNo
  /\ Created(f)
  /\ image' = [NoImage EXCEPT !.open = TRUE]
  /\ transfers' = Append(transfers, [file |-> f, sent |-> 0, state |-> "open"])
  /\ UNCHANGED <<blockVars, finalized, queue>>

TransferRejected(f) ==
  /\ Open = {} /\ Len(transfers) < MaxTransferNo
  /\ \/ UNCHANGED <<files, image>>
     \/ image' = [NoImage EXCEPT !.open = TRUE] /\ (NotCreated(f) \/ UNCHANGED files)
  /\ UNCHANGED <<transfers, blockVars, finalized, queue>>

BlockSent(n) == [transfers EXCEPT ![n].sent = @ + 1]
NextBlock(n) == [transfer |-> n, block |-> transfers[n].sent + 1]

HasNextBlock(n) == n \in Open /\ transfers[n].sent < Blocks

\* The transfer is cancelled, and the stack has its blocks back.
Ended(n) ==
  /\ transfers' = TransferIs(n, "cancelled")
  /\ lent' = lent \ LentBy(n) /\ strays' = strays \ LentBy(n)

\* The callback returns without an event for the block, and the transfer goes on:
\* the block stays with the application, which has forgotten it.
LeftBehind(n) ==
  /\ transfers' = BlockSent(n)
  /\ lent' = lent \cup {NextBlock(n)} /\ strays' = strays \cup {NextBlock(n)}

\* on_data_received: an event for the sidewalk thread ...
DataQueued(n) ==
  /\ HasNextBlock(n)
  /\ HasRoom
  /\ queue' = Append(queue, NextBlock(n))
  /\ lent' = lent \cup {NextBlock(n)}
  /\ transfers' = BlockSent(n)
  /\ UNCHANGED <<files, strays, image, finalized>>

\* ... or no memory for it, and no other consequence ...
DataNotAllocated(n) ==
  /\ HasNextBlock(n)
  /\ LeftBehind(n)
  /\ UNCHANGED <<files, image, finalized, queue>>

\* The image is cancelled, and the transfer, unless the stack refuses.
BlockRefused(n) ==
  /\ image' = Cancelled
  /\ Ended(n) \/ LeftBehind(n)

\* ... or, with no room for it, the end of the transfer.
DataFindsNoRoom(n) ==
  /\ HasNextBlock(n)
  /\ ~HasRoom
  /\ BlockRefused(n)
  /\ UNCHANGED <<files, finalized, queue>>

\* In BLE DFU mode the transfer is cancelled, unless the stack refuses, and the
\* image is not.
DataInDfuMode(n) ==
  /\ HasNextBlock(n)
  /\ Ended(n) \/ LeftBehind(n)
  /\ UNCHANGED <<files, image, finalized, queue>>

\* on_cancel_request, on_error: whichever file it is, the image is cancelled.
TransferEnds(n) ==
  /\ n \in Open
  /\ Ended(n)
  /\ image' = Cancelled
  /\ UNCHANGED <<files, finalized, queue>>

\* on_finalize_request: the stack has all blocks back.  The library finalizes
\* an image that is open, and may fail, as the stack may refuse to finalize; a
\* reboot is asked for in any case, and is lost when the queue is full.
Finalize(n) ==
  /\ n \in Open /\ transfers[n].sent = Blocks /\ LentBy(n) = {}
  /\ transfers' \in {transfers, TransferIs(n, "done")}
  /\ finalized' \in {finalized} \cup
        (IF image.open THEN {finalized \cup {[transfer |-> n, by |-> image.by]}} ELSE {})
  /\ image' = Cancelled
  /\ queue' = IF HasRoom THEN Append(queue, Reboot) ELSE queue
  /\ UNCHANGED <<files, blockVars>>

\* on_release_scratch_buffer
ReleaseScratch(n) ==
  /\ n \in DOMAIN transfers /\ transfers[n].state \in {"cancelled", "done"}
  /\ transfers' = TransferIs(n, "over")
  /\ Removed(transfers[n].file)
  /\ UNCHANGED <<blockVars, image, finalized, queue>>

-----------------------------------------------------------------------------
(* The sidewalk thread.                                                    *)

\* Mutant: a block that cannot be written is kept.
BlockKept(e) == UNCHANGED lent

\* The block goes back to the stack, written or not.
BlockReleased(e) == lent' = lent \ {e}

\* sidewalk_event_file_transfer.  The file may be over by now: the block is
\* written all the same, to the image that is open.
WriteBlock ==
  /\ queue # <<>> /\ Head(queue) \notin Others
  /\ queue' = Tail(queue)
  /\ image.open
  /\ image' = [image EXCEPT !.by[Head(queue).block] = Head(queue).transfer]
  /\ BlockReleased(Head(queue))
  /\ UNCHANGED <<files, transfers, strays, finalized>>

\* Mutant: a write that fails is only logged.
FailureLogged(n) == UNCHANGED <<image, transfers>>

\* The image is cancelled, and the transfer the stack has of the block's file,
\* unless the stack refuses.
FailureEnds(n) ==
  /\ image' = Cancelled
  /\ \/ UNCHANGED transfers
     \/ transfers' = [m \in DOMAIN transfers |->
                        IF m \in Open /\ transfers[m].file = transfers[n].file
                        THEN [transfers[m] EXCEPT !.state = "cancelled"] ELSE transfers[m]]

\* The write fails, as it does when no image is open.
WriteFails ==
  /\ queue # <<>> /\ Head(queue) \notin Others
  /\ queue' = Tail(queue)
  /\ FailureEnds(Head(queue).transfer)
  /\ BlockReleased(Head(queue))
  /\ UNCHANGED <<files, strays, finalized>>

\* Another handler runs, which leaves the transfers alone ...
OtherEvent ==
  /\ queue # <<>> /\ Head(queue) \in Others
  /\ queue' = Tail(queue)
  /\ UNCHANGED <<files, transfers, blockVars, image, finalized>>

\* ... or takes them down and up again: app_file_transfer_demo_deinit and _init
\* in a link switch, _init alone at the start.  What is on the queue stays.
Reinit ==
  /\ queue # <<>> /\ Head(queue) \in Others
  /\ queue' = Tail(queue)
  /\ transfers' = [n \in DOMAIN transfers |-> [transfers[n] EXCEPT !.state = "over"]]
  /\ lent' = {} /\ strays' = {}
  /\ files' = Forgotten
  /\ UNCHANGED <<image, finalized>>

OtherQueued ==
  /\ HasRoom
  /\ \E e \in Others : queue' = Append(queue, e)
  /\ UNCHANGED <<files, transfers, blockVars, image, finalized>>

\* The device restarts: all but the images that were finalized is lost.
Restart ==
  /\ files' = NoFiles
  /\ transfers' = [n \in DOMAIN transfers |-> [transfers[n] EXCEPT !.state = "over"]]
  /\ lent' = {} /\ strays' = {}
  /\ image' = NoImage
  /\ queue' = BootQueue
  /\ UNCHANGED finalized

DfuInit ==
  /\ files = NoFiles /\ transfers = <<>> /\ lent = {} /\ strays = {} /\ image = NoImage
  /\ finalized = {} /\ queue = BootQueue

Callback(n) ==
  \/ DataQueued(n) \/ DataNotAllocated(n) \/ DataFindsNoRoom(n) \/ DataInDfuMode(n)
  \/ TransferEnds(n) \/ Finalize(n) \/ ReleaseScratch(n)

DfuNext ==
  \/ \E f \in FileIds : TransferAccepted(f) \/ TransferRejected(f)
  \/ \E n \in DOMAIN transfers : Callback(n)
  \/ WriteBlock \/ WriteFails \/ OtherEvent \/ OtherQueued
  \/ Reinit \/ Restart

DfuSpec == DfuInit /\ [][DfuNext]_dfuVars

-----------------------------------------------------------------------------
\* The table, the queue and the histories keep their types and bounds.
DfuTypeOK ==
  /\ files \in [Slots -> FileCtx]
  /\ transfers \in Seq([file : FileIds, sent : 0..Blocks, state : States])
  /\ Len(transfers) <= MaxTransferNo
  /\ lent \subseteq Event /\ strays \subseteq Event
  /\ image \in [open : BOOLEAN, by : [BlockNos -> Numbers \cup {None}]]
  /\ finalized \subseteq [transfer : Numbers, by : [BlockNos -> Numbers \cup {None}]]
  /\ queue \in Seq(Event \cup Others) /\ Len(queue) <= QueueSize

\* A transfer that the stack has scratch memory for owns one slot, with a
\* buffer, and no other such transfer has the same one.
ScratchIsOwned ==
  \A n \in DOMAIN transfers :
    transfers[n].state # "over" =>
      /\ \E s \in Slots : SlotsOf(transfers[n].file) = {s} /\ files[s].buffer
      /\ \A m \in DOMAIN transfers :
           transfers[m].state # "over" /\ transfers[m].file = transfers[n].file => m = n

\* An image that is finalized is the file of the transfer that finalizes it,
\* and all of it: no block is missing because the queue was full or a write
\* failed, and none is of an earlier transfer whose blocks were still queued.
FinalizedIsWhole == \A f \in finalized : \A b \in BlockNos : f.by[b] = f.transfer

\* A block that the stack has lent comes back to it, or its transfer is over:
\* the memory is not lost to the stack, unless the block never got its event and
\* the transfer was not cancelled for it.
BlockComesBack ==
  \A l \in Event : l \in lent ~> l \notin lent \/ l \in strays
=============================================================================
