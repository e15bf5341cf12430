------------------------------ MODULE SbdtShell ------------------------------
(***************************************************************************)
(* The `sbdt' shell (app/src/cli/sbdt_shell*.c): bulk data transfers whose *)
(* data is only looked at.  The stack asks for a file, lends its blocks    *)
(* and asks to finalize it; the shell answers each after a delay that the  *)
(* operator sets, with a timer that queues an event for the sidewalk       *)
(* thread.  A file that is accepted has an entry in transfer_info and a    *)
(* scratch buffer.                                                         *)
(*                                                                         *)
(* The stack is outside this repository.  It has one transfer for a file   *)
(* id, may end it at any time and then has its blocks back, and releases   *)
(* the scratch buffer before it asks for the file again.  A request that   *)
(* is repeated during the transfer starts it again, or ends it if it is    *)
(* rejected.  It does not refuse to cancel a transfer whose block arrives  *)
(* in BLE DFU mode, in which the device may be at any time, and the        *)
(* delayed answers are always allocated: a block would be lost otherwise.  *)
(* The CRC of the data is only logged and left out.                        *)
(***************************************************************************)
EXTENDS ScratchBuffer, Sequences, FiniteSets

CONSTANTS
  Blocks,     \* the number of blocks of a file
  QueueSize,  \* CONFIG_SIDEWALK_THREAD_QUEUE_SIZE
  MaxInputs   \* bound: requests of the stack and commands of the operator

ASSUME SbdtAssumption ==
  Blocks \in Nat \ {0} /\ QueueSize \in Nat \ {0} /\ MaxInputs \in Nat

VARIABLES
  info,      \* transfer_info: the file of each entry that is consumed
  reject,    \* sbdt_context.transfer_request_action
  up,        \* the stack: bulk data transfer is initialised
  transfer,  \* the stack: its transfer of each file
  lent,      \* the stack: the blocks the application has
  delays,    \* the running timers, by the event they queue
  queue,     \* the sidewalk thread's queue
  inputs     \* requests and commands so far (bound)

vars == <<files, info, reject, up, transfer, lent, delays, queue, inputs>>
stackVars == <<up, transfer, lent>>

BlockNos == 1..Blocks
Block == [file : FileIds, block : BlockNos]
Answer ==
       [type : {"release"}, file : FileIds, block : BlockNos]
  \cup [type : {"finalize"}, file : FileIds]
Event == Answer \cup [type : {"cancel"}, file : FileIds] \cup [type : {"init", "deinit"}]

None  == [state |-> "none", sent |-> 0]
Begun == [state |-> "open", sent |-> 0]
LentBy(f) == {l \in lent : l.file = f}

\* get_file_info_by_id
InfosOf(f) == {s \in Slots : info[s] = f}

\* Mutant: the entry of the running transfer is not released.
EntryKept(f) == info

\* The table without the file's entry (release_info_instance).
Wiped(f) == [s \in Slots |-> IF info[s] = f THEN Unused ELSE info[s]]

\* Mutant: an entry that is consumed is taken all the same.
AnyEntry(table) == Slots

FreeEntries(table) == {s \in Slots : table[s] = Unused}

Put(event) == queue' = IF Len(queue) < QueueSize THEN Append(queue, event) ELSE queue

Input == inputs < MaxInputs /\ inputs' = inputs + 1

-----------------------------------------------------------------------------
(* The callbacks, on the sidewalk thread.                                  *)

\* What a rejection means to the stack: a running transfer ends.
Rejected(f) ==
  transfer' = [transfer EXCEPT ![f] = IF @.state = "none" THEN None ELSE [@ EXCEPT !.state = "ended"]]

\* The device is in BLE DFU mode.
RejectedAtOnce(f) == Rejected(f) /\ UNCHANGED <<files, info>>

\* on_sbdt_transfer_request: an entry, then a buffer, for a file that has
\* neither.  The entry of an earlier request is released first.  In BLE DFU mode
\* the request is rejected before anything is looked at.
TransferRequest(f) ==
  /\ up /\ transfer[f].state \in {"none", "open"} /\ Input
  /\ LET free == FreeEntries(Wiped(f))
     IN \/ /\ free = {}
           /\ info' = Wiped(f) /\ Rejected(f)
           /\ UNCHANGED files
        \/ /\ free # {} /\ Created(f)
           /\ info' = [Wiped(f) EXCEPT ![First(free)] = f]
           /\ IF reject THEN Rejected(f) ELSE transfer' = [transfer EXCEPT ![f] = Begun]
        \/ /\ free # {} /\ NotCreated(f)
           /\ info' = Wiped(f) /\ Rejected(f)
        \/ RejectedAtOnce(f)
  /\ lent' = lent \ LentBy(f)
  /\ UNCHANGED <<reject, up, delays, queue>>

\* Mutant: one timer for all blocks, started again.
OneBlockTimer(f, b) ==
  {d \in delays : d.type # "release"} \cup {[type |-> "release", file |-> f, block |-> b]}

\* Each block has a timer of its own.
BlockTimers(f, b) == delays \cup {[type |-> "release", file |-> f, block |-> b]}

\* on_sbdt_data_received: a timer that will give the block back; the data of a
\* file without an entry is ignored.
DataReceived(f) ==
  /\ transfer[f].state = "open" /\ transfer[f].sent < Blocks
  /\ LET b == transfer[f].sent + 1
     IN /\ transfer' = [transfer EXCEPT ![f].sent = b]
        /\ lent' = lent \cup {[file |-> f, block |-> b]}
        /\ delays' = IF InfosOf(f) = {} THEN delays ELSE BlockTimers(f, b)
  /\ UNCHANGED <<files, info, reject, up, queue, inputs>>

\* Mutant: one timer for the answers to all files.
OneFinalizeTimer(f) == {d \in delays : d.type # "finalize"} \cup {[type |-> "finalize", file |-> f]}

\* Each request to finalize has a timer of its own.
FinalizeTimers(f) == delays \cup {[type |-> "finalize", file |-> f]}

\* on_sbdt_finalize_request: the stack has all blocks back.
FinalizeRequest(f) ==
  /\ transfer[f].state = "open" /\ transfer[f].sent = Blocks /\ LentBy(f) = {}
  /\ transfer' = [transfer EXCEPT ![f].state = "final"]
  /\ delays' = FinalizeTimers(f)
  /\ UNCHANGED <<files, info, reject, up, lent, queue, inputs>>

\* The stack has ended the transfer.
Ends(f) ==
  /\ transfer' = [transfer EXCEPT ![f] = IF @.state \in {"open", "final"} THEN [@ EXCEPT !.state = "ended"] ELSE @]
  /\ lent' = lent \ LentBy(f)

\* on_sbdt_cancel_request, on_sbdt_error: logged.  The same comes of a block that
\* arrives in BLE DFU mode: on_sbdt_data_received asks the stack to cancel.
TransferEnds(f) ==
  /\ transfer[f].state \in {"open", "final"}
  /\ Ends(f)
  /\ UNCHANGED <<files, info, reject, up, delays, queue, inputs>>

\* on_release_scratch_buffer
ReleaseScratch(f) ==
  /\ transfer[f].state = "ended"
  /\ transfer' = [transfer EXCEPT ![f] = None]
  /\ info' = Wiped(f)
  /\ Removed(f)
  /\ UNCHANGED <<reject, up, lent, delays, queue, inputs>>

-----------------------------------------------------------------------------
(* The timers and the shell.                                               *)

\* on_sbdt_data_received_delayed, on_sbdt_finalize_request_delayed
DelayExpires(answer) ==
  /\ answer \in delays
  /\ delays' = delays \ {answer}
  /\ Put(answer)
  /\ UNCHANGED <<files, info, reject, stackVars, inputs>>

\* sbdt init, deinit and cancel
Command ==
  /\ Input
  /\ \E event \in Event \ Answer : Put(event)
  /\ UNCHANGED <<files, info, reject, stackVars, delays>>

\* sbdt cfg -tr
Configure ==
  /\ Input
  /\ reject' \in BOOLEAN
  /\ UNCHANGED <<files, info, stackVars, delays, queue>>

-----------------------------------------------------------------------------
(* The events.                                                             *)

Take(type) == queue # <<>> /\ Head(queue).type = type /\ queue' = Tail(queue)

\* sbdt_event_release_buffer: the stack takes back a block that it has lent.
ReleaseBuffer ==
  /\ Take("release")
  /\ lent' = lent \ {[file |-> Head(queue).file, block |-> Head(queue).block]}
  /\ UNCHANGED <<files, info, reject, up, transfer, delays, inputs>>

\* sbdt_event_finalize_request_response: a transfer that has not asked for it
\* is not finalized.
FinalizeResponse ==
  /\ Take("finalize")
  /\ transfer' = [transfer EXCEPT ![Head(queue).file] =
                    IF @.state = "final" THEN [@ EXCEPT !.state = "ended"] ELSE @]
  /\ UNCHANGED <<files, info, reject, up, lent, delays, inputs>>

\* sbdt_event_cancel, which the stack may refuse
Cancel ==
  /\ Take("cancel")
  /\ Ends(Head(queue).file) \/ UNCHANGED <<transfer, lent>>
  /\ UNCHANGED <<files, info, reject, up, delays, inputs>>

\* sbdt_event_init: the scratch buffers are freed, also those of the transfers of
\* a stack that is initialised already.
InitStack ==
  /\ Take("init")
  /\ up' = TRUE
  /\ files' = Freed
  /\ UNCHANGED <<info, reject, transfer, lent, delays, inputs>>

\* sbdt_event_deinit: the stack ends its transfers, and may release their
\* scratch buffers; the buffers that are left are freed.
DeinitStack ==
  /\ Take("deinit")
  /\ up' = FALSE
  /\ transfer' = [f \in FileIds |-> None]
  /\ lent' = {}
  /\ info' \in {info, [s \in Slots |-> IF info[s] \in FileIds /\ transfer[info[s]].state # "none"
                                       THEN Unused ELSE info[s]]}
  /\ files' = Freed
  /\ UNCHANGED <<reject, delays, inputs>>

SidewalkThread ==
  ReleaseBuffer \/ FinalizeResponse \/ Cancel \/ InitStack \/ DeinitStack

Init ==
  /\ files = NoFiles /\ info = [s \in Slots |-> Unused]
  /\ reject = FALSE /\ up = FALSE
  /\ transfer = [f \in FileIds |-> None] /\ lent = {}
  /\ delays = {} /\ queue = <<>> /\ inputs = 0

Next ==
  \/ \E f \in FileIds :
       TransferRequest(f) \/ DataReceived(f) \/ FinalizeRequest(f) \/ TransferEnds(f) \/ ReleaseScratch(f)
  \/ \E answer \in delays : DelayExpires(answer)
  \/ Command \/ Configure
  \/ SidewalkThread

Spec == Init /\ [][Next]_vars

\* Timers expire and the sidewalk thread handles its events.
FairSpec ==
  /\ Spec
  /\ WF_vars(SidewalkThread)
  /\ \A answer \in Answer : WF_vars(DelayExpires(answer))

-----------------------------------------------------------------------------
\* A file has at most one entry.
TypeOK ==
  /\ files \in [Slots -> FileCtx]
  /\ info \in [Slots -> FileIds \cup {Unused}]
  /\ \A f \in FileIds : Cardinality(InfosOf(f)) <= 1
  /\ {reject, up} \subseteq BOOLEAN
  /\ transfer \in [FileIds -> [state : {"none", "open", "final", "ended"}, sent : 0..Blocks]]
  /\ lent \subseteq Block
  /\ delays \subseteq Answer
  /\ queue \in Seq(Event) /\ Len(queue) <= QueueSize
  /\ inputs \in 0..MaxInputs

\* The data of a transfer that the shell has accepted is never ignored: its
\* file keeps its entry until the stack has released the transfer, whatever
\* other files are asked for, asked for again, or released.
TransferIsKnown == \A f \in FileIds : transfer[f].state = "open" => InfosOf(f) # {}

\* What the shell owes the stack has been neither forgotten nor taken by the
\* answer to another file: a timer or an event will give back each block that is
\* lent and answer each request to finalize, whichever files come, go or are
\* asked for again meanwhile.
Due(answer) == answer \in delays \/ \E i \in 1..Len(queue) : queue[i] = answer
AnswersAreDue ==
  /\ \A l \in lent : Due([type |-> "release", file |-> l.file, block |-> l.block])
  /\ \A f \in FileIds :
       transfer[f].state = "final" => Due([type |-> "finalize", file |-> f])

\* A block that the stack has lent comes back to it, and a request to finalize
\* a file is answered, as long as the queue has room: each has a timer or an
\* event, and no restart of the transfer takes it away.
BlockComesBack == \A l \in Block : l \in lent ~> l \notin lent
FinalizeIsAnswered ==
  \A f \in FileIds : transfer[f].state = "final" ~> transfer[f].state # "final"
=============================================================================
