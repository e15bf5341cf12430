---------------------------- MODULE SbdtShellProofs ----------------------------
(* Theorems about the `sbdt' shell (SbdtShell), for any number of files,     *)
(* entries, blocks and inputs and any queue.                                 *)
EXTENDS SbdtShell, FiniteSetTheorems, WellFoundedInduction, TLAPS

Transfer == [state : {"none", "open", "final", "ended"}, sent : 0..Blocks]

TableTypeOK ==
  /\ info \in [Slots -> FileIds \cup {Unused}]
  /\ transfer \in [FileIds -> Transfer]

\* A file has at most one entry.
OneEntry == \A f \in FileIds : \A s, t \in InfosOf(f) : s = t

\* The tables that the callbacks keep.
TableInv == TableTypeOK /\ OneEntry /\ TransferIsKnown

RestTypeOK ==
  /\ files \in [Slots -> FileCtx]
  /\ reject \in BOOLEAN /\ up \in BOOLEAN
  /\ lent \subseteq Block /\ delays \subseteq Answer
  /\ queue \in Seq(Event) /\ Len(queue) <= QueueSize
  /\ inputs \in 0..MaxInputs

-----------------------------------------------------------------------------
\* A set of slots that is not empty has a first one.
LEMMA FirstIsIn ==
  ASSUME NEW slots, slots \subseteq Slots, slots # {}
  PROVE  First(slots) \in slots
<1> DEFINE before == {p \in Nat \X Nat : p[1] < p[2]}
<1>1. PICK s \in slots : \A t \in slots : ~(<<t, s>> \in before)
  <2>1. IsWellFoundedOn(before, Nat)
    BY NatLessThanWellFounded DEF OpToRel
  <2>2. slots \subseteq Nat
    BY ScratchAssumption DEF Slots
  <2> QED
    BY <2>1, <2>2, WFMin
<1>2. ASSUME NEW t \in slots
      PROVE  s <= t
  <2>1. t \in Nat /\ s \in Nat /\ <<t, s>> \in Nat \X Nat
    BY ScratchAssumption DEF Slots
  <2> QED
    BY <1>1, <2>1
<1> QED
  BY <1>1, <1>2 DEF First

LEMMA EventTypes ==
  /\ Answer \subseteq Event
  /\ \A e \in Event : e.type \in {"release", "finalize", "cancel"} => e.file \in FileIds
BY DEF Event, Answer

-----------------------------------------------------------------------------
(* The table of transfers.                                                 *)

LEMMA WipedEntries ==
  ASSUME TableInv, NEW f \in FileIds
  PROVE  /\ Wiped(f) \in [Slots -> FileIds \cup {Unused}]
         /\ \A s \in Slots : Wiped(f)[s] # f
         /\ \A s \in Slots : \A g \in FileIds \ {f} : Wiped(f)[s] = g <=> info[s] = g
BY ScratchAssumption DEF TableInv, TableTypeOK, Wiped

\* The other files keep their entries, and f is not open without one.
LEMMA EntriesOf ==
  ASSUME TableInv, NEW f \in FileIds, TableTypeOK',
         \A s \in Slots : \A g \in FileIds \ {f} : info'[s] = g <=> info[s] = g,
         \A g \in FileIds \ {f} : transfer'[g].state = "open" => transfer[g].state = "open",
         \A s, t \in Slots : info'[s] = f /\ info'[t] = f => s = t,
         transfer'[f].state = "open" => \E s \in Slots : info'[s] = f
  PROVE  TableInv'
<1>1. OneEntry'
  BY DEF TableInv, OneEntry, InfosOf
<1>2. TransferIsKnown'
  BY DEF TableInv, TransferIsKnown, InfosOf
<1> QED
  BY <1>1, <1>2 DEF TableInv

\* The entries stay, and no transfer opens.
LEMMA NoneOpens ==
  ASSUME TableInv, info' = info, transfer' \in [FileIds -> Transfer],
         \A g \in FileIds : transfer'[g].state = "open" => transfer[g].state = "open"
  PROVE  TableInv'
BY DEF TableInv, TableTypeOK, OneEntry, TransferIsKnown, InfosOf

\* What a rejection and the end of a transfer leave of it.
LEMMA RejectedType ==
  ASSUME TableTypeOK, NEW f \in FileIds, Rejected(f)
  PROVE  /\ transfer' \in [FileIds -> Transfer] /\ transfer'[f].state # "open"
         /\ \A g \in FileIds \ {f} : transfer'[g] = transfer[g]
<1> DEFINE new == IF transfer[f].state = "none" THEN None
                  ELSE [transfer[f] EXCEPT !.state = "ended"]
<1>1. transfer[f] \in Transfer /\ transfer' = [transfer EXCEPT ![f] = new]
  BY DEF Rejected, TableTypeOK
<1>2. new \in Transfer /\ new.state # "open"
  BY <1>1, SbdtAssumption DEF Transfer, None
<1> QED
  BY <1>1, <1>2 DEF TableTypeOK

LEMMA EndsType ==
  ASSUME TableTypeOK, NEW f \in FileIds, Ends(f)
  PROVE  /\ transfer' \in [FileIds -> Transfer]
         /\ \A g \in FileIds : transfer'[g].state = "open" => transfer[g].state = "open"
<1> DEFINE new == IF transfer[f].state \in {"open", "final"}
                  THEN [transfer[f] EXCEPT !.state = "ended"] ELSE transfer[f]
<1>1. transfer[f] \in Transfer /\ transfer' = [transfer EXCEPT ![f] = new]
  BY DEF Ends, TableTypeOK
<1>2. new \in Transfer /\ (new.state = "open" => transfer[f].state = "open")
  BY <1>1 DEF Transfer
<1> QED
  BY <1>1, <1>2 DEF TableTypeOK

LEMMA TransferRequestTable ==
  ASSUME TableInv, NEW f \in FileIds, TransferRequest(f)
  PROVE  TableInv'
<1> DEFINE free == FreeEntries(Wiped(f))
           new == First(free)
<1>1. TableTypeOK
  BY DEF TableInv
<1>2. /\ Wiped(f) \in [Slots -> FileIds \cup {Unused}]
      /\ \A s \in Slots : Wiped(f)[s] # f
      /\ \A s \in Slots : \A g \in FileIds \ {f} : Wiped(f)[s] = g <=> info[s] = g
  BY WipedEntries
<1>3. CASE info' = Wiped(f) /\ Rejected(f)
  <2>1. TableTypeOK'
    BY <1>1, <1>2, <1>3, RejectedType DEF TableTypeOK
  <2> QED
    BY <1>1, <1>2, <1>3, <2>1, RejectedType, EntriesOf
<1>4. CASE /\ free # {} /\ info' = [Wiped(f) EXCEPT ![new] = f]
           /\ IF reject THEN Rejected(f) ELSE transfer' = [transfer EXCEPT ![f] = Begun]
  <2>1. new \in Slots /\ Wiped(f)[new] = Unused
    BY <1>4, FirstIsIn DEF FreeEntries
  <2>2. /\ info' \in [Slots -> FileIds \cup {Unused}]
        /\ \A s \in Slots : info'[s] = IF s = new THEN f ELSE Wiped(f)[s]
    BY <1>2, <1>4, <2>1
  <2>3. /\ transfer' \in [FileIds -> Transfer]
        /\ \A g \in FileIds \ {f} : transfer'[g] = transfer[g]
    <3>1. Begun \in Transfer
      BY SbdtAssumption DEF Begun, Transfer
    <3> QED
      BY <1>1, <1>4, <3>1, RejectedType DEF TableTypeOK
  <2>4. \A s \in Slots : \A g \in FileIds \ {f} : info'[s] = g <=> info[s] = g
    BY <1>2, <2>1, <2>2, ScratchAssumption
  <2>5. \A s, t \in Slots : info'[s] = f /\ info'[t] = f => s = t
    BY <1>2, <2>2
  <2>6. info'[new] = f /\ new \in Slots
    BY <2>1, <2>2
  <2> QED
    BY <2>2, <2>3, <2>4, <2>5, <2>6, EntriesOf DEF TableTypeOK
<1>5. CASE RejectedAtOnce(f)
  <2>1. TableTypeOK'
    BY <1>1, <1>5, RejectedType DEF RejectedAtOnce, TableTypeOK
  <2> QED
    BY <1>1, <1>5, <2>1, RejectedType, NoneOpens DEF RejectedAtOnce
<1> QED
  BY <1>3, <1>4, <1>5 DEF TransferRequest

LEMMA CallbackTable ==
  ASSUME TableInv, NEW f \in FileIds,
         DataReceived(f) \/ FinalizeRequest(f) \/ TransferEnds(f) \/ ReleaseScratch(f)
  PROVE  TableInv'
<1>1. TableTypeOK /\ transfer[f] \in Transfer
  BY DEF TableInv, TableTypeOK
<1>2. CASE DataReceived(f)
  <2> DEFINE new == [transfer[f] EXCEPT !.sent = transfer[f].sent + 1]
  <2>1. transfer' = [transfer EXCEPT ![f] = new] /\ transfer[f].sent < Blocks /\ info' = info
    BY <1>2 DEF DataReceived
  <2>2. new \in Transfer /\ new.state = transfer[f].state
    BY <1>1, <2>1, SbdtAssumption DEF Transfer
  <2> QED
    BY <1>1, <2>1, <2>2, NoneOpens DEF TableTypeOK
<1>3. CASE FinalizeRequest(f)
  <2> DEFINE new == [transfer[f] EXCEPT !.state = "final"]
  <2>1. transfer' = [transfer EXCEPT ![f] = new] /\ info' = info
    BY <1>3 DEF FinalizeRequest
  <2>2. new \in Transfer /\ new.state # "open"
    BY <1>1 DEF Transfer
  <2> QED
    BY <1>1, <2>1, <2>2, NoneOpens DEF TableTypeOK
<1>4. CASE TransferEnds(f)
  BY <1>1, <1>4, EndsType, NoneOpens DEF TransferEnds
<1>5. CASE ReleaseScratch(f)
  <2>1. transfer' = [transfer EXCEPT ![f] = None] /\ info' = Wiped(f)
    BY <1>5 DEF ReleaseScratch
  <2>2. None \in Transfer /\ None.state # "open"
    BY SbdtAssumption DEF None, Transfer
  <2>3. /\ transfer' \in [FileIds -> Transfer] /\ transfer'[f].state # "open"
        /\ \A g \in FileIds \ {f} : transfer'[g] = transfer[g]
    BY <1>1, <2>1, <2>2 DEF TableTypeOK
  <2>4. /\ info' \in [Slots -> FileIds \cup {Unused}]
        /\ \A s \in Slots : info'[s] # f
        /\ \A s \in Slots : \A g \in FileIds \ {f} : info'[s] = g <=> info[s] = g
    BY <2>1, WipedEntries
  <2> QED
    BY <2>3, <2>4, EntriesOf DEF TableTypeOK
<1> QED
  BY <1>2, <1>3, <1>4, <1>5

LEMMA EventTable ==
  ASSUME TableInv, queue \in Seq(Event), SidewalkThread
  PROVE  TableInv'
<1>1. TableTypeOK
  BY DEF TableInv
<1>2. queue # <<>> /\ Head(queue) \in Event
  BY DEF SidewalkThread, ReleaseBuffer, FinalizeResponse, Cancel, InitStack, DeinitStack, Take
<1>3. CASE ReleaseBuffer \/ InitStack
  BY <1>1, <1>3, NoneOpens DEF ReleaseBuffer, InitStack, TableTypeOK
<1>4. CASE FinalizeResponse
  <2>1. PICK f \in FileIds : f = Head(queue).file
    BY <1>2, <1>4, EventTypes DEF FinalizeResponse, Take
  <2> DEFINE new == IF transfer[f].state = "final" THEN [transfer[f] EXCEPT !.state = "ended"]
                    ELSE transfer[f]
  <2>2. transfer' = [transfer EXCEPT ![f] = new] /\ info' = info /\ transfer[f] \in Transfer
    BY <1>1, <1>4, <2>1 DEF FinalizeResponse, TableTypeOK
  <2>3. new \in Transfer /\ (new.state = "open" => transfer[f].state = "open")
    BY <2>2 DEF Transfer
  <2> QED
    BY <1>1, <2>2, <2>3, NoneOpens DEF TableTypeOK
<1>5. CASE Cancel
  <2>1. PICK f \in FileIds : f = Head(queue).file
    BY <1>2, <1>5, EventTypes DEF Cancel, Take
  <2>2. info' = info /\ (Ends(f) \/ UNCHANGED transfer)
    BY <1>5, <2>1 DEF Cancel
  <2>3. CASE Ends(f)
    BY <1>1, <2>2, <2>3, EndsType, NoneOpens
  <2>4. CASE UNCHANGED transfer
    BY <1>1, <2>2, <2>4, NoneOpens DEF TableTypeOK
  <2> QED
    BY <2>2, <2>3, <2>4
<1>6. CASE DeinitStack
  <2>1. /\ transfer' = [f \in FileIds |-> None]
        /\ info' \in [Slots -> FileIds \cup {Unused}]
        /\ \A s \in Slots : info'[s] = info[s] \/ info'[s] = Unused
    BY <1>1, <1>6 DEF DeinitStack, TableTypeOK
  <2>2. None \in Transfer /\ None.state # "open"
    BY SbdtAssumption DEF None, Transfer
  <2>3. TableTypeOK' /\ TransferIsKnown'
    BY <2>1, <2>2 DEF TableTypeOK, TransferIsKnown
  <2>4. OneEntry'
    BY <2>1, ScratchAssumption DEF TableInv, OneEntry, InfosOf
  <2> QED
    BY <2>3, <2>4 DEF TableInv
<1> QED
  BY <1>3, <1>4, <1>5, <1>6 DEF SidewalkThread

LEMMA TableStep ==
  ASSUME TableInv, queue \in Seq(Event), [Next]_vars
  PROVE  TableInv'
<1>1. CASE UNCHANGED <<info, transfer>>
  BY <1>1, NoneOpens DEF TableInv, TableTypeOK
<1> QED
  BY <1>1, TransferRequestTable, CallbackTable, EventTable
  DEF Next, DelayExpires, Command, Configure, stackVars, vars

-----------------------------------------------------------------------------
(* The scratch buffers, the answers and the queue.                         *)

LEMMA FilesKeepType ==
  ASSUME files \in [Slots -> FileCtx], NEW f \in FileIds,
         Created(f) \/ NotCreated(f) \/ Removed(f) \/ files' = Freed \/ UNCHANGED files
  PROVE  files' \in [Slots -> FileCtx]
<1> DEFINE free == First(SlotsOf(Unused))
           old == First(SlotsOf(f))
<1>1. CASE Created(f) \/ NotCreated(f)
  <2>1. CASE UNCHANGED files
    BY <2>1
  <2>2. CASE ~UNCHANGED files
    <3>1. /\ SlotsOf(Unused) # {}
          /\ \E b \in BOOLEAN : files' = [files EXCEPT ![free] = [id |-> f, buffer |-> b]]
      BY <1>1, <2>2 DEF Created, NotCreated, CanCreate
    <3>2. free \in Slots
      BY <3>1, FirstIsIn DEF SlotsOf
    <3> QED
      BY <3>1, <3>2 DEF FileCtx
  <2> QED
    BY <2>1, <2>2
<1>2. CASE Removed(f)
  <2>1. CASE SlotsOf(f) = {}
    BY <1>2, <2>1 DEF Removed
  <2>2. CASE SlotsOf(f) # {}
    <3>1. files' = [files EXCEPT ![old] = [id |-> Unused, buffer |-> FALSE]]
      BY <1>2, <2>2 DEF Removed
    <3>2. old \in Slots
      BY <2>2, FirstIsIn DEF SlotsOf
    <3> QED
      BY <3>1, <3>2 DEF FileCtx
  <2> QED
    BY <2>1, <2>2
<1>3. CASE files' = Freed
  BY <1>3 DEF Freed, FileCtx
<1> QED
  BY <1>1, <1>2, <1>3

LEMMA QueueKeepsType ==
  ASSUME queue \in Seq(Event), Len(queue) <= QueueSize,
         \/ UNCHANGED queue
         \/ queue # <<>> /\ queue' = Tail(queue)
         \/ \E event \in Event : Put(event)
  PROVE  queue' \in Seq(Event) /\ Len(queue') <= QueueSize
<1>1. QueueSize \in Nat
  BY SbdtAssumption
<1>2. CASE \E event \in Event : Put(event)
  BY <1>1, <1>2 DEF Put
<1> QED
  BY <1>1, <1>2

\* A block that is sent is one of the file's.
LEMMA NextBlockType ==
  ASSUME TableTypeOK, NEW f \in FileIds, transfer[f].sent < Blocks,
         NEW b, b = transfer[f].sent + 1
  PROVE  /\ [file |-> f, block |-> b] \in Block
         /\ [type |-> "release", file |-> f, block |-> b] \in Answer
<1>1. transfer[f] \in Transfer
  BY DEF TableTypeOK
<1>2. transfer[f].sent \in 0..Blocks
  BY <1>1 DEF Transfer
<1>3. b \in BlockNos
  BY <1>2, SbdtAssumption DEF BlockNos
<1> QED
  BY <1>3 DEF Block, Answer

LEMMA RestStep ==
  ASSUME RestTypeOK, TableTypeOK, [Next]_vars
  PROVE  RestTypeOK'
<1>1. ASSUME NEW f \in FileIds, TransferRequest(f)
      PROVE  RestTypeOK'
  <2>1. files' \in [Slots -> FileCtx]
    BY <1>1, FilesKeepType DEF TransferRequest, RejectedAtOnce, RestTypeOK
  <2>2. inputs' \in 0..MaxInputs /\ lent' \subseteq Block
    BY <1>1, SbdtAssumption DEF TransferRequest, RestTypeOK, Input
  <2>3. UNCHANGED <<reject, up, delays, queue>>
    BY <1>1 DEF TransferRequest
  <2> QED
    BY <2>1, <2>2, <2>3 DEF RestTypeOK
<1>2. ASSUME NEW f \in FileIds, DataReceived(f)
      PROVE  RestTypeOK'
  <2>1. PICK b : /\ b = transfer[f].sent + 1 /\ transfer[f].sent < Blocks
                 /\ lent' = lent \cup {[file |-> f, block |-> b]}
                 /\ delays' = IF InfosOf(f) = {} THEN delays ELSE BlockTimers(f, b)
    BY <1>2 DEF DataReceived
  <2>2. lent' \subseteq Block /\ delays' \subseteq Answer
    BY <2>1, NextBlockType DEF BlockTimers, RestTypeOK
  <2> QED
    BY <1>2, <2>2 DEF DataReceived, RestTypeOK
<1>3. ASSUME NEW f \in FileIds, FinalizeRequest(f)
      PROVE  RestTypeOK'
  <2>1. delays' \subseteq Answer
    BY <1>3 DEF FinalizeRequest, FinalizeTimers, Answer, RestTypeOK
  <2> QED
    BY <1>3, <2>1 DEF FinalizeRequest, RestTypeOK
<1>4. ASSUME NEW f \in FileIds, TransferEnds(f)
      PROVE  RestTypeOK'
  BY <1>4 DEF TransferEnds, Ends, RestTypeOK
<1>5. ASSUME NEW f \in FileIds, ReleaseScratch(f)
      PROVE  RestTypeOK'
  <2>1. files' \in [Slots -> FileCtx]
    BY <1>5, FilesKeepType DEF ReleaseScratch, RestTypeOK
  <2> QED
    BY <1>5, <2>1 DEF ReleaseScratch, RestTypeOK
<1>6. ASSUME NEW answer \in delays, DelayExpires(answer)
      PROVE  RestTypeOK'
  <2>1. answer \in Event /\ Put(answer)
    BY <1>6, EventTypes DEF DelayExpires, RestTypeOK
  <2>2. queue' \in Seq(Event) /\ Len(queue') <= QueueSize
    BY <2>1, QueueKeepsType DEF RestTypeOK
  <2> QED
    BY <1>6, <2>2 DEF DelayExpires, RestTypeOK, stackVars
<1>7. CASE Command
  <2>1. queue' \in Seq(Event) /\ Len(queue') <= QueueSize
    BY <1>7, QueueKeepsType DEF Command, RestTypeOK
  <2>2. inputs' \in 0..MaxInputs
    BY <1>7, SbdtAssumption DEF Command, Input, RestTypeOK
  <2> QED
    BY <1>7, <2>1, <2>2 DEF Command, RestTypeOK, stackVars
<1>8. CASE Configure
  <2>1. inputs' \in 0..MaxInputs
    BY <1>8, SbdtAssumption DEF Configure, Input, RestTypeOK
  <2> QED
    BY <1>8, <2>1 DEF Configure, RestTypeOK, stackVars
<1>9. CASE SidewalkThread
  <2>1. queue # <<>> /\ queue' = Tail(queue)
    BY <1>9 DEF SidewalkThread, ReleaseBuffer, FinalizeResponse, Cancel, InitStack, DeinitStack,
       Take
  <2>2. queue' \in Seq(Event) /\ Len(queue') <= QueueSize
    BY <2>1, QueueKeepsType DEF RestTypeOK
  <2>3. files' = Freed \/ UNCHANGED files
    BY <1>9 DEF SidewalkThread, ReleaseBuffer, FinalizeResponse, Cancel, InitStack, DeinitStack
  <2>4. files' \in [Slots -> FileCtx]
    <3>1. files \in [Slots -> FileCtx]
      BY DEF RestTypeOK
    <3>2. CASE files' = Freed
      BY <3>1, <3>2 DEF Freed, FileCtx
    <3> QED
      BY <2>3, <3>1, <3>2
  <2>5. lent' \subseteq Block /\ up' \in BOOLEAN /\ UNCHANGED <<reject, delays, inputs>>
    BY <1>9 DEF SidewalkThread, ReleaseBuffer, FinalizeResponse, Cancel, Ends, InitStack,
       DeinitStack, RestTypeOK
  <2> QED
    BY <2>2, <2>4, <2>5 DEF RestTypeOK
<1>10. CASE UNCHANGED vars
  BY <1>10 DEF vars, RestTypeOK
<1> QED
  BY <1>1, <1>2, <1>3, <1>4, <1>5, <1>6, <1>7, <1>8, <1>9, <1>10 DEF Next

-----------------------------------------------------------------------------
LEMMA InitSbdt == Init => TableInv /\ RestTypeOK
<1> SUFFICES ASSUME Init PROVE TableInv /\ RestTypeOK
  OBVIOUS
<1>1. None \in Transfer /\ None.state # "open"
  BY SbdtAssumption DEF None, Transfer
<1>2. TableTypeOK /\ TransferIsKnown
  BY <1>1 DEF Init, TableTypeOK, TransferIsKnown
<1>3. OneEntry
  BY ScratchAssumption DEF Init, OneEntry, InfosOf
<1>4. files \in [Slots -> FileCtx]
  BY DEF Init, NoFiles, FileCtx
<1>5. RestTypeOK
  <2>1. queue \in Seq(Event) /\ Len(queue) = 0 /\ QueueSize \in Nat
    BY SbdtAssumption DEF Init
  <2>2. inputs \in 0..MaxInputs
    BY SbdtAssumption DEF Init
  <2>3. reject \in BOOLEAN /\ up \in BOOLEAN /\ lent = {} /\ delays = {}
    BY DEF Init
  <2> QED
    BY <1>4, <2>1, <2>2, <2>3 DEF RestTypeOK
<1> QED
  BY <1>2, <1>3, <1>5 DEF TableInv

\* Whatever the stack asks for and the operator types, the shell's tables keep
\* their invariant.
THEOREM SbdtInvAlways == Spec => [](TableInv /\ RestTypeOK)
<1>1. (TableInv /\ RestTypeOK) /\ [Next]_vars => (TableInv /\ RestTypeOK)'
  BY TableStep, RestStep DEF TableInv, RestTypeOK
<1> QED
  BY <1>1, InitSbdt, PTL DEF Spec

\* sbdt_shell_file_transfer.c: the table of transfers has one entry for a file
\* at most, and the delayed answers, the queue and the buffers keep their types.
THEOREM SbdtTypeCorrect == Spec => []TypeOK
<1>1. TableInv /\ RestTypeOK => TypeOK
  <2> SUFFICES ASSUME TableInv, RestTypeOK PROVE TypeOK
    OBVIOUS
  <2>1. ASSUME NEW f \in FileIds
        PROVE  Cardinality(InfosOf(f)) <= 1
    <3>1. CASE InfosOf(f) = {}
      BY <3>1, FS_EmptySet
    <3>2. CASE InfosOf(f) # {}
      <4>1. PICK s \in InfosOf(f) : InfosOf(f) = {s}
        BY <3>2 DEF TableInv, OneEntry
      <4>2. Cardinality(InfosOf(f)) = 1
        BY <4>1, FS_Singleton
      <4> QED
        BY <4>2
    <3> QED
      BY <3>1, <3>2
  <2> QED
    BY <2>1 DEF TableInv, TableTypeOK, RestTypeOK, Transfer, TypeOK
<1> QED
  BY <1>1, SbdtInvAlways, PTL

\* An accepted transfer keeps its entry until the stack has released it, for
\* any number of files that share the table.
THEOREM TransferIsKnownAlways == Spec => []TransferIsKnown
<1>1. TableInv => TransferIsKnown
  BY DEF TableInv
<1> QED
  BY <1>1, SbdtInvAlways, PTL
-----------------------------------------------------------------------------
(* The answers that are due.                                               *)

\* No delay ends while the queue is full.  sidewalk_event_send drops the answer
\* otherwise, and nothing in the shell looks at its result.
Room == \A answer \in delays : DelayExpires(answer) => Len(queue) < QueueSize
NoAnswerLost == [][Room]_vars

\* The event that gives a block back.
GivesBack(l) == [type |-> "release", file |-> l.file, block |-> l.block]

LEMMA AnswerOfBlock ==
  ASSUME NEW l \in Block
  PROVE  /\ GivesBack(l) \in Answer /\ GivesBack(l).type = "release"
         /\ l = [file |-> GivesBack(l).file, block |-> GivesBack(l).block]
         /\ \A f \in FileIds : l \notin LentBy(f) => l.file # f \/ l \notin lent
BY DEF Block, Answer, GivesBack, LentBy

\* A delay that is running goes on, or it ends and its answer is queued.
LEMMA DelayStaysDue ==
  ASSUME RestTypeOK, [Next]_vars, [Room]_vars, NEW answer \in delays
  PROVE  Due(answer)'
<1>1. CASE DelayExpires(answer)
  <2>1. Len(queue) < QueueSize /\ queue \in Seq(Event)
    <3>1. vars' # vars
      BY <1>1 DEF DelayExpires, vars
    <3> QED
      BY <1>1, <3>1 DEF Room, RestTypeOK
  <2>2. queue' = Append(queue, answer)
    BY <1>1, <2>1 DEF DelayExpires, Put
  <2>3. Len(queue) + 1 \in 1..Len(queue') /\ queue'[Len(queue) + 1] = answer
    BY <2>1, <2>2
  <2> QED
    BY <2>3 DEF Due
<1>2. CASE answer \in delays'
  BY <1>2 DEF Due
<1>3. CASE ~DelayExpires(answer) /\ answer \notin delays'
  <2>1. \A other \in delays \ {answer} : ~DelayExpires(other)
    BY <1>3 DEF DelayExpires
  <2>2. delays \subseteq delays'
    BY <1>3, <2>1 DEF Next, TransferRequest, DataReceived, BlockTimers, FinalizeRequest,
       FinalizeTimers, TransferEnds, ReleaseScratch, Command, Configure, SidewalkThread,
       ReleaseBuffer, FinalizeResponse, Cancel, InitStack, DeinitStack, vars
  <2> QED
    BY <1>3, <2>2
<1> QED
  BY <1>1, <1>2, <1>3

\* The queue is left alone, put to, or its first event is handled.
LEMMA QueueSteps ==
  ASSUME [Next]_vars
  PROVE  \/ UNCHANGED queue
         \/ \E event : Put(event)
         \/ SidewalkThread /\ queue # <<>> /\ queue' = Tail(queue)
<1>1. ASSUME NEW f \in FileIds,
             \/ TransferRequest(f) \/ DataReceived(f) \/ FinalizeRequest(f)
             \/ TransferEnds(f) \/ ReleaseScratch(f)
      PROVE  UNCHANGED queue
  BY <1>1 DEF TransferRequest, DataReceived, FinalizeRequest, TransferEnds, ReleaseScratch
<1>2. ASSUME SidewalkThread
      PROVE  queue # <<>> /\ queue' = Tail(queue)
  BY <1>2 DEF SidewalkThread, ReleaseBuffer, FinalizeResponse, Cancel, InitStack, DeinitStack, Take
<1> QED
  BY <1>1, <1>2 DEF Next, DelayExpires, Command, Configure, vars

\* A queued event waits for its turn.
LEMMA QueuedStaysDue ==
  ASSUME RestTypeOK, [Next]_vars, NEW answer, NEW i \in 1..Len(queue), queue[i] = answer,
         SidewalkThread => Head(queue) # answer
  PROVE  Due(answer)'
<1>1. queue \in Seq(Event) /\ Len(queue) \in Nat
  BY DEF RestTypeOK
<1>2. CASE UNCHANGED queue
  BY <1>2 DEF Due
<1>3. CASE \E event : Put(event)
  <2>1. PICK event : Put(event)
    BY <1>3
  <2>2. CASE Len(queue) < QueueSize
    <3>1. queue' = Append(queue, event)
      BY <2>1, <2>2 DEF Put
    <3>2. i \in 1..Len(queue') /\ queue'[i] = queue[i]
      BY <1>1, <3>1
    <3> QED
      BY <3>2 DEF Due
  <2>3. CASE ~(Len(queue) < QueueSize)
    BY <2>1, <2>3 DEF Put, Due
  <2> QED
    BY <2>2, <2>3
<1>4. CASE SidewalkThread /\ queue # <<>> /\ queue' = Tail(queue)
  <2>1. i # 1
    BY <1>1, <1>4
  <2>2. i - 1 \in 1..Len(queue') /\ queue'[i - 1] = queue[i]
    BY <1>1, <1>4, <2>1
  <2> QED
    BY <2>2 DEF Due
<1> QED
  BY <1>2, <1>3, <1>4, QueueSteps

LEMMA StaysDue ==
  ASSUME RestTypeOK, [Next]_vars, [Room]_vars, NEW answer, Due(answer),
         SidewalkThread => Head(queue) # answer
  PROVE  Due(answer)'
BY DelayStaysDue, QueuedStaysDue DEF Due

\* A block that is lent now was lent before, or its timer has just been started:
\* the file of an open transfer has an entry.
LEMMA LentIsKnown ==
  ASSUME TableInv, RestTypeOK, [Next]_vars, NEW l \in lent', l \notin lent
  PROVE  GivesBack(l) \in delays'
<1>1. PICK f \in FileIds : DataReceived(f)
  BY DEF Next, TransferRequest, FinalizeRequest, TransferEnds, Ends, ReleaseScratch, DelayExpires,
     Command, Configure, SidewalkThread, ReleaseBuffer, FinalizeResponse, Cancel, InitStack,
     DeinitStack, vars, stackVars
<1>2. InfosOf(f) # {}
  BY <1>1 DEF TableInv, TransferIsKnown, DataReceived
<1>3. PICK b : l = [file |-> f, block |-> b] /\ delays' = BlockTimers(f, b)
  BY <1>1, <1>2 DEF DataReceived
<1> QED
  BY <1>3 DEF BlockTimers, GivesBack

\* The answer that is handled gives its block back.
LEMMA BlockStep ==
  ASSUME TableInv, RestTypeOK, AnswersAreDue, [Next]_vars, [Room]_vars, NEW l \in lent'
  PROVE  Due(GivesBack(l))'
<1>1. CASE l \notin lent
  BY <1>1, LentIsKnown DEF Due
<1>2. CASE l \in lent
  <2>1. Due(GivesBack(l)) /\ l \in Block
    BY <1>2 DEF AnswersAreDue, GivesBack, RestTypeOK
  <2>2. SidewalkThread => Head(queue) # GivesBack(l)
    <3> SUFFICES ASSUME SidewalkThread, Head(queue) = GivesBack(l) PROVE FALSE
      OBVIOUS
    <3>1. ReleaseBuffer
      BY <2>1, AnswerOfBlock DEF SidewalkThread, FinalizeResponse, Cancel, InitStack,
         DeinitStack, Take
    <3>2. l \notin lent'
      BY <2>1, <3>1, AnswerOfBlock DEF ReleaseBuffer
    <3> QED
      BY <3>2
  <2> QED
    BY <2>1, <2>2, StaysDue
<1> QED
  BY <1>1, <1>2

\* A transfer asks to finalize, and then its timer has just been started, or it
\* has asked before.
LEMMA FinalIsKnown ==
  ASSUME TableTypeOK, RestTypeOK, [Next]_vars, NEW f \in FileIds,
         transfer'[f].state = "final", transfer[f].state # "final"
  PROVE  [type |-> "finalize", file |-> f] \in delays'
<1>1. ASSUME NEW g \in FileIds, TransferRequest(g)
      PROVE  transfer'[f].state # "final"
  <2>1. transfer' = [transfer EXCEPT ![g] = Begun] \/ Rejected(g)
    BY <1>1 DEF TransferRequest, RejectedAtOnce
  <2>2. transfer[g].state \in {"none", "open"} /\ transfer[g] \in Transfer
    BY <1>1 DEF TransferRequest, TableTypeOK
  <2>3. CASE transfer' = [transfer EXCEPT ![g] = Begun]
    BY <2>3 DEF TableTypeOK, Begun
  <2>4. CASE Rejected(g)
    <3> DEFINE new == IF transfer[g].state = "none" THEN None
                      ELSE [transfer[g] EXCEPT !.state = "ended"]
    <3>1. transfer' = [transfer EXCEPT ![g] = new]
      BY <2>4 DEF Rejected
    <3>2. new.state # "final"
      BY <2>2 DEF Transfer, None
    <3>3. transfer'[f] = IF f = g THEN new ELSE transfer[f]
      BY <3>1 DEF TableTypeOK
    <3> QED
      BY <3>2, <3>3
  <2> QED
    BY <2>1, <2>3, <2>4
<1>2. ASSUME NEW g \in FileIds, DataReceived(g)
      PROVE  transfer'[f].state # "final"
  <2>1. transfer[g].state = "open"
    BY <1>2 DEF DataReceived
  <2>2. transfer' = [transfer EXCEPT ![g] = [transfer[g] EXCEPT !.sent = transfer[g].sent + 1]]
    BY <1>2 DEF DataReceived
  <2>3. transfer[g] \in Transfer /\ transfer \in [FileIds -> Transfer]
    BY DEF TableTypeOK
  <2> QED
    BY <2>1, <2>2, <2>3 DEF Transfer
<1>3. ASSUME NEW g \in FileIds, TransferEnds(g) \/ ReleaseScratch(g)
      PROVE  transfer'[f].state # "final"
  BY <1>3 DEF TransferEnds, Ends, ReleaseScratch, None, TableTypeOK, Transfer
<1>4. ASSUME SidewalkThread
      PROVE  transfer'[f].state # "final"
  <2>1. CASE ReleaseBuffer \/ InitStack
    BY <2>1 DEF ReleaseBuffer, InitStack
  <2>2. CASE FinalizeResponse
    BY <2>2 DEF FinalizeResponse, TableTypeOK, Transfer
  <2>3. CASE Cancel
    BY <2>3 DEF Cancel, Ends, TableTypeOK, Transfer
  <2>4. CASE DeinitStack
    BY <2>4 DEF DeinitStack, None
  <2> QED
    BY <1>4, <2>1, <2>2, <2>3, <2>4 DEF SidewalkThread
<1>5. ASSUME NEW g \in FileIds, FinalizeRequest(g)
      PROVE  [type |-> "finalize", file |-> f] \in delays'
  <2>1. transfer' = [transfer EXCEPT ![g] = [transfer[g] EXCEPT !.state = "final"]]
    BY <1>5 DEF FinalizeRequest
  <2>2. f = g
    BY <2>1 DEF TableTypeOK
  <2> QED
    BY <1>5, <2>2 DEF FinalizeRequest, FinalizeTimers
<1>6. ASSUME UNCHANGED transfer
      PROVE  FALSE
  BY <1>6
<1> QED
  BY <1>1, <1>2, <1>3, <1>4, <1>5, <1>6 DEF Next, DelayExpires, Command, Configure, vars, stackVars

LEMMA FinalStep ==
  ASSUME TableTypeOK, RestTypeOK, AnswersAreDue, [Next]_vars, [Room]_vars, NEW f \in FileIds,
         transfer'[f].state = "final"
  PROVE  Due([type |-> "finalize", file |-> f])'
<1> DEFINE answer == [type |-> "finalize", file |-> f]
<1>1. CASE transfer[f].state # "final"
  BY <1>1, FinalIsKnown DEF Due
<1>2. CASE transfer[f].state = "final"
  <2>1. Due(answer)
    BY <1>2 DEF AnswersAreDue
  <2>2. SidewalkThread => Head(queue) # answer
    <3> SUFFICES ASSUME SidewalkThread, Head(queue) = answer PROVE FALSE
      OBVIOUS
    <3>1. FinalizeResponse
      BY DEF SidewalkThread, ReleaseBuffer, Cancel, InitStack, DeinitStack, Take
    <3> DEFINE new == IF transfer[f].state = "final" THEN [transfer[f] EXCEPT !.state = "ended"]
                      ELSE transfer[f]
    <3>2. transfer' = [transfer EXCEPT ![f] = new] /\ new = [transfer[f] EXCEPT !.state = "ended"]
      <4>1. Head(queue).file = f
        OBVIOUS
      <4>2. transfer' = [transfer EXCEPT ![f] = new]
        BY <3>1, <4>1 DEF FinalizeResponse
      <4> QED
        BY <1>2, <4>2
    <3>3. transfer'[f].state = "ended"
      BY <3>2 DEF TableTypeOK, Transfer
    <3> QED
      BY <3>3
  <2>3. Due(answer)'
    BY <2>1, <2>2, StaysDue
  <2> QED
    BY <2>3
<1> QED
  BY <1>1, <1>2

\* sbdt_shell_file_transfer.c, sbdt_shell_events.c: unless a delay ends while
\* the queue is full, every block that is lent and every request to finalize
\* has its timer or its event, whatever is asked for, cancelled or restarted.
THEOREM AnswersStayDue == Spec /\ NoAnswerLost => []AnswersAreDue
<1>1. Init => AnswersAreDue
  BY DEF Init, AnswersAreDue, None
<1>2. /\ TableInv /\ RestTypeOK /\ AnswersAreDue
      /\ [Next]_vars /\ [Room]_vars
      => AnswersAreDue'
  <2> SUFFICES ASSUME TableInv, RestTypeOK, AnswersAreDue, [Next]_vars, [Room]_vars
               PROVE  AnswersAreDue'
    OBVIOUS
  <2>1. \A l \in lent' : Due(GivesBack(l))'
    BY BlockStep
  <2>2. \A f \in FileIds :
          transfer'[f].state = "final" => Due([type |-> "finalize", file |-> f])'
    BY FinalStep DEF TableInv
  <2> QED
    BY <2>1, <2>2 DEF AnswersAreDue, GivesBack
<1> QED
  BY <1>1, <1>2, SbdtInvAlways, PTL DEF Spec, NoAnswerLost
=============================================================================
