----------------------------- MODULE ScratchBuffer -----------------------------
(***************************************************************************)
(* The table of scratch buffers (app/src/sbdt/scratch_buffer.c): a slot    *)
(* for each bulk data transfer that may run in parallel, with the id of    *)
(* the file it is for and the buffer allocated for it.                     *)
(***************************************************************************)
EXTENDS Naturals

CONSTANTS
  FileIds,       \* the file ids
  MaxTransfers,  \* CONFIG_SBDT_MAX_PARALEL_TRANSFERS
  Unused         \* SCRATCH_FILE_ID_UNUSED

ASSUME ScratchAssumption == MaxTransfers \in Nat \ {0} /\ Unused \notin FileIds

VARIABLE files

Slots == 1..MaxTransfers
FileCtx == [id : FileIds \cup {Unused}, buffer : BOOLEAN]

SlotsOf(id) == {s \in Slots : files[s].id = id}

First(slots) == CHOOSE s \in slots : \A t \in slots : s <= t

\* Mutant: only the first free slot is looked for, not the id.
AnyFree(id) == SlotsOf(Unused) # {}

CanCreate(id) == SlotsOf(id) = {} /\ SlotsOf(Unused) # {}

\* scratch_buffer_create: a buffer ...
Created(id) ==
  /\ CanCreate(id)
  /\ files' = [files EXCEPT ![First(SlotsOf(Unused))] = [id |-> id, buffer |-> TRUE]]

\* ... or NULL: nothing to give, or no memory, which leaves the slot taken.
NotCreated(id) ==
  \/ ~CanCreate(id) /\ UNCHANGED files
  \/ CanCreate(id) /\ files' = [files EXCEPT ![First(SlotsOf(Unused))] = [id |-> id, buffer |-> FALSE]]

\* scratch_buffer_remove
Removed(id) ==
  files' = IF SlotsOf(id) = {} THEN files
           ELSE [files EXCEPT ![First(SlotsOf(id))] = [id |-> Unused, buffer |-> FALSE]]

\* scratch_buffer_init: the ids are forgotten, and the buffers are not freed.
Forgotten == [s \in Slots |-> [files[s] EXCEPT !.id = Unused]]

\* scratch_bufer_deinit: the buffers of the ids that are left are freed.
Freed ==
  [s \in Slots |-> [id |-> Unused, buffer |-> files[s].buffer /\ files[s].id = Unused]]

\* The table before anything runs, once initialised.
NoFiles == [s \in Slots |-> [id |-> Unused, buffer |-> FALSE]]
=============================================================================
