----------------------------- MODULE HelloDevice -----------------------------
(***************************************************************************)
(* The hello application (app/src/hello/app.c) in a build with firmware    *)
(* transfer and a persistent link mask: the session's life cycle           *)
(* (app/src/sidewalk_events.c) and the transfer of DfuTransfer on one      *)
(* device, with one queue, that restarts: because an image was finalized,  *)
(* after a factory reset, or because its power was cut.                    *)
(*                                                                         *)
(* Outside the repository are the settings in flash, the boot loader,      *)
(* which runs a staged image once and goes back unless the image confirms  *)
(* itself, and the stack, which reports a factory reset while it processes *)
(* its events.  The device has its manufacturing data.                     *)
(***************************************************************************)
EXTENDS DfuTransfer

CONSTANTS
  Links,          \* the links of the radio
  DefaultMask,    \* DEFAULT_LM
  NextMask,       \* the mask a link switch goes to from each other mask
  Missing,        \* no link mask is stored
  MaxPresses,     \* bound: buttons pressed in a behaviour
  MaxCuts         \* bound: power cuts in a behaviour

\* The handlers of this module's events.
Handler(name) == [handler |-> name]
Handlers ==
  {Handler(name) : name \in {"plain", "autostart", "factory_reset", "link_switch",
                             "enter_dfu", "exit_dfu", "reboot"}}

ASSUME HelloAssumption ==
  /\ DefaultMask \in (SUBSET Links) \ {{}}
  /\ NextMask \in [SUBSET Links -> (SUBSET Links) \ {{}}]
  /\ Missing \notin SUBSET Links
  /\ None \notin Numbers \cup {0}
  /\ MaxPresses \in Nat /\ MaxCuts \in Nat
  /\ Others = Handlers
  /\ Reboot = Handler("reboot")
  /\ BootQueue = <<Handler("plain"), Handler("autostart")>>

VARIABLES
  handle,     \* sid->handle: NULL, a session that was started ("live"), one that
              \* was only initialised ("idle"), or one that was deinitialised ("dead")
  mask,       \* sid->config.link_mask; no links before the first start
  stored,     \* the settings: the stored link mask
  resetting,  \* the stack: a factory reset that was asked for and not reported
  dfuMode,    \* BLE DFU mode
  goToDfu,    \* go_to_dfu_state: what the next long press asks for
  fw,         \* the boot loader: the image running, the one staged, the one
              \* to go back to; 0 is the image the device was made with
  wanted,     \* history: the masks a start may come up with
  opened,     \* history: the images that have initialised a session
  presses, cuts   \* how often a button was pressed, and the power cut

sessionVars == <<handle, mask, stored, resetting, dfuMode, goToDfu>>
vars == <<dfuVars, sessionVars, fw, wanted, opened, presses, cuts>>

-----------------------------------------------------------------------------
(* The buttons.                                                            *)

\* Mutant: a press that finds the queue full takes the oldest event's place.
AskedOverOldest(event) ==
  queue' = Append(IF HasRoom THEN queue ELSE Tail(queue), Handler(event))

\* A handler is queued; when the queue is full the press is lost.
Asked(event) == queue' = IF HasRoom THEN Append(queue, Handler(event)) ELSE queue

Press(event) ==
  /\ presses < MaxPresses
  /\ presses' = presses + 1
  /\ Asked(event)
  /\ UNCHANGED <<files, transfers, blockVars, image, finalized>>
  /\ UNCHANGED <<handle, mask, stored, resetting, dfuMode, fw, wanted, opened, cuts>>

\* "plain" stands for the handlers that change nothing here: a hello message,
\* a connection request, and the stack's events and statuses.
PressButton(event) == Press(event) /\ UNCHANGED goToDfu

\* The next press asks for the other, whether this one was queued or not.
PressDfu ==
  /\ Press(IF goToDfu THEN "enter_dfu" ELSE "exit_dfu")
  /\ goToDfu' = ~goToDfu

-----------------------------------------------------------------------------
(* A restart.                                                              *)

\* The boot loader: a staged image is run, and an image that has not confirmed
\* itself is left for the one before it.
Booted ==
  CASE fw.staged # None -> [running |-> fw.staged, staged |-> None, backup |-> fw.running]
    [] OTHER -> IF fw.backup # None
                THEN [running |-> fw.backup, staged |-> None, backup |-> None]
                ELSE fw

Restarts ==
  /\ Restart
  /\ handle' = "null" /\ mask' = {}
  /\ resetting' = FALSE /\ dfuMode' = FALSE /\ goToDfu' = TRUE
  /\ fw' = Booted
  /\ UNCHANGED <<opened, presses>>

Handles(event) == queue # <<>> /\ Head(queue) = Handler(event)

PowerCut ==
  /\ cuts < MaxCuts
  /\ cuts' = cuts + 1
  /\ Restarts /\ UNCHANGED <<stored, wanted>>

RebootEvent ==
  /\ Handles("reboot")
  /\ Restarts /\ UNCHANGED <<stored, wanted, cuts>>

Initialised == handle \in {"live", "idle"}

\* on_factory_reset, in sid_process: the device restarts, or cannot.
FactoryResetReported ==
  /\ Initialised /\ resetting
  /\ \/ Restarts /\ UNCHANGED <<stored, wanted, cuts>>
     \/ /\ resetting' = FALSE
        /\ UNCHANGED <<dfuVars, handle, mask, stored, dfuMode, goToDfu, fw, wanted, opened,
                       presses, cuts>>

-----------------------------------------------------------------------------
(* The handlers of the session.                                            *)

\* settings_utils_link_mask_set: what is stored, and so may come back; a write
\* that fails leaves what was there.
Stores(m, meant) ==
  \/ stored' = m /\ wanted' = {meant}
  \/ stored' = stored /\ wanted' = wanted \cup {meant}

\* Mutant: the image confirms itself before it has opened a session.
ConfirmedAtOnce(ok) == [fw EXCEPT !.backup = None]

\* boot_write_img_confirmed, which the handler comes to with a session only.
Confirmed(ok) == IF ok THEN [fw EXCEPT !.backup = None] ELSE fw

\* Mutant: a mask of no links is taken as it is stored.
MaskOfAnything == IF stored = Missing THEN DefaultMask ELSE stored

MaskOfStored == IF stored \in {Missing, {}} THEN DefaultMask ELSE stored

\* settings_utils_link_mask_get: the mask that is stored ...
MaskRead ==
  /\ stored # Missing
  /\ mask' = MaskOfStored
  /\ UNCHANGED <<stored, wanted>>

\* ... or none, because none is stored or because it cannot be read: the default
\* is taken, and stored in its place.
MaskNotRead ==
  /\ mask' = DefaultMask
  /\ Stores(DefaultMask, DefaultMask)

\* sidewalk_event_autostart: the image confirms itself once the session is
\* initialised, and also if it cannot be started.
Autostart ==
  /\ Handles("autostart") /\ handle = "null"
  /\ MaskRead \/ MaskNotRead
  /\ \/ /\ handle' \in {"live", "idle"}
        /\ fw' \in {fw, Confirmed(TRUE)}
        /\ opened' = opened \cup {fw.running}
        /\ Reinit
     \/ /\ handle' = handle
        /\ fw' = Confirmed(FALSE)
        /\ UNCHANGED opened
        /\ OtherEvent
  /\ UNCHANGED <<resetting, dfuMode, goToDfu, presses, cuts>>

\* sidewalk_event_factory_reset: the stored mask is cleared, whatever the
\* stack then answers.
FactoryReset ==
  /\ Handles("factory_reset") /\ handle # "null"
  /\ Stores({}, DefaultMask)
  /\ resetting' \in {resetting, Initialised}
  /\ OtherEvent
  /\ UNCHANGED <<handle, mask, dfuMode, goToDfu, fw, opened, presses, cuts>>

\* Mutant: the mask is stored before the next one is worked out.
StoresOld(m) == Stores(mask, m)

StoresNew(m) == Stores(m, m)

\* sidewalk_event_link_switch: the mask is stored, and the stack is taken down
\* and up again, or not up: initialising it may fail, and so may starting it.
LinkSwitch ==
  /\ Handles("link_switch") /\ handle # "null"
  /\ mask' = NextMask[mask]
  /\ StoresNew(NextMask[mask])
  /\ handle' \in {"live", "idle", "null", "dead"}
  /\ resetting' \in {FALSE, resetting}
  /\ Reinit
  /\ UNCHANGED <<dfuMode, goToDfu, fw, opened, presses, cuts>>

\* sid_process, within the switch, reports the factory reset.
LinkSwitchResets ==
  /\ Handles("link_switch") /\ Initialised /\ resetting
  /\ StoresNew(NextMask[mask])
  /\ Restarts /\ UNCHANGED cuts

\* Without a session a handler only logs, as the ones of "plain" do with one.
HandlerLogs ==
  /\ \/ Handles("plain")
     \/ Handles("autostart") /\ handle # "null"
     \/ (Handles("factory_reset") \/ Handles("link_switch")) /\ handle = "null"
  /\ OtherEvent
  /\ UNCHANGED <<sessionVars, fw, wanted, opened, presses, cuts>>

EnterDfuMode ==
  /\ Handles("enter_dfu")
  /\ dfuMode' \in {dfuMode, TRUE}
  /\ OtherEvent
  /\ UNCHANGED <<handle, mask, stored, resetting, goToDfu, fw, wanted, opened, presses, cuts>>

ExitDfuMode ==
  /\ Handles("exit_dfu")
  /\ dfuMode' \in {dfuMode, FALSE}
  /\ OtherEvent
  /\ UNCHANGED <<handle, mask, stored, resetting, goToDfu, fw, wanted, opened, presses, cuts>>

-----------------------------------------------------------------------------
(* The firmware transfer.                                                  *)

\* An image that is begun takes the place of the one that was staged.
Unstaged == [fw EXCEPT !.staged = IF image' = image THEN @ ELSE None]

Request(f) ==
  /\ handle = "live"
  /\ (~dfuMode /\ TransferAccepted(f)) \/ TransferRejected(f)
  /\ fw' = Unstaged
  /\ UNCHANGED <<sessionVars, wanted, opened, presses, cuts>>

\* What the library finalizes is staged.
Finalizes(n) ==
  /\ handle = "live"
  /\ Finalize(n)
  /\ fw' = [fw EXCEPT !.staged = IF finalized' # finalized THEN n ELSE @]
  /\ UNCHANGED <<sessionVars, wanted, opened, presses, cuts>>

Transfers(n) ==
  /\ handle = "live"
  /\ \/ (DataQueued(n) \/ DataNotAllocated(n) \/ DataFindsNoRoom(n)) /\ ~dfuMode
     \/ DataInDfuMode(n) /\ dfuMode
     \/ TransferEnds(n) \/ ReleaseScratch(n)
  /\ UNCHANGED <<sessionVars, fw, wanted, opened, presses, cuts>>

BlockEvent ==
  /\ WriteBlock \/ WriteFails
  /\ UNCHANGED <<sessionVars, fw, wanted, opened, presses, cuts>>

-----------------------------------------------------------------------------
Init ==
  /\ DfuInit
  /\ handle = "null" /\ mask = {}
  /\ stored \in {Missing, {}}
  /\ resetting = FALSE /\ dfuMode = FALSE /\ goToDfu = TRUE
  /\ fw = [running |-> 0, staged |-> None, backup |-> None]
  /\ wanted = {MaskOfStored} /\ opened = {0}
  /\ presses = 0 /\ cuts = 0

SidewalkThread ==
  \/ Autostart \/ FactoryReset \/ LinkSwitch \/ LinkSwitchResets \/ HandlerLogs
  \/ EnterDfuMode \/ ExitDfuMode \/ RebootEvent \/ BlockEvent

Next ==
  \/ SidewalkThread
  \/ \E event \in {"plain", "factory_reset", "link_switch"} : PressButton(event)
  \/ PressDfu
  \/ \E f \in FileIds : Request(f)
  \/ \E n \in DOMAIN transfers : Finalizes(n) \/ Transfers(n)
  \/ FactoryResetReported \/ PowerCut

Spec == Init /\ [][Next]_vars

\* The sidewalk thread handles its events.
FairSpec == Spec /\ WF_vars(SidewalkThread)

-----------------------------------------------------------------------------
\* The session, the settings and the boot loader keep their types; the device
\* is never left with a mask of no links while it has a session.
TypeOK ==
  /\ DfuTypeOK
  /\ handle \in {"null", "live", "idle", "dead"}
  /\ mask \in SUBSET Links /\ (handle # "null" => mask # {})
  /\ stored \in {Missing} \cup SUBSET Links
  /\ {resetting, dfuMode, goToDfu} \subseteq BOOLEAN
  /\ fw \in [running : Numbers \cup {0}, staged : Numbers \cup {None},
             backup : Numbers \cup {0, None}]
  /\ wanted \subseteq (SUBSET Links) \ {{}}
  /\ opened \subseteq Numbers \cup {0}
  /\ presses \in 0..MaxPresses /\ cuts \in 0..MaxCuts

\* Every step of the device is a step of the firmware transfer or leaves it
\* alone: what holds of DfuTransfer holds while the session is switched, reset
\* and restarted around it.
RefinesDfu == DfuSpec

\* app/Kconfig, SID_END_DEVICE_PERSISTENT_LINK_MASK: a start comes up with the
\* mask of the last link switch that was handled, or with the default when a
\* factory reset was handled since, unless that one could not be stored;
\* wherever the power is cut.  The code adds one case: a start that cannot read
\* the mask comes up with the default and takes it for the mask from then on.
MaskComesBack == [][mask = {} /\ mask' # {} => mask' \in wanted']_vars

\* Whatever the power, a full queue and failing starts do, the image the boot
\* loader runs without a way back is one that has initialised a session, and one
\* that was finalized whole (or the one the device was made with).
KeptImageWorks ==
  fw.backup = None =>
    /\ fw.running \in opened
    /\ fw.running # 0 => \E f \in finalized :
         f.transfer = fw.running /\ \A b \in BlockNos : f.by[b] = fw.running
=============================================================================
