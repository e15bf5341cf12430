# Verification of the Sidewalk demo application

This directory is a verification project for the firmware in `app/` and
`fsk_probe/`: TLA+ modules that model its components, TLC configurations that
check them on small instances, and theorems that TLAPS proves for every instance.

## 1. The system

The firmware is an Amazon Sidewalk end device. The Sidewalk stack (library
code outside this repository) runs on one thread; everything the program asks
of it goes through a bounded queue of handlers.

| component | source | state | operations |
|---|---|---|---|
| event queue and sidewalk thread | `app/src/sidewalk.c` | `sidewalk_thread_msgq`, `sid->handle` | queue a handler; take one and run it to its end |
| session events | `app/src/sidewalk_events.c` | `sid->config.link_mask`, stored link mask, session | autostart, link switch, factory reset, new status, send, connect, exit, reboot |
| hello-flow | `app/src/cli/app_dut.c` | the 12 `dut_flow_*` variables, one timer | set, switch, send, cancel, status, timeout, tx result, init, deinit, start, stop |
| DUT shell | `app/src/cli/app_shell.c`, `app/src/cli/app.c` | `cli_cfg` (response id, link, destination) | parses a command, builds its context, queues its handler |
| sensor monitoring | `app/src/sensor_monitoring/*` | TX state machine, TX and RX queues, button masks, LEDs | status, timers, buttons, received messages |
| hello application | `app/src/hello/app.c` | `go_to_dfu_state`, `dfu_mode`, auto-switch work | buttons, echo, status, start and restart |
| bulk data transfer | `app/src/sbdt/*`, `app/src/cli/sbdt_shell*` | scratch slots, file infos | requests, data, finalize, cancel, release |
| certificates | `app/src/cli/sid_on_dev_cert_cli.c` | base64 contexts, chain, key | start, write, commit, store |
| CLI companion | `app/src/cli/app_cli_ui.c` | ship request, NUS connection, advertiser, LED pattern | ship mode, connect, disconnect, recycle |
| location shell | `app/src/cli/location_shell*.c` | `dult_conf`, the contexts of its commands | parse, queue, apply to `dult_conf` or call the location library |
| FSK probe | `fsk_probe/src/main.c` | radio event queue, semaphore, `rssi_stats`, `rx_packet` | receive windows, periodic transmit |

What is hard about it: three kinds of context (the sidewalk thread, the system
work queue, shells and callbacks) share the session and the flow's state
without locks; a queue that is full drops timeouts, results and statuses; a
timer's event may be handled long after the timer expired; the stack reports
on messages whose sender has gone; every stack call may fail halfway through a
transition. `PROJECT.json` lists these hazards at their lines.

How the parts interact:

- *Calls on the sidewalk thread.* `sidewalk_event_send` puts a handler and its
  context on `sidewalk_thread_msgq` without waiting; the thread runs one
  handler to its end, then the next. `sid_process` is such a handler, and the
  stack's callbacks run inside it. So callbacks and handlers are atomic to one
  another; timers, work items, buttons and shells are not.
- *Shared state outside the queue.* `dut_flow_mode_is_enabled` is read by the
  auto-switch on the system work queue; the button masks and their flag are
  written by button callbacks and read by the TX thread; `nus_restart_pending`
  passes from one Bluetooth callback to another.
- *Timers and work.* The flow's timeout, the auto-switch, the ship-mode request
  and the NUS restart are work items of one system work queue. A work item that
  waits (ship mode) holds the others up.

What makes each component correct:

| component | must hold |
|---|---|
| hello-flow | nothing of it outlives its ownership of the session; a result completes its own send; a link is tried once per send; puts are bounded; waits end; no LoRa before time |
| sensor monitoring | losing an event delays but never stops the state machine; a pending press is served |
| certificates | the library gets what was acknowledged, and nothing of an earlier transfer |
| firmware transfer | a finalized image is one whole file; a block that has its event comes back; scratch buffers are not shared |
| CLI companion | one NUS session; a ship request ends |
| SBDT shell | a running transfer keeps its entry; lent blocks come back; a request to finalize is answered |
| session events, hello application | a start comes up with the mask last stored, or with the default when it cannot be read; an image is kept only after it has initialised a session |
| location shell | a context is freed once; what was not given is not changed; no text outgrows its place |
| FSK probe | every window ends, averages its own samples and reports a packet only for its own reception; no event is dropped; the sweep is whole |

## 2. The modules

| module | models | checked by |
|---|---|---|
| `FlowSend` | abstract: the one message slot of the flow | the target of a refinement |
| `DutFlow` | `cli/app_dut.c`, the queue and thread of `sidewalk.c`, the new-status and link-switch handlers, the callbacks of `cli/app.c` | `MCDutFlow` |
| `SensorMonitoring` | `sensor_monitoring/app_tx.c`, `app_rx.c`, `app_buttons.c`, `app_leds.c`, the callbacks and timer of `app.c` | `MCSensorMonitoring` |
| `CertShell` | `cli/sid_on_dev_cert_cli.c` | `MCCertShell` |
| `CliUi` | ship mode and NUS shell of `cli/app_cli_ui.c` | `MCCliUi` |
| `ScratchBuffer` | `sbdt/scratch_buffer.c`: the table and what each function does to it | through `DfuTransfer` and `SbdtShell` |
| `DfuTransfer` | `sbdt/dfu_file_transfer.c`, with `ScratchBuffer` and a queue | through `HelloDevice`, which implements it |
| `HelloDevice` | `hello/app.c` and the session's handlers of `sidewalk_events.c`, composed with `DfuTransfer` on one queue, with restarts | `MCHelloDevice` |
| `SbdtShell` | `cli/sbdt_shell*.c`, with `ScratchBuffer`, timers and a queue | `MCSbdtShell` |
| `LocationShell` | `cli/location_shell.c`, `cli/location_shell_events.c` | `MCLocationShell` |
| `FskProbe` | `fsk_probe/src/main.c` | `MCFskProbe` |
| `DutFlowProofs` | all safety of `DutFlow`, and that it implements `FlowSend` | TLAPS |
| `HelloDeviceProofs` | the invariants of `DfuTransfer`; `HelloDevice` implements it; its images and its link mask | TLAPS |
| `SensorMonitoringProofs`, `CertShellProofs`, `CliUiProofs`, `SbdtShellProofs`, `LocationShellProofs`, `FskProbeProofs` | the invariants of these modules | TLAPS |

### DutFlow

The variables are the `dut_flow_*` statics, the session (`handle`, `config`,
`status`), the thread's `queue`, and the stack as far as the flow can tell:
started links, messages it holds, ids it has handed out. A link mask is the set
of its links.

A handler calls other functions of the file, and the timer or another thread
may run between them. So a handler is a chain of steps: `call` holds the
function that runs next (`reach` = `dut_flow_reach_target`, `try` =
`dut_flow_try_pending_send`, `select` = `dut_flow_select_fallback`, `failed` =
`dut_flow_fail_pending_send`, `log` = `dut_flow_log_status`), its goal, and
what the caller does when it fails. `Take(types)` is the thread taking an event
when no handler is running. Each stack call can fail, and each failure branch
of the code has its disjunct or action (`TransitionFailed`, `OpenSessionFailed`,
`ReachFailed`, `TryRejected`).

Other owners of the session are commands too: `dut_event_init`, `deinit`,
`start` and `stop` of the shell, a link switch of a button, the auto-switch of
the applications, and the ship-mode preparation. A link switch whose `sid_init`
fails may leave the flow without a session, as ship mode does.

The device starts as `sidewalk_event_autostart` leaves it (`Booted`): without a
session, with one that could not be opened, or started on a mask. A request is
what `cmd_sid_flow_send` builds from its target (`FlowRequest`).

`uid` and `puts` of a message are history: no step reads them. They let a
property say which request a result belongs to and how often it was handed to
the stack.

### SensorMonitoring

One action per event of the TX thread, except for a button notification: its
three parts (read the masks, queue the message, clear the flag) are separate,
since a button's callback may run in between. The build has
`SENSOR_AUTO_TX`, the default. No caller in the repository sets the notify
mask, so it is always empty and is left out.

`unreported` is history: the buttons pressed while no notification was under
way, until a queued message has told of them or the cloud's answer to an earlier
one has taken the press away. `PressStaysPending` says that the flag is up as
long as there is one, so the flag is cleared for an untold press only while a
notification is being made.

`asked` counts the capability messages that are on their way. Each is answered or
lost, one at a time (`CapabilityAnswered`, `CapabilityLost`), so the device gets
its answer only because it asks again with every event of the sensor (`Asks`).

### CertShell

A fragment is its length. The decoder takes six bits a character; `Fits` is the
code's check that no byte is left over when the buffer is full. A failing
fragment may fail for its characters, so any length may fail.

### CliUi

Two halves that share the system work queue. Ship mode: the request, its delay,
the event for the sidewalk thread, the wait of 1500 ms, the regulator. NUS
shell: a connection object of the Bluetooth host is free, advertising,
connected, or closed and not yet recycled, for the NUS shell or for Sidewalk.
`nus_recycled` is called for either, which is the point of the model.

### ScratchBuffer, DfuTransfer and SbdtShell

`ScratchBuffer` defines the table and what its functions do; `DfuTransfer`
extends it with the stack's transfers, the blocks it has lent, the image of the
DFU library and the thread's queue. The image remembers which transfer wrote
each block, so that `FinalizedIsWhole` can say that it is one file.

The stack may refuse to cancel or to finalize a transfer, and the event for a
block may not be allocated; the code only logs either. A block that has got no
event while its transfer goes on is then with the application for good: `strays`
is the history of these, which `BlockComesBack` excepts and `FinalizedIsWhole`
does not.

`DfuTransfer` is the component seen from the outside world: any other event may
be queued whenever there is room (`OtherQueued`), any of them may take the
stack down and up (`Reinit`), and the device may restart at any time
(`Restart`). `HelloDevice` says which events those are and when they happen.

`SbdtShell` extends `ScratchBuffer` too. `info` is `transfer_info` by the file
of each entry; a delay is a running timer named by the event it will queue, so
that several blocks and files can wait at once. BLE DFU mode, which the shell
does not control, rejects a request before anything is looked at
(`RejectedAtOnce`) or ends a transfer, at any time. The stack is assumed to have one
transfer for a file, to start it again or end it when a request is repeated,
and to release the scratch buffer of a transfer that has ended before it asks
for the file again. After `deinit` it may or may not have released the buffers:
the entries then stay, as nothing in the code clears the table. `AnswersAreDue`
says what the liveness of the answers rests on: each block that is lent and each
request to finalize has its timer or its event.

### HelloDevice

The hello application as one device: the buttons queue handlers
(`PressButton`, `PressDfu`), the thread runs the handlers of
`sidewalk_events.c` (`Autostart`, `FactoryReset`, `LinkSwitch`, the reboot) and
the block event of the firmware transfer, and the stack's callbacks run in
between. Three things restart it: the reboot that a finalized image asks for, a
factory reset that the stack reports, and a power cut at any time. What
survives is what the code keeps in flash: the stored link mask and the boot
loader's images. `fw` is the boot loader's view: the image that runs, the one
staged for the next start, and the one to go back to, which
`boot_write_img_confirmed` discards.

Every stack or flash call of these handlers may fail: a session that does not
come up (`handle` is then NULL or, after a failing `sid_init`, a handle that
was deinitialised) or is initialised but not started (`idle`), a mask that cannot
be read or is not stored, a confirmation that fails. A mask that cannot be read
(`MaskNotRead`) is treated as one that is missing: the default is taken and
stored over it. Two history variables say what a start may come up with
(`wanted`: one mask, or more while a write may have failed) and which images
have initialised a session (`opened`).

`RefinesDfu` is `DfuSpec` itself: the two modules share their variables, so the
refinement mapping is the identity, and what is checked is that each step of the
composed device is one that `DfuTransfer` allows.

### LocationShell

A command parses its options one after the other into a zeroed context
(`TypeDult`, then a `ParseOption` for each, then `ParseEnd`), then queues it or
frees it; the thread applies it and frees it. `live` counts contexts, so that `ContextsHaveOneOwner`
can say that the count equals the owners. `asked` is history: what the commands
that were taken ask for, read from the line without the parser: the last value
given of an option counts. A line is what
an operator may type; a text is its length.

### FskProbe

One thread, whose steps are the points of `wait_radio_event` between which an
interrupt may come: the look at the queue, the deadline, the sample, the
semaphore, `irq_process`. The deadline is counted in turns of the loop. The
build's role (receive, transmit, and the two continuous ones, which only start)
is chosen in `Init`. `windows` and `seq` wrap, as `uint32_t` does, at a bound.
An
event on the queue is its type and, as history, whether it was put there in the
window that runs (`Aged` takes this from what a window leaves behind); the
contents of a frame are left out.

The probe ignores the result of `sid_pal_radio_standby`, and does not ask for
standby when starting the receiver fails. So `AfterStandby` may leave the radio
on, and `StartFails` leaves it on or off: a window may begin, and be configured,
with the radio of the last one still running and reporting.

## 3. What the runs check

| run | bounds | shows |
|---|---|---|
| `flow_safety` | queue of 2, 4 inputs, 2 stack ids, 15 commands, 4 statuses, failing allocations | `TypeOK`, `FlowOwnership`, `LoRaNeedsTime`, `CompletesOwnSend`, and that the flow implements `FlowSend` |
| `flow_liveness` | queue of 8, 3 inputs, 3 ids, one link retry, one put retry | `WaitHasTimer`, `AwaitedResultComes`, `PutsBounded`, `WaitEnds` |
| `flow_moved_in_flight` | 4 inputs | violation: a send in flight on a link that is started and up is moved to another |
| `flow_stranded_send` | 4 inputs | violation: a send is kept that nothing retries or drops |
| `sensor` | 2 buttons, 1 LED, queues of 2 and 1, 1 capability message on its way, 3 inputs | `TypeOK`, `PressStaysPending`, `ReachesData`, `PendingIsServed` |
| `cert_shell` | buffers of 5, 7 and 3 bytes, fragments of 1 to 4 characters (0 and 5 are refused) | `TypeOK`, `GivenAsTyped` |
| `cli_ui` | 3 connection objects, 2 ship requests | `TypeOK`, `OneNusSession`, `ShipRequestEnds` |
| `hello_device` | 1 file of 2 blocks, transferred twice, 2 slots, queue of 2, 2 presses, 1 power cut, 3 links | `TypeOK`, `ScratchIsOwned`, `FinalizedIsWhole`, `KeptImageWorks`, `RefinesDfu`, `MaskComesBack`, `BlockComesBack` |
| `sbdt_shell` | 3 files of 1 block, 2 entries, 4 requests and commands, room on the queue | `TypeOK`, `TransferIsKnown`, `AnswersAreDue`, `BlockComesBack`, `FinalizeIsAnswered` |
| `fsk_probe` | all roles, queue of 3, 2 turns, 3 offsets and 2 trims, windows and frames wrap at 4, numbers of 3 and more do not fit | `TypeOK`, `AverageIsOfSamples`, `PayloadIsOfItsEvent`, `NoEventIsDropped`, `KeepsReporting`, `SweepIsWhole` |
| `dult` | 2 shells, queue of 2, 7 `config` lines, 3 `set` lines, one location run | `TypeOK`, `ContextsHaveOneOwner`, `NamesAsAsked` |
| `dult_given` | the same | violation: a command changes options it does not give |

Why the bounds are enough:

- *Flow.* A queue of 2 is full as soon as a command meets a status, so every
  drop happens; a send, its replacement, a cancel and a status fit into 4
  inputs. The retry limits of the code are 0 for links and 2 for puts;
  `flow_safety` keeps 0 (the time rule depends on it: with a retry the flow
  would ask for LoRa again without looking at the time) and 1 put, and
  `flow_liveness` uses 1 and 1, so that a retry and an exhausted retry both
  occur. `flow_liveness` has room on the queue and successful allocations: the
  wait of a flow whose timeout is dropped does not end, and the code only logs
  that (a hazard).
- *Sensor.* A TX queue of 2 fills with two timer events, before the event that
  would change the state; with two buttons one can be pressed while the other's
  press is being reported. One capability message on its way at a time, which may
  be lost as often as the run goes on, is enough to make the device ask again.
- *Certificates.* Three characters leave 2 bits and four leave none, so all
  remainders occur, with a fragment that ends before, at and after the end of
  the buffer. The real sizes are multiples of the same group.
- *CLI companion.* Three objects let an old and a new object of one side and
  one of the other exist together.
- *Hello device.* Two blocks and two transfers let a file come again while blocks
  of its first transfer are queued, and let an image replace one that was
  staged; a queue of 2 is full after the boot, or with one block and a press.
  Two presses are a factory reset with a link switch behind it, or a switch
  during a transfer; one power cut may fall between any two steps. The masks and
  the order in which they are switched are those of the code.
- *Location shell.* Two shells with a queue of 2 make a third context meet a full
  queue. The lines have a text that fits exactly and one that does not, a value in
  and out of its range, an option given twice, a reset alone and after an option,
  an unknown option.
- *FSK probe.* Three interrupts at once fill a queue of 3, and two events of one
  window leave one for the next. The code's queue of 8 has a place for each of the
  seven events the probe knows (`event_name`), which is all that
  `NoEventIsDropped` rests on. Windows wrap at a number that the sweep's
  length does not divide, as 2^32 is not divided by most lengths.
- *SBDT shell.* An init and three requests fill both entries and find none for
  a third file; two files wait for their blocks and for their finalize answers
  at once. Runs with 5 requests and commands (940 310 states), and with 2 files
  of 2 blocks, give the same result. The queue never fills: a delayed answer that
  finds it full is lost (a hazard), and with a queue of 1 `AnswersAreDue` fails.

`CHECK_DEADLOCK FALSE` is set for the flow, where the bounds on inputs and ids
end a behaviour, for the SBDT shell and the hello device for the same reason
(their requests, presses and transfers are bounded), for the CLI companion,
whose power is cut at the end, and for the FSK probe, which returns from `main`
when the radio cannot be configured.

### Fairness

- *Flow* (`FairSpec`): the sidewalk thread runs, and a timer that is scheduled
  expires. Both are Zephyr's to guarantee; nothing is assumed of the stack,
  which may report on a message or not.
- *Sensor*: the threads run (weak fairness). What is tried again and again is
  assumed to succeed now and then (strong fairness): a periodic timer finds
  room on the TX queue, a message can be encoded and finds room on the sidewalk
  thread's queue, and the cloud answers one of the capability messages that are
  sent again and again. Weak fairness would let each attempt meet a full queue;
  no single attempt is asked to succeed, and a message that is sent once may be
  lost for good: code that asked once only would violate `ReachesData`.
- *CLI companion*: delayed work falls due, the work queue runs, the wait ends
  (by the semaphore or by its timeout), the regulator answers, and a connection
  object that nobody refers to is recycled. Nothing is assumed of the sidewalk
  thread: that is why the wait has a limit.
- *Hello device*: the sidewalk thread handles its events. The stack, the buttons
  and the power owe nothing.
- *FSK probe*: the thread runs, and `Start` succeeds now and then when it is
  tried for ever (strong fairness: each attempt may also fail). The radio need
  not report anything.
- *SBDT shell*: the same, and a timer that runs expires.

### Findings

Three runs end in a violation; each quotes the line it contradicts in
`PROJECT.json`.

1. `flow_moved_in_flight`: `flow set lora` has started BLE and LoRa and waits
   for LoRa; BLE is reported up, and a BLE send is in flight. The wait expires,
   and the timeout handler asks for a fallback without looking at
   `dut_flow_send_inflight`: the message moves to FSK although no call has failed
   and its own link is started and up. (The property leaves out links that a
   stale status shows up and the stack does not have started.)
2. `flow_stranded_send`: `dut_event_flow_send` discards the result of
   `dut_flow_reach_target`; when starting the link fails no wait is scheduled
   and the send stays until a status happens to show its link.
3. `dult_given`: the context of `dult config` and `dult set` is zeroed and does
   not record which options were given, and zero is a value of several of them:
   naming one option sets the others to zero.

What else the modelling showed, and no document contradicts:

- The auto-switch asks for the flow's ownership when it queues the switch, not
  when the switch is handled (`sensor_monitoring/app.c:94`); the models include
  it, and the flow's properties hold with it.
- A button pressed after the TX thread has read the masks and before it clears
  the pending flag is reported only if another press follows (`app_tx.c:529`). A
  press is lost at one other time: when the late answer to an earlier press of
  the same button clears its bit (`app_rx.c:48-51`). `PressStaysPending` leaves
  out both and says that the flag is not cleared for a press otherwise.
- A time-sync event that finds the TX queue full is not made up for until the
  next status (`app_tx.c:676`); `ReachesData` speaks of a device that has got the
  event onto its queue.
- A start that cannot read the stored link mask takes it for missing and stores
  the default over it (`sidewalk_events.c:119-124`, `err <= 0`), so the mask that
  "persists after a device reset" (`app/Kconfig:149-154`) is then lost for good.
  `MaskComesBack` takes the default for what was asked for from then on.
- A new image confirms itself once `sid_init` has succeeded, also when
  `sid_start` then fails (`sidewalk_events.c:140-143`).
- A block of a firmware image whose event cannot be allocated, or finds the queue
  full while the stack refuses to cancel the transfer, is never given back
  (`dfu_file_transfer.c:144`, `154-169`).
- The FSK probe ignores what `sid_pal_radio_standby` answers, and does not ask for
  it when starting the receiver fails (`main.c:331-334`), so a window may begin
  with the radio on. An event that a window leaves on the queue is reported by the
  next one, without a packet; the packet is never printed for another event.
- `nus_recycled` takes the restart for any connection's object
  (`app_cli_ui.c:594`); with two objects, Sidewalk may advertise with the one
  that was recycled, and the restart then finds none and is not repeated
  (`app_cli_ui.c:548`).
- `dult config -r` clears the battery level of `dult set` as well. A text of 64
  bytes is accepted and cut to 63, an identifier of 32 to 31 while 32 is kept as
  its size. `-f` accepts a line that ends one value early.
- The hello application turns `go_to_dfu_state` also when the press was lost on
  a full queue; from then on a press means the opposite.
- The FSK probe's frame number outgrows its place at 10^8; frames are then
  skipped until the number wraps.

## 4. What is proved

The theorems hold for every value of the constants that meets the `ASSUME` of
the module they are about (`ConstantsAssumption`, `DfuAssumption`,
`HelloAssumption`, ...), all of which the runs evaluate. These ask for positive
sizes, for values that are told apart, for the hello device, for the two
events `app_start` queues, and, for the FSK probe, for a sweep whose ends are in
order, which is left to the configuration (`Kconfig` does not enforce it).

| module | theorem | statement |
|---|---|---|
| `DutFlowProofs` | `TypeCorrect` | `Spec => []TypeOK` |
| | `OwnershipHolds` | `Spec => []FlowOwnership` |
| | `LoRaWaitsForTime` | with `MaxLinkRetries = 0`, `Spec => LoRaNeedsTime` |
| | `ResultsCompleteTheirSend` | `Spec => CompletesOwnSend` |
| | `FlowImplementsSlot` | `Spec => RefinesFlowSend` |
| | `WaitsAlwaysHaveTimer` | without ship mode and other owners' switches, `Spec /\ NoTimeoutLost => []WaitHasTimer` |
| | `AwaitedResultsCome` | without ship mode and other owners' switches, and if allocations succeed, `Spec /\ NoResultLost => []AwaitedResultComes` |
| | `PutsStayBounded` | without `flow set` and `flow switch`, `Spec => []PutsBounded` |
| `HelloDeviceProofs` | `DfuTypeCorrect`, `ScratchIsOwnedAlways`, `FinalizedIsWholeAlways` | `DfuSpec => []P` for each |
| | `DeviceRefinesDfu` | `Spec => RefinesDfu` |
| | `DeviceScratchIsOwned`, `DeviceFinalizedIsWhole` | inherited through the refinement |
| | `DeviceTypeCorrect`, `KeptImageWorksAlways`, `MaskComesBackAlways` | the device's own properties |
| `CertShellProofs` | `CertTypeCorrect`, `GivenAsTypedAlways` | all safety of `CertShell` |
| `CliUiProofs` | `CliUiTypeCorrect`, `OneNusSessionAlways` | all safety of `CliUi` |
| `SbdtShellProofs` | `SbdtTypeCorrect`, `TransferIsKnownAlways` | `Spec => []P` for each |
| | `AnswersStayDue` | `Spec /\ NoAnswerLost => []AnswersAreDue` |
| `SensorMonitoringProofs` | `SensorTypeCorrect`, `PressAlwaysStaysPending` | all safety of `SensorMonitoring` |
| `LocationShellProofs` | `LocationTypeCorrect`, `ContextsAlwaysHaveOneOwner`, `NamesAreAsAsked` | all safety of `LocationShell` that holds |
| `FskProbeProofs` | `ProbeTypeCorrect`, `AverageIsAlwaysOfSamples`, `PayloadIsAlwaysOfItsEvent` | `Spec => []P` for each |
| | `NoEventIsEverDropped` | with a place on the queue for each thing the radio reports, `Spec => []NoEventIsDropped` |

Every invariant and action property of a passing run is stated by one of them.

**The flow.** `FlowOwnership` is not inductive: in the middle of a handler the
flow may have cleared one part and not yet the other, and what follows is safe
only because of what the handler still has to run. The inductive invariant is

    FlowInv == TypeOK /\ FlowOwnership /\ CallOK

where `CallOK` says what holds at each point of a handler (that a function that
works on the pending send is only run while there is one, that the flow owns
the session in the middle of its own handlers, that a handler's goal is one of
the three targets). The proof of each step goes by the groups of actions of
`Next`: one lemma per group for the types, then ownership, then `CallOK`.

`CompletesOwnSend` needs that the stack does not hand an id out twice:
`IdsDistinct` relates every message the stack holds and every result on the
queue to `lastId` and to the pending send, and `SendInv == FlowInv /\
IdsDistinct` is inductive.

`FlowImplementsSlot` maps the pending send to the slot of `FlowSend`, and uses
that requests on the queue are fresh (`RequestsFresh`): each step of the flow
that changes the slot is one of `Accept`, `Transmit`, `Bounce`, `Move` and
`Release`; in particular a fallback link is never one that was tried.

Three more properties of the flow hold under a condition, and the theorem says
which. The instance of `flow_liveness` meets all of them, and each condition leaves
out what makes the code give the property up: without any one of them a small
instance violates it.

- `WaitsAlwaysHaveTimer`. `NoTimeoutLost` says that no timer expires while the
  queue is full, since the code only logs that the event was not queued. Excluded
  are the commands that may close the session under a flow that owns it
  (`Disturbing`): ship mode, and a link switch whose `sid_init` fails. The
  invariant `WaitInv` adds to `FlowInv` that an owner has a session
  (`OwnerHasHandle`), that no such event is queued, and that a wait whose timer
  and timeout are gone is in the middle of a handler that ends it (`onFail =
  "fail"`). A cancel that meets a timeout on its way and a wait that is set again
  are its cases.
- `AwaitedResultsCome`. `NoResultLost` says the same of the stack's results, and
  allocations succeed. The same commands are excluded, as the stack forgets its
  messages when it is taken down without the flow. `AwaitInv` says that a message in flight is
  outstanding or reported.
- `PutsStayBounded` needs no room on the queue. Excluded are the commands that
  begin to count again for the pending send (`Recounting`: `flow set` and `flow
  switch`). `PutsInv` bounds what the message was put by the retries counted, with
  one more while it is in flight or its link is being given up. Ship mode needs
  no exclusion: the session that follows it is opened by a send, which clears
  the count but also replaces the message before it is put again.

**The firmware transfer.** That a finalized image is whole does not follow from
the image alone: an event of an earlier transfer may still be queued, and
nothing in the handler compares it with the running one. It follows from the
order of the queue:

    DfuInv == DfuTypeOK /\ OpenIsLast /\ BlocksInOrder /\ SentIsWritten
              /\ ScratchIsOwned /\ FinalizedIsWhole

`BlocksInOrder` says that blocks of earlier transfers are ahead of those of
later ones, so once a block of the running transfer is written none of an
earlier one is left to overwrite it; `SentIsWritten` says that a block the
stack has back is in the image, unless the image has been given up. The stack
asks to finalize only with all blocks back.

**The hello device.** The refinement takes each action of the device to the
action of `DfuTransfer` it contains. With it the transfer's invariant holds on
the device, and `DfuInv /\ DeviceInv` is inductive: `MaskIsWanted` says that
what would be read from flash *now* is a mask a start may come up with (a write
that failed leaves the old one, which is why `wanted` keeps both; a mask that
cannot be read gives way to the default), and
`ImagesOpened` and `ImagesWhole` follow the three images of the boot loader:
the one to go back to has always initialised a session, and the running one has
as soon as there is a session, a staged image or no way back.

**Certificates.** `CertInv` adds `DecodersAsTyped` to the types: a decoder has
taken exactly the characters that were acknowledged, so what a commit gives is
what they decode to.

**The NUS shell.** `OneNusSession` alone is not kept by a restart. `NusInv` adds
`RestartFindsNone`: a restart is pending or queued only while the NUS shell has
nothing running, and never both, so it does not matter whose recycled object
triggers it. Ship mode and the NUS shell share no state, and their invariants
are proved apart.

**The SBDT shell.** `TableInv` relates the table of entries to the stack's
transfers, with one entry for a file: a repeated request may wipe the entry,
but then it is the one the repeated request itself takes again, or the transfer
has ended. With it, `AnswersAreDue` is inductive as long as no delay ends while
the queue is full (`NoAnswerLost`): a block of an open transfer always finds an
entry and so gets its timer, a timer that ends becomes an event, an event waits
for its turn, and the event that leaves the queue gives its own block back.

**Sensor monitoring.** `PressInv` adds to `PressStaysPending` what makes it
inductive: what is unreported is in the press mask, so the notification that
reads the mask tells of it, and nothing is unreported any more when the flag is
cleared.

**The location shell.** `LocationInv` describes the parser half-way:
`ParsedUpto` says that a context holds, for each option, the last of its values
among those parsed so far, and zero if there is none. `NamesFollow` and
`RunFollows` then say of each value that, with no event on the queue that writes
it, it is the last one asked for, and otherwise that the last such event will
write that. The shells are finitely many (`LocationAssumption`); the lines are
any.

**The FSK probe.** `ProbeInv` keeps the sum of a window between its count of
smallest and of largest samples; that the average is one between them is then a
fact about C's division (`DividedByInRange`), which rounds towards zero for
either sign. The radio may be on or off throughout. `AskedWhenEmpty` says that the
queue is empty whenever the radio is asked (the wait looks at the queue first),
from which nothing is dropped; `PacketIsOfQueue` says that the packet has been
read for a reception on the queue exactly when the reception is of this window.

Only model-checked:

- All liveness, which with fairness is out of the prover's reach: `WaitEnds`,
  `ReachesData`, `PendingIsServed`, `ShipRequestEnds`, `BlockComesBack` (of the
  hello device and of the SBDT shell), `FinalizeIsAnswered`, `KeepsReporting`,
  `SweepIsWhole`. The theorems `WaitsAlwaysHaveTimer`, `AwaitedResultsCome` and
  `AnswersStayDue` are the safety part of three of them: what is awaited is
  always under way.
- The three runs that end in a violation.

## 5. What is not modelled, and why

- Formatting and printing of the shells and JSON printers: no state. Parsing,
  except for the options of `dult`, whose order and absence matter.
- The stack, the DFU, certificate and location libraries, the Bluetooth host,
  the boot loader, the settings and the cloud: outside the repository. Their
  part is modelled from how the code uses them, as freely as it allows.
- The heap: allocations fail where `AllocMayFail` says so, in the firmware
  transfer (`DataNotAllocated`), and nowhere else; the SBDT shell's delayed
  answers are allocated, or their block would be lost.
- A stack that fails to go down: after `sid_deinit` the session is gone, whatever
  it answers, as the code takes it to be. The SBDT shell's cancel in BLE DFU mode
  is not refused.
- The memory of a call that has returned: the late give on the semaphore of a
  ship-mode request (`app_cli_ui.c:380`) is a hazard that no property covers.
- The sensors and the fuel gauge (`app_sensor.c`): driver reads and
  floating-point library code. The NFC tag is written once.
- BLE DFU mode itself: library code, entered and left by one handler each, which
  `HelloDevice` has with its effect on a transfer.
- The CRC of the SBDT shell, which is only logged.
- The LED pattern of the CLI companion: whether its work is interrupted half-way
  depends on the LED driver and on what Zephyr does with work that is cancelled
  while it runs; no document says how often an LED blinks, so there is nothing
  to hold the code against. It is listed as a hazard.
- The two shells that may run the certificate commands at once: the commands
  share their buffers without a lock, and no document says that both may be used.

## 6. The order of the work

The flow came first, as the core of the system, with its proofs and its
refinement; then certificates, sensor monitoring, the CLI companion, the
firmware transfer with scratch buffers and the SBDT shell; then the hello
device, which composes the session with the transfer and restarts, the location
shell and the FSK probe; then the proofs about the transfer, the device, the
certificates, the NUS shell and the SBDT shell; last the rest of the flow's
properties, the location shell, the FSK probe, the answers of the SBDT shell and
the presses of the sensor.

What could follow: an abstract specification of the answers that the SBDT shell
owes, which it is shown to implement; the safety part of the remaining liveness
properties; the start-up of the DUT shell application (`cli/app.c`) composed with
the flow; the wake flag of `app_sensor.c`.
