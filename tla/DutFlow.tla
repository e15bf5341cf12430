------------------------------- MODULE DutFlow -------------------------------
(***************************************************************************)
(* The hello-flow of the DUT shell (app/src/cli/app_dut.c): the state      *)
(* machine that brings a Sidewalk link up, keeps one message waiting for   *)
(* it, hands the message to the stack, retries it and falls back to other  *)
(* links.                                                                  *)
(*                                                                         *)
(* Three actors share it:                                                  *)
(*  - the sidewalk thread takes one event at a time off a bounded queue    *)
(*    (app/src/sidewalk.c) and runs its handler.  A handler is several     *)
(*    steps here, one per C function it runs through; `call' says which    *)
(*    function runs next.  The timer and the other threads interleave      *)
(*    with them.  The stack's callbacks run on the same thread, between    *)
(*    two handlers;                                                        *)
(*  - the system work queue runs the flow's timer, whose expiry only       *)
(*    queues a timeout event;                                              *)
(*  - shell, buttons and the auto-switch work queue commands.              *)
(*                                                                         *)
(* A link mask is the set of its links.  Every sid_* call may fail.        *)
(***************************************************************************)
EXTENDS Integers, Sequences

CONSTANTS
  MaxLinkRetries,   \* DUT_FLOW_MAX_{BLE,FSK,LORA}_RETRIES, one value in the code
  MaxTxRetries,     \* DUT_FLOW_MAX_TX_RETRIES
  QueueSize,        \* CONFIG_SIDEWALK_THREAD_QUEUE_SIZE
  AllocMayFail,     \* whether sid_hal_malloc may return NULL for a tx result
  Statuses,         \* the statuses the stack may report
  Commands,         \* the events the other threads may queue
  MaxInputs,        \* bound: commands and statuses queued
  MaxIds,           \* bound: message ids the stack hands out
  None

BLE     == {"ble"}
FSK     == {"fsk"}
BLELORA == {"ble", "lora"}
Links   == {"ble", "fsk", "lora"}
Targets == {BLE, FSK, BLELORA}
Masks   == SUBSET Links

\* DUT_FLOW_STAGE_*: what the running wait waits for.
WaitStages == {"wait_ble", "wait_fsk", "wait_lora"}
Stages     == WaitStages \cup {"idle"}

\* sid_status, as far as the flow looks at it.
Status == [ready : BOOLEAN, synced : BOOLEAN, links : Masks]
NoStatus == [ready |-> FALSE, synced |-> FALSE, links |-> {}]

\* dut_flow_send_ctx_t.  `uid' names the request and `puts' counts the times
\* the stack accepted it on its current link: both are history, no step of
\* the flow reads them.  A RESPONSE keeps the id its sender chose.
Send == [uid : Nat, link : Links \cup {"any"}, target : Masks, fallback : BOOLEAN,
         attempted : Masks, resp : BOOLEAN, id : Nat, puts : Nat]

\* A request as the shell fills it in.
Fresh(send) == send.attempted = {} /\ send.puts = 0

\* sid_msg_desc of a message the stack holds, with the request it is for.
Desc == [id : Nat, link : Links \cup {"any"}, resp : BOOLEAN, uid : Nat]

PlainEvents == {"switch", "cancel", "flow_status", "deinit", "ship", "link_switch",
                "auto_switch", "timeout"}
Event ==
       [type : PlainEvents]
  \cup [type : {"set", "init", "start", "stop"}, mask : Masks]
  \cup [type : {"send"}, send : Send]
  \cup [type : {"status"}, status : Status]
  \cup [type : {"result"}, success : BOOLEAN, desc : Desc]

\* The functions a handler still has to run, and what the caller does when
\* reaching a target, or finding a fallback, fails.
Steps   == {"idle", "send", "status", "reach", "try", "select", "failed", "log"}
OnFails == {"ignore", "fail", "wait"}
Call    == [step : Steps, goal : Masks, onFail : OnFails, log : BOOLEAN,
            send : Send \cup {None}]

ASSUME ConstantsAssumption ==
  /\ MaxLinkRetries \in Nat
  /\ MaxTxRetries \in Nat
  /\ QueueSize \in Nat \ {0}
  /\ AllocMayFail \in BOOLEAN
  /\ Statuses \subseteq Status
  /\ Commands \subseteq {c \in Event : c.type \notin {"timeout", "status", "result"}}
  /\ \A c \in Commands : c.type = "send" => Fresh(c.send)
  /\ MaxInputs \in Nat
  /\ MaxIds \in Nat
  /\ None \notin Send

-----------------------------------------------------------------------------
VARIABLES
  mode,          \* dut_flow_mode_enabled: the flow owns the Sidewalk session
  cachedTime,    \* dut_flow_cached_time_valid
  policy,        \* dut_flow_ble_policy_configured
  current,       \* dut_flow_current_link_mask: the links believed started
  target,        \* dut_flow_target_link_mask
  linkRetries,   \* dut_flow_{ble,fsk,lora}_retries
  txRetries,     \* dut_flow_tx_retries
  stage,         \* dut_flow_stage
  inflight,      \* dut_flow_send_inflight
  pending,       \* *dut_flow_pending_send, or None
  timer,         \* dut_flow_timeout_work is scheduled
  handle,        \* sid->handle is not NULL
  config,        \* sid->config.link_mask
  status,        \* sid->last_status
  queue,         \* sidewalk_thread_msgq
  call,          \* what the sidewalk thread is doing
  stackLinks,    \* the stack: links that are started
  outstanding,   \* the stack: messages accepted and not yet reported on
  lastId,        \* the stack: ids handed out
  inputs         \* commands and statuses queued so far (bound, uid supply)

sessionVars == <<mode, handle>>
linkVars    == <<current, config, policy, stackLinks>>
waitVars    == <<stage, timer>>
sendVars    == <<pending, inflight>>
retryVars   == <<linkRetries, txRetries>>
stackVars   == <<outstanding, lastId>>
vars == <<mode, cachedTime, policy, current, target, linkRetries, txRetries, stage, inflight,
          pending, timer, handle, config, status, queue, call, stackLinks, outstanding,
          lastId, inputs>>

Idle == [step |-> "idle", goal |-> {}, onFail |-> "ignore", log |-> FALSE, send |-> None]
Run(step, goal, onFail, log) ==
  [step |-> step, goal |-> goal, onFail |-> onFail, log |-> log, send |-> None]

\* A handler that is through with its work may still log the flow's status.
Return(log) == IF log THEN Run("log", {}, "ignore", TRUE) ELSE Idle

-----------------------------------------------------------------------------
(* What the flow reads off the stack's last status.                        *)

StatusToTargetMask(links) ==
  IF "lora" \in links THEN BLELORA
  ELSE IF "fsk" \in links THEN FSK
  ELSE IF "ble" \in links THEN BLE ELSE {}

ObservedLinkMask ==
  IF status.links # {} THEN StatusToTargetMask(status.links)
  ELSE IF config \in Targets THEN config ELSE {}

\* The value of `current' after dut_flow_sync_current_link_mask.
SyncedCurrent == IF ObservedLinkMask = {} THEN current ELSE ObservedLinkMask

LinkIsReady(link) == status.ready /\ (IF link = "any" THEN status.links # {}
                                                      ELSE link \in status.links)

TargetIsReady(mask) ==
  status.ready /\ (IF mask = BLELORA THEN {"lora"} ELSE mask) \subseteq status.links

TargetForSendLink(link) ==
  CASE link = "ble"  -> BLE
    [] link = "lora" -> BLELORA
    [] OTHER         -> FSK

\* dut_normalize_hello_mask
Normalize(mask) == IF mask \in Targets THEN mask ELSE BLE

StageFor(mask) ==
  CASE mask = BLE -> "wait_ble"
    [] mask = FSK -> "wait_fsk"
    [] OTHER      -> "wait_lora"

\* The mask a timed-out wait starts again.
RetryMask(s) ==
  CASE s = "wait_ble" -> BLE
    [] s = "wait_fsk" -> FSK
    [] OTHER          -> BLELORA

NoLinkRetries == [s \in WaitStages |-> 0]
ResetRetries  == linkRetries' = NoLinkRetries /\ txRetries' = 0

\* Mutants of the next two: the work is left scheduled, or is not scheduled.
CancelWaitOnly      == stage' = "idle" /\ UNCHANGED timer
ScheduleWaitOnly(s) == stage' = s /\ UNCHANGED timer

CancelWait      == stage' = "idle" /\ timer' = FALSE
ScheduleWait(s) == stage' = s /\ timer' = TRUE

-----------------------------------------------------------------------------
(* dut_flow_transition: stop the links believed started, start `goal'.     *)
(* Its branch for a stale stop mask is not modelled: the mask has just     *)
(* been synchronised with the observed one, so the two cannot differ       *)
(* (StaleStopMaskUnreachable in DutFlowProofs).                            *)

TransitionDone(goal, force) ==
  \/ /\ ~force /\ SyncedCurrent = goal
     /\ current' = goal
     /\ config' = goal
     /\ UNCHANGED <<policy, stackLinks>>
  \/ /\ force \/ SyncedCurrent # goal
     /\ stackLinks' = (stackLinks \ SyncedCurrent) \cup goal
     /\ config' = goal
     /\ policy' \in (IF "ble" \in goal /\ ~policy THEN BOOLEAN ELSE {policy})
     /\ current' = goal

TransitionFailed(goal, force) ==
  /\ force \/ SyncedCurrent # goal
  /\ \/ SyncedCurrent # {} /\ current' = SyncedCurrent /\ UNCHANGED stackLinks
     \/ current' = {} /\ stackLinks' = stackLinks \ SyncedCurrent
  /\ UNCHANGED <<config, policy>>

-----------------------------------------------------------------------------
(* The sidewalk thread: one event, one handler.                            *)

Take(types) ==
  /\ call.step = "idle"
  /\ queue # <<>>
  /\ Head(queue).type \in types
  /\ queue' = Tail(queue)

\* Where dut_event_flow_switch and dut_event_flow_set want to go.
FlowGoal(e) ==
  IF e.type = "set" THEN Normalize(e.mask)
  ELSE CASE SyncedCurrent = FSK     -> BLELORA
         [] SyncedCurrent = BLELORA -> BLE
         [] OTHER                   -> FSK

FlowTypes == {"set", "switch", "send"}

\* What a flow event does once it has a session: a send looks at its link,
\* a set or a switch starts its retries afresh and reaches for its target.
EnterFlow(e) ==
  call' = IF e.type = "send" THEN [Idle EXCEPT !.step = "send", !.send = e.send]
          ELSE Run("reach", FlowGoal(e), "ignore", TRUE)

\* dut_event_flow_switch synchronises before it looks at the current link.
CurrentSeenBy(e) == IF e.type = "switch" THEN SyncedCurrent ELSE current

\* dut_flow_prepare_session finds a session the flow already owns.
KeepSession ==
  /\ Take(FlowTypes)
  /\ handle /\ mode
  /\ current' = CurrentSeenBy(Head(queue))
  /\ IF Head(queue).type = "send" THEN UNCHANGED retryVars ELSE ResetRetries
  /\ EnterFlow(Head(queue))
  /\ UNCHANGED <<sessionVars, cachedTime, policy, config, stackLinks, target, waitVars,
                 sendVars, status, stackVars, inputs>>

\* dut_flow_prepare_session takes the session over: whatever ran is
\* deinitialised, and a new one starts with nothing cached.  The timer and a
\* pending send are not touched.
OpenSession ==
  /\ Take(FlowTypes)
  /\ ~(handle /\ mode)
  /\ mode' = TRUE /\ handle' = TRUE
  /\ cachedTime' = FALSE /\ policy' = FALSE
  /\ current' = {} /\ target' = {}
  /\ config' = Links /\ status' = NoStatus
  /\ ResetRetries
  /\ stage' = "idle" /\ inflight' = FALSE
  /\ stackLinks' = {} /\ outstanding' = {}
  /\ EnterFlow(Head(queue))
  /\ UNCHANGED <<timer, pending, lastId, inputs>>

\* The session cannot be prepared: no manufacturing data, or sid_init fails.
\* A send is freed.
OpenSessionFailed ==
  /\ Take(FlowTypes)
  /\ ~(handle /\ mode)
  /\ handle' = FALSE
  /\ current' = CurrentSeenBy(Head(queue))
  /\ stackLinks' = {} /\ outstanding' = {}
  /\ \/ UNCHANGED <<config, status>>
     \/ config' = Links /\ status' = NoStatus
  /\ UNCHANGED <<mode, cachedTime, policy, target, retryVars, waitVars, sendVars, call,
                 lastId, inputs>>

\* dut_flow_resolve_auto_send picks the link of an `auto' send.
AutoLink ==
  CASE "ble" \in status.links  -> "ble"
    [] "lora" \in status.links -> "lora"
    [] OTHER                   -> "fsk"

Resolved(send) ==
  IF send.target = {} \/ send.link = "any"
  THEN [send EXCEPT !.fallback = TRUE, !.link = AutoLink, !.target = TargetForSendLink(AutoLink)]
  ELSE send

\* dut_event_flow_send with a session: the send replaces the pending one.
\* On a ready link it goes straight to the stack, and neither the retries nor
\* a wait that is running are touched.
FlowSend ==
  /\ call.step = "send"
  /\ LET send == Resolved(call.send)
     IN /\ pending' = [send EXCEPT !.attempted = @ \cup {send.link}]
        /\ IF LinkIsReady(send.link)
           THEN call' = Run("try", {}, "ignore", FALSE) /\ UNCHANGED retryVars
           ELSE /\ call' = Run("reach", Normalize(send.target), "ignore", TRUE)
                /\ ResetRetries
  /\ inflight' = FALSE
  /\ UNCHANGED <<sessionVars, cachedTime, linkVars, target, waitVars, status, queue, stackVars,
                 inputs>>

-----------------------------------------------------------------------------
(* dut_flow_reach_target                                                   *)

\* Mutant: the test of dut_flow_has_cached_time is inverted.
NeedsTimeInverted == call.goal = BLELORA /\ cachedTime

NeedsTime == call.goal = BLELORA /\ ~cachedTime

\* BLE+LoRa without a cached time: go through FSK and wait there for time.
ReachBootstrap ==
  /\ call.step = "reach" /\ NeedsTime
  /\ target' = call.goal
  /\ \/ /\ SyncedCurrent = FSK
        /\ current' = FSK
        /\ UNCHANGED <<config, policy, stackLinks>>
     \/ SyncedCurrent # FSK /\ TransitionDone(FSK, FALSE)
  /\ ScheduleWait("wait_fsk")
  /\ call' = Return(TRUE)
  /\ UNCHANGED <<sessionVars, cachedTime, retryVars, sendVars, status, queue, stackVars, inputs>>

\* The links are started; a pending send goes out once they are up.
ReachTarget ==
  /\ call.step = "reach" /\ ~NeedsTime
  /\ target' = call.goal
  /\ TransitionDone(call.goal, FALSE)
  /\ IF TargetIsReady(call.goal)
     THEN CancelWait /\ call' = Run("try", {}, "ignore", TRUE)
     ELSE ScheduleWait(StageFor(call.goal)) /\ call' = Return(TRUE)
  /\ UNCHANGED <<sessionVars, cachedTime, retryVars, sendVars, status, queue, stackVars, inputs>>

ReachFailed ==
  /\ call.step = "reach"
  /\ target' = call.goal
  /\ TransitionFailed(IF NeedsTime THEN FSK ELSE call.goal, FALSE)
  /\ call' = [call EXCEPT !.step = "failed"]
  /\ UNCHANGED <<sessionVars, cachedTime, retryVars, waitVars, sendVars, status, queue,
                 stackVars, inputs>>

-----------------------------------------------------------------------------
(* dut_flow_try_pending_send                                               *)

CanSend == pending # None /\ handle /\ ~inflight /\ LinkIsReady(pending.link)

TrySkipped ==
  /\ call.step = "try" /\ ~CanSend
  /\ call' = Return(call.log)
  /\ UNCHANGED <<sessionVars, cachedTime, linkVars, target, retryVars, waitVars, sendVars,
                 status, queue, stackVars, inputs>>

DescOf(send) == [id |-> send.id, link |-> send.link, resp |-> send.resp, uid |-> send.uid]

\* sid_put_msg accepts the message; only a RESPONSE keeps its id.
TryAccepted ==
  /\ call.step = "try" /\ CanSend
  /\ pending.resp \/ lastId < MaxIds
  /\ lastId' = IF pending.resp THEN lastId ELSE lastId + 1
  /\ LET sent == [pending EXCEPT !.id = IF pending.resp THEN @ ELSE lastId + 1,
                                 !.puts = @ + 1]
     IN pending' = sent /\ outstanding' = outstanding \cup {DescOf(sent)}
  /\ inflight' = TRUE
  /\ call' = Return(call.log)
  /\ UNCHANGED <<sessionVars, cachedTime, linkVars, target, retryVars, waitVars, status, queue,
                 inputs>>

\* sid_put_msg refuses it: another link, or wait for this one again.
TryRejected ==
  /\ call.step = "try" /\ CanSend
  /\ pending' = [pending EXCEPT !.id = IF pending.resp THEN @ ELSE 0]
  /\ call' = Run("select", {}, "wait", call.log)
  /\ UNCHANGED <<sessionVars, cachedTime, linkVars, target, retryVars, waitVars, inflight,
                 status, queue, stackVars, inputs>>

-----------------------------------------------------------------------------
(* dut_flow_select_fallback and dut_flow_fallback_to                       *)

\* Mutant: FSK is taken without asking whether it was tried.
FallbackLinkFSKAgain(tried) ==
  LET up(l) == l \in status.links /\ l \notin tried
  IN IF up("ble") THEN "ble" ELSE IF up("lora") THEN "lora" ELSE "fsk"

\* The link a fallback takes: one that is up, else FSK, else LoRa once time is
\* known; never one that was tried.  `none' when there is no such link.
FallbackLink(tried) ==
  LET up(l) == l \in status.links /\ l \notin tried
  IN IF up("ble") THEN "ble"
     ELSE IF up("lora") THEN "lora"
     ELSE IF "fsk" \notin tried THEN "fsk"
     ELSE IF cachedTime /\ "lora" \notin tried THEN "lora"
     ELSE "none"

Tried == pending.attempted \cup {pending.link}

SelectFallback ==
  /\ call.step = "select"
  /\ pending # None /\ pending.fallback
  /\ LET link == FallbackLink(Tried)
     IN /\ link # "none"
        /\ pending' = [pending EXCEPT !.link = link, !.target = TargetForSendLink(link),
                                      !.attempted = Tried \cup {link}, !.puts = 0]
        /\ call' = [call EXCEPT !.step = "reach", !.goal = TargetForSendLink(link)]
  /\ inflight' = FALSE
  /\ ResetRetries
  /\ UNCHANGED <<sessionVars, cachedTime, linkVars, target, waitVars, status, queue, stackVars,
                 inputs>>

NoFallback ==
  /\ call.step = "select"
  /\ \/ pending = None /\ UNCHANGED pending
     \/ pending # None /\ ~pending.fallback /\ UNCHANGED pending
     \/ /\ pending # None /\ pending.fallback /\ FallbackLink(Tried) = "none"
        /\ pending' = [pending EXCEPT !.attempted = Tried]
  /\ call' = [call EXCEPT !.step = "failed"]
  /\ UNCHANGED <<sessionVars, cachedTime, linkVars, target, retryVars, waitVars, inflight,
                 status, queue, stackVars, inputs>>

-----------------------------------------------------------------------------
(* What a caller does with the failure.                                    *)

\* A set, a send or a retry does not look at the result.
FailureIgnored ==
  /\ call.step = "failed" /\ call.onFail = "ignore"
  /\ call' = Return(call.log)
  /\ UNCHANGED <<sessionVars, cachedTime, linkVars, target, retryVars, waitVars, sendVars,
                 status, queue, stackVars, inputs>>

\* dut_flow_fail_pending_send drops the send and gives the session up.
FailPendingSend ==
  /\ call.step = "failed" /\ call.onFail = "fail"
  /\ pending' = None /\ inflight' = FALSE
  /\ target' = {} /\ txRetries' = 0
  /\ CancelWait
  /\ mode' = FALSE /\ policy' = FALSE
  /\ call' = Return(call.log)
  /\ UNCHANGED <<handle, cachedTime, current, config, stackLinks, linkRetries, status, queue,
                 stackVars, inputs>>

\* A refused send waits for its link once more.
WaitAgain ==
  /\ call.step = "failed" /\ call.onFail = "wait"
  /\ target' = pending.target
  /\ ScheduleWait(StageFor(TargetForSendLink(pending.link)))
  /\ call' = Return(call.log)
  /\ UNCHANGED <<sessionVars, cachedTime, linkVars, retryVars, sendVars, status, queue,
                 stackVars, inputs>>

\* dut_flow_log_status synchronises the current link before it prints.
LogStatus ==
  /\ call.step = "log"
  /\ current' = SyncedCurrent
  /\ call' = Idle
  /\ UNCHANGED <<sessionVars, cachedTime, config, policy, stackLinks, target, retryVars,
                 waitVars, sendVars, status, queue, stackVars, inputs>>

-----------------------------------------------------------------------------
(* dut_flow_timeout_event.  The event does not say which wait it was       *)
(* queued for: it expires the one that is running when it is handled.      *)

TimeoutUnowned ==
  /\ Take({"timeout"})
  /\ ~mode \/ ~handle
  /\ CancelWait
  /\ UNCHANGED <<sessionVars, cachedTime, linkVars, target, retryVars, sendVars, status, call,
                 stackVars, inputs>>

TimeoutIdle ==
  /\ Take({"timeout"})
  /\ mode /\ handle /\ stage = "idle"
  /\ UNCHANGED <<sessionVars, cachedTime, linkVars, target, retryVars, waitVars, sendVars,
                 status, call, stackVars, inputs>>

TimeoutExpired ==
  /\ Take({"timeout"})
  /\ mode /\ handle /\ stage # "idle"
  /\ linkRetries[stage] >= MaxLinkRetries
  /\ call' = Run("select", {}, "fail", TRUE)
  /\ UNCHANGED <<sessionVars, cachedTime, linkVars, target, retryVars, waitVars, sendVars,
                 status, stackVars, inputs>>

TimeoutRetry ==
  /\ Take({"timeout"})
  /\ mode /\ handle /\ stage # "idle"
  /\ linkRetries[stage] < MaxLinkRetries
  /\ linkRetries' = [linkRetries EXCEPT ![stage] = @ + 1]
  /\ \/ /\ TransitionDone(RetryMask(stage), TRUE)
        /\ ScheduleWait(stage)
        /\ call' = Return(TRUE)
     \/ /\ TransitionFailed(RetryMask(stage), TRUE)
        /\ call' = Run("select", {}, "fail", TRUE)
        /\ UNCHANGED waitVars
  /\ UNCHANGED <<sessionVars, cachedTime, target, txRetries, sendVars, status, stackVars, inputs>>

-----------------------------------------------------------------------------
(* dut_event_flow_tx_result                                                *)

\* Mutants of the next three: ids are not compared; a result is dropped while a
\* link is waited for; one retry too many.
DescMatchesButId(desc) == desc.link = pending.link /\ desc.resp = pending.resp
ResultIsAwaitedUnlessWaiting(desc) ==
  mode /\ pending # None /\ inflight /\ stage = "idle" /\ desc.id = pending.id
TxRetriesOverspent == txRetries > MaxTxRetries

DescMatches(desc) ==
  desc.id = pending.id /\ desc.link = pending.link /\ desc.resp = pending.resp

ResultIsAwaited(desc) == mode /\ pending # None /\ inflight /\ DescMatches(desc)

\* The message has been retried as often as it may.
TxRetriesSpent == txRetries >= MaxTxRetries

TxResultIgnored ==
  /\ Take({"result"})
  /\ ~ResultIsAwaited(Head(queue).desc)
  /\ UNCHANGED <<sessionVars, cachedTime, linkVars, target, retryVars, waitVars, sendVars,
                 status, call, stackVars, inputs>>

TxCompleted ==
  /\ Take({"result"})
  /\ ResultIsAwaited(Head(queue).desc)
  /\ Head(queue).success
  /\ pending' = None /\ inflight' = FALSE /\ txRetries' = 0
  /\ UNCHANGED <<sessionVars, cachedTime, linkVars, target, linkRetries, waitVars, status,
                 call, stackVars, inputs>>

TxGivenUp ==
  /\ Take({"result"})
  /\ ResultIsAwaited(Head(queue).desc)
  /\ ~Head(queue).success
  /\ TxRetriesSpent
  /\ inflight' = FALSE
  /\ call' = Run("select", {}, "fail", TRUE)
  /\ UNCHANGED <<sessionVars, cachedTime, linkVars, target, retryVars, waitVars, pending,
                 status, stackVars, inputs>>

TxRetried ==
  /\ Take({"result"})
  /\ ResultIsAwaited(Head(queue).desc)
  /\ ~Head(queue).success
  /\ ~TxRetriesSpent
  /\ txRetries' = txRetries + 1
  /\ inflight' = FALSE
  /\ target' = pending.target
  /\ call' = IF LinkIsReady(pending.link) THEN Run("try", {}, "ignore", TRUE)
             ELSE Run("reach", Normalize(pending.target), "ignore", TRUE)
  /\ UNCHANGED <<sessionVars, cachedTime, linkVars, linkRetries, waitVars, pending, status,
                 stackVars, inputs>>

-----------------------------------------------------------------------------
(* sidewalk_event_new_status and dut_event_flow_on_status                  *)

NewStatus ==
  /\ Take({"status"})
  /\ status' = Head(queue).status
  /\ call' = IF mode /\ handle THEN Run("status", {}, "ignore", FALSE) ELSE Idle
  /\ UNCHANGED <<sessionVars, cachedTime, linkVars, target, retryVars, waitVars, sendVars,
                 stackVars, inputs>>

\* Time has come over FSK for a flow that wants BLE+LoRa.
TimeArrived ==
  /\ target = BLELORA /\ SyncedCurrent = FSK
  /\ status.ready /\ "fsk" \in status.links
  /\ cachedTime \/ status.synced

FlowOnStatus ==
  /\ call.step = "status"
  /\ cachedTime' = (cachedTime \/ status.synced)
  /\ IF TimeArrived
     THEN /\ \/ TransitionDone(target, FALSE) /\ ScheduleWait("wait_lora")
             \/ TransitionFailed(target, FALSE) /\ ScheduleWait("wait_fsk")
          /\ UNCHANGED target
     ELSE /\ current' = SyncedCurrent
          /\ IF target # {} /\ TargetIsReady(target)
             THEN CancelWait /\ target' = {}
             ELSE UNCHANGED <<waitVars, target>>
          /\ UNCHANGED <<config, policy, stackLinks>>
  /\ call' = Run("try", {}, "ignore", FALSE)
  /\ UNCHANGED <<sessionVars, retryVars, sendVars, status, queue, stackVars, inputs>>

-----------------------------------------------------------------------------
(* The other flow commands, and the handlers of the same thread that are   *)
(* not the flow's but use its session.                                     *)

FlowCancel ==
  /\ Take({"cancel"})
  /\ pending' = None /\ inflight' = FALSE /\ target' = {}
  /\ CancelWait
  /\ mode' = FALSE /\ policy' = FALSE
  /\ call' = Return(TRUE)
  /\ UNCHANGED <<handle, cachedTime, current, config, stackLinks, retryVars, status, stackVars,
                 inputs>>

FlowStatus ==
  /\ Take({"flow_status"})
  /\ call' = Return(TRUE)
  /\ UNCHANGED <<sessionVars, cachedTime, linkVars, target, retryVars, waitVars, sendVars,
                 status, stackVars, inputs>>

\* dut_flow_reset_state
ResetState ==
  /\ mode' = FALSE /\ cachedTime' = FALSE /\ policy' = FALSE
  /\ current' = {} /\ target' = {}
  /\ ResetRetries
  /\ CancelWait
  /\ pending' = None /\ inflight' = FALSE
  /\ status' = NoStatus

\* dut_event_init: sid_init may fail, or not be reached without
\* manufacturing data.
DutInit ==
  /\ Take({"init"})
  /\ ResetState
  /\ config' = Head(queue).mask
  /\ handle' \in {handle, TRUE}
  /\ UNCHANGED <<stackLinks, call, stackVars, inputs>>

DutDeinit ==
  /\ Take({"deinit"})
  /\ handle' = FALSE
  /\ ResetState
  /\ stackLinks' = {} /\ outstanding' = {}
  /\ UNCHANGED <<config, call, lastId, inputs>>

DutStart ==
  /\ Take({"start"})
  /\ ResetState
  /\ \/ UNCHANGED stackLinks
     \/ handle /\ stackLinks' = stackLinks \cup Head(queue).mask
  /\ UNCHANGED <<handle, config, call, stackVars, inputs>>

DutStop ==
  /\ Take({"stop"})
  /\ ResetState
  /\ \/ UNCHANGED stackLinks
     \/ handle /\ stackLinks' = stackLinks \ Head(queue).mask
  /\ UNCHANGED <<handle, config, call, stackVars, inputs>>

SwitchTypes == {"link_switch", "auto_switch"}

\* sidewalk_event_link_switch, from a button or from the auto-switch work: the
\* stack is taken down and started on the next mask.  When it cannot be opened
\* again there may be no session left.  The flow's own state is not told.
LinkSwitch ==
  /\ Take(SwitchTypes)
  /\ handle
  /\ config' = CASE config = BLE -> FSK
                 [] config = FSK -> BLELORA
                 [] OTHER        -> BLE
  /\ \/ stackLinks' \in {{}, config'} /\ UNCHANGED handle
     \/ stackLinks' = {} /\ handle' = FALSE
  /\ outstanding' = {}
  /\ UNCHANGED <<mode, cachedTime, policy, current, target, retryVars, waitVars, sendVars,
                 status, call, lastId, inputs>>

LinkSwitchIgnored ==
  /\ Take(SwitchTypes)
  /\ ~handle
  /\ UNCHANGED <<sessionVars, cachedTime, linkVars, target, retryVars, waitVars, sendVars,
                 status, call, stackVars, inputs>>

\* sidewalk_prepare_for_ship closes the session under the flow.
PrepareForShip ==
  /\ Take({"ship"})
  /\ handle' = FALSE
  /\ stackLinks' = {} /\ outstanding' = {}
  /\ UNCHANGED <<mode, cachedTime, current, config, policy, target, retryVars, waitVars,
                 sendVars, status, call, lastId, inputs>>

-----------------------------------------------------------------------------
(* The other actors.                                                       *)

\* dut_flow_timeout_work_handler: a timeout that finds the queue full is only
\* logged.
TimerExpires ==
  /\ timer
  /\ timer' = FALSE
  /\ queue' = IF Len(queue) < QueueSize THEN Append(queue, [type |-> "timeout"]) ELSE queue
  /\ UNCHANGED <<sessionVars, cachedTime, linkVars, target, retryVars, stage, sendVars, status,
                 call, stackVars, inputs>>

\* cli_parse_hello_flow_target: what has to be started for a link; `auto' leaves
\* the choice to the flow.
ParsedTarget(link) == IF link = "any" THEN {} ELSE TargetForSendLink(link)

\* cmd_sid_flow_send: `auto' and a link's own name allow a fallback, `strict-'
\* does not.
FlowRequest(link, fallback, resp) ==
  [type |-> "send",
   send |-> [uid |-> 0, link |-> link, target |-> ParsedTarget(link), fallback |-> fallback,
             attempted |-> {}, resp |-> resp, id |-> 0, puts |-> 0]]

\* Every request has a name of its own.
Requested(c) == IF c.type = "send" THEN [c EXCEPT !.send.uid = inputs + 1] ELSE c

\* The shell, a button or the auto-switch work queues a command.  The
\* auto-switch does so only when it sees no flow own the session.  A command
\* that finds the queue full is given back to its sender.
Command ==
  /\ inputs < MaxInputs
  /\ Len(queue) < QueueSize
  /\ inputs' = inputs + 1
  /\ \E c \in Commands :
       /\ c.type = "auto_switch" => ~mode
       /\ queue' = Append(queue, Requested(c))
  /\ UNCHANGED <<sessionVars, cachedTime, linkVars, target, retryVars, waitVars, sendVars,
                 status, call, stackVars>>

\* on_sidewalk_status_changed; the copy of a status is dropped on a full queue.
StackStatus ==
  /\ call.step = "idle" /\ handle
  /\ inputs < MaxInputs
  /\ Len(queue) < QueueSize
  /\ inputs' = inputs + 1
  /\ \E s \in Statuses :
       /\ s.links \subseteq stackLinks
       /\ queue' = Append(queue, [type |-> "status", status |-> s])
  /\ UNCHANGED <<sessionVars, cachedTime, linkVars, target, retryVars, waitVars, sendVars,
                 status, call, stackVars>>

\* on_sidewalk_msg_sent and on_sidewalk_send_error: dut_flow_submit_tx_result
\* queues the result while a send is in flight, unless there is no room for it.
StackResult ==
  /\ call.step = "idle" /\ handle
  /\ \E d \in outstanding, success \in BOOLEAN :
       /\ outstanding' = outstanding \ {d}
       /\ \/ /\ mode /\ pending # None /\ inflight /\ Len(queue) < QueueSize
             /\ queue' = Append(queue, [type |-> "result", success |-> success, desc |-> d])
          \/ /\ \/ ~mode \/ pending = None \/ ~inflight \/ Len(queue) = QueueSize \/ AllocMayFail
             /\ UNCHANGED queue
  /\ UNCHANGED <<sessionVars, cachedTime, linkVars, target, retryVars, waitVars, sendVars,
                 status, call, lastId, inputs>>

-----------------------------------------------------------------------------
\* sidewalk_event_autostart: the boot left Sidewalk alone, or could not open it,
\* or started it on the stored mask or the default one; the start may fail.
Booted ==
  \/ handle = FALSE /\ config \in Targets \cup {{}} /\ stackLinks = {}
  \/ handle = TRUE /\ config \in Targets /\ stackLinks \in {{}, config}

Init ==
  /\ mode = FALSE /\ cachedTime = FALSE /\ policy = FALSE
  /\ current = {} /\ target = {}
  /\ linkRetries = NoLinkRetries /\ txRetries = 0
  /\ stage = "idle" /\ timer = FALSE
  /\ pending = None /\ inflight = FALSE
  /\ Booted
  /\ status = NoStatus
  /\ queue = <<>> /\ call = Idle
  /\ outstanding = {} /\ lastId = 0
  /\ inputs = 0

FlowStep ==
  \/ FlowSend
  \/ ReachBootstrap \/ ReachTarget \/ ReachFailed
  \/ TrySkipped \/ TryAccepted \/ TryRejected
  \/ SelectFallback \/ NoFallback
  \/ FailureIgnored \/ FailPendingSend \/ WaitAgain
  \/ LogStatus \/ FlowOnStatus

HandleEvent ==
  \/ KeepSession \/ OpenSession \/ OpenSessionFailed
  \/ TimeoutUnowned \/ TimeoutIdle \/ TimeoutExpired \/ TimeoutRetry
  \/ TxResultIgnored \/ TxCompleted \/ TxGivenUp \/ TxRetried
  \/ NewStatus \/ FlowCancel \/ FlowStatus
  \/ DutInit \/ DutDeinit \/ DutStart \/ DutStop
  \/ LinkSwitch \/ LinkSwitchIgnored \/ PrepareForShip

SidewalkThread == FlowStep \/ HandleEvent

Next == SidewalkThread \/ TimerExpires \/ Command \/ StackStatus \/ StackResult

Spec == Init /\ [][Next]_vars

\* The thread runs while it has an event, and a kernel timer expires.  Nothing
\* makes a user type or the network answer.
Fairness == WF_vars(SidewalkThread) /\ WF_vars(TimerExpires)
FairSpec == Spec /\ Fairness

-----------------------------------------------------------------------------
(* Properties                                                              *)

\* Every variable has the type of what it models; the retry counters stay
\* within their limits.
TypeOK ==
  /\ {mode, cachedTime, policy, inflight, timer, handle} \subseteq BOOLEAN
  /\ {current, target, config, stackLinks} \subseteq Masks
  /\ linkRetries \in [WaitStages -> 0..MaxLinkRetries]
  /\ txRetries \in 0..MaxTxRetries
  /\ stage \in Stages
  /\ pending \in Send \cup {None}
  /\ status \in Status
  /\ queue \in Seq(Event) /\ Len(queue) <= QueueSize
  /\ call \in Call
  /\ outstanding \in SUBSET Desc
  /\ lastId \in Nat
  /\ inputs \in Nat

\* Nothing of a flow outlives its ownership of the session: a pending send, a
\* wait and its timer, a target and a send in flight exist only while
\* dut_flow_mode_enabled is set.  The auto-switch asks only that flag before it
\* touches the session (sensor_monitoring/app.c), so a send left behind by an
\* owner that is gone would be lost under it.
FlowOwnership ==
  /\ pending # None \/ stage # "idle" \/ timer \/ target # {} \/ policy => mode
  /\ inflight => pending # None

\* The flow starts LoRa only with time already cached (reach_target and
\* on_status bootstrap through FSK first).  Foreign starts are exempt: the
\* shell's own `sid start' and the link switches ask for any mask.
ForeignStart == call.step = "idle" /\ queue # <<>> /\ Head(queue).type \in SwitchTypes \cup {"start"}
LoRaNeedsTime ==
  [][("lora" \in stackLinks' /\ "lora" \notin stackLinks /\ ~ForeignStart) => cachedTime']_vars

\* A result completes the send it belongs to, never one that has replaced it:
\* a replaced or retried message may still be reported on while another one is
\* pending.  Only a RESPONSE, whose id its sender chose, can be taken for
\* another one.
CompletesOwnSend ==
  [][(Take({"result"}) /\ pending # None /\ pending' = None)
       => (Head(queue).desc.uid = pending.uid \/ pending.resp)]_vars

Queued(type) == {i \in 1..Len(queue) : queue[i].type = type}

\* Between two handlers a wait that is on has something to end it, its timer or
\* a timeout event on its way, and no timer runs without a wait.
WaitHasTimer ==
  call.step = "idle" =>
    /\ stage # "idle" => timer \/ Queued("timeout") # {}
    /\ timer => stage # "idle"

\* A send in flight has no timer of its own: the flow relies on the stack's
\* result alone.  So that result is still to come, from the stack or the queue.
AwaitedResultComes ==
  (inflight /\ call.step = "idle") =>
    \/ DescOf(pending) \in outstanding
    \/ \E i \in Queued("result") : queue[i].desc = DescOf(pending)

\* On one link the stack is given a message at most once and MaxTxRetries times
\* again, whatever statuses and stale timeouts come between.  That is so while
\* the flow is only asked to send and to cancel: `flow set' and `flow switch'
\* begin to count again for a message that is pending.
PutsBounded ==
  pending # None => pending.puts <= MaxTxRetries + 1

\* A wait for a link does not go on for ever: the send goes out on some link or
\* is dropped or replaced, or the wait is cancelled, as it is when the flow's
\* links come up.
WaitingFor(u) == pending # None /\ pending.uid = u /\ ~inflight /\ stage # "idle"
WaitEnds == \A u \in 1..MaxInputs : WaitingFor(u) ~> ~WaitingFor(u)

\* include/cli/app_shell.h says that a send falls back when its link is
\* unavailable: while all links that were asked for are started, a send that the
\* stack is working on, on a link that was last reported up, is not moved to
\* another one.
FallsBackWhenUnavailable ==
  [][(pending # None /\ pending' # None /\ pending'.uid = pending.uid
        /\ pending'.link # pending.link)
       => ~(inflight /\ LinkIsReady(pending.link)
              /\ target \cup {pending.link} \subseteq stackLinks)]_vars

\* include/cli/app_shell.h says that a send brings its link up with bounded
\* retries: a send that is not in flight has a wait that will end.
SendHasDeadline ==
  (call.step = "idle" /\ pending # None /\ ~inflight) => timer \/ Queued("timeout") # {}

\* The send slot the flow promises (module FlowSend).
Slot ==
  IF pending = None THEN None
  ELSE [mayMove |-> pending.fallback, link |-> pending.link, tried |-> pending.attempted,
        onAir |-> inflight]
Promise == INSTANCE FlowSend WITH slot <- Slot
ASSUME NoneIsNoMessage == None \notin Promise!Message

RefinesFlowSend == Promise!Spec

=============================================================================
