---------------------------- MODULE DutFlowProofs ----------------------------
(* Theorems about the hello-flow (DutFlow), for every value of its         *)
(* constants: the types; its ownership of the session; LoRa not before     *)
(* time; a result completes the send it belongs to; the slot behaves as    *)
(* FlowSend promises; a wait for a link has its timer; a message in flight *)
(* has its result to come; the stack is not given a message too often.     *)
EXTENDS DutFlow, TLAPS

-----------------------------------------------------------------------------
(* What the helpers return.                                                *)

LEMMA TargetsAreMasks == Targets \subseteq Masks
BY DEF Targets, Masks, BLE, FSK, BLELORA, Links

LEMMA SomeMasks ==
  {} \in Masks /\ Links \in Masks /\ BLE \in Masks /\ FSK \in Masks /\ BLELORA \in Masks
BY DEF Masks, BLE, FSK, BLELORA, Links

LEMMA MasksClosed ==
  ASSUME NEW m \in Masks, NEW n \in Masks
  PROVE  m \ n \in Masks /\ m \cup n \in Masks
BY DEF Masks

LEMMA NoStatusIsStatus == NoStatus \in Status
BY SomeMasks DEF NoStatus, Status

LEMMA NormalizeIsTarget == \A m : Normalize(m) \in Targets
BY DEF Normalize, Targets

LEMMA TargetForSendLinkIsTarget == \A l : TargetForSendLink(l) \in Targets
BY DEF TargetForSendLink, Targets

LEMMA FlowGoalIsTarget == \A e : FlowGoal(e) \in Targets
BY NormalizeIsTarget DEF FlowGoal, Targets

LEMMA ObservedIsTarget == ObservedLinkMask \in Targets \cup {{}}
BY DEF ObservedLinkMask, StatusToTargetMask, Targets

LEMMA SyncedIsMask ==
  ASSUME current \in Masks
  PROVE  SyncedCurrent \in Masks
BY ObservedIsTarget, TargetsAreMasks DEF SyncedCurrent

LEMMA StageForIsWait == \A m : StageFor(m) \in WaitStages
BY DEF StageFor, WaitStages

LEMMA RetryMaskIsTarget == \A s : RetryMask(s) \in Targets
BY DEF RetryMask, Targets

LEMMA AutoLinkIsLink == AutoLink \in Links
BY DEF AutoLink, Links

LEMMA FallbackLinkIsFresh ==
  ASSUME NEW tried
  PROVE  \/ FallbackLink(tried) = "none"
         \/ FallbackLink(tried) \in Links \ tried
BY DEF FallbackLink, Links

\* What an event carries, by its type.
LEMMA EventFields ==
  ASSUME NEW e \in Event
  PROVE  /\ e.type = "send" => e.send \in Send
         /\ e.type = "status" => e.status \in Status
         /\ e.type = "result" => e.desc \in Desc /\ e.success \in BOOLEAN
         /\ e.type \in {"set", "init", "start", "stop"} => e.mask \in Masks
BY DEF Event, PlainEvents

LEMMA ResolvedIsSend ==
  ASSUME NEW send \in Send
  PROVE  Resolved(send) \in Send /\ Resolved(send).link \in Links
BY AutoLinkIsLink, TargetForSendLinkIsTarget, TargetsAreMasks DEF Resolved, Send

LEMMA TakenEvent ==
  ASSUME NEW types, Take(types), queue \in Seq(Event), Len(queue) <= QueueSize
  PROVE  /\ Head(queue) \in Event
         /\ Head(queue).type \in types
         /\ queue' \in Seq(Event)
         /\ Len(queue') <= QueueSize
<1>1. queue # <<>> /\ queue' = Tail(queue) /\ Head(queue).type \in types
  BY DEF Take
<1>2. Head(queue) \in Event /\ Tail(queue) \in Seq(Event) /\ Len(Tail(queue)) = Len(queue) - 1
  BY <1>1
<1>3. QueueSize \in Nat
  BY ConstantsAssumption
<1> QED
  BY <1>1, <1>2, <1>3

LEMMA CallTypes ==
  /\ Idle \in Call
  /\ \A log \in BOOLEAN : Return(log) \in Call
  /\ \A step \in Steps, goal \in Masks, onFail \in OnFails, log \in BOOLEAN :
       Run(step, goal, onFail, log) \in Call
BY DEF Idle, Return, Run, Call, Steps, OnFails, Masks

-----------------------------------------------------------------------------
(* The inductive invariant.                                                *)

\* While one of the flow's functions is about to run, the flow owns the
\* session; a send has its request, a failed put still has its send.
CallOK ==
  /\ call.step \notin {"idle", "log"} => mode
  /\ call.step = "send" => call.send # None
  /\ call.step = "reach" => call.goal \in Targets
  /\ call.step \in {"idle", "log"} => call.onFail = "ignore"
  /\ call.onFail = "wait" => pending # None
  /\ pending # None => pending.link \in Links /\ pending.link \in pending.attempted

FlowInv == TypeOK /\ FlowOwnership /\ CallOK

LEMMA InitFlowInv == Init => FlowInv
<1> SUFFICES ASSUME Init PROVE FlowInv
  OBVIOUS
<1>1. TypeOK
  <2>1. /\ {mode, cachedTime, policy, inflight, timer, handle} \subseteq BOOLEAN
        /\ stage \in Stages /\ pending \in Send \cup {None}
        /\ outstanding \in SUBSET Desc /\ lastId \in Nat /\ inputs \in Nat
    BY DEF Init, Booted, Stages
  <2>2. {current, target, config, stackLinks} \subseteq Masks
    BY SomeMasks, TargetsAreMasks DEF Init, Booted
  <2>3. linkRetries \in [WaitStages -> 0..MaxLinkRetries] /\ txRetries \in 0..MaxTxRetries
    BY ConstantsAssumption DEF Init, NoLinkRetries
  <2>4. status \in Status
    BY NoStatusIsStatus DEF Init
  <2>5. queue \in Seq(Event) /\ Len(queue) <= QueueSize
    BY ConstantsAssumption DEF Init
  <2>6. call \in Call
    BY CallTypes DEF Init
  <2> QED
    BY <2>1, <2>2, <2>3, <2>4, <2>5, <2>6 DEF TypeOK
<1>2. FlowOwnership /\ CallOK
  BY DEF Init, Booted, FlowOwnership, CallOK, Idle
<1> QED
  BY <1>1, <1>2 DEF FlowInv

\* An event the thread takes, and what it makes of the queue.
LEMMA TypeTaken ==
  ASSUME TypeOK, NEW types, Take(types)
  PROVE  /\ Head(queue) \in Event
         /\ Head(queue).type \in types
         /\ queue' \in Seq(Event)
         /\ Len(queue') <= QueueSize
BY TakenEvent DEF TypeOK

\* Taking a session over, or failing to, keeps the types.
LEMMA SessionTypes ==
  ASSUME TypeOK, KeepSession \/ OpenSession \/ OpenSessionFailed
  PROVE  TypeOK'
<1> DEFINE e == Head(queue)
<1>0. /\ e \in Event /\ e.type \in FlowTypes
      /\ queue' \in Seq(Event) /\ Len(queue') <= QueueSize
  BY TypeTaken DEF KeepSession, OpenSession, OpenSessionFailed
<1>1. ASSUME EnterFlow(e) PROVE call' \in Call
  <2>1. CASE e.type = "send"
    <3>1. e.send \in Send
      BY <1>0, <2>1, EventFields
    <3>2. call' = [step |-> "send", goal |-> {}, onFail |-> "ignore", log |-> FALSE,
                   send |-> e.send]
      BY <1>1, <2>1 DEF EnterFlow, Idle
    <3>3. {} \in Masks
      BY SomeMasks
    <3> QED
      BY <3>1, <3>2, <3>3 DEF Call, Steps, OnFails
  <2>2. CASE e.type # "send"
    <3>1. FlowGoal(e) \in Masks
      BY FlowGoalIsTarget, TargetsAreMasks
    <3> QED
      BY <1>1, <2>2, <3>1, CallTypes DEF EnterFlow, Steps, OnFails
  <2> QED
    BY <2>1, <2>2
<1>2. CurrentSeenBy(e) \in Masks
  BY SyncedIsMask DEF CurrentSeenBy, TypeOK
<1>3. ASSUME ResetRetries
      PROVE  linkRetries' \in [WaitStages -> 0..MaxLinkRetries] /\ txRetries' \in 0..MaxTxRetries
  BY <1>3, ConstantsAssumption DEF ResetRetries, NoLinkRetries
<1>4. CASE KeepSession
  BY <1>0, <1>1, <1>2, <1>3, <1>4
  DEF KeepSession, TypeOK, sessionVars, waitVars, sendVars, retryVars, stackVars
<1>5. CASE OpenSession
  <2>1. /\ {current, target, config, stackLinks}' \subseteq Masks
        /\ status' \in Status
    BY <1>5, SomeMasks, NoStatusIsStatus DEF OpenSession
  <2>2. /\ call' \in Call
        /\ linkRetries' \in [WaitStages -> 0..MaxLinkRetries] /\ txRetries' \in 0..MaxTxRetries
    BY <1>1, <1>3, <1>5 DEF OpenSession
  <2>3. UNCHANGED <<timer, pending, lastId, inputs>> /\ outstanding' = {}
    BY <1>5 DEF OpenSession
  <2>4. /\ {mode, cachedTime, policy, inflight, timer, handle}' \subseteq BOOLEAN
        /\ stage' \in Stages
    BY <1>5 DEF OpenSession, TypeOK, Stages
  <2> QED
    BY <1>0, <2>1, <2>2, <2>3, <2>4 DEF TypeOK
<1>6. CASE OpenSessionFailed
  <2>1. /\ {current, target, config, stackLinks}' \subseteq Masks
        /\ status' \in Status
    BY <1>2, <1>6, SomeMasks, NoStatusIsStatus DEF OpenSessionFailed, TypeOK
  <2> QED
    BY <1>0, <1>6, <2>1 DEF OpenSessionFailed, TypeOK, retryVars, waitVars, sendVars
<1> QED
  BY <1>4, <1>5, <1>6

\* A transition moves links about.
LEMMA TransitionTypes ==
  ASSUME TypeOK, NEW goal \in Targets, NEW force,
         TransitionDone(goal, force) \/ TransitionFailed(goal, force)
  PROVE  {current, config, stackLinks}' \subseteq Masks /\ policy' \in BOOLEAN
<1>1. SyncedCurrent \in Masks /\ goal \in Masks
  BY SyncedIsMask, TargetsAreMasks DEF TypeOK
<1>2. /\ stackLinks \ SyncedCurrent \in Masks
      /\ (stackLinks \ SyncedCurrent) \cup goal \in Masks
  BY <1>1, MasksClosed DEF TypeOK
<1> QED
  BY <1>1, <1>2, SomeMasks DEF TransitionDone, TransitionFailed, TypeOK

\* A flow send takes the slot.
LEMMA FlowSendTypes ==
  ASSUME TypeOK, CallOK, FlowSend
  PROVE  TypeOK'
<1> DEFINE send == Resolved(call.send)
<1>1. call.send \in Send
  BY DEF FlowSend, CallOK, TypeOK, Call
<1>2. send \in Send /\ send.link \in Links
  BY <1>1, ResolvedIsSend
<1>3. pending' \in Send
  <2>1. pending' = [send EXCEPT !.attempted = @ \cup {send.link}]
    BY DEF FlowSend
  <2>2. send.attempted \cup {send.link} \in Masks
    BY <1>2 DEF Send, Masks
  <2> HIDE DEF send
  <2> QED
    BY <1>2, <2>1, <2>2 DEF Send
<1>4. call' \in Call
  BY CallTypes, NormalizeIsTarget, TargetsAreMasks, SomeMasks DEF FlowSend, Steps, OnFails
<1>5. linkRetries' \in [WaitStages -> 0..MaxLinkRetries] /\ txRetries' \in 0..MaxTxRetries
  <2>1. ResetRetries \/ UNCHANGED retryVars
    BY DEF FlowSend
  <2> QED
    BY <2>1, ConstantsAssumption DEF TypeOK, ResetRetries, NoLinkRetries, retryVars
<1> QED
  BY <1>3, <1>4, <1>5 DEF FlowSend, TypeOK, sessionVars, linkVars, waitVars, stackVars

\* Reaching for a target.
LEMMA ReachTypes ==
  ASSUME TypeOK, CallOK, ReachBootstrap \/ ReachTarget \/ ReachFailed
  PROVE  TypeOK'
<1>1. call.goal \in Targets /\ call.goal \in Masks /\ FSK \in Targets
  BY TargetsAreMasks DEF ReachBootstrap, ReachTarget, ReachFailed, Targets, CallOK
<1>2. target' \in Masks
  BY <1>1 DEF ReachBootstrap, ReachTarget, ReachFailed
<1>3. {current, config, stackLinks}' \subseteq Masks /\ policy' \in BOOLEAN
  BY <1>1, TransitionTypes, SomeMasks DEF ReachBootstrap, ReachTarget, ReachFailed, TypeOK
<1>4. stage' \in Stages /\ timer' \in BOOLEAN
  BY StageForIsWait
  DEF ReachBootstrap, ReachTarget, ReachFailed, TypeOK, CancelWait, ScheduleWait, Stages,
      WaitStages, waitVars
<1>5. call' \in Call
  <2>1. ReachFailed => call' \in Call
    BY DEF ReachFailed, TypeOK, Call, Steps
  <2> QED
    BY <2>1, CallTypes, SomeMasks DEF ReachBootstrap, ReachTarget, Steps, OnFails
<1> QED
  BY <1>2, <1>3, <1>4, <1>5
  DEF ReachBootstrap, ReachTarget, ReachFailed, TypeOK, sessionVars, retryVars, sendVars, stackVars

\* The pending send, while it is put, refused or moved, stays a send whose
\* link counts as tried.
SendOK(s) == s \in Send /\ s.link \in Links /\ s.link \in s.attempted

LEMMA SendPut ==
  ASSUME NEW s, SendOK(s), NEW n \in Nat, NEW p \in Nat
  PROVE  SendOK([s EXCEPT !.id = n, !.puts = p])
BY DEF SendOK, Send

LEMMA SendTried ==
  ASSUME NEW s, SendOK(s), NEW a \in Masks, s.link \in a
  PROVE  SendOK([s EXCEPT !.attempted = a])
BY DEF SendOK, Send

LEMMA SendMoved ==
  ASSUME NEW s, SendOK(s), NEW l \in Links, NEW t \in Masks, NEW a \in Masks, l \in a
  PROVE  SendOK([s EXCEPT !.link = l, !.target = t, !.attempted = a, !.puts = 0])
BY DEF SendOK, Send

LEMMA PendingKept ==
  ASSUME TypeOK, CallOK,
         TrySkipped \/ TryAccepted \/ TryRejected \/ SelectFallback \/ NoFallback
  PROVE  IF pending = None THEN pending' = None ELSE SendOK(pending')
<1>1. pending # None => SendOK(pending)
  BY DEF SendOK, TypeOK, CallOK
<1>2. pending # None => Tried \in Masks /\ pending.link \in Tried
  BY <1>1 DEF SendOK, Send, Tried, Masks
<1>3. CASE TrySkipped
  BY <1>1, <1>3 DEF TrySkipped, sendVars
<1>4. CASE TryAccepted
  <2>1. /\ pending # None /\ lastId + 1 \in Nat
        /\ pending.puts + 1 \in Nat /\ pending.id \in Nat
    BY <1>1, <1>4 DEF TryAccepted, CanSend, TypeOK, SendOK, Send
  <2>2. PICK n \in Nat : pending' = [pending EXCEPT !.id = n, !.puts = pending.puts + 1]
    BY <1>4, <2>1 DEF TryAccepted
  <2> QED
    BY <1>1, <2>1, <2>2, SendPut
<1>5. CASE TryRejected
  <2>1. pending # None /\ pending.id \in Nat /\ pending \in Send
    BY <1>1, <1>5 DEF TryRejected, CanSend, SendOK, Send
  <2>2. PICK n \in Nat : pending' = [pending EXCEPT !.id = n]
    BY <1>5, <2>1 DEF TryRejected
  <2> QED
    BY <1>1, <2>1, <2>2 DEF SendOK, Send
<1>6. CASE SelectFallback
  <2> DEFINE link == FallbackLink(Tried)
  <2>1. pending # None /\ link \in Links
    BY <1>6, FallbackLinkIsFresh DEF SelectFallback
  <2>2. TargetForSendLink(link) \in Masks /\ Tried \cup {link} \in Masks
    BY <1>2, <2>1, TargetForSendLinkIsTarget, TargetsAreMasks DEF Masks
  <2>3. pending' = [pending EXCEPT !.link = link, !.target = TargetForSendLink(link),
                                   !.attempted = Tried \cup {link}, !.puts = 0]
    BY <1>6 DEF SelectFallback
  <2> HIDE DEF link
  <2> QED
    BY <1>1, <2>1, <2>2, <2>3, SendMoved
<1>7. CASE NoFallback
  <2>1. pending' = pending \/ (pending # None /\ pending' = [pending EXCEPT !.attempted = Tried])
    BY <1>7 DEF NoFallback
  <2> QED
    BY <1>1, <1>2, <2>1, SendTried
<1> QED
  BY <1>3, <1>4, <1>5, <1>6, <1>7

\* Putting the pending send, and what becomes of a refused one.
LEMMA TryTypes ==
  ASSUME TypeOK, CallOK,
         TrySkipped \/ TryAccepted \/ TryRejected \/ SelectFallback \/ NoFallback
  PROVE  TypeOK'
<1>0. pending' \in Send \cup {None}
  BY PendingKept DEF SendOK
<1>1. CASE TrySkipped
  BY <1>1, CallTypes
  DEF TrySkipped, TypeOK, Call, sessionVars, linkVars, retryVars, waitVars, sendVars, stackVars
<1>2. CASE TryAccepted
  <2>1. pending' \in Send
    BY <1>2, PendingKept DEF TryAccepted, CanSend, SendOK
  <2>2. DescOf(pending') \in Desc
    BY <2>1 DEF DescOf, Send, Desc
  <2>3. outstanding' \in SUBSET Desc /\ lastId' \in Nat /\ inflight' \in BOOLEAN
    BY <1>2, <2>2 DEF TryAccepted, TypeOK
  <2>4. call' \in Call
    BY <1>2, CallTypes DEF TryAccepted, TypeOK, Call
  <2> QED
    BY <1>2, <2>1, <2>3, <2>4
    DEF TryAccepted, TypeOK, sessionVars, linkVars, retryVars, waitVars
<1>3. CASE TryRejected
  <2>2. call' \in Call
    BY <1>3, CallTypes, SomeMasks DEF TryRejected, TypeOK, Call, Steps, OnFails
  <2> QED
    BY <1>0, <1>3, <2>2
    DEF TryRejected, TypeOK, sessionVars, linkVars, retryVars, waitVars, stackVars
<1>4. CASE SelectFallback
  <2> DEFINE link == FallbackLink(Tried)
  <2>1. TargetForSendLink(link) \in Masks
    BY TargetForSendLinkIsTarget, TargetsAreMasks
  <2>2. call' = [call EXCEPT !.step = "reach", !.goal = TargetForSendLink(link)]
    BY <1>4 DEF SelectFallback
  <2> HIDE DEF link
  <2>3. call' \in Call
    BY <2>1, <2>2 DEF TypeOK, Call, Steps
  <2>4. linkRetries' \in [WaitStages -> 0..MaxLinkRetries] /\ txRetries' \in 0..MaxTxRetries
    BY <1>4, ConstantsAssumption DEF SelectFallback, ResetRetries, NoLinkRetries
  <2> QED
    BY <1>0, <1>4, <2>3, <2>4
    DEF SelectFallback, TypeOK, sessionVars, linkVars, waitVars, stackVars
<1>5. CASE NoFallback
  <2>1. call' \in Call
    BY <1>5 DEF NoFallback, TypeOK, Call, Steps
  <2> QED
    BY <1>0, <1>5, <2>1
    DEF NoFallback, TypeOK, sessionVars, linkVars, retryVars, waitVars, stackVars
<1> QED
  BY <1>1, <1>2, <1>3, <1>4, <1>5

\* The ends of a handler.
LEMMA EndTypes ==
  ASSUME TypeOK, CallOK, FailureIgnored \/ FailPendingSend \/ WaitAgain \/ LogStatus
  PROVE  TypeOK'
<1>1. call' \in Call
  BY CallTypes DEF FailureIgnored, FailPendingSend, WaitAgain, LogStatus, TypeOK, Call
<1>2. {current, target}' \subseteq Masks
  BY SyncedIsMask, SomeMasks
  DEF FailureIgnored, FailPendingSend, WaitAgain, LogStatus, TypeOK, CallOK, Send, linkVars
<1>3. stage' \in Stages /\ {timer, mode, policy, inflight}' \subseteq BOOLEAN
  BY StageForIsWait
  DEF FailureIgnored, FailPendingSend, WaitAgain, LogStatus, TypeOK, CancelWait, ScheduleWait,
      Stages, WaitStages, waitVars, sessionVars, sendVars, linkVars
<1>4. txRetries' \in 0..MaxTxRetries
  BY ConstantsAssumption
  DEF FailureIgnored, FailPendingSend, WaitAgain, LogStatus, TypeOK, retryVars
<1> QED
  BY <1>1, <1>2, <1>3, <1>4
  DEF FailureIgnored, FailPendingSend, WaitAgain, LogStatus, TypeOK, sessionVars, linkVars,
      retryVars, waitVars, sendVars, stackVars

\* A timeout.
LEMMA TimeoutTypes ==
  ASSUME TypeOK, TimeoutUnowned \/ TimeoutIdle \/ TimeoutExpired \/ TimeoutRetry
  PROVE  TypeOK'
<1>1. queue' \in Seq(Event) /\ Len(queue') <= QueueSize
  BY TypeTaken DEF TimeoutUnowned, TimeoutIdle, TimeoutExpired, TimeoutRetry
<1>2. call' \in Call
  BY CallTypes, SomeMasks
  DEF TimeoutUnowned, TimeoutIdle, TimeoutExpired, TimeoutRetry, TypeOK, Steps, OnFails
<1>3. stage' \in Stages /\ timer' \in BOOLEAN
  BY DEF TimeoutUnowned, TimeoutIdle, TimeoutExpired, TimeoutRetry, TypeOK, CancelWait,
         ScheduleWait, Stages, waitVars
<1>4. linkRetries' \in [WaitStages -> 0..MaxLinkRetries]
  <2>1. CASE TimeoutRetry
    <3>1. stage \in WaitStages /\ linkRetries[stage] \in 0..MaxLinkRetries
      BY <2>1 DEF TimeoutRetry, TypeOK, Stages
    <3>2. linkRetries[stage] + 1 \in 0..MaxLinkRetries
      BY <2>1, <3>1, ConstantsAssumption DEF TimeoutRetry
    <3> QED
      BY <2>1, <3>2 DEF TimeoutRetry, TypeOK
  <2> QED
    BY <2>1 DEF TimeoutUnowned, TimeoutIdle, TimeoutExpired, TypeOK, retryVars
<1>5. {current, config, stackLinks}' \subseteq Masks /\ policy' \in BOOLEAN
  BY TransitionTypes, RetryMaskIsTarget
  DEF TimeoutUnowned, TimeoutIdle, TimeoutExpired, TimeoutRetry, TypeOK, linkVars
<1> QED
  BY <1>1, <1>2, <1>3, <1>4, <1>5
  DEF TimeoutUnowned, TimeoutIdle, TimeoutExpired, TimeoutRetry, TypeOK, sessionVars, retryVars,
      sendVars, stackVars

\* A transmission result.
LEMMA ResultTypes ==
  ASSUME TypeOK, TxResultIgnored \/ TxCompleted \/ TxGivenUp \/ TxRetried
  PROVE  TypeOK'
<1>1. queue' \in Seq(Event) /\ Len(queue') <= QueueSize
  BY TypeTaken DEF TxResultIgnored, TxCompleted, TxGivenUp, TxRetried
<1>2. call' \in Call
  BY CallTypes, SomeMasks, NormalizeIsTarget, TargetsAreMasks
  DEF TxResultIgnored, TxCompleted, TxGivenUp, TxRetried, TypeOK, Steps, OnFails
<1>3. target' \in Masks /\ inflight' \in BOOLEAN /\ pending' \in Send \cup {None}
  BY DEF TxResultIgnored, TxCompleted, TxGivenUp, TxRetried, TypeOK, ResultIsAwaited, Send, sendVars
<1>4. txRetries' \in 0..MaxTxRetries
  <2>1. TxRetried => txRetries' = txRetries + 1 /\ ~(txRetries >= MaxTxRetries)
    BY DEF TxRetried, TxRetriesSpent
  <2>2. ~TxRetried => txRetries' \in {txRetries, 0}
    BY DEF TxResultIgnored, TxCompleted, TxGivenUp, retryVars
  <2>3. txRetries \in 0..MaxTxRetries /\ MaxTxRetries \in Nat
    BY ConstantsAssumption DEF TypeOK
  <2> QED
    BY <2>1, <2>2, <2>3
<1> QED
  BY <1>1, <1>2, <1>3, <1>4
  DEF TxResultIgnored, TxCompleted, TxGivenUp, TxRetried, TypeOK, sessionVars, linkVars,
      retryVars, waitVars, sendVars, stackVars

\* A status.
LEMMA StatusTypes ==
  ASSUME TypeOK, NewStatus \/ FlowOnStatus
  PROVE  TypeOK'
<1>1. CASE NewStatus
  <2>1. queue' \in Seq(Event) /\ Len(queue') <= QueueSize /\ status' \in Status
    BY <1>1, TypeTaken, EventFields DEF NewStatus
  <2>2. call' \in Call
    BY <1>1, CallTypes, SomeMasks DEF NewStatus, Steps, OnFails
  <2> QED
    BY <1>1, <2>1, <2>2
    DEF NewStatus, TypeOK, sessionVars, linkVars, retryVars, waitVars, sendVars, stackVars
<1>2. CASE FlowOnStatus
  <2>1. {current, config, stackLinks, target}' \subseteq Masks /\ policy' \in BOOLEAN
    <3>1. CASE TimeArrived
      <4>1. target \in Targets
        BY <3>1 DEF TimeArrived, Targets
      <4> QED
        BY <1>2, <3>1, <4>1, TransitionTypes DEF FlowOnStatus, TypeOK
    <3>2. CASE ~TimeArrived
      BY <1>2, <3>2, SyncedIsMask, SomeMasks DEF FlowOnStatus, TypeOK
    <3> QED
      BY <3>1, <3>2
  <2>2. cachedTime' \in BOOLEAN /\ stage' \in Stages /\ timer' \in BOOLEAN
    BY <1>2 DEF FlowOnStatus, TypeOK, CancelWait, ScheduleWait, Stages, WaitStages, waitVars, Status
  <2>3. call' \in Call
    BY <1>2, CallTypes, SomeMasks DEF FlowOnStatus, Steps, OnFails
  <2> QED
    BY <1>2, <2>1, <2>2, <2>3
    DEF FlowOnStatus, TypeOK, sessionVars, retryVars, sendVars, stackVars
<1> QED
  BY <1>1, <1>2

\* A command of the shell that resets the flow.
LEMMA ResetTypes ==
  ASSUME TypeOK, ResetState
  PROVE  /\ {mode, cachedTime, policy, inflight, timer}' \subseteq BOOLEAN
         /\ {current, target}' \subseteq Masks
         /\ linkRetries' \in [WaitStages -> 0..MaxLinkRetries] /\ txRetries' \in 0..MaxTxRetries
         /\ stage' \in Stages /\ pending' \in Send \cup {None} /\ status' \in Status
<1>1. linkRetries' \in [WaitStages -> 0..MaxLinkRetries] /\ txRetries' \in 0..MaxTxRetries
  BY ConstantsAssumption DEF ResetState, ResetRetries, NoLinkRetries
<1> QED
  BY <1>1, SomeMasks, NoStatusIsStatus DEF ResetState, CancelWait, Stages

LEMMA CommandTypes ==
  ASSUME TypeOK,
         FlowCancel \/ FlowStatus \/ DutInit \/ DutDeinit \/ DutStart \/ DutStop
  PROVE  TypeOK'
<1> DEFINE e == Head(queue)
<1>1. queue' \in Seq(Event) /\ Len(queue') <= QueueSize
  BY TypeTaken DEF FlowCancel, FlowStatus, DutInit, DutDeinit, DutStart, DutStop
<1>2. CASE FlowCancel \/ FlowStatus
  <2>1. call' \in Call
    BY <1>2, CallTypes DEF FlowCancel, FlowStatus
  <2> QED
    BY <1>1, <1>2, <2>1, SomeMasks
    DEF FlowCancel, FlowStatus, TypeOK, CancelWait, Stages, sessionVars, linkVars, retryVars,
        waitVars, sendVars, stackVars
<1>3. CASE DutInit \/ DutDeinit \/ DutStart \/ DutStop
  <2>1. ResetState
    BY <1>3 DEF DutInit, DutDeinit, DutStart, DutStop
  <2>2. {config, stackLinks}' \subseteq Masks
    <3>1. DutInit \/ DutStart \/ DutStop => e.mask \in Masks
      BY TypeTaken, EventFields DEF DutInit, DutStart, DutStop
    <3>2. CASE DutStart \/ DutStop
      <4>1. stackLinks \cup e.mask \in Masks /\ stackLinks \ e.mask \in Masks
        BY <3>1, <3>2, MasksClosed DEF TypeOK
      <4> QED
        BY <3>2, <4>1 DEF DutStart, DutStop, TypeOK
    <3>3. CASE DutInit \/ DutDeinit
      BY <3>1, <3>3, SomeMasks DEF DutInit, DutDeinit, TypeOK
    <3> QED
      BY <1>3, <3>2, <3>3
  <2>3. handle' \in BOOLEAN /\ outstanding' \in SUBSET Desc /\ UNCHANGED <<call, lastId, inputs>>
    BY <1>3 DEF DutInit, DutDeinit, DutStart, DutStop, TypeOK, stackVars
  <2> QED
    BY <1>1, <2>1, <2>2, <2>3, ResetTypes DEF TypeOK
<1> QED
  BY <1>2, <1>3

\* The handlers that use the session without the flow.
LEMMA ForeignTypes ==
  ASSUME TypeOK, LinkSwitch \/ LinkSwitchIgnored \/ PrepareForShip
  PROVE  TypeOK'
<1>1. queue' \in Seq(Event) /\ Len(queue') <= QueueSize
  BY TypeTaken DEF LinkSwitch, LinkSwitchIgnored, PrepareForShip
<1>2. {config, stackLinks}' \subseteq Masks
  BY SomeMasks DEF LinkSwitch, LinkSwitchIgnored, PrepareForShip, TypeOK, linkVars
<1> QED
  BY <1>1, <1>2
  DEF LinkSwitch, LinkSwitchIgnored, PrepareForShip, TypeOK, sessionVars, linkVars, retryVars,
      waitVars, sendVars, stackVars

LEMMA RequestedIsEvent ==
  ASSUME inputs \in Nat, NEW c \in Commands
  PROVE  /\ Requested(c) \in Event /\ Requested(c).type = c.type /\ c.type # "result"
         /\ c.type = "send" => Fresh(Requested(c).send)
<1>1. c \in Event /\ c.type # "result" /\ (c.type = "send" => Fresh(c.send))
  BY ConstantsAssumption
<1>2. CASE c.type = "send"
  <2>1. c \in [type : {"send"}, send : Send] /\ inputs + 1 \in Nat
    BY <1>1, <1>2 DEF Event, PlainEvents
  <2>2. /\ [c.send EXCEPT !.uid = inputs + 1] \in Send
        /\ Fresh([c.send EXCEPT !.uid = inputs + 1])
    BY <1>1, <1>2, <2>1 DEF Send, Fresh
  <2>3. Requested(c) = [c EXCEPT !.send = [c.send EXCEPT !.uid = inputs + 1]]
    BY <1>2, <2>1 DEF Requested
  <2>4. /\ Requested(c) \in [type : {"send"}, send : Send]
        /\ Requested(c).send = [c.send EXCEPT !.uid = inputs + 1]
    BY <2>1, <2>2, <2>3
  <2> QED
    BY <1>1, <1>2, <2>2, <2>4 DEF Event
<1>3. CASE c.type # "send"
  BY <1>1, <1>3 DEF Requested
<1> QED
  BY <1>2, <1>3

\* The other actors.
LEMMA OtherTypes ==
  ASSUME TypeOK, TimerExpires \/ Command \/ StackStatus \/ StackResult
  PROVE  TypeOK'
<1>1. ASSUME NEW e \in Event, Len(queue) < QueueSize, queue' = Append(queue, e)
      PROVE  queue' \in Seq(Event) /\ Len(queue') <= QueueSize
  BY <1>1, ConstantsAssumption DEF TypeOK
<1>2. CASE TimerExpires
  <2>1. [type |-> "timeout"] \in Event
    BY DEF Event, PlainEvents
  <2>2. queue' \in Seq(Event) /\ Len(queue') <= QueueSize
    BY <1>1, <1>2, <2>1 DEF TimerExpires, TypeOK
  <2> QED
    BY <1>2, <2>2
    DEF TimerExpires, TypeOK, sessionVars, linkVars, retryVars, sendVars, stackVars
<1>3. CASE Command
  <2>1. PICK c \in Commands :
          queue' = Append(queue, Requested(c))
    BY <1>3 DEF Command
  <2>2. Requested(c) \in Event
    BY RequestedIsEvent DEF TypeOK
  <2>4. queue' \in Seq(Event) /\ Len(queue') <= QueueSize
    BY <1>1, <1>3, <2>1, <2>2 DEF Command
  <2> QED
    BY <1>3, <2>4
    DEF Command, TypeOK, sessionVars, linkVars, retryVars, waitVars, sendVars, stackVars
<1>4. CASE StackStatus
  <2>1. PICK s \in Statuses : queue' = Append(queue, [type |-> "status", status |-> s])
    BY <1>4 DEF StackStatus
  <2>2. [type |-> "status", status |-> s] \in Event
    BY <2>1, ConstantsAssumption DEF Event
  <2>3. queue' \in Seq(Event) /\ Len(queue') <= QueueSize
    BY <1>1, <1>4, <2>1, <2>2 DEF StackStatus
  <2> QED
    BY <1>4, <2>3
    DEF StackStatus, TypeOK, sessionVars, linkVars, retryVars, waitVars, sendVars, stackVars
<1>5. CASE StackResult
  <2>1. PICK d \in outstanding, success \in BOOLEAN :
          /\ outstanding' = outstanding \ {d}
          /\ \/ /\ Len(queue) < QueueSize
                /\ queue' = Append(queue, [type |-> "result", success |-> success, desc |-> d])
             \/ UNCHANGED queue
    BY <1>5 DEF StackResult
  <2>2. [type |-> "result", success |-> success, desc |-> d] \in Event
    BY <2>1 DEF Event, TypeOK
  <2>3. queue' \in Seq(Event) /\ Len(queue') <= QueueSize
    BY <1>1, <2>1, <2>2 DEF TypeOK
  <2> QED
    BY <1>5, <2>1, <2>3
    DEF StackResult, TypeOK, sessionVars, linkVars, retryVars, waitVars, sendVars
<1> QED
  BY <1>2, <1>3, <1>4, <1>5

LEMMA NextTypes ==
  ASSUME TypeOK, CallOK, Next
  PROVE  TypeOK'
BY SessionTypes, FlowSendTypes, ReachTypes, TryTypes, EndTypes, TimeoutTypes, ResultTypes,
   StatusTypes, CommandTypes, ForeignTypes, OtherTypes
DEF Next, SidewalkThread, FlowStep, HandleEvent

-----------------------------------------------------------------------------
(* The flow's ownership, and the state of a call.                          *)

LEMMA CallSteps ==
  /\ Idle.step = "idle" /\ Idle.onFail = "ignore" /\ Idle.send = None
  /\ \A log : Return(log).step \in {"idle", "log"} /\ Return(log).onFail = "ignore"
  /\ \A step, goal, onFail, log :
       /\ Run(step, goal, onFail, log).step = step
       /\ Run(step, goal, onFail, log).goal = goal
       /\ Run(step, goal, onFail, log).onFail = onFail
BY DEF Idle, Return, Run

LEMMA OwnershipStep ==
  ASSUME TypeOK, FlowOwnership, CallOK, Next
  PROVE  FlowOwnership'
<1>1. CASE KeepSession \/ OpenSession \/ OpenSessionFailed
  BY <1>1 DEF FlowOwnership, KeepSession, OpenSession, OpenSessionFailed, sessionVars, waitVars,
              sendVars, TypeOK
<1>2. CASE FlowSend
  BY <1>2 DEF FlowOwnership, CallOK, FlowSend, sessionVars
<1>3. CASE ReachBootstrap \/ ReachTarget \/ ReachFailed
  <2>1. mode'
    BY <1>3 DEF CallOK, ReachBootstrap, ReachTarget, ReachFailed, sessionVars
  <2>2. UNCHANGED sendVars
    BY <1>3 DEF ReachBootstrap, ReachTarget, ReachFailed
  <2> QED
    BY <2>1, <2>2 DEF FlowOwnership, sendVars
<1>4. CASE TrySkipped \/ TryAccepted \/ TryRejected \/ SelectFallback \/ NoFallback
  <2>1. mode'
    BY <1>4 DEF CallOK, TrySkipped, TryAccepted, TryRejected, SelectFallback, NoFallback,
                sessionVars
  <2>2. pending # None => pending' # None
    BY <1>4, PendingKept, ConstantsAssumption DEF SendOK
  <2>3. inflight' => inflight \/ pending # None
    BY <1>4 DEF TrySkipped, TryAccepted, TryRejected, SelectFallback, NoFallback, CanSend, sendVars
  <2>4. inflight => pending # None
    BY DEF FlowOwnership
  <2> QED
    BY <2>1, <2>2, <2>3, <2>4 DEF FlowOwnership
<1>5. CASE FailureIgnored \/ WaitAgain
  <2>1. mode' /\ UNCHANGED sendVars
    BY <1>5 DEF CallOK, FailureIgnored, WaitAgain, sessionVars
  <2> QED
    BY <2>1 DEF FlowOwnership, sendVars
<1>6. CASE FailPendingSend \/ FlowCancel
  BY <1>6 DEF FlowOwnership, FailPendingSend, FlowCancel, CancelWait
<1>7. CASE LogStatus \/ FlowStatus \/ TxResultIgnored \/ NewStatus \/ TimeoutIdle
  <2>1. UNCHANGED <<mode, pending, inflight, stage, timer, target, policy>>
    BY <1>7 DEF LogStatus, FlowStatus, TxResultIgnored, NewStatus, TimeoutIdle,
                sessionVars, sendVars, waitVars, linkVars
  <2> QED
    BY <2>1 DEF FlowOwnership
<1>8. CASE TimeoutUnowned
  <2>1. /\ stage' = "idle" /\ ~timer'
        /\ UNCHANGED mode /\ UNCHANGED pending /\ UNCHANGED inflight
        /\ UNCHANGED target /\ UNCHANGED policy
    BY <1>8 DEF TimeoutUnowned, CancelWait, sessionVars, sendVars, linkVars
  <2> QED
    BY <2>1 DEF FlowOwnership
<1>9. CASE TimeoutExpired \/ TimeoutRetry \/ FlowOnStatus
  <2>1. mode' /\ UNCHANGED sendVars
    BY <1>9 DEF CallOK, TimeoutExpired, TimeoutRetry, FlowOnStatus, sessionVars
  <2> QED
    BY <2>1 DEF FlowOwnership, sendVars
<1>12. CASE TxCompleted \/ TxGivenUp \/ TxRetried
  <2>0. mode /\ mode' = mode
    BY <1>12, Zenon DEF TxCompleted, TxGivenUp, TxRetried, ResultIsAwaited, sessionVars
  <2>1. mode'
    BY <2>0
  <2>2. ~inflight'
    BY <1>12 DEF TxCompleted, TxGivenUp, TxRetried
  <2> QED
    BY <2>1, <2>2 DEF FlowOwnership
<1>13. CASE DutInit \/ DutDeinit \/ DutStart \/ DutStop
  <2>1. ResetState
    BY <1>13 DEF DutInit, DutDeinit, DutStart, DutStop
  <2> QED
    BY <2>1 DEF FlowOwnership, ResetState, CancelWait
<1>10. CASE LinkSwitch \/ LinkSwitchIgnored \/ PrepareForShip
  BY <1>10 DEF FlowOwnership, LinkSwitch, LinkSwitchIgnored, PrepareForShip, sessionVars,
               sendVars, waitVars, linkVars
<1>11. CASE TimerExpires \/ Command \/ StackStatus \/ StackResult
  BY <1>11 DEF FlowOwnership, TimerExpires, Command, StackStatus, StackResult, sessionVars,
               sendVars, waitVars, linkVars
<1> QED
  BY <1>1, <1>2, <1>3, <1>4, <1>5, <1>6, <1>7, <1>8, <1>9, <1>10, <1>11, <1>12, <1>13
  DEF Next, SidewalkThread, FlowStep, HandleEvent

LEMMA CallOKStep ==
  ASSUME TypeOK, FlowOwnership, CallOK, Next
  PROVE  CallOK'
<1>1. CASE KeepSession \/ OpenSession \/ OpenSessionFailed
  <2> DEFINE e == Head(queue)
  <2>1. e \in Event
    BY <1>1, TypeTaken DEF KeepSession, OpenSession, OpenSessionFailed
  <2>2. e.type = "send" => e.send # None
    BY <2>1, EventFields, ConstantsAssumption
  <2>3. CASE OpenSessionFailed
    BY <2>3 DEF OpenSessionFailed, CallOK, sendVars
  <2>4. CASE KeepSession \/ OpenSession
    <3>1. mode' /\ pending' = pending /\ EnterFlow(e)
      BY <2>4 DEF KeepSession, OpenSession, sessionVars, sendVars
    <3>2. CASE e.type = "send"
      <4>1. call' = [Idle EXCEPT !.step = "send", !.send = e.send]
        BY <3>1, <3>2 DEF EnterFlow
      <4>2. call'.step = "send" /\ call'.send = e.send /\ call'.onFail = "ignore"
        BY <4>1 DEF Idle
      <4> QED
        BY <2>2, <3>1, <3>2, <4>2 DEF CallOK
    <3>3. CASE e.type # "send"
      <4>1. call' = Run("reach", FlowGoal(e), "ignore", TRUE)
        BY <3>1, <3>3 DEF EnterFlow
      <4>2. call'.step = "reach" /\ call'.goal \in Targets /\ call'.onFail = "ignore"
        BY <4>1, FlowGoalIsTarget DEF Run
      <4> QED
        BY <3>1, <4>2 DEF CallOK
    <3> QED
      BY <3>2, <3>3
  <2> QED
    BY <1>1, <2>3, <2>4
<1>2. CASE FlowSend
  <2> DEFINE send == Resolved(call.send)
  <2>1. send \in Send /\ send.link \in Links
    BY <1>2, ResolvedIsSend DEF FlowSend, CallOK, TypeOK, Call
  <2>2. pending' = [send EXCEPT !.attempted = @ \cup {send.link}]
    BY <1>2 DEF FlowSend
  <2> HIDE DEF send
  <2>3. pending'.link \in Links /\ pending'.link \in pending'.attempted
    BY <2>1, <2>2 DEF Send
  <2>4. \/ call' = Run("try", {}, "ignore", FALSE)
        \/ \E m : call' = Run("reach", Normalize(m), "ignore", TRUE)
    BY <1>2 DEF FlowSend
  <2>5. mode'
    BY <1>2 DEF FlowSend, CallOK, sessionVars
  <2>6. /\ call'.step = "try" \/ (call'.step = "reach" /\ call'.goal \in Targets)
        /\ call'.onFail = "ignore"
    BY <2>4, NormalizeIsTarget DEF Run
  <2> QED
    BY <2>3, <2>5, <2>6 DEF CallOK
<1>3. CASE ReachBootstrap \/ ReachTarget
  <2>1. mode' /\ pending' = pending
    BY <1>3 DEF CallOK, ReachBootstrap, ReachTarget, sessionVars, sendVars
  <2>2. call' = Return(TRUE) \/ call' = Run("try", {}, "ignore", TRUE)
    BY <1>3 DEF ReachBootstrap, ReachTarget
  <2>3. call'.step \in {"idle", "log", "try"} /\ call'.onFail = "ignore"
    BY <2>2 DEF Run, Return, Idle
  <2> QED
    BY <2>1, <2>3 DEF CallOK
<1>4. CASE ReachFailed
  BY <1>4 DEF CallOK, ReachFailed, sessionVars, sendVars, TypeOK, Call
<1>5. CASE TrySkipped \/ TryAccepted \/ TryRejected
  <2>1. mode'
    BY <1>5 DEF CallOK, TrySkipped, TryAccepted, TryRejected, sessionVars
  <2>2. pending # None => SendOK(pending') /\ pending' # None
    BY <1>5, PendingKept, ConstantsAssumption DEF SendOK
  <2>3. \/ \E log : call' = Return(log)
        \/ (TryRejected /\ \E log : call' = Run("select", {}, "wait", log))
    BY <1>5 DEF TrySkipped, TryAccepted, TryRejected
  <2>4. TryRejected => pending # None
    BY DEF TryRejected, CanSend
  <2>5. pending = None => pending' = None
    BY <1>5, PendingKept
  <2> QED
    BY <2>1, <2>2, <2>3, <2>4, <2>5, CallSteps DEF CallOK, SendOK
<1>6. CASE SelectFallback
  <2>1. mode' /\ pending # None
    BY <1>6 DEF SelectFallback, CallOK, sessionVars
  <2>2. PICK l : call' = [call EXCEPT !.step = "reach", !.goal = TargetForSendLink(l)]
    BY <1>6 DEF SelectFallback
  <2>3. call'.step = "reach" /\ call'.goal \in Targets
    BY <2>2, TargetForSendLinkIsTarget DEF TypeOK, Call
  <2>4. SendOK(pending') /\ pending' # None
    BY <1>6, <2>1, PendingKept, ConstantsAssumption DEF SendOK
  <2> QED
    BY <2>1, <2>3, <2>4 DEF CallOK, SendOK
<1>7. CASE NoFallback
  <2>1. mode'
    BY <1>7 DEF NoFallback, CallOK, sessionVars
  <2>2. call'.step = "failed" /\ call'.onFail = call.onFail
    BY <1>7 DEF NoFallback, TypeOK, Call
  <2>3. IF pending = None THEN pending' = None ELSE SendOK(pending') /\ pending' # None
    BY <1>7, PendingKept, ConstantsAssumption DEF SendOK
  <2> QED
    BY <2>1, <2>2, <2>3 DEF CallOK, SendOK
<1>8. CASE FailureIgnored \/ FailPendingSend \/ WaitAgain \/ LogStatus \/ FlowCancel \/ FlowStatus
  <2>1. call' = Idle \/ \E log : call' = Return(log)
    BY <1>8 DEF FailureIgnored, FailPendingSend, WaitAgain, LogStatus, FlowCancel, FlowStatus
  <2>2. pending' \in {pending, None}
    BY <1>8 DEF FailureIgnored, FailPendingSend, WaitAgain, LogStatus, FlowCancel, FlowStatus,
                sendVars
  <2> QED
    BY <2>1, <2>2, CallSteps DEF CallOK
<1>9. CASE TimeoutUnowned \/ TimeoutIdle \/ TxResultIgnored
  BY <1>9 DEF CallOK, TimeoutUnowned, TimeoutIdle, TxResultIgnored, sessionVars, sendVars
<1>10. CASE TimeoutExpired \/ TimeoutRetry \/ NewStatus \/ FlowOnStatus
  <2>1. UNCHANGED pending
    BY <1>10 DEF TimeoutExpired, TimeoutRetry, NewStatus, FlowOnStatus, sendVars
  <2>2. \/ call' = Idle \/ \E log : call' = Return(log)
        \/ /\ mode'
           /\ \E step \in {"select", "status", "try"}, onFail \in {"fail", "ignore"} :
                \E log : call' = Run(step, {}, onFail, log)
    BY <1>10 DEF TimeoutExpired, TimeoutRetry, NewStatus, FlowOnStatus, sessionVars, CallOK
  <2> QED
    BY <2>1, <2>2, CallSteps DEF CallOK
<1>11. CASE TxCompleted \/ TxGivenUp \/ TxRetried
  <2>0. mode /\ mode' = mode
    BY <1>11, Zenon DEF TxCompleted, TxGivenUp, TxRetried, ResultIsAwaited, sessionVars
  <2>1. mode'
    BY <2>0
  <2>2. pending' \in {pending, None}
    BY <1>11 DEF TxCompleted, TxGivenUp, TxRetried
  <2>3. \/ TxCompleted /\ UNCHANGED call
        \/ \E step \in {"select", "try"}, onFail \in {"fail", "ignore"} : \E log :
              call' = Run(step, {}, onFail, log)
        \/ \E m, log : call' = Run("reach", Normalize(m), "ignore", log)
    BY <1>11 DEF TxCompleted, TxGivenUp, TxRetried
  <2>4. TxCompleted => call.step = "idle" /\ call.onFail = "ignore"
    BY DEF TxCompleted, Take, CallOK
  <2> QED
    BY <2>1, <2>2, <2>3, <2>4, CallSteps, NormalizeIsTarget DEF CallOK
<1>12. CASE DutInit \/ DutDeinit \/ DutStart \/ DutStop
  <2>1. pending' = None /\ UNCHANGED call /\ call.step = "idle"
    BY <1>12 DEF DutInit, DutDeinit, DutStart, DutStop, ResetState, Take
  <2> QED
    BY <2>1 DEF CallOK
<1>13. CASE LinkSwitch \/ LinkSwitchIgnored \/ PrepareForShip
  BY <1>13 DEF CallOK, LinkSwitch, LinkSwitchIgnored, PrepareForShip, sessionVars, sendVars
<1>14. CASE TimerExpires \/ Command \/ StackStatus \/ StackResult
  BY <1>14 DEF CallOK, TimerExpires, Command, StackStatus, StackResult, sessionVars, sendVars
<1> QED
  BY <1>1, <1>2, <1>3, <1>4, <1>5, <1>6, <1>7, <1>8, <1>9, <1>10, <1>11, <1>12, <1>13, <1>14
  DEF Next, SidewalkThread, FlowStep, HandleEvent

\* The flow's invariant is inductive.
LEMMA FlowInvStep == FlowInv /\ [Next]_vars => FlowInv'
<1> SUFFICES ASSUME FlowInv, [Next]_vars PROVE FlowInv'
  OBVIOUS
<1>1. CASE Next
  BY <1>1, NextTypes, OwnershipStep, CallOKStep DEF FlowInv
<1>2. CASE UNCHANGED vars
  BY <1>2 DEF vars, FlowInv, TypeOK, FlowOwnership, CallOK
<1> QED
  BY <1>1, <1>2

THEOREM FlowInvariant == Spec => []FlowInv
BY InitFlowInv, FlowInvStep, PTL DEF Spec

\* Every variable of the flow, the session, the queue and the stack keeps its
\* type, and the retry counters their limits, for any queue size, any limits
\* and any commands and statuses.
THEOREM TypeCorrect == Spec => []TypeOK
<1>1. FlowInv => TypeOK
  BY DEF FlowInv
<1> QED
  BY <1>1, FlowInvariant, PTL

\* A pending send, a wait, a timer, a target and a configured BLE policy never
\* outlive the flow's ownership of the session.
THEOREM OwnershipHolds == Spec => []FlowOwnership
<1>1. FlowInv => FlowOwnership
  BY DEF FlowInv
<1> QED
  BY <1>1, FlowInvariant, PTL

-----------------------------------------------------------------------------
(* Starts of LoRa.                                                         *)

\* dut_flow_transition retries sid_stop with the observed mask when it differs
\* from the one it used, which it has just synchronised with the observed one:
\* the two never differ, so that branch cannot run.
LEMMA StaleStopMaskUnreachable ==
  ObservedLinkMask # {} => SyncedCurrent = ObservedLinkMask
BY DEF SyncedCurrent

\* A transition starts LoRa only when it goes to BLE+LoRa.
LEMMA TransitionStartsLoRa ==
  ASSUME NEW goal \in Targets, NEW force,
         TransitionDone(goal, force) \/ TransitionFailed(goal, force),
         "lora" \in stackLinks', "lora" \notin stackLinks
  PROVE  goal = BLELORA
BY DEF TransitionDone, TransitionFailed, Targets, BLE, FSK

\* With the retry limits of the code (DUT_FLOW_MAX_{BLE,FSK,LORA}_RETRIES are
\* 0) the flow starts LoRa only once it has cached Sidewalk time.  The limit
\* matters: a LoRa fallback whose FSK bootstrap cannot be started leaves a
\* wait for LoRa, and its retry would start BLE+LoRa without asking for time.
THEOREM LoRaWaitsForTime ==
  ASSUME MaxLinkRetries = 0
  PROVE  Spec => LoRaNeedsTime
<1> DEFINE Waits == ("lora" \in stackLinks' /\ "lora" \notin stackLinks /\ ~ForeignStart) => cachedTime'
<1>1. ASSUME FlowInv, [Next]_vars PROVE [Waits]_vars
  <2> SUFFICES ASSUME Next, "lora" \in stackLinks', "lora" \notin stackLinks, ~ForeignStart
               PROVE  cachedTime'
    BY <1>1
  <2>1. CASE ReachBootstrap \/ ReachFailed
    <3>1. call.goal \in Targets /\ FSK \in Targets /\ FSK # BLELORA
      BY <1>1, <2>1 DEF ReachBootstrap, ReachFailed, FlowInv, CallOK, Targets, FSK, BLELORA
    <3>2. CASE ReachBootstrap
      BY <3>1, <3>2, TransitionStartsLoRa DEF ReachBootstrap
    <3>3. CASE ReachFailed
      BY <3>1, <3>3 DEF ReachFailed, TransitionFailed
    <3> QED
      BY <2>1, <3>2, <3>3
  <2>2. CASE ReachTarget
    <3>1. call.goal \in Targets
      BY <1>1, <2>2 DEF ReachTarget, FlowInv, CallOK
    <3>2. call.goal = BLELORA
      BY <2>2, <3>1, TransitionStartsLoRa DEF ReachTarget
    <3> QED
      BY <1>1, <2>2, <3>2 DEF ReachTarget, NeedsTime, FlowInv, TypeOK
  <2>3. CASE TimeoutRetry
    <3>1. stage \in WaitStages
      BY <1>1, <2>3 DEF TimeoutRetry, FlowInv, TypeOK, Stages
    <3>2. linkRetries[stage] \in 0..0
      BY <1>1, <3>1 DEF FlowInv, TypeOK
    <3> QED
      BY <2>3, <3>2 DEF TimeoutRetry
  <2>4. CASE FlowOnStatus
    <3>1. CASE TimeArrived
      BY <2>4, <3>1 DEF FlowOnStatus, TimeArrived
    <3>2. CASE ~TimeArrived
      BY <2>4, <3>2 DEF FlowOnStatus
    <3> QED
      BY <3>1, <3>2
  <2>5. CASE LinkSwitch \/ DutStart
    BY <2>5 DEF LinkSwitch, DutStart, Take, ForeignStart, SwitchTypes
  <2>6. CASE ~(ReachBootstrap \/ ReachFailed \/ ReachTarget \/ TimeoutRetry \/ FlowOnStatus
               \/ LinkSwitch \/ DutStart)
    <3>1. stackLinks' \subseteq stackLinks
      BY <2>6 DEF Next, SidewalkThread, FlowStep, HandleEvent, linkVars, KeepSession,
         OpenSession, OpenSessionFailed, FlowSend, TrySkipped, TryAccepted, TryRejected,
         SelectFallback, NoFallback, FailureIgnored, FailPendingSend, WaitAgain, LogStatus,
         TimeoutUnowned, TimeoutIdle, TimeoutExpired, TxResultIgnored, TxCompleted, TxGivenUp,
         TxRetried, NewStatus, FlowCancel, FlowStatus, DutInit, DutDeinit, DutStop,
         LinkSwitchIgnored, PrepareForShip, TimerExpires, Command, StackStatus, StackResult
    <3> QED
      BY <3>1
  <2> QED
    BY <2>1, <2>2, <2>3, <2>4, <2>5, <2>6
<1> QED
  BY <1>1, InitFlowInv, FlowInvStep, PTL DEF Spec, LoRaNeedsTime

-----------------------------------------------------------------------------
(* Message ids.  The stack numbers the messages it accepts, so two that    *)
(* are still to be reported on, in the stack or in the queue, never share  *)
(* an id unless one of them is a RESPONSE.                                 *)

\* The message `d' has been accepted and its result can still reach the flow.
ResultOf(d) ==
  \/ d \in outstanding
  \/ \E i \in 1..Len(queue) : queue[i].type = "result" /\ queue[i].desc = d
  \/ inflight /\ d = DescOf(pending)

IdsDistinct ==
  /\ \A d : ResultOf(d) /\ ~d.resp => d.id <= lastId
  /\ \A d, c : ResultOf(d) /\ ResultOf(c) /\ ~d.resp /\ ~c.resp /\ d.id = c.id => d.uid = c.uid

\* A step after which no message has a result to come that had none before.
LEMMA FewerResults ==
  ASSUME TypeOK, TypeOK', IdsDistinct, lastId' = lastId, \A d : ResultOf(d)' => ResultOf(d)
  PROVE  IdsDistinct'
BY DEF IdsDistinct

\* Taking an event, or queueing one that is no result, adds no result.
LEMMA QueueKeepsResults ==
  ASSUME queue \in Seq(Event), NEW d,
         \/ UNCHANGED queue
         \/ queue # <<>> /\ queue' = Tail(queue)
         \/ \E e \in Event : e.type # "result" /\ queue' = Append(queue, e),
         \E i \in 1..Len(queue') : queue'[i].type = "result" /\ queue'[i].desc = d
  PROVE  \E i \in 1..Len(queue) : queue[i].type = "result" /\ queue[i].desc = d
<1>1. PICK i \in 1..Len(queue') : queue'[i].type = "result" /\ queue'[i].desc = d
  OBVIOUS
<1>2. CASE UNCHANGED queue
  BY <1>1, <1>2
<1>3. CASE queue # <<>> /\ queue' = Tail(queue)
  <2>1. i + 1 \in 1..Len(queue) /\ queue'[i] = queue[i + 1]
    BY <1>1, <1>3
  <2> QED
    BY <1>1, <2>1
<1>4. CASE \E e \in Event : e.type # "result" /\ queue' = Append(queue, e)
  <2>1. PICK e \in Event : e.type # "result" /\ queue' = Append(queue, e)
    BY <1>4
  <2>2. i \in 1..Len(queue) /\ queue'[i] = queue[i]
    BY <1>1, <2>1
  <2> QED
    BY <1>1, <2>2
<1> QED
  BY <1>2, <1>3, <1>4

\* A message that is in flight after a step was in flight before it, unless the
\* step puts one.
LEMMA InflightKept ==
  ASSUME FlowInv, Next, ~TryAccepted, inflight'
  PROVE  inflight /\ DescOf(pending') = DescOf(pending)
<1>1. CASE TrySkipped \/ TryRejected \/ SelectFallback \/ NoFallback
  <2>1. CASE TrySkipped
    BY <2>1 DEF TrySkipped, sendVars
  <2>2. CASE TryRejected \/ SelectFallback
    BY <2>2 DEF TryRejected, SelectFallback, CanSend
  <2>3. CASE NoFallback
    <3>1. inflight' = inflight
      BY <2>3 DEF NoFallback
    <3>2. pending' = pending \/ (pending \in Send /\ pending' = [pending EXCEPT !.attempted = Tried])
      BY <2>3 DEF NoFallback, FlowInv, TypeOK
    <3> QED
      BY <3>1, <3>2 DEF DescOf, Send
  <2> QED
    BY <1>1, <2>1, <2>2, <2>3
<1>2. CASE ~(TrySkipped \/ TryRejected \/ SelectFallback \/ NoFallback)
  <2>1. ~inflight' \/ (inflight' = inflight /\ pending' = pending)
    BY <1>2 DEF Next, SidewalkThread, FlowStep, HandleEvent, sendVars, ResetState,
       KeepSession, OpenSession, OpenSessionFailed, FlowSend, ReachBootstrap, ReachTarget,
       ReachFailed, FailureIgnored,
       FailPendingSend, WaitAgain, LogStatus, TimeoutUnowned, TimeoutIdle, TimeoutExpired,
       TimeoutRetry, TxResultIgnored, TxCompleted, TxGivenUp, TxRetried, NewStatus, FlowOnStatus,
       FlowCancel, FlowStatus, DutInit, DutDeinit, DutStart, DutStop, LinkSwitch,
       LinkSwitchIgnored, PrepareForShip, TimerExpires, Command, StackStatus, StackResult
  <2> QED
    BY <2>1
<1> QED
  BY <1>1, <1>2

\* What a step may do to the messages that have a result to come.
LEMMA ResultsKept ==
  ASSUME FlowInv, Next, ~TryAccepted, ~StackResult
  PROVE  /\ lastId' = lastId
         /\ \A d : ResultOf(d)' => ResultOf(d)
<1>1. lastId' = lastId /\ outstanding' \subseteq outstanding
  BY DEF Next, SidewalkThread, FlowStep, HandleEvent, stackVars,
     KeepSession, OpenSession, OpenSessionFailed, FlowSend, ReachBootstrap, ReachTarget,
     ReachFailed, TrySkipped, TryRejected, SelectFallback, NoFallback, FailureIgnored,
     FailPendingSend, WaitAgain, LogStatus, TimeoutUnowned, TimeoutIdle, TimeoutExpired,
     TimeoutRetry, TxResultIgnored, TxCompleted, TxGivenUp, TxRetried, NewStatus, FlowOnStatus,
     FlowCancel, FlowStatus, DutInit, DutDeinit, DutStart, DutStop, LinkSwitch,
     LinkSwitchIgnored, PrepareForShip, TimerExpires, Command, StackStatus
<1>2. \/ UNCHANGED queue
      \/ queue # <<>> /\ queue' = Tail(queue)
      \/ \E e \in Event : e.type # "result" /\ queue' = Append(queue, e)
  <2>1. CASE FlowStep
    BY <2>1 DEF FlowStep, FlowSend, ReachBootstrap, ReachTarget, ReachFailed, TrySkipped,
       TryAccepted, TryRejected, SelectFallback, NoFallback, FailureIgnored, FailPendingSend,
       WaitAgain, LogStatus, FlowOnStatus
  <2>2. CASE HandleEvent
    BY <2>2 DEF Take, HandleEvent, KeepSession, OpenSession, OpenSessionFailed, TimeoutUnowned,
       TimeoutIdle, TimeoutExpired, TimeoutRetry, TxResultIgnored, TxCompleted, TxGivenUp,
       TxRetried, NewStatus, FlowCancel, FlowStatus, DutInit, DutDeinit, DutStart, DutStop,
       LinkSwitch, LinkSwitchIgnored, PrepareForShip
  <2>3. CASE TimerExpires
    <3>1. [type |-> "timeout"] \in Event /\ [type |-> "timeout"].type # "result"
      BY DEF Event, PlainEvents
    <3> QED
      BY <2>3, <3>1 DEF TimerExpires
  <2>4. CASE Command
    <3>1. PICK c \in Commands : queue' = Append(queue, Requested(c))
      BY <2>4 DEF Command
    <3>2. Requested(c) \in Event /\ Requested(c).type # "result"
      BY RequestedIsEvent DEF FlowInv, TypeOK
    <3> QED
      BY <3>1, <3>2
  <2>5. CASE StackStatus
    <3>1. PICK s \in Statuses : queue' = Append(queue, [type |-> "status", status |-> s])
      BY <2>5 DEF StackStatus
    <3>2. /\ [type |-> "status", status |-> s] \in Event
          /\ [type |-> "status", status |-> s].type # "result"
      BY ConstantsAssumption DEF Event
    <3> QED
      BY <3>1, <3>2
  <2> QED
    BY <2>1, <2>2, <2>3, <2>4, <2>5 DEF Next, SidewalkThread
<1>3. inflight' => inflight /\ DescOf(pending') = DescOf(pending)
  BY InflightKept
<1> QED
  BY <1>1, <1>2, <1>3, QueueKeepsResults DEF ResultOf, FlowInv, TypeOK

\* A result moves from the stack to the queue, or is lost.
LEMMA ReportedResult ==
  ASSUME FlowInv, StackResult
  PROVE  /\ lastId' = lastId
         /\ \A d : ResultOf(d)' => ResultOf(d)
<1>1. PICK r \in outstanding, success \in BOOLEAN :
        /\ outstanding' = outstanding \ {r}
        /\ \/ queue' = Append(queue, [type |-> "result", success |-> success, desc |-> r])
           \/ UNCHANGED queue
  BY DEF StackResult
<1>2. UNCHANGED <<lastId, inflight, pending>>
  BY DEF StackResult, sendVars
<1>3. ASSUME NEW d, NEW i \in 1..Len(queue'), queue'[i].type = "result", queue'[i].desc = d
      PROVE  d \in outstanding \/ \E j \in 1..Len(queue) : queue[j].type = "result" /\ queue[j].desc = d
  <2>1. CASE UNCHANGED queue
    BY <1>3, <2>1
  <2>2. CASE queue' = Append(queue, [type |-> "result", success |-> success, desc |-> r])
    <3>1. queue \in Seq(Event)
      BY DEF FlowInv, TypeOK
    <3>2. CASE i = Len(queue) + 1
      <4>1. queue'[i] = [type |-> "result", success |-> success, desc |-> r]
        BY <2>2, <3>1, <3>2
      <4> QED
        BY <1>1, <1>3, <4>1
    <3>3. CASE i \in 1..Len(queue)
      BY <1>3, <2>2, <3>1, <3>3
    <3> QED
      BY <1>3, <2>2, <3>1, <3>2, <3>3
  <2> QED
    BY <1>1, <2>1, <2>2
<1>4. \A d : d = DescOf(pending)' <=> d = DescOf(pending)
  BY <1>2 DEF DescOf
<1> QED
  BY <1>1, <1>2, <1>3, <1>4 DEF ResultOf

\* An accepted message has a new id, or keeps the one its sender chose.
LEMMA AcceptedResult ==
  ASSUME FlowInv, TryAccepted, IdsDistinct
  PROVE  IdsDistinct'
<1> DEFINE new == DescOf(pending')
<1>1. /\ pending \in Send /\ pending' \in Send /\ lastId \in Nat
  BY NextTypes, PendingKept DEF TryAccepted, CanSend, FlowInv, TypeOK, SendOK
<1>2. \/ new.resp /\ lastId' = lastId
      \/ ~new.resp /\ lastId' = lastId + 1 /\ new.id = lastId + 1
  BY <1>1 DEF TryAccepted, DescOf, Send
<1>3. UNCHANGED queue /\ outstanding' = outstanding \cup {new} /\ inflight'
  BY DEF TryAccepted
<1>4. \A d : ResultOf(d)' => ResultOf(d) \/ d = new
  BY <1>3 DEF ResultOf
<1>5. \A d : ResultOf(d) => d \in Desc
  <2>1. ASSUME NEW i \in 1..Len(queue), queue[i].type = "result" PROVE queue[i].desc \in Desc
    <3>1. queue[i] \in Event
      BY DEF FlowInv, TypeOK
    <3> QED
      BY <2>1, <3>1, EventFields
  <2>2. DescOf(pending) \in Desc
    BY <1>1 DEF DescOf, Send, Desc
  <2> QED
    BY <2>1, <2>2 DEF ResultOf, FlowInv, TypeOK
<1>6. \A d : ResultOf(d) /\ ~d.resp => d.id \in Nat /\ d.id <= lastId
  BY <1>5 DEF IdsDistinct, Desc
<1> HIDE DEF new
<1>7. \A d : ResultOf(d)' /\ ~d.resp => d.id <= lastId'
  BY <1>1, <1>2, <1>4, <1>6
<1>8. ASSUME NEW d, NEW c, ResultOf(d)', ResultOf(c)', ~d.resp, ~c.resp, d.id = c.id
      PROVE  d.uid = c.uid
  <2>1. CASE ResultOf(d) /\ ResultOf(c)
    BY <1>8, <2>1 DEF IdsDistinct
  <2>2. CASE d = new \/ c = new
    BY <1>1, <1>2, <1>4, <1>6, <1>8, <2>2
  <2> QED
    BY <1>4, <1>8, <2>1, <2>2
<1> QED
  BY <1>7, <1>8 DEF IdsDistinct

SendInv == FlowInv /\ IdsDistinct

LEMMA SendInvStep == SendInv /\ [Next]_vars => SendInv'
<1> SUFFICES ASSUME SendInv, [Next]_vars PROVE SendInv'
  OBVIOUS
<1>1. FlowInv'
  BY FlowInvStep DEF SendInv
<1>2. IdsDistinct'
  <2>1. CASE UNCHANGED vars
    <3>1. \A d : ResultOf(d)' <=> ResultOf(d)
      BY <2>1 DEF vars, ResultOf, DescOf
    <3> QED
      BY <2>1, <3>1 DEF vars, IdsDistinct, SendInv
  <2>2. CASE TryAccepted
    BY <2>2, AcceptedResult DEF SendInv
  <2>3. CASE Next /\ ~TryAccepted
    <3>1. lastId' = lastId /\ \A d : ResultOf(d)' => ResultOf(d)
      BY <2>3, ResultsKept, ReportedResult DEF SendInv
    <3> QED
      BY <3>1 DEF IdsDistinct, SendInv
  <2> QED
    BY <2>1, <2>2, <2>3
<1> QED
  BY <1>1, <1>2 DEF SendInv

LEMMA InitSendInv == Init => SendInv
<1> SUFFICES ASSUME Init PROVE SendInv
  OBVIOUS
<1>1. ~ \E d : ResultOf(d)
  BY DEF Init, ResultOf
<1> QED
  BY <1>1, InitFlowInv DEF SendInv, IdsDistinct

\* A result completes the send it belongs to (or, as the sender of a RESPONSE
\* chooses its id, a pending RESPONSE), whatever was queued, replaced, retried
\* or lost before.
THEOREM ResultsCompleteTheirSend == Spec => CompletesOwnSend
<1> DEFINE Completes ==
      (Take({"result"}) /\ pending # None /\ pending' = None)
        => (Head(queue).desc.uid = pending.uid \/ pending.resp)
<1>1. ASSUME SendInv, [Next]_vars PROVE [Completes]_vars
  <2> SUFFICES ASSUME Next, Take({"result"}), pending # None, pending' = None, ~pending.resp
               PROVE  Head(queue).desc.uid = pending.uid
    BY <1>1
  <2> DEFINE d == Head(queue).desc
  <2>1. TxCompleted
    <3>1. call.step = "idle" /\ Head(queue).type = "result" /\ queue' = Tail(queue) /\ queue # <<>>
      BY DEF Take
    <3>2. ~FlowStep
      BY <3>1 DEF FlowStep, FlowSend, ReachBootstrap, ReachTarget, ReachFailed, TrySkipped,
         TryAccepted, TryRejected, SelectFallback, NoFallback, FailureIgnored, FailPendingSend,
         WaitAgain, LogStatus, FlowOnStatus
    <3>3. Len(queue') = Len(queue) - 1 /\ queue \in Seq(Event)
      BY <1>1, <3>1 DEF SendInv, FlowInv, TypeOK
    <3>4. ~TimerExpires /\ ~Command /\ ~StackStatus /\ ~StackResult
      BY <1>1 DEF TimerExpires, Command, StackStatus, StackResult, sendVars
    <3>5. ~(KeepSession \/ OpenSession \/ OpenSessionFailed \/ NewStatus \/ FlowCancel
            \/ FlowStatus \/ DutInit \/ DutDeinit \/ DutStart \/ DutStop \/ LinkSwitch
            \/ LinkSwitchIgnored \/ PrepareForShip \/ TimeoutUnowned \/ TimeoutIdle
            \/ TimeoutExpired \/ TimeoutRetry)
      BY <3>1 DEF Take, FlowTypes, SwitchTypes, KeepSession, OpenSession, OpenSessionFailed,
         NewStatus, FlowCancel, FlowStatus, DutInit, DutDeinit, DutStart, DutStop, LinkSwitch,
         LinkSwitchIgnored, PrepareForShip, TimeoutUnowned, TimeoutIdle, TimeoutExpired, TimeoutRetry
    <3>6. ~(TxResultIgnored \/ TxGivenUp \/ TxRetried)
      BY DEF TxResultIgnored, TxGivenUp, TxRetried, sendVars
    <3> QED
      BY <3>2, <3>4, <3>5, <3>6 DEF Next, SidewalkThread, HandleEvent
  <2>2. inflight /\ d.id = pending.id /\ d.resp = pending.resp
    BY <2>1, Zenon DEF TxCompleted, ResultIsAwaited, DescMatches
  <2>3. ResultOf(d)
    <3>1. 1 \in 1..Len(queue) /\ Head(queue) = queue[1] /\ queue[1].type = "result"
      BY <1>1 DEF Take, SendInv, FlowInv, TypeOK
    <3> QED
      BY <3>1 DEF ResultOf
  <2>4. ResultOf(DescOf(pending))
    BY <2>2 DEF ResultOf
  <2> QED
    BY <1>1, <2>2, <2>3, <2>4 DEF SendInv, IdsDistinct, DescOf
<1> QED
  BY <1>1, InitSendInv, SendInvStep, PTL DEF Spec, CompletesOwnSend

-----------------------------------------------------------------------------
(* A request that has not reached the slot has been tried on no link.      *)

RequestsFresh ==
  /\ \A i \in 1..Len(queue) : queue[i].type = "send" => Fresh(queue[i].send)
  /\ call.step = "send" => Fresh(call.send)

LEMMA QueuedStayFresh ==
  ASSUME queue \in Seq(Event), RequestsFresh,
         \/ UNCHANGED queue
         \/ queue # <<>> /\ queue' = Tail(queue)
         \/ \E e \in Event : (e.type = "send" => Fresh(e.send)) /\ queue' = Append(queue, e)
  PROVE  \A i \in 1..Len(queue') : queue'[i].type = "send" => Fresh(queue'[i].send)
<1>1. CASE UNCHANGED queue
  BY <1>1 DEF RequestsFresh
<1>2. CASE queue # <<>> /\ queue' = Tail(queue)
  <2>1. \A i \in 1..Len(queue') : i + 1 \in 1..Len(queue) /\ queue'[i] = queue[i + 1]
    BY <1>2
  <2> QED
    BY <2>1 DEF RequestsFresh
<1>3. CASE \E e \in Event : (e.type = "send" => Fresh(e.send)) /\ queue' = Append(queue, e)
  <2>1. PICK e \in Event : (e.type = "send" => Fresh(e.send)) /\ queue' = Append(queue, e)
    BY <1>3
  <2>2. /\ Len(queue') = Len(queue) + 1 /\ queue'[Len(queue) + 1] = e
        /\ \A i \in 1..Len(queue) : queue'[i] = queue[i]
    BY <2>1
  <2> QED
    BY <2>1, <2>2 DEF RequestsFresh
<1> QED
  BY <1>1, <1>2, <1>3

\* What another thread puts on the queue: a command, or news for the flow.
CommandKinds == {c.type : c \in Commands}
NewsKinds    == {"timeout", "status", "result"}

LEMMA QueueStep ==
  ASSUME FlowInv, Next
  PROVE  \/ UNCHANGED queue
         \/ HandleEvent /\ queue # <<>> /\ queue' = Tail(queue)
         \/ \E e \in Event : /\ e.type \in CommandKinds \cup NewsKinds
                             /\ e.type = "send" => Fresh(e.send)
                             /\ queue' = Append(queue, e)
<1>1. CASE FlowStep
  BY <1>1 DEF FlowStep, FlowSend, ReachBootstrap, ReachTarget, ReachFailed, TrySkipped,
     TryAccepted, TryRejected, SelectFallback, NoFallback, FailureIgnored, FailPendingSend,
     WaitAgain, LogStatus, FlowOnStatus
<1>2. CASE HandleEvent
  BY <1>2 DEF Take, HandleEvent, KeepSession, OpenSession, OpenSessionFailed, TimeoutUnowned,
     TimeoutIdle, TimeoutExpired, TimeoutRetry, TxResultIgnored, TxCompleted, TxGivenUp,
     TxRetried, NewStatus, FlowCancel, FlowStatus, DutInit, DutDeinit, DutStart, DutStop,
     LinkSwitch, LinkSwitchIgnored, PrepareForShip
<1>3. CASE TimerExpires
  <2>1. /\ [type |-> "timeout"] \in Event /\ [type |-> "timeout"].type # "send"
        /\ [type |-> "timeout"].type \in NewsKinds
    BY DEF Event, PlainEvents, NewsKinds
  <2> QED
    BY <1>3, <2>1 DEF TimerExpires
<1>4. CASE Command
  <2>1. PICK c \in Commands : queue' = Append(queue, Requested(c))
    BY <1>4 DEF Command
  <2>2. /\ Requested(c) \in Event /\ (Requested(c).type = "send" => Fresh(Requested(c).send))
        /\ Requested(c).type \in CommandKinds
    BY RequestedIsEvent DEF FlowInv, TypeOK, CommandKinds
  <2> QED
    BY <2>1, <2>2
<1>5. CASE StackStatus
  <2>1. PICK s \in Statuses : queue' = Append(queue, [type |-> "status", status |-> s])
    BY <1>5 DEF StackStatus
  <2>2. /\ [type |-> "status", status |-> s] \in Event
        /\ [type |-> "status", status |-> s].type # "send"
        /\ [type |-> "status", status |-> s].type \in NewsKinds
    BY ConstantsAssumption DEF Event, NewsKinds
  <2> QED
    BY <2>1, <2>2
<1>6. CASE StackResult
  <2>1. PICK d \in outstanding, success \in BOOLEAN :
          \/ queue' = Append(queue, [type |-> "result", success |-> success, desc |-> d])
          \/ UNCHANGED queue
    BY <1>6 DEF StackResult
  <2>2. /\ [type |-> "result", success |-> success, desc |-> d] \in Event
        /\ [type |-> "result", success |-> success, desc |-> d].type # "send"
        /\ [type |-> "result", success |-> success, desc |-> d].type \in NewsKinds
    BY DEF Event, FlowInv, TypeOK, NewsKinds
  <2> QED
    BY <2>1, <2>2
<1> QED
  BY <1>1, <1>2, <1>3, <1>4, <1>5, <1>6 DEF Next, SidewalkThread

\* A call runs a send only after it was taken off the queue.
LEMMA CallStaysFresh ==
  ASSUME FlowInv, RequestsFresh, Next
  PROVE  call'.step = "send" => Fresh(call'.send)
<1>1. CASE KeepSession \/ OpenSession
  <2> DEFINE e == Head(queue)
  <2>1. EnterFlow(e) /\ queue # <<>>
    BY <1>1 DEF KeepSession, OpenSession, Take
  <2>2. e = queue[1] /\ 1 \in 1..Len(queue)
    BY <2>1 DEF FlowInv, TypeOK
  <2>3. CASE e.type = "send"
    <3>1. Fresh(e.send)
      BY <2>2, <2>3 DEF RequestsFresh
    <3>2. call'.send = e.send
      BY <2>1, <2>3 DEF EnterFlow, Idle
    <3> QED
      BY <3>1, <3>2
  <2>4. CASE e.type # "send"
    BY <2>1, <2>4 DEF EnterFlow, Run
  <2> QED
    BY <2>3, <2>4
<1>2. CASE SelectFallback \/ NoFallback \/ ReachFailed
  BY <1>2 DEF SelectFallback, NoFallback, ReachFailed, FlowInv, TypeOK, Call
<1>3. CASE ~(KeepSession \/ OpenSession \/ SelectFallback \/ NoFallback \/ ReachFailed)
  <2>1. \/ UNCHANGED call
        \/ call' = Idle \/ \E log : call' = Return(log)
        \/ \E step \in {"try", "reach", "select", "status"} :
             \E goal, onFail, log : call' = Run(step, goal, onFail, log)
    BY <1>3 DEF Next, SidewalkThread, FlowStep, HandleEvent, OpenSessionFailed, FlowSend,
       ReachBootstrap, ReachTarget, TrySkipped, TryAccepted, TryRejected, FailureIgnored,
       FailPendingSend, WaitAgain, LogStatus, TimeoutUnowned, TimeoutIdle, TimeoutExpired,
       TimeoutRetry, TxResultIgnored, TxCompleted, TxGivenUp, TxRetried, NewStatus, FlowOnStatus,
       FlowCancel, FlowStatus, DutInit, DutDeinit, DutStart, DutStop, LinkSwitch,
       LinkSwitchIgnored, PrepareForShip, TimerExpires, Command, StackStatus, StackResult
  <2> QED
    BY <2>1 DEF RequestsFresh, Run, Return, Idle
<1> QED
  BY <1>1, <1>2, <1>3

LEMMA RequestsStayFresh ==
  ASSUME FlowInv, RequestsFresh, [Next]_vars
  PROVE  RequestsFresh'
<1>1. CASE UNCHANGED vars
  BY <1>1 DEF vars, RequestsFresh
<1>2. CASE Next
  <2>1. queue \in Seq(Event)
    BY DEF FlowInv, TypeOK
  <2>2. \/ UNCHANGED queue
        \/ queue # <<>> /\ queue' = Tail(queue)
        \/ \E e \in Event : (e.type = "send" => Fresh(e.send)) /\ queue' = Append(queue, e)
    BY <1>2, QueueStep, Zenon
  <2>3. \A i \in 1..Len(queue') : queue'[i].type = "send" => Fresh(queue'[i].send)
    BY <2>1, <2>2, QueuedStayFresh
  <2> QED
    BY <1>2, <2>3, CallStaysFresh DEF RequestsFresh
<1> QED
  BY <1>1, <1>2

-----------------------------------------------------------------------------
(* The refinement mapping.                                                 *)

\* The slot a send occupies.
SlotOf(s, onAir) ==
  [mayMove |-> s.fallback, link |-> s.link, tried |-> s.attempted, onAir |-> onAir]

LEMMA SlotIsMessage ==
  ASSUME NEW s, SendOK(s), NEW onAir \in BOOLEAN
  PROVE  SlotOf(s, onAir) \in Promise!Message /\ SlotOf(s, onAir) # None
<1>1. SlotOf(s, onAir) \in Promise!Message
  BY DEF SlotOf, SendOK, Send, Masks, Promise!Message
<1> QED
  BY <1>1, NoneIsNoMessage

\* A slot that differs from another in its flag, or in its link as well.
LEMMA SlotFlag ==
  ASSUME NEW r \in Promise!Message, NEW q \in Promise!Message, NEW onAir \in BOOLEAN,
         q.mayMove = r.mayMove, q.link = r.link, q.tried = r.tried, q.onAir = onAir
  PROVE  q = [r EXCEPT !.onAir = onAir]
BY DEF Promise!Message

LEMMA SlotMove ==
  ASSUME NEW r \in Promise!Message, NEW q \in Promise!Message, NEW l \in Links,
         q.mayMove = r.mayMove, q.link = l, q.tried = r.tried \cup {l}, q.onAir = FALSE
  PROVE  q = [r EXCEPT !.link = l, !.tried = @ \cup {l}, !.onAir = FALSE]
BY DEF Promise!Message

\* What a slot shows of its send.
LEMMA SlotFields ==
  ASSUME NEW s, NEW onAir
  PROVE  /\ SlotOf(s, onAir).mayMove = s.fallback /\ SlotOf(s, onAir).link = s.link
         /\ SlotOf(s, onAir).tried = s.attempted /\ SlotOf(s, onAir).onAir = onAir
BY DEF SlotOf

LEMMA SlotOfPending ==
  ASSUME FlowInv
  PROVE  /\ pending = None => Slot = None
         /\ pending # None => Slot = SlotOf(pending, inflight) /\ Slot # None
<1>1. pending # None => SendOK(pending) /\ inflight \in BOOLEAN
  BY DEF SendOK, FlowInv, TypeOK, CallOK
<1>2. pending # None => SlotOf(pending, inflight) # None
  BY <1>1, SlotIsMessage
<1> QED
  BY <1>2 DEF Slot, SlotOf

LEMMA SlotStep ==
  ASSUME FlowInv, FlowInv', RequestsFresh, Next
  PROVE  [Promise!Next]_Slot
<1>0. /\ pending' = None => Slot' = None
      /\ pending' # None => Slot' = SlotOf(pending', inflight') /\ Slot' # None
  <2>1. pending' # None => SendOK(pending') /\ inflight' \in BOOLEAN
    BY DEF SendOK, FlowInv, TypeOK, CallOK
  <2>2. pending' # None => SlotOf(pending', inflight') # None
    BY <2>1, SlotIsMessage
  <2> QED
    BY <2>2 DEF Slot, SlotOf
<1>1. ASSUME pending' = pending, inflight' = inflight PROVE Slot' = Slot
  BY <1>1 DEF Slot
<1>2. ASSUME pending' = None PROVE [Promise!Next]_Slot
  <2>1. Slot' = None
    BY <1>0, <1>2
  <2> QED
    BY <2>1 DEF Promise!Next, Promise!Release
<1>3. ASSUME pending' = pending, ~inflight' PROVE [Promise!Next]_Slot
  <2>1. CASE pending = None
    BY <1>2, <1>3, <2>1
  <2>2. CASE pending # None /\ ~inflight
    <3>1. inflight' = inflight
      BY <1>3, <2>2 DEF FlowInv, TypeOK
    <3> QED
      BY <1>1, <1>3, <3>1
  <2>3. CASE pending # None /\ inflight
    <3>1. /\ Slot = SlotOf(pending, TRUE) /\ Slot # None
          /\ Slot' = SlotOf(pending, FALSE)
      BY <1>0, <1>3, <2>3, SlotOfPending DEF FlowInv, TypeOK
    <3>2. SlotOf(pending, TRUE) \in Promise!Message /\ SlotOf(pending, FALSE) \in Promise!Message
      BY <2>3, SlotIsMessage DEF SendOK, FlowInv, TypeOK, CallOK
    <3>3. /\ Slot.onAir = TRUE /\ Slot'.onAir = FALSE
          /\ Slot'.mayMove = Slot.mayMove /\ Slot'.link = Slot.link /\ Slot'.tried = Slot.tried
      <4>1. /\ Slot.mayMove = pending.fallback /\ Slot.link = pending.link
            /\ Slot.tried = pending.attempted /\ Slot.onAir = TRUE
        BY <3>1, SlotFields
      <4>2. /\ Slot'.mayMove = pending.fallback /\ Slot'.link = pending.link
            /\ Slot'.tried = pending.attempted /\ Slot'.onAir = FALSE
        BY <3>1, SlotFields
      <4> QED
        BY <4>1, <4>2, Zenon
    <3>4. Slot' = [Slot EXCEPT !.onAir = FALSE]
      BY <3>1, <3>2, <3>3, SlotFlag
    <3> QED
      BY <3>1, <3>3, <3>4 DEF Promise!Next, Promise!Bounce
  <2> QED
    BY <2>1, <2>2, <2>3
<1>4. CASE FlowSend
  <2> DEFINE send == Resolved(call.send)
  <2>1. call.send \in Send /\ Fresh(call.send)
    BY <1>4 DEF FlowSend, FlowInv, CallOK, TypeOK, Call, RequestsFresh
  <2>2. send \in Send /\ send.link \in Links /\ send.attempted = {}
    BY <2>1, ResolvedIsSend DEF Resolved, Fresh, Send
  <2>3. pending' = [send EXCEPT !.attempted = @ \cup {send.link}] /\ inflight' = FALSE
    BY <1>4 DEF FlowSend
  <2> HIDE DEF send
  <2>4. /\ pending' \in Send
        /\ pending'.link = send.link /\ pending'.attempted = {send.link}
        /\ pending'.fallback = send.fallback /\ send.fallback \in BOOLEAN
    BY <2>2, <2>3 DEF Send, Masks
  <2>5. Slot' = [mayMove |-> send.fallback, link |-> send.link, tried |-> {send.link},
                 onAir |-> FALSE]
    BY <1>0, <2>3, <2>4, ConstantsAssumption DEF SlotOf
  <2> QED
    BY <2>2, <2>4, <2>5 DEF Promise!Next, Promise!Accept
<1>5. CASE TryAccepted
  <2>1. pending # None /\ ~inflight /\ inflight'
    BY <1>5 DEF TryAccepted, CanSend
  <2>2. pending \in Send /\ SendOK(pending') /\ pending' # None
    BY <1>5, <2>1, PendingKept, ConstantsAssumption DEF FlowInv, TypeOK, SendOK
  <2>3. PICK n, p : pending' = [pending EXCEPT !.id = n, !.puts = p]
    BY <1>5 DEF TryAccepted
  <2>4. /\ Slot = SlotOf(pending, FALSE) /\ Slot # None
        /\ Slot' = SlotOf(pending', TRUE)
    BY <1>0, <2>1, <2>2, SlotOfPending DEF FlowInv, TypeOK
  <2>5. /\ pending'.fallback = pending.fallback /\ pending'.link = pending.link
        /\ pending'.attempted = pending.attempted
    BY <2>2, <2>3 DEF Send
  <2>6. SlotOf(pending, FALSE) \in Promise!Message /\ SlotOf(pending', TRUE) \in Promise!Message
    BY <2>1, <2>2, SlotIsMessage DEF SendOK, FlowInv, CallOK
  <2>7. /\ Slot.mayMove = pending.fallback /\ Slot.link = pending.link
        /\ Slot.tried = pending.attempted /\ Slot.onAir = FALSE
    BY <2>4, SlotFields
  <2>8. /\ Slot'.mayMove = pending'.fallback /\ Slot'.link = pending'.link
        /\ Slot'.tried = pending'.attempted /\ Slot'.onAir = TRUE
    BY <2>4, SlotFields
  <2>9. Slot' = [Slot EXCEPT !.onAir = TRUE]
    BY <2>4, <2>5, <2>6, <2>7, <2>8, SlotFlag
  <2> QED
    BY <2>4, <2>7, <2>9 DEF Promise!Next, Promise!Transmit
<1>6. CASE TryRejected
  <2>1. pending # None /\ inflight' = inflight
    BY <1>6 DEF TryRejected, CanSend
  <2>2. pending \in Send /\ pending' # None
    BY <1>6, <2>1, PendingKept, ConstantsAssumption DEF FlowInv, TypeOK, SendOK
  <2>3. PICK n : pending' = [pending EXCEPT !.id = n]
    BY <1>6, <2>2 DEF TryRejected, Send
  <2>4. Slot' = Slot
    BY <1>0, <2>1, <2>2, <2>3, SlotOfPending DEF SlotOf, Send
  <2> QED
    BY <2>4
<1>7. CASE SelectFallback
  <2> DEFINE link == FallbackLink(Tried)
  <2>1. pending # None /\ pending.fallback /\ inflight' = FALSE /\ link \in Links \ Tried
    BY <1>7, FallbackLinkIsFresh DEF SelectFallback
  <2>2. pending' = [pending EXCEPT !.link = link, !.target = TargetForSendLink(link),
                                   !.attempted = Tried \cup {link}, !.puts = 0]
    BY <1>7 DEF SelectFallback
  <2> HIDE DEF link
  <2>3. pending \in Send /\ Tried = pending.attempted
    BY <2>1 DEF FlowInv, TypeOK, CallOK, Tried
  <2>4. pending' # None
    BY <1>7, <2>1, PendingKept, ConstantsAssumption DEF FlowInv, SendOK
  <2>5. /\ Slot = SlotOf(pending, inflight) /\ Slot # None
        /\ Slot' = SlotOf(pending', FALSE)
    BY <1>0, <2>1, <2>4, SlotOfPending
  <2>6. Slot.mayMove /\ Slot.tried = Tried
    BY <2>1, <2>3, <2>5 DEF SlotOf
  <2>7. /\ pending'.fallback = pending.fallback /\ pending'.link = link
        /\ pending'.attempted = Tried \cup {link}
    BY <2>2, <2>3 DEF Send
  <2>8. Slot \in Promise!Message /\ Slot' \in Promise!Message
    BY <1>7, <2>1, <2>5, SlotIsMessage, PendingKept DEF SendOK, FlowInv, TypeOK, CallOK
  <2>9. /\ Slot'.mayMove = pending'.fallback /\ Slot'.link = pending'.link
        /\ Slot'.tried = pending'.attempted /\ Slot'.onAir = FALSE
    BY <2>5, SlotFields
  <2>10. Slot.mayMove = pending.fallback
    BY <2>5, SlotFields
  <2>12. Slot'.mayMove = Slot.mayMove /\ Slot'.link = link /\ Slot'.tried = Slot.tried \cup {link}
    BY <2>6, <2>7, <2>9, <2>10, Zenon
  <2>11. Slot' = [Slot EXCEPT !.link = link, !.tried = @ \cup {link}, !.onAir = FALSE]
    BY <2>1, <2>8, <2>9, <2>12, SlotMove
  <2> QED
    BY <2>1, <2>5, <2>6, <2>11 DEF Promise!Next, Promise!Move
<1>8. CASE NoFallback
  <2>1. inflight' = inflight
    BY <1>8 DEF NoFallback
  <2>2. pending' = pending \/ (pending # None /\ pending' = [pending EXCEPT !.attempted = Tried])
    BY <1>8 DEF NoFallback
  <2>3. pending # None => pending \in Send /\ Tried = pending.attempted
    BY DEF FlowInv, TypeOK, CallOK, Tried
  <2>4. pending' = pending
    BY <2>2, <2>3 DEF Send
  <2> QED
    BY <1>1, <2>1, <2>4
<1>9. CASE ~(FlowSend \/ TryAccepted \/ TryRejected \/ SelectFallback \/ NoFallback)
  <2>1. \/ pending' = None
        \/ pending' = pending /\ ~inflight'
        \/ pending' = pending /\ inflight' = inflight
    BY <1>9 DEF Next, SidewalkThread, FlowStep, HandleEvent, sendVars, ResetState, KeepSession,
       OpenSession, OpenSessionFailed, ReachBootstrap, ReachTarget, ReachFailed, TrySkipped,
       FailureIgnored, FailPendingSend, WaitAgain, LogStatus, TimeoutUnowned, TimeoutIdle,
       TimeoutExpired, TimeoutRetry, TxResultIgnored, TxCompleted, TxGivenUp, TxRetried,
       NewStatus, FlowOnStatus, FlowCancel, FlowStatus, DutInit, DutDeinit, DutStart, DutStop,
       LinkSwitch, LinkSwitchIgnored, PrepareForShip, TimerExpires, Command, StackStatus, StackResult
  <2> QED
    BY <1>1, <1>2, <1>3, <2>1
<1> QED
  BY <1>4, <1>5, <1>6, <1>7, <1>8, <1>9

\* The hello-flow implements the send slot it promises: one message at a time,
\* never twice on a link by fallback, a strict send never moved.
THEOREM FlowImplementsSlot == Spec => RefinesFlowSend
<1> DEFINE Inv == FlowInv /\ RequestsFresh
<1>1. Init => Inv /\ Promise!Init
  BY InitFlowInv DEF Init, RequestsFresh, Idle, Slot, Promise!Init
<1>2. Inv /\ [Next]_vars => Inv'
  BY FlowInvStep, RequestsStayFresh
<1>3. Inv /\ Inv' /\ [Next]_vars => [Promise!Next]_Slot
  <2>1. UNCHANGED vars => Slot' = Slot
    BY DEF vars, Slot
  <2> QED
    BY <2>1, SlotStep
<1> QED
  BY <1>1, <1>2, <1>3, PTL DEF Spec, RefinesFlowSend, Promise!Spec
-----------------------------------------------------------------------------
(* What stays on the queue, and what never comes there.                    *)

LEMMA StaysQueued ==
  ASSUME queue \in Seq(Event), NEW i \in 1..Len(queue),
         \/ UNCHANGED queue
         \/ queue # <<>> /\ queue' = Tail(queue) /\ Head(queue) # queue[i]
         \/ \E e \in Event : queue' = Append(queue, e)
  PROVE  \E j \in 1..Len(queue') : queue'[j] = queue[i]
<1>1. CASE UNCHANGED queue
  BY <1>1
<1>2. CASE queue # <<>> /\ queue' = Tail(queue) /\ Head(queue) # queue[i]
  <2>1. Head(queue) = queue[1] /\ i # 1
    BY <1>2
  <2>2. /\ Len(queue') = Len(queue) - 1
        /\ \A j \in 1..Len(queue') : queue'[j] = queue[j + 1]
    BY <1>2
  <2>3. i \in 2..Len(queue) /\ Len(queue) \in Nat
    BY <2>1
  <2>4. i - 1 \in 1..Len(queue') /\ (i - 1) + 1 = i
    BY <2>2, <2>3
  <2>5. i - 1 \in 1..Len(queue') /\ queue'[i - 1] = queue[i]
    BY <2>2, <2>4
  <2> QED
    BY <2>5
<1>3. CASE \E e \in Event : queue' = Append(queue, e)
  <2>1. i \in 1..Len(queue') /\ queue'[i] = queue[i]
    BY <1>3
  <2> QED
    BY <2>1
<1> QED
  BY <1>1, <1>2, <1>3

\* No event of these types is on the queue.
NoneOf(types) == \A i \in 1..Len(queue) : queue[i].type \notin types

LEMMA NoneOfStep ==
  ASSUME NEW types, types \cap (CommandKinds \cup NewsKinds) = {},
         FlowInv, NoneOf(types), [Next]_vars
  PROVE  NoneOf(types)'
<1>1. queue \in Seq(Event)
  BY DEF FlowInv, TypeOK
<1>2. CASE UNCHANGED queue
  BY <1>2 DEF NoneOf
<1>3. CASE queue # <<>> /\ queue' = Tail(queue)
  <2>1. \A i \in 1..Len(queue') : i + 1 \in 1..Len(queue) /\ queue'[i] = queue[i + 1]
    BY <1>1, <1>3
  <2> QED
    BY <2>1 DEF NoneOf
<1>4. CASE \E e \in Event : e.type \in CommandKinds \cup NewsKinds /\ queue' = Append(queue, e)
  <2>1. PICK e \in Event : e.type \in CommandKinds \cup NewsKinds /\ queue' = Append(queue, e)
    BY <1>4
  <2>2. /\ Len(queue') = Len(queue) + 1 /\ queue'[Len(queue) + 1] = e
        /\ \A i \in 1..Len(queue) : queue'[i] = queue[i]
    BY <1>1, <2>1
  <2>3. e.type \notin types
    BY <2>1
  <2> QED
    BY <1>1, <2>2, <2>3 DEF NoneOf
<1>5. UNCHANGED vars => UNCHANGED queue
  BY DEF vars
<1>6. Next => \/ UNCHANGED queue
              \/ queue # <<>> /\ queue' = Tail(queue)
              \/ \E e \in Event : e.type \in CommandKinds \cup NewsKinds /\ queue' = Append(queue, e)
  BY QueueStep, Zenon
<1> QED
  BY <1>2, <1>3, <1>4, <1>5, <1>6

LEMMA TakenIsNot ==
  ASSUME NEW types, NEW taken, FlowInv, NoneOf(types), Take(taken)
  PROVE  Head(queue).type \in taken \ types
<1>1. queue \in Seq(Event) /\ queue # <<>> /\ Head(queue).type \in taken
  BY DEF FlowInv, TypeOK, Take
<1>2. 1 \in 1..Len(queue) /\ Head(queue) = queue[1]
  BY <1>1
<1> QED
  BY <1>1, <1>2 DEF NoneOf

\* The commands that take the stack down under the flow: its messages are
\* gone, and, in ship mode or when a link switch cannot open it again, its
\* session too.
Disturbing == SwitchTypes \cup {"ship"}

OwnerHasHandle == mode => handle

LEMMA NotDisturbed ==
  ASSUME FlowInv, NoneOf(Disturbing)
  PROVE  ~LinkSwitch /\ ~PrepareForShip
<1>1. ASSUME NEW taken, taken \subseteq Disturbing, Take(taken) PROVE FALSE
  BY <1>1, TakenIsNot
<1> QED
  BY <1>1 DEF LinkSwitch, PrepareForShip, Disturbing

LEMMA OwnerKeepsHandle ==
  ASSUME FlowInv, OwnerHasHandle, NoneOf(Disturbing), [Next]_vars
  PROVE  OwnerHasHandle'
<1>1. ~LinkSwitch /\ ~PrepareForShip
  BY NotDisturbed
<1>2. CASE UNCHANGED vars
  BY <1>2 DEF vars, OwnerHasHandle
<1>3. CASE Next
  BY <1>1, <1>3 DEF OwnerHasHandle, Next, SidewalkThread, FlowStep, HandleEvent, sessionVars,
     ResetState,
     KeepSession, OpenSession, OpenSessionFailed, FlowSend, ReachBootstrap, ReachTarget,
     ReachFailed, TrySkipped, TryAccepted, TryRejected, SelectFallback, NoFallback,
     FailureIgnored, FailPendingSend, WaitAgain, LogStatus, TimeoutUnowned, TimeoutIdle,
     TimeoutExpired, TimeoutRetry, TxResultIgnored, TxCompleted, TxGivenUp, TxRetried, NewStatus,
     FlowOnStatus, FlowCancel, FlowStatus, DutInit, DutDeinit, DutStart, DutStop,
     LinkSwitchIgnored, TimerExpires, Command, StackStatus, StackResult
<1> QED
  BY <1>2, <1>3

-----------------------------------------------------------------------------
(* A wait that is on has something to end it.                              *)

HasTimeout == \E i \in 1..Len(queue) : queue[i].type = "timeout"

\* The timeout of a wait may be gone while its handler looks for a fallback:
\* either it reaches for another link or it drops the send and the wait.
WaitInv ==
  /\ FlowInv /\ OwnerHasHandle /\ NoneOf(Disturbing)
  /\ call.onFail = "fail" => call.step \in {"select", "reach", "failed"}
  /\ stage # "idle" => timer \/ HasTimeout \/ call.onFail = "fail"
  /\ timer => stage # "idle"

TimeoutStep == TimeoutUnowned \/ TimeoutIdle \/ TimeoutExpired \/ TimeoutRetry

LEMMA TimeoutStaysQueued ==
  ASSUME FlowInv, Next, ~TimeoutStep, HasTimeout
  PROVE  HasTimeout'
<1>1. PICK i \in 1..Len(queue) : queue[i].type = "timeout"
  BY DEF HasTimeout
<1>2. HandleEvent => Head(queue).type # "timeout"
  BY DEF Take, TimeoutStep, FlowTypes, SwitchTypes, HandleEvent, KeepSession, OpenSession,
     OpenSessionFailed, TxResultIgnored, TxCompleted, TxGivenUp, TxRetried, NewStatus, FlowCancel,
     FlowStatus, DutInit, DutDeinit, DutStart, DutStop, LinkSwitch, LinkSwitchIgnored,
     PrepareForShip
<1>3. queue \in Seq(Event)
  BY DEF FlowInv, TypeOK
<1>4. \/ UNCHANGED queue
      \/ queue # <<>> /\ queue' = Tail(queue) /\ Head(queue) # queue[i]
      \/ \E e \in Event : queue' = Append(queue, e)
  BY <1>1, <1>2, QueueStep
<1>5. \E j \in 1..Len(queue') : queue'[j] = queue[i]
  BY <1>3, <1>4, StaysQueued
<1> QED
  BY <1>1, <1>5 DEF HasTimeout

\* Starting to wait, or ceasing to.
LEMMA WaitSet ==
  ASSUME \/ \E m : ScheduleWait(StageFor(m))
         \/ \E s \in WaitStages : ScheduleWait(s)
         \/ CancelWait
  PROVE  timer' <=> stage' # "idle"
BY StageForIsWait DEF ScheduleWait, CancelWait, WaitStages

\* What a step does to the wait.
LEMMA WaitMoves ==
  ASSUME WaitInv, Next
  PROVE  \/ timer' <=> stage' # "idle"
         \/ UNCHANGED waitVars
         \/ TimerExpires
<1>1. CASE ReachBootstrap \/ ReachTarget \/ WaitAgain \/ FailPendingSend
  BY <1>1, WaitSet
  DEF ReachBootstrap, ReachTarget, WaitAgain, FailPendingSend, WaitStages
<1>2. CASE TimeoutUnowned \/ TimeoutIdle \/ TimeoutExpired
  BY <1>2, WaitSet DEF TimeoutUnowned, TimeoutIdle, TimeoutExpired
<1>3. CASE TimeoutRetry
  <2>1. stage \in WaitStages
    BY <1>3 DEF TimeoutRetry, WaitInv, FlowInv, TypeOK, Stages
  <2> QED
    BY <1>3, <2>1, WaitSet DEF TimeoutRetry
<1>4. CASE FlowOnStatus
  BY <1>4, WaitSet DEF FlowOnStatus, WaitStages
<1>5. CASE FlowCancel \/ DutInit \/ DutDeinit \/ DutStart \/ DutStop
  BY <1>5, WaitSet DEF FlowCancel, DutInit, DutDeinit, DutStart, DutStop, ResetState
<1>6. CASE OpenSession
  <2>1. ~timer
    BY <1>6 DEF OpenSession, WaitInv, FlowInv, TypeOK, FlowOwnership, OwnerHasHandle
  <2> QED
    BY <1>6, <2>1 DEF OpenSession
<1> QED
  BY <1>1, <1>2, <1>3, <1>4, <1>5, <1>6 DEF Next, SidewalkThread, FlowStep, HandleEvent,
     KeepSession, OpenSessionFailed, FlowSend, ReachFailed, TrySkipped, TryAccepted, TryRejected,
     SelectFallback, NoFallback, FailureIgnored, LogStatus, TxResultIgnored, TxCompleted,
     TxGivenUp, TxRetried, NewStatus, FlowStatus, LinkSwitch, LinkSwitchIgnored, PrepareForShip,
     Command, StackStatus, StackResult

\* A call that nothing hangs on, should it fail.
Settles(c) == c.onFail = "ignore"

LEMMA SettledCalls ==
  ASSUME NEW c,
         \/ c = Idle \/ \E log : c = Return(log)
         \/ \E step, goal, log : c = Run(step, goal, "ignore", log)
         \/ \E send : c = [Idle EXCEPT !.step = "send", !.send = send]
  PROVE  Settles(c)
<1>1. Settles(Idle)
  BY DEF Settles, Idle
<1>2. \A step, goal, log : Settles(Run(step, goal, "ignore", log))
  BY DEF Settles, Run
<1>3. \A log : Settles(Return(log))
  BY <1>1, <1>2 DEF Return
<1>4. \A send : Settles([Idle EXCEPT !.step = "send", !.send = send])
  BY DEF Settles, Idle
<1> QED
  BY <1>1, <1>2, <1>3, <1>4, Zenon

LEMMA RunFields ==
  ASSUME NEW c, NEW step, NEW goal, NEW onFail, NEW log, c = Run(step, goal, onFail, log)
  PROVE  c.step = step /\ c.onFail = onFail
BY DEF Run

LEMMA EntersSettled ==
  ASSUME NEW e, EnterFlow(e)
  PROVE  Settles(call')
<1>1. CASE e.type = "send"
  BY <1>1, SettledCalls DEF EnterFlow
<1>2. CASE e.type # "send"
  BY <1>2, SettledCalls DEF EnterFlow
<1> QED
  BY <1>1, <1>2

\* Which function runs next, and what its caller does when it fails.
LEMMA OnFailMoves ==
  ASSUME FlowInv, call.onFail = "fail" => call.step \in {"select", "reach", "failed"}, Next
  PROVE  /\ call'.onFail = "fail" => call'.step \in {"select", "reach", "failed"}
         /\ call.onFail = "fail" =>
              \/ call'.onFail = "fail"
              \/ ReachBootstrap \/ ReachTarget \/ FailPendingSend
<1>1. CASE SelectFallback \/ NoFallback \/ ReachFailed
  BY <1>1 DEF SelectFallback, NoFallback, ReachFailed, FlowInv, TypeOK, Call
<1>2. CASE KeepSession \/ OpenSession
  <2>1. call.step = "idle" /\ EnterFlow(Head(queue))
    BY <1>2 DEF KeepSession, OpenSession, Take
  <2>2. call'.onFail = "ignore"
    BY <2>1, EntersSettled DEF Settles
  <2> QED
    BY <2>1, <2>2
<1>3. CASE TimeoutExpired \/ TimeoutRetry \/ TxGivenUp
  <2>1. call.step = "idle"
    BY <1>3 DEF TimeoutExpired, TimeoutRetry, TxGivenUp, Take
  <2>2. call' = Return(TRUE) \/ call' = Run("select", {}, "fail", TRUE)
    BY <1>3 DEF TimeoutExpired, TimeoutRetry, TxGivenUp
  <2>3. Settles(call') \/ call'.step = "select"
    <3>1. ASSUME call' = Return(TRUE) PROVE Settles(call')
      BY <3>1, SettledCalls, Zenon
    <3>2. ASSUME call' = Run("select", {}, "fail", TRUE) PROVE call'.step = "select"
      BY <3>2, RunFields, Zenon
    <3> QED
      BY <2>2, <3>1, <3>2
  <2> QED
    BY <2>1, <2>3 DEF Settles
<1>4. CASE FlowStep /\ ~(SelectFallback \/ NoFallback \/ ReachFailed)
  <2>1. \/ call' = Idle \/ \E log : call' = Return(log)
        \/ \E step, goal, log : call' = Run(step, goal, "ignore", log)
        \/ call' = Run("select", {}, "wait", call.log)
    BY <1>4 DEF FlowStep, FlowSend, ReachBootstrap, ReachTarget, TrySkipped, TryAccepted,
       TryRejected, FailureIgnored, FailPendingSend, WaitAgain, LogStatus, FlowOnStatus
  <2>2. call'.onFail # "fail"
    <3>1. ASSUME call' = Run("select", {}, "wait", call.log) PROVE call'.onFail = "wait"
      BY <3>1, RunFields, Zenon
    <3>2. Settles(call') \/ call' = Run("select", {}, "wait", call.log)
      BY <2>1, SettledCalls, Zenon
    <3> QED
      BY <3>1, <3>2 DEF Settles
  <2>3. call.onFail = "fail" => ReachBootstrap \/ ReachTarget \/ FailPendingSend
    BY <1>4 DEF FlowStep, FlowSend, TrySkipped, TryAccepted, TryRejected, FailureIgnored,
       WaitAgain, LogStatus, FlowOnStatus
  <2> QED
    BY <2>2, <2>3
<1>5. CASE HandleEvent /\ ~(KeepSession \/ OpenSession \/ TimeoutExpired \/ TimeoutRetry \/ TxGivenUp)
  <2>1. call.step = "idle"
    BY <1>5 DEF Take, HandleEvent, OpenSessionFailed, TimeoutUnowned, TimeoutIdle,
       TxResultIgnored, TxCompleted, TxRetried, NewStatus, FlowCancel, FlowStatus, DutInit,
       DutDeinit, DutStart, DutStop, LinkSwitch, LinkSwitchIgnored, PrepareForShip
  <2>2. \/ UNCHANGED call
        \/ call' = Idle \/ \E log : call' = Return(log)
        \/ \E step, goal, log : call' = Run(step, goal, "ignore", log)
    BY <1>5 DEF HandleEvent, OpenSessionFailed, TimeoutUnowned, TimeoutIdle,
       TxResultIgnored, TxCompleted, TxRetried, NewStatus, FlowCancel, FlowStatus, DutInit,
       DutDeinit, DutStart, DutStop, LinkSwitch, LinkSwitchIgnored, PrepareForShip
  <2>3. UNCHANGED call \/ Settles(call')
    BY <2>2, SettledCalls, Zenon
  <2> QED
    BY <2>1, <2>3 DEF Settles
<1>6. CASE TimerExpires \/ Command \/ StackStatus \/ StackResult
  BY <1>6 DEF TimerExpires, Command, StackStatus, StackResult
<1> QED
  BY <1>1, <1>2, <1>3, <1>4, <1>5, <1>6 DEF Next, SidewalkThread

\* A timer that expires with room on the queue leaves its timeout there.
LEMMA ExpiryIsQueued ==
  ASSUME FlowInv, TimerExpires, Len(queue) < QueueSize
  PROVE  HasTimeout'
<1>1. queue' = Append(queue, [type |-> "timeout"]) /\ queue \in Seq(Event)
  BY DEF TimerExpires, FlowInv, TypeOK
<1>2. Len(queue) + 1 \in 1..Len(queue') /\ queue'[Len(queue) + 1] = [type |-> "timeout"]
  BY <1>1
<1> QED
  BY <1>2 DEF HasTimeout

LEMMA WaitInvStep ==
  ASSUME Disturbing \cap CommandKinds = {}, WaitInv, [Next]_vars,
         TimerExpires => Len(queue) < QueueSize
  PROVE  WaitInv'
<1>1. FlowInv' /\ OwnerHasHandle' /\ NoneOf(Disturbing)'
  <2>1. Disturbing \cap (CommandKinds \cup NewsKinds) = {}
    BY DEF Disturbing, SwitchTypes, NewsKinds
  <2> QED
    BY <2>1, FlowInvStep, OwnerKeepsHandle, NoneOfStep DEF WaitInv
<1>2. CASE UNCHANGED vars
  BY <1>1, <1>2 DEF vars, WaitInv, HasTimeout
<1>3. CASE Next
  <2>1. /\ call'.onFail = "fail" => call'.step \in {"select", "reach", "failed"}
        /\ call.onFail = "fail" =>
             \/ call'.onFail = "fail"
             \/ ReachBootstrap \/ ReachTarget \/ FailPendingSend
    BY <1>3, OnFailMoves DEF WaitInv
  <2>2. CASE timer' <=> stage' # "idle"
    BY <1>1, <2>1, <2>2 DEF WaitInv
  <2>3. CASE TimerExpires
    <3>1. HasTimeout' /\ ~timer'
      BY <2>3, ExpiryIsQueued DEF WaitInv, TimerExpires
    <3> QED
      BY <1>1, <2>1, <3>1 DEF WaitInv
  <2>4. CASE UNCHANGED waitVars
    <3>1. timer' = timer /\ stage' = stage
      BY <2>4 DEF waitVars
    <3>2. CASE TimeoutStep
      <4>1. \/ timer' <=> stage' # "idle"
            \/ stage = "idle"
            \/ call' = Run("select", {}, "fail", TRUE)
        BY <3>2, WaitSet DEF TimeoutStep, TimeoutUnowned, TimeoutIdle, TimeoutExpired, TimeoutRetry,
           ScheduleWait
      <4>2. stage # "idle" => timer' \/ call'.onFail = "fail"
        <5>1. ASSUME call' = Run("select", {}, "fail", TRUE) PROVE call'.onFail = "fail"
          BY <5>1 DEF Run
        <5> QED
          BY <3>1, <4>1, <5>1
      <4> QED
        BY <1>1, <2>1, <3>1, <4>2 DEF WaitInv
    <3>3. CASE ~TimeoutStep
      <4>1. HasTimeout => HasTimeout'
        BY <1>3, <3>3, TimeoutStaysQueued DEF WaitInv
      <4>2. ReachBootstrap \/ ReachTarget \/ FailPendingSend => (timer' <=> stage' # "idle")
        BY WaitSet DEF ReachBootstrap, ReachTarget, FailPendingSend, WaitStages
      <4> QED
        BY <1>1, <2>1, <3>1, <4>1, <4>2 DEF WaitInv
    <3> QED
      BY <3>2, <3>3
  <2> QED
    BY <1>3, <2>2, <2>3, <2>4, WaitMoves
<1> QED
  BY <1>2, <1>3

LEMMA WaitInvMeans == WaitInv => WaitHasTimer
<1> SUFFICES ASSUME WaitInv, call.step = "idle"
             PROVE  /\ stage # "idle" => timer \/ Queued("timeout") # {}
                    /\ timer => stage # "idle"
  BY DEF WaitHasTimer
<1>1. HasTimeout => Queued("timeout") # {}
  BY DEF HasTimeout, Queued
<1> QED
  BY <1>1 DEF WaitInv

\* No timeout is lost: the queue has room whenever the timer expires.
NoTimeoutLost == [][TimerExpires => Len(queue) < QueueSize]_vars

\* A wait that is on keeps a timer or a timeout on its way, and no timer runs
\* without a wait, whatever sets, sends, cancels and restarts come between: as
\* long as no timeout is lost to a full queue, and no ship mode and no link
\* switch closes the session under its owner.
THEOREM WaitsAlwaysHaveTimer ==
  ASSUME Disturbing \cap CommandKinds = {}
  PROVE  Spec /\ NoTimeoutLost => []WaitHasTimer
<1>1. Init => WaitInv
  BY InitFlowInv DEF Init, WaitInv, OwnerHasHandle, NoneOf, Idle
<1>2. WaitInv /\ [Next]_vars /\ [TimerExpires => Len(queue) < QueueSize]_vars => WaitInv'
  <2>1. ASSUME WaitInv, TimerExpires, UNCHANGED timer PROVE FALSE
    <3>1. timer /\ timer' = FALSE
      BY <2>1 DEF TimerExpires
    <3>2. timer = FALSE
      BY <2>1, <3>1
    <3> QED
      BY <3>1, <3>2
  <2>2. UNCHANGED vars => UNCHANGED timer
    BY DEF vars
  <2> QED
    BY <2>1, <2>2, WaitInvStep DEF CommandKinds
<1> QED
  BY <1>1, <1>2, WaitInvMeans, PTL DEF Spec, NoTimeoutLost

-----------------------------------------------------------------------------
(* The result of a message in flight is still to come.                     *)

Reported(d) == \E i \in 1..Len(queue) : queue[i].type = "result" /\ queue[i].desc = d

AwaitInv ==
  /\ FlowInv /\ OwnerHasHandle /\ NoneOf(Disturbing)
  /\ inflight => DescOf(pending) \in outstanding \/ Reported(DescOf(pending))

\* A result that does not end the flight of its message is another one's.
LEMMA ReportStaysQueued ==
  ASSUME FlowInv, Next, ~TryAccepted, inflight', Reported(DescOf(pending))
  PROVE  Reported(DescOf(pending))'
<1>1. PICK i \in 1..Len(queue) : queue[i].type = "result" /\ queue[i].desc = DescOf(pending)
  BY DEF Reported
<1>2. inflight /\ DescOf(pending') = DescOf(pending)
  BY InflightKept
<1>3. HandleEvent => Head(queue) # queue[i]
  <2>1. CASE TxResultIgnored
    <3>1. ResultIsAwaited(DescOf(pending))
      BY <1>2 DEF ResultIsAwaited, DescMatches, DescOf, FlowInv, FlowOwnership
    <3>2. ~ResultIsAwaited(Head(queue).desc)
      BY <2>1 DEF TxResultIgnored
    <3> QED
      BY <1>1, <3>1, <3>2
  <2>2. CASE HandleEvent /\ ~TxResultIgnored
    <3>1. ~TxCompleted /\ ~TxGivenUp /\ ~TxRetried
      BY DEF TxCompleted, TxGivenUp, TxRetried
    <3>2. Head(queue).type # "result"
      BY <2>2, <3>1 DEF Take, FlowTypes, SwitchTypes, HandleEvent, KeepSession, OpenSession,
         OpenSessionFailed, TimeoutUnowned, TimeoutIdle, TimeoutExpired, TimeoutRetry, NewStatus,
         FlowCancel, FlowStatus, DutInit, DutDeinit, DutStart, DutStop, LinkSwitch,
         LinkSwitchIgnored, PrepareForShip
    <3> QED
      BY <1>1, <3>2
  <2> QED
    BY <2>1, <2>2
<1>4. queue \in Seq(Event)
  BY DEF FlowInv, TypeOK
<1>5. \/ UNCHANGED queue
      \/ queue # <<>> /\ queue' = Tail(queue) /\ Head(queue) # queue[i]
      \/ \E e \in Event : queue' = Append(queue, e)
  BY <1>3, QueueStep
<1>6. \E j \in 1..Len(queue') : queue'[j] = queue[i]
  BY <1>4, <1>5, StaysQueued
<1> QED
  BY <1>1, <1>2, <1>6 DEF Reported

\* The stack reports on the message, or keeps it.
LEMMA ReportIsQueued ==
  ASSUME FlowInv, StackResult, ~AllocMayFail, Len(queue) < QueueSize, inflight,
         DescOf(pending) \in outstanding
  PROVE  DescOf(pending)' \in outstanding' \/ Reported(DescOf(pending))'
<1>1. mode /\ pending # None
  BY DEF FlowInv, FlowOwnership
<1>2. DescOf(pending)' = DescOf(pending)
  BY DEF StackResult, sendVars, DescOf
<1>3. Len(queue) # QueueSize
  BY ConstantsAssumption DEF FlowInv, TypeOK
<1>4. PICK d \in outstanding, success \in BOOLEAN :
        /\ outstanding' = outstanding \ {d}
        /\ queue' = Append(queue, [type |-> "result", success |-> success, desc |-> d])
  BY <1>1, <1>3 DEF StackResult
<1>5. CASE d = DescOf(pending)
  <2> DEFINE e == [type |-> "result", success |-> success, desc |-> d]
  <2>1. Len(queue) + 1 \in 1..Len(queue') /\ queue'[Len(queue) + 1] = e
    BY <1>4 DEF FlowInv, TypeOK
  <2>2. e.type = "result" /\ e.desc = d
    OBVIOUS
  <2> HIDE DEF e
  <2> QED
    BY <1>2, <1>5, <2>1, <2>2 DEF Reported
<1>6. CASE d # DescOf(pending)
  BY <1>2, <1>4, <1>6
<1> QED
  BY <1>5, <1>6

\* Nothing else takes a message from the stack while one is in flight.
LEMMA StackKeepsMessages ==
  ASSUME AwaitInv, Next, ~TryAccepted, ~StackResult, inflight'
  PROVE  outstanding' = outstanding
<1>1. inflight /\ mode /\ handle
  BY InflightKept DEF AwaitInv, FlowInv, FlowOwnership, OwnerHasHandle
<1>2. ~LinkSwitch /\ ~PrepareForShip
  BY NotDisturbed DEF AwaitInv
<1>3. ~OpenSession /\ ~OpenSessionFailed /\ ~DutDeinit
  BY <1>1 DEF OpenSession, OpenSessionFailed, DutDeinit, ResetState
<1> QED
  BY <1>2, <1>3 DEF Next, SidewalkThread, FlowStep, HandleEvent, stackVars,
     KeepSession, FlowSend, ReachBootstrap, ReachTarget,
     ReachFailed, TrySkipped, TryRejected, SelectFallback, NoFallback, FailureIgnored,
     FailPendingSend, WaitAgain, LogStatus, TimeoutUnowned, TimeoutIdle, TimeoutExpired,
     TimeoutRetry, TxResultIgnored, TxCompleted, TxGivenUp, TxRetried, NewStatus, FlowOnStatus,
     FlowCancel, FlowStatus, DutInit, DutStart, DutStop, LinkSwitchIgnored, TimerExpires,
     Command, StackStatus

LEMMA AwaitInvStep ==
  ASSUME Disturbing \cap CommandKinds = {}, ~AllocMayFail, AwaitInv, [Next]_vars,
         StackResult => Len(queue) < QueueSize
  PROVE  AwaitInv'
<1>1. FlowInv' /\ OwnerHasHandle' /\ NoneOf(Disturbing)'
  <2>1. Disturbing \cap (CommandKinds \cup NewsKinds) = {}
    BY DEF Disturbing, SwitchTypes, NewsKinds
  <2> QED
    BY <2>1, FlowInvStep, OwnerKeepsHandle, NoneOfStep DEF AwaitInv
<1>2. ASSUME inflight' PROVE DescOf(pending)' \in outstanding' \/ Reported(DescOf(pending))'
  <2>1. CASE UNCHANGED vars
    BY <1>2, <2>1 DEF vars, AwaitInv, Reported, DescOf
  <2>2. CASE TryAccepted
    BY <2>2 DEF TryAccepted, DescOf
  <2>3. CASE Next /\ ~TryAccepted
    <3>1. inflight /\ DescOf(pending)' = DescOf(pending)
      BY <1>2, <2>3, InflightKept DEF AwaitInv, DescOf
    <3>2. CASE Reported(DescOf(pending))
      BY <1>2, <2>3, <3>2, ReportStaysQueued DEF AwaitInv
    <3>3. CASE DescOf(pending) \in outstanding /\ StackResult
      BY <3>1, <3>3, ReportIsQueued DEF AwaitInv
    <3>4. CASE DescOf(pending) \in outstanding /\ ~StackResult
      BY <1>2, <2>3, <3>1, <3>4, StackKeepsMessages
    <3> QED
      BY <3>1, <3>2, <3>3, <3>4 DEF AwaitInv
  <2> QED
    BY <2>1, <2>2, <2>3
<1> QED
  BY <1>1, <1>2 DEF AwaitInv

\* No result is lost: the queue has room whenever the stack reports one.
NoResultLost == [][StackResult => Len(queue) < QueueSize]_vars

\* The result of a message in flight is with the stack or on the queue: as
\* long as there is memory and room on the queue for it, and no link switch or
\* ship mode takes the stack down under the flow.
THEOREM AwaitedResultsCome ==
  ASSUME Disturbing \cap CommandKinds = {}, ~AllocMayFail
  PROVE  Spec /\ NoResultLost => []AwaitedResultComes
<1>1. Init => AwaitInv
  BY InitFlowInv DEF Init, AwaitInv, OwnerHasHandle, NoneOf
<1>2. AwaitInv /\ [Next]_vars /\ [StackResult => Len(queue) < QueueSize]_vars => AwaitInv'
  <2>1. UNCHANGED vars => ~StackResult
    BY DEF StackResult, vars
  <2> QED
    BY <2>1, AwaitInvStep
<1>3. AwaitInv => AwaitedResultComes
  BY DEF AwaitInv, AwaitedResultComes, Reported, Queued
<1> QED
  BY <1>1, <1>2, <1>3, PTL DEF Spec, NoResultLost

-----------------------------------------------------------------------------
(* The stack is given a message a bounded number of times.                 *)

\* The commands that begin to count a pending message's retries again.
Recounting == {"set", "switch"}

\* The message whose retries are spent, or whose wait timed out, leaves its
\* link: it moves to another one or is dropped.
Leaving == call.step \in {"select", "failed"} /\ call.onFail = "fail"

\* Every put but the last one counts as a retry.  A send that takes the session
\* over clears the count first; the old message it replaces is not put again.
PutsCounted ==
  pending # None /\ call.step # "send" =>
    pending.puts <= txRetries + (IF inflight \/ Leaving THEN 1 ELSE 0)

PutsInv ==
  /\ FlowInv /\ RequestsFresh /\ NoneOf(Recounting)
  /\ call.onFail = "fail" => call.step \in {"select", "reach", "failed"}
  /\ PutsCounted /\ PutsBounded

\* A send that has just come to its link has not been put there.
LEMMA UnputCounts ==
  ASSUME FlowInv', pending' = None \/ pending'.puts = 0
  PROVE  PutsCounted'
<1>1. txRetries' \in Nat
  BY ConstantsAssumption DEF FlowInv, TypeOK
<1> QED
  BY <1>1 DEF PutsCounted

\* The count is as good as it was where neither it nor the message changes.
LEMMA CountKept ==
  ASSUME FlowInv, PutsCounted, UNCHANGED <<pending, txRetries>>,
         inflight \/ Leaving => inflight' \/ Leaving',
         call.step = "send" => call'.step = "send"
  PROVE  PutsCounted'
<1>1. txRetries \in Nat /\ (pending # None => pending.puts \in Nat)
  BY ConstantsAssumption DEF FlowInv, TypeOK, Send
<1> QED
  BY <1>1 DEF PutsCounted

LEMMA HandlerCounts ==
  ASSUME PutsInv, FlowInv', FlowStep
  PROVE  PutsCounted'
<1>1. CASE FlowSend
  <2> DEFINE send == Resolved(call.send)
  <2>1. call.send \in Send /\ Fresh(call.send)
    BY <1>1 DEF FlowSend, PutsInv, FlowInv, CallOK, TypeOK, Call, RequestsFresh
  <2>2. send \in Send /\ send.puts = 0
    BY <2>1, ResolvedIsSend DEF Resolved, Fresh, Send
  <2>3. pending' = [send EXCEPT !.attempted = @ \cup {send.link}]
    BY <1>1 DEF FlowSend
  <2> HIDE DEF send
  <2>4. pending'.puts = 0
    BY <2>2, <2>3 DEF Send
  <2> QED
    BY <2>4, UnputCounts
<1>2. CASE SelectFallback
  <2>1. pending # None /\ pending \in Send
    BY <1>2 DEF SelectFallback, PutsInv, FlowInv, TypeOK
  <2>2. PICK l, t, a : pending' = [pending EXCEPT !.link = l, !.target = t, !.attempted = a, !.puts = 0]
    BY <1>2 DEF SelectFallback
  <2>3. pending'.puts = 0
    BY <2>1, <2>2 DEF Send
  <2> QED
    BY <2>3, UnputCounts
<1>3. CASE FailPendingSend
  BY <1>3, UnputCounts DEF FailPendingSend
<1>4. CASE TryAccepted
  <2>1. /\ pending # None /\ ~inflight /\ inflight' /\ call.step = "try"
        /\ UNCHANGED txRetries
    BY <1>4 DEF TryAccepted, CanSend, retryVars
  <2>2. pending \in Send /\ pending.puts \in Nat /\ txRetries \in Nat
    BY <2>1, ConstantsAssumption DEF PutsInv, FlowInv, TypeOK, Send
  <2>3. pending.puts <= txRetries
    BY <2>1, <2>2 DEF PutsInv, PutsCounted, Leaving
  <2>4. PICK n : pending' = [pending EXCEPT !.id = n, !.puts = @ + 1]
    BY <1>4 DEF TryAccepted
  <2>5. pending'.puts = pending.puts + 1
    BY <2>2, <2>4 DEF Send
  <2> QED
    BY <2>1, <2>2, <2>3, <2>5 DEF PutsCounted
<1>5. CASE TryRejected \/ NoFallback
  <2>1. /\ UNCHANGED <<inflight, txRetries>>
        /\ pending' = pending \/ pending'.puts = pending.puts
    <3>1. pending # None => pending \in Send
      BY DEF PutsInv, FlowInv, TypeOK
    <3> QED
      BY <1>5, <3>1 DEF TryRejected, NoFallback, CanSend, Send, retryVars
  <2>2. call.step # "send" /\ (pending' # None => pending # None)
    BY <1>5 DEF TryRejected, NoFallback, CanSend
  <2>3. Leaving => Leaving'
    <3>1. CASE TryRejected
      BY <3>1 DEF TryRejected, Leaving
    <3>2. CASE NoFallback
      BY <3>2 DEF NoFallback, Leaving, PutsInv, FlowInv, TypeOK, Call
    <3> QED
      BY <1>5, <3>1, <3>2
  <2>4. txRetries \in Nat /\ (pending # None => pending.puts \in Nat)
    BY ConstantsAssumption DEF PutsInv, FlowInv, TypeOK, Send
  <2> QED
    BY <2>1, <2>2, <2>3, <2>4 DEF PutsInv, PutsCounted
<1>6. CASE \/ ReachBootstrap \/ ReachTarget \/ ReachFailed \/ TrySkipped \/ FailureIgnored
           \/ WaitAgain \/ LogStatus \/ FlowOnStatus
  <2>1. UNCHANGED <<pending, inflight, txRetries>> /\ ~Leaving /\ call.step # "send"
    BY <1>6 DEF ReachBootstrap, ReachTarget, ReachFailed, TrySkipped, FailureIgnored, WaitAgain,
       LogStatus, FlowOnStatus, Leaving, sendVars, retryVars
  <2> QED
    BY <2>1, CountKept DEF PutsInv
<1> QED
  BY <1>1, <1>2, <1>3, <1>4, <1>5, <1>6 DEF FlowStep

LEMMA EventCounts ==
  ASSUME PutsInv, FlowInv', HandleEvent
  PROVE  PutsCounted'
<1>0. ~Leaving /\ call.step = "idle"
  BY DEF Leaving, Take, HandleEvent, KeepSession, OpenSession, OpenSessionFailed, TimeoutUnowned,
     TimeoutIdle, TimeoutExpired, TimeoutRetry, TxResultIgnored, TxCompleted, TxGivenUp,
     TxRetried, NewStatus, FlowCancel, FlowStatus, DutInit, DutDeinit, DutStart, DutStop,
     LinkSwitch, LinkSwitchIgnored, PrepareForShip
<1>1. CASE KeepSession \/ OpenSession
  <2>1. Head(queue).type = "send"
    <3>1. Head(queue).type \in FlowTypes \ Recounting
      BY <1>1, TakenIsNot DEF KeepSession, OpenSession, PutsInv
    <3> QED
      BY <3>1 DEF FlowTypes, Recounting
  <2>2. call'.step = "send"
    BY <1>1, <2>1 DEF KeepSession, OpenSession, EnterFlow, Idle
  <2> QED
    BY <2>2 DEF PutsCounted
<1>2. CASE TxCompleted \/ FlowCancel \/ DutInit \/ DutDeinit \/ DutStart \/ DutStop
  <2>1. pending' = None
    BY <1>2 DEF TxCompleted, FlowCancel, DutInit, DutDeinit, DutStart, DutStop, ResetState
  <2> QED
    BY <2>1, UnputCounts
<1>3. CASE TxRetried
  <2>1. /\ inflight /\ pending # None
        /\ UNCHANGED pending /\ txRetries' = txRetries + 1
    BY <1>3 DEF TxRetried, ResultIsAwaited
  <2>2. pending.puts \in Nat /\ txRetries \in Nat
    BY <2>1, ConstantsAssumption DEF PutsInv, FlowInv, TypeOK, Send
  <2>3. pending.puts <= txRetries + 1
    BY <1>0, <2>1, <2>2 DEF PutsInv, PutsCounted
  <2> QED
    BY <2>1, <2>2, <2>3 DEF PutsCounted
<1>4. CASE TxGivenUp
  <2>1. UNCHANGED <<pending, txRetries>> /\ call' = Run("select", {}, "fail", TRUE)
    BY <1>4 DEF TxGivenUp, retryVars
  <2>2. Leaving'
    BY <2>1 DEF Leaving, Run
  <2> QED
    BY <1>0, <2>1, <2>2, CountKept DEF PutsInv
<1>5. CASE \/ OpenSessionFailed \/ TimeoutUnowned \/ TimeoutIdle \/ TimeoutExpired \/ TimeoutRetry
           \/ TxResultIgnored \/ NewStatus \/ FlowStatus \/ LinkSwitch \/ LinkSwitchIgnored
           \/ PrepareForShip
  <2>1. UNCHANGED <<pending, inflight, txRetries>>
    BY <1>5 DEF OpenSessionFailed, TimeoutUnowned, TimeoutIdle, TimeoutExpired, TimeoutRetry,
       TxResultIgnored, NewStatus, FlowStatus, LinkSwitch, LinkSwitchIgnored, PrepareForShip,
       sendVars, retryVars
  <2> QED
    BY <1>0, <2>1, CountKept DEF PutsInv
<1> QED
  BY <1>1, <1>2, <1>3, <1>4, <1>5 DEF HandleEvent

\* While a send is on its way to its link the message before it stays as it is.
LEMMA SendKeepsMessage ==
  ASSUME FlowInv, Next, call'.step = "send"
  PROVE  UNCHANGED pending
<1>1. CASE KeepSession \/ OpenSession
  BY <1>1 DEF KeepSession, OpenSession, sendVars
<1>2. CASE TimerExpires \/ Command \/ StackStatus \/ StackResult
  BY <1>2 DEF TimerExpires, Command, StackStatus, StackResult, sendVars
<1>3. CASE SelectFallback \/ NoFallback \/ ReachFailed
  BY <1>3 DEF SelectFallback, NoFallback, ReachFailed, FlowInv, TypeOK, Call
<1>4. CASE OpenSessionFailed \/ TimeoutUnowned \/ TimeoutIdle \/ TxResultIgnored \/ FlowStatus
           \/ LinkSwitchIgnored \/ NewStatus \/ LinkSwitch \/ PrepareForShip
  BY <1>4 DEF OpenSessionFailed, TimeoutUnowned, TimeoutIdle, TxResultIgnored, FlowStatus,
     LinkSwitchIgnored, NewStatus, LinkSwitch, PrepareForShip, sendVars
<1>5. CASE SidewalkThread /\ ~(\/ KeepSession \/ OpenSession \/ SelectFallback \/ NoFallback
                              \/ ReachFailed \/ OpenSessionFailed \/ TimeoutUnowned
                              \/ TimeoutIdle \/ TxResultIgnored \/ FlowStatus
                              \/ LinkSwitchIgnored \/ NewStatus \/ LinkSwitch
                              \/ PrepareForShip)
  <2>1. \/ call.step = "idle" /\ UNCHANGED call
        \/ call' = Idle \/ \E log : call' = Return(log)
        \/ \E step \in {"try", "reach", "select", "status"} :
             \E goal, onFail, log : call' = Run(step, goal, onFail, log)
    BY <1>5 DEF SidewalkThread, FlowStep, HandleEvent, Take, FlowSend,
       ReachBootstrap, ReachTarget, TrySkipped, TryAccepted, TryRejected, FailureIgnored,
       FailPendingSend, WaitAgain, LogStatus, TimeoutExpired, TimeoutRetry, TxCompleted,
       TxGivenUp, TxRetried, FlowOnStatus, FlowCancel, DutInit, DutDeinit, DutStart, DutStop
  <2> QED
    BY <2>1 DEF Run, Return, Idle
<1> QED
  BY <1>1, <1>2, <1>3, <1>4, <1>5 DEF Next

\* As no message is retried more often than the limit, the count bounds the puts.
LEMMA CountBounds ==
  ASSUME FlowInv', PutsCounted', call'.step # "send"
  PROVE  PutsBounded'
<1>1. /\ pending' # None => pending'.puts \in Nat
      /\ txRetries' \in 0..MaxTxRetries /\ MaxTxRetries \in Nat
  BY ConstantsAssumption DEF FlowInv, TypeOK, Send
<1> QED
  BY <1>1 DEF PutsCounted, PutsBounded

LEMMA PutsInvStep ==
  ASSUME Recounting \cap CommandKinds = {}, PutsInv, [Next]_vars
  PROVE  PutsInv'
<1>1. FlowInv' /\ RequestsFresh' /\ NoneOf(Recounting)'
  <2>1. Recounting \cap (CommandKinds \cup NewsKinds) = {}
    BY DEF Recounting, NewsKinds
  <2> QED
    BY <2>1, FlowInvStep, RequestsStayFresh, NoneOfStep DEF PutsInv
<1>2. CASE UNCHANGED vars
  BY <1>1, <1>2 DEF vars, PutsInv, PutsCounted, PutsBounded, Leaving
<1>3. CASE Next
  <2>1. call'.onFail = "fail" => call'.step \in {"select", "reach", "failed"}
    BY <1>3, OnFailMoves DEF PutsInv
  <2>2. PutsCounted'
    <3>1. CASE TimerExpires \/ Command \/ StackStatus \/ StackResult
      <4>1. UNCHANGED <<pending, inflight, txRetries, call>>
        BY <3>1 DEF TimerExpires, Command, StackStatus, StackResult, sendVars, retryVars
      <4>2. Leaving => Leaving'
        BY <4>1 DEF Leaving
      <4> QED
        BY <4>1, <4>2, CountKept DEF PutsInv
    <3> QED
      BY <1>1, <1>3, <3>1, HandlerCounts, EventCounts DEF Next, SidewalkThread
  <2>3. PutsBounded'
    <3>1. CASE call'.step = "send"
      BY <1>3, <3>1, SendKeepsMessage DEF PutsInv, PutsBounded
    <3>2. CASE call'.step # "send"
      BY <1>1, <2>2, <3>2, CountBounds
    <3> QED
      BY <3>1, <3>2
  <2> QED
    BY <1>1, <2>1, <2>2, <2>3 DEF PutsInv
<1> QED
  BY <1>2, <1>3

\* On one link the stack is given a message once and MaxTxRetries times again
\* at most, whatever results, statuses, stale timeouts, refusals, link switches
\* and ship modes come between: as long as no `set' or `switch' begins to count
\* again for it.
THEOREM PutsStayBounded ==
  ASSUME Recounting \cap CommandKinds = {}
  PROVE  Spec => []PutsBounded
<1>1. Init => PutsInv
  <2> SUFFICES ASSUME Init PROVE PutsInv
    OBVIOUS
  <2>1. pending = None /\ queue = <<>> /\ call = Idle
    BY DEF Init
  <2>2. RequestsFresh /\ NoneOf(Recounting)
    BY <2>1 DEF RequestsFresh, NoneOf, Idle
  <2> QED
    BY <2>1, <2>2, InitFlowInv DEF PutsInv, PutsCounted, PutsBounded, Idle
<1>2. PutsInv => PutsBounded
  BY DEF PutsInv
<1> QED
  BY <1>1, <1>2, PutsInvStep, PTL DEF Spec

=============================================================================
