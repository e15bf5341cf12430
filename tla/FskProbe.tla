------------------------------- MODULE FskProbe -------------------------------
(***************************************************************************)
(* The FSK probe (fsk_probe/src/main.c): a program that either listens in  *)
(* one window after the other, sweeping its frequency and its crystal      *)
(* trim, or sends one numbered frame after the other.                      *)
(*                                                                         *)
(* One thread runs the probe.  The radio's interrupt gives a semaphore;    *)
(* irq_process, called by the thread, puts an event for each interrupt on  *)
(* a short queue that drops what it has no room for.                       *)
(*                                                                         *)
(* The deadline of a wait is counted in turns of its loop: a turn ends     *)
(* when the semaphore is given, and after 100 ms at the latest.            *)
(*                                                                         *)
(* The radio may refuse to go to standby and the probe does not look at    *)
(* its answer, so a window may begin with the radio still on, and with its *)
(* interrupts.  An event on the queue also says, as history, whether it    *)
(* was put there in the window that runs.                                  *)
(***************************************************************************)
EXTENDS Integers, Sequences, FiniteSets, SequencesExt

CONSTANTS
  Roles,        \* of "rx", "tx", "preamble" and "wave": the builds looked at
  QueueSize,    \* the size of radio_event_msgq
  Turns,        \* the turns of a wait
  SweepStart, SweepStop, SweepStep,  \* CONFIG_FSK_PROBE_FREQ_SWEEP_*
  TrimMax,      \* FSK_PROBE_TRIM_MAX
  Interrupts,   \* what the radio may report of a window or a frame
  Rssi,         \* the signal strengths that are read
  WindowWrap,   \* 2^32: windows wraps
  SeqWrap,      \* 2^32: seq wraps
  SeqLimit      \* 10^8: the first number that needs nine digits

Int16Max == 32767
Int16Min == -32768

\* That the sweep's ends are in order is a condition on the configuration, which
\* Kconfig does not enforce.
ASSUME ProbeAssumption ==
  /\ QueueSize \in Nat \ {0} /\ Turns \in Nat
  /\ SweepStart \in Int /\ SweepStop \in Int /\ SweepStep \in Nat \ {0}
  /\ SweepStart <= SweepStop
  /\ TrimMax \in Nat /\ WindowWrap \in Nat \ {0}
  /\ SeqWrap \in Nat \ {0} /\ SeqLimit \in 1..SeqWrap
  /\ Rssi \subseteq Int16Min..(Int16Max - 1)

VARIABLES
  role,    \* the build's role
  pc,      \* where the thread is
  on,      \* the radio may be running: started, and not in standby since
  irq,     \* the radio's interrupts that nobody has processed
  sem,     \* radio_irq_sem
  msgq,    \* radio_event_msgq
  left,    \* the turns left of the wait
  event,   \* what the wait returned: an event, or "none"
  packet,  \* rx_packet: "none", or "read" from the radio
  stats,   \* rssi_stats
  windows,       \* the number of the window
  offset, trim,  \* what the sweeps ask of the radio, which may refuse it
  seq      \* the number of the next frame

vars == <<role, pc, on, irq, sem, msgq, left, event, packet, stats, windows, offset, trim, seq>>
sweepVars == <<windows, offset, trim>>
radioVars == <<on, irq, sem>>

\* C's division rounds towards zero.
DividedBy(n, d) == IF n < 0 THEN -((-n) \div d) ELSE n \div d

\* Mutant: the sum of the last window is kept.
ResetButSum(s) == [s EXCEPT !.min = Int16Max, !.max = Int16Min, !.last = Int16Max, !.count = 0]

ResetStats(s) ==
  [s EXCEPT !.min = Int16Max, !.max = Int16Min, !.last = Int16Max, !.sum = 0, !.count = 0]

Lesser(a, b) == IF a < b THEN a ELSE b
Greater(a, b) == IF a > b THEN a ELSE b

\* INT16_MAX is what the radio answers when it has no value.
Sampled(s, rssi) ==
  IF rssi = Int16Max THEN s
  ELSE [min |-> Lesser(s.min, rssi), max |-> Greater(s.max, rssi), last |-> rssi,
        sum |-> s.sum + rssi, count |-> s.count + 1]

Average(s) == DividedBy(s.sum, s.count)

-----------------------------------------------------------------------------
\* The radio and its queue.

\* An interrupt is latched by the radio and gives the semaphore.
Interrupt ==
  /\ on
  /\ \E i \in Interrupts[role] \ irq : irq' = irq \cup {i}
  /\ sem' = 1
  /\ UNCHANGED <<role, pc, on, msgq, left, event, packet, stats, windows, offset, trim, seq>>

\* An event of the radio, put on the queue in the window that runs.
Reported(type) == [type |-> type, now |-> TRUE]
NoEvent == [type |-> "none", now |-> TRUE]

\* Another window or frame begins: what is on the queue is an earlier one's.
Aged(q) == [i \in DOMAIN q |-> [type |-> q[i].type, now |-> FALSE]]

\* Events are put one after the other; those the queue has no room for are lost.
Notified(q, types) ==
  q \o [i \in 1..Lesser(Len(types), QueueSize - Len(q)) |-> Reported(types[i])]

\* Mutant: what an earlier window received stays in rx_packet.
PacketKept == packet

\* memset at the start of a window.
PacketCleared == "none"

-----------------------------------------------------------------------------
\* wait_radio_event

\* Mutants: the number of steps with one too many, and without the last one.
FreqStepsAndOne == (SweepStop - SweepStart) \div SweepStep + 2
FreqStepsButLast == LET span == SweepStop - SweepStart IN Greater(span \div SweepStep, 1)

FreqSteps == (SweepStop - SweepStart) \div SweepStep + 1

\* Mutant: the wait looks at the radio before it looks at the queue.
NotLookedAt == TRUE

QueueIsEmpty == msgq = <<>>

\* An event is there: the wait is over, with the deadline past or not.
TakeEvent ==
  /\ pc = "wait" /\ Len(msgq) > 0
  /\ event' = Head(msgq) /\ msgq' = Tail(msgq)
  /\ pc' = "report"
  /\ UNCHANGED <<role, radioVars, left, packet, stats, sweepVars, seq>>

\* Mutant: a wait ends only with an event.
NeverTimedOut == FALSE

TimedOut == left = 0

WaitTimesOut ==
  /\ pc = "wait" /\ QueueIsEmpty /\ TimedOut
  /\ event' = NoEvent /\ pc' = "report"
  /\ UNCHANGED <<role, radioVars, msgq, left, packet, stats, sweepVars, seq>>

\* A receiver reads the signal strength when its next sample is due.
SampleRssi ==
  /\ pc = "wait" /\ QueueIsEmpty /\ ~TimedOut
  /\ \/ role = "rx" /\ \E rssi \in Rssi \cup {Int16Max} : stats' = Sampled(stats, rssi)
     \/ stats' = stats
  /\ pc' = "sem"
  /\ UNCHANGED <<role, radioVars, msgq, left, event, packet, sweepVars, seq>>

\* The semaphore is taken, or 100 ms have passed.
TakeSem ==
  /\ pc = "sem"
  /\ sem' = 0
  /\ left' = Greater(left - 1, 0)
  /\ pc' = "process"
  /\ UNCHANGED <<role, on, irq, msgq, event, packet, stats, sweepVars, seq>>

\* irq_process reports each interrupt, and reads the packet that was received.
IrqProcess ==
  /\ pc = "process"
  /\ \E order \in SetToSeqs(irq) : msgq' = Notified(msgq, order)
  /\ irq' = {}
  /\ packet' = IF "RX_DONE" \in irq THEN "read" ELSE packet
  /\ pc' = "wait"
  /\ UNCHANGED <<role, on, sem, left, event, stats, sweepVars, seq>>

\* irq_process fails, with some of the interrupts reported: the wait fails.
IrqProcessFails ==
  /\ pc = "process"
  /\ \E done \in SUBSET irq : \E order \in SetToSeqs(done) :
       /\ msgq' = Notified(msgq, order)
       /\ irq' = irq \ done
       /\ packet' = IF "RX_DONE" \in done THEN "read" ELSE packet
  /\ event' = NoEvent /\ pc' = "report"
  /\ UNCHANGED <<role, on, sem, left, stats, sweepVars, seq>>

-----------------------------------------------------------------------------
\* run_rx and run_tx

\* The radio is configured, or the probe stops for good.
Configure ==
  /\ pc = "boot"
  /\ pc' \in {"stopped", IF role \in {"rx", "tx"} THEN "begin" ELSE "continuous"}
  /\ UNCHANGED <<role, radioVars, msgq, left, event, packet, stats, sweepVars, seq>>

\* A window: what the last one left is cleared, and the sweeps go on.
BeginWindow ==
  /\ pc = "begin" /\ role = "rx"
  /\ packet' = PacketCleared /\ msgq' = Aged(msgq)
  /\ stats' = ResetStats(stats)
  /\ windows' = (windows + 1) % WindowWrap
  /\ LET i == (windows' - 1) % WindowWrap IN
     /\ offset' = SweepStart + (i % FreqSteps) * SweepStep
     /\ trim' = i % (TrimMax + 1)
  /\ pc' = "start"
  /\ UNCHANGED <<role, radioVars, left, event, seq>>

\* A frame is numbered; a number of nine digits does not fit, and is skipped.
BeginFrame ==
  /\ pc = "begin" /\ role = "tx"
  /\ seq' = (seq + 1) % SeqWrap
  /\ pc' = IF seq < SeqLimit THEN "start" ELSE "begin"
  /\ msgq' = Aged(msgq)
  /\ UNCHANGED <<role, radioVars, left, event, packet, stats, sweepVars>>

Start ==
  /\ pc = "start"
  /\ on' = TRUE /\ left' = Turns /\ pc' = "wait"
  /\ UNCHANGED <<role, irq, sem, msgq, event, packet, stats, sweepVars, seq>>

\* sid_pal_radio_standby, whose result the probe does not look at.
AfterStandby(running) == {FALSE, running}

\* Starting fails, with the radio running or not, or a frame's configuration
\* does.  A sender then asks for standby, a receiver does not.  Again after a
\* second.
StartFails ==
  /\ pc = "start"
  /\ \E running \in {on, TRUE} :
       on' \in IF role = "tx" THEN AfterStandby(running) ELSE {running}
  /\ pc' = "begin"
  /\ UNCHANGED <<role, irq, sem, msgq, left, event, packet, stats, sweepVars, seq>>

\* The window is logged, and however it ended the radio is asked for standby.
Report ==
  /\ pc = "report"
  /\ on' \in AfterStandby(on)
  /\ pc' = "begin"
  /\ UNCHANGED <<role, irq, sem, msgq, left, event, packet, stats, sweepVars, seq>>

Init ==
  /\ role \in Roles
  /\ pc = "boot" /\ on = FALSE
  /\ irq = {} /\ sem = 0 /\ msgq = <<>>
  /\ left = 0 /\ event = NoEvent /\ packet = "none"
  /\ stats = [min |-> Int16Max, max |-> Int16Min, last |-> Int16Max, sum |-> 0, count |-> 0]
  /\ windows = 0 /\ offset = SweepStart /\ trim = 0
  /\ seq = 0

Thread ==
  \/ TakeEvent \/ WaitTimesOut \/ SampleRssi \/ TakeSem \/ IrqProcess \/ IrqProcessFails
  \/ Configure \/ BeginWindow \/ BeginFrame \/ Start \/ StartFails \/ Report

Next == Thread \/ Interrupt

Spec == Init /\ [][Next]_vars

\* The thread runs, and starting the radio succeeds now and then.
FairSpec == Spec /\ WF_vars(Thread) /\ SF_vars(Start)

-----------------------------------------------------------------------------
\* The queue is bounded, and the sweeps stay within their range, also when the
\* number of windows wraps.
TypeOK ==
  /\ pc \in {"boot", "stopped", "continuous", "begin", "start", "wait", "sem", "process", "report"}
  /\ on \in BOOLEAN /\ sem \in {0, 1}
  /\ Len(msgq) <= QueueSize
  /\ left \in 0..Turns
  /\ packet \in {"none", "read"}
  /\ offset \in SweepStart..SweepStop /\ trim \in 0..TrimMax
  /\ windows \in 0..(WindowWrap - 1) /\ seq \in 0..(SeqWrap - 1)

\* The average that is logged for a window lies between its smallest and its
\* largest sample: nothing of an earlier window is in the sum, and a value the
\* radio did not have is not counted.
AverageIsOfSamples ==
  stats.count > 0 => Average(stats) \in stats.min..stats.max /\ stats.last \in stats.min..stats.max

\* A reception that a receiver reports comes with the packet that was read for it.  One
\* window may leave its event to the next, and an event may be reported without
\* its packet; but a packet is never reported for another window's event.
PayloadIsOfItsEvent ==
  role = "rx" /\ pc = "report" /\ event.type = "RX_DONE" => (packet = "read" <=> event.now)

\* No event is dropped, though irq_process may put several at once and a window
\* takes one: whenever the radio is asked, the queue has room for all it reports.
NoEventIsDropped == pc = "process" => Len(msgq) + Cardinality(irq) <= QueueSize

\* A window and a frame end, and another one follows: neither a wait without an
\* event nor a start that fails once stops the probe.
KeepsReporting == pc = "begin" ~> pc = "report"

\* The sweep comes to every step of its range, the last one included.
SweepIsWhole ==
  \A o \in {o \in SweepStart..SweepStop : (o - SweepStart) % SweepStep = 0} :
    pc = "begin" /\ role = "rx" ~> offset = o
=============================================================================
