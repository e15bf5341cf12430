----------------------------- MODULE FskProbeProofs -----------------------------
(* Theorems about the FSK probe (FskProbe), for any sweep, queue and wrap.   *)
EXTENDS FskProbe, FiniteSetTheorems, SequenceTheorems, TLAPS

Stats == [min : Int, max : Int, last : Int, sum : Int, count : Nat]

Event == [type : Interrupts[role], now : BOOLEAN]

\* The interrupts are finitely many of those the radio reports, and the queue
\* holds events of them.
RadioTyped ==
  /\ role \in Roles
  /\ irq \subseteq Interrupts[role] /\ IsFiniteSet(irq)
  /\ msgq \in Seq(Event)

\* The radio is only asked when the queue is empty.
AskedWhenEmpty == pc \in {"sem", "process"} => msgq = <<>>

\* The packet is that of any reception on the queue of this window, and of none
\* that an earlier one left.
PacketIsOf(e) == e.type = "RX_DONE" => (packet = "read" <=> e.now)
PacketIsOfQueue ==
  role = "rx" /\ pc \in {"start", "wait", "sem", "process"} =>
    \A i \in 1..Len(msgq) : PacketIsOf(msgq[i])

\* The sum of a window lies between its count of smallest and of largest samples.
SumOfSamples(s) ==
  /\ s \in Stats
  /\ s.count = 0 => s.sum = 0
  /\ s.count > 0 =>
       /\ s.count * s.min <= s.sum /\ s.sum <= s.count * s.max
       /\ s.last \in s.min..s.max
  /\ s.min <= Int16Max /\ s.max >= Int16Min

-----------------------------------------------------------------------------
\* The constants.

LEMMA ConstantTypes ==
  /\ QueueSize \in Nat /\ Turns \in Nat /\ TrimMax \in Nat
  /\ SweepStart \in Int /\ SweepStop \in Int /\ SweepStep \in Nat \ {0}
  /\ SweepStart <= SweepStop
  /\ WindowWrap \in Nat \ {0} /\ SeqWrap \in Nat \ {0}
BY ProbeAssumption

LEMMA Int16Types ==
  Int16Max \in Int /\ Int16Min \in Int /\ Int16Min <= Int16Max
BY DEF Int16Max, Int16Min

LEMMA StrengthType ==
  ASSUME NEW rssi \in Rssi
  PROVE  rssi \in Int /\ rssi <= Int16Max /\ rssi >= Int16Min
BY Int16Types, ProbeAssumption

-----------------------------------------------------------------------------
\* Division and remainder.

LEMMA RemainderInRange ==
  ASSUME NEW n \in Int, NEW d \in Nat \ {0}
  PROVE  n % d \in 0..(d - 1)
  OBVIOUS

LEMMA QuotientInRange ==
  ASSUME NEW n \in Nat, NEW d \in Nat \ {0}
  PROVE  /\ n \div d \in Nat
         /\ d * (n \div d) <= n /\ n < d * (n \div d) + d
  OBVIOUS

LEMMA ProductKeepsOrder ==
  ASSUME NEW a \in Int, NEW b \in Int, NEW d \in Nat, a <= b
  PROVE  d * a <= d * b /\ d * a \in Int /\ d * b \in Int
  OBVIOUS

LEMMA ProductTellsOrder ==
  ASSUME NEW a \in Int, NEW b \in Int, NEW d \in Nat \ {0}, d * a < d * b + d
  PROVE  a <= b
  OBVIOUS

\* C's division keeps to the bounds of what is divided: where the product is
\* between two products, the quotient is between the factors.
LEMMA DividedByInRange ==
  ASSUME NEW n \in Int, NEW d \in Nat \ {0}, NEW lo \in Int, NEW hi \in Int,
         d * lo <= n, n <= d * hi
  PROVE  DividedBy(n, d) \in lo..hi
<1>1. CASE n >= 0
  <2> DEFINE q == n \div d
  <2>1. q \in Nat /\ d * q <= n /\ n < d * q + d
    BY <1>1, QuotientInRange
  <2>2. q <= hi
    BY <2>1, ProductKeepsOrder, ProductTellsOrder
  <2>3. lo <= q
    BY <2>1, ProductTellsOrder
  <2>4. DividedBy(n, d) = q
    BY <1>1 DEF DividedBy
  <2> QED
    BY <2>1, <2>2, <2>3, <2>4
<1>2. CASE n < 0
  <2> DEFINE q == (-n) \div d
  <2>1. q \in Nat /\ d * q <= -n /\ -n < d * q + d
    BY <1>2, QuotientInRange
  <2>2. d * (-q) = -(d * q) /\ d * (-lo) = -(d * lo) /\ d * (-hi) = -(d * hi)
    BY <2>1
  <2>3. -hi <= q
    BY <2>1, <2>2, ProductTellsOrder
  <2>4. q <= -lo
    BY <2>1, <2>2, ProductTellsOrder
  <2>5. DividedBy(n, d) = -q
    BY <1>2 DEF DividedBy
  <2> QED
    BY <2>1, <2>3, <2>4, <2>5
<1> QED
  BY <1>1, <1>2

\* A step of the sweep stays within the sweep, the last one included.
LEMMA OffsetInSweep ==
  ASSUME NEW i \in Int
  PROVE  SweepStart + (i % FreqSteps) * SweepStep \in SweepStart..SweepStop
<1> DEFINE span == SweepStop - SweepStart
           k == i % FreqSteps
<1>1. span \in Nat /\ SweepStep \in Nat \ {0} /\ SweepStart \in Int
  BY ConstantTypes
<1>2. span \div SweepStep \in Nat /\ SweepStep * (span \div SweepStep) <= span
  BY <1>1, QuotientInRange
<1>3. FreqSteps = span \div SweepStep + 1 /\ FreqSteps \in Nat \ {0}
  BY <1>2 DEF FreqSteps
<1>4. k \in Nat /\ k <= span \div SweepStep
  <2>1. k \in 0..(FreqSteps - 1)
    BY <1>3, RemainderInRange
  <2> HIDE DEF k
  <2> QED
    BY <1>2, <1>3, <2>1
<1>5. SweepStep * k <= SweepStep * (span \div SweepStep) /\ SweepStep * k \in Int
  BY <1>1, <1>2, <1>4, ProductKeepsOrder
<1>6. k * SweepStep = SweepStep * k /\ SweepStep * k \in Nat
  BY <1>1, <1>4
<1>7. k * SweepStep \in Nat /\ k * SweepStep <= span
  BY <1>1, <1>2, <1>5, <1>6
<1> DEFINE far == k * SweepStep
<1>8. far \in Nat /\ far <= SweepStop - SweepStart
  BY <1>7
<1> HIDE DEF far
<1>9. SweepStart + far \in SweepStart..SweepStop
  BY <1>8, ConstantTypes
<1> QED
  BY <1>9 DEF far

-----------------------------------------------------------------------------
\* The queue and the statistics.

\* The interrupts in any order are a sequence of them.
LEMMA OrderIsSeq ==
  ASSUME NEW S, IsFiniteSet(S), NEW order \in SetToSeqs(S)
  PROVE  order \in Seq(S)
<1>1. Cardinality(S) \in Nat
  BY FS_CardinalityType
<1>2. order \in [1..Cardinality(S) -> S]
  BY DEF SetToSeqs
<1> QED
  BY <1>1, <1>2

\* The queue keeps to its size whatever is put on it.
LEMMA NotifiedFits ==
  ASSUME NEW S, NEW types \in Seq(S), NEW q \in Seq([type : S, now : BOOLEAN]),
         Len(q) <= QueueSize
  PROVE  /\ Notified(q, types) \in Seq([type : S, now : BOOLEAN])
         /\ Len(Notified(q, types)) <= QueueSize
<1> DEFINE E == [type : S, now : BOOLEAN]
           n == Lesser(Len(types), QueueSize - Len(q))
           put == [i \in 1..n |-> Reported(types[i])]
<1>1. n \in Nat /\ n <= Len(types) /\ n <= QueueSize - Len(q)
  <2>1. QueueSize \in Nat /\ Len(q) \in Nat /\ Len(types) \in Nat
    BY ConstantTypes
  <2> QED
    BY <2>1 DEF Lesser
<1>2. \A i \in 1..n : types[i] \in S
  BY <1>1
<1> HIDE DEF n
<1>3. \A i \in 1..n : Reported(types[i]) \in E
  BY <1>2 DEF Reported
<1>4. put \in Seq(E) /\ Len(put) = n
  BY <1>1, <1>3
<1>5. q \o put \in Seq(E) /\ Len(q \o put) = Len(q) + Len(put)
  BY <1>4, ConcatProperties
<1> HIDE DEF put
<1>6. Notified(q, types) = q \o put
  BY DEF Notified, n, put
<1>7. QueueSize \in Nat /\ Len(q) \in Nat
  BY ConstantTypes
<1> QED
  BY <1>1, <1>4, <1>5, <1>6, <1>7

\* What is put on an empty queue are events of this window.
LEMMA NotifiedOnEmpty ==
  ASSUME NEW D, NEW types \in Seq(D)
  PROVE  \A i \in 1..Len(Notified(<<>>, types)) :
           Notified(<<>>, types)[i].type \in D /\ Notified(<<>>, types)[i].now = TRUE
<1> DEFINE n == Lesser(Len(types), QueueSize - Len(<<>>))
           put == [i \in 1..n |-> Reported(types[i])]
<1>1. n \in Nat /\ n <= Len(types)
  <2>1. QueueSize \in Nat /\ Len(types) \in Nat
    BY ConstantTypes
  <2> QED
    BY <2>1 DEF Lesser
<1>2. \A i \in 1..n : types[i] \in D
  BY <1>1
<1> HIDE DEF n
<1>3. \A i \in 1..n : put[i].type \in D /\ put[i].now = TRUE
  BY <1>2 DEF Reported
<1>4. put \in Seq([type : D, now : BOOLEAN]) /\ Len(put) = n
  BY <1>1, <1>2 DEF Reported
<1>5. Notified(<<>>, types) = <<>> \o put
  BY DEF Notified, n, put
<1> HIDE DEF put
<1>6. <<>> \o put = put
  BY <1>4
<1> QED
  BY <1>3, <1>4, <1>5, <1>6

\* Another window or frame begins: the queue keeps its events, as earlier ones.
LEMMA AgedTyped ==
  ASSUME NEW S, NEW q \in Seq([type : S, now : BOOLEAN])
  PROVE  /\ Aged(q) \in Seq([type : S, now : BOOLEAN]) /\ Len(Aged(q)) = Len(q)
         /\ \A i \in 1..Len(Aged(q)) : Aged(q)[i].now = FALSE
<1> DEFINE aged == [i \in 1..Len(q) |-> [type |-> q[i].type, now |-> FALSE]]
<1>1. Len(q) \in Nat /\ DOMAIN q = 1..Len(q)
  OBVIOUS
<1>2. \A i \in 1..Len(q) : q[i].type \in S
  <2>1. \A i \in 1..Len(q) : q[i] \in [type : S, now : BOOLEAN]
    BY ElementOfSeq
  <2>2. \A e \in [type : S, now : BOOLEAN] : e.type \in S
    OBVIOUS
  <2> QED
    BY <2>1, <2>2
<1>3. \A i \in 1..Len(q) : [type |-> q[i].type, now |-> FALSE] \in [type : S, now : BOOLEAN]
  BY <1>2
<1>4. aged \in Seq([type : S, now : BOOLEAN]) /\ Len(aged) = Len(q)
  BY <1>1, <1>3
<1>5. \A i \in 1..Len(q) : aged[i].now = FALSE
  OBVIOUS
<1>6. Aged(q) = aged
  BY <1>1 DEF Aged
<1> HIDE DEF aged
<1> QED
  BY <1>4, <1>5, <1>6

LEMMA ResetOfSamples ==
  ASSUME NEW s, SumOfSamples(s)
  PROVE  SumOfSamples(ResetStats(s))
<1> DEFINE r == ResetStats(s)
<1>1. s \in Stats
  BY DEF SumOfSamples
<1>2. /\ r.min = Int16Max /\ r.max = Int16Min /\ r.last = Int16Max
      /\ r.sum = 0 /\ r.count = 0
  BY <1>1 DEF Stats, ResetStats
<1>3. r \in Stats
  <2> DEFINE e == [s EXCEPT !.min = Int16Max]
             f == [e EXCEPT !.max = Int16Min]
             g == [f EXCEPT !.last = Int16Max]
             h == [g EXCEPT !.sum = 0]
  <2>1. e \in Stats
    BY <1>1, Int16Types DEF Stats
  <2> HIDE DEF e
  <2>2. f \in Stats
    BY <2>1, Int16Types DEF Stats
  <2> HIDE DEF f
  <2>3. g \in Stats
    BY <2>2, Int16Types DEF Stats
  <2> HIDE DEF g
  <2>4. h \in Stats
    BY <2>3 DEF Stats
  <2> HIDE DEF h
  <2>5. [h EXCEPT !.count = 0] \in Stats
    BY <2>4 DEF Stats
  <2>6. r = [h EXCEPT !.count = 0]
    BY DEF h, g, f, e, ResetStats
  <2> QED
    BY <2>5, <2>6
<1>4. SumOfSamples(r)
  BY <1>2, <1>3, Int16Types DEF SumOfSamples
<1> QED
  BY <1>4 DEF r

\* One more sample keeps the sum between the products.
LEMMA SampleCounted ==
  ASSUME NEW s, SumOfSamples(s), NEW rssi \in Rssi \cup {Int16Max}
  PROVE  SumOfSamples(Sampled(s, rssi))
<1>1. rssi \in Int /\ rssi <= Int16Max /\ rssi >= Int16Min
  <2>1. CASE rssi \in Rssi
    BY <2>1, StrengthType
  <2>2. CASE rssi = Int16Max
    BY <2>2, Int16Types
  <2> QED
    BY <2>1, <2>2
<1>2. CASE rssi = Int16Max
  BY <1>2 DEF Sampled
<1>3. CASE rssi # Int16Max
  <2> DEFINE lo == Lesser(s.min, rssi)
             hi == Greater(s.max, rssi)
             c == s.count
  <2>1. /\ c \in Nat /\ s.min \in Int /\ s.max \in Int /\ s.sum \in Int
        /\ s.min <= Int16Max /\ s.max >= Int16Min
    BY DEF SumOfSamples, Stats
  <2>2. /\ lo \in Int /\ lo <= s.min /\ lo <= rssi
        /\ hi \in Int /\ s.max <= hi /\ rssi <= hi
    BY <1>1, <2>1 DEF Lesser, Greater
  <2>3. c * lo <= s.sum /\ s.sum <= c * hi
    <3>1. CASE c = 0
      BY <2>1, <2>2, <3>1 DEF SumOfSamples
    <3>2. CASE c > 0
      <4>1. c * s.min <= s.sum /\ s.sum <= c * s.max
        BY <3>2 DEF SumOfSamples
      <4>2. c * lo <= c * s.min /\ c * s.max <= c * hi
        BY <2>1, <2>2, ProductKeepsOrder
      <4>3. c * lo \in Int /\ c * hi \in Int /\ c * s.min \in Int /\ c * s.max \in Int
        BY <2>1, <2>2
      <4> QED
        BY <2>1, <4>1, <4>2, <4>3
    <3> QED
      BY <2>1, <3>1, <3>2
  <2>4. (c + 1) * lo = c * lo + lo /\ (c + 1) * hi = c * hi + hi
    BY <2>1, <2>2
  <2>5. c * lo \in Int /\ c * hi \in Int
    BY <2>1, <2>2
  <2>6. (c + 1) * lo <= s.sum + rssi /\ s.sum + rssi <= (c + 1) * hi
    BY <1>1, <2>1, <2>2, <2>3, <2>4, <2>5
  <2>7. Sampled(s, rssi) = [min |-> lo, max |-> hi, last |-> rssi,
                            sum |-> s.sum + rssi, count |-> c + 1]
    BY <1>3 DEF Sampled
  <2>8. lo <= Int16Max /\ hi >= Int16Min /\ c + 1 \in Nat /\ c + 1 # 0 /\ s.sum + rssi \in Int
    BY <1>1, <2>1, <2>2, Int16Types
  <2> HIDE DEF lo, hi, c
  <2> QED
    BY <1>1, <2>2, <2>6, <2>7, <2>8 DEF SumOfSamples, Stats
<1> QED
  BY <1>2, <1>3

\* What is logged of such a window is what AverageIsOfSamples says.
LEMMA AverageOfSum ==
  ASSUME SumOfSamples(stats)
  PROVE  AverageIsOfSamples
BY DividedByInRange DEF SumOfSamples, Stats, AverageIsOfSamples, Average

-----------------------------------------------------------------------------
\* The steps.

\* The inductive invariant: besides the properties, the queue is empty when the
\* radio is asked, the packet belongs to what is on the queue, and the statistics
\* are those of the samples counted since the window began.
ProbeInv ==
  /\ TypeOK /\ RadioTyped
  /\ AskedWhenEmpty /\ PacketIsOfQueue /\ PayloadIsOfItsEvent
  /\ SumOfSamples(stats)

LEMMA InitProbeInv == Init => ProbeInv
<1> SUFFICES ASSUME Init PROVE ProbeInv
  OBVIOUS
<1>1. TypeOK
  <2>1. SweepStart \in SweepStart..SweepStop
    BY ConstantTypes
  <2>2. Len(<<>>) = 0
    OBVIOUS
  <2>3. 0 \in 0..Turns /\ 0 \in 0..TrimMax
    BY ConstantTypes
  <2>4. 0 \in 0..(WindowWrap - 1) /\ 0 \in 0..(SeqWrap - 1)
    BY ConstantTypes
  <2>5. 0 <= QueueSize
    BY ConstantTypes
  <2> QED
    BY <2>1, <2>2, <2>3, <2>4, <2>5 DEF Init, TypeOK
<1>2. RadioTyped
  BY FS_EmptySet DEF Init, RadioTyped, Event
<1>3. SumOfSamples(stats)
  BY Int16Types DEF Init, SumOfSamples, Stats
<1>4. AskedWhenEmpty /\ PacketIsOfQueue /\ PayloadIsOfItsEvent
  BY DEF Init, AskedWhenEmpty, PacketIsOfQueue, PayloadIsOfItsEvent
<1> QED
  BY <1>1, <1>2, <1>3, <1>4 DEF ProbeInv

\* The windows and the frames are numbered modulo the width of their counters.
LEMMA CountersWrap ==
  ASSUME NEW n \in Int
  PROVE  (n + 1) % WindowWrap \in 0..(WindowWrap - 1) /\ (n + 1) % SeqWrap \in 0..(SeqWrap - 1)
<1>1. n + 1 \in Int
  OBVIOUS
<1> QED
  BY <1>1, RemainderInRange, ConstantTypes

\* Where none of these variables changes but the place of the thread, what the
\* packet and the queue have to do with each other stays.
LEMMA PayloadKept ==
  ASSUME ProbeInv, UNCHANGED <<role, msgq, packet>>,
         pc' \in {"sem", "process"} => msgq = <<>>,
         pc' \in {"start", "wait", "sem", "process"} => pc \in {"start", "wait", "sem", "process"},
         pc' = "report" => event'.type # "RX_DONE"
  PROVE  AskedWhenEmpty' /\ PacketIsOfQueue' /\ PayloadIsOfItsEvent'
BY DEF ProbeInv, AskedWhenEmpty, PacketIsOfQueue, PacketIsOf, PayloadIsOfItsEvent

LEMMA InterruptStep ==
  ASSUME ProbeInv, Interrupt
  PROVE  ProbeInv'
<1> USE DEF Interrupt
<1>1. TypeOK'
  BY DEF ProbeInv, TypeOK
<1>2. RadioTyped'
  BY FS_AddElement DEF ProbeInv, RadioTyped, Event
<1>3. AskedWhenEmpty' /\ PacketIsOfQueue' /\ PayloadIsOfItsEvent'
  BY DEF ProbeInv, AskedWhenEmpty, PacketIsOfQueue, PacketIsOf, PayloadIsOfItsEvent
<1> QED
  BY <1>1, <1>2, <1>3 DEF ProbeInv

LEMMA TakeEventStep ==
  ASSUME ProbeInv, TakeEvent
  PROVE  ProbeInv'
<1>1. /\ Tail(msgq) \in Seq(Event) /\ Len(Tail(msgq)) = Len(msgq) - 1
      /\ Len(msgq) \in Nat /\ 1 \in 1..Len(msgq) /\ Head(msgq) = msgq[1]
  BY DEF ProbeInv, RadioTyped, TakeEvent
<1>2. TypeOK'
  BY <1>1, ConstantTypes DEF ProbeInv, TypeOK, TakeEvent, radioVars, sweepVars
<1>3. RadioTyped'
  BY <1>1 DEF ProbeInv, RadioTyped, TakeEvent, radioVars, Event
<1>4. role = "rx" => PacketIsOf(event')
  BY <1>1 DEF ProbeInv, PacketIsOfQueue, TakeEvent
<1>5. AskedWhenEmpty' /\ PacketIsOfQueue' /\ PayloadIsOfItsEvent'
  BY <1>4 DEF AskedWhenEmpty, PacketIsOfQueue, PacketIsOf, PayloadIsOfItsEvent, TakeEvent
<1> QED
  BY <1>2, <1>3, <1>5 DEF ProbeInv, TakeEvent

\* irq_process reports some of the interrupts and keeps the rest.
LEMMA ProcessedTyped ==
  ASSUME ProbeInv, pc = "process", NEW done \in SUBSET irq, NEW order \in SetToSeqs(done),
         msgq' = Notified(msgq, order), irq' = irq \ done, role' = role
  PROVE  /\ RadioTyped' /\ Len(msgq') <= QueueSize
         /\ \A i \in 1..Len(msgq') : msgq'[i].now = TRUE /\ msgq'[i].type \in done
<1>1. irq \subseteq Interrupts[role] /\ IsFiniteSet(irq) /\ msgq \in Seq(Event)
  BY DEF ProbeInv, RadioTyped
<1>2. IsFiniteSet(done) /\ IsFiniteSet(irq \ done)
  BY <1>1, FS_Subset
<1>3. order \in Seq(done)
  BY <1>2, OrderIsSeq
<1>4. order \in Seq(Interrupts[role]) /\ \A j \in 1..Len(order) : order[j] \in done
  BY <1>1, <1>3
<1>5. Len(msgq) <= QueueSize /\ msgq = <<>>
  BY DEF ProbeInv, TypeOK, AskedWhenEmpty
<1>6. msgq' \in Seq(Event) /\ Len(msgq') <= QueueSize
  <2>1. msgq \in Seq([type : Interrupts[role], now : BOOLEAN])
    BY <1>1 DEF Event
  <2> QED
    BY <1>4, <1>5, <2>1, NotifiedFits DEF Event
<1>7. \A i \in 1..Len(msgq') : msgq'[i].now = TRUE /\ msgq'[i].type \in done
  BY <1>3, <1>5, NotifiedOnEmpty
<1> QED
  BY <1>1, <1>2, <1>6, <1>7 DEF ProbeInv, RadioTyped, Event

LEMMA IrqProcessStep ==
  ASSUME ProbeInv, IrqProcess
  PROVE  ProbeInv'
<1>1. /\ RadioTyped' /\ Len(msgq') <= QueueSize
      /\ \A i \in 1..Len(msgq') : msgq'[i].now = TRUE /\ msgq'[i].type \in irq
  <2>1. PICK order \in SetToSeqs(irq) : msgq' = Notified(msgq, order)
    BY DEF IrqProcess
  <2>2. irq' = irq \ irq /\ role' = role /\ pc = "process"
    BY DEF IrqProcess
  <2> QED
    BY <2>1, <2>2, ProcessedTyped
<1>2. TypeOK'
  BY <1>1 DEF ProbeInv, TypeOK, IrqProcess, sweepVars
<1>3. packet' = IF "RX_DONE" \in irq THEN "read" ELSE packet
  BY DEF IrqProcess
<1>4. PacketIsOfQueue'
  BY <1>1, <1>3 DEF PacketIsOfQueue, PacketIsOf
<1>5. AskedWhenEmpty' /\ PayloadIsOfItsEvent'
  BY DEF AskedWhenEmpty, PayloadIsOfItsEvent, IrqProcess
<1> QED
  BY <1>1, <1>2, <1>4, <1>5 DEF ProbeInv, IrqProcess

LEMMA IrqProcessFailsStep ==
  ASSUME ProbeInv, IrqProcessFails
  PROVE  ProbeInv'
<1>1. PICK done \in SUBSET irq : \E order \in SetToSeqs(done) :
        /\ msgq' = Notified(msgq, order)
        /\ irq' = irq \ done
        /\ packet' = IF "RX_DONE" \in done THEN "read" ELSE packet
  BY DEF IrqProcessFails
<1>2. RadioTyped' /\ Len(msgq') <= QueueSize
  <2>1. PICK order \in SetToSeqs(done) : msgq' = Notified(msgq, order)
    BY <1>1
  <2>2. irq' = irq \ done /\ role' = role /\ pc = "process"
    BY <1>1 DEF IrqProcessFails
  <2> QED
    BY <2>1, <2>2, ProcessedTyped
<1>3. TypeOK'
  BY <1>1, <1>2 DEF ProbeInv, TypeOK, IrqProcessFails, sweepVars
<1>4. AskedWhenEmpty' /\ PacketIsOfQueue' /\ PayloadIsOfItsEvent'
  BY DEF AskedWhenEmpty, PacketIsOfQueue, PayloadIsOfItsEvent, IrqProcessFails, NoEvent
<1> QED
  BY <1>2, <1>3, <1>4 DEF ProbeInv, IrqProcessFails

LEMMA SampleRssiStep ==
  ASSUME ProbeInv, SampleRssi
  PROVE  ProbeInv'
<1>1. SumOfSamples(stats')
  BY SampleCounted DEF ProbeInv, SampleRssi
<1>2. TypeOK'
  BY DEF ProbeInv, TypeOK, SampleRssi, radioVars, sweepVars
<1>3. RadioTyped'
  BY DEF ProbeInv, RadioTyped, SampleRssi, radioVars, Event
<1>4. AskedWhenEmpty' /\ PacketIsOfQueue' /\ PayloadIsOfItsEvent'
  BY PayloadKept DEF SampleRssi, QueueIsEmpty
<1> QED
  BY <1>1, <1>2, <1>3, <1>4 DEF ProbeInv

LEMMA BeginWindowStep ==
  ASSUME ProbeInv, BeginWindow
  PROVE  ProbeInv'
<1>1. windows \in Nat
  BY ConstantTypes DEF ProbeInv, TypeOK
<1>2. windows' \in 0..(WindowWrap - 1)
  BY <1>1, CountersWrap DEF BeginWindow
<1> DEFINE i == (windows' - 1) % WindowWrap
<1>3. i \in Int
  <2>1. windows' - 1 \in Int
    BY <1>2, ConstantTypes
  <2>2. i \in 0..(WindowWrap - 1)
    BY <2>1, RemainderInRange, ConstantTypes
  <2> QED
    BY <2>2
<1>4. offset' = SweepStart + (i % FreqSteps) * SweepStep /\ trim' = i % (TrimMax + 1)
  BY DEF BeginWindow
<1> HIDE DEF i
<1>5. offset' \in SweepStart..SweepStop
  BY <1>3, <1>4, OffsetInSweep
<1>6. trim' \in 0..TrimMax
  <2>1. TrimMax + 1 \in Nat \ {0} /\ (TrimMax + 1) - 1 = TrimMax
    BY ConstantTypes
  <2>2. i % (TrimMax + 1) \in 0..((TrimMax + 1) - 1)
    BY <1>3, <2>1, RemainderInRange
  <2> QED
    BY <1>4, <2>1, <2>2
<1>10. /\ msgq' \in Seq(Event) /\ Len(msgq') = Len(msgq)
       /\ \A j \in 1..Len(msgq') : msgq'[j].now = FALSE
  BY AgedTyped DEF ProbeInv, RadioTyped, Event, BeginWindow
<1>7. TypeOK'
  BY <1>2, <1>5, <1>6, <1>10 DEF ProbeInv, TypeOK, BeginWindow, radioVars, PacketCleared
<1>8. RadioTyped'
  BY <1>10 DEF ProbeInv, RadioTyped, BeginWindow, radioVars, Event
<1>9. SumOfSamples(stats')
  BY ResetOfSamples DEF ProbeInv, BeginWindow
<1>11. PacketIsOfQueue'
  BY <1>10 DEF PacketIsOfQueue, PacketIsOf, BeginWindow, PacketCleared
<1>12. AskedWhenEmpty' /\ PayloadIsOfItsEvent'
  BY DEF AskedWhenEmpty, PayloadIsOfItsEvent, BeginWindow
<1> QED
  BY <1>7, <1>8, <1>9, <1>11, <1>12 DEF ProbeInv

LEMMA BeginFrameStep ==
  ASSUME ProbeInv, BeginFrame
  PROVE  ProbeInv'
<1>1. seq \in Int
  BY ConstantTypes DEF ProbeInv, TypeOK
<1>2. seq' \in 0..(SeqWrap - 1)
  BY <1>1, CountersWrap DEF BeginFrame
<1>5. msgq' \in Seq(Event) /\ Len(msgq') = Len(msgq)
  BY AgedTyped DEF ProbeInv, RadioTyped, Event, BeginFrame
<1>3. TypeOK'
  BY <1>2, <1>5 DEF ProbeInv, TypeOK, BeginFrame, radioVars, sweepVars
<1>4. RadioTyped'
  BY <1>5 DEF ProbeInv, RadioTyped, BeginFrame, radioVars, Event
<1>6. AskedWhenEmpty' /\ PacketIsOfQueue' /\ PayloadIsOfItsEvent'
  BY DEF AskedWhenEmpty, PacketIsOfQueue, PayloadIsOfItsEvent, BeginFrame
<1> QED
  BY <1>3, <1>4, <1>6 DEF ProbeInv, BeginFrame

LEMMA TakeSemStep ==
  ASSUME ProbeInv, TakeSem
  PROVE  ProbeInv'
<1>1. left' \in 0..Turns
  BY ConstantTypes DEF ProbeInv, TypeOK, TakeSem, Greater
<1>2. TypeOK'
  BY <1>1 DEF ProbeInv, TypeOK, TakeSem, sweepVars
<1>3. RadioTyped'
  BY DEF ProbeInv, RadioTyped, TakeSem, Event
<1>4. AskedWhenEmpty' /\ PacketIsOfQueue' /\ PayloadIsOfItsEvent'
  BY PayloadKept DEF TakeSem, ProbeInv, AskedWhenEmpty
<1> QED
  BY <1>2, <1>3, <1>4 DEF ProbeInv, TakeSem

\* The steps that touch neither the queue nor the counters.
LEMMA RadioStep ==
  ASSUME ProbeInv,
         WaitTimesOut \/ Configure \/ Start \/ StartFails \/ Report
  PROVE  ProbeInv'
<1>1. TypeOK'
  <2>1. Turns \in 0..Turns
    BY ConstantTypes
  <2>2. CASE WaitTimesOut \/ Configure
    BY <2>2 DEF ProbeInv, TypeOK, WaitTimesOut, Configure, radioVars, sweepVars
  <2>3. CASE Start
    BY <2>1, <2>3 DEF ProbeInv, TypeOK, Start, sweepVars
  <2>4. CASE StartFails
    BY <2>4 DEF ProbeInv, TypeOK, StartFails, AfterStandby, sweepVars
  <2>5. CASE Report
    BY <2>5 DEF ProbeInv, TypeOK, Report, AfterStandby, sweepVars
  <2> QED
    BY <2>2, <2>3, <2>4, <2>5
<1>2. RadioTyped'
  BY DEF ProbeInv, RadioTyped, WaitTimesOut, Configure, Start, StartFails, Report, radioVars,
     sweepVars, Event
<1>3. AskedWhenEmpty' /\ PacketIsOfQueue' /\ PayloadIsOfItsEvent'
  <2>1. CASE WaitTimesOut
    BY <2>1, PayloadKept DEF WaitTimesOut, NoEvent
  <2>2. CASE Configure
    BY <2>2, PayloadKept DEF Configure
  <2>3. CASE Start \/ StartFails \/ Report
    BY <2>3, PayloadKept DEF Start, StartFails, Report
  <2> QED
    BY <2>1, <2>2, <2>3
<1>4. SumOfSamples(stats')
  BY DEF ProbeInv, WaitTimesOut, Configure, Start, StartFails, Report
<1> QED
  BY <1>1, <1>2, <1>3, <1>4 DEF ProbeInv

LEMMA ProbeInvStep == ProbeInv /\ [Next]_vars => ProbeInv'
<1> SUFFICES ASSUME ProbeInv, [Next]_vars
             PROVE  ProbeInv'
  OBVIOUS
<1>1. CASE Interrupt
  BY <1>1, InterruptStep
<1>2. CASE Thread
  BY <1>2, TakeEventStep, IrqProcessStep, IrqProcessFailsStep, SampleRssiStep,
     BeginWindowStep, BeginFrameStep, TakeSemStep, RadioStep DEF Thread
<1>3. CASE UNCHANGED vars
  BY <1>3 DEF ProbeInv, TypeOK, RadioTyped, Event, AskedWhenEmpty, PacketIsOfQueue, PacketIsOf,
     PayloadIsOfItsEvent, vars
<1> QED
  BY <1>1, <1>2, <1>3 DEF Next

LEMMA ProbeInvHolds == Spec => []ProbeInv
BY InitProbeInv, ProbeInvStep, PTL DEF Spec

-----------------------------------------------------------------------------
\* The queue is never longer than it is, whatever comes between two windows;
\* the sweeps stay within their range, also when the number of windows wraps
\* (radio_event_notify, run_rx).
THEOREM ProbeTypeCorrect == Spec => []TypeOK
<1>1. ProbeInv => TypeOK
  BY DEF ProbeInv
<1> QED
  BY <1>1, ProbeInvHolds, PTL

\* The average that is logged lies between the smallest and the largest sample
\* of its window, for samples of either sign: C's division rounds towards zero,
\* and does not leave the range (log_rssi_stats).
THEOREM AverageIsAlwaysOfSamples == Spec => []AverageIsOfSamples
<1>1. ProbeInv => AverageIsOfSamples
  BY AverageOfSum DEF ProbeInv
<1> QED
  BY <1>1, ProbeInvHolds, PTL

\* A reception is reported with the packet that was read for it, and one that an
\* earlier window left on the queue without any, however many were left (run_rx,
\* wait_radio_event, radio_event_notify).
THEOREM PayloadIsAlwaysOfItsEvent == Spec => []PayloadIsOfItsEvent
<1>1. ProbeInv => PayloadIsOfItsEvent
  BY DEF ProbeInv
<1> QED
  BY <1>1, ProbeInvHolds, PTL

\* The queue never drops an event as long as it has a place for each thing the
\* radio may report at once, though a window takes one of them only: the wait
\* looks at the queue before it asks the radio again (wait_radio_event).
THEOREM NoEventIsEverDropped ==
  ASSUME \A r \in Roles : IsFiniteSet(Interrupts[r]) /\ Cardinality(Interrupts[r]) <= QueueSize
  PROVE  Spec => []NoEventIsDropped
<1>1. ProbeInv => NoEventIsDropped
  <2> SUFFICES ASSUME ProbeInv, pc = "process"
               PROVE  Len(msgq) + Cardinality(irq) <= QueueSize
    BY DEF NoEventIsDropped
  <2>1. Len(msgq) = 0
    BY DEF ProbeInv, AskedWhenEmpty
  <2>2. /\ IsFiniteSet(Interrupts[role]) /\ Cardinality(Interrupts[role]) <= QueueSize
        /\ irq \subseteq Interrupts[role]
    BY DEF ProbeInv, RadioTyped
  <2>3. /\ Cardinality(irq) <= Cardinality(Interrupts[role])
        /\ Cardinality(irq) \in Nat /\ Cardinality(Interrupts[role]) \in Nat
    BY <2>2, FS_Subset, FS_CardinalityType
  <2> QED
    BY <2>1, <2>2, <2>3, ConstantTypes
<1> QED
  BY <1>1, ProbeInvHolds, PTL
=============================================================================
