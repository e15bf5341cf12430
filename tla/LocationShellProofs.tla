-------------------------- MODULE LocationShellProofs --------------------------
(* Theorems about the location shell (LocationShell), for any number of       *)
(* shells, any queue size and any command lines.                              *)
EXTENDS LocationShell, FiniteSetTheorems, SequenceTheorems, TLAPS

Line == Seq([opt : STRING, val : Int])
Params == [ConfigOpts -> Int] \cup [SetOpts -> Int]

DultEvents     == [kind : {"config", "set"}, line : Line, reset : BOOLEAN, params : Params]
LocationEvents == [kind : {"location"}, run : Runs]
Event          == {Plain} \cup LocationEvents \cup DultEvents

\* An option's value has been let through, or was not given.
ParamsOK(kind, params) ==
  /\ params \in [Options(kind) -> Int]
  /\ \A opt \in Options(kind) : params[opt] = 0 \/ params[opt] \in Low(opt)..High(opt)

\* The places of an option among the first n of a line.
Upto(line, opt, n) == {i \in 1..n : line[i].opt = opt}

\* What a context holds when the first n options of its line have been parsed.
ParsedUpto(kind, line, n, params) ==
  /\ ParamsOK(kind, params)
  /\ Upto(line, "reset", n) = {}
  /\ \A opt \in Options(kind) :
       params[opt] = IF Upto(line, opt, n) = {} THEN 0 ELSE line[Max(Upto(line, opt, n))].val

\* A context that is sent holds what its whole line gives, or a reset of it.
EventOK(event) ==
  event \in DultEvents =>
    /\ ParamsOK(event.kind, event.params)
    /\ event.reset => Given(event.line, "reset") # {}
    /\ ~event.reset => ParsedUpto(event.kind, event.line, Len(event.line), event.params)

ShellOK(w) ==
  /\ w.doing \in {"idle", "parse", "send", "free"}
  /\ w.doing = "parse" =>
       /\ w.kind \in {"config", "set"} /\ w.line \in Line /\ w.at \in 1..(Len(w.line) + 1)
       /\ ParsedUpto(w.kind, w.line, w.at - 1, w.params)
  /\ w.doing = "send" => w.event \in Event /\ EventOK(w.event)

\* A value `now' is written by the events of W, each with its value in v: when
\* none is queued it is the last that was asked for, and otherwise the last one
\* queued writes that.
Follows(q, W, v, now, last) ==
  /\ (\A i \in 1..Len(q) : q[i] \notin W) => now = last
  /\ \A i \in 1..Len(q) :
       q[i] \in W /\ (\A j \in (i + 1)..Len(q) : q[j] \notin W) => last = v[q[i]]

\* The events that write an option of Names, and what each writes.
Sayers(opt) == {e \in DultEvents : e.kind = "config" /\ (e.reset \/ e.params[opt] > 0)}
Said(opt) ==
  [e \in Sayers(opt) |-> IF e.reset THEN Defaults[opt] ELSE Stored(opt, e.params[opt])]
RunOf == [e \in LocationEvents |-> e.run]

ShellsOK == shell = [s \in Shells |-> shell[s]] /\ \A s \in Shells : ShellOK(shell[s])
QueueOK  == queue \in Seq(Event) /\ \A i \in 1..Len(queue) : EventOK(queue[i])
NamesFollow ==
  \A opt \in Names : Follows(queue, Sayers(opt), Said(opt), conf[opt], Stored(opt, asked[opt]))
RunFollows == Follows(queue, LocationEvents, RunOf, ran, askedRun)

LocationInv ==
  /\ ShellsOK /\ QueueOK
  /\ conf \in [Kept -> Int] /\ asked \in [Kept -> Int]
  /\ TypeOK /\ ContextsHaveOneOwner
  /\ NamesFollow /\ RunFollows

-----------------------------------------------------------------------------
\* The options.

LEMMA OptionRanges ==
  \A opt \in ConfigOpts \cup SetOpts :
    /\ Low(opt) \in {0, 1} /\ High(opt) \in Nat /\ 1 <= High(opt)
    /\ opt \notin Names => Low(opt) = 0
    /\ opt \in TextOpts => Low(opt) = 0 /\ Place(opt) \in Nat \ {0} /\ High(opt) <= Place(opt)
BY DEF ConfigOpts, SetOpts, TextOpts, NumberOpts, Names, Low, High, Place

LEMMA OptionSets ==
  /\ TextOpts \subseteq Names /\ Names \subseteq ConfigOpts /\ ConfigOpts \subseteq Kept
  /\ Kept \ {"ident_size"} \subseteq ConfigOpts \cup SetOpts
  /\ "ident" \in TextOpts /\ "ident_size" \in Kept \ (ConfigOpts \cup SetOpts)
  /\ SetOpts \cap Names = {} /\ "reset" \notin ConfigOpts \cup SetOpts
BY DEF ConfigOpts, SetOpts, TextOpts, NumberOpts, Names, Kept

LEMMA DefaultsType ==
  /\ Defaults \in [Kept -> Int]
  /\ \A opt \in TextOpts : Defaults[opt] \in 0..(Place(opt) - 1)
  /\ \A opt \in Kept \ {"ident_size"} : Defaults[opt] \in Low(opt)..High(opt)
  /\ Defaults["ident_size"] = 0 /\ Defaults["ident"] = 0
<1>1. Defaults \in [Kept -> Int]
  BY DEF Defaults
<1>2. \A opt \in TextOpts : Defaults[opt] \in 0..(Place(opt) - 1)
  BY DEF Defaults, Kept, ConfigOpts, TextOpts, Place
<1>3. \A opt \in Kept \ {"ident_size"} : Defaults[opt] \in Low(opt)..High(opt)
  BY DEF Defaults, Kept, ConfigOpts, TextOpts, NumberOpts, Low, High
<1>4. Defaults["ident_size"] = 0 /\ Defaults["ident"] = 0
  BY DEF Defaults, Kept, ConfigOpts, TextOpts, NumberOpts
<1> QED
  BY <1>1, <1>2, <1>3, <1>4

\* What is stored of a value that was let through fits its place.
LEMMA StoredFits ==
  ASSUME NEW opt \in ConfigOpts \cup SetOpts, NEW val \in Low(opt)..High(opt)
  PROVE  /\ Stored(opt, val) \in Low(opt)..High(opt)
         /\ opt \in TextOpts => Stored(opt, val) \in 0..(Place(opt) - 1)
         /\ opt \in TextOpts => Stored(opt, val) <= val
<1>1. /\ Low(opt) \in {0, 1} /\ High(opt) \in Nat /\ val \in Int
      /\ opt \in TextOpts => Low(opt) = 0 /\ Place(opt) \in Nat \ {0} /\ High(opt) <= Place(opt)
  BY OptionRanges
<1>2. CASE opt \notin TextOpts
  BY <1>2 DEF Stored
<1>3. CASE opt \in TextOpts
  BY <1>1, <1>3 DEF Stored
<1> QED
  BY <1>2, <1>3

LEMMA StoredDefault ==
  \A opt \in Names : Stored(opt, Defaults[opt]) = Defaults[opt]
<1> TAKE opt \in Names
<1>1. CASE opt \in TextOpts
  <2>1. Defaults[opt] \in 0..(Place(opt) - 1) /\ Place(opt) \in Nat
    BY <1>1, DefaultsType, OptionRanges, OptionSets
  <2> QED
    BY <2>1 DEF Stored
<1>2. CASE opt \notin TextOpts
  BY <1>2 DEF Stored
<1> QED
  BY <1>1, <1>2

-----------------------------------------------------------------------------
\* Parsing a line.

\* The next option is the last one of its name so far.
LEMMA NextIsLast ==
  ASSUME NEW line, NEW n \in Nat, NEW opt, line[n + 1].opt = opt
  PROVE  Upto(line, opt, n + 1) # {} /\ Max(Upto(line, opt, n + 1)) = n + 1
<1> DEFINE S == Upto(line, opt, n + 1)
<1>1. n + 1 \in S /\ S \subseteq 1..(n + 1)
  BY DEF Upto
<1>2. \A y \in S : n + 1 >= y
  BY <1>1
<1>3. \A x \in S : (\A y \in S : x >= y) => x = n + 1
  BY <1>1
<1> HIDE DEF S
<1>4. Max(S) = n + 1
  BY <1>1, <1>2, <1>3 DEF Max
<1> QED
  BY <1>1, <1>4 DEF S

LEMMA OthersStay ==
  ASSUME NEW line, NEW n \in Nat, NEW opt, line[n + 1].opt # opt
  PROVE  Upto(line, opt, n + 1) = Upto(line, opt, n)
BY DEF Upto

LEMMA LineArg ==
  ASSUME NEW line \in Line, NEW n \in 1..Len(line)
  PROVE  line[n].opt \in STRING /\ line[n].val \in Int
<1>1. line[n] \in [opt : STRING, val : Int]
  BY ElementOfSeq DEF Line
<1> QED
  BY <1>1

\* Nothing is parsed before the first option.
LEMMA NothingParsed ==
  ASSUME NEW kind \in {"config", "set"}, NEW line \in Line
  PROVE  ParsedUpto(kind, line, 0, [opt \in Options(kind) |-> 0])
BY DEF ParsedUpto, ParamsOK, Upto

LEMMA UnknownParsed ==
  ASSUME NEW kind, NEW line, NEW n \in Nat, NEW params, ParsedUpto(kind, line, n, params),
         line[n + 1].opt \notin Options(kind) \cup {"reset"}
  PROVE  ParsedUpto(kind, line, n + 1, params)
<1>1. \A opt \in Options(kind) \cup {"reset"} : Upto(line, opt, n + 1) = Upto(line, opt, n)
  BY OthersStay
<1> QED
  BY <1>1 DEF ParsedUpto

LEMMA ValueParsed ==
  ASSUME NEW kind \in {"config", "set"}, NEW line, NEW n \in Nat, NEW params,
         ParsedUpto(kind, line, n, params),
         NEW opt \in Options(kind), line[n + 1].opt = opt,
         line[n + 1].val \in Low(opt)..High(opt)
  PROVE  ParsedUpto(kind, line, n + 1, [params EXCEPT ![opt] = line[n + 1].val])
<1> DEFINE val == line[n + 1].val
           new == [params EXCEPT ![opt] = val]
<1>1. opt \in ConfigOpts \cup SetOpts /\ "reset" # opt
  BY OptionSets DEF Options
<1>2. val \in Int
  BY <1>1, OptionRanges
<1>3. params \in [Options(kind) -> Int]
  BY DEF ParsedUpto, ParamsOK
<1>4. /\ new \in [Options(kind) -> Int] /\ new[opt] = val
      /\ \A o \in Options(kind) : o # opt => new[o] = params[o]
  BY <1>2, <1>3
<1>5. \A o : o # opt => Upto(line, o, n + 1) = Upto(line, o, n)
  BY OthersStay
<1>6. Upto(line, opt, n + 1) # {} /\ Max(Upto(line, opt, n + 1)) = n + 1
  BY NextIsLast
<1> HIDE DEF new
<1>7. ParamsOK(kind, new)
  BY <1>4 DEF ParsedUpto, ParamsOK
<1>8. Upto(line, "reset", n + 1) = {}
  BY <1>1, <1>5 DEF ParsedUpto
<1>9. ASSUME NEW o \in Options(kind)
      PROVE  new[o] = IF Upto(line, o, n + 1) = {} THEN 0
                      ELSE line[Max(Upto(line, o, n + 1))].val
  <2>1. CASE o = opt
    BY <1>4, <1>6, <2>1
  <2>2. CASE o # opt
    BY <1>4, <1>5, <2>2 DEF ParsedUpto
  <2> QED
    BY <2>1, <2>2
<1>10. ParsedUpto(kind, line, n + 1, new)
  BY <1>7, <1>8, <1>9 DEF ParsedUpto
<1> QED
  BY <1>10 DEF new

\* What a context holds at the end is what its line gives.
LEMMA UptoIsGiven ==
  \A line, opt : Upto(line, opt, Len(line)) = Given(line, opt)
BY DEF Upto, Given

-----------------------------------------------------------------------------
\* The queue.

LEMMA QueueAppended ==
  ASSUME NEW q \in Seq(Event), NEW e \in Event
  PROVE  /\ Append(q, e) \in Seq(Event) /\ Len(Append(q, e)) = Len(q) + 1
         /\ \A i \in 1..Len(q) : Append(q, e)[i] = q[i]
         /\ Append(q, e)[Len(q) + 1] = e
  OBVIOUS

LEMMA QueueTaken ==
  ASSUME NEW q \in Seq(Event), q # <<>>
  PROVE  /\ Tail(q) \in Seq(Event) /\ Len(Tail(q)) = Len(q) - 1 /\ Len(q) \in Nat \ {0}
         /\ Head(q) = q[1] /\ Head(q) \in Event
         /\ \A i \in 1..Len(Tail(q)) : Tail(q)[i] = q[i + 1]
  OBVIOUS

\* A queued event that writes the value is the last that was asked for.
LEMMA FollowsAppended ==
  ASSUME NEW q \in Seq(Event), NEW e \in Event, NEW W, NEW v, NEW now, NEW last, NEW next,
         Follows(q, W, v, now, last),
         e \in W => next = v[e],
         e \notin W => next = last
  PROVE  Follows(Append(q, e), W, v, now, next)
<1> DEFINE r == Append(q, e)
<1>1. /\ Len(q) \in Nat /\ Len(r) = Len(q) + 1 /\ r[Len(q) + 1] = e
      /\ \A i \in 1..Len(q) : r[i] = q[i]
  BY QueueAppended
<1> HIDE DEF r
<1>2. CASE e \in W
  <2>1. Len(r) \in 1..Len(r) /\ r[Len(r)] \in W
    BY <1>1, <1>2
  <2>2. ASSUME NEW i \in 1..Len(r), \A j \in (i + 1)..Len(r) : r[j] \notin W
        PROVE  i = Len(r)
    BY <1>1, <2>1, <2>2
  <2> QED
    BY <1>1, <1>2, <2>1, <2>2 DEF Follows, r
<1>3. CASE e \notin W
  <2>1. (\A i \in 1..Len(r) : r[i] \notin W) => now = next
    BY <1>1, <1>3 DEF Follows
  <2>2. ASSUME NEW i \in 1..Len(r), r[i] \in W, \A j \in (i + 1)..Len(r) : r[j] \notin W
        PROVE  next = v[r[i]]
    <3>1. i \in 1..Len(q)
      BY <1>1, <1>3, <2>2
    <3>2. \A j \in (i + 1)..Len(q) : q[j] \notin W
      BY <1>1, <2>2, <3>1
    <3> QED
      BY <1>1, <1>3, <2>2, <3>1, <3>2 DEF Follows
  <2> QED
    BY <2>1, <2>2 DEF Follows, r
<1> QED
  BY <1>2, <1>3

\* The event that is handled writes its value.
LEMMA FollowsTaken ==
  ASSUME NEW q \in Seq(Event), q # <<>>, NEW W, NEW v, NEW now, NEW next, NEW last,
         Follows(q, W, v, now, last),
         Head(q) \in W => next = v[Head(q)],
         Head(q) \notin W => next = now
  PROVE  Follows(Tail(q), W, v, next, last)
<1> DEFINE r == Tail(q)
<1>1. /\ Len(q) \in Nat \ {0} /\ Len(r) = Len(q) - 1 /\ Head(q) = q[1]
      /\ \A i \in 1..Len(r) : r[i] = q[i + 1]
  BY QueueTaken
<1> HIDE DEF r
<1>2. ASSUME \A i \in 1..Len(r) : r[i] \notin W
      PROVE  next = last
  <2>1. \A j \in 2..Len(q) : q[j] \notin W
    <3> TAKE j \in 2..Len(q)
    <3>1. j - 1 \in 1..Len(r) /\ r[j - 1] = q[(j - 1) + 1] /\ (j - 1) + 1 = j
      BY <1>1
    <3> QED
      BY <1>2, <3>1
  <2>2. CASE Head(q) \in W
    <3>1. 1 \in 1..Len(q) /\ q[1] \in W /\ \A j \in (1 + 1)..Len(q) : q[j] \notin W
      BY <1>1, <2>1, <2>2
    <3>2. last = v[q[1]]
      BY <3>1 DEF Follows
    <3> QED
      BY <1>1, <2>2, <3>2
  <2>3. CASE Head(q) \notin W
    <3>1. \A i \in 1..Len(q) : q[i] \notin W
      BY <1>1, <2>1, <2>3
    <3> QED
      BY <2>3, <3>1 DEF Follows
  <2> QED
    BY <2>2, <2>3
<1>3. ASSUME NEW i \in 1..Len(r), r[i] \in W, \A j \in (i + 1)..Len(r) : r[j] \notin W
      PROVE  last = v[r[i]]
  <2>1. i + 1 \in 1..Len(q) /\ q[i + 1] = r[i]
    BY <1>1
  <2>2. \A j \in ((i + 1) + 1)..Len(q) : q[j] \notin W
    <3> TAKE j \in ((i + 1) + 1)..Len(q)
    <3>1. j - 1 \in (i + 1)..Len(r) /\ j - 1 \in 1..Len(r) /\ (j - 1) + 1 = j
      BY <1>1
    <3> QED
      BY <1>1, <1>3, <3>1
  <2> QED
    BY <1>3, <2>1, <2>2 DEF Follows
<1> QED
  BY <1>2, <1>3 DEF Follows, r

-----------------------------------------------------------------------------
\* The contexts.

LEMMA PlainIsNoOther ==
  /\ ~HasContext(Plain) /\ Plain \in Event
  /\ Plain \notin DultEvents /\ Plain \notin LocationEvents
  /\ \A e \in LocationEvents : HasContext(e) /\ e \in Event /\ e \notin DultEvents
  /\ \A e \in DultEvents : HasContext(e) /\ e \in Event /\ e \notin LocationEvents
BY DEF Plain, HasContext, Event, DultEvents, LocationEvents

\* The places of the queue that own a context, when an event is put and taken.
LEMMA OwnedFinite ==
  ASSUME NEW q \in Seq(Event)
  PROVE  IsFiniteSet(Owned(q)) /\ Cardinality(Owned(q)) \in Nat
<1>1. Len(q) \in Nat
  OBVIOUS
<1>2. IsFiniteSet(1..Len(q))
  BY <1>1, FS_Interval
<1>3. Owned(q) \in SUBSET (1..Len(q))
  BY DEF Owned
<1>4. IsFiniteSet(Owned(q))
  BY <1>2, <1>3, FS_Subset
<1> QED
  BY <1>4, FS_CardinalityType

LEMMA OwnedAppended ==
  ASSUME NEW q \in Seq(Event), NEW e \in Event
  PROVE  Cardinality(Owned(Append(q, e))) =
         IF HasContext(e) THEN Cardinality(Owned(q)) + 1 ELSE Cardinality(Owned(q))
<1> DEFINE r == Append(q, e)
           n == Len(q) + 1
<1>1. /\ Len(q) \in Nat /\ Len(r) = n /\ r[n] = e
      /\ \A i \in 1..Len(q) : r[i] = q[i]
  BY QueueAppended
<1>2. n \notin Owned(q) /\ IsFiniteSet(Owned(q))
  BY <1>1, OwnedFinite DEF Owned
<1> HIDE DEF r
<1>3. CASE HasContext(e)
  <2>1. Owned(r) = Owned(q) \cup {n}
    BY <1>1, <1>3 DEF Owned
  <2> QED
    BY <1>2, <1>3, <2>1, FS_AddElement DEF r
<1>4. CASE ~HasContext(e)
  <2>1. Owned(r) = Owned(q)
    BY <1>1, <1>4 DEF Owned
  <2> QED
    BY <1>4, <2>1 DEF r
<1> QED
  BY <1>3, <1>4

LEMMA OwnedTaken ==
  ASSUME NEW q \in Seq(Event), q # <<>>
  PROVE  Cardinality(Owned(Tail(q))) =
         IF HasContext(Head(q)) THEN Cardinality(Owned(q)) - 1 ELSE Cardinality(Owned(q))
<1> DEFINE r == Tail(q)
           S == Owned(r)
           T == Owned(q) \ {1}
           f == [i \in S |-> i + 1]
<1>1. /\ Len(q) \in Nat \ {0} /\ Len(r) = Len(q) - 1 /\ Head(q) = q[1] /\ r \in Seq(Event)
      /\ \A i \in 1..Len(r) : r[i] = q[i + 1]
  BY QueueTaken
<1> HIDE DEF r
<1>2. \A i \in S : i \in 1..Len(r) /\ i + 1 \in T
  BY <1>1 DEF Owned
<1>3. \A j \in T : j - 1 \in S /\ (j - 1) + 1 = j
  <2> TAKE j \in T
  <2>1. j \in 2..Len(q) /\ HasContext(q[j])
    BY <1>1 DEF Owned
  <2>2. j - 1 \in 1..Len(r) /\ (j - 1) + 1 = j
    BY <1>1, <2>1
  <2>3. r[j - 1] = q[j]
    BY <1>1, <2>2
  <2> QED
    BY <2>1, <2>2, <2>3 DEF Owned
<1>4. f \in Bijection(S, T)
  <2>1. f \in [S -> T]
    BY <1>2
  <2>2. \A a, b \in S : f[a] = f[b] => a = b
    BY <1>2
  <2>3. \A j \in T : \E i \in S : f[i] = j
    BY <1>3
  <2> HIDE DEF f, S, T
  <2> QED
    BY <2>1, <2>2, <2>3 DEF Bijection, Injection, IsInjective, Surjection
<1>5. ExistsBijection(S, T)
  BY <1>4 DEF ExistsBijection
<1>6. IsFiniteSet(S) /\ IsFiniteSet(Owned(q))
  BY <1>1, OwnedFinite
<1>7. Cardinality(T) = Cardinality(S)
  BY <1>5, <1>6, FS_Bijection
<1>8. Cardinality(T) = IF 1 \in Owned(q) THEN Cardinality(Owned(q)) - 1 ELSE Cardinality(Owned(q))
  BY <1>6, FS_RemoveElement
<1>9. 1 \in Owned(q) <=> HasContext(Head(q))
  BY <1>1 DEF Owned
<1> QED
  BY <1>7, <1>8, <1>9 DEF r

LEMMA OwnersFinite == IsFiniteSet(Owners) /\ Cardinality(Owners) \in Nat
<1>1. IsFiniteSet(Shells) /\ Owners \in SUBSET Shells
  BY LocationAssumption DEF Owners
<1>2. IsFiniteSet(Owners)
  BY <1>1, FS_Subset
<1> QED
  BY <1>2, FS_CardinalityType

\* A shell owns a context.
Owns(w) ==
  \/ w.doing \in {"parse", "free"}
  \/ w.doing = "send" /\ HasContext(w.event)

\* A step of one shell changes whether that shell owns a context, and no more.
LEMMA OwnersStep ==
  ASSUME ShellsOK, NEW s \in Shells, NEW w, shell' = [shell EXCEPT ![s] = w]
  PROVE  /\ Owns(w) /\ ~Owns(shell[s]) => Cardinality(Owners') = Cardinality(Owners) + 1
         /\ ~Owns(w) /\ Owns(shell[s]) => Cardinality(Owners') = Cardinality(Owners) - 1
         /\ (Owns(w) <=> Owns(shell[s])) => Cardinality(Owners') = Cardinality(Owners)
<1>1. shell'[s] = w /\ \A t \in Shells : t # s => shell'[t] = shell[t]
  BY DEF ShellsOK
<1>2. /\ Owners \subseteq Shells /\ Owners' \subseteq Shells
      /\ \A t \in Shells : (t \in Owners <=> Owns(shell[t])) /\ (t \in Owners' <=> Owns(shell'[t]))
  BY DEF Owners, Owns
<1>3. IsFiniteSet(Owners)
  BY OwnersFinite
<1>4. Owns(w) /\ ~Owns(shell[s]) => Owners' = Owners \cup {s} /\ s \notin Owners
  BY <1>1, <1>2
<1>5. ~Owns(w) /\ Owns(shell[s]) => Owners' = Owners \ {s} /\ s \in Owners
  BY <1>1, <1>2
<1>6. (Owns(w) <=> Owns(shell[s])) => Owners' = Owners
  BY <1>1, <1>2
<1> QED
  BY <1>3, <1>4, <1>5, <1>6, FS_AddElement, FS_RemoveElement

-----------------------------------------------------------------------------
\* The steps of a shell.

LEMMA ShellStates ==
  /\ ShellOK(Idle) /\ ~Owns(Idle) /\ ShellOK(Freeing) /\ Owns(Freeing)
  /\ \A kind, line, at, params : Owns(Parsing(kind, line, at, params))
  /\ \A event : Owns(Sending(event)) <=> HasContext(event)
  /\ \A event \in Event : EventOK(event) => ShellOK(Sending(event))
BY DEF Idle, Freeing, Parsing, Sending, ShellOK, Owns

LEMMA ParsingOK ==
  ASSUME NEW kind \in {"config", "set"}, NEW line \in Line, NEW at \in 1..(Len(line) + 1),
         NEW params, ParsedUpto(kind, line, at - 1, params)
  PROVE  ShellOK(Parsing(kind, line, at, params))
BY DEF ShellOK, Parsing

\* A step of a shell that neither takes from nor adds to the queue: the live
\* contexts follow what the shell owns.
LEMMA ShellStep ==
  ASSUME LocationInv, NEW s \in Shells, NEW w, ShellOK(w),
         shell' = [shell EXCEPT ![s] = w],
         UNCHANGED <<queue, conf, ran, asked, askedRun>>,
         \/ Owns(w) /\ ~Owns(shell[s]) /\ live' = live + 1
         \/ ~Owns(w) /\ Owns(shell[s]) /\ live' = live - 1
         \/ (Owns(w) <=> Owns(shell[s])) /\ live' = live
  PROVE  LocationInv'
<1>1. ShellsOK'
  BY DEF LocationInv, ShellsOK
<1>2. /\ Cardinality(Owners) \in Nat /\ Cardinality(Owners') \in Nat
      /\ Cardinality(Owned(queue)) \in Nat
  <2>1. IsFiniteSet(Owners') /\ Cardinality(Owners') \in Nat
    <3>1. IsFiniteSet(Shells) /\ Owners' \in SUBSET Shells
      BY LocationAssumption DEF Owners
    <3>2. IsFiniteSet(Owners')
      BY <3>1, FS_Subset
    <3> QED
      BY <3>2, FS_CardinalityType
  <2>2. queue \in Seq(Event)
    BY DEF LocationInv, QueueOK
  <2> QED
    BY <2>1, <2>2, OwnersFinite, OwnedFinite
<1>3. /\ Owns(w) /\ ~Owns(shell[s]) => Cardinality(Owners') = Cardinality(Owners) + 1
      /\ ~Owns(w) /\ Owns(shell[s]) => Cardinality(Owners') = Cardinality(Owners) - 1
      /\ (Owns(w) <=> Owns(shell[s])) => Cardinality(Owners') = Cardinality(Owners)
  BY OwnersStep DEF LocationInv
<1>4. live = Cardinality(Owners) + Cardinality(Owned(queue))
  BY DEF LocationInv, ContextsHaveOneOwner
<1>5. live' = Cardinality(Owners') + Cardinality(Owned(queue)) /\ live' \in Nat
  BY <1>2, <1>3, <1>4
<1>6. ContextsHaveOneOwner'
  BY <1>5 DEF ContextsHaveOneOwner
<1>7. TypeOK'
  BY <1>5 DEF LocationInv, TypeOK
<1>8. QueueOK' /\ NamesFollow' /\ RunFollows'
  BY DEF LocationInv, QueueOK, NamesFollow, RunFollows
<1> QED
  BY <1>1, <1>6, <1>7, <1>8 DEF LocationInv

LEMMA ShellFacts ==
  ASSUME LocationInv, NEW s \in Shells
  PROVE  /\ ShellOK(shell[s])
         /\ shell[s].doing = "idle" => ~Owns(shell[s])
         /\ shell[s].doing \in {"parse", "free"} => Owns(shell[s])
         /\ shell[s].doing = "send" => (Owns(shell[s]) <=> HasContext(shell[s].event))
BY DEF LocationInv, ShellsOK, Owns

LEMMA TypeDultStep ==
  ASSUME LocationInv, NEW s \in Shells, TypeDult(s)
  PROVE  LocationInv'
<1>1. PICK kind \in {"config", "set"} : \E line \in Lines(kind) :
        shell' = [shell EXCEPT ![s] = Parsing(kind, line, 1, [opt \in Options(kind) |-> 0])]
  BY DEF TypeDult
<1>5. PICK line \in Lines(kind) :
        shell' = [shell EXCEPT ![s] = Parsing(kind, line, 1, [opt \in Options(kind) |-> 0])]
  BY <1>1
<1>2. line \in Line
  BY LocationAssumption DEF Lines, Line
<1>3. 1 \in 1..(Len(line) + 1) /\ 1 - 1 = 0
  BY <1>2 DEF Line
<1>4. ShellOK(Parsing(kind, line, 1, [opt \in Options(kind) |-> 0]))
  BY <1>2, <1>3, NothingParsed, ParsingOK
<1> QED
  BY <1>5, <1>4, ShellStep, ShellStates, ShellFacts DEF TypeDult

LEMMA TypeOtherStep ==
  ASSUME LocationInv, NEW s \in Shells, TypeLocation(s) \/ TypePlain(s)
  PROVE  LocationInv'
<1>1. CASE TypeLocation(s)
  <2>1. PICK run \in Runs : shell' = [shell EXCEPT ![s] = Sending([kind |-> "location", run |-> run])]
    BY <1>1 DEF TypeLocation
  <2>2. [kind |-> "location", run |-> run] \in LocationEvents
    BY DEF LocationEvents
  <2> DEFINE e == [kind |-> "location", run |-> run]
  <2> HIDE DEF e
  <2>3. e \in Event /\ EventOK(e) /\ HasContext(e)
    BY <2>2, PlainIsNoOther DEF EventOK, e
  <2> QED
    BY <1>1, <2>1, <2>3, ShellStep, ShellStates, ShellFacts DEF TypeLocation, e
<1>2. CASE TypePlain(s)
  <2>1. EventOK(Plain)
    BY PlainIsNoOther DEF EventOK
  <2> QED
    BY <1>2, <2>1, PlainIsNoOther, ShellStep, ShellStates, ShellFacts DEF TypePlain
<1> QED
  BY <1>1, <1>2

\* What a shell that parses sends is an event that holds what its line gives.
LEMMA DultEventOK ==
  ASSUME NEW w, ShellOK(w), w.doing = "parse", NEW reset \in BOOLEAN,
         reset => Given(w.line, "reset") # {},
         ~reset => w.at = Len(w.line) + 1
  PROVE  /\ DultEvent(w, reset) \in Event /\ EventOK(DultEvent(w, reset))
         /\ HasContext(DultEvent(w, reset))
<1> DEFINE e == DultEvent(w, reset)
<1>1. /\ w.kind \in {"config", "set"} /\ w.line \in Line /\ w.at \in 1..(Len(w.line) + 1)
      /\ ParsedUpto(w.kind, w.line, w.at - 1, w.params)
  BY DEF ShellOK
<1>2. ParamsOK(w.kind, w.params) /\ w.params \in Params
  BY <1>1 DEF ParsedUpto, ParamsOK, Params, Options
<1>3. /\ e.kind = w.kind /\ e.line = w.line /\ e.reset = reset /\ e.params = w.params
      /\ e \in DultEvents
  BY <1>1, <1>2 DEF DultEvent, DultEvents
<1> HIDE DEF e
<1>4. ~reset => ParsedUpto(w.kind, w.line, Len(w.line), w.params)
  <2>1. Len(w.line) \in Nat
    BY <1>1 DEF Line
  <2> QED
    BY <1>1, <2>1
<1>5. EventOK(e)
  BY <1>2, <1>3, <1>4 DEF EventOK
<1> QED
  BY <1>3, <1>5, PlainIsNoOther DEF e

LEMMA ParseOptionStep ==
  ASSUME LocationInv, NEW s \in Shells, ParseOption(s)
  PROVE  LocationInv'
<1> DEFINE w == shell[s]
           arg == w.line[w.at]
           n == w.at - 1
<1>1. /\ w.doing = "parse" /\ w.at <= Len(w.line)
      /\ UNCHANGED <<queue, conf, ran, live, asked, askedRun>>
  BY DEF ParseOption
<1>2. ShellOK(w) /\ Owns(w)
  BY <1>1, ShellFacts
<1>3. /\ w.kind \in {"config", "set"} /\ w.line \in Line /\ w.at \in 1..(Len(w.line) + 1)
      /\ ParsedUpto(w.kind, w.line, n, w.params)
  BY <1>1, <1>2 DEF ShellOK
<1>4. /\ n \in Nat /\ w.at = n + 1 /\ w.at \in 1..Len(w.line) /\ Len(w.line) \in Nat
      /\ w.at + 1 \in 1..(Len(w.line) + 1) /\ (w.at + 1) - 1 = n + 1
  BY <1>1, <1>3 DEF Line
<1>5. \/ arg.opt = "reset" /\ shell' = [shell EXCEPT ![s] = Sending(DultEvent(w, TRUE))]
      \/ /\ arg.opt \notin Options(w.kind) \cup {"reset"}
         /\ shell' = [shell EXCEPT ![s] = Parsing(w.kind, w.line, w.at + 1, w.params)]
      \/ /\ arg.opt \in Options(w.kind) /\ arg.val \in Low(arg.opt)..High(arg.opt)
         /\ shell' = [shell EXCEPT ![s] =
              Parsing(w.kind, w.line, w.at + 1, [w.params EXCEPT ![arg.opt] = arg.val])]
      \/ shell' = [shell EXCEPT ![s] = Freeing]
  BY DEF ParseOption
<1> HIDE DEF w, n
<1>6. CASE arg.opt = "reset" /\ shell' = [shell EXCEPT ![s] = Sending(DultEvent(w, TRUE))]
  <2>1. w.at \in Given(w.line, "reset")
    BY <1>4, <1>6 DEF Given
  <2>2. /\ DultEvent(w, TRUE) \in Event /\ EventOK(DultEvent(w, TRUE))
        /\ HasContext(DultEvent(w, TRUE))
    BY <1>1, <1>2, <2>1, DultEventOK
  <2> QED
    BY <1>1, <1>2, <1>6, <2>2, ShellStep, ShellStates DEF w
<1>7. CASE /\ arg.opt \notin Options(w.kind) \cup {"reset"}
           /\ shell' = [shell EXCEPT ![s] = Parsing(w.kind, w.line, w.at + 1, w.params)]
  <2>1. ParsedUpto(w.kind, w.line, n + 1, w.params)
    BY <1>3, <1>4, <1>7, UnknownParsed
  <2>2. ShellOK(Parsing(w.kind, w.line, w.at + 1, w.params))
    BY <1>3, <1>4, <2>1, ParsingOK
  <2> QED
    BY <1>1, <1>2, <1>7, <2>2, ShellStep, ShellStates DEF w
<1>8. CASE /\ arg.opt \in Options(w.kind) /\ arg.val \in Low(arg.opt)..High(arg.opt)
           /\ shell' = [shell EXCEPT ![s] =
                Parsing(w.kind, w.line, w.at + 1, [w.params EXCEPT ![arg.opt] = arg.val])]
  <2> DEFINE params == [w.params EXCEPT ![arg.opt] = arg.val]
  <2>1. ParsedUpto(w.kind, w.line, n + 1, params)
    BY <1>3, <1>4, <1>8, ValueParsed
  <2> HIDE DEF params
  <2>2. ShellOK(Parsing(w.kind, w.line, w.at + 1, params))
    BY <1>3, <1>4, <2>1, ParsingOK
  <2> QED
    BY <1>1, <1>2, <1>8, <2>2, ShellStep, ShellStates DEF w, params
<1>9. CASE shell' = [shell EXCEPT ![s] = Freeing]
  BY <1>1, <1>2, <1>9, ShellStep, ShellStates DEF w
<1> QED
  BY <1>5, <1>6, <1>7, <1>8, <1>9

LEMMA ParseEndStep ==
  ASSUME LocationInv, NEW s \in Shells, ParseEnd(s)
  PROVE  LocationInv'
<1> DEFINE w == shell[s]
<1>1. /\ w.doing = "parse" /\ w.at > Len(w.line)
      /\ shell' = [shell EXCEPT ![s] = Sending(DultEvent(w, FALSE))]
      /\ UNCHANGED <<queue, conf, ran, live, asked, askedRun>>
  BY DEF ParseEnd
<1>2. ShellOK(w) /\ Owns(w)
  BY <1>1, ShellFacts
<1>3. w.line \in Line /\ w.at \in 1..(Len(w.line) + 1)
  BY <1>1, <1>2 DEF ShellOK
<1> HIDE DEF w
<1>4. w.at = Len(w.line) + 1
  BY <1>1, <1>3 DEF Line
<1>5. /\ DultEvent(w, FALSE) \in Event /\ EventOK(DultEvent(w, FALSE))
      /\ HasContext(DultEvent(w, FALSE))
  BY <1>1, <1>2, <1>4, DultEventOK
<1> QED
  BY <1>1, <1>2, <1>5, ShellStep, ShellStates DEF w

LEMMA NotQueuedStep ==
  ASSUME LocationInv, NEW s \in Shells, NotQueued(s)
  PROVE  LocationInv'
<1>1. /\ ShellOK(Refused(shell[s].event))
      /\ Owns(Refused(shell[s].event)) <=> HasContext(shell[s].event)
  BY ShellStates DEF Refused
<1> QED
  BY <1>1, ShellStep, ShellFacts DEF NotQueued

LEMMA FreeContextStep ==
  ASSUME LocationInv, NEW s \in Shells, FreeContext(s)
  PROVE  LocationInv'
BY ShellStep, ShellStates, ShellFacts DEF FreeContext

\* What a taken line asks for of a name, read without the parser, is what its
\* event writes.
LEMMA AsksSaid ==
  ASSUME NEW e \in DultEvents, EventOK(e), NEW old \in [Kept -> Int]
  PROVE  /\ Asks(old, e) \in [Kept -> Int]
         /\ \A opt \in Names :
              /\ e \in Sayers(opt) =>
                   Asks(old, e)[opt] = IF e.reset THEN Defaults[opt] ELSE e.params[opt]
              /\ e \notin Sayers(opt) => Asks(old, e)[opt] = old[opt]
<1> DEFINE new == Asks(old, e)
           reset == Given(e.line, "reset") # {}
<1>1. /\ e.kind \in {"config", "set"} /\ e.reset \in BOOLEAN /\ ParamsOK(e.kind, e.params)
      /\ e.reset => reset
      /\ ~e.reset => ParsedUpto(e.kind, e.line, Len(e.line), e.params)
  BY DEF DultEvents, EventOK
<1>2. ~e.reset => /\ ~reset
                  /\ \A opt \in Options(e.kind) :
                       e.params[opt] = IF Given(e.line, opt) = {} THEN 0 ELSE LastGiven(e.line, opt)
  BY <1>1, UptoIsGiven DEF ParsedUpto, LastGiven
<1>3. e.reset <=> reset
  BY <1>1, <1>2
<1>4. \A opt \in Options(e.kind) : e.params[opt] \in Int /\ e.params[opt] >= 0
  <2> TAKE opt \in Options(e.kind)
  <2>1. opt \in ConfigOpts \cup SetOpts
    BY DEF Options
  <2>2. Low(opt) \in {0, 1} /\ High(opt) \in Nat
    BY <2>1, OptionRanges
  <2>3. e.params[opt] = 0 \/ e.params[opt] \in Low(opt)..High(opt)
    BY <1>1 DEF ParamsOK
  <2> QED
    BY <2>2, <2>3
<1>5. /\ DOMAIN new = Kept
      /\ \A opt \in Kept :
           /\ opt \notin Options(e.kind) => new[opt] = old[opt]
           /\ opt \in Options(e.kind) /\ reset => new[opt] = Defaults[opt]
           /\ opt \in Options(e.kind) /\ ~reset =>
                new[opt] = IF \/ Given(e.line, opt) = {}
                              \/ opt \in Names /\ LastGiven(e.line, opt) = 0
                           THEN old[opt] ELSE LastGiven(e.line, opt)
  BY DEF Asks
<1>6. new = [opt \in Kept |-> new[opt]]
  BY DEF Asks
<1> HIDE DEF new
<1>7. ASSUME NEW opt \in Kept
      PROVE  new[opt] \in Int
  <2>1. CASE opt \notin Options(e.kind)
    BY <1>5, <2>1
  <2>2. CASE opt \in Options(e.kind) /\ reset
    BY <1>5, <2>2, DefaultsType
  <2>3. CASE opt \in Options(e.kind) /\ ~reset
    <3>1. Given(e.line, opt) # {} => LastGiven(e.line, opt) \in Int
      BY <1>2, <1>3, <1>4, <2>3
    <3> QED
      BY <1>5, <2>3, <3>1
  <2> QED
    BY <2>1, <2>2, <2>3
<1>8. new \in [Kept -> Int]
  BY <1>6, <1>7
<1>9. ASSUME NEW opt \in Names
      PROVE  /\ e \in Sayers(opt) =>
                  new[opt] = IF e.reset THEN Defaults[opt] ELSE e.params[opt]
             /\ e \notin Sayers(opt) => new[opt] = old[opt]
  <2>1. opt \in Kept /\ opt \in ConfigOpts /\ opt \notin SetOpts
    BY OptionSets
  <2>2. CASE e.kind = "set"
    <3>1. opt \notin Options(e.kind) /\ e \notin Sayers(opt)
      BY <2>1, <2>2 DEF Options, Sayers
    <3> QED
      BY <1>5, <2>1, <3>1
  <2>3. CASE e.kind = "config"
    <3>1. opt \in Options(e.kind) /\ (e \in Sayers(opt) <=> (e.reset \/ e.params[opt] > 0))
      BY <2>1, <2>3 DEF Options, Sayers
    <3>2. CASE e.reset
      BY <1>3, <1>5, <2>1, <3>1, <3>2
    <3>3. CASE ~e.reset
      BY <1>2, <1>3, <1>4, <1>5, <2>1, <3>1, <3>3
    <3> QED
      BY <3>2, <3>3
  <2> QED
    BY <1>1, <2>2, <2>3
<1> QED
  BY <1>8, <1>9 DEF new

LEMMA QueuedStep ==
  ASSUME LocationInv, NEW s \in Shells, Queued(s)
  PROVE  LocationInv'
<1> DEFINE e == shell[s].event
<1>1. /\ queue' = Append(queue, e) /\ shell' = [shell EXCEPT ![s] = Idle]
      /\ asked' = IF e.kind \in {"config", "set"} THEN Asks(asked, e) ELSE asked
      /\ askedRun' = IF e.kind = "location" THEN e.run ELSE askedRun
      /\ shell[s].doing = "send" /\ Len(queue) < QueueSize
      /\ conf' = conf /\ ran' = ran /\ live' = live
  BY DEF Queued
<1>2. e \in Event /\ EventOK(e) /\ (Owns(shell[s]) <=> HasContext(e))
  BY <1>1, ShellFacts DEF ShellOK
<1>3. queue \in Seq(Event) /\ asked \in [Kept -> Int]
  BY DEF LocationInv, QueueOK
<1> HIDE DEF e
<1>4. /\ queue' \in Seq(Event) /\ Len(queue') = Len(queue) + 1 /\ Len(queue) \in Nat
      /\ \A i \in 1..Len(queue) : queue'[i] = queue[i]
      /\ queue'[Len(queue) + 1] = e
  BY <1>1, <1>2, <1>3, QueueAppended
<1>5. QueueOK'
  BY <1>2, <1>4 DEF LocationInv, QueueOK
<1>6. ShellsOK'
  BY <1>1, ShellStates DEF LocationInv, ShellsOK
<1>7. /\ e \in DultEvents <=> e.kind \in {"config", "set"}
      /\ e \in LocationEvents <=> e.kind = "location"
  BY <1>2 DEF Event, DultEvents, LocationEvents, Plain
<1>8. asked' \in [Kept -> Int]
  BY <1>1, <1>2, <1>3, <1>7, AsksSaid
<1>9. ContextsHaveOneOwner'
  <2>1. Cardinality(Owners') = IF HasContext(e) THEN Cardinality(Owners) - 1 ELSE Cardinality(Owners)
    BY <1>1, <1>2, OwnersStep, ShellStates DEF LocationInv
  <2>2. Cardinality(Owned(queue')) =
          IF HasContext(e) THEN Cardinality(Owned(queue)) + 1 ELSE Cardinality(Owned(queue))
    BY <1>1, <1>2, <1>3, OwnedAppended
  <2>3. Cardinality(Owners) \in Nat /\ Cardinality(Owned(queue)) \in Nat
    BY <1>3, OwnersFinite, OwnedFinite
  <2>4. live = Cardinality(Owners) + Cardinality(Owned(queue))
    BY DEF LocationInv, ContextsHaveOneOwner
  <2>5. live' = Cardinality(Owners') + Cardinality(Owned(queue'))
    BY <1>1, <2>1, <2>2, <2>3, <2>4
  <2> QED
    BY <2>5 DEF ContextsHaveOneOwner
<1>10. TypeOK'
  <2>1. QueueSize \in Nat
    BY LocationAssumption
  <2>2. Len(queue') <= QueueSize
    BY <1>1, <1>4, <2>1
  <2> QED
    BY <1>1, <2>2 DEF LocationInv, TypeOK
<1>11. NamesFollow'
  <2> SUFFICES ASSUME NEW opt \in Names
               PROVE  Follows(queue', Sayers(opt), Said(opt), conf[opt], Stored(opt, asked'[opt]))
    BY <1>1 DEF NamesFollow
  <2>1. Follows(queue, Sayers(opt), Said(opt), conf[opt], Stored(opt, asked[opt]))
    BY DEF LocationInv, NamesFollow
  <2>2. e \in Sayers(opt) => Stored(opt, asked'[opt]) = Said(opt)[e]
    <3> HAVE e \in Sayers(opt)
    <3>1. e \in DultEvents
      BY DEF Sayers
    <3>2. asked'[opt] = IF e.reset THEN Defaults[opt] ELSE e.params[opt]
      BY <1>1, <1>2, <1>3, <1>7, <3>1, AsksSaid
    <3> QED
      BY <3>2, StoredDefault DEF Said
  <2>3. e \notin Sayers(opt) => asked'[opt] = asked[opt]
    BY <1>1, <1>2, <1>3, <1>7, AsksSaid
  <2> QED
    BY <1>1, <1>2, <1>3, <2>1, <2>2, <2>3, FollowsAppended
<1>12. RunFollows'
  <2>1. e \in LocationEvents => askedRun' = RunOf[e]
    BY <1>1, <1>7 DEF RunOf
  <2>2. e \notin LocationEvents => askedRun' = askedRun
    BY <1>1, <1>7
  <2>3. Follows(queue, LocationEvents, RunOf, ran, askedRun)
    BY DEF LocationInv, RunFollows
  <2> QED
    BY <1>1, <1>2, <1>3, <2>1, <2>2, <2>3, FollowsAppended DEF RunFollows
<1> QED
  BY <1>1, <1>5, <1>6, <1>8, <1>9, <1>10, <1>11, <1>12 DEF LocationInv

-----------------------------------------------------------------------------
\* The steps of the sidewalk thread.

\* What is kept is within its range.
ConfOK(c) ==
  /\ c \in [Kept -> Int]
  /\ \A opt \in TextOpts : c[opt] \in 0..(Place(opt) - 1)
  /\ \A opt \in Kept \ (TextOpts \cup {"ident_size"}) : c[opt] \in Low(opt)..High(opt)
  /\ c["ident_size"] \in c["ident"]..Place("ident")

LEMMA LocationConfOK == LocationInv => ConfOK(conf)
BY DEF LocationInv, TypeOK, ConfOK

\* A reset sets what belongs to its command, the identifier with its size.
LEMMA DefaultsApplied ==
  ASSUME ConfOK(conf), NEW kind \in {"config", "set"}
  PROVE  /\ ConfOK(WithDefaults(ResetBy(kind)))
         /\ \A opt \in Names :
              WithDefaults(ResetBy(kind))[opt] = IF kind = "config" THEN Defaults[opt] ELSE conf[opt]
<1> DEFINE c == WithDefaults(ResetBy(kind))
<1>1. conf \in [Kept -> Int]
  BY DEF ConfOK
<1>2. /\ c \in [Kept -> Int]
      /\ \A opt \in Kept : c[opt] = IF opt \in ResetBy(kind) THEN Defaults[opt] ELSE conf[opt]
  BY <1>1, DefaultsType DEF WithDefaults
<1> HIDE DEF c
<1>3. \A opt \in TextOpts : c[opt] \in 0..(Place(opt) - 1)
  BY <1>2, DefaultsType, OptionSets DEF ConfOK
<1>4. \A opt \in Kept \ (TextOpts \cup {"ident_size"}) : c[opt] \in Low(opt)..High(opt)
  BY <1>2, DefaultsType DEF ConfOK
<1>5. "ident" \in ResetBy(kind) <=> "ident_size" \in ResetBy(kind)
  BY DEF ResetBy, ConfigOpts, TextOpts, NumberOpts
<1>6. c["ident_size"] \in c["ident"]..Place("ident")
  <2>1. "ident" \in Kept /\ "ident_size" \in Kept
    BY OptionSets
  <2>2. 0 \in 0..Place("ident")
    BY DEF Place
  <2> QED
    BY <1>2, <1>5, <2>1, <2>2, DefaultsType DEF ConfOK
<1>7. \A opt \in Names : opt \in ResetBy(kind) <=> kind = "config"
  BY DEF ResetBy, ConfigOpts, Names, TextOpts, NumberOpts
<1>8. \A opt \in Names : c[opt] = IF kind = "config" THEN Defaults[opt] ELSE conf[opt]
  BY <1>2, <1>7, OptionSets
<1> QED
  BY <1>2, <1>3, <1>4, <1>6, <1>8 DEF ConfOK, c

\* The options of a context set what they apply to.
LEMMA ParamsApplied ==
  ASSUME ConfOK(conf), NEW kind \in {"config", "set"}, NEW params, ParamsOK(kind, params)
  PROVE  /\ ConfOK(WithParams(params))
         /\ \A opt \in Names :
              WithParams(params)[opt] =
                IF kind = "config" /\ params[opt] > 0 THEN Stored(opt, params[opt]) ELSE conf[opt]
<1> DEFINE c == WithParams(params)
<1>1. conf \in [Kept -> Int]
  BY DEF ConfOK
<1>2. params \in [Options(kind) -> Int] /\ Options(kind) \subseteq ConfigOpts \cup SetOpts
  BY DEF ParamsOK, Options
<1>3. "ident_size" \notin Options(kind)
  BY <1>2, OptionSets
<1>4. /\ c = [opt \in Kept |-> c[opt]]
      /\ \A opt \in Kept :
           /\ opt \in Options(kind) =>
                c[opt] = IF Applies(opt, params[opt]) THEN Stored(opt, params[opt]) ELSE conf[opt]
           /\ opt \notin Options(kind) /\ opt # "ident_size" => c[opt] = conf[opt]
      /\ c["ident_size"] = IF "ident" \in Options(kind) /\ params["ident"] > 0
                           THEN params["ident"] ELSE conf["ident_size"]
  <2>1. DOMAIN params = Options(kind) /\ DOMAIN conf = Kept
    BY <1>1, <1>2
  <2>2. "ident_size" \in Kept
    BY OptionSets
  <2> QED
    BY <1>3, <2>1, <2>2 DEF WithParams
<1> HIDE DEF c
<1>5. \A opt \in Options(kind) :
        /\ params[opt] \in Int /\ Low(opt) \in {0, 1} /\ High(opt) \in Nat
        /\ params[opt] = 0 \/ params[opt] \in Low(opt)..High(opt)
  BY <1>2, OptionRanges DEF ParamsOK
<1>6. ASSUME NEW opt \in Options(kind), Applies(opt, params[opt])
      PROVE  params[opt] \in Low(opt)..High(opt) /\ (opt \in Names => params[opt] > 0)
  <2>1. opt \notin Names => Low(opt) = 0
    BY <1>2, OptionRanges
  <2> QED
    BY <1>5, <1>6, <2>1 DEF Applies
<1>7. ASSUME NEW opt \in TextOpts
      PROVE  c[opt] \in 0..(Place(opt) - 1)
  <2>1. opt \in Kept /\ opt \in Names /\ opt # "ident_size"
    BY OptionSets
  <2>2. CASE opt \in Options(kind) /\ Applies(opt, params[opt])
    BY <1>2, <1>4, <1>6, <2>1, <2>2, StoredFits
  <2>3. CASE ~(opt \in Options(kind) /\ Applies(opt, params[opt]))
    BY <1>4, <2>1, <2>3 DEF ConfOK
  <2> QED
    BY <2>2, <2>3
<1>8. ASSUME NEW opt \in Kept \ (TextOpts \cup {"ident_size"})
      PROVE  c[opt] \in Low(opt)..High(opt)
  <2>1. CASE opt \in Options(kind) /\ Applies(opt, params[opt])
    BY <1>2, <1>4, <1>6, <2>1, StoredFits
  <2>2. CASE ~(opt \in Options(kind) /\ Applies(opt, params[opt]))
    BY <1>4, <2>2 DEF ConfOK
  <2> QED
    BY <2>1, <2>2
<1>9. c["ident_size"] \in c["ident"]..Place("ident")
  <2>1. "ident" \in Kept /\ "ident" \in TextOpts /\ "ident" # "ident_size" /\ "ident" \in Names
    BY OptionSets
  <2>2. CASE "ident" \in Options(kind) /\ params["ident"] > 0
    <3>1. Applies("ident", params["ident"])
      BY <2>1, <2>2 DEF Applies
    <3>2. params["ident"] \in Low("ident")..High("ident")
      BY <1>6, <2>2, <3>1
    <3>3. c["ident"] = Stored("ident", params["ident"]) /\ c["ident_size"] = params["ident"]
      BY <1>4, <2>1, <2>2, <3>1
    <3>4. /\ Stored("ident", params["ident"]) <= params["ident"]
          /\ Stored("ident", params["ident"]) \in 0..(Place("ident") - 1)
      BY <1>2, <2>1, <2>2, <3>2, StoredFits
    <3>5. Place("ident") = 32 /\ High("ident") = 32 /\ Low("ident") = 0
      BY DEF Place, High, Low
    <3> QED
      BY <3>2, <3>3, <3>4, <3>5
  <2>3. CASE ~("ident" \in Options(kind) /\ params["ident"] > 0)
    <3>1. c["ident"] = conf["ident"] /\ c["ident_size"] = conf["ident_size"]
      BY <1>4, <2>1, <2>3 DEF Applies
    <3> QED
      BY <3>1 DEF ConfOK
  <2> QED
    BY <2>2, <2>3
<1>10. ASSUME NEW opt \in Kept
       PROVE  c[opt] \in Int
  <2>1. CASE opt \in TextOpts
    BY <1>7, <2>1, OptionRanges, OptionSets
  <2>2. CASE opt \in Kept \ (TextOpts \cup {"ident_size"})
    BY <1>8, <2>2, OptionRanges, OptionSets
  <2>3. CASE opt = "ident_size"
    <3>1. "ident" \in Options(kind) => params["ident"] \in Int
      BY <1>5
    <3>2. conf["ident_size"] \in Int
      BY <1>1, OptionSets
    <3> QED
      BY <1>4, <2>3, <3>1, <3>2
  <2> QED
    BY <2>1, <2>2, <2>3
<1>11. c \in [Kept -> Int]
  BY <1>4, <1>10
<1>12. ASSUME NEW opt \in Names
       PROVE  c[opt] = IF kind = "config" /\ params[opt] > 0
                       THEN Stored(opt, params[opt]) ELSE conf[opt]
  <2>1. /\ opt \in Kept /\ opt # "ident_size" /\ (opt \in Options(kind) <=> kind = "config")
    BY OptionSets DEF Options
  <2> QED
    BY <1>4, <2>1 DEF Applies
<1> QED
  BY <1>7, <1>8, <1>9, <1>11, <1>12 DEF ConfOK, c

\* An event is handled: its context is freed, and it writes what it says.
LEMMA ThreadStep ==
  ASSUME LocationInv, queue # <<>>, queue' = Tail(queue), UNCHANGED <<shell, asked, askedRun>>,
         live' = IF HasContext(First) THEN live - 1 ELSE live,
         ConfOK(conf'),
         \A opt \in Names : /\ First \in Sayers(opt) => conf'[opt] = Said(opt)[First]
                            /\ First \notin Sayers(opt) => conf'[opt] = conf[opt],
         First \in LocationEvents => ran' = RunOf[First],
         First \notin LocationEvents => ran' = ran
  PROVE  LocationInv'
<1>1. /\ queue' \in Seq(Event) /\ Len(queue') = Len(queue) - 1 /\ Len(queue) \in Nat \ {0}
      /\ First = queue[1] /\ First \in Event /\ queue \in Seq(Event)
      /\ \A i \in 1..Len(queue') : queue'[i] = queue[i + 1]
  BY QueueTaken DEF LocationInv, QueueOK, First
<1>2. QueueOK'
  <2>1. \A i \in 1..Len(queue') : i + 1 \in 1..Len(queue)
    BY <1>1
  <2> QED
    BY <1>1, <2>1 DEF LocationInv, QueueOK
<1>3. ShellsOK'
  BY DEF LocationInv, ShellsOK
<1>4. ContextsHaveOneOwner' /\ live' \in Nat
  <2>1. Cardinality(Owned(queue')) =
          IF HasContext(First) THEN Cardinality(Owned(queue)) - 1 ELSE Cardinality(Owned(queue))
    BY <1>1, OwnedTaken DEF First
  <2>2. Cardinality(Owners) \in Nat /\ Cardinality(Owned(queue)) \in Nat
        /\ Cardinality(Owned(queue')) \in Nat
    BY <1>1, OwnersFinite, OwnedFinite
  <2>3. live = Cardinality(Owners) + Cardinality(Owned(queue))
    BY DEF LocationInv, ContextsHaveOneOwner
  <2>4. Owners' = Owners
    BY DEF Owners
  <2>5. live' = Cardinality(Owners') + Cardinality(Owned(queue')) /\ live' \in Nat
    BY <2>1, <2>2, <2>3, <2>4
  <2> QED
    BY <2>5 DEF ContextsHaveOneOwner
<1>5. TypeOK'
  <2>1. Len(queue') <= QueueSize
    BY <1>1, LocationAssumption DEF LocationInv, TypeOK
  <2> QED
    BY <1>4, <2>1 DEF ConfOK, TypeOK
<1>6. NamesFollow'
  <2> SUFFICES ASSUME NEW opt \in Names
               PROVE  Follows(queue', Sayers(opt), Said(opt), conf'[opt], Stored(opt, asked[opt]))
    BY DEF NamesFollow
  <2>1. Follows(queue, Sayers(opt), Said(opt), conf[opt], Stored(opt, asked[opt]))
    BY DEF LocationInv, NamesFollow
  <2> QED
    BY <1>1, <2>1, FollowsTaken DEF First
<1>7. RunFollows'
  <2>1. Follows(queue, LocationEvents, RunOf, ran, askedRun)
    BY DEF LocationInv, RunFollows
  <2>2. Follows(queue', LocationEvents, RunOf, ran', askedRun)
    BY <1>1, <2>1, FollowsTaken DEF First
  <2> QED
    BY <2>2 DEF RunFollows
<1>8. conf' \in [Kept -> Int] /\ asked' \in [Kept -> Int]
  BY DEF ConfOK, LocationInv
<1> QED
  BY <1>2, <1>3, <1>4, <1>5, <1>6, <1>7, <1>8 DEF LocationInv

LEMMA FirstIs ==
  ASSUME LocationInv, queue # <<>>
  PROVE  /\ First \in Event /\ EventOK(First)
         /\ First.kind \in {"config", "set"} => First \in DultEvents /\ HasContext(First)
         /\ First.kind = "location" => First \in LocationEvents /\ HasContext(First)
         /\ First.kind = "plain" => First = Plain
<1>1. First = queue[1] /\ First \in Event /\ 1 \in 1..Len(queue)
  BY QueueTaken DEF LocationInv, QueueOK, First
<1>2. EventOK(First)
  BY <1>1 DEF LocationInv, QueueOK
<1> HIDE DEF First
<1> QED
  BY <1>1, <1>2 DEF Event, DultEvents, LocationEvents, Plain, HasContext

\* Either handler of a `dult' event, the one that changes the names and the
\* one that leaves them alone.
LEMMA DultStep ==
  ASSUME LocationInv, DultConfig \/ DultSet
  PROVE  LocationInv'
<1> DEFINE e == First
<1>1. /\ queue # <<>> /\ e.kind \in {"config", "set"}
      /\ conf' = IF e.reset THEN WithDefaults(ResetBy(e.kind)) ELSE WithParams(e.params)
      /\ live' = live - 1 /\ queue' = Tail(queue) /\ ran' = ran
      /\ UNCHANGED <<shell, asked, askedRun>>
  BY DEF DultConfig, DultSet
<1>2. e \in DultEvents /\ HasContext(e) /\ EventOK(e) /\ e \notin LocationEvents
  BY <1>1, FirstIs, PlainIsNoOther
<1>3. ParamsOK(e.kind, e.params) /\ ConfOK(conf)
  BY <1>2, LocationConfOK DEF EventOK
<1> HIDE DEF e
<1>4. ConfOK(conf')
  BY <1>1, <1>3, DefaultsApplied, ParamsApplied
<1>5. ASSUME NEW opt \in Names
      PROVE  /\ e \in Sayers(opt) => conf'[opt] = Said(opt)[e]
             /\ e \notin Sayers(opt) => conf'[opt] = conf[opt]
  <2>1. e \in Sayers(opt) <=> e.kind = "config" /\ (e.reset \/ e.params[opt] > 0)
    BY <1>2 DEF Sayers
  <2>2. e \in Sayers(opt) =>
          Said(opt)[e] = IF e.reset THEN Defaults[opt] ELSE Stored(opt, e.params[opt])
    BY DEF Said
  <2>3. CASE e.reset
    <3>1. conf'[opt] = IF e.kind = "config" THEN Defaults[opt] ELSE conf[opt]
      BY <1>1, <1>3, <2>3, DefaultsApplied
    <3> QED
      BY <2>1, <2>2, <2>3, <3>1
  <2>4. CASE ~e.reset
    <3>1. conf'[opt] = IF e.kind = "config" /\ e.params[opt] > 0
                       THEN Stored(opt, e.params[opt]) ELSE conf[opt]
      BY <1>1, <1>3, <2>4, ParamsApplied
    <3> QED
      BY <2>1, <2>2, <2>4, <3>1
  <2> QED
    BY <2>3, <2>4
<1> QED
  BY <1>1, <1>2, <1>4, <1>5, ThreadStep DEF e

LEMMA LocationRunStep ==
  ASSUME LocationInv, LocationRun
  PROVE  LocationInv'
<1>1. /\ queue # <<>> /\ First.kind = "location" /\ ran' = First.run /\ live' = live - 1
      /\ queue' = Tail(queue) /\ UNCHANGED <<shell, conf, asked, askedRun>>
  BY DEF LocationRun
<1>2. First \in LocationEvents /\ HasContext(First) /\ First \notin DultEvents
  BY <1>1, FirstIs, PlainIsNoOther
<1> HIDE DEF First
<1>3. \A opt \in Names : First \notin Sayers(opt)
  BY <1>2 DEF Sayers
<1>4. ran' = RunOf[First]
  BY <1>1, <1>2 DEF RunOf
<1>5. ConfOK(conf')
  BY <1>1, LocationConfOK
<1> QED
  BY <1>1, <1>2, <1>3, <1>4, <1>5, ThreadStep

LEMMA PlainEventStep ==
  ASSUME LocationInv, PlainEvent
  PROVE  LocationInv'
<1>1. /\ queue # <<>> /\ First.kind = "plain" /\ queue' = Tail(queue)
      /\ UNCHANGED <<shell, conf, ran, live, asked, askedRun>>
  BY DEF PlainEvent
<1>2. First = Plain
  BY <1>1, FirstIs
<1>3. First \notin LocationEvents /\ First \notin DultEvents /\ ~HasContext(First)
  BY <1>2, PlainIsNoOther
<1> HIDE DEF First
<1>4. \A opt \in Names : First \notin Sayers(opt)
  BY <1>3 DEF Sayers
<1>5. ConfOK(conf')
  BY <1>1, LocationConfOK
<1> QED
  BY <1>1, <1>3, <1>4, <1>5, ThreadStep

-----------------------------------------------------------------------------
LEMMA InitLocationInv == Init => LocationInv
<1> SUFFICES ASSUME Init PROVE LocationInv
  OBVIOUS
<1>1. ShellsOK
  <2>1. \A s \in Shells : shell[s] = Idle
    BY DEF Init
  <2>2. shell = [s \in Shells |-> shell[s]]
    BY DEF Init
  <2> QED
    BY <2>1, <2>2, ShellStates DEF ShellsOK
<1>2. queue = <<>> /\ queue \in Seq(Event) /\ Len(queue) = 0
  BY DEF Init
<1>3. QueueOK
  BY <1>2 DEF QueueOK
<1>4. conf \in [Kept -> Int] /\ asked \in [Kept -> Int]
  BY DefaultsType DEF Init
<1>5. TypeOK
  <2>1. Defaults["ident_size"] \in Defaults["ident"]..Place("ident")
    BY DefaultsType DEF Place
  <2>2. 0 <= QueueSize
    BY LocationAssumption
  <2> QED
    BY <1>2, <2>1, <2>2, DefaultsType DEF Init, TypeOK
<1>6. ContextsHaveOneOwner
  <2>1. Owners = {}
    BY DEF Init, Owners, Idle
  <2>2. Owned(queue) = {}
    BY <1>2 DEF Owned
  <2>3. live = 0
    BY DEF Init
  <2> QED
    BY <2>1, <2>2, <2>3, FS_EmptySet DEF ContextsHaveOneOwner
<1>7. NamesFollow
  <2> SUFFICES ASSUME NEW opt \in Names
               PROVE  Follows(queue, Sayers(opt), Said(opt), conf[opt], Stored(opt, asked[opt]))
    BY DEF NamesFollow
  <2>1. conf[opt] = Stored(opt, asked[opt])
    BY StoredDefault DEF Init
  <2> QED
    BY <1>2, <2>1 DEF Follows
<1>8. RunFollows
  BY <1>2 DEF Init, RunFollows, Follows
<1> QED
  BY <1>1, <1>3, <1>4, <1>5, <1>6, <1>7, <1>8 DEF LocationInv

LEMMA LocationInvStep == LocationInv /\ [Next]_vars => LocationInv'
<1> SUFFICES ASSUME LocationInv, [Next]_vars
             PROVE  LocationInv'
  OBVIOUS
<1>1. ASSUME NEW s \in Shells, Command(s)
      PROVE  LocationInv'
  BY <1>1, TypeDultStep, ParseOptionStep, ParseEndStep, TypeOtherStep, QueuedStep,
     NotQueuedStep, FreeContextStep DEF Command
<1>2. CASE SidewalkThread
  BY <1>2, DultStep, LocationRunStep, PlainEventStep DEF SidewalkThread
<1>3. CASE UNCHANGED vars
  BY <1>3 DEF LocationInv, ShellsOK, QueueOK, TypeOK, ContextsHaveOneOwner, Owners, NamesFollow,
              RunFollows, vars
<1> QED
  BY <1>1, <1>2, <1>3 DEF Next

LEMMA LocationInvHolds == Spec => []LocationInv
BY InitLocationInv, LocationInvStep, PTL DEF Spec

\* Every option is within its range, a text leaves room for the byte that ends
\* it, and the identifier is no longer than the size that is kept with it
\* (dult_event_config, dult_event_set).
THEOREM LocationTypeCorrect == Spec => []TypeOK
<1>1. LocationInv => TypeOK
  BY DEF LocationInv
<1> QED
  BY <1>1, LocationInvHolds, PTL

\* No context is lost or freed twice, on whichever way a command ends and for
\* any number of shells (cmd_dult_config, cmd_dult_set, the location commands).
THEOREM ContextsAlwaysHaveOneOwner == Spec => []ContextsHaveOneOwner
<1>1. LocationInv => ContextsHaveOneOwner
  BY DEF LocationInv
<1> QED
  BY <1>1, LocationInvHolds, PTL

\* When the queue is empty, each name is the last one given by a line that was
\* taken, whichever shell it was typed in and whatever else was refused; and so
\* is the last run of the location library.
THEOREM NamesAreAsAsked == Spec => []NamesAsAsked
<1>1. LocationInv => NamesAsAsked
  <2> SUFFICES ASSUME LocationInv, queue = <<>>
               PROVE  /\ \A opt \in Names : conf[opt] = Stored(opt, asked[opt])
                      /\ ran = askedRun
    BY DEF NamesAsAsked, Settled
  <2>1. \A W : \A i \in 1..Len(queue) : queue[i] \notin W
    OBVIOUS
  <2> QED
    BY <2>1 DEF LocationInv, NamesFollow, RunFollows, Follows
<1> QED
  BY <1>1, LocationInvHolds, PTL
=============================================================================
