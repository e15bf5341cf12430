---------------------------- MODULE LocationShell ----------------------------
(***************************************************************************)
(* The `dult' and `location' shell commands                                *)
(* (app/src/cli/location_shell.c) and the events they queue                *)
(* (app/src/cli/location_shell_events.c).                                  *)
(*                                                                         *)
(* A command runs on the thread of the shell it was typed in.  It parses   *)
(* its options into a context of zeroes, gives the context to the bounded  *)
(* queue, and frees it itself when the queue is full.  The sidewalk thread *)
(* applies a context to dult_conf, or calls the location library, and      *)
(* frees it.                                                               *)
(*                                                                         *)
(* A text is its length.  An option's value is a number; one that is not   *)
(* there, or that is not a number, is out of every option's range.         *)
(***************************************************************************)
EXTENDS Integers, Sequences, FiniteSets, SequencesExt

CONSTANTS
  Shells,       \* the threads that run shell commands
  QueueSize,    \* CONFIG_SIDEWALK_THREAD_QUEUE_SIZE
  ConfigLines,  \* what an operator may type after `dult config'
  SetLines,     \* and after `dult set'
  Runs          \* the <<type, level>> of the location commands typed

ASSUME LocationAssumption ==
  /\ QueueSize \in Nat \ {0} /\ IsFiniteSet(Shells)
  /\ ConfigLines \cup SetLines \subseteq Seq([opt : STRING, val : Int])

VARIABLES
  shell,   \* what each shell's thread is about to do, with which context
  queue,   \* sidewalk_thread_msgq
  conf,    \* dult_conf, ignore_non_owner_events and non_owner_find_status
  ran,     \* the location library: its last run
  live,    \* the number of contexts that are allocated and not freed
  asked,   \* history: the value of each option in the commands that were taken
  askedRun \* history: the last location run that was taken

vars == <<shell, queue, conf, ran, live, asked, askedRun>>

TextOpts   == {"product", "man", "model", "ident"}
NumberOpts == {"firmware", "category", "network"}
ConfigOpts == TextOpts \cup NumberOpts \cup {"battery", "adv", "prox"}
SetOpts    == {"proximity", "ignore", "status", "readmode", "level"}
Names      == TextOpts \cup NumberOpts

Options(kind) == IF kind = "config" THEN ConfigOpts ELSE SetOpts
Lines(kind)   == IF kind = "config" THEN ConfigLines ELSE SetLines

\* What the parser lets through, and the size of a text's place in dult_conf.
Low(opt)  == IF opt \in {"category", "network"} THEN 1 ELSE 0
High(opt) ==
  CASE opt = "product" -> 8
    [] opt \in {"man", "model"} -> 64
    [] opt = "ident" -> 32
    [] opt = "firmware" -> 2147483647  \* three numbers in one; TLC's integers end here
    [] opt = "category" -> 167
    [] opt \in {"network", "level"} -> 3
    [] opt = "battery" -> 2
    [] OTHER -> 1
Place(opt) == IF opt = "ident" THEN 32 ELSE 64

\* What is kept of the options, with the size kept with the identifier.
Kept == ConfigOpts \cup {"ident_size", "ignore", "status", "level"}

Defaults ==
  [opt \in Kept |->
     CASE opt = "product" -> 3 [] opt = "man" -> 8 [] opt = "model" -> 16
       [] opt = "firmware" -> 65536
       [] opt = "network" -> 3
       [] opt \in {"category", "adv", "prox", "status"} -> 1
       [] OTHER -> 0]

-----------------------------------------------------------------------------
Idle == [doing |-> "idle"]
Parsing(kind, line, at, params) ==
  [doing |-> "parse", kind |-> kind, line |-> line, at |-> at, params |-> params]
Sending(event) == [doing |-> "send", event |-> event]
Freeing == [doing |-> "free"]

\* An event without a context changes nothing the model keeps: print the
\* configuration, init and deinit of either library, start the almanac.
Plain == [kind |-> "plain"]

HasContext(event) == event.kind # "plain"

\* The context of a `dult' command, with the line it was parsed from.
DultEvent(p, reset) == [kind |-> p.kind, line |-> p.line, reset |-> reset, params |-> p.params]

\* The command's context is allocated, and every option of it is zero.
TypeDult(s) ==
  /\ shell[s].doing = "idle"
  /\ \E kind \in {"config", "set"} : \E line \in Lines(kind) :
       shell' = [shell EXCEPT ![s] = Parsing(kind, line, 1, [opt \in Options(kind) |-> 0])]
  /\ live' = live + 1
  /\ UNCHANGED <<queue, conf, ran, asked, askedRun>>

\* One option.  Parsing ends at a reset, which is sent at once, and at a value
\* that is refused; an option that is not known is skipped.
ParseOption(s) ==
  /\ shell[s].doing = "parse" /\ shell[s].at <= Len(shell[s].line)
  /\ LET p   == shell[s]
         arg == p.line[p.at]
         Becomes(next) == shell' = [shell EXCEPT ![s] = next] IN
     \/ arg.opt = "reset" /\ Becomes(Sending(DultEvent(p, TRUE)))
     \/ /\ arg.opt \notin Options(p.kind) \cup {"reset"}
        /\ Becomes(Parsing(p.kind, p.line, p.at + 1, p.params))
     \/ /\ arg.opt \in Options(p.kind) /\ arg.val \in Low(arg.opt)..High(arg.opt)
        /\ Becomes(Parsing(p.kind, p.line, p.at + 1, [p.params EXCEPT ![arg.opt] = arg.val]))
     \/ /\ arg.opt \in Options(p.kind) /\ arg.val \notin Low(arg.opt)..High(arg.opt)
        /\ Becomes(Freeing)
  /\ UNCHANGED <<queue, conf, ran, live, asked, askedRun>>

ParseEnd(s) ==
  /\ shell[s].doing = "parse" /\ shell[s].at > Len(shell[s].line)
  /\ shell' = [shell EXCEPT ![s] = Sending(DultEvent(shell[s], FALSE))]
  /\ UNCHANGED <<queue, conf, ran, live, asked, askedRun>>

TypeLocation(s) ==
  /\ shell[s].doing = "idle"
  /\ \E run \in Runs : shell' = [shell EXCEPT ![s] = Sending([kind |-> "location", run |-> run])]
  /\ live' = live + 1
  /\ UNCHANGED <<queue, conf, ran, asked, askedRun>>

TypePlain(s) ==
  /\ shell[s].doing = "idle"
  /\ shell' = [shell EXCEPT ![s] = Sending(Plain)]
  /\ UNCHANGED <<queue, conf, ran, live, asked, askedRun>>

\* What a line that was taken asks for, read without the parser: the last
\* value of each option it gives, or the defaults of its command.  A name whose
\* last value is an empty text or a version of zeroes keeps the one it has.
Given(line, opt) == {i \in 1..Len(line) : line[i].opt = opt}
LastGiven(line, opt) == line[Max(Given(line, opt))].val
Asks(old, event) ==
  [opt \in DOMAIN old |->
     CASE opt \notin Options(event.kind) -> old[opt]
       [] opt \in Options(event.kind) /\ Given(event.line, "reset") # {} -> Defaults[opt]
       [] OTHER -> IF \/ Given(event.line, opt) = {}
                      \/ opt \in Names /\ LastGiven(event.line, opt) = 0
                   THEN old[opt] ELSE LastGiven(event.line, opt)]

Queued(s) ==
  /\ shell[s].doing = "send" /\ Len(queue) < QueueSize
  /\ LET event == shell[s].event IN
     /\ queue' = Append(queue, event)
     /\ asked' = IF event.kind \in {"config", "set"} THEN Asks(asked, event) ELSE asked
     /\ askedRun' = IF event.kind = "location" THEN event.run ELSE askedRun
  /\ shell' = [shell EXCEPT ![s] = Idle]
  /\ UNCHANGED <<conf, ran, live>>

\* Mutant: a context that was not queued is left to the thread.
RefusedLeft(event) == Idle

\* What the command does with the context of an event that was not queued.
Refused(event) == IF HasContext(event) THEN Freeing ELSE Idle

NotQueued(s) ==
  /\ shell[s].doing = "send" /\ Len(queue) = QueueSize
  /\ shell' = [shell EXCEPT ![s] = Refused(shell[s].event)]
  /\ UNCHANGED <<queue, conf, ran, live, asked, askedRun>>

FreeContext(s) ==
  /\ shell[s].doing = "free"
  /\ live' = live - 1
  /\ shell' = [shell EXCEPT ![s] = Idle]
  /\ UNCHANGED <<queue, conf, ran, asked, askedRun>>

-----------------------------------------------------------------------------
\* Mutant: the text is copied as long as it is.
StoredWhole(opt, val) == val

\* strncpy leaves the last byte of a text's place alone.
Stored(opt, val) == IF opt \in TextOpts /\ val >= Place(opt) THEN Place(opt) - 1 ELSE val

\* Mutant: a text is copied without a look at its length.
AppliesEmpty(opt, val) == opt \in NumberOpts => val > 0

\* An option of the context that is to be applied.  Of a text or an
\* identifying number zero means that it was not given; zero is a value of
\* every other option.
Applies(opt, val) ==
  IF opt \in Names THEN val > 0 ELSE val <= High(opt)

\* The stored options of conf and the size that is kept with the identifier.
WithParams(params) ==
  [opt \in DOMAIN conf |->
     CASE opt = "ident_size" /\ "ident" \in DOMAIN params ->
            IF params["ident"] > 0 THEN params["ident"] ELSE conf[opt]
       [] opt \in DOMAIN params ->
            IF Applies(opt, params[opt]) THEN Stored(opt, params[opt]) ELSE conf[opt]
       [] OTHER -> conf[opt]]

\* reset_dult_config clears the battery level with the rest of dult_conf.
ResetBy(kind) ==
  IF kind = "config" THEN ConfigOpts \cup {"ident_size", "level"} ELSE {"ignore", "status", "level"}

WithDefaults(opts) == [opt \in DOMAIN conf |-> IF opt \in opts THEN Defaults[opt] ELSE conf[opt]]

First == Head(queue)

DultConfig ==
  /\ queue # <<>> /\ First.kind = "config"
  /\ conf' = IF First.reset THEN WithDefaults(ResetBy("config")) ELSE WithParams(First.params)
  /\ live' = live - 1
  /\ queue' = Tail(queue)
  /\ UNCHANGED <<shell, ran, asked, askedRun>>

DultSet ==
  /\ queue # <<>> /\ First.kind = "set"
  /\ conf' = IF First.reset THEN WithDefaults(ResetBy("set")) ELSE WithParams(First.params)
  /\ live' = live - 1
  /\ queue' = Tail(queue)
  /\ UNCHANGED <<shell, ran, asked, askedRun>>

LocationRun ==
  /\ queue # <<>> /\ First.kind = "location"
  /\ ran' = First.run
  /\ live' = live - 1
  /\ queue' = Tail(queue)
  /\ UNCHANGED <<shell, conf, asked, askedRun>>

PlainEvent ==
  /\ queue # <<>> /\ First.kind = "plain"
  /\ queue' = Tail(queue)
  /\ UNCHANGED <<shell, conf, ran, live, asked, askedRun>>

NoRun == <<"none", 0>>

\* dult_init_config runs before main.
Init ==
  /\ shell = [s \in Shells |-> Idle]
  /\ queue = <<>>
  /\ conf = Defaults
  /\ ran = NoRun /\ askedRun = NoRun
  /\ live = 0
  /\ asked = Defaults

Command(s) ==
  \/ TypeDult(s) \/ ParseOption(s) \/ ParseEnd(s) \/ TypeLocation(s) \/ TypePlain(s)
  \/ Queued(s) \/ NotQueued(s) \/ FreeContext(s)

SidewalkThread == DultConfig \/ DultSet \/ LocationRun \/ PlainEvent

Next == (\E s \in Shells : Command(s)) \/ SidewalkThread

Spec == Init /\ [][Next]_vars

-----------------------------------------------------------------------------
\* Every option is within the range the command names, and a text leaves room
\* for the byte that ends it; the queue is bounded.
TypeOK ==
  /\ \A opt \in TextOpts : conf[opt] \in 0..(Place(opt) - 1)
  /\ \A opt \in Kept \ (TextOpts \cup {"ident_size"}) : conf[opt] \in Low(opt)..High(opt)
  /\ conf["ident_size"] \in conf["ident"]..Place("ident")
  /\ Len(queue) <= QueueSize
  /\ live \in Nat

\* Every context that is allocated has one owner: the command that fills,
\* sends or frees it, or the queue.  None is lost when parsing stops or the
\* queue is full, and none is freed twice.
Owners == {s \in Shells : \/ shell[s].doing \in {"parse", "free"}
                          \/ shell[s].doing = "send" /\ HasContext(shell[s].event)}
Owned(q) == {i \in 1..Len(q) : HasContext(q[i])}
ContextsHaveOneOwner == live = Cardinality(Owners) + Cardinality(Owned(queue))

Settled(opts) ==
  queue = <<>> => \A opt \in opts : conf[opt] = Stored(opt, asked[opt])

\* When every event has been handled, each text and identifying number is the
\* last one given in a command that was taken since the last reset (as much of
\* it as its place holds), and the location library's last run is the last one
\* asked for: commands of two shells, refused options and full queues leave
\* nothing behind.
NamesAsAsked ==
  /\ Settled(Names)
  /\ queue = <<>> => ran = askedRun

\* The events' comments, "Update configuration with provided parameters" and
\* "Update behavior with provided parameters", say it of every option: one
\* that no command has given keeps its value.
OptionsAsAsked == Settled(Kept \ {"ident_size"})
=============================================================================
