-------------------------------- MODULE CliUi --------------------------------
(***************************************************************************)
(* The DUT's companion features (app/src/cli/app_cli_ui.c): the request to *)
(* enter ship mode, which is work on the system work queue that waits for  *)
(* the sidewalk thread, and the NUS shell's advertiser, whose restart is   *)
(* work on the same queue.                                                 *)
(*                                                                         *)
(* The Bluetooth host is outside this repository.  It has a pool of        *)
(* connection objects: a connectable advertiser takes one and its          *)
(* connection keeps it until nothing refers to it; then it is recycled.    *)
(* Sidewalk's own advertiser and connection use the same pool.             *)
(***************************************************************************)
EXTENDS Naturals, FiniteSets

CONSTANTS
  Conns,            \* the connection objects (CONFIG_BT_MAX_CONN of them)
  None,             \* no connection
  SidewalkObjects,  \* how many of them Sidewalk may hold at a time
  MaxRequests       \* bound: requests to enter ship mode

ASSUME CliUiAssumption ==
  /\ Conns # {} /\ None \notin Conns
  /\ SidewalkObjects \in Nat
  /\ MaxRequests \in Nat

VARIABLES
  requested,       \* ship_mode_requested
  ship,            \* where the work that enters ship mode is
  prepare,         \* the event for the sidewalk thread, and its semaphore
  sidewalk,        \* sid->handle # NULL
  power,           \* FALSE once the nPM1300 has cut the power
  requests,        \* requests that were taken up (bound)
  conn,            \* the host: what each connection object is used for
  nusConn,         \* nus_conn, which holds a reference
  restartPending,  \* nus_restart_pending
  restartWork      \* nus_adv_restart_work is queued

shipVars == <<requested, ship, prepare, sidewalk, power, requests>>
nusVars  == <<conn, nusConn, restartPending, restartWork>>
vars == <<shipVars, nusVars>>

Free == [owner |-> None, phase |-> "free"]
Uses == {Free} \cup [owner : {"nus", "sid"}, phase : {"adv", "up", "closed"}]

UsedBy(owner, phases) == {c \in Conns : conn[c].owner = owner /\ conn[c].phase \in phases}
FreeConns == {c \in Conns : conn[c] = Free}

\* The work handler sleeps and waits, and the queue with it.
WorkQueueBusy == ship \in {"waiting", "entering"}

-----------------------------------------------------------------------------
(* Ship mode.                                                              *)

\* A shell command or a long press; only one of them gets past the flag.
RequestShipMode ==
  /\ power /\ ~requested /\ requests < MaxRequests
  /\ requested' = TRUE
  /\ ship' = "requested"
  /\ requests' = requests + 1
  /\ UNCHANGED <<prepare, sidewalk, power, nusVars>>

\* The work is scheduled, and due when the LED has blinked.
ShipWorkDue ==
  /\ power /\ ship = "requested"
  /\ ship' = "due"
  /\ UNCHANGED <<requested, prepare, sidewalk, power, requests, nusVars>>

\* enter_ship_mode asks the sidewalk thread to stop, if its queue has room.  An
\* event left over from a request that timed out points at the semaphore of a
\* call that has returned; the same thread's next call has its own in the same
\* place, so the two events are one here: either may end the wait.
AskSidewalk ==
  /\ power /\ ship = "due"
  /\ \/ ship' = "waiting" /\ prepare' = "queued"
     \/ ship' = "entering" /\ UNCHANGED prepare
  /\ UNCHANGED <<requested, sidewalk, power, requests, nusVars>>

\* sidewalk_prepare_for_ship, on the sidewalk thread
PrepareForShip ==
  /\ power /\ prepare = "queued"
  /\ sidewalk' = FALSE
  /\ prepare' = "done"
  /\ UNCHANGED <<requested, ship, power, requests, nusVars>>

\* The semaphore has been given ...
SidewalkStopped ==
  /\ power /\ ship = "waiting" /\ prepare = "done"
  /\ ship' = "entering" /\ prepare' = "none"
  /\ UNCHANGED <<requested, sidewalk, power, requests, nusVars>>

\* Mutant: the semaphore is waited for without a limit.
WaitNeverOver == FALSE

WaitOver == ship = "waiting"

\* ... or has not within 1500 ms: the event stays on the queue.
SidewalkTimesOut ==
  /\ power /\ WaitOver
  /\ ship' = "entering"
  /\ UNCHANGED <<requested, prepare, sidewalk, power, requests, nusVars>>

\* Mutant: a request that failed is not forgotten.
RequestStays == UNCHANGED requested

RequestEnds == requested' = FALSE

\* The regulator is asked for ship mode.  It cuts the power, or refuses, or
\* the device still runs a second later.
PowerOff ==
  /\ power /\ ship = "entering"
  /\ power' = FALSE
  /\ UNCHANGED <<requested, ship, prepare, sidewalk, requests, nusVars>>

ShipModeFails ==
  /\ power /\ ship = "entering"
  /\ ship' = "idle"
  /\ RequestEnds
  /\ UNCHANGED <<prepare, sidewalk, power, requests, nusVars>>

-----------------------------------------------------------------------------
(* The NUS shell.                                                          *)

\* bt_le_ext_adv_start: already advertising is no error, and without a free
\* connection object nothing starts.
NusAdvStart ==
  IF UsedBy("nus", {"adv"}) # {} \/ FreeConns = {}
  THEN UNCHANGED conn
  ELSE \E c \in FreeConns : conn' = [conn EXCEPT ![c] = [owner |-> "nus", phase |-> "adv"]]

\* nus_adv_restart_work_handler
NusAdvRestart ==
  /\ power /\ restartWork /\ ~WorkQueueBusy
  /\ restartWork' = FALSE
  /\ NusAdvStart
  /\ UNCHANGED <<nusConn, restartPending, shipVars>>

\* nus_connected, which replaces the reference it held
NusConnected(c) ==
  /\ power /\ c \in UsedBy("nus", {"adv"})
  /\ conn' = [conn EXCEPT ![c].phase = "up"]
  /\ nusConn' = c
  /\ UNCHANGED <<restartPending, restartWork, shipVars>>

\* nus_connected with an error: the restart is not left to nus_recycled.  The
\* host lets go of the object, on its own thread, before the work queue runs.
NusConnectionFailed(c) ==
  /\ power /\ c \in UsedBy("nus", {"adv"})
  /\ conn' = [conn EXCEPT ![c] = Free]
  /\ restartWork' = TRUE
  /\ restartPending' = FALSE
  /\ UNCHANGED <<nusConn, shipVars>>

\* Mutant: the reference is kept.
ReferenceKept == UNCHANGED nusConn

ReferenceDropped == nusConn' = None

\* nus_disconnected: the advertiser restarts when the object is recycled.
NusDisconnected(c) ==
  /\ power /\ c \in UsedBy("nus", {"up"})
  /\ conn' = [conn EXCEPT ![c].phase = "closed"]
  /\ ReferenceDropped
  /\ restartPending' = TRUE
  /\ UNCHANGED <<restartWork, shipVars>>

\* Mutant: the flag is read and not taken.
RestartSeen == UNCHANGED restartPending

RestartTaken == restartPending' = FALSE

\* nus_recycled, called for every object that goes back to the pool, whoever
\* used it
NusRecycled(c) ==
  /\ power /\ conn[c].phase = "closed" /\ nusConn # c
  /\ conn' = [conn EXCEPT ![c] = Free]
  /\ restartWork' = (restartWork \/ restartPending)
  /\ RestartTaken
  /\ UNCHANGED <<nusConn, shipVars>>

-----------------------------------------------------------------------------
\* Sidewalk advertises, is connected and lets go; the callbacks of the NUS
\* shell ignore its connections.
SidewalkAdvertises ==
  /\ power /\ UsedBy("sid", {"adv", "up"}) = {}
  /\ Cardinality(UsedBy("sid", {"closed"})) < SidewalkObjects
  /\ \E c \in FreeConns : conn' = [conn EXCEPT ![c] = [owner |-> "sid", phase |-> "adv"]]
  /\ UNCHANGED <<nusConn, restartPending, restartWork, shipVars>>

SidewalkConnects ==
  /\ power
  /\ \E c \in UsedBy("sid", {"adv"}) : conn' = [conn EXCEPT ![c].phase = "up"]
  /\ UNCHANGED <<nusConn, restartPending, restartWork, shipVars>>

SidewalkCloses ==
  /\ power
  /\ \E c \in UsedBy("sid", {"adv", "up"}) : conn' = [conn EXCEPT ![c].phase = "closed"]
  /\ UNCHANGED <<nusConn, restartPending, restartWork, shipVars>>

\* nus_shell_init has started the advertiser; Sidewalk may be running or not.
Init ==
  /\ requested = FALSE /\ ship = "idle" /\ prepare = "none"
  /\ sidewalk \in BOOLEAN /\ power = TRUE /\ requests = 0
  /\ nusConn = None /\ restartPending = FALSE /\ restartWork = FALSE
  /\ \E c \in Conns :
       conn = [d \in Conns |-> IF d = c THEN [owner |-> "nus", phase |-> "adv"] ELSE Free]

Next ==
  \/ RequestShipMode \/ ShipWorkDue \/ AskSidewalk \/ PrepareForShip
  \/ SidewalkStopped \/ SidewalkTimesOut \/ PowerOff \/ ShipModeFails
  \/ NusAdvRestart
  \/ \E c \in Conns :
       NusConnected(c) \/ NusConnectionFailed(c) \/ NusDisconnected(c) \/ NusRecycled(c)
  \/ SidewalkAdvertises \/ SidewalkConnects \/ SidewalkCloses

Spec == Init /\ [][Next]_vars

\* Delayed work falls due, the work queue runs, waits end, the regulator
\* answers, and an object nobody refers to is recycled.  Nothing is asked of
\* the sidewalk thread: it may be held up.
Fairness ==
  /\ WF_vars(ShipWorkDue) /\ WF_vars(AskSidewalk)
  /\ WF_vars(SidewalkStopped \/ SidewalkTimesOut)
  /\ WF_vars(PowerOff \/ ShipModeFails)
  /\ WF_vars(NusAdvRestart)
  /\ \A c \in Conns : WF_vars(NusRecycled(c))
FairSpec == Spec /\ Fairness

-----------------------------------------------------------------------------
\* The flags, the work and the connection objects keep their types, and the
\* request flag is up exactly while there is work to enter ship mode.
TypeOK ==
  /\ {requested, sidewalk, power, restartPending, restartWork} \subseteq BOOLEAN
  /\ ship \in {"idle", "requested", "due", "waiting", "entering"}
  /\ prepare \in {"none", "queued", "done"}
  /\ requests \in 0..MaxRequests
  /\ conn \in [Conns -> Uses]
  /\ nusConn \in Conns \cup {None}
  /\ requested = (ship # "idle")

\* The NUS shell has one session: its advertiser is not running while a client
\* is connected, and the client it refers to is connected.  A restart that is
\* triggered by another connection's object must not break this.
OneNusSession ==
  /\ Cardinality(UsedBy("nus", {"adv", "up"})) <= 1
  /\ nusConn # None => nusConn \in UsedBy("nus", {"up"})

\* A request ends with the power cut or with a device that can be asked again,
\* even if the sidewalk thread never answers or the regulator refuses.
ShipRequestEnds == requested ~> (~requested \/ ~power)
=============================================================================
