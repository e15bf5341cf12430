------------------------------ MODULE CliUiProofs ------------------------------
(* Theorems about the companion features (CliUi), for any number of          *)
(* connection objects, also of Sidewalk's.                                   *)
EXTENDS CliUi, FiniteSetTheorems, TLAPS

NusUses == UsedBy("nus", {"adv", "up"})

\* The NUS shell has at most one object that is not closed.
OneNusObject == \A c, d \in NusUses : c = d

\* The object that is referred to is a connected client's.
ReferenceIsUp == nusConn # None => nusConn \in UsedBy("nus", {"up"})

\* A restart is pending or queued only while there is nothing to restart: so it
\* does not matter whose object is recycled first.
RestartFindsNone ==
  /\ restartWork \/ restartPending => NusUses = {}
  /\ ~(restartWork /\ restartPending)

ShipTypeOK ==
  /\ requested \in BOOLEAN /\ sidewalk \in BOOLEAN /\ power \in BOOLEAN
  /\ ship \in {"idle", "requested", "due", "waiting", "entering"}
  /\ prepare \in {"none", "queued", "done"}
  /\ requests \in 0..MaxRequests
  /\ requested = (ship # "idle")

NusTypeOK ==
  /\ restartPending \in BOOLEAN /\ restartWork \in BOOLEAN
  /\ conn \in [Conns -> Uses] /\ nusConn \in Conns \cup {None}

NusInv == NusTypeOK /\ OneNusObject /\ ReferenceIsUp /\ RestartFindsNone

-----------------------------------------------------------------------------
(* Ship mode.                                                              *)

LEMMA ShipStep ==
  ASSUME ShipTypeOK, [Next]_vars
  PROVE  ShipTypeOK'
<1>1. CASE RequestShipMode
  <2>1. requests' \in 0..MaxRequests
    BY <1>1, CliUiAssumption DEF RequestShipMode, ShipTypeOK
  <2> QED
    BY <1>1, <2>1 DEF RequestShipMode, ShipTypeOK
<1>2. CASE ShipWorkDue
  BY <1>2 DEF ShipWorkDue, ShipTypeOK
<1>3. CASE AskSidewalk
  BY <1>3 DEF AskSidewalk, ShipTypeOK
<1>4. CASE PrepareForShip
  BY <1>4 DEF PrepareForShip, ShipTypeOK
<1>5. CASE SidewalkStopped
  BY <1>5 DEF SidewalkStopped, ShipTypeOK
<1>6. CASE SidewalkTimesOut
  BY <1>6 DEF SidewalkTimesOut, WaitOver, ShipTypeOK
<1>7. CASE PowerOff
  BY <1>7 DEF PowerOff, ShipTypeOK
<1>8. CASE ShipModeFails
  BY <1>8 DEF ShipModeFails, RequestEnds, ShipTypeOK
<1>9. CASE UNCHANGED shipVars
  BY <1>9 DEF shipVars, ShipTypeOK
<1> QED
  BY <1>1, <1>2, <1>3, <1>4, <1>5, <1>6, <1>7, <1>8, <1>9
  DEF Next, NusAdvRestart, NusConnected, NusConnectionFailed, NusDisconnected, NusRecycled,
      SidewalkAdvertises, SidewalkConnects, SidewalkCloses, vars

-----------------------------------------------------------------------------
(* The NUS shell.                                                          *)

\* One connection object changes its use.
LEMMA ConnChanged ==
  ASSUME NusTypeOK, NEW c \in Conns, NEW use \in Uses, conn' = [conn EXCEPT ![c] = use]
  PROVE  /\ conn' \in [Conns -> Uses] /\ conn'[c] = use
         /\ \A d \in Conns : d # c => conn'[d] = conn[d]
BY DEF NusTypeOK

\* A use goes on in another phase.
LEMMA NextPhase ==
  ASSUME NusTypeOK, NEW c \in Conns, conn[c].phase \in {"adv", "up", "closed"},
         NEW phase \in {"adv", "up", "closed"}, conn' = [conn EXCEPT ![c].phase = phase]
  PROVE  /\ conn' \in [Conns -> Uses]
         /\ conn'[c].owner = conn[c].owner /\ conn'[c].phase = phase
         /\ \A d \in Conns : d # c => conn'[d] = conn[d]
<1> DEFINE use == [conn[c] EXCEPT !.phase = phase]
<1>1. conn[c] \in [owner : {"nus", "sid"}, phase : {"adv", "up", "closed"}]
  BY DEF NusTypeOK, Uses, Free
<1>2. /\ use \in [owner : {"nus", "sid"}, phase : {"adv", "up", "closed"}]
      /\ use.owner = conn[c].owner /\ use.phase = phase
  BY <1>1
<1>3. conn' = [conn EXCEPT ![c] = use] /\ use \in Uses
  BY <1>2 DEF Uses
<1> QED
  BY <1>2, <1>3, ConnChanged

\* The NUS shell's objects are not touched, and its own state is not either.
LEMMA OthersObject ==
  ASSUME NusInv, UNCHANGED <<nusConn, restartPending, restartWork>>, conn' \in [Conns -> Uses],
         \A d \in Conns : \/ conn'[d] = conn[d]
                          \/ ~(conn[d].owner = "nus" /\ conn[d].phase \in {"adv", "up"})
                             /\ ~(conn'[d].owner = "nus" /\ conn'[d].phase \in {"adv", "up"})
  PROVE  NusInv'
<1>1. NusUses' = NusUses /\ UsedBy("nus", {"up"})' = UsedBy("nus", {"up"})
  BY DEF NusUses, UsedBy
<1> QED
  BY <1>1 DEF NusInv, NusTypeOK, OneNusObject, ReferenceIsUp, RestartFindsNone

LEMMA InitNus == Init => ShipTypeOK /\ NusInv
<1> SUFFICES ASSUME Init PROVE ShipTypeOK /\ NusInv
  OBVIOUS
<1>1. ShipTypeOK
  <2>1. /\ ~requested /\ requested \in BOOLEAN /\ ship = "idle"
        /\ sidewalk \in BOOLEAN /\ power \in BOOLEAN
    BY DEF Init
  <2>2. requested = (ship # "idle")
    BY <2>1
  <2>3. prepare = "none" /\ requests \in 0..MaxRequests
    BY CliUiAssumption DEF Init
  <2> QED
    BY <2>1, <2>2, <2>3 DEF ShipTypeOK
<1>2. PICK c \in Conns :
        conn = [d \in Conns |-> IF d = c THEN [owner |-> "nus", phase |-> "adv"] ELSE Free]
  BY DEF Init
<1>3. NusTypeOK
  BY <1>2 DEF Init, NusTypeOK, Uses
<1>4. NusUses \subseteq {c}
  BY <1>2 DEF NusUses, UsedBy, Free
<1>5. OneNusObject
  BY <1>4 DEF OneNusObject
<1>6. ReferenceIsUp
  BY DEF Init, ReferenceIsUp
<1>7. RestartFindsNone
  <2>1. ~restartWork /\ ~restartPending
    BY DEF Init
  <2> QED
    BY <2>1 DEF RestartFindsNone
<1> QED
  BY <1>1, <1>3, <1>5, <1>6, <1>7 DEF NusInv

LEMMA NusAdvRestartInv ==
  ASSUME NusInv, NusAdvRestart
  PROVE  NusInv'
<1>1. /\ NusUses = {} /\ nusConn = None /\ nusConn' = nusConn
      /\ restartWork' = FALSE /\ restartPending = FALSE /\ restartPending' = FALSE
  BY DEF NusAdvRestart, NusInv, NusTypeOK, RestartFindsNone, ReferenceIsUp, NusUses, UsedBy
<1>2. CASE UNCHANGED conn
  <2>1. NusUses' = {}
    BY <1>1, <1>2 DEF NusUses, UsedBy
  <2> QED
    BY <1>1, <1>2, <2>1 DEF NusInv, NusTypeOK, OneNusObject, ReferenceIsUp, RestartFindsNone
<1>3. CASE ~UNCHANGED conn
  <2>1. PICK c \in Conns : conn' = [conn EXCEPT ![c] = [owner |-> "nus", phase |-> "adv"]]
    BY <1>3 DEF NusAdvRestart, NusAdvStart, FreeConns
  <2>2. [owner |-> "nus", phase |-> "adv"] \in Uses
    BY DEF Uses
  <2>3. conn' \in [Conns -> Uses] /\ \A d \in Conns : d # c => conn'[d] = conn[d]
    BY <2>1, <2>2, ConnChanged DEF NusInv
  <2>4. NusUses' \subseteq {c}
    BY <1>1, <2>3 DEF NusUses, UsedBy
  <2> QED
    BY <1>1, <2>3, <2>4 DEF NusInv, NusTypeOK, OneNusObject, ReferenceIsUp, RestartFindsNone
<1> QED
  BY <1>2, <1>3

LEMMA NusConnectedInv ==
  ASSUME NusInv, NEW c \in Conns, NusConnected(c)
  PROVE  NusInv'
<1>1. /\ c \in NusUses /\ conn[c].owner = "nus" /\ conn[c].phase = "adv"
      /\ nusConn' = c /\ conn' = [conn EXCEPT ![c].phase = "up"]
      /\ UNCHANGED <<restartPending, restartWork>>
  BY DEF NusConnected, NusUses, UsedBy
<1>2. /\ conn' \in [Conns -> Uses] /\ conn'[c].owner = "nus" /\ conn'[c].phase = "up"
      /\ \A d \in Conns : d # c => conn'[d] = conn[d]
  BY <1>1, NextPhase DEF NusInv
<1>3. NusUses' = NusUses /\ c \in UsedBy("nus", {"up"})'
  BY <1>1, <1>2 DEF NusUses, UsedBy
<1> QED
  BY <1>1, <1>2, <1>3 DEF NusInv, NusTypeOK, OneNusObject, ReferenceIsUp, RestartFindsNone

LEMMA NusConnectionFailedInv ==
  ASSUME NusInv, NEW c \in Conns, NusConnectionFailed(c)
  PROVE  NusInv'
<1>1. /\ c \in NusUses /\ conn[c].phase = "adv"
      /\ conn' = [conn EXCEPT ![c] = Free] /\ nusConn' = nusConn
      /\ restartWork' = TRUE /\ restartPending' = FALSE
  BY DEF NusConnectionFailed, NusUses, UsedBy
<1>2. /\ conn' \in [Conns -> Uses] /\ conn'[c] = Free
      /\ \A d \in Conns : d # c => conn'[d] = conn[d]
  BY <1>1, ConnChanged DEF NusInv, Uses
<1>3. NusUses \subseteq {c}
  BY <1>1 DEF NusInv, OneNusObject
<1>4. NusUses' = {}
  BY <1>2, <1>3 DEF NusUses, UsedBy, Free
<1>5. nusConn = None
  BY <1>1, <1>3 DEF NusInv, ReferenceIsUp, NusUses, UsedBy
<1> QED
  BY <1>1, <1>2, <1>4, <1>5 DEF NusInv, NusTypeOK, OneNusObject, ReferenceIsUp, RestartFindsNone

LEMMA NusDisconnectedInv ==
  ASSUME NusInv, NEW c \in Conns, NusDisconnected(c)
  PROVE  NusInv'
<1>1. /\ c \in NusUses /\ conn[c].phase = "up"
      /\ conn' = [conn EXCEPT ![c].phase = "closed"] /\ nusConn' = None
      /\ restartPending' = TRUE /\ restartWork' = restartWork
  BY DEF NusDisconnected, ReferenceDropped, NusUses, UsedBy
<1>2. /\ conn' \in [Conns -> Uses] /\ conn'[c].phase = "closed"
      /\ \A d \in Conns : d # c => conn'[d] = conn[d]
  BY <1>1, NextPhase DEF NusInv
<1>3. NusUses \subseteq {c} /\ restartWork = FALSE
  BY <1>1 DEF NusInv, NusTypeOK, OneNusObject, RestartFindsNone
<1>4. NusUses' = {}
  BY <1>2, <1>3 DEF NusUses, UsedBy
<1> QED
  BY <1>1, <1>2, <1>3, <1>4 DEF NusInv, NusTypeOK, OneNusObject, ReferenceIsUp, RestartFindsNone

LEMMA NusRecycledInv ==
  ASSUME NusInv, NEW c \in Conns, NusRecycled(c)
  PROVE  NusInv'
<1>1. /\ conn[c].phase = "closed" /\ conn' = [conn EXCEPT ![c] = Free]
      /\ nusConn' = nusConn /\ restartWork' = (restartWork \/ restartPending)
      /\ restartPending' = FALSE
  BY DEF NusRecycled, RestartTaken
<1>2. /\ conn' \in [Conns -> Uses] /\ conn'[c] = Free
      /\ \A d \in Conns : d # c => conn'[d] = conn[d]
  BY <1>1, ConnChanged DEF NusInv, Uses
<1>3. NusUses' = NusUses /\ UsedBy("nus", {"up"})' = UsedBy("nus", {"up"})
  BY <1>1, <1>2 DEF NusUses, UsedBy, Free
<1>4. NusTypeOK'
  BY <1>1, <1>2 DEF NusInv, NusTypeOK
<1>5. OneNusObject' /\ ReferenceIsUp'
  BY <1>1, <1>3 DEF NusInv, OneNusObject, ReferenceIsUp
<1>6. RestartFindsNone'
  BY <1>1, <1>3 DEF NusInv, RestartFindsNone
<1> QED
  BY <1>4, <1>5, <1>6 DEF NusInv

LEMMA SidewalkInv ==
  ASSUME NusInv, SidewalkAdvertises \/ SidewalkConnects \/ SidewalkCloses
  PROVE  NusInv'
<1>1. UNCHANGED <<nusConn, restartPending, restartWork>>
  BY DEF SidewalkAdvertises, SidewalkConnects, SidewalkCloses
<1>2. CASE SidewalkAdvertises
  <2>1. PICK c \in Conns : /\ conn[c] = Free
                           /\ conn' = [conn EXCEPT ![c] = [owner |-> "sid", phase |-> "adv"]]
    BY <1>2 DEF SidewalkAdvertises, FreeConns
  <2>2. [owner |-> "sid", phase |-> "adv"] \in Uses
    BY DEF Uses
  <2>3. /\ conn' \in [Conns -> Uses] /\ conn'[c] = [owner |-> "sid", phase |-> "adv"]
        /\ \A d \in Conns : d # c => conn'[d] = conn[d]
    BY <2>1, <2>2, ConnChanged DEF NusInv
  <2> QED
    BY <1>1, <2>1, <2>3, OthersObject DEF Free
<1>3. CASE SidewalkConnects \/ SidewalkCloses
  <2>1. PICK c \in Conns, phase \in {"up", "closed"} :
          /\ conn[c].owner = "sid" /\ conn[c].phase \in {"adv", "up"}
          /\ conn' = [conn EXCEPT ![c].phase = phase]
    BY <1>3 DEF SidewalkConnects, SidewalkCloses, UsedBy
  <2>2. /\ conn' \in [Conns -> Uses] /\ conn'[c].owner = "sid"
        /\ \A d \in Conns : d # c => conn'[d] = conn[d]
    BY <2>1, NextPhase DEF NusInv
  <2> QED
    BY <1>1, <2>1, <2>2, OthersObject
<1> QED
  BY <1>2, <1>3

LEMMA NusStep ==
  ASSUME NusInv, [Next]_vars
  PROVE  NusInv'
<1>1. CASE UNCHANGED nusVars
  <2>1. UNCHANGED <<conn, nusConn, restartPending, restartWork>>
    BY <1>1 DEF nusVars
  <2> QED
    BY <2>1, OthersObject DEF NusInv, NusTypeOK
<1>2. CASE NusAdvRestart
  BY <1>2, NusAdvRestartInv
<1>3. CASE \E c \in Conns :
             NusConnected(c) \/ NusConnectionFailed(c) \/ NusDisconnected(c) \/ NusRecycled(c)
  BY <1>3, NusConnectedInv, NusConnectionFailedInv, NusDisconnectedInv, NusRecycledInv
<1>4. CASE SidewalkAdvertises \/ SidewalkConnects \/ SidewalkCloses
  BY <1>4, SidewalkInv
<1> QED
  BY <1>1, <1>2, <1>3, <1>4
  DEF Next, RequestShipMode, ShipWorkDue, AskSidewalk, PrepareForShip, SidewalkStopped,
      SidewalkTimesOut, PowerOff, ShipModeFails, vars

-----------------------------------------------------------------------------
\* The invariants of ship mode and of the NUS shell are inductive, each on its
\* own: the work queue that they share carries no state from one to the other.
THEOREM CliUiInvAlways == Spec => [](ShipTypeOK /\ NusInv)
<1>1. (ShipTypeOK /\ NusInv) /\ [Next]_vars => (ShipTypeOK /\ NusInv)'
  BY ShipStep, NusStep
<1> QED
  BY <1>1, InitNus, PTL DEF Spec

\* app_cli_ui.c: the flags, the work and the objects keep their types, and the
\* request flag is up exactly as long as there is work to enter ship mode.
THEOREM CliUiTypeCorrect == Spec => []TypeOK
<1>1. ShipTypeOK /\ NusInv => TypeOK
  BY DEF ShipTypeOK, NusInv, NusTypeOK, TypeOK
<1> QED
  BY <1>1, CliUiInvAlways, PTL

\* The NUS shell has one session, however many objects there are, whoever's
\* object is recycled, and whichever connection fails.
THEOREM OneNusSessionAlways == Spec => []OneNusSession
<1>1. ShipTypeOK /\ NusInv => OneNusSession
  <2> SUFFICES ASSUME NusInv PROVE OneNusSession
    OBVIOUS
  <2>1. CASE NusUses = {}
    BY <2>1, FS_EmptySet DEF NusInv, ReferenceIsUp, OneNusSession, NusUses
  <2>2. CASE NusUses # {}
    <3>1. PICK c \in NusUses : NusUses = {c}
      BY <2>2 DEF NusInv, OneNusObject
    <3>2. Cardinality(NusUses) = 1
      BY <3>1, FS_Singleton
    <3> QED
      BY <3>2 DEF NusInv, ReferenceIsUp, OneNusSession, NusUses
  <2> QED
    BY <2>1, <2>2
<1> QED
  BY <1>1, CliUiInvAlways, PTL
=============================================================================
