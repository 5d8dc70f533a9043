------------------------------ MODULE DoorStatus ------------------------------
(***************************************************************************)
(* How units join the cabinet and how the doors' state reaches the server: *)
(* the units' heartbeats and the SYNC_LIVE handshake, the door reports of  *)
(* the units' timer and main loop (iValuableUnit/main.cpp), the            *)
(* controller's CAN poll thread (HeartbeatArrival, OnDoorChanged), the     *)
(* LockGroup it keeps (UnitManager), and the Traversal thread that reports *)
(* the group to the server.                                                *)
(*                                                                         *)
(* The units of one group, all lock controllers: groups do not interact.   *)
(* Firmware updates, and with them Recover, are left out.                  *)
(***************************************************************************)
EXTENDS Integers, Sequences

CONSTANTS
  Units,            \* the units of the group
  Strangers,        \* those of a type that HeartbeatArrival does not know
  MaxControllerBoots,  \* bound: how often the controller starts
  MaxUnitBoots,     \* bound: how often units start, in all
  MaxMoves,         \* bound: how often doors move, in all
  MaxFrames,        \* bound: frames on their way to the controller
  MaxUnanswered     \* heartbeats a unit sends before one is answered

ASSUME StrangersAssumption == Strangers \subseteq Units
ASSUME BoundsAssumption ==
  /\ MaxControllerBoots \in Nat /\ MaxUnitBoots \in Nat /\ MaxMoves \in Nat
  /\ MaxFrames \in Nat /\ MaxUnanswered \in Nat

VARIABLES
  unit,       \* each unit's flags
  door,       \* whether each door is open
  sync,       \* SYNC_LIVE frames on their way to each unit
  rx,         \* frames on their way to the controller, in order
  unitList,   \* the units the controller knows
  group,      \* the LockGroup
  trav,       \* the Traversal thread
  connected,  \* the connection to the server, as IsConnected() sees it
  told,       \* history: what the server was told since Traversal saw it go
  starts      \* bound: starts of the controller and of units, door moves

unitVars == <<unit, door>>
hostVars == <<unitList, group>>
netVars == <<trav, connected, told>>
vars == <<unitVars, sync, rx, hostVars, netVars, starts>>

UnitState == [up: BOOLEAN, Connected: BOOLEAN, Registered: BOOLEAN,
              DoorState: BOOLEAN, DoorChangedEvent: BOOLEAN, reported: BOOLEAN]
Frame == [kind: {"heartbeat", "door"}, from: Units, open: BOOLEAN]
LockGroup == [lockMap: UNION {[S -> BOOLEAN] : S \in SUBSET Units},
              open: BOOLEAN, last: BOOLEAN, changed: BOOLEAN]
TraversalThread == [pc: {"loop", "check", "clear", "report"},
                    forceReport: BOOLEAN, result: BOOLEAN]

TypeOK ==
  /\ unit \in [Units -> UnitState]
  /\ door \in [Units -> BOOLEAN]
  /\ sync \in [Units -> Nat]
  /\ rx \in Seq(Frame)
  /\ unitList \subseteq Units
  /\ group \in LockGroup
  /\ trav \in TraversalThread
  /\ connected \in BOOLEAN
  /\ told \in {"nothing", "open", "closed"}
  /\ starts \in [controller: 0 .. MaxControllerBoots, unit: 0 .. MaxUnitBoots,
                 moves: 0 .. MaxMoves]

NoGroup == [lockMap |-> [u \in {} |-> FALSE], open |-> FALSE, last |-> FALSE, changed |-> FALSE]
FirstTraversal == [pc |-> "loop", forceReport |-> TRUE, result |-> FALSE]
Booted == [up |-> TRUE, Connected |-> TRUE, Registered |-> FALSE,
           DoorState |-> FALSE, DoorChangedEvent |-> FALSE, reported |-> FALSE]

Init ==
  /\ unit = [u \in Units |-> [Booted EXCEPT !.up = FALSE]]
  /\ door \in [Units -> BOOLEAN]
  /\ sync = [u \in Units |-> 0]
  /\ rx = <<>>
  /\ unitList = {}
  /\ group = NoGroup
  /\ trav = FirstTraversal
  /\ connected = FALSE /\ told = "nothing"
  /\ starts = [controller |-> 0, unit |-> 0, moves |-> 0]

Running == starts.controller > 0

----------------------------------------------------------------------------
(* The units.                                                              *)

(* Faulty variant: the unit starts unconnected.                            *)
UnitBootsUnconnected(u) ==
  /\ starts.unit < MaxUnitBoots
  /\ starts' = [starts EXCEPT !.unit = @ + 1]
  /\ unit' = [unit EXCEPT ![u] = [Booted EXCEPT !.Connected = FALSE]]
  /\ UNCHANGED <<door, sync, rx, hostVars, netVars>>

(* A unit starts, or starts again: Connected is TRUE from the outset, so   *)
(* it sends no heartbeat until a SYNC_LIVE has toggled it.                 *)
UnitBoots(u) ==
  /\ starts.unit < MaxUnitBoots
  /\ starts' = [starts EXCEPT !.unit = @ + 1]
  /\ unit' = [unit EXCEPT ![u] = Booted]
  /\ UNCHANGED <<door, sync, rx, hostVars, netVars>>

Unanswered(u) ==
  sync[u] + Len(SelectSeq(rx, LAMBDA f : f.kind = "heartbeat" /\ f.from = u))

(* TIMER32_0: a heartbeat every HeartbeatInterval while not connected. The *)
(* frame may be lost; then the interval passes and nothing has changed.    *)
Heartbeat(u) ==
  /\ Running /\ unit[u].up /\ ~unit[u].Connected
  /\ Unanswered(u) < MaxUnanswered /\ Len(rx) < MaxFrames
  /\ rx' = Append(rx, [kind |-> "heartbeat", from |-> u, open |-> FALSE])
  /\ UNCHANGED <<unitVars, sync, hostVars, netVars, starts>>

(* Faulty variant: the unit toggles without a frame that tells it to.      *)
SyncUnasked(u) ==
  /\ unit[u].up
  /\ sync' = [sync EXCEPT ![u] = @ - 1]
  /\ unit' = [unit EXCEPT ![u].Connected = ~@]
  /\ UNCHANGED <<door, rx, hostVars, netVars, starts>>

(* CAN interrupt: CanexSyncTrigger(SYNC_LIVE).                             *)
SyncArrives(u) ==
  /\ sync[u] > 0 /\ unit[u].up
  /\ sync' = [sync EXCEPT ![u] = @ - 1]
  /\ LET now == ~unit[u].Connected IN
     unit' = [unit EXCEPT ![u] = [@ EXCEPT !.Connected = now, !.Registered = now,
                !.DoorChangedEvent = unit[u].DoorChangedEvent \/ now]]
  /\ UNCHANGED <<door, rx, hostVars, netVars, starts>>

SyncLost(u) ==
  /\ sync[u] > 0
  /\ sync' = [sync EXCEPT ![u] = @ - 1]
  /\ UNCHANGED <<unitVars, rx, hostVars, netVars, starts>>

DoorMoves(u) ==
  /\ starts.moves < MaxMoves
  /\ starts' = [starts EXCEPT !.moves = @ + 1]
  /\ door' = [door EXCEPT ![u] = ~@]
  /\ UNCHANGED <<unit, sync, rx, hostVars, netVars>>

(* TIMER32_1 samples the door.                                             *)
DoorSampled(u) ==
  /\ unit[u].up /\ unit[u].DoorState # door[u]
  /\ unit' = [unit EXCEPT ![u] = [@ EXCEPT !.DoorState = door[u], !.DoorChangedEvent = TRUE]]
  /\ UNCHANGED <<door, sync, rx, hostVars, netVars, starts>>

(* Main loop: ReportDoorState; the frame may be lost.                      *)
ReportDoorState(u) ==
  /\ unit[u].up /\ unit[u].DoorChangedEvent /\ ~unit[u].reported
  /\ unit' = [unit EXCEPT ![u].reported = TRUE]
  /\ \/ /\ Running /\ Len(rx) < MaxFrames
        /\ rx' = Append(rx, [kind |-> "door", from |-> u, open |-> unit[u].DoorState])
     \/ UNCHANGED rx
  /\ UNCHANGED <<door, sync, hostVars, netVars, starts>>

(* Only then is the event cleared, with what the timer has set meanwhile.  *)
ClearDoorChanged(u) ==
  /\ unit[u].up /\ unit[u].reported
  /\ unit' = [unit EXCEPT ![u] = [@ EXCEPT !.DoorChangedEvent = FALSE, !.reported = FALSE]]
  /\ UNCHANGED <<door, sync, rx, hostVars, netVars, starts>>

Unit(u) ==
  \/ UnitBoots(u) \/ Heartbeat(u) \/ SyncArrives(u) \/ SyncLost(u)
  \/ DoorMoves(u) \/ DoorSampled(u) \/ ReportDoorState(u) \/ ClearDoorChanged(u)

----------------------------------------------------------------------------
(* The controller's CAN poll thread.                                       *)

(* main(): everything starts afresh, and SyncAll(SyncLive) reaches those   *)
(* units that are on and whose frame is not lost.                          *)
ControllerBoots ==
  /\ starts.controller < MaxControllerBoots
  /\ starts' = [starts EXCEPT !.controller = @ + 1]
  /\ \E reached \in SUBSET {u \in Units : unit[u].up} :
       sync' = [u \in Units |-> IF u \in reached THEN sync[u] + 1 ELSE sync[u]]
  /\ rx' = <<>>
  /\ unitList' = {} /\ group' = NoGroup
  /\ trav' = FirstTraversal /\ connected' = FALSE /\ told' = "nothing"
  /\ UNCHANGED unitVars

(* AddLock.                                                                *)
WithLock(g, u) ==
  [g EXCEPT !.lockMap = [n \in DOMAIN @ \cup {u} |-> IF n = u THEN FALSE ELSE g.lockMap[n]]]

(* Faulty variant: only the heartbeat of an unknown unit is answered.      *)
HeartbeatOfKnownIgnored ==
  /\ rx # <<>> /\ Head(rx).kind = "heartbeat"
  /\ rx' = Tail(rx)
  /\ LET u == Head(rx).from IN
     \/ u \in Strangers \cup unitList /\ UNCHANGED <<sync, hostVars>>
     \/ /\ u \notin Strangers \cup unitList
        /\ sync' = [sync EXCEPT ![u] = @ + 1]
        /\ unitList' = unitList \cup {u}
        /\ group' = WithLock(group, u)
  /\ UNCHANGED <<unitVars, netVars, starts>>

(* HeartbeatArrival: an unknown unit is added, unless its type is unknown  *)
(* too; SYNC_LIVE is sent in any case, once for every heartbeat.           *)
HeartbeatArrival ==
  /\ rx # <<>> /\ Head(rx).kind = "heartbeat"
  /\ rx' = Tail(rx)
  /\ LET u == Head(rx).from IN
     /\ sync' = [sync EXCEPT ![u] = @ + 1]
     /\ \/ u \in Strangers \cup unitList /\ UNCHANGED hostVars
        \/ /\ u \notin Strangers \cup unitList
           /\ unitList' = unitList \cup {u}
           /\ group' = WithLock(group, u)
  /\ UNCHANGED <<unitVars, netVars, starts>>

(* What LockOne and UnlockOne leave of g when its lock map has become      *)
(* lockMap.                                                                *)
Settle(g, lockMap, open) ==
  [lockMap |-> lockMap, open |-> open, last |-> open, changed |-> open # g.last]

(* Faulty variant: LockOne does not look at the other locks.               *)
LockOneAlone(g, u) ==
  IF u \in DOMAIN g.lockMap THEN Settle(g, [g.lockMap EXCEPT ![u] = FALSE], FALSE) ELSE g

(* LockOne looks at all the locks, UnlockOne at none.                      *)
LockOne(g, u) ==
  LET lockMap == [g.lockMap EXCEPT ![u] = FALSE] IN
  IF u \in DOMAIN g.lockMap
  THEN Settle(g, lockMap, \E n \in DOMAIN lockMap : lockMap[n]) ELSE g

UnlockOne(g, u) ==
  IF u \in DOMAIN g.lockMap THEN Settle(g, [g.lockMap EXCEPT ![u] = TRUE], TRUE) ELSE g

(* ProcessRecievedEvent: OnDoorChanged of a registered unit; nothing is    *)
(* done for others.                                                        *)
DoorReportArrives ==
  /\ rx # <<>> /\ Head(rx).kind = "door"
  /\ rx' = Tail(rx)
  /\ LET u == Head(rx).from IN
     \/ u \notin unitList /\ UNCHANGED group
     \/ u \in unitList /\ Head(rx).open /\ group' = UnlockOne(group, u)
     \/ u \in unitList /\ ~Head(rx).open /\ group' = LockOne(group, u)
  /\ UNCHANGED <<unitVars, sync, unitList, netVars, starts>>

CanPoll == HeartbeatArrival \/ DoorReportArrives

----------------------------------------------------------------------------
(* The Traversal thread and the connection.                                *)

(* The connection is down: all shall be reported when it is up again.      *)
TraversalWaits ==
  /\ Running /\ trav.pc = "loop" /\ ~connected
  /\ trav' = [trav EXCEPT !.forceReport = TRUE]
  /\ told' = "nothing"
  /\ UNCHANGED <<unitVars, sync, rx, hostVars, connected, starts>>

(* Faulty variant: forceReport is cleared before the group is looked at.   *)
TraversalForgets ==
  /\ Running /\ trav.pc = "loop" /\ connected
  /\ trav' = [trav EXCEPT !.forceReport = FALSE, !.pc = IF unitList = {} THEN "loop" ELSE "check"]
  /\ UNCHANGED <<unitVars, sync, rx, hostVars, connected, told, starts>>

(* It is up: to the group, if there is one.                                *)
TraversalStarts ==
  /\ Running /\ trav.pc = "loop" /\ connected
  /\ trav' = IF unitList = {} THEN [trav EXCEPT !.forceReport = FALSE]
                              ELSE [trav EXCEPT !.pc = "check"]
  /\ UNCHANGED <<unitVars, sync, rx, hostVars, connected, told, starts>>

(* forceReport || CheckChanged(): read changed ...                         *)
ReadChanged ==
  /\ trav.pc = "check"
  /\ trav' = IF trav.forceReport THEN [trav EXCEPT !.pc = "report"]
             ELSE [trav EXCEPT !.pc = "clear", !.result = group.changed]
  /\ UNCHANGED <<unitVars, sync, rx, hostVars, connected, told, starts>>

(* ... and clear it, whatever was read.                                    *)
ClearChanged ==
  /\ trav.pc = "clear"
  /\ group' = [group EXCEPT !.changed = FALSE]
  /\ trav' = [trav EXCEPT !.pc = IF trav.result THEN "report" ELSE "loop", !.result = FALSE]
  /\ UNCHANGED <<unitVars, sync, rx, unitList, connected, told, starts>>

Status == IF group.open THEN "open" ELSE "closed"

(* SendDoorData: SendData refuses when the connection is down.             *)
SendDoorData ==
  /\ trav.pc = "report"
  /\ trav' = [trav EXCEPT !.pc = "loop", !.forceReport = FALSE]
  /\ told' = IF connected THEN Status ELSE told
  /\ UNCHANGED <<unitVars, sync, rx, hostVars, connected, starts>>

Traversal == TraversalWaits \/ TraversalStarts \/ ReadChanged \/ ClearChanged \/ SendDoorData

ConnectionChanges ==
  /\ Running
  /\ connected' = ~connected
  /\ UNCHANGED <<unitVars, sync, rx, hostVars, trav, told, starts>>

----------------------------------------------------------------------------
Next ==
  \/ \E u \in Units : Unit(u)
  \/ ControllerBoots
  \/ CanPoll
  \/ Traversal
  \/ ConnectionChanges

(* The controller's threads of equal priority all run; a unit repeats its  *)
(* heartbeats, and neither they nor the answers are lost for ever.         *)
Fairness ==
  /\ WF_vars(CanPoll)
  /\ WF_vars(Traversal)
  /\ \A u \in Units : SF_vars(Heartbeat(u)) /\ SF_vars(SyncArrives(u))

Spec == Init /\ [][Next]_vars
FairSpec == Spec /\ Fairness

----------------------------------------------------------------------------
(* Properties.                                                             *)

(* "Registered by host" (iValuableUnit/main.h:60): a unit that takes       *)
(* itself for registered, and so is silent, is known to the controller.    *)
RegisteredMeansKnown ==
  \A u \in Units \ Strangers : unit[u].Registered => u \in unitList

(* The group is open exactly if one of its locks is: what LockOne, which   *)
(* looks at all of them, and UnlockOne, which does not, maintain together, *)
(* also while units are added to a group that is open.                     *)
OpenIsAnyLock == group.open = \E u \in DOMAIN group.lockMap : group.lockMap[u]

(* Once SYNC_LIVE has made it send heartbeats, a unit is answered and      *)
(* stops, although every frame of the handshake may be lost and the answer *)
(* is a toggle, which the answer to a second heartbeat would undo.         *)
HandshakeEnds ==
  \A u \in Units : unit[u].up /\ ~unit[u].Connected ~> unit[u].Connected

(* After Traversal has seen the connection down, the group's state is      *)
(* reported as soon as the connection lasts, whatever happened meanwhile.  *)
ReportedAfterReconnect ==
  Running /\ trav.pc = "loop" /\ trav.forceReport /\ connected /\ unitList # {}
    ~> told # "nothing" \/ ~connected

(* "Prevent missing status" (iValuableController/main.cpp:106): when the   *)
(* server has been told once and Traversal has nothing left to report, the *)
(* server knows the group's state.                                         *)
NothingMissing ==
  connected /\ told # "nothing" /\ trav.pc = "loop" /\ ~trav.forceReport /\ ~group.changed
    => told = Status
=============================================================================
