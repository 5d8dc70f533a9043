-------------------------- MODULE ControllerProofs --------------------------
(***************************************************************************)
(* Proofs about the rest of the controller: DoorStatus, that the group is  *)
(* open exactly if one of its locks is, and, when the controller starts    *)
(* once, that a registered unit is known to it, however many heartbeats    *)
(* overtake their answers; LineSend, that a message goes out in one piece; *)
(* UartLine, that the commands handed on are those that came; UserFlash,   *)
(* that settings and identity stay.                                        *)
(***************************************************************************)
EXTENDS DoorStatus, LineSend, UartLine, UserFlash, Lemmas

(* Units, groups and doors.                                                *)

Starts == [controller: 0 .. MaxControllerBoots, unit: 0 .. MaxUnitBoots, moves: 0 .. MaxMoves]

LEMMA NoGroupType == NoGroup \in LockGroup
<1>1. [u \in {} |-> FALSE] \in [{} -> BOOLEAN]
  OBVIOUS
<1>2. [u \in {} |-> FALSE] \in UNION {[S -> BOOLEAN] : S \in SUBSET Units}
  BY <1>1
<1> QED
  BY <1>2 DEF NoGroup, LockGroup

LEMMA InitType == Init => TypeOK
<1> SUFFICES ASSUME Init PROVE TypeOK
  OBVIOUS
<1>1. unit \in [Units -> UnitState]
  BY DEF Init, UnitState, Booted
<1>2. group \in LockGroup /\ trav \in TraversalThread
  BY NoGroupType DEF Init, FirstTraversal, TraversalThread
<1>3. starts \in Starts
  BY BoundsAssumption DEF Init, Starts
<1>4. sync \in [Units -> Nat] /\ rx \in Seq(Frame) /\ door \in [Units -> BOOLEAN]
      /\ unitList \subseteq Units
  BY DEF Init
<1>5. connected \in BOOLEAN /\ told \in {"nothing", "open", "closed"}
  BY DEF Init
<1> QED
  BY <1>1, <1>2, <1>3, <1>4, <1>5 DEF TypeOK, Starts

(* The starts that a step counts are within their bounds.                  *)
LEMMA StartsCount ==
  ASSUME TypeOK
  PROVE  /\ starts.unit < MaxUnitBoots => [starts EXCEPT !.unit = @ + 1] \in Starts
         /\ starts.moves < MaxMoves => [starts EXCEPT !.moves = @ + 1] \in Starts
         /\ starts.controller < MaxControllerBoots =>
               [starts EXCEPT !.controller = @ + 1] \in Starts
<1>1. starts \in Starts
  BY DEF TypeOK, Starts
<1>2. /\ starts.unit < MaxUnitBoots => starts.unit + 1 \in 0 .. MaxUnitBoots
      /\ starts.moves < MaxMoves => starts.moves + 1 \in 0 .. MaxMoves
      /\ starts.controller < MaxControllerBoots =>
            starts.controller + 1 \in 0 .. MaxControllerBoots
  BY <1>1, BoundsAssumption DEF Starts
<1> QED
  BY <1>1, <1>2 DEF Starts

(* A sequence of frames stays one when a frame is appended, or taken off.  *)
LEMMA FrameSeq ==
  ASSUME NEW s \in Seq(Frame)
  PROVE  /\ \A f \in Frame : Append(s, f) \in Seq(Frame)
         /\ s # <<>> => Tail(s) \in Seq(Frame) /\ Head(s) \in Frame
  OBVIOUS

LEMMA SettleType ==
  ASSUME NEW g \in LockGroup, NEW S \in SUBSET Units, NEW m \in [S -> BOOLEAN],
         NEW open \in BOOLEAN
  PROVE  Settle(g, m, open) \in LockGroup
<1>1. g.last \in BOOLEAN
  BY DEF LockGroup
<1>2. m \in UNION {[T -> BOOLEAN] : T \in SUBSET Units}
  OBVIOUS
<1> QED
  BY <1>1, <1>2 DEF Settle, LockGroup

(* A door report leaves a group of the same locks.                         *)
LEMMA LockingType ==
  ASSUME NEW g \in LockGroup, NEW u \in Units
  PROVE  /\ LockOne(g, u) \in LockGroup /\ DOMAIN LockOne(g, u).lockMap = DOMAIN g.lockMap
         /\ UnlockOne(g, u) \in LockGroup /\ DOMAIN UnlockOne(g, u).lockMap = DOMAIN g.lockMap
<1>1. PICK S \in SUBSET Units : g.lockMap \in [S -> BOOLEAN]
  BY DEF LockGroup
<1> DEFINE locked == [g.lockMap EXCEPT ![u] = FALSE]
           unlocked == [g.lockMap EXCEPT ![u] = TRUE]
<1>2. locked \in [S -> BOOLEAN] /\ unlocked \in [S -> BOOLEAN]
  BY <1>1
<1>3. Settle(g, locked, \E n \in DOMAIN locked : locked[n]) \in LockGroup
  BY <1>2, SettleType
<1>4. Settle(g, unlocked, TRUE) \in LockGroup
  BY <1>2, SettleType
<1>5. DOMAIN locked = DOMAIN g.lockMap /\ DOMAIN unlocked = DOMAIN g.lockMap
  BY <1>1
<1>6. LockOne(g, u) \in LockGroup /\ DOMAIN LockOne(g, u).lockMap = DOMAIN g.lockMap
  BY <1>3, <1>5 DEF LockOne, Settle
<1>7. UnlockOne(g, u) \in LockGroup /\ DOMAIN UnlockOne(g, u).lockMap = DOMAIN g.lockMap
  BY <1>4, <1>5 DEF UnlockOne, Settle
<1> QED
  BY <1>6, <1>7

LEMMA WithLockType ==
  ASSUME NEW g \in LockGroup, NEW u \in Units
  PROVE  /\ WithLock(g, u) \in LockGroup
         /\ DOMAIN WithLock(g, u).lockMap = DOMAIN g.lockMap \cup {u}
<1>1. PICK S \in SUBSET Units : g.lockMap \in [S -> BOOLEAN]
  BY DEF LockGroup
<1> DEFINE m == [n \in DOMAIN g.lockMap \cup {u} |-> IF n = u THEN FALSE ELSE g.lockMap[n]]
<1>2. m \in [S \cup {u} -> BOOLEAN]
  BY <1>1
<1>3. S \cup {u} \in SUBSET Units
  OBVIOUS
<1>4. m \in UNION {[T -> BOOLEAN] : T \in SUBSET Units}
  BY <1>2, <1>3
<1>5. WithLock(g, u) = [g EXCEPT !.lockMap = m]
  BY DEF WithLock
<1>6. WithLock(g, u) \in LockGroup
  BY <1>4, <1>5 DEF LockGroup
<1>7. WithLock(g, u).lockMap = m
  BY <1>5 DEF LockGroup
<1> QED
  BY <1>6, <1>7

LEMMA TypeStep == TypeOK /\ [Next]_vars => TypeOK'
<1> SUFFICES ASSUME TypeOK, [Next]_vars PROVE TypeOK'
  OBVIOUS
<1> USE DEF TypeOK
<1>1. ASSUME NEW u \in Units, UnitBoots(u) PROVE TypeOK'
  <2>1. unit' \in [Units -> UnitState]
    BY <1>1 DEF UnitBoots, UnitState, Booted
  <2>2. starts' \in Starts
    BY <1>1, StartsCount DEF UnitBoots
  <2> QED
    BY <1>1, <2>1, <2>2 DEF UnitBoots, hostVars, netVars, Starts
<1>2. ASSUME NEW u \in Units, Heartbeat(u) PROVE TypeOK'
  <2>1. [kind |-> "heartbeat", from |-> u, open |-> FALSE] \in Frame
    BY DEF Frame
  <2> QED
    BY <1>2, <2>1, FrameSeq DEF Heartbeat, unitVars, hostVars, netVars
<1>3. ASSUME NEW u \in Units, SyncArrives(u) PROVE TypeOK'
  <2>1. unit' \in [Units -> UnitState]
    BY <1>3, ZenonT(60) DEF SyncArrives, UnitState
  <2>2. sync' \in [Units -> Nat]
    BY <1>3 DEF SyncArrives
  <2> QED
    BY <1>3, <2>1, <2>2 DEF SyncArrives, hostVars, netVars
<1>4. ASSUME NEW u \in Units, SyncLost(u) PROVE TypeOK'
  BY <1>4 DEF SyncLost, unitVars, hostVars, netVars
<1>5. ASSUME NEW u \in Units, DoorMoves(u) PROVE TypeOK'
  <2>1. door' \in [Units -> BOOLEAN] /\ starts' \in Starts
    BY <1>5, StartsCount DEF DoorMoves
  <2> QED
    BY <1>5, <2>1 DEF DoorMoves, hostVars, netVars, Starts
<1>6. ASSUME NEW u \in Units, DoorSampled(u) PROVE TypeOK'
  BY <1>6 DEF DoorSampled, hostVars, netVars, UnitState
<1>7. ASSUME NEW u \in Units, ReportDoorState(u) PROVE TypeOK'
  <2>1. [kind |-> "door", from |-> u, open |-> unit[u].DoorState] \in Frame
    BY DEF Frame, UnitState
  <2>2. rx' \in Seq(Frame)
    BY <1>7, <2>1, FrameSeq DEF ReportDoorState
  <2>3. unit' \in [Units -> UnitState]
    BY <1>7 DEF ReportDoorState, UnitState
  <2> QED
    BY <1>7, <2>2, <2>3 DEF ReportDoorState, hostVars, netVars
<1>8. ASSUME NEW u \in Units, ClearDoorChanged(u) PROVE TypeOK'
  BY <1>8 DEF ClearDoorChanged, hostVars, netVars, UnitState
<1>9. CASE ControllerBoots
  <2>1. sync' \in [Units -> Nat]
    BY <1>9 DEF ControllerBoots
  <2>2. group' \in LockGroup
    BY <1>9, NoGroupType DEF ControllerBoots
  <2>3. rx' \in Seq(Frame) /\ trav' \in TraversalThread
    BY <1>9 DEF ControllerBoots, FirstTraversal, TraversalThread
  <2>4. starts' \in Starts
    BY <1>9, StartsCount DEF ControllerBoots
  <2> QED
    BY <1>9, <2>1, <2>2, <2>3, <2>4 DEF ControllerBoots, unitVars, Starts
<1>10. CASE HeartbeatArrival
  <2> DEFINE u == Head(rx).from
  <2>1. rx' \in Seq(Frame) /\ u \in Units
    BY <1>10, FrameSeq DEF HeartbeatArrival, Frame
  <2>2. sync' \in [Units -> Nat]
    BY <1>10, <2>1 DEF HeartbeatArrival
  <2>3. unitList' \subseteq Units /\ group' \in LockGroup
    BY <1>10, <2>1, WithLockType DEF HeartbeatArrival, hostVars
  <2> QED
    BY <1>10, <2>1, <2>2, <2>3 DEF HeartbeatArrival, unitVars, netVars
<1>11. CASE DoorReportArrives
  <2> DEFINE u == Head(rx).from
  <2>1. rx' \in Seq(Frame) /\ u \in Units
    BY <1>11, FrameSeq DEF DoorReportArrives, Frame
  <2>2. group' \in LockGroup
    BY <1>11, <2>1, LockingType DEF DoorReportArrives
  <2> QED
    BY <1>11, <2>1, <2>2 DEF DoorReportArrives, unitVars, netVars
<1>12. CASE ClearChanged
  <2>1. group' \in LockGroup
    BY <1>12 DEF ClearChanged, LockGroup
  <2> QED
    BY <1>12, <2>1 DEF ClearChanged, unitVars, TraversalThread
<1>13. CASE TraversalWaits \/ TraversalStarts \/ ReadChanged \/ SendDoorData
  <2>1. trav' \in TraversalThread
    BY <1>13 DEF TraversalWaits, TraversalStarts, ReadChanged, SendDoorData, TraversalThread, LockGroup
  <2>2. told' \in {"nothing", "open", "closed"}
    BY <1>13 DEF TraversalWaits, TraversalStarts, ReadChanged, SendDoorData, Status
  <2> QED
    BY <1>13, <2>1, <2>2
    DEF TraversalWaits, TraversalStarts, ReadChanged, SendDoorData, unitVars, hostVars
<1>14. CASE ConnectionChanges
  BY <1>14 DEF ConnectionChanges, unitVars, hostVars
<1>15. CASE UNCHANGED vars
  BY <1>15 DEF vars, unitVars, hostVars, netVars
<1> QED
  BY <1>1, <1>2, <1>3, <1>4, <1>5, <1>6, <1>7, <1>8, <1>9, <1>10, <1>11, <1>12, <1>13, <1>14, <1>15
  DEF Next, Unit, CanPoll, Traversal

(* Every state has the types TypeOK states.                                *)
THEOREM TypeCorrect == Spec => []TypeOK
  BY InitType, TypeStep, PTL DEF Spec

----------------------------------------------------------------------------
(* The group has a lock for every unit the controller knows, and for no    *)
(* other: so AddLock never forgets an open door.                           *)
LocksOfUnits == DOMAIN group.lockMap = unitList

GroupInv == TypeOK /\ LocksOfUnits /\ OpenIsAnyLock

LEMMA GroupStep == GroupInv /\ [Next]_vars => GroupInv'
<1> SUFFICES ASSUME GroupInv, [Next]_vars PROVE GroupInv'
  OBVIOUS
<1>1. TypeOK /\ TypeOK' /\ LocksOfUnits /\ OpenIsAnyLock
  BY TypeStep DEF GroupInv
<1>2. group \in LockGroup
  BY <1>1 DEF TypeOK
<1>3. PICK S \in SUBSET Units : group.lockMap \in [S -> BOOLEAN]
  BY <1>2 DEF LockGroup
<1>4. CASE UNCHANGED hostVars
  BY <1>1, <1>4 DEF hostVars, GroupInv, LocksOfUnits, OpenIsAnyLock
<1>5. CASE ControllerBoots
  BY <1>1, <1>5 DEF ControllerBoots, NoGroup, GroupInv, LocksOfUnits, OpenIsAnyLock
<1>6. CASE HeartbeatArrival
  <2> DEFINE u == Head(rx).from
  <2>1. u \in Units
    BY <1>1, <1>6, FrameSeq DEF HeartbeatArrival, TypeOK, Frame
  <2>2. CASE u \notin Strangers \cup unitList /\ unitList' = unitList \cup {u}
             /\ group' = WithLock(group, u)
    <3>1. group'.open = group.open
      BY <1>2, <2>2 DEF WithLock, LockGroup
    <3>2. group'.lockMap = [n \in unitList \cup {u} |-> IF n = u THEN FALSE ELSE group.lockMap[n]]
      BY <1>1, <1>2, <2>2 DEF WithLock, LockGroup, LocksOfUnits
    <3>3. (\E n \in DOMAIN group'.lockMap : group'.lockMap[n])
            <=> \E n \in DOMAIN group.lockMap : group.lockMap[n]
      BY <1>1, <2>2, <3>2 DEF LocksOfUnits
    <3> QED
      BY <1>1, <2>2, <3>1, <3>2, <3>3 DEF GroupInv, LocksOfUnits, OpenIsAnyLock
  <2> QED
    BY <1>4, <1>6, <2>2 DEF HeartbeatArrival
<1>7. CASE DoorReportArrives
  <2> DEFINE u == Head(rx).from
  <2>1. u \in Units
    BY <1>1, <1>7, FrameSeq DEF DoorReportArrives, TypeOK, Frame
  <2>2. LocksOfUnits'
    BY <1>1, <1>2, <1>7, <2>1, LockingType DEF DoorReportArrives, LocksOfUnits
  <2>3. CASE u \in unitList /\ group' = UnlockOne(group, u)
    <3>1. group'.open = TRUE /\ group'.lockMap = [group.lockMap EXCEPT ![u] = TRUE]
      BY <1>1, <2>3 DEF UnlockOne, Settle, LocksOfUnits
    <3>2. u \in DOMAIN group'.lockMap /\ group'.lockMap[u] = TRUE
      BY <1>1, <1>3, <2>3, <3>1 DEF LocksOfUnits
    <3> QED
      BY <1>1, <2>2, <3>1, <3>2 DEF GroupInv, OpenIsAnyLock
  <2>4. CASE u \in unitList /\ group' = LockOne(group, u)
    BY <1>1, <2>2, <2>4 DEF LockOne, Settle, GroupInv, LocksOfUnits, OpenIsAnyLock
  <2> QED
    BY <1>4, <1>7, <2>3, <2>4 DEF DoorReportArrives, hostVars
<1>8. CASE ClearChanged
  <2>1. group'.open = group.open /\ group'.lockMap = group.lockMap
    BY <1>2, <1>8 DEF ClearChanged, LockGroup
  <2> QED
    BY <1>1, <1>8, <2>1 DEF ClearChanged, GroupInv, LocksOfUnits, OpenIsAnyLock
<1>9. CASE UNCHANGED vars
  BY <1>4, <1>9 DEF vars
<1>10. CASE \E u \in Units : Unit(u)
  BY <1>4, <1>10
  DEF Unit, UnitBoots, Heartbeat, SyncArrives, SyncLost, DoorMoves, DoorSampled,
      ReportDoorState, ClearDoorChanged
<1>11. CASE TraversalWaits \/ TraversalStarts \/ ReadChanged \/ SendDoorData \/ ConnectionChanges
  BY <1>4, <1>11
  DEF TraversalWaits, TraversalStarts, ReadChanged, SendDoorData, ConnectionChanges
<1> QED
  BY <1>5, <1>6, <1>7, <1>8, <1>9, <1>10, <1>11 DEF Next, CanPoll, Traversal

(* IsOpen(), which UnlockOne and LockOne keep up to date by different      *)
(* rules, is TRUE exactly if a lock of the group is open.                  *)
THEOREM OpenCorrect == Spec => []OpenIsAnyLock
<1>1. Init => GroupInv
  BY InitType DEF Init, NoGroup, GroupInv, LocksOfUnits, OpenIsAnyLock
<1>2. GroupInv => OpenIsAnyLock
  BY DEF GroupInv
<1> QED
  BY <1>1, <1>2, GroupStep, PTL DEF Spec

----------------------------------------------------------------------------
(* Until the controller starts, no frame is on its way, and each unit      *)
(* takes itself for connected. A unit that the controller does not know is *)
(* not registered; it may be about to receive the one SYNC_LIVE of the     *)
(* controller's start, but only while it still takes itself for connected: *)
(* that frame, too, will not register it.                                  *)
NotYetKnown ==
  \A u \in Units \ Strangers :
    u \notin unitList =>
      /\ ~unit[u].Registered
      /\ sync[u] <= 1
      /\ sync[u] = 0 \/ unit[u].Connected
NotYetStarted ==
  starts.controller = 0 =>
    unitList = {} /\ rx = <<>> /\ \A u \in Units : sync[u] = 0 /\ unit[u].Connected

KnownInv == TypeOK /\ NotYetKnown /\ NotYetStarted

LEMMA KnownStep ==
  ASSUME MaxControllerBoots <= 1
  PROVE  KnownInv /\ [Next]_vars => KnownInv'
<1> SUFFICES ASSUME KnownInv, [Next]_vars PROVE KnownInv'
  OBVIOUS
<1>1. TypeOK /\ TypeOK' /\ NotYetKnown /\ NotYetStarted
  BY TypeStep DEF KnownInv
<1>2. ASSUME UNCHANGED <<sync, unitList>>, starts'.controller = starts.controller,
             rx' = rx \/ Running,
             \A v \in Units : /\ unit'[v].Connected = unit[v].Connected
                              /\ unit'[v].Registered = unit[v].Registered
      PROVE  KnownInv'
  BY <1>1, <1>2 DEF KnownInv, NotYetKnown, NotYetStarted, Running
<1>3. ASSUME NEW u \in Units, UnitBoots(u) PROVE KnownInv'
  <2>1. /\ UNCHANGED <<sync, unitList, rx>> /\ starts'.controller = starts.controller
        /\ \A v \in Units \ {u} : unit'[v] = unit[v]
        /\ unit'[u].Connected /\ ~unit'[u].Registered
    BY <1>1, <1>3 DEF UnitBoots, hostVars, TypeOK, Booted
  <2> QED
    BY <1>1, <2>1 DEF KnownInv, NotYetKnown, NotYetStarted
<1>4. ASSUME NEW u \in Units, SyncArrives(u) PROVE KnownInv'
  <2>1. /\ sync[u] > 0 /\ UNCHANGED <<unitList, starts>>
        /\ sync' = [sync EXCEPT ![u] = sync[u] - 1]
        /\ \A v \in Units \ {u} : unit'[v] = unit[v]
        /\ unit'[u].Connected = ~unit[u].Connected /\ unit'[u].Registered = ~unit[u].Connected
    BY <1>1, <1>4 DEF SyncArrives, hostVars, TypeOK, UnitState
  <2>2. starts.controller # 0
    BY <1>1, <2>1 DEF NotYetStarted
  <2>3. NotYetKnown'
    <3> SUFFICES ASSUME NEW v \in Units \ Strangers, v \notin unitList
                 PROVE  /\ ~unit'[v].Registered /\ sync'[v] <= 1
                        /\ sync'[v] = 0 \/ unit'[v].Connected
      BY <2>1 DEF NotYetKnown
    <3>1. CASE v # u
      BY <1>1, <2>1, <3>1 DEF NotYetKnown, TypeOK
    <3>2. CASE v = u
      <4>1. sync[u] = 1
        BY <1>1, <2>1, <3>2 DEF NotYetKnown, TypeOK
      <4>2. unit[u].Connected
        BY <1>1, <3>2, <4>1 DEF NotYetKnown
      <4>3. sync'[u] = 0
        BY <1>1, <2>1, <4>1 DEF TypeOK
      <4>4. ~unit'[u].Registered
        BY <2>1, <4>2
      <4> QED
        BY <3>2, <4>3, <4>4
    <3> QED
      BY <3>1, <3>2
  <2> QED
    BY <1>1, <2>1, <2>2, <2>3 DEF KnownInv, NotYetStarted
<1>5. ASSUME NEW u \in Units, SyncLost(u) PROVE KnownInv'
  BY <1>1, <1>5 DEF SyncLost, unitVars, hostVars, KnownInv, NotYetKnown, NotYetStarted, TypeOK
<1>6. ASSUME NEW u \in Units,
             Heartbeat(u) \/ DoorMoves(u) \/ DoorSampled(u) \/ ReportDoorState(u)
               \/ ClearDoorChanged(u)
      PROVE  KnownInv'
  <2>1. UNCHANGED <<sync, unitList>> /\ (rx' = rx \/ Running)
    BY <1>6 DEF Heartbeat, DoorMoves, DoorSampled, ReportDoorState, ClearDoorChanged, hostVars
  <2>2. starts'.controller = starts.controller
    BY <1>1, <1>6
    DEF Heartbeat, DoorMoves, DoorSampled, ReportDoorState, ClearDoorChanged, TypeOK
  <2>3. \A v \in Units : /\ unit'[v].Connected = unit[v].Connected
                         /\ unit'[v].Registered = unit[v].Registered
    <3>1. CASE Heartbeat(u) \/ DoorMoves(u)
      BY <3>1 DEF Heartbeat, DoorMoves, unitVars
    <3>2. CASE DoorSampled(u)
      BY <1>1, <3>2 DEF DoorSampled, TypeOK, UnitState
    <3>4. CASE ClearDoorChanged(u)
      BY <1>1, <3>4 DEF ClearDoorChanged, TypeOK, UnitState
    <3>3. CASE ReportDoorState(u)
      BY <1>1, <3>3 DEF ReportDoorState, TypeOK, UnitState
    <3> QED
      BY <1>6, <3>1, <3>2, <3>3, <3>4
  <2> QED
    BY <1>2, <2>1, <2>2, <2>3
<1>7. CASE ControllerBoots
  <2>1. starts.controller < MaxControllerBoots /\ starts.controller \in Nat
        /\ starts'.controller = starts.controller + 1
    BY <1>1, <1>7, BoundsAssumption DEF ControllerBoots, TypeOK
  <2>2. starts.controller = 0 /\ starts'.controller = 1
    BY <2>1, BoundsAssumption
  <2>3. unit' = unit
    BY <1>7 DEF ControllerBoots, unitVars
  <2>4. \A u \in Units : sync'[u] <= 1 /\ unit[u].Connected
    BY <1>1, <1>7, <2>2 DEF ControllerBoots, NotYetStarted, TypeOK
  <2>5. \A u \in Units \ Strangers : ~unit[u].Registered
    BY <1>1, <2>2 DEF NotYetKnown, NotYetStarted
  <2> QED
    BY <1>1, <2>2, <2>3, <2>4, <2>5 DEF KnownInv, NotYetKnown, NotYetStarted
<1>8. CASE HeartbeatArrival
  <2> DEFINE u == Head(rx).from
  <2>1. u \in Units /\ starts.controller # 0
    BY <1>1, <1>8, FrameSeq DEF HeartbeatArrival, TypeOK, Frame, NotYetStarted
  <2>2. unit' = unit /\ starts' = starts /\ sync' = [sync EXCEPT ![u] = @ + 1]
    BY <1>8 DEF HeartbeatArrival, unitVars
  <2>3. unitList \subseteq unitList' /\ (u \notin Strangers => u \in unitList')
    BY <1>8, <2>1 DEF HeartbeatArrival, hostVars
  <2> QED
    BY <1>1, <2>1, <2>2, <2>3 DEF KnownInv, NotYetKnown, NotYetStarted, TypeOK
<1>9. CASE DoorReportArrives
  <2>1. UNCHANGED <<unit, sync, unitList, starts>> /\ Running
    BY <1>1, <1>9 DEF DoorReportArrives, unitVars, NotYetStarted, Running, TypeOK
  <2> QED
    BY <1>2, <2>1
<1>10. CASE Traversal \/ ConnectionChanges \/ UNCHANGED vars
  <2>1. UNCHANGED <<unit, sync, unitList, starts, rx>>
    BY <1>10
    DEF Traversal, TraversalWaits, TraversalStarts, ReadChanged, ClearChanged, SendDoorData,
        ConnectionChanges, vars, unitVars, hostVars
  <2> QED
    BY <1>2, <2>1
<1> QED
  BY <1>3, <1>4, <1>5, <1>6, <1>7, <1>8, <1>9, <1>10 DEF Next, Unit, CanPoll

(* While the controller is not started again, a unit falls silent only     *)
(* when the controller knows it, whatever is lost and whoever restarts.    *)
THEOREM KnownCorrect ==
  ASSUME MaxControllerBoots <= 1
  PROVE  Spec => []RegisteredMeansKnown
<1>1. Init => KnownInv
  BY InitType DEF Init, Booted, KnownInv, NotYetKnown, NotYetStarted
<1>2. KnownInv => RegisteredMeansKnown
  BY DEF KnownInv, NotYetKnown, RegisteredMeansKnown
<1> QED
  BY <1>1, <1>2, KnownStep, PTL DEF Spec

----------------------------------------------------------------------------
(* The configuration line, outwards.                                        *)

PartNames == {"pre", "data", "checksum"}
Idle == \A t \in LineThreads : Sent(t)

(* The parts of message id from place i of the line on, the first n of them. *)
SentFrom(id, i, n) ==
  \A j \in 1 .. n : wire[i + j] = <<id, Parts(messages[id].data)[j]>>
OnWire(id) ==
  LET n == Len(Parts(messages[id].data)) IN \E i \in 0 .. Len(wire) - n : SentFrom(id, i, n)

(* A thread that sends alone: what it has sent of its message is the last on *)
(* the line, what it has left is the rest, and when it sends the line is free. *)
SendsAlone(t) ==
  LET id == sender[t].id
      parts == Parts(messages[id].data)
      left == sender[t].left
      n == Len(parts) - Len(left)
  IN /\ \A u \in LineThreads \ {t} : Sent(u)
     /\ sender[t].pc = "send" => TC
     /\ n \in 0 .. Len(wire) /\ SentFrom(id, Len(wire) - n, n)
     /\ \A j \in 1 .. Len(left) : left[j] = parts[n + j]

MessageType == [data: BOOLEAN, done: BOOLEAN]
WirePart == Nat \X PartNames
SenderType == [pc: {"idle", "sync", "send"}, id: Nat, left: Seq(PartNames)]

SendTyped ==
  /\ sender \in [LineThreads -> SenderType]
  /\ messages \in Seq(MessageType)
  /\ wire \in Seq(WirePart)
  /\ alone \subseteq 1 .. Len(messages)
  /\ SendTypeOK
  /\ \A t \in LineThreads : ~Sent(t) => sender[t].id \in 1 .. Len(messages)

SendInv ==
  /\ SendTyped
  /\ Idle => TC
  /\ \A id \in alone :
       \/ messages[id].done /\ OnWire(id)
       \/ ~messages[id].done /\ \E t \in LineThreads : ~Sent(t) /\ sender[t].id = id /\ SendsAlone(t)

LEMMA PartsOfMessage ==
  ASSUME NEW data \in BOOLEAN
  PROVE  Parts(data) \in Seq(PartNames) /\ Len(Parts(data)) \in {2, 3}
<1>1. CASE data
  BY <1>1 DEF Parts, PartNames
<1>2. CASE ~data
  BY <1>2 DEF Parts, PartNames
<1> QED
  BY <1>1, <1>2

(* What Append and Tail do to each element.                                 *)
LEMMA Appended ==
  ASSUME NEW S, NEW s \in Seq(S), NEW x \in S
  PROVE  /\ Append(s, x) \in Seq(S) /\ Len(Append(s, x)) = Len(s) + 1
         /\ \A i \in 1 .. Len(s) : Append(s, x)[i] = s[i]
         /\ Append(s, x)[Len(s) + 1] = x
OBVIOUS

LEMMA TailTaken ==
  ASSUME NEW S, NEW s \in Seq(S), s # <<>>
  PROVE  /\ Head(s) \in S /\ Head(s) = s[1] /\ Len(s) \in Nat \ {0}
         /\ Tail(s) \in Seq(S) /\ Len(Tail(s)) = Len(s) - 1
         /\ \A i \in 1 .. Len(s) - 1 : Tail(s)[i] = s[i + 1]
OBVIOUS

LEMMA Element ==
  ASSUME NEW S, NEW s \in Seq(S), NEW i \in 1 .. Len(s)
  PROVE  s[i] \in S
OBVIOUS

LEMMA Changed ==
  ASSUME NEW S, NEW s \in Seq(S), NEW i \in 1 .. Len(s), NEW x \in S
  PROVE  [s EXCEPT ![i] = x] \in Seq(S) /\ Len([s EXCEPT ![i] = x]) = Len(s)
OBVIOUS

LEMMA SendTypedStep == SendTyped /\ [SendNext]_sendVars => SendTyped'
<1> SUFFICES ASSUME SendTyped, [SendNext]_sendVars PROVE SendTyped'
  OBVIOUS
<1> USE DEF SendTyped, SendTypeOK, Sent
<1>0. Len(messages) \in Nat
  OBVIOUS
<1>1. ASSUME NEW t \in LineThreads, NEW data \in BOOLEAN, SendFileData(t, data) PROVE SendTyped'
  <2> DEFINE m == [data |-> data, done |-> FALSE]
             s == [pc |-> "sync", id |-> Len(messages) + 1, left |-> Parts(data)]
  <2>1. /\ messages' = Append(messages, m) /\ sender' = [sender EXCEPT ![t] = s]
        /\ alone' \subseteq alone \cup {Len(messages) + 1}
        /\ UNCHANGED <<send_active, TC, wire>>
    BY <1>1 DEF SendFileData
  <2>2. m \in MessageType /\ s \in SenderType
    BY <1>0, PartsOfMessage DEF SenderType, MessageType
  <2>3. /\ messages' \in Seq(MessageType)
        /\ Len(messages') = Len(messages) + 1
    BY <2>1, <2>2, Appended
  <2> HIDE DEF m
  <2>4. sender' \in [LineThreads -> SenderType]
    BY <2>1, <2>2
  <2>5. \A u \in LineThreads : sender'[u] = IF u = t THEN s ELSE sender[u]
    BY <2>1
  <2>6. SendTypeOK'
    BY <2>1, <2>5
  <2>7. alone' \subseteq 1 .. Len(messages')
    BY <1>0, <2>1, <2>3
  <2>8. \A u \in LineThreads : ~Sent(u)' => sender'[u].id \in 1 .. Len(messages')
    BY <1>0, <2>3, <2>5
  <2> QED
    BY <2>1, <2>3, <2>4, <2>6, <2>7, <2>8
<1>2. ASSUME NEW t \in LineThreads, Sync(t) PROVE SendTyped'
  <2>1. CASE sender[t].left # <<>> /\ sender' = [sender EXCEPT ![t].pc = "send"] /\ UNCHANGED messages
    BY <1>2, <2>1 DEF Sync, SenderType
  <2>2. CASE /\ sender[t].left = <<>> /\ sender' = [sender EXCEPT ![t] = NotSending]
             /\ messages' = [messages EXCEPT ![sender[t].id].done = TRUE]
    <3>1. NotSending \in SenderType
      BY DEF NotSending, SenderType
    <3>2. messages' \in Seq(MessageType) /\ Len(messages') = Len(messages)
      <4> DEFINE i == sender[t].id
      <4>1. i \in 1 .. Len(messages)
        BY <1>2 DEF Sync
      <4>2. messages[i] \in MessageType
        BY <4>1, Element
      <4>3. [messages[i] EXCEPT !.done = TRUE] \in MessageType
        BY <4>2 DEF MessageType
      <4>4. messages' = [messages EXCEPT ![i] = [messages[i] EXCEPT !.done = TRUE]]
        BY <2>2
      <4> QED
        BY <4>1, <4>3, <4>4, Changed
    <3> QED
      BY <1>2, <2>2, <3>1, <3>2 DEF Sync, NotSending
  <2> QED
    BY <1>2, <2>1, <2>2 DEF Sync
<1>3. ASSUME NEW t \in LineThreads, Send(t) PROVE SendTyped'
  <2>1. /\ sender[t] \in SenderType /\ sender[t].left \in Seq(PartNames) /\ sender[t].left # <<>>
        /\ sender[t].id \in Nat
    BY <1>3 DEF Send, SenderType
  <2>2. Tail(sender[t].left) \in Seq(PartNames) /\ Head(sender[t].left) \in PartNames
    BY <2>1, TailTaken
  <2>3. sender' \in [LineThreads -> SenderType]
    BY <1>3, <2>1, <2>2 DEF Send, SenderType
  <2>4. wire' \in Seq(WirePart)
    <3>1. <<sender[t].id, Head(sender[t].left)>> \in WirePart
      BY <2>1, <2>2 DEF WirePart
    <3>2. wire' \in {wire, Append(wire, <<sender[t].id, Head(sender[t].left)>>)}
      BY <1>3 DEF Send
    <3>3. wire \in Seq(WirePart)
      OBVIOUS
    <3>4. Append(wire, <<sender[t].id, Head(sender[t].left)>>) \in Seq(WirePart)
      BY <3>1, <3>3, Appended
    <3> QED
      BY <3>2, <3>3, <3>4
  <2>5. \A u \in LineThreads : sender'[u].id = sender[u].id /\ (Sent(u)' => Sent(u))
        /\ (sender'[u].pc = "send" => sender'[u] = sender[u])
    BY <1>3 DEF Send, SenderType
  <2>6. SendTypeOK'
    <3>1. /\ \A u \in LineThreads : sender'[u].pc \in {"idle", "sync", "send"}
          /\ UNCHANGED <<send_active, TC>> \/ (send_active' = TRUE /\ TC' = FALSE)
      BY <1>3, <2>3 DEF Send, SenderType
    <3>2. send_active' \in BOOLEAN /\ TC' \in BOOLEAN /\ (send_active' => ~TC')
      <4>1. CASE UNCHANGED <<send_active, TC>>
        BY <4>1
      <4>2. CASE send_active' = TRUE /\ TC' = FALSE
        BY <4>2
      <4> QED
        BY <3>1, <4>1, <4>2
    <3>3. \A u \in LineThreads : sender'[u].pc = "send" => sender'[u].left # <<>>
      BY <2>5
    <3> QED
      BY <3>1, <3>2, <3>3
  <2> QED
    BY <1>3, <2>3, <2>4, <2>5, <2>6 DEF Send
<1>4. CASE TX_DMA_Complete \/ LineIdle \/ UNCHANGED sendVars
  <2>1. /\ UNCHANGED <<sender, messages, wire, alone>>
        /\ send_active' \in BOOLEAN /\ TC' \in BOOLEAN /\ (send_active' => ~TC')
    <3>1. CASE TX_DMA_Complete
      BY <3>1 DEF TX_DMA_Complete
    <3>2. CASE LineIdle
      BY <3>2 DEF LineIdle
    <3>3. CASE UNCHANGED sendVars
      BY <3>3 DEF sendVars
    <3> QED
      BY <1>4, <3>1, <3>2, <3>3
  <2> QED
    BY <2>1
<1> QED
  BY <1>1, <1>2, <1>3, <1>4 DEF SendNext

(* What has gone out stays on the line.                                     *)
LEMMA StaysOnWire ==
  ASSUME SendTyped, NEW id \in 1 .. Len(messages), OnWire(id),
         wire' = wire \/ \E x \in WirePart : wire' = Append(wire, x),
         messages'[id].data = messages[id].data
  PROVE  OnWire(id)'
<1>1. /\ Len(wire) \in Nat /\ Len(wire') \in Nat /\ Len(wire') >= Len(wire)
      /\ \A i \in 1 .. Len(wire) : wire'[i] = wire[i]
  <2>1. wire \in Seq(WirePart) /\ Len(wire) \in Nat
    BY DEF SendTyped
  <2>2. ASSUME NEW x \in WirePart, wire' = Append(wire, x)
        PROVE  Len(wire') = Len(wire) + 1 /\ \A i \in 1 .. Len(wire) : wire'[i] = wire[i]
    BY <2>1, <2>2, Appended
  <2> QED
    BY <2>1, <2>2
<1> DEFINE n == Len(Parts(messages[id].data))
<1>2. n \in {2, 3}
  <2>0. messages \in Seq(MessageType)
    BY DEF SendTyped
  <2>1. messages[id].data \in BOOLEAN
    <3>1. messages[id] \in MessageType
      BY <2>0, Element
    <3> QED
      BY <3>1 DEF MessageType
  <2> QED
    BY <2>1, PartsOfMessage
<1>3. PICK i \in 0 .. Len(wire) - n : SentFrom(id, i, n)
  BY DEF OnWire
<1>4. i \in 0 .. Len(wire') - n /\ \A j \in 1 .. n : i + j \in 1 .. Len(wire)
  BY <1>1, <1>2, <1>3
<1>5. \A j \in 1 .. n : wire'[i + j] = <<id, Parts(messages'[id].data)[j]>>
  BY <1>1, <1>3, <1>4 DEF SentFrom
<1> QED
  BY <1>4, <1>5 DEF OnWire, SentFrom

(* A thread that has nothing left to send has its message on the line.      *)
LEMMA AllSent ==
  ASSUME SendTyped, NEW t \in LineThreads, sender[t].id \in 1 .. Len(messages), SendsAlone(t),
         sender[t].left = <<>>
  PROVE  OnWire(sender[t].id)
<1> DEFINE parts == Parts(messages[sender[t].id].data)
<1>1. Len(parts) \in {2, 3} /\ Len(sender[t].left) = 0
  <2>0. messages \in Seq(MessageType)
    BY DEF SendTyped
  <2>1. messages[sender[t].id].data \in BOOLEAN
    <3>1. messages[sender[t].id] \in MessageType
      BY <2>0, Element
    <3> QED
      BY <3>1 DEF MessageType
  <2> QED
    BY <2>1, PartsOfMessage
<1>2. /\ Len(parts) \in 0 .. Len(wire)
      /\ SentFrom(sender[t].id, Len(wire) - Len(parts), Len(parts))
  BY <1>1 DEF SendsAlone
<1>3. Len(wire) \in Nat /\ Len(wire) - Len(parts) \in 0 .. Len(wire) - Len(parts)
  BY <1>2 DEF SendTyped
<1> QED
  BY <1>2, <1>3 DEF OnWire

(* A thread that begins while no other sends has all of its message left.   *)
LEMMA BeginsAlone ==
  ASSUME SendInv, NEW t \in LineThreads, NEW data \in BOOLEAN, SendFileData(t, data), Idle
  PROVE  SendsAlone(t)' /\ sender'[t].id = Len(messages) + 1
<1> USE DEF SendInv, SendTyped, SenderType, Sent, Idle
<1>1. /\ sender'[t] = [pc |-> "sync", id |-> Len(messages) + 1, left |-> Parts(data)]
      /\ \A u \in LineThreads \ {t} : sender'[u] = sender[u]
      /\ messages'[Len(messages) + 1].data = data /\ UNCHANGED <<wire, TC>>
  BY DEF SendFileData, MessageType
<1>2. Len(Parts(data)) \in Nat /\ Len(wire) \in Nat
  BY PartsOfMessage
<1> QED
  BY <1>1, <1>2 DEF SendsAlone, SentFrom

(* The next part of such a thread goes out behind those before it.          *)
LEMMA SendsNext ==
  ASSUME SendInv, NEW t \in LineThreads, Send(t), SendsAlone(t)
  PROVE  SendsAlone(t)'
<1> DEFINE id == sender[t].id
           parts == Parts(messages[id].data)
           left == sender[t].left
           n == Len(parts) - Len(left)
<1>0. /\ sender[t] \in SenderType /\ sender[t].pc = "send" /\ TC /\ ~send_active
      /\ \A u \in LineThreads \ {t} : Sent(u)
      /\ n \in 0 .. Len(wire) /\ SentFrom(id, Len(wire) - n, n)
      /\ \A j \in 1 .. Len(left) : left[j] = parts[n + j]
  BY DEF Send, SendInv, SendTyped, SendTypeOK, SendsAlone
<1>1. /\ left \in Seq(PartNames) /\ left # <<>> /\ id \in 1 .. Len(messages)
      /\ wire \in Seq(WirePart) /\ Len(wire) \in Nat /\ id \in Nat
  BY <1>0 DEF SendInv, SendTyped, SendTypeOK, SenderType, Sent
<1>2. /\ Head(left) \in PartNames /\ Head(left) = left[1] /\ Len(left) \in Nat \ {0}
      /\ Len(Tail(left)) = Len(left) - 1 /\ \A i \in 1 .. Len(left) - 1 : Tail(left)[i] = left[i + 1]
  BY <1>1, TailTaken
<1>3. Len(parts) \in Nat
  <2>1. messages \in Seq(MessageType)
    BY DEF SendInv, SendTyped
  <2>2. messages[id] \in MessageType
    BY <1>1, <2>1, Element
  <2> QED
    BY <2>2, PartsOfMessage DEF MessageType
<1>4. /\ sender'[t].pc = "sync" /\ sender'[t].id = id /\ sender'[t].left = Tail(left)
      /\ \A u \in LineThreads \ {t} : sender'[u] = sender[u]
      /\ wire' = Append(wire, <<id, Head(left)>>) /\ messages' = messages
  BY <1>0 DEF Send, SenderType, SendInv, SendTyped
<1>5. <<id, Head(left)>> \in WirePart
  BY <1>1, <1>2 DEF WirePart
<1>6. /\ Len(wire') = Len(wire) + 1 /\ \A i \in 1 .. Len(wire) : wire'[i] = wire[i]
      /\ wire'[Len(wire) + 1] = <<id, Head(left)>>
  BY <1>1, <1>4, <1>5, Appended
<1>61. n = Len(parts) - Len(left) /\ n \in Nat /\ n <= Len(wire)
  BY <1>0, <1>1
<1> HIDE DEF n, left, parts, id
<1>7. Head(left) = parts[n + 1] /\ Len(parts) - Len(Tail(left)) = n + 1 /\ n + 1 \in 0 .. Len(wire')
  BY <1>0, <1>1, <1>2, <1>3, <1>6, <1>61
<1>8. \A j \in 1 .. n + 1 : wire'[Len(wire') - (n + 1) + j] = <<id, parts[j]>>
  <2> SUFFICES ASSUME NEW j \in 1 .. n + 1 PROVE wire'[Len(wire) - n + j] = <<id, parts[j]>>
    <3>1. \A j \in 1 .. n + 1 : Len(wire') - (n + 1) + j = Len(wire) - n + j
      BY <1>1, <1>6, <1>61
    <3> QED
      BY <3>1
  <2>1. CASE j = n + 1
    BY <1>1, <1>6, <1>61, <1>7, <2>1, SMTT(40)
  <2>2. CASE j \in 1 .. n
    <3>1. wire[Len(wire) - n + j] = <<id, parts[j]>>
      BY <1>0, <2>2 DEF SentFrom, parts
    <3>2. Len(wire) - n + j \in 1 .. Len(wire)
      BY <1>1, <1>61, <2>2
    <3> QED
      BY <1>6, <3>1, <3>2
  <2> QED
    BY <1>61, <2>1, <2>2
<1>9. \A j \in 1 .. Len(Tail(left)) : Tail(left)[j] = parts[n + 1 + j]
  <2> SUFFICES ASSUME NEW j \in 1 .. Len(left) - 1 PROVE left[j + 1] = parts[n + 1 + j]
    BY <1>2
  <2>1. j + 1 \in 1 .. Len(left) /\ n + (j + 1) = n + 1 + j
    BY <1>2, <1>61
  <2> QED
    BY <1>0, <2>1
<1>10. \A u \in LineThreads \ {t} : Sent(u)'
  BY <1>0, <1>4 DEF Sent
<1>11. Parts(messages'[sender'[t].id].data) = parts /\ sender'[t].id = id
  BY <1>4 DEF parts, id
<1>12. Len(Parts(messages'[sender'[t].id].data)) - Len(sender'[t].left) = n + 1
  BY <1>4, <1>7, <1>11
<1>13. /\ \A j \in 1 .. n + 1 :
            wire'[Len(wire') - (n + 1) + j] = <<sender'[t].id, Parts(messages'[sender'[t].id].data)[j]>>
       /\ \A j \in 1 .. Len(sender'[t].left) :
            sender'[t].left[j] = Parts(messages'[sender'[t].id].data)[n + 1 + j]
  BY <1>4, <1>8, <1>9, <1>11
<1> QED
  BY <1>4, <1>7, <1>10, <1>12, <1>13 DEF SendsAlone, SentFrom

Followed(id) ==
  \/ messages[id].done /\ OnWire(id)
  \/ ~messages[id].done /\ \E t \in LineThreads : ~Sent(t) /\ sender[t].id = id /\ SendsAlone(t)

LEMMA SendStep == SendInv /\ [SendNext]_sendVars => SendInv'
<1> SUFFICES ASSUME SendInv, [SendNext]_sendVars PROVE (Idle => TC)' /\ \A id \in alone' : Followed(id)'
  BY SendTypedStep DEF SendInv, Followed
<1>0. /\ SendTyped /\ (Idle => TC) /\ (\A id \in alone : Followed(id)) /\ SendTyped'
      /\ alone \subseteq 1 .. Len(messages) /\ Len(messages) \in Nat
      /\ sender \in [LineThreads -> SenderType] /\ messages \in Seq(MessageType)
  BY SendTypedStep DEF SendInv, Followed, SendTyped
<1>1. ASSUME NEW t \in LineThreads, NEW data \in BOOLEAN, SendFileData(t, data)
      PROVE  (Idle => TC)' /\ \A id \in alone' : Followed(id)'
  <2> DEFINE new == Len(messages) + 1
             others == {u \in LineThreads : ~Sent(u)}
  <2>1. /\ Sent(t) /\ ~Sent(t)' /\ UNCHANGED <<wire, TC>>
        /\ messages' = Append(messages, [data |-> data, done |-> FALSE])
        /\ alone' = IF others = {} THEN alone \cup {new} ELSE alone \ {sender[u].id : u \in others}
    BY <1>0, <1>1 DEF SendFileData, Sent
  <2>2. /\ \A id \in 1 .. Len(messages) : messages'[id] = messages[id]
        /\ messages'[new] = [data |-> data, done |-> FALSE]
    <3>1. [data |-> data, done |-> FALSE] \in MessageType
      BY DEF MessageType
    <3> QED
      BY <1>0, <2>1, <3>1, Appended
  <2>3. ASSUME NEW id \in alone, messages[id].done PROVE Followed(id)'
    <3>1. id \in 1 .. Len(messages) /\ OnWire(id) /\ messages'[id] = messages[id]
      BY <1>0, <2>2, <2>3 DEF Followed
    <3>2. OnWire(id)'
      BY <1>0, <2>1, <3>1, StaysOnWire
    <3> QED
      BY <2>3, <3>1, <3>2 DEF Followed
  <2>4. ASSUME NEW id \in alone, ~messages[id].done PROVE others # {} /\ id \in {sender[u].id : u \in others}
    BY <1>0, <2>4 DEF Followed
  <2>5. CASE others = {}
    <3>1. Idle
      BY <2>5 DEF Idle
    <3>2. SendsAlone(t)' /\ sender'[t].id = new
      BY <1>1, <3>1, BeginsAlone
    <3>3. ASSUME NEW id, id = new PROVE Followed(id)'
      <4>1. messages'[id].done = FALSE
        BY <2>2, <3>3
      <4> QED
        BY <2>1, <3>2, <3>3, <4>1 DEF Followed
    <3> QED
      <4>1. \A id \in alone' : id = new \/ (id \in alone /\ messages[id].done)
        BY <2>1, <2>4, <2>5
      <4>2. ~Idle'
        BY <2>1 DEF Idle
      <4> QED
        BY <2>3, <3>3, <4>1, <4>2
  <2>6. CASE others # {}
    BY <2>1, <2>3, <2>4, <2>6 DEF Idle
  <2> QED
    BY <2>5, <2>6
<1>2. ASSUME NEW t \in LineThreads, Sync(t)
      PROVE  (Idle => TC)' /\ \A id \in alone' : Followed(id)'
  <2>1. /\ TC /\ sender[t].pc = "sync" /\ sender[t].id \in 1 .. Len(messages)
        /\ UNCHANGED <<send_active, TC, wire, alone>>
    BY <1>0, <1>2 DEF Sync, SendTyped, Sent
  <2>2. CASE sender[t].left # <<>> /\ sender' = [sender EXCEPT ![t].pc = "send"] /\ UNCHANGED messages
    <3>1. \A u \in LineThreads : /\ sender'[u].id = sender[u].id /\ sender'[u].left = sender[u].left
                                  /\ Sent(u)' <=> Sent(u)
      BY <1>0, <2>1, <2>2 DEF SenderType, Sent
    <3>2. \A u \in LineThreads : SendsAlone(u) => SendsAlone(u)'
      <4> SUFFICES ASSUME NEW u \in LineThreads, SendsAlone(u) PROVE SendsAlone(u)'
        OBVIOUS
      <4>1. \A v \in LineThreads \ {u} : Sent(v)'
        BY <3>1 DEF SendsAlone
      <4>2. sender'[u].id = sender[u].id /\ sender'[u].left = sender[u].left
        BY <1>0, <2>1, <2>2 DEF SenderType
      <4> QED
        BY <2>1, <2>2, <4>1, <4>2 DEF SendsAlone, SentFrom
    <3>3. \A id \in alone : OnWire(id) => OnWire(id)'
      BY <2>1, <2>2 DEF OnWire, SentFrom
    <3> QED
      BY <1>0, <2>1, <2>2, <3>1, <3>2, <3>3 DEF Followed
  <2>3. CASE /\ sender[t].left = <<>> /\ sender' = [sender EXCEPT ![t] = NotSending]
             /\ messages' = [messages EXCEPT ![sender[t].id].done = TRUE]
    <3>1. \A id \in 1 .. Len(messages) : messages[id] \in MessageType
      BY <1>0, Element
    <3>2. ASSUME NEW id \in 1 .. Len(messages)
          PROVE  /\ messages'[id].data = messages[id].data
                 /\ messages'[id].done = (messages[id].done \/ id = sender[t].id)
      <4>1. CASE id = sender[t].id
        <5>1. messages'[id] = [messages[id] EXCEPT !.done = TRUE]
          <6>1. DOMAIN messages = 1 .. Len(messages)
            BY <1>0
          <6> QED
            BY <2>3, <4>1, <6>1
        <5> QED
          BY <3>1, <4>1, <5>1 DEF MessageType
      <4>2. CASE id # sender[t].id
        <5>1. messages'[id] = messages[id] /\ messages[id] \in MessageType
          BY <1>0, <2>3, <3>1, <4>2
        <5> QED
          BY <4>2, <5>1 DEF MessageType
      <4> QED
        BY <4>1, <4>2
    <3>3. ASSUME NEW id \in alone PROVE OnWire(id) /\ messages'[id].done
      <4>1. id \in 1 .. Len(messages)
        BY <1>0
      <4>2. CASE messages[id].done
        BY <1>0, <3>2, <4>1, <4>2 DEF Followed
      <4>3. CASE ~messages[id].done
        <5>1. PICK u \in LineThreads : ~Sent(u) /\ sender[u].id = id /\ SendsAlone(u)
          BY <1>0, <4>3 DEF Followed
        <5>2. u = t
          BY <2>1, <5>1 DEF SendsAlone, Sent
        <5>3. OnWire(id)
          BY <1>0, <2>1, <2>3, <5>1, <5>2, AllSent
        <5> QED
          BY <3>2, <4>1, <5>1, <5>2, <5>3
      <4> QED
        BY <4>2, <4>3
    <3>4. \A id \in alone : OnWire(id)'
      BY <1>0, <2>1, <3>2, <3>3, StaysOnWire
    <3> QED
      BY <2>1, <3>3, <3>4 DEF Followed
  <2> QED
    BY <1>2, <2>2, <2>3 DEF Sync
<1>3. ASSUME NEW t \in LineThreads, Send(t)
      PROVE  (Idle => TC)' /\ \A id \in alone' : Followed(id)'
  <2>1. /\ sender[t].pc = "send" /\ UNCHANGED <<messages, alone>>
        /\ sender[t] \in SenderType /\ sender[t].left # <<>>
        /\ \A u \in LineThreads : /\ sender'[u].id = sender[u].id /\ (Sent(u)' <=> Sent(u))
        /\ wire' \in {wire, Append(wire, <<sender[t].id, Head(sender[t].left)>>)}
    BY <1>0, <1>3 DEF Send, SenderType, Sent, SendTyped, SendTypeOK
  <2>2. <<sender[t].id, Head(sender[t].left)>> \in WirePart
    <3>1. sender[t].left \in Seq(PartNames) /\ sender[t].id \in Nat
      BY <2>1 DEF SenderType
    <3> QED
      BY <2>1, <3>1, TailTaken DEF WirePart
  <2>3. \A id \in alone : OnWire(id) => OnWire(id)'
    BY <1>0, <2>1, <2>2, StaysOnWire
  <2>4. ~Idle'
    BY <2>1 DEF Idle, Sent
  <2>5. \A u \in LineThreads : ~Sent(u) /\ SendsAlone(u) => SendsAlone(u)'
    <3>1. \A u \in LineThreads : ~Sent(u) /\ SendsAlone(u) => u = t
      BY <2>1 DEF SendsAlone, Sent
    <3> QED
      BY <1>3, <3>1, SendsNext
  <2> QED
    BY <1>0, <2>1, <2>3, <2>4, <2>5 DEF Followed
<1>4. CASE TX_DMA_Complete \/ LineIdle \/ UNCHANGED sendVars
  <2>1. UNCHANGED <<sender, wire, messages, alone>> /\ (TC => TC')
    BY <1>4 DEF TX_DMA_Complete, LineIdle, sendVars
  <2>2. \A t \in LineThreads : SendsAlone(t) => SendsAlone(t)'
    BY <2>1 DEF SendsAlone, SentFrom, Sent
  <2>3. \A id \in alone : OnWire(id) => OnWire(id)'
    BY <2>1 DEF OnWire, SentFrom
  <2> QED
    BY <1>0, <2>1, <2>2, <2>3 DEF Followed, Idle, Sent
<1> QED
  BY <1>1, <1>2, <1>3, <1>4 DEF SendNext

(* Whatever other threads have mixed up before or will mix up after it, a   *)
(* message that no other came across is on the line in one piece.           *)
THEOREM SendCorrect == SendSpec => []SentWhole
<1>1. SendInit => SendInv
  <2> SUFFICES ASSUME SendInit PROVE SendInv
    OBVIOUS
  <2>1. NotSending \in SenderType /\ NotSending.pc = "idle"
    BY DEF NotSending, SenderType
  <2>2. <<>> \in Seq(MessageType) /\ <<>> \in Seq(WirePart) /\ Len(<<>>) = 0
    OBVIOUS
  <2> QED
    BY <2>1, <2>2 DEF SendInit, SendInv, SendTyped, SendTypeOK, Sent
<1>2. SendInv => SentWhole
  <2> SUFFICES ASSUME SendInv, NEW id \in alone, messages[id].done
               PROVE  LET parts == PartsOf(id, messages[id].data) IN
                      \E i \in 0 .. Len(wire) - Len(parts) :
                        SubSeq(wire, i + 1, i + Len(parts)) = parts
    BY DEF SentWhole
  <2> DEFINE parts == Parts(messages[id].data)
             n == Len(parts)
  <2>1. n \in Nat /\ parts \in Seq(PartNames) /\ OnWire(id) /\ wire \in Seq(WirePart)
    <3>1. messages \in Seq(MessageType) /\ id \in 1 .. Len(messages)
      BY DEF SendInv, SendTyped
    <3>2. messages[id] \in MessageType
      BY <3>1, Element
    <3> QED
      BY <3>2, PartsOfMessage DEF MessageType, SendInv, SendTyped
  <2>2. PartsOf(id, messages[id].data) = [j \in 1 .. n |-> <<id, parts[j]>>]
    BY <2>1 DEF PartsOf
  <2>3. PICK i \in 0 .. Len(wire) - n : \A j \in 1 .. n : wire[i + j] = <<id, parts[j]>>
    BY <2>1 DEF OnWire, SentFrom
  <2>4. SubSeq(wire, i + 1, i + n) = [j \in 1 .. n |-> wire[i + j]]
    BY <2>1 
  <2>5. Len(PartsOf(id, messages[id].data)) = n
    BY <2>1, <2>2
  <2> QED
    BY <2>2, <2>3, <2>4, <2>5
<1> QED
  BY <1>1, <1>2, SendStep, PTL DEF SendSpec

----------------------------------------------------------------------------
(* The configuration line. What its parts may hold.                        *)
SentBytes == [byte: 0 .. 7, request: Requests, at: Nat \ {0}]
LineStates == {"Delimiter1", "Delimiter2", "Command", "Length", "Data", "Checksum"}
LineParsers == [dataState: LineStates, file: BOOLEAN, left: 0 .. 7, data: Seq(0 .. 7), sum: 0 .. 7,
                handed: Seq([file: BOOLEAN, data: Seq(0 .. 7)])]

LineTyped ==
  /\ sent \in Seq(SentBytes) /\ number \in 0 .. Len(sent) /\ takenTo \in Nat
  /\ buffer \in [0 .. bufferSize - 1 -> [byte: 0 .. 7, number: 0 .. Len(sent)]]
  /\ received \in 0 .. bufferSize /\ dmaDone = (received = bufferSize)
  /\ head \in 0 .. bufferSize - 1 /\ tail \in 0 .. bufferSize
  /\ comm \in [pc: {"idle", "store", "test", "loop"}, count: 0 .. bufferSize]
  /\ line \in LineParsers /\ (line.dataState = "Data" => line.left > 0)
  /\ lapped \in BOOLEAN

(* What the PC has sent is one request after the other.                    *)
Successive ==
  /\ \A n \in DOMAIN sent : sent[n].byte = Encoded(sent[n].request)[sent[n].at]
                            /\ sent[n].at <= Len(Encoded(sent[n].request))
  /\ \A n \in DOMAIN sent :
       IF n = 1 \/ Ends(sent[n - 1]) THEN sent[n].at = 1
       ELSE sent[n].request = sent[n - 1].request /\ sent[n].at = sent[n - 1].at + 1
  /\ sent # <<>> => Ends(sent[Len(sent)])

(* In each place of the buffer is the byte that came there last.           *)
Lap == number - received
InPlace ==
  /\ Lap = 0 \/ Lap >= bufferSize
  /\ \A i \in 0 .. bufferSize - 1 :
       /\ buffer[i].number = IF i < received THEN Lap + i + 1
                             ELSE IF Lap = 0 THEN 0 ELSE Lap - bufferSize + i + 1
       /\ buffer[i].number > 0 => buffer[i].byte = sent[buffer[i].number].byte

(* The thread is less than a buffer behind, and goes no further than the   *)
(* bytes that have come.                                                   *)
Behind ==
  /\ takenTo <= number /\ number - takenTo <= bufferSize
  /\ takenTo - head \in {Lap - bufferSize, Lap, Lap + bufferSize}

Aim(place) == \E n \in takenTo .. number : n - place \in {Lap - bufferSize, Lap}

Aimed ==
  /\ comm.pc = "store" => comm.count = bufferSize \/ Aim(comm.count)
  /\ comm.pc = "test" => tail = bufferSize \/ Aim(tail)
  /\ comm.pc = "loop" => tail # bufferSize /\ Aim(tail)

(* The parser stands after the byte it was given last.                     *)
Between(l) == l.dataState = "Delimiter1" /\ l.data = <<>>

Amid(l, r, p) ==
  /\ l.dataState = CASE p = 1 -> "Delimiter2" [] p = 2 -> "Command" [] p = 3 -> "Length"
                     [] p > 3 /\ p < 4 + Len(r.data) -> "Data" [] p = 4 + Len(r.data) -> "Checksum"
  /\ p > 1 => l.file = r.file /\ l.sum = Sums(Body(r))[p]
  /\ p > 3 => l.left = 4 + Len(r.data) - p
  /\ l.data = SubSeq(r.data, 1, p - 4)

Standing ==
  IF takenTo = 0 \/ Ends(sent[takenTo]) THEN Between(line)
  ELSE Amid(line, sent[takenTo].request, sent[takenTo].at)

LineInv ==
  LineTyped /\ Successive /\ InPlace
  /\ (~lapped => Behind /\ Aimed /\ Standing /\ line.handed = asked)

LEMMA BodyIs ==
  ASSUME LineAssumption, NEW r \in Requests
  PROVE  /\ r.file \in BOOLEAN /\ r.data \in Seq(0 .. 7) /\ Len(r.data) \in 0 .. 7
         /\ r = [file |-> r.file, data |-> r.data]
         /\ Body(r) \in Seq(0 .. 7) /\ Len(Body(r)) = 4 + Len(r.data)
         /\ Body(r)[1] = LineHeader0
         /\ Body(r)[2] = (IF r.file THEN LineHeader3 ELSE LineHeader1)
         /\ Body(r)[3] = 1 /\ Body(r)[4] = Len(r.data)
         /\ \A i \in 1 .. Len(r.data) : Body(r)[4 + i] = r.data[i]
<1>1. r \in [file: BOOLEAN, data: Seq(0 .. 7)] /\ Len(r.data) <= 7
  BY DEF LineAssumption
<1>2. r.file \in BOOLEAN /\ r.data \in Seq(0 .. 7) /\ r = [file |-> r.file, data |-> r.data]
  BY <1>1
<1> DEFINE d == r.data
           h == IF r.file THEN LineHeader3 ELSE LineHeader1
           head4 == <<LineHeader0, h, 1, Len(d)>>
<1>3. h \in 0 .. 7 /\ Len(d) \in 0 .. 7
  <2>1. LineHeader3 \in 0 .. 7 /\ LineHeader1 \in 0 .. 7
    BY DEF LineHeader1, LineHeader3
  <2>2. h = LineHeader3 \/ h = LineHeader1
    OBVIOUS
  <2>3. d \in Seq(0 .. 7) /\ Len(d) <= 7
    BY <1>1
  <2>4. Len(d) \in 0 .. 7
    BY <2>3, LenIn
  <2> HIDE DEF d, h
  <2> QED
    BY <2>1, <2>2, <2>3, <2>4
<1>4. Body(r) = head4 \o d
  BY DEF Body
<1> HIDE DEF h, d
<1>5. head4 \in Seq(0 .. 7)
  BY <1>3 DEF LineHeader0
<1>6. head4[1] = LineHeader0 /\ head4[2] = h /\ head4[3] = 1 /\ head4[4] = Len(d)
  OBVIOUS
<1>7. d \in Seq(0 .. 7)
  BY <1>2 DEF d
<1> HIDE DEF head4
<1> DEFINE w == head4 \o d
           k == Len(head4)
           n == Len(d)
           l == Len(w)
<1>8. /\ w \in Seq(0 .. 7) /\ l = 4 + n
      /\ \A i \in 1 .. 4 : w[i] = head4[i]
      /\ \A i \in 1 .. n : w[4 + i] = d[i]
  <2>1. w \in Seq(0 .. 7)
    BY <1>5, <1>7, ConcatGives
  <2>2. l = k + n
    BY <1>5, <1>7, ConcatGives
  <2>3. \A i \in 1 .. k : w[i] = head4[i]
    BY <1>5, <1>7, ConcatGives
  <2>4. \A i \in 1 .. n : w[k + i] = d[i]
    BY <1>5, <1>7, ConcatGives
  <2>5. k = 4
    BY DEF head4
  <2> HIDE DEF w, k, n, l
  <2> QED
    BY <2>1, <2>2, <2>3, <2>4, <2>5
<1>9. w[1] = LineHeader0 /\ w[2] = h /\ w[3] = 1 /\ w[4] = n
  <2> HIDE DEF w, l
  <2> QED
    BY <1>6, <1>8
<1>10. Body(r) \in Seq(0 .. 7) /\ Len(Body(r)) = 4 + n
       /\ \A i \in 1 .. n : Body(r)[4 + i] = d[i]
  <2>1. Body(r) = w /\ Len(Body(r)) = l
    BY <1>4
  <2> HIDE DEF w, l, n
  <2> QED
    BY <1>8, <2>1
<1> QED
  BY <1>2, <1>3, <1>4, <1>9, <1>10 DEF h, d

LEMMA EncodedIs ==
  ASSUME LineAssumption, NEW r \in Requests
  PROVE  /\ Encoded(r) \in Seq(0 .. 7)
         /\ Len(Encoded(r)) = Len(Body(r)) + (IF r.file THEN 1 ELSE 0)
         /\ \A i \in 1 .. Len(Body(r)) : Encoded(r)[i] = Body(r)[i]
         /\ r.file => Encoded(r)[Len(Body(r)) + 1] = Sums(Body(r))[Len(Body(r))]
<1> DEFINE b == Body(r)
           m == Sums(b)[Len(b)]
<1>1. b \in Seq(0 .. 7) /\ Len(b) \in Nat
  BY BodyIs
<1>2. m \in 0 .. 7
  BY <1>1, SumsTyped
<1>3. Encoded(r) = IF r.file THEN Append(b, m) ELSE b
  BY DEF Encoded, SumOf
<1> HIDE DEF b, m
<1>4. /\ Append(b, m) \in Seq(0 .. 7) /\ Len(Append(b, m)) = Len(b) + 1
      /\ \A i \in 1 .. Len(b) : Append(b, m)[i] = b[i]
      /\ Append(b, m)[Len(b) + 1] = m
  BY <1>1, <1>2, AppendProperties
<1>5. CASE r.file
  BY <1>1, <1>3, <1>4, <1>5 DEF b, m
<1>6. CASE ~r.file
  BY <1>1, <1>3, <1>6 DEF b, m
<1> QED
  BY <1>5, <1>6

LEMMA TokensAre ==
  ASSUME NEW S, NEW b, NEW e, NEW r,
         b = [i \in S |-> [byte |-> e[i], request |-> r, at |-> i]]
  PROVE  \A i \in S : b[i].byte = e[i] /\ b[i].request = r /\ b[i].at = i
<1> TAKE i \in S
<1>1. b[i] = [byte |-> e[i], request |-> r, at |-> i]
  OBVIOUS
<1> QED
  BY <1>1

LEMMA BytesAre ==
  ASSUME LineAssumption, NEW r \in Requests
  PROVE  /\ BytesOf(r) \in Seq(SentBytes) /\ Len(BytesOf(r)) = Len(Encoded(r))
         /\ Len(Encoded(r)) \in Nat \ {0}
         /\ \A i \in 1 .. Len(Encoded(r)) :
              /\ BytesOf(r)[i].byte = Encoded(r)[i]
              /\ BytesOf(r)[i].request = r /\ BytesOf(r)[i].at = i
<1> DEFINE e == Encoded(r)
<1>1. e \in Seq(0 .. 7) /\ Len(e) \in Nat \ {0}
  BY BodyIs, EncodedIs
<1>2. BytesOf(r) = [i \in 1 .. Len(e) |-> [byte |-> e[i], request |-> r, at |-> i]]
  BY DEF BytesOf
<1> HIDE DEF e
<1>3. \A i \in 1 .. Len(e) : [byte |-> e[i], request |-> r, at |-> i] \in SentBytes
  BY <1>1 DEF SentBytes
<1>4. BytesOf(r) \in [1 .. Len(e) -> SentBytes]
  BY <1>2, <1>3
<1>5. BytesOf(r) \in Seq(SentBytes) /\ Len(BytesOf(r)) = Len(e)
  BY <1>1, <1>4
<1>6. \A i \in 1 .. Len(e) :
        BytesOf(r)[i].byte = e[i] /\ BytesOf(r)[i].request = r /\ BytesOf(r)[i].at = i
  BY <1>2, TokensAre
<1> QED
  BY <1>1, <1>5, <1>6 DEF e

LEMMA LineInitially ==
  ASSUME LineAssumption, LineInit
  PROVE  LineInv
<1>0. bufferSize \in Nat /\ bufferSize > 1
  BY DEF LineAssumption
<1>1. sent = <<>> /\ Len(sent) = 0 /\ DOMAIN sent = {}
  BY DEF LineInit
<1>2. LineTyped
  <2>1. sent \in Seq(SentBytes) /\ number \in 0 .. Len(sent) /\ takenTo \in Nat
    BY <1>1 DEF LineInit
  <2>2. [byte |-> 0, number |-> 0] \in [byte: 0 .. 7, number: 0 .. Len(sent)]
    BY <1>1
  <2>3. buffer \in [0 .. bufferSize - 1 -> [byte: 0 .. 7, number: 0 .. Len(sent)]]
    BY <2>2 DEF LineInit
  <2>4. /\ received \in 0 .. bufferSize /\ dmaDone = (received = bufferSize)
        /\ head \in 0 .. bufferSize - 1 /\ tail \in 0 .. bufferSize /\ lapped \in BOOLEAN
    <3>1. received \in 0 .. bufferSize /\ head \in 0 .. bufferSize - 1 /\ tail \in 0 .. bufferSize
      BY <1>0 DEF LineInit
    <3>2. received # bufferSize /\ dmaDone = FALSE /\ lapped = FALSE
      BY <1>0 DEF LineInit
    <3> QED
      BY <3>1, <3>2
  <2>5. comm \in [pc: {"idle", "store", "test", "loop"}, count: 0 .. bufferSize]
    BY <1>0 DEF LineInit
  <2>6. line \in LineParsers /\ (line.dataState = "Data" => line.left > 0)
    BY DEF LineInit, LineParsers, LineStates
  <2> QED
    BY <2>1, <2>3, <2>4, <2>5, <2>6 DEF LineTyped
<1>3. Successive
  BY <1>1 DEF Successive
<1>4. InPlace
  BY <1>0 DEF InPlace, Lap, LineInit
<1>5. Behind /\ Aimed /\ Standing /\ line.handed = asked
  <2>1. Behind
    BY <1>0 DEF Behind, Lap, LineInit
  <2>2. Aimed
    BY DEF Aimed, LineInit
  <2>3. Standing /\ line.handed = asked
    BY DEF Standing, Between, LineInit
  <2> QED
    BY <2>1, <2>2, <2>3
<1> QED
  BY <1>2, <1>3, <1>4, <1>5 DEF LineInv

LEMMA PcSendsLine ==
  ASSUME LineAssumption, LineInv, NEW r \in Requests, PcSends(r)
  PROVE  LineInv'
<1> DEFINE b == BytesOf(r)
           m == Len(sent)
           n == Len(b)
           all == Len(sent')
<1>0. /\ sent \in Seq(SentBytes) /\ b \in Seq(SentBytes) /\ sent' = sent \o b
      /\ sent' \in Seq(SentBytes)
  <2>1. sent \in Seq(SentBytes) /\ sent' = sent \o b
    BY DEF LineInv, LineTyped, PcSends
  <2>2. b \in Seq(SentBytes)
    BY BytesAre
  <2> HIDE DEF b
  <2> QED
    BY <2>1, <2>2, ConcatGives
<1>1. m \in Nat /\ n \in Nat \ {0} /\ n = Len(Encoded(r))
  BY <1>0, BytesAre
<1>2. /\ all = m + n /\ \A i \in 1 .. m : sent'[i] = sent[i]
      /\ \A i \in 1 .. n : sent'[m + i] = b[i]
  <2> HIDE DEF b
  <2>1. all = m + n
    BY <1>0, ConcatGives
  <2>2. \A i \in 1 .. m : sent'[i] = sent[i]
    BY <1>0, ConcatGives
  <2>3. \A i \in 1 .. n : sent'[m + i] = b[i]
    BY <1>0, ConcatGives
  <2> QED
    BY <2>1, <2>2, <2>3
<1>3. \A i \in 1 .. n : b[i].byte = Encoded(r)[i] /\ b[i].request = r /\ b[i].at = i
  BY BytesAre
<1>4. DOMAIN sent = 1 .. m /\ DOMAIN sent' = 1 .. all
  BY <1>0
<1>5. (sent # <<>> <=> m > 0) /\ (sent' # <<>> <=> all > 0)
  BY <1>0, EmptySeq
<1> HIDE DEF b, m, n, all
<1>6. \A i \in 1 .. all : i \in 1 .. m \/ \E j \in 1 .. n : i = m + j
  <2> TAKE i \in 1 .. all
  <2>1. CASE i \in 1 .. m
    BY <2>1
  <2>2. CASE i \notin 1 .. m
    <3>1. i - m \in 1 .. n /\ i = m + (i - m)
      BY <1>1, <1>2, <2>2
    <3> QED
      BY <3>1
  <2> QED
    BY <2>1, <2>2
<1>7. LineTyped'
  <2>1. number \in 0 .. m /\ takenTo \in Nat
    BY DEF LineInv, LineTyped, m
  <2>2. number' \in 0 .. all /\ takenTo' \in Nat
    BY <1>1, <1>2, <2>1 DEF PcSends
  <2>3. buffer \in [0 .. bufferSize - 1 -> [byte: 0 .. 7, number: 0 .. m]]
    BY DEF LineInv, LineTyped, m
  <2>4. \A i \in 0 .. bufferSize - 1 : buffer[i] \in [byte: 0 .. 7, number: 0 .. m]
    BY <2>3
  <2>5. 0 .. m \subseteq 0 .. all
    BY <1>1, <1>2
  <2>6. \A x \in [byte: 0 .. 7, number: 0 .. m] : x \in [byte: 0 .. 7, number: 0 .. all]
    BY <2>5
  <2>7. buffer' \in [0 .. bufferSize - 1 -> [byte: 0 .. 7, number: 0 .. all]]
    BY <2>3, <2>4, <2>6 DEF PcSends
  <2>8. /\ received' \in 0 .. bufferSize /\ dmaDone' = (received' = bufferSize)
        /\ head' \in 0 .. bufferSize - 1 /\ tail' \in 0 .. bufferSize
        /\ comm' \in [pc: {"idle", "store", "test", "loop"}, count: 0 .. bufferSize]
        /\ lapped' \in BOOLEAN
    BY DEF LineInv, LineTyped, PcSends
  <2>9. line' \in LineParsers /\ (line'.dataState = "Data" => line'.left > 0)
    BY DEF LineInv, LineTyped, PcSends
  <2> QED
    BY <1>0, <2>2, <2>7, <2>8, <2>9 DEF LineTyped, all
<1>8. Successive'
  <2>0. \A i \in 1 .. n : i <= Len(Encoded(r))
    BY <1>1
  <2>1. \A k \in DOMAIN sent' : sent'[k].byte = Encoded(sent'[k].request)[sent'[k].at]
                                /\ sent'[k].at <= Len(Encoded(sent'[k].request))
    <3> SUFFICES ASSUME NEW k \in 1 .. all
                 PROVE  sent'[k].byte = Encoded(sent'[k].request)[sent'[k].at]
                        /\ sent'[k].at <= Len(Encoded(sent'[k].request))
      BY <1>4
    <3>1. CASE k \in 1 .. m
      BY <3>1, <1>2, <1>4 DEF LineInv, Successive
    <3>2. CASE \E j \in 1 .. n : k = m + j
      BY <3>2, <1>2, <1>3, <2>0
    <3> QED
      BY <1>6, <3>1, <3>2
  <2>2. sent' # <<>> /\ Ends(sent'[all])
    <3>1. all = m + n /\ all > 0 /\ n \in 1 .. n
      BY <1>1, <1>2
    <3>2. sent'[all] = b[n]
      BY <1>2, <3>1
    <3> QED
      BY <1>1, <1>3, <1>5, <3>1, <3>2 DEF Ends
  <2>3. m > 0 => m \in 1 .. m /\ Ends(sent[m])
    BY <1>1, <1>5 DEF LineInv, Successive, m
  <2>4. \A k \in DOMAIN sent' :
          IF k = 1 \/ Ends(sent'[k - 1]) THEN sent'[k].at = 1
          ELSE sent'[k].request = sent'[k - 1].request /\ sent'[k].at = sent'[k - 1].at + 1
    <3> SUFFICES ASSUME NEW k \in 1 .. all
                 PROVE  IF k = 1 \/ Ends(sent'[k - 1]) THEN sent'[k].at = 1
                        ELSE sent'[k].request = sent'[k - 1].request
                             /\ sent'[k].at = sent'[k - 1].at + 1
      BY <1>4
    <3>1. CASE k \in 1 .. m
      <4>1. sent'[k] = sent[k] /\ (k # 1 => sent'[k - 1] = sent[k - 1])
        <5>1. k # 1 => k - 1 \in 1 .. m
          BY <3>1, <1>1
        <5> QED
          BY <1>2, <3>1, <5>1
      <4>2. IF k = 1 \/ Ends(sent[k - 1]) THEN sent[k].at = 1
            ELSE sent[k].request = sent[k - 1].request /\ sent[k].at = sent[k - 1].at + 1
        BY <1>4, <3>1 DEF LineInv, Successive
      <4> QED
        BY <4>1, <4>2
    <3>2. CASE k = m + 1
      <4>1. 1 \in 1 .. n /\ sent'[k] = b[1] /\ sent'[k].at = 1
        BY <1>1, <1>2, <1>3, <3>2
      <4>2. CASE m = 0
        <5>1. k = 1
          BY <3>2, <4>2
        <5> QED
          BY <4>1, <5>1
      <4>3. CASE m > 0
        <5>1. k - 1 = m /\ sent'[m] = sent[m]
          BY <1>1, <1>2, <2>3, <3>2, <4>3
        <5> QED
          BY <2>3, <4>1, <4>3, <5>1
      <4> QED
        BY <1>1, <4>2, <4>3
    <3>3. CASE \E j \in 2 .. n : k = m + j
      <4>1. PICK j \in 2 .. n : k = m + j
        BY <3>3
      <4>2. j \in 1 .. n /\ j - 1 \in 1 .. n /\ k - 1 = m + (j - 1) /\ k # 1 /\ j - 1 # n /\ j - 1 + 1 = j
        BY <1>1, <4>1
      <4>3. sent'[k] = b[j] /\ sent'[k - 1] = b[j - 1]
        BY <1>2, <4>1, <4>2
      <4>4. ~Ends(sent'[k - 1])
        BY <1>1, <1>3, <4>2, <4>3 DEF Ends
      <4> QED
        BY <1>3, <4>2, <4>3, <4>4
    <3>4. \A j \in 1 .. n : j = 1 \/ j \in 2 .. n
      OBVIOUS
    <3> QED
      BY <1>6, <3>1, <3>2, <3>3, <3>4
  <2>5. Ends(sent'[Len(sent')])
    BY <2>2 DEF all
  <2> QED
    BY <2>1, <2>4, <2>5 DEF Successive
<1>9. InPlace'
  <2>1. UNCHANGED <<number, received, buffer>>
    BY DEF PcSends
  <2>2. InPlace /\ buffer \in [0 .. bufferSize - 1 -> [byte: 0 .. 7, number: 0 .. m]]
    BY DEF LineInv, LineTyped, m
  <2>3. \A i \in 0 .. bufferSize - 1 :
          buffer[i].number > 0 => sent'[buffer[i].number] = sent[buffer[i].number]
    <3> TAKE i \in 0 .. bufferSize - 1
    <3>1. buffer[i].number \in 0 .. m
      BY <2>2
    <3> QED
      BY <1>1, <1>2, <3>1
  <2> QED
    BY <2>1, <2>2, <2>3 DEF InPlace, Lap
<1>10. ASSUME ~lapped' PROVE Behind' /\ Aimed' /\ Standing' /\ line'.handed = asked'
  <2>1. UNCHANGED <<number, received, buffer, takenTo, head, tail, comm, line, lapped, asked>>
    BY DEF PcSends
  <2>2. Behind /\ Aimed /\ Standing /\ line.handed = asked
    BY <1>10, <2>1 DEF LineInv
  <2>3. Behind' /\ Aimed' /\ line'.handed = asked'
    BY <2>1, <2>2 DEF Behind, Aimed, Aim, Lap
  <2>4. takenTo > 0 => takenTo \in 1 .. m /\ sent'[takenTo] = sent[takenTo]
    <3>1. takenTo \in Nat /\ number \in 0 .. m /\ takenTo <= number
      BY <2>2 DEF LineInv, LineTyped, Behind, m
    <3> QED
      BY <1>1, <1>2, <3>1
  <2>5. takenTo = 0 \/ takenTo > 0
    BY DEF LineInv, LineTyped
  <2>6. Standing'
    <3>1. CASE takenTo = 0
      BY <2>1, <2>2, <3>1 DEF Standing, Between
    <3>2. CASE takenTo > 0
      <4>1. takenTo' = takenTo /\ line' = line /\ sent'[takenTo'] = sent[takenTo]
        BY <2>1, <2>4, <3>2
      <4> QED
        BY <2>2, <4>1, <3>2 DEF Standing, Between, Amid
    <3> QED
      BY <2>5, <3>1, <3>2
  <2> QED
    BY <2>3, <2>6
<1> QED
  BY <1>7, <1>8, <1>9, <1>10 DEF LineInv

LEMMA ByteComesLine ==
  ASSUME LineAssumption, LineInv, ByteComes
  PROVE  LineInv'
<1> DEFINE B == bufferSize
           m == Len(sent)
           slot == [byte |-> sent[number + 1].byte, number |-> number + 1]
           Slots == [byte: 0 .. 7, number: 0 .. m]
<1>0. /\ B \in Nat /\ B > 1 /\ m \in Nat
      /\ sent \in Seq(SentBytes) /\ sent' = sent /\ DOMAIN sent = 1 .. m
      /\ number \in 0 .. m /\ number < m /\ number' = number + 1 /\ number' \in 1 .. m
  <2>1. B \in Nat /\ B > 1 /\ sent \in Seq(SentBytes) /\ sent' = sent /\ number \in 0 .. m
        /\ number < m /\ number' = number + 1
    BY DEF LineAssumption, LineInv, LineTyped, ByteComes
  <2>2. m \in Nat /\ DOMAIN sent = 1 .. m
    BY <2>1
  <2> HIDE DEF B, m
  <2>3. number' \in 1 .. m
    BY <2>1, <2>2
  <2> QED
    BY <2>1, <2>2, <2>3
<1>1. /\ received \in 0 .. B /\ received # B /\ received' = received + 1
      /\ dmaDone' = (received + 1 = B)
  BY DEF LineInv, LineTyped, ByteComes
<1>2. received \in 0 .. B - 1 /\ received' \in 0 .. B
  BY <1>0, <1>1
<1>3. buffer \in [0 .. B - 1 -> Slots] /\ buffer' = [buffer EXCEPT ![received] = slot]
  BY DEF LineInv, LineTyped, ByteComes
<1>4. UNCHANGED <<head, tail, comm, line, takenTo, asked>>
  BY DEF ByteComes
<1>5. slot.byte = sent'[number'].byte /\ slot.number = number'
  BY <1>0
<1>6. slot \in Slots
  <2>1. sent[number + 1] \in SentBytes
    BY <1>0
  <2>2. sent[number + 1].byte \in 0 .. 7
    BY <2>1 DEF SentBytes
  <2>3. number + 1 \in 0 .. m
    BY <1>0
  <2> QED
    BY <2>2, <2>3
<1>7. /\ buffer' \in [0 .. B - 1 -> Slots] /\ buffer'[received] = slot
      /\ \A i \in 0 .. B - 1 : i # received => buffer'[i] = buffer[i]
  <2> HIDE DEF B, slot, Slots
  <2> QED
    BY <1>2, <1>3, <1>6
<1>8. LineTyped'
  <2>1. /\ sent' \in Seq(SentBytes) /\ number' \in 0 .. Len(sent') /\ takenTo' \in Nat
        /\ buffer' \in [0 .. bufferSize - 1 -> [byte: 0 .. 7, number: 0 .. Len(sent')]]
    BY <1>0, <1>4, <1>7 DEF LineInv, LineTyped
  <2>2. received' \in 0 .. bufferSize
    BY <1>2
  <2>3. dmaDone' = (received' = bufferSize)
    BY <1>1
  <2>4. head' \in 0 .. bufferSize - 1 /\ tail' \in 0 .. bufferSize
        /\ comm' \in [pc: {"idle", "store", "test", "loop"}, count: 0 .. bufferSize]
    BY <1>4 DEF LineInv, LineTyped
  <2>5. line' \in LineParsers /\ (line'.dataState = "Data" => line'.left > 0)
    BY <1>4 DEF LineInv, LineTyped
  <2>6. lapped' \in BOOLEAN
    BY DEF ByteComes, LineInv, LineTyped
  <2> QED
    BY <2>1, <2>2, <2>3, <2>4, <2>5, <2>6 DEF LineTyped
<1>9. Successive'
  BY <1>0 DEF LineInv, Successive
<1> DEFINE L == Lap
<1>10. /\ L \in Int /\ L = number - received /\ L' = L /\ (L = 0 \/ L >= B)
       /\ number + 1 = L + received + 1
  BY <1>0, <1>1 DEF LineInv, InPlace, Lap
<1>11. \A i \in 0 .. B - 1 :
         buffer[i].number = IF i < received THEN L + i + 1 ELSE IF L = 0 THEN 0 ELSE L - B + i + 1
  BY DEF LineInv, InPlace
<1>12. \A i \in 0 .. B - 1 : buffer[i].number > 0 => buffer[i].byte = sent[buffer[i].number].byte
  BY DEF LineInv, InPlace
<1>13. InPlace'
  <2>1. \A i \in 0 .. B - 1 :
          buffer'[i].number = IF i < received' THEN L + i + 1 ELSE IF L = 0 THEN 0 ELSE L - B + i + 1
    <3> HIDE DEF L, slot, B
    <3> TAKE i \in 0 .. B - 1
    <3>1. CASE i = received
      <4>1. i < received' /\ L + i + 1 = number + 1
        BY <3>1, <1>1, <1>2, <1>0, <1>10
      <4>2. buffer'[i].number = number + 1
        BY <3>1, <1>0, <1>5, <1>7
      <4> QED
        BY <4>1, <4>2
    <3>2. CASE i # received
      <4>1. i < received' <=> i < received
        BY <3>2, <1>1, <1>2, <1>0
      <4> QED
        BY <3>2, <4>1, <1>7, <1>11
    <3> QED
      BY <3>1, <3>2
  <2>2. \A i \in 0 .. B - 1 : buffer'[i].number > 0 => buffer'[i].byte = sent'[buffer'[i].number].byte
    <3> HIDE DEF slot
    <3> QED
      BY <1>0, <1>5, <1>7, <1>12
  <2>3. L' = 0 \/ L' >= B
    BY <1>10
  <2>4. \A i \in 0 .. B - 1 :
          buffer'[i].number = IF i < received' THEN L' + i + 1 ELSE IF L' = 0 THEN 0 ELSE L' - B + i + 1
    BY <1>10, <2>1, Zenon
  <2> QED
    BY <2>2, <2>3, <2>4 DEF InPlace
<1>14. ASSUME ~lapped' PROVE Behind' /\ Aimed' /\ Standing' /\ line'.handed = asked'
  <2>1. ~lapped /\ ~(buffer[received].number > takenTo)
    BY <1>14 DEF ByteComes
  <2>2. Behind /\ Aimed /\ Standing /\ line.handed = asked
    BY <2>1 DEF LineInv
  <2>3. takenTo \in Nat /\ head \in 0 .. B - 1
    BY DEF LineInv, LineTyped
  <2>4. buffer[received].number = IF L = 0 THEN 0 ELSE L - B + received + 1
    <3> HIDE DEF L, B
    <3> QED
      BY <1>2, <1>11, <1>0
  <2>5. takenTo <= number /\ number - takenTo <= B /\ takenTo - head \in {L - B, L, L + B}
    BY <2>2 DEF Behind
  <2>6. takenTo' <= number' /\ number' - takenTo' <= B
    <3>0. takenTo' = takenTo /\ number' = number + 1
      BY <1>0, <1>4
    <3> HIDE DEF L, B
    <3>1. CASE L = 0
      BY <3>0, <3>1, <1>0, <1>2, <1>10, <2>3, <2>5
    <3>2. CASE L # 0
      <4>0. L \in Int /\ B \in Int /\ received \in Int /\ takenTo \in Int
        BY <1>0, <1>1, <1>10, <2>3
      <4>1. L - B + received + 1 <= takenTo
        <5>1. buffer[received].number = L - B + received + 1
          BY <3>2, <2>4
        <5>2. ~(L - B + received + 1 > takenTo)
          BY <2>1, <5>1
        <5> QED
          BY <4>0, <5>2
      <4> QED
        BY <3>0, <4>1, <1>0, <1>1, <1>10, <2>3, <2>5
    <3> QED
      BY <3>1, <3>2
  <2>7. Behind'
    <3>1. takenTo' - head' \in {Lap' - bufferSize, Lap', Lap' + bufferSize}
      BY <1>4, <1>10, <2>5
    <3> QED
      BY <2>6, <3>1 DEF Behind
  <2>8. ASSUME NEW place, Aim(place) PROVE \E k \in takenTo' .. number' : k - place \in {L' - B, L'}
    <3>1. PICK k \in takenTo .. number : k - place \in {L - B, L}
      BY <2>8 DEF Aim
    <3>2. k \in takenTo' .. number'
      BY <1>0, <1>4, <2>3
    <3> QED
      BY <1>10, <3>1, <3>2
  <2>9. Aimed'
    <3> HIDE DEF L
    <3>1. UNCHANGED <<comm, tail>>
      BY <1>4
    <3>2. \A place : Aim(place) => \E k \in takenTo' .. number' : k - place \in {L' - B, L'}
      BY <2>8
    <3> QED
      BY <2>2, <3>1, <3>2 DEF Aimed, Aim, L
  <2>10. Standing'
    BY <1>0, <1>4, <2>2 DEF Standing, Between, Amid
  <2> QED
    BY <1>4, <2>2, <2>7, <2>9, <2>10
<1> QED
  BY <1>8, <1>9, <1>13, <1>14 DEF LineInv

LEMMA CompleteLine ==
  ASSUME LineAssumption, LineInv, RX_DMA_Complete
  PROVE  LineInv'
<1> DEFINE B == bufferSize
           L == Lap
<1>0. B \in Nat /\ B > 1
  BY DEF LineAssumption
<1>1. UNCHANGED <<sent, buffer, head, comm, line, number, takenTo, lapped, asked>>
  BY DEF RX_DMA_Complete
<1>2. tail' = 0 /\ received' = 0 /\ dmaDone' = FALSE /\ received = B
  BY DEF RX_DMA_Complete, LineInv, LineTyped
<1>3. number \in Nat /\ takenTo \in Nat /\ head \in 0 .. B - 1
      /\ comm.count \in 0 .. B /\ comm' = comm
  BY <1>1 DEF LineInv, LineTyped
<1>4. L = number - B /\ L' = number /\ L' = L + B /\ (L = 0 \/ L >= B) /\ L \in Int
  BY <1>0, <1>1, <1>2, <1>3 DEF Lap, LineInv, InPlace
<1>5. LineTyped'
  <2>1. received' \in 0 .. bufferSize /\ tail' \in 0 .. bufferSize /\ received' # bufferSize
    BY <1>0, <1>2
  <2>2. dmaDone' = (received' = bufferSize)
    BY <1>2, <2>1
  <2> QED
    BY <1>1, <2>1, <2>2 DEF LineTyped, LineInv
<1>6. Successive'
  BY <1>1 DEF LineInv, Successive
<1>7. InPlace'
  <2>1. \A i \in 0 .. B - 1 : buffer[i].number = L + i + 1
    <3>1. \A i \in 0 .. B - 1 :
            buffer[i].number = IF i < received THEN L + i + 1 ELSE IF L = 0 THEN 0 ELSE L - B + i + 1
      BY DEF LineInv, InPlace
    <3> HIDE DEF L, B
    <3> QED
      BY <1>0, <1>2, <3>1
  <2>2. \A i \in 0 .. B - 1 :
          buffer'[i].number = IF i < received' THEN L' + i + 1 ELSE IF L' = 0 THEN 0 ELSE L' - B + i + 1
    <3>1. buffer' = buffer
      BY <1>1
    <3> HIDE DEF L, B
    <3>2. L' # 0 /\ \A i \in 0 .. B - 1 : ~(i < received') /\ L' - B + i + 1 = L + i + 1
      BY <1>0, <1>2, <1>4
    <3> QED
      BY <2>1, <3>1, <3>2
  <2>3. L' = 0 \/ L' >= B
    <3> HIDE DEF L, B
    <3> QED
      BY <1>0, <1>4
  <2>4. \A i \in 0 .. B - 1 : buffer'[i].number > 0 => buffer'[i].byte = sent'[buffer'[i].number].byte
    BY <1>1 DEF LineInv, InPlace
  <2> QED
    BY <2>2, <2>3, <2>4 DEF InPlace
<1>8. ASSUME ~lapped' PROVE Behind' /\ Aimed' /\ Standing' /\ line'.handed = asked'
  <2>1. Behind /\ Aimed /\ Standing /\ line.handed = asked
    BY <1>1, <1>8 DEF LineInv
  <2>2. takenTo <= number /\ number - takenTo <= B /\ takenTo - head \in {L - B, L, L + B}
    BY <2>1 DEF Behind
  <2>3. takenTo - head \in {L' - B, L', L' + B}
    <3> HIDE DEF L, B
    <3> QED
      BY <1>0, <1>3, <1>4, <2>2
  <2>4. Behind'
    BY <1>1, <2>2, <2>3 DEF Behind
  <2>5. \E k \in takenTo .. number : k - 0 \in {L' - B, L'}
    <3>1. number \in takenTo .. number /\ number - 0 = L'
      BY <1>3, <1>4, <2>2
    <3> QED
      BY <3>1
  <2>6. ASSUME NEW place \in 0 .. B, Aim(place)
        PROVE  place = B \/ \E k \in takenTo .. number : k - place \in {L' - B, L'}
    <3>1. PICK k \in takenTo .. number : k - place \in {L - B, L}
      BY <2>6 DEF Aim
    <3> HIDE DEF L, B
    <3>2. place = B \/ k - place = L' - B
      BY <1>0, <1>3, <1>4, <2>2, <3>1
    <3> QED
      BY <3>1, <3>2
  <2>7. Aimed'
    <3>1. 0 # B
      BY <1>0
    <3>2. \A place \in 0 .. B : Aim(place) => place = B \/ \E k \in takenTo .. number : k - place \in {L' - B, L'}
      BY <2>6
    <3>3. UNCHANGED <<comm, takenTo, number>> /\ tail' = 0
      BY <1>1, <1>2
    <3> HIDE DEF L
    <3>4. comm.pc = "store" => comm.count = B \/ \E k \in takenTo .. number : k - comm.count \in {L' - B, L'}
      BY <1>3, <2>1, <3>2 DEF Aimed
    <3> QED
      BY <2>5, <3>1, <3>3, <3>4 DEF Aimed, Aim, L
  <2>8. Standing'
    BY <1>1, <2>1 DEF Standing, Between, Amid
  <2> QED
    BY <1>1, <2>1, <2>4, <2>7, <2>8
<1> QED
  BY <1>5, <1>6, <1>7, <1>8 DEF LineInv

(* The steps of the thread that read and store tail: the bytes stay.        *)
LEMMA TailLine ==
  ASSUME LineAssumption, LineInv, GetRxCount \/ StoreTail \/ TestTail \/ NothingLeft
  PROVE  LineInv'
<1> DEFINE B == bufferSize
<1>0. B \in Nat /\ B > 1
  BY DEF LineAssumption
<1>1. UNCHANGED <<sent, buffer, received, dmaDone, number, lapped, head, line, takenTo, asked>>
  BY DEF GetRxCount, StoreTail, TestTail, NothingLeft, fromLine
<1>2. number \in Nat /\ takenTo \in Nat /\ received \in 0 .. B /\ tail \in 0 .. B
      /\ comm \in [pc: {"idle", "store", "test", "loop"}, count: 0 .. B]
  BY DEF LineInv, LineTyped
<1>3. tail' \in 0 .. B /\ comm' \in [pc: {"idle", "store", "test", "loop"}, count: 0 .. B]
  <2>1. CASE GetRxCount
    BY <1>2, <2>1 DEF GetRxCount
  <2>2. CASE StoreTail
    BY <1>0, <1>2, <2>2 DEF StoreTail
  <2>3. CASE TestTail
    BY <1>2, <2>3 DEF TestTail
  <2>4. CASE NothingLeft
    BY <1>2, <2>4 DEF NothingLeft
  <2> QED
    BY <2>1, <2>2, <2>3, <2>4
<1>4. LineTyped'
  BY <1>1, <1>3 DEF LineInv, LineTyped
<1>5. Successive' /\ InPlace'
  BY <1>1 DEF LineInv, Successive, InPlace, Lap
<1>6. ASSUME ~lapped' PROVE Behind' /\ Aimed' /\ Standing' /\ line'.handed = asked'
  <2>1. Behind /\ Aimed /\ Standing /\ line.handed = asked
    BY <1>1, <1>6 DEF LineInv
  <2>2. Behind' /\ line'.handed = asked'
    BY <1>1, <2>1 DEF Behind, Lap
  <2>3. Standing'
    BY <1>1, <2>1 DEF Standing, Between, Amid
  <2>4. Lap' = Lap /\ Lap = number - received
    BY <1>1 DEF Aim, Lap
  <2>5. Aimed'
    <3>1. CASE GetRxCount
      <4>1. comm'.pc = "store" /\ comm'.count = received
        BY <3>1 DEF GetRxCount
      <4>2. number \in takenTo .. number /\ number - received = Lap
        BY <1>2, <2>1, <2>4 DEF Behind
      <4>3. Aim(received)
        BY <4>2 DEF Aim
      <4>4. \E k \in takenTo' .. number' : k - comm'.count \in {Lap' - bufferSize, Lap'}
        BY <1>1, <2>4, <4>1, <4>3 DEF Aim
      <4>5. comm'.pc # "test" /\ comm'.pc # "loop"
        BY <4>1
      <4> QED
        BY <4>4, <4>5 DEF Aimed, Aim
    <3>2. CASE StoreTail
      <4>1. comm'.pc = "test" /\ tail' = comm.count /\ comm.pc = "store"
        BY <3>2 DEF StoreTail
      <4>2. tail' = bufferSize \/ Aim(tail')
        BY <2>1, <4>1 DEF Aimed
      <4>3. tail' = bufferSize \/ Aim(tail)'
        BY <1>1, <4>2 DEF Aim, Lap
      <4> QED
        BY <4>1, <4>3 DEF Aimed
    <3>3. CASE TestTail
      <4>1. comm.pc = "test" /\ tail' = tail
            /\ comm'.pc = IF tail = bufferSize THEN "idle" ELSE "loop"
        BY <1>2, <3>3 DEF TestTail
      <4>2. tail = bufferSize \/ Aim(tail)
        BY <2>1, <4>1 DEF Aimed
      <4>3. tail' = bufferSize \/ Aim(tail)'
        BY <1>1, <4>1, <4>2 DEF Aim, Lap
      <4> QED
        BY <4>1, <4>3 DEF Aimed
    <3>4. CASE NothingLeft
      <4>1. comm'.pc = "idle"
        BY <1>2, <3>4 DEF NothingLeft
      <4> QED
        BY <4>1 DEF Aimed
    <3> QED
      BY <3>1, <3>2, <3>3, <3>4
  <2> QED
    BY <2>2, <2>3, <2>5
<1> QED
  BY <1>4, <1>5, <1>6 DEF LineInv

LEMMA Around ==
  ASSUME NEW B \in Nat, B > 1, NEW h \in 0 .. B - 1
  PROVE  (h + 1) % B = (IF h = B - 1 THEN 0 ELSE h + 1)
OBVIOUS

(* What the parser is given when it has more to take.                       *)
LEMMA TakesNext ==
  ASSUME LineAssumption, LineInv, ProcessByte, ~lapped
  PROVE  /\ takenTo < number /\ takenTo' = takenTo + 1
         /\ buffer[head].number = takenTo + 1 /\ buffer[head].byte = sent[takenTo + 1].byte
         /\ head' = (IF head = bufferSize - 1 THEN 0 ELSE head + 1)
         /\ Behind' /\ Aimed'
<1> DEFINE B == bufferSize
           L == Lap
           bn == buffer[head].number
<1>0. B \in Nat /\ B > 1
  BY DEF LineAssumption
<1>1. /\ number \in Nat /\ takenTo \in Nat /\ received \in 0 .. B
      /\ head \in 0 .. B - 1 /\ tail \in 0 .. B
  BY DEF LineInv, LineTyped
<1>2. comm.pc = "loop" /\ head # tail /\ head' = (head + 1) % B /\ takenTo' = bn
  BY DEF ProcessByte
<1>3. Behind /\ Aimed
  BY DEF LineInv
<1>4. takenTo <= number /\ number - takenTo <= B /\ takenTo - head \in {L - B, L, L + B}
  BY <1>3 DEF Behind
<1>5. tail # B /\ \E k \in takenTo .. number : k - tail \in {L - B, L}
  BY <1>2, <1>3 DEF Aimed, Aim
<1>6. L = number - received /\ (L = 0 \/ L >= B)
  BY DEF LineInv, InPlace, Lap
<1>7. bn = IF head < received THEN L + head + 1 ELSE IF L = 0 THEN 0 ELSE L - B + head + 1
  BY <1>1 DEF LineInv, InPlace
<1>8. bn > 0 => buffer[head].byte = sent[bn].byte
  BY <1>1 DEF LineInv, InPlace
<1>9. UNCHANGED <<comm, tail, number, received, buffer, sent, lapped>>
  BY DEF ProcessByte, fromLine
<1>10. L' = L
  BY <1>9 DEF Lap
<1>11. head' = IF head = B - 1 THEN 0 ELSE head + 1
  BY <1>0, <1>1, <1>2, Around
<1>12. PICK k \in takenTo .. number : k - tail \in {L - B, L}
  BY <1>5
<1> HIDE DEF B, L, bn
<1>13. L \in Int
  BY <1>1, <1>6
<1>14. k # takenTo
  BY <1>0, <1>1, <1>2, <1>4, <1>5, <1>12, <1>13
<1>15. takenTo < number /\ k \in takenTo + 1 .. number
  BY <1>1, <1>12, <1>14
<1>16. takenTo - head # L + B
  BY <1>0, <1>1, <1>4, <1>6, <1>13, <1>15
<1>17. bn = takenTo + 1
  <2>1. CASE takenTo - head = L
    BY <2>1, <1>0, <1>1, <1>6, <1>7, <1>13, <1>15
  <2>2. CASE takenTo - head = L - B
    BY <2>2, <1>0, <1>1, <1>4, <1>6, <1>7, <1>13, <1>15
  <2> QED
    BY <1>4, <1>16, <2>1, <2>2
<1>18. takenTo' = takenTo + 1 /\ number' = number
  BY <1>2, <1>9, <1>17
<1>19. takenTo' - head' \in {L' - B, L', L' + B}
  <2>1. takenTo' = takenTo + 1 /\ L' = L
    BY <1>10, <1>18
  <2>2. CASE head = B - 1
    BY <2>1, <2>2, <1>0, <1>1, <1>4, <1>11, <1>13, <1>16
  <2>3. CASE head # B - 1
    BY <2>1, <2>3, <1>0, <1>1, <1>4, <1>11, <1>13, <1>16
  <2> QED
    BY <2>2, <2>3
<1>20. takenTo' <= number' /\ number' - takenTo' <= B
  BY <1>0, <1>1, <1>4, <1>15, <1>18
<1>21. Behind'
  BY <1>19, <1>20 DEF Behind, L, B
<1>22. Aimed'
  <2>1. k \in takenTo' .. number' /\ k - tail' \in {L' - B, L'}
    BY <1>9, <1>10, <1>12, <1>15, <1>18
  <2>2. comm' = comm /\ tail' # bufferSize
    BY <1>5, <1>9 DEF B
  <2> QED
    BY <1>2, <2>1, <2>2 DEF Aimed, Aim, L, B
<1>23. buffer[head].byte = sent[takenTo + 1].byte
  BY <1>1, <1>8, <1>17
<1> QED
  BY <1>11, <1>15, <1>17, <1>18, <1>21, <1>22, <1>23 DEF bn, B

LEMMA HandedIs ==
  ASSUME NEW l \in LineParsers, NEW ok
  PROVE  /\ Handed(l, ok) \in LineParsers
         /\ Handed(l, ok).dataState = "Delimiter1" /\ Handed(l, ok).data = <<>>
         /\ ok => Handed(l, ok).handed = Append(l.handed, [file |-> l.file, data |-> l.data])
<1> DEFINE c == [file |-> l.file, data |-> l.data]
           h == IF ok THEN Append(l.handed, c) ELSE l.handed
           H == Seq([file: BOOLEAN, data: Seq(0 .. 7)])
<1>1. c \in [file: BOOLEAN, data: Seq(0 .. 7)] /\ l.handed \in H
  BY DEF LineParsers
<1>2. h \in H
  <2> HIDE DEF c
  <2>1. Append(l.handed, c) \in H
    BY <1>1
  <2> QED
    BY <1>1, <2>1
<1>3. <<>> \in Seq(0 .. 7) /\ "Delimiter1" \in LineStates
  BY DEF LineStates
<1>4. Handed(l, ok) = [l EXCEPT !.dataState = "Delimiter1", !.data = <<>>, !.left = 0, !.sum = 0,
                                !.handed = h]
  BY DEF Handed
<1> HIDE DEF c, h, H
<1>5. [l EXCEPT !.dataState = "Delimiter1", !.data = <<>>, !.left = 0, !.sum = 0, !.handed = h]
        \in LineParsers
  <2> DEFINE D == Seq(0 .. 7)
             O == 0 .. 7
  <2>1. LineParsers = [dataState: LineStates, file: BOOLEAN, left: O, data: D, sum: O, handed: H]
    BY DEF LineParsers, H
  <2>2. <<>> \in D /\ "Delimiter1" \in LineStates /\ 0 \in O
    BY <1>3
  <2> HIDE DEF D, O
  <2> QED
    BY <1>2, <2>1, <2>2
<1>6. /\ Handed(l, ok).dataState = "Delimiter1" /\ Handed(l, ok).data = <<>>
      /\ Handed(l, ok).handed = h
  BY <1>4 DEF LineParsers
<1> QED
  BY <1>4, <1>5, <1>6 DEF c, h

(* The parser after the byte b, by where it stands.                         *)
LEMMA LineSteps ==
  ASSUME NEW l \in LineParsers, NEW b \in 0 .. 7
  PROVE  /\ l.dataState = "Delimiter1" => DataProcess(l, b) =
              IF b = LineHeader0 THEN [l EXCEPT !.dataState = "Delimiter2"] ELSE l
         /\ l.dataState = "Delimiter2" => DataProcess(l, b) =
              IF b \in {LineHeader1, LineHeader3}
              THEN [l EXCEPT !.dataState = "Command", !.file = (b = LineHeader3),
                             !.sum = (LineHeader0 + b) % 8]
              ELSE [l EXCEPT !.dataState = "Delimiter1"]
         /\ l.dataState = "Command" =>
              DataProcess(l, b) = [l EXCEPT !.dataState = "Length", !.sum = (l.sum + b) % 8]
         /\ l.dataState = "Checksum" => DataProcess(l, b) = Handed(l, b = l.sum)
<1>1. CASE l.dataState = "Delimiter1"
  BY <1>1 DEF DataProcess
<1>2. CASE l.dataState = "Delimiter2"
  BY <1>2 DEF DataProcess
<1>3. CASE l.dataState = "Command"
  BY <1>3 DEF DataProcess, LineParsers
<1>4. CASE l.dataState = "Checksum"
  BY <1>4 DEF DataProcess
<1> QED
  BY <1>1, <1>2, <1>3, <1>4

Lengthened(l, b) == [l EXCEPT !.left = b, !.sum = (l.sum + b) % 8]
Taken(l, b) == [l EXCEPT !.data = Append(l.data, b), !.left = l.left - 1, !.sum = (l.sum + b) % 8]
Ended(m) == IF m.file THEN [m EXCEPT !.dataState = "Checksum"] ELSE Handed(m, TRUE)

LEMMA DataSteps ==
  ASSUME NEW l \in LineParsers, NEW b \in 0 .. 7
  PROVE  /\ l.dataState = "Length" => DataProcess(l, b) =
              IF b > 0 THEN [Lengthened(l, b) EXCEPT !.dataState = "Data"]
              ELSE Ended(Lengthened(l, b))
         /\ l.dataState = "Data" => DataProcess(l, b) =
              IF l.left - 1 > 0 THEN Taken(l, b) ELSE Ended(Taken(l, b))
<1>1. CASE l.dataState = "Length"
  <2> DEFINE m == [l EXCEPT !.left = b, !.sum = (@ + b) % 8]
  <2>1. m = Lengthened(l, b) /\ m.file = l.file
    BY DEF Lengthened, LineParsers
  <2>2. DataProcess(l, b) =
          IF b > 0 THEN [m EXCEPT !.dataState = "Data"]
          ELSE IF l.file THEN [m EXCEPT !.dataState = "Checksum"] ELSE Handed(m, TRUE)
    BY <1>1 DEF DataProcess
  <2> HIDE DEF m
  <2> QED
    BY <1>1, <2>1, <2>2 DEF Ended
<1>2. CASE l.dataState = "Data"
  <2> DEFINE m == [l EXCEPT !.data = Append(@, b), !.left = @ - 1, !.sum = (@ + b) % 8]
  <2>1. m = Taken(l, b) /\ m.file = l.file /\ m.left = l.left - 1
    BY DEF Taken, LineParsers
  <2>2. DataProcess(l, b) =
          IF m.left > 0 THEN m
          ELSE IF l.file THEN [m EXCEPT !.dataState = "Checksum"] ELSE Handed(m, TRUE)
    BY <1>2 DEF DataProcess
  <2> HIDE DEF m
  <2> QED
    BY <1>2, <2>1, <2>2 DEF Ended
<1> QED
  BY <1>1, <1>2

LEMMA StepsTyped ==
  ASSUME NEW l \in LineParsers, NEW b \in 0 .. 7
  PROVE  /\ Lengthened(l, b) \in LineParsers
         /\ Lengthened(l, b).left = b /\ Lengthened(l, b).sum = (l.sum + b) % 8
         /\ Lengthened(l, b).file = l.file /\ Lengthened(l, b).data = l.data
         /\ Lengthened(l, b).handed = l.handed
         /\ l.left > 0 => Taken(l, b) \in LineParsers
         /\ Taken(l, b).dataState = l.dataState
         /\ Taken(l, b).left = l.left - 1 /\ Taken(l, b).sum = (l.sum + b) % 8
         /\ Taken(l, b).file = l.file /\ Taken(l, b).data = Append(l.data, b)
         /\ Taken(l, b).handed = l.handed
<1> DEFINE s == (l.sum + b) % 8
           d == Append(l.data, b)
           n == l.left - 1
<1>1. s \in 0 .. 7
  <2>1. l.sum \in 0 .. 7
    BY DEF LineParsers
  <2> QED
    BY <2>1
<1>2. d \in Seq(0 .. 7)
  <2>1. l.data \in Seq(0 .. 7)
    BY DEF LineParsers
  <2> QED
    BY <2>1
<1>3. l.left > 0 => n \in 0 .. 7
  <2>1. l.left \in 0 .. 7
    BY DEF LineParsers
  <2> QED
    BY <2>1
<1> HIDE DEF s, d, n
<1> DEFINE t == [l EXCEPT !.left = b, !.sum = s]
           u == [l EXCEPT !.data = d, !.left = n, !.sum = s]
<1>4. /\ t \in LineParsers /\ t.left = b /\ t.sum = s
      /\ t.file = l.file /\ t.data = l.data /\ t.handed = l.handed
  BY <1>1 DEF LineParsers
<1>5. /\ l.left > 0 => u \in LineParsers
      /\ u.dataState = l.dataState /\ u.left = n /\ u.sum = s
      /\ u.file = l.file /\ u.data = d /\ u.handed = l.handed
  BY <1>1, <1>2, <1>3 DEF LineParsers
<1>6. t = Lengthened(l, b)
  BY DEF Lengthened, s
<1>7. u = Taken(l, b)
  BY DEF Taken, s, d, n
<1> HIDE DEF t, u
<1>8. /\ l.left > 0 => Taken(l, b) \in LineParsers
      /\ Taken(l, b).dataState = l.dataState /\ Taken(l, b).left = n /\ Taken(l, b).sum = s
      /\ Taken(l, b).file = l.file /\ Taken(l, b).data = d /\ Taken(l, b).handed = l.handed
  BY <1>5, <1>7
<1>9. /\ Lengthened(l, b) \in LineParsers /\ Lengthened(l, b).left = b /\ Lengthened(l, b).sum = s
      /\ Lengthened(l, b).file = l.file /\ Lengthened(l, b).data = l.data
      /\ Lengthened(l, b).handed = l.handed
  BY <1>4, <1>6
<1> QED
  BY <1>8, <1>9 DEF s, d, n

LEMMA EndedIs ==
  ASSUME NEW m \in LineParsers
  PROVE  /\ Ended(m) \in LineParsers
         /\ m.file => /\ Ended(m).dataState = "Checksum" /\ Ended(m).data = m.data
                      /\ Ended(m).left = m.left /\ Ended(m).sum = m.sum
                      /\ Ended(m).file = m.file /\ Ended(m).handed = m.handed
         /\ ~m.file => /\ Ended(m).dataState = "Delimiter1" /\ Ended(m).data = <<>>
                       /\ Ended(m).handed = Append(m.handed, [file |-> m.file, data |-> m.data])
         /\ Ended(m).dataState # "Data"
<1>1. CASE m.file
  <2> DEFINE t == [m EXCEPT !.dataState = "Checksum"]
  <2>1. /\ t \in LineParsers /\ t.dataState = "Checksum" /\ t.data = m.data /\ t.left = m.left
        /\ t.sum = m.sum /\ t.file = m.file /\ t.handed = m.handed
    BY DEF LineParsers, LineStates
  <2>2. Ended(m) = t
    BY <1>1 DEF Ended
  <2> HIDE DEF t
  <2> QED
    BY <1>1, <2>1, <2>2
<1>2. CASE ~m.file
  <2>1. Ended(m) = Handed(m, TRUE)
    BY <1>2 DEF Ended
  <2> QED
    BY <1>2, <2>1, HandedIs
<1> QED
  BY <1>1, <1>2

LEMMA ParserTyped ==
  ASSUME NEW l \in LineParsers, NEW b \in 0 .. 7, l.dataState = "Data" => l.left > 0
  PROVE  /\ DataProcess(l, b) \in LineParsers
         /\ DataProcess(l, b).dataState = "Data" => DataProcess(l, b).left > 0
<1>1. l.dataState \in LineStates /\ l.sum \in 0 .. 7 /\ l.left \in 0 .. 7
  BY DEF LineParsers
<1>2. CASE l.dataState = "Delimiter1"
  <2>1. DataProcess(l, b) = l \/ DataProcess(l, b) = [l EXCEPT !.dataState = "Delimiter2"]
    BY <1>2, LineSteps
  <2>2. [l EXCEPT !.dataState = "Delimiter2"] \in LineParsers
        /\ [l EXCEPT !.dataState = "Delimiter2"].dataState # "Data"
    BY DEF LineParsers, LineStates
  <2> QED
    BY <1>2, <2>1, <2>2
<1>3. CASE l.dataState = "Delimiter2"
  <2> DEFINE s == (LineHeader0 + b) % 8
             f == (b = LineHeader3)
             t == [l EXCEPT !.dataState = "Command", !.file = f, !.sum = s]
             u == [l EXCEPT !.dataState = "Delimiter1"]
  <2>1. s \in 0 .. 7
    BY DEF LineHeader0
  <2>2. f \in BOOLEAN
    OBVIOUS
  <2>3. DataProcess(l, b) = t \/ DataProcess(l, b) = u
    BY <1>3, LineSteps
  <2> HIDE DEF s, f
  <2>4. t \in LineParsers /\ t.dataState # "Data"
    BY <2>1, <2>2 DEF LineParsers, LineStates
  <2>5. u \in LineParsers /\ u.dataState # "Data"
    BY DEF LineParsers, LineStates
  <2> HIDE DEF t, u
  <2> QED
    BY <2>3, <2>4, <2>5
<1>4. CASE l.dataState = "Command"
  <2> DEFINE s == (l.sum + b) % 8
             t == [l EXCEPT !.dataState = "Length", !.sum = s]
  <2>1. s \in 0 .. 7
    BY <1>1
  <2>2. DataProcess(l, b) = t
    BY <1>4 DEF DataProcess, LineParsers
  <2> HIDE DEF s
  <2>3. t \in LineParsers /\ t.dataState # "Data"
    BY <2>1 DEF LineParsers, LineStates
  <2> HIDE DEF t
  <2> QED
    BY <2>2, <2>3
<1>5. CASE l.dataState = "Length"
  <2> DEFINE m == Lengthened(l, b)
             t == [m EXCEPT !.dataState = "Data"]
  <2>1. m \in LineParsers /\ m.left = b
    BY StepsTyped
  <2>2. DataProcess(l, b) = IF b > 0 THEN t ELSE Ended(m)
    BY <1>5, DataSteps
  <2> HIDE DEF m
  <2>3. t \in LineParsers /\ t.left = b
    BY <2>1 DEF LineParsers, LineStates
  <2>4. Ended(m) \in LineParsers /\ Ended(m).dataState # "Data"
    BY <2>1, EndedIs
  <2> HIDE DEF t
  <2> QED
    BY <2>2, <2>3, <2>4
<1>6. CASE l.dataState = "Data"
  <2> DEFINE m == Taken(l, b)
  <2>1. m \in LineParsers /\ m.left = l.left - 1
    BY <1>6, StepsTyped
  <2>2. DataProcess(l, b) = IF l.left - 1 > 0 THEN m ELSE Ended(m)
    BY <1>6, DataSteps
  <2> HIDE DEF m
  <2>3. Ended(m) \in LineParsers /\ Ended(m).dataState # "Data"
    BY <2>1, EndedIs
  <2> QED
    BY <2>1, <2>2, <2>3
<1>7. CASE l.dataState = "Checksum"
  <2>1. DataProcess(l, b) = Handed(l, b = l.sum)
    BY <1>7, LineSteps
  <2>2. Handed(l, b = l.sum) \in LineParsers /\ Handed(l, b = l.sum).dataState = "Delimiter1"
    BY HandedIs
  <2> QED
    BY <2>1, <2>2
<1> QED
  BY <1>1, <1>2, <1>3, <1>4, <1>5, <1>6, <1>7 DEF LineStates

LEMMA SubSeqNone ==
  ASSUME NEW s, NEW n \in Int, n < 1
  PROVE  SubSeq(s, 1, n) = <<>>
BY SubSeqEmpty

LEMMA AmidData ==
  ASSUME NEW l, NEW r, NEW k \in Int, NEW D \in Nat, D = Len(r.data), k > 3,
         l.dataState = IF k < 4 + D THEN "Data" ELSE "Checksum", k <= 4 + D,
         l.file = r.file, l.sum = Sums(Body(r))[k], l.left = 4 + D - k,
         l.data = SubSeq(r.data, 1, k - 4)
  PROVE  Amid(l, r, k)
<1> DEFINE State(m) == CASE k = 1 -> "Delimiter2" [] k = 2 -> "Command" [] k = 3 -> "Length"
                         [] k > 3 /\ k < 4 + m -> "Data" [] k = 4 + m -> "Checksum"
           n == Len(r.data)
<1>1. l.dataState = State(D)
  <2>1. CASE k < 4 + D
    BY <2>1
  <2>2. CASE k = 4 + D
    BY <2>2
  <2> QED
    BY <2>1, <2>2
<1>2. n = D
  OBVIOUS
<1> HIDE DEF State, n
<1>3. l.dataState = State(n) /\ l.left = 4 + n - k
  BY <1>1, <1>2
<1> QED
  BY <1>3 DEF Amid, State, n

(* A parser that stands after p bytes of the request r takes the next one.  *)
LEMMA ParserFollows ==
  ASSUME LineAssumption, NEW l \in LineParsers, NEW r \in Requests, NEW p \in Nat,
         p + 1 <= Len(Encoded(r)),
         IF p = 0 THEN Between(l) ELSE Amid(l, r, p)
  PROVE  IF p + 1 = Len(Encoded(r))
         THEN /\ Between(DataProcess(l, Encoded(r)[p + 1]))
              /\ DataProcess(l, Encoded(r)[p + 1]).handed = Append(l.handed, r)
         ELSE /\ Amid(DataProcess(l, Encoded(r)[p + 1]), r, p + 1)
              /\ DataProcess(l, Encoded(r)[p + 1]).handed = l.handed
<1> DEFINE d == r.data
           D == Len(d)
           body == Body(r)
           e == Encoded(r)
           E == Len(e)
           S == Sums(body)
           b == e[p + 1]
           q == DataProcess(l, b)
           n == Len(body)
<1>1. /\ r.file \in BOOLEAN /\ d \in Seq(0 .. 7) /\ D \in 0 .. 7
      /\ r = [file |-> r.file, data |-> d]
      /\ body \in Seq(0 .. 7) /\ n = 4 + D
      /\ body[1] = LineHeader0 /\ body[2] = (IF r.file THEN LineHeader3 ELSE LineHeader1)
      /\ body[3] = 1 /\ body[4] = D
      /\ \A i \in 1 .. D : body[4 + i] = d[i]
  BY BodyIs
<1>2. /\ e \in Seq(0 .. 7) /\ E = n + (IF r.file THEN 1 ELSE 0)
      /\ \A i \in 1 .. n : e[i] = body[i]
      /\ r.file => e[n + 1] = S[n]
  BY EncodedIs
<1>3. /\ S[0] = 0 /\ \A i \in 1 .. n : S[i] = (S[i - 1] + body[i]) % 8
      /\ \A i \in 0 .. n : S[i] \in 0 .. 7
  BY <1>1, SumsTyped
<1>4. l.dataState \in LineStates /\ l.file \in BOOLEAN /\ l.sum \in 0 .. 7
  BY DEF LineParsers
<1>5. Between(l) <=> l.dataState = "Delimiter1" /\ l.data = <<>>
  BY DEF Between
<1>6. p + 1 \in 1 .. E /\ p + 1 <= E
  <2>1. p + 1 <= E /\ E \in Nat
    BY <1>2
  <2> HIDE DEF E
  <2> QED
    BY <2>1
<1>7. b \in 0 .. 7
  BY <1>2, <1>6
<1>8. /\ Amid(l, r, p) =>
           /\ p = 1 => l.dataState = "Delimiter2"
           /\ p = 2 => l.dataState = "Command"
           /\ p = 3 => l.dataState = "Length"
           /\ p > 3 /\ p < 4 + D => l.dataState = "Data"
           /\ p > 3 /\ p = 4 + D => l.dataState = "Checksum"
           /\ p > 1 => l.file = r.file /\ l.sum = S[p]
           /\ p > 3 => l.left = 4 + D - p
           /\ l.data = SubSeq(d, 1, p - 4)
  <2> SUFFICES ASSUME Amid(l, r, p)
      PROVE  /\ p = 1 => l.dataState = "Delimiter2"
             /\ p = 2 => l.dataState = "Command"
             /\ p = 3 => l.dataState = "Length"
             /\ p > 3 /\ p < 4 + D => l.dataState = "Data"
             /\ p > 3 /\ p = 4 + D => l.dataState = "Checksum"
             /\ p > 1 => l.file = r.file /\ l.sum = S[p]
             /\ p > 3 => l.left = 4 + D - p
             /\ l.data = SubSeq(d, 1, p - 4)
    OBVIOUS
  <2> DEFINE State == CASE p = 1 -> "Delimiter2" [] p = 2 -> "Command" [] p = 3 -> "Length"
                        [] p > 3 /\ p < 4 + D -> "Data" [] p = 4 + D -> "Checksum"
             tail4 == SubSeq(d, 1, p - 4)
  <2>1. /\ l.dataState = State /\ l.data = tail4
        /\ p > 1 => l.file = r.file /\ l.sum = S[p]
        /\ p > 3 => l.left = 4 + D - p
    BY DEF Amid
  <2>2. /\ p = 1 => State = "Delimiter2"
        /\ p = 2 => State = "Command"
        /\ p = 3 => State = "Length"
        /\ p > 3 /\ p < 4 + D => State = "Data"
        /\ p > 3 /\ p = 4 + D => State = "Checksum"
    <3> HIDE DEF D
    <3> QED
      BY <1>1
  <2> HIDE DEF State, tail4, S, D
  <2>3. l.data = tail4
    BY <2>1
  <2> QED
    BY <2>1, <2>2, <2>3 DEF tail4
<1>9. /\ p + 1 <= n => b = body[p + 1] /\ S[p + 1] = (S[p] + b) % 8
      /\ p + 1 > n => r.file /\ p = n /\ E = n + 1 /\ b = S[n]
  <2> HIDE DEF S, body, e, n, E, D
  <2>1. n \in Nat
    BY <1>1
  <2>2. p + 1 <= n => p + 1 \in 1 .. n /\ p + 1 - 1 = p
    BY <2>1
  <2>3. p + 1 > n => r.file /\ p = n /\ E = n + 1
    BY <1>1, <1>2, <1>6, <2>1
  <2> QED
    BY <1>2, <1>3, <2>2, <2>3
<1> HIDE DEF d, D, body, e, E, S, b, n
<1>10. ASSUME p = 0
       PROVE  p + 1 # E /\ Amid(q, r, p + 1) /\ q.handed = l.handed
  <2>1. b = LineHeader0 /\ p + 1 # E
    BY <1>1, <1>2, <1>9, <1>10, SMTT(40)
  <2>2. l.dataState = "Delimiter1" /\ l.data = <<>>
    BY <1>5, <1>10
  <2> DEFINE t == [l EXCEPT !.dataState = "Delimiter2"]
  <2>3. q = t
    BY <1>7, <2>1, <2>2, LineSteps
  <2>4. t.dataState = "Delimiter2" /\ t.data = <<>> /\ t.handed = l.handed
    BY <2>2 DEF LineParsers
  <2> HIDE DEF t, q
  <2>5. p + 1 = 1 /\ SubSeq(r.data, 1, -3) = <<>>
    BY <1>10, SubSeqNone
  <2>6. Amid(q, r, 1)
    BY <2>3, <2>4, <2>5 DEF Amid
  <2> QED
    BY <2>1, <2>3, <2>4, <2>5, <2>6
<1>11. ASSUME p = 1
       PROVE  p + 1 # E /\ Amid(q, r, p + 1) /\ q.handed = l.handed
  <2>1. b = (IF r.file THEN LineHeader3 ELSE LineHeader1) /\ p + 1 # E
        /\ S[2] = (S[1] + b) % 8 /\ S[1] = LineHeader0
    <3>1. 1 \in 1 .. n /\ p + 1 = 2 /\ 1 - 1 = 0
      BY <1>1, <1>11
    <3>2. S[1] = (0 + LineHeader0) % 8
      BY <1>1, <1>3, <3>1
    <3>3. S[1] = LineHeader0
      BY <3>2 DEF LineHeader0
    <3> QED
      BY <1>1, <1>2, <1>9, <1>11, <3>1, <3>3
  <2>2. l.dataState = "Delimiter2" /\ l.data = SubSeq(d, 1, 1 - 4)
    BY <1>8, <1>11
  <2> DEFINE s == (LineHeader0 + b) % 8
             f == (b = LineHeader3)
             t == [l EXCEPT !.dataState = "Command", !.file = f, !.sum = s]
  <2>3. f = r.file
    BY <1>1, <2>1 DEF LineHeader1, LineHeader3
  <2>4. b \in {LineHeader1, LineHeader3}
    BY <2>1
  <2>5. q = t
    BY <1>7, <2>2, <2>4, LineSteps
  <2>6. s = S[2]
    BY <2>1
  <2> HIDE DEF s, f
  <2>7. t.dataState = "Command" /\ t.data = l.data /\ t.handed = l.handed /\ t.file = f /\ t.sum = s
    BY DEF LineParsers
  <2> HIDE DEF t, q
  <2>8. p + 1 = 2 /\ SubSeq(r.data, 1, 2 - 4) = <<>> /\ SubSeq(d, 1, 1 - 4) = <<>>
    BY <1>11, SubSeqNone
  <2>9. Amid(q, r, 2)
    BY <2>2, <2>3, <2>5, <2>6, <2>7, <2>8 DEF Amid, S, body
  <2> QED
    BY <2>1, <2>5, <2>7, <2>8, <2>9
<1>12. ASSUME p = 2
       PROVE  p + 1 # E /\ Amid(q, r, p + 1) /\ q.handed = l.handed
  <2>1. b = 1 /\ p + 1 # E /\ S[3] = (S[2] + b) % 8
    BY <1>1, <1>2, <1>9, <1>12
  <2>2. l.dataState = "Command" /\ l.data = SubSeq(d, 1, 2 - 4) /\ l.file = r.file /\ l.sum = S[2]
    BY <1>8, <1>12
  <2> DEFINE s == (l.sum + b) % 8
             t == [l EXCEPT !.dataState = "Length", !.sum = s]
  <2>3. q = t
    BY <2>2 DEF DataProcess, LineParsers
  <2>4. s = S[3]
    BY <2>1, <2>2
  <2> HIDE DEF s
  <2>5. t.dataState = "Length" /\ t.data = l.data /\ t.handed = l.handed /\ t.file = l.file /\ t.sum = s
    BY DEF LineParsers
  <2> HIDE DEF t, q
  <2>6. p + 1 = 3 /\ SubSeq(r.data, 1, 3 - 4) = <<>> /\ SubSeq(d, 1, 2 - 4) = <<>>
    BY <1>12, SubSeqNone
  <2>7. Amid(q, r, 3)
    BY <2>2, <2>3, <2>4, <2>5, <2>6 DEF Amid, S, body
  <2> QED
    BY <2>1, <2>3, <2>5, <2>6, <2>7
<1> DEFINE Then ==
      IF p + 1 = E THEN Between(q) /\ q.handed = Append(l.handed, r)
      ELSE Amid(q, r, p + 1) /\ q.handed = l.handed
(* The parser m after its length or a byte of data, p > 2.                  *)
<1>13. ASSUME NEW m \in LineParsers, p \in 3 .. 3 + D, m.data = SubSeq(d, 1, p + 1 - 4),
              m.left = 4 + D - (p + 1), m.sum = S[p + 1], m.file = r.file, m.handed = l.handed,
              q = IF p + 1 < 4 + D THEN [m EXCEPT !.dataState = "Data"] ELSE Ended(m)
       PROVE  Then
  <2>0. D \in Nat /\ E = 4 + D + (IF r.file THEN 1 ELSE 0)
    BY <1>1, <1>2
  <2>1. CASE p + 1 < 4 + D
    <3> DEFINE t == [m EXCEPT !.dataState = "Data"]
    <3>1. /\ t.dataState = "Data" /\ t.data = m.data /\ t.left = m.left /\ t.sum = m.sum
          /\ t.file = m.file /\ t.handed = m.handed
      BY DEF LineParsers
    <3>2. q = t
      BY <1>13, <2>1
    <3>3. p + 1 # E /\ p + 1 > 3 /\ p + 1 # 1 /\ p + 1 # 2 /\ p + 1 # 3
      BY <1>13, <2>0, <2>1, SMTT(40)
    <3> HIDE DEF t, q
    <3>4. Amid(q, r, p + 1)
      <4> DEFINE k == p + 1
      <4>1. k \in Int /\ k > 3 /\ k <= 4 + D /\ k < 4 + D
        BY <2>0, <2>1, <3>3
      <4>20. q.left = 4 + D - k
        BY <1>13, <3>1, <3>2
      <4>21. q.data = SubSeq(d, 1, k - 4)
        BY <1>13, <3>1, <3>2, SMTT(40)
      <4>22. q.sum = S[k] /\ q.file = r.file /\ q.dataState = "Data"
        BY <1>13, <3>1, <3>2
      <4>2. q.left = 4 + D - k /\ q.data = SubSeq(d, 1, k - 4) /\ q.sum = S[k] /\ q.file = r.file
            /\ q.dataState = "Data"
        BY <4>20, <4>21, <4>22
      <4> HIDE DEF k
      <4>3. Amid(q, r, k)
        BY <2>0, <4>1, <4>2, AmidData DEF S, body, D, d
      <4> QED
        BY <4>3 DEF k
    <3> QED
      BY <1>13, <3>1, <3>2, <3>3, <3>4
  <2>2. CASE ~(p + 1 < 4 + D)
    <3>1. p + 1 = 4 + D /\ m.left = 0
      BY <1>13, <2>0, <2>2, SMTT(40)
    <3>2. q = Ended(m)
      BY <1>13, <2>2
    <3> HIDE DEF q
    <3>3. CASE r.file
      <4>1. /\ q.dataState = "Checksum" /\ q.data = m.data /\ q.left = m.left /\ q.sum = m.sum
            /\ q.file = m.file /\ q.handed = m.handed
        BY <1>13, <3>2, <3>3, EndedIs
      <4>2. E = 4 + D + 1
        BY <2>0, <3>3
      <4>3. Amid(q, r, p + 1)
        <5> DEFINE k == p + 1
        <5>1. k \in Int /\ k > 3 /\ k <= 4 + D /\ ~(k < 4 + D)
          <6>1. p + 1 = 4 + D /\ D \in Nat
            BY <2>0, <3>1
          <6> QED
            BY <6>1
        <5>2. q.left = 4 + D - k /\ q.data = SubSeq(d, 1, k - 4) /\ q.sum = S[k]
              /\ q.file = r.file /\ q.dataState = "Checksum"
          BY <1>13, <4>1, SMTT(40)
        <5> HIDE DEF k
        <5>3. Amid(q, r, k)
          BY <2>0, <5>1, <5>2, AmidData DEF S, body, D, d
        <5> QED
          BY <5>3 DEF k
      <4>4. p + 1 # E
        BY <2>0, <3>1, <4>2
      <4> QED
        BY <1>13, <4>1, <4>3, <4>4
    <3>4. CASE ~r.file
      <4>1. /\ q.dataState = "Delimiter1" /\ q.data = <<>>
            /\ q.handed = Append(m.handed, [file |-> m.file, data |-> m.data])
        BY <1>13, <3>2, <3>4, EndedIs
      <4>2. p + 1 = E /\ p + 1 - 4 = D
        BY <2>0, <3>1, <3>4
      <4>3. m.data = d
        BY <1>1, <1>13, <4>2, SubSeqWhole DEF D
      <4>4. [file |-> m.file, data |-> m.data] = r
        BY <1>1, <1>13, <4>3
      <4> QED
        BY <1>13, <4>1, <4>2, <4>4 DEF Between
    <3> QED
      BY <1>1, <3>3, <3>4
  <2> QED
    BY <2>1, <2>2
<1>14. ASSUME p = 3 PROVE Then
  <2>1. b = D /\ S[4] = (S[3] + b) % 8
    BY <1>1, <1>9, <1>14
  <2>2. l.dataState = "Length" /\ l.data = SubSeq(d, 1, 3 - 4) /\ l.file = r.file /\ l.sum = S[3]
    BY <1>8, <1>14
  <2> DEFINE m == Lengthened(l, b)
  <2>3. /\ m \in LineParsers /\ m.left = b /\ m.sum = (l.sum + b) % 8
        /\ m.file = l.file /\ m.data = l.data /\ m.handed = l.handed
    BY <1>7, StepsTyped
  <2>4. q = IF b > 0 THEN [m EXCEPT !.dataState = "Data"] ELSE Ended(m)
    BY <1>7, <2>2, DataSteps
  <2> HIDE DEF m, q
  <2>5. D \in Nat /\ p \in 3 .. 3 + D /\ p + 1 = 4 /\ (p + 1 < 4 + D <=> b > 0) /\ b = 4 + D - (p + 1)
    BY <1>1, <1>14, <2>1
  <2>6. m.data = SubSeq(d, 1, p + 1 - 4)
    <3>1. SubSeq(d, 1, 3 - 4) = <<>> /\ SubSeq(d, 1, 0) = <<>>
      BY SubSeqNone
    <3>2. p + 1 - 4 = 0
      BY <1>14
    <3> QED
      BY <2>2, <2>3, <3>1, <3>2
  <2>7. m.sum = S[p + 1]
    BY <2>1, <2>2, <2>3, <2>5
  <2>8. q = IF p + 1 < 4 + D THEN [m EXCEPT !.dataState = "Data"] ELSE Ended(m)
    BY <2>4, <2>5
  <2>9. m.left = 4 + D - (p + 1) /\ m.file = r.file /\ m.handed = l.handed
    BY <2>2, <2>3, <2>5
  <2> HIDE DEF Then
  <2> QED
    BY <1>13, <2>3, <2>5, <2>6, <2>7, <2>8, <2>9
<1>15. ASSUME p > 3, p < 4 + D PROVE Then
  <2>0. D \in Nat /\ p - 3 \in 1 .. D /\ 4 + (p - 3) = p + 1 /\ p + 1 <= n
    BY <1>1, <1>15
  <2>1. b = d[p - 3] /\ S[p + 1] = (S[p] + b) % 8
    BY <1>1, <1>9, <2>0
  <2>2. l.dataState = "Data" /\ l.data = SubSeq(d, 1, p - 4) /\ l.file = r.file /\ l.sum = S[p]
        /\ l.left = 4 + D - p
    BY <1>8, <1>15
  <2> DEFINE m == Taken(l, b)
  <2>3. /\ m \in LineParsers /\ m.dataState = "Data"
        /\ m.left = l.left - 1 /\ m.sum = (l.sum + b) % 8
        /\ m.file = l.file /\ m.data = Append(l.data, b) /\ m.handed = l.handed
    <3>1. l.left > 0
      BY <2>2, <2>0, <1>15
    <3> QED
      BY <1>7, <2>2, <3>1, StepsTyped
  <2>4. q = IF l.left - 1 > 0 THEN m ELSE Ended(m)
    BY <1>7, <2>2, DataSteps
  <2> HIDE DEF m, q
  <2>5. [m EXCEPT !.dataState = "Data"] = m
    BY <2>3 DEF LineParsers
  <2>6. p \in 3 .. 3 + D /\ (p + 1 < 4 + D <=> l.left - 1 > 0) /\ l.left - 1 = 4 + D - (p + 1)
    BY <2>0, <2>2
  <2>7. m.data = SubSeq(d, 1, p + 1 - 4)
    <3>1. p - 4 = (p - 3) - 1 /\ p + 1 - 4 = p - 3
      BY <2>0
    <3>2. Append(SubSeq(d, 1, (p - 3) - 1), d[p - 3]) = SubSeq(d, 1, p - 3)
      BY <1>1, <2>0, SubSeqGrows DEF D
    <3> QED
      BY <2>1, <2>2, <2>3, <3>1, <3>2
  <2>8. m.sum = S[p + 1]
    BY <2>1, <2>2, <2>3
  <2>9. q = IF p + 1 < 4 + D THEN [m EXCEPT !.dataState = "Data"] ELSE Ended(m)
    BY <2>4, <2>5, <2>6
  <2>10. m.left = 4 + D - (p + 1) /\ m.file = r.file /\ m.handed = l.handed
    BY <2>2, <2>3, <2>6
  <2> HIDE DEF Then
  <2> QED
    BY <1>13, <2>3, <2>6, <2>7, <2>8, <2>9, <2>10
<1>16. ASSUME p > 3, ~(p < 4 + D) PROVE Then
  <2>0. D \in Nat /\ p + 1 > n
    BY <1>1, <1>16
  <2>1. r.file /\ p = n /\ E = p + 1 /\ b = S[p] /\ p = 4 + D /\ p - 4 = D
    BY <1>1, <1>9, <2>0
  <2>2. l.dataState = "Checksum" /\ l.data = SubSeq(d, 1, p - 4) /\ l.file = r.file /\ l.sum = S[p]
    <3>1. p > 3 /\ p = 4 + D /\ p # 0
      BY <1>16, <2>1
    <3>2. Amid(l, r, p)
      BY <3>1
    <3> QED
      BY <1>8, <3>1, <3>2
  <2>3. q = Handed(l, b = l.sum)
    BY <1>7, <2>2, LineSteps
  <2>7. q = Handed(l, TRUE)
    BY <2>1, <2>2, <2>3 DEF Handed
  <2>4. l.data = d
    BY <1>1, <2>1, <2>2, SubSeqWhole DEF D
  <2>5. [file |-> l.file, data |-> l.data] = r
    BY <1>1, <2>2, <2>4
  <2>6. q.dataState = "Delimiter1" /\ q.data = <<>> /\ q.handed = Append(l.handed, r)
    BY <2>5, <2>7, HandedIs
  <2> HIDE DEF q
  <2> QED
    BY <2>1, <2>6 DEF Between
<1>17. Then
  <2>1. p = 0 \/ p = 1 \/ p = 2 \/ p = 3 \/ (p > 3 /\ p < 4 + D) \/ (p > 3 /\ ~(p < 4 + D))
    OBVIOUS
  <2>2. p = 0 \/ p = 1 \/ p = 2 => Then
    <3> HIDE DEF q
    <3> QED
      BY <1>10, <1>11, <1>12
  <2> HIDE DEF Then
  <2> QED
    BY <1>14, <1>15, <1>16, <2>1, <2>2
<1> QED
  BY <1>17 DEF E, e, b

LEMMA ProcessByteLine ==
  ASSUME LineAssumption, LineInv, ProcessByte
  PROVE  LineInv'
<1> DEFINE B == bufferSize
           b == buffer[head].byte
           q == DataProcess(line, b)
           m == Len(sent)
<1>0. B \in Nat /\ B > 1
  BY DEF LineAssumption
<1>1. UNCHANGED <<sent, buffer, received, dmaDone, number, lapped, tail, comm>>
  BY DEF ProcessByte, fromLine
<1>2. /\ line' = q /\ takenTo' = buffer[head].number /\ head' = (head + 1) % B
      /\ asked' = IF takenTo' > 0 /\ Ends(sent[takenTo'])
                  THEN Append(asked, sent[takenTo'].request) ELSE asked
  BY DEF ProcessByte
<1>3. /\ sent \in Seq(SentBytes) /\ m \in Nat /\ number \in 0 .. m /\ takenTo \in Nat
      /\ head \in 0 .. B - 1 /\ line \in LineParsers /\ (line.dataState = "Data" => line.left > 0)
      /\ DOMAIN sent = 1 .. m
  BY DEF LineInv, LineTyped
<1>4. buffer[head] \in [byte: 0 .. 7, number: 0 .. m]
  BY DEF LineInv, LineTyped
<1>5. b \in 0 .. 7 /\ takenTo' \in Nat
  <2>1. b \in 0 .. 7 /\ buffer[head].number \in 0 .. m
    BY <1>4
  <2> QED
    BY <1>2, <1>3, <2>1
<1>6. LineTyped'
  <2>1. q \in LineParsers /\ (q.dataState = "Data" => q.left > 0)
    BY <1>3, <1>5, ParserTyped
  <2>2. head' \in 0 .. B - 1
    BY <1>0, <1>2, <1>3, Around
  <2>3. line' \in LineParsers /\ (line'.dataState = "Data" => line'.left > 0)
    BY <1>2, <2>1
  <2> QED
    BY <1>1, <1>5, <2>2, <2>3 DEF LineTyped, LineInv
<1>7. Successive' /\ InPlace'
  BY <1>1 DEF LineInv, Successive, InPlace, Lap
<1>8. ASSUME ~lapped' PROVE Behind' /\ Aimed' /\ Standing' /\ line'.handed = asked'
  <2>1. ~lapped
    BY <1>1, <1>8
  <2>2. Standing /\ line.handed = asked
    BY <2>1 DEF LineInv
  <2>3. /\ takenTo < number /\ takenTo' = takenTo + 1 /\ b = sent[takenTo + 1].byte
        /\ Behind' /\ Aimed'
    BY <2>1, TakesNext
  <2> DEFINE k == takenTo + 1
             r == sent[k].request
             p == sent[k].at - 1
  <2>4. k \in 1 .. m /\ k > 0 /\ sent[k] \in SentBytes
    BY <1>3, <2>3
  <2>5. r \in Requests /\ sent[k].at \in Nat \ {0}
    BY <2>4 DEF SentBytes
  <2>6. p \in Nat /\ p + 1 = sent[k].at
    BY <2>5
  <2>7. b = Encoded(r)[p + 1] /\ p + 1 <= Len(Encoded(r))
    BY <1>3, <2>3, <2>4, <2>6 DEF LineInv, Successive
  <2>8. IF p = 0 THEN Between(line) ELSE Amid(line, r, p)
    <3>1. CASE takenTo = 0 \/ Ends(sent[takenTo])
      <4>1. k = 1 \/ Ends(sent[k - 1])
        BY <1>3, <3>1
      <4>2. sent[k].at = 1
        BY <1>3, <2>4, <4>1 DEF LineInv, Successive
      <4>3. Between(line)
        BY <2>2, <3>1 DEF Standing
      <4> QED
        BY <4>2, <4>3
    <3>2. CASE ~(takenTo = 0 \/ Ends(sent[takenTo]))
      <4>1. k - 1 = takenTo /\ k # 1 /\ takenTo \in 1 .. m
        BY <1>3, <2>4, <3>2
      <4>2. ~(k = 1 \/ Ends(sent[k - 1]))
        BY <3>2, <4>1
      <4>3. sent[k].request = sent[k - 1].request /\ sent[k].at = sent[k - 1].at + 1
        BY <1>3, <2>4, <4>2 DEF LineInv, Successive
      <4>4. sent[takenTo].at \in Nat \ {0}
        <5>1. sent[takenTo] \in SentBytes
          BY <1>3, <4>1
        <5> QED
          BY <5>1 DEF SentBytes
      <4>5. p = sent[takenTo].at /\ r = sent[takenTo].request /\ p # 0
        BY <4>1, <4>3, <4>4
      <4>6. Amid(line, sent[takenTo].request, sent[takenTo].at)
        BY <2>2, <3>2 DEF Standing
      <4> QED
        BY <4>5, <4>6
    <3> QED
      BY <3>1, <3>2
  <2>9. Ends(sent[k]) <=> p + 1 = Len(Encoded(r))
    BY <2>6 DEF Ends
  <2>10. takenTo' = k /\ sent' = sent /\ k > 0
    BY <1>1, <2>3, <2>4
  <2>11. asked' = IF Ends(sent[k]) THEN Append(asked, r) ELSE asked
    BY <1>2, <2>10
  <2> HIDE DEF k, r, p, b, q
  <2>12. IF p + 1 = Len(Encoded(r))
         THEN /\ Between(q)
              /\ q.handed = Append(line.handed, r)
         ELSE /\ Amid(q, r, p + 1)
              /\ q.handed = line.handed
    BY <1>3, <2>5, <2>6, <2>7, <2>8, ParserFollows DEF q
  <2>13. CASE p + 1 = Len(Encoded(r))
    <3>1. line'.handed = asked'
      BY <1>2, <2>2, <2>9, <2>11, <2>12, <2>13
    <3>2. Standing'
      BY <1>2, <2>9, <2>10, <2>12, <2>13 DEF Standing, Between
    <3> QED
      BY <2>3, <3>1, <3>2
  <2>14. CASE p + 1 # Len(Encoded(r))
    <3>1. line'.handed = asked'
      BY <1>2, <2>2, <2>9, <2>11, <2>12, <2>14
    <3>2. ~Ends(sent'[takenTo']) /\ takenTo' # 0
      BY <2>4, <2>9, <2>10, <2>14
    <3>3. Amid(q, sent[k].request, sent[k].at)
      BY <2>6, <2>12, <2>14 DEF r
    <3>4. Standing'
      BY <1>2, <2>10, <3>2, <3>3 DEF Standing, Amid
    <3> QED
      BY <2>3, <3>1, <3>4
  <2> QED
    BY <2>13, <2>14
<1> QED
  BY <1>6, <1>7, <1>8 DEF LineInv

LEMMA LineInvariant == LineSpec => []LineInv
<1>1. LineInit => LineInv
  BY LineAssumption, LineInitially
<1>2. LineInv /\ [LineNext]_lineVars => LineInv'
  <2> SUFFICES ASSUME LineInv, [LineNext]_lineVars PROVE LineInv'
    OBVIOUS
  <2>1. CASE \E r \in Requests : PcSends(r)
    BY <2>1, LineAssumption, PcSendsLine
  <2>2. CASE ByteComes
    BY <2>2, LineAssumption, ByteComesLine
  <2>3. CASE RX_DMA_Complete
    BY <2>3, LineAssumption, CompleteLine
  <2>4. CASE GetRxCount \/ StoreTail \/ TestTail \/ NothingLeft
    BY <2>4, LineAssumption, TailLine
  <2>5. CASE ProcessByte
    BY <2>5, LineAssumption, ProcessByteLine
  <2>6. CASE UNCHANGED lineVars
    <3>1. LineTyped'
      BY <2>6 DEF LineInv, LineTyped, lineVars
    <3>2. Successive' /\ InPlace'
      BY <2>6 DEF LineInv, Successive, InPlace, Lap, lineVars
    <3>3. Behind = Behind' /\ Standing = Standing'
      BY <2>6 DEF Behind, Lap, Standing, Between, Amid, lineVars
    <3>4. Aimed => Aimed'
      BY <2>6 DEF Aimed, Aim, Lap, lineVars
    <3>5. UNCHANGED <<lapped, line, asked>>
      BY <2>6 DEF lineVars
    <3> QED
      BY <3>1, <3>2, <3>3, <3>4, <3>5 DEF LineInv
  <2> QED
    BY <2>1, <2>2, <2>3, <2>4, <2>5, <2>6 DEF LineNext
<1> QED
  BY <1>1, <1>2, PTL DEF LineSpec

(* Wherever in the buffer a command ends and whenever the interrupt moves    *)
(* tail under the thread, the commands handed on are those that came, in     *)
(* order, each once, unless the DMA has overtaken the thread: for a buffer   *)
(* of any size and requests of any number.                                   *)
THEOREM LineCorrect == LineSpec => []LineHanded
<1>1. LineInv => LineHanded
  BY DEF LineInv, LineHanded
<1> QED
  BY <1>1, LineInvariant, PTL

(* Every variable has its type, and a count of bytes its bounds: the thread *)
(* never looks outside the buffer.                                          *)
THEOREM LineTypes == LineSpec => []LineTypeOK
<1>1. LineInv => LineTypeOK
  BY DEF LineInv, LineTyped, LineParsers, LineTypeOK
<1> QED
  BY <1>1, LineInvariant, PTL

----------------------------------------------------------------------------
(* The settings in flash.                                                   *)

First == {"firstId", "firstMac", "firstIp", "firstEndpoint"}
Copying == {"eraseBack", "toBack", "eraseUser", "copyBack"}
Making == Copying \cup {"endpoint", "ip"}
Rewritten == ENDPOINT_ADDRESS .. Limit - 1   \* bytes that are not copied
NetSettings == Localm \cup {Endpoint}

Shows(sector, f) == \A i \in Place(f) : sector[i] = wanted[f]
Empty(sector, f) == \A i \in Place(f) : sector[i] = "blank"
Complete(sector) ==
  MacKept(sector, wanted[Mac]) /\ (~early => \A f \in NetSettings : Shows(sector, f))

(* What a sector has outside the range: the last two bytes of the LOCALM    *)
(* are there, which no change is about.                                     *)
Outside(sector) ==
  /\ MacKept(sector, wanted[Mac])
  /\ ~early => \A i \in Limit .. IPCONFIG_ADDRESS + LocalmSize - 1 : sector[i] = wanted[4]

(* The defaults, in the order in which they come into the sector.           *)
FirstUse ==
  /\ \A f \in NetSettings : wanted[f] = "default"
  /\ settingsPc = "firstId" => user = Blanks
  /\ settingsPc # "firstId" => HasIdentifier(user)
  /\ settingsPc = "firstMac" => \A i \in Area \ Identifier : user[i] = "blank"
  /\ settingsPc \in {"firstIp", "firstEndpoint"} => Shows(user, Mac) /\ Empty(user, Endpoint)
  /\ settingsPc = "firstIp" =>
       \A f \in Localm : IF f < at THEN Shows(user, f) ELSE Empty(user, f)
  /\ settingsPc = "firstEndpoint" => \A f \in Localm : Shows(user, f)

(* The copy there and back, and the range that is programmed.               *)
Copied ==
  /\ settingsPc \in {"eraseBack", "toBack"} => Outside(user)
  /\ settingsPc = "toBack" =>
       /\ \/ at < ENDPOINT_ADDRESS - 2 /\ at % 4 = 0
          \/ at \in {ENDPOINT_ADDRESS - 2, ENDPOINT_ADDRESS - 1, Limit, Limit + 1}
          \/ Limit + 1 < at /\ at % 4 = 0
       /\ \A i \in Area : back[i] = IF i < at /\ i \notin Rewritten THEN user[i] ELSE "blank"
  /\ settingsPc \in {"eraseUser", "copyBack"} =>
       Outside(back) /\ \A i \in Rewritten : back[i] = "blank"
  /\ settingsPc = "copyBack" =>
       at % 4 = 0 /\ \A i \in Area : user[i] = IF i < at THEN back[i] ELSE "blank"
  /\ settingsPc = "endpoint" => Outside(user) /\ \A i \in Rewritten : user[i] = "blank"
  /\ settingsPc = "ip" =>
       /\ MacKept(user, wanted[Mac])
       /\ ~early =>
            /\ Shows(user, Endpoint)
            /\ \A f \in Localm : \/ Shows(user, f)
                                 \/ f >= at /\ \A i \in Place(f) : user[i] \in {"blank", wanted[f]}

(* What is in use is what is wanted.                                        *)
InUse ==
  /\ settingsPc \in {"boot"} \cup First => ~netUp /\ \A f \in Localm : nlocalm[f] = "default"
  /\ settingsPc \in {"idle"} \cup Making /\ ~early =>
       /\ serviceEndpoint = wanted[Endpoint]
       /\ \A f \in Localm : IF netUp THEN localm[f] = wanted[f] ELSE nlocalm[f] = wanted[f]
  /\ settingsPc \in Making /\ ~early => netUp

WholeFlash ==
  /\ InUse
  /\ settingsPc = "boot" => user = Blanks \/ Complete(user)
  /\ settingsPc \in First => FirstUse
  /\ settingsPc = "idle" => Complete(user)
  /\ settingsPc \in Making => Copied

(* After a power failure in a change, until the next change.                *)
Survives ==
  /\ settingsPc \in {"boot", "idle"} \cup First
  /\ \/ settingsPc \in {"boot", "idle"} /\ MacKept(user, identity)
     \/ MacKept(back, identity)

SettingsInv ==
  /\ SettingsTypeOK
  /\ torn = 0 => WholeFlash
  /\ torn = 1 /\ identity # "none" => Survives

LEMMA Layout ==
  /\ Localm = 0 .. 4 /\ NetSettings = 0 .. 5 /\ Limit = 50 /\ Rewritten = 22 .. 49
  /\ Identifier = 0 .. 3 /\ Place(Mac) = 16 .. 21 /\ Place(Endpoint) = 22 .. 27
  /\ \A f \in Localm : Place(f) = 32 + 4 * f .. 32 + 4 * f + 3
  /\ USER_SIZE \in Nat /\ USER_SIZE >= 52 /\ USER_SIZE % 4 = 0 /\ Area = 0 .. USER_SIZE - 1
  /\ Limit .. IPCONFIG_ADDRESS + LocalmSize - 1 = 50 .. 51
  /\ Mac = 6 /\ Endpoint = 5 /\ IpAddr = 0 /\ DefGW = 1 /\ NetMask = 2
  /\ {"blank", "garbled", "zero", "id", "default"} \subseteq Bytes
  /\ 0 \in Area
<1>1. LocalmSize \div 4 = 5
  BY DEF LocalmSize
<1>2. Localm = 0 .. 4
  BY <1>1 DEF Localm
<1>3. NetSettings = 0 .. 5
  BY <1>2 DEF NetSettings, Endpoint
<1>4. \A f \in Localm : Place(f) = 32 + 4 * f .. 32 + 4 * f + 3
  BY <1>2 DEF Place, Mac, Endpoint, IPCONFIG_ADDRESS
<1>5. Place(Mac) = 16 .. 21 /\ Place(Endpoint) = 22 .. 27
  BY DEF Place, Mac, Endpoint, MAC_ADDRESS, ENDPOINT_ADDRESS
<1>6. USER_SIZE \in Nat /\ USER_SIZE >= 52 /\ USER_SIZE % 4 = 0
  BY SettingsAssumption DEF IPCONFIG_ADDRESS, LocalmSize
<1>7. Limit = 50 /\ Rewritten = 22 .. 49 /\ Limit .. IPCONFIG_ADDRESS + LocalmSize - 1 = 50 .. 51
  BY DEF Limit, Rewritten, RangeSize, LocalmSize, ENDPOINT_ADDRESS, IPCONFIG_ADDRESS
<1> QED
  BY <1>2, <1>3, <1>4, <1>5, <1>6, <1>7
  DEF Identifier, Area, Mac, Endpoint, IpAddr, DefGW, NetMask, Bytes, Special

LEMMA PlacesApart ==
  /\ \A f \in 0 .. 6 : Place(f) \subseteq Area /\ Place(f) \cap Identifier = {} /\ Place(f) # {}
  /\ \A f, g \in 0 .. 6 : f # g => Place(f) \cap Place(g) = {}
  /\ Identifier \subseteq Area /\ NetSettings \subseteq 0 .. 6
<1>1. \A f \in 0 .. 6 : f \in 0 .. 4 \/ f = 5 \/ f = 6
  OBVIOUS
<1>2. /\ Place(6) = 16 .. 21 /\ Place(5) = 22 .. 27
      /\ \A f \in 0 .. 4 : Place(f) = 32 + 4 * f .. 32 + 4 * f + 3
  BY Layout
<1>3. Identifier = 0 .. 3 /\ USER_SIZE \in Nat /\ USER_SIZE >= 52 /\ Area = 0 .. USER_SIZE - 1
  BY Layout
<1>4. ASSUME NEW f \in 0 .. 6
      PROVE  Place(f) \subseteq Area /\ Place(f) \cap Identifier = {} /\ Place(f) # {}
  <2>1. CASE f \in 0 .. 4
    <3>1. Place(f) = 32 + 4 * f .. 32 + 4 * f + 3
      BY <1>2, <2>1, Zenon
    <3> DEFINE a == 32 + 4 * f
    <3>2. a \in Nat /\ 32 <= a /\ a <= 48
      BY <2>1
    <3>3. Place(f) = a .. a + 3
      BY <3>1
    <3> HIDE DEF a
    <3>4. a \in Place(f)
      BY <3>2, <3>3
    <3>5. \A i \in Place(f) : i \in Nat /\ 32 <= i /\ i <= 51
      BY <3>2, <3>3
    <3> QED
      BY <1>3, <3>4, <3>5
  <2>2. CASE f = 5 \/ f = 6
    <3>1. 22 \in Place(5) /\ 16 \in Place(6)
      BY <1>2
    <3> QED
      BY <1>2, <1>3, <2>2, <3>1
  <2> QED
    BY <1>1, <2>1, <2>2
<1>5. ASSUME NEW f \in 0 .. 6, NEW g \in 0 .. 6, f # g PROVE Place(f) \cap Place(g) = {}
  BY <1>1, <1>2, <1>5
<1>6. Identifier \subseteq Area /\ NetSettings \subseteq 0 .. 6
  BY <1>3, Layout
<1> QED
  BY <1>4, <1>5, <1>6

LEMMA Programmed ==
  ASSUME NEW sector \in [Area -> Bytes], NEW place \in SUBSET Area, NEW value \in Bytes
  PROVE  /\ Program(sector, place, value) \in [Area -> Bytes]
         /\ \A i \in Area \ place : Program(sector, place, value)[i] = sector[i]
         /\ \A i \in place : sector[i] = "blank" \/ sector[i] = value =>
                             Program(sector, place, value)[i] = value
<1>1. \A i \in Area : ProgramByte(sector[i], value) \in Bytes
  BY Layout DEF ProgramByte
<1> QED
  BY <1>1 DEF Program, ProgramByte

LEMMA BytesCopied ==
  ASSUME NEW sector \in [Area -> Bytes], NEW place, NEW from \in [Area -> Bytes]
  PROVE  /\ CopyBytes(sector, place, from) \in [Area -> Bytes]
         /\ \A i \in Area \ place : CopyBytes(sector, place, from)[i] = sector[i]
         /\ \A i \in Area \cap place :
              sector[i] = "blank" => CopyBytes(sector, place, from)[i] = from[i]
<1>1. \A i \in Area : ProgramByte(sector[i], from[i]) \in Bytes
  BY Layout DEF ProgramByte
<1> QED
  BY <1>1 DEF CopyBytes, ProgramByte

LEMMA BlankSector == Blanks \in [Area -> Bytes] /\ \A i \in Area : Blanks[i] = "blank"
BY Layout DEF Blanks

LEMMA ValueRead ==
  ASSUME NEW f \in NetSettings
  PROVE  /\ Value(f) \in Bytes
         /\ \A v \in Bytes : (\A i \in Place(f) : user[i] = v) => Value(f) = v
<1>1. PICK i \in Place(f) : TRUE
  BY PlacesApart
<1>2. \A v, w \in Bytes : (\A j \in Place(f) : user[j] = v) /\ (\A j \in Place(f) : user[j] = w) => v = w
  BY <1>1
<1> QED
  BY <1>2, Layout DEF Value

LEMMA FieldIsPlace == \A f \in Localm : f \in Area /\ f \in 0 .. 6
BY Layout

LEMMA SettingsTypeStep == SettingsTypeOK /\ [SettingsNext]_settingsVars => SettingsTypeOK'
<1> SUFFICES ASSUME SettingsTypeOK, [SettingsNext]_settingsVars PROVE SettingsTypeOK'
  OBVIOUS
<1> USE DEF flashSectors, Go
<1>0. 0 \in Area /\ "default" \in Bytes /\ "id" \in Bytes /\ "zero" \in Bytes /\ "garbled" \in Bytes
  BY Layout
<1>1. CASE ReadSettings
  <2>1. nlocalm' \in [Localm -> Bytes] /\ serviceEndpoint' \in Bytes
    BY <1>1, ValueRead DEF ReadSettings, NetSettings
  <2> QED
    BY <1>0, <1>1, <2>1 DEF ReadSettings, SettingsTypeOK
<1>2. CASE EraseFlash
  <2>1. MacAddresses[lives] \in Bytes
    BY DEF SettingsTypeOK, Bytes, Macs
  <2>2. wanted' \in [0 .. 6 -> Bytes]
    BY <1>0, <1>2, <2>1 DEF EraseFlash
  <2> QED
    BY <1>0, <1>2, <2>2, BlankSector DEF EraseFlash, SettingsTypeOK
<1>3. CASE FirstId
  <2>1. user' \in [Area -> Bytes]
    BY <1>0, <1>3, Programmed, PlacesApart DEF FirstId, SettingsTypeOK
  <2> QED
    BY <1>0, <1>3, <2>1 DEF FirstId, SettingsTypeOK
<1>4. CASE GenerateMacAddress
  <2>1. wanted[Mac] \in Bytes /\ Place(Mac) \in SUBSET Area
    BY PlacesApart DEF SettingsTypeOK, Mac
  <2>2. user' \in [Area -> Bytes]
    BY <1>4, <2>1, Programmed DEF GenerateMacAddress, SettingsTypeOK
  <2>3. /\ at' = 0 /\ settingsPc' = "firstIp"
        /\ UNCHANGED <<back, nlocalm, localm, serviceEndpoint, netUp, lives, sets, wanted, torn>>
    BY <1>4 DEF GenerateMacAddress
  <2>4. 0 \in Localm
    BY Layout
  <2> QED
    BY <1>0, <2>2, <2>3, <2>4 DEF SettingsTypeOK
<1>5. ASSUME FirstIp \/ ProgramIp PROVE SettingsTypeOK'
  <2>1. at' \in Area
    BY <1>0, <1>5, Layout DEF FirstIp, ProgramIp, NextField
  <2>2. PICK f \in Localm : f = at
    BY <1>5 DEF SettingsTypeOK, FirstIp, ProgramIp
  <2>3. nlocalm[f] \in Bytes /\ localm[f] \in Bytes /\ Place(f) \in SUBSET Area
    BY PlacesApart, FieldIsPlace DEF SettingsTypeOK
  <2>4. user' \in [Area -> Bytes]
    <3>1. user' \in {Program(user, Place(f), nlocalm[f]), Program(user, Place(f), localm[f])}
      BY <1>5, <2>2 DEF FirstIp, ProgramIp
    <3>2. Program(user, Place(f), nlocalm[f]) \in [Area -> Bytes]
      BY <2>3, Programmed DEF SettingsTypeOK
    <3>3. Program(user, Place(f), localm[f]) \in [Area -> Bytes]
      BY <2>3, Programmed DEF SettingsTypeOK
    <3> QED
      BY <3>1, <3>2, <3>3
  <2> QED
    BY <1>5, <2>1, <2>4 DEF FirstIp, ProgramIp, SettingsTypeOK, NextField
<1>6. ASSUME FirstEndpoint \/ ProgramEndpoint PROVE SettingsTypeOK'
  <2>1. Place(Endpoint) \in SUBSET Area
    BY PlacesApart, Layout
  <2>2. user' \in [Area -> Bytes]
    BY <1>0, <1>6, <2>1, Programmed DEF FirstEndpoint, ProgramEndpoint, SettingsTypeOK
  <2> QED
    BY <1>0, <1>6, <2>2, Layout DEF FirstEndpoint, ProgramEndpoint, SettingsTypeOK
<1>7. CASE NetInitialize
  BY <1>7 DEF NetInitialize, SettingsTypeOK
<1>8. ASSUME NEW v \in NewSettings, NEW f \in {IpAddr, DefGW, NetMask},
             SetEndpoint(v) \/ SetIpConfig(f, v)
      PROVE  SettingsTypeOK'
  <2>1. v \in Bytes
    BY DEF Bytes
  <2>2. sets' \in 0 .. MaxSettings
    BY <1>8, SettingsAssumption DEF SetEndpoint, SetIpConfig, Change, SettingsTypeOK
  <2>3. wanted' \in [0 .. 6 -> Bytes] /\ localm' \in [Localm -> Bytes] /\ serviceEndpoint' \in Bytes
    BY <1>8, <2>1 DEF SetEndpoint, SetIpConfig, Change, SettingsTypeOK
  <2> QED
    BY <1>0, <1>8, <2>2, <2>3 DEF SetEndpoint, SetIpConfig, Change, SettingsTypeOK
<1>9. CASE EraseBack \/ EraseUser
  BY <1>0, <1>9, BlankSector DEF EraseBack, EraseUser, SettingsTypeOK
<1>10. CASE ToBack
  <2>1. back' \in [Area -> Bytes]
    BY <1>10, BytesCopied DEF ToBack, SettingsTypeOK
  <2>2. at' \in Area
    BY <1>0, <1>10, Layout DEF ToBack, SettingsTypeOK, After, Width
  <2> QED
    BY <1>10, <2>1, <2>2 DEF ToBack, SettingsTypeOK
<1>11. CASE CopyBack
  <2>1. user' \in [Area -> Bytes]
    BY <1>11, BytesCopied DEF CopyBack, SettingsTypeOK
  <2>2. at' \in Area
    BY <1>0, <1>11, Layout DEF CopyBack, SettingsTypeOK
  <2> QED
    BY <1>11, <2>1, <2>2 DEF CopyBack, SettingsTypeOK
<1>12. CASE PowerLoss
  <2>1. lives' \in 1 .. MaxBoots /\ torn' \in 0 .. MaxPowerLosses
    BY <1>12, SettingsAssumption DEF PowerLoss, SettingsTypeOK
  <2>2. \A sector \in [Area -> Bytes] : \A work : Torn(sector, work) \in [Area -> Bytes]
    BY <1>0 DEF Torn
  <2>3. user' \in [Area -> Bytes] /\ back' \in [Area -> Bytes]
    BY <1>12, <2>2 DEF PowerLoss, SettingsTypeOK
  <2> QED
    BY <1>0, <1>12, <2>1, <2>3 DEF PowerLoss, SettingsTypeOK
<1>13. CASE UNCHANGED settingsVars
  BY <1>13 DEF settingsVars, SettingsTypeOK
<1> QED
  BY <1>1, <1>2, <1>3, <1>4, <1>5, <1>6, <1>7, <1>8, <1>9, <1>10, <1>11, <1>12, <1>13
  DEF SettingsNext, SettingsStep

LEMMA SettingsStepKeeps == SettingsInv /\ [SettingsNext]_settingsVars => SettingsInv'
<1> SUFFICES ASSUME SettingsInv, [SettingsNext]_settingsVars PROVE SettingsInv'
  OBVIOUS
<1>0. SettingsTypeOK /\ SettingsTypeOK'
  BY SettingsTypeStep DEF SettingsInv
<1> SUFFICES /\ torn' = 0 => WholeFlash'
             /\ torn' = 1 /\ identity' # "none" => Survives'
  BY <1>0 DEF SettingsInv
<1>a. /\ torn = 0 => WholeFlash
      /\ torn = 1 /\ identity # "none" => Survives
  BY DEF SettingsInv
<1>b. /\ user \in [Area -> Bytes] /\ back \in [Area -> Bytes] /\ wanted \in [0 .. 6 -> Bytes]
      /\ at \in Area /\ nlocalm \in [Localm -> Bytes] /\ localm \in [Localm -> Bytes]
      /\ serviceEndpoint \in Bytes
      /\ NetSettings \subseteq 0 .. 6 /\ Mac \in 0 .. 6 /\ Localm \subseteq NetSettings
      /\ Endpoint \in NetSettings /\ Mac \notin NetSettings /\ Endpoint \notin Localm
      /\ \A f \in NetSettings : f \in Localm \/ f = Endpoint
  BY <1>0, Layout, SMTT(40) DEF SettingsTypeOK, NetSettings
<1>c. \A f \in 0 .. 6 : Place(f) \subseteq Area /\ Place(f) \cap Identifier = {}
  BY PlacesApart
<1>d. Identifier \subseteq Area
  BY PlacesApart
<1> USE DEF flashSectors, Go, First, Making, Copying
<1>1. CASE ReadSettings
  <2>1. /\ settingsPc = "boot" /\ settingsPc' = "idle" /\ HasIdentifier(user)
        /\ UNCHANGED <<user, back, localm, netUp, wanted, early, torn, identity>>
        /\ \A f \in NetSettings : Shows(user, f) =>
             IF f = Endpoint THEN serviceEndpoint' = wanted[f] ELSE nlocalm'[f] = wanted[f]
    BY <1>1, <1>b, ValueRead DEF ReadSettings, Shows
  <2>2. user # Blanks
    BY <2>1, BlankSector, Layout DEF HasIdentifier
  <2>3. ASSUME torn = 0 PROVE WholeFlash'
    <3>1. Complete(user) /\ ~netUp
      BY <1>a, <2>1, <2>2, <2>3 DEF WholeFlash, InUse
    <3>2. Complete(user)'
      BY <2>1, <3>1 DEF Complete, MacKept, HasIdentifier, Shows
    <3>3. InUse'
      BY <1>b, <2>1, <3>1 DEF InUse, Complete
    <3> QED
      BY <2>1, <3>2, <3>3 DEF WholeFlash
  <2>4. ASSUME torn = 1, identity # "none" PROVE Survives'
    BY <1>a, <2>1, <2>4 DEF Survives, MacKept, HasIdentifier
  <2> QED
    BY <2>1, <2>3, <2>4
<1>2. CASE EraseFlash
  <2>1. /\ settingsPc = "boot" /\ settingsPc' = "firstId" /\ ~HasIdentifier(user) /\ user' = Blanks
        /\ UNCHANGED <<back, nlocalm, netUp, torn, identity>>
        /\ \A f \in NetSettings : wanted'[f] = "default"
    BY <1>2, <1>b DEF EraseFlash
  <2>2. ASSUME torn = 0 PROVE WholeFlash'
    BY <1>a, <2>1, <2>2 DEF WholeFlash, InUse, FirstUse
  <2>3. ASSUME torn = 1, identity # "none" PROVE Survives'
    BY <1>a, <2>1, <2>3 DEF Survives, MacKept, HasIdentifier
  <2> QED
    BY <2>1, <2>2, <2>3
<1>3. CASE FirstId
  <2>1. /\ settingsPc = "firstId" /\ settingsPc' = "firstMac"
        /\ user' = Program(user, Identifier, "id")
        /\ UNCHANGED <<back, nlocalm, netUp, wanted, torn, identity>>
    BY <1>3 DEF FirstId
  <2>2. ASSUME torn = 0 PROVE WholeFlash'
    <3>1. FirstUse /\ InUse /\ user = Blanks
      BY <1>a, <2>1, <2>2 DEF WholeFlash, FirstUse
    <3>2. /\ \A i \in Area \ Identifier : user'[i] = "blank"
          /\ \A i \in Identifier : user'[i] = "id"
      <4>1. Identifier \in SUBSET Area /\ "id" \in Bytes /\ \A i \in Area : user[i] = "blank"
        BY <1>d, <3>1, BlankSector, Layout
      <4>2. /\ \A i \in Area \ Identifier : Program(user, Identifier, "id")[i] = user[i]
            /\ \A i \in Identifier : user[i] = "blank" \/ user[i] = "id" =>
                                      Program(user, Identifier, "id")[i] = "id"
        BY <1>b, <4>1, Programmed
      <4> QED
        BY <1>d, <2>1, <4>1, <4>2
    <3>3. FirstUse'
      BY <2>1, <3>1, <3>2 DEF FirstUse, HasIdentifier
    <3> QED
      BY <2>1, <3>1, <3>3 DEF WholeFlash, InUse
  <2>3. ASSUME torn = 1, identity # "none" PROVE Survives'
    BY <1>a, <2>1, <2>3 DEF Survives, MacKept, HasIdentifier
  <2> QED
    BY <2>1, <2>2, <2>3
<1>4. CASE GenerateMacAddress
  <2>1. /\ settingsPc = "firstMac" /\ settingsPc' = "firstIp" /\ at' = 0
        /\ user' = Program(user, Place(Mac), wanted[Mac])
        /\ UNCHANGED <<back, nlocalm, netUp, wanted, torn, identity>>
    BY <1>4 DEF GenerateMacAddress
  <2>2. ASSUME torn = 0 PROVE WholeFlash'
    <3>1. FirstUse /\ InUse /\ HasIdentifier(user) /\ \A i \in Area \ Identifier : user[i] = "blank"
      BY <1>a, <2>1, <2>2 DEF WholeFlash, FirstUse
    <3>2. /\ \A i \in Area \ Place(Mac) : user'[i] = user[i]
          /\ \A i \in Place(Mac) : user'[i] = wanted[Mac]
      <4>1. /\ Place(Mac) \in SUBSET Area /\ wanted[Mac] \in Bytes
            /\ \A i \in Place(Mac) : user[i] = "blank"
        BY <1>b, <1>c, <3>1
      <4> QED
        BY <1>b, <2>1, <4>1, Programmed
    <3>3. HasIdentifier(user')
      BY <1>b, <1>c, <1>d, <3>1, <3>2 DEF HasIdentifier
    <3>4. \A f \in NetSettings : \A i \in Place(f) : user'[i] = "blank"
      BY <1>b, <1>c, <3>1, <3>2, PlacesApart
    <3>5. FirstUse'
      BY <1>b, <2>1, <3>1, <3>2, <3>3, <3>4, Layout DEF FirstUse, Shows, Empty, HasIdentifier
    <3> QED
      BY <2>1, <3>1, <3>5 DEF WholeFlash, InUse
  <2>3. ASSUME torn = 1, identity # "none" PROVE Survives'
    BY <1>a, <2>1, <2>3 DEF Survives, MacKept, HasIdentifier
  <2> QED
    BY <2>1, <2>2, <2>3
<1>5. CASE FirstIp
  <2>0. PICK f \in Localm : f = at
    BY <1>0, <1>5 DEF SettingsTypeOK, FirstIp
  <2>1. /\ settingsPc = "firstIp" /\ settingsPc' \in {"firstIp", "firstEndpoint"}
        /\ user' = Program(user, Place(f), nlocalm[f])
        /\ UNCHANGED <<back, nlocalm, netUp, wanted, torn, identity>>
        /\ settingsPc' = "firstIp" => at' = f + 1
        /\ settingsPc' = "firstEndpoint" => f = 4
    BY <1>5, <2>0, Layout DEF FirstIp, NextField
  <2>2. ASSUME torn = 0 PROVE WholeFlash'
    <3>1. /\ FirstUse /\ InUse /\ HasIdentifier(user) /\ Shows(user, Mac) /\ Empty(user, Endpoint)
          /\ \A g \in Localm : IF g < f THEN Shows(user, g) ELSE Empty(user, g)
          /\ nlocalm[f] = "default" /\ wanted[f] = "default"
      BY <1>a, <1>b, <2>0, <2>1, <2>2 DEF WholeFlash, FirstUse, InUse
    <3>2. /\ \A i \in Area \ Place(f) : user'[i] = user[i]
          /\ \A i \in Place(f) : user'[i] = wanted[f]
      <4>1. ~(f < f)
        BY Layout
      <4> QED
        <5>1. /\ Place(f) \in SUBSET Area /\ nlocalm[f] \in Bytes
              /\ \A i \in Place(f) : user[i] = "blank"
          BY <1>b, <1>c, <3>1, <4>1 DEF Empty
        <5>2. /\ \A i \in Area \ Place(f) : Program(user, Place(f), nlocalm[f])[i] = user[i]
              /\ \A i \in Place(f) : user[i] = "blank" \/ user[i] = nlocalm[f] =>
                                      Program(user, Place(f), nlocalm[f])[i] = nlocalm[f]
          <6> DEFINE place == Place(f)
                     value == nlocalm[f]
          <6>1. place \in SUBSET Area /\ value \in Bytes
            BY <5>1
          <6> HIDE DEF place, value
          <6>2. /\ \A i \in Area \ place : Program(user, place, value)[i] = user[i]
                /\ \A i \in place : user[i] = "blank" \/ user[i] = value =>
                                     Program(user, place, value)[i] = value
            BY <1>b, <6>1, Programmed
          <6> QED
            BY <6>2 DEF place, value
        <5> QED
          BY <2>1, <3>1, <5>1, <5>2
    <3>3. HasIdentifier(user')
      BY <1>b, <1>c, <1>d, <3>1, <3>2 DEF HasIdentifier
    <3>4. \A g \in 0 .. 6 : \A i \in Place(g) : g # f => user'[i] = user[i]
      BY <1>b, <1>c, <3>2, PlacesApart
    <3>5. \A g \in Localm : IF g < f + 1 THEN Shows(user, g)' ELSE Empty(user, g)'
      <4>1. \A g \in Localm : g < f + 1 <=> g < f \/ g = f
        BY Layout
      <4> QED
        BY <1>b, <2>1, <3>1, <3>2, <3>4, <4>1 DEF Shows, Empty
    <3>6. Shows(user, Mac)' /\ Empty(user, Endpoint)'
      BY <1>b, <2>1, <3>1, <3>4 DEF Shows, Empty
    <3>7. f = 4 => \A g \in Localm : g < f + 1
      BY Layout
    <3>8. FirstUse'
      BY <2>1, <3>1, <3>3, <3>5, <3>6, <3>7 DEF FirstUse, HasIdentifier
    <3> QED
      BY <2>1, <3>1, <3>8 DEF WholeFlash, InUse
  <2>3. ASSUME torn = 1, identity # "none" PROVE Survives'
    BY <1>a, <2>1, <2>3 DEF Survives, MacKept, HasIdentifier
  <2> QED
    BY <2>1, <2>2, <2>3
<1>6. CASE FirstEndpoint
  <2>1. /\ settingsPc = "firstEndpoint" /\ settingsPc' = "idle" /\ serviceEndpoint' = "default"
        /\ user' = Program(user, Place(Endpoint), "default")
        /\ UNCHANGED <<back, nlocalm, netUp, wanted, early, torn, identity>>
    BY <1>6 DEF FirstEndpoint
  <2>2. ASSUME torn = 0 PROVE WholeFlash'
    <3>1. /\ FirstUse /\ InUse /\ HasIdentifier(user) /\ Shows(user, Mac) /\ Empty(user, Endpoint)
          /\ \A g \in Localm : Shows(user, g)
          /\ \A g \in NetSettings : wanted[g] = "default"
      BY <1>a, <2>1, <2>2 DEF WholeFlash, FirstUse
    <3>2. /\ \A i \in Area \ Place(Endpoint) : user'[i] = user[i]
          /\ \A i \in Place(Endpoint) : user'[i] = wanted[Endpoint]
      <4>1. /\ Place(Endpoint) \in SUBSET Area /\ "default" \in Bytes
            /\ \A i \in Place(Endpoint) : user[i] = "blank"
        BY <1>b, <1>c, <3>1, Layout DEF Empty
      <4>2. wanted[Endpoint] = "default"
        BY <1>b, <3>1
      <4>3. /\ \A i \in Area \ Place(Endpoint) :
                  Program(user, Place(Endpoint), "default")[i] = user[i]
            /\ \A i \in Place(Endpoint) : user[i] = "blank" \/ user[i] = "default" =>
                  Program(user, Place(Endpoint), "default")[i] = "default"
        BY <1>b, <4>1, Programmed
      <4> QED
        BY <2>1, <4>1, <4>2, <4>3
    <3>3. HasIdentifier(user')
      BY <1>b, <1>c, <1>d, <3>1, <3>2 DEF HasIdentifier
    <3>4. \A g \in 0 .. 6 : \A i \in Place(g) : g # Endpoint => user'[i] = user[i]
      BY <1>b, <1>c, <3>2, PlacesApart
    <3>5. Complete(user)'
      BY <1>b, <2>1, <3>1, <3>2, <3>3, <3>4 DEF Complete, MacKept, Shows, HasIdentifier
    <3>6. InUse'
      BY <1>b, <2>1, <3>1 DEF InUse
    <3> QED
      BY <2>1, <3>5, <3>6 DEF WholeFlash
  <2>3. ASSUME torn = 1, identity # "none" PROVE Survives'
    BY <1>a, <2>1, <2>3 DEF Survives, MacKept, HasIdentifier
  <2> QED
    BY <2>1, <2>2, <2>3
<1>7. CASE NetInitialize
  <2>1. /\ settingsPc \in {"idle"} \cup Making /\ ~netUp /\ netUp' /\ localm' = nlocalm
        /\ UNCHANGED <<user, back, settingsPc, at, nlocalm, serviceEndpoint, wanted, early, torn,
                       identity>>
    BY <1>7 DEF NetInitialize
  <2>2. ASSUME torn = 0 PROVE WholeFlash'
    <3>1. InUse'
      BY <1>a, <1>b, <2>1, <2>2 DEF WholeFlash, InUse
    <3>2. /\ settingsPc = "idle" => Complete(user)'
          /\ settingsPc \in Making => Copied'
      BY <1>a, <2>1, <2>2
      DEF WholeFlash, Complete, MacKept, HasIdentifier, Shows, Copied, Outside
    <3> QED
      BY <2>1, <3>1, <3>2 DEF WholeFlash
  <2>3. ASSUME torn = 1, identity # "none" PROVE Survives'
    BY <1>a, <2>1, <2>3 DEF Survives, MacKept, HasIdentifier
  <2> QED
    BY <2>1, <2>2, <2>3
<1>8. ASSUME NEW v \in NewSettings, NEW f \in {IpAddr, DefGW, NetMask},
             SetEndpoint(v) \/ SetIpConfig(f, v)
      PROVE  /\ torn' = 0 => WholeFlash'
             /\ torn' = 1 /\ identity' # "none" => Survives'
  <2>1. PICK g \in NetSettings :
          /\ settingsPc = "idle" /\ settingsPc' = "eraseBack" /\ g # 4
          /\ UNCHANGED <<user, back, nlocalm, netUp, torn>>
          /\ wanted' = [wanted EXCEPT ![g] = v] /\ early' = (early \/ ~netUp) /\ identity' = "none"
          /\ serviceEndpoint' = IF g = Endpoint THEN v ELSE serviceEndpoint
          /\ \A h \in Localm : localm'[h] = IF g = h THEN v ELSE localm[h]
    <3>1. f \in Localm /\ f # 4 /\ Endpoint # 4 /\ f # Endpoint
      BY Layout
    <3> QED
      BY <1>8, <1>b, <3>1 DEF SetEndpoint, SetIpConfig, Change
  <2>2. ASSUME torn = 0 PROVE WholeFlash'
    <3>1. InUse /\ Complete(user)
      BY <1>a, <2>1, <2>2 DEF WholeFlash
    <3>2. wanted'[Mac] = wanted[Mac] /\ wanted'[4] = wanted[4]
      BY <1>b, <2>1
    <3>3. InUse'
      BY <1>b, <2>1, <3>1 DEF InUse
    <3>4. Outside(user)'
      <4>1. MacKept(user', wanted'[Mac])
        BY <2>1, <3>1, <3>2 DEF Complete
      <4>2. 4 \in NetSettings /\ Limit .. IPCONFIG_ADDRESS + LocalmSize - 1 \subseteq Place(4)
        BY Layout
      <4> QED
        BY <2>1, <3>1, <3>2, <4>1, <4>2 DEF Outside, Complete, Shows, MacKept, HasIdentifier
    <3> QED
      BY <2>1, <3>3, <3>4 DEF WholeFlash, Copied
  <2> QED
    BY <2>1, <2>2
<1>9. CASE EraseBack
  <2>1. /\ settingsPc = "eraseBack" /\ settingsPc' = "toBack" /\ at' = 0 /\ back' = Blanks
        /\ UNCHANGED <<user, nlocalm, localm, serviceEndpoint, netUp, wanted, early, torn, identity>>
    BY <1>9 DEF EraseBack
  <2>2. ASSUME torn = 0 PROVE WholeFlash'
    <3>1. InUse /\ Outside(user)
      BY <1>a, <2>1, <2>2 DEF WholeFlash, Copied
    <3>2. Outside(user)'
      BY <2>1, <3>1 DEF Outside, MacKept, HasIdentifier
    <3>3. at' < ENDPOINT_ADDRESS - 2 /\ at' % 4 = 0 /\ \A i \in Area : ~(i < at')
      BY <2>1, Layout DEF ENDPOINT_ADDRESS
    <3>4. Copied'
      BY <2>1, <3>2, <3>3, BlankSector DEF Copied
    <3>5. InUse'
      BY <2>1, <3>1 DEF InUse
    <3> QED
      BY <2>1, <3>4, <3>5 DEF WholeFlash
  <2> QED
    BY <1>a, <2>1, <2>2 DEF Survives
<1>10. CASE ToBack
  <2> DEFINE place == at .. at + Width(at) - 1
  <2>1. /\ settingsPc = "toBack" /\ settingsPc' \in {"toBack", "eraseUser"}
        /\ back' = CopyBytes(back, place, user)
        /\ settingsPc' = "toBack" => at' = After(at) /\ After(at) < USER_SIZE
        /\ settingsPc' = "eraseUser" => ~(After(at) < USER_SIZE)
        /\ UNCHANGED <<user, nlocalm, localm, serviceEndpoint, netUp, wanted, early, torn, identity>>
    BY <1>10 DEF ToBack
  <2>2. ASSUME torn = 0 PROVE WholeFlash'
    <3>1. /\ InUse /\ Outside(user)
          /\ \/ at < 20 /\ at % 4 = 0
             \/ at \in {20, 21, 50, 51}
             \/ 51 < at /\ at % 4 = 0
          /\ \A i \in Area : back[i] = IF i < at /\ i \notin 22 .. 49 THEN user[i] ELSE "blank"
      BY <1>a, <2>1, <2>2, Layout DEF WholeFlash, Copied, ENDPOINT_ADDRESS
    <3>2. at \in Nat /\ place = at .. at + Width(at) - 1 /\ Area = 0 .. USER_SIZE - 1
          /\ USER_SIZE % 4 = 0 /\ USER_SIZE >= 52 /\ USER_SIZE \in Nat /\ at < USER_SIZE
      BY <1>b, Layout
    <3>3. /\ Width(at) = IF at % 4 = 0 /\ (at + 4 <= 22 \/ at >= 50) THEN 4 ELSE 1
          /\ After(at) = IF at + Width(at) \in 22 .. 49 THEN 50 ELSE at + Width(at)
      BY Layout DEF Width, After, ENDPOINT_ADDRESS
    <3>4. /\ After(at) \in Nat /\ at < After(at)
          /\ \/ After(at) < 20 /\ After(at) % 4 = 0
             \/ After(at) \in {20, 21, 50, 51}
             \/ 51 < After(at) /\ After(at) % 4 = 0
      BY <3>1, <3>2, <3>3
    <3>5. \A i \in Area : (i < After(at) /\ i \notin 22 .. 49) <=>
                          ((i < at /\ i \notin 22 .. 49) \/ i \in place)
      BY <3>1, <3>2, <3>3
    <3>6. \A i \in Area : i \in place => ~(i < at)
      BY <3>2
    <3> HIDE DEF place
    <3>7. \A i \in Area : back'[i] = IF i < After(at) /\ i \notin 22 .. 49 THEN user[i] ELSE "blank"
      BY <1>b, <2>1, <3>1, <3>5, <3>6, BytesCopied
    <3>8. Outside(user)' /\ InUse'
      BY <2>1, <3>1 DEF Outside, MacKept, HasIdentifier, InUse
    <3>9. CASE settingsPc' = "toBack"
      BY <2>1, <3>4, <3>7, <3>8, <3>9, Layout DEF WholeFlash, Copied, ENDPOINT_ADDRESS
    <3>10. CASE settingsPc' = "eraseUser"
      <4>1. \A i \in Area : i < After(at)
        BY <2>1, <3>2, <3>4, <3>10
      <4>2. \A i \in Area : back'[i] = IF i \notin 22 .. 49 THEN user[i] ELSE "blank"
        BY <3>7, <4>1
      <4>3. \A i \in Identifier \cup Place(Mac) \cup 50 .. 51 : i \in Area /\ i \notin 22 .. 49
        BY Layout
      <4>4. Outside(back)'
        BY <2>1, <3>8, <4>2, <4>3, Layout, SMTT(40) DEF Outside, MacKept, HasIdentifier
      <4>5. \A i \in 22 .. 49 : i \in Area
        BY Layout
      <4> QED
        BY <3>8, <3>10, <4>2, <4>4, <4>5, Layout DEF WholeFlash, Copied
    <3> QED
      BY <2>1, <3>9, <3>10
  <2> QED
    BY <1>a, <2>1, <2>2 DEF Survives
<1>11. CASE EraseUser
  <2>1. /\ settingsPc = "eraseUser" /\ settingsPc' = "copyBack" /\ at' = 0 /\ user' = Blanks
        /\ UNCHANGED <<back, nlocalm, localm, serviceEndpoint, netUp, wanted, early, torn, identity>>
    BY <1>11 DEF EraseUser
  <2>2. ASSUME torn = 0 PROVE WholeFlash'
    <3>1. InUse /\ Outside(back) /\ \A i \in Rewritten : back[i] = "blank"
      BY <1>a, <2>1, <2>2 DEF WholeFlash, Copied
    <3>2. Outside(back)' /\ InUse'
      BY <2>1, <3>1 DEF Outside, MacKept, HasIdentifier, InUse
    <3>3. at' % 4 = 0 /\ \A i \in Area : ~(i < at')
      BY <2>1, Layout
    <3> QED
      BY <2>1, <3>1, <3>2, <3>3, BlankSector DEF WholeFlash, Copied
  <2> QED
    BY <1>a, <2>1, <2>2 DEF Survives
<1>12. CASE CopyBack
  <2>1. /\ settingsPc = "copyBack" /\ settingsPc' \in {"copyBack", "endpoint"}
        /\ user' = CopyBytes(user, at .. at + 3, back)
        /\ settingsPc' = "copyBack" => at' = at + 4
        /\ settingsPc' = "endpoint" => ~(at + 4 < USER_SIZE)
        /\ UNCHANGED <<back, nlocalm, localm, serviceEndpoint, netUp, wanted, early, torn, identity>>
    BY <1>12 DEF CopyBack
  <2>2. ASSUME torn = 0 PROVE WholeFlash'
    <3>1. /\ InUse /\ Outside(back) /\ \A i \in Rewritten : back[i] = "blank"
          /\ at % 4 = 0 /\ \A i \in Area : user[i] = IF i < at THEN back[i] ELSE "blank"
      BY <1>a, <2>1, <2>2 DEF WholeFlash, Copied
    <3>2. /\ \A i \in Area : i < at + 4 <=> i < at \/ i \in at .. at + 3
          /\ \A i \in at .. at + 3 : ~(i < at)
          /\ (at + 4) % 4 = 0
      <4>1. at \in Nat /\ at % 4 = 0 /\ \A i \in Area : i \in Nat
        BY <1>b, <3>1, Layout
      <4> QED
        BY <4>1
    <3>3. \A i \in Area : user'[i] = IF i < at + 4 THEN back[i] ELSE "blank"
      <4> DEFINE place == at .. at + 3
      <4>1. /\ user' = CopyBytes(user, place, back)
            /\ \A i \in Area : i < at + 4 <=> i < at \/ i \in place
            /\ \A i \in place : ~(i < at)
        BY <2>1, <3>2
      <4> HIDE DEF place
      <4>2. /\ \A i \in Area \ place : CopyBytes(user, place, back)[i] = user[i]
            /\ \A i \in Area \cap place : user[i] = "blank" => CopyBytes(user, place, back)[i] = back[i]
        BY <1>b, BytesCopied
      <4>3. ASSUME NEW i \in Area PROVE user'[i] = IF i < at + 4 THEN back[i] ELSE "blank"
        <5>1. CASE i \in place
          <6>1. user[i] = "blank" /\ i < at + 4
            BY <3>1, <4>1, <5>1
          <6> QED
            BY <4>1, <4>2, <5>1, <6>1
        <5>2. CASE i \notin place
          <6>1. user'[i] = user[i] /\ (i < at + 4 <=> i < at)
            BY <4>1, <4>2, <5>2
          <6> QED
            BY <3>1, <6>1
        <5> QED
          BY <5>1, <5>2
      <4> QED
        BY <4>3
    <3>4. Outside(back)' /\ InUse'
      BY <2>1, <3>1 DEF Outside, MacKept, HasIdentifier, InUse
    <3>5. CASE settingsPc' = "copyBack"
      BY <2>1, <3>1, <3>2, <3>3, <3>4, <3>5 DEF WholeFlash, Copied
    <3>6. CASE settingsPc' = "endpoint"
      <4>1. \A i \in Area : user'[i] = back'[i]
        <5>1. \A i \in Area : i < at + 4
          BY <1>b, <2>1, <3>6, Layout
        <5> QED
          BY <2>1, <3>3, <5>1
      <4>2. /\ \A i \in Identifier \cup Place(Mac) \cup 50 .. 51 : i \in Area
            /\ \A i \in Rewritten : i \in Area
        BY Layout
      <4>3. Outside(user)'
        BY <3>4, <4>1, <4>2, Layout DEF Outside, MacKept, HasIdentifier
      <4> QED
        BY <2>1, <3>1, <3>4, <3>6, <4>1, <4>2, <4>3 DEF WholeFlash, Copied
    <3> QED
      BY <2>1, <3>5, <3>6
  <2> QED
    BY <1>a, <2>1, <2>2 DEF Survives
<1>13. CASE ProgramEndpoint
  <2> DEFINE place == Place(Endpoint)
  <2>1. /\ settingsPc = "endpoint" /\ settingsPc' = "ip" /\ at' = 0
        /\ user' = Program(user, place, serviceEndpoint)
        /\ UNCHANGED <<back, nlocalm, localm, serviceEndpoint, netUp, wanted, early, torn, identity>>
    BY <1>13 DEF ProgramEndpoint
  <2>2. ASSUME torn = 0 PROVE WholeFlash'
    <3>1. InUse /\ Outside(user) /\ \A i \in Rewritten : user[i] = "blank"
      BY <1>a, <2>1, <2>2 DEF WholeFlash, Copied
    <3>2. /\ place \in SUBSET Area /\ place \subseteq Rewritten
          /\ place \cap Identifier = {} /\ place \cap Place(Mac) = {}
      BY <1>b, <1>c, PlacesApart, Layout
    <3>3. /\ \A i \in Area \ place : user'[i] = user[i]
          /\ \A i \in place : user'[i] = serviceEndpoint
      <4>1. \A i \in place : user[i] = "blank"
        BY <3>1, <3>2
      <4> HIDE DEF place
      <4>2. /\ \A i \in Area \ place : Program(user, place, serviceEndpoint)[i] = user[i]
            /\ \A i \in place : user[i] = "blank" \/ user[i] = serviceEndpoint =>
                                 Program(user, place, serviceEndpoint)[i] = serviceEndpoint
        BY <1>b, <3>2, Programmed
      <4> QED
        BY <2>1, <4>1, <4>2
    <3>4. MacKept(user', wanted'[Mac])
      BY <1>b, <1>c, <1>d, <2>1, <3>1, <3>2, <3>3 DEF Outside, MacKept, HasIdentifier
    <3>5. ASSUME ~early, NEW f \in Localm, NEW i \in Place(f)
          PROVE  user'[i] \in {"blank", wanted[f]}
      <4>1. i \in Area \ place
        BY <1>b, <1>c, PlacesApart
      <4>2. i \in Rewritten \/ (f = 4 /\ i \in 50 .. 51)
        <5>1. f \in 0 .. 4 /\ Rewritten = 22 .. 49
          BY Layout
        <5>2. i \in 32 + 4 * f .. 32 + 4 * f + 3
          BY Layout, Zenon
        <5> QED
          BY <5>1, <5>2
      <4> QED
        BY <3>1, <3>3, <3>5, <4>1, <4>2, Layout, ZenonT(60) DEF Outside
    <3>6. ~early => Shows(user, Endpoint)'
      BY <2>1, <3>1, <3>3 DEF InUse, Shows
    <3>7. \A f \in Localm : f >= 0
      BY Layout
    <3> HIDE DEF place
    <3>8. Copied'
      BY <2>1, <3>4, <3>5, <3>6, <3>7 DEF Copied
    <3> QED
      BY <2>1, <3>1, <3>8 DEF WholeFlash, InUse
  <2> QED
    BY <1>a, <2>1, <2>2 DEF Survives
<1>14. CASE ProgramIp
  <2>0. PICK f \in Localm : f = at
    BY <1>0, <1>14 DEF SettingsTypeOK, ProgramIp
  <2> DEFINE place == Place(f)
             value == localm[f]
  <2>1. /\ settingsPc = "ip" /\ settingsPc' \in {"ip", "idle"}
        /\ user' = Program(user, place, value)
        /\ UNCHANGED <<back, nlocalm, localm, serviceEndpoint, netUp, wanted, early, torn, identity>>
        /\ settingsPc' = "ip" => at' = f + 1
        /\ settingsPc' = "idle" => f = 4
    BY <1>14, <2>0, Layout DEF ProgramIp, NextField
  <2>2. ASSUME torn = 0 PROVE WholeFlash'
    <3>1. /\ InUse /\ MacKept(user, wanted[Mac])
          /\ ~early => /\ Shows(user, Endpoint) /\ value = wanted[f]
                       /\ \A g \in Localm :
                            \/ Shows(user, g)
                            \/ g >= f /\ \A i \in Place(g) : user[i] \in {"blank", wanted[g]}
      <4>1. /\ InUse /\ Copied
        BY <1>a, <2>1, <2>2 DEF WholeFlash
      <4>2. MacKept(user, wanted[Mac]) /\ (~early => Shows(user, Endpoint))
        BY <2>1, <4>1 DEF Copied
      <4>3. ~early => value = wanted[f]
        BY <2>1, <4>1 DEF InUse
      <4>4. ~early => \A g \in Localm :
                            \/ Shows(user, g)
                            \/ g >= at /\ \A i \in Place(g) : user[i] \in {"blank", wanted[g]}
        BY <2>1, <4>1 DEF Copied
      <4> QED
        BY <2>0, <4>1, <4>2, <4>3, <4>4
    <3>2. /\ place \in SUBSET Area /\ value \in Bytes /\ f # Mac
          /\ place \cap Identifier = {} /\ place \cap Place(Mac) = {}
      BY <1>b, <1>c, PlacesApart
    <3>3. /\ \A i \in Area \ place : user'[i] = user[i]
          /\ \A i \in place : user[i] = "blank" \/ user[i] = value => user'[i] = value
      <4> HIDE DEF place, value
      <4>1. /\ \A i \in Area \ place : Program(user, place, value)[i] = user[i]
            /\ \A i \in place : user[i] = "blank" \/ user[i] = value =>
                                 Program(user, place, value)[i] = value
        BY <1>b, <3>2, Programmed, SMTT(30)
      <4> QED
        BY <2>1, <4>1
    <3>4. MacKept(user', wanted'[Mac])
      BY <1>b, <1>c, <1>d, <2>1, <3>1, <3>2, <3>3 DEF MacKept, HasIdentifier
    <3>5. \A g \in 0 .. 6 : \A i \in Place(g) : g # f => user'[i] = user[i]
      BY <1>b, <1>c, <3>3, PlacesApart
    <3>6. ~early => Shows(user, f)'
      BY <2>1, <3>1, <3>3 DEF Shows
    <3>7. ~early => Shows(user, Endpoint)'
      BY <1>b, <2>1, <3>1, <3>5 DEF Shows
    <3>8. ASSUME ~early, NEW g \in Localm
          PROVE  \/ Shows(user, g)'
                 \/ g >= f + 1 /\ \A i \in Place(g) : user'[i] \in {"blank", wanted[g]}
      <4>1. CASE g = f
        BY <3>6, <3>8, <4>1
      <4>2. CASE g # f
        <5>1. g >= f => g >= f + 1
          BY <4>2, Layout
        <5> QED
          BY <1>b, <2>1, <3>1, <3>5, <3>8, <4>2, <5>1 DEF Shows
      <4> QED
        BY <4>1, <4>2
    <3>9. f = 4 => \A g \in Localm : ~(g >= f + 1)
      BY Layout
    <3> HIDE DEF place, value
    <3>10. InUse'
      BY <2>1, <3>1 DEF InUse
    <3>11. CASE settingsPc' = "ip"
      BY <2>1, <3>4, <3>7, <3>8, <3>10, <3>11 DEF WholeFlash, Copied
    <3>12. CASE settingsPc' = "idle"
      BY <1>b, <2>1, <3>4, <3>7, <3>8, <3>9, <3>10, <3>12 DEF WholeFlash, Complete
    <3> QED
      BY <2>1, <3>11, <3>12
  <2> QED
    BY <1>a, <2>1, <2>2 DEF Survives
<1>15. CASE PowerLoss
  <2>1. /\ settingsPc' = "boot" /\ ~netUp' /\ UNCHANGED <<wanted, early>>
        /\ \A f \in Localm : nlocalm'[f] = "default"
    BY <1>15 DEF PowerLoss
  <2>2. CASE settingsPc = "idle"
    <3>1. UNCHANGED <<user, back, torn, identity>>
      BY <1>15, <2>2 DEF PowerLoss
    <3> QED
      BY <1>a, <2>1, <2>2, <3>1
      DEF WholeFlash, InUse, Complete, MacKept, HasIdentifier, Shows, Survives
  <2>3. CASE settingsPc # "idle"
    <3>1. /\ torn' = torn + 1 /\ torn \in Nat
          /\ identity' = IF settingsPc \in {"boot", "firstId", "firstMac", "firstIp", "firstEndpoint"}
                         THEN "none" ELSE wanted[Mac]
          /\ \/ UNCHANGED <<user, back>>
             \/ user' = Torn(user, WorkUser) /\ back' = Torn(back, WorkBack)
      BY <1>0, <1>15, <2>3 DEF PowerLoss, SettingsTypeOK
    <3>2. ASSUME torn = 0, settingsPc \in Making
          PROVE  MacKept(user', wanted[Mac]) \/ MacKept(back', wanted[Mac])
      <4> DEFINE own == Identifier \cup Place(Mac)
      <4>0. own \subseteq Area
        BY <1>b, <1>c, <1>d
      <4>1. Copied
        BY <1>a, <3>2 DEF WholeFlash
      <4>2. /\ \A i \in Area \ WorkUser : user'[i] = user[i]
            /\ \A i \in Area \ WorkBack : back'[i] = back[i]
        BY <3>1 DEF Torn
      <4>3. MacKept(user, wanted[Mac]) /\ own \cap WorkUser = {} => MacKept(user', wanted[Mac])
        BY <4>0, <4>2 DEF MacKept, HasIdentifier
      <4>4. MacKept(back, wanted[Mac]) /\ own \cap WorkBack = {} => MacKept(back', wanted[Mac])
        BY <4>0, <4>2 DEF MacKept, HasIdentifier
      <4>5. CASE settingsPc \in {"eraseBack", "toBack"}
        BY <4>1, <4>3, <4>5 DEF Copied, Outside, WorkUser
      <4>6. CASE settingsPc \in {"eraseUser", "copyBack"}
        BY <4>1, <4>4, <4>6 DEF Copied, Outside, WorkBack
      <4>7. CASE settingsPc = "endpoint"
        <5>1. own \cap Place(Endpoint) = {}
          BY <1>b, <1>c, PlacesApart
        <5> QED
          BY <4>1, <4>3, <4>7, <5>1 DEF Copied, Outside, WorkUser
      <4>8. CASE settingsPc = "ip"
        <5>1. PICK f \in Localm : f = at
          BY <1>0, <4>8 DEF SettingsTypeOK
        <5>2. own \cap Place(f) = {}
          BY <1>b, <1>c, PlacesApart
        <5> QED
          BY <4>1, <4>3, <4>8, <5>1, <5>2 DEF Copied, WorkUser
      <4> QED
        BY <3>2, <4>5, <4>6, <4>7, <4>8
    <3>3. settingsPc \in First \cup Making \cup {"boot", "idle"}
      BY <1>0 DEF SettingsTypeOK
    <3>4. torn' = 1 => torn = 0
      BY <3>1
    <3>5. torn' # 0
      BY <3>1
    <3>6. ASSUME torn' = 1, identity' # "none" PROVE Survives'
      <4>1. settingsPc \in Making /\ identity' = wanted[Mac]
        BY <2>3, <3>1, <3>3, <3>6
      <4>2. MacKept(user', identity') \/ MacKept(back', identity')
        BY <3>2, <3>4, <3>6, <4>1
      <4> QED
        BY <2>1, <4>2 DEF Survives, MacKept, HasIdentifier
    <3> QED
      BY <3>5, <3>6
  <2> QED
    BY <2>2, <2>3
<1>16. CASE UNCHANGED settingsVars
  <2>1. /\ UNCHANGED <<user, back, settingsPc, at, nlocalm, localm, serviceEndpoint, netUp, wanted,
                       early, torn, identity>>
    BY <1>16 DEF settingsVars
  <2> QED
    BY <1>a, <2>1
    DEF WholeFlash, InUse, FirstUse, Copied, Outside, Complete, Survives, MacKept, HasIdentifier,
        Shows, Empty
<1> QED
  BY <1>1, <1>2, <1>3, <1>4, <1>5, <1>6, <1>7, <1>8, <1>9, <1>10, <1>11, <1>12, <1>13, <1>14,
     <1>15, <1>16
  DEF SettingsNext, SettingsStep

LEMMA SettingsInvariant == SettingsSpec => []SettingsInv
<1>1. SettingsInit => SettingsInv
  <2> SUFFICES ASSUME SettingsInit PROVE SettingsInv
    OBVIOUS
  <2>1. SettingsTypeOK
    <3>1. 1 \in 1 .. MaxBoots /\ 0 \in 0 .. MaxSettings /\ 0 \in 0 .. MaxPowerLosses
      BY SettingsAssumption
    <3>2. lives \in 1 .. MaxBoots /\ sets \in 0 .. MaxSettings /\ torn \in 0 .. MaxPowerLosses
      BY <3>1, Zenon DEF SettingsInit
    <3> QED
      BY <3>2, Layout, BlankSector DEF SettingsInit, SettingsTypeOK
  <2>2. WholeFlash
    BY DEF SettingsInit, WholeFlash, InUse, First, Making, Copying
  <2> QED
    BY <2>1, <2>2 DEF SettingsInit, SettingsInv
<1> QED
  BY <1>1, SettingsStepKeeps, PTL DEF SettingsSpec

(* Unless the power failed in the middle of a change, what was last set is  *)
(* in the flash and in use, through any changes and restarts.               *)
THEOREM SettingsCorrect == SettingsSpec => []SettingsKept
<1>1. SettingsInv => SettingsKept
  BY Layout DEF SettingsInv, SettingsKept, WholeFlash, InUse, Complete, Shows, NetSettings
<1> QED
  BY <1>1, SettingsInvariant, PTL

(* Wherever the power fails in a change, identifier and MAC address are in  *)
(* one of the two sectors.                                                  *)
THEOREM IdentityCorrect == SettingsSpec => []IdentityLeft
<1>1. SettingsInv => IdentityLeft
  BY DEF SettingsInv, IdentityLeft, Survives
<1> QED
  BY <1>1, SettingsInvariant, PTL
=============================================================================
