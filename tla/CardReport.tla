------------------------------ MODULE CardReport ------------------------------
(***************************************************************************)
(* What the server knows of the card in an RFID unit. The unit's main loop *)
(* looks for a card (RfidProcessor.cpp) and reports a change when it is    *)
(* registered (RfidChanged of main.cpp); on the controller the poll thread *)
(* stores the report (RfidUnit.cpp) while the Traversal thread sends what  *)
(* has changed (NetworkEngine::SendRfidData) and takes back the mark.      *)
(*                                                                         *)
(* The handshake is that of DoorStatus: here Registered is only toggled.   *)
(* The reader, the bus and the server are external.                        *)
(***************************************************************************)
EXTENDS Integers, Sequences

CONSTANTS
  Cards,           \* identities of cards
  NoCard, NoId,   \* no card; the empty string
  MaxWay           \* bound: reports on the way to the controller

ASSUME CardsAssumption == NoCard \notin Cards /\ NoId \notin Cards \cup {NoCard}
ASSUME WayAssumption == MaxWay \in Nat \ {0}

VARIABLES
  card,           \* the card that is there
  UIDlast, RfidCardType,   \* of RfidProcessor; whether the type is not 0
  RfidBytes, RfidPending,  \* of the unit's main.cpp
  Registered,
  way,            \* reports on the way
  rfid,           \* the RfidUnit of the controller
  pollPc,         \* what the poll thread does in ProcessRecievedEvent
  traversalPc,    \* what Traversal does
  force,          \* its forceReport
  report,         \* what it has serialized
  connected, server,  \* the connection, and the card the server knows of
  inDoubt         \* history: something has happened after which it may be wrong

readerVars == <<UIDlast, RfidCardType, RfidBytes, RfidPending>>
pollVars == <<rfid, pollPc>>
traversalVars == <<traversalPc, force, report>>
serverVars == <<connected, server>>
cardVars == <<card, readerVars, Registered, way, pollVars, traversalVars, serverVars, inDoubt>>

Reports == [arrival: BOOLEAN, id: Cards \cup {NoCard, NoId}]
Nothing == [arrival |-> FALSE, id |-> NoCard]
NewUnit == [lastCardType |-> FALSE, cardState |-> FALSE, cardId |-> NoId, cardChanged |-> FALSE]

CardTypeOK ==
  /\ card \in Cards \cup {NoCard} /\ UIDlast \in Cards \cup {NoCard}
  /\ RfidCardType \in BOOLEAN /\ RfidBytes \in Reports
  /\ RfidPending \in BOOLEAN /\ Registered \in BOOLEAN
  /\ way \in Seq(Reports) /\ Len(way) <= MaxWay
  /\ rfid \in [lastCardType: BOOLEAN, cardState: BOOLEAN, cardId: Cards \cup {NoCard, NoId},
               cardChanged: BOOLEAN]
  /\ pollPc \in {"idle", "mark"}
  /\ traversalPc \in {"wait", "state", "id", "update", "look", "clear", "send"}
  /\ force \in BOOLEAN /\ report \in Reports
  /\ connected \in BOOLEAN /\ server \in Cards \cup {NoCard, NoId} /\ inDoubt \in BOOLEAN

CardInit ==
  /\ card = NoCard /\ UIDlast = NoCard /\ RfidCardType = FALSE
  /\ RfidBytes = Nothing /\ RfidPending = FALSE /\ Registered = FALSE
  /\ way = <<>> /\ rfid = NewUnit /\ pollPc = "idle"
  /\ traversalPc = "wait" /\ force = TRUE /\ report = Nothing
  /\ connected = FALSE /\ server = NoCard /\ inDoubt = FALSE

----------------------------------------------------------------------------
(* The unit.                                                               *)

Report(r) ==
  /\ Len(way) < MaxWay
  /\ way' = Append(way, r)

(* A removal is reported with the bytes of the card, which are then zeroed. *)
RfidChanged(arrival, id) ==
  LET bytes == [arrival |-> arrival, id |-> IF arrival THEN id ELSE RfidBytes.id]
  IN /\ RfidBytes' = (IF arrival THEN bytes ELSE [bytes EXCEPT !.id = NoCard])
     /\ \/ Registered /\ RfidPending' = FALSE /\ Report(bytes)
        \/ ~Registered /\ RfidPending' = (RfidPending \/ arrival) /\ UNCHANGED way

(* UpdateRfid: a card other than the last one is read, or cannot be, and    *)
(* the reader is set up again; either is reported.                         *)
NewCardFound ==
  /\ card \notin {NoCard, UIDlast}
  /\ \/ UIDlast' = card /\ RfidCardType' = TRUE /\ RfidChanged(TRUE, card)
     \/ UIDlast' = NoCard /\ RfidCardType' = FALSE /\ RfidChanged(FALSE, NoCard)
  /\ UNCHANGED <<card, Registered, pollVars, traversalVars, serverVars>>

(* No card is found, for more than RFID_OFF_COUNT looks.                   *)
NoCardFound ==
  /\ card = NoCard /\ RfidCardType
  /\ RfidCardType' = FALSE /\ UIDlast' = NoCard
  /\ RfidChanged(FALSE, NoCard)
  /\ UNCHANGED <<card, Registered, pollVars, traversalVars, serverVars>>

ReportPending ==
  /\ Registered /\ RfidPending
  /\ Report(RfidBytes)
  /\ RfidPending' = FALSE
  /\ UNCHANGED <<card, UIDlast, RfidCardType, RfidBytes, Registered, pollVars,
                 traversalVars, serverVars>>

(* CanexSyncTrigger with SYNC_LIVE: nothing is reported anew, as the door is. *)
SyncLive ==
  /\ Registered' = ~Registered
  /\ UNCHANGED <<card, readerVars, way, pollVars, traversalVars, serverVars>>

CardMoves(c) ==
  /\ c # card /\ card' = c
  /\ UNCHANGED <<readerVars, Registered, way, pollVars, traversalVars, serverVars>>

----------------------------------------------------------------------------
(* The poll thread of the controller: ProcessRecievedEvent.                *)

(* Faulty variant: the identity alone is compared.                         *)
IdenticalId(r) == rfid.cardId = r.id

Identical(r) == rfid.lastCardType = r.arrival /\ rfid.cardId = r.id

Store ==
  /\ pollPc = "idle" /\ way # <<>>
  /\ way' = Tail(way)
  /\ LET r == Head(way)
     IN \/ Identical(r) /\ UNCHANGED pollVars
        \/ /\ ~Identical(r)
           /\ rfid' = [rfid EXCEPT !.lastCardType = r.arrival, !.cardState = r.arrival,
                                   !.cardId = IF r.arrival THEN r.id ELSE @]
           /\ pollPc' = "mark"
  /\ UNCHANGED <<card, readerVars, Registered, traversalVars, serverVars>>

Mark ==
  /\ pollPc = "mark"
  /\ rfid' = [rfid EXCEPT !.cardChanged = TRUE]
  /\ pollPc' = "idle"
  /\ UNCHANGED <<card, readerVars, Registered, way, traversalVars, serverVars>>

----------------------------------------------------------------------------
(* The Traversal thread.                                                   *)

Disconnected ==
  /\ traversalPc = "wait" /\ ~connected
  /\ force' = TRUE
  /\ UNCHANGED <<card, readerVars, Registered, way, pollVars, traversalPc, report, serverVars>>

(* Traversal of this unit: when it is forced it looks at the card only, and *)
(* else at the mark.                                                       *)
Traversal ==
  /\ traversalPc = "wait" /\ connected
  /\ force' = FALSE
  /\ traversalPc' = (IF (IF force THEN rfid.cardState ELSE rfid.cardChanged) THEN "state"
                                                                             ELSE "wait")
  /\ UNCHANGED <<card, readerVars, Registered, way, pollVars, report, serverVars>>

(* SendRfidData: the state and the identity are serialized ...             *)
GetCardState ==
  /\ traversalPc = "state"
  /\ report' = [report EXCEPT !.arrival = rfid.cardState]
  /\ traversalPc' = "id"
  /\ UNCHANGED <<card, readerVars, Registered, way, pollVars, force, serverVars>>

GetCardId ==
  /\ traversalPc = "id"
  /\ report' = [report EXCEPT !.id = rfid.cardId]
  /\ traversalPc' = "update"
  /\ UNCHANGED <<card, readerVars, Registered, way, pollVars, force, serverVars>>

(* ... AfterUpdate takes back the mark, and the identity of a card that is  *)
(* gone ...                                                                *)
AfterUpdate ==
  /\ traversalPc = "update"
  /\ rfid' = [rfid EXCEPT !.cardChanged = FALSE]
  /\ traversalPc' = "look"
  /\ UNCHANGED <<card, readerVars, Registered, way, pollPc, force, report, serverVars>>

LookLeft ==
  /\ traversalPc = "look"
  /\ traversalPc' = (IF rfid.cardState THEN "send" ELSE "clear")
  /\ UNCHANGED <<card, readerVars, Registered, way, pollVars, force, report, serverVars>>

ClearId ==
  /\ traversalPc = "clear"
  /\ rfid' = [rfid EXCEPT !.cardId = NoId]
  /\ traversalPc' = "send"
  /\ UNCHANGED <<card, readerVars, Registered, way, pollPc, force, report, serverVars>>

(* ... and only then the report is sent.                                   *)
SendData ==
  /\ traversalPc = "send" /\ connected
  /\ server' = (IF report.arrival THEN report.id ELSE NoCard)
  /\ traversalPc' = "wait"
  /\ UNCHANGED <<card, readerVars, Registered, way, pollVars, force, report, connected>>

ConnectionChanges ==
  /\ connected' = ~connected
  /\ UNCHANGED <<card, readerVars, Registered, way, pollVars, traversalVars, server>>

----------------------------------------------------------------------------
(* What may leave the server with another card than the unit's.            *)

(* SendData refuses, or the message is lost with the connection.           *)
SendRefused ==
  /\ traversalPc = "send"
  /\ traversalPc' = "wait"
  /\ UNCHANGED <<card, readerVars, Registered, way, pollVars, force, report, serverVars>>

FrameLost ==
  /\ way # <<>>
  /\ way' = Tail(way)
  /\ UNCHANGED <<card, readerVars, Registered, pollVars, traversalVars, serverVars>>

UnitRestarts ==
  /\ UIDlast' = NoCard /\ RfidCardType' = FALSE
  /\ RfidBytes' = Nothing /\ RfidPending' = FALSE /\ Registered' = FALSE
  /\ UNCHANGED <<card, way, pollVars, traversalVars, serverVars>>

(* The units that hear its SyncAll toggle; the handshake goes on from there. *)
ControllerRestarts ==
  /\ rfid' = NewUnit /\ pollPc' = "idle" /\ way' = <<>>
  /\ traversalPc' = "wait" /\ force' = TRUE /\ connected' = FALSE
  /\ Registered' \in BOOLEAN
  /\ UNCHANGED <<card, readerVars, report, server>>

Fault == SendRefused \/ FrameLost \/ UnitRestarts \/ ControllerRestarts

(* A removal the unit has nobody to tell of, and does not keep for later.  *)
RemovalForgotten == RfidCardType /\ ~RfidCardType' /\ ~Registered /\ ~RfidPending

(* The poll thread stores a report while Traversal sends the one before.   *)
StoredMeanwhile == pollPc = "idle" /\ pollPc' = "mark" /\ traversalPc \in {"id", "update", "clear"}

CardStep ==
  \/ NewCardFound \/ NoCardFound \/ ReportPending \/ SyncLive
  \/ \E c \in Cards \cup {NoCard} : CardMoves(c)
  \/ Store \/ Mark
  \/ Disconnected \/ Traversal \/ GetCardState \/ GetCardId \/ AfterUpdate \/ LookLeft
  \/ ClearId \/ SendData \/ ConnectionChanges

UnitsCard == IF RfidCardType THEN UIDlast ELSE NoCard

(* Nothing is left to report.                                              *)
Settled ==
  /\ Registered /\ ~RfidPending /\ way = <<>>
  /\ pollPc = "idle" /\ ~rfid.cardChanged
  /\ connected /\ ~force /\ traversalPc = "wait"

(* Unit, controller and server agree.                                      *)
Agreed ==
  /\ Settled /\ server = UnitsCard
  /\ rfid.cardState = RfidCardType
  /\ RfidCardType => rfid.cardId = UIDlast

CardNext ==
  \/ Fault /\ inDoubt' = ~Agreed'
  \/ CardStep /\ inDoubt' = ((inDoubt \/ RemovalForgotten \/ StoredMeanwhile) /\ ~Agreed')

CardSpec == CardInit /\ [][CardNext]_cardVars

----------------------------------------------------------------------------
(* When nothing is left to report, the server knows the card the unit has  *)
(* found, unless since they last agreed the connection refused or lost a    *)
(* report, a frame was lost, one side started anew, a card was removed      *)
(* while the unit was not registered, or a report came in while the one    *)
(* before was being sent: for a card, unlike for a door, these are the ways *)
(* to lose a change, and there are no others.                              *)
ServerKnowsCard == Settled /\ ~inDoubt => server = UnitsCard
=============================================================================
