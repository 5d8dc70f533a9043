------------------------------- MODULE UnitCan -------------------------------
(***************************************************************************)
(* How a unit sends entries to the controller: CANTransmit and CANSend of  *)
(* the unit (iValuableUnit/canonchip.c), called by the main loop and, for  *)
(* heartbeats, by the timer interrupt, the interrupts of the CAN chip, and *)
(* the reassembly at the other end (CanEx::MessageReceiver). An entry of   *)
(* at most 4 bytes is one frame; a longer one is a first frame and one     *)
(* segment for each further 7 bytes.                                       *)
(*                                                                         *)
(* An entry is a number; a frame carries the entry its head was taken from *)
(* and the one its bytes were taken from, which differ when the buffer of  *)
(* the response is overwritten on the way. The C_CAN cell is external: of  *)
(* the message objects that wait it sends the lowest.                      *)
(***************************************************************************)
EXTENDS Integers, Sequences, FiniteSets

CONSTANTS
  Slots,          \* message objects for sending, one after the other: 3 .. 31 in the code
  Segments,       \* Segments[e]: segments that follow the first frame of e
  MaxBeats,       \* bound: heartbeats, which a unit sends while it is not connected
  MaxErrors,      \* bound: errors on the bus
  MaxLosses       \* bound: frames the controller's driver loses

Entries == DOMAIN Segments

ASSUME SlotsAssumption == Slots \subseteq Nat /\ \E first, last \in Slots : Slots = first .. last
ASSUME SegmentsAssumption == Segments \in Seq(Nat)
ASSUME BoundAssumption ==
  MaxBeats \in Nat /\ MaxErrors \in Nat /\ MaxLosses \in Nat

VARIABLES
  pc,           \* where the main loop is in CANTransmit and CANSend
  entry,        \* the entry whose head it sends; 0: none
  isRes,        \* it is the response, whose buffer the interrupt may overwrite
  seg, total,   \* the frame it sends next, 0 being the first; the last one
  num, copy,    \* CANSend: the slot it looks at; msgSignals as it read it
  res,          \* the entry in the buffer of the response
  ResponseTriggered,
  msgSignals,   \* slots marked busy
  tx_count,
  object,       \* frames that wait in the message objects
  done,         \* slots whose frame has gone out, CAN_tx not yet called
  STAT,         \* whether the last error code of the cell says there was one
  hung,         \* the timer interrupt does not come back from CANSend
  rxTable,      \* the controller's incomplete entry of this unit
  delivered,    \* what it handed over: the entry, and whether all of it is its own
  started,      \* history: entries the main loop sent, in order
  faults,       \* history: what has gone wrong with frames
  vanished,     \* history: frames of this entry that CAN_tx will not count
  beats, errors, losses, made  \* bounds; entries made so far

mainVars == <<pc, entry, isRes, seg, total, num, copy>>
resVars == <<res, ResponseTriggered, made>>
slotVars == <<msgSignals, tx_count, object, done>>
rxVars == <<rxTable, delivered, losses>>
history == <<started, faults, vanished>>
vars == <<mainVars, resVars, slotVars, STAT, hung, rxVars, history, beats, errors>>

Beat == [kind |-> "beat"]
None == [kind |-> "none"]
Frame(h, b, s) == [kind |-> "entry", head |-> h, body |-> b, seg |-> s]
Least(S) == CHOOSE n \in S : \A m \in S : n <= m

(* Faulty variant: the last slot is passed.                                *)
NextSlotPast(n) == n + 1

NextSlot(n) == IF \E m \in Slots : m > n THEN Least({m \in Slots : m > n}) ELSE Least(Slots)
Pending == {n \in Slots : object[n] # None}
EntryPending == {n \in Slots : object[n].kind = "entry"}
AllSegments == UNION {0 .. Segments[e] : e \in Entries}
Faults == {"dropped", "reset", "overwritten", "overtaken", "lost", "torn"}

FrameType == [kind: {"entry"}, head: Entries, body: Entries, seg: AllSegments]

TypeOK ==
  /\ pc \in {"idle", "wait", "stat", "check", "read", "write", "transmit"}
  /\ entry \in Entries \cup {0} /\ isRes \in BOOLEAN
  /\ seg \in Nat /\ total \in AllSegments \cup {0}
  /\ num \in Slots /\ copy \subseteq Slots
  /\ res \in Entries \cup {0} /\ ResponseTriggered \in BOOLEAN /\ made \in Entries \cup {0}
  /\ msgSignals \subseteq Slots /\ done \subseteq Slots
  /\ tx_count \in Int
  /\ object \in [Slots -> FrameType \cup {Beat, None}]
  /\ STAT \in BOOLEAN /\ hung \in BOOLEAN
  /\ rxTable \in {None} \cup [head: Entries, bodies: SUBSET Entries, missing: SUBSET AllSegments]
  /\ delivered \in Seq([entry: Entries, own: BOOLEAN])
  /\ started \in Seq(Entries) /\ faults \subseteq Faults /\ vanished \in Nat
  /\ beats \in 0 .. MaxBeats /\ errors \in 0 .. MaxErrors /\ losses \in 0 .. MaxLosses

Init ==
  /\ pc = "idle" /\ entry = 0 /\ isRes = FALSE /\ seg = 0 /\ total = 0
  /\ num = Least(Slots) /\ copy = {}
  /\ res = 0 /\ ResponseTriggered = FALSE /\ made = 0
  /\ msgSignals = {} /\ tx_count = 0 /\ object = [n \in Slots |-> None] /\ done = {}
  /\ STAT = FALSE /\ hung = FALSE
  /\ rxTable = None /\ delivered = <<>>
  /\ started = <<>> /\ faults = {} /\ vanished = 0
  /\ beats = 0 /\ errors = 0 /\ losses = 0

(* The main loop goes on unless the timer interrupt keeps the processor.   *)
At(l) == ~hung /\ pc = l

----------------------------------------------------------------------------
(* The main loop: CANEXResponse, and CANEXBroadcast of an entry of its own *)
(* (SYNC_DATA, SYNC_DOOR, SYNC_RFID). The head is made up before the wait. *)

SendResponse ==
  /\ At("idle") /\ ResponseTriggered
  /\ pc' = "wait" /\ entry' = res /\ isRes' = TRUE
  /\ UNCHANGED <<seg, total, num, copy, resVars, slotVars, STAT, hung, rxVars,
                 history, beats, errors>>

SendBroadcast ==
  /\ At("idle") /\ made + 1 \in Entries
  /\ pc' = "wait" /\ entry' = made + 1 /\ made' = made + 1 /\ isRes' = FALSE
  /\ UNCHANGED <<seg, total, num, copy, res, ResponseTriggered, slotVars, STAT, hung,
                 rxVars, history, beats, errors>>

(* The bytes the main loop copies now.                                     *)
Body == IF isRes THEN res ELSE entry

(* Faulty variant: the frames of the last entry are not waited for.        *)
StartAtOnce ==
  /\ At("wait")
  /\ seg' = 0 /\ total' = Segments[Body]
  /\ tx_count' = Segments[Body] + 1
  /\ pc' = "stat" /\ num' = Least(Slots)
  /\ started' = Append(started, entry) /\ vanished' = 0
  /\ UNCHANGED <<entry, isRes, copy, resVars, msgSignals, object, done, STAT, hung,
                 rxVars, faults, beats, errors>>

(* while (tx_count > 0), then the count of the frames is set.              *)
Start ==
  /\ At("wait") /\ tx_count <= 0
  /\ seg' = 0 /\ total' = Segments[Body]
  /\ tx_count' = Segments[Body] + 1
  /\ pc' = "stat" /\ num' = Least(Slots)
  /\ started' = Append(started, entry) /\ vanished' = 0
  /\ UNCHANGED <<entry, isRes, copy, resVars, msgSignals, object, done, STAT, hung,
                 rxVars, faults, beats, errors>>

(* After a frame: the next, or the end of CANTransmit, where the main loop *)
(* takes the trigger of the response back.                                 *)
AfterFrame ==
  /\ num' = Least(Slots) /\ copy' = {}
  /\ \/ /\ seg < total
        /\ pc' = "stat" /\ seg' = seg + 1
        /\ UNCHANGED <<ResponseTriggered, entry, isRes, total>>
     \/ /\ seg = total
        /\ pc' = "idle" /\ entry' = 0 /\ isRes' = FALSE /\ seg' = 0 /\ total' = 0
        /\ ResponseTriggered' = (ResponseTriggered /\ ~isRes)

(* CANSend: with an error on the bus the frame is dropped without a word.  *)
Drop ==
  /\ At("stat") /\ STAT
  /\ AfterFrame
  /\ faults' = faults \cup {"dropped"} /\ vanished' = vanished + 1
  /\ UNCHANGED <<res, made, slotVars, STAT, hung, rxVars,
                 started, beats, errors>>

NoError ==
  /\ At("stat") /\ ~STAT
  /\ pc' = "check"
  /\ UNCHANGED <<entry, isRes, seg, total, num, copy, resVars, slotVars, STAT, hung,
                 rxVars, history, beats, errors>>

(* A busy slot is looked at 1000 times before the next one.                *)
TryNext ==
  /\ At("check") /\ num \in msgSignals
  /\ num' = NextSlot(num)
  /\ UNCHANGED <<pc, entry, isRes, seg, total, copy, resVars, slotVars, STAT, hung,
                 rxVars, history, beats, errors>>

FindFree ==
  /\ At("check") /\ num \notin msgSignals
  /\ pc' = "read"
  /\ UNCHANGED <<entry, isRes, seg, total, num, copy, resVars, slotVars, STAT, hung,
                 rxVars, history, beats, errors>>

(* msgSignals |= sync, a load and a store between which interrupts come.   *)
ReadSignals ==
  /\ At("read")
  /\ copy' = msgSignals /\ pc' = "write"
  /\ UNCHANGED <<entry, isRes, seg, total, num, resVars, slotVars, STAT, hung,
                 rxVars, history, beats, errors>>

(* Faulty variant: the slot is not marked.                                 *)
WriteUnmarked ==
  /\ At("write")
  /\ msgSignals' = copy /\ pc' = "transmit"
  /\ UNCHANGED <<entry, isRes, seg, total, num, copy, resVars, tx_count, object, done, STAT,
                 hung, rxVars, history, beats, errors>>

WriteSignals ==
  /\ At("write")
  /\ msgSignals' = copy \cup {num} /\ pc' = "transmit"
  /\ UNCHANGED <<entry, isRes, seg, total, num, copy, resVars, tx_count, object, done, STAT,
                 hung, rxVars, history, beats, errors>>

(* The frame is copied to the slot and given to the cell.                  *)
Transmit ==
  /\ At("transmit")
  /\ object' = [object EXCEPT ![num] = Frame(entry, Body, seg)]
  /\ faults' = IF object[num].kind = "entry" THEN faults \cup {"overwritten"} ELSE faults
  /\ vanished' = IF object[num].kind = "entry" THEN vanished + 1 ELSE vanished
  /\ AfterFrame
  /\ UNCHANGED <<res, made, msgSignals, tx_count, done, STAT, hung,
                 rxVars, started, beats, errors>>

----------------------------------------------------------------------------
(* The interrupts, which do not interrupt each other.                      *)

(* CanexReceived: a request is answered in the one buffer for responses,   *)
(* whether or not the last one has been sent.                              *)
Request ==
  /\ ~hung /\ made + 1 \in Entries
  /\ res' = made + 1 /\ made' = made + 1 /\ ResponseTriggered' = TRUE
  /\ faults' = IF pc # "idle" /\ isRes THEN faults \cup {"torn"} ELSE faults
  /\ UNCHANGED <<mainVars, slotVars, STAT, hung, rxVars, started, vanished, beats,
                 errors>>

(* TIMER32_0_IRQHandler: CANSend of the heartbeat, which no other interrupt *)
(* can bring to a free slot when there is none.                            *)
Heartbeat ==
  /\ ~hung /\ beats < MaxBeats /\ ~STAT
  /\ beats' = beats + 1
  /\ \/ /\ Slots \subseteq msgSignals
        /\ hung' = TRUE
        /\ UNCHANGED <<object, msgSignals, faults, vanished>>
     \/ \E n \in Slots \ msgSignals :
          /\ \A m \in Slots \ msgSignals : n <= m
          /\ object' = [object EXCEPT ![n] = Beat]
          /\ msgSignals' = msgSignals \cup {n}
          /\ faults' = IF object[n].kind = "entry" THEN faults \cup {"overwritten"} ELSE faults
          /\ vanished' = IF object[n].kind = "entry" THEN vanished + 1 ELSE vanished
          /\ UNCHANGED hung
  /\ UNCHANGED <<mainVars, resVars, tx_count, done, STAT, rxVars, started, errors>>

(* Faulty variant: only the slot is given back.                            *)
CAN_txUncounted(n) ==
  /\ ~hung /\ n \in done
  /\ msgSignals' = msgSignals \ {n} /\ done' = done \ {n}
  /\ UNCHANGED <<mainVars, resVars, tx_count, object, STAT, hung, rxVars, history,
                 beats, errors>>

CAN_tx(n) ==
  /\ ~hung /\ n \in done
  /\ msgSignals' = msgSignals \ {n} /\ done' = done \ {n}
  /\ tx_count' = tx_count - 1
  /\ UNCHANGED <<mainVars, resVars, object, STAT, hung, rxVars, history, beats,
                 errors>>

(* CAN_error on a stuff error of a passive node: CANInit. What waits in the *)
(* message objects is gone, tx_count stays as it is.                       *)
CAN_error ==
  /\ ~hung /\ STAT
  /\ msgSignals' = {} /\ done' = {} /\ object' = [n \in Slots |-> None]
  /\ STAT' = FALSE
  /\ faults' = faults \cup {"reset"}
  /\ vanished' = vanished + Cardinality(EntryPending) + Cardinality(done)
  /\ UNCHANGED <<mainVars, resVars, tx_count, hung, rxVars, started, beats, errors>>

----------------------------------------------------------------------------
(* CanEx::MessageReceiver of the controller, for the frames of this unit.  *)

Deliver(e, bodies) == delivered' = Append(delivered, [entry |-> e, own |-> bodies = {e}])

ReceiveFirst(f) ==
  \/ Segments[f.head] = 0 /\ Deliver(f.head, {f.body}) /\ UNCHANGED rxTable
  \/ /\ Segments[f.head] > 0 /\ rxTable = None
     /\ rxTable' = [head |-> f.head, bodies |-> {f.body}, missing |-> 1 .. Segments[f.head]]
     /\ UNCHANGED delivered
  \/ Segments[f.head] > 0 /\ rxTable # None /\ UNCHANGED <<rxTable, delivered>>

(* SetSegment leaves out what does not fit: the last segment of an entry   *)
(* is shorter than the one of a longer entry at that place.                *)
Fits(f) ==
  /\ rxTable # None
  /\ LET last == Segments[rxTable.head]
     IN f.seg < last \/ (f.seg = last /\ Segments[f.head] <= last)

ReceiveSegment(f) ==
  \/ ~Fits(f) /\ UNCHANGED <<rxTable, delivered>>
  \/ /\ Fits(f)
     /\ LET bodies == rxTable.bodies \cup {f.body}
            missing == rxTable.missing \ {f.seg}
        IN \/ /\ missing = {}
              /\ Deliver(rxTable.head, bodies)
              /\ rxTable' = None
           \/ /\ missing # {}
              /\ rxTable' = [rxTable EXCEPT !.bodies = bodies, !.missing = missing]
              /\ UNCHANGED delivered

Receive(f) ==
  \/ f.kind = "beat" /\ UNCHANGED <<rxTable, delivered>>
  \/ f.kind = "entry" /\ f.seg = 0 /\ ReceiveFirst(f)
  \/ f.kind = "entry" /\ f.seg > 0 /\ ReceiveSegment(f)

----------------------------------------------------------------------------
(* The cell sends the lowest message object, over a bus that keeps the     *)
(* order; the controller's driver may be out of mails for it.              *)

Overtakes(f) ==
  \E n \in EntryPending :
    \/ object[n].head = f.head /\ object[n].seg = 0 /\ f.seg > 0
    \/ \E i, j \in DOMAIN started : i < j /\ started[i] = object[n].head /\ started[j] = f.head

SendOut ==
  \E n \in Pending :
    /\ \A m \in Pending : n <= m
    /\ object' = [object EXCEPT ![n] = None]
    /\ done' = done \cup {n}
    /\ STAT' = FALSE
    /\ vanished' = IF n \in done THEN vanished + 1 ELSE vanished
    /\ LET f == object[n]
           over == IF f.kind = "entry" /\ Overtakes(f) THEN {"overtaken"} ELSE {}
       IN \/ Receive(f) /\ faults' = faults \cup over /\ UNCHANGED losses
          \/ /\ f.kind = "entry" /\ losses < MaxLosses
             /\ losses' = losses + 1
             /\ faults' = faults \cup over \cup {"lost"}
             /\ UNCHANGED <<rxTable, delivered>>
    /\ UNCHANGED <<mainVars, resVars, msgSignals, tx_count, hung, started, beats,
                   errors>>

BusError ==
  /\ errors < MaxErrors
  /\ errors' = errors + 1 /\ STAT' = TRUE
  /\ UNCHANGED <<mainVars, resVars, slotVars, hung, rxVars, history, beats>>

MainStep ==
  \/ Start \/ Drop \/ NoError \/ TryNext \/ FindFree \/ ReadSignals \/ WriteSignals \/ Transmit

Next ==
  \/ SendResponse \/ SendBroadcast \/ MainStep
  \/ Request \/ Heartbeat \/ (\E n \in Slots : CAN_tx(n)) \/ CAN_error
  \/ SendOut \/ BusError

Spec == Init /\ [][Next]_vars

Fairness ==
  WF_vars(MainStep) /\ WF_vars(SendOut) /\ \A n \in Slots : WF_vars(CAN_tx(n))
FairSpec == Spec /\ Fairness

----------------------------------------------------------------------------
(* An entry the controller hands over is whole and all its own, and entries *)
(* come once each and in the order they were sent, unless a frame was      *)
(* dropped, thrown away by a reset, overwritten in its slot or lost by the  *)
(* controller, or the response was overwritten while it was sent, or frames *)
(* overtook each other, which they only do when there are heartbeats.       *)
WholeEntries ==
  faults = {} \/ (faults = {"overtaken"} /\ beats = 0) =>
    /\ \A i \in DOMAIN delivered : delivered[i].own
    /\ Len(delivered) <= Len(started)
    /\ \A i \in DOMAIN delivered : delivered[i].entry = started[i]
    /\ Len(started) - Len(delivered) <= 1 + Cardinality(EntryPending)

(* Frames of entries are overwritten in their slots or overtaken only when  *)
(* there has been a heartbeat or a reset: a connected unit, which sends     *)
(* none, fills its slots correctly although the interrupt clears bits of    *)
(* msgSignals between main's load and store.                                *)
OnlyBeatsInterfere ==
  {"overwritten", "overtaken"} \cap faults # {} => beats > 0 \/ "reset" \in faults

ToSend == IF pc \in {"stat", "check", "read", "write", "transmit"} THEN total - seg + 1 ELSE 0

(* CANTransmit waits for frames that are still to go out, or else for one   *)
(* that has vanished: dropped, overwritten, or gone with a reset.           *)
WaitsForFrames == tx_count <= ToSend + Cardinality(EntryPending) + Cardinality(done) + vanished

(* Unless a frame has vanished, or every slot is busy for good (bits that   *)
(* main's store has set again), or the timer interrupt hangs, CANTransmit   *)
(* comes back and the main loop goes on.                                    *)
TransmitReturns ==
  (pc # "idle") ~> (pc = "idle" \/ vanished > 0 \/ hung \/ Slots \subseteq msgSignals)
=============================================================================
