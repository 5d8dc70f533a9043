----------------------------- MODULE RequestPath -----------------------------
(***************************************************************************)
(* The way of requests to a unit: CanEx::Transmit of several threads, each *)
(* of which takes the mutex for every frame anew, the driver of CanDriver, *)
(* the bus, and the reassembly in the unit, CAN_rx of canonchip.c, whose   *)
(* one rxEntry serves all requests. CAN_rx keeps the bytes of a segment    *)
(* and marks it; the entry is handed over with the segment that marks the  *)
(* last one, and again with each segment after that.                       *)
(*                                                                         *)
(* What the driver does is CanDriver's: its steps are taken here together  *)
(* with what a thread does when it pushes, and the unit when a frame       *)
(* reaches it. Frames are numbered as they are pushed; frame[f] says which *)
(* part of which entry is in frame f.                                      *)
(***************************************************************************)
EXTENDS CanDriver

CONSTANTS
  Plan,       \* Plan[t]: for each entry t sends, the segments after its first frame
  NoEntry     \* of no entry

ASSUME PlanAssumption == Plan \in [Senders -> Seq(Nat)]

EntriesOf(t) == {[by |-> t, nth |-> i] : i \in DOMAIN Plan[t]}
Entries == UNION {EntriesOf(t) : t \in Senders}
Last(e) == IF e = NoEntry THEN 0 ELSE Plan[e.by][e.nth]
Parts == {0} \cup UNION {0 .. Last(e) : e \in Entries}

ASSUME NoEntryAssumption == NoEntry \notin Entries

VARIABLES
  nth, part,    \* of each thread: the entry and the part it transmits next
  frame,        \* what is in the frames pushed
  rxEntry,      \* the head the unit has, and the entry that each part came from
  tag,          \* parts not yet marked
  handed,       \* entries given to CANEXReceiverEvent
  interleaved,  \* history: a thread pushed between two frames of another's entry
  overtaken     \* history: a frame reached the unit before one pushed earlier

threadPos == <<nth, part, frame, interleaved>>
unitVars == <<rxEntry, tag, handed, overtaken>>
pathVars == <<vars, threadPos, unitVars>>

PathTypeOK ==
  /\ nth \in [Senders -> Nat] /\ part \in [Senders -> Parts]
  /\ frame \in Seq([entry: Entries, part: Parts]) /\ Len(frame) = pushed
  /\ rxEntry \in [head: Entries \cup {NoEntry}, from: [Parts -> Entries \cup {NoEntry}]]
  /\ tag \subseteq Parts
  /\ handed \in Seq([entry: Entries, own: BOOLEAN])
  /\ interleaved \in BOOLEAN /\ overtaken \in BOOLEAN

PathInit ==
  /\ Init
  /\ nth = [t \in Senders |-> 1] /\ part = [t \in Senders |-> 0]
  /\ frame = <<>>
  /\ rxEntry = [head |-> NoEntry, from |-> [p \in Parts |-> NoEntry]]
  /\ tag = {} /\ handed = <<>>
  /\ interleaved = FALSE /\ overtaken = FALSE

----------------------------------------------------------------------------
(* CanEx::Transmit: the parts of an entry one after the other.             *)

Current(t) == [by |-> t, nth |-> nth[t]]

Follows(t) ==
  frame # <<>> /\ frame[Len(frame)] = [entry |-> Current(t), part |-> part[t] - 1]

(* Faulty variant: a segment too many.                                     *)
TransmitLong(t) ==
  /\ nth[t] \in DOMAIN Plan[t]
  /\ Send(t)
  /\ frame' = Append(frame, [entry |-> Current(t), part |-> part[t]])
  /\ interleaved' = (interleaved \/ (part[t] > 0 /\ ~Follows(t)))
  /\ \/ /\ part[t] <= Plan[t][nth[t]]
        /\ part' = [part EXCEPT ![t] = @ + 1] /\ UNCHANGED nth
     \/ /\ part[t] > Plan[t][nth[t]]
        /\ part' = [part EXCEPT ![t] = 0] /\ nth' = [nth EXCEPT ![t] = @ + 1]
  /\ UNCHANGED unitVars

Transmit(t) ==
  /\ nth[t] \in DOMAIN Plan[t]
  /\ Send(t)
  /\ frame' = Append(frame, [entry |-> Current(t), part |-> part[t]])
  /\ interleaved' = (interleaved \/ (part[t] > 0 /\ ~Follows(t)))
  /\ \/ /\ part[t] < Plan[t][nth[t]]
        /\ part' = [part EXCEPT ![t] = @ + 1] /\ UNCHANGED nth
     \/ /\ part[t] = Plan[t][nth[t]]
        /\ part' = [part EXCEPT ![t] = 0] /\ nth' = [nth EXCEPT ![t] = @ + 1]
  /\ UNCHANGED unitVars

----------------------------------------------------------------------------
(* CAN_rx of the unit.                                                     *)

Whole(rx) == \A p \in 0 .. Last(rx.head) : rx.from[p] = rx.head
HandOver(rx) == handed' = Append(handed, [entry |-> rx.head, own |-> Whole(rx)])

(* Faulty variant: the marks of the entry before are not taken back.       *)
ReceiveFirstMarked(e) ==
  /\ rxEntry' = [head |-> e, from |-> [rxEntry.from EXCEPT ![0] = e]]
  /\ \/ Last(e) = 0 /\ HandOver(rxEntry') /\ UNCHANGED tag
     \/ Last(e) > 0 /\ UNCHANGED <<tag, handed>>

(* A first frame: what was there of another entry is forgotten, but for    *)
(* the bytes themselves.                                                   *)
ReceiveFirst(e) ==
  /\ rxEntry' = [head |-> e, from |-> [rxEntry.from EXCEPT ![0] = e]]
  /\ \/ Last(e) = 0 /\ HandOver(rxEntry') /\ UNCHANGED tag
     \/ Last(e) > 0 /\ tag' = 1 .. Last(e) /\ UNCHANGED handed

(* Faulty variant: the marks are looked at before the segment is marked.   *)
ReceivePartLate(e, p) ==
  /\ tag' = tag \ {p}
  /\ \/ /\ p <= Last(rxEntry.head)
        /\ rxEntry' = [rxEntry EXCEPT !.from[p] = e]
        /\ \/ tag = {} /\ HandOver(rxEntry')
           \/ tag # {} /\ UNCHANGED handed
     \/ /\ p > Last(rxEntry.head)
        /\ UNCHANGED <<rxEntry, handed>>

(* A further one, of whatever entry: marked, and copied if it fits.        *)
ReceivePart(e, p) ==
  /\ tag' = tag \ {p}
  /\ \/ /\ p <= Last(rxEntry.head)
        /\ rxEntry' = [rxEntry EXCEPT !.from[p] = e]
        /\ \/ tag' = {} /\ HandOver(rxEntry')
           \/ tag' # {} /\ UNCHANGED handed
     \/ /\ p > Last(rxEntry.head)
        /\ UNCHANGED <<rxEntry, handed>>

CAN_rx(f) ==
  LET m == frame[f]
  IN /\ \/ m.part = 0 /\ ReceiveFirst(m.entry)
        \/ m.part > 0 /\ ReceivePart(m.entry, m.part)
     /\ overtaken' = (overtaken \/ \E g \in 1 .. f - 1 : Sending(g) + Held(g) + InHand(g) > 0)

(* A step of the driver or its environment that pushes nothing: when a     *)
(* frame is sent in it, the unit receives it.                              *)
DriverStep == Poll \/ ThreadStep \/ TransferIrq \/ ErrorIrq \/ Transmitted \/ BusError

Carry ==
  /\ DriverStep
  /\ \/ sent' = sent /\ UNCHANGED unitVars
     \/ \E f \in 1 .. pushed : sent'[f] # sent[f] /\ CAN_rx(f)
  /\ UNCHANGED threadPos

PathNext == (\E t \in Senders : Transmit(t)) \/ Carry

PathSpec == PathInit /\ [][PathNext]_pathVars

----------------------------------------------------------------------------
Lost == \E f \in Frames : thrown[f] + aborted[f] + dropped[f] > 0

(* An entry the unit hands over holds the parts of one request, all of     *)
(* them, and a request whose frames have gone out has been handed over     *)
(* exactly once - unless the driver lost a frame or let one overtake       *)
(* another, or two threads sent to the unit at the same time.              *)
HandedOver ==
  Lost \/ overtaken \/ interleaved
  \/ /\ \A i \in DOMAIN handed : handed[i].own
     /\ \A e \in Entries :
          LET own == {f \in DOMAIN frame : frame[f].entry = e}
          IN Cardinality({i \in DOMAIN handed : handed[i].entry = e}) =
               IF Cardinality(own) = Last(e) + 1 /\ \A f \in own : sent[f] > 0 THEN 1 ELSE 0
=============================================================================
