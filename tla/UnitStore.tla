------------------------------ MODULE UnitStore ------------------------------
(***************************************************************************)
(* The data of a unit (DataProcessor.cpp), kept in MemBuffer and in an     *)
(* FRAM on a serial bus (fram.cpp), and the start that reads it back       *)
(* (main.cpp). Requests of the controller are executed in the CAN          *)
(* interrupt, from before the FRAM is read; the main loop stores the card  *)
(* it has found and removes the supplies of the last one. Both use         *)
(* FRAM::WriteMemory, and the interrupt may come in the middle of it.      *)
(*                                                                         *)
(* A region is what one WriteMemory writes: the card, and for each place   *)
(* the supply there and its quantity. The FRAM is external: it takes a     *)
(* write only after WREN, forgets WREN when the select line goes up after  *)
(* a write, and takes every byte that comes with the line down as data.    *)
(***************************************************************************)
EXTENDS Supplies, Sequences

CONSTANTS
  Values,         \* Uids of cards and supplies, and quantities; 0 is none
  Torn,           \* in a region written in part
  MaxRequests, MaxCards, MaxPowerCuts   \* bounds

Card == <<"card", 0>>
Supply(i) == <<"supply", i>>
Quantity(i) == <<"quantity", i>>
Supplies == {Supply(i) : i \in Places}
Regions == {Card} \cup Supplies \cup {Quantity(i) : i \in Places}
Contents == Values \cup {Torn}

ASSUME StoreAssumption ==
  /\ 0 \in Values /\ Torn \notin Values
  /\ MaxRequests \in Nat /\ MaxCards \in Nat /\ MaxPowerCuts \in Nat

VARIABLES
  MemBuffer,
  fram,        \* what the FRAM holds
  identified,  \* whether it holds the identifier
  mainPc,      \* what the main loop does
  target,      \* the region it writes
  place,       \* the i of RemoveAllSupplies
  isr,         \* regions the CAN interrupt has still to write
  wel, cs,     \* the FRAM takes a write; it is selected, by the main loop
  want,        \* history: the contents last asked for
  doubt,       \* history: regions whose contents may be other, for a known reason
  requests, cards, cuts   \* bounds

storeVars == <<MemBuffer, fram, identified, mainPc, target, place, isr, wel, cs, want, doubt,
               requests, cards, cuts>>
busVars == <<fram, wel, cs>>

StoreTypeOK ==
  /\ MemBuffer \in [Regions -> Contents] /\ fram \in [Regions -> Contents]
  /\ identified \in BOOLEAN
  /\ mainPc \in {"start", "defaults", "loop", "access", "begin", "end", "remove"}
  /\ target \in Regions /\ place \in Places
  /\ isr \in Seq(Regions) /\ wel \in BOOLEAN /\ cs \in BOOLEAN
  /\ want \in [Regions -> Contents] /\ doubt \subseteq Regions
  /\ requests \in 0 .. MaxRequests /\ cards \in 0 .. MaxCards /\ cuts \in 0 .. MaxPowerCuts

(* A unit that is switched on for the first time.                          *)
StoreInit ==
  /\ MemBuffer = [r \in Regions |-> 0] /\ fram = [r \in Regions |-> Torn]
  /\ identified = FALSE
  /\ mainPc = "start" /\ target = Card /\ place = 0
  /\ isr = <<>> /\ wel = FALSE /\ cs = FALSE
  /\ want = [r \in Regions |-> 0] /\ doubt = {}
  /\ requests = 0 /\ cards = 0 /\ cuts = 0

(* The main loop goes on when the interrupt is done.                       *)
MainAt(l) == isr = <<>> /\ mainPc = l

----------------------------------------------------------------------------
(* The start: FRAM::Init, and the data is read, or the defaults written.    *)

ReadBack ==
  /\ MainAt("start") /\ identified
  /\ MemBuffer' = fram
  /\ mainPc' = "loop"
  /\ UNCHANGED <<busVars, identified, target, place, isr, want, doubt, requests, cards, cuts>>

FirstUse ==
  /\ MainAt("start") /\ ~identified
  /\ identified' = TRUE /\ mainPc' = "defaults"
  /\ UNCHANGED <<MemBuffer, busVars, target, place, isr, want, doubt, requests, cards, cuts>>

WriteDefaults ==
  /\ MainAt("defaults")
  /\ fram' = MemBuffer /\ mainPc' = "loop"
  /\ doubt' = {r \in Regions : MemBuffer[r] # want[r]}
  /\ UNCHANGED <<MemBuffer, identified, target, place, isr, wel, cs, want, requests, cards,
                 cuts>>

----------------------------------------------------------------------------
(* Requests, in the interrupt: MemBuffer first, and then a WriteMemory for  *)
(* each region, once the function for it is bound.                          *)

Bound == mainPc \notin {"start", "defaults"}
AllPlaces == [n \in 1 .. SUPPLIES_NUM |-> Supply(n - 1)]

Execute(changed, regions) ==
  /\ isr = <<>> /\ requests < MaxRequests
  /\ requests' = requests + 1
  /\ MemBuffer' = [r \in Regions |-> IF r \in DOMAIN changed THEN changed[r] ELSE MemBuffer[r]]
  /\ want' = [r \in Regions |-> IF r \in DOMAIN changed THEN changed[r] ELSE want[r]]
  /\ \/ Bound /\ isr' = regions /\ UNCHANGED doubt
     \/ ~Bound /\ isr' = <<>> /\ doubt' = doubt \cup DOMAIN changed
  /\ UNCHANGED <<busVars, identified, mainPc, target, place, cards, cuts>>

(* OP_UNIT_INFO: the supply, and its quantity, which a place without a      *)
(* supply does not have.                                                    *)
SetSupplies(i, uid) ==
  \/ /\ uid # 0
     /\ Execute([r \in {Supply(i), Quantity(i)} |-> IF r = Supply(i) THEN uid ELSE 0],
                <<Supply(i), Quantity(i)>>)
  \/ uid = 0 /\ Execute([r \in {Supply(i)} |-> 0], <<Supply(i)>>)

ClearAll == Execute([r \in Supplies |-> 0], AllPlaces)

(* OP_QUANTITY.                                                             *)
SetQuantityById(i, num) ==
  /\ MemBuffer[Supply(i)] # 0
  /\ Execute([r \in {Quantity(i)} |-> num], <<Quantity(i)>>)

(* What SetQuantity writes for a quantity is the supply's Uid.              *)
Stored(r) == IF r[1] = "quantity" THEN MemBuffer[Supply(r[2])] ELSE MemBuffer[r]

(* WriteMemory in the interrupt. When the main loop has the FRAM selected,  *)
(* the WREN is one more byte of its data, and the write is not taken.       *)
IsrWrite ==
  /\ isr # <<>>
  /\ isr' = Tail(isr) /\ cs' = FALSE /\ wel' = FALSE
  /\ LET r == Head(isr)
     IN \/ /\ ~cs
           /\ fram' = [fram EXCEPT ![r] = Stored(r)]
           /\ doubt' = (doubt \ {r}) \cup (IF mainPc = "begin" THEN {target} ELSE {})
        \/ /\ cs
           /\ fram' = IF wel THEN [fram EXCEPT ![target] = Torn] ELSE fram
           /\ doubt' = doubt \cup {r, target}
  /\ UNCHANGED <<MemBuffer, identified, mainPc, target, place, want, requests, cards, cuts>>

----------------------------------------------------------------------------
(* RfidChanged, in the main loop, for a card other than the one stored.     *)

NewCard(id) ==
  /\ MainAt("loop") /\ cards < MaxCards /\ id # MemBuffer[Card]
  /\ cards' = cards + 1
  /\ MemBuffer' = [MemBuffer EXCEPT ![Card] = id]
  /\ want' = [r \in Regions |-> IF r = Card THEN id ELSE IF r \in Supplies THEN 0 ELSE want[r]]
  /\ target' = Card /\ mainPc' = "access" /\ place' = 0
  /\ UNCHANGED <<busVars, identified, isr, doubt, requests, cuts>>

(* Faulty variant: WRDI for WREN.                                          *)
WriteAccessOff ==
  /\ MainAt("access")
  /\ wel' = FALSE /\ mainPc' = "begin"
  /\ UNCHANGED <<MemBuffer, fram, identified, target, place, isr, cs, want, doubt, requests,
                 cards, cuts>>

(* WriteAccess(1).                                                          *)
WriteAccess ==
  /\ MainAt("access")
  /\ wel' = TRUE /\ mainPc' = "begin"
  /\ UNCHANGED <<MemBuffer, fram, identified, target, place, isr, cs, want, doubt, requests,
                 cards, cuts>>

BeginTransaction ==
  /\ MainAt("begin")
  /\ cs' = TRUE /\ mainPc' = "end"
  /\ UNCHANGED <<MemBuffer, fram, identified, target, place, isr, wel, want, doubt, requests,
                 cards, cuts>>

(* Faulty variant: i <= SUPPLIES_NUM.                                      *)
NextPlacePast ==
  \/ place < SUPPLIES_NUM /\ place' = place + 1 /\ mainPc' = "remove"
  \/ place = SUPPLIES_NUM /\ place' = 0 /\ mainPc' = "loop"

NextPlace ==
  \/ place < SUPPLIES_NUM - 1 /\ place' = place + 1 /\ mainPc' = "remove"
  \/ place = SUPPLIES_NUM - 1 /\ place' = 0 /\ mainPc' = "loop"

(* The bytes are taken as they are in MemBuffer now, if the FRAM is still   *)
(* selected and takes a write.                                              *)
EndTransaction ==
  /\ MainAt("end")
  /\ cs' = FALSE /\ wel' = (wel /\ ~cs)
  /\ \/ cs /\ wel /\ fram' = [fram EXCEPT ![target] = MemBuffer[target]]
                  /\ doubt' = IF target = Card THEN doubt \ {Card} ELSE doubt
     \/ ~(cs /\ wel) /\ UNCHANGED <<fram, doubt>>
  /\ \/ target = Card /\ mainPc' = "remove" /\ UNCHANGED place
     \/ target # Card /\ NextPlace
  /\ UNCHANGED <<MemBuffer, identified, target, isr, want, requests, cards, cuts>>

(* RemoveAllSupplies at the next place.                                     *)
RemoveSupplies ==
  /\ MainAt("remove")
  /\ \/ /\ MemBuffer[Supply(place)] # 0
        /\ MemBuffer' = [MemBuffer EXCEPT ![Supply(place)] = 0]
        /\ doubt' = IF want[Supply(place)] = 0 THEN doubt \ {Supply(place)}
                                               ELSE doubt \cup {Supply(place)}
        /\ target' = Supply(place) /\ mainPc' = "access"
        /\ UNCHANGED place
     \/ /\ MemBuffer[Supply(place)] = 0
        /\ NextPlace
        /\ UNCHANGED <<MemBuffer, target, doubt>>
  /\ UNCHANGED <<busVars, identified, isr, want, requests, cards, cuts>>

----------------------------------------------------------------------------
(* What is being written, or is still to be written or removed.             *)
Unfinished ==
  {isr[n] : n \in DOMAIN isr}
  \cup (IF mainPc \in {"access", "begin", "end"} THEN {target} ELSE {})
  \cup (IF mainPc \in {"access", "begin", "end", "remove"}
          THEN {Supply(i) : i \in place .. SUPPLIES_NUM - 1} ELSE {})
  \cup (IF mainPc = "defaults" THEN Regions ELSE {})

(* The power is cut, and the unit starts anew.                              *)
PowerCut ==
  /\ cuts < MaxPowerCuts
  /\ cuts' = cuts + 1
  /\ \/ UNCHANGED fram
     \/ isr # <<>> /\ ~cs /\ fram' = [fram EXCEPT ![Head(isr)] = Torn]
     \/ cs /\ wel /\ fram' = [fram EXCEPT ![target] = Torn]
  /\ doubt' = doubt \cup Unfinished
  /\ MemBuffer' = [r \in Regions |-> 0]
  /\ mainPc' = "start" /\ target' = Card /\ place' = 0
  /\ isr' = <<>> /\ wel' = FALSE /\ cs' = FALSE
  /\ UNCHANGED <<identified, want, requests, cards>>

StoreNext ==
  \/ ReadBack \/ FirstUse \/ WriteDefaults
  \/ \E i \in Places, v \in Values : SetSupplies(i, v) \/ SetQuantityById(i, v)
  \/ ClearAll \/ IsrWrite
  \/ \E id \in Values \ {0} : NewCard(id)
  \/ WriteAccess \/ BeginTransaction \/ EndTransaction \/ RemoveSupplies
  \/ PowerCut

StoreSpec == StoreInit /\ [][StoreNext]_storeVars

----------------------------------------------------------------------------
(* The card and the supplies are what was last asked for, in MemBuffer and  *)
(* in the FRAM, through restarts, except for the regions for which one of   *)
(* the following happened since they were last written: the interrupt wrote *)
(* while the main loop had the FRAM selected or prepared (the main loop's   *)
(* region and the interrupt's); the power was cut before a write that was   *)
(* due; the request came before the FRAM was read; or a request set a       *)
(* supply while those of the last card were being removed.                  *)
StoreKept ==
  mainPc = "loop" /\ isr = <<>> =>
    \A r \in ({Card} \cup Supplies) \ doubt : MemBuffer[r] = want[r] /\ fram[r] = want[r]

=============================================================================
