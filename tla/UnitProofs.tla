------------------------------ MODULE UnitProofs ------------------------------
(***************************************************************************)
(* Proofs about the parts of a unit: LockTimer, for every wait and period; *)
(* NameFlash and UnitStore, for any number of places and any bounds on what*)
(* happens; NoticeBar; CardReport, for any cards; UnitCan, for any number  *)
(* of slots and entries of any length. That the lock is not on for too     *)
(* long, that names and supplies are kept and shown, also when the power   *)
(* fails, that the bar shows what is due, that the server gets to know the *)
(* card, and that entries reach the controller whole and in order.         *)
(***************************************************************************)
EXTENDS LockTimer, NameFlash, NoticeBar, UnitStore, CardReport, UnitCan, FiniteSetTheorems, TLAPS

(* The lock.                                                                *)

(* A lock that is on without a countdown was turned on after TIMER32_1 ran *)
(* last; one with a countdown has used up what the countdown has left of   *)
(* the wait and the period before it.                                      *)
Uncounted == locker /\ LockCount = LOCK_IDLE => onFor <= phase
Counted == Counting => onFor + LockCount <= LOCK_WAIT_MS + Period

OnTimeInv == LockTypeOK /\ Uncounted /\ Counted

LEMMA OnTimeStep == OnTimeInv /\ [LockNext]_lockVars => OnTimeInv'
<1> SUFFICES ASSUME OnTimeInv, [LockNext]_lockVars PROVE OnTimeInv'
  OBVIOUS
<1> USE LockAssumption DEF OnTimeInv, LockTypeOK, Uncounted, Counted, Counting
<1>0. LOCK_WAIT_MS \in Nat /\ Period \in Nat /\ LOCK_IDLE \in Nat /\ LOCK_IDLE > LOCK_WAIT_MS
      /\ LockCount \in Nat /\ phase \in Nat /\ onFor \in Nat /\ unlocked \in Nat
  OBVIOUS
<1>1. CASE Unlock
  BY <1>1 DEF Unlock
<1>2. CASE Lock
  BY <1>2 DEF Lock
<1>3. CASE DoorMoves
  BY <1>3 DEF DoorMoves
<1>4. CASE Timer0
  <2>1. phase' \in 0 .. Period /\ phase' = phase + 1 /\ unlocked' \in 0 .. LOCK_WAIT_MS
        /\ door' \in BOOLEAN /\ DoorState' \in BOOLEAN
    BY <1>0, <1>4 DEF Timer0
  <2>2. CASE Expires /\ locker' = FALSE /\ LockCount' = LOCK_IDLE /\ onFor' = 0
    BY <1>0, <2>1, <2>2
  <2>3. CASE Counting /\ ~Expires /\ LockCount' = LockCount - 1 /\ onFor' = onFor + 1
             /\ locker' = locker
    <3>1. LockCount \in 1 .. LOCK_WAIT_MS /\ LockCount # 1
      BY <2>3 DEF Expires
    <3>2. LockCount' \in 1 .. LOCK_WAIT_MS /\ LockCount' # LOCK_IDLE
      BY <1>0, <2>3, <3>1
    <3>3. onFor' + LockCount' <= LOCK_WAIT_MS + Period
      BY <1>0, <2>3, <3>1
    <3> QED
      BY <1>0, <2>1, <2>3, <3>2, <3>3
  <2>4. CASE ~Counting /\ onFor' = (IF locker THEN onFor + 1 ELSE 0)
             /\ UNCHANGED <<locker, LockCount>>
    BY <1>0, <2>1, <2>4
  <2> QED
    BY <1>4, <2>2, <2>3, <2>4 DEF Timer0
<1>5. CASE Timer1
  <2>1. phase = Period /\ phase' = 0 /\ phase' \in 0 .. Period /\ door' \in BOOLEAN /\ DoorState' \in BOOLEAN
        /\ unlocked' = unlocked
    BY <1>5 DEF Timer1
  <2>2. CASE locker' = FALSE /\ LockCount' = LOCK_IDLE /\ onFor' = 0
    <3>1. LockTypeOK'
      BY <1>0, <2>1, <2>2
    <3> QED
      BY <2>2, <3>1
  <2>3. CASE locker /\ UNCHANGED <<locker, onFor>>
             /\ LockCount' = IF LockCount = LOCK_IDLE THEN LOCK_WAIT_MS ELSE LockCount
    <3>1. LockCount' \in 1 .. LOCK_WAIT_MS
      BY <1>0, <2>3
    <3>2. onFor + LockCount' <= LOCK_WAIT_MS + Period
      BY <1>0, <2>1, <2>3
    <3> QED
      BY <1>0, <2>1, <2>3, <3>1, <3>2
  <2>4. CASE ~locker /\ UNCHANGED <<locker, LockCount, onFor>>
    BY <1>0, <2>1, <2>4
  <2> QED
    BY <1>5, <2>2, <2>3, <2>4 DEF Timer1
<1>6. CASE UNCHANGED lockVars
  BY <1>6 DEF lockVars
<1> QED
  BY <1>1, <1>2, <1>3, <1>4, <1>5, <1>6 DEF LockNext

LEMMA InitOnTime == LockInit => OnTimeInv
<1> SUFFICES ASSUME LockInit PROVE OnTimeInv
  OBVIOUS
<1>1. LockTypeOK
  <2>1. phase \in 0 .. Period /\ unlocked \in 0 .. LOCK_WAIT_MS /\ onFor \in Nat
    BY LockAssumption DEF LockInit
  <2>2. LockCount \in 1 .. LOCK_WAIT_MS \cup {LOCK_IDLE} /\ locker \in BOOLEAN
    BY DEF LockInit
  <2> QED
    BY <2>1, <2>2 DEF LockInit, LockTypeOK
<1> QED
  BY <1>1 DEF LockInit, OnTimeInv, Uncounted, Counted, Counting

(* Whatever the server commands, and whenever, the lock is on for less     *)
(* than the wait and one period.                                           *)
THEOREM OnTimeCorrect == LockSpec => []OnTimeBounded
<1>1. OnTimeInv => OnTimeBounded
  BY LockAssumption DEF OnTimeInv, LockTypeOK, Uncounted, Counted, Counting, OnTimeBounded
<1> QED
  BY <1>1, InitOnTime, OnTimeStep, PTL DEF LockSpec

(* LockCount, of 16 bits, stays within its wait: the decrement never wraps.*)
THEOREM TypeCorrect == LockSpec => []LockTypeOK
<1>1. OnTimeInv => LockTypeOK
  BY DEF OnTimeInv
<1> QED
  BY <1>1, InitOnTime, OnTimeStep, PTL DEF LockSpec

----------------------------------------------------------------------------
OpenInv == OnTimeInv /\ OpenMeansOff

(* A sampled open door and a lock that is on: only between an unlock       *)
(* command and the next TIMER32_1.                                         *)
THEOREM OpenCorrect == LockSpec => []OpenMeansOff
<1>1. LockInit => OpenInv
  BY InitOnTime DEF LockInit, OpenInv, OpenMeansOff
<1>2. OpenInv /\ [LockNext]_lockVars => OpenInv'
  <2> SUFFICES ASSUME OpenInv, [LockNext]_lockVars PROVE OpenMeansOff'
    BY OnTimeStep DEF OpenInv
  <2>0. phase \in Nat /\ unlocked \in Nat
    BY LockAssumption DEF OpenInv, OnTimeInv, LockTypeOK
  <2>1. CASE Unlock
    BY <2>0, <2>1 DEF Unlock, OpenMeansOff
  <2>2. CASE Lock \/ DoorMoves \/ UNCHANGED lockVars
    BY <2>2 DEF Lock, DoorMoves, lockVars, OpenInv, OpenMeansOff
  <2>3. CASE Timer0
    <3>1. phase' = phase + 1 /\ unlocked' <= unlocked + 1 /\ DoorState' = DoorState
      BY <2>0, <2>3 DEF Timer0
    <3>2. locker' => locker
      BY <2>3 DEF Timer0
    <3>3. unlocked' \in Nat
      BY <2>0, <2>3 DEF Timer0
    <3> QED
      BY <2>0, <3>1, <3>2, <3>3 DEF OpenInv, OpenMeansOff
  <2>4. CASE Timer1
    BY <2>4 DEF Timer1, OpenMeansOff
  <2> QED
    BY <2>1, <2>2, <2>3, <2>4 DEF LockNext
<1>3. OpenInv => OpenMeansOff
  BY DEF OpenInv
<1> QED
  BY <1>1, <1>2, <1>3, PTL DEF LockSpec

----------------------------------------------------------------------------
(* The names in flash.                                                      *)

(* Calls since the last power failure are among all calls.                  *)
FlashTyped == FlashTypeOK /\ since <= changes

(* What the two sectors hold at each step of a change while the power has   *)
(* never failed: the sector that is not being written shows every name but  *)
(* the one that changes, and the copied part of the other shows them too.   *)
Shows(sector, i) == Shown(sector[i]) = named[i]
OthersShown(sector) == \A i \in Places \ {index} : Shows(sector, i)
Alike(places) == \A i \in places : supplies[i] = backup[i]
Naming == source \in Names /\ named[index] = source

AtStep ==
  CASE flashPc = "idle" -> Alike(Places) /\ \A i \in Places : Shows(supplies, i)
    [] flashPc = "program" ->
         Naming /\ Alike(Places) /\ OthersShown(supplies) /\ supplies[index] = "blank"
    [] flashPc = "programBackup" ->
         /\ Naming /\ Alike(Places \ {index}) /\ OthersShown(supplies)
         /\ supplies[index] = source /\ backup[index] = "blank"
    [] flashPc = "erase" -> Naming /\ OthersShown(backup)
    [] flashPc = "copy" ->
         /\ Naming /\ OthersShown(backup)
         /\ \A i \in 0 .. copying - 1 : Shows(supplies, i)
         /\ \A i \in copying .. SUPPLIES_NUM - 1 : supplies[i] = "blank"
    [] flashPc = "eraseBackup" -> copying = 0 /\ \A i \in Places : Shows(supplies, i)
    [] flashPc = "copyBackup" ->
         Alike(0 .. copying - 1) /\ \A i \in Places : Shows(supplies, i)
    [] flashPc = "delete" -> named[index] = "none" /\ Alike(Places) /\ OthersShown(supplies)
    [] flashPc = "deleteBackup" ->
         /\ named[index] = "none" /\ Alike(Places \ {index}) /\ OthersShown(supplies)
         /\ supplies[index] = "deleted"

NamesInv ==
  /\ FlashTyped
  /\ failed = 0 => AtStep
  /\ failed = 1 /\ since = 0 => flashPc = "idle"
  /\ OneSectorHolds

LEMMA FlashTypeStep == FlashTyped /\ [FlashNext]_flashVars => FlashTyped'
<1> SUFFICES ASSUME FlashTyped, [FlashNext]_flashVars PROVE FlashTyped'
  OBVIOUS
<1> USE PlacesAssumption, FlashBoundAssumption DEF FlashTyped, FlashTypeOK, Places
<1>0. /\ Names \subseteq Pages /\ "blank" \in Pages /\ "deleted" \in Pages /\ "garbled" \in Pages
      /\ \A old, new \in Pages : Programmed(old, new) \in Pages
  BY DEF Pages, Programmed
<1>1. ASSUME NEW i \in Places, DeleteString(i) PROVE FlashTyped'
  BY <1>1 DEF DeleteString, Goto
<1>2. ASSUME NEW i \in Places, NEW name \in Names, ModifyString(i, name) PROVE FlashTyped'
  BY <1>2 DEF ModifyString, Goto
<1>3. CASE Program \/ ProgramBackup \/ Delete \/ DeleteBackup
  BY <1>0, <1>3 DEF Program, ProgramBackup, Delete, DeleteBackup, Goto
<1>4. CASE Erase \/ EraseBackup
  BY <1>0, <1>4 DEF Erase, EraseBackup, Goto
<1>5. CASE Copy \/ CopyBackup
  BY <1>0, <1>5 DEF Copy, CopyBackup, NextCopy, Goto
<1>6. CASE PowerFail
  <2>1. \A sector \in [Places -> Pages] : Garble(sector) \in [Places -> Pages]
    BY <1>0 DEF Garble
  <2> QED
    BY <1>6, <2>1 DEF PowerFail, Goto
<1>7. CASE UNCHANGED flashVars
  BY <1>7 DEF flashVars
<1> QED
  BY <1>1, <1>2, <1>3, <1>4, <1>5, <1>6, <1>7 DEF FlashNext, FlashStep

LEMMA InitNames == FlashInit => NamesInv
<1> SUFFICES ASSUME FlashInit PROVE NamesInv
  OBVIOUS
<1> USE PlacesAssumption, FlashBoundAssumption, NamesAssumption DEF FlashInit
<1>1. FlashTyped
  BY DEF FlashTyped, FlashTypeOK, Places, Pages
<1>2. AtStep /\ OneSectorHolds
  BY DEF AtStep, OneSectorHolds, Alike, Shows, Shown
<1> QED
  BY <1>1, <1>2 DEF NamesInv

(* While the power does not fail, each step finds the sectors as the one    *)
(* before has left them.                                                    *)
LEMMA StepByStep ==
  ASSUME NamesInv, FlashNext, ~PowerFail, failed = 0
  PROVE  AtStep'
<1> USE PlacesAssumption, NamesAssumption
        DEF NamesInv, FlashTyped, FlashTypeOK, Goto, Shows, Naming, Alike, OthersShown
<1>0. /\ AtStep /\ index \in Places /\ Places = 0 .. SUPPLIES_NUM - 1 /\ SUPPLIES_NUM \in Nat
      /\ supplies \in [Places -> Pages] /\ backup \in [Places -> Pages]
      /\ named \in [Places -> Names \cup {"none"}]
      /\ \A name \in Names : Shown(name) = name /\ name \notin {"blank", "deleted", "garbled"}
      /\ Shown("blank") = "none" /\ Shown("deleted") = "none"
  BY DEF Places, Shown
<1>1. ASSUME NEW i \in Places, DeleteString(i) PROVE AtStep'
  <2>1. /\ Alike(Places) /\ \A j \in Places : Shows(supplies, j)
        /\ index' = i /\ named' = [named EXCEPT ![i] = "none"]
        /\ UNCHANGED <<supplies, backup>>
    BY <1>0, <1>1 DEF DeleteString, AtStep
  <2>2. CASE supplies[i] \in {"blank", "deleted"} /\ UNCHANGED flashPc
    BY <1>0, <1>1, <2>1, <2>2 DEF AtStep, DeleteString
  <2>3. CASE flashPc' = "delete"
    BY <1>0, <2>1, <2>3 DEF AtStep
  <2> QED
    BY <1>1, <2>2, <2>3 DEF DeleteString
<1>2. ASSUME NEW i \in Places, NEW name \in Names, ModifyString(i, name) PROVE AtStep'
  <2>1. /\ Alike(Places) /\ \A j \in Places : Shows(supplies, j)
        /\ index' = i /\ source' = name /\ named' = [named EXCEPT ![i] = name]
        /\ UNCHANGED <<supplies, backup>>
    BY <1>0, <1>2 DEF ModifyString, AtStep
  <2>2. Naming' /\ OthersShown(supplies)' /\ OthersShown(backup)'
    BY <1>0, <2>1
  <2> QED
    BY <1>0, <1>2, <2>1, <2>2, ZenonT(60) DEF ModifyString, AtStep
<1>3. CASE Program
  BY <1>0, <1>3, SMTT(30) DEF Program, AtStep, Programmed
<1>4. CASE ProgramBackup
  BY <1>0, <1>4 DEF ProgramBackup, AtStep, Programmed
<1>5. CASE Erase
  BY <1>0, <1>5 DEF Erase, AtStep
<1>6. CASE Copy
  <2>1. /\ Naming /\ OthersShown(backup)
        /\ \A i \in 0 .. copying - 1 : Shows(supplies, i)
        /\ \A i \in copying .. SUPPLIES_NUM - 1 : supplies[i] = "blank"
    BY <1>0, <1>6 DEF Copy, AtStep
  <2>2. Naming' /\ OthersShown(backup)'
    BY <1>6, <2>1 DEF Copy
  <2>3. Shown(supplies'[copying]) = named'[copying]
    <3>1. supplies'[copying] = IF copying = index THEN source
                               ELSE IF backup[copying] = "deleted" THEN supplies[copying]
                               ELSE backup[copying]
      BY <1>0, <1>6 DEF Copy
    <3>2. supplies[copying] = "blank"
      BY <1>0, <2>1
    <3> QED
      BY <1>0, <1>6, <2>1, <3>1, <3>2 DEF Copy
  <2>4. \A i \in Places \ {copying} : supplies'[i] = supplies[i]
    BY <1>0, <1>6 DEF Copy
  <2>5. \A i \in 0 .. copying : Shows(supplies, i)'
    BY <1>0, <1>6, <2>1, <2>3, <2>4 DEF Copy, Places
  <2>6. \A i \in copying + 1 .. SUPPLIES_NUM - 1 : supplies'[i] = "blank"
    BY <1>0, <1>6, <2>1, <2>4 DEF Places
  <2>7. CASE copying < SUPPLIES_NUM - 1 /\ copying' = copying + 1 /\ flashPc' = "copy"
    BY <1>0, <2>2, <2>5, <2>6, <2>7 DEF AtStep
  <2>8. CASE copying = SUPPLIES_NUM - 1 /\ copying' = 0 /\ flashPc' = "eraseBackup"
    BY <1>0, <2>2, <2>5, <2>8 DEF AtStep
  <2> QED
    BY <1>6, <2>7, <2>8 DEF Copy, NextCopy
<1>7. CASE EraseBackup
  BY <1>0, <1>7 DEF EraseBackup, AtStep
<1>8. CASE CopyBackup
  <2>1. Alike(0 .. copying - 1) /\ \A i \in Places : Shows(supplies, i)
    BY <1>0, <1>8 DEF CopyBackup, AtStep
  <2>2. \A i \in Places : Shows(supplies, i)'
    BY <1>8, <2>1 DEF CopyBackup
  <2>3. \A i \in 0 .. copying : supplies'[i] = backup'[i]
    BY <1>0, <1>8, <2>1 DEF CopyBackup
  <2>4. CASE copying < SUPPLIES_NUM - 1 /\ copying' = copying + 1 /\ flashPc' = "copyBackup"
    BY <1>0, <2>2, <2>3, <2>4 DEF AtStep
  <2>5. CASE copying = SUPPLIES_NUM - 1 /\ copying' = 0 /\ flashPc' = "idle"
    BY <1>0, <2>2, <2>3, <2>5 DEF AtStep
  <2> QED
    BY <1>8, <2>4, <2>5 DEF CopyBackup, NextCopy
<1>9. CASE Delete
  BY <1>0, <1>9 DEF Delete, AtStep
<1>10. CASE DeleteBackup
  BY <1>0, <1>10 DEF DeleteBackup, AtStep
<1> QED
  BY <1>1, <1>2, <1>3, <1>4, <1>5, <1>6, <1>7, <1>8, <1>9, <1>10 DEF FlashNext, FlashStep

(* Wherever the power fails, the sector that is not being written holds the *)
(* names of the other places.                                               *)
LEMMA FirstFailure ==
  ASSUME NamesInv, PowerFail, failed = 0
  PROVE  OneSectorHolds'
<1> USE NamesAssumption
        DEF NamesInv, FlashTyped, FlashTypeOK, Shows, Alike, OthersShown
<1>0. /\ AtStep /\ index \in Places /\ index' = index /\ named' = named
      /\ \A i \in Places \ Busy : Garble(supplies)[i] = supplies[i] /\ Garble(backup)[i] = backup[i]
  BY DEF PowerFail, Garble
<1>1. CASE AtBackup
  <2>1. OthersShown(supplies) /\ supplies' = supplies
    BY <1>0, <1>1 DEF AtBackup, AtStep, PowerFail
  <2> QED
    BY <1>0, <2>1 DEF OneSectorHolds
<1>2. CASE ~AtBackup
  <2>1. OthersShown(backup) /\ backup' = backup
    BY <1>0, <1>2 DEF AtBackup, AtStep, PowerFail
  <2> QED
    BY <1>0, <2>1 DEF OneSectorHolds
<1> QED
  BY <1>1, <1>2

LEMMA NamesStep == NamesInv /\ [FlashNext]_flashVars => NamesInv'
<1> SUFFICES ASSUME NamesInv, [FlashNext]_flashVars PROVE NamesInv'
  OBVIOUS
<1>0. FlashTyped'
  BY FlashTypeStep DEF NamesInv
<1>1. CASE UNCHANGED flashVars
  BY <1>0, <1>1 DEF flashVars, NamesInv, AtStep, OneSectorHolds, Shows, Alike, OthersShown, Naming
<1>2. CASE PowerFail
  <2>1. failed \in Nat /\ failed' = failed + 1 /\ flashPc' = "idle"
    BY <1>2, FlashBoundAssumption DEF PowerFail, Goto, NamesInv, FlashTyped, FlashTypeOK
  <2>2. failed' = 1 => OneSectorHolds'
    BY <1>2, <2>1, FirstFailure
  <2> QED
    BY <1>0, <2>1, <2>2 DEF NamesInv, OneSectorHolds
<1>3. CASE FlashNext /\ ~PowerFail
  <2>1. failed' = failed
    BY <1>3 DEF FlashNext, FlashStep, DeleteString, ModifyString, Program, ProgramBackup, Erase,
                Copy, EraseBackup, CopyBackup, Delete, DeleteBackup
  <2>2. failed = 0 => AtStep'
    BY <1>3, StepByStep
  <2>3. ~(failed' = 1 /\ since' = 0)
    <3> SUFFICES ASSUME failed = 1, since' = 0 PROVE FALSE
      BY <2>1
    <3>1. since \in Nat
      BY FlashBoundAssumption DEF NamesInv, FlashTyped, FlashTypeOK
    <3>2. CASE \E i \in Places : DeleteString(i) \/ \E name \in Names : ModifyString(i, name)
      BY <3>1, <3>2 DEF DeleteString, ModifyString
    <3>3. CASE FlashStep
      BY <3>3 DEF NamesInv, FlashStep, Program, ProgramBackup, Erase, Copy, EraseBackup,
                  CopyBackup, Delete, DeleteBackup
    <3> QED
      BY <1>3, <3>2, <3>3 DEF FlashNext
  <2> QED
    BY <1>0, <2>1, <2>2, <2>3 DEF NamesInv, OneSectorHolds
<1> QED
  BY <1>1, <1>2, <1>3

(* Through any sequence of settings, changes and deletions without a power  *)
(* failure both sectors show the names the controller has set.              *)
THEOREM NamesCorrect == FlashSpec => []NamesShown
<1>1. NamesInv => NamesShown
  BY DEF NamesInv, AtStep, NamesShown, Shows, Alike
<1> QED
  BY <1>1, InitNames, NamesStep, PTL DEF FlashSpec

(* After one power failure, at whatever step, no other name is lost from    *)
(* both sectors.                                                            *)
THEOREM OneSectorCorrect == FlashSpec => []OneSectorHolds
<1>1. NamesInv => OneSectorHolds
  BY DEF NamesInv
<1> QED
  BY <1>1, InitNames, NamesStep, PTL DEF FlashSpec

----------------------------------------------------------------------------
(* The bar of notices.                                                      *)

(* In a call of the main loop that no interrupt has drawn in, the part of   *)
(* the bar that it does not draw already shows what is due, and the rest    *)
(* does when it has been filled; a disturbed call leaves nothing sure. The  *)
(* timer's text changes the background only where the call is going to set  *)
(* it or has used it. Turning the display on or off leaves the bar as it is. *)
Undisturbed ==
  /\ command # "clear" => exColor = command
  /\ currentState /\ "left" \notin unsure => bar["left"] = "green"
  /\ noticePc # "choose" =>
       /\ region = Region
       /\ color = IF command # "clear" THEN command ELSE IF currentState THEN "green" ELSE "clear"
  /\ noticePc = "fill" => background = color
  /\ noticePc \in {"reset", "forget"} => \A h \in region : bar[h] = color

AsDue == \A h \in Halves \ unsure : bar[h] = Due(h)

NoticeInv ==
  /\ NoticeTypeOK /\ NoticeShown
  /\ noticePc # "idle" =>
       IF disturbed THEN unsure = Halves ELSE IF noticePc = "power" THEN AsDue ELSE Undisturbed

LEMMA NoticeTypeStep == NoticeTypeOK /\ [NoticeNext]_noticeVars => NoticeTypeOK'
<1> SUFFICES ASSUME NoticeTypeOK, [NoticeNext]_noticeVars PROVE NoticeTypeOK'
  OBVIOUS
<1> USE NoticeAssumption DEF NoticeTypeOK, Colors, Exceptions, Halves, Drawing
<1>0. ASSUME NEW halves, NEW c \in Colors PROVE Filled(halves, c) \in [Halves -> Colors]
  BY DEF Filled
<1>1. ASSUME NEW c \in Exceptions \cup {"clear"}, Update(c) PROVE NoticeTypeOK'
  <2>1. notices' \in 0 .. MaxNotices
    BY <1>1 DEF Update
  <2> QED
    BY <1>1, <2>1, Zenon DEF Update
<1>2. CASE Choose \/ Finish
  BY <1>2, ZenonT(60) DEF Choose, Finish, Region
<1>3. CASE SetColor \/ ClearRegion \/ ResetColor
  <2>1. Filled(region, background) \in [Halves -> Colors] /\ "clear" \in Colors
    BY <1>0
  <2>2. background' \in Colors /\ bar' \in [Halves -> Colors]
    BY <1>3, <2>1 DEF SetColor, ClearRegion, ResetColor, Mixed
  <2> QED
    BY <1>3, <2>2, Zenon DEF SetColor, ClearRegion, ResetColor
<1>4. ASSUME NEW c \in Colors, NEW halves \in SUBSET Halves, Draw(c, halves)
      PROVE  bar' \in [Halves -> Colors] /\ background' \in Colors
             /\ disturbed' \in BOOLEAN /\ unsure' \in SUBSET Halves
  <2>1. Filled(halves, c) \in [Halves -> Colors]
    BY <1>0
  <2> QED
    BY <1>4, <2>1 DEF Draw, Mixed
<1>5. CASE Guide
  <2>1. notices' \in 0 .. MaxNotices
    BY <1>5 DEF Guide
  <2> QED
    BY <1>4, <1>5, <2>1 DEF Guide
<1>6. CASE ClearInfo
  <2>1. notices' \in 0 .. MaxNotices
    BY <1>6 DEF ClearInfo
  <2>2. exColor \in Colors /\ (IF exColor = "clear" THEN Halves ELSE {"left"}) \in SUBSET Halves
    OBVIOUS
  <2>3. Draw(exColor, IF exColor = "clear" THEN Halves ELSE {"left"})
    BY <1>6 DEF ClearInfo
  <2>4. /\ bar' \in [Halves -> Colors] /\ background' \in Colors
        /\ disturbed' \in BOOLEAN /\ unsure' \in SUBSET Halves
    BY <1>4, <2>2, <2>3
  <2> QED
    BY <1>6, <2>1, <2>4 DEF ClearInfo
<1>7. CASE DisplayOnOff \/ OnOffSent
  BY <1>7 DEF DisplayOnOff, OnOffSent, AnyShown, Mixed
<1>8. CASE UpdateDisplay
  BY <1>8 DEF UpdateDisplay, Mixed
<1>9. CASE UNCHANGED noticeVars
  BY <1>9 DEF noticeVars
<1> QED
  BY <1>1, <1>2, <1>3, <1>5, <1>6, <1>7, <1>8, <1>9 DEF NoticeNext

LEMMA NoticeStep == NoticeInv /\ [NoticeNext]_noticeVars => NoticeInv'
<1> SUFFICES ASSUME NoticeInv, [NoticeNext]_noticeVars PROVE NoticeInv'
  OBVIOUS
<1>0. NoticeTypeOK'
  BY NoticeTypeStep DEF NoticeInv
<1> USE DEF NoticeInv, NoticeTypeOK, NoticeShown, AsDue, Undisturbed, Due, Exceptions, Halves, Region,
            Drawing
<1>1. ASSUME NEW c \in Exceptions \cup {"clear"}, Update(c) PROVE NoticeInv'
  BY <1>0, <1>1 DEF Update
<1>2. CASE Choose
  BY <1>0, <1>2 DEF Choose
<1>3. CASE SetColor
  BY <1>0, <1>3 DEF SetColor
<1>4. CASE ClearRegion
  BY <1>0, <1>4 DEF ClearRegion, Filled
<1>5. CASE ResetColor
  BY <1>0, <1>5 DEF ResetColor
<1>6. CASE Finish
  BY <1>0, <1>6 DEF Finish
<1>7. CASE Guide
  BY <1>0, <1>7 DEF Guide, Draw, Filled
<1>8. CASE ClearInfo
  BY <1>0, <1>8 DEF ClearInfo, Draw, Filled
<1>9. CASE DisplayOnOff \/ OnOffSent
  BY <1>0, <1>9 DEF DisplayOnOff, OnOffSent
<1>10. CASE UpdateDisplay
  BY <1>0, <1>10 DEF UpdateDisplay
<1>11. CASE UNCHANGED noticeVars
  BY <1>0, <1>11 DEF noticeVars
<1> QED
  BY <1>1, <1>2, <1>3, <1>4, <1>5, <1>6, <1>7, <1>8, <1>9, <1>10, <1>11 DEF NoticeNext

(* Each half of the bar that is not in doubt shows, between two calls, what *)
(* the guide and the exception ask for, in whatever order they came and     *)
(* wherever the text of the timer interrupt was drawn.                      *)
THEOREM NoticeCorrect == NoticeSpec => []NoticeShown
<1>1. NoticeInit => NoticeInv
  <2> SUFFICES ASSUME NoticeInit PROVE NoticeInv
    OBVIOUS
  <2>1. NoticeTypeOK
    <3>1. bar \in [Halves -> Colors]
      BY DEF NoticeInit, Colors
    <3>2. notices \in 0 .. MaxNotices
      BY NoticeAssumption DEF NoticeInit
    <3> QED
      BY <3>1, <3>2 DEF NoticeInit, NoticeTypeOK, Exceptions, Colors, Halves
  <2> QED
    BY <2>1 DEF NoticeInit, NoticeInv, NoticeShown, Due
<1>2. NoticeInv => NoticeShown
  BY DEF NoticeInv
<1> QED
  BY <1>1, <1>2, NoticeStep, PTL DEF NoticeSpec

----------------------------------------------------------------------------
(* The data of the unit in FRAM.                                            *)

Kept == {Card} \cup Supplies
Accessing == mainPc \in {"access", "begin", "end"}

(* The main loop's write will still be taken.                              *)
Writing == mainPc = "access" \/ (mainPc = "begin" /\ wel) \/ (mainPc = "end" /\ cs /\ wel)

(* Supplies of the last card that the main loop has still to remove.        *)
ToRemove ==
  {Supply(i) : i \in {j \in Places :
     \/ Accessing /\ (target = Card \/ place < j)
     \/ mainPc = "remove" /\ place <= j}}

(* A region that is not in doubt is right in the FRAM at the start; later   *)
(* it is right in MemBuffer unless it is to be removed, and the FRAM has    *)
(* what MemBuffer has unless one of the two writers has it still to write.  *)
Right(r) ==
  /\ mainPc = "start" /\ identified => fram[r] = want[r]
  /\ Bound => /\ MemBuffer[r] = want[r] \/ (r \in ToRemove /\ want[r] = 0)
              /\ \/ fram[r] = MemBuffer[r]
                 \/ \E n \in DOMAIN isr : isr[n] = r
                 \/ Writing /\ r = target

(* What the main loop writes is its target, what the interrupt writes is    *)
(* asked for.                                                               *)
Writers ==
  /\ isr # <<>> => Bound
  /\ \A n \in DOMAIN isr : isr[n] \in Kept => MemBuffer[isr[n]] = want[isr[n]]
  /\ cs => mainPc = "end"
  /\ Accessing => \/ target = Card /\ place = 0 /\ MemBuffer[Card] = want[Card]
                  \/ target = Supply(place)

StoreInv == StoreTypeOK /\ Writers /\ \A r \in Kept \ doubt : Right(r)

LEMMA RegionsDiffer ==
  /\ Card \in Regions /\ Card \notin Supplies /\ Kept \subseteq Regions
  /\ \A i \in Places : /\ Supply(i) \in Supplies /\ Supply(i) \in Regions /\ Quantity(i) \in Regions
                       /\ Quantity(i) \notin Kept /\ Supply(i) # Card
  /\ \A i, j \in Places : Supply(i) = Supply(j) => i = j
  /\ \A r \in Kept : Stored(r) = MemBuffer[r]
  /\ \A i \in Places : Stored(Quantity(i)) = MemBuffer[Supply(i)]
  /\ \A r \in Regions : r \in Kept \/ \E i \in Places : r = Quantity(i)
BY DEF Card, Supply, Quantity, Kept, Supplies, Regions, Stored

(* The place of RemoveAllSupplies moves on, or the loop is reached.         *)
LEMMA PlaceMoves ==
  ASSUME place \in Places, NextPlace
  PROVE  /\ place' \in Places
         /\ \/ /\ mainPc' = "remove" /\ place' = place + 1
               /\ \A j \in Places : place' <= j <=> place < j
            \/ mainPc' = "loop" /\ \A j \in Places : ~(place < j)
BY PlacesAssumption DEF NextPlace, Places

LEMMA ExecuteType ==
  ASSUME StoreTypeOK, NEW dom \in SUBSET Regions, NEW changed \in [dom -> Contents],
         NEW regions \in Seq(Regions), Execute(changed, regions)
  PROVE  StoreTypeOK'
<1>1. requests' \in 0 .. MaxRequests
  BY StoreAssumption DEF Execute, StoreTypeOK
<1>2. DOMAIN changed = dom /\ \A r \in dom : changed[r] \in Contents
  OBVIOUS
<1>3. MemBuffer' \in [Regions -> Contents] /\ want' \in [Regions -> Contents]
  BY <1>2 DEF Execute, StoreTypeOK
<1>4. isr' \in Seq(Regions) /\ doubt' \subseteq Regions
  BY <1>2 DEF Execute, StoreTypeOK
<1> QED
  BY <1>1, <1>3, <1>4 DEF Execute, StoreTypeOK, busVars

LEMMA SupplyRequests ==
  ASSUME NEW i \in Places, NEW v \in Values,
         SetSupplies(i, v) \/ SetQuantityById(i, v) \/ ClearAll
  PROVE  \E dom \in SUBSET Regions : \E changed \in [dom -> Contents], regions \in Seq(Regions) :
           /\ Execute(changed, regions)
           /\ \A r \in Kept : r \in dom <=> \E n \in DOMAIN regions : regions[n] = r
<1> USE RegionsDiffer, StoreAssumption DEF Contents
<1>1. CASE SetSupplies(i, v) /\ v # 0
  <2> DEFINE dom == {Supply(i), Quantity(i)}
             changed == [r \in dom |-> IF r = Supply(i) THEN v ELSE 0]
             regions == <<Supply(i), Quantity(i)>>
  <2>1. Execute(changed, regions)
    BY <1>1 DEF SetSupplies
  <2>2. dom \in SUBSET Regions /\ changed \in [dom -> Contents] /\ regions \in Seq(Regions)
    OBVIOUS
  <2>3. \A r \in Kept : r \in dom <=> \E n \in DOMAIN regions : regions[n] = r
    <3>1. DOMAIN regions = {1, 2} /\ regions[1] = Supply(i) /\ regions[2] = Quantity(i)
      OBVIOUS
    <3> HIDE DEF regions
    <3> QED
      BY <3>1
  <2> HIDE DEF dom, changed, regions
  <2> QED
    BY <2>1, <2>2, <2>3
<1>2. CASE SetSupplies(i, v) /\ v = 0
  <2> DEFINE dom == {Supply(i)}
             changed == [r \in dom |-> 0]
             regions == <<Supply(i)>>
  <2>1. Execute(changed, regions)
    BY <1>2 DEF SetSupplies
  <2>2. dom \in SUBSET Regions /\ changed \in [dom -> Contents] /\ regions \in Seq(Regions)
    OBVIOUS
  <2>3. \A r \in Kept : r \in dom <=> \E n \in DOMAIN regions : regions[n] = r
    <3>1. DOMAIN regions = {1} /\ regions[1] = Supply(i)
      OBVIOUS
    <3> HIDE DEF regions
    <3> QED
      BY <3>1
  <2> HIDE DEF dom, changed, regions
  <2> QED
    BY <2>1, <2>2, <2>3
<1>3. CASE SetQuantityById(i, v)
  <2> DEFINE dom == {Quantity(i)}
             changed == [r \in dom |-> v]
             regions == <<Quantity(i)>>
  <2>1. Execute(changed, regions)
    BY <1>3 DEF SetQuantityById
  <2>2. dom \in SUBSET Regions /\ changed \in [dom -> Contents] /\ regions \in Seq(Regions)
    OBVIOUS
  <2>3. \A r \in Kept : r \in dom <=> \E n \in DOMAIN regions : regions[n] = r
    <3>1. DOMAIN regions = {1} /\ regions[1] = Quantity(i)
      OBVIOUS
    <3> HIDE DEF regions
    <3> QED
      BY <3>1
  <2> HIDE DEF dom, changed, regions
  <2> QED
    BY <2>1, <2>2, <2>3
<1>4. CASE ClearAll
  <2> DEFINE dom == Supplies
             changed == [r \in dom |-> 0]
             regions == AllPlaces
  <2>1. Execute(changed, regions)
    BY <1>4 DEF ClearAll
  <2>2. SUPPLIES_NUM \in Nat /\ \A n \in 1 .. SUPPLIES_NUM : n - 1 \in Places
    BY PlacesAssumption DEF Places
  <2>3. regions \in Seq(Regions) /\ DOMAIN regions = 1 .. SUPPLIES_NUM
        /\ \A n \in 1 .. SUPPLIES_NUM : regions[n] = Supply(n - 1)
    BY <2>2 DEF AllPlaces
  <2>4. dom \in SUBSET Regions /\ changed \in [dom -> Contents]
    BY DEF Kept
  <2>5. \A r \in Kept : r \in dom <=> \E n \in DOMAIN regions : regions[n] = r
    <3> HIDE DEF regions
    <3>1. ASSUME NEW r \in Supplies PROVE \E n \in DOMAIN regions : regions[n] = r
      <4>1. PICK j \in Places : r = Supply(j)
        BY DEF Supplies
      <4>2. j + 1 \in 1 .. SUPPLIES_NUM /\ (j + 1) - 1 = j
        BY PlacesAssumption DEF Places
      <4> QED
        BY <4>1, <4>2, <2>3
    <3> QED
      BY <3>1, <2>2, <2>3
  <2> HIDE DEF dom, changed, regions
  <2> QED
    BY <2>1, <2>3, <2>4, <2>5, ZenonT(60)
<1> QED
  BY <1>1, <1>2, <1>3, <1>4

LEMMA StoreTypeStep == StoreTypeOK /\ [StoreNext]_storeVars => StoreTypeOK'
<1> SUFFICES ASSUME StoreTypeOK, [StoreNext]_storeVars PROVE StoreTypeOK'
  OBVIOUS
<1> USE StoreAssumption, PlacesAssumption, RegionsDiffer DEF busVars
<1>1. ASSUME NEW i \in Places, NEW v \in Values,
             SetSupplies(i, v) \/ SetQuantityById(i, v) \/ ClearAll
      PROVE  StoreTypeOK'
  BY <1>1, SupplyRequests, ExecuteType
<1>2. 0 \in Places
  BY DEF Places
<1> USE DEF StoreTypeOK, MainAt, Contents
<1>3. CASE ReadBack \/ FirstUse \/ WriteDefaults
  BY <1>3 DEF ReadBack, FirstUse, WriteDefaults
<1>4. CASE IsrWrite
  <2>1. Head(isr) \in Regions /\ Tail(isr) \in Seq(Regions)
    BY <1>4 DEF IsrWrite
  <2>2. Stored(Head(isr)) \in Contents
    BY <2>1
  <2>3. fram' \in [Regions -> Contents] /\ doubt' \subseteq Regions
    BY <1>4, <2>1, <2>2 DEF IsrWrite
  <2> QED
    BY <1>4, <2>1, <2>3 DEF IsrWrite
<1>5. ASSUME NEW id \in Values, NewCard(id) PROVE StoreTypeOK'
  <2>1. cards' \in 0 .. MaxCards
    BY <1>5 DEF NewCard
  <2> QED
    BY <1>2, <1>5, <2>1 DEF NewCard
<1>6. CASE WriteAccess \/ BeginTransaction
  BY <1>6 DEF WriteAccess, BeginTransaction
<1>7. CASE EndTransaction
  <2>1. place' \in Places /\ mainPc' \in {"remove", "loop"}
    BY <1>7, PlaceMoves DEF EndTransaction
  <2>2. fram' \in [Regions -> Contents] /\ doubt' \subseteq Regions
    BY <1>7 DEF EndTransaction
  <2> QED
    BY <1>7, <2>1, <2>2 DEF EndTransaction
<1>8. CASE RemoveSupplies
  <2>1. place' \in Places /\ mainPc' \in {"access", "remove", "loop"}
    BY <1>8, PlaceMoves DEF RemoveSupplies
  <2>2. MemBuffer' \in [Regions -> Contents] /\ target' \in Regions /\ doubt' \subseteq Regions
    BY <1>8 DEF RemoveSupplies
  <2> QED
    BY <1>8, <2>1, <2>2 DEF RemoveSupplies
<1>9. CASE PowerCut
  <2>1. cuts' \in 0 .. MaxPowerCuts
    BY <1>9 DEF PowerCut
  <2>2. Unfinished \subseteq Regions
    BY DEF Unfinished, Places
  <2>3. fram' \in [Regions -> Contents]
    BY <1>9 DEF PowerCut
  <2>4. MemBuffer' \in [Regions -> Contents] /\ doubt' \subseteq Regions
    BY <1>9, <2>2 DEF PowerCut
  <2>5. isr' \in Seq(Regions) /\ wel' \in BOOLEAN /\ cs' \in BOOLEAN
    <3>1. <<>> \in Seq(Regions)
      OBVIOUS
    <3>2. isr' = <<>> /\ wel' = FALSE /\ cs' = FALSE
      BY <1>9 DEF PowerCut
    <3> QED
      BY <3>1, <3>2, Zenon
  <2>6. mainPc' = "start" /\ target' \in Regions /\ place' \in Places
    BY <1>2, <1>9 DEF PowerCut
  <2> QED
    BY <1>9, <2>1, <2>3, <2>4, <2>5, <2>6 DEF PowerCut
<1>10. CASE UNCHANGED storeVars
  BY <1>10 DEF storeVars
<1> QED
  BY <1>1, <1>2, <1>3, <1>4, <1>5, <1>6, <1>7, <1>8, <1>9, <1>10 DEF StoreNext

LEMMA ExecuteStep ==
  ASSUME StoreInv, StoreTypeOK', NEW dom \in SUBSET Regions, NEW changed \in [dom -> Contents],
         NEW regions \in Seq(Regions), Execute(changed, regions),
         \A r \in Kept : r \in dom <=> \E n \in DOMAIN regions : regions[n] = r
  PROVE  StoreInv'
<1> USE DEF StoreInv
<1>1. /\ isr = <<>> /\ DOMAIN changed = dom /\ DOMAIN isr = {}
      /\ UNCHANGED <<fram, wel, cs, identified, mainPc, target, place>>
      /\ \A r \in Regions : /\ MemBuffer'[r] = IF r \in dom THEN changed[r] ELSE MemBuffer[r]
                            /\ want'[r] = IF r \in dom THEN changed[r] ELSE want[r]
      /\ \/ Bound /\ isr' = regions /\ doubt' = doubt
         \/ ~Bound /\ isr' = <<>> /\ doubt' = doubt \cup dom
  BY DEF Execute, busVars
<1>2. Bound' = Bound /\ Accessing' = Accessing /\ Writing' = Writing /\ ToRemove' = ToRemove
  BY <1>1 DEF Bound, Accessing, Writing, ToRemove
<1>3. Writers'
  <2>1. \A n \in DOMAIN isr' : isr'[n] \in Kept => MemBuffer'[isr'[n]] = want'[isr'[n]]
    BY <1>1, RegionsDiffer
  <2>2. isr' # <<>> => Bound'
    BY <1>1, <1>2
  <2>3. Card \in Regions
    BY RegionsDiffer
  <2> QED
    BY <1>1, <1>2, <2>1, <2>2, <2>3 DEF Writers
<1>4. ASSUME NEW r \in Kept \ doubt' PROVE Right(r)'
  <2>1. r \in Regions /\ r \in Kept \ doubt /\ Right(r)
    BY <1>1, RegionsDiffer
  <2>2. CASE r \in dom
    BY <1>1, <1>2, <2>1, <2>2 DEF Right, Bound
  <2>3. CASE r \notin dom
    BY <1>1, <1>2, <2>1, <2>3 DEF Right, Bound
  <2> QED
    BY <2>2, <2>3
<1> QED
  BY <1>3, <1>4

LEMMA StoreStep == StoreInv /\ [StoreNext]_storeVars => StoreInv'
<1> SUFFICES ASSUME StoreInv, [StoreNext]_storeVars PROVE StoreInv'
  OBVIOUS
<1>0. StoreTypeOK'
  BY StoreTypeStep DEF StoreInv
<1>1. ASSUME NEW i \in Places, NEW v \in Values,
             SetSupplies(i, v) \/ SetQuantityById(i, v) \/ ClearAll
      PROVE  StoreInv'
  BY <1>0, <1>1, SupplyRequests, ExecuteStep
<1> USE DEF StoreInv
<1> SUFFICES ASSUME ~\E i \in Places, v \in Values :
                       SetSupplies(i, v) \/ SetQuantityById(i, v) \/ ClearAll
             PROVE  Writers' /\ \A r \in Kept \ doubt' : Right(r)'
  BY <1>0, <1>1
<1> USE DEF busVars, MainAt, Writers, Right, Bound, Accessing, Writing
<1>2. ASSUME isr = <<>>, isr' = isr PROVE DOMAIN isr = {} /\ DOMAIN isr' = {}
  BY <1>2
<1>3. CASE ReadBack
  BY <1>2, <1>3, RegionsDiffer DEF ReadBack, StoreTypeOK
<1>4. CASE FirstUse
  BY <1>2, <1>4 DEF FirstUse
<1>5. CASE WriteDefaults
  BY <1>2, <1>5, RegionsDiffer DEF WriteDefaults, StoreTypeOK
<1>6. CASE IsrWrite
  <2> DEFINE h == Head(isr)
  <2>1. /\ isr # <<>> /\ isr \in Seq(Regions) /\ isr' = Tail(isr)
        /\ UNCHANGED <<MemBuffer, identified, mainPc, target, place, want>>
        /\ cs' = FALSE /\ wel' = FALSE
    BY <1>6 DEF IsrWrite, StoreTypeOK
  <2>2. /\ h \in Regions /\ h = isr[1] /\ 1 \in DOMAIN isr
        /\ \A n \in DOMAIN isr' : n + 1 \in DOMAIN isr /\ isr'[n] = isr[n + 1]
        /\ \A n \in DOMAIN isr : n = 1 \/ (n - 1 \in DOMAIN isr' /\ isr'[n - 1] = isr[n])
    BY <2>1
  <2>3. /\ h \in Kept => Stored(h) = MemBuffer[h] /\ MemBuffer[h] = want[h]
        /\ fram \in [Regions -> Contents] /\ target \in Regions
    BY <2>1, <2>2, RegionsDiffer DEF StoreTypeOK
  <2>4. \/ ~cs /\ fram' = [fram EXCEPT ![h] = Stored(h)]
            /\ doubt' = (doubt \ {h}) \cup (IF mainPc = "begin" THEN {target} ELSE {})
        \/ cs /\ fram' = (IF wel THEN [fram EXCEPT ![target] = Torn] ELSE fram)
              /\ doubt' = doubt \cup {h, target}
    BY <1>6 DEF IsrWrite
  <2> HIDE DEF h
  <2>5. Writers'
    BY <2>1, <2>2
  <2>6. ASSUME NEW r \in Kept \ doubt' PROVE Right(r)'
    <3>1. r \in Regions /\ Bound /\ ToRemove' = ToRemove
      BY <2>1, RegionsDiffer DEF ToRemove
    <3>2. CASE r = h
      BY <2>1, <2>2, <2>3, <2>4, <2>6, <3>1, <3>2
    <3>3. CASE r # h
      <4>1. Right(r)
        BY <2>4, <2>6, <3>3
      <4>2. fram'[r] = fram[r] /\ (mainPc = "begin" => r # target)
        BY <2>3, <2>4, <2>6, <3>1, <3>3
      <4>3. (\E n \in DOMAIN isr : isr[n] = r) => \E n \in DOMAIN isr' : isr'[n] = r
        BY <2>2, <3>3
      <4>4. mainPc = "end" /\ cs => r # target
        BY <2>4, <2>6
      <4> QED
        BY <2>1, <3>1, <4>1, <4>2, <4>3, <4>4
    <3> QED
      BY <3>2, <3>3
  <2> QED
    BY <2>5, <2>6
<1>7. ASSUME NEW id \in Values, NewCard(id) PROVE Writers' /\ \A r \in Kept \ doubt' : Right(r)'
  BY <1>2, <1>7, RegionsDiffer DEF NewCard, StoreTypeOK, ToRemove, Kept, Supplies
<1>8. CASE WriteAccess
  BY <1>2, <1>8 DEF WriteAccess, ToRemove
<1>9. CASE BeginTransaction
  BY <1>2, <1>9 DEF BeginTransaction, ToRemove
<1>10. CASE EndTransaction
  <2>1. /\ mainPc = "end" /\ isr = <<>> /\ isr' = isr /\ DOMAIN isr = {} /\ cs' = FALSE
        /\ UNCHANGED <<MemBuffer, identified, target, want>>
        /\ \/ cs /\ wel /\ fram' = [fram EXCEPT ![target] = MemBuffer[target]]
                       /\ doubt' = IF target = Card THEN doubt \ {Card} ELSE doubt
           \/ ~(cs /\ wel) /\ UNCHANGED <<fram, doubt>>
        /\ \/ target = Card /\ mainPc' = "remove" /\ UNCHANGED place
           \/ target # Card /\ NextPlace
    BY <1>2, <1>10 DEF EndTransaction
  <2>2. /\ place \in Places /\ target \in Regions /\ fram \in [Regions -> Contents]
        /\ target = Card => place = 0 /\ MemBuffer[Card] = want[Card]
        /\ target # Card => target = Supply(place)
    <3>1. place \in Places /\ target \in Regions /\ fram \in [Regions -> Contents]
      BY DEF StoreTypeOK
    <3>2. \/ target = Card /\ place = 0 /\ MemBuffer[Card] = want[Card]
          \/ target = Supply(place)
      BY <2>1
    <3>3. Supply(place) # Card
      BY <3>1, RegionsDiffer
    <3> QED
      BY <3>1, <3>2, <3>3
  <2>3. mainPc' \in {"remove", "loop"}
    BY <2>1, <2>2, PlaceMoves
  <2>4. Writers'
    BY <2>1, <2>3
  <2>5. \A j \in Places : place <= j <=> place < j \/ j = place
    BY <2>2, PlacesAssumption DEF Places
  <2>6. \A j \in Places : 0 <= j
    BY PlacesAssumption DEF Places
  <2>7. ASSUME NEW r \in ToRemove, r # target PROVE r \in ToRemove'
    BY <2>1, <2>2, <2>3, <2>5, <2>6, <2>7, PlaceMoves DEF ToRemove
  <2>8. ASSUME NEW r \in Kept \ doubt' PROVE Right(r)'
    <3>1. r \in Regions
      BY RegionsDiffer
    <3>2. fram'[r] = fram[r] \/ (r = target /\ fram'[r] = MemBuffer[r])
      BY <2>1, <2>2, <3>1
    <3>3. CASE r \notin doubt
      <4>1. Right(r) /\ Bound /\ Bound'
        BY <2>1, <2>3, <3>3
      <4>2. fram'[r] = MemBuffer'[r]
        BY <2>1, <2>2, <3>1, <3>2, <4>1
      <4>3. r # target => (MemBuffer'[r] = want'[r] \/ (r \in ToRemove' /\ want'[r] = 0))
        BY <2>1, <2>7, <4>1
      <4>4. r = target => MemBuffer[r] = want[r]
        <5>1. ASSUME target # Card PROVE target \notin ToRemove
          <6>1. ~(place < place)
            BY <2>2, PlacesAssumption DEF Places
          <6> QED
            BY <2>1, <2>2, <5>1, <6>1, RegionsDiffer DEF ToRemove
        <5> QED
          BY <2>2, <4>1, <5>1
      <4> QED
        BY <2>1, <2>3, <4>2, <4>3, <4>4
    <3>4. CASE r \in doubt
      BY <2>1, <2>2, <2>3, <2>8, <3>1, <3>2, <3>4
    <3> QED
      BY <3>3, <3>4
  <2> QED
    BY <2>4, <2>8
<1>11. CASE RemoveSupplies
  <2>1. /\ mainPc = "remove" /\ isr = <<>> /\ isr' = isr /\ DOMAIN isr = {}
        /\ UNCHANGED <<fram, wel, cs, identified, want>>
        /\ place \in Places /\ MemBuffer \in [Regions -> Contents]
    BY <1>2, <1>11 DEF RemoveSupplies, StoreTypeOK
  <2> DEFINE s == Supply(place)
  <2>2. s \in Kept /\ s \in Regions /\ s # Card
    BY <2>1, RegionsDiffer DEF Kept
  <2>3. \A j \in Places : place <= j <=> place < j \/ j = place
    BY <2>1, PlacesAssumption DEF Places
  <2>4. CASE MemBuffer[s] # 0
    <3>1. /\ MemBuffer' = [MemBuffer EXCEPT ![s] = 0]
          /\ doubt' = (IF want[s] = 0 THEN doubt \ {s} ELSE doubt \cup {s})
          /\ target' = s /\ mainPc' = "access" /\ place' = place
      BY <1>11, <2>4 DEF RemoveSupplies
    <3>2. ToRemove' = ToRemove \ {s}
      <4>1. \A r : r \in ToRemove <=> \E j \in Places : r = Supply(j) /\ place <= j
        BY <2>1 DEF ToRemove
      <4>2. \A r : r \in ToRemove' <=> \E j \in Places : r = Supply(j) /\ place < j
        BY <2>2, <3>1 DEF ToRemove
      <4>3. ~(place < place)
        BY <2>1, PlacesAssumption DEF Places
      <4>4. \A j \in Places : Supply(j) = s <=> j = place
        BY <2>1, RegionsDiffer
      <4> HIDE DEF s
      <4> QED
        BY <2>3, <4>1, <4>2, <4>3, <4>4
    <3> HIDE DEF s
    <3>3. Writers'
      <4>1. target' = Supply(place')
        BY <3>1 DEF s
      <4> QED
        BY <2>1, <3>1, <4>1
    <3>4. ASSUME NEW r \in Kept \ doubt' PROVE Right(r)'
      BY <2>1, <2>2, <3>1, <3>2, <3>4, RegionsDiffer
    <3> QED
      BY <3>3, <3>4
  <2>5. CASE MemBuffer[s] = 0
    <3>1. NextPlace /\ UNCHANGED <<MemBuffer, target, doubt>>
      BY <1>11, <2>5 DEF RemoveSupplies
    <3>2. mainPc' \in {"remove", "loop"}
      BY <2>1, <3>1, PlaceMoves
    <3>3. Writers'
      BY <2>1, <3>1, <3>2
    <3>4. ASSUME NEW r \in ToRemove, r # s PROVE r \in ToRemove'
      BY <2>1, <2>3, <3>1, <3>4, PlaceMoves DEF ToRemove
    <3> HIDE DEF s
    <3>5. ASSUME NEW r \in Kept \ doubt' PROVE Right(r)'
      BY <2>1, <2>2, <2>5, <3>1, <3>2, <3>4, <3>5
    <3> QED
      BY <3>3, <3>5
  <2> QED
    BY <2>4, <2>5
<1>12. CASE PowerCut
  <2>1. /\ mainPc' = "start" /\ isr' = <<>> /\ cs' = FALSE /\ UNCHANGED <<identified, want>>
        /\ doubt' = doubt \cup Unfinished /\ DOMAIN isr' = {}
        /\ \/ UNCHANGED fram
           \/ isr # <<>> /\ ~cs /\ fram' = [fram EXCEPT ![Head(isr)] = Torn]
           \/ cs /\ wel /\ fram' = [fram EXCEPT ![target] = Torn]
    BY <1>12 DEF PowerCut
  <2>2. Writers'
    BY <2>1
  <2>3. ASSUME NEW r \in Kept \ doubt', identified PROVE fram'[r] = want[r]
    <3>1. r \in Regions /\ r \notin Unfinished /\ Right(r)
      BY <2>1, <2>3, RegionsDiffer
    <3>2. r \notin {isr[n] : n \in DOMAIN isr} /\ (Accessing => r # target)
      BY <3>1 DEF Unfinished
    <3>3. mainPc # "defaults"
      BY <3>1 DEF Unfinished
    <3>4. r \notin ToRemove
      <4> SUFFICES ASSUME NEW j \in Places, r = Supply(j),
                          \/ Accessing /\ (target = Card \/ place < j)
                          \/ mainPc = "remove" /\ place <= j
                   PROVE  FALSE
        BY DEF ToRemove
      <4>1. place \in Places /\ (Accessing /\ target = Card => place = 0)
        BY RegionsDiffer, Zenon DEF StoreTypeOK
      <4>2. j \in place .. SUPPLIES_NUM - 1
        BY <4>1, PlacesAssumption DEF Places
      <4> QED
        BY <3>1, <4>2 DEF Unfinished
    <3>5. fram'[r] = fram[r]
      <4>1. isr # <<>> => Head(isr) \in {isr[n] : n \in DOMAIN isr}
        BY DEF StoreTypeOK
      <4> QED
        BY <2>1, <3>1, <3>2, <4>1 DEF StoreTypeOK
    <3> QED
      BY <2>3, <3>1, <3>2, <3>3, <3>4, <3>5
  <2> QED
    BY <2>1, <2>2, <2>3
<1>13. CASE UNCHANGED storeVars
  BY <1>13 DEF storeVars, ToRemove
<1>14. 0 \in Places /\ 0 \in Values
  BY PlacesAssumption, StoreAssumption DEF Places
<1>15. /\ \A i \in Places, v \in Values : ~SetSupplies(i, v) /\ ~SetQuantityById(i, v)
       /\ ~ClearAll
  BY <1>14
<1> QED
  BY <1>3, <1>4, <1>5, <1>6, <1>7, <1>8, <1>9, <1>10, <1>11, <1>12, <1>13, <1>15 DEF StoreNext

(* Through restarts, the card and the supplies that are not in doubt are    *)
(* what was last asked for.                                                 *)
THEOREM StoreCorrect == StoreSpec => []StoreKept
<1>1. StoreInit => StoreInv
  <2> SUFFICES ASSUME StoreInit PROVE StoreInv
    OBVIOUS
  <2> USE StoreAssumption, PlacesAssumption, RegionsDiffer DEF StoreInit
  <2>1. StoreTypeOK
    <3>1. MemBuffer \in [Regions -> Contents] /\ fram \in [Regions -> Contents]
          /\ want \in [Regions -> Contents]
      BY DEF Contents
    <3>2. 0 \in 0 .. MaxRequests /\ 0 \in 0 .. MaxCards /\ 0 \in 0 .. MaxPowerCuts /\ 0 \in Places
      BY DEF Places
    <3>3. <<>> \in Seq(Regions)
      OBVIOUS
    <3>4. /\ requests \in 0 .. MaxRequests /\ cards \in 0 .. MaxCards /\ cuts \in 0 .. MaxPowerCuts
          /\ place \in Places /\ isr \in Seq(Regions) /\ target \in Regions
          /\ doubt \subseteq Regions
      BY <3>2, <3>3, Zenon
    <3> QED
      BY <3>1, <3>4 DEF StoreTypeOK
  <2>2. Writers
    BY DEF Writers, Accessing
  <2> QED
    BY <2>1, <2>2 DEF StoreInv, Right, Bound
<1>2. StoreInv => StoreKept
  BY DEF StoreInv, StoreKept, Right, Bound, Kept, ToRemove, Accessing, Writing
<1> QED
  BY <1>1, <1>2, StoreStep, PTL DEF StoreSpec

----------------------------------------------------------------------------
(* The report of a card, as far as the server.                              *)

(* The unit's report of now, and the last one the controller has or gets.  *)
UnitsReport == RfidBytes.arrival = RfidCardType /\ (RfidCardType => RfidBytes.id = UIDlast)
StoredAlike == rfid.cardState = rfid.lastCardType
Latest ==
  IF way = <<>> THEN [arrival |-> rfid.lastCardType, id |-> rfid.cardId] ELSE way[Len(way)]
OnItsWay ==
  RfidPending \/ (Latest.arrival = RfidCardType /\ (RfidCardType => Latest.id = UIDlast))

(* What the controller knows of the card, as it reaches the server.        *)
Known == IF rfid.cardState THEN rfid.cardId ELSE NoCard
ToReport == IF report.arrival THEN report.id ELSE NoCard
Marked == pollPc = "mark" \/ rfid.cardChanged
Forwarded ==
  CASE traversalPc = "wait" -> Marked \/ server = Known
    [] traversalPc = "state" -> TRUE
    [] traversalPc = "id" -> report.arrival = rfid.cardState
    [] traversalPc = "update" -> report.arrival = rfid.cardState /\ report.id = rfid.cardId
    [] traversalPc = "clear" -> ~rfid.cardState /\ (Marked \/ ToReport = Known)
    [] OTHER -> Marked \/ ToReport = Known

CardInv == CardTypeOK /\ UnitsReport /\ StoredAlike /\ (~inDoubt => OnItsWay /\ Forwarded)

(* The last of a sequence, when one is added or the first is taken.         *)
LEMMA LastOfAppend ==
  ASSUME NEW S, NEW s \in Seq(S), NEW x \in S
  PROVE  /\ Append(s, x) \in Seq(S) /\ Append(s, x) # <<>> /\ Len(Append(s, x)) = Len(s) + 1
         /\ Append(s, x)[Len(Append(s, x))] = x
OBVIOUS

LEMMA LastOfTail ==
  ASSUME NEW S, NEW s \in Seq(S), s # <<>>
  PROVE  /\ Head(s) \in S /\ Tail(s) \in Seq(S) /\ Len(Tail(s)) = Len(s) - 1
         /\ Tail(s) = <<>> => Head(s) = s[Len(s)]
         /\ Tail(s) # <<>> => Tail(s)[Len(Tail(s))] = s[Len(s)]
<1>1. Len(s) \in Nat \ {0} /\ Tail(s) \in Seq(S) /\ Len(Tail(s)) = Len(s) - 1 /\ Head(s) = s[1]
  OBVIOUS
<1>2. \A i \in 1 .. Len(s) - 1 : Tail(s)[i] = s[i + 1]
  OBVIOUS
<1>3. Tail(s) = <<>> => Len(s) = 1
  <2> SUFFICES ASSUME Tail(s) = <<>> PROVE Len(s) = 1
    OBVIOUS
  <2>0. Len(<<>>) = 0
    OBVIOUS
  <2>1. Len(Tail(s)) = 0
    BY <2>0, Zenon
  <2> QED
    BY <1>1, <2>1
<1>4. Tail(s) # <<>> => Len(s) - 1 \in 1 .. Len(s) - 1
  BY <1>1
<1> QED
  BY <1>1, <1>2, <1>3, <1>4

LEMMA CardTypeStep == CardTypeOK /\ [CardNext]_cardVars => CardTypeOK'
<1> SUFFICES ASSUME CardTypeOK, [CardNext]_cardVars PROVE CardTypeOK'
  OBVIOUS
<1> USE CardsAssumption, WayAssumption
    DEF CardTypeOK, readerVars, pollVars, traversalVars, serverVars
<1>0. /\ Nothing \in Reports
      /\ NewUnit \in [lastCardType: BOOLEAN, cardState: BOOLEAN, cardId: Cards \cup {NoCard, NoId},
                      cardChanged: BOOLEAN]
      /\ \A r \in Reports : r.arrival \in BOOLEAN /\ r.id \in Cards \cup {NoCard, NoId}
  BY DEF Nothing, NewUnit, Reports
<1>1. way # <<>> => Head(way) \in Reports /\ Tail(way) \in Seq(Reports) /\ Len(Tail(way)) <= MaxWay
  BY LastOfTail
<1>2. ASSUME NEW r \in Reports, Report(r) PROVE way' \in Seq(Reports) /\ Len(way') <= MaxWay
  <2>1. Len(way) \in Nat /\ Len(way) < MaxWay
    BY <1>2 DEF Report
  <2> QED
    BY <1>2, <2>1, LastOfAppend DEF Report
<1>3. ASSUME NEW arrival \in BOOLEAN, NEW id \in Cards \cup {NoCard}, RfidChanged(arrival, id)
      PROVE  /\ RfidBytes' \in Reports /\ RfidPending' \in BOOLEAN
             /\ way' \in Seq(Reports) /\ Len(way') <= MaxWay
  <2> DEFINE bytes == [arrival |-> arrival, id |-> IF arrival THEN id ELSE RfidBytes.id]
  <2>1. bytes \in Reports /\ [bytes EXCEPT !.id = NoCard] \in Reports
    BY <1>0 DEF Reports
  <2>2. RfidBytes' = (IF arrival THEN bytes ELSE [bytes EXCEPT !.id = NoCard])
    BY <1>3 DEF RfidChanged
  <2>3. \/ RfidPending' = FALSE /\ Report(bytes)
        \/ RfidPending' = (RfidPending \/ arrival) /\ UNCHANGED way
    BY <1>3 DEF RfidChanged
  <2> QED
    BY <1>2, <2>1, <2>2, <2>3
<1>4. CASE CardNext
  <2>0. inDoubt' \in BOOLEAN
    BY <1>4 DEF CardNext
  <2>1. CASE NewCardFound
    <3>1. /\ RfidBytes' \in Reports /\ RfidPending' \in BOOLEAN
          /\ way' \in Seq(Reports) /\ Len(way') <= MaxWay
      BY <1>3, <2>1 DEF NewCardFound
    <3>2. UIDlast' \in Cards \cup {NoCard} /\ RfidCardType' \in BOOLEAN
      BY <2>1 DEF NewCardFound
    <3> QED
      BY <2>0, <2>1, <3>1, <3>2 DEF NewCardFound
  <2>2. CASE NoCardFound
    <3>1. /\ RfidBytes' \in Reports /\ RfidPending' \in BOOLEAN
          /\ way' \in Seq(Reports) /\ Len(way') <= MaxWay
      BY <1>3, <2>2 DEF NoCardFound
    <3>2. UIDlast' \in Cards \cup {NoCard} /\ RfidCardType' \in BOOLEAN
      BY <2>2 DEF NoCardFound
    <3> QED
      BY <2>0, <2>2, <3>1, <3>2 DEF NoCardFound
  <2>3. CASE ReportPending \/ SyncLive \/ \E c \in Cards \cup {NoCard} : CardMoves(c)
    <3>1. ReportPending => way' \in Seq(Reports) /\ Len(way') <= MaxWay
      BY <1>2 DEF ReportPending
    <3>2. way' \in Seq(Reports) /\ Len(way') <= MaxWay
      BY <2>3, <3>1 DEF SyncLive, CardMoves
    <3> QED
      BY <2>0, <2>3, <3>2, ZenonT(60) DEF ReportPending, SyncLive, CardMoves
  <2>4. CASE Store
    <3>1. rfid' \in [lastCardType: BOOLEAN, cardState: BOOLEAN, cardId: Cards \cup {NoCard, NoId},
                     cardChanged: BOOLEAN]
      BY <1>0, <1>1, <2>4, ZenonT(60) DEF Store
    <3> QED
      BY <1>1, <2>0, <2>4, <3>1 DEF Store
  <2>5. CASE Mark
    BY <2>0, <2>5, ZenonT(60) DEF Mark
  <2>6. CASE Disconnected \/ Traversal \/ LookLeft \/ SendData \/ ConnectionChanges
    BY <2>0, <2>6, <1>0, ZenonT(60) DEF Disconnected, Traversal, LookLeft, SendData, ConnectionChanges
  <2>7. CASE GetCardState \/ GetCardId
    BY <2>0, <2>7 DEF GetCardState, GetCardId, Reports
  <2>8. CASE AfterUpdate \/ ClearId
    BY <2>0, <2>8 DEF AfterUpdate, ClearId
  <2>9. CASE SendRefused \/ FrameLost
    BY <1>1, <2>0, <2>9 DEF SendRefused, FrameLost
  <2>10. CASE UnitRestarts \/ ControllerRestarts
    <3>1. way' \in Seq(Reports) /\ Len(way') <= MaxWay
      <4>1. UnitRestarts => way' = way
        BY DEF UnitRestarts
      <4>2. ControllerRestarts => way' = <<>>
        BY DEF ControllerRestarts
      <4>3. <<>> \in Seq(Reports) /\ Len(<<>>) <= MaxWay
        OBVIOUS
      <4> QED
        BY <2>10, <4>1, <4>2, <4>3
    <3>2. CASE UnitRestarts
      <4>1. /\ UIDlast' = NoCard /\ RfidCardType' = FALSE /\ RfidBytes' = Nothing
            /\ RfidPending' = FALSE /\ Registered' = FALSE
            /\ UNCHANGED <<card, rfid, pollPc, traversalPc, force, report, connected, server>>
        BY <3>2 DEF UnitRestarts
      <4>2. /\ card' \in Cards \cup {NoCard} /\ rfid' = rfid /\ report' = report
            /\ UIDlast' \in Cards \cup {NoCard} /\ RfidCardType' \in BOOLEAN
            /\ RfidBytes' \in Reports /\ RfidPending' \in BOOLEAN /\ Registered' \in BOOLEAN
        BY <1>0, <4>1
      <4> QED
        BY <2>0, <3>1, <4>1, <4>2
    <3>3. CASE ControllerRestarts
      BY <1>0, <2>0, <3>1, <3>3 DEF ControllerRestarts
    <3> QED
      BY <2>10, <3>2, <3>3
  <2> QED
    BY <1>4, <2>1, <2>2, <2>3, <2>4, <2>5, <2>6, <2>7, <2>8, <2>9, <2>10
       DEF CardNext, CardStep, Fault
<1>5. CASE UNCHANGED cardVars
  BY <1>5 DEF cardVars
<1> QED
  BY <1>4, <1>5

(* What the unit keeps for its report is the card it has found; the two     *)
(* marks of a card on the controller change together.                       *)
LEMMA OwnRecords ==
  ASSUME CardTypeOK, UnitsReport, StoredAlike, CardNext
  PROVE  UnitsReport' /\ StoredAlike'
<1> USE DEF CardTypeOK, UnitsReport, StoredAlike, readerVars, pollVars, traversalVars, serverVars
<1>1. CASE NewCardFound
  <2>0. UNCHANGED rfid
    BY <1>1 DEF NewCardFound
  <2>1. CASE UIDlast' = card /\ RfidCardType' = TRUE /\ RfidChanged(TRUE, card)
    BY <2>0, <2>1 DEF RfidChanged
  <2>2. CASE RfidCardType' = FALSE /\ RfidChanged(FALSE, NoCard)
    BY <2>0, <2>2 DEF RfidChanged
  <2> QED
    BY <1>1, <2>1, <2>2 DEF NewCardFound
<1>2. CASE NoCardFound
  BY <1>2 DEF NoCardFound, RfidChanged
<1>3. CASE ReportPending \/ SyncLive \/ \E c \in Cards \cup {NoCard} : CardMoves(c)
  BY <1>3 DEF ReportPending, SyncLive, CardMoves
<1>4. CASE Store \/ Mark
  BY <1>4 DEF Store, Mark
<1>5. CASE Disconnected \/ Traversal \/ GetCardState \/ GetCardId \/ AfterUpdate \/ LookLeft
           \/ ClearId \/ SendData \/ ConnectionChanges
  BY <1>5 DEF Disconnected, Traversal, GetCardState, GetCardId, AfterUpdate, LookLeft, ClearId,
              SendData, ConnectionChanges
<1>6. CASE Fault
  <2>1. CASE SendRefused \/ FrameLost
    BY <2>1 DEF SendRefused, FrameLost
  <2>2. CASE UnitRestarts
    BY <2>2 DEF UnitRestarts, Nothing
  <2>3. CASE ControllerRestarts
    BY <2>3 DEF ControllerRestarts, NewUnit
  <2> QED
    BY <1>6, <2>1, <2>2, <2>3 DEF Fault
<1> QED
  BY <1>1, <1>2, <1>3, <1>4, <1>5, <1>6 DEF CardNext, CardStep

(* While nothing is lost the unit's card is on its way to the controller,   *)
(* or has come there.                                                       *)
LEMMA StaysOnItsWay ==
  ASSUME CardTypeOK, UnitsReport, StoredAlike, OnItsWay, Forwarded, CardStep, ~RemovalForgotten
  PROVE  OnItsWay' \/ Agreed' \/ StoredMeanwhile
<1> USE DEF CardTypeOK, UnitsReport, StoredAlike, OnItsWay, readerVars, pollVars,
            traversalVars, serverVars
<1>0. ASSUME NEW r \in Reports, Report(r) PROVE Latest' = r
  BY <1>0, LastOfAppend DEF Report, Latest
<1>0a. ASSUME RfidCardType' = FALSE, RfidChanged(FALSE, NoCard), UNCHANGED <<Registered, rfid>> PROVE OnItsWay'
  <2> DEFINE bytes == [arrival |-> FALSE, id |-> RfidBytes.id]
  <2>1. bytes \in Reports
    BY DEF Reports
  <2>2. CASE Report(bytes)
    <3>1. Latest'.arrival = FALSE
      BY <1>0, <2>1, <2>2
    <3> QED
      BY <1>0a, <3>1
  <2>3. CASE ~Registered /\ RfidPending' = RfidPending /\ UNCHANGED way
    <3>1. RfidPending \/ RfidCardType = FALSE
      BY <1>0a, <2>3 DEF RemovalForgotten
    <3>2. Latest' = Latest
      BY <1>0a, <2>3 DEF Latest
    <3> QED
      BY <1>0a, <2>3, <3>1, <3>2
  <2> QED
    BY <1>0a, <2>2, <2>3 DEF RfidChanged
<1>1. CASE NewCardFound
  <2>1. CASE UIDlast' = card /\ RfidCardType' = TRUE /\ RfidChanged(TRUE, card)
    <3>1. RfidPending' \/ Report([arrival |-> TRUE, id |-> card])
      BY <2>1 DEF RfidChanged
    <3>2. [arrival |-> TRUE, id |-> card] \in Reports
      BY DEF Reports
    <3>3. RfidPending' \/ Latest' = [arrival |-> TRUE, id |-> card]
      BY <1>0, <3>1, <3>2
    <3>4. Latest' = [arrival |-> TRUE, id |-> card] => Latest'.arrival = TRUE /\ Latest'.id = card
      OBVIOUS
    <3> QED
      BY <2>1, <3>3, <3>4
  <2>2. CASE RfidCardType' = FALSE /\ RfidChanged(FALSE, NoCard)
    BY <1>1, <1>0a, <2>2 DEF NewCardFound
  <2> QED
    BY <1>1, <2>1, <2>2 DEF NewCardFound
<1>2. CASE NoCardFound
  BY <1>2, <1>0a DEF NoCardFound
<1>3. CASE ReportPending
  BY <1>0, <1>3 DEF ReportPending
<1>4. CASE SyncLive \/ \E c \in Cards \cup {NoCard} : CardMoves(c)
  BY <1>4 DEF SyncLive, CardMoves, Latest
<1>5. CASE Store
  <2>1. way # <<>> /\ way' = Tail(way) /\ Head(way) \in Reports /\ UNCHANGED readerVars
    BY <1>5, LastOfTail DEF Store
  <2>2. CASE Tail(way) = <<>>
    <3>1. Latest = Head(way) /\ Latest' = [arrival |-> rfid'.lastCardType, id |-> rfid'.cardId]
      BY <2>1, <2>2, LastOfTail DEF Latest
    <3>2. /\ rfid'.lastCardType = Head(way).arrival
          /\ Head(way).arrival => rfid'.cardId = Head(way).id
      BY <1>5 DEF Store, Identical
    <3> QED
      BY <2>1, <3>1, <3>2
  <2>3. CASE Tail(way) # <<>>
    <3>1. Latest' = Latest
      BY <2>1, <2>3, LastOfTail DEF Latest
    <3> QED
      BY <2>1, <3>1
  <2> QED
    BY <2>2, <2>3
<1>6. CASE Mark \/ AfterUpdate
  BY <1>6 DEF Mark, AfterUpdate, Latest
<1>7. CASE ClearId
  <2>1. ~rfid.lastCardType
    BY <1>7 DEF ClearId, Forwarded
  <2> QED
    BY <1>7, <2>1 DEF ClearId, Latest
<1>8. CASE Disconnected \/ Traversal \/ GetCardState \/ GetCardId \/ LookLeft \/ SendData
           \/ ConnectionChanges
  BY <1>8 DEF Disconnected, Traversal, GetCardState, GetCardId, LookLeft, SendData,
              ConnectionChanges, Latest
<1> QED
  BY <1>1, <1>2, <1>3, <1>4, <1>5, <1>6, <1>7, <1>8 DEF CardStep

(* What the controller knows is on its way to the server, or is marked for  *)
(* it.                                                                      *)
LEMMA StaysForwarded ==
  ASSUME CardTypeOK, StoredAlike, Forwarded, CardStep, ~StoredMeanwhile
  PROVE  Forwarded'
<1> USE DEF CardTypeOK, Forwarded, Marked, Known, ToReport, readerVars, pollVars, traversalVars,
            serverVars
<1>1. CASE NewCardFound \/ NoCardFound \/ ReportPending \/ SyncLive
           \/ \E c \in Cards \cup {NoCard} : CardMoves(c)
  BY <1>1 DEF NewCardFound, NoCardFound, ReportPending, SyncLive, CardMoves
<1>2. CASE Store
  BY <1>2 DEF Store, StoredMeanwhile
<1>3. CASE Mark
  BY <1>3 DEF Mark
<1>4. CASE Disconnected \/ ConnectionChanges
  BY <1>4 DEF Disconnected, ConnectionChanges
<1>5. CASE Traversal
  BY <1>5 DEF Traversal
<1>6. CASE GetCardState
  BY <1>6 DEF GetCardState, Reports
<1>7. CASE GetCardId
  BY <1>7 DEF GetCardId, Reports
<1>8. CASE AfterUpdate
  BY <1>8 DEF AfterUpdate
<1>9. CASE LookLeft
  BY <1>9 DEF LookLeft
<1>10. CASE ClearId
  BY <1>10 DEF ClearId
<1>11. CASE SendData
  BY <1>11 DEF SendData
<1> QED
  BY <1>1, <1>2, <1>3, <1>4, <1>5, <1>6, <1>7, <1>8, <1>9, <1>10, <1>11 DEF CardStep

LEMMA CardStepKeeps == CardInv /\ [CardNext]_cardVars => CardInv'
<1> SUFFICES ASSUME CardInv, [CardNext]_cardVars PROVE CardInv'
  OBVIOUS
<1>0. CardTypeOK'
  BY CardTypeStep DEF CardInv
<1>1. CASE UNCHANGED cardVars
  BY <1>0, <1>1 DEF cardVars, readerVars, pollVars, traversalVars, serverVars, CardInv,
     UnitsReport, StoredAlike, OnItsWay, Latest, Forwarded, Marked, Known, ToReport
<1>2. CASE CardNext
  <2>1. UnitsReport' /\ StoredAlike'
    BY <1>2, OwnRecords DEF CardInv
  <2>2. Agreed' => OnItsWay' /\ Forwarded'
    BY <2>1 DEF Agreed, Settled, UnitsCard, StoredAlike, OnItsWay, Latest, Forwarded, Known
  <2>3. CASE Fault /\ inDoubt' = ~Agreed'
    BY <1>0, <2>1, <2>2, <2>3 DEF CardInv
  <2>4. CASE ~inDoubt' /\ ~Agreed' /\ CardStep
    <3>1. ~inDoubt /\ ~RemovalForgotten /\ ~StoredMeanwhile
      BY <1>2, <2>4 DEF CardNext
    <3> QED
      BY <1>0, <2>1, <2>4, <3>1, StaysOnItsWay, StaysForwarded DEF CardInv
  <2> QED
    BY <1>0, <1>2, <2>1, <2>2, <2>3, <2>4 DEF CardNext, CardInv
<1> QED
  BY <1>1, <1>2

(* When nothing is left to report the server knows the unit's card, but for *)
(* the ways to lose a change that the property names.                       *)
THEOREM CardCorrect == CardSpec => []ServerKnowsCard
<1>1. CardInit => CardInv
  <2> SUFFICES ASSUME CardInit PROVE CardInv
    OBVIOUS
  <2>1. CardTypeOK
    <3>1. /\ Nothing \in Reports /\ <<>> \in Seq(Reports) /\ Len(<<>>) = 0 /\ 0 <= MaxWay
          /\ NewUnit \in [lastCardType: BOOLEAN, cardState: BOOLEAN,
                           cardId: Cards \cup {NoCard, NoId}, cardChanged: BOOLEAN]
      BY WayAssumption DEF Nothing, NewUnit, Reports
    <3> QED
      BY <3>1 DEF CardInit, CardTypeOK
  <2> QED
    BY <2>1 DEF CardInit, CardInv, UnitsReport, StoredAlike, OnItsWay, Latest, Forwarded, Marked,
            Known, Nothing, NewUnit
<1>2. CardInv => ServerKnowsCard
  BY DEF CardInv, ServerKnowsCard, Settled, UnitsCard, StoredAlike, OnItsWay, Latest, Forwarded,
         Marked, Known
<1> QED
  BY <1>1, <1>2, CardStepKeeps, PTL DEF CardSpec

----------------------------------------------------------------------------
(* The sending of a unit's entries, and what the controller makes of them. *)

Sending == pc \in {"stat", "check", "read", "write", "transmit"}
Slot(n) == object[n].kind = "entry"
WasStarted(e) == \E i \in DOMAIN started : started[i] = e

(* Each entry is sent once.                                                *)
SentOnce ==
  /\ seg <= total /\ entry <= made /\ res <= made
  /\ \A i \in DOMAIN started : started[i] <= made
  /\ \A i, j \in DOMAIN started : started[i] = started[j] => i = j
  /\ pc = "idle" => ~isRes
  /\ pc # "idle" => entry # 0 /\ (isRes => res # 0)
  /\ pc = "wait" => ~WasStarted(entry)
  /\ Sending => started # <<>> /\ started[Len(started)] = entry
  /\ ResponseTriggered => res # 0
  /\ ResponseTriggered /\ ~isRes => res # entry /\ ~WasStarted(res)

(* Without heartbeats and resets main and the interrupts agree on which    *)
(* slots are free; the first frame of an entry waits below all others, and *)
(* bits below it are of no frame and stay.                                 *)
Below(n) ==
  \A m \in Slots : m < n => m \in msgSignals /\ object[m] = None /\ m \notin done

SlotsMarked ==
  /\ \A n \in Slots : object[n] # None => Slot(n) /\ n \in msgSignals /\ n \notin done
  /\ done \subseteq msgSignals
  /\ pc = "write" =>
       \A n \in Slots : object[n] # None \/ n \in done => n \in copy
  /\ pc \in {"read", "write", "transmit"} => object[num] = None /\ num \notin done
  /\ pc = "transmit" => num \in msgSignals

FramesCounted ==
  tx_count >= ToSend + Cardinality(EntryPending) + Cardinality(done)

OfLast ==
  \A n \in EntryPending : started # <<>> /\ object[n].head = started[Len(started)]

FirstLowest ==
  /\ \A n \in EntryPending : object[n].seg = 0 =>
       /\ Below(n)
       /\ pc = "write" => \A m \in Slots : m < n => m \in copy
       /\ pc \in {"read", "write", "transmit"} => ~(num < n)
  /\ Sending /\ seg = 0 =>
       /\ EntryPending = {} /\ done = {}
       /\ pc = "stat" => \A m \in Slots : ~(m < num)
       /\ Below(num)
       /\ pc = "write" => \A m \in Slots : m < num => m \in copy

Calm == beats = 0 /\ "reset" \notin faults
InSlots ==
  Calm =>
    /\ SlotsMarked /\ FramesCounted /\ OfLast /\ FirstLowest
    /\ {"overwritten", "overtaken"} \cap faults = {}

(* What is on its way and what has come, as long as nothing went wrong.    *)
Pend(e, s) == \E n \in EntryPending : object[n].head = e /\ object[n].seg = s
SentSegs ==
  [k \in 1 .. Len(started) |->
     IF k = Len(started) /\ Sending THEN 0 .. seg - 1 ELSE 0 .. Segments[started[k]]]
Gone == [k \in 1 .. Len(started) |-> {s \in SentSegs[k] : ~Pend(started[k], s)}]
Come == Len(delivered)

(* Entries have come in the order they were sent; frames wait of those that *)
(* have not, and of none but the next has a frame gone out.                *)
InLine ==
  /\ Come <= Len(started)
  /\ \A i \in 1 .. Come : delivered[i].own /\ delivered[i].entry = started[i]
  /\ pc # "idle" /\ isRes => res = entry
  /\ Sending => Come < Len(started) /\ total = Segments[entry]
  /\ \A n \in EntryPending :
       /\ object[n].body = object[n].head
       /\ \E k \in Come + 1 .. Len(started) :
            object[n].head = started[k] /\ object[n].seg \in SentSegs[k]
  /\ \A m, n \in EntryPending :
       object[m].head = object[n].head /\ object[m].seg = object[n].seg => m = n
  /\ \A k \in Come + 2 .. Len(started) : Gone[k] = {}
(* The controller's table holds what has gone out of the next entry, its   *)
(* first frame before all others.                                          *)
Table ==
  \/ rxTable = None /\ (Come < Len(started) => Gone[Come + 1] = {})
  \/ /\ rxTable # None /\ Come < Len(started)
     /\ rxTable.head = started[Come + 1] /\ rxTable.bodies = {rxTable.head}
     /\ 0 \in Gone[Come + 1]
     /\ rxTable.missing = (0 .. Segments[rxTable.head]) \ Gone[Come + 1]
     /\ rxTable.missing # {}
Orderly == faults = {} => InLine /\ Table

----------------------------------------------------------------------------
(* The slots are consecutive.                                              *)
LEMMA SlotOrder ==
  /\ Slots \subseteq Nat /\ IsFiniteSet(Slots)
  /\ Least(Slots) \in Slots /\ \A m \in Slots : ~(m < Least(Slots))
  /\ \A n \in Slots : NextSlot(n) \in Slots /\ \A m \in Slots : m < NextSlot(n) => m < n \/ m = n
<1>1. PICK first \in Slots, last \in Slots : Slots = first .. last
  BY SlotsAssumption
<1>2. first \in Nat /\ last \in Nat /\ Slots \subseteq Nat
  BY <1>1, SlotsAssumption
<1>3. IsFiniteSet(Slots)
  BY <1>1, <1>2, FS_Interval
<1>4. ASSUME NEW S, NEW k \in S, S \subseteq Nat, \A m \in S : k <= m PROVE Least(S) = k
  <2>1. Least(S) \in S /\ \A m \in S : Least(S) <= m
    BY <1>4 DEF Least
  <2>2. Least(S) <= k /\ k <= Least(S) /\ k \in Nat /\ Least(S) \in Nat
    BY <1>4, <2>1
  <2> QED
    BY <2>2
<1>5. Least(Slots) = first /\ \A m \in Slots : ~(m < first)
  <2>1. \A m \in Slots : first <= m /\ ~(m < first)
    BY <1>1, <1>2
  <2> QED
    BY <1>1, <1>2, <1>4, <2>1
<1>6. ASSUME NEW n \in Slots
      PROVE  NextSlot(n) \in Slots /\ \A m \in Slots : m < NextSlot(n) => m < n \/ m = n
  <2>1. CASE \E m \in Slots : m > n
    <3> DEFINE S == {m \in Slots : m > n}
    <3>1. n + 1 \in S /\ S \subseteq Nat /\ \A m \in S : n + 1 <= m
      BY <1>1, <1>2, <2>1
    <3>2. Least(S) = n + 1
      <4> HIDE DEF S
      <4> QED
        BY <1>4, <3>1
    <3>3. NextSlot(n) = n + 1
      BY <2>1, <3>2 DEF NextSlot
    <3>4. \A m \in Slots : m < n + 1 => m < n \/ m = n
      BY <1>2
    <3> QED
      BY <3>1, <3>3, <3>4
  <2>2. CASE ~(\E m \in Slots : m > n)
    <3>1. NextSlot(n) = first
      BY <1>5, <2>2 DEF NextSlot
    <3> QED
      BY <1>5, <3>1
  <2> QED
    BY <2>1, <2>2
<1> QED
  BY <1>2, <1>3, <1>5, <1>6

(* Facts of the types.                                                     *)
RxTable == {None} \cup [head: Entries, bodies: SUBSET Entries, missing: SUBSET AllSegments]
Record == [entry: Entries, own: BOOLEAN]

LEMMA EntryFacts ==
  /\ Entries \subseteq Nat \ {0}
  /\ \A e \in Entries : Segments[e] \in Nat /\ 0 .. Segments[e] \subseteq AllSegments
  /\ \A e \in Entries : Segments[e] \in AllSegments /\ 1 .. Segments[e] \subseteq AllSegments
  /\ AllSegments \subseteq Nat
<1>1. Segments \in Seq(Nat)
  BY SegmentsAssumption
<1>2. Entries = 1 .. Len(Segments) /\ Len(Segments) \in Nat
  BY <1>1 DEF Entries
<1>3. \A e \in Entries : Segments[e] \in Nat
  BY <1>1 DEF Entries
<1>4. \A e \in Entries : 0 .. Segments[e] \subseteq AllSegments
  BY DEF AllSegments
<1>5. AllSegments \subseteq Nat
  BY <1>3 DEF AllSegments
<1>6. ASSUME NEW e \in Entries
      PROVE  Segments[e] \in AllSegments /\ 1 .. Segments[e] \subseteq AllSegments
  <2>1. Segments[e] \in 0 .. Segments[e] /\ 1 .. Segments[e] \subseteq 0 .. Segments[e]
    BY <1>3
  <2> QED
    BY <1>4, <2>1
<1> QED
  BY <1>2, <1>3, <1>4, <1>5, <1>6

LEMMA SlotFacts ==
  ASSUME TypeOK
  PROVE  /\ \A n \in Slots : object[n] \in FrameType \cup {Beat, None}
         /\ \A n \in Slots : Slot(n) <=> object[n] \in FrameType
         /\ \A n \in Slots : Slot(n) =>
              /\ object[n].head \in Entries /\ object[n].body \in Entries
              /\ object[n].seg \in AllSegments /\ object[n] # None /\ object[n] # Beat
         /\ Beat # None /\ Beat.kind = "beat" /\ None.kind = "none"
         /\ EntryPending = {n \in Slots : Slot(n)} /\ EntryPending \subseteq Slots
         /\ IsFiniteSet(EntryPending) /\ IsFiniteSet(done)
         /\ Cardinality(EntryPending) \in Nat /\ Cardinality(done) \in Nat
<1>1. \A n \in Slots : object[n] \in FrameType \cup {Beat, None}
  BY DEF TypeOK
<1>2. Beat.kind = "beat" /\ None.kind = "none"
  BY DEF Beat, None
<1>3. \A f \in FrameType : f.kind = "entry" /\ f.head \in Entries /\ f.body \in Entries /\ f.seg \in AllSegments
  BY DEF FrameType
<1>4. EntryPending = {n \in Slots : Slot(n)} /\ EntryPending \subseteq Slots
  BY DEF EntryPending, Slot
<1>5. IsFiniteSet(EntryPending) /\ IsFiniteSet(done)
  <2>1. done \subseteq Slots
    BY DEF TypeOK
  <2> QED
    BY <1>4, <2>1, SlotOrder, FS_Subset
<1>6. Cardinality(EntryPending) \in Nat /\ Cardinality(done) \in Nat
  BY <1>5, FS_CardinalityType
<1> QED
  BY <1>1, <1>2, <1>3, <1>4, <1>5, <1>6 DEF Slot

LEMMA BodyTyped ==
  ASSUME TypeOK, SentOnce
  PROVE  /\ pc # "idle" => entry \in Entries /\ Body \in Entries
         /\ ResponseTriggered => res \in Entries
         /\ Frame(entry, Body, seg) \in FrameType \/ pc # "transmit"
         /\ seg \in Nat /\ total \in Nat /\ made \in Nat
<1>1. (pc # "idle" => entry \in Entries /\ Body \in Entries) /\ (ResponseTriggered => res \in Entries)
  BY DEF TypeOK, SentOnce, Body
<1>2. seg \in Nat /\ total \in Nat /\ made \in Nat
  BY EntryFacts DEF TypeOK
<1>3. pc = "transmit" => Frame(entry, Body, seg) \in FrameType
  <2> SUFFICES ASSUME pc = "transmit" PROVE Frame(entry, Body, seg) \in FrameType
    OBVIOUS
  <2>0. pc # "idle"
    OBVIOUS
  <2>1. seg \in AllSegments
    <3>1. total \in AllSegments \cup {0} /\ seg <= total
      BY DEF TypeOK, SentOnce
    <3>2. PICK e \in Entries : total \in 0 .. Segments[e]
      <4>1. entry \in Entries /\ Segments[entry] \in Nat
        BY <1>1, <2>0, EntryFacts
      <4> QED
        BY <3>1, <4>1 DEF AllSegments
    <3>3. seg \in 0 .. Segments[e]
      BY <1>2, <3>1, <3>2, EntryFacts
    <3> QED
      BY <3>3, EntryFacts
  <2> QED
    BY <1>1, <2>1 DEF FrameType, Frame
<1> QED
  BY <1>1, <1>2, <1>3

LEMMA ReceiveTyped ==
  ASSUME TypeOK, NEW f \in FrameType \cup {Beat}, Receive(f)
  PROVE  rxTable' \in RxTable /\ delivered' \in Seq(Record)
<1>1. rxTable \in RxTable /\ delivered \in Seq(Record)
  BY DEF TypeOK, RxTable, Record
<1>2. ASSUME NEW e \in Entries, NEW b, Deliver(e, b) PROVE delivered' \in Seq(Record)
  <2>1. [entry |-> e, own |-> b = {e}] \in Record
    BY DEF Record
  <2>2. delivered' = Append(delivered, [entry |-> e, own |-> b = {e}])
    BY <1>2 DEF Deliver
  <2> HIDE DEF Record
  <2> QED
    BY <1>1, <2>1, <2>2
<1>3. None \in RxTable
  BY DEF RxTable
<1>4. CASE f.kind = "beat" \/ UNCHANGED <<rxTable, delivered>>
  BY <1>1, <1>4 DEF Receive
<1>5. CASE f.kind = "entry" /\ f.seg = 0 /\ ReceiveFirst(f)
  <2>1. f \in FrameType
    BY <1>5 DEF Beat
  <2>2. f.head \in Entries /\ f.body \in Entries /\ f.seg \in AllSegments
    BY <2>1 DEF FrameType
  <2>3. 1 .. Segments[f.head] \subseteq AllSegments
    BY <2>2, EntryFacts
  <2>4. [head |-> f.head, bodies |-> {f.body}, missing |-> 1 .. Segments[f.head]] \in RxTable
    BY <2>2, <2>3 DEF RxTable
  <2> QED
    BY <1>1, <1>2, <1>5, <2>2, <2>4 DEF ReceiveFirst
<1>6. CASE f.kind = "entry" /\ f.seg > 0 /\ ReceiveSegment(f) /\ Fits(f)
  <2>1. f \in FrameType
    BY <1>6 DEF Beat
  <2>2. f.head \in Entries /\ f.body \in Entries /\ f.seg \in AllSegments
    BY <2>1 DEF FrameType
  <2>3. rxTable \in [head: Entries, bodies: SUBSET Entries, missing: SUBSET AllSegments]
    BY <1>1, <1>6 DEF Fits, RxTable
  <2> DEFINE b == rxTable.bodies \cup {f.body}
             m == rxTable.missing \ {f.seg}
  <2>4. b \subseteq Entries /\ m \subseteq AllSegments /\ rxTable.head \in Entries
    BY <2>2, <2>3
  <2>5. [rxTable EXCEPT !.bodies = b, !.missing = m] \in RxTable
    <3> HIDE DEF b, m
    <3> QED
      BY <2>3, <2>4 DEF RxTable
  <2>6. \/ Deliver(rxTable.head, b) /\ rxTable' = None
        \/ rxTable' = [rxTable EXCEPT !.bodies = b, !.missing = m] /\ UNCHANGED delivered
    BY <1>6 DEF ReceiveSegment
  <2> HIDE DEF b, m
  <2> QED
    BY <1>1, <1>2, <1>3, <2>4, <2>5, <2>6
<1> QED
  BY <1>4, <1>5, <1>6 DEF Receive, ReceiveSegment

LEMMA TypeStep == TypeOK /\ SentOnce /\ [Next]_vars => TypeOK'
<1> SUFFICES ASSUME TypeOK, SentOnce, [Next]_vars PROVE TypeOK'
  OBVIOUS
<1>0. /\ rxTable \in RxTable /\ delivered \in Seq(Record)
      /\ pc \in {"idle", "wait", "stat", "check", "read", "write", "transmit"}
      /\ entry \in Entries \cup {0} /\ isRes \in BOOLEAN
      /\ seg \in Nat /\ total \in AllSegments \cup {0}
      /\ num \in Slots /\ copy \subseteq Slots
      /\ res \in Entries \cup {0} /\ ResponseTriggered \in BOOLEAN /\ made \in Entries \cup {0}
      /\ msgSignals \subseteq Slots /\ done \subseteq Slots
      /\ tx_count \in Int
      /\ object \in [Slots -> FrameType \cup {Beat, None}]
      /\ STAT \in BOOLEAN /\ hung \in BOOLEAN
      /\ started \in Seq(Entries) /\ faults \subseteq Faults /\ vanished \in Nat
      /\ beats \in 0 .. MaxBeats /\ errors \in 0 .. MaxErrors /\ losses \in 0 .. MaxLosses
  BY DEF TypeOK, RxTable, Record
<1>a. ASSUME rxTable' \in RxTable, delivered' \in Seq(Record),
             pc' \in {"idle", "wait", "stat", "check", "read", "write", "transmit"},
             entry' \in Entries \cup {0}, isRes' \in BOOLEAN, seg' \in Nat, total' \in AllSegments \cup {0},
             num' \in Slots, copy' \subseteq Slots,
             res' \in Entries \cup {0}, ResponseTriggered' \in BOOLEAN, made' \in Entries \cup {0},
             msgSignals' \subseteq Slots, done' \subseteq Slots, tx_count' \in Int,
             object' \in [Slots -> FrameType \cup {Beat, None}], STAT' \in BOOLEAN, hung' \in BOOLEAN,
             started' \in Seq(Entries), faults' \subseteq Faults, vanished' \in Nat,
             beats' \in 0 .. MaxBeats, errors' \in 0 .. MaxErrors, losses' \in 0 .. MaxLosses
      PROVE  TypeOK'
  BY <1>a DEF TypeOK, RxTable, Record
<1>b. /\ 0 \in Nat /\ Least(Slots) \in Slots /\ {} \subseteq Slots
      /\ pc # "idle" => /\ entry \in Entries /\ Body \in Entries
                        /\ Segments[Body] \in Nat /\ Segments[Body] \in AllSegments
      /\ ResponseTriggered => res \in Entries
      /\ seg \in Nat /\ total \in Nat
  <2>1. pc # "idle" => entry \in Entries /\ Body \in Entries
    BY BodyTyped
  <2>2. Body \in Entries => Segments[Body] \in Nat /\ Segments[Body] \in AllSegments
    BY EntryFacts
  <2>3. (ResponseTriggered => res \in Entries) /\ seg \in Nat /\ total \in Nat
    BY BodyTyped
  <2> QED
    BY <2>1, <2>2, <2>3, SlotOrder
<1>c. {"dropped", "overwritten", "torn", "reset", "overtaken", "lost"} \subseteq Faults
  BY DEF Faults
<1>d. MaxBeats \in Nat /\ MaxErrors \in Nat /\ MaxLosses \in Nat
  BY BoundAssumption
<1> HIDE DEF TypeOK
<1> USE DEF resVars, slotVars, rxVars, history, mainVars, At
<1>1. CASE SendResponse
  BY <1>0, <1>a, <1>b, <1>1 DEF SendResponse
<1>2. CASE SendBroadcast
  BY <1>0, <1>a, <1>b, <1>2 DEF SendBroadcast
<1>3. CASE Start
  <2>1. pc # "idle"
    BY <1>3 DEF Start
  <2>2. started' \in Seq(Entries)
    BY <1>0, <1>b, <1>3, <2>1 DEF Start
  <2>3. total' \in AllSegments /\ tx_count' \in Int
    BY <1>b, <1>3, <2>1 DEF Start
  <2> QED
    BY <1>0, <1>a, <1>b, <1>3, <2>2, <2>3 DEF Start
<1>e. ASSUME AfterFrame
      PROVE  /\ num' \in Slots /\ copy' \subseteq Slots /\ pc' \in {"stat", "idle"}
             /\ seg' \in Nat /\ total' \in AllSegments \cup {0} /\ entry' \in Entries \cup {0}
             /\ isRes' \in BOOLEAN /\ ResponseTriggered' \in BOOLEAN
  <2>1. /\ num' = Least(Slots) /\ copy' = {}
        /\ \/ /\ seg < total
              /\ pc' = "stat" /\ seg' = seg + 1
              /\ UNCHANGED <<ResponseTriggered, entry, isRes, total>>
           \/ /\ pc' = "idle" /\ entry' = 0 /\ isRes' = FALSE /\ seg' = 0 /\ total' = 0
              /\ ResponseTriggered' \in BOOLEAN
    BY <1>e DEF AfterFrame
  <2>2. num' \in Slots /\ copy' \subseteq Slots
    BY <1>b, <2>1
  <2>3. pc' \in {"stat", "idle"} /\ seg' \in Nat /\ total' \in AllSegments \cup {0}
        /\ entry' \in Entries \cup {0}
    BY <1>0, <2>1
  <2>4. isRes' \in BOOLEAN /\ ResponseTriggered' \in BOOLEAN
    <3>1. (isRes' = isRes \/ isRes' = FALSE)
          /\ (ResponseTriggered' = ResponseTriggered \/ ResponseTriggered' \in BOOLEAN)
      BY <2>1
    <3> QED
      BY <1>0, <3>1
  <2> QED
    BY <2>2, <2>3, <2>4
<1>4. CASE Drop
  <2>1. AfterFrame /\ faults' = faults \cup {"dropped"} /\ vanished' = vanished + 1
        /\ UNCHANGED <<res, made, slotVars, STAT, hung, rxVars, started, beats, errors>>
    BY <1>4 DEF Drop
  <2>2. faults' \subseteq Faults /\ vanished' \in Nat
    BY <1>0, <1>c, <2>1
  <2> QED
    BY <1>0, <1>a, <1>e, <2>1, <2>2
<1>5. CASE NoError
  BY <1>0, <1>a, <1>5 DEF NoError
<1>6. CASE TryNext
  BY <1>0, <1>a, <1>6, SlotOrder DEF TryNext
<1>7. CASE FindFree
  BY <1>0, <1>a, <1>7 DEF FindFree
<1>8. CASE ReadSignals
  BY <1>0, <1>a, <1>8 DEF ReadSignals
<1>9. CASE WriteSignals
  BY <1>0, <1>a, <1>9 DEF WriteSignals
<1>10. CASE Transmit
  <2>1. AfterFrame /\ object' = [object EXCEPT ![num] = Frame(entry, Body, seg)]
        /\ UNCHANGED <<res, made, msgSignals, tx_count, done, STAT, hung, rxVars, started, beats, errors>>
    BY <1>10 DEF Transmit
  <2>2. Frame(entry, Body, seg) \in FrameType
    BY <1>10, BodyTyped DEF Transmit
  <2>3. faults' \subseteq Faults /\ vanished' \in Nat
    BY <1>0, <1>c, <1>10 DEF Transmit
  <2>4. object' \in [Slots -> FrameType \cup {Beat, None}]
    BY <1>0, <2>1, <2>2
  <2> QED
    BY <1>0, <1>a, <1>e, <2>1, <2>3, <2>4
<1>11. CASE Request
  BY <1>0, <1>a, <1>b, <1>c, <1>11 DEF Request
<1>12. CASE Heartbeat
  <2>1. beats' \in 0 .. MaxBeats /\ faults' \subseteq Faults /\ vanished' \in Nat /\ hung' \in BOOLEAN
        /\ UNCHANGED <<mainVars, resVars, tx_count, done, STAT, rxVars, started, errors>>
    <3>1. beats < MaxBeats /\ beats' = beats + 1
          /\ UNCHANGED <<mainVars, resVars, tx_count, done, STAT, rxVars, started, errors>>
      BY <1>12 DEF Heartbeat
    <3>2. beats' \in 0 .. MaxBeats
      BY <1>0, <1>d, <3>1
    <3>3. (hung' = TRUE \/ hung' = hung) /\ (faults' = faults \/ faults' = faults \cup {"overwritten"})
          /\ (vanished' = vanished \/ vanished' = vanished + 1)
      BY <1>12 DEF Heartbeat
    <3>4. hung' \in BOOLEAN
      BY <1>0, <3>3
    <3>5. faults' \subseteq Faults /\ vanished' \in Nat
      BY <1>0, <1>c, <3>3
    <3> QED
      BY <3>1, <3>2, <3>4, <3>5
  <2>2. object' \in [Slots -> FrameType \cup {Beat, None}] /\ msgSignals' \subseteq Slots
    BY <1>0, <1>12 DEF Heartbeat
  <2> QED
    BY <1>0, <1>a, <2>1, <2>2
<1>13. CASE \E n \in Slots : CAN_tx(n)
  BY <1>0, <1>a, <1>13 DEF CAN_tx
<1>14. CASE CAN_error
  <2>1. Cardinality(EntryPending) \in Nat /\ Cardinality(done) \in Nat
    BY SlotFacts
  <2>2. vanished' \in Nat /\ object' \in [Slots -> FrameType \cup {Beat, None}]
    BY <1>0, <1>14, <2>1 DEF CAN_error
  <2> QED
    BY <1>0, <1>a, <1>b, <1>c, <1>14, <2>2 DEF CAN_error
<1>15. CASE SendOut
  <2>1. PICK n \in Pending :
          /\ object' = [object EXCEPT ![n] = None] /\ done' = done \cup {n} /\ STAT' = FALSE
          /\ vanished' = IF n \in done THEN vanished + 1 ELSE vanished
          /\ LET f == object[n]
                 over == IF f.kind = "entry" /\ Overtakes(f) THEN {"overtaken"} ELSE {}
             IN \/ Receive(f) /\ faults' = faults \cup over /\ UNCHANGED losses
                \/ /\ f.kind = "entry" /\ losses < MaxLosses
                   /\ losses' = losses + 1
                   /\ faults' = faults \cup over \cup {"lost"}
                   /\ UNCHANGED <<rxTable, delivered>>
          /\ UNCHANGED <<mainVars, resVars, msgSignals, tx_count, hung, started, beats, errors>>
    BY <1>15 DEF SendOut
  <2>2. n \in Slots /\ object[n] \in FrameType \cup {Beat}
    BY <1>0, <2>1 DEF Pending
  <2>3. rxTable' \in RxTable /\ delivered' \in Seq(Record)
    BY <1>0, <2>1, <2>2, ReceiveTyped
  <2>4. faults' \subseteq Faults /\ losses' \in 0 .. MaxLosses /\ vanished' \in Nat
    BY <1>0, <1>c, <1>d, <2>1
  <2>5. object' \in [Slots -> FrameType \cup {Beat, None}] /\ done' \subseteq Slots
    BY <1>0, <2>1, <2>2
  <2> QED
    BY <1>0, <1>a, <2>1, <2>3, <2>4, <2>5
<1>16. CASE BusError
  BY <1>0, <1>a, <1>d, <1>16 DEF BusError
<1>17. CASE UNCHANGED vars
  BY <1>0, <1>a, <1>17 DEF vars
<1> QED
  BY <1>1, <1>2, <1>3, <1>4, <1>5, <1>6, <1>7, <1>8, <1>9, <1>10, <1>11, <1>12, <1>13, <1>14,
     <1>15, <1>16, <1>17 DEF Next, MainStep

(* Each entry is sent once.                                                *)
LEMMA SentSame ==
  ASSUME SentOnce, UNCHANGED <<entry, isRes, seg, total, resVars, started>>,
         pc' = pc \/ (Sending /\ Sending')
  PROVE  SentOnce'
<1>1. UNCHANGED <<entry, isRes, seg, total, res, ResponseTriggered, made, started>>
  BY DEF resVars
<1>2. (pc' = "idle" <=> pc = "idle") /\ (pc' = "wait" <=> pc = "wait") /\ (Sending' <=> Sending)
  BY DEF Sending
<1>3. \A e : WasStarted(e)' <=> WasStarted(e)
  BY <1>1 DEF WasStarted
<1>4. (WasStarted(entry)' <=> WasStarted(entry)) /\ (WasStarted(res)' <=> WasStarted(res))
  BY <1>1 DEF WasStarted
<1> HIDE DEF Sending
<1> QED
  BY <1>1, <1>2, <1>4 DEF SentOnce

LEMMA SentStep == TypeOK /\ SentOnce /\ [Next]_vars => SentOnce'
<1> SUFFICES ASSUME TypeOK, SentOnce, [Next]_vars PROVE SentOnce'
  OBVIOUS
<1>0. /\ pc \in {"idle", "wait", "stat", "check", "read", "write", "transmit"}
      /\ entry \in Nat /\ seg \in Nat /\ total \in Nat /\ res \in Nat /\ made \in Nat
      /\ started \in Seq(Entries) /\ \A i \in DOMAIN started : started[i] \in Nat
  <2>1. Entries \subseteq Nat
    BY EntryFacts
  <2>2. /\ pc \in {"idle", "wait", "stat", "check", "read", "write", "transmit"}
        /\ entry \in Nat /\ seg \in Nat /\ res \in Nat /\ made \in Nat
    BY <2>1 DEF TypeOK
  <2>3. started \in Seq(Entries)
    BY DEF TypeOK
  <2>4. \A i \in DOMAIN started : started[i] \in Entries
    BY <2>3
  <2> QED
    BY <2>1, <2>2, <2>3, <2>4, BodyTyped
<1>1. CASE SendResponse
  <2>1. /\ pc = "idle" /\ ResponseTriggered /\ pc' = "wait" /\ entry' = res /\ isRes' = TRUE
        /\ UNCHANGED <<seg, total, res, ResponseTriggered, made, started>>
    BY <1>1 DEF SendResponse, At, resVars, history
  <2>2. res # 0 /\ ~WasStarted(res) /\ ~isRes
    BY <2>1 DEF SentOnce
  <2>3. ~WasStarted(entry)' /\ (WasStarted(res)' <=> WasStarted(res))
    BY <2>1, <2>2 DEF WasStarted
  <2>4. ~Sending'
    BY <2>1 DEF Sending
  <2> QED
    BY <2>1, <2>2, <2>3, <2>4 DEF SentOnce
<1>2. CASE SendBroadcast
  <2>1. /\ pc = "idle" /\ pc' = "wait" /\ entry' = made + 1 /\ made' = made + 1 /\ isRes' = FALSE
        /\ UNCHANGED <<seg, total, res, ResponseTriggered, started>>
    BY <1>2 DEF SendBroadcast, At, history
  <2>2. res <= made /\ seg <= total /\ (\A i \in DOMAIN started : started[i] <= made) /\ ~isRes
        /\ (\A i, j \in DOMAIN started : started[i] = started[j] => i = j)
        /\ (ResponseTriggered => res # 0 /\ ~WasStarted(res))
    BY <2>1 DEF SentOnce
  <2>3. (\A i \in DOMAIN started : started[i] <= made + 1) /\ res <= made + 1 /\ res # made + 1
        /\ made + 1 # 0
    BY <1>0, <2>2
  <2>4. ~WasStarted(entry)' /\ (WasStarted(res)' <=> WasStarted(res))
    <3>1. \A i \in DOMAIN started : started[i] # made + 1
      BY <1>0, <2>2
    <3> QED
      BY <2>1, <3>1 DEF WasStarted
  <2>5. ~Sending' /\ entry' <= made'
    BY <1>0, <2>1 DEF Sending
  <2> QED
    BY <2>1, <2>2, <2>3, <2>4, <2>5 DEF SentOnce
<1>3. CASE Start
  <2>1. /\ pc = "wait" /\ pc' = "stat" /\ seg' = 0 /\ total' = Segments[Body]
        /\ started' = Append(started, entry)
        /\ UNCHANGED <<entry, isRes, res, ResponseTriggered, made>>
    BY <1>3 DEF Start, At, resVars
  <2>2. total' \in Nat
    BY <2>1, BodyTyped, EntryFacts
  <2>3. /\ entry <= made /\ res <= made /\ (\A i \in DOMAIN started : started[i] <= made)
        /\ (\A i, j \in DOMAIN started : started[i] = started[j] => i = j)
        /\ entry # 0 /\ (isRes => res # 0) /\ ~WasStarted(entry)
        /\ (ResponseTriggered => res # 0)
        /\ (ResponseTriggered /\ ~isRes => res # entry /\ ~WasStarted(res))
    BY <2>1 DEF SentOnce
  <2>a. entry \in Entries
    BY <2>1, BodyTyped
  <2>4. DOMAIN started = 1 .. Len(started) /\ Len(started) \in Nat /\ Len(started') = Len(started) + 1
        /\ DOMAIN started' = 1 .. Len(started) + 1 /\ started'[Len(started) + 1] = entry
        /\ \A i \in 1 .. Len(started) : started'[i] = started[i]
    BY <1>0, <2>1, <2>a
  <2>5. \A i \in DOMAIN started' : (i \in DOMAIN started /\ started'[i] = started[i])
                                  \/ (i = Len(started) + 1 /\ started'[i] = entry)
    BY <2>4
  <2>6. \A i \in DOMAIN started' : started'[i] <= made
    BY <2>3, <2>5
  <2>7. \A i, j \in DOMAIN started' : started'[i] = started'[j] => i = j
    BY <2>3, <2>5 DEF WasStarted
  <2>8. ResponseTriggered /\ ~isRes => ~WasStarted(res)'
    BY <2>1, <2>3, <2>5 DEF WasStarted
  <2>9. started' # <<>> /\ started'[Len(started')] = entry
    BY <2>4
  <2>10. seg' <= total'
    BY <2>1, <2>2
  <2> QED
    BY <2>1, <2>3, <2>6, <2>7, <2>8, <2>9, <2>10 DEF SentOnce
<1>4. ASSUME Sending, AfterFrame, UNCHANGED <<res, made, started>> PROVE SentOnce'
  <2>1. CASE seg < total /\ pc' = "stat" /\ seg' = seg + 1
             /\ UNCHANGED <<ResponseTriggered, entry, isRes, total>>
    <3>1. seg' <= total'
      BY <1>0, <2>1
    <3>2. WasStarted(res)' <=> WasStarted(res)
      BY <1>4 DEF WasStarted
    <3>3. pc # "idle" /\ pc' # "idle" /\ pc' # "wait"
      BY <1>4, <2>1 DEF Sending
    <3> QED
      BY <1>4, <2>1, <3>1, <3>2, <3>3 DEF SentOnce
  <2>2. CASE /\ pc' = "idle" /\ entry' = 0 /\ isRes' = FALSE /\ seg' = 0 /\ total' = 0
             /\ ResponseTriggered' = (ResponseTriggered /\ ~isRes)
    <3>1. seg' <= total' /\ entry' <= made' /\ ~Sending'
      BY <1>0, <1>4, <2>2 DEF Sending
    <3>2. WasStarted(res)' <=> WasStarted(res)
      BY <1>4 DEF WasStarted
    <3> QED
      BY <1>4, <2>2, <3>1, <3>2 DEF SentOnce
  <2> QED
    BY <1>4, <2>1, <2>2 DEF AfterFrame
<1>5. CASE Drop \/ Transmit
  BY <1>4, <1>5 DEF Drop, Transmit, At, Sending
<1>6. CASE NoError \/ TryNext \/ FindFree \/ ReadSignals \/ WriteSignals
  <2>1. Sending /\ Sending'
    BY <1>6 DEF NoError, TryNext, FindFree, ReadSignals, WriteSignals, At, Sending
  <2>2. UNCHANGED <<entry, isRes, seg, total, resVars, started>>
    BY <1>6 DEF NoError, TryNext, FindFree, ReadSignals, WriteSignals, history
  <2> QED
    BY <2>1, <2>2, SentSame
<1>7. CASE Request
  <2>1. /\ res' = made + 1 /\ made' = made + 1 /\ ResponseTriggered' = TRUE
        /\ UNCHANGED <<pc, entry, isRes, seg, total, started>>
    BY <1>7 DEF Request, mainVars
  <2>2. /\ entry <= made /\ seg <= total /\ (\A i \in DOMAIN started : started[i] <= made)
        /\ (\A i, j \in DOMAIN started : started[i] = started[j] => i = j)
    BY DEF SentOnce
  <2>3. /\ \A i \in DOMAIN started : started[i] <= made + 1 /\ started[i] # made + 1
        /\ entry <= made + 1 /\ entry # made + 1 /\ made + 1 # 0 /\ made + 1 <= made + 1
    BY <1>0, <2>2
  <2>4. ~WasStarted(res)' /\ (WasStarted(entry)' <=> WasStarted(entry))
    BY <2>1, <2>3 DEF WasStarted
  <2>5. Sending' <=> Sending
    BY <2>1 DEF Sending
  <2> HIDE DEF Sending
  <2> QED
    BY <2>1, <2>2, <2>3, <2>4, <2>5 DEF SentOnce
<1>8. CASE Heartbeat \/ (\E n \in Slots : CAN_tx(n)) \/ CAN_error \/ SendOut \/ BusError \/ UNCHANGED vars
  <2>1. UNCHANGED <<pc, entry, isRes, seg, total, resVars, started>>
    BY <1>8 DEF Heartbeat, CAN_tx, CAN_error, SendOut, BusError, vars, mainVars, history
  <2> QED
    BY <2>1, SentSame
<1> QED
  BY <1>1, <1>2, <1>3, <1>5, <1>6, <1>7, <1>8 DEF Next, MainStep

----------------------------------------------------------------------------
(* Without heartbeats and resets.                                          *)
LEMMA CalmSteps ==
  ASSUME TypeOK, [Next]_vars, Calm'
  PROVE  /\ Calm
         /\ \/ SendResponse \/ SendBroadcast \/ Start \/ Drop \/ NoError \/ TryNext \/ FindFree
            \/ ReadSignals \/ WriteSignals \/ Transmit \/ Request \/ (\E n \in Slots : CAN_tx(n))
            \/ SendOut \/ BusError \/ UNCHANGED vars
<1>1. beats \in Nat /\ faults \subseteq Faults
  BY BoundAssumption DEF TypeOK
<1>2. beats' = 0 /\ "reset" \notin faults'
  BY DEF Calm
<1>3. ~Heartbeat /\ ~CAN_error
  BY <1>1, <1>2 DEF Heartbeat, CAN_error
<1>4. (beats' = beats) /\ (faults \subseteq faults')
  <2>1. beats' = beats
    BY <1>3 DEF Next, MainStep, SendResponse, SendBroadcast, Start, Drop, NoError, TryNext, FindFree,
       ReadSignals, WriteSignals, Transmit, Request, CAN_tx, SendOut, BusError, vars
  <2>2. faults \subseteq faults'
    BY <1>3 DEF Next, MainStep, SendResponse, SendBroadcast, Start, Drop, NoError, TryNext, FindFree,
       ReadSignals, WriteSignals, Transmit, Request, CAN_tx, SendOut, BusError, vars, history
  <2> QED
    BY <2>1, <2>2
<1> QED
  BY <1>2, <1>3, <1>4 DEF Next, MainStep, Calm

LEMMA SlotsMarkedStep ==
  ASSUME TypeOK, SlotsMarked, [Next]_vars, Calm'
  PROVE  SlotsMarked'
<1> USE DEF Slot
<1>0. /\ msgSignals \subseteq Slots /\ done \subseteq Slots /\ num \in Slots /\ copy \subseteq Slots
      /\ object \in [Slots -> FrameType \cup {Beat, None}]
  BY DEF TypeOK
<1>1. /\ \A n \in Slots : object[n] # None => Slot(n) /\ n \in msgSignals /\ n \notin done
      /\ done \subseteq msgSignals
      /\ pc = "write" => \A n \in Slots : object[n] # None \/ n \in done => n \in copy
      /\ pc \in {"read", "write", "transmit"} => object[num] = None /\ num \notin done
      /\ pc = "transmit" => num \in msgSignals
  BY DEF SlotsMarked
<1>2. ASSUME UNCHANGED <<object, msgSignals, done>>, pc' \notin {"read", "write", "transmit"}
      PROVE  SlotsMarked'
  BY <1>1, <1>2 DEF SlotsMarked
<1>3. ASSUME UNCHANGED <<object, msgSignals, done, pc, num, copy>> PROVE SlotsMarked'
  BY <1>3, Zenon DEF SlotsMarked
<1>4. CASE SendResponse \/ SendBroadcast \/ Start \/ Drop \/ NoError \/ TryNext
  <2>1. UNCHANGED <<object, msgSignals, done>>
    BY <1>4 DEF SendResponse, SendBroadcast, Start, Drop, NoError, TryNext, slotVars
  <2>2. pc' \notin {"read", "write", "transmit"}
    BY <1>4 DEF SendResponse, SendBroadcast, Start, Drop, NoError, TryNext, AfterFrame, At
  <2> QED
    BY <1>2, <2>1, <2>2
<1>5. CASE FindFree
  <2>1. pc' = "read" /\ num \notin msgSignals /\ UNCHANGED <<object, msgSignals, done, num>>
    BY <1>5 DEF FindFree, slotVars
  <2> QED
    BY <1>0, <1>1, <2>1 DEF SlotsMarked
<1>6. CASE ReadSignals
  <2>1. pc = "read" /\ pc' = "write" /\ copy' = msgSignals /\ UNCHANGED <<object, msgSignals, done, num>>
    BY <1>6 DEF ReadSignals, slotVars, At
  <2> QED
    BY <1>0, <1>1, <2>1 DEF SlotsMarked
<1>7. CASE WriteSignals
  <2>1. pc = "write" /\ pc' = "transmit" /\ msgSignals' = copy \cup {num} /\ UNCHANGED <<object, done, num>>
    BY <1>7 DEF WriteSignals, At
  <2> QED
    BY <1>0, <1>1, <2>1 DEF SlotsMarked
<1>8. CASE Transmit
  <2>1. pc = "transmit" /\ object' = [object EXCEPT ![num] = Frame(entry, Body, seg)]
        /\ UNCHANGED <<msgSignals, done>> /\ pc' \in {"stat", "idle"}
    BY <1>8 DEF Transmit, At, AfterFrame
  <2>2. Frame(entry, Body, seg).kind = "entry"
    BY DEF Frame
  <2> QED
    BY <1>0, <1>1, <2>1, <2>2 DEF SlotsMarked
<1>9. CASE \E n \in Slots : CAN_tx(n)
  <2>1. PICK n \in Slots : n \in done /\ msgSignals' = msgSignals \ {n} /\ done' = done \ {n}
                           /\ UNCHANGED <<object, pc, num, copy>>
    BY <1>9 DEF CAN_tx, mainVars
  <2> QED
    BY <1>0, <1>1, <2>1 DEF SlotsMarked
<1>10. CASE SendOut
  <2>1. PICK n \in Pending : object' = [object EXCEPT ![n] = None] /\ done' = done \cup {n}
                             /\ UNCHANGED <<msgSignals, pc, num, copy>>
    BY <1>10 DEF SendOut, mainVars
  <2>2. n \in Slots /\ object[n] # None
    BY <2>1 DEF Pending
  <2>3. object'[n] = None /\ \A m \in Slots \ {n} : object'[m] = object[m]
    BY <1>0, <2>1, <2>2
  <2>4. n \in msgSignals /\ (pc = "write" => n \in copy)
        /\ (pc \in {"read", "write", "transmit"} => n # num)
    BY <1>1, <2>2
  <2> QED
    BY <1>0, <1>1, <2>1, <2>2, <2>3, <2>4 DEF SlotsMarked
<1>11. CASE Request \/ BusError \/ UNCHANGED vars
  BY <1>3, <1>11 DEF Request, BusError, vars, slotVars, mainVars
<1> QED
  BY <1>4, <1>5, <1>6, <1>7, <1>8, <1>9, <1>10, <1>11, CalmSteps

(* What is pending after a step.                                           *)
LEMMA PendingAfter ==
  ASSUME TypeOK, SlotsMarked, [Next]_vars, Calm'
  PROVE  /\ Transmit => /\ EntryPending' = EntryPending \cup {num} /\ num \notin EntryPending
                        /\ object'[num] = Frame(entry, Body, seg)
                        /\ \A m \in Slots : m # num => object'[m] = object[m]
                        /\ UNCHANGED <<msgSignals, done, tx_count>>
         /\ SendOut => \E n \in EntryPending :
                        /\ EntryPending' = EntryPending \ {n} /\ done' = done \cup {n} /\ n \notin done
                        /\ \A m \in EntryPending : n <= m
                        /\ object'[n] = None /\ \A m \in Slots : m # n => object'[m] = object[m]
                        /\ UNCHANGED <<msgSignals, tx_count, mainVars, started>>
                        /\ Overtakes(object[n]) \/ faults' = faults \/ faults' = faults \cup {"lost"}
         /\ ~Transmit /\ ~SendOut => UNCHANGED <<object, EntryPending>>
<1>0. num \in Slots /\ object \in [Slots -> FrameType \cup {Beat, None}] /\ None.kind = "none"
      /\ \A n \in Slots : object[n] # None => Slot(n) /\ n \in msgSignals /\ n \notin done
  BY SlotFacts DEF TypeOK, SlotsMarked
<1>1. ASSUME Transmit
      PROVE  /\ EntryPending' = EntryPending \cup {num} /\ num \notin EntryPending
             /\ object'[num] = Frame(entry, Body, seg)
             /\ \A m \in Slots : m # num => object'[m] = object[m]
             /\ UNCHANGED <<msgSignals, done, tx_count>>
  <2>1. pc = "transmit" /\ object' = [object EXCEPT ![num] = Frame(entry, Body, seg)]
        /\ UNCHANGED <<msgSignals, done, tx_count>>
    BY <1>1 DEF Transmit, At
  <2>2. object[num] = None
    BY <2>1 DEF SlotsMarked
  <2>3. object'[num] = Frame(entry, Body, seg) /\ \A m \in Slots : m # num => object'[m] = object[m]
    BY <1>0, <2>1
  <2>4. Frame(entry, Body, seg).kind = "entry"
    BY DEF Frame
  <2> QED
    BY <1>0, <2>1, <2>2, <2>3, <2>4 DEF EntryPending
<1>2. ASSUME SendOut
      PROVE  \E n \in EntryPending :
               /\ EntryPending' = EntryPending \ {n} /\ done' = done \cup {n} /\ n \notin done
               /\ \A m \in EntryPending : n <= m
               /\ object'[n] = None /\ \A m \in Slots : m # n => object'[m] = object[m]
               /\ UNCHANGED <<msgSignals, tx_count, mainVars, started>>
               /\ Overtakes(object[n]) \/ faults' = faults \/ faults' = faults \cup {"lost"}
  <2>1. PICK n \in Pending :
          /\ \A m \in Pending : n <= m
          /\ object' = [object EXCEPT ![n] = None] /\ done' = done \cup {n}
          /\ UNCHANGED <<mainVars, resVars, msgSignals, tx_count, hung, started, beats, errors>>
          /\ LET f == object[n]
                 over == IF f.kind = "entry" /\ Overtakes(f) THEN {"overtaken"} ELSE {}
             IN faults' = faults \cup over \/ faults' = faults \cup over \cup {"lost"}
    BY <1>2 DEF SendOut
  <2>2. n \in Slots /\ object[n] # None
    BY <2>1 DEF Pending
  <2>3. Slot(n) /\ n \notin done /\ n \in EntryPending
    BY <1>0, <2>2 DEF EntryPending, Slot
  <2>4. EntryPending \subseteq Pending
    BY <1>0 DEF EntryPending, Pending
  <2>5. object'[n] = None /\ \A m \in Slots : m # n => object'[m] = object[m]
    BY <1>0, <2>1, <2>2
  <2>6. EntryPending' = EntryPending \ {n}
    BY <1>0, <2>5 DEF EntryPending
  <2>7. Overtakes(object[n]) \/ faults' = faults \/ faults' = faults \cup {"lost"}
    BY <2>1
  <2> QED
    BY <2>1, <2>3, <2>4, <2>5, <2>6, <2>7
<1>3. ASSUME ~Transmit, ~SendOut PROVE UNCHANGED <<object, EntryPending>>
  <2>1. object' = object
    BY <1>3, CalmSteps DEF SendResponse, SendBroadcast, Start, Drop, NoError, TryNext, FindFree,
       ReadSignals, WriteSignals, Request, CAN_tx, BusError, vars, slotVars
  <2> QED
    BY <2>1 DEF EntryPending
<1> QED
  BY <1>1, <1>2, <1>3

LEMMA FramesCountedStep ==
  ASSUME TypeOK, TypeOK', SentOnce, SlotsMarked, FramesCounted, [Next]_vars, Calm'
  PROVE  FramesCounted'
<1> DEFINE P == Cardinality(EntryPending)
           D == Cardinality(done)
<1>0. /\ tx_count \in Int /\ P \in Nat /\ D \in Nat /\ IsFiniteSet(EntryPending) /\ IsFiniteSet(done)
      /\ seg \in Nat /\ total \in Nat /\ seg <= total
      /\ tx_count >= ToSend + P + D
  BY SlotFacts, BodyTyped DEF TypeOK, FramesCounted, SentOnce
<1>1. ToSend = IF Sending THEN total - seg + 1 ELSE 0
  BY DEF ToSend, Sending
<1>2. ToSend' = IF Sending' THEN total' - seg' + 1 ELSE 0
  BY DEF ToSend, Sending
<1>3. ASSUME AfterFrame, Sending PROVE ToSend' = ToSend - 1 /\ ToSend \in Nat
  <2>1. \/ seg < total /\ pc' = "stat" /\ seg' = seg + 1 /\ total' = total
        \/ seg = total /\ pc' = "idle"
    BY <1>3 DEF AfterFrame
  <2> QED
    BY <1>0, <1>1, <1>2, <1>3, <2>1 DEF Sending
<1>4. ASSUME UNCHANGED <<tx_count, object, done, seg, total>>, Sending' <=> Sending
      PROVE  FramesCounted'
  <2>1. EntryPending' = EntryPending /\ ToSend' = ToSend
    BY <1>1, <1>2, <1>4 DEF EntryPending
  <2> QED
    BY <1>4, <2>1 DEF FramesCounted
<1>5. CASE SendResponse \/ SendBroadcast \/ NoError \/ TryNext \/ FindFree \/ ReadSignals
           \/ WriteSignals \/ Request \/ BusError \/ UNCHANGED vars
  <2>1. UNCHANGED <<tx_count, object, done, seg, total>>
    BY <1>5 DEF SendResponse, SendBroadcast, NoError, TryNext, FindFree, ReadSignals, WriteSignals,
       Request, BusError, vars, slotVars, mainVars
  <2>2. Sending' <=> Sending
    BY <1>5 DEF Sending, At, SendResponse, SendBroadcast, NoError, TryNext, FindFree, ReadSignals,
       WriteSignals, Request, BusError, vars, mainVars
  <2> QED
    BY <1>4, <2>1, <2>2
<1>6. CASE Start
  <2>1. /\ pc = "wait" /\ pc' = "stat" /\ seg' = 0 /\ total' = Segments[Body] /\ tx_count <= 0
        /\ tx_count' = Segments[Body] + 1 /\ UNCHANGED <<object, done>>
    BY <1>6 DEF Start, At
  <2>2. ToSend = 0 /\ P = 0 /\ D = 0
    <3>1. ToSend = 0
      BY <1>1, <2>1 DEF Sending
    <3> QED
      BY <1>0, <2>1, <3>1
  <2>3. EntryPending' = EntryPending /\ ToSend' = Segments[Body] - 0 + 1
    BY <1>2, <2>1 DEF EntryPending, Sending
  <2>4. Segments[Body] \in Nat
    BY <2>1, BodyTyped, EntryFacts
  <2> HIDE DEF P, D
  <2>5. tx_count' >= ToSend' + P + D
    BY <2>1, <2>2, <2>3, <2>4
  <2> QED
    BY <2>1, <2>3, <2>5 DEF FramesCounted, P, D
<1>7. CASE Drop
  <2>1. AfterFrame /\ Sending /\ UNCHANGED <<tx_count, object, done>>
    BY <1>7 DEF Drop, At, Sending, slotVars
  <2>2. EntryPending' = EntryPending
    BY <2>1 DEF EntryPending
  <2>3. ToSend' = ToSend - 1 /\ ToSend \in Nat
    BY <1>3, <2>1
  <2> HIDE DEF P, D
  <2>4. tx_count >= ToSend' + P + D
    BY <1>0, <2>3
  <2> QED
    BY <2>1, <2>2, <2>4 DEF FramesCounted, P, D
<1>8. CASE Transmit
  <2>1. AfterFrame /\ Sending
    BY <1>8 DEF Transmit, At, Sending
  <2>2. EntryPending' = EntryPending \cup {num} /\ num \notin EntryPending /\ UNCHANGED <<done, tx_count>>
    BY <1>8, PendingAfter
  <2>3. Cardinality(EntryPending') = P + 1
    BY <1>0, <2>2, FS_AddElement
  <2>4. ToSend' = ToSend - 1 /\ ToSend \in Nat
    BY <1>3, <2>1
  <2> HIDE DEF P, D
  <2>5. tx_count >= ToSend' + (P + 1) + D
    BY <1>0, <2>4
  <2> QED
    BY <2>2, <2>3, <2>5 DEF FramesCounted, P, D
<1>9. CASE \E n \in Slots : CAN_tx(n)
  <2>1. PICK n \in Slots : n \in done /\ done' = done \ {n} /\ tx_count' = tx_count - 1
                           /\ UNCHANGED <<object, pc, seg, total>>
    BY <1>9 DEF CAN_tx, mainVars
  <2>2. EntryPending' = EntryPending /\ ToSend' = ToSend
    BY <1>1, <1>2, <2>1 DEF EntryPending, Sending
  <2>3. Cardinality(done') = D - 1
    BY <1>0, <2>1, FS_RemoveElement
  <2>4. ToSend \in Int
    BY <1>0, <1>1
  <2> HIDE DEF P, D
  <2>5. tx_count' >= ToSend + P + (D - 1)
    BY <1>0, <2>1, <2>4
  <2> QED
    BY <2>2, <2>3, <2>5 DEF FramesCounted, P, D
<1>10. CASE SendOut
  <2>1. PICK n \in EntryPending :
               /\ EntryPending' = EntryPending \ {n} /\ done' = done \cup {n} /\ n \notin done
               /\ UNCHANGED <<tx_count, mainVars>>
    BY <1>10, PendingAfter
  <2>2. Cardinality(EntryPending') = P - 1 /\ Cardinality(done') = D + 1
    BY <1>0, <2>1, FS_AddElement, FS_RemoveElement
  <2>3. ToSend' = ToSend
    BY <1>1, <1>2, <2>1 DEF mainVars, Sending
  <2>4. ToSend \in Int
    BY <1>0, <1>1
  <2> HIDE DEF P, D
  <2>5. tx_count >= ToSend + (P - 1) + (D + 1)
    BY <1>0, <2>4
  <2> QED
    BY <2>1, <2>2, <2>3, <2>5 DEF FramesCounted
<1> QED
  BY <1>5, <1>6, <1>7, <1>8, <1>9, <1>10, CalmSteps

(* CANTransmit starts when no frame is on its way.                         *)
LEMMA StartsAlone ==
  ASSUME TypeOK, SentOnce, FramesCounted, Start
  PROVE  EntryPending = {} /\ done = {}
<1>1. /\ tx_count \in Int /\ Cardinality(EntryPending) \in Nat /\ Cardinality(done) \in Nat
      /\ IsFiniteSet(EntryPending) /\ IsFiniteSet(done)
      /\ tx_count >= ToSend + Cardinality(EntryPending) + Cardinality(done)
  BY SlotFacts DEF TypeOK, FramesCounted
<1>2. ToSend = 0 /\ tx_count <= 0
  BY DEF Start, At, ToSend
<1>3. Cardinality(EntryPending) = 0 /\ Cardinality(done) = 0
  BY <1>1, <1>2
<1> QED
  BY <1>1, <1>3, FS_EmptySet

LEMMA OfLastStep ==
  ASSUME TypeOK, SentOnce, SlotsMarked, FramesCounted, OfLast, [Next]_vars, Calm'
  PROVE  OfLast'
<1>1. CASE Start
  <2>1. EntryPending' = {}
    <3>1. object' = object /\ EntryPending = {}
      BY <1>1, StartsAlone DEF Start
    <3> QED
      BY <3>1 DEF EntryPending
  <2> QED
    BY <2>1 DEF OfLast
<1>2. CASE ~Start
  <2>1. started' = started
    BY <1>2, CalmSteps DEF SendResponse, SendBroadcast, Drop, NoError, TryNext, FindFree, ReadSignals,
       WriteSignals, Transmit, Request, CAN_tx, SendOut, BusError, vars, history
  <2>2. CASE Transmit
    <3>1. /\ EntryPending' = EntryPending \cup {num} /\ object'[num] = Frame(entry, Body, seg)
          /\ \A m \in Slots : m # num => object'[m] = object[m]
      BY <2>2, PendingAfter
    <3>2. started # <<>> /\ started[Len(started)] = entry
      BY <2>2 DEF Transmit, At, SentOnce, Sending
    <3>3. Frame(entry, Body, seg).head = entry
      BY DEF Frame
    <3>4. EntryPending \subseteq Slots
      BY SlotFacts
    <3> QED
      BY <2>1, <3>1, <3>2, <3>3, <3>4 DEF OfLast
  <2>3. CASE SendOut
    <3>1. PICK n \in EntryPending :
            /\ EntryPending' = EntryPending \ {n}
            /\ \A m \in Slots : m # n => object'[m] = object[m]
      BY <2>3, PendingAfter
    <3>2. EntryPending \subseteq Slots
      BY SlotFacts
    <3> QED
      BY <2>1, <3>1, <3>2 DEF OfLast
  <2>4. CASE ~Transmit /\ ~SendOut
    <3>1. UNCHANGED <<object, EntryPending>>
      BY <2>4, PendingAfter
    <3> QED
      BY <2>1, <3>1 DEF OfLast
  <2> QED
    BY <2>2, <2>3, <2>4
<1> QED
  BY <1>1, <1>2

LEMMA FirstStep ==
  ASSUME TypeOK, SentOnce, SlotsMarked, FramesCounted, FirstLowest, [Next]_vars, Calm'
  PROVE  FirstLowest'
<1>0. /\ Slots \subseteq Nat /\ num \in Slots /\ msgSignals \subseteq Slots /\ seg \in Nat
      /\ EntryPending \subseteq Slots /\ done \subseteq Slots
      /\ \A n \in Slots : object[n] # None => n \in EntryPending
      /\ \A n \in EntryPending : object[n] # None /\ n \in msgSignals /\ n \notin done
  BY SlotOrder, SlotFacts DEF TypeOK, SlotsMarked
<1> DEFINE Under(n) == /\ Below(n)
                       /\ pc = "write" => \A m \in Slots : m < n => m \in copy
                       /\ pc \in {"read", "write", "transmit"} => ~(num < n)
           Ahead == /\ EntryPending = {} /\ done = {}
                    /\ pc = "stat" => \A m \in Slots : ~(m < num)
                    /\ Below(num)
                    /\ pc = "write" => \A m \in Slots : m < num => m \in copy
           First == Sending /\ seg = 0
<1>1. /\ \A n \in EntryPending : object[n].seg = 0 => Under(n)
      /\ First => Ahead
  BY DEF FirstLowest
<1>2. ASSUME \A n \in EntryPending' : object'[n].seg = 0 => Under(n)', (First => Ahead)'
      PROVE  FirstLowest'
  BY <1>2 DEF FirstLowest
<1>3. ASSUME NEW n, UNCHANGED <<msgSignals, object, done>> PROVE Below(n)' <=> Below(n)
  BY <1>3 DEF Below, None
<1>4. CASE Start
  <2>1. EntryPending' = {} /\ done' = {} /\ pc' = "stat" /\ num' = Least(Slots)
    <3>1. object' = object /\ EntryPending = {} /\ done = {} /\ done' = done
      BY <1>4, StartsAlone DEF Start
    <3> QED
      BY <1>4, <3>1 DEF EntryPending, Start
  <2>2. \A m \in Slots : ~(m < num')
    BY <2>1, SlotOrder
  <2>3. Below(num)'
    BY <2>2 DEF Below
  <2> QED
    BY <1>2, <2>1, <2>2, <2>3
<1>5. CASE Drop
  <2>1. UNCHANGED <<msgSignals, object, done>> /\ ~First' /\ pc' \in {"stat", "idle"}
    <3>1. AfterFrame /\ UNCHANGED <<msgSignals, object, done>>
      BY <1>5 DEF Drop, slotVars
    <3>2. (pc' = "stat" /\ seg' = seg + 1) \/ pc' = "idle"
      BY <3>1 DEF AfterFrame
    <3> QED
      BY <1>0, <3>1, <3>2 DEF Sending
  <2>2. EntryPending' = EntryPending
    BY <2>1 DEF EntryPending
  <2>3. ASSUME NEW n \in EntryPending, object[n].seg = 0 PROVE Under(n)'
    BY <1>1, <1>3, <2>1, <2>3
  <2> QED
    BY <1>2, <2>1, <2>2, <2>3
<1>6. CASE Transmit
  <2>1. /\ EntryPending' = EntryPending \cup {num} /\ object'[num] = Frame(entry, Body, seg)
        /\ \A m \in Slots : m # num => object'[m] = object[m]
        /\ UNCHANGED <<msgSignals, done>>
    BY <1>6, PendingAfter
  <2>2. pc = "transmit" /\ ~First' /\ pc' \in {"stat", "idle"} /\ Sending
    <3>1. AfterFrame /\ pc = "transmit"
      BY <1>6 DEF Transmit, At
    <3>2. (pc' = "stat" /\ seg' = seg + 1) \/ pc' = "idle"
      BY <3>1 DEF AfterFrame
    <3> QED
      BY <1>0, <3>1, <3>2 DEF Sending
  <2>3. ASSUME NEW n \in Slots, Below(n), ~(num < n) PROVE Below(n)'
    BY <2>1, <2>3 DEF Below, None
  <2>4. ASSUME NEW n \in EntryPending', object'[n].seg = 0 PROVE Below(n)'
    <3>1. CASE n = num
      <4>1. seg = 0
        <5>1. Frame(entry, Body, seg).seg = seg
          BY DEF Frame
        <5> QED
          BY <2>1, <2>4, <3>1, <5>1
      <4>2. Below(num)
        BY <1>1, <2>2, <4>1
      <4> QED
        BY <1>0, <2>3, <3>1, <4>2
    <3>2. CASE n # num
      <4>1. n \in EntryPending /\ object[n].seg = 0
        BY <1>0, <2>1, <2>4, <3>2
      <4>2. Below(n) /\ ~(num < n)
        BY <1>1, <2>2, <4>1
      <4> QED
        BY <1>0, <2>3, <4>1, <4>2
    <3> QED
      BY <3>1, <3>2
  <2> QED
    BY <1>2, <2>2, <2>4
<1>7. CASE \E n \in Slots : CAN_tx(n)
  <2>1. PICK k \in Slots : k \in done /\ msgSignals' = msgSignals \ {k} /\ done' = done \ {k}
                           /\ UNCHANGED <<object, pc, seg, num, copy>>
    BY <1>7 DEF CAN_tx, mainVars
  <2>2. EntryPending' = EntryPending /\ ~First
    BY <1>1, <2>1 DEF EntryPending
  <2>3. ~First'
    BY <2>1, <2>2 DEF Sending
  <2>4. ASSUME NEW n, Below(n) PROVE Below(n)'
    BY <2>1, <2>4 DEF Below, None
  <2>5. ASSUME NEW n \in EntryPending, object[n].seg = 0 PROVE Under(n)'
    BY <1>1, <2>1, <2>4, <2>5
  <2> QED
    BY <1>2, <2>1, <2>2, <2>3, <2>5
<1>8. CASE SendOut
  <2>1. PICK k \in EntryPending :
               /\ EntryPending' = EntryPending \ {k} /\ done' = done \cup {k}
               /\ \A m \in EntryPending : k <= m
               /\ object'[k] = None /\ \A m \in Slots : m # k => object'[m] = object[m]
               /\ UNCHANGED <<msgSignals, mainVars>>
    BY <1>8, PendingAfter
  <2>2. ~First'
    <3>1. ~First
      BY <1>1, <2>1
    <3> QED
      BY <2>1, <3>1 DEF mainVars, Sending
  <2>3. UNCHANGED <<pc, num, copy>>
    BY <2>1 DEF mainVars
  <2>4. ASSUME NEW n \in EntryPending, Below(n) PROVE Below(n)'
    <3>1. ~(k < n)
      BY <1>0, <2>1, <2>4 DEF Below
    <3> QED
      BY <2>1, <2>4, <3>1 DEF Below, None
  <2>5. ASSUME NEW n \in EntryPending', object'[n].seg = 0 PROVE Under(n)'
    <3>1. n \in EntryPending /\ n # k /\ object[n].seg = 0
      BY <1>0, <2>1, <2>5
    <3> QED
      BY <1>1, <2>3, <2>4, <3>1
  <2> QED
    BY <1>2, <2>2, <2>5
<1>9. CASE SendResponse \/ SendBroadcast
  <2>1. UNCHANGED <<msgSignals, object, done>> /\ pc' = "wait"
    BY <1>9 DEF SendResponse, SendBroadcast, slotVars
  <2>2. EntryPending' = EntryPending /\ ~First'
    BY <2>1 DEF EntryPending, Sending
  <2>3. ASSUME NEW n \in EntryPending, object[n].seg = 0 PROVE Under(n)'
    BY <1>1, <1>3, <2>1, <2>3
  <2> QED
    BY <1>2, <2>1, <2>2, <2>3
<1>10. CASE NoError \/ FindFree
  <2>1. UNCHANGED <<msgSignals, object, done, num, seg>> /\ Sending /\ Sending' /\ pc' \in {"check", "read"}
        /\ (pc' = "read" => num \notin msgSignals)
    BY <1>10 DEF NoError, FindFree, slotVars, At, Sending
  <2>2. EntryPending' = EntryPending /\ (First' <=> First)
    BY <2>1 DEF EntryPending
  <2>3. ASSUME NEW n \in EntryPending, object[n].seg = 0 PROVE Under(n)'
    <3>1. Below(n)' /\ Below(n)
      BY <1>1, <1>3, <2>1, <2>3
    <3>2. pc' = "read" => ~(num < n)
      BY <1>0, <2>1, <3>1 DEF Below
    <3> QED
      BY <2>1, <3>1, <3>2
  <2>4. First' => Ahead'
    <3>1. Below(num)' <=> Below(num)
      BY <2>1 DEF Below, None
    <3> QED
      BY <1>1, <2>1, <2>2, <3>1
  <2> QED
    BY <1>2, <2>1, <2>2, <2>3, <2>4
<1>11. CASE TryNext
  <2>1. UNCHANGED <<msgSignals, object, done, seg>> /\ pc' = pc /\ pc = "check"
        /\ num \in msgSignals /\ num' = NextSlot(num)
    BY <1>11 DEF TryNext, slotVars, At
  <2>2. EntryPending' = EntryPending /\ (First' <=> First)
    BY <2>1 DEF EntryPending, Sending
  <2>3. ASSUME NEW n \in EntryPending, object[n].seg = 0 PROVE Under(n)'
    BY <1>1, <1>3, <2>1, <2>3
  <2>4. First' => Ahead'
    <3>1. SUFFICES ASSUME First PROVE Below(num)'
      BY <1>1, <2>1, <2>2
    <3>2. Below(num) /\ EntryPending = {} /\ done = {}
      BY <1>1, <3>1
    <3>3. \A m \in Slots : m < NextSlot(num) => m < num \/ m = num
      BY <1>0, SlotOrder
    <3>4. Below(NextSlot(num))
      BY <1>0, <2>1, <3>2, <3>3 DEF Below
    <3> QED
      BY <2>1, <3>4 DEF Below, None
  <2> QED
    BY <1>2, <2>1, <2>2, <2>3, <2>4
<1>12. CASE ReadSignals
  <2>1. UNCHANGED <<msgSignals, object, done, num, seg>> /\ pc' = "write" /\ pc = "read"
        /\ copy' = msgSignals
    BY <1>12 DEF ReadSignals, slotVars, At
  <2>2. EntryPending' = EntryPending /\ (First' <=> First)
    BY <2>1 DEF EntryPending, Sending
  <2>3. ASSUME NEW n \in EntryPending, object[n].seg = 0 PROVE Under(n)'
    <3>1. Below(n)' /\ Below(n) /\ ~(num < n)
      BY <1>1, <1>3, <2>1, <2>3
    <3> QED
      BY <2>1, <3>1 DEF Below
  <2>4. First' => Ahead'
    <3>1. SUFFICES ASSUME First PROVE Below(num)' /\ \A m \in Slots : m < num => m \in msgSignals
      BY <1>1, <2>1, <2>2
    <3>2. Below(num)
      BY <1>1, <3>1
    <3> QED
      BY <2>1, <3>2 DEF Below, None
  <2> QED
    BY <1>2, <2>1, <2>2, <2>3, <2>4
<1>13. CASE WriteSignals
  <2>1. UNCHANGED <<object, done, num, seg>> /\ pc' = "transmit" /\ pc = "write"
        /\ msgSignals' = copy \cup {num}
    BY <1>13 DEF WriteSignals, At
  <2>2. EntryPending' = EntryPending /\ (First' <=> First)
    BY <2>1 DEF EntryPending, Sending
  <2>3. ASSUME NEW n \in EntryPending, object[n].seg = 0 PROVE Under(n)'
    <3>1. Below(n) /\ ~(num < n) /\ \A m \in Slots : m < n => m \in copy
      BY <1>1, <2>1, <2>3
    <3>2. Below(n)'
      BY <2>1, <3>1 DEF Below, None
    <3> QED
      BY <2>1, <3>1, <3>2
  <2>4. First' => Ahead'
    <3>1. SUFFICES ASSUME First PROVE Below(num)'
      BY <1>1, <2>1, <2>2
    <3>2. Below(num) /\ \A m \in Slots : m < num => m \in copy
      BY <1>1, <2>1, <3>1
    <3> QED
      BY <2>1, <3>2 DEF Below, None
  <2> QED
    BY <1>2, <2>1, <2>2, <2>3, <2>4
<1>14. CASE Request \/ BusError \/ UNCHANGED vars
  <2>1. UNCHANGED <<msgSignals, object, done, num, seg, pc, copy>>
    BY <1>14 DEF Request, BusError, vars, slotVars, mainVars
  <2>2. EntryPending' = EntryPending /\ (First' <=> First)
    BY <2>1 DEF EntryPending, Sending
  <2>3. ASSUME NEW n \in EntryPending, object[n].seg = 0 PROVE Under(n)'
    BY <1>1, <1>3, <2>1, <2>3
  <2>4. First' => Ahead'
    <3>1. Below(num)' <=> Below(num)
      BY <2>1 DEF Below, None
    <3> QED
      BY <1>1, <2>1, <2>2, <3>1
  <2> QED
    BY <1>2, <2>1, <2>2, <2>3, <2>4
<1> QED
  BY <1>4, <1>5, <1>6, <1>7, <1>8, <1>9, <1>10, <1>11, <1>12, <1>13, <1>14, CalmSteps

(* No frame of an entry is overwritten, and none overtakes another.        *)
Untroubled == {"overwritten", "overtaken"} \cap faults = {}

LEMMA UntroubledStep ==
  ASSUME TypeOK, SentOnce, SlotsMarked, OfLast, FirstLowest, Untroubled, [Next]_vars, Calm'
  PROVE  Untroubled'
<1>1. CASE Transmit
  <2>1. object[num] = None
    BY <1>1 DEF Transmit, At, SlotsMarked
  <2>2. faults' = faults
    BY <1>1, <2>1, SlotFacts DEF Transmit
  <2> QED
    BY <2>2 DEF Untroubled
<1>2. CASE SendOut
  <2>1. PICK n \in EntryPending :
          /\ \A m \in EntryPending : n <= m
          /\ Overtakes(object[n]) \/ faults' = faults \/ faults' = faults \cup {"lost"}
    BY <1>2, PendingAfter
  <2>2. ~Overtakes(object[n])
    <3> SUFFICES ASSUME Overtakes(object[n]) PROVE FALSE
      OBVIOUS
    <3>1. PICK k \in EntryPending :
            \/ object[k].seg = 0 /\ object[n].seg > 0
            \/ \E i, j \in DOMAIN started : i < j /\ started[i] = object[k].head /\ started[j] = object[n].head
      BY DEF Overtakes
    <3>2. k \in Slots /\ n \in Slots /\ k \in Nat /\ n \in Nat /\ n <= k /\ object[n] # None
      BY <2>1, SlotFacts, SlotOrder
    <3>3. CASE object[k].seg = 0 /\ object[n].seg > 0
      <4>1. Below(k) /\ k # n
        BY <3>3 DEF FirstLowest
      <4> QED
        BY <3>2, <4>1 DEF Below
    <3>4. CASE \E i, j \in DOMAIN started : i < j /\ started[i] = object[k].head /\ started[j] = object[n].head
      <4>1. PICK i \in DOMAIN started, j \in DOMAIN started :
              i < j /\ started[i] = object[k].head /\ started[j] = object[n].head
        BY <3>4
      <4>2. object[k].head = object[n].head
        BY DEF OfLast
      <4>3. i = j /\ i \in Nat
        <5>1. started \in Seq(Entries)
          BY DEF TypeOK
        <5> QED
          BY <4>1, <4>2, <5>1 DEF SentOnce
      <4> QED
        BY <4>1, <4>3
    <3> QED
      BY <3>1, <3>3, <3>4
  <2> QED
    BY <2>1, <2>2 DEF Untroubled
<1>3. CASE ~Transmit /\ ~SendOut
  <2>1. faults' \subseteq faults \cup {"dropped", "torn"}
    BY <1>3, CalmSteps DEF SendResponse, SendBroadcast, Start, Drop, NoError, TryNext, FindFree,
       ReadSignals, WriteSignals, Request, CAN_tx, BusError, vars, history
  <2> QED
    BY <2>1 DEF Untroubled
<1> QED
  BY <1>1, <1>2, <1>3

LEMMA CalmStep ==
  TypeOK /\ TypeOK' /\ SentOnce /\ InSlots /\ [Next]_vars => InSlots'
<1> SUFFICES ASSUME TypeOK, TypeOK', SentOnce, InSlots, [Next]_vars, Calm'
             PROVE  SlotsMarked' /\ FramesCounted' /\ OfLast' /\ FirstLowest' /\ Untroubled'
  BY DEF InSlots, Untroubled
<1>1. SlotsMarked /\ FramesCounted /\ OfLast /\ FirstLowest /\ Untroubled
  BY CalmSteps DEF InSlots, Untroubled
<1> QED
  BY <1>1, SlotsMarkedStep, FramesCountedStep, OfLastStep, FirstStep, UntroubledStep

LEMMA CalmInit == Init => TypeOK /\ SentOnce /\ InSlots
<1> SUFFICES ASSUME Init PROVE TypeOK /\ SentOnce /\ InSlots
  OBVIOUS
<1>1. /\ pc = "idle" /\ entry = 0 /\ ~isRes /\ seg = 0 /\ total = 0
      /\ num = Least(Slots) /\ copy = {}
      /\ res = 0 /\ ~ResponseTriggered /\ made = 0
      /\ msgSignals = {} /\ tx_count = 0 /\ object = [n \in Slots |-> None] /\ done = {}
      /\ rxTable = None /\ delivered = <<>>
      /\ started = <<>> /\ faults = {} /\ vanished = 0
      /\ beats = 0 /\ errors = 0 /\ losses = 0
  BY DEF Init
<1>2. TypeOK
  <2>1. Least(Slots) \in Slots
    BY SlotOrder
  <2>2. \A n \in Slots : object[n] \in FrameType \cup {Beat, None}
    BY <1>1
  <2>3. object \in [Slots -> FrameType \cup {Beat, None}]
    BY <1>1
  <2>4. delivered \in Seq([entry: Entries, own: BOOLEAN]) /\ started \in Seq(Entries)
    BY <1>1
  <2>5. beats \in 0 .. MaxBeats /\ errors \in 0 .. MaxErrors /\ losses \in 0 .. MaxLosses
    BY <1>1, BoundAssumption
  <2>6. STAT \in BOOLEAN /\ hung \in BOOLEAN
    BY DEF Init
  <2>7. rxTable \in {None} \cup [head: Entries, bodies: SUBSET Entries, missing: SUBSET AllSegments]
    BY <1>1
  <2>8. /\ pc \in {"idle", "wait", "stat", "check", "read", "write", "transmit"}
        /\ entry \in Entries \cup {0}
        /\ seg \in Nat /\ total \in AllSegments \cup {0}
        /\ num \in Slots /\ copy \subseteq Slots
        /\ res \in Entries \cup {0} /\ made \in Entries \cup {0}
        /\ msgSignals \subseteq Slots /\ done \subseteq Slots
        /\ tx_count \in Int /\ faults \subseteq Faults /\ vanished \in Nat
    BY <1>1, <2>1, SMT
  <2>9. ResponseTriggered \in BOOLEAN /\ isRes \in BOOLEAN
    BY Zenon DEF Init
  <2> QED
    BY <2>3, <2>4, <2>5, <2>6, <2>7, <2>8, <2>9 DEF TypeOK
<1>3. SentOnce
  BY <1>1 DEF SentOnce, WasStarted, Sending
<1>4. EntryPending = {}
  <2>1. \A n \in Slots : object[n].kind # "entry"
    BY <1>1 DEF None
  <2> QED
    BY <2>1 DEF EntryPending
<1>5. SlotsMarked /\ OfLast /\ FirstLowest
  BY <1>1, <1>4 DEF SlotsMarked, OfLast, FirstLowest, Sending
<1>6. FramesCounted
  BY <1>1, <1>4, FS_EmptySet DEF FramesCounted, ToSend
<1> QED
  BY <1>1, <1>2, <1>3, <1>5, <1>6 DEF InSlots

(* In every execution frames of entries are overwritten or overtaken only  *)
(* when the timer's heartbeats interrupt CANSend, or after a reset of the  *)
(* CAN chip, for any number of consecutive slots, any entries and errors.  *)
THEOREM OnlyBeatsCorrect == Spec => []OnlyBeatsInterfere
<1> DEFINE Inv == TypeOK /\ SentOnce /\ InSlots
<1>1. Init => Inv
  BY CalmInit
<1>2. Inv /\ [Next]_vars => Inv'
  BY TypeStep, SentStep, CalmStep
<1>3. Inv => OnlyBeatsInterfere
  <2>1. TypeOK => beats \in Nat
    BY BoundAssumption DEF TypeOK
  <2> QED
    BY <2>1 DEF InSlots, Calm, OnlyBeatsInterfere
<1> QED
  BY <1>1, <1>2, <1>3, PTL DEF Spec

----------------------------------------------------------------------------
(* As long as nothing goes wrong.                                          *)
LEMMA Starts ==
  ASSUME TypeOK, SentOnce
  PROVE  /\ started \in Seq(Entries) /\ DOMAIN started = 1 .. Len(started) /\ Len(started) \in Nat
         /\ \A k \in 1 .. Len(started) : started[k] \in Entries /\ Segments[started[k]] \in Nat
         /\ \A i, j \in 1 .. Len(started) : started[i] = started[j] => i = j
         /\ Sending => Len(started) \in 1 .. Len(started) /\ started[Len(started)] = entry
         /\ seg \in Nat /\ total \in Nat /\ seg <= total /\ Come \in Nat
         /\ delivered \in Seq(Record)
<1>1. started \in Seq(Entries) /\ delivered \in Seq(Record)
  BY DEF TypeOK, Record
<1>2. DOMAIN started = 1 .. Len(started) /\ Len(started) \in Nat /\ Come \in Nat
      /\ \A k \in 1 .. Len(started) : started[k] \in Entries
  BY <1>1 DEF Come
<1>3. \A k \in 1 .. Len(started) : Segments[started[k]] \in Nat
  BY <1>2, EntryFacts
<1>4. Sending => Len(started) \in 1 .. Len(started) /\ started[Len(started)] = entry
  BY <1>1, <1>2 DEF SentOnce
<1>5. \A i, j \in 1 .. Len(started) : started[i] = started[j] => i = j
  BY <1>2 DEF SentOnce
<1>6. seg \in Nat /\ total \in Nat /\ seg <= total
  BY BodyTyped DEF SentOnce
<1> QED
  BY <1>1, <1>2, <1>3, <1>4, <1>5, <1>6

LEMMA LineSame ==
  ASSUME TypeOK, SentOnce, InLine, Table, UNCHANGED <<started, delivered, rxTable>>,
         EntryPending' = EntryPending, \A n \in EntryPending : object'[n] = object[n],
         Sending' <=> Sending, Sending => UNCHANGED <<seg, total, entry>>,
         pc' # "idle" /\ isRes' => res' = entry'
  PROVE  InLine' /\ Table'
<1>1. \A e, s : Pend(e, s)' <=> Pend(e, s)
  BY DEF Pend
<1>2. SentSegs' = SentSegs
  BY DEF SentSegs
<1>3. Gone' = Gone
  BY <1>1, <1>2 DEF Gone
<1>4. Come' = Come /\ None' = None
  BY DEF Come, None
<1>5. Table'
  BY <1>3, <1>4 DEF Table
<1>6. InLine'
  BY <1>2, <1>3, <1>4 DEF InLine
<1> QED
  BY <1>5, <1>6

LEMMA Segs ==
  ASSUME TypeOK, SentOnce, InLine, NEW k \in 1 .. Len(started)
  PROVE  /\ SentSegs[k] \subseteq 0 .. Segments[started[k]]
         /\ SentSegs[k] # {} => 0 \in SentSegs[k]
         /\ k < Len(started) \/ ~Sending => SentSegs[k] = 0 .. Segments[started[k]]
         /\ Segments[started[k]] \in SentSegs[k] => k < Len(started) \/ ~Sending
         /\ \A s : s \in Gone[k] <=> s \in SentSegs[k] /\ ~Pend(started[k], s)
<1> DEFINE L == Len(started)
           S == Segments[started[k]]
<1>1. L \in Nat /\ S \in Nat /\ k \in 1 .. L /\ seg \in Nat
  BY Starts
<1>2. SentSegs[k] = IF k = L /\ Sending THEN 0 .. seg - 1 ELSE 0 .. S
  BY DEF SentSegs
<1>3. k = L /\ Sending => seg <= S
  BY Starts DEF InLine
<1>4. \A s : s \in Gone[k] <=> s \in SentSegs[k] /\ ~Pend(started[k], s)
  BY DEF Gone
<1> HIDE DEF L, S
<1>5. CASE k = L /\ Sending
  <2>1. SentSegs[k] = 0 .. seg - 1 /\ seg <= S
    BY <1>2, <1>3, <1>5
  <2>2. SentSegs[k] \subseteq 0 .. S /\ S \notin SentSegs[k] /\ (SentSegs[k] # {} => 0 \in SentSegs[k])
    BY <1>1, <2>1
  <2> QED
    BY <1>1, <1>4, <1>5, <2>2 DEF L, S
<1>6. CASE ~(k = L /\ Sending)
  <2>1. SentSegs[k] = 0 .. S
    BY <1>2, <1>6
  <2>2. 0 \in SentSegs[k] /\ (k < L \/ ~Sending)
    BY <1>1, <1>6, <2>1
  <2> QED
    BY <1>4, <2>1, <2>2 DEF L, S
<1> QED
  BY <1>5, <1>6

LEMMA StartInLine ==
  ASSUME TypeOK, SentOnce, InLine, Table, Start
  PROVE  InLine' /\ Table'
<1> DEFINE L == Len(started)
<1>1. /\ pc = "wait" /\ pc' = "stat" /\ seg' = 0 /\ total' = Segments[Body]
      /\ started' = Append(started, entry)
      /\ UNCHANGED <<entry, isRes, res, object, rxTable, delivered>>
  BY DEF Start, At, resVars, rxVars
<1>2. started \in Seq(Entries) /\ L \in Nat /\ Come \in Nat /\ entry \in Entries
  BY <1>1, Starts, BodyTyped
<1>3. Len(started') = L + 1 /\ started'[L + 1] = entry /\ \A k \in 1 .. L : started'[k] = started[k]
  BY <1>1, <1>2
<1>4. ~Sending /\ Sending' /\ Body = entry
  BY <1>1 DEF Sending, InLine, Body
<1>5. EntryPending' = EntryPending /\ Come' = Come /\ None' = None
  BY <1>1 DEF EntryPending, Come, None
<1>7. \A k \in 1 .. L : SentSegs'[k] = SentSegs[k] /\ k \in 1 .. L + 1
  <2> TAKE k \in 1 .. L
  <2>1. k \in 1 .. L + 1 /\ k # L + 1
    BY <1>2
  <2>2. SentSegs[k] = 0 .. Segments[started[k]]
    BY <1>4 DEF SentSegs
  <2>3. SentSegs'[k] = 0 .. Segments[started'[k]]
    BY <1>3, <2>1 DEF SentSegs
  <2> QED
    BY <1>3, <2>1, <2>2, <2>3
<1>8. SentSegs'[L + 1] = {} /\ L + 1 \in 1 .. L + 1
  <2>1. L + 1 \in 1 .. L + 1
    BY <1>2
  <2>2. SentSegs'[L + 1] = 0 .. 0 - 1
    BY <1>1, <1>3, <1>4, <2>1 DEF SentSegs
  <2> QED
    BY <2>1, <2>2
<1>9. (\A k \in 1 .. L : Gone'[k] = Gone[k]) /\ Gone'[L + 1] = {}
  <2>1. ASSUME NEW k \in 1 .. L PROVE Gone'[k] = Gone[k]
    BY <1>1, <1>3, <1>5, <1>7 DEF Gone, Pend
  <2>2. Gone'[L + 1] = {}
    BY <1>1, <1>3, <1>5, <1>8 DEF Gone, Pend
  <2> QED
    BY <2>1, <2>2
<1> HIDE DEF L
<1>10. /\ Come <= L
       /\ \A i \in 1 .. Come : delivered[i].own /\ delivered[i].entry = started[i]
       /\ \A n \in EntryPending :
            /\ object[n].body = object[n].head
            /\ \E k \in Come + 1 .. L : object[n].head = started[k] /\ object[n].seg \in SentSegs[k]
       /\ \A m, n \in EntryPending :
            object[m].head = object[n].head /\ object[m].seg = object[n].seg => m = n
       /\ \A k \in Come + 2 .. L : Gone[k] = {}
       /\ isRes => res = entry
  BY <1>1 DEF InLine, L
<1>11. InLine'
  <2>1. ASSUME NEW n \in EntryPending
        PROVE  \E k \in Come + 1 .. L + 1 : object[n].head = started'[k] /\ object[n].seg \in SentSegs'[k]
    <3>1. PICK k \in Come + 1 .. L : object[n].head = started[k] /\ object[n].seg \in SentSegs[k]
      BY <1>10
    <3>2. k \in 1 .. L /\ k \in Come + 1 .. L + 1
      BY <1>2, <3>1
    <3> QED
      BY <1>3, <1>7, <3>1, <3>2
  <2>2. \A k \in Come + 2 .. L + 1 : Gone'[k] = {}
    <3> TAKE k \in Come + 2 .. L + 1
    <3>1. (k \in 1 .. L /\ k \in Come + 2 .. L) \/ k = L + 1
      BY <1>2
    <3> QED
      BY <1>9, <1>10, <3>1
  <2>3. \A i \in 1 .. Come : started'[i] = started[i]
    BY <1>2, <1>3, <1>10
  <2>4. Come <= L + 1 /\ Come < L + 1
    BY <1>2, <1>10
  <2> QED
    BY <1>1, <1>3, <1>4, <1>5, <1>10, <2>1, <2>2, <2>3, <2>4, ZenonT(60) DEF InLine
<1>12. Table'
  <2>1. Come < L + 1
    BY <1>2, <1>10
  <2>2. CASE Come < L
    <3>1. Come + 1 \in 1 .. L
      BY <1>2, <2>2
    <3>2. Gone'[Come + 1] = Gone[Come + 1] /\ started'[Come + 1] = started[Come + 1]
      BY <1>3, <1>9, <3>1
    <3> QED
      BY <1>1, <1>3, <1>5, <2>1, <2>2, <3>2 DEF Table, L
  <2>3. CASE ~(Come < L)
    <3>1. Come + 1 = L + 1 /\ rxTable = None
      BY <1>2, <1>10, <2>3 DEF Table, L
    <3> QED
      BY <1>1, <1>5, <1>9, <3>1 DEF Table
  <2> QED
    BY <2>2, <2>3
<1> QED
  BY <1>11, <1>12

LEMMA TransmitInLine ==
  ASSUME TypeOK, SentOnce, InLine, Table, Transmit, faults' = {}
  PROVE  InLine' /\ Table'
<1> DEFINE L == Len(started)
<1>1. /\ pc = "transmit" /\ object' = [object EXCEPT ![num] = Frame(entry, Body, seg)] /\ AfterFrame
      /\ object[num].kind # "entry"
      /\ UNCHANGED <<res, started, rxTable, delivered>>
  BY DEF Transmit, At, rxVars
<1>2. /\ started \in Seq(Entries) /\ L \in 1 .. L /\ L \in Nat /\ Come \in Nat /\ started[L] = entry
      /\ seg \in Nat /\ total \in Nat /\ Sending /\ num \in Slots
      /\ \A i, j \in 1 .. L : started[i] = started[j] => i = j
  BY <1>1, Starts DEF Sending, TypeOK
<1>3. Body = entry /\ Come < L /\ total = Segments[entry]
  BY <1>1, <1>2 DEF InLine, Body
<1>4. \/ /\ seg < total /\ Sending' /\ seg' = seg + 1 /\ UNCHANGED <<entry, isRes, total>>
      \/ seg = total /\ ~Sending' /\ pc' = "idle"
  BY <1>1 DEF AfterFrame, Sending
<1>5. /\ \A n \in EntryPending :
            /\ object[n].body = object[n].head
            /\ \E k \in Come + 1 .. L : object[n].head = started[k] /\ object[n].seg \in SentSegs[k]
      /\ \A m, n \in EntryPending :
            object[m].head = object[n].head /\ object[m].seg = object[n].seg => m = n
      /\ \A k \in Come + 2 .. L : Gone[k] = {}
      /\ Come <= L
      /\ \A i \in 1 .. Come : delivered[i].own /\ delivered[i].entry = started[i]
      /\ isRes => res = entry
  BY <1>1 DEF InLine
<1>6. /\ object'[num].kind = "entry" /\ object'[num].head = entry /\ object'[num].body = entry
      /\ object'[num].seg = seg /\ \A m \in Slots : m # num => object'[m] = object[m]
  <2>1. object \in [Slots -> FrameType \cup {Beat, None}]
    BY DEF TypeOK
  <2>2. object'[num] = Frame(entry, entry, seg) /\ \A m \in Slots : m # num => object'[m] = object[m]
    BY <1>1, <1>2, <1>3, <2>1
  <2> QED
    BY <2>2 DEF Frame
<1>7. EntryPending' = EntryPending \cup {num} /\ num \notin EntryPending /\ EntryPending \subseteq Slots
      /\ \A m \in EntryPending : object'[m] = object[m]
  BY <1>1, <1>2, <1>6 DEF EntryPending
<1>8. \A e, s : Pend(e, s)' <=> Pend(e, s) \/ (e = entry /\ s = seg)
  BY <1>6, <1>7 DEF Pend
<1>15. Come' = Come /\ None' = None /\ Len(started') = L /\ started' = started
  BY <1>1 DEF Come, None
<1>9. SentSegs[L] = 0 .. seg - 1 /\ SentSegs'[L] = 0 .. seg
  <2>1. SentSegs[L] = 0 .. seg - 1
    BY <1>2 DEF SentSegs
  <2>2. CASE Sending'
    <3>1. SentSegs'[L] = 0 .. seg' - 1 /\ seg' = seg + 1
      BY <1>2, <1>4, <1>15, <2>2 DEF SentSegs
    <3>2. seg' - 1 = seg
      BY <1>2, <3>1
    <3> QED
      BY <2>1, <3>1, <3>2
  <2>3. CASE ~Sending'
    <3>1. SentSegs'[L] = 0 .. Segments[started[L]] /\ seg = total
      BY <1>2, <1>4, <1>15, <2>3 DEF SentSegs
    <3> QED
      BY <1>2, <1>3, <2>1, <3>1
  <2> QED
    BY <2>2, <2>3
<1>10. \A k \in 1 .. L : k # L => SentSegs'[k] = SentSegs[k]
  BY <1>15 DEF SentSegs
<1> HIDE DEF L
<1>11. SentSegs'[L] = SentSegs[L] \cup {seg} /\ seg \notin SentSegs[L]
  BY <1>2, <1>9
<1>12. ASSUME NEW k \in 1 .. L PROVE Gone'[k] = Gone[k]
  <2>0. Gone[k] = {s \in SentSegs[k] : ~Pend(started[k], s)}
    BY DEF Gone, L
  <2>1. ASSUME NEW e, e = started[k] PROVE Gone'[k] = {s \in SentSegs'[k] : ~Pend(e, s)'}
    BY <1>15, <2>1 DEF Gone, Pend, L
  <2>2. CASE k = L
    BY <1>2, <1>8, <1>11, <2>0, <2>1, <2>2
  <2>3. CASE k # L
    <3>1. started[k] # entry
      BY <1>2, <2>3
    <3> QED
      BY <1>8, <1>10, <2>0, <2>1, <2>3, <3>1
  <2> QED
    BY <2>2, <2>3
<1>13. ASSUME NEW k \in 1 .. L PROVE SentSegs[k] \subseteq SentSegs'[k]
  BY <1>10, <1>11
<1>14. ASSUME NEW n \in EntryPending PROVE ~(object[n].head = entry /\ object[n].seg = seg)
  <2>1. PICK k \in Come + 1 .. L : object[n].head = started[k] /\ object[n].seg \in SentSegs[k]
    BY <1>5
  <2>2. k \in 1 .. L
    BY <1>2
  <2> QED
    BY <1>2, <1>11, <2>1, <2>2
<1>16. InLine'
  <2>1. ASSUME NEW n \in EntryPending'
        PROVE  /\ object'[n].body = object'[n].head
               /\ \E k \in Come + 1 .. L : object'[n].head = started[k] /\ object'[n].seg \in SentSegs'[k]
    <3>1. CASE n = num
      <4>1. L \in Come + 1 .. L
        BY <1>2, <1>3
      <4>2. seg \in SentSegs'[L]
        BY <1>11
      <4> QED
        BY <1>2, <1>6, <3>1, <4>1, <4>2
    <3>2. CASE n # num
      <4>1. n \in EntryPending /\ object'[n] = object[n]
        BY <1>7, <3>2
      <4>2. PICK k \in Come + 1 .. L : object[n].head = started[k] /\ object[n].seg \in SentSegs[k]
        BY <1>5, <4>1
      <4>3. k \in 1 .. L
        BY <1>2
      <4>4. object[n].seg \in SentSegs'[k]
        BY <1>13, <4>2, <4>3
      <4> QED
        BY <1>5, <4>1, <4>2, <4>4
    <3> QED
      BY <3>1, <3>2
  <2>2. ASSUME NEW m \in EntryPending', NEW n \in EntryPending',
               object'[m].head = object'[n].head, object'[m].seg = object'[n].seg
        PROVE  m = n
    <3>1. CASE m = num /\ n # num
      BY <1>6, <1>7, <1>14, <2>2, <3>1
    <3>2. CASE n = num /\ m # num
      BY <1>6, <1>7, <1>14, <2>2, <3>2
    <3>3. CASE n # num /\ m # num
      BY <1>5, <1>7, <2>2, <3>3
    <3> QED
      BY <3>1, <3>2, <3>3
  <2>3. \A k \in Come + 2 .. L : Gone'[k] = {}
    <3> TAKE k \in Come + 2 .. L
    <3>1. k \in 1 .. L
      BY <1>2
    <3> QED
      BY <1>5, <1>12, <3>1
  <2>4. Sending' => Come < L /\ total' = Segments[entry']
    BY <1>3, <1>4
  <2>5. pc' # "idle" /\ isRes' => res' = entry'
    BY <1>1, <1>4, <1>5
  <2> QED
    BY <1>1, <1>5, <1>15, <2>1, <2>2, <2>3, <2>4, <2>5 DEF InLine
<1>17. Table'
  <2>1. Come + 1 \in 1 .. L
    BY <1>2, <1>3
  <2>2. Gone'[Come + 1] = Gone[Come + 1]
    BY <1>12, <2>1
  <2> QED
    BY <1>1, <1>15, <2>2 DEF Table, L
<1> QED
  BY <1>16, <1>17

(* A frame that goes out without overtaking is one of the entry that comes  *)
(* next, and the first of its frames or behind the first.                  *)
LEMMA NextOut ==
  ASSUME TypeOK, SentOnce, InLine, Table, NEW n \in EntryPending, ~Overtakes(object[n])
  PROVE  /\ Come + 1 \in 1 .. Len(started)
         /\ object[n].head = started[Come + 1] /\ object[n].body = object[n].head
         /\ object[n].seg \in SentSegs[Come + 1] /\ object[n].seg \notin Gone[Come + 1]
         /\ object[n].seg \in Nat
         /\ object[n].seg > 0 => 0 \in Gone[Come + 1]
<1> DEFINE L == Len(started)
           c == Come + 1
           f == object[n]
<1>1. L \in Nat /\ Come \in Nat /\ DOMAIN started = 1 .. L /\ Come <= L
  BY Starts DEF InLine
<1>2. PICK k \in c .. L : f.head = started[k] /\ f.seg \in SentSegs[k]
  BY DEF InLine
<1>3. f.body = f.head /\ f.seg \in Nat
  BY SlotFacts, EntryFacts DEF InLine
<1> HIDE DEF L
<1>4. c \in 1 .. L /\ k \in 1 .. L /\ c <= k /\ c \in Nat /\ k \in Nat
  BY <1>1, <1>2
<1>5. /\ \A s : s \in Gone[c] <=> s \in SentSegs[c] /\ ~Pend(started[c], s)
      /\ SentSegs[c] # {} => 0 \in SentSegs[c]
      /\ c < L => SentSegs[c] = 0 .. Segments[started[c]]
      /\ Segments[started[c]] \in Nat
  BY <1>4, Segs, Starts DEF L
<1>6. k = c
  <2> SUFFICES ASSUME k # c PROVE FALSE
    OBVIOUS
  <2>1. c < k /\ c < L
    BY <1>1, <1>2, <1>4
  <2>2. PICK s : Pend(started[c], s)
    <3>1. CASE rxTable = None
      <4>1. Come < L
        BY <1>1, <2>1
      <4>2. Gone[c] = {}
        BY <3>1, <4>1 DEF Table, L
      <4>3. 0 \in SentSegs[c]
        BY <1>5, <2>1
      <4> QED
        BY <1>5, <4>2, <4>3
    <3>2. CASE rxTable # None
      <4>1. rxTable.missing = (0 .. Segments[started[c]]) \ Gone[c] /\ rxTable.missing # {}
        BY <3>2 DEF Table
      <4>2. PICK s \in 0 .. Segments[started[c]] : s \notin Gone[c]
        BY <4>1
      <4> QED
        BY <1>5, <2>1, <4>2
    <3> QED
      BY <3>1, <3>2
  <2>3. PICK m \in EntryPending : object[m].head = started[c]
    BY <2>2 DEF Pend
  <2> QED
    BY <1>1, <1>2, <1>4, <2>1, <2>3 DEF Overtakes
<1>7. Pend(f.head, f.seg)
  BY DEF Pend
<1>8. f.seg > 0 => ~Pend(f.head, 0)
  BY DEF Pend, Overtakes
<1>9. f.seg > 0 => 0 \in Gone[c]
  BY <1>2, <1>5, <1>6, <1>8
<1> QED
  BY <1>2, <1>3, <1>4, <1>5, <1>6, <1>7, <1>9 DEF L

(* What is pending and gone after it.                                      *)
LEMMA OutGone ==
  ASSUME TypeOK, SentOnce, InLine, Table, NEW n \in EntryPending, ~Overtakes(object[n]),
         object' = [object EXCEPT ![n] = None], UNCHANGED <<mainVars, started>>
  PROVE  /\ EntryPending' = EntryPending \ {n} /\ \A m \in EntryPending' : object'[m] = object[m]
         /\ SentSegs' = SentSegs
         /\ \A k \in 1 .. Len(started) : k # Come + 1 => Gone'[k] = Gone[k]
         /\ Gone'[Come + 1] = Gone[Come + 1] \cup {object[n].seg}
<1> DEFINE c == Come + 1
           f == object[n]
           L == Len(started)
<1>1. /\ c \in 1 .. L /\ f.head = started[c] /\ f.seg \in SentSegs[c]
  BY NextOut
<1>2. object \in [Slots -> FrameType \cup {Beat, None}] /\ EntryPending \subseteq Slots /\ None.kind # "entry"
  BY SlotFacts DEF TypeOK
<1>3. object'[n] = None /\ \A m \in Slots : m # n => object'[m] = object[m]
  BY <1>2
<1>4. EntryPending' = EntryPending \ {n} /\ \A m \in EntryPending' : object'[m] = object[m]
  BY <1>2, <1>3 DEF EntryPending
<1>5. \A e, s : Pend(e, s)' <=> Pend(e, s) /\ ~(e = f.head /\ s = f.seg)
  <2>1. \A m \in EntryPending : object[m].head = f.head /\ object[m].seg = f.seg => m = n
    BY DEF InLine
  <2> QED
    BY <1>4, <2>1 DEF Pend
<1>6. SentSegs' = SentSegs
  BY DEF SentSegs, mainVars, Sending
<1>7. \A i, j \in 1 .. L : started[i] = started[j] => i = j
  BY Starts
<1>8. ASSUME NEW k \in 1 .. L
      PROVE  Gone'[k] = IF k = c THEN Gone[k] \cup {f.seg} ELSE Gone[k]
  <2>1. Gone[k] = {s \in SentSegs[k] : ~Pend(started[k], s)}
    BY DEF Gone
  <2>2. ASSUME NEW e, e = started[k] PROVE Gone'[k] = {s \in SentSegs[k] : ~Pend(e, s)'}
    BY <1>6, <2>2 DEF Gone, Pend
  <2>3. CASE k = c
    BY <1>1, <1>5, <2>1, <2>2, <2>3
  <2>4. CASE k # c
    <3>1. started[k] # f.head
      BY <1>1, <1>7, <2>4
    <3> QED
      BY <1>5, <2>1, <2>2, <2>4, <3>1
  <2> QED
    BY <2>3, <2>4
<1> QED
  BY <1>1, <1>4, <1>6, <1>8

(* The controller has got all of an entry.                                 *)
LEMMA WholeInLine ==
  ASSUME TypeOK, SentOnce, InLine, Table, NEW n \in EntryPending, ~Overtakes(object[n]),
         object' = [object EXCEPT ![n] = None], UNCHANGED <<mainVars, res, started>>,
         0 .. Segments[object[n].head] \subseteq Gone[Come + 1] \cup {object[n].seg},
         delivered' = Append(delivered, [entry |-> object[n].head, own |-> TRUE]),
         rxTable' = None
  PROVE  InLine' /\ Table'
<1> DEFINE c == Come + 1
           f == object[n]
           L == Len(started)
<1>1. /\ c \in 1 .. L /\ f.head = started[c] /\ f.seg \in SentSegs[c]
  BY NextOut
<1>2. /\ EntryPending' = EntryPending \ {n} /\ \A m \in EntryPending' : object'[m] = object[m]
      /\ SentSegs' = SentSegs
      /\ \A k \in 1 .. Len(started) : k # c => Gone'[k] = Gone[k]
  BY OutGone
<1>3. L \in Nat /\ Come \in Nat /\ delivered \in Seq(Record) /\ Segments[started[c]] \in Nat
  BY <1>1, Starts
<1>4. Come' = c /\ None' = None /\ started' = started
      /\ delivered'[c].entry = started[c] /\ delivered'[c].own
      /\ \A i \in 1 .. Come : delivered'[i] = delivered[i]
  BY <1>1, <1>3 DEF Come, None
<1>5. /\ SentSegs[c] \subseteq 0 .. Segments[started[c]]
      /\ Segments[started[c]] \in SentSegs[c] => c < Len(started) \/ ~Sending
      /\ \A s : s \in Gone[c] <=> s \in SentSegs[c] /\ ~Pend(started[c], s)
  BY <1>1, Segs
<1>6. /\ \A m \in EntryPending :
            /\ object[m].body = object[m].head
            /\ \E k \in Come + 1 .. L : object[m].head = started[k] /\ object[m].seg \in SentSegs[k]
      /\ \A m, l \in EntryPending :
            object[m].head = object[l].head /\ object[m].seg = object[l].seg => m = l
      /\ \A k \in Come + 2 .. L : Gone[k] = {}
      /\ \A i \in 1 .. Come : delivered[i].own /\ delivered[i].entry = started[i]
      /\ pc # "idle" /\ isRes => res = entry
      /\ Sending => total = Segments[entry]
  BY DEF InLine
<1>7. /\ UNCHANGED <<pc, entry, isRes, seg, total, num, copy, res>> /\ (Sending' <=> Sending)
  BY DEF mainVars, Sending
<1>8. Sending => c < L
  <2>1. Segments[started[c]] \in 0 .. Segments[started[c]]
    BY <1>3
  <2>2. Segments[started[c]] \in SentSegs[c]
    BY <1>1, <1>5, <2>1
  <2> QED
    BY <1>1, <1>3, <1>5, <2>2
<1>9. ASSUME NEW m \in EntryPending'
      PROVE  /\ object'[m].body = object'[m].head
             /\ \E k \in c + 1 .. L : object'[m].head = started[k] /\ object'[m].seg \in SentSegs[k]
  <2>1. m \in EntryPending /\ m # n /\ object'[m] = object[m]
    BY <1>2
  <2>2. PICK k \in Come + 1 .. L : object[m].head = started[k] /\ object[m].seg \in SentSegs[k]
    BY <1>6, <2>1
  <2>3. k # c
    <3> SUFFICES ASSUME k = c PROVE FALSE
      OBVIOUS
    <3>1. object[m].seg \in 0 .. Segments[started[c]] /\ object[m].head = f.head
      BY <1>1, <1>5, <2>2
    <3>2. object[m].seg # f.seg
      BY <1>6, <2>1, <3>1
    <3>3. object[m].seg \in Gone[c]
      BY <1>1, <3>1, <3>2
    <3>4. Pend(started[c], object[m].seg)
      BY <1>1, <2>1, <3>1 DEF Pend
    <3> QED
      BY <1>5, <3>3, <3>4
  <2>4. k \in c + 1 .. L
    BY <1>3, <2>2, <2>3
  <2> QED
    BY <1>6, <2>1, <2>2, <2>4
<1>10. ASSUME NEW k \in c + 1 .. L PROVE Gone'[k] = {}
  <2>1. k \in 1 .. L /\ k # c /\ k \in Come + 2 .. L
    BY <1>3
  <2> QED
    BY <1>2, <1>6, <2>1
<1>11. InLine'
  <2>1. c <= L /\ \A k \in c + 2 .. L : k \in c + 1 .. L
    BY <1>1, <1>3
  <2>2. \A i \in 1 .. c : delivered'[i].own /\ delivered'[i].entry = started[i]
    <3> TAKE i \in 1 .. c
    <3>1. i = c \/ i \in 1 .. Come
      BY <1>3
    <3> QED
      BY <1>4, <1>6, <3>1
  <2>3. \A m, l \in EntryPending' :
          object'[m].head = object'[l].head /\ object'[m].seg = object'[l].seg => m = l
    BY <1>2, <1>6
  <2>4. \A k \in c + 2 .. L : Gone'[k] = {}
    BY <1>10, <2>1
  <2>5. /\ pc' # "idle" /\ isRes' => res' = entry'
        /\ Sending' => c < L /\ total' = Segments[entry']
    BY <1>6, <1>7, <1>8
  <2>6. \A m \in EntryPending' :
          /\ object'[m].body = object'[m].head
          /\ \E k \in c + 1 .. L : object'[m].head = started'[k] /\ object'[m].seg \in SentSegs'[k]
    BY <1>2, <1>4, <1>9
  <2>7. Len(started') = L /\ \A i \in 1 .. c : delivered'[i].own /\ delivered'[i].entry = started'[i]
    BY <1>4, <2>2
  <2> HIDE DEF c, L
  <2> QED
    BY <1>4, <2>1, <2>3, <2>4, <2>5, <2>6, <2>7 DEF InLine
<1>12. Table'
  <2>1. c < L => c + 1 \in c + 1 .. L
    BY <1>1, <1>3
  <2> QED
    BY <1>4, <1>10, <2>1 DEF Table
<1> QED
  BY <1>11, <1>12

(* It waits for more.                                                      *)
LEMMA PartInLine ==
  ASSUME TypeOK, SentOnce, InLine, Table, NEW n \in EntryPending, ~Overtakes(object[n]),
         object' = [object EXCEPT ![n] = None], UNCHANGED <<mainVars, res, started>>,
         delivered' = delivered
  PROVE  InLine'
<1> DEFINE c == Come + 1
           L == Len(started)
<1>1. /\ c \in 1 .. L
  BY NextOut
<1>2. /\ EntryPending' = EntryPending \ {n} /\ \A m \in EntryPending' : object'[m] = object[m]
      /\ SentSegs' = SentSegs
      /\ \A k \in 1 .. L : k # c => Gone'[k] = Gone[k]
  BY OutGone
<1>3. L \in Nat /\ Come \in Nat /\ Come' = Come /\ started' = started /\ Len(started') = L
  BY Starts DEF Come
<1>4. /\ \A m \in EntryPending :
            /\ object[m].body = object[m].head
            /\ \E k \in c .. L : object[m].head = started[k] /\ object[m].seg \in SentSegs[k]
      /\ \A m, l \in EntryPending :
            object[m].head = object[l].head /\ object[m].seg = object[l].seg => m = l
      /\ \A k \in Come + 2 .. L : Gone[k] = {}
      /\ \A i \in 1 .. Come : delivered[i].own /\ delivered[i].entry = started[i]
      /\ pc # "idle" /\ isRes => res = entry
      /\ Sending => Come < L /\ total = Segments[entry]
      /\ Come <= L
  BY DEF InLine
<1>5. /\ UNCHANGED <<pc, entry, isRes, seg, total, num, copy, res>> /\ (Sending' <=> Sending)
  BY DEF mainVars, Sending
<1>6. \A k \in Come + 2 .. L : Gone'[k] = {}
  <2> TAKE k \in Come + 2 .. L
  <2>1. k \in 1 .. L /\ k # c
    BY <1>3
  <2> QED
    BY <1>2, <1>4, <2>1
<1>7. /\ pc' # "idle" /\ isRes' => res' = entry'
      /\ Sending' => Come < L /\ total' = Segments[entry']
  BY <1>4, <1>5
<1>8. \A m \in EntryPending' :
        /\ object'[m].body = object'[m].head
        /\ \E k \in c .. L : object'[m].head = started'[k] /\ object'[m].seg \in SentSegs'[k]
  BY <1>2, <1>3, <1>4
<1>9. \A m, l \in EntryPending' :
        object'[m].head = object'[l].head /\ object'[m].seg = object'[l].seg => m = l
  BY <1>2, <1>4
<1>10. \A i \in 1 .. Come : delivered'[i].own /\ delivered'[i].entry = started'[i]
  BY <1>3, <1>4
<1> HIDE DEF L
<1> QED
  BY <1>3, <1>4, <1>6, <1>7, <1>8, <1>9, <1>10 DEF InLine

LEMMA FrameInLine ==
  ASSUME TypeOK, SentOnce, InLine, Table, NEW n \in EntryPending, ~Overtakes(object[n]),
         object' = [object EXCEPT ![n] = None], UNCHANGED <<mainVars, res, started>>,
         Receive(object[n])
  PROVE  InLine' /\ Table'
<1> DEFINE c == Come + 1
           L == Len(started)
           f == object[n]
           S == Segments[f.head]
<1>1. /\ c \in 1 .. L /\ f.head = started[c] /\ f.body = f.head /\ f.seg \in SentSegs[c]
      /\ f.seg \notin Gone[c] /\ f.seg \in Nat /\ (f.seg > 0 => 0 \in Gone[c])
  BY NextOut
<1>2. Gone'[c] = Gone[c] \cup {f.seg}
  BY OutGone
<1>3. L \in Nat /\ Come \in Nat /\ S \in Nat /\ Come < L /\ started' = started /\ Len(started') = L
  BY <1>1, Starts
<1>4. f.seg \in 0 .. S /\ f.kind = "entry" /\ None' = None
  BY <1>1, Segs, SlotFacts DEF EntryPending, None
<1>5. \/ rxTable = None /\ Gone[c] = {}
      \/ /\ rxTable # None /\ rxTable.head = f.head /\ rxTable.bodies = {f.head} /\ 0 \in Gone[c]
         /\ rxTable.missing = (0 .. S) \ Gone[c]
  BY <1>1, <1>3 DEF Table
<1>6. rxTable \in RxTable
  BY DEF TypeOK, RxTable
<1>7. ASSUME delivered' = delivered, rxTable' # None, rxTable'.head = f.head,
             rxTable'.bodies = {f.head}, 0 \in Gone'[c],
             rxTable'.missing = (0 .. S) \ Gone'[c], rxTable'.missing # {}
      PROVE  InLine' /\ Table'
  <2>1. InLine'
    BY <1>7, PartInLine
  <2>2. Come' = Come
    BY <1>7 DEF Come
  <2> HIDE DEF L
  <2> QED
    BY <1>1, <1>3, <1>4, <1>7, <2>1, <2>2 DEF Table
<1>8. CASE f.seg = 0
  <2>1. rxTable = None /\ Gone[c] = {}
    BY <1>1, <1>5, <1>8
  <2>2. ReceiveFirst(f)
    BY <1>4, <1>8 DEF Receive
  <2>3. CASE S = 0
    <3>1. delivered' = Append(delivered, [entry |-> f.head, own |-> TRUE]) /\ rxTable' = None
      <4>1. (({f.body} = {f.head}) = TRUE)
        BY <1>1
      <4>2. Deliver(f.head, {f.body}) /\ rxTable' = rxTable
        BY <2>2, <2>3 DEF ReceiveFirst
      <4>3. delivered' = Append(delivered, [entry |-> f.head, own |-> ({f.body} = {f.head})])
        BY <4>2 DEF Deliver
      <4> QED
        BY <2>1, <4>1, <4>2, <4>3
    <3>2. 0 .. S \subseteq Gone[c] \cup {f.seg}
      BY <1>8, <2>3
    <3> QED
      BY <3>1, <3>2, WholeInLine
  <2>4. CASE S > 0
    <3>1. /\ rxTable' = [head |-> f.head, bodies |-> {f.body}, missing |-> 1 .. S]
          /\ delivered' = delivered
      BY <1>3, <2>1, <2>2, <2>4 DEF ReceiveFirst
    <3>2. rxTable' # None
      <4>1. "head" \in DOMAIN rxTable'
        BY <3>1
      <4>2. "head" \notin DOMAIN None
        BY DEF None
      <4> QED
        BY <4>1, <4>2
    <3>3. rxTable'.head = f.head /\ rxTable'.bodies = {f.head} /\ rxTable'.missing = 1 .. S
      BY <1>1, <3>1
    <3>4. Gone'[c] = {0} /\ 1 .. S = (0 .. S) \ {0} /\ 1 \in 1 .. S
      BY <1>2, <1>3, <1>8, <2>1, <2>4
    <3> QED
      BY <1>7, <3>1, <3>2, <3>3, <3>4
  <2> QED
    BY <1>3, <2>3, <2>4
<1>9. CASE f.seg > 0
  <2>1. /\ rxTable # None /\ rxTable.head = f.head /\ rxTable.bodies = {f.head} /\ 0 \in Gone[c]
        /\ rxTable.missing = (0 .. S) \ Gone[c]
    BY <1>1, <1>5, <1>9
  <2>2. ReceiveSegment(f) /\ Fits(f)
    <3>1. f.seg <= S /\ f.seg \in Nat /\ S \in Nat
      BY <1>3, <1>4
    <3>2. f.seg < S \/ (f.seg = S /\ S <= S)
      BY <3>1
    <3> QED
      BY <1>1, <1>4, <1>9, <2>1, <3>2 DEF Receive, Fits
  <2>3. rxTable.missing \ {f.seg} = (0 .. S) \ Gone'[c] /\ rxTable.bodies \cup {f.body} = {f.head}
    BY <1>1, <1>2, <2>1
  <2>4. CASE rxTable.missing \ {f.seg} = {}
    <3>1. /\ Deliver(rxTable.head, rxTable.bodies \cup {f.body}) /\ rxTable' = None
      BY <2>2, <2>4 DEF ReceiveSegment
    <3>2. delivered' = Append(delivered, [entry |-> f.head, own |-> TRUE])
      <4>1. ((rxTable.bodies \cup {f.body} = {rxTable.head}) = TRUE)
        BY <2>1, <2>3
      <4>2. delivered' = Append(delivered,
              [entry |-> rxTable.head, own |-> (rxTable.bodies \cup {f.body} = {rxTable.head})])
        BY <3>1 DEF Deliver
      <4> QED
        BY <2>1, <4>1, <4>2
    <3>3. 0 .. S \subseteq Gone[c] \cup {f.seg}
      BY <1>2, <2>3, <2>4
    <3> QED
      BY <3>1, <3>2, <3>3, WholeInLine
  <2>5. CASE rxTable.missing \ {f.seg} # {}
    <3>1. /\ rxTable' = [rxTable EXCEPT !.bodies = rxTable.bodies \cup {f.body},
                                        !.missing = rxTable.missing \ {f.seg}]
          /\ delivered' = delivered
      BY <2>2, <2>5 DEF ReceiveSegment
    <3>2. rxTable \in [head: Entries, bodies: SUBSET Entries, missing: SUBSET AllSegments]
      BY <1>6, <2>1 DEF RxTable
    <3>3. /\ rxTable'.head = rxTable.head /\ rxTable'.bodies = rxTable.bodies \cup {f.body}
          /\ rxTable'.missing = rxTable.missing \ {f.seg} /\ "head" \in DOMAIN rxTable'
      BY <3>1, <3>2
    <3>4. rxTable' # None
      <4>1. "head" \notin DOMAIN None
        BY DEF None
      <4> QED
        BY <3>3, <4>1
    <3>5. 0 \in Gone'[c]
      BY <1>2, <2>1
    <3>6. rxTable'.head = f.head /\ rxTable'.bodies = {f.head}
          /\ rxTable'.missing = (0 .. S) \ Gone'[c] /\ rxTable'.missing # {}
      BY <2>1, <2>3, <2>5, <3>3
    <3> QED
      BY <1>7, <3>1, <3>4, <3>5, <3>6
  <2> QED
    BY <2>4, <2>5
<1> QED
  BY <1>1, <1>8, <1>9

LEMMA SendOutInLine ==
  ASSUME TypeOK, SentOnce, InLine, Table, SendOut, faults' = {}
  PROVE  InLine' /\ Table'
<1>1. PICK n \in Pending :
        /\ object' = [object EXCEPT ![n] = None]
        /\ LET f == object[n]
               over == IF f.kind = "entry" /\ Overtakes(f) THEN {"overtaken"} ELSE {}
           IN \/ Receive(f) /\ faults' = faults \cup over
              \/ /\ f.kind = "entry"
                 /\ faults' = faults \cup over \cup {"lost"}
                 /\ UNCHANGED <<rxTable, delivered>>
  BY DEF SendOut
<1>2. Receive(object[n]) /\ ~(object[n].kind = "entry" /\ Overtakes(object[n]))
  BY <1>1
<1>3. UNCHANGED <<mainVars, resVars, started>>
  BY DEF SendOut
<1>4. UNCHANGED <<mainVars, res, started>>
  BY <1>3 DEF resVars
<1>5. n \in Slots
  BY DEF Pending
<1>6. CASE n \in EntryPending
  <2>1. ~Overtakes(object[n])
    BY <1>2, <1>6 DEF EntryPending
  <2> QED
    BY <1>1, <1>2, <1>4, <1>6, <2>1, FrameInLine
<1>7. CASE n \notin EntryPending
  <2>1. object[n].kind # "entry"
    BY <1>5, <1>7 DEF EntryPending
  <2>2. UNCHANGED <<rxTable, delivered>>
    BY <1>2, <2>1 DEF Receive
  <2>3. object \in [Slots -> FrameType \cup {Beat, None}] /\ None.kind # "entry"
    BY SlotFacts DEF TypeOK
  <2>4. object'[n] = None /\ \A m \in Slots : m # n => object'[m] = object[m]
    BY <1>1, <1>5, <2>3
  <2>5. EntryPending' = EntryPending /\ \A m \in EntryPending : object'[m] = object[m]
    BY <1>7, <2>3, <2>4 DEF EntryPending
  <2>6. (Sending' <=> Sending) /\ UNCHANGED <<seg, total, entry, res, pc, isRes>>
    BY <1>4 DEF mainVars, Sending
  <2>7. pc' # "idle" /\ isRes' => res' = entry'
    BY <2>6 DEF InLine
  <2> QED
    BY <1>4, <2>2, <2>5, <2>6, <2>7, LineSame
<1> QED
  BY <1>6, <1>7

LEMMA OrderlyStep == TypeOK /\ SentOnce /\ Orderly /\ [Next]_vars => Orderly'
<1> SUFFICES ASSUME TypeOK, SentOnce, Orderly, [Next]_vars, faults' = {}
             PROVE  InLine' /\ Table'
  BY DEF Orderly
<1>1. faults \subseteq faults'
  BY DEF Next, MainStep, SendResponse, SendBroadcast, Start, Drop, NoError, TryNext, FindFree,
         ReadSignals, WriteSignals, Transmit, Request, Heartbeat, CAN_tx, CAN_error, SendOut,
         BusError, vars, history
<1>2. InLine /\ Table
  BY <1>1 DEF Orderly
<1>3. pc # "idle" /\ isRes => res = entry
  BY <1>2 DEF InLine
<1>4. ASSUME object' = object
      PROVE  EntryPending' = EntryPending /\ \A m \in EntryPending : object'[m] = object[m]
  BY <1>4 DEF EntryPending
<1>5. ASSUME UNCHANGED <<started, rxVars, object>>, ~Sending, ~Sending',
             pc' # "idle" /\ isRes' => res' = entry'
      PROVE  InLine' /\ Table'
  BY <1>2, <1>4, <1>5, LineSame DEF rxVars
<1>6. ASSUME UNCHANGED <<started, rxVars, object, entry, isRes, seg, total, res>>,
             pc' = pc \/ (Sending /\ Sending')
      PROVE  InLine' /\ Table'
  <2>1. (Sending' <=> Sending) /\ (pc' = "idle" <=> pc = "idle")
    BY <1>6 DEF Sending
  <2>2. pc' # "idle" /\ isRes' => res' = entry'
    BY <1>3, <1>6, <2>1
  <2> QED
    BY <1>2, <1>4, <1>6, <2>1, <2>2, LineSame DEF rxVars
<1>7. CASE SendResponse \/ SendBroadcast
  <2>1. ~Sending /\ ~Sending' /\ UNCHANGED <<started, rxVars, object>>
    BY <1>7 DEF SendResponse, SendBroadcast, At, Sending, history, slotVars
  <2>2. pc' # "idle" /\ isRes' => res' = entry'
    BY <1>7 DEF SendResponse, SendBroadcast, resVars
  <2> QED
    BY <1>5, <2>1, <2>2
<1>8. CASE NoError \/ TryNext \/ FindFree \/ ReadSignals \/ WriteSignals
  <2>1. Sending /\ Sending' /\ UNCHANGED <<started, rxVars, object, entry, isRes, seg, total, res>>
    BY <1>8 DEF NoError, TryNext, FindFree, ReadSignals, WriteSignals, At, Sending, history,
                slotVars, resVars
  <2> QED
    BY <1>6, <2>1
<1>9. CASE Request
  <2>1. ~(pc # "idle" /\ isRes)
    BY <1>9 DEF Request
  <2>2. UNCHANGED <<started, rxVars, object, mainVars>>
    BY <1>9 DEF Request, slotVars
  <2>3. UNCHANGED <<started, delivered, rxTable, pc, isRes, seg, total, entry>> /\ (Sending' <=> Sending)
    BY <2>2 DEF mainVars, rxVars, Sending
  <2>4. ~(pc' # "idle" /\ isRes')
    BY <2>1, <2>3
  <2> QED
    BY <1>2, <1>4, <2>2, <2>3, <2>4, LineSame
<1>10. CASE Heartbeat
  <2>1. UNCHANGED <<mainVars, resVars, rxVars, started>>
    BY <1>10 DEF Heartbeat
  <2>2. CASE object' = object
    BY <1>6, <2>1, <2>2 DEF mainVars, resVars
  <2>3. CASE object' # object
    <3>1. PICK n \in Slots : object' = [object EXCEPT ![n] = Beat] /\ object[n].kind # "entry"
      BY <1>10, <2>3 DEF Heartbeat
    <3>2. object \in [Slots -> FrameType \cup {Beat, None}] /\ Beat.kind # "entry"
      BY SlotFacts DEF TypeOK
    <3>3. object'[n] = Beat /\ \A m \in Slots : m # n => object'[m] = object[m]
      BY <3>1, <3>2
    <3>4. EntryPending' = EntryPending /\ \A m \in EntryPending : object'[m] = object[m]
      BY <3>1, <3>2, <3>3 DEF EntryPending
    <3>5. (Sending' <=> Sending) /\ UNCHANGED <<seg, total, entry, res, pc, isRes, delivered, rxTable>>
      BY <2>1 DEF mainVars, resVars, rxVars, Sending
    <3>6. pc' # "idle" /\ isRes' => res' = entry'
      BY <1>3, <3>5
    <3> QED
      BY <1>2, <2>1, <3>4, <3>5, <3>6, LineSame
  <2> QED
    BY <2>2, <2>3
<1>11. CASE (\E n \in Slots : CAN_tx(n)) \/ BusError \/ UNCHANGED vars
  <2>1. UNCHANGED <<mainVars, res, rxVars, started, object>>
    BY <1>11 DEF CAN_tx, BusError, vars, history, slotVars, resVars
  <2> QED
    BY <1>6, <2>1 DEF mainVars
<1>12. ~Drop /\ ~CAN_error
  BY DEF Drop, CAN_error
<1> QED
  BY <1>2, <1>7, <1>8, <1>9, <1>10, <1>11, <1>12, StartInLine, TransmitInLine, SendOutInLine
     DEF Next, MainStep

LEMMA OrderlyInit == Init => Orderly
<1> SUFFICES ASSUME Init PROVE InLine /\ Table
  BY DEF Orderly
<1>1. started = <<>> /\ delivered = <<>> /\ rxTable = None /\ pc = "idle"
      /\ \A n \in Slots : object[n] = None
  BY DEF Init
<1>2. Len(started) = 0 /\ Come = 0 /\ ~Sending
  BY <1>1 DEF Come, Sending
<1>3. EntryPending = {}
  BY <1>1 DEF EntryPending, None
<1> QED
  BY <1>1, <1>2, <1>3 DEF InLine, Table

(* Of each entry between the last that has come and the last sent a frame  *)
(* waits in a slot.                                                        *)
LEMMA WaitsInSlot ==
  ASSUME TypeOK, SentOnce, InLine, Table, NEW k \in Come + 1 .. Len(started) - 1
  PROVE  \E n \in EntryPending : object[n].head = started[k]
<1> DEFINE L == Len(started)
<1>1. L \in Nat /\ Come \in Nat
  BY Starts
<1>2. k \in 1 .. L /\ k < L /\ (k = Come + 1 \/ k \in Come + 2 .. L)
  BY <1>1
<1>3. /\ SentSegs[k] = 0 .. Segments[started[k]] /\ Segments[started[k]] \in Nat
      /\ \A s : s \in Gone[k] <=> s \in SentSegs[k] /\ ~Pend(started[k], s)
  BY <1>2, Segs, Starts
<1>4. \E s \in 0 .. Segments[started[k]] : s \notin Gone[k]
  <2>1. 0 \in 0 .. Segments[started[k]]
    BY <1>3
  <2>2. CASE k \in Come + 2 .. L
    BY <2>1, <2>2 DEF InLine
  <2>3. CASE k = Come + 1 /\ rxTable = None
    <3>1. Come < L
      BY <1>1, <1>2, <2>3
    <3> QED
      BY <2>1, <2>3, <3>1 DEF Table
  <2>4. CASE k = Come + 1 /\ rxTable # None
    BY <2>4 DEF Table
  <2> QED
    BY <1>2, <2>2, <2>3, <2>4
<1> QED
  BY <1>3, <1>4 DEF Pend

LEMMA EntriesWhole == TypeOK /\ SentOnce /\ InSlots /\ Orderly => WholeEntries
<1> SUFFICES ASSUME TypeOK, SentOnce, InSlots, Orderly,
                    faults = {} \/ (faults = {"overtaken"} /\ beats = 0)
             PROVE  /\ \A i \in DOMAIN delivered : delivered[i].own
                    /\ Len(delivered) <= Len(started)
                    /\ \A i \in DOMAIN delivered : delivered[i].entry = started[i]
                    /\ Len(started) - Len(delivered) <= 1 + Cardinality(EntryPending)
  BY DEF WholeEntries
<1> DEFINE L == Len(started)
           P == Cardinality(EntryPending)
<1>1. faults = {}
  BY DEF InSlots, Calm
<1>2. InLine /\ Table
  BY <1>1 DEF Orderly
<1>3. L \in Nat /\ Come \in Nat /\ DOMAIN delivered = 1 .. Come /\ Come <= L
  BY <1>2, Starts DEF InLine, Come
<1>4. P \in Nat /\ IsFiniteSet(EntryPending)
  BY SlotFacts
<1>5. \A i \in DOMAIN delivered : delivered[i].own /\ delivered[i].entry = started[i]
  BY <1>2, <1>3 DEF InLine
<1>6. L - Come <= 1 + P
  <2>1. CASE L <= Come + 1
    <3> HIDE DEF L, P, Come
    <3> QED
      BY <1>3, <1>4, <2>1
  <2>2. CASE L > Come + 1
    <3> DEFINE K == Come + 1 .. L - 1
               f == [k \in K |-> CHOOSE n \in EntryPending : object[n].head = started[k]]
    <3>1. \A k \in K : f[k] \in EntryPending /\ object[f[k]].head = started[k]
      BY <1>2, WaitsInSlot
    <3>2. \A k \in K : k \in 1 .. L
      BY <1>3
    <3>3. \A j, k \in K : f[j] = f[k] => j = k
      BY <3>1, <3>2, Starts
    <3>4. f \in Injection(K, EntryPending)
      <4>1. f \in [K -> EntryPending]
        BY <3>1
      <4> HIDE DEF f, K
      <4> QED
        BY <3>3, <4>1 DEF Injection, IsInjective
    <3>5. Cardinality(K) <= P
      BY <1>4, <3>4, FS_Injection
    <3>6. Cardinality(K) = L - 1 - (Come + 1) + 1
      <4> HIDE DEF L, Come
      <4> QED
        BY <1>3, <2>2, FS_Interval
    <3> HIDE DEF L, P, Come, K
    <3> QED
      BY <1>3, <1>4, <3>5, <3>6
  <2> HIDE DEF L, P, Come
  <2> QED
    BY <1>3, <2>1, <2>2
<1> QED
  BY <1>3, <1>5, <1>6 DEF Come

(* In every execution in which no frame went astray, what the controller   *)
(* hands over is whole and is what the unit has sent, once each and in     *)
(* order, and all but the last entry and those with a frame in a slot have *)
(* come, for any slots, any entries and any number of segments.            *)
THEOREM EntriesCorrect == Spec => []WholeEntries
<1> DEFINE Inv == TypeOK /\ SentOnce /\ InSlots /\ Orderly
<1>1. Init => Inv
  BY CalmInit, OrderlyInit
<1>2. Inv /\ [Next]_vars => Inv'
  BY TypeStep, SentStep, CalmStep, OrderlyStep
<1>3. Inv => WholeEntries
  BY EntriesWhole
<1> QED
  BY <1>1, <1>2, <1>3, PTL DEF Spec
=============================================================================
