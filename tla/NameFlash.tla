------------------------------ MODULE NameFlash ------------------------------
(***************************************************************************)
(* The names of the supplies a unit shows, in two sectors of its flash     *)
(* (SuppliesDisplay.cpp, with CopyToFlash256 and EraseSectors of iap.c):   *)
(* one that is shown from and its backup, a page for each supply. A page   *)
(* is programmed once and marked deleted in place; to change a name the    *)
(* sector is erased and copied back from the backup, then the backup is    *)
(* written anew. Each step here is one operation of the flash. The power   *)
(* may fail between two of them, or in the middle of one, which leaves the *)
(* pages it was at unreadable.                                             *)
(***************************************************************************)
EXTENDS Supplies

CONSTANTS
  Names,          \* names the controller sends
  MaxChanges,     \* bound: names set and deleted
  MaxPowerFails   \* bound

ASSUME NamesAssumption == Names # {} /\ Names \cap {"blank", "deleted", "garbled"} = {}
ASSUME FlashBoundAssumption == MaxChanges \in Nat /\ MaxPowerFails \in Nat

VARIABLES
  supplies, backup,  \* the pages of the two sectors
  flashPc,           \* what ModifyString or DeleteString does next
  index, source,     \* its arguments
  copying,           \* the i of its loops
  named,              \* history: the name last given to each place
  changes,           \* bound: calls so far
  failed,            \* history: power failures
  since              \* history: calls begun since the last one

flashVars == <<supplies, backup, flashPc, index, source, copying, named, changes, failed, since>>

Pages == Names \cup {"blank", "deleted", "garbled"}
Shown(page) == IF page \in {"blank", "deleted"} THEN "none" ELSE page

FlashTypeOK ==
  /\ supplies \in [Places -> Pages] /\ backup \in [Places -> Pages]
  /\ flashPc \in {"idle", "program", "programBackup", "erase", "copy", "eraseBackup",
                  "copyBackup", "delete", "deleteBackup"}
  /\ index \in Places /\ source \in Names /\ copying \in Places
  /\ named \in [Places -> Names \cup {"none"}]
  /\ changes \in 0 .. MaxChanges /\ failed \in 0 .. MaxPowerFails /\ since \in 0 .. MaxChanges

FlashInit ==
  /\ supplies = [i \in Places |-> "blank"] /\ backup = [i \in Places |-> "blank"]
  /\ flashPc = "idle" /\ index = 0 /\ source = (CHOOSE name \in Names : TRUE) /\ copying = 0
  /\ named = [i \in Places |-> "none"]
  /\ changes = 0 /\ failed = 0 /\ since = 0

(* CopyToFlash256 of a page over what is there: bits are only cleared.     *)
Programmed(old, new) ==
  CASE old = "blank" -> new
    [] new \in {"blank", old} -> old
    [] "deleted" \in {old, new} -> "deleted"
    [] OTHER -> "garbled"

Goto(l) == flashPc' = l

----------------------------------------------------------------------------
(* Faulty variant: a place with a name is programmed again as it is.       *)
ModifyInPlace(i, name) ==
  /\ flashPc = "idle" /\ changes < MaxChanges
  /\ changes' = changes + 1 /\ since' = since + 1
  /\ index' = i /\ source' = name /\ named' = [named EXCEPT ![i] = name]
  /\ Goto("program")
  /\ UNCHANGED <<supplies, backup, copying, failed>>

(* ModifyString: a place never used is programmed, any other needs the     *)
(* sector erased.                                                          *)
ModifyString(i, name) ==
  /\ flashPc = "idle" /\ changes < MaxChanges
  /\ changes' = changes + 1 /\ since' = since + 1
  /\ index' = i /\ source' = name /\ named' = [named EXCEPT ![i] = name]
  /\ \/ supplies[i] = "blank" /\ Goto("program")
     \/ supplies[i] # "blank" /\ Goto("erase")
  /\ UNCHANGED <<supplies, backup, copying, failed>>

Program ==
  /\ flashPc = "program"
  /\ supplies' = [supplies EXCEPT ![index] = Programmed(@, source)]
  /\ Goto("programBackup")
  /\ UNCHANGED <<backup, index, source, copying, named, changes, failed, since>>

ProgramBackup ==
  /\ flashPc = "programBackup"
  /\ backup' = [backup EXCEPT ![index] = Programmed(@, source)]
  /\ Goto("idle")
  /\ UNCHANGED <<supplies, index, source, copying, named, changes, failed, since>>

Erase ==
  /\ flashPc = "erase"
  /\ supplies' = [i \in Places |-> "blank"] /\ copying' = 0
  /\ Goto("copy")
  /\ UNCHANGED <<backup, index, source, named, changes, failed, since>>

(* Faulty variant: i <= SUPPLIES_NUM.                                      *)
NextCopyPast(here, after) ==
  \/ copying < SUPPLIES_NUM /\ copying' = copying + 1 /\ Goto(here)
  \/ copying = SUPPLIES_NUM /\ copying' = 0 /\ Goto(after)

NextCopy(here, after) ==
  \/ copying < SUPPLIES_NUM - 1 /\ copying' = copying + 1 /\ Goto(here)
  \/ copying = SUPPLIES_NUM - 1 /\ copying' = 0 /\ Goto(after)

(* Faulty variant: all pages come from the backup.                         *)
CopyAll ==
  /\ flashPc = "copy"
  /\ supplies' = [supplies EXCEPT ![copying] = backup[copying]]
  /\ NextCopy("copy", "eraseBackup")
  /\ UNCHANGED <<backup, index, source, named, changes, failed, since>>

(* The new name, and the others from the backup; a deleted one stays blank. *)
Copy ==
  /\ flashPc = "copy"
  /\ supplies' =
       [supplies EXCEPT ![copying] = IF copying = index THEN source
                                     ELSE IF backup[copying] = "deleted" THEN @
                                     ELSE backup[copying]]
  /\ NextCopy("copy", "eraseBackup")
  /\ UNCHANGED <<backup, index, source, named, changes, failed, since>>

EraseBackup ==
  /\ flashPc = "eraseBackup"
  /\ backup' = [i \in Places |-> "blank"]
  /\ Goto("copyBackup")
  /\ UNCHANGED <<supplies, index, source, copying, named, changes, failed, since>>

CopyBackup ==
  /\ flashPc = "copyBackup"
  /\ backup' = [backup EXCEPT ![copying] = supplies[copying]]
  /\ NextCopy("copyBackup", "idle")
  /\ UNCHANGED <<supplies, index, source, named, changes, failed, since>>

(* DeleteString has nothing to do where no name is shown.                  *)
DeleteString(i) ==
  /\ flashPc = "idle" /\ changes < MaxChanges
  /\ changes' = changes + 1 /\ since' = since + 1
  /\ index' = i /\ named' = [named EXCEPT ![i] = "none"]
  /\ \/ supplies[i] \in {"blank", "deleted"} /\ UNCHANGED flashPc
     \/ supplies[i] \notin {"blank", "deleted"} /\ Goto("delete")
  /\ UNCHANGED <<supplies, backup, source, copying, failed>>

Delete ==
  /\ flashPc = "delete"
  /\ supplies' = [supplies EXCEPT ![index] = "deleted"]
  /\ Goto("deleteBackup")
  /\ UNCHANGED <<backup, index, source, copying, named, changes, failed, since>>

DeleteBackup ==
  /\ flashPc = "deleteBackup"
  /\ backup' = [backup EXCEPT ![index] = "deleted"]
  /\ Goto("idle")
  /\ UNCHANGED <<supplies, index, source, copying, named, changes, failed, since>>

(* The pages the flash is working at.                                      *)
Busy ==
  CASE flashPc \in {"erase", "eraseBackup"} -> Places
    [] flashPc \in {"copy", "copyBackup"} -> {copying}
    [] flashPc = "idle" -> {}
    [] OTHER -> {index}

Garble(sector) == [i \in Places |-> IF i \in Busy THEN "garbled" ELSE sector[i]]
AtBackup == flashPc \in {"programBackup", "eraseBackup", "copyBackup", "deleteBackup"}

(* At the start the flash is taken as it is.                               *)
PowerFail ==
  /\ failed < MaxPowerFails
  /\ failed' = failed + 1 /\ since' = 0
  /\ Goto("idle") /\ copying' = 0
  /\ \/ UNCHANGED <<supplies, backup>>
     \/ ~AtBackup /\ supplies' = Garble(supplies) /\ UNCHANGED backup
     \/ AtBackup /\ backup' = Garble(backup) /\ UNCHANGED supplies
  /\ UNCHANGED <<index, source, named, changes>>

FlashStep ==
  \/ Program \/ ProgramBackup \/ Erase \/ Copy \/ EraseBackup \/ CopyBackup
  \/ Delete \/ DeleteBackup

FlashNext ==
  \/ \E i \in Places : DeleteString(i) \/ \E name \in Names : ModifyString(i, name)
  \/ FlashStep
  \/ PowerFail

FlashSpec == FlashInit /\ [][FlashNext]_flashVars

----------------------------------------------------------------------------
(* Without power failures the names shown are those the controller has set, *)
(* through any sequence of settings, changes and deletions, and the backup  *)
(* shows the same.                                                          *)
NamesShown ==
  failed = 0 /\ flashPc = "idle" =>
    \A i \in Places : Shown(supplies[i]) = named[i] /\ Shown(backup[i]) = named[i]

(* After one power failure, at whatever step, the name of every other place *)
(* than the one being changed is still in one of the two sectors. (The      *)
(* code does not look: a later change may copy from the wrong one.)         *)
OneSectorHolds ==
  failed = 1 /\ since = 0 =>
    \A i \in Places \ {index} :
      Shown(supplies[i]) = named[i] \/ Shown(backup[i]) = named[i]
=============================================================================
