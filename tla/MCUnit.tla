-------------------------------- MODULE MCUnit --------------------------------
(* Parts of a unit that share no state, on small instances: its CAN cell,   *)
(* its lock, its data, the names and the notices it shows. Side by side     *)
(* they would only multiply, so a behaviour runs one of them.               *)
EXTENDS UnitCan, LockTimer, UnitStore, NameFlash, NoticeBar

VARIABLE part

MCSegments == <<2, 0, 1>>

allVars == <<vars, lockVars, storeVars, flashVars, noticeVars>>

UnitInit ==
  /\ Init /\ LockInit /\ StoreInit /\ FlashInit /\ NoticeInit
  /\ part \in {"can", "lock", "store", "names", "notices"}
  /\ part = "lock" \/ ~door

UnitNext ==
  /\ UNCHANGED part
  /\ \/ part = "can" /\ Next /\ UNCHANGED <<lockVars, storeVars, flashVars, noticeVars>>
     \/ part = "lock" /\ LockNext /\ UNCHANGED <<vars, storeVars, flashVars, noticeVars>>
     \/ part = "store" /\ StoreNext /\ UNCHANGED <<vars, lockVars, flashVars, noticeVars>>
     \/ part = "names" /\ FlashNext /\ UNCHANGED <<vars, lockVars, storeVars, noticeVars>>
     \/ part = "notices" /\ NoticeNext /\ UNCHANGED <<vars, lockVars, storeVars, flashVars>>

(* The fairness is UnitCan's.                                               *)
UnitSpec == UnitInit /\ [][UnitNext]_<<allVars, part>> /\ Fairness

(* Each part is in a state of its types: slots, places and countdowns stay  *)
(* in their ranges.                                                        *)
PartsTypeOK == TypeOK /\ LockTypeOK /\ StoreTypeOK /\ FlashTypeOK /\ NoticeTypeOK
=============================================================================
