------------------------------ MODULE LockTimer ------------------------------
(***************************************************************************)
(* The electric lock of a unit (iValuableUnit/main.cpp). OP_LOCKER drives  *)
(* the pin from the CAN interrupt; TIMER32_1, every Period ms, samples the *)
(* door and starts the countdown LockCount of a lock that is on; TIMER32_0,*)
(* every ms, counts down and turns the lock off, which would overheat.     *)
(* The three interrupts do not nest, but come in any order.                *)
(***************************************************************************)
EXTENDS Integers

CONSTANTS
  LOCK_WAIT_MS,  \* ms for which the lock stays on once the countdown has begun
  LOCK_IDLE,     \* LockCount when no countdown runs
  Period         \* ms between two TIMER32_1 interrupts

ASSUME LockAssumption ==
  /\ LOCK_WAIT_MS \in Nat \ {0} /\ Period \in Nat \ {0}
  /\ LOCK_IDLE \in Nat /\ LOCK_IDLE > LOCK_WAIT_MS

VARIABLES
  locker,     \* the pin: IS_LOCKER_ON
  LockCount,
  door,       \* whether the door is open: IS_DOOR_OPEN
  DoorState,  \* as last sampled
  phase,      \* ms since the last TIMER32_1 interrupt
  onFor,      \* history: ms for which the lock has been on
  unlocked    \* history: ms since the last unlock command, LOCK_WAIT_MS at most

lockVars == <<locker, LockCount, door, DoorState, phase, onFor, unlocked>>

LockTypeOK ==
  /\ locker \in BOOLEAN
  /\ LockCount \in 1 .. LOCK_WAIT_MS \cup {LOCK_IDLE}
  /\ door \in BOOLEAN /\ DoorState \in BOOLEAN
  /\ phase \in 0 .. Period
  /\ onFor \in Nat
  /\ unlocked \in 0 .. LOCK_WAIT_MS

LockInit ==
  /\ locker = FALSE /\ LockCount = LOCK_IDLE
  /\ door \in BOOLEAN /\ DoorState = FALSE
  /\ phase = 0 /\ onFor = 0 /\ unlocked = LOCK_WAIT_MS

----------------------------------------------------------------------------
(* Faulty variant: an unlock command starts the countdown anew.            *)
UnlockRestarts ==
  /\ locker' = TRUE
  /\ LockCount' = LOCK_WAIT_MS
  /\ onFor' = IF locker THEN onFor ELSE 0
  /\ unlocked' = 0
  /\ UNCHANGED <<door, DoorState, phase>>

(* OP_LOCKER with a value other than 0, and with 0: the pin alone changes, *)
(* whether or not a countdown runs.                                        *)
Unlock ==
  /\ locker' = TRUE
  /\ onFor' = IF locker THEN onFor ELSE 0
  /\ unlocked' = 0
  /\ UNCHANGED <<LockCount, door, DoorState, phase>>

Lock ==
  /\ locker' = FALSE
  /\ onFor' = 0
  /\ UNCHANGED <<LockCount, door, DoorState, phase, unlocked>>

DoorMoves ==
  /\ door' = ~door
  /\ UNCHANGED <<locker, LockCount, DoorState, phase, onFor, unlocked>>

Counting == LockCount # LOCK_IDLE /\ locker

Expires == Counting /\ LockCount = 1

(* Faulty variant: the countdown goes on past its end.                     *)
Timer0PastEnd ==
  /\ phase < Period
  /\ phase' = phase + 1
  /\ unlocked' = IF unlocked < LOCK_WAIT_MS THEN unlocked + 1 ELSE unlocked
  /\ LockCount' = IF Counting THEN LockCount - 1 ELSE LockCount
  /\ onFor' = IF locker THEN onFor + 1 ELSE 0
  /\ UNCHANGED <<locker, door, DoorState>>

(* A millisecond passes; TIMER32_0 handles it.                             *)
Timer0 ==
  /\ phase < Period
  /\ phase' = phase + 1
  /\ unlocked' = IF unlocked < LOCK_WAIT_MS THEN unlocked + 1 ELSE unlocked
  /\ \/ Expires /\ locker' = FALSE /\ LockCount' = LOCK_IDLE /\ onFor' = 0
     \/ Counting /\ ~Expires /\ LockCount' = LockCount - 1 /\ onFor' = onFor + 1
                 /\ UNCHANGED locker
     \/ ~Counting /\ onFor' = (IF locker THEN onFor + 1 ELSE 0)
                  /\ UNCHANGED <<locker, LockCount>>
  /\ UNCHANGED <<door, DoorState>>

(* Faulty variant: the door is looked at as it was sampled last time.      *)
Timer1Late ==
  /\ phase = Period
  /\ phase' = 0
  /\ DoorState' = door
  /\ \/ locker /\ DoorState /\ locker' = FALSE /\ LockCount' = LOCK_IDLE /\ onFor' = 0
     \/ locker /\ ~DoorState /\ UNCHANGED <<locker, onFor>>
        /\ LockCount' = IF LockCount = LOCK_IDLE THEN LOCK_WAIT_MS ELSE LockCount
     \/ ~locker /\ UNCHANGED <<locker, LockCount, onFor>>
  /\ UNCHANGED <<door, unlocked>>

(* TIMER32_1: an open door ends it at once.                                *)
Timer1 ==
  /\ phase = Period
  /\ phase' = 0
  /\ DoorState' = door
  /\ \/ locker /\ door /\ locker' = FALSE /\ LockCount' = LOCK_IDLE /\ onFor' = 0
     \/ locker /\ ~door /\ UNCHANGED <<locker, onFor>>
        /\ LockCount' = IF LockCount = LOCK_IDLE THEN LOCK_WAIT_MS ELSE LockCount
     \/ ~locker /\ UNCHANGED <<locker, LockCount, onFor>>
  /\ UNCHANGED <<door, unlocked>>

LockNext == Unlock \/ Lock \/ DoorMoves \/ Timer0 \/ Timer1

LockSpec == LockInit /\ [][LockNext]_lockVars

----------------------------------------------------------------------------
(* Properties.                                                             *)

(* However often it is unlocked and locked in between, the lock is on for  *)
(* no longer than the wait and the period that passes before TIMER32_1     *)
(* sees it: the two interrupts never leave a lock on without a countdown.  *)
OnTimeBounded == locker => onFor < LOCK_WAIT_MS + Period

(* An opened door turns the lock off within a period: a lock is on with    *)
(* the door sampled open only if an unlock command came since the sample.  *)
OpenMeansOff == locker /\ DoorState => unlocked <= phase

(* "Timeout to re-lock after last unlock" (iValuableUnit/main.cpp:74): the *)
(* countdown turns the lock off no sooner than the wait after the last     *)
(* unlock command.                                                         *)
RelocksAfterLastUnlock == [][Timer0 /\ Expires => unlocked' = LOCK_WAIT_MS]_lockVars
=============================================================================
