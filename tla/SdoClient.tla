------------------------------ MODULE SdoClient ------------------------------
(***************************************************************************)
(* How the bridge carries out a command on a unit in ISP mode              *)
(* (iValuableISP/main.c, canonchip.c), one level below FirmwareUpdate: the *)
(* SDO transfers a command consists of, the state they share with the CAN  *)
(* interrupt and the timer, their repetition, and the segments of a page.  *)
(* A segment is sent when the one before it has been acknowledged or has   *)
(* timed out; for the last one nobody waits.                               *)
(*                                                                         *)
(* CAN_rx receives through a pointer that is never set: it is assumed to   *)
(* point to memory nobody uses, so that what canRxMsg shows may change     *)
(* with every message. The boot loader of the unit is external: it         *)
(* answers one request at a time, aborts a segment out of turn, erases and *)
(* copies only what was prepared, and each preparation serves once.        *)
(***************************************************************************)
EXTENDS Integers, Sequences

CONSTANTS
  Segments,      \* of a page: 38 in the code, 6 for the code that restarts the unit
  SdoTries,      \* how often a transfer is tried: 3
  MaxFrames,     \* bound: commands
  MaxDrops,      \* bound: requests and answers that are lost
  MaxLates       \* bound: timeouts while the answer is still to come

ASSUME SegmentsAssumption ==
  /\ Segments \in Nat /\ Segments > 1 /\ SdoTries \in Nat \ {0}
  /\ MaxFrames \in Nat /\ MaxDrops \in Nat /\ MaxLates \in Nat

VARIABLES
  SDOC_State, SDOC_BuffCount,   \* CANopen_...; BuffCount in segments
  canRxMsg,     \* what the last message it points to says
  nmtMsg,       \* the request last sent
  ispPage,      \* ispFlashCount.page
  main,         \* where handleUartReceFrame is
  requests, answers,   \* on the bus
  target,       \* the unit
  reply,        \* what the controller was told last, and of which command
  number,       \* commands so far
  drops, lates, \* bounds
  \* history
  blank,        \* the page was blank when its command began
  missed,       \* the segment before the last one sent had timed out
  skipped       \* of the two segments before one both had timed out, or of the last the one before

sdoVars == <<SDOC_State, SDOC_BuffCount, canRxMsg, nmtMsg, ispPage, main, requests, answers,
             target, reply, number, drops, lates, blank, missed, skipped>>

Transfers ==
  [find    |-> <<"serial">>,
   format  |-> <<"unlock", "prepare", "erase">>,
   program |-> <<"ramAddress", "start", "segments", "prepare", "destination", "source", "length">>,
   go      |-> <<"ramAddress", "start", "segments", "unlock", "execution", "control">>]

Transfer == Transfers[main.cmd][main.step]

(* All segments but the last hold what the command brings; a byte of it is *)
(* the number of the command and of its segment.                           *)
Parts == 1 .. Segments - 1
Whole(n) == [k \in Parts |-> <<n, k>>]
Nothing == [k \in Parts |-> <<0, 0>>]
NoRequest == [transfer |-> "none", segment |-> 0, toggle |-> 0, data |-> 0]

SdoInit ==
  /\ SDOC_State = "Fail" /\ SDOC_BuffCount = 0
  /\ canRxMsg = "none" /\ nmtMsg = NoRequest /\ ispPage = 0
  /\ main = [pc |-> "idle", cmd |-> "find", step |-> 1, fail |-> 0]
  /\ requests = <<>> /\ answers = <<>>
  /\ target = [on |-> TRUE, open |-> FALSE, toggle |-> 0, at |-> 1, ram |-> Nothing,
               prepared |-> FALSE, page |-> 0, ran |-> Nothing,
               flash |-> [p \in 0 .. MaxFrames |-> Nothing]]
  /\ reply = [cmd |-> "none", ok |-> FALSE]
  /\ number = 0 /\ drops = 0 /\ lates = 0
  /\ blank = FALSE /\ missed = FALSE /\ skipped = FALSE

----------------------------------------------------------------------------
(* The main loop.                                                          *)

Send(r) == requests' = Append(requests, r) /\ nmtMsg' = r

(* handleUartReceFrame begins a command.                                   *)
Begin(cmd) ==
  /\ main.pc = "idle" /\ number < MaxFrames /\ number' = number + 1
  /\ main' = [pc |-> "transfer", cmd |-> cmd, step |-> 1, fail |-> 0]
  /\ SDOC_BuffCount' = IF cmd \in {"program", "go"} THEN 0 ELSE SDOC_BuffCount
  /\ reply' = [cmd |-> "none", ok |-> FALSE]
  /\ blank' = (target.flash[ispPage] = Nothing)
  /\ UNCHANGED <<SDOC_State, canRxMsg, nmtMsg, ispPage, requests, answers, target, drops, lates,
                 missed, skipped>>

Finish(ok) ==
  /\ main' = [main EXCEPT !.pc = "idle"]
  /\ reply' = [cmd |-> main.cmd, ok |-> ok]
  /\ ispPage' = CASE ok /\ main.cmd \in {"find", "format"} -> 0
                  [] ok /\ main.cmd = "program" -> ispPage + 1
                  [] OTHER -> ispPage

NextTransfer ==
  IF main.step < Len(Transfers[main.cmd])
  THEN /\ main' = [main EXCEPT !.step = @ + 1, !.fail = 0,
                     !.pc = IF Transfers[main.cmd][main.step + 1] = "segments"
                              THEN "segments" ELSE "transfer"]
       /\ UNCHANGED <<reply, ispPage>>
  ELSE Finish(TRUE)

(* CANopen_SDOC_Exp_ReadWrite and its like: none begins while the state    *)
(* is neither success nor failure, it is then a failure.                   *)
StartTransfer ==
  /\ main.pc = "transfer"
  /\ main' = [main EXCEPT !.pc = "spin"]
  /\ \/ /\ SDOC_State \in {"Succes", "Fail"}
        /\ SDOC_State' = CASE Transfer = "serial" -> "Exp_Read_Busy"
                           [] Transfer = "start" -> "Seg_Write_Busy"
                           [] OTHER -> "Exp_Write_Busy"
        /\ Send([transfer |-> Transfer, segment |-> 0, toggle |-> 0,
                 data |-> IF Transfer = "destination" THEN ispPage ELSE 0])
     \/ /\ SDOC_State \notin {"Succes", "Fail"}
        /\ SDOC_State' = "Fail"
        /\ UNCHANGED <<requests, nmtMsg>>
  /\ UNCHANGED <<SDOC_BuffCount, canRxMsg, ispPage, answers, target, reply, number, drops,
                 lates, blank, missed, skipped>>

(* Faulty variant: a failure is not counted.                               *)
TransferRetried ==
  main' = [main EXCEPT !.pc = "transfer"] /\ UNCHANGED <<reply, ispPage>>

(* The spin ends. Three failures end the command.                          *)
TransferFails ==
  IF main.fail + 1 < SdoTries
  THEN main' = [main EXCEPT !.pc = "transfer", !.fail = @ + 1] /\ UNCHANGED <<reply, ispPage>>
  ELSE Finish(FALSE)

TransferEnds ==
  /\ main.pc = "spin"
  /\ \/ SDOC_State = "Fail" /\ TransferFails
     \/ SDOC_State = (IF Transfer = "start" THEN "Seg_Write_OK" ELSE "Succes") /\ NextTransfer
  /\ UNCHANGED <<SDOC_State, SDOC_BuffCount, canRxMsg, nmtMsg, requests, answers, target, number,
                 drops, lates, blank, missed, skipped>>

NextSegment == IF canRxMsg = "initiated" THEN 1 ELSE SDOC_BuffCount + 1

(* ispSegmentDown: what was received says which segment comes next, also   *)
(* when it was received before a timeout. The last one is taken for done.  *)
SegmentDown ==
  /\ main.pc = "segments" /\ SDOC_State # "Seg_Write_Busy"
  /\ canRxMsg \in {"initiated", "segment"}
  /\ SDOC_BuffCount' = NextSegment
  /\ Send([transfer |-> "segment", segment |-> NextSegment, data |-> number,
           toggle |-> IF canRxMsg = "initiated" THEN 0 ELSE 1 - nmtMsg.toggle])
  /\ missed' = (SDOC_State = "Fail" /\ NextSegment # 1)
  /\ skipped' = (skipped \/ (missed' /\ (missed \/ NextSegment = Segments)))
  /\ \/ NextSegment = Segments /\ SDOC_State' = "Succes" /\ NextTransfer
     \/ /\ NextSegment # Segments /\ SDOC_State' = "Seg_Write_Busy"
        /\ UNCHANGED <<main, reply, ispPage>>
  /\ UNCHANGED <<canRxMsg, answers, target, number, drops, lates, blank>>

(* Anything else was received: ispSegmentDown does nothing, again and      *)
(* again, until the timer makes it a failure. Then the last request is     *)
(* repeated (repeatISPDataSend), up to three times.                        *)
Repeat ==
  /\ \/ main.pc = "segments" /\ canRxMsg \notin {"initiated", "segment"}
        /\ main' = [main EXCEPT !.pc = "repeat", !.fail = 1]
     \/ main.pc = "repeat" /\ main.fail < SdoTries
        /\ main' = [main EXCEPT !.fail = @ + 1]
  /\ SDOC_State = "Fail" /\ SDOC_State' = "Seg_Write_Busy"
  /\ Send(nmtMsg)
  /\ UNCHANGED <<SDOC_BuffCount, canRxMsg, ispPage, answers, target, reply, number, drops, lates,
                 blank, missed, skipped>>

(* A third repetition that succeeds is taken for a failure, too.           *)
RepeatEnds ==
  /\ main.pc = "repeat"
  /\ \/ /\ SDOC_State = "Seg_Write_OK" /\ main.fail < SdoTries
        /\ main' = [main EXCEPT !.pc = "segments"] /\ UNCHANGED <<reply, ispPage>>
     \/ /\ SDOC_State \in {"Seg_Write_OK", "Fail"} /\ main.fail = SdoTries
        /\ Finish(FALSE)
  /\ UNCHANGED <<SDOC_State, SDOC_BuffCount, canRxMsg, nmtMsg, requests, answers, target, number,
                 drops, lates, blank, missed, skipped>>

MainLoop == StartTransfer \/ TransferEnds \/ SegmentDown \/ Repeat \/ RepeatEnds

mainVars == <<SDOC_BuffCount, nmtMsg, ispPage, main, reply, number, blank, missed, skipped>>

----------------------------------------------------------------------------
(* The interrupts.                                                         *)

(* Faulty variant: a write takes any message for its answer, too.          *)
ReceiveAny ==
  /\ answers # <<>> /\ answers' = Tail(answers)
  /\ LET m == Head(answers) IN
     \/ SDOC_State \in {"Exp_Read_Busy", "Exp_Write_Busy"} /\ SDOC_State' = "Succes" /\ canRxMsg' = m
     \/ SDOC_State = "Seg_Write_Busy" /\ SDOC_State' = "Seg_Write_OK" /\ canRxMsg' = m
     \/ /\ SDOC_State \notin {"Exp_Read_Busy", "Exp_Write_Busy", "Seg_Write_Busy"}
        /\ canRxMsg' \in {canRxMsg, m} /\ UNCHANGED SDOC_State
  /\ UNCHANGED <<mainVars, requests, target, drops, lates>>

(* CAN_ISR_HANDLE: a read takes any message for its answer, a write only   *)
(* the right one; what else comes may still change what canRxMsg shows.    *)
Receive ==
  /\ answers # <<>> /\ answers' = Tail(answers)
  /\ LET m == Head(answers) IN
     \/ SDOC_State = "Exp_Read_Busy" /\ SDOC_State' = "Succes" /\ canRxMsg' = m
     \/ SDOC_State = "Seg_Write_Busy" /\ SDOC_State' = "Seg_Write_OK" /\ canRxMsg' = m
     \/ /\ SDOC_State \notin {"Exp_Read_Busy", "Seg_Write_Busy"}
        /\ SDOC_State' = IF SDOC_State = "Exp_Write_Busy" /\ m = "initiated"
                           THEN "Succes" ELSE SDOC_State
        /\ canRxMsg' \in {canRxMsg, m}
  /\ UNCHANGED <<mainVars, requests, target, drops, lates>>

(* CANopen_10ms_tick, CANOPEN_TIMEOUT_VAL times: long after the answer     *)
(* should have come, and long after the main loop has gone on with it; now *)
(* and then before the answer comes.                                       *)
GoesOn == SDOC_State = "Seg_Write_OK" /\ main.pc # "idle" /\ canRxMsg \in {"initiated", "segment"}
Quiet == requests = <<>> /\ answers = <<>> /\ ~GoesOn

TimeOut ==
  /\ SDOC_State \notin {"Succes", "Fail"} /\ SDOC_State' = "Fail"
  /\ \/ Quiet /\ UNCHANGED lates
     \/ ~Quiet /\ ~GoesOn /\ lates < MaxLates /\ lates' = lates + 1
  /\ UNCHANGED <<mainVars, canRxMsg, requests, answers, target, drops>>

----------------------------------------------------------------------------
(* The unit, and the bus.                                                  *)

Copied(old, new) == IF old = Nothing THEN new ELSE [k \in Parts |-> <<0, k>>]

(* What the unit does on a request, and what it answers.                   *)
Served(r) ==
  LET closed == [target EXCEPT !.open = FALSE] IN
  CASE r.transfer = "segment" ->
         IF target.open /\ r.toggle = target.toggle
         THEN <<[target EXCEPT !.toggle = 1 - @, !.at = @ + 1, !.open = r.segment < Segments,
                   !.ram = IF target.at \in Parts THEN [@ EXCEPT ![target.at] = <<r.data, r.segment>>]
                                                  ELSE @],
                "segment">>
         ELSE <<closed, "abort">>
    [] r.transfer = "start" -> <<[target EXCEPT !.open = TRUE, !.toggle = 0, !.at = 1], "initiated">>
    [] r.transfer = "serial" -> <<closed, "read">>
    [] r.transfer = "prepare" -> <<[closed EXCEPT !.prepared = TRUE], "initiated">>
    [] r.transfer = "destination" -> <<[closed EXCEPT !.page = r.data], "initiated">>
    [] r.transfer \in {"erase", "length"} /\ ~target.prepared -> <<closed, "abort">>
    [] r.transfer = "erase" /\ target.prepared ->
         <<[closed EXCEPT !.prepared = FALSE, !.flash = [p \in DOMAIN @ |-> Nothing]], "initiated">>
    [] r.transfer = "length" /\ target.prepared ->
         <<[closed EXCEPT !.prepared = FALSE, !.flash[target.page] = Copied(@, target.ram)],
           "initiated">>
    [] r.transfer = "control" -> <<[closed EXCEPT !.on = FALSE, !.ran = target.ram], "initiated">>
    [] OTHER -> <<closed, "initiated">>

Serve ==
  /\ requests # <<>> /\ requests' = Tail(requests)
  /\ IF target.on
     THEN LET s == Served(Head(requests)) IN
          target' = s[1] /\ answers' = Append(answers, s[2])
     ELSE UNCHANGED <<target, answers>>
  /\ UNCHANGED <<mainVars, SDOC_State, canRxMsg, drops, lates>>

(* A request is lost, or an answer.                                        *)
Drop ==
  /\ drops < MaxDrops /\ drops' = drops + 1
  /\ \/ requests # <<>> /\ requests' = Tail(requests) /\ UNCHANGED answers
     \/ answers # <<>> /\ answers' = Tail(answers) /\ UNCHANGED requests
  /\ UNCHANGED <<mainVars, SDOC_State, canRxMsg, target, lates>>

SwitchOff ==
  /\ target.on /\ target' = [target EXCEPT !.on = FALSE]
  /\ UNCHANGED <<mainVars, SDOC_State, canRxMsg, requests, answers, drops, lates>>

----------------------------------------------------------------------------
SdoNext ==
  \/ \E cmd \in DOMAIN Transfers : Begin(cmd)
  \/ MainLoop \/ Receive \/ TimeOut \/ Serve \/ Drop \/ SwitchOff

SdoFairness ==
  WF_sdoVars(MainLoop) /\ WF_sdoVars(Receive) /\ WF_sdoVars(TimeOut) /\ WF_sdoVars(Serve)

SdoSpec == SdoInit /\ [][SdoNext]_sdoVars
FairSdoSpec == SdoSpec /\ SdoFairness

----------------------------------------------------------------------------
(* What the bridge reports as done is done: a page reported as programmed  *)
(* is in the flash whole, the chip is blank after "erased", the unit has   *)
(* run the whole of its code after "go" - whatever requests and answers    *)
(* were lost and repeated, but for three ways: answers that come after     *)
(* their timeout; the segment before the last, whose loss nobody notices;  *)
(* and two lost one after the other, when the toggle fits again.           *)
ReplyMeansDone ==
  reply.ok /\ ~skipped /\ lates = 0 =>
    CASE reply.cmd = "program" -> blank => target.flash[ispPage - 1] = Whole(number)
      [] reply.cmd = "format"  -> \A p \in DOMAIN target.flash : target.flash[p] = Nothing
      [] reply.cmd = "go"      -> target.ran = Whole(number)
      [] OTHER                 -> TRUE

(* The bridge keeps its promises (BridgeService): whatever was lost and     *)
(* repeated, a command takes effect at most once, at its place, whole, also *)
(* one that is reported as failed; a page is not written by a download that *)
(* broke off, nor the one before it a second time. ReplyMeansDone is a part *)
(* of this: what is reported as done stays until the next command.          *)
TakenEffect ==
  /\ main.pc # "idle"
  /\ \/ main.cmd = "find"
     \/ main.cmd = "format" /\ main.step = 3 /\ ~target.prepared
     \/ main.cmd = "program" /\ main.step = 7 /\ ~target.prepared
     \/ main.cmd = "go" /\ target.ran = Whole(number)

Promise == INSTANCE BridgeService WITH
  Places <- 0 .. MaxFrames, Empty <- Nothing, Brought <- [n \in 1 .. MaxFrames |-> Whole(n)],
  sure <- lates = 0 /\ ~skipped,
  command <- IF main.pc = "idle" THEN "none" ELSE main.cmd,
  done <- TakenEffect, page <- ispPage, flash <- target.flash, ran <- target.ran,
  told <- IF reply.cmd = "none" THEN "none" ELSE IF reply.ok THEN "ok" ELSE "failed"

PromiseKept == Promise!Spec

(* The bridge comes back from every command, but for two endless loops     *)
(* over the segments: a unit that is there aborts a download that a lost   *)
(* segment has put out of step, again and again; and a unit that is gone   *)
(* has answered only the start, so that the first segment is sent afresh   *)
(* each time, and no failure is counted.                                   *)
InSegments == main.pc \in {"segments", "repeat"}
BridgeComesBack ==
  \/ []<>(main.pc = "idle")
  \/ <>[](InSegments /\ target.on /\ canRxMsg = "abort")
  \/ <>[](InSegments /\ ~target.on /\ canRxMsg = "initiated")
=============================================================================
