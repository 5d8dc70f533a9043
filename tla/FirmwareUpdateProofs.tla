-------------------------- MODULE FirmwareUpdateProofs --------------------------
(***************************************************************************)
(* Proofs about FirmwareUpdate, for any number of units, pages, tries,     *)
(* updates and lost transfers: its type invariant, that updating is set    *)
(* exactly while commands are sent, and that an update in which no wait    *)
(* has run out leaves the image on the unit. And about SdoClient, for any  *)
(* number of segments, tries, commands and lost messages: what the bridge  *)
(* reports as done is done, and it keeps the promises of BridgeService.    *)
(***************************************************************************)
EXTENDS FirmwareUpdate, SdoClient, SequenceTheorems, TLAPS

(* The units in ISP mode hold the pages of the image below n, and no more. *)
Filled(n) == [p \in ImagePages |-> IF p < n THEN p ELSE Erased]
Hold(n) == \A u \in isp : flash[u] = Filled(n)

(* The command of the update thread has no effect yet, or it has all.      *)
Before ==
  /\ ctl.cmd = "program" => page = ctl.page /\ Hold(ctl.page)
  /\ ctl.cmd = "go" => Hold(Pages)
After ==
  /\ ctl.cmd = "format" => page = 0 /\ Hold(0)
  /\ ctl.cmd = "program" => page = ctl.page + 1 /\ Hold(ctl.page + 1)

CtlFrame == [cmd |-> ctl.cmd, page |-> ctl.page]

(* Where the one command can be on its way there and back.                 *)
Resting   == ctl.pc \in {"idle", "sync"} /\ MsgId = <<>> /\ wire = <<>> /\ bridge.pc = "idle"
Ready     == ctl.pc = "send" /\ MsgId = <<>> /\ wire = <<>> /\ bridge.pc = "idle" /\ Before
OnWire    == ctl.pc = "wait" /\ MsgId = <<>> /\ wire = <<CtlFrame>> /\ bridge.pc = "idle" /\ Before
AtBridge  == /\ ctl.pc = "wait" /\ MsgId = <<>> /\ wire = <<>> /\ bridge.pc = "busy"
             /\ bridge.frame = CtlFrame /\ Before
Unheard   == ctl.pc = "wait" /\ MsgId = <<>> /\ wire = <<>> /\ bridge.pc \in {"idle", "stuck"}
Acked     == ctl.pc = "wait" /\ MsgId = <<"ok">> /\ wire = <<>> /\ bridge.pc = "idle" /\ After
Refused   == ctl.pc = "wait" /\ MsgId = <<"error">> /\ wire = <<>> /\ bridge.pc = "idle"

(* As long as no wait has run out, there is one command at a time.         *)
Phase == Resting \/ Ready \/ OnWire \/ AtBridge \/ Unheard \/ Acked \/ Refused
OneCommand == ~late => Phase

Inv == TypeOK /\ OneCommand

CtlType == [pc: {"idle", "send", "wait", "sync"}, unit: Units \cup {NoUnit},
            cmd: Commands, page: ImagePages, tries: 0 .. Tries]
BridgeType == [pc: {"idle", "busy", "stuck"}, frame: Frames, fail: 0 .. Tries]
Answers == {"ok", "error"}
FlashType == [Units -> [ImagePages -> ImagePages \cup {Erased, Garbage}]]

----------------------------------------------------------------------------
(* Types.                                                                  *)

LEMMA InitType == Init => TypeOK
<1> SUFFICES ASSUME Init PROVE TypeOK
  OBVIOUS
<1>1. flash \in FlashType
  BY DEF Init, FlashType, Blank, Image
<1>2. 0 \in ImagePages /\ 0 \in 0 .. Tries
  BY SizesAssumption DEF ImagePages
<1>3. ctl \in CtlType /\ bridge \in BridgeType
  BY <1>2 DEF Init, CtlType, BridgeType, Commands, Frames, NoFrame
<1>4. /\ MsgId \in Seq({"ok", "error"}) /\ Len(MsgId) <= MsgBox
      /\ wire \in Seq(Frames) /\ Len(wire) <= MaxWire
  BY SizesAssumption DEF Init
<1>5. updating \in BOOLEAN /\ late \in BOOLEAN
  BY DEF Init
<1>6. /\ updateStatus \in [Units -> {"Idle", "Updating", "Updated"}]
      /\ page \in Nat /\ isp \in SUBSET Units /\ slow \in Nat
  BY DEF Init
<1>7. bounds \in [updates: 0 .. MaxUpdates, lost: 0 .. MaxLost]
  BY SizesAssumption DEF Init
<1> QED
  BY <1>1, <1>3, <1>4, <1>5, <1>6, <1>7 DEF TypeOK, FlashType, CtlType, BridgeType

(* A step to the next command, or back, leaves a good thread.              *)
LEMMA GiveUpType ==
  TypeOK /\ GiveUp => ctl' \in CtlType /\ updating' \in BOOLEAN /\ updateStatus' = updateStatus
  BY DEF TypeOK, GiveUp, CtlType

LEMMA ProceedType ==
  ASSUME TypeOK, Proceed
  PROVE  /\ ctl' \in CtlType /\ updating' \in BOOLEAN
         /\ updateStatus' \in [Units -> {"Idle", "Updating", "Updated"}]
<1>1. ctl \in CtlType /\ 0 \in ImagePages /\ 1 \in 0 .. Tries /\ Tries \in 0 .. Tries
  BY SizesAssumption DEF TypeOK, CtlType, ImagePages
<1>2. ctl.page < Pages - 1 => ctl.page + 1 \in ImagePages
  BY <1>1, SizesAssumption DEF CtlType, ImagePages
<1> QED
  BY <1>1, <1>2, ZenonT(60) DEF TypeOK, Proceed, Command, CtlType, Commands

(* Answers are queued in the order they come, as far as there is room.     *)
LEMMA AnswerType ==
  ASSUME TypeOK, NEW as \in Seq(Answers), Answer(as)
  PROVE  bridge' \in BridgeType /\ MsgId' \in Seq(Answers) /\ Len(MsgId') <= MsgBox
<1> DEFINE all == MsgId \o as
<1>1. MsgId \in Seq(Answers) /\ MsgBox \in Nat \ {0}
  BY SizesAssumption DEF TypeOK, Answers
<1>2. all \in Seq(Answers)
  BY <1>1, ConcatProperties
<1>3. Len(all) > MsgBox =>
        SubSeq(all, 1, MsgBox) \in Seq(Answers) /\ Len(SubSeq(all, 1, MsgBox)) = MsgBox
  <2> HIDE DEF all
  <2>1. \A i \in 1 .. Len(all) : all[i] \in Answers
    BY <1>2, ElementOfSeq
  <2>2. Len(all) \in Nat
    BY <1>2
  <2>3. Len(all) > MsgBox => \A i \in 1 .. MsgBox : all[i] \in Answers
    BY <2>1, <2>2, <1>1
  <2> QED
    BY <2>3, <1>1, SubSeqProperties
<1>4. Len(all) \in Nat
  <2> HIDE DEF all
  <2> QED
    BY <1>2
<1>5. bridge' \in BridgeType
  <2>1. bridge \in BridgeType /\ 0 \in 0 .. Tries
    BY SizesAssumption DEF TypeOK, BridgeType
  <2>2. bridge' = [bridge EXCEPT !.pc = "idle", !.fail = 0]
    BY DEF Answer
  <2> QED
    BY <2>1, <2>2 DEF BridgeType
<1>6. MsgId' = IF Len(all) <= MsgBox THEN all ELSE SubSeq(all, 1, MsgBox)
  BY DEF Answer
<1> HIDE DEF all
<1> QED
  BY <1>1, <1>2, <1>3, <1>4, <1>5, <1>6

LEMMA ProgramType ==
  ASSUME TypeOK
  PROVE  /\ [u \in Units |-> IF u \in isp THEN Blank ELSE flash[u]] \in FlashType
         /\ [u \in Units |-> IF u \in isp THEN Program(u) ELSE flash[u]] \in FlashType
<1>1. flash \in FlashType /\ bridge.frame.page \in ImagePages \cup {Garbage}
  BY DEF TypeOK, FlashType, Frames
<1>2. Blank \in [ImagePages -> ImagePages \cup {Erased, Garbage}]
  BY DEF Blank
<1>3. \A u \in Units : Program(u) \in [ImagePages -> ImagePages \cup {Erased, Garbage}]
  BY <1>1 DEF FlashType, Program, Written
<1> QED
  BY <1>1, <1>2, <1>3 DEF FlashType

(* The timeouts that count are a number.                                   *)
LEMMA SlowerType == ASSUME TypeOK, NEW n \in Nat PROVE Slower(n) \in Nat
<1>1. slow \in Nat /\ slow + n \in Nat /\ MaxPatience \in Nat
  BY DEF TypeOK, MaxPatience
<1> QED
  BY <1>1 DEF Slower

LEMMA TypeStep == TypeOK /\ [Next]_vars => TypeOK'
<1> SUFFICES ASSUME TypeOK, [Next]_vars PROVE TypeOK'
  OBVIOUS
<1> DEFINE StatusType == [Units -> {"Idle", "Updating", "Updated"}]
<1>0. /\ ctl \in CtlType /\ bridge \in BridgeType /\ flash \in FlashType
      /\ updateStatus \in StatusType
      /\ 0 \in ImagePages /\ 0 \in 0 .. Tries /\ 1 \in 0 .. Tries
  BY SizesAssumption DEF TypeOK, CtlType, BridgeType, FlashType, ImagePages
<1> DEFINE Bound == [updates: 0 .. MaxUpdates, lost: 0 .. MaxLost]
<1>a. bounds \in Bound /\ MaxUpdates \in Nat /\ MaxLost \in Nat
  BY SizesAssumption DEF TypeOK
<1>b. /\ bounds.updates < MaxUpdates => [bounds EXCEPT !.updates = @ + 1] \in Bound
      /\ bounds.lost < MaxLost => [bounds EXCEPT !.lost = @ + 1] \in Bound
  BY <1>a
<1>c. Hang \in BridgeType
  BY <1>0 DEF Hang, BridgeType
<1>1. ASSUME NEW u \in Units, UpdateOne(u) PROVE TypeOK'
  <2>1. bounds' \in Bound
    BY <1>1, <1>b DEF UpdateOne
  <2>2. ctl' \in CtlType
    BY <1>0, <1>1 DEF UpdateOne, CtlType, Commands
  <2>3. updateStatus' \in StatusType /\ updating' \in BOOLEAN /\ isp' \in SUBSET Units
    BY <1>0, <1>1 DEF UpdateOne, TypeOK
  <2> QED
    BY <1>1, <2>1, <2>2, <2>3 DEF UpdateOne, TypeOK, CtlType
<1>2. ASSUME NEW u \in Units, Recover(u) PROVE TypeOK'
  <2>1. ctl' \in CtlType /\ updateStatus' \in StatusType
    BY <1>0, <1>2 DEF Recover, CtlType
  <2> QED
    BY <1>2, <2>1 DEF Recover, TypeOK, CtlType, unitVars
<1>3. ASSUME NEW u \in Units, UnitRestarts(u) PROVE TypeOK'
  <2>1. bridge' \in BridgeType /\ isp' \in SUBSET Units
    BY <1>0, <1>3, <1>c DEF UnitRestarts, TypeOK
  <2> QED
    BY <1>3, <2>1 DEF UnitRestarts, TypeOK, BridgeType
<1>4. CASE SendCommand
  <2>1. ctl' \in CtlType /\ [cmd |-> ctl.cmd, page |-> ctl.page] \in Frames
    BY <1>0, <1>4 DEF SendCommand, CtlType, Frames
  <2>2. wire' \in Seq(Frames) /\ Len(wire') <= MaxWire
    BY <1>4, <2>1, SizesAssumption DEF SendCommand, TypeOK
  <2> QED
    BY <1>4, <2>1, <2>2 DEF SendCommand, TypeOK, CtlType, unitVars
<1>5. CASE TakeAnswer
  <2>1. ctl' \in CtlType /\ updating' \in BOOLEAN /\ updateStatus' \in StatusType
    BY <1>0, <1>5, GiveUpType, ProceedType DEF TakeAnswer
  <2>2. MsgId \in Seq(Answers) /\ MsgId # <<>> /\ MsgId' = Tail(MsgId) /\ Len(MsgId) <= MsgBox
    BY <1>5 DEF TakeAnswer, TypeOK, Answers
  <2>3. MsgId' \in Seq(Answers) /\ Len(MsgId') <= MsgBox
    BY <2>2, HeadTailProperties, LenProperties, SizesAssumption
  <2> QED
    BY <1>5, <2>1, <2>3 DEF TakeAnswer, TypeOK, CtlType, Answers, unitVars
<1>6. CASE WaitRunsOut
  <2>1. CASE ctl.tries > 1 /\ Command(ctl.cmd, ctl.page, ctl.tries - 1)
             /\ UNCHANGED <<updating, updateStatus>>
    <3>1. ctl' \in CtlType
      <4>1. ctl.tries \in 0 .. Tries /\ ctl.page \in ImagePages /\ ctl.cmd \in Commands
        BY <1>0 DEF CtlType
      <4>2. ctl.tries - 1 \in 0 .. Tries
        BY <2>1, <4>1, SizesAssumption
      <4> QED
        BY <1>0, <2>1, <4>1, <4>2 DEF Command, CtlType
    <3> QED
      BY <1>6, <2>1, <3>1 DEF WaitRunsOut, TypeOK, CtlType, unitVars
  <2>2. CASE GiveUp
    BY <1>6, <2>2, GiveUpType DEF WaitRunsOut, TypeOK, CtlType, unitVars
  <2> QED
    BY <1>6, <2>1, <2>2 DEF WaitRunsOut
<1>7. CASE SyncEnds
  <2>1. ctl' \in CtlType
    BY <1>0, <1>7 DEF SyncEnds, CtlType
  <2> QED
    BY <1>7, <2>1 DEF SyncEnds, TypeOK, CtlType, unitVars
<1>8. CASE ReadFrame
  <2>1. PICK n \in 1 .. Len(wire) :
          /\ bridge' = [pc |-> "busy", frame |-> wire[n], fail |-> 0]
          /\ wire' = SubSeq(wire, n + 1, Len(wire))
    BY <1>8 DEF ReadFrame
  <2>2. wire \in Seq(Frames) /\ Len(wire) <= MaxWire /\ Len(wire) \in Nat
    BY DEF TypeOK
  <2>3. bridge' \in BridgeType
    BY <1>0, <2>1, <2>2, ElementOfSeq DEF BridgeType
  <2>4. \A i \in n + 1 .. Len(wire) : wire[i] \in Frames
    BY <2>1, <2>2, ElementOfSeq
  <2>5. /\ wire' \in Seq(Frames)
        /\ Len(wire') = IF n + 1 <= Len(wire) THEN Len(wire) - (n + 1) + 1 ELSE 0
    BY <2>1, <2>2, <2>4, SubSeqProperties
  <2>6. Len(wire') <= MaxWire
    BY <2>1, <2>2, <2>5, SizesAssumption
  <2> QED
    BY <1>8, <2>3, <2>5, <2>6 DEF ReadFrame, TypeOK, BridgeType, unitVars
<1>9. ASSUME NEW S, \A n \in S : n \in {1, bridge.fail + 1}, TransferTimesOut(S),
             bounds' \in Bound
      PROVE  TypeOK'
  <2>1. bridge.fail \in 0 .. Tries /\ bridge.fail < Tries
    BY <1>0, <1>9 DEF TransferTimesOut, BridgeType
  <2>2. \A n \in S : n \in 0 .. Tries
    BY <1>9, <2>1, SizesAssumption
  <2>3. bridge' \in BridgeType
    BY <1>0, <1>9, <2>2 DEF TransferTimesOut, BridgeType
  <2>4. slow' \in Nat
    BY <1>9, SlowerType DEF TransferTimesOut
  <2> QED
    BY <1>9, <2>3, <2>4 DEF TransferTimesOut, TypeOK, BridgeType, unitVars
<1>10. CASE TransferLost
  <2>1. bounds' \in Bound
    BY <1>10, <1>b DEF TransferLost
  <2> QED
    BY <1>9, <1>10, <2>1 DEF TransferLost
<1>11. CASE TransferUnanswered
  BY <1>9, <1>11 DEF TransferUnanswered, TypeOK
<1>12. CASE SegmentLost
  <2>1. bounds' \in Bound
    BY <1>12, <1>b DEF SegmentLost
  <2>2. [bridge EXCEPT !.frame.page = Garbage] \in BridgeType
    BY <1>0 DEF BridgeType, Frames
  <2>3. bridge' \in BridgeType /\ late' \in BOOLEAN
    BY <1>12, <1>c, <2>2 DEF SegmentLost, TypeOK
  <2>4. slow' \in Nat
    BY <1>12, SlowerType DEF SegmentLost, TypeOK
  <2> QED
    BY <1>12, <2>1, <2>3, <2>4 DEF SegmentLost, TypeOK, BridgeType, unitVars
<1>13. CASE Succeed
  <2>1. bridge' \in BridgeType /\ MsgId' \in Seq(Answers) /\ Len(MsgId') <= MsgBox
    <3>1. <<"ok">> \in Seq(Answers) /\ <<"ok", "error">> \in Seq(Answers)
      BY DEF Answers
    <3> QED
      BY <1>13, <3>1, AnswerType DEF Succeed
  <2>2. page' \in Nat /\ flash' \in FlashType /\ isp' \in SUBSET Units
    <3>1. page \in Nat /\ page + 1 \in Nat /\ isp \in SUBSET Units /\ {} \in SUBSET Units
      BY DEF TypeOK
    <3>2. Effect
      BY <1>13 DEF Succeed
    <3> QED
      BY <1>0, <3>1, <3>2, ProgramType DEF Effect
  <2> QED
    BY <1>13, <2>1, <2>2 DEF Succeed, TypeOK, BridgeType, FlashType, Answers
<1>14. CASE Fail
  <2>1. bridge' \in BridgeType /\ MsgId' \in Seq(Answers) /\ Len(MsgId') <= MsgBox
    <3>1. <<"error">> \in Seq(Answers) /\ <<>> \in Seq(Answers)
      BY DEF Answers
    <3> QED
      BY <1>14, <3>1, AnswerType DEF Fail
  <2>2. flash' \in FlashType
    BY <1>0, <1>14, ProgramType DEF Fail
  <2> QED
    BY <1>14, <2>1, <2>2 DEF Fail, TypeOK, BridgeType, FlashType, Answers
<1>15. CASE TransferRefused
  <2>1. bounds' \in Bound
    BY <1>15, <1>b DEF TransferRefused
  <2>2. bridge' \in BridgeType
    BY <1>0, <1>15, SizesAssumption DEF TransferRefused, BridgeType
  <2>3. slow' \in Nat
    BY <1>15, SlowerType, SizesAssumption DEF TransferRefused
  <2> QED
    BY <1>15, <2>1, <2>2, <2>3 DEF TransferRefused, TypeOK, BridgeType, unitVars
<1>16. CASE SegmentGivenUp
  <2>1. bridge' \in BridgeType
    BY <1>0, <1>16 DEF SegmentGivenUp, BridgeType
  <2> QED
    BY <1>16, <2>1 DEF SegmentGivenUp, TypeOK, BridgeType, unitVars
<1>17. CASE UNCHANGED vars
  BY <1>17 DEF vars, TypeOK
<1> QED
  BY <1>1, <1>2, <1>3, <1>4, <1>5, <1>6, <1>7, <1>8, <1>10, <1>11, <1>12, <1>13, <1>14, <1>15,
     <1>16, <1>17
  DEF Next, UpdateThread, Bridge

(* The variables keep their types in every execution.                      *)
THEOREM TypeCorrect == Spec => []TypeOK
  BY InitType, TypeStep, PTL DEF Spec
----------------------------------------------------------------------------
(* updating is set exactly while the update thread sends or waits.         *)

LEMMA UpdatingStep == TypeOK /\ UpdatingWhileSending /\ [Next]_vars => UpdatingWhileSending'
<1> SUFFICES ASSUME TypeOK, UpdatingWhileSending, [Next]_vars PROVE UpdatingWhileSending'
  OBVIOUS
<1>0. ctl \in CtlType /\ updating \in BOOLEAN
  BY DEF TypeOK, CtlType
<1>1. ASSUME NEW u \in Units, UpdateOne(u) PROVE UpdatingWhileSending'
  BY <1>1 DEF UpdateOne, UpdatingWhileSending
<1>2. ASSUME NEW u \in Units, Recover(u) PROVE UpdatingWhileSending'
  BY <1>0, <1>2 DEF Recover, UpdatingWhileSending, CtlType
<1>3. CASE SendCommand
  BY <1>0, <1>3 DEF SendCommand, UpdatingWhileSending, CtlType
<1>4. GiveUp => UpdatingWhileSending'
  BY <1>0 DEF GiveUp, UpdatingWhileSending, CtlType
<1>5. \A cmd, p, n : Command(cmd, p, n) => ctl'.pc = "send"
  BY <1>0 DEF Command, CtlType
<1>6. CASE TakeAnswer
  <2>1. ctl.pc = "wait" /\ updating
    BY <1>6 DEF TakeAnswer, UpdatingWhileSending
  <2>2. Proceed => UpdatingWhileSending'
    BY <1>0, <1>5, <2>1 DEF Proceed, UpdatingWhileSending, CtlType
  <2> QED
    BY <1>4, <1>6, <2>2 DEF TakeAnswer
<1>7. CASE WaitRunsOut
  BY <1>4, <1>5, <1>7 DEF WaitRunsOut, UpdatingWhileSending
<1>8. CASE SyncEnds
  BY <1>0, <1>8 DEF SyncEnds, UpdatingWhileSending, CtlType
<1>9. CASE UNCHANGED <<ctl, updating>>
  BY <1>9 DEF UpdatingWhileSending
<1> QED
  BY <1>1, <1>2, <1>3, <1>6, <1>7, <1>8, <1>9
  DEF Next, UpdateThread, Bridge, UnitRestarts, ReadFrame, TransferLost, TransferUnanswered,
      TransferTimesOut, TransferRefused, SegmentLost, SegmentGivenUp, Succeed, Fail, vars

(* SyncAllData and the heartbeat timer keep off the bus exactly while the  *)
(* update thread sends commands or waits for their answers.                *)
THEOREM UpdatingCorrect == Spec => []UpdatingWhileSending
<1>1. Init => UpdatingWhileSending
  BY DEF Init, UpdatingWhileSending
<1> QED
  BY <1>1, TypeCorrect, UpdatingStep, PTL DEF Spec

----------------------------------------------------------------------------
(* The steps of the update thread keep OneCommand.                         *)

LEMMA AckIsLast ==
  ASSUME Inv, TakeAnswer, ~late
  PROVE  /\ MsgId' = <<>> /\ wire' = <<>> /\ bridge'.pc = "idle"
         /\ (Proceed /\ After) \/ GiveUp
<1>1. Acked \/ Refused
  BY DEF Inv, OneCommand, Phase, TakeAnswer, Resting, Ready, OnWire, AtBridge, Unheard
<1>2. /\ Head(<<"ok">>) = "ok" /\ Tail(<<"ok">>) = <<>>
      /\ Head(<<"error">>) = "error" /\ Tail(<<"error">>) = <<>>
  OBVIOUS
<1>3. CASE Acked
  BY <1>2, <1>3 DEF TakeAnswer, Acked
<1>4. CASE Refused
  BY <1>2, <1>4 DEF TakeAnswer, Refused
<1> QED
  BY <1>1, <1>3, <1>4

LEMMA ProceedIsReady ==
  ASSUME Inv, TakeAnswer, ~late
  PROVE  Resting' \/ Ready'
<1>1. MsgId' = <<>> /\ wire' = <<>> /\ bridge'.pc = "idle" /\ ((Proceed /\ After) \/ GiveUp)
  BY AckIsLast
<1>2. ctl \in CtlType /\ Pages \in Nat \ {0}
  BY SizesAssumption DEF Inv, TypeOK, CtlType
<1>3. UNCHANGED <<page, isp, flash>>
  BY DEF TakeAnswer, unitVars
<1>4. CASE GiveUp
  BY <1>1, <1>2, <1>4 DEF GiveUp, CtlType, Resting
<1>5. CASE Proceed /\ After
  <2>1. CASE ctl.cmd = "find" /\ Command("format", 0, 1)
    BY <1>1, <1>2, <2>1 DEF Command, CtlType, Ready, Before
  <2>2. CASE ctl.cmd = "format" /\ Command("program", 0, Tries)
    <3>1. ctl'.pc = "send" /\ ctl'.cmd = "program" /\ ctl'.page = 0
      BY <1>2, <2>2 DEF Command, CtlType
    <3>2. page = 0 /\ Hold(0)
      BY <1>5, <2>2 DEF After
    <3> QED
      BY <1>1, <1>3, <3>1, <3>2 DEF Ready, Before, Hold, Filled, ImagePages
  <2>3. CASE ctl.cmd = "program" /\ Command("program", ctl.page + 1, Tries)
    <3>1. ctl'.pc = "send" /\ ctl'.cmd = "program" /\ ctl'.page = ctl.page + 1
      BY <1>2, <2>3 DEF Command, CtlType
    <3>2. page = ctl.page + 1 /\ Hold(ctl.page + 1)
      BY <1>5, <2>3 DEF After
    <3> QED
      BY <1>1, <1>3, <3>1, <3>2 DEF Ready, Before, Hold, Filled, ImagePages
  <2>4. CASE ctl.cmd = "program" /\ ctl.page = Pages - 1 /\ Command("go", 0, 1)
    <3>1. ctl'.pc = "send" /\ ctl'.cmd = "go"
      BY <1>2, <2>4 DEF Command, CtlType
    <3>2. Hold(ctl.page + 1) /\ ctl.page + 1 = Pages
      BY <1>2, <1>5, <2>4 DEF After
    <3>3. Hold(Pages)
      BY <3>2
    <3> QED
      BY <1>1, <1>3, <3>1, <3>3 DEF Ready, Before, Hold, Filled, ImagePages
  <2>5. CASE ctl' = [ctl EXCEPT !.pc = "sync"]
    BY <1>1, <1>2, <2>5 DEF CtlType, Resting
  <2> QED
    BY <1>5, <2>1, <2>2, <2>3, <2>4, <2>5 DEF Proceed
<1> QED
  BY <1>1, <1>4, <1>5

(* A page that is written to the erased place after its predecessors.      *)
LEMMA FilledGrows ==
  ASSUME TypeOK, NEW u \in Units, NEW p \in ImagePages,
         page = p, bridge.frame.page = p, flash[u] = Filled(p)
  PROVE  Program(u) = Filled(p + 1)
<1>1. p \in Int /\ \A q \in ImagePages : q \in Int
  BY DEF ImagePages
<1>2. Program(u) = [flash[u] EXCEPT ![p] = p]
  BY DEF Program, Filled, Written
<1>3. Program(u) = [q \in ImagePages |-> IF q = p THEN p ELSE IF q < p THEN q ELSE Erased]
  BY <1>2 DEF Filled
<1>4. \A q \in ImagePages :
        (IF q = p THEN p ELSE IF q < p THEN q ELSE Erased) = (IF q < p + 1 THEN q ELSE Erased)
  <2> TAKE q \in ImagePages
  <2>0. q \in Int /\ p \in Int
    BY <1>1
  <2>1. q < p + 1 <=> q < p \/ q = p
    BY <2>0
  <2> QED
    BY <2>1
<1> QED
  BY <1>3, <1>4 DEF Filled
----------------------------------------------------------------------------
(* The steps of the bridge keep OneCommand.                                *)

LEMMA ReadFrameKeeps ==
  ASSUME Inv, ReadFrame, ~late
  PROVE  AtBridge'
<1>1. OnWire
  BY DEF Inv, OneCommand, Phase, ReadFrame, Resting, Ready, AtBridge, Unheard, Acked, Refused
<1>2. wire = <<CtlFrame>> /\ Len(wire) = 1 /\ wire[1] = CtlFrame
  BY <1>1 DEF OnWire
<1>3. bridge' = [pc |-> "busy", frame |-> CtlFrame, fail |-> 0] /\ wire' = SubSeq(wire, 2, 1)
  BY <1>2 DEF ReadFrame
<1>4. wire' = <<>>
  BY <1>3, SubSeqEmpty
<1>5. UNCHANGED <<ctl, MsgId, page, isp, flash>>
  BY DEF ReadFrame, unitVars
<1> QED
  BY <1>1, <1>3, <1>4, <1>5 DEF OnWire, AtBridge, CtlFrame, Before, Hold

(* The answer to the one command is queued alone.                          *)
LEMMA AnswerIsOnly ==
  ASSUME TypeOK, MsgId = <<>>, NEW a, Answer(<<a>>)
  PROVE  MsgId' = <<a>> /\ bridge'.pc = "idle"
<1>1. MsgId \o <<a>> = <<a>> /\ Len(<<a>>) = 1 /\ 1 <= MsgBox
  BY SizesAssumption
<1> QED
  BY <1>1 DEF Answer, TypeOK

LEMMA SucceedKeeps ==
  ASSUME Inv, Succeed, ~late
  PROVE  Acked'
<1>1. AtBridge /\ TypeOK
  BY DEF Inv, OneCommand, Phase, Succeed, Resting, Ready, OnWire, Unheard, Acked, Refused
<1>2. /\ bridge.frame.cmd = ctl.cmd /\ bridge.frame.page = ctl.page
      /\ ctl.page \in ImagePages /\ Before /\ ctl.pc = "wait" /\ UNCHANGED <<ctl, wire>>
  BY <1>1 DEF AtBridge, CtlFrame, Succeed, TypeOK
<1>3. ctl.page \in Int /\ Pages <= FlashPages /\ ctl.page + 1 <= Pages /\ FlashPages \in Int
  BY <1>2, SizesAssumption DEF ImagePages
<1>4. Effect
  BY DEF Succeed
<1>5. ~(bridge.frame.cmd = "program" /\ page' > FlashPages)
  <2> SUFFICES ASSUME bridge.frame.cmd = "program" PROVE ~(page' > FlashPages)
    OBVIOUS
  <2>1. page' = ctl.page + 1
    BY <1>2, <1>4 DEF Before, Effect
  <2>2. ctl.page + 1 <= FlashPages /\ ctl.page + 1 \in Int
    BY <1>3, SizesAssumption
  <2>3. ~(ctl.page + 1 > FlashPages)
    BY <1>3, <2>2
  <2> QED
    BY <2>1, <2>3
<1>6. Answer(<<"ok">>)
  BY <1>5 DEF Succeed
<1>7. MsgId' = <<"ok">> /\ bridge'.pc = "idle"
  BY <1>1, <1>6, AnswerIsOnly DEF AtBridge
<1>8. After'
  <2>1. CASE ctl.cmd = "format"
    <3>1. page' = 0 /\ isp' = isp /\ \A u \in isp : flash'[u] = Blank
      BY <1>1, <1>2, <1>4, <2>1 DEF Effect, TypeOK
    <3>2. Blank = Filled(0)
      BY DEF Blank, Filled, ImagePages
    <3>3. \A u \in isp' : flash'[u] = Filled(0)
      BY <3>1, <3>2
    <3>4. Hold(0)'
      BY <3>3 DEF Hold, Filled, ImagePages
    <3> QED
      BY <1>2, <2>1, <3>1, <3>4 DEF After
  <2>2. CASE ctl.cmd = "program"
    <3>1. /\ page = ctl.page /\ Hold(ctl.page)
          /\ page' = ctl.page + 1 /\ isp' = isp
          /\ \A u \in isp : flash'[u] = Program(u)
      BY <1>1, <1>2, <1>4, <2>2 DEF Before, Effect, TypeOK
    <3>2. \A u \in isp' : flash'[u] = Filled(ctl.page + 1)
      BY <1>1, <1>2, <3>1, FilledGrows DEF Hold, TypeOK
    <3>3. Hold(ctl.page + 1)'
      BY <1>2, <3>2 DEF Hold, Filled, ImagePages
    <3> QED
      BY <1>2, <2>2, <3>1, <3>3 DEF After
  <2>3. CASE ctl.cmd \notin {"format", "program"}
    BY <1>2, <2>3 DEF After
  <2> QED
    BY <2>1, <2>2, <2>3
<1> QED
  BY <1>1, <1>2, <1>7, <1>8 DEF AtBridge, Acked

LEMMA FailKeeps ==
  ASSUME Inv, Fail, ~late
  PROVE  Refused' \/ Unheard'
<1>1. AtBridge /\ TypeOK
  BY DEF Inv, OneCommand, Phase, Fail, Resting, Ready, OnWire, Unheard, Acked, Refused
<1>2. UNCHANGED <<ctl, wire>> /\ ctl.pc = "wait" /\ MsgId = <<>> /\ wire = <<>>
  BY <1>1 DEF AtBridge, Fail
<1>3. CASE Answer(<<"error">>)
  BY <1>1, <1>2, <1>3, AnswerIsOnly DEF Refused
<1>4. CASE Answer(<<>>)
  <2>1. MsgId \o <<>> = <<>> /\ Len(<<>>) = 0 /\ 0 <= MsgBox
    BY <1>2, SizesAssumption
  <2>2. MsgId' = <<>> /\ bridge'.pc = "idle"
    BY <1>1, <1>4, <2>1 DEF Answer, TypeOK
  <2> QED
    BY <1>2, <2>2 DEF Unheard
<1> QED
  BY <1>3, <1>4 DEF Fail
----------------------------------------------------------------------------
LEMMA OneCommandStep == Inv /\ [Next]_vars => Inv'
<1> SUFFICES ASSUME Inv, [Next]_vars PROVE Inv'
  OBVIOUS
<1>0. TypeOK /\ TypeOK' /\ OneCommand
  BY TypeStep DEF Inv
<1> SUFFICES ASSUME ~late' PROVE Phase'
  BY <1>0 DEF Inv, OneCommand
<1>a. ctl \in CtlType
  BY <1>0 DEF TypeOK, CtlType
<1>1. ASSUME NEW u \in Units, UpdateOne(u) PROVE Phase'
  <2>1. Resting /\ ctl.pc = "idle"
    BY <1>0, <1>1 DEF OneCommand, Phase, UpdateOne, Ready, OnWire, AtBridge, Unheard, Acked, Refused
  <2> QED
    BY <1>1, <2>1 DEF UpdateOne, Resting, Phase, Ready, Before
<1>2. ASSUME NEW u \in Units, Recover(u) PROVE Phase'
  <2>1. Phase /\ UNCHANGED <<MsgId, wire, bridge, page, isp, flash>>
    BY <1>0, <1>2 DEF OneCommand, Recover, unitVars
  <2>2. CASE ctl.pc = "sync"
    <3>1. Resting /\ ctl'.pc = "idle"
      BY <1>2, <1>a, <2>1, <2>2 DEF Phase, Recover, CtlType, Ready, OnWire, AtBridge, Unheard, Acked, Refused
    <3> QED
      BY <2>1, <3>1 DEF Resting, Phase
  <2>3. CASE ctl' = ctl
    BY <2>1, <2>3 DEF Phase, Resting, Ready, OnWire, AtBridge, Unheard, Acked, Refused,
                      Before, After, Hold, CtlFrame
  <2> QED
    BY <1>2, <2>2, <2>3 DEF Recover
<1>3. ASSUME NEW u \in Units, UnitRestarts(u) PROVE Phase'
  <2>1. /\ Phase /\ UNCHANGED <<ctl, MsgId, wire, page, flash>>
        /\ isp' \subseteq isp
    BY <1>0, <1>3 DEF OneCommand, UnitRestarts
  <2>2. (Before => Before') /\ (After => After')
    BY <2>1 DEF Before, After, Hold, Filled
  <2>3. CASE bridge' = bridge
    BY <2>1, <2>2, <2>3 DEF Phase, Resting, Ready, OnWire, AtBridge, Unheard, Acked, Refused, CtlFrame
  <2>4. CASE bridge.pc = "busy" /\ bridge' = Hang
    <3>1. AtBridge /\ bridge'.pc = "stuck"
      BY <1>0, <2>1, <2>4
      DEF Hang, TypeOK, Phase, Resting, Ready, OnWire, Unheard, Acked, Refused
    <3> QED
      BY <2>1, <3>1 DEF AtBridge, Unheard, Phase
  <2> QED
    BY <1>3, <2>3, <2>4 DEF UnitRestarts
<1>4. CASE SendCommand
  <2>1. Ready
    BY <1>0, <1>4 DEF OneCommand, Phase, SendCommand, Resting, OnWire, AtBridge, Unheard, Acked, Refused
  <2>2. /\ ctl'.pc = "wait" /\ ctl'.cmd = ctl.cmd /\ ctl'.page = ctl.page
        /\ UNCHANGED <<MsgId, bridge, page, isp, flash>>
    BY <1>4, <1>a DEF SendCommand, CtlType, unitVars
  <2>3. wire' = <<CtlFrame>>
    <3>1. Len(<<>>) = 0 /\ 0 < MaxWire /\ Append(<<>>, CtlFrame) = <<CtlFrame>>
      BY SizesAssumption
    <3> QED
      BY <1>4, <2>1, <3>1 DEF SendCommand, Ready, CtlFrame
  <2>4. Before' /\ CtlFrame' = CtlFrame
    BY <2>1, <2>2 DEF Ready, Before, Hold, Filled, CtlFrame
  <2> QED
    BY <2>1, <2>2, <2>3, <2>4 DEF Ready, OnWire, Phase
<1>5. CASE TakeAnswer
  BY <1>5, ProceedIsReady DEF TakeAnswer, Phase
<1>6. CASE WaitRunsOut
  BY <1>6 DEF WaitRunsOut
<1>7. CASE SyncEnds
  <2>1. Resting /\ ctl'.pc = "idle" /\ UNCHANGED <<MsgId, wire, bridge>>
    BY <1>0, <1>7, <1>a
    DEF OneCommand, Phase, SyncEnds, CtlType, Ready, OnWire, AtBridge, Unheard, Acked, Refused
  <2> QED
    BY <2>1 DEF Resting, Phase
<1>8. CASE ReadFrame
  BY <1>8, ReadFrameKeeps DEF ReadFrame, Phase
<1>9. CASE TransferLost \/ TransferUnanswered \/ TransferRefused
  <2>1. /\ AtBridge /\ bridge'.pc = "busy" /\ bridge'.frame = bridge.frame
        /\ UNCHANGED <<ctl, MsgId, wire, page, isp, flash>>
    BY <1>0, <1>9 DEF OneCommand, Phase, TransferLost, TransferUnanswered, TransferTimesOut,
                      TransferRefused, TypeOK, Resting, Ready, OnWire, Unheard, Acked, Refused, unitVars
  <2> QED
    BY <2>1 DEF AtBridge, Before, Hold, Filled, CtlFrame, Phase
<1>10. CASE SegmentLost
  <2>1. AtBridge /\ bridge'.pc = "stuck" /\ UNCHANGED <<ctl, MsgId, wire>>
    BY <1>0, <1>10 DEF OneCommand, Phase, SegmentLost, Hang, TypeOK,
                       Resting, Ready, OnWire, Unheard, Acked, Refused
  <2> QED
    BY <2>1 DEF AtBridge, Unheard, Phase
<1>11. CASE Succeed
  BY <1>11, SucceedKeeps DEF Succeed, Phase
<1>12. CASE Fail
  BY <1>12, FailKeeps DEF Fail, Phase
<1>13. CASE SegmentGivenUp
  <2>1. Unheard /\ bridge'.pc = "idle" /\ UNCHANGED <<ctl, MsgId, wire>>
    BY <1>0, <1>13 DEF OneCommand, Phase, SegmentGivenUp, TypeOK,
                       Resting, Ready, OnWire, AtBridge, Acked, Refused
  <2> QED
    BY <2>1 DEF Unheard, Phase
<1>14. CASE UNCHANGED vars
  BY <1>0, <1>14 DEF vars, OneCommand, Phase, Resting, Ready, OnWire, AtBridge, Unheard, Acked,
                     Refused, Before, After, Hold, Filled, CtlFrame
<1> QED
  BY <1>1, <1>2, <1>3, <1>4, <1>5, <1>6, <1>7, <1>8, <1>9, <1>10, <1>11, <1>12, <1>13, <1>14
  DEF Next, UpdateThread, Bridge

(* An update in which no wait has run out restarts a unit only with the    *)
(* whole image in its flash.                                               *)
THEOREM CleanCorrect == Spec => []CleanMeansImage
<1>1. Init => Inv
  BY InitType DEF Init, Inv, OneCommand, Phase, Resting
<1>2. Inv => CleanMeansImage
  <2> SUFFICES ASSUME Inv, ~late, ctl.pc = "send", ctl.cmd = "go", ctl.unit \in isp
               PROVE  flash[ctl.unit] = Image
    BY DEF CleanMeansImage
  <2>1. Ready
    BY DEF Inv, OneCommand, Phase, Resting, OnWire, AtBridge, Unheard, Acked, Refused
  <2>2. flash[ctl.unit] = Filled(Pages)
    BY <2>1 DEF Ready, Before, Hold
  <2>3. Filled(Pages) = Image
    BY SizesAssumption DEF Filled, Image, ImagePages
  <2> QED
    BY <2>2, <2>3
<1> QED
  BY <1>1, <1>2, OneCommandStep, PTL DEF Spec

----------------------------------------------------------------------------
(* The transfers a command consists of: SdoClient.                         *)

(* What the bridge and the unit may hold.                                  *)
Kinds == {"none", "serial", "unlock", "prepare", "erase", "ramAddress", "start", "segments", "segment",
          "destination", "source", "length", "execution", "control"}
Data == [Parts -> Nat \X Nat]
Requests == [transfer: Kinds, segment: Nat, toggle: {0, 1}, data: Nat]
TargetAnswers == {"initiated", "read", "segment", "abort"}
Target == [on: BOOLEAN, open: BOOLEAN, toggle: {0, 1}, at: Nat \ {0}, ram: Data, prepared: BOOLEAN,
           page: Nat, ran: Data, flash: [0 .. MaxFrames -> Data]]
Main == [pc: {"idle", "transfer", "spin", "segments", "repeat"},
         cmd: {"find", "format", "program", "go"}, step: 1 .. 7, fail: Nat]
Waiting == {"Exp_Read_Busy", "Exp_Write_Busy", "Seg_Write_Busy"}

SdoTyped ==
  /\ SDOC_State \in Waiting \cup {"Succes", "Fail", "Seg_Write_OK"}
  /\ SDOC_BuffCount \in Nat
  /\ nmtMsg \in Requests /\ target \in Target /\ main \in Main
  /\ requests \in Seq(Requests) /\ answers \in Seq(TargetAnswers)
  /\ number \in 0 .. MaxFrames /\ ispPage \in 0 .. number
  /\ blank \in BOOLEAN /\ missed \in BOOLEAN /\ skipped \in BOOLEAN
  /\ lates \in Nat

(* Where the main loop is in a command.                                    *)
InCommand ==
  /\ main.pc # "idle" => ~reply.ok /\ ispPage < number /\ main.step <= Len(Transfers[main.cmd])
  /\ main.pc \in {"transfer", "spin"} => Transfer # "segments"
  /\ main.pc \in {"segments", "repeat"} => main.cmd \in {"program", "go"} /\ main.step = 3
  /\ main.pc \in {"transfer", "spin"} /\ main.cmd \in {"program", "go"} /\ main.step < 3 => SDOC_BuffCount = 0
  /\ main.pc \in {"idle", "transfer"} => SDOC_State \notin Waiting
  /\ main.pc = "spin" =>
       /\ SDOC_State \in CASE Transfer = "serial" -> {"Exp_Read_Busy", "Succes", "Fail"}
                           [] Transfer = "start" -> {"Seg_Write_Busy", "Seg_Write_OK", "Fail"}
                           [] OTHER -> {"Exp_Write_Busy", "Succes", "Fail"}
       /\ SDOC_State \in Waiting =>
            nmtMsg.transfer = Transfer /\ (Transfer = "destination" => nmtMsg.data = ispPage)
  /\ main.pc \in {"segments", "repeat"} => SDOC_State \in {"Seg_Write_Busy", "Seg_Write_OK", "Fail"}

(* What is on the bus while no answer has come after its timeout: nothing, *)
(* the one request or its answer, and before them the last segment, for    *)
(* whose answer nobody waits.                                              *)
Clear == requests = <<>> /\ answers = <<>>

One ==
  \/ requests = <<nmtMsg>> /\ answers = <<>>
  \/ requests = <<>> /\ \E a \in TargetAnswers : answers = <<a>>

LastSegment(r) == r.transfer = "segment" /\ r.segment = Segments
Passed == {"segment", "abort"}

LeftOver ==
  \/ requests = <<nmtMsg>> /\ LastSegment(nmtMsg) /\ answers = <<>>
  \/ requests = <<>> /\ \E a \in Passed : answers = <<a>>

Two ==
  \/ answers = <<>> /\ \E l \in Requests : LastSegment(l) /\ requests = <<l, nmtMsg>>
  \/ requests = <<nmtMsg>> /\ \E a \in Passed : answers = <<a>>
  \/ requests = <<>> /\ \E a \in Passed, b \in TargetAnswers : answers = <<a, b>>

AfterSegments == main.cmd \in {"program", "go"} /\ main.step = 4

OnBus ==
  \/ Clear
  \/ main.pc = "transfer" /\ AfterSegments /\ SDOC_State = "Succes" /\ LeftOver
  \/ main.pc \in {"spin", "segments", "repeat"} /\ SDOC_State \in Waiting /\ One
  \/ main.pc = "spin" /\ SDOC_State \in Waiting /\ AfterSegments /\ Two

(* What a transfer that has been answered has done in the unit.            *)
HasDone(t) ==
  /\ t = "start" => target.at = 1 /\ target.toggle = 0
  /\ t = "destination" => target.page = ispPage
  /\ t = "erase" => \A p \in 0 .. MaxFrames : target.flash[p] = Nothing
  /\ t = "length" => (blank => target.flash[ispPage] = Whole(number))
  /\ t = "control" => target.ran = Whole(number)

Answered ==
  main.pc = "spin" =>
    /\ (\E i \in DOMAIN answers : answers[i] = "initiated") \/ SDOC_State \in {"Succes", "Seg_Write_OK"}
         => HasDone(Transfer)
    /\ Transfer = "start" =>
         /\ \A i \in DOMAIN answers : answers[i] = "initiated"
         /\ SDOC_State = "Seg_Write_OK" => canRxMsg = "initiated"

(* What the transfers before have done.                                    *)
Prepared ==
  /\ main.pc # "idle" /\ main.cmd \in {"program", "go"} /\ main.step >= 4 => target.ram = Whole(number)
  /\ main.pc # "idle" /\ main.cmd = "program" =>
       /\ main.step >= 6 => target.page = ispPage
       /\ blank /\ (main.step < 7 \/ target.prepared) => target.flash[ispPage] = Nothing
  /\ \A i \in DOMAIN requests : main.pc \in {"transfer", "spin"} /\ requests[i].transfer = "segment" =>
       (target.open => target.at = Segments)

(* The segments: the unit is at the one sent last, or after it, or, when   *)
(* one has been missed, before it; its toggle tells which.                 *)
FilledBelow(n) == \A j \in Parts : j < n => target.ram[j] = <<number, j>>

InStep ==
  LET k == SDOC_BuffCount IN
  main.pc \in {"segments", "repeat"} =>
    /\ k < Segments
    /\ canRxMsg \in {"initiated", "segment", "abort"}
    /\ main.pc = "repeat" => canRxMsg = "abort" /\ \A i \in DOMAIN answers : answers[i] = "abort"
    /\ \A i \in DOMAIN answers : answers[i] \in Passed
    /\ canRxMsg = "abort" \/ (\E i \in DOMAIN answers : answers[i] = "abort") => ~target.open
    /\ canRxMsg = "initiated" => k <= 1 /\ (SDOC_State = "Seg_Write_OK" => k = 0)
    /\ k = 0 => /\ canRxMsg = "initiated" /\ SDOC_State = "Seg_Write_OK"
                /\ target.at = 1 /\ target.toggle = 0
    /\ k > 0 => /\ nmtMsg.transfer = "segment" /\ nmtMsg.segment = k /\ nmtMsg.data = number
                /\ k = 1 => nmtMsg.toggle = 0
    /\ target.open => FilledBelow(target.at)
    /\ target.open /\ k > 0 =>
         /\ target.at \in {k - 1, k, k + 1}
         /\ target.at = k <=> target.toggle = nmtMsg.toggle
         /\ target.at = k - 1 => missed
         /\ requests # <<>> /\ k > 1 => target.at # k + 1
    /\ (\E i \in DOMAIN answers : answers[i] = "segment") \/ (SDOC_State = "Seg_Write_OK" /\ canRxMsg = "segment")
         => target.at = k + 1 /\ FilledBelow(k + 1)

Reported ==
  reply.ok =>
    /\ main.pc = "idle"
    /\ reply.cmd = "program" => ispPage > 0 /\ (blank => target.flash[ispPage - 1] = Whole(number))
    /\ reply.cmd = "format" => \A p \in 0 .. MaxFrames : target.flash[p] = Nothing
    /\ reply.cmd = "go" => target.ran = Whole(number)

Undisturbed == OnBus /\ Answered /\ Prepared /\ InStep /\ Reported

SdoInv == SdoTyped /\ InCommand /\ (lates = 0 /\ ~skipped => Undisturbed)

LEMMA Scripts ==
  /\ DOMAIN Transfers = {"find", "format", "program", "go"}
  /\ Len(Transfers["find"]) = 1 /\ Transfers["find"][1] = "serial"
  /\ Len(Transfers["format"]) = 3 /\ Transfers["format"][1] = "unlock"
     /\ Transfers["format"][2] = "prepare" /\ Transfers["format"][3] = "erase"
  /\ Len(Transfers["program"]) = 7 /\ Transfers["program"][1] = "ramAddress"
     /\ Transfers["program"][2] = "start" /\ Transfers["program"][3] = "segments"
     /\ Transfers["program"][4] = "prepare" /\ Transfers["program"][5] = "destination"
     /\ Transfers["program"][6] = "source" /\ Transfers["program"][7] = "length"
  /\ Len(Transfers["go"]) = 6 /\ Transfers["go"][1] = "ramAddress" /\ Transfers["go"][2] = "start"
     /\ Transfers["go"][3] = "segments" /\ Transfers["go"][4] = "unlock"
     /\ Transfers["go"][5] = "execution" /\ Transfers["go"][6] = "control"
  BY DEF Transfers

LEMMA DataTyped ==
  /\ Nothing \in Data
  /\ \A n \in Nat : Whole(n) \in Data
  /\ \A d, e \in Data : Copied(d, e) \in Data
  /\ \A d \in Data, j, n, m \in Nat : [d EXCEPT ![j] = <<n, m>>] \in Data
<1>1. Parts \subseteq Nat
  BY SegmentsAssumption DEF Parts
<1>2. Nothing \in Data
  BY DEF Nothing, Data
<1>3. \A n \in Nat : Whole(n) \in Data
  BY <1>1 DEF Whole, Data
<1>4. \A d, e \in Data : Copied(d, e) \in Data
  <2> TAKE d, e \in Data
  <2>1. [k \in Parts |-> <<0, k>>] \in Data
    BY <1>1 DEF Data
  <2> QED
    BY <2>1 DEF Copied
<1>5. \A d \in Data, j, n, m \in Nat : [d EXCEPT ![j] = <<n, m>>] \in Data
  BY DEF Data
<1> QED
  BY <1>2, <1>3, <1>4, <1>5

(* What the unit does on a segment, and on any other request.              *)
LEMMA ServesSegment ==
  ASSUME target \in Target, NEW r \in Requests, r.transfer = "segment"
  PROVE  /\ Served(r)[1] \in Target
         /\ \/ /\ target.open /\ r.toggle = target.toggle
               /\ Served(r)[2] = "segment"
               /\ Served(r)[1].toggle = 1 - target.toggle /\ Served(r)[1].at = target.at + 1
               /\ Served(r)[1].open = (r.segment < Segments)
               /\ target.at \in Parts => Served(r)[1].ram = [target.ram EXCEPT ![target.at] = <<r.data, r.segment>>]
               /\ target.at \notin Parts => Served(r)[1].ram = target.ram
            \/ /\ ~(target.open /\ r.toggle = target.toggle)
               /\ Served(r)[2] = "abort" /\ ~Served(r)[1].open
               /\ Served(r)[1].toggle = target.toggle /\ Served(r)[1].at = target.at
               /\ Served(r)[1].ram = target.ram
         /\ Served(r)[1].ran = target.ran /\ Served(r)[1].flash = target.flash
         /\ Served(r)[1].page = target.page /\ Served(r)[1].prepared = target.prepared
<1>1. /\ target.ram \in Data /\ target.at \in Nat /\ r.data \in Nat /\ r.segment \in Nat
      /\ target.toggle \in {0, 1}
  BY DEF Target, Requests
<1>2. CASE target.open /\ r.toggle = target.toggle
  <2> DEFINE ram == IF target.at \in Parts THEN [target.ram EXCEPT ![target.at] = <<r.data, r.segment>>]
                                          ELSE target.ram
             more == r.segment < Segments
             g == 1 - target.toggle
             a == target.at + 1
             t == [target EXCEPT !.toggle = g, !.at = a, !.open = more, !.ram = ram]
  <2>1. Served(r) = <<t, "segment">>
    BY <1>2 DEF Served
  <2>2. ram \in Data
    BY <1>1, DataTyped
  <2>a. more \in BOOLEAN /\ g \in {0, 1} /\ a \in Nat \ {0}
    BY <1>1
  <2> HIDE DEF ram, more, g, a
  <2>3. /\ t \in Target /\ t.toggle = g /\ t.at = a
        /\ t.open = more /\ t.ram = ram /\ t.ran = target.ran /\ t.flash = target.flash
        /\ t.page = target.page /\ t.prepared = target.prepared
    BY <1>1, <2>2, <2>a DEF Target
  <2> HIDE DEF t
  <2> QED
    BY <1>2, <2>1, <2>3 DEF ram, more, g, a
<1>3. CASE ~(target.open /\ r.toggle = target.toggle)
  <2> DEFINE t == [target EXCEPT !.open = FALSE]
  <2>1. Served(r) = <<t, "abort">>
    BY <1>3 DEF Served
  <2>2. /\ t \in Target /\ ~t.open /\ t.toggle = target.toggle /\ t.at = target.at /\ t.ram = target.ram
        /\ t.ran = target.ran /\ t.flash = target.flash /\ t.page = target.page
        /\ t.prepared = target.prepared
    BY DEF Target
  <2> HIDE DEF t
  <2> QED
    BY <1>3, <2>1, <2>2
<1> QED
  BY <1>2, <1>3

LEMMA ServesOther ==
  ASSUME target \in Target, NEW r \in Requests, r.transfer # "segment"
  PROVE  /\ Served(r)[1] \in Target /\ Served(r)[2] \in {"initiated", "read", "abort"}
         /\ Served(r)[1].ram = target.ram
         /\ Served(r)[1].ran = IF r.transfer = "control" THEN target.ram ELSE target.ran
         /\ Served(r)[1].page = IF r.transfer = "destination" THEN r.data ELSE target.page
         /\ r.transfer = "start" =>
              Served(r)[2] = "initiated" /\ Served(r)[1].at = 1 /\ Served(r)[1].toggle = 0
         /\ r.transfer # "start" => ~Served(r)[1].open
         /\ r.transfer \in {"erase", "length"} =>
              (Served(r)[2] = "initiated" <=> target.prepared) /\ ~Served(r)[1].prepared
         /\ r.transfer = "prepare" => Served(r)[1].prepared
         /\ r.transfer # "prepare" /\ Served(r)[1].prepared => target.prepared
         /\ r.transfer \notin {"prepare", "erase", "length"} => Served(r)[1].prepared = target.prepared
         /\ r.transfer = "erase" /\ target.prepared => \A p \in 0 .. MaxFrames : Served(r)[1].flash[p] = Nothing
         /\ r.transfer = "length" /\ target.prepared =>
              Served(r)[1].flash = [target.flash EXCEPT ![target.page] = Copied(@, target.ram)]
         /\ ~(r.transfer \in {"erase", "length"} /\ target.prepared) => Served(r)[1].flash = target.flash
<1>1. /\ target.flash \in [0 .. MaxFrames -> Data] /\ target.ram \in Data /\ target.page \in Nat
      /\ r.data \in Nat /\ r.transfer \in Kinds
  BY DEF Target, Requests
<1> DEFINE closed == [target EXCEPT !.open = FALSE]
<1>2. closed \in Target /\ ~closed.open /\ closed.ram = target.ram /\ closed.ran = target.ran
      /\ closed.page = target.page /\ closed.flash = target.flash /\ closed.prepared = target.prepared
  BY DEF Target
<1>3. CASE r.transfer = "start"
  <2> DEFINE t == [target EXCEPT !.open = TRUE, !.toggle = 0, !.at = 1]
  <2>1. Served(r) = <<t, "initiated">>
    BY <1>3 DEF Served
  <2>2. /\ t \in Target /\ t.toggle = 0 /\ t.at = 1 /\ t.ram = target.ram
        /\ t.ran = target.ran /\ t.flash = target.flash /\ t.page = target.page
        /\ t.prepared = target.prepared
    <3>1. 1 \in Nat \ {0} /\ 0 \in {0, 1}
      OBVIOUS
    <3> QED
      BY <3>1 DEF Target
  <2> HIDE DEF t
  <2> QED
    BY <1>3, <2>1, <2>2
<1>4. CASE r.transfer = "prepare"
  <2> DEFINE t == [closed EXCEPT !.prepared = TRUE]
  <2>1. Served(r) = <<t, "initiated">>
    BY <1>4 DEF Served
  <2>2. t \in Target /\ ~t.open /\ t.ram = target.ram /\ t.ran = target.ran /\ t.page = target.page
        /\ t.flash = target.flash /\ t.prepared
    BY DEF Target
  <2> HIDE DEF t
  <2> QED
    BY <1>4, <2>1, <2>2
<1>5. CASE r.transfer = "destination"
  <2> DEFINE t == [closed EXCEPT !.page = r.data]
  <2>1. Served(r) = <<t, "initiated">>
    BY <1>5 DEF Served
  <2>2. t \in Target /\ ~t.open /\ t.ram = target.ram /\ t.ran = target.ran /\ t.page = r.data
        /\ t.flash = target.flash /\ t.prepared = target.prepared
    BY <1>1 DEF Target
  <2> HIDE DEF t
  <2> QED
    BY <1>5, <2>1, <2>2
<1>6. CASE r.transfer \in {"erase", "length"} /\ ~target.prepared
  <2>1. Served(r) = <<closed, "abort">>
    BY <1>6 DEF Served
  <2> HIDE DEF closed
  <2> QED
    BY <1>2, <1>6, <2>1
<1>7. CASE r.transfer = "erase" /\ target.prepared
  <2> DEFINE f == [p \in DOMAIN closed.flash |-> Nothing]
             t == [closed EXCEPT !.prepared = FALSE, !.flash = f]
  <2>1. Served(r) = <<t, "initiated">>
    BY <1>7 DEF Served
  <2>2. f \in [0 .. MaxFrames -> Data] /\ \A p \in 0 .. MaxFrames : f[p] = Nothing
    <3> HIDE DEF closed
    <3> QED
      BY <1>1, <1>2, DataTyped
  <2> HIDE DEF f
  <2>3. t \in Target /\ ~t.open /\ t.ram = target.ram /\ t.ran = target.ran /\ t.page = target.page
        /\ ~t.prepared /\ t.flash = f
    BY <2>2 DEF Target
  <2> HIDE DEF t
  <2>4. Served(r)[1] = t /\ Served(r)[2] = "initiated"
    BY <2>1
  <2>5. \A p \in 0 .. MaxFrames : Served(r)[1].flash[p] = Nothing
    BY <2>2, <2>3, <2>4
  <2> QED
    BY <1>7, <2>3, <2>4, <2>5
<1>8. CASE r.transfer = "length" /\ target.prepared
  <2> DEFINE f == [target.flash EXCEPT ![target.page] = Copied(@, target.ram)]
             t == [closed EXCEPT !.prepared = FALSE, !.flash = f]
  <2>1. Served(r) = <<[closed EXCEPT !.prepared = FALSE, !.flash[target.page] = Copied(@, target.ram)], "initiated">>
    BY <1>8 DEF Served
  <2>2. Served(r) = <<t, "initiated">>
    BY <1>2, <2>1 DEF Target
  <2>3. f \in [0 .. MaxFrames -> Data]
    BY <1>1, DataTyped
  <2> HIDE DEF f
  <2>4. t \in Target /\ ~t.open /\ t.ram = target.ram /\ t.ran = target.ran /\ t.page = target.page
        /\ ~t.prepared /\ t.flash = f
    BY <2>3 DEF Target
  <2> HIDE DEF t
  <2> QED
    BY <1>8, <2>2, <2>4 DEF f
<1>9. CASE r.transfer = "control"
  <2> DEFINE t == [closed EXCEPT !.on = FALSE, !.ran = target.ram]
  <2>1. Served(r) = <<t, "initiated">>
    BY <1>9 DEF Served
  <2>2. t \in Target /\ ~t.open /\ t.ram = target.ram /\ t.ran = target.ram /\ t.page = target.page
        /\ t.flash = target.flash /\ t.prepared = target.prepared
    BY <1>1 DEF Target
  <2> HIDE DEF t
  <2> QED
    BY <1>9, <2>1, <2>2
<1>10. CASE r.transfer \notin {"start", "prepare", "destination", "erase", "length", "control"}
  <2>1. Served(r) = <<closed, "read">> \/ Served(r) = <<closed, "initiated">>
    BY <1>10 DEF Served
  <2> HIDE DEF closed
  <2> QED
    BY <1>2, <1>10, <2>1
<1> QED
  BY <1>3, <1>4, <1>5, <1>6, <1>7, <1>8, <1>9, <1>10

LEMMA InScripts ==
  ASSUME NEW c \in {"find", "format", "program", "go"}, NEW i \in 1 .. Len(Transfers[c])
  PROVE  /\ i \in 1 .. 7 /\ Len(Transfers[c]) \in 1 .. 7
         /\ Transfers[c][i] \in Kinds /\ Transfers[c][i] # "segment"
         /\ Transfers[c][i] = "serial" <=> c = "find"
         /\ Transfers[c][i] = "segments" <=> c \in {"program", "go"} /\ i = 3
         /\ Transfers[c][i] = "start" <=> c \in {"program", "go"} /\ i = 2
         /\ Transfers[c][i] = "prepare" <=> (c = "format" /\ i = 2) \/ (c = "program" /\ i = 4)
         /\ Transfers[c][i] = "destination" <=> c = "program" /\ i = 5
         /\ Transfers[c][i] = "length" <=> c = "program" /\ i = 7
         /\ Transfers[c][i] = "erase" <=> c = "format" /\ i = 3
         /\ Transfers[c][i] = "control" <=> c = "go" /\ i = 6
         /\ Len(Transfers[c]) = 3 <=> c = "format"
         /\ Len(Transfers[c]) = 7 <=> c = "program"
         /\ Len(Transfers[c]) = 6 <=> c = "go"
<1>1. CASE c = "find"
  <2>1. i = 1
    BY <1>1, Scripts
  <2> QED
    BY <1>1, <2>1, Scripts DEF Kinds
<1>2. CASE c = "format"
  <2>1. i = 1 \/ i = 2 \/ i = 3
    BY <1>2, Scripts
  <2> QED
    BY <1>2, <2>1, Scripts DEF Kinds
<1>3. CASE c = "program"
  <2>1. i = 1 \/ i = 2 \/ i = 3 \/ i = 4 \/ i = 5 \/ i = 6 \/ i = 7
    BY <1>3, Scripts
  <2> QED
    BY <1>3, <2>1, Scripts DEF Kinds
<1>4. CASE c = "go"
  <2>1. i = 1 \/ i = 2 \/ i = 3 \/ i = 4 \/ i = 5 \/ i = 6
    BY <1>4, Scripts
  <2> QED
    BY <1>4, <2>1, Scripts DEF Kinds
<1> QED
  BY <1>1, <1>2, <1>3, <1>4

(* The end of a command, and of a transfer.                                *)
LEMMA Finishes ==
  ASSUME SdoTyped, InCommand, main.pc # "idle", NEW ok \in BOOLEAN, Finish(ok)
  PROVE  /\ main' \in Main /\ main'.pc = "idle"
         /\ reply'.cmd = main.cmd /\ reply'.ok = ok
         /\ ispPage' \in 0 .. number
         /\ ok /\ main.cmd = "program" => ispPage' = ispPage + 1
<1>1. main \in Main /\ number \in Nat /\ ispPage \in Nat /\ ispPage < number /\ ispPage \in 0 .. number
  BY DEF SdoTyped, InCommand
<1>2. main' \in Main /\ main'.pc = "idle"
  BY <1>1 DEF Finish, Main
<1>3. reply'.cmd = main.cmd /\ reply'.ok = ok
  BY DEF Finish
<1>4. ispPage' = 0 \/ ispPage' = ispPage + 1 \/ ispPage' = ispPage
  BY DEF Finish
<1>5. ok /\ main.cmd = "program" => ispPage' = ispPage + 1
  BY DEF Finish
<1> QED
  BY <1>1, <1>2, <1>3, <1>4, <1>5

LEMMA NextTransferGives ==
  ASSUME SdoTyped, InCommand, main.pc # "idle", NextTransfer
  PROVE  /\ main' \in Main /\ ispPage' \in 0 .. number
         /\ \/ /\ main.step + 1 \in 1 .. Len(Transfers[main.cmd])
               /\ main'.cmd = main.cmd /\ main'.step = main.step + 1
               /\ main'.pc = IF main.cmd \in {"program", "go"} /\ main.step = 2 THEN "segments" ELSE "transfer"
               /\ reply' = reply /\ ispPage' = ispPage
            \/ /\ main.step = Len(Transfers[main.cmd])
               /\ main'.pc = "idle" /\ reply'.cmd = main.cmd /\ reply'.ok = TRUE
               /\ main.cmd = "program" => ispPage' = ispPage + 1
<1>1. /\ main \in Main /\ main.cmd \in {"find", "format", "program", "go"}
      /\ main.step \in 1 .. Len(Transfers[main.cmd]) /\ main.step \in 1 .. 7
      /\ ispPage \in 0 .. number /\ Len(Transfers[main.cmd]) \in 1 .. 7
  <2>1. main \in Main /\ ispPage \in 0 .. number /\ main.step <= Len(Transfers[main.cmd])
    BY DEF SdoTyped, InCommand
  <2>2. main.cmd \in {"find", "format", "program", "go"} /\ main.step \in 1 .. 7
    BY <2>1 DEF Main
  <2>3. Len(Transfers[main.cmd]) \in 1 .. 7
    BY <2>2, Scripts
  <2> QED
    BY <2>1, <2>2, <2>3
<1>2. CASE main.step < Len(Transfers[main.cmd])
  <2>1. main.step + 1 \in 1 .. Len(Transfers[main.cmd]) /\ main.step + 1 \in 1 .. 7
    <3> DEFINE n == Len(Transfers[main.cmd])
               i == main.step
    <3>1. n \in 1 .. 7 /\ i \in 1 .. 7 /\ i < n
      BY <1>1, <1>2
    <3> HIDE DEF n, i
    <3>2. i + 1 \in 1 .. n /\ i + 1 \in 1 .. 7
      BY <3>1
    <3> QED
      BY <3>2 DEF n, i
  <2>2. Transfers[main.cmd][main.step + 1] = "segments" <=> main.cmd \in {"program", "go"} /\ main.step = 2
    <3>1. Transfers[main.cmd][main.step + 1] = "segments" <=> main.cmd \in {"program", "go"} /\ main.step + 1 = 3
      BY <1>1, <2>1, InScripts
    <3> QED
      BY <1>1, <3>1
  <2> DEFINE pc == IF Transfers[main.cmd][main.step + 1] = "segments" THEN "segments" ELSE "transfer"
  <2>3. main' = [main EXCEPT !.step = @ + 1, !.fail = 0, !.pc = pc] /\ reply' = reply /\ ispPage' = ispPage
    BY <1>2 DEF NextTransfer
  <2>4. pc \in {"segments", "transfer"}
    OBVIOUS
  <2>5. pc = IF main.cmd \in {"program", "go"} /\ main.step = 2 THEN "segments" ELSE "transfer"
    BY <2>2
  <2> HIDE DEF pc
  <2>6. main' \in Main /\ main'.cmd = main.cmd /\ main'.step = main.step + 1 /\ main'.pc = pc
    BY <1>1, <2>1, <2>3, <2>4 DEF Main
  <2> QED
    BY <1>1, <2>1, <2>3, <2>5, <2>6
<1>3. CASE ~(main.step < Len(Transfers[main.cmd]))
  <2>1. Finish(TRUE)
    BY <1>3 DEF NextTransfer
  <2>2. main.step = Len(Transfers[main.cmd])
    <3> DEFINE n == Len(Transfers[main.cmd])
               i == main.step
    <3>1. n \in 1 .. 7 /\ i \in 1 .. n /\ ~(i < n)
      BY <1>1, <1>3
    <3> HIDE DEF n, i
    <3>2. i = n
      BY <3>1
    <3> QED
      BY <3>2 DEF n, i
  <2> QED
    BY <2>1, <2>2, Finishes
<1> QED
  BY <1>2, <1>3

(* Types, and where the main loop is.                                      *)
LEMMA FailsGives ==
  ASSUME SdoTyped, InCommand, main.pc = "spin", TransferFails
  PROVE  /\ main' \in Main /\ ispPage' \in 0 .. number
         /\ \/ /\ main'.pc = "transfer" /\ main'.cmd = main.cmd /\ main'.step = main.step
               /\ reply' = reply /\ ispPage' = ispPage
            \/ main'.pc = "idle" /\ ~reply'.ok
<1>1. CASE main.fail + 1 < SdoTries
  <2>1. main \in Main /\ ispPage \in 0 .. number
    BY DEF SdoTyped
  <2>2. main' = [main EXCEPT !.pc = "transfer", !.fail = @ + 1] /\ reply' = reply /\ ispPage' = ispPage
    BY <1>1 DEF TransferFails
  <2>3. main.fail \in Nat /\ main.fail + 1 \in Nat
    BY <2>1 DEF Main
  <2>4. main' \in Main /\ main'.pc = "transfer" /\ main'.cmd = main.cmd /\ main'.step = main.step
    BY <2>1, <2>2, <2>3 DEF Main
  <2> QED
    BY <2>1, <2>2, <2>4
<1>2. CASE ~(main.fail + 1 < SdoTries)
  <2>1. Finish(FALSE)
    BY <1>2 DEF TransferFails
  <2> QED
    BY <2>1, Finishes
<1> QED
  BY <1>1, <1>2

LEMMA SendTyped ==
  ASSUME requests \in Seq(Requests), NEW r \in Requests, Send(r)
  PROVE  requests' \in Seq(Requests) /\ nmtMsg' \in Requests /\ nmtMsg' = r /\ requests' = Append(requests, r)
  BY DEF Send

LEMMA BeginStep ==
  ASSUME SdoTyped, InCommand, NEW cmd \in DOMAIN Transfers, Begin(cmd)
  PROVE  /\ SdoTyped' /\ InCommand'
         /\ main'.pc = "transfer" /\ main'.cmd = cmd /\ main'.step = 1 /\ ~reply'.ok
         /\ ispPage' = ispPage /\ target' = target /\ blank' = (target.flash[ispPage] = Nothing)
<1>1. /\ number' = number + 1 /\ main' = [pc |-> "transfer", cmd |-> cmd, step |-> 1, fail |-> 0]
      /\ SDOC_BuffCount' = (IF cmd \in {"program", "go"} THEN 0 ELSE SDOC_BuffCount)
      /\ reply' = [cmd |-> "none", ok |-> FALSE] /\ blank' = (target.flash[ispPage] = Nothing)
      /\ UNCHANGED <<SDOC_State, canRxMsg, nmtMsg, ispPage, requests, answers, target, drops, lates,
                 missed, skipped>>
      /\ number < MaxFrames /\ main.pc = "idle"
  BY DEF Begin
<1>2. cmd \in {"find", "format", "program", "go"} /\ Len(Transfers[cmd]) \in Nat /\ Len(Transfers[cmd]) >= 1
      /\ Transfers[cmd][1] \notin {"segments", "segment"}
  BY Scripts
<1>3. main' \in Main /\ main'.pc = "transfer" /\ main'.cmd = cmd /\ main'.step = 1
  BY <1>1, <1>2 DEF Main
<1>4. number' \in 0 .. MaxFrames /\ ispPage' \in 0 .. number' /\ ispPage' < number'
  BY <1>1, SegmentsAssumption DEF SdoTyped
<1>5. blank' \in BOOLEAN
  BY <1>1
<1>6. SdoTyped'
  BY <1>1, <1>3, <1>4, <1>5 DEF SdoTyped
<1>7. SDOC_State' \notin Waiting
  BY <1>1 DEF InCommand
<1>8. InCommand'
  BY <1>1, <1>2, <1>3, <1>4, <1>7 DEF InCommand, Transfer
<1> QED
  BY <1>1, <1>3, <1>6, <1>8

LEMMA StartStep ==
  ASSUME SdoTyped, InCommand, StartTransfer
  PROVE  /\ SdoTyped' /\ InCommand'
         /\ main'.pc = "spin" /\ main'.cmd = main.cmd /\ main'.step = main.step
         /\ UNCHANGED <<ispPage, target, blank, number, reply, canRxMsg, answers>>
         /\ \/ /\ SDOC_State \in {"Succes", "Fail"} /\ SDOC_State' \in Waiting
               /\ nmtMsg'.transfer = Transfer /\ requests' = Append(requests, nmtMsg')
            \/ /\ SDOC_State \notin {"Succes", "Fail"} /\ SDOC_State' = "Fail"
               /\ requests' = requests /\ nmtMsg' = nmtMsg
<1>1. /\ main.pc = "transfer" /\ main' = [main EXCEPT !.pc = "spin"]
      /\ UNCHANGED <<SDOC_BuffCount, canRxMsg, ispPage, answers, target, reply, number, drops,
                 lates, blank, missed, skipped>>
  BY DEF StartTransfer
<1>2. main' \in Main /\ main'.pc = "spin" /\ main'.cmd = main.cmd /\ main'.step = main.step
  BY <1>1 DEF SdoTyped, Main
<1>3. /\ main.cmd \in {"find", "format", "program", "go"} /\ main.step \in 1 .. Len(Transfers[main.cmd])
  <2>1. main.cmd \in {"find", "format", "program", "go"} /\ main.step \in 1 .. 7
        /\ main.step <= Len(Transfers[main.cmd])
    BY <1>1 DEF SdoTyped, Main, InCommand
  <2>2. Len(Transfers[main.cmd]) \in Nat
    BY <2>1, Scripts
  <2> QED
    BY <2>1, <2>2
<1>4. Transfer \in Kinds /\ Transfer # "segments" /\ Transfer' = Transfer
  BY <1>1, <1>2, <1>3, InScripts DEF InCommand, Transfer
<1>5. CASE SDOC_State \in {"Succes", "Fail"}
  <2> DEFINE d == IF Transfer = "destination" THEN ispPage ELSE 0
             r == [transfer |-> Transfer, segment |-> 0, toggle |-> 0, data |-> d]
  <2>1. Send(r) /\ SDOC_State' = CASE Transfer = "serial" -> "Exp_Read_Busy"
                                   [] Transfer = "start" -> "Seg_Write_Busy"
                                   [] OTHER -> "Exp_Write_Busy"
    BY <1>5 DEF StartTransfer
  <2>2. d \in Nat
    BY DEF SdoTyped
  <2> HIDE DEF d
  <2>3. r \in Requests /\ r.transfer = Transfer /\ r.data = d
    BY <1>4, <2>2 DEF Requests
  <2> HIDE DEF r
  <2>4. requests' \in Seq(Requests) /\ nmtMsg' = r /\ requests' = Append(requests, nmtMsg')
    BY <2>1, <2>3, SendTyped DEF SdoTyped
  <2>5. SDOC_State' \in Waiting
        /\ SDOC_State' \in CASE Transfer = "serial" -> {"Exp_Read_Busy", "Succes", "Fail"}
                             [] Transfer = "start" -> {"Seg_Write_Busy", "Seg_Write_OK", "Fail"}
                             [] OTHER -> {"Exp_Write_Busy", "Succes", "Fail"}
    BY <2>1 DEF Waiting
  <2>6. SdoTyped'
    BY <1>1, <1>2, <2>3, <2>4, <2>5 DEF SdoTyped
  <2>7. InCommand'
    BY <1>1, <1>2, <1>4, <2>3, <2>4, <2>5 DEF InCommand, d
  <2> QED
    BY <1>1, <1>2, <1>5, <2>3, <2>4, <2>5, <2>6, <2>7
<1>6. CASE SDOC_State \notin {"Succes", "Fail"}
  <2>1. SDOC_State' = "Fail" /\ UNCHANGED <<requests, nmtMsg>>
    BY <1>6 DEF StartTransfer
  <2>2. SdoTyped'
    BY <1>1, <1>2, <2>1 DEF SdoTyped
  <2>3. InCommand'
    BY <1>1, <1>2, <1>4, <2>1 DEF InCommand, Waiting
  <2> QED
    BY <1>1, <1>2, <1>6, <2>1, <2>2, <2>3
<1> QED
  BY <1>5, <1>6

LEMMA EndsStep ==
  ASSUME SdoTyped, InCommand, TransferEnds
  PROVE  SdoTyped' /\ InCommand'
<1>1. /\ main.pc = "spin" /\ SDOC_State \notin Waiting
      /\ UNCHANGED <<SDOC_State, SDOC_BuffCount, canRxMsg, nmtMsg, requests, answers, target, number,
                 drops, lates, blank, missed, skipped>>
  BY DEF TransferEnds, Waiting
<1>2. /\ main \in Main /\ main.cmd \in {"find", "format", "program", "go"}
      /\ main.step \in 1 .. 7 /\ main.step <= Len(Transfers[main.cmd])
      /\ main.step \in 1 .. Len(Transfers[main.cmd])
  <2>1. main \in Main /\ main.cmd \in {"find", "format", "program", "go"} /\ main.step \in 1 .. 7
        /\ main.step <= Len(Transfers[main.cmd])
    BY <1>1 DEF SdoTyped, Main, InCommand
  <2>2. Len(Transfers[main.cmd]) \in Nat
    BY <2>1, Scripts
  <2> QED
    BY <2>1, <2>2
<1>3. ispPage < number /\ ~reply.ok /\ Transfer # "segments"
  BY <1>1 DEF InCommand
<1>4. CASE SDOC_State = "Fail"
  <2>1. TransferFails
    BY <1>4 DEF TransferEnds
  <2>2. /\ main' \in Main /\ ispPage' \in 0 .. number
        /\ \/ /\ main'.pc = "transfer" /\ main'.cmd = main.cmd /\ main'.step = main.step
              /\ reply' = reply /\ ispPage' = ispPage
           \/ main'.pc = "idle" /\ ~reply'.ok
    BY <1>1, <2>1, FailsGives
  <2>3. SdoTyped'
    BY <1>1, <2>2 DEF SdoTyped
  <2>4. InCommand'
    <3>1. CASE main'.pc = "idle"
      BY <1>1, <3>1 DEF InCommand
    <3>2. CASE main'.pc = "transfer" /\ main'.cmd = main.cmd /\ main'.step = main.step
               /\ reply' = reply /\ ispPage' = ispPage
      BY <1>1, <1>2, <1>3, <3>2 DEF InCommand, Transfer
    <3> QED
      BY <2>2, <3>1, <3>2
  <2> QED
    BY <2>3, <2>4
<1>5. CASE SDOC_State # "Fail"
  <2>1. NextTransfer /\ SDOC_State = (IF Transfer = "start" THEN "Seg_Write_OK" ELSE "Succes")
    BY <1>5 DEF TransferEnds
  <2>2. /\ main' \in Main /\ ispPage' \in 0 .. number
        /\ \/ /\ main.step + 1 \in 1 .. Len(Transfers[main.cmd])
              /\ main'.cmd = main.cmd /\ main'.step = main.step + 1
              /\ main'.pc = IF main.cmd \in {"program", "go"} /\ main.step = 2 THEN "segments" ELSE "transfer"
              /\ reply' = reply /\ ispPage' = ispPage
           \/ /\ main.step = Len(Transfers[main.cmd])
              /\ main'.pc = "idle" /\ reply'.cmd = main.cmd /\ reply'.ok = TRUE
              /\ main.cmd = "program" => ispPage' = ispPage + 1
    BY <1>1, <2>1, NextTransferGives
  <2>3. SdoTyped'
    BY <1>1, <2>2 DEF SdoTyped
  <2>4. InCommand'
    <3>1. CASE main'.pc = "idle"
      BY <1>1, <3>1 DEF InCommand
    <3>2. CASE main'.pc # "idle"
      <4>1. main.step + 1 \in 1 .. Len(Transfers[main.cmd]) /\ main.step + 1 <= Len(Transfers[main.cmd])
        BY <2>2, <3>2
      <4>2. /\ main'.cmd = main.cmd /\ main'.step = main.step + 1
            /\ main'.pc = IF main.cmd \in {"program", "go"} /\ main.step = 2 THEN "segments" ELSE "transfer"
            /\ reply' = reply /\ ispPage' = ispPage
        BY <2>2, <3>2
      <4>3. Transfers[main.cmd][main.step + 1] = "segments" <=> main.cmd \in {"program", "go"} /\ main.step + 1 = 3
        BY <1>2, <4>1, InScripts
      <4>4. Transfer = "start" <=> main.cmd \in {"program", "go"} /\ main.step = 2
        BY <1>2, InScripts DEF Transfer
      <4>5. main'.pc = "transfer" => Transfer' # "segments"
        BY <1>2, <4>2, <4>3 DEF Transfer
      <4>6. main'.pc = "segments" => main'.cmd \in {"program", "go"} /\ main'.step = 3 /\ SDOC_State' = "Seg_Write_OK"
        BY <1>1, <1>2, <2>1, <4>2, <4>4
      <4>7. main'.pc = "transfer" /\ main'.cmd \in {"program", "go"} /\ main'.step < 3 => SDOC_BuffCount' = 0
        <5> SUFFICES ASSUME main'.pc = "transfer", main'.cmd \in {"program", "go"}, main'.step < 3
                     PROVE  SDOC_BuffCount' = 0
          OBVIOUS
        <5>1. main.step < 3
          BY <1>2, <4>2
        <5> QED
          BY <1>1, <4>2, <5>1 DEF InCommand
      <4> QED
        BY <1>1, <1>3, <4>1, <4>2, <4>5, <4>6, <4>7 DEF InCommand
    <3> QED
      BY <3>1, <3>2
  <2> QED
    BY <2>3, <2>4
<1> QED
  BY <1>4, <1>5

LEMMA DownStep ==
  ASSUME SdoTyped, InCommand, SegmentDown
  PROVE  SdoTyped' /\ InCommand'
<1>1. /\ main.pc = "segments" /\ SDOC_State # "Seg_Write_Busy" /\ canRxMsg \in {"initiated", "segment"}
      /\ SDOC_BuffCount' = NextSegment
      /\ missed' = (SDOC_State = "Fail" /\ NextSegment # 1)
      /\ skipped' = (skipped \/ (missed' /\ (missed \/ NextSegment = Segments)))
      /\ UNCHANGED <<canRxMsg, answers, target, number, drops, lates, blank>>
  BY DEF SegmentDown
<1>2. NextSegment \in Nat
  BY DEF SdoTyped, NextSegment
<1>3. requests' \in Seq(Requests) /\ nmtMsg' \in Requests
  <2> DEFINE g == IF canRxMsg = "initiated" THEN 0 ELSE 1 - nmtMsg.toggle
             n == NextSegment
             r == [transfer |-> "segment", segment |-> n, data |-> number, toggle |-> g]
  <2>1. Send(r)
    BY DEF SegmentDown
  <2>2. g \in {0, 1}
    BY DEF SdoTyped, Requests
  <2>3. number \in Nat
    BY DEF SdoTyped
  <2> HIDE DEF g, n
  <2>4. r \in Requests
    BY <1>2, <2>2, <2>3 DEF Requests, Kinds, n
  <2> HIDE DEF r
  <2> QED
    BY <2>1, <2>4, SendTyped DEF SdoTyped
<1>4. missed' \in BOOLEAN /\ skipped' \in BOOLEAN
  BY <1>1
<1>5. main \in Main /\ main.cmd \in {"program", "go"} /\ main.step = 3 /\ ispPage < number /\ ~reply.ok
      /\ main.step <= Len(Transfers[main.cmd]) /\ ispPage \in 0 .. number
  BY <1>1 DEF InCommand, SdoTyped
<1>6. CASE NextSegment = Segments
  <2>1. SDOC_State' = "Succes" /\ NextTransfer
    BY <1>6 DEF SegmentDown
  <2>2. main.step # Len(Transfers[main.cmd])
    BY <1>5, Scripts
  <2>3. /\ main' \in Main /\ main.step + 1 \in 1 .. Len(Transfers[main.cmd])
        /\ main'.cmd = main.cmd /\ main'.step = main.step + 1
        /\ main'.pc = "transfer" /\ reply' = reply /\ ispPage' = ispPage
    <3>1. main.pc # "idle" /\ ~(main.cmd \in {"program", "go"} /\ main.step = 2)
      BY <1>1, <1>5
    <3>2. /\ main' \in Main /\ ispPage' \in 0 .. number
          /\ \/ /\ main.step + 1 \in 1 .. Len(Transfers[main.cmd])
                /\ main'.cmd = main.cmd /\ main'.step = main.step + 1
                /\ main'.pc = IF main.cmd \in {"program", "go"} /\ main.step = 2 THEN "segments" ELSE "transfer"
                /\ reply' = reply /\ ispPage' = ispPage
             \/ main.step = Len(Transfers[main.cmd])
      BY <2>1, <3>1, NextTransferGives
    <3> QED
      BY <2>2, <3>1, <3>2
  <2>4. Transfers[main.cmd][4] # "segments" /\ 4 <= Len(Transfers[main.cmd])
    BY <1>5, Scripts
  <2>5. SdoTyped'
    BY <1>1, <1>2, <1>3, <1>4, <1>5, <2>1, <2>3 DEF SdoTyped
  <2>6. main'.step = 4
    BY <1>5, <2>3
  <2>7. InCommand'
    BY <1>1, <1>5, <2>1, <2>3, <2>4, <2>6 DEF InCommand, Transfer, Waiting
  <2> QED
    BY <2>5, <2>7
<1>7. CASE NextSegment # Segments
  <2>1. SDOC_State' = "Seg_Write_Busy" /\ UNCHANGED <<main, reply, ispPage>>
    BY <1>7 DEF SegmentDown
  <2>2. SdoTyped'
    BY <1>1, <1>2, <1>3, <1>4, <2>1 DEF SdoTyped, Waiting
  <2>3. InCommand'
    BY <1>1, <1>5, <2>1 DEF InCommand
  <2> QED
    BY <2>2, <2>3
<1> QED
  BY <1>6, <1>7

LEMMA RepeatStep ==
  ASSUME SdoTyped, InCommand, Repeat
  PROVE  SdoTyped' /\ InCommand'
<1>1. /\ SDOC_State = "Fail" /\ SDOC_State' = "Seg_Write_Busy" /\ Send(nmtMsg)
      /\ main.pc \in {"segments", "repeat"}
      /\ UNCHANGED <<SDOC_BuffCount, canRxMsg, ispPage, answers, target, reply, number, drops, lates,
                 blank, missed, skipped>>
  BY DEF Repeat
<1>2. main' \in Main /\ main'.pc = "repeat" /\ main'.cmd = main.cmd /\ main'.step = main.step
  <2>1. CASE main.pc = "segments"
    <3>1. main' = [main EXCEPT !.pc = "repeat", !.fail = 1]
      BY <2>1 DEF Repeat
    <3> QED
      BY <3>1 DEF SdoTyped, Main
  <2>2. CASE main.pc # "segments"
    <3> DEFINE n == main.fail + 1
    <3>1. main.pc = "repeat" /\ main' = [main EXCEPT !.fail = n]
      BY <2>2 DEF Repeat
    <3>2. main.fail \in Nat
      BY DEF SdoTyped, Main
    <3>3. n \in Nat
      BY <3>2
    <3> HIDE DEF n
    <3> QED
      BY <3>1, <3>3 DEF SdoTyped, Main
  <2> QED
    BY <2>1, <2>2
<1>3. requests' \in Seq(Requests) /\ nmtMsg' = nmtMsg
  BY <1>1, SendTyped DEF SdoTyped
<1>4. SdoTyped'
  BY <1>1, <1>2, <1>3 DEF SdoTyped, Waiting
<1>5. InCommand'
  BY <1>1, <1>2 DEF InCommand
<1> QED
  BY <1>4, <1>5

LEMMA RepeatEndsStep ==
  ASSUME SdoTyped, InCommand, RepeatEnds
  PROVE  SdoTyped' /\ InCommand'
<1>1. /\ main.pc = "repeat" /\ SDOC_State \in {"Seg_Write_OK", "Fail"}
      /\ UNCHANGED <<SDOC_State, SDOC_BuffCount, canRxMsg, nmtMsg, requests, answers, target, number,
                 drops, lates, blank, missed, skipped>>
  BY DEF RepeatEnds
<1>2. \/ main' = [main EXCEPT !.pc = "segments"] /\ UNCHANGED <<reply, ispPage>>
      \/ Finish(FALSE)
  BY DEF RepeatEnds
<1>3. CASE main' = [main EXCEPT !.pc = "segments"] /\ UNCHANGED <<reply, ispPage>>
  <2>1. main' \in Main /\ main'.pc = "segments" /\ main'.cmd = main.cmd /\ main'.step = main.step
    BY <1>3 DEF SdoTyped, Main
  <2>2. SdoTyped'
    BY <1>1, <1>3, <2>1 DEF SdoTyped
  <2>3. InCommand'
    BY <1>1, <1>3, <2>1 DEF InCommand
  <2> QED
    BY <2>2, <2>3
<1>4. CASE Finish(FALSE)
  <2>1. main' \in Main /\ main'.pc = "idle" /\ ispPage' \in 0 .. number
    BY <1>1, <1>4, Finishes
  <2>2. SdoTyped'
    BY <1>1, <2>1 DEF SdoTyped
  <2>3. InCommand'
    BY <1>1, <2>1 DEF InCommand, Waiting
  <2> QED
    BY <2>2, <2>3
<1> QED
  BY <1>2, <1>3, <1>4

LEMMA TailTyped ==
  ASSUME NEW S, NEW q \in Seq(S), q # <<>>
  PROVE  Head(q) \in S /\ Tail(q) \in Seq(S)
  BY HeadTailProperties

(* The interrupts, the unit and the bus.                                   *)
LEMMA ReceiveStep ==
  ASSUME SdoTyped, InCommand, Receive
  PROVE  /\ SdoTyped' /\ InCommand' /\ UNCHANGED <<mainVars, requests, target, lates>>
         /\ answers # <<>> /\ answers' = Tail(answers) /\ Head(answers) \in TargetAnswers
         /\ \/ SDOC_State \in {"Exp_Read_Busy", "Seg_Write_Busy"} /\ canRxMsg' = Head(answers)
                 /\ SDOC_State' = IF SDOC_State = "Exp_Read_Busy" THEN "Succes" ELSE "Seg_Write_OK"
            \/ /\ SDOC_State \notin {"Exp_Read_Busy", "Seg_Write_Busy"}
               /\ SDOC_State' = IF SDOC_State = "Exp_Write_Busy" /\ Head(answers) = "initiated"
                                  THEN "Succes" ELSE SDOC_State
<1>1. /\ answers # <<>> /\ answers' = Tail(answers) /\ UNCHANGED <<mainVars, requests, target, lates>>
      /\ \/ SDOC_State \in {"Exp_Read_Busy", "Seg_Write_Busy"} /\ canRxMsg' = Head(answers)
              /\ SDOC_State' = IF SDOC_State = "Exp_Read_Busy" THEN "Succes" ELSE "Seg_Write_OK"
         \/ /\ SDOC_State \notin {"Exp_Read_Busy", "Seg_Write_Busy"}
            /\ SDOC_State' = IF SDOC_State = "Exp_Write_Busy" /\ Head(answers) = "initiated"
                               THEN "Succes" ELSE SDOC_State
  BY DEF Receive
<1>2. answers' \in Seq(TargetAnswers) /\ Head(answers) \in TargetAnswers
  BY <1>1, TailTyped DEF SdoTyped
<1>3. UNCHANGED <<SDOC_BuffCount, nmtMsg, ispPage, main, reply, number, blank, missed, skipped>>
  BY <1>1 DEF mainVars
<1>4. SDOC_State' = SDOC_State \/ (SDOC_State = "Exp_Read_Busy" /\ SDOC_State' = "Succes")
      \/ (SDOC_State = "Exp_Write_Busy" /\ SDOC_State' = "Succes")
      \/ (SDOC_State = "Seg_Write_Busy" /\ SDOC_State' = "Seg_Write_OK")
  BY <1>1
<1>5. SdoTyped'
  BY <1>1, <1>2, <1>3, <1>4 DEF SdoTyped, Waiting
<1>6. InCommand'
  BY <1>3, <1>4 DEF InCommand, Transfer, Waiting
<1> QED
  BY <1>1, <1>2, <1>5, <1>6

LEMMA TimeOutStep ==
  ASSUME SdoTyped, InCommand, TimeOut
  PROVE  /\ SdoTyped' /\ InCommand' /\ UNCHANGED <<mainVars, canRxMsg, requests, answers, target>>
         /\ SDOC_State' = "Fail" /\ SDOC_State \notin {"Succes", "Fail"}
         /\ (lates' = lates /\ Quiet) \/ lates' = lates + 1
<1>1. /\ UNCHANGED <<mainVars, canRxMsg, requests, answers, target>> /\ SDOC_State' = "Fail"
      /\ SDOC_State \notin {"Succes", "Fail"} /\ ((lates' = lates /\ Quiet) \/ lates' = lates + 1)
  BY DEF TimeOut
<1>2. UNCHANGED <<SDOC_BuffCount, nmtMsg, ispPage, main, reply, number, blank, missed, skipped>>
  BY <1>1 DEF mainVars
<1>3. lates' \in Nat
  BY <1>1 DEF SdoTyped
<1>4. SdoTyped'
  BY <1>1, <1>2, <1>3 DEF SdoTyped
<1>5. InCommand'
  BY <1>1, <1>2 DEF InCommand, Transfer, Waiting
<1> QED
  BY <1>1, <1>4, <1>5

LEMMA ServeStep ==
  ASSUME SdoTyped, InCommand, Serve
  PROVE  /\ SdoTyped' /\ InCommand' /\ UNCHANGED <<mainVars, SDOC_State, canRxMsg, lates>>
         /\ requests # <<>> /\ requests' = Tail(requests) /\ Head(requests) \in Requests
         /\ \/ target' = Served(Head(requests))[1] /\ answers' = Append(answers, Served(Head(requests))[2])
            \/ target' = target /\ answers' = answers
<1>1. /\ UNCHANGED <<mainVars, SDOC_State, canRxMsg, lates>>
      /\ requests # <<>> /\ requests' = Tail(requests)
      /\ \/ target' = Served(Head(requests))[1] /\ answers' = Append(answers, Served(Head(requests))[2])
         \/ target' = target /\ answers' = answers
  BY DEF Serve
<1>2. requests' \in Seq(Requests) /\ Head(requests) \in Requests
  BY <1>1, TailTyped DEF SdoTyped
<1>3. Served(Head(requests))[1] \in Target /\ Served(Head(requests))[2] \in TargetAnswers
  <2>1. target \in Target
    BY DEF SdoTyped
  <2>2. CASE Head(requests).transfer = "segment"
    BY <1>2, <2>1, <2>2, ServesSegment DEF TargetAnswers
  <2>3. CASE Head(requests).transfer # "segment"
    BY <1>2, <2>1, <2>3, ServesOther DEF TargetAnswers
  <2> QED
    BY <2>2, <2>3
<1>4. target' \in Target /\ answers' \in Seq(TargetAnswers)
  <2> DEFINE t == Served(Head(requests))[1]
             a == Served(Head(requests))[2]
  <2>1. t \in Target /\ a \in TargetAnswers
    BY <1>3
  <2>2. (target' = t /\ answers' = Append(answers, a)) \/ (target' = target /\ answers' = answers)
    BY <1>1
  <2> HIDE DEF t, a
  <2> QED
    BY <2>1, <2>2 DEF SdoTyped
<1>5. UNCHANGED <<SDOC_BuffCount, nmtMsg, ispPage, main, reply, number, blank, missed, skipped>>
  BY <1>1 DEF mainVars
<1>6. SdoTyped'
  BY <1>1, <1>2, <1>4, <1>5 DEF SdoTyped
<1>7. InCommand'
  BY <1>1, <1>5 DEF InCommand, Transfer
<1> QED
  BY <1>1, <1>2, <1>6, <1>7

LEMMA DropStep ==
  ASSUME SdoTyped, InCommand, Drop
  PROVE  /\ SdoTyped' /\ InCommand' /\ UNCHANGED <<mainVars, SDOC_State, canRxMsg, target, lates>>
         /\ \/ requests # <<>> /\ requests' = Tail(requests) /\ answers' = answers
            \/ answers # <<>> /\ answers' = Tail(answers) /\ requests' = requests
<1>1. /\ UNCHANGED <<mainVars, SDOC_State, canRxMsg, target, lates>>
      /\ \/ requests # <<>> /\ requests' = Tail(requests) /\ answers' = answers
         \/ answers # <<>> /\ answers' = Tail(answers) /\ requests' = requests
  BY DEF Drop
<1>2. requests' \in Seq(Requests) /\ answers' \in Seq(TargetAnswers)
  BY <1>1, TailTyped DEF SdoTyped
<1>3. UNCHANGED <<SDOC_BuffCount, nmtMsg, ispPage, main, reply, number, blank, missed, skipped>>
  BY <1>1 DEF mainVars
<1>4. SdoTyped'
  BY <1>1, <1>2, <1>3 DEF SdoTyped
<1>5. InCommand'
  BY <1>1, <1>3 DEF InCommand, Transfer
<1> QED
  BY <1>1, <1>4, <1>5

LEMMA SwitchStep ==
  ASSUME SdoTyped, InCommand, SwitchOff
  PROVE  /\ SdoTyped' /\ InCommand' /\ UNCHANGED <<mainVars, SDOC_State, canRxMsg, requests, answers, lates>>
         /\ target' = [target EXCEPT !.on = FALSE]
<1>1. /\ UNCHANGED <<mainVars, SDOC_State, canRxMsg, requests, answers, lates>>
      /\ target' = [target EXCEPT !.on = FALSE]
  BY DEF SwitchOff
<1>2. target' \in Target
  BY <1>1 DEF SdoTyped, Target
<1>3. UNCHANGED <<SDOC_BuffCount, nmtMsg, ispPage, main, reply, number, blank, missed, skipped>>
  BY <1>1 DEF mainVars
<1>4. SdoTyped'
  BY <1>1, <1>2, <1>3 DEF SdoTyped
<1>5. InCommand'
  BY <1>1, <1>3 DEF InCommand, Transfer
<1> QED
  BY <1>1, <1>4, <1>5

LEMMA AppendGives ==
  ASSUME NEW S, NEW s \in Seq(S), NEW b \in S, NEW t, t = Append(s, b)
  PROVE  /\ t \in Seq(S) /\ Len(t) = Len(s) + 1 /\ t[Len(s) + 1] = b
         /\ \A i \in 1 .. Len(s) : t[i] = s[i]
  BY AppendProperties

LEMMA AppendToOne ==
  ASSUME NEW S, NEW a \in S, NEW b \in S, NEW s \in Seq(S), Len(s) = 1, s[1] = a
  PROVE  Append(s, b) = <<a, b>>
<1> DEFINE t == Append(s, b)
           u == <<a, b>>
<1>1. t \in Seq(S) /\ Len(t) = 2 /\ t[1] = a /\ t[2] = b
  <2>1. t \in Seq(S) /\ Len(t) = Len(s) + 1 /\ t[Len(s) + 1] = b /\ \A i \in 1 .. Len(s) : t[i] = s[i]
    <3>1. t = Append(s, b)
      OBVIOUS
    <3> HIDE DEF t
    <3> QED
      BY <3>1, AppendGives
  <2> HIDE DEF t
  <2> QED
    BY <2>1
<1>2. u \in Seq(S) /\ Len(u) = 2 /\ u[1] = a /\ u[2] = b
  OBVIOUS
<1> HIDE DEF t, u
<1>3. Len(t) = Len(u) /\ \A i \in 1 .. Len(t) : t[i] = u[i]
  <2>1. \A i \in 1 .. 2 : i = 1 \/ i = 2
    OBVIOUS
  <2> QED
    BY <1>1, <1>2, <2>1
<1>4. t = u
  BY <1>1, <1>2, <1>3, SeqEqual
<1> QED
  BY <1>4 DEF t, u

LEMMA AppendSecond == \A a, b : Append(<<a>>, b) = <<a, b>>
<1> TAKE a, b
<1>1. <<a>> \in Seq({a, b}) /\ Len(<<a>>) = 1 /\ <<a>>[1] = a /\ a \in {a, b} /\ b \in {a, b}
  OBVIOUS
<1> QED
  BY <1>1, AppendToOne

LEMMA Few ==
  /\ \A a : <<a>> # <<>> /\ Head(<<a>>) = a /\ Tail(<<a>>) = <<>> /\ Append(<<>>, a) = <<a>>
  /\ \A a, b : <<a, b>> # <<>> /\ Head(<<a, b>>) = a /\ Tail(<<a, b>>) = <<b>> /\ Append(<<a>>, b) = <<a, b>>
  /\ \A a : DOMAIN <<a>> = {1} /\ <<a>>[1] = a
  /\ \A a, b : DOMAIN <<a, b>> = {1, 2} /\ <<a, b>>[1] = a /\ <<a, b>>[2] = b
  /\ \A i : i \notin DOMAIN <<>>
<1>1. DOMAIN <<>> = 1 .. Len(<<>>) /\ Len(<<>>) = 0
  <2>1. <<>> \in Seq(Nat)
    OBVIOUS
  <2> QED
    BY <2>1, LenProperties, EmptySeq
<1>2. \A i : i \notin DOMAIN <<>>
  BY <1>1
<1>3. \A a : <<a>> # <<>>
  OBVIOUS
<1>4. \A a : Head(<<a>>) = a
  OBVIOUS
<1>5. \A a : Tail(<<a>>) = <<>>
  OBVIOUS
<1>6. \A a : Append(<<>>, a) = <<a>>
  OBVIOUS
<1>7. \A a, b : <<a, b>> # <<>> /\ Head(<<a, b>>) = a
  OBVIOUS
<1>8. \A a, b : Tail(<<a, b>>) = <<b>>
  OBVIOUS
<1>9. \A a, b : Append(<<a>>, b) = <<a, b>>
  BY AppendSecond
<1>10. \A a : DOMAIN <<a>> = {1} /\ <<a>>[1] = a
  OBVIOUS
<1>11. \A a, b : DOMAIN <<a, b>> = {1, 2} /\ <<a, b>>[1] = a /\ <<a, b>>[2] = b
  OBVIOUS
<1> QED
  BY <1>2, <1>3, <1>4, <1>5, <1>6, <1>7, <1>8, <1>9, <1>10, <1>11

(* What is on the bus in a state of the main loop.                         *)
LEMMA BusQuiet ==
  ASSUME OnBus, SDOC_State \notin Waiting, ~(main.pc = "transfer" /\ AfterSegments /\ LeftOver)
  PROVE  Clear
  BY DEF OnBus

LEMMA BusStart ==
  ASSUME SdoTyped, InCommand, OnBus, StartTransfer
  PROVE  OnBus'
<1>1. /\ main.pc = "transfer" /\ main'.pc = "spin" /\ main'.cmd = main.cmd /\ main'.step = main.step /\ answers' = answers
      /\ \/ /\ SDOC_State \in {"Succes", "Fail"} /\ SDOC_State' \in Waiting
            /\ requests' = Append(requests, nmtMsg')
         \/ SDOC_State \notin {"Succes", "Fail"} /\ requests' = requests
  BY StartStep DEF StartTransfer
<1>2. nmtMsg \in Requests
  BY DEF SdoTyped
<1>3. Clear \/ (AfterSegments /\ SDOC_State = "Succes" /\ LeftOver)
  BY <1>1 DEF OnBus
<1>4. CASE Clear
  BY <1>1, <1>4, Few DEF OnBus, Clear, One
<1>5. CASE AfterSegments /\ SDOC_State = "Succes" /\ LeftOver
  <2>1. AfterSegments' /\ main'.pc = "spin" /\ SDOC_State' \in Waiting /\ requests' = Append(requests, nmtMsg')
    BY <1>1, <1>5 DEF AfterSegments
  <2>2. Two'
    <3>1. CASE requests = <<nmtMsg>> /\ LastSegment(nmtMsg) /\ answers = <<>>
      <4>1. requests' = <<nmtMsg, nmtMsg'>> /\ answers' = <<>>
        BY <1>1, <2>1, <3>1, Few
      <4>2. \E l \in Requests : LastSegment(l) /\ requests' = <<l, nmtMsg'>>
        BY <1>2, <3>1, <4>1
      <4> QED
        BY <4>1, <4>2 DEF Two, LastSegment
    <3>2. CASE requests = <<>> /\ \E a \in Passed : answers = <<a>>
      BY <1>1, <2>1, <3>2, Few DEF Two
    <3> QED
      BY <1>5, <3>1, <3>2 DEF LeftOver
  <2> QED
    BY <2>1, <2>2 DEF OnBus
<1> QED
  BY <1>3, <1>4, <1>5

(* What SegmentDown sends, and where it leaves the main loop.              *)
LEMMA DownGives ==
  ASSUME SdoTyped, InCommand, SegmentDown
  PROVE  /\ requests' = Append(requests, nmtMsg')
         /\ nmtMsg' = [transfer |-> "segment", segment |-> NextSegment, data |-> number,
                       toggle |-> IF canRxMsg = "initiated" THEN 0 ELSE 1 - nmtMsg.toggle]
         /\ SDOC_State \notin Waiting
         /\ IF NextSegment = Segments
            THEN /\ SDOC_State' = "Succes" /\ main'.pc = "transfer" /\ main'.cmd = main.cmd /\ main'.step = 4
                 /\ AfterSegments'
            ELSE SDOC_State' = "Seg_Write_Busy" /\ main' = main
<1>1. main.pc = "segments" /\ SDOC_State # "Seg_Write_Busy"
  BY DEF SegmentDown
<1>2. SDOC_State \notin Waiting
  BY <1>1 DEF InCommand, Waiting
<1>3. CASE NextSegment = Segments
  <2>1. SDOC_State' = "Succes" /\ NextTransfer
    BY <1>3 DEF SegmentDown
  <2>2. main.cmd \in {"program", "go"} /\ main.step = 3 /\ main.pc # "idle"
    BY <1>1 DEF InCommand
  <2>3. main.step # Len(Transfers[main.cmd]) /\ ~(main.cmd \in {"program", "go"} /\ main.step = 2)
    BY <2>2, Scripts
  <2>4. /\ main.step + 1 \in 1 .. Len(Transfers[main.cmd])
        /\ main'.cmd = main.cmd /\ main'.step = main.step + 1
        /\ main'.pc = IF main.cmd \in {"program", "go"} /\ main.step = 2 THEN "segments" ELSE "transfer"
    BY <2>1, <2>2, <2>3, NextTransferGives
  <2>5. main'.step = 4 /\ main'.pc = "transfer"
    BY <2>2, <2>3, <2>4
  <2> QED
    BY <1>2, <1>3, <2>1, <2>2, <2>4, <2>5 DEF SegmentDown, Send, AfterSegments
<1>4. CASE NextSegment # Segments
  BY <1>2, <1>4 DEF SegmentDown, Send
<1> QED
  BY <1>3, <1>4

LEMMA BusMain ==
  ASSUME SdoTyped, InCommand, OnBus, TransferEnds \/ SegmentDown \/ Repeat \/ RepeatEnds
  PROVE  OnBus'
<1>1. CASE TransferEnds
  <2>1. main.pc = "spin" /\ SDOC_State \notin Waiting /\ UNCHANGED <<requests, answers>>
    BY <1>1 DEF TransferEnds, Waiting
  <2>2. Clear
    BY <2>1, BusQuiet
  <2> QED
    BY <2>1, <2>2 DEF OnBus, Clear
<1>2. CASE SegmentDown
  <2>1. main.pc = "segments" /\ SDOC_State \notin Waiting /\ answers' = answers
    BY <1>2, DownGives DEF SegmentDown
  <2>2. requests' = <<nmtMsg'>> /\ answers' = <<>>
    BY <1>2, <2>1, DownGives, BusQuiet, Few DEF Clear
  <2>3. CASE NextSegment = Segments
    <3>1. SDOC_State' = "Succes" /\ main'.pc = "transfer" /\ AfterSegments'
      BY <1>2, <2>3, DownGives
    <3>2. nmtMsg'.transfer = "segment" /\ nmtMsg'.segment = Segments
      BY <1>2, <2>3, DownGives
    <3> QED
      BY <2>2, <3>1, <3>2 DEF OnBus, LeftOver, LastSegment
  <2>4. CASE NextSegment # Segments
    <3>1. SDOC_State' = "Seg_Write_Busy" /\ main'.pc = "segments"
      BY <1>2, <2>1, <2>4, DownGives
    <3> QED
      BY <2>2, <3>1 DEF OnBus, One, Waiting
  <2> QED
    BY <2>3, <2>4
<1>3. CASE Repeat
  <2>1. /\ main.pc \in {"segments", "repeat"} /\ SDOC_State = "Fail" /\ SDOC_State' = "Seg_Write_Busy"
        /\ main'.pc = "repeat" /\ requests' = Append(requests, nmtMsg) /\ nmtMsg' = nmtMsg /\ answers' = answers
    BY <1>3 DEF Repeat, Send, SdoTyped, Main
  <2>2. Clear
    BY <2>1, BusQuiet DEF Waiting
  <2>3. requests' = <<nmtMsg'>> /\ answers' = <<>>
    BY <2>1, <2>2, Few DEF Clear
  <2> QED
    BY <2>1, <2>3 DEF OnBus, One, Waiting
<1>4. CASE RepeatEnds
  <2>1. main.pc = "repeat" /\ SDOC_State \notin Waiting /\ UNCHANGED <<requests, answers>>
    BY <1>4 DEF RepeatEnds, Waiting
  <2>2. Clear
    BY <2>1, BusQuiet
  <2> QED
    BY <2>1, <2>2 DEF OnBus, Clear
<1> QED
  BY <1>1, <1>2, <1>3, <1>4

LEMMA BusReceive ==
  ASSUME SdoTyped, InCommand, OnBus, Receive
  PROVE  OnBus'
<1>1. /\ UNCHANGED <<main, nmtMsg, requests>> /\ answers # <<>> /\ answers' = Tail(answers)
      /\ SDOC_State \notin Waiting => SDOC_State' = SDOC_State
      /\ SDOC_State = "Exp_Write_Busy" /\ Head(answers) # "initiated" => SDOC_State' = SDOC_State
  BY ReceiveStep DEF mainVars, Waiting
<1>2. CASE main.pc = "transfer" /\ AfterSegments /\ SDOC_State = "Succes" /\ LeftOver
  BY <1>1, <1>2, Few DEF LeftOver, OnBus, Clear
<1>3. CASE main.pc \in {"spin", "segments", "repeat"} /\ SDOC_State \in Waiting /\ One
  BY <1>1, <1>3, Few DEF One, OnBus, Clear
<1>4. CASE main.pc = "spin" /\ SDOC_State \in Waiting /\ AfterSegments /\ Two
  <2>1. SDOC_State = "Exp_Write_Busy"
    <3>1. Transfer \notin {"serial", "start"}
      BY <1>4, Scripts DEF AfterSegments, Transfer
    <3> QED
      BY <1>4, <3>1 DEF InCommand, Waiting
  <2>2. Head(answers) \in Passed /\ (\/ requests = <<nmtMsg>> /\ answers' = <<>>
                                     \/ requests = <<>> /\ \E b \in TargetAnswers : answers' = <<b>>)
    <3>1. CASE requests = <<nmtMsg>> /\ \E a \in Passed : answers = <<a>>
      BY <1>1, <3>1, Few
    <3>2. CASE requests = <<>> /\ \E a \in Passed, b \in TargetAnswers : answers = <<a, b>>
      <4>1. PICK a \in Passed, b \in TargetAnswers : answers = <<a, b>>
        BY <3>2
      <4>2. Head(answers) = a /\ answers' = <<b>>
        BY <1>1, <4>1, Few
      <4> QED
        BY <3>2, <4>1, <4>2
    <3> QED
      BY <1>1, <1>4, <3>1, <3>2 DEF Two
  <2>3. SDOC_State' = SDOC_State
    BY <1>1, <2>1, <2>2 DEF Passed
  <2>4. One'
    BY <1>1, <2>2 DEF One
  <2> QED
    BY <1>1, <1>4, <2>3, <2>4 DEF OnBus
<1>5. ~Clear
  BY <1>1 DEF Clear
<1> QED
  BY <1>2, <1>3, <1>4, <1>5 DEF OnBus

LEMMA BusServe ==
  ASSUME SdoTyped, InCommand, OnBus, Serve
  PROVE  OnBus'
<1>1. /\ UNCHANGED <<main, nmtMsg, SDOC_State>> /\ requests # <<>> /\ requests' = Tail(requests)
      /\ Head(requests) \in Requests
  BY ServeStep DEF mainVars
<1>2. answers' = answers \/ \E a \in TargetAnswers : answers' = Append(answers, a) /\ (Head(requests).transfer = "segment" => a \in Passed)
  <2>1. target \in Target
    BY DEF SdoTyped
  <2>2. CASE Head(requests).transfer = "segment"
    <3>1. Served(Head(requests))[2] \in Passed /\ Served(Head(requests))[2] \in TargetAnswers
      BY <1>1, <2>1, <2>2, ServesSegment DEF Passed, TargetAnswers
    <3> QED
      BY <3>1, ServeStep
  <2>3. CASE Head(requests).transfer # "segment"
    <3>1. Served(Head(requests))[2] \in TargetAnswers
      BY <1>1, <2>1, <2>3, ServesOther DEF TargetAnswers
    <3> QED
      BY <2>3, <3>1, ServeStep
  <2> QED
    BY <2>2, <2>3
<1>3. CASE main.pc = "transfer" /\ AfterSegments /\ SDOC_State = "Succes" /\ LeftOver
  <2>1. requests = <<nmtMsg>> /\ nmtMsg.transfer = "segment" /\ answers = <<>>
    BY <1>1, <1>3 DEF LeftOver, LastSegment
  <2>2. requests' = <<>> /\ (answers' = <<>> \/ \E a \in Passed : answers' = <<a>>)
    BY <1>1, <1>2, <2>1, Few
  <2> QED
    BY <1>1, <1>3, <2>2 DEF OnBus, Clear, LeftOver, AfterSegments
<1>4. CASE main.pc \in {"spin", "segments", "repeat"} /\ SDOC_State \in Waiting /\ One
  <2>1. requests = <<nmtMsg>> /\ answers = <<>>
    BY <1>1, <1>4 DEF One
  <2>2. requests' = <<>> /\ (answers' = <<>> \/ \E a \in TargetAnswers : answers' = <<a>>)
    BY <1>1, <1>2, <2>1, Few
  <2> QED
    BY <1>1, <1>4, <2>2 DEF OnBus, Clear, One
<1>5. CASE main.pc = "spin" /\ SDOC_State \in Waiting /\ AfterSegments /\ Two
  <2>1. Two' \/ One'
    <3>1. CASE answers = <<>> /\ \E l \in Requests : LastSegment(l) /\ requests = <<l, nmtMsg>>
      <4>1. requests' = <<nmtMsg>> /\ Head(requests).transfer = "segment"
        BY <1>1, <3>1, Few DEF LastSegment
      <4>2. answers' = <<>> \/ \E a \in Passed : answers' = <<a>>
        BY <1>2, <3>1, <4>1, Few
      <4> QED
        BY <1>1, <4>1, <4>2 DEF Two, One
    <3>2. CASE requests = <<nmtMsg>> /\ \E a \in Passed : answers = <<a>>
      <4>1. PICK a \in Passed : answers = <<a>>
        BY <3>2
      <4>2. requests' = <<>> /\ a \in TargetAnswers
        BY <1>1, <3>2, Few DEF Passed, TargetAnswers
      <4>3. answers' = <<a>> \/ \E b \in TargetAnswers : answers' = <<a, b>>
        BY <1>2, <4>1, Few
      <4> QED
        BY <4>2, <4>3 DEF Two, One
    <3> QED
      BY <1>1, <1>5, <3>1, <3>2 DEF Two
  <2> QED
    BY <1>1, <1>5, <2>1 DEF OnBus, AfterSegments
<1>6. ~Clear
  BY <1>1 DEF Clear
<1> QED
  BY <1>3, <1>4, <1>5, <1>6 DEF OnBus

LEMMA BusDrop ==
  ASSUME SdoTyped, InCommand, OnBus, Drop
  PROVE  OnBus'
<1>1. /\ UNCHANGED <<main, nmtMsg, SDOC_State>>
      /\ \/ requests # <<>> /\ requests' = Tail(requests) /\ answers' = answers
         \/ answers # <<>> /\ answers' = Tail(answers) /\ requests' = requests
  BY DropStep DEF mainVars
<1>2. CASE main.pc = "transfer" /\ AfterSegments /\ SDOC_State = "Succes" /\ LeftOver
  BY <1>1, <1>2, Few, ZenonT(60) DEF LeftOver, OnBus, Clear
<1>3. CASE main.pc \in {"spin", "segments", "repeat"} /\ SDOC_State \in Waiting /\ One
  BY <1>1, <1>3, Few DEF One, OnBus, Clear
<1>4. CASE main.pc = "spin" /\ SDOC_State \in Waiting /\ AfterSegments /\ Two
  <2>1. One'
    <3>1. CASE answers = <<>> /\ \E l \in Requests : LastSegment(l) /\ requests = <<l, nmtMsg>>
      BY <1>1, <3>1, Few DEF One
    <3>2. CASE requests = <<nmtMsg>> /\ \E a \in Passed : answers = <<a>>
      BY <1>1, <3>2, Few DEF One, Passed, TargetAnswers
    <3>3. CASE requests = <<>> /\ \E a \in Passed, b \in TargetAnswers : answers = <<a, b>>
      BY <1>1, <3>3, Few DEF One
    <3> QED
      BY <1>4, <3>1, <3>2, <3>3 DEF Two
  <2> QED
    BY <1>1, <1>4, <2>1 DEF OnBus
<1>5. CASE Clear
  BY <1>1, <1>5 DEF Clear, OnBus
<1> QED
  BY <1>2, <1>3, <1>4, <1>5 DEF OnBus

(* Without late timeouts.                                                  *)
LEMMA OnBusStep ==
  ASSUME SdoTyped, InCommand, OnBus, [SdoNext]_sdoVars, lates' = lates
  PROVE  OnBus'
<1>1. CASE \E cmd \in DOMAIN Transfers : Begin(cmd)
  <2>1. main.pc = "idle" /\ UNCHANGED <<requests, answers>>
    BY <1>1 DEF Begin
  <2> QED
    BY <2>1 DEF OnBus, Clear
<1>2. CASE StartTransfer
  BY <1>2, BusStart
<1>3. CASE TransferEnds \/ SegmentDown \/ Repeat \/ RepeatEnds
  BY <1>3, BusMain
<1>4. CASE TimeOut
  <2>1. Quiet /\ UNCHANGED <<requests, answers>>
    BY <1>4, TimeOutStep DEF SdoTyped
  <2> QED
    BY <2>1 DEF OnBus, Clear, Quiet
<1>5. CASE SwitchOff \/ UNCHANGED sdoVars
  <2>1. UNCHANGED <<main, nmtMsg, SDOC_State, requests, answers>>
    BY <1>5, SwitchStep DEF mainVars, sdoVars
  <2> QED
    BY <2>1 DEF OnBus, Clear, One, Two, LeftOver, LastSegment, AfterSegments
<1> QED
  BY <1>1, <1>2, <1>3, <1>4, <1>5, BusReceive, BusServe, BusDrop DEF SdoNext, MainLoop

LEMMA InTail ==
  ASSUME NEW S, NEW q \in Seq(S), q # <<>>
  PROVE  \A i \in DOMAIN Tail(q) : \E j \in DOMAIN q : Tail(q)[i] = q[j]
<1>1. Len(q) \in Nat \ {0} /\ DOMAIN q = 1 .. Len(q)
  BY LenProperties, EmptySeq
<1>2. Tail(q) \in Seq(S) /\ Len(Tail(q)) = Len(q) - 1 /\ \A i \in 1 .. Len(Tail(q)) : Tail(q)[i] = q[i + 1]
  BY HeadTailProperties
<1>3. DOMAIN Tail(q) = 1 .. Len(q) - 1
  BY <1>2, LenProperties
<1>4. \A i \in 1 .. Len(q) - 1 : i + 1 \in DOMAIN q /\ Tail(q)[i] = q[i + 1]
  BY <1>1, <1>2
<1> QED
  BY <1>3, <1>4

(* The transfer of a command that is begun.                                *)
LEMMA InTransfer ==
  ASSUME SdoTyped, InCommand, main.pc # "idle"
  PROVE  /\ main \in Main /\ main.cmd \in {"find", "format", "program", "go"}
         /\ main.step \in 1 .. 7 /\ main.step \in 1 .. Len(Transfers[main.cmd])
         /\ Transfer \in Kinds /\ Transfer # "segment"
         /\ Transfer = "serial" <=> main.cmd = "find"
         /\ Transfer = "segments" <=> main.cmd \in {"program", "go"} /\ main.step = 3
         /\ Transfer = "start" <=> main.cmd \in {"program", "go"} /\ main.step = 2
         /\ Transfer = "prepare" <=> (main.cmd = "format" /\ main.step = 2) \/ (main.cmd = "program" /\ main.step = 4)
         /\ Transfer = "destination" <=> main.cmd = "program" /\ main.step = 5
         /\ Transfer = "length" <=> main.cmd = "program" /\ main.step = 7
         /\ Transfer = "erase" <=> main.cmd = "format" /\ main.step = 3
         /\ Transfer = "control" <=> main.cmd = "go" /\ main.step = 6
<1>1. main \in Main /\ main.cmd \in {"find", "format", "program", "go"} /\ main.step \in 1 .. 7
      /\ main.step <= Len(Transfers[main.cmd])
  BY DEF SdoTyped, Main, InCommand
<1>2. Len(Transfers[main.cmd]) \in Nat
  BY <1>1, Scripts
<1>3. main.step \in 1 .. Len(Transfers[main.cmd])
  BY <1>1, <1>2
<1> QED
  BY <1>1, <1>3, InScripts DEF Transfer

(* What is served: the request of the transfer, or the last segment.       *)
OwnServed ==
  /\ main.pc \in {"spin", "segments", "repeat"} /\ SDOC_State \in Waiting
  /\ requests = <<nmtMsg>> /\ requests' = <<>>
  /\ target' = Served(nmtMsg)[1] /\ answers' = Append(answers, Served(nmtMsg)[2])
  /\ answers = <<>> \/ (main.pc = "spin" /\ AfterSegments /\ \E a \in Passed : answers = <<a>>)

LastServed ==
  /\ main.pc \in {"transfer", "spin"} /\ AfterSegments /\ answers = <<>>
  /\ \E l \in Requests :
       /\ LastSegment(l) /\ requests # <<>> /\ requests[1] = l /\ 1 \in DOMAIN requests
       /\ target' = Served(l)[1] /\ answers' = <<Served(l)[2]>>
  /\ requests' = <<>> \/ (main.pc = "spin" /\ SDOC_State \in Waiting /\ requests' = <<nmtMsg>>)

NoneServed ==
  /\ UNCHANGED <<target, answers>>
  /\ requests' = <<>> \/ (main.pc = "spin" /\ SDOC_State \in Waiting /\ requests' = <<nmtMsg>>)

LEMMA ServesOne ==
  ASSUME SdoTyped, InCommand, OnBus, Serve
  PROVE  OwnServed \/ LastServed \/ NoneServed
<1>1. /\ UNCHANGED <<main, nmtMsg, SDOC_State>> /\ requests # <<>> /\ requests' = Tail(requests)
      /\ \/ target' = Served(Head(requests))[1] /\ answers' = Append(answers, Served(Head(requests))[2])
         \/ UNCHANGED <<target, answers>>
  BY ServeStep DEF mainVars
<1>2. nmtMsg \in Requests
  BY DEF SdoTyped
<1>3. CASE main.pc = "transfer" /\ AfterSegments /\ SDOC_State = "Succes" /\ LeftOver
  <2>1. requests = <<nmtMsg>> /\ LastSegment(nmtMsg) /\ answers = <<>>
    BY <1>1, <1>3 DEF LeftOver
  <2>2. requests' = <<>> /\ Head(requests) = nmtMsg /\ requests[1] = nmtMsg /\ 1 \in DOMAIN requests
    BY <1>1, <2>1, Few
  <2> QED
    BY <1>1, <1>2, <1>3, <2>1, <2>2, Few DEF LastServed, NoneServed
<1>4. CASE main.pc \in {"spin", "segments", "repeat"} /\ SDOC_State \in Waiting /\ One
  <2>1. requests = <<nmtMsg>> /\ answers = <<>>
    BY <1>1, <1>4 DEF One
  <2>2. requests' = <<>> /\ Head(requests) = nmtMsg
    BY <1>1, <2>1, Few
  <2> QED
    BY <1>1, <1>4, <2>1, <2>2 DEF OwnServed, NoneServed
<1>5. CASE main.pc = "spin" /\ SDOC_State \in Waiting /\ AfterSegments /\ Two
  <2>1. CASE answers = <<>> /\ \E l \in Requests : LastSegment(l) /\ requests = <<l, nmtMsg>>
    <3>1. PICK l \in Requests : LastSegment(l) /\ requests = <<l, nmtMsg>>
      BY <2>1
    <3>2. requests' = <<nmtMsg>> /\ Head(requests) = l /\ requests[1] = l /\ 1 \in DOMAIN requests
      BY <1>1, <3>1, Few
    <3> QED
      BY <1>1, <1>5, <2>1, <3>1, <3>2, Few DEF LastServed, NoneServed
  <2>2. CASE requests = <<nmtMsg>> /\ \E a \in Passed : answers = <<a>>
    <3>1. requests' = <<>> /\ Head(requests) = nmtMsg
      BY <1>1, <2>2, Few
    <3> QED
      BY <1>1, <1>5, <2>2, <3>1 DEF OwnServed, NoneServed
  <2> QED
    BY <1>1, <1>5, <2>1, <2>2 DEF Two
<1>6. ~Clear
  BY <1>1 DEF Clear
<1> QED
  BY <1>3, <1>4, <1>5, <1>6 DEF OnBus

(* The request of a transfer other than a segment has its effect when it   *)
(* is answered.                                                            *)
LEMMA HasEffect ==
  ASSUME SdoTyped, InCommand, Prepared, main.pc = "spin", SDOC_State \in Waiting,
         Served(nmtMsg)[2] = "initiated", target' = Served(nmtMsg)[1],
         UNCHANGED <<main, ispPage, blank, number>>
  PROVE  HasDone(Transfer)'
<1>1. nmtMsg \in Requests /\ target \in Target /\ nmtMsg.transfer = Transfer /\ Transfer # "segment"
      /\ (Transfer = "destination" => nmtMsg.data = ispPage)
  BY InTransfer DEF SdoTyped, InCommand
<1>2. Transfer' = Transfer
  BY DEF Transfer
<1>3. Transfer = "start" => target'.at = 1 /\ target'.toggle = 0
  BY <1>1, ServesOther
<1>4. Transfer = "destination" => target'.page = ispPage
  BY <1>1, ServesOther
<1>5. Transfer = "erase" => \A p \in 0 .. MaxFrames : target'.flash[p] = Nothing
  BY <1>1, ServesOther
<1>6. Transfer = "length" => (blank => target'.flash[ispPage] = Whole(number))
  <2> SUFFICES ASSUME Transfer = "length", blank PROVE target'.flash[ispPage] = Whole(number)
    OBVIOUS
  <2>1. main.cmd = "program" /\ main.step = 7
    BY InTransfer
  <2>2. target.ram = Whole(number) /\ target.page = ispPage
    BY <2>1 DEF Prepared
  <2>3. target.prepared
    BY <1>1, ServesOther
  <2>4. target.flash[ispPage] = Nothing
    BY <2>1, <2>3 DEF Prepared
  <2>5. target'.flash = [target.flash EXCEPT ![target.page] = Copied(@, target.ram)]
    BY <1>1, <2>3, ServesOther
  <2>6. ispPage \in 0 .. MaxFrames
    BY SegmentsAssumption DEF SdoTyped
  <2>7. target.flash \in [0 .. MaxFrames -> Data]
    BY <1>1 DEF Target
  <2>8. target'.flash[ispPage] = Copied(target.flash[ispPage], target.ram)
    BY <2>2, <2>5, <2>6, <2>7
  <2> QED
    BY <2>2, <2>4, <2>8 DEF Copied
<1>7. Transfer = "control" => target'.ran = Whole(number)
  <2> SUFFICES ASSUME Transfer = "control" PROVE target'.ran = Whole(number)
    OBVIOUS
  <2>1. main.cmd = "go" /\ main.step = 6
    BY InTransfer
  <2>2. target.ram = Whole(number)
    BY <2>1 DEF Prepared
  <2> QED
    BY <1>1, <2>2, ServesOther
<1> QED
  BY <1>2, <1>3, <1>4, <1>5, <1>6, <1>7 DEF HasDone

LEMMA AnsweredServe ==
  ASSUME SdoTyped, InCommand, OnBus, Answered, Prepared, Serve
  PROVE  Answered'
<1>1. UNCHANGED <<main, SDOC_State, canRxMsg, ispPage, blank, number, nmtMsg>>
  BY ServeStep DEF mainVars
<1>2. Transfer' = Transfer
  BY <1>1 DEF Transfer
<1> SUFFICES ASSUME main.pc = "spin" PROVE Answered'
  BY <1>1 DEF Answered
<1>3. CASE NoneServed
  <2>1. HasDone(Transfer)' = HasDone(Transfer)
    BY <1>1, <1>2, <1>3 DEF HasDone, NoneServed
  <2> QED
    BY <1>1, <1>2, <1>3, <2>1 DEF Answered, NoneServed
<1>4. CASE OwnServed
  <2> DEFINE a == Served(nmtMsg)[2]
  <2>1. SDOC_State' \notin {"Succes", "Seg_Write_OK"}
    BY <1>1, <1>4 DEF OwnServed, Waiting
  <2>2. nmtMsg \in Requests /\ target \in Target /\ nmtMsg.transfer = Transfer /\ Transfer # "segment"
    BY <1>4, InTransfer DEF SdoTyped, InCommand, OwnServed
  <2>3. ASSUME NEW i \in DOMAIN answers' PROVE answers'[i] = a \/ (answers'[i] \in Passed /\ AfterSegments)
    <3> HIDE DEF a
    <3>1. CASE answers = <<>>
      <4>1. answers' = <<a>>
        BY <1>4, <3>1, Few DEF OwnServed, a
      <4> QED
        BY <2>3, <4>1, Few
    <3>2. CASE AfterSegments /\ \E b \in Passed : answers = <<b>>
      <4>1. PICK b \in Passed : answers = <<b>>
        BY <3>2
      <4>2. answers' = <<b, a>>
        BY <1>4, <4>1, Few DEF OwnServed, a
      <4> QED
        BY <2>3, <3>2, <4>2, Few
    <3> QED
      BY <1>4, <3>1, <3>2 DEF OwnServed
  <2>4. a = "initiated" => HasDone(Transfer)'
    BY <1>1, <1>4, HasEffect DEF OwnServed
  <2>5. Transfer = "start" => a = "initiated" /\ ~AfterSegments
    BY <2>2, ServesOther, InTransfer DEF AfterSegments
  <2> HIDE DEF a
  <2> QED
    BY <1>1, <1>2, <2>1, <2>3, <2>4, <2>5 DEF Answered, Passed
<1>5. CASE LastServed
  <2>1. Transfer \notin {"start", "destination", "erase", "length", "control"}
    BY <1>5, InTransfer DEF LastServed, AfterSegments
  <2> QED
    BY <1>2, <2>1 DEF Answered, HasDone
<1> QED
  BY <1>3, <1>4, <1>5, ServesOne

LEMMA PreparedServe ==
  ASSUME SdoTyped, InCommand, OnBus, Prepared, InStep, Serve
  PROVE  Prepared'
<1>1. UNCHANGED <<main, SDOC_State, canRxMsg, ispPage, blank, number, nmtMsg>>
  BY ServeStep DEF mainVars
<1>2. ASSUME requests' = <<>> \/ (main.pc = "spin" /\ SDOC_State \in Waiting /\ requests' = <<nmtMsg>>)
      PROVE  \A i \in DOMAIN requests' : ~(main.pc \in {"transfer", "spin"} /\ requests'[i].transfer = "segment")
  <2>1. CASE requests' = <<>>
    BY <2>1, Few
  <2>2. CASE main.pc = "spin" /\ SDOC_State \in Waiting /\ requests' = <<nmtMsg>>
    <3>1. nmtMsg.transfer # "segment"
      BY <2>2, InTransfer DEF InCommand
    <3> QED
      BY <2>2, <3>1, Few
  <2> QED
    BY <1>2, <2>1, <2>2
<1>3. CASE NoneServed
  BY <1>1, <1>2, <1>3 DEF NoneServed, Prepared
<1>4. CASE LastServed
  <2>1. PICK l \in Requests : LastSegment(l) /\ requests[1] = l /\ 1 \in DOMAIN requests /\ target' = Served(l)[1]
    BY <1>4 DEF LastServed
  <2>2. target \in Target /\ l.transfer = "segment"
    BY <2>1 DEF SdoTyped, LastSegment
  <2>3. target.open => target.at = Segments
    BY <1>4, <2>1, <2>2 DEF LastServed, Prepared
  <2>4. Segments \notin Parts
    BY SegmentsAssumption DEF Parts
  <2>5. target'.ram = target.ram /\ target'.page = target.page /\ target'.flash = target.flash
        /\ target'.prepared = target.prepared
    BY <2>1, <2>2, <2>3, <2>4, ServesSegment
  <2> QED
    BY <1>1, <1>2, <1>4, <2>5 DEF LastServed, Prepared
<1>5. CASE OwnServed /\ main.pc # "spin"
  <2>1. main.step = 3 /\ main.pc \in {"segments", "repeat"} /\ requests' = <<>> /\ target' = Served(nmtMsg)[1]
    BY <1>5 DEF OwnServed, InCommand
  <2>2. main.step < 7 /\ ~(main.step >= 4) /\ ~(main.step >= 6)
    BY <2>1
  <2>3. nmtMsg \in Requests /\ target \in Target
    BY DEF SdoTyped
  <2>4. target'.flash = target.flash /\ target'.prepared = target.prepared
    <3>1. SDOC_BuffCount # 0
      BY <1>5, <2>1 DEF InStep, OwnServed, Waiting
    <3>2. SDOC_BuffCount > 0
      BY <3>1 DEF SdoTyped
    <3>3. nmtMsg.transfer = "segment"
      BY <2>1, <3>2 DEF InStep
    <3> QED
      BY <2>1, <2>3, <3>3, ServesSegment
  <2> QED
    BY <1>1, <2>1, <2>2, <2>4, Few DEF Prepared
<1>6. CASE OwnServed /\ main.pc = "spin"
  <2>1. nmtMsg \in Requests /\ target \in Target /\ nmtMsg.transfer = Transfer /\ Transfer # "segment"
        /\ target' = Served(nmtMsg)[1] /\ requests' = <<>> /\ main.step \in 1 .. 7
    BY <1>6, InTransfer DEF SdoTyped, InCommand, OwnServed
  <2>2. target'.ram = target.ram
    BY <2>1, ServesOther
  <2>3. main.cmd = "program" /\ main.step >= 6 => target'.page = target.page
    <3>1. main.cmd = "program" /\ main.step >= 6 => Transfer # "destination"
      BY <1>6, <2>1, InTransfer
    <3> QED
      BY <2>1, <3>1, ServesOther
  <2>4. main.cmd = "program" /\ (main.step < 7 \/ target'.prepared) =>
          target'.flash = target.flash /\ (main.step < 7 \/ target.prepared)
    <3>1. main.cmd = "program" => Transfer # "erase" /\ (Transfer = "length" <=> main.step = 7)
      BY <1>6, InTransfer
    <3>2. CASE main.step = 7
      BY <2>1, <3>1, <3>2, ServesOther
    <3>3. CASE main.step < 7
      BY <2>1, <3>1, <3>3, ServesOther
    <3> QED
      BY <2>1, <3>2, <3>3
  <2> QED
    BY <1>1, <2>1, <2>2, <2>3, <2>4, Few DEF Prepared
<1> QED
  BY <1>3, <1>4, <1>5, <1>6, ServesOne

LEMMA AnsweredStep ==
  ASSUME SdoTyped, InCommand, OnBus, Answered, Prepared, [SdoNext]_sdoVars, lates' = lates
  PROVE  Answered'
<1>1. CASE \E cmd \in DOMAIN Transfers : Begin(cmd)
  <2>1. main'.pc = "transfer"
    BY <1>1, BeginStep
  <2> QED
    BY <2>1 DEF Answered
<1>2. CASE StartTransfer
  <2>1. /\ main.pc = "transfer" /\ main'.pc = "spin" /\ main'.cmd = main.cmd /\ main'.step = main.step
        /\ answers' = answers /\ SDOC_State' \in Waiting \cup {"Fail"}
    BY <1>2, StartStep DEF StartTransfer
  <2>2. SDOC_State' \notin {"Succes", "Seg_Write_OK"}
    BY <2>1 DEF Waiting
  <2>3. Clear \/ (AfterSegments /\ LeftOver)
    BY <2>1 DEF OnBus
  <2>4. \A i \in DOMAIN answers : answers[i] # "initiated"
    BY <2>3, Few DEF Clear, LeftOver, Passed
  <2>5. Transfer' = "start" => answers = <<>>
    <3>1. Transfer' = Transfer
      BY <2>1 DEF Transfer
    <3>2. Transfer = "start" => ~AfterSegments
      BY <2>1, InTransfer DEF AfterSegments
    <3> QED
      BY <2>3, <3>1, <3>2 DEF Clear
  <2> QED
    BY <2>1, <2>2, <2>4, <2>5, Few DEF Answered
<1>3. CASE TransferEnds
  <2>1. main'.pc # "spin"
    <3>1. main.pc = "spin" /\ (TransferFails \/ NextTransfer)
      BY <1>3 DEF TransferEnds
    <3> QED
      BY <3>1, FailsGives, NextTransferGives
  <2> QED
    BY <2>1 DEF Answered
<1>4. CASE SegmentDown \/ Repeat \/ RepeatEnds
  <2>1. main'.pc # "spin"
    <3>1. CASE SegmentDown
      BY <3>1, DownGives DEF SegmentDown
    <3>2. CASE Repeat
      BY <3>2 DEF Repeat, SdoTyped, Main
    <3>3. CASE RepeatEnds
      BY <3>3 DEF RepeatEnds, Finish, SdoTyped, Main
    <3> QED
      BY <1>4, <3>1, <3>2, <3>3
  <2> QED
    BY <2>1 DEF Answered
<1>5. CASE Receive
  <2>1. /\ UNCHANGED <<main, ispPage, blank, number, target>> /\ answers # <<>> /\ answers' = Tail(answers)
        /\ \/ SDOC_State \in {"Exp_Read_Busy", "Seg_Write_Busy"} /\ canRxMsg' = Head(answers)
                /\ SDOC_State' = IF SDOC_State = "Exp_Read_Busy" THEN "Succes" ELSE "Seg_Write_OK"
           \/ /\ SDOC_State \notin {"Exp_Read_Busy", "Seg_Write_Busy"}
              /\ SDOC_State' = IF SDOC_State = "Exp_Write_Busy" /\ Head(answers) = "initiated"
                                 THEN "Succes" ELSE SDOC_State
    BY <1>5, ReceiveStep DEF mainVars
  <2> SUFFICES ASSUME main.pc = "spin" PROVE Answered'
    BY <2>1 DEF Answered
  <2>2. Transfer' = Transfer /\ HasDone(Transfer)' = HasDone(Transfer)
    BY <2>1 DEF Transfer, HasDone
  <2>3. \A i \in DOMAIN answers' : \E j \in DOMAIN answers : answers'[i] = answers[j]
    BY <2>1, InTail DEF SdoTyped
  <2>4. 1 \in DOMAIN answers /\ answers[1] = Head(answers)
    BY <2>1, EmptySeq, LenProperties, HeadTailProperties DEF SdoTyped
  <2>5. (Transfer = "start" <=> SDOC_State \in {"Seg_Write_Busy", "Seg_Write_OK"}) \/ SDOC_State = "Fail"
    BY DEF InCommand
  <2>6. SDOC_State = "Exp_Read_Busy" => Transfer = "serial"
    BY DEF InCommand
  <2>7. SDOC_State = "Seg_Write_Busy" => Head(answers) = "initiated" /\ Transfer = "start"
    BY <2>4, <2>5 DEF Answered
  <2>8. SDOC_State' \in {"Succes", "Seg_Write_OK"} => HasDone(Transfer)
    <3>1. CASE SDOC_State' = SDOC_State
      BY <3>1 DEF Answered
    <3>2. CASE SDOC_State = "Exp_Read_Busy"
      BY <2>6, <3>2 DEF HasDone
    <3>3. CASE Head(answers) = "initiated"
      BY <2>4, <3>3 DEF Answered
    <3> QED
      BY <2>1, <2>7, <3>1, <3>2, <3>3
  <2>9. Transfer = "start" /\ SDOC_State' = "Seg_Write_OK" => canRxMsg' = "initiated"
    <3>1. CASE SDOC_State = "Seg_Write_Busy"
      BY <2>1, <2>7, <3>1
    <3>2. CASE SDOC_State = "Seg_Write_OK"
      <4>1. Transfer = "start" => answers = <<>>
        <5>1. Clear
          <6>1. SDOC_State \notin Waiting /\ main.pc # "transfer"
            BY <3>2 DEF Waiting
          <6> QED
            BY <6>1, BusQuiet
        <5> QED
          BY <5>1 DEF Clear
      <4> QED
        BY <2>1, <4>1
    <3> QED
      BY <2>1, <3>1, <3>2
  <2> QED
    BY <2>1, <2>2, <2>3, <2>8, <2>9 DEF Answered
<1>6. CASE TimeOut
  <2>1. UNCHANGED <<main, ispPage, blank, number, target, answers>> /\ SDOC_State' = "Fail"
    BY <1>6, TimeOutStep DEF mainVars
  <2>2. Transfer' = Transfer /\ HasDone(Transfer)' = HasDone(Transfer)
    BY <2>1 DEF Transfer, HasDone
  <2> QED
    BY <2>1, <2>2 DEF Answered
<1>7. CASE Drop
  <2>1. UNCHANGED <<main, ispPage, blank, number, target, SDOC_State, canRxMsg>>
        /\ (answers' = answers \/ (answers # <<>> /\ answers' = Tail(answers)))
    BY <1>7, DropStep DEF mainVars
  <2>2. Transfer' = Transfer /\ HasDone(Transfer)' = HasDone(Transfer)
    BY <2>1 DEF Transfer, HasDone
  <2>3. \A i \in DOMAIN answers' : \E j \in DOMAIN answers : answers'[i] = answers[j]
    BY <2>1, InTail, SMTT(40) DEF SdoTyped
  <2> QED
    BY <2>1, <2>2, <2>3 DEF Answered
<1>8. CASE SwitchOff \/ UNCHANGED sdoVars
  <2>1. /\ UNCHANGED <<main, ispPage, blank, number, answers, SDOC_State, canRxMsg>>
        /\ target' = [target EXCEPT !.on = FALSE] \/ target' = target
    BY <1>8, SwitchStep DEF mainVars, sdoVars
  <2>2. target'.at = target.at /\ target'.toggle = target.toggle /\ target'.page = target.page
        /\ target'.flash = target.flash /\ target'.ran = target.ran
    BY <2>1 DEF SdoTyped, Target
  <2>3. Transfer' = Transfer /\ HasDone(Transfer)' = HasDone(Transfer)
    BY <2>1, <2>2 DEF Transfer, HasDone
  <2> QED
    BY <2>1, <2>3 DEF Answered
<1> QED
  BY <1>1, <1>2, <1>3, <1>4, <1>5, <1>6, <1>7, <1>8, AnsweredServe DEF SdoNext, MainLoop

LEMMA PreparedStep ==
  ASSUME SdoTyped, InCommand, OnBus, Answered, Prepared, InStep, [SdoNext]_sdoVars, lates' = lates, ~skipped'
  PROVE  Prepared'
<1>1. CASE \E cmd \in DOMAIN Transfers : Begin(cmd)
  <2>1. PICK cmd \in DOMAIN Transfers : Begin(cmd)
    BY <1>1
  <2>2. main.pc = "idle" /\ UNCHANGED <<requests, answers>>
    BY <2>1 DEF Begin
  <2>3. requests' = <<>>
    BY <2>2 DEF OnBus, Clear
  <2>4. main'.step = 1 /\ ispPage' = ispPage /\ target' = target /\ blank' = (target.flash[ispPage] = Nothing)
    BY <2>1, BeginStep
  <2>5. ~(main'.step >= 4) /\ ~(main'.step >= 6)
    BY <2>4
  <2>6. blank' => target'.flash[ispPage'] = Nothing
    BY <2>4
  <2> QED
    BY <2>3, <2>5, <2>6, Few DEF Prepared
<1>2. CASE StartTransfer
  <2>1. /\ main.pc = "transfer" /\ main'.pc = "spin" /\ main'.cmd = main.cmd /\ main'.step = main.step
        /\ UNCHANGED <<ispPage, target, blank, number>>
        /\ requests' = requests \/ (requests' = Append(requests, nmtMsg') /\ nmtMsg'.transfer = Transfer)
    BY <1>2, StartStep DEF StartTransfer
  <2>2. Transfer # "segment"
    BY <2>1, InTransfer
  <2>3. \A i \in DOMAIN requests' : requests'[i].transfer = "segment" => (target.open => target.at = Segments)
    <3>1. CASE requests' = requests
      BY <2>1, <3>1 DEF Prepared
    <3>2. CASE requests' = Append(requests, nmtMsg') /\ nmtMsg'.transfer = Transfer
      <4>1. requests = <<>> \/ requests = <<nmtMsg>>
        BY <2>1 DEF OnBus, Clear, LeftOver
      <4>2. CASE requests = <<>>
        BY <2>2, <3>2, <4>2, Few
      <4>3. CASE requests = <<nmtMsg>>
        <5>1. requests' = <<nmtMsg, nmtMsg'>>
          BY <3>2, <4>3, Few
        <5> QED
          BY <2>1, <2>2, <3>2, <4>3, <5>1, Few DEF Prepared
      <4> QED
        BY <4>1, <4>2, <4>3
    <3> QED
      BY <2>1, <3>1, <3>2
  <2> QED
    BY <2>1, <2>3 DEF Prepared
<1>3. CASE TransferEnds
  <2>1. /\ main.pc = "spin" /\ SDOC_State \notin Waiting /\ UNCHANGED <<target, requests, answers, blank, number>>
        /\ \/ SDOC_State = "Fail" /\ TransferFails
           \/ SDOC_State \in {"Succes", "Seg_Write_OK"} /\ NextTransfer
    BY <1>3 DEF TransferEnds, Waiting
  <2>2. requests' = <<>>
    BY <2>1, BusQuiet DEF Clear
  <2> SUFFICES ASSUME main'.pc # "idle" PROVE Prepared'
    BY <2>2, Few DEF Prepared
  <2>3. main.step \in 1 .. 7 /\ (main.cmd \in {"program", "go"} => main.step # 3)
    BY <2>1, InTransfer DEF InCommand
  <2>4. CASE TransferFails
    <3>1. main'.cmd = main.cmd /\ main'.step = main.step /\ ispPage' = ispPage
      BY <2>1, <2>4, FailsGives
    <3> QED
      BY <2>1, <2>2, <3>1, Few DEF Prepared
  <2>5. CASE SDOC_State \in {"Succes", "Seg_Write_OK"} /\ NextTransfer
    <3>1. main'.cmd = main.cmd /\ main'.step = main.step + 1 /\ ispPage' = ispPage
          /\ main.step + 1 \in 1 .. Len(Transfers[main.cmd])
      BY <2>1, <2>5, NextTransferGives
    <3>2. main.cmd = "program" => main.step < 7
      <4>1. main.cmd = "program" => main.step + 1 \in 1 .. 7
        BY <3>1, Scripts
      <4> QED
        BY <2>3, <4>1
    <3>3. main.cmd \in {"program", "go"} /\ main.step + 1 >= 4 => target.ram = Whole(number)
      <4>1. main.cmd \in {"program", "go"} /\ main.step + 1 >= 4 => main.step >= 4
        BY <2>3
      <4> QED
        BY <2>1, <4>1 DEF Prepared
    <3>4. main.cmd = "program" /\ main.step + 1 >= 6 => target.page = ispPage
      <4>1. CASE main.cmd = "program" /\ main.step = 5
        <5>1. Transfer = "destination"
          BY <2>1, <4>1, InTransfer
        <5> QED
          BY <2>1, <2>5, <5>1 DEF Answered, HasDone
      <4>2. CASE main.cmd = "program" /\ main.step # 5 /\ main.step + 1 >= 6
        <5>1. main.step >= 6
          BY <2>3, <4>2
        <5> QED
          BY <2>1, <4>2, <5>1 DEF Prepared
      <4> QED
        BY <4>1, <4>2
    <3>5. main.cmd = "program" /\ blank => target.flash[ispPage] = Nothing
      BY <2>1, <3>2 DEF Prepared
    <3> QED
      BY <2>1, <2>2, <3>1, <3>3, <3>4, <3>5, Few DEF Prepared
  <2> QED
    BY <2>1, <2>4, <2>5
<1>4. CASE SegmentDown
  <2>1. /\ main.pc = "segments" /\ UNCHANGED <<target, blank, number, canRxMsg>> /\ SDOC_State # "Seg_Write_Busy"
        /\ canRxMsg \in {"initiated", "segment"}
        /\ missed' = (SDOC_State = "Fail" /\ NextSegment # 1)
        /\ skipped' = (skipped \/ (missed' /\ (missed \/ NextSegment = Segments)))
    BY <1>4 DEF SegmentDown
  <2>2. main.step = 3 /\ main.cmd \in {"program", "go"} /\ SDOC_State \in {"Seg_Write_OK", "Fail"}
    BY <2>1 DEF InCommand
  <2>3. ispPage' = ispPage
    <3>1. CASE NextSegment # Segments
      BY <1>4, <3>1 DEF SegmentDown
    <3>2. CASE NextSegment = Segments
      <4>1. NextTransfer /\ main.step # Len(Transfers[main.cmd])
        BY <1>4, <2>2, <3>2, Scripts DEF SegmentDown
      <4> QED
        BY <2>1, <4>1, NextTransferGives
    <3> QED
      BY <3>1, <3>2
  <2>4. main.cmd = "program" /\ blank => target.flash[ispPage] = Nothing
    BY <2>1, <2>2 DEF Prepared
  <2>5. CASE NextSegment # Segments
    <3>1. main' = main
      BY <1>4, <2>5, DownGives
    <3> QED
      BY <2>1, <2>2, <2>3, <2>4, <3>1 DEF Prepared
  <2>6. CASE NextSegment = Segments
    <3>1. /\ main'.cmd = main.cmd /\ main'.step = 4 /\ main'.pc = "transfer"
      BY <1>4, <2>6, DownGives
    <3>2. SDOC_State = "Seg_Write_OK"
      <4>1. NextSegment # 1
        BY <2>6, SegmentsAssumption
      <4> QED
        BY <2>1, <2>2, <2>6, <4>1
    <3>3. canRxMsg = "segment" /\ SDOC_BuffCount + 1 = Segments
      <4>1. canRxMsg # "initiated"
        BY <2>6, SegmentsAssumption DEF NextSegment
      <4> QED
        BY <2>1, <2>6, <4>1 DEF NextSegment
    <3>4. target.at = Segments /\ FilledBelow(Segments)
      BY <2>1, <3>2, <3>3 DEF InStep
    <3>5. target.ram = Whole(number)
      <4>1. target.ram \in [Parts -> Nat \X Nat]
        BY DEF SdoTyped, Target, Data
      <4>2. \A j \in Parts : j < Segments
        BY SegmentsAssumption DEF Parts
      <4>3. \A j \in Parts : target.ram[j] = <<number, j>>
        BY <3>4, <4>2 DEF FilledBelow
      <4> QED
        BY <4>1, <4>3 DEF Whole
    <3>6. ~(main'.step >= 6)
      BY <3>1
    <3> QED
      BY <2>1, <2>3, <2>4, <3>1, <3>4, <3>5, <3>6 DEF Prepared
  <2> QED
    BY <2>5, <2>6
<1>5. CASE Repeat \/ RepeatEnds
  <2>1. /\ main.pc \in {"segments", "repeat"} /\ UNCHANGED <<target, blank, number>>
        /\ \/ main'.pc = "idle"
           \/ main'.pc \in {"segments", "repeat"} /\ main'.cmd = main.cmd /\ main'.step = main.step /\ ispPage' = ispPage
    <3>1. CASE Repeat
      BY <3>1 DEF Repeat, SdoTyped, Main
    <3>2. CASE RepeatEnds
      BY <3>2 DEF RepeatEnds, Finish, SdoTyped, Main
    <3> QED
      BY <1>5, <3>1, <3>2
  <2> QED
    BY <2>1 DEF Prepared
<1>6. CASE Receive \/ TimeOut
  <2>1. UNCHANGED <<main, ispPage, blank, number, target, requests>>
    BY <1>6, ReceiveStep, TimeOutStep DEF mainVars
  <2> QED
    BY <2>1 DEF Prepared
<1>7. CASE Drop
  <2>1. UNCHANGED <<main, ispPage, blank, number, target>>
        /\ (requests' = requests \/ (requests # <<>> /\ requests' = Tail(requests)))
    BY <1>7, DropStep DEF mainVars
  <2>2. \A i \in DOMAIN requests' : \E j \in DOMAIN requests : requests'[i] = requests[j]
    BY <2>1, InTail DEF SdoTyped
  <2> QED
    BY <2>1, <2>2 DEF Prepared
<1>8. CASE SwitchOff \/ UNCHANGED sdoVars
  <2>1. /\ UNCHANGED <<main, ispPage, blank, number, requests>>
        /\ target' = [target EXCEPT !.on = FALSE] \/ target' = target
    BY <1>8, SwitchStep DEF mainVars, sdoVars
  <2>2. target'.at = target.at /\ target'.open = target.open /\ target'.page = target.page
        /\ target'.flash = target.flash /\ target'.ram = target.ram /\ target'.prepared = target.prepared
    BY <2>1 DEF SdoTyped, Target
  <2> QED
    BY <2>1, <2>2 DEF Prepared
<1> QED
  BY <1>1, <1>2, <1>3, <1>4, <1>5, <1>6, <1>7, <1>8, PreparedServe DEF SdoNext, MainLoop

LEMMA StepEnds ==
  ASSUME SdoTyped, InCommand, OnBus, Answered, TransferEnds
  PROVE  InStep'
<1>1. /\ main.pc = "spin" /\ SDOC_State \notin Waiting
      /\ UNCHANGED <<target, requests, answers, number, SDOC_BuffCount, canRxMsg, nmtMsg, SDOC_State, missed>>
      /\ \/ TransferFails
         \/ NextTransfer /\ SDOC_State = (IF Transfer = "start" THEN "Seg_Write_OK" ELSE "Succes")
  BY DEF TransferEnds, Waiting
<1>2. answers = <<>>
  BY <1>1, BusQuiet DEF Clear
<1>3. CASE main'.pc \notin {"segments", "repeat"}
  BY <1>3 DEF InStep
<1>4. CASE main'.pc \in {"segments", "repeat"}
  <2>1. NextTransfer /\ main'.pc = "segments" /\ main.cmd \in {"program", "go"} /\ main.step = 2
    BY <1>1, <1>4, FailsGives, NextTransferGives
  <2>2. Transfer = "start" /\ SDOC_State = "Seg_Write_OK"
    <3>1. Transfer = "start"
      BY <1>1, <2>1, InTransfer
    <3>2. ~TransferFails
      BY <1>1, <2>1, FailsGives
    <3> QED
      BY <1>1, <3>1, <3>2
  <2>3. target.at = 1 /\ target.toggle = 0 /\ canRxMsg = "initiated"
    BY <1>1, <2>2 DEF Answered, HasDone
  <2>4. SDOC_BuffCount = 0
    BY <1>1, <2>1 DEF InCommand
  <2>5. \A j \in Parts : ~(j < 1)
    BY SegmentsAssumption DEF Parts
  <2>6. 0 < Segments /\ ~(0 > 0)
    BY SegmentsAssumption
  <2> QED
    BY <1>1, <1>2, <2>1, <2>2, <2>3, <2>4, <2>5, <2>6, Few DEF InStep, FilledBelow
<1> QED
  BY <1>3, <1>4

LEMMA StepDown ==
  ASSUME SdoTyped, InCommand, OnBus, InStep, SegmentDown, ~skipped'
  PROVE  InStep'
<1> DEFINE k == SDOC_BuffCount
           n == NextSegment
<1>1. /\ main.pc = "segments" /\ canRxMsg \in {"initiated", "segment"} /\ SDOC_BuffCount' = n
      /\ missed' = (SDOC_State = "Fail" /\ n # 1)
      /\ skipped' = (skipped \/ (missed' /\ (missed \/ n = Segments)))
      /\ UNCHANGED <<canRxMsg, answers, target, number>>
      /\ SDOC_State \in {"Seg_Write_OK", "Fail"}
  BY DEF SegmentDown, InCommand
<1>2. nmtMsg' = [transfer |-> "segment", segment |-> n, data |-> number,
                 toggle |-> IF canRxMsg = "initiated" THEN 0 ELSE 1 - nmtMsg.toggle]
  BY DownGives
<1>3. answers = <<>>
  <2>1. SDOC_State \notin Waiting /\ main.pc # "transfer"
    BY <1>1 DEF Waiting
  <2> QED
    BY <2>1, BusQuiet DEF Clear
<1>4. CASE n = Segments
  <2>1. main'.pc = "transfer"
    BY <1>4, DownGives
  <2> QED
    BY <2>1 DEF InStep
<1>5. CASE n # Segments
  <2>1. main' = main /\ SDOC_State' = "Seg_Write_Busy"
    BY <1>5, DownGives
  <2>2. /\ k \in Nat /\ k < Segments /\ target.at \in Nat /\ target.at > 0
        /\ target.toggle \in {0, 1} /\ nmtMsg.toggle \in {0, 1} /\ Segments \in Nat /\ Segments > 1
    <3>1. k < Segments
      BY <1>1 DEF InStep
    <3> QED
      BY <3>1, SegmentsAssumption DEF SdoTyped, Target, Requests
  <2>3. target.open => FilledBelow(target.at)
    BY <1>1 DEF InStep
  <2>4. CASE canRxMsg = "initiated"
    <3>1. n = 1 /\ nmtMsg'.transfer = "segment" /\ nmtMsg'.segment = 1 /\ nmtMsg'.data = number /\ nmtMsg'.toggle = 0
      BY <1>2, <2>4 DEF NextSegment
    <3>2. target.open => target.at \in {0, 1, 2} /\ (target.at = 1 <=> target.toggle = 0)
      <4>1. k = 0 \/ k = 1
        BY <1>1, <2>2, <2>4 DEF InStep
      <4>2. CASE k = 0
        BY <1>1, <4>2 DEF InStep
      <4>3. CASE k = 1
        <5>1. nmtMsg.toggle = 0
          BY <1>1, <4>3 DEF InStep
        <5>2. target.open => target.at \in {1 - 1, 1, 1 + 1} /\ (target.at = 1 <=> target.toggle = nmtMsg.toggle)
          BY <1>1, <4>3 DEF InStep
        <5> QED
          BY <5>1, <5>2
      <4> QED
        BY <4>1, <4>2, <4>3
    <3>3. target.open => target.at \in {1 - 1, 1, 1 + 1} /\ target.at # 1 - 1
      BY <2>2, <3>2
    <3>4. 1 < Segments /\ 1 <= 1 /\ 1 > 0 /\ 1 # 0 /\ ~(1 > 1)
      BY <2>2
    <3> HIDE DEF k, n
    <3> QED
      BY <1>1, <1>3, <2>1, <2>3, <2>4, <3>1, <3>2, <3>3, <3>4, Few DEF InStep, FilledBelow
  <2>5. CASE canRxMsg = "segment"
    <3>1. n = k + 1 /\ nmtMsg'.transfer = "segment" /\ nmtMsg'.segment = n /\ nmtMsg'.data = number
          /\ nmtMsg'.toggle = 1 - nmtMsg.toggle
      BY <1>2, <2>5 DEF NextSegment
    <3>2. k > 0
      BY <1>1, <2>2, <2>5 DEF InStep
    <3>3. SDOC_State = "Seg_Write_OK" => target.at = k + 1
      BY <1>1, <2>5 DEF InStep
    <3>4. SDOC_State = "Fail" => missed' /\ ~missed
      <4>1. n # 1
        BY <2>2, <3>1, <3>2
      <4> QED
        BY <1>1, <4>1
    <3>5. target.open => target.at \in {k - 1, k, k + 1} /\ (target.at = k <=> target.toggle = nmtMsg.toggle)
                         /\ (target.at = k - 1 => missed)
      BY <1>1, <3>2 DEF InStep
    <3>6. n < Segments /\ n > 0 /\ n # 0 /\ n # 1
      BY <1>5, <2>2, <3>1, <3>2
    <3>7. target.open => target.at = k \/ target.at = k + 1
      BY <1>1, <3>3, <3>4, <3>5
    <3>8. target.open => target.at \in {n - 1, n, n + 1} /\ target.at # n + 1
                         /\ (target.at = n <=> target.toggle = nmtMsg'.toggle)
      <4> HIDE DEF k, n
      <4> QED
        BY <2>2, <3>1, <3>5, <3>7
    <3>9. target.open => (target.at = n - 1 => missed')
      <4>1. target.at = n - 1 => target.at # k + 1
        <5> HIDE DEF k, n
        <5> QED
          BY <2>2, <3>1
      <4> QED
        BY <1>1, <3>3, <3>4, <4>1
    <3> HIDE DEF k, n
    <3> QED
      BY <1>1, <1>3, <2>1, <2>3, <2>5, <3>1, <3>6, <3>8, <3>9, Few DEF InStep, FilledBelow
  <2> QED
    BY <1>1, <2>4, <2>5
<1> QED
  BY <1>4, <1>5

LEMMA StepRepeat ==
  ASSUME SdoTyped, InCommand, OnBus, InStep, Repeat \/ RepeatEnds
  PROVE  InStep'
<1>1. CASE Repeat
  <2>1. /\ main.pc \in {"segments", "repeat"} /\ SDOC_State = "Fail" /\ SDOC_State' = "Seg_Write_Busy"
        /\ main'.pc = "repeat" /\ (main.pc = "repeat" \/ canRxMsg \notin {"initiated", "segment"})
        /\ UNCHANGED <<target, number, SDOC_BuffCount, canRxMsg, nmtMsg, answers, missed>>
    BY <1>1 DEF Repeat, Send, SdoTyped, Main
  <2>2. canRxMsg = "abort" /\ ~target.open
    BY <2>1 DEF InStep
  <2>3. SDOC_BuffCount # 0
    BY <2>1, <2>2 DEF InStep
  <2>4. answers = <<>>
    <3>1. SDOC_State \notin Waiting /\ main.pc # "transfer"
      BY <2>1 DEF Waiting
    <3> QED
      BY <3>1, BusQuiet DEF Clear
  <2> QED
    BY <2>1, <2>2, <2>3, <2>4, Few DEF InStep
<1>2. CASE RepeatEnds
  <2>1. /\ main.pc = "repeat" /\ main'.pc \in {"idle", "segments"}
        /\ UNCHANGED <<target, number, requests, SDOC_BuffCount, SDOC_State, canRxMsg, nmtMsg, answers, missed>>
    BY <1>2 DEF RepeatEnds, Finish, SdoTyped, Main
  <2> QED
    BY <2>1 DEF InStep, FilledBelow
<1> QED
  BY <1>1, <1>2

LEMMA StepReceive ==
  ASSUME SdoTyped, InCommand, OnBus, InStep, Receive
  PROVE  InStep'
<1>1. /\ UNCHANGED <<main, requests, target, number, SDOC_BuffCount, nmtMsg, missed>>
      /\ answers # <<>> /\ answers' = Tail(answers)
      /\ SDOC_State = "Seg_Write_Busy" => canRxMsg' = Head(answers) /\ SDOC_State' = "Seg_Write_OK"
  BY ReceiveStep DEF mainVars
<1> SUFFICES ASSUME main.pc \in {"segments", "repeat"} PROVE InStep'
  BY <1>1 DEF InStep
<1>2. SDOC_State \in Waiting /\ One
  BY <1>1 DEF OnBus, Clear
<1>3. SDOC_State = "Seg_Write_Busy"
  BY <1>2 DEF InCommand, Waiting
<1>4. PICK a \in TargetAnswers : answers = <<a>>
  BY <1>1, <1>2 DEF One
<1>5. answers' = <<>> /\ canRxMsg' = a /\ SDOC_State' = "Seg_Write_OK" /\ 1 \in DOMAIN answers /\ answers[1] = a
  BY <1>1, <1>3, <1>4, Few
<1>6. a \in Passed /\ (a = "abort" => ~target.open) /\ (main.pc = "repeat" => a = "abort")
  BY <1>5 DEF InStep
<1>7. SDOC_BuffCount # 0
  BY <1>3 DEF InStep
<1>8. a = "segment" => target.at = SDOC_BuffCount + 1 /\ FilledBelow(SDOC_BuffCount + 1)
  BY <1>5 DEF InStep
<1> QED
  BY <1>1, <1>5, <1>6, <1>7, <1>8, Few DEF InStep, FilledBelow, Passed

LEMMA StepServe ==
  ASSUME SdoTyped, InCommand, OnBus, InStep, Serve
  PROVE  InStep'
<1> DEFINE k == SDOC_BuffCount
<1>1. UNCHANGED <<main, SDOC_State, canRxMsg, number, SDOC_BuffCount, nmtMsg, missed>>
  BY ServeStep DEF mainVars
<1> SUFFICES ASSUME main.pc \in {"segments", "repeat"} PROVE InStep'
  BY <1>1 DEF InStep
<1>2. CASE NoneServed
  <2>1. requests' = <<>> /\ UNCHANGED <<target, answers>>
    BY <1>2 DEF NoneServed
  <2> QED
    BY <1>1, <2>1 DEF InStep, FilledBelow
<1>3. CASE OwnServed
  <2>1. /\ SDOC_State \in Waiting /\ requests' = <<>> /\ answers = <<>>
        /\ target' = Served(nmtMsg)[1] /\ answers' = Append(answers, Served(nmtMsg)[2])
    BY <1>3 DEF OwnServed
  <2>2. SDOC_State = "Seg_Write_Busy"
    BY <2>1 DEF InCommand, Waiting
  <2>3. k # 0
    BY <2>2 DEF InStep
  <2>4. k \in Nat /\ k > 0 /\ k < Segments /\ Segments \in Nat /\ k \in Parts
    <3>1. k \in Nat /\ k < Segments /\ Segments \in Nat
      BY SegmentsAssumption DEF SdoTyped, InStep
    <3>2. k > 0 /\ k \in 1 .. Segments - 1
      <4> HIDE DEF k
      <4> QED
        BY <2>3, <3>1
    <3> QED
      BY <3>1, <3>2 DEF Parts
  <2>5. nmtMsg.transfer = "segment" /\ nmtMsg.segment = k /\ nmtMsg.data = number
    BY <2>4 DEF InStep
  <2>6. nmtMsg \in Requests /\ target \in Target /\ nmtMsg.toggle \in {0, 1} /\ target.toggle \in {0, 1}
        /\ target.ram \in [Parts -> Nat \X Nat]
    BY DEF SdoTyped, Requests, Target, Data
  <2>7. answers' = <<Served(nmtMsg)[2]>>
    BY <2>1, Few
  <2>8. CASE target.open /\ nmtMsg.toggle = target.toggle
    <3>1. target.at = k /\ FilledBelow(k) /\ canRxMsg # "abort" /\ main.pc # "repeat"
      BY <2>4, <2>8 DEF InStep
    <3>2. /\ answers' = <<"segment">> /\ target'.toggle = 1 - target.toggle /\ target'.at = k + 1
          /\ target'.ram = [target.ram EXCEPT ![k] = <<number, k>>]
      BY <2>1, <2>4, <2>5, <2>6, <2>7, <2>8, <3>1, ServesSegment
    <3>3. FilledBelow(k + 1)'
      <4>1. \A j \in Parts : j < k + 1 => j = k \/ j < k
        BY <2>4 DEF Parts
      <4>2. target'.ram[k] = <<number, k>> /\ \A j \in Parts : j # k => target'.ram[j] = target.ram[j]
        BY <2>4, <2>6, <3>2
      <4> QED
        BY <1>1, <3>1, <4>1, <4>2 DEF FilledBelow
    <3>4. ~(target'.toggle = nmtMsg.toggle) /\ k + 1 # k /\ k + 1 # k - 1
      BY <2>4, <2>6, <2>8, <3>2
    <3>5. \A j \in Parts : j < target'.at => target'.ram[j] = <<number, j>>
      BY <1>1, <3>2, <3>3 DEF FilledBelow
    <3> QED
      BY <1>1, <2>1, <2>2, <2>3, <2>4, <2>5, <3>1, <3>2, <3>3, <3>4, <3>5, Few DEF InStep, FilledBelow, Passed
  <2>9. CASE ~(target.open /\ nmtMsg.toggle = target.toggle)
    <3>1. answers' = <<"abort">> /\ ~target'.open
      BY <2>1, <2>5, <2>6, <2>7, <2>9, ServesSegment
    <3> QED
      BY <1>1, <2>1, <2>2, <2>3, <2>4, <2>5, <3>1, Few DEF InStep, Passed
  <2> QED
    BY <2>8, <2>9
<1>4. CASE LastServed
  BY <1>4 DEF LastServed
<1> QED
  BY <1>2, <1>3, <1>4, ServesOne

LEMMA InStepStep ==
  ASSUME SdoTyped, InCommand, OnBus, Answered, InStep, [SdoNext]_sdoVars, lates' = lates, ~skipped'
  PROVE  InStep'
<1>1. CASE (\E cmd \in DOMAIN Transfers : Begin(cmd)) \/ StartTransfer
  <2>1. main'.pc \in {"transfer", "spin"}
    BY <1>1, BeginStep, StartStep
  <2> QED
    BY <2>1 DEF InStep
<1>2. CASE TimeOut
  <2>1. /\ UNCHANGED <<main, target, number, SDOC_BuffCount, canRxMsg, requests, nmtMsg, answers, missed>>
        /\ SDOC_State' = "Fail" /\ Quiet /\ SDOC_State \notin {"Succes", "Fail"}
    BY <1>2, TimeOutStep DEF mainVars, SdoTyped
  <2> SUFFICES ASSUME main.pc \in {"segments", "repeat"} PROVE InStep'
    BY <2>1 DEF InStep
  <2>2. answers = <<>> /\ ~GoesOn
    BY <2>1 DEF Quiet
  <2>3. SDOC_BuffCount # 0
    BY <2>2 DEF InStep, GoesOn
  <2> QED
    BY <2>1, <2>2, <2>3, Few DEF InStep, FilledBelow
<1>3. CASE Drop
  <2>1. /\ UNCHANGED <<main, target, number, SDOC_BuffCount, SDOC_State, canRxMsg, nmtMsg, missed>>
        /\ answers' = answers \/ (answers # <<>> /\ answers' = Tail(answers))
        /\ requests' # <<>> => requests # <<>>
    BY <1>3, DropStep DEF mainVars
  <2>2. \A i \in DOMAIN answers' : \E j \in DOMAIN answers : answers'[i] = answers[j]
    BY <2>1, InTail DEF SdoTyped
  <2> SUFFICES ASSUME main.pc \in {"segments", "repeat"} PROVE InStep'
    BY <2>1 DEF InStep
  <2> QED
    BY <2>1, <2>2 DEF InStep, FilledBelow
<1>4. CASE SwitchOff \/ UNCHANGED sdoVars
  <2>1. /\ UNCHANGED <<main, number, SDOC_BuffCount, SDOC_State, canRxMsg, nmtMsg, missed, requests, answers>>
        /\ target' = [target EXCEPT !.on = FALSE] \/ target' = target
    BY <1>4, SwitchStep DEF mainVars, sdoVars
  <2>2. target'.at = target.at /\ target'.open = target.open /\ target'.toggle = target.toggle
        /\ target'.ram = target.ram
    BY <2>1 DEF SdoTyped, Target
  <2> QED
    BY <2>1, <2>2 DEF InStep, FilledBelow
<1> QED
  BY <1>1, <1>2, <1>3, <1>4, StepEnds, StepDown, StepRepeat, StepReceive, StepServe DEF SdoNext, MainLoop

(* What was reported stays true while the bridge waits for a command: the  *)
(* bus is clear then.                                                      *)
LEMMA ReportedDone ==
  ASSUME SdoTyped, InCommand, Answered, main.pc = "spin", TransferEnds, reply'.ok
  PROVE  Reported'
<1>1. ~TransferFails /\ ~reply.ok
  BY FailsGives DEF InCommand, Reported, TransferFails, Finish
<1>2. /\ NextTransfer /\ SDOC_State = (IF Transfer = "start" THEN "Seg_Write_OK" ELSE "Succes")
      /\ UNCHANGED <<target, blank, number>>
  BY <1>1 DEF TransferEnds
<1>3. /\ main.step = Len(Transfers[main.cmd]) /\ main'.pc = "idle" /\ reply'.cmd = main.cmd
      /\ main.cmd = "program" => ispPage' = ispPage + 1
  BY <1>1, <1>2, NextTransferGives
<1>4. HasDone(Transfer)
  BY <1>2 DEF Answered
<1>5. CASE main.cmd = "program"
  <2>1. Transfer = "length"
    BY <1>3, <1>5, InTransfer, Scripts
  <2>2. blank => target.flash[ispPage] = Whole(number)
    BY <1>4, <2>1 DEF HasDone
  <2>3. ispPage' > 0 /\ ispPage' - 1 = ispPage
    BY <1>3, <1>5 DEF SdoTyped
  <2>4. blank' => target'.flash[ispPage' - 1] = Whole(number)'
    BY <1>2, <2>2, <2>3 DEF Whole
  <2> QED
    BY <1>3, <1>5, <2>3, <2>4 DEF Reported
<1>6. CASE main.cmd = "format"
  <2>1. Transfer = "erase"
    BY <1>3, <1>6, InTransfer, Scripts
  <2>2. \A p \in 0 .. MaxFrames : target.flash[p] = Nothing
    BY <1>4, <2>1 DEF HasDone
  <2> QED
    BY <1>2, <1>3, <1>6, <2>2 DEF Reported
<1>7. CASE main.cmd = "go"
  <2>1. Transfer = "control"
    BY <1>3, <1>7, InTransfer, Scripts
  <2>2. target.ran = Whole(number)
    BY <1>4, <2>1 DEF HasDone
  <2> QED
    BY <1>2, <1>3, <1>7, <2>2 DEF Reported, Whole
<1>8. CASE main.cmd = "find"
  BY <1>3, <1>8 DEF Reported
<1> QED
  BY <1>5, <1>6, <1>7, <1>8, InTransfer

LEMMA ReportedStays ==
  ASSUME SdoTyped, Reported, UNCHANGED <<main, reply, ispPage, number, blank>>,
         target'.flash = target.flash, target'.ran = target.ran
  PROVE  Reported'
  BY DEF Reported, Whole

LEMMA ReportedStep ==
  ASSUME SdoTyped, InCommand, OnBus, Answered, Reported, [SdoNext]_sdoVars
  PROVE  Reported'
<1>1. CASE \E cmd \in DOMAIN Transfers : Begin(cmd)
  <2>1. ~reply'.ok
    BY <1>1, BeginStep
  <2> QED
    BY <2>1 DEF Reported
<1>2. CASE TransferEnds
  BY <1>2, ReportedDone DEF Reported, TransferEnds
<1>3. CASE RepeatEnds
  <2>1. ~reply'.ok
    BY <1>3, Finishes DEF RepeatEnds, InCommand
  <2> QED
    BY <2>1 DEF Reported
<1>4. CASE StartTransfer \/ SegmentDown \/ Repeat
  <2>1. ~reply.ok
    BY <1>4 DEF InCommand, StartTransfer, SegmentDown, Repeat
  <2>2. reply' = reply
    <3>1. CASE SegmentDown
      <4>1. main.pc = "segments" /\ main.cmd \in {"program", "go"} /\ main.step = 3
        BY <3>1 DEF InCommand, SegmentDown
      <4>2. main.step # Len(Transfers[main.cmd])
        BY <4>1, Scripts
      <4>3. NextTransfer => reply' = reply
        BY <4>1, <4>2, NextTransferGives
      <4> QED
        BY <3>1, <4>3 DEF SegmentDown
    <3>2. CASE StartTransfer \/ Repeat
      BY <3>2 DEF StartTransfer, Repeat
    <3> QED
      BY <1>4, <3>1, <3>2
  <2> QED
    BY <2>1, <2>2 DEF Reported
<1>5. CASE Receive \/ TimeOut \/ Drop
  <2>1. UNCHANGED <<main, reply, ispPage, number, blank, target>>
    BY <1>5, ReceiveStep, TimeOutStep, DropStep DEF mainVars
  <2> QED
    BY <2>1, ReportedStays
<1>6. CASE Serve
  <2>1. UNCHANGED <<main, reply, ispPage, number, blank>> /\ requests # <<>>
    BY <1>6, ServeStep DEF mainVars
  <2>2. main.pc # "idle"
    BY <2>1 DEF OnBus, Clear
  <2>3. ~reply'.ok
    BY <2>1, <2>2 DEF InCommand
  <2> QED
    BY <2>3 DEF Reported
<1>7. CASE SwitchOff
  <2>1. UNCHANGED <<main, reply, ispPage, number, blank>> /\ target' = [target EXCEPT !.on = FALSE]
    BY <1>7, SwitchStep DEF mainVars
  <2>2. target'.flash = target.flash /\ target'.ran = target.ran
    BY <2>1 DEF SdoTyped, Target
  <2> QED
    BY <2>1, <2>2, ReportedStays
<1>8. CASE UNCHANGED sdoVars
  BY <1>8, ReportedStays DEF sdoVars
<1> QED
  BY <1>1, <1>2, <1>3, <1>4, <1>5, <1>6, <1>7, <1>8 DEF SdoNext, MainLoop

LEMMA SdoTypes ==
  ASSUME SdoTyped, InCommand, [SdoNext]_sdoVars
  PROVE  SdoTyped' /\ InCommand'
<1>1. CASE UNCHANGED sdoVars
  BY <1>1 DEF sdoVars, SdoTyped, InCommand, Transfer
<1> QED
  BY <1>1, BeginStep, StartStep, EndsStep, DownStep, RepeatStep, RepeatEndsStep, ReceiveStep, TimeOutStep,
     ServeStep, DropStep, SwitchStep DEF SdoNext, MainLoop

(* What ended the promise stays on record.                                 *)
LEMMA OnRecord ==
  ASSUME SdoTyped, InCommand, [SdoNext]_sdoVars
  PROVE  (lates' = lates \/ lates' = lates + 1) /\ (skipped => skipped')
<1>1. CASE TimeOut
  BY <1>1, TimeOutStep DEF mainVars
<1>2. CASE \E cmd \in DOMAIN Transfers : Begin(cmd)
  BY <1>2 DEF Begin
<1>3. CASE MainLoop
  <2>1. CASE SegmentDown
    <3>1. lates' = lates
      BY <2>1 DEF SegmentDown
    <3>2. skipped' = (skipped \/ (missed' /\ (missed \/ NextSegment = Segments)))
      BY <2>1 DEF SegmentDown
    <3>3. skipped => skipped'
      BY <3>2
    <3> QED
      BY <3>1, <3>3
  <2>2. CASE StartTransfer \/ TransferEnds \/ Repeat \/ RepeatEnds
    <3>1. StartTransfer \/ TransferEnds => UNCHANGED <<lates, skipped>>
      BY DEF StartTransfer, TransferEnds
    <3>2. Repeat \/ RepeatEnds => UNCHANGED <<lates, skipped>>
      BY DEF Repeat, RepeatEnds
    <3>3. UNCHANGED <<lates, skipped>>
      BY <2>2, <3>1, <3>2
    <3> QED
      BY <3>3
  <2> QED
    BY <1>3, <2>1, <2>2 DEF MainLoop
<1>4. CASE Receive \/ Serve \/ Drop \/ SwitchOff
  BY <1>4, ReceiveStep, ServeStep, DropStep, SwitchStep DEF mainVars
<1>5. CASE UNCHANGED sdoVars
  BY <1>5 DEF sdoVars
<1> QED
  BY <1>1, <1>2, <1>3, <1>4, <1>5 DEF SdoNext

LEMMA SdoBegins == SdoInit => SdoInv
<1> SUFFICES ASSUME SdoInit PROVE SdoInv
  OBVIOUS
<1>1. main \in Main /\ main.pc = "idle" /\ nmtMsg \in Requests
  <2>1. NoRequest \in Requests
    BY DEF NoRequest, Requests, Kinds
  <2> QED
    BY <2>1 DEF SdoInit, Main
<1>2. target \in Target
  <2> DEFINE f == [p \in 0 .. MaxFrames |-> Nothing]
             d == Nothing
  <2>1. f \in [0 .. MaxFrames -> Data] /\ d \in Data
    BY DataTyped
  <2>2. target = [on |-> TRUE, open |-> FALSE, toggle |-> 0, at |-> 1, ram |-> d,
                  prepared |-> FALSE, page |-> 0, ran |-> d, flash |-> f]
    BY DEF SdoInit
  <2> HIDE DEF f, d
  <2> QED
    BY <2>1, <2>2 DEF Target
<1>3. requests = <<>> /\ answers = <<>>
  BY DEF SdoInit
<1>4. SdoTyped
  <2>1. requests \in Seq(Requests) /\ answers \in Seq(TargetAnswers)
    BY <1>3
  <2>2. number \in 0 .. MaxFrames /\ ispPage \in 0 .. number /\ lates \in Nat /\ SDOC_BuffCount \in Nat
    BY SegmentsAssumption DEF SdoInit
  <2>3. blank \in BOOLEAN /\ missed \in BOOLEAN /\ skipped \in BOOLEAN /\ SDOC_State = "Fail"
    BY DEF SdoInit
  <2> QED
    BY <1>1, <1>2, <2>1, <2>2, <2>3 DEF SdoTyped
<1>5. InCommand
  BY <1>1 DEF SdoInit, InCommand, Waiting
<1>6. Undisturbed
  BY <1>1, <1>3, Few DEF SdoInit, Undisturbed, OnBus, Clear, Answered, Prepared, InStep, Reported
<1> QED
  BY <1>4, <1>5, <1>6 DEF SdoInv

LEMMA SdoStays == SdoInv /\ [SdoNext]_sdoVars => SdoInv'
<1> SUFFICES ASSUME SdoInv, [SdoNext]_sdoVars PROVE SdoInv'
  OBVIOUS
<1>1. SdoTyped /\ InCommand
  BY DEF SdoInv
<1>2. SdoTyped' /\ InCommand'
  BY <1>1, SdoTypes
<1>3. ASSUME lates' = 0, ~skipped' PROVE Undisturbed'
  <2>1. lates = 0 /\ lates' = lates /\ ~skipped
    BY <1>1, <1>3, OnRecord DEF SdoTyped
  <2>2. OnBus /\ Answered /\ Prepared /\ InStep /\ Reported
    BY <2>1 DEF SdoInv, Undisturbed
  <2>3. OnBus'
    BY <1>1, <2>1, <2>2, OnBusStep
  <2>4. Answered'
    BY <1>1, <2>1, <2>2, AnsweredStep
  <2>5. Prepared'
    BY <1>1, <1>3, <2>1, <2>2, PreparedStep
  <2>6. InStep'
    BY <1>1, <1>3, <2>1, <2>2, InStepStep
  <2>7. Reported'
    BY <1>1, <2>2, ReportedStep
  <2> QED
    BY <2>3, <2>4, <2>5, <2>6, <2>7 DEF Undisturbed
<1> QED
  BY <1>2, <1>3 DEF SdoInv

LEMMA SdoInvDone == SdoInv => ReplyMeansDone
<1> SUFFICES ASSUME SdoInv, reply.ok, ~skipped, lates = 0 PROVE ReplyMeansDone
  BY DEF ReplyMeansDone
<1>1. /\ reply.cmd = "program" => (blank => target.flash[ispPage - 1] = Whole(number))
      /\ reply.cmd = "format" => \A p \in 0 .. MaxFrames : target.flash[p] = Nothing
      /\ reply.cmd = "go" => target.ran = Whole(number)
  BY DEF SdoInv, Undisturbed, Reported
<1>2. DOMAIN target.flash = 0 .. MaxFrames
  BY DEF SdoInv, SdoTyped, Target
<1> QED
  BY <1>1, <1>2 DEF ReplyMeansDone

(* What the bridge reports as done is done: a page it calls programmed is  *)
(* in the flash whole, a chip it calls erased is blank, and a unit it says *)
(* it has restarted has run the whole of its code - however many requests  *)
(* and answers are lost and repeated, unless an answer comes after its     *)
(* timeout or segments are lost in one of the two ways that go unnoticed.  *)
THEOREM DoneCorrect == SdoSpec => []ReplyMeansDone
<1>1. SdoSpec => []SdoInv
  BY SdoBegins, SdoStays, PTL DEF SdoSpec
<1>2. []SdoInv => []ReplyMeansDone
  BY SdoInvDone, PTL
<1> QED
  BY <1>1, <1>2
----------------------------------------------------------------------------
(* The bridge keeps its promises: BridgeService.                           *)

(* A preparation is there from its answer until it is used up, and the     *)
(* unit cannot have run the code of a command that is still to come.       *)
Accepted == (\E i \in DOMAIN answers : answers[i] = "initiated") \/ SDOC_State = "Succes"

InHand ==
  /\ main.pc = "spin" /\ Accepted =>
       /\ Transfer = "prepare" => target.prepared
       /\ Transfer \in {"erase", "length"} => ~target.prepared
  /\ main.pc # "idle" /\ main.cmd = "program" /\ main.step \in {5, 6} => target.prepared
  /\ \A n \in Nat : n > number => target.ran # Whole(n)

BridgeInv == SdoInv /\ (lates = 0 /\ ~skipped => InHand)

(* What a request that is served does to the unit.                         *)
Keeps == target'.prepared = target.prepared /\ target'.flash = target.flash /\ target'.ran = target.ran
OnlyPrepares == target'.prepared /\ target'.flash = target.flash /\ target'.ran = target.ran
Erases ==
  /\ target.prepared /\ ~target'.prepared /\ target'.ran = target.ran
  /\ target'.flash = [p \in 0 .. MaxFrames |-> Nothing]
Programs ==
  /\ target.prepared /\ ~target'.prepared /\ target'.ran = target.ran
  /\ target'.flash = [target.flash EXCEPT ![ispPage] = Copied(@, Whole(number))]
Runs ==
  /\ target'.prepared = target.prepared /\ target'.flash = target.flash
  /\ target'.ran = Whole(number)

Accepts(a) == \E i \in DOMAIN a : a[i] = "initiated"

UnitDoes ==
  \/ /\ Keeps
     /\ Accepts(answers') /\ ~Accepts(answers) => Transfer \notin {"prepare", "erase", "length"}
  \/ main.pc = "spin" /\ \/ Transfer = "prepare" /\ OnlyPrepares
                         \/ Transfer = "erase" /\ Erases
                         \/ Transfer = "length" /\ Programs
                         \/ Transfer = "control" /\ Runs

LEMMA ServeDoes ==
  ASSUME SdoTyped, InCommand, OnBus, Prepared, InStep, Serve
  PROVE  UnitDoes
<1>1. CASE NoneServed
  BY <1>1 DEF NoneServed, UnitDoes, Keeps
<1>2. CASE LastServed
  <2>1. PICK l \in Requests : LastSegment(l) /\ target' = Served(l)[1] /\ answers' = <<Served(l)[2]>>
    BY <1>2 DEF LastServed
  <2>2. l.transfer = "segment" /\ target \in Target
    BY <2>1 DEF LastSegment, SdoTyped
  <2>3. Keeps /\ Served(l)[2] # "initiated"
    BY <2>1, <2>2, ServesSegment DEF Keeps
  <2>4. ~Accepts(answers')
    BY <2>1, <2>3, Few DEF Accepts
  <2> QED
    BY <2>3, <2>4 DEF UnitDoes
<1>3. CASE OwnServed /\ main.pc # "spin"
  <2>1. /\ main.pc \in {"segments", "repeat"} /\ SDOC_State \in Waiting /\ answers = <<>>
        /\ target' = Served(nmtMsg)[1] /\ answers' = Append(answers, Served(nmtMsg)[2])
    BY <1>3 DEF OwnServed
  <2>2. nmtMsg \in Requests /\ target \in Target /\ nmtMsg.transfer = "segment"
    <3>1. SDOC_BuffCount # 0
      BY <2>1 DEF InStep, Waiting
    <3>2. SDOC_BuffCount > 0
      BY <3>1 DEF SdoTyped
    <3> QED
      BY <2>1, <3>2 DEF InStep, SdoTyped
  <2>3. Keeps /\ Served(nmtMsg)[2] # "initiated"
    BY <2>1, <2>2, ServesSegment DEF Keeps
  <2>4. answers' = <<Served(nmtMsg)[2]>>
    BY <2>1, Few
  <2>5. ~Accepts(answers')
    BY <2>3, <2>4, Few DEF Accepts
  <2> QED
    BY <2>3, <2>5 DEF UnitDoes
<1>4. CASE OwnServed /\ main.pc = "spin"
  <2> DEFINE a == Served(nmtMsg)[2]
  <2>1. /\ nmtMsg \in Requests /\ target \in Target /\ nmtMsg.transfer = Transfer /\ Transfer # "segment"
        /\ target' = Served(nmtMsg)[1] /\ answers' = Append(answers, a)
        /\ answers = <<>> \/ \E b \in Passed : answers = <<b>>
    BY <1>4, InTransfer DEF SdoTyped, InCommand, OwnServed
  <2>2. Accepts(answers') => a = "initiated"
    <3> HIDE DEF a
    <3>1. CASE answers = <<>>
      <4>1. answers' = <<a>>
        BY <2>1, <3>1, Few
      <4> QED
        BY <4>1, Few DEF Accepts
    <3>2. CASE \E b \in Passed : answers = <<b>>
      <4>1. PICK b \in Passed : answers = <<b>>
        BY <3>2
      <4>2. answers' = <<b, a>>
        BY <2>1, <4>1, Few
      <4> QED
        BY <4>1, <4>2, Few DEF Accepts, Passed
    <3> QED
      BY <2>1, <3>1, <3>2
  <2>3. target'.prepared \in BOOLEAN /\ target.prepared \in BOOLEAN /\ target' \in Target
    <3>1. target' \in Target
      BY <2>1, ServesOther
    <3> QED
      BY <2>1, <3>1 DEF Target
  <2>4. CASE Transfer \notin {"prepare", "erase", "length", "control"}
    <3>1. Keeps
      BY <2>1, <2>4, ServesOther DEF Keeps
    <3> QED
      BY <2>4, <3>1 DEF UnitDoes
  <2>5. CASE Transfer = "prepare"
    <3>1. OnlyPrepares
      BY <2>1, <2>5, ServesOther DEF OnlyPrepares
    <3> QED
      BY <1>4, <2>5, <3>1 DEF UnitDoes
  <2>6. CASE Transfer \in {"erase", "length"} /\ ~target.prepared
    <3>1. ~target'.prepared /\ target'.flash = target.flash /\ target'.ran = target.ran /\ a # "initiated"
      BY <2>1, <2>6, ServesOther
    <3>2. Keeps
      BY <2>3, <2>6, <3>1 DEF Keeps
    <3> QED
      BY <2>2, <3>1, <3>2 DEF UnitDoes
  <2>7. CASE Transfer = "erase" /\ target.prepared
    <3>1. ~target'.prepared /\ target'.ran = target.ran /\ \A p \in 0 .. MaxFrames : target'.flash[p] = Nothing
      BY <2>1, <2>7, ServesOther
    <3>2. target'.flash \in [0 .. MaxFrames -> Data]
      BY <2>3 DEF Target
    <3>3. target'.flash = [p \in 0 .. MaxFrames |-> Nothing]
      BY <3>1, <3>2
    <3> QED
      BY <1>4, <2>7, <3>1, <3>3 DEF UnitDoes, Erases
  <2>8. CASE Transfer = "length" /\ target.prepared
    <3>1. main.cmd = "program" /\ main.step = 7
      BY <1>4, <2>8, InTransfer
    <3>2. target.ram = Whole(number) /\ target.page = ispPage
      BY <1>4, <3>1 DEF Prepared
    <3>3. ~target'.prepared /\ target'.ran = target.ran
          /\ target'.flash = [target.flash EXCEPT ![target.page] = Copied(@, target.ram)]
      BY <2>1, <2>8, ServesOther
    <3> QED
      BY <1>4, <2>8, <3>2, <3>3 DEF UnitDoes, Programs
  <2>9. CASE Transfer = "control"
    <3>1. main.cmd = "go" /\ main.step = 6
      BY <1>4, <2>9, InTransfer
    <3>2. target.ram = Whole(number)
      BY <1>4, <3>1 DEF Prepared
    <3>3. target'.prepared = target.prepared /\ target'.flash = target.flash /\ target'.ran = target.ram
      BY <2>1, <2>9, ServesOther
    <3> QED
      BY <1>4, <2>9, <3>2, <3>3 DEF UnitDoes, Runs
  <2> QED
    BY <2>4, <2>5, <2>6, <2>7, <2>8, <2>9
<1> QED
  BY <1>1, <1>2, <1>3, <1>4, ServesOne

(* Only the unit's service changes what the promise is about.              *)
LEMMA UnitKeeps ==
  ASSUME SdoTyped, InCommand, [SdoNext]_sdoVars, ~Serve
  PROVE  Keeps
<1>1. CASE SwitchOff
  <2>1. target' = [target EXCEPT !.on = FALSE]
    BY <1>1, SwitchStep
  <2> QED
    BY <2>1 DEF Keeps, SdoTyped, Target
<1>2. CASE \E cmd \in DOMAIN Transfers : Begin(cmd)
  BY <1>2 DEF Begin, Keeps
<1>3. CASE MainLoop
  <2>1. CASE StartTransfer \/ TransferEnds
    <3>1. target' = target
      BY <2>1 DEF StartTransfer, TransferEnds
    <3> QED
      BY <3>1 DEF Keeps
  <2>2. CASE SegmentDown \/ Repeat \/ RepeatEnds
    <3>1. target' = target
      BY <2>2 DEF SegmentDown, Repeat, RepeatEnds
    <3> QED
      BY <3>1 DEF Keeps
  <2> QED
    BY <1>3, <2>1, <2>2 DEF MainLoop
<1>4. CASE Receive \/ TimeOut \/ Drop
  <2>1. target' = target
    BY <1>4, ReceiveStep, TimeOutStep, DropStep
  <2> QED
    BY <2>1 DEF Keeps
<1>5. CASE UNCHANGED sdoVars
  BY <1>5 DEF sdoVars, Keeps
<1> QED
  BY <1>1, <1>2, <1>3, <1>4, <1>5 DEF SdoNext

(* The codes of two commands differ.                                       *)
LEMMA WholesDiffer ==
  /\ \A m, n \in Nat : m # n => Whole(m) # Whole(n)
  /\ \A n \in Nat : n > 0 => Nothing # Whole(n)
<1>1. 1 \in Parts
  BY SegmentsAssumption DEF Parts
<1>2. \A n : Whole(n)[1] = <<n, 1>> /\ Nothing[1] = <<0, 0>>
  BY <1>1 DEF Whole, Nothing
<1>3. \A m, n \in Nat : m # n => <<m, 1>> # <<n, 1>> /\ <<0, 0>> # <<n, 1>>
  OBVIOUS
<1>4. ASSUME NEW m \in Nat, NEW n \in Nat, m # n PROVE Whole(m) # Whole(n)
  <2>1. <<m, 1>> # <<n, 1>>
    BY <1>3, <1>4
  <2> QED
    BY <1>2, <2>1
<1>5. ASSUME NEW n \in Nat, n > 0 PROVE Nothing # Whole(n)
  <2>1. <<0, 0>> # <<n, 1>>
    OBVIOUS
  <2> QED
    BY <1>2, <2>1
<1> QED
  BY <1>4, <1>5

LEMMA InHandServe ==
  ASSUME SdoTyped, InCommand, OnBus, Prepared, InStep, InHand, Serve
  PROVE  InHand'
<1>1. UNCHANGED <<main, SDOC_State, number>> /\ Transfer' = Transfer /\ number \in Nat
  BY ServeStep DEF mainVars, Transfer, SdoTyped
<1>2. Accepted <=> Accepts(answers) \/ SDOC_State = "Succes"
  BY DEF Accepted, Accepts
<1>3. Accepted' <=> Accepts(answers') \/ SDOC_State = "Succes"
  BY <1>1 DEF Accepted, Accepts
<1>4. UnitDoes
  BY ServeDoes
<1>5. main.pc = "spin" => main.step \in 1 .. 7 /\ (main.cmd = "program" /\ main.step \in {5, 6} => Transfer \notin {"erase", "length"})
  BY InTransfer
<1>6. CASE Keeps /\ (Accepts(answers') /\ ~Accepts(answers) => Transfer \notin {"prepare", "erase", "length"})
  BY <1>1, <1>2, <1>3, <1>6 DEF InHand, Keeps
<1>7. CASE main.pc = "spin" /\ Transfer = "prepare" /\ OnlyPrepares
  BY <1>1, <1>7 DEF InHand, OnlyPrepares
<1>8. CASE main.pc = "spin" /\ Transfer = "erase" /\ Erases
  BY <1>1, <1>5, <1>8 DEF InHand, Erases
<1>9. CASE main.pc = "spin" /\ Transfer = "length" /\ Programs
  BY <1>1, <1>5, <1>9 DEF InHand, Programs
<1>10. CASE main.pc = "spin" /\ Transfer = "control" /\ Runs
  <2>1. \A n \in Nat : n > number => target'.ran # Whole(n)
    BY <1>1, <1>10, WholesDiffer DEF Runs
  <2> QED
    BY <1>1, <1>10, <2>1 DEF InHand, Runs
<1> QED
  BY <1>4, <1>6, <1>7, <1>8, <1>9, <1>10 DEF UnitDoes

(* An answer is accepted only to a transfer under way.                     *)
LEMMA StillAccepted ==
  ASSUME SdoTyped, InCommand, OnBus, [SdoNext]_sdoVars, ~Serve, main'.pc = "spin", Accepted'
  PROVE  main' = main /\ (Accepted \/ Transfer = "serial")
<1>1. CASE \E cmd \in DOMAIN Transfers : Begin(cmd)
  BY <1>1, BeginStep
<1>2. CASE StartTransfer
  <2>1. main.pc = "transfer" /\ answers' = answers /\ SDOC_State' \in Waiting \cup {"Fail"}
    BY <1>2, StartStep DEF StartTransfer
  <2>2. Clear \/ LeftOver
    BY <2>1 DEF OnBus
  <2>3. \A i \in DOMAIN answers : answers[i] # "initiated"
    BY <2>2, Few DEF Clear, LeftOver, Passed
  <2> QED
    BY <2>1, <2>3 DEF Accepted, Waiting
<1>3. CASE TransferEnds
  <2>1. main.pc = "spin" /\ (TransferFails \/ NextTransfer)
    BY <1>3 DEF TransferEnds
  <2> QED
    BY <2>1, FailsGives, NextTransferGives
<1>4. CASE SegmentDown
  BY <1>4, DownGives DEF SegmentDown
<1>5. CASE Repeat
  BY <1>5 DEF Repeat, SdoTyped, Main
<1>6. CASE RepeatEnds
  BY <1>6 DEF RepeatEnds, Finish, SdoTyped, Main
<1>7. CASE Receive
  <2>1. /\ main' = main /\ answers # <<>> /\ answers' = Tail(answers)
        /\ SDOC_State' = SDOC_State \/ SDOC_State' # "Succes" \/ SDOC_State = "Exp_Read_Busy"
           \/ Head(answers) = "initiated"
    BY <1>7, ReceiveStep DEF mainVars
  <2>2. \A i \in DOMAIN answers' : \E j \in DOMAIN answers : answers'[i] = answers[j]
    BY <2>1, InTail DEF SdoTyped
  <2>3. 1 \in DOMAIN answers /\ answers[1] = Head(answers)
    BY <2>1, EmptySeq, LenProperties, HeadTailProperties DEF SdoTyped
  <2>4. SDOC_State = "Exp_Read_Busy" => Transfer = "serial"
    BY <2>1 DEF InCommand
  <2> QED
    BY <2>1, <2>2, <2>3, <2>4 DEF Accepted
<1>8. CASE TimeOut
  <2>1. main' = main /\ answers' = answers /\ SDOC_State' = "Fail"
    BY <1>8, TimeOutStep DEF mainVars
  <2> QED
    BY <2>1 DEF Accepted
<1>9. CASE Drop
  <2>1. UNCHANGED <<main, SDOC_State>>
        /\ (answers' = answers \/ (answers # <<>> /\ answers' = Tail(answers)))
    BY <1>9, DropStep DEF mainVars
  <2>2. \A i \in DOMAIN answers' : \E j \in DOMAIN answers : answers'[i] = answers[j]
    BY <2>1, InTail, SMTT(40) DEF SdoTyped
  <2> QED
    BY <2>1, <2>2 DEF Accepted
<1>10. CASE SwitchOff \/ UNCHANGED sdoVars
  <2>1. UNCHANGED <<main, SDOC_State, answers>>
    BY <1>10, SwitchStep DEF mainVars, sdoVars
  <2> QED
    BY <2>1 DEF Accepted
<1> QED
  BY <1>1, <1>2, <1>3, <1>4, <1>5, <1>6, <1>7, <1>8, <1>9, <1>10 DEF SdoNext, MainLoop

(* The step at which a command takes effect is entered prepared.           *)
LEMMA InHandStep ==
  ASSUME SdoTyped, InCommand, OnBus, Answered, Prepared, InStep, InHand, [SdoNext]_sdoVars
  PROVE  InHand'
<1>1. CASE Serve
  BY <1>1, InHandServe
<1>2. CASE ~Serve
  <2>1. Keeps
    BY <1>2, UnitKeeps
  <2>2. main'.pc = "spin" /\ Accepted' =>
          /\ Transfer' = "prepare" => target'.prepared
          /\ Transfer' \in {"erase", "length"} => ~target'.prepared
    <3>1. main'.pc = "spin" /\ Accepted' => main' = main /\ (Accepted \/ Transfer = "serial")
      BY <1>2, StillAccepted
    <3>2. main' = main => Transfer' = Transfer
      BY DEF Transfer
    <3> QED
      BY <2>1, <3>1, <3>2 DEF InHand, Keeps
  <2>3. number' \in {number, number + 1} /\ number \in Nat
    <3>1. (\E cmd \in DOMAIN Transfers : Begin(cmd)) => number' = number + 1
      BY DEF Begin
    <3>2. MainLoop => number' = number
      <4>1. StartTransfer \/ TransferEnds \/ SegmentDown => number' = number
        BY DEF StartTransfer, TransferEnds, SegmentDown
      <4>2. Repeat \/ RepeatEnds => number' = number
        BY DEF Repeat, RepeatEnds
      <4> QED
        BY <4>1, <4>2 DEF MainLoop
    <3>3. Receive \/ TimeOut \/ Drop \/ SwitchOff => number' = number
      BY ReceiveStep, TimeOutStep, DropStep, SwitchStep DEF mainVars
    <3>4. UNCHANGED sdoVars => number' = number
      BY DEF sdoVars
    <3> QED
      BY <1>2, <3>1, <3>2, <3>3, <3>4 DEF SdoNext, SdoTyped
  <2>4. \A n \in Nat : n > number' => target'.ran # Whole(n)
    <3>1. \A n \in Nat : n > number' => n > number
      BY <2>3
    <3> QED
      BY <2>1, <3>1 DEF InHand, Keeps
  <2>5. main'.pc # "idle" /\ main'.cmd = "program" /\ main'.step \in {5, 6} => target'.prepared
    <3> SUFFICES ASSUME main'.pc # "idle", main'.cmd = "program", main'.step \in {5, 6}
                 PROVE  target.prepared
      BY <2>1 DEF Keeps
    <3>1. CASE main.pc # "idle" /\ main.cmd = "program" /\ main.step \in {5, 6}
      BY <3>1 DEF InHand
    <3>2. CASE \E cmd \in DOMAIN Transfers : Begin(cmd)
      BY <3>2, BeginStep
    <3>3. CASE StartTransfer
      BY <3>1, <3>3, StartStep DEF StartTransfer
    <3>4. CASE TransferEnds
      <4>1. /\ main.pc = "spin" /\ main.step \in 1 .. 7
            /\ \/ TransferFails
               \/ NextTransfer /\ SDOC_State = (IF Transfer = "start" THEN "Seg_Write_OK" ELSE "Succes")
        BY <3>4, InTransfer DEF TransferEnds
      <4>2. CASE TransferFails
        <5>1. main'.cmd = main.cmd /\ main'.step = main.step
          BY <4>1, <4>2, FailsGives
        <5> QED
          BY <3>1, <4>1, <5>1
      <4>3. CASE NextTransfer /\ SDOC_State = (IF Transfer = "start" THEN "Seg_Write_OK" ELSE "Succes")
        <5>1. main'.cmd = main.cmd /\ main'.step = main.step + 1
          BY <4>1, <4>3, NextTransferGives
        <5>2. main.step = 4 \/ main.step = 5
          BY <4>1, <5>1
        <5>3. CASE main.step = 4
          <6>1. Transfer = "prepare"
            BY <4>1, <5>1, <5>3, InTransfer
          <6> QED
            BY <4>1, <4>3, <6>1 DEF InHand, Accepted
        <5> QED
          BY <3>1, <4>1, <5>1, <5>2, <5>3
      <4> QED
        BY <4>1, <4>2, <4>3
    <3>5. CASE SegmentDown
      <4>1. main'.step = 4 \/ main' = main
        BY <3>5, DownGives
      <4> QED
        BY <3>1, <3>5, <4>1 DEF SegmentDown
    <3>6. CASE Repeat \/ RepeatEnds
      <4>1. /\ main.pc \in {"segments", "repeat"}
            /\ main'.pc = "idle" \/ (main'.cmd = main.cmd /\ main'.step = main.step)
        <5>1. CASE Repeat
          BY <5>1 DEF Repeat, SdoTyped, Main
        <5>2. CASE RepeatEnds
          BY <5>2 DEF RepeatEnds, Finish, SdoTyped, Main
        <5> QED
          BY <3>6, <5>1, <5>2
      <4> QED
        BY <3>1, <4>1
    <3>7. CASE Receive \/ TimeOut \/ Drop \/ SwitchOff \/ UNCHANGED sdoVars
      <4>1. main' = main
        BY <3>7, ReceiveStep, TimeOutStep, DropStep, SwitchStep DEF mainVars, sdoVars
      <4> QED
        BY <3>1, <4>1
    <3> QED
      BY <1>2, <3>2, <3>3, <3>4, <3>5, <3>6, <3>7 DEF SdoNext, MainLoop
  <2> QED
    BY <2>2, <2>4, <2>5 DEF InHand
<1> QED
  BY <1>1, <1>2

LEMMA BridgeBegins == SdoInit => BridgeInv
<1> SUFFICES ASSUME SdoInit PROVE BridgeInv
  OBVIOUS
<1>1. SdoInv
  BY SdoBegins
<1>2. main.pc = "idle" /\ number = 0 /\ target.ran = Nothing
  BY DEF SdoInit
<1>3. InHand
  BY <1>2, WholesDiffer DEF InHand
<1> QED
  BY <1>1, <1>3 DEF BridgeInv

LEMMA BridgeStays == BridgeInv /\ [SdoNext]_sdoVars => BridgeInv'
<1> SUFFICES ASSUME BridgeInv, [SdoNext]_sdoVars PROVE BridgeInv'
  OBVIOUS
<1>1. SdoInv /\ SdoInv'
  BY SdoStays DEF BridgeInv
<1>2. ASSUME lates' = 0, ~skipped' PROVE InHand'
  <2>1. lates = 0 /\ ~skipped
    BY <1>1, <1>2, OnRecord DEF SdoInv, SdoTyped
  <2> QED
    BY <1>1, <2>1, InHandStep DEF BridgeInv, SdoInv, Undisturbed
<1> QED
  BY <1>1, <1>2 DEF BridgeInv

Sure == lates = 0 /\ ~skipped
BridgeStep == [Promise!Next]_(Promise!vars)

(* A step that concerns only the transfers.                                *)
LEMMA NoBridgeStep ==
  ASSUME Sure, Sure', Keeps, UNCHANGED <<reply, number, ispPage>>,
         (main'.pc = "idle" /\ main.pc = "idle") \/ (main'.pc # "idle" /\ main.pc # "idle" /\ main'.cmd = main.cmd),
         TakenEffect' <=> TakenEffect
  PROVE  BridgeStep
<1>1. TakenEffect' = TakenEffect
  BY DEF TakenEffect
<1> QED
  BY <1>1 DEF Sure, Keeps, BridgeStep, Promise!vars

LEMMA EffectStays ==
  ASSUME Keeps, UNCHANGED <<main, number>>
  PROVE  TakenEffect' <=> TakenEffect
  BY DEF Keeps, TakenEffect, Whole

LEMMA BridgeServes ==
  ASSUME SdoTyped, InCommand, OnBus, Prepared, InStep, Sure, Sure', Serve
  PROVE  BridgeStep
<1>1. UNCHANGED <<main, reply, number, ispPage, lates, skipped>>
  BY ServeStep DEF mainVars
<1>2. UnitDoes
  BY ServeDoes
<1>3. CASE Keeps
  BY <1>1, <1>3, EffectStays, NoBridgeStep
<1> SUFFICES ASSUME main.pc = "spin", \/ Transfer = "prepare" /\ OnlyPrepares
                                      \/ Transfer = "erase" /\ Erases
                                      \/ Transfer = "length" /\ Programs
                                      \/ Transfer = "control" /\ Runs
             PROVE  BridgeStep
  BY <1>2, <1>3 DEF UnitDoes
<1>4. CASE Transfer = "prepare" /\ OnlyPrepares
  <2>1. (main.cmd = "format" /\ main.step = 2) \/ (main.cmd = "program" /\ main.step = 4)
    BY <1>4, InTransfer
  <2>2. ~TakenEffect /\ ~TakenEffect'
    BY <1>1, <2>1 DEF TakenEffect
  <2>3. TakenEffect' = TakenEffect
    BY <2>2 DEF TakenEffect
  <2> QED
    BY <1>1, <1>4, <2>3 DEF OnlyPrepares, Sure, BridgeStep, Promise!vars
<1>5. CASE Transfer = "erase" /\ Erases
  <2>1. main.cmd = "format" /\ main.step = 3
    BY <1>5, InTransfer
  <2>2. TakenEffect = FALSE /\ TakenEffect' = TRUE
    BY <1>1, <1>5, <2>1 DEF TakenEffect, Erases
  <2>3. Promise!Erase
    BY <1>1, <1>5, <2>1 DEF Promise!Erase, Erases
  <2>4. Promise!TakeEffect
    BY <1>1, <2>2, <2>3 DEF Promise!TakeEffect
  <2> QED
    BY <1>1, <2>4 DEF Sure, BridgeStep, Promise!Next
<1>6. CASE Transfer = "length" /\ Programs
  <2>1. main.cmd = "program" /\ main.step = 7
    BY <1>6, InTransfer
  <2>2. TakenEffect = FALSE /\ TakenEffect' = TRUE
    BY <1>1, <1>6, <2>1 DEF TakenEffect, Programs
  <2>3. number \in 1 .. MaxFrames /\ ispPage \in 0 .. MaxFrames /\ target.flash \in [0 .. MaxFrames -> Data]
    <3>1. number \in 0 .. MaxFrames /\ ispPage \in 0 .. number /\ ispPage < number
      BY DEF SdoTyped, InCommand
    <3>2. target.flash \in [0 .. MaxFrames -> Data]
      BY DEF SdoTyped, Target
    <3> QED
      BY <3>1, <3>2, SegmentsAssumption
  <2>4. target'.flash = [target.flash EXCEPT ![ispPage] = Copied(@, Whole(number))]
    BY <1>6 DEF Programs
  <2>5. /\ DOMAIN target'.flash = DOMAIN target.flash
        /\ \A p \in (0 .. MaxFrames) \ {ispPage} : target'.flash[p] = target.flash[p]
        /\ target.flash[ispPage] = Nothing => target'.flash[ispPage] = Whole(number)
    BY <2>3, <2>4 DEF Copied
  <2>6. [n \in 1 .. MaxFrames |-> Whole(n)][number] = Whole(number)
    BY <2>3
  <2>7. Promise!Write
    BY <1>1, <1>6, <2>1, <2>5, <2>6 DEF Promise!Write, Programs
  <2>8. Promise!TakeEffect
    BY <1>1, <2>2, <2>7 DEF Promise!TakeEffect
  <2> QED
    BY <1>1, <2>8 DEF Sure, BridgeStep, Promise!Next
<1>7. CASE Transfer = "control" /\ Runs
  <2>1. main.cmd = "go" /\ main.step = 6
    BY <1>7, InTransfer
  <2>2. Whole(number)' = Whole(number)
    BY <1>1 DEF Whole
  <2>3. TakenEffect' = TRUE /\ TakenEffect = (target.ran = Whole(number))
    BY <1>1, <1>7, <2>1, <2>2 DEF TakenEffect, Runs
  <2>4. CASE target.ran = Whole(number)
    BY <1>1, <1>7, <2>3, <2>4, NoBridgeStep DEF Keeps, Runs
  <2>5. CASE target.ran # Whole(number)
    <3>1. number \in 1 .. MaxFrames
      BY SegmentsAssumption DEF SdoTyped, InCommand
    <3>2. [n \in 1 .. MaxFrames |-> Whole(n)][number] = Whole(number)
      BY <3>1
    <3>3. Promise!Run
      BY <1>1, <1>7, <2>1, <3>2 DEF Promise!Run, Runs
    <3>4. Promise!TakeEffect
      BY <1>1, <2>3, <2>5, <3>3 DEF Promise!TakeEffect
    <3> QED
      BY <1>1, <3>4 DEF Sure, BridgeStep, Promise!Next
  <2> QED
    BY <2>4, <2>5
<1> QED
  BY <1>4, <1>5, <1>6, <1>7

LEMMA BridgeTakes ==
  ASSUME SdoTyped, InCommand, InHand, Sure, Sure', NEW cmd \in DOMAIN Transfers, Begin(cmd)
  PROVE  BridgeStep
<1>1. /\ main.pc = "idle" /\ number' = number + 1 /\ number \in Nat
      /\ main' = [pc |-> "transfer", cmd |-> cmd, step |-> 1, fail |-> 0]
      /\ reply' = [cmd |-> "none", ok |-> FALSE]
      /\ UNCHANGED <<ispPage, target, lates, skipped>>
  BY DEF Begin, SdoTyped
<1>2. cmd \in {"find", "format", "program", "go"}
  BY Scripts
<1>3. target.ran # Whole(number')
  BY <1>1 DEF InHand
<1>4. TakenEffect' = (cmd = "find")
  <2>1. main'.pc # "idle" /\ main'.cmd = cmd /\ main'.step = 1
    BY <1>1
  <2>2. Whole(number)' = Whole(number')
    BY DEF Whole
  <2>3. target' = target /\ target'.ran # Whole(number')
    BY <1>1, <1>3
  <2>4. TakenEffect' <=> cmd = "find"
    BY <1>2, <2>1, <2>2, <2>3 DEF TakenEffect
  <2> QED
    BY <2>4 DEF TakenEffect
<1>5. Promise!Begin(cmd)
  BY <1>1, <1>2, <1>4 DEF Promise!Begin
<1> QED
  BY <1>1, <1>2, <1>5 DEF Sure, BridgeStep, Promise!Next

LEMMA BridgeAnswers ==
  ASSUME SdoTyped, InCommand, Sure, Sure', main.pc # "idle",
         NEW ok \in BOOLEAN, Finish(ok), ok => TakenEffect, Keeps, number' = number
  PROVE  BridgeStep
<1>1. main.cmd \in {"find", "format", "program", "go"} /\ main'.pc = "idle" /\ reply' = [cmd |-> main.cmd, ok |-> ok]
  BY Finishes DEF Finish, SdoTyped, Main
<1>2. TakenEffect' = FALSE
  BY <1>1 DEF TakenEffect
<1>3. ispPage' = CASE ok /\ main.cmd \in {"find", "format"} -> 0
                   [] ok /\ main.cmd = "program" -> ispPage + 1
                   [] OTHER -> ispPage
  BY DEF Finish
<1>4. Promise!Answer(ok)
  BY <1>1, <1>2, <1>3 DEF Promise!Answer, Keeps
<1> QED
  BY <1>4 DEF Sure, BridgeStep, Promise!Next

(* The end of a transfer is the next one, another try, or the answer.      *)
LEMMA BridgeEnds ==
  ASSUME SdoTyped, InCommand, Answered, InHand, Sure, Sure', TransferEnds
  PROVE  BridgeStep
<1>1. /\ main.pc = "spin" /\ UNCHANGED <<target, number, lates, skipped>>
      /\ \/ TransferFails
         \/ NextTransfer /\ SDOC_State = (IF Transfer = "start" THEN "Seg_Write_OK" ELSE "Succes")
  BY DEF TransferEnds
<1>2. Keeps /\ main.cmd \in {"find", "format", "program", "go"} /\ main.step \in 1 .. 7
  BY <1>1, InTransfer DEF Keeps
<1>3. CASE TransferFails
  <2>1. CASE main.fail + 1 < SdoTries
    <3>1. main'.pc = "transfer" /\ main'.cmd = main.cmd /\ main'.step = main.step
          /\ reply' = reply /\ ispPage' = ispPage
      BY <1>3, <2>1 DEF TransferFails, SdoTyped, Main
    <3>2. TakenEffect' <=> TakenEffect
      BY <1>1, <3>1 DEF TakenEffect, Whole
    <3> QED
      BY <1>1, <1>2, <3>1, <3>2, NoBridgeStep
  <2>2. CASE ~(main.fail + 1 < SdoTries)
    <3>1. Finish(FALSE)
      BY <1>3, <2>2 DEF TransferFails
    <3> QED
      BY <1>1, <1>2, <3>1, BridgeAnswers
  <2> QED
    BY <2>1, <2>2
<1>4. CASE NextTransfer /\ SDOC_State = (IF Transfer = "start" THEN "Seg_Write_OK" ELSE "Succes")
  <2>1. Transfer = "prepare" => target.prepared
    BY <1>1, <1>4 DEF InHand, Accepted
  <2>2. Transfer \in {"erase", "length"} => ~target.prepared
    BY <1>1, <1>4 DEF InHand, Accepted
  <2>3. CASE main.step < Len(Transfers[main.cmd])
    <3>1. /\ main'.cmd = main.cmd /\ main'.step = main.step + 1 /\ main'.pc # "idle"
          /\ reply' = reply /\ ispPage' = ispPage
      BY <1>4, <2>3 DEF NextTransfer, SdoTyped, Main
    <3>2. main.cmd # "find"
      <4> SUFFICES ASSUME main.cmd = "find" PROVE FALSE
        OBVIOUS
      <4>1. Len(Transfers[main.cmd]) = 1
        BY Scripts
      <4> QED
        BY <1>2, <2>3, <4>1
    <3>3. CASE main.cmd = "format"
      <4>1. main.step \in {1, 2}
        <5>1. Len(Transfers[main.cmd]) = 3
          BY <3>3, Scripts
        <5> QED
          BY <1>2, <2>3, <5>1
      <4>2. main.step = 2 => target.prepared
        BY <1>1, <2>1, <3>3, InTransfer
      <4>3. ~TakenEffect /\ ~TakenEffect'
        BY <1>1, <3>1, <3>3, <4>1, <4>2 DEF TakenEffect
      <4> QED
        BY <1>1, <1>2, <3>1, <4>3, NoBridgeStep
    <3>4. CASE main.cmd = "program"
      <4>1. main.step # 7
        <5>1. Len(Transfers[main.cmd]) = 7
          BY <3>4, Scripts
        <5> QED
          BY <1>2, <2>3, <5>1
      <4>2. main.step = 6 => target.prepared
        BY <1>1, <3>4 DEF InHand
      <4>3. ~TakenEffect /\ ~TakenEffect'
        BY <1>1, <1>2, <3>1, <3>4, <4>1, <4>2 DEF TakenEffect
      <4> QED
        BY <1>1, <1>2, <3>1, <4>3, NoBridgeStep
    <3>5. CASE main.cmd = "go"
      <4>1. TakenEffect' <=> TakenEffect
        BY <1>1, <3>1, <3>5 DEF TakenEffect, Whole
      <4> QED
        BY <1>1, <1>2, <3>1, <4>1, NoBridgeStep
    <3> QED
      BY <1>2, <3>2, <3>3, <3>4, <3>5
  <2>4. CASE ~(main.step < Len(Transfers[main.cmd]))
    <3>1. Finish(TRUE)
      BY <2>4, <1>4 DEF NextTransfer
    <3>2. main.step = Len(Transfers[main.cmd])
      <4>1. main'.pc = "idle"
        BY <1>1, <3>1, Finishes
      <4> QED
        BY <1>1, <1>4, <4>1, NextTransferGives
    <3>3. TakenEffect
      <4>1. CASE main.cmd = "find"
        BY <1>1, <4>1 DEF TakenEffect
      <4>2. CASE main.cmd = "format"
        <5>1. main.step = 3
          BY <3>2, <4>2, Scripts
        <5>2. Transfer = "erase"
          BY <1>1, <4>2, <5>1, InTransfer
        <5> QED
          BY <1>1, <2>2, <4>2, <5>1, <5>2 DEF TakenEffect
      <4>3. CASE main.cmd = "program"
        <5>1. main.step = 7
          BY <3>2, <4>3, Scripts
        <5>2. Transfer = "length"
          BY <1>1, <4>3, <5>1, InTransfer
        <5> QED
          BY <1>1, <2>2, <4>3, <5>1, <5>2 DEF TakenEffect
      <4>4. CASE main.cmd = "go"
        <5>1. main.step = 6
          BY <3>2, <4>4, Scripts
        <5>2. Transfer = "control"
          BY <1>1, <4>4, <5>1, InTransfer
        <5>3. target.ran = Whole(number)
          BY <1>1, <1>4, <5>2 DEF Answered, HasDone
        <5> QED
          BY <1>1, <4>4, <5>3 DEF TakenEffect
      <4> QED
        BY <1>2, <4>1, <4>2, <4>3, <4>4
    <3> QED
      BY <1>1, <1>2, <3>1, <3>3, BridgeAnswers
  <2> QED
    BY <2>3, <2>4
<1> QED
  BY <1>1, <1>3, <1>4

LEMMA BridgeLoops ==
  ASSUME SdoTyped, InCommand, Sure, Sure', StartTransfer \/ SegmentDown \/ Repeat \/ RepeatEnds
  PROVE  BridgeStep
<1>1. CASE StartTransfer
  <2>1. /\ main.pc = "transfer" /\ main'.pc = "spin" /\ main'.cmd = main.cmd /\ main'.step = main.step
        /\ UNCHANGED <<target, ispPage, number, reply>>
    BY <1>1, StartStep DEF StartTransfer
  <2>2. TakenEffect' <=> TakenEffect
    BY <2>1 DEF TakenEffect, Whole
  <2> QED
    BY <2>1, <2>2, NoBridgeStep DEF Keeps
<1>2. CASE SegmentDown
  <2>1. main.pc = "segments" /\ main.cmd \in {"program", "go"} /\ main.step = 3 /\ UNCHANGED <<target, number>>
    BY <1>2 DEF SegmentDown, InCommand
  <2>2. main'.pc # "idle" /\ main'.cmd = main.cmd /\ main'.step \in {3, 4} /\ reply' = reply /\ ispPage' = ispPage
    <3>1. CASE NextSegment # Segments
      BY <1>2, <2>1, <3>1 DEF SegmentDown
    <3>2. CASE NextSegment = Segments
      <4>1. NextTransfer /\ main.step < Len(Transfers[main.cmd])
        BY <1>2, <2>1, <3>2, Scripts DEF SegmentDown
      <4>2. reply' = reply /\ ispPage' = ispPage
        BY <4>1 DEF NextTransfer
      <4> QED
        BY <1>2, <3>2, <4>2, DownGives
    <3> QED
      BY <3>1, <3>2
  <2>3. TakenEffect' <=> TakenEffect
    BY <2>1, <2>2 DEF TakenEffect, Whole
  <2> QED
    BY <2>1, <2>2, <2>3, NoBridgeStep DEF Keeps
<1>3. CASE Repeat
  <2>1. /\ main.pc # "idle" /\ main'.pc # "idle" /\ main'.cmd = main.cmd /\ main'.step = main.step
        /\ UNCHANGED <<target, ispPage, number, reply>>
    BY <1>3 DEF Repeat, SdoTyped, Main
  <2>2. TakenEffect' <=> TakenEffect
    BY <2>1 DEF TakenEffect, Whole
  <2> QED
    BY <2>1, <2>2, NoBridgeStep DEF Keeps
<1>4. CASE RepeatEnds
  <2>1. main.pc = "repeat" /\ UNCHANGED <<target, number>>
    BY <1>4 DEF RepeatEnds
  <2>2. CASE Finish(FALSE)
    BY <2>1, <2>2, BridgeAnswers DEF Keeps
  <2>3. CASE main' = [main EXCEPT !.pc = "segments"] /\ UNCHANGED <<reply, ispPage>>
    <3>1. main'.pc = "segments" /\ main'.cmd = main.cmd /\ main'.step = main.step
      BY <2>3 DEF SdoTyped, Main
    <3>2. TakenEffect' <=> TakenEffect
      BY <2>1, <3>1 DEF TakenEffect, Whole
    <3> QED
      BY <2>1, <2>3, <3>1, <3>2, NoBridgeStep DEF Keeps
  <2> QED
    BY <1>4, <2>2, <2>3 DEF RepeatEnds
<1> QED
  BY <1>1, <1>2, <1>3, <1>4

LEMMA PromiseStep == BridgeInv /\ [SdoNext]_sdoVars => BridgeStep
<1> SUFFICES ASSUME BridgeInv, [SdoNext]_sdoVars PROVE BridgeStep
  OBVIOUS
<1>1. SdoTyped /\ InCommand /\ SdoTyped'
  BY SdoStays DEF BridgeInv, SdoInv
<1>2. CASE ~Sure'
  BY <1>2 DEF Sure, BridgeStep, Promise!Next
<1>3. CASE Sure'
  <2>1. Sure
    BY <1>1, <1>3, OnRecord DEF Sure, SdoTyped
  <2>2. OnBus /\ Answered /\ Prepared /\ InStep /\ InHand
    BY <2>1 DEF BridgeInv, SdoInv, Undisturbed, Sure
  <2>3. CASE Receive \/ TimeOut \/ Drop \/ SwitchOff \/ UNCHANGED sdoVars
    <3>1. UNCHANGED <<main, reply, number, ispPage>>
      BY <1>1, <2>3, ReceiveStep, TimeOutStep, DropStep, SwitchStep DEF mainVars, sdoVars
    <3>2. CASE ~Serve
      <4>1. Keeps
        BY <1>1, <3>2, UnitKeeps
      <4> QED
        BY <1>3, <2>1, <3>1, <4>1, EffectStays, NoBridgeStep
    <3>3. CASE Serve
      BY <1>1, <1>3, <2>1, <2>2, <3>3, BridgeServes
    <3> QED
      BY <3>2, <3>3
  <2> QED
    BY <1>1, <1>3, <2>1, <2>2, <2>3, BridgeServes, BridgeTakes, BridgeEnds, BridgeLoops
    DEF SdoNext, MainLoop
<1> QED
  BY <1>2, <1>3

LEMMA PromiseBegins == SdoInit => Promise!Init
<1> SUFFICES ASSUME SdoInit PROVE Promise!Init
  OBVIOUS
<1>1. main.pc = "idle" /\ reply.cmd = "none" /\ number = 0 /\ ispPage = 0 /\ lates = 0 /\ ~skipped
      /\ target.flash = [p \in 0 .. MaxFrames |-> Nothing] /\ target.ran = Nothing
  BY DEF SdoInit
<1>2. TakenEffect = FALSE
  BY <1>1 DEF TakenEffect
<1> QED
  BY <1>1, <1>2 DEF Promise!Init

(* A command takes effect at most once, whole and at its place, and is     *)
(* reported as done only after that, whatever requests and answers are     *)
(* lost and repeated: the transfers implement BridgeService.               *)
THEOREM PromiseCorrect == SdoSpec => PromiseKept
<1>1. SdoSpec => []BridgeInv
  BY BridgeBegins, BridgeStays, PTL DEF SdoSpec
<1>2. []BridgeInv /\ [][SdoNext]_sdoVars => [][Promise!Next]_(Promise!vars)
  BY PromiseStep, PTL DEF BridgeStep
<1> QED
  BY <1>1, <1>2, PromiseBegins, PTL DEF SdoSpec, PromiseKept, Promise!Spec
=============================================================================
