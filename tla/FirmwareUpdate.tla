---------------------------- MODULE FirmwareUpdate ----------------------------
(***************************************************************************)
(* Programming units over CAN: the controller's update thread (UpdateOne   *)
(* in iValuableController/UnitManager.cpp, ISPProgram.cpp) sends commands  *)
(* over a serial line to a bridge (iValuableISP/main.c), which carries     *)
(* them out on the units in ISP mode by SDO transfers (canonchip.c) and    *)
(* answers. The controller waits for an answer for a limited time only;    *)
(* the bridge itself repeats a transfer whose answer is lost, each time    *)
(* after CANOPEN_TIMEOUT_VAL, which is no shorter than the controller's    *)
(* wait.                                                                   *)
(*                                                                         *)
(* A page of the image is represented by its number, an answer by whether  *)
(* it is an error, the only thing ISPProgram looks at. Left out: the image *)
(* slots in flash, units of different types, LEDs and transceiver.         *)
(***************************************************************************)
EXTENDS Integers, Sequences, FiniteSets

CONSTANTS
  Units,
  NoUnit,
  Pages,        \* pages of the image
  Tries,        \* how often ProgramData sends a page, and the bridge an SDO
  FlashPages,   \* MAX_LPC11C24_FLASH_PAGE_NUMBER
  MsgBox,       \* capacity of the queue MsgId
  MaxWire,      \* page frames that fit into the bridge's UARTBuffer
  MaxUpdates,   \* bound: calls of UpdateOne
  MaxLost       \* bound: SDO transfers that are lost

ASSUME UnitsAssumption == NoUnit \notin Units
ASSUME SizesAssumption ==
  /\ FlashPages \in Nat /\ Pages \in 1 .. FlashPages /\ Tries \in Nat \ {0} /\ MsgBox \in Nat \ {0}
  /\ MaxWire \in Nat \ {0} /\ MaxUpdates \in Nat /\ MaxLost \in Nat

VARIABLES
  ctl,           \* the update thread
  updating,
  updateStatus,  \* of each unit's object
  MsgId,         \* answers not yet taken
  wire,          \* command frames in the bridge's UARTBuffer
  bridge,        \* the bridge's main loop
  page,          \* ispFlashCount.page: where the next page goes
  isp,           \* units in ISP mode
  flash,         \* what each unit's flash holds
  slow,          \* SDO timeouts since the update thread began to wait, as far as they count
  late,          \* history: a wait has run out, or the loss of a segment was not noticed
  bounds         \* bound: updates begun and SDO transfers lost

vars == <<ctl, updating, updateStatus, MsgId, wire, bridge, page, isp, flash, slow, late, bounds>>
unitVars == <<page, isp, flash>>

Commands == {"find", "format", "program", "go"}
ImagePages == 0 .. Pages - 1
Erased == -1
Garbage == -2
Blank == [p \in ImagePages |-> Erased]
Image == [p \in ImagePages |-> p]
Frames == [cmd: Commands, page: ImagePages \cup {Garbage}]
NoFrame == [cmd |-> "find", page |-> 0]

TypeOK ==
  /\ ctl \in [pc: {"idle", "send", "wait", "sync"}, unit: Units \cup {NoUnit},
              cmd: Commands, page: ImagePages, tries: 0 .. Tries]
  /\ updating \in BOOLEAN
  /\ updateStatus \in [Units -> {"Idle", "Updating", "Updated"}]
  /\ MsgId \in Seq({"ok", "error"}) /\ Len(MsgId) <= MsgBox
  /\ wire \in Seq(Frames) /\ Len(wire) <= MaxWire
  /\ bridge \in [pc: {"idle", "busy", "stuck"}, frame: Frames, fail: 0 .. Tries]
  /\ page \in Nat
  /\ isp \in SUBSET Units
  /\ flash \in [Units -> [ImagePages -> ImagePages \cup {Erased, Garbage}]]
  /\ slow \in Nat
  /\ late \in BOOLEAN
  /\ bounds \in [updates: 0 .. MaxUpdates, lost: 0 .. MaxLost]

Init ==
  /\ ctl = [pc |-> "idle", unit |-> NoUnit, cmd |-> "find", page |-> 0, tries |-> 0]
  /\ updating = FALSE
  /\ updateStatus = [u \in Units |-> "Idle"]
  /\ MsgId = <<>> /\ wire = <<>>
  /\ bridge = [pc |-> "idle", frame |-> NoFrame, fail |-> 0]
  /\ page = 0 /\ isp = {}
  /\ flash \in [Units -> {Blank, Image}]
  /\ slow = 0 /\ late = FALSE
  /\ bounds = [updates |-> 0, lost |-> 0]

----------------------------------------------------------------------------
(* The update thread.                                                      *)

Command(cmd, p, tries) ==
  ctl' = [ctl EXCEPT !.pc = "send", !.cmd = cmd, !.page = p, !.tries = tries]

(* UpdateOne, for one unit or as the next of several: EnterCanISP. The     *)
(* frame that takes the unit to ISP mode may be lost.                      *)
UpdateOne(u) ==
  /\ ctl.pc = "idle" /\ bounds.updates < MaxUpdates
  /\ bounds' = [bounds EXCEPT !.updates = @ + 1]
  /\ updating' = TRUE
  /\ updateStatus' = [updateStatus EXCEPT ![u] = "Updating"]
  /\ isp' \in {isp, isp \cup {u}}
  /\ ctl' = [pc |-> "send", unit |-> u, cmd |-> "find", page |-> 0, tries |-> 1]
  /\ UNCHANGED <<MsgId, wire, bridge, page, flash, slow, late>>

(* SendData. What the bridge has not read when its ring buffer is full is  *)
(* lost.                                                                   *)
SendCommand ==
  /\ ctl.pc = "send"
  /\ ctl' = [ctl EXCEPT !.pc = "wait"]
  /\ slow' = 0
  /\ wire' = IF Len(wire) < MaxWire THEN Append(wire, [cmd |-> ctl.cmd, page |-> ctl.page])
                                    ELSE <<>>
  /\ UNCHANGED <<updating, updateStatus, MsgId, bridge, unitVars, late, bounds>>

(* Faulty variant: an error leaves updating set.                           *)
GiveUpUpdating ==
  /\ ctl' = [ctl EXCEPT !.pc = "idle"]
  /\ UNCHANGED <<updating, updateStatus>>

GiveUp ==
  /\ ctl' = [ctl EXCEPT !.pc = "idle"]
  /\ updating' = FALSE
  /\ UNCHANGED updateStatus

(* What UpdateOne does when a command has succeeded.                       *)
Proceed ==
  \/ /\ ctl.cmd = "find" /\ Command("format", 0, 1)
     /\ UNCHANGED <<updating, updateStatus>>
  \/ /\ ctl.cmd = "format" /\ Command("program", 0, Tries)
     /\ UNCHANGED <<updating, updateStatus>>
  \/ /\ ctl.cmd = "program" /\ ctl.page < Pages - 1
     /\ Command("program", ctl.page + 1, Tries)
     /\ UNCHANGED <<updating, updateStatus>>
  \/ /\ ctl.cmd = "program" /\ ctl.page = Pages - 1
     /\ Command("go", 0, 1)
     /\ updateStatus' = [updateStatus EXCEPT ![ctl.unit] = "Updated"]
     /\ UNCHANGED updating
  \/ /\ ctl.cmd = "go"
     /\ ctl' = [ctl EXCEPT !.pc = "sync"]
     /\ updating' = FALSE
     /\ UNCHANGED updateStatus

(* osMessageGet returns an answer: to whichever command.                   *)
TakeAnswer ==
  /\ ctl.pc = "wait" /\ MsgId # <<>>
  /\ MsgId' = Tail(MsgId)
  /\ IF Head(MsgId) = "ok" THEN Proceed ELSE GiveUp
  /\ UNCHANGED <<wire, bridge, unitVars, slow, late, bounds>>

(* SDO timeouts that the wait outlasts: Format waits for 500 ms, the other *)
(* commands for 200 ms, and an SDO timeout takes as long.                  *)
MaxPatience == 3
Patience == IF ctl.cmd = "format" THEN MaxPatience ELSE 1
Slower(n) == IF ctl.pc # "wait" \/ slow + n > MaxPatience THEN MaxPatience ELSE slow + n
NoAnswerToCome == bridge.pc = "stuck" \/ (bridge.pc = "idle" /\ wire = <<>>)

(* Faulty variant: ProgramData waits without a timeout.                    *)
ProgramWaitsForEver ==
  /\ ctl.pc = "wait" /\ MsgId = <<>> /\ ctl.cmd # "program"
  /\ slow >= Patience \/ NoAnswerToCome
  /\ late' = TRUE
  /\ GiveUp
  /\ UNCHANGED <<MsgId, wire, bridge, unitVars, slow, bounds>>

(* It times out: ProgramData sends the page again.                         *)
WaitRunsOut ==
  /\ ctl.pc = "wait" /\ MsgId = <<>>
  /\ slow >= Patience \/ NoAnswerToCome
  /\ late' = TRUE
  /\ \/ ctl.tries > 1 /\ Command(ctl.cmd, ctl.page, ctl.tries - 1)
                      /\ UNCHANGED <<updating, updateStatus>>
     \/ ctl.tries <= 1 /\ GiveUp
  /\ UNCHANGED <<MsgId, wire, bridge, unitVars, slow, bounds>>

(* The wait for the restarted unit's heartbeat, after SYNC_LIVE, ends.     *)
SyncEnds ==
  /\ ctl.pc = "sync"
  /\ ctl' = [ctl EXCEPT !.pc = "idle"]
  /\ UNCHANGED <<updating, updateStatus, MsgId, wire, bridge, unitVars, slow, late, bounds>>

UpdateThread == SendCommand \/ TakeAnswer \/ WaitRunsOut \/ SyncEnds

(* HeartbeatArrival of an updated unit: Recover makes a new object for it, *)
(* and SyncUpdate ends the wait, whichever unit it is for.                 *)
Recover(u) ==
  /\ updateStatus[u] = "Updated" /\ u \notin isp
  /\ updateStatus' = [updateStatus EXCEPT ![u] = "Idle"]
  /\ ctl' = IF ctl.pc = "sync" THEN [ctl EXCEPT !.pc = "idle"] ELSE ctl
  /\ UNCHANGED <<updating, MsgId, wire, bridge, unitVars, slow, late, bounds>>

----------------------------------------------------------------------------
(* The bridge.                                                             *)

(* uartReceDataAnalysis reads what has arrived; of several frames it       *)
(* leaves the last for handleUartReceFrame.                                *)
ReadFrame ==
  /\ bridge.pc = "idle" /\ wire # <<>>
  /\ \E n \in 1 .. Len(wire) :
       /\ bridge' = [pc |-> "busy", frame |-> wire[n], fail |-> 0]
       /\ wire' = SubSeq(wire, n + 1, Len(wire))
  /\ UNCHANGED <<ctl, updating, updateStatus, MsgId, unitVars, slow, late, bounds>>

(* Every command has transfers that nobody answers, or that two units      *)
(* answer differently: FindDevice reads the serial number.                 *)
Unanswered ==
  isp = {} \/ (bridge.frame.cmd = "find" /\ Cardinality(isp) > 1)

(* An SDO transfer times out. It is repeated up to Tries times in all;     *)
(* fail counts for the transfer under way, of which all commands but       *)
(* FindDevice have several.                                                *)
TransferTimesOut(fails) ==
  /\ bridge.pc = "busy" /\ bridge.fail < Tries
  /\ \E n \in fails : bridge' = [bridge EXCEPT !.fail = n]
  /\ slow' = Slower(1)
  /\ UNCHANGED <<ctl, updating, updateStatus, MsgId, wire, unitVars, late>>

TransferLost ==
  /\ ~Unanswered /\ bounds.lost < MaxLost
  /\ bounds' = [bounds EXCEPT !.lost = @ + 1]
  /\ TransferTimesOut(IF bridge.frame.cmd = "find" THEN {bridge.fail + 1}
                                                  ELSE {1, bridge.fail + 1})

TransferUnanswered ==
  /\ Unanswered
  /\ TransferTimesOut({bridge.fail + 1})
  /\ UNCHANGED bounds

(* The answer to an erase or a copy is lost: the unit refuses to repeat    *)
(* what it has not been prepared for again.                                *)
TransferRefused ==
  /\ bridge.pc = "busy" /\ bridge.frame.cmd \in {"format", "program"}
  /\ ~Unanswered /\ bounds.lost < MaxLost
  /\ bridge' = [bridge EXCEPT !.fail = Tries]
  /\ slow' = Slower(Tries)
  /\ bounds' = [bounds EXCEPT !.lost = @ + 1]
  /\ UNCHANGED <<ctl, updating, updateStatus, MsgId, wire, unitVars, late>>

Downloads == {"program", "go"}
Hang == [bridge EXCEPT !.pc = "stuck"]

(* A segment of a page, or of the code that restarts the units, is lost:   *)
(* ispSegmentDown goes on with the next one, which the unit rejects, and   *)
(* the loop does not come to the end of the buffer. If only the last one   *)
(* comes next, nobody waits for its answer, and if the next one is lost,   *)
(* too, the toggle fits again: the loop ends all the same.                 *)
SegmentLost ==
  /\ bridge.pc = "busy" /\ bridge.frame.cmd \in Downloads
  /\ ~Unanswered /\ bounds.lost < MaxLost
  /\ bounds' = [bounds EXCEPT !.lost = @ + 1]
  /\ \/ bridge' = Hang /\ UNCHANGED <<slow, late>>
     \/ /\ bridge.frame.cmd = "program"
        /\ bridge' = [bridge EXCEPT !.frame.page = Garbage]
        /\ slow' = Slower(1) /\ late' = TRUE
  /\ UNCHANGED <<ctl, updating, updateStatus, MsgId, wire, unitVars>>

(* The endless loop may end when the repetitions of a segment stay without *)
(* any answer; the message that tells of it has a wrong checksum.          *)
SegmentGivenUp ==
  /\ bridge.pc = "stuck"
  /\ isp = {} \/ bounds.lost < MaxLost
  /\ bridge' = [bridge EXCEPT !.pc = "idle", !.fail = 0]
  /\ UNCHANGED <<ctl, updating, updateStatus, MsgId, wire, unitVars, slow, late, bounds>>

(* Faulty variant: an answer finds room in any case.                       *)
AnswerBeyond(as) ==
  /\ bridge' = [bridge EXCEPT !.pc = "idle", !.fail = 0]
  /\ MsgId' = MsgId \o as

(* uartSendStr; CommandArrival queues what there is room for.              *)
Answer(as) ==
  LET all == MsgId \o as IN
  /\ bridge' = [bridge EXCEPT !.pc = "idle", !.fail = 0]
  /\ MsgId' = IF Len(all) <= MsgBox THEN all ELSE SubSeq(all, 1, MsgBox)

(* Flash that is not blank is not changed to what is written.              *)
Written(old, p) == IF old \in {Erased, p} THEN p ELSE Garbage

Program(u) ==
  IF page \in ImagePages THEN [flash[u] EXCEPT ![page] = Written(@, bridge.frame.page)]
                         ELSE flash[u]

(* Faulty variant: neither FindDevice nor Format resets the page.          *)
EffectPageKept ==
  LET cmd == bridge.frame.cmd IN
  /\ page' = IF cmd = "program" THEN page + 1 ELSE page
  /\ flash' = [u \in Units |->
       IF u \in isp /\ cmd = "format" THEN Blank
       ELSE IF u \in isp /\ cmd = "program" THEN Program(u) ELSE flash[u]]
  /\ isp' = IF cmd = "go" THEN {} ELSE isp

(* What a command that succeeds leaves.                                    *)
Effect ==
  LET cmd == bridge.frame.cmd IN
  \/ cmd = "find" /\ page' = 0 /\ UNCHANGED <<flash, isp>>
  \/ /\ cmd = "format" /\ page' = 0
     /\ flash' = [u \in Units |-> IF u \in isp THEN Blank ELSE flash[u]]
     /\ UNCHANGED isp
  \/ /\ cmd = "program" /\ page' = page + 1
     /\ flash' = [u \in Units |-> IF u \in isp THEN Program(u) ELSE flash[u]]
     /\ UNCHANGED isp
  \/ cmd = "go" /\ isp' = {} /\ UNCHANGED <<page, flash>>

(* A command succeeds. When a page counts beyond the flash, an error       *)
(* follows the answer.                                                     *)
Succeed ==
  /\ bridge.pc = "busy" /\ bridge.fail < Tries /\ ~Unanswered
  /\ Effect
  /\ Answer(IF bridge.frame.cmd = "program" /\ page' > FlashPages THEN <<"ok", "error">>
                                                                 ELSE <<"ok">>)
  /\ UNCHANGED <<ctl, updating, updateStatus, wire, slow, late, bounds>>

(* A transfer has failed Tries times; what it, or the ones before it, have *)
(* done on the flash may be done. Some of the messages that tell of it,    *)
(* all those for "go" among them, have a wrong checksum: DataProcess drops *)
(* them.                                                                   *)
Fail ==
  /\ bridge.pc = "busy" /\ bridge.fail = Tries
  /\ \/ UNCHANGED flash
     \/ /\ bridge.frame.cmd = "format"
        /\ flash' = [u \in Units |-> IF u \in isp THEN Blank ELSE flash[u]]
     \/ /\ bridge.frame.cmd = "program"
        /\ flash' = [u \in Units |-> IF u \in isp THEN Program(u) ELSE flash[u]]
  /\ \/ bridge.frame.cmd # "go" /\ Answer(<<"error">>)
     \/ bridge.frame.cmd \in {"format", "go"} /\ Answer(<<>>)
  /\ UNCHANGED <<ctl, updating, updateStatus, wire, page, isp, slow, late, bounds>>

Bridge == ReadFrame \/ TransferUnanswered \/ Succeed \/ Fail

(* A unit is switched off and on. If it has just answered the start of a   *)
(* download, the first segment is sent for ever.                           *)
UnitRestarts(u) ==
  /\ u \in isp
  /\ isp' = isp \ {u}
  /\ \/ UNCHANGED bridge
     \/ bridge.pc = "busy" /\ bridge.frame.cmd \in Downloads /\ isp' = {} /\ bridge' = Hang
  /\ UNCHANGED <<ctl, updating, updateStatus, MsgId, wire, page, flash, slow, late, bounds>>

----------------------------------------------------------------------------
Next ==
  \/ \E u \in Units : UpdateOne(u) \/ Recover(u) \/ UnitRestarts(u)
  \/ UpdateThread
  \/ Bridge \/ TransferLost \/ TransferRefused \/ SegmentLost \/ SegmentGivenUp

Fairness == WF_vars(UpdateThread) /\ WF_vars(Bridge)

Spec == Init /\ [][Next]_vars
FairSpec == Spec /\ Fairness

----------------------------------------------------------------------------
(* Every command of ISPProgram waits for its answer, so as long as no wait *)
(* has run out (and no segment was lost in a way that nobody notices)      *)
(* there is one command at a time, and each answer is to the command that  *)
(* is waited for: before a unit still in ISP mode is restarted, its flash  *)
(* holds the image (UpdateOne, ProgramData; the page is counted by the     *)
(* bridge, ispFlashCount.page, not sent).                                  *)
CleanMeansImage ==
  ~late /\ ctl.pc = "send" /\ ctl.cmd = "go" /\ ctl.unit \in isp
    => flash[ctl.unit] = Image

(* updating keeps SyncAllData and the heartbeat timer (main.cpp) off the   *)
(* bus: it is set exactly while a command is sent or waited for, whichever *)
(* way UpdateOne ends.                                                     *)
UpdatingWhileSending == updating <=> ctl.pc \in {"send", "wait"}

(* An update that has begun ends, even if the bridge hangs or answers to   *)
(* earlier commands.                                                       *)
UpdateEnds == updating ~> ~updating

(* "Program Completed" (UnitManager.cpp:134): when all pages are           *)
(* acknowledged, the unit's flash holds the image.                         *)
ProgramCompleted ==
  ctl.pc = "send" /\ ctl.cmd = "go" => flash[ctl.unit] = Image
=============================================================================
