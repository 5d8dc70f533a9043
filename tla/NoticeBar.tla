------------------------------ MODULE NoticeBar ------------------------------
(***************************************************************************)
(* The notice bar of a unit's display (NoticeLogic.cpp): green while the   *)
(* controller guides a user to the unit, yellow or red while a sensor is   *)
(* overloaded or fails, half and half when both are the case. NoticeUpdate *)
(* is called by the main loop for the sensors (PrepareData) and by the CAN *)
(* interrupt for the guide (OP_NOTICE), also in the middle of the other.   *)
(* The timer interrupt draws the text above the bar; the main loop also    *)
(* turns the display on and off. The two interrupts do not nest.           *)
(*                                                                         *)
(* The display is external: it fills a region with the background last     *)
(* set. All commands are put together in one buffer and leave through one  *)
(* UART, so an interrupt that draws while the main loop sends a command    *)
(* may leave any colour behind, in the background and in the bar.          *)
(***************************************************************************)
EXTENDS Integers

CONSTANT MaxNotices   \* bound: calls of NoticeUpdate

ASSUME NoticeAssumption == MaxNotices \in Nat

Halves == {"left", "right"}
Exceptions == {"yellow", "red"}
Colors == Exceptions \cup {"green", "clear", "other"}   \* "other": of a text, or garbled

VARIABLES
  currentState, exColor,  \* of NoticeLogic; "clear" for an exColor of 0
  noticePc,               \* what the main loop does with the bar or the display
  command,                \* its argument: an exColor, or "clear"
  region, color,          \* the arguments of DrawNoticeBar
  background, bar,        \* of the display
  lit,                    \* state of DisplayOnOff
  disturbed,              \* history: an interrupt drew since the call began
  unsure,                 \* history: halves drawn only in calls so disturbed since
  notices                 \* bound: calls

noticeVars == <<currentState, exColor, noticePc, command, region, color, background, bar,
                lit, disturbed, unsure, notices>>

(* Where the main loop sends a command to the display.                     *)
Drawing == {"color", "fill", "reset", "power"}

NoticeTypeOK ==
  /\ currentState \in BOOLEAN /\ exColor \in Exceptions \cup {"clear"}
  /\ noticePc \in {"idle", "choose", "forget"} \cup Drawing
  /\ command \in Exceptions \cup {"clear"}
  /\ region \subseteq Halves /\ color \in Colors
  /\ background \in Colors /\ bar \in [Halves -> Colors]
  /\ lit \in BOOLEAN /\ disturbed \in BOOLEAN /\ unsure \subseteq Halves /\ notices \in 0 .. MaxNotices

NoticeInit ==
  /\ currentState = FALSE /\ exColor = "clear"
  /\ noticePc = "idle" /\ command = "clear" /\ region = Halves /\ color = "clear"
  /\ background = "clear" /\ bar = [h \in Halves |-> "clear"]
  /\ lit = TRUE /\ disturbed = FALSE /\ unsure = {} /\ notices = 0

Filled(halves, c) == [h \in Halves |-> IF h \in halves THEN c ELSE bar[h]]

(* Commands that got into one another: whatever the display makes of them, *)
(* settled when the last of them, the main loop's, has been sent.          *)
Mixed == background' \in Colors /\ bar' \in [Halves -> Colors]

----------------------------------------------------------------------------
(* The main loop: NOTICE_WARNING, NOTICE_FAILURE and NOTICE_CLEAR_EXCEPTION *)

(* Nothing to do when it is as it was.                                     *)
Update(c) ==
  /\ noticePc = "idle" /\ notices < MaxNotices /\ c # exColor
  /\ notices' = notices + 1
  /\ command' = c /\ disturbed' = FALSE
  /\ exColor' = (IF c = "clear" THEN exColor ELSE c)
  /\ noticePc' = "choose"
  /\ UNCHANGED <<currentState, region, color, background, bar, lit, unsure>>

(* Faulty variant: the exception is drawn over the guide.                  *)
RegionWhole == Halves

Region == IF currentState THEN {"right"} ELSE Halves

(* The look at currentState; DrawNoticeBar is called.                      *)
Choose ==
  /\ noticePc = "choose"
  /\ color' = (IF command # "clear" THEN command ELSE IF currentState THEN "green" ELSE "clear")
  /\ region' = Region
  /\ noticePc' = "color"
  /\ UNCHANGED <<currentState, exColor, command, background, bar, lit, disturbed, unsure,
                 notices>>

SetColor ==
  /\ noticePc = "color"
  /\ \/ background' = color /\ UNCHANGED bar
     \/ disturbed /\ Mixed
  /\ noticePc' = "fill"
  /\ UNCHANGED <<currentState, exColor, command, region, color, lit, disturbed, unsure, notices>>

ClearRegion ==
  /\ noticePc = "fill"
  /\ \/ bar' = Filled(region, background) /\ UNCHANGED background
     \/ disturbed /\ Mixed
  /\ noticePc' = "reset"
  /\ UNCHANGED <<currentState, exColor, command, region, color, lit, disturbed, unsure, notices>>

(* The last line of DrawNoticeBar.                                         *)
ResetColor ==
  /\ noticePc = "reset"
  /\ \/ background' = "clear" /\ UNCHANGED bar
     \/ disturbed /\ Mixed
  /\ noticePc' = "forget"
  /\ UNCHANGED <<currentState, exColor, command, region, color, lit, disturbed, unsure, notices>>

(* NOTICE_CLEAR_EXCEPTION takes exColor back after it has drawn.           *)
Finish ==
  /\ noticePc = "forget"
  /\ exColor' = command
  /\ unsure' = (IF disturbed THEN unsure ELSE unsure \ region)
  /\ noticePc' = "idle"
  /\ UNCHANGED <<currentState, command, region, color, background, bar, lit, disturbed, notices>>

----------------------------------------------------------------------------
(* The main loop turns the display off while nothing is shown on it.       *)

AnyShown == currentState \/ exColor # "clear"

(* The names shown (Processor->AnyShown) are external.                     *)
DisplayOnOff ==
  /\ noticePc = "idle"
  /\ \E any \in BOOLEAN : lit' = (any \/ AnyShown)
  /\ lit' # lit
  /\ noticePc' = "power" /\ disturbed' = FALSE
  /\ UNCHANGED <<currentState, exColor, command, region, color, background, bar, unsure, notices>>

OnOffSent ==
  /\ noticePc = "power"
  /\ \/ UNCHANGED <<background, bar>>
     \/ disturbed /\ Mixed
  /\ noticePc' = "idle"
  /\ UNCHANGED <<currentState, exColor, command, region, color, lit, disturbed, unsure, notices>>

----------------------------------------------------------------------------
(* The interrupts, which the main loop does not break into.                *)

(* DrawNoticeBar in the CAN interrupt.                                     *)
Draw(c, halves) ==
  /\ \/ noticePc \in Drawing /\ UNCHANGED <<background, bar>>   \* Mixed when the command is sent
     \/ noticePc \notin Drawing /\ bar' = Filled(halves, c) /\ background' = "clear"
  /\ \/ noticePc = "idle" /\ unsure' = unsure \ halves /\ UNCHANGED disturbed
     \/ noticePc # "idle" /\ unsure' = Halves /\ disturbed' = TRUE

(* NOTICE_GUIDE.                                                            *)
Guide ==
  /\ ~currentState /\ notices < MaxNotices
  /\ notices' = notices + 1
  /\ Draw("green", IF exColor = "clear" THEN Halves ELSE {"left"})
  /\ currentState' = TRUE
  /\ UNCHANGED <<exColor, noticePc, command, region, color, lit>>

(* NOTICE_CLEAR_INFO.                                                       *)
ClearInfo ==
  /\ currentState /\ notices < MaxNotices
  /\ notices' = notices + 1
  /\ Draw(exColor, IF exColor = "clear" THEN Halves ELSE {"left"})
  /\ currentState' = FALSE
  /\ UNCHANGED <<exColor, noticePc, command, region, color, lit>>

(* The timer interrupt: the text, which may end in a colour of its own.    *)
UpdateDisplay ==
  /\ \/ /\ noticePc \in Drawing   \* Mixed when the command is sent
        /\ disturbed' = TRUE /\ unsure' = Halves /\ UNCHANGED background
     \/ /\ noticePc \notin Drawing
        /\ background' \in Colors /\ UNCHANGED <<disturbed, unsure>>
  /\ UNCHANGED <<currentState, exColor, noticePc, command, region, color, bar, lit, notices>>

NoticeNext ==
  \/ \E c \in Exceptions \cup {"clear"} : Update(c)
  \/ Choose \/ SetColor \/ ClearRegion \/ ResetColor \/ Finish
  \/ DisplayOnOff \/ OnOffSent
  \/ Guide \/ ClearInfo \/ UpdateDisplay

NoticeSpec == NoticeInit /\ [][NoticeNext]_noticeVars

----------------------------------------------------------------------------
Due(h) ==
  CASE currentState /\ (h = "left" \/ exColor = "clear") -> "green"
    [] OTHER -> exColor

(* Between two calls each half of the bar shows what the guide and the     *)
(* exception ask for, in whatever order they came and went, except for a   *)
(* half not drawn anew since an interrupt, of CAN or of the timer, drew in *)
(* the middle of a call of the main loop: such a half stays as it is until *)
(* the next change, for NoticeUpdate does not draw what it believes is     *)
(* there.                                                                  *)
NoticeShown ==
  noticePc = "idle" => \A h \in Halves \ unsure : bar[h] = Due(h)
=============================================================================
