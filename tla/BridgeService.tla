---------------------------- MODULE BridgeService ----------------------------
(***************************************************************************)
(* What the bridge promises for the unit in ISP mode (iValuableISP/main.c):*)
(* a command takes effect at most once and while it is under way, a page   *)
(* is written where the last answer left off, whole if there was none, and *)
(* "ok" is the answer only to a command that has taken effect. That is so  *)
(* until something happens that the bridge cannot notice.                  *)
(***************************************************************************)
EXTENDS Integers

CONSTANTS
  Places,    \* for pages in the flash
  Empty,     \* a page that is not written
  Brought    \* what each command brings, by its number

VARIABLES
  sure,      \* nothing has happened that the bridge cannot notice
  command,   \* under way, or "none"
  number,    \* commands so far
  done,      \* it has taken effect
  page,      \* where the next page goes
  flash, ran,  \* the unit: its pages, the code it was restarted with
  told       \* the last answer

vars == <<sure, command, number, done, page, flash, ran, told>>

Init ==
  /\ sure = TRUE /\ command = "none" /\ number = 0 /\ done = FALSE
  /\ page = 0 /\ flash = [p \in Places |-> Empty] /\ ran = Empty
  /\ told = "none"

Begin(cmd) ==
  /\ command = "none" /\ command' = cmd
  /\ number' = number + 1 /\ done' = (cmd = "find") /\ told' = "none"
  /\ UNCHANGED <<page, flash, ran>>

(* The effect of a command. A page that was written is changed somehow.    *)
Erase ==
  /\ command = "format" /\ flash' = [p \in Places |-> Empty]
  /\ UNCHANGED ran

Write ==
  /\ command = "program" /\ DOMAIN flash' = DOMAIN flash
  /\ \A p \in Places \ {page} : flash'[p] = flash[p]
  /\ flash[page] = Empty => flash'[page] = Brought[number]
  /\ UNCHANGED ran

Run == command = "go" /\ ran' = Brought[number] /\ UNCHANGED flash

TakeEffect ==
  /\ ~done /\ done' = TRUE
  /\ Erase \/ Write \/ Run
  /\ UNCHANGED <<command, number, page, told>>

Answer(ok) ==
  /\ command # "none" /\ command' = "none" /\ (ok => done)
  /\ told' = (IF ok THEN "ok" ELSE "failed") /\ done' = FALSE
  /\ page' = CASE ok /\ command \in {"find", "format"} -> 0
               [] ok /\ command = "program" -> page + 1
               [] OTHER -> page
  /\ UNCHANGED <<number, flash, ran>>

(* Once something has happened, nothing is promised any more.               *)
Next ==
  \/ /\ UNCHANGED sure
     /\ \/ \E cmd \in {"find", "format", "program", "go"} : Begin(cmd)
        \/ TakeEffect
        \/ \E ok \in BOOLEAN : Answer(ok)
  \/ ~sure'

Spec == Init /\ [][Next]_vars
=============================================================================
