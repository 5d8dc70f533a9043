------------------------------- MODULE UartLine -------------------------------
(***************************************************************************)
(* The configuration line of the controller as it receives: the DMA writes  *)
(* the bytes that come into a buffer, at its end an interrupt restarts it   *)
(* (USART_STM32F4xx.c, ConfigComm::UARTCallback), and a thread follows it   *)
(* with head and tail (UartComm.cpp) and parses the bytes (ConfigComm.cpp). *)
(* The interrupt may come between any two accesses of the thread to tail,   *)
(* or to the counter of the DMA, but not later than the next byte; the      *)
(* thread may be away for any time.                                         *)
(*                                                                          *)
(* A byte is a number below 8. There are short commands, and commands of    *)
(* files, with a length of one byte here and a sum.                         *)
(***************************************************************************)
EXTENDS Sequences, CheckSum

CONSTANTS
  bufferSize,     \* bytes of the buffer (0x400 in the code)
  Requests,       \* what the PC sends: [file |-> BOOLEAN, data |-> bytes]
  MaxRequestsIn   \* bound

LineHeader0 == 7
LineHeader1 == 4   \* then a short command
LineHeader3 == 6   \* then a command of a file

ASSUME LineAssumption ==
  /\ bufferSize \in Nat /\ bufferSize > 1 /\ MaxRequestsIn \in Nat
  /\ Requests \subseteq [file: BOOLEAN, data: Seq(0 .. 7)]
  /\ \A r \in Requests : Len(r.data) <= 7

VARIABLES
  sent,          \* bytes the PC has sent; those after number are under way
  buffer,        \* the buffer, a byte with its number in each place
  received,      \* bytes the DMA has put since it was started: rx_num less its counter
  dmaDone,       \* the interrupt of its end is pending
  head, tail,
  comm,          \* where DataReceiver is, and the count it has read
  line,          \* the state of DataProcess, with what it handed on
  requestsIn,    \* bound
  \* history
  number,        \* bytes that have come
  takenTo,       \* number of the last byte DataProcess was given
  lapped,        \* the DMA has written over a byte the thread had not taken
  asked          \* requests whose last byte was given to DataProcess

lineVars == <<sent, buffer, received, dmaDone, head, tail, comm, line, requestsIn,
              number, takenTo, lapped, asked>>

(* The command is a byte the data does not depend on.                       *)
Body(r) ==
  <<LineHeader0, IF r.file THEN LineHeader3 ELSE LineHeader1, 1, Len(r.data)>> \o r.data
Encoded(r) == IF r.file THEN Append(Body(r), SumOf(Body(r))) ELSE Body(r)

(* Of which request a byte is, and the how manieth.                         *)
BytesOf(r) ==
  [i \in 1 .. Len(Encoded(r)) |-> [byte |-> Encoded(r)[i], request |-> r, at |-> i]]
Ends(b) == b.at = Len(Encoded(b.request))

LineInit ==
  /\ sent = <<>>
  /\ buffer = [i \in 0 .. bufferSize - 1 |-> [byte |-> 0, number |-> 0]]
  /\ received = 0 /\ dmaDone = FALSE
  /\ head = 0 /\ tail = 0
  /\ comm = [pc |-> "idle", count |-> 0]
  /\ line = [dataState |-> "Delimiter1", file |-> FALSE, left |-> 0, data |-> <<>>, sum |-> 0,
             handed |-> <<>>]
  /\ requestsIn = 0 /\ number = 0 /\ takenTo = 0 /\ lapped = FALSE /\ asked = <<>>

----------------------------------------------------------------------------
(* The PC, the line and the DMA.                                            *)

PcSends(r) ==
  /\ requestsIn < MaxRequestsIn /\ requestsIn' = requestsIn + 1
  /\ sent' = sent \o BytesOf(r)
  /\ UNCHANGED <<buffer, received, dmaDone, head, tail, comm, line, number, takenTo, lapped,
                 asked>>

ByteComes ==
  /\ number < Len(sent) /\ number' = number + 1 /\ ~dmaDone
  /\ buffer' = [buffer EXCEPT ![received] = [byte |-> sent[number + 1].byte, number |-> number + 1]]
  /\ lapped' = (lapped \/ buffer[received].number > takenTo)
  /\ received' = received + 1 /\ dmaDone' = (received + 1 = bufferSize)
  /\ UNCHANGED <<sent, head, tail, comm, line, requestsIn, takenTo, asked>>

(* USART_RX_DMA_Complete and UARTCallback: tail = 0, Receive anew.          *)
RX_DMA_Complete ==
  /\ dmaDone
  /\ tail' = 0 /\ received' = 0 /\ dmaDone' = FALSE
  /\ UNCHANGED <<sent, buffer, head, comm, line, requestsIn, number, takenTo, lapped, asked>>

----------------------------------------------------------------------------
(* DataReceiver. The threads never see rx_busy FALSE: the interrupt sets it *)
(* again.                                                                   *)
fromLine == <<sent, buffer, received, dmaDone, requestsIn, number, lapped>>

GetRxCount ==
  /\ comm.pc = "idle"
  /\ comm' = [pc |-> "store", count |-> received]
  /\ UNCHANGED <<fromLine, head, tail, line, takenTo, asked>>

StoreTail ==
  /\ comm.pc = "store"
  /\ tail' = comm.count /\ comm' = [pc |-> "test", count |-> 0]
  /\ UNCHANGED <<fromLine, head, line, takenTo, asked>>

(* Faulty variant: a full buffer is not waited with.                        *)
TestNothing ==
  /\ comm.pc = "test"
  /\ comm' = [comm EXCEPT !.pc = "loop"]
  /\ UNCHANGED <<fromLine, head, tail, line, takenTo, asked>>

(* "wait for next read to avoid misjudgment": tail is read again.           *)
TestTail ==
  /\ comm.pc = "test"
  /\ comm' = [comm EXCEPT !.pc = IF tail = bufferSize THEN "idle" ELSE "loop"]
  /\ UNCHANGED <<fromLine, head, tail, line, takenTo, asked>>

NothingLeft ==
  /\ comm.pc = "loop" /\ head = tail
  /\ comm' = [comm EXCEPT !.pc = "idle"]
  /\ UNCHANGED <<fromLine, head, tail, line, takenTo, asked>>

(* DataProcess of ConfigComm, a byte.                                       *)
Handed(l, ok) ==
  [l EXCEPT !.dataState = "Delimiter1", !.data = <<>>, !.left = 0, !.sum = 0,
            !.handed = IF ok THEN Append(@, [file |-> l.file, data |-> l.data]) ELSE @]

DataProcess(l, b) ==
  CASE l.dataState = "Delimiter1" ->
         IF b = LineHeader0 THEN [l EXCEPT !.dataState = "Delimiter2"] ELSE l
    [] l.dataState = "Delimiter2" ->
         IF b \in {LineHeader1, LineHeader3}
         THEN [l EXCEPT !.dataState = "Command", !.file = (b = LineHeader3),
                        !.sum = (LineHeader0 + b) % 8]
         ELSE [l EXCEPT !.dataState = "Delimiter1"]
    [] l.dataState = "Command" -> [l EXCEPT !.dataState = "Length", !.sum = (@ + b) % 8]
    [] l.dataState = "Length" ->
         LET m == [l EXCEPT !.left = b, !.sum = (@ + b) % 8] IN
         IF b > 0 THEN [m EXCEPT !.dataState = "Data"]
         ELSE IF l.file THEN [m EXCEPT !.dataState = "Checksum"] ELSE Handed(m, TRUE)
    [] l.dataState = "Data" ->
         LET m == [l EXCEPT !.data = Append(@, b), !.left = @ - 1, !.sum = (@ + b) % 8] IN
         IF m.left > 0 THEN m
         ELSE IF l.file THEN [m EXCEPT !.dataState = "Checksum"] ELSE Handed(m, TRUE)
    [] l.dataState = "Checksum" -> Handed(l, b = l.sum)

ProcessByte ==
  /\ comm.pc = "loop" /\ head # tail
  /\ line' = DataProcess(line, buffer[head].byte)
  /\ takenTo' = buffer[head].number
  /\ asked' = IF takenTo' > 0 /\ Ends(sent[takenTo']) THEN Append(asked, sent[takenTo'].request)
                                                    ELSE asked
  /\ head' = (head + 1) % bufferSize
  /\ UNCHANGED <<fromLine, tail, comm>>

LineNext ==
  \/ \E r \in Requests : PcSends(r)
  \/ ByteComes \/ RX_DMA_Complete
  \/ GetRxCount \/ StoreTail \/ TestTail \/ NothingLeft \/ ProcessByte

LineSpec == LineInit /\ [][LineNext]_lineVars

----------------------------------------------------------------------------
LineTypeOK ==
  /\ received \in 0 .. bufferSize /\ dmaDone = (received = bufferSize)
  /\ head \in 0 .. bufferSize - 1 /\ tail \in 0 .. bufferSize
  /\ comm.pc \in {"idle", "store", "test", "loop"} /\ comm.count \in 0 .. bufferSize
  /\ line.left \in 0 .. 7 /\ line.sum \in 0 .. 7

(* Unless the DMA has overtaken the thread, the commands handed on are      *)
(* those that came, in order, each once, wherever in the buffer its end     *)
(* falls and whenever the interrupt moves tail under the thread. (A whole   *)
(* buffer that waits when the interrupt comes is taken for none: then the   *)
(* next byte is written over the first.)                                    *)
LineHanded == ~lapped => line.handed = asked
=============================================================================
