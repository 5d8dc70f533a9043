------------------------------ MODULE TcpReceive ------------------------------
(***************************************************************************)
(* The receiving half of the controller's connection to the server          *)
(* (iValuableController/TcpClient.cpp): the stack's event puts each piece   *)
(* of the stream it acknowledges into a mail while there are buffers, and   *)
(* drops it when there are none; later, on the same thread, DataReceiver    *)
(* takes one mail and runs its bytes through a parser whose state is kept   *)
(* from call to call, and from connection to connection. The server sends   *)
(* commands in frames - two header bytes, the length, the command, a sum -  *)
(* that TCP cuts as it likes.                                               *)
(*                                                                          *)
(* A byte is a number below 8, and the length one byte.                     *)
(***************************************************************************)
EXTENDS Sequences, CheckSum

CONSTANTS
  Payloads,        \* commands the server sends
  RX_BUFFER_NUM,   \* buffers of the receiving mail queue
  MaxFrames, MaxConnections  \* bounds

DataHeader0 == 5
DataHeader1 == 6

ASSUME PayloadsAssumption ==
  /\ Payloads \subseteq Seq(0 .. 7) /\ \A p \in Payloads : Len(p) \in 1 .. 7
  /\ RX_BUFFER_NUM \in Nat /\ MaxFrames \in Nat /\ MaxConnections \in Nat

VARIABLES
  connected,
  stream,      \* bytes the server has sent that have not come
  rxCount,     \* buffers left: permits of semaphoreRid
  rxMails,     \* mailRid
  parser,      \* the static variables of DataReciever, with what it handed on
  position,    \* history: number of the next byte of the server
  frames, connections  \* bounds

receiveVars == <<connected, stream, rxCount, rxMails, parser, position, frames, connections>>

Frame(payload) ==
  LET body == <<DataHeader0, DataHeader1, Len(payload)>> \o payload IN body \o <<SumOf(body)>>

(* The bytes of a frame, with their numbers, and of which command each is,  *)
(* and the how manieth.                                                     *)
Marked(payload) ==
  [i \in 1 .. Len(Frame(payload)) |->
     [byte |-> Frame(payload)[i], number |-> position + i - 1, payload |-> payload, at |-> i]]
Last(t) == t.at = Len(Frame(t.payload))

ReceiveInit ==
  /\ connected = FALSE /\ stream = <<>>
  /\ rxCount = RX_BUFFER_NUM /\ rxMails = <<>>
  /\ parser = [dataState |-> 0, payloadLen |-> 0, payload |-> <<>>, sumcheck |-> 0,
               last |-> 0, inStep |-> TRUE, handed |-> <<>>, expected |-> <<>>]
  /\ position = 1 /\ frames = 0 /\ connections = 0

----------------------------------------------------------------------------
Connect ==
  /\ ~connected /\ connections < MaxConnections
  /\ connected' = TRUE /\ connections' = connections + 1
  /\ UNCHANGED <<stream, rxCount, rxMails, parser, position, frames>>

(* What is under way is lost; mails and the parser stay as they are.        *)
Disconnect ==
  /\ connected /\ connected' = FALSE
  /\ stream' = <<>> /\ position' = position + 1
  /\ UNCHANGED <<rxCount, rxMails, parser, frames, connections>>

ServerSends(payload) ==
  /\ connected /\ frames < MaxFrames
  /\ stream' = stream \o Marked(payload)
  /\ position' = position + Len(Frame(payload)) /\ frames' = frames + 1
  /\ UNCHANGED <<connected, rxCount, rxMails, parser, connections>>

(* tcpEventData with the next piece of the stream.                          *)
EventData(n) ==
  /\ connected
  /\ stream' = SubSeq(stream, n + 1, Len(stream))
  /\ \/ rxCount > 0 /\ rxCount' = rxCount - 1
        /\ rxMails' = Append(rxMails, SubSeq(stream, 1, n))
     \/ rxCount = 0 /\ UNCHANGED <<rxCount, rxMails>>
  /\ UNCHANGED <<connected, parser, position, frames, connections>>

----------------------------------------------------------------------------
(* DataReciever, a byte.                                                    *)

Header0(p, b) ==
  IF b = DataHeader0 THEN [p EXCEPT !.dataState = 1, !.payloadLen = 0] ELSE p
Header1(p, b) ==
  [p EXCEPT !.sumcheck = (DataHeader0 + DataHeader1) % 8,
            !.dataState = IF b = DataHeader1 THEN 2 ELSE 0]
(* Faulty variant: the payload of the last frame is not taken off.          *)
LengthOnly(p, b) ==
  [p EXCEPT !.sumcheck = (@ + b) % 8, !.payloadLen = b, !.dataState = 3]

Length(p, b) ==
  [p EXCEPT !.sumcheck = (@ + b) % 8, !.payloadLen = b, !.payload = <<>>, !.dataState = 3]

Payload(p, b) ==
  [p EXCEPT !.sumcheck = (@ + b) % 8, !.payload = Append(@, b),
            !.dataState = IF Len(p.payload) + 1 >= p.payloadLen THEN 4 ELSE 3]
Sumcheck(p, b) ==
  [p EXCEPT !.dataState = 0, !.payloadLen = 0,
            !.handed = IF b = p.sumcheck THEN Append(@, p.payload) ELSE @]

(* History: whether the parser stands where the stream does. It comes into  *)
(* step when it waits for a header at the first byte of a frame, and is out *)
(* of it when bytes are missing, unless at the beginning of a frame it      *)
(* waits for one. What counts is what it hands on from there.               *)
Follow(p, t) ==
  LET continues == p.inStep /\ t.number = p.last + 1
      begins == t.at = 1 /\ p.dataState = 0
  IN [p EXCEPT !.inStep = continues \/ begins, !.last = t.number,
               !.handed = IF p.inStep THEN @ ELSE <<>>,
               !.expected = IF ~p.inStep THEN <<>>
                            ELSE IF continues /\ Last(t) THEN Append(@, t.payload) ELSE @]

DataByte(p, t) ==
  LET q == Follow(p, t) IN
  CASE p.dataState = 0 -> Header0(q, t.byte)
    [] p.dataState = 1 -> Header1(q, t.byte)
    [] p.dataState = 2 -> Length(q, t.byte)
    [] p.dataState = 3 -> Payload(q, t.byte)
    [] p.dataState = 4 -> Sumcheck(q, t.byte)

(* The parser after each byte of a piece.                                   *)
Parsed(p, piece) ==
  LET after[n \in 0 .. Len(piece)] == IF n = 0 THEN p ELSE DataByte(after[n - 1], piece[n])
  IN after

(* DataReceiver: the oldest mail, byte by byte, while there is a connection. *)
DataReceiver ==
  /\ connected /\ rxMails # <<>>
  /\ parser' = Parsed(parser, Head(rxMails))[Len(Head(rxMails))]
  /\ rxMails' = Tail(rxMails) /\ rxCount' = rxCount + 1
  /\ UNCHANGED <<connected, stream, position, frames, connections>>

ReceiveNext ==
  \/ Connect \/ Disconnect
  \/ \E payload \in Payloads : ServerSends(payload)
  \/ \E n \in DOMAIN stream : EventData(n)
  \/ DataReceiver

ReceiveSpec == ReceiveInit /\ [][ReceiveNext]_receiveVars

----------------------------------------------------------------------------
ReceiveTypeOK ==
  /\ connected \in BOOLEAN
  /\ rxCount \in 0 .. RX_BUFFER_NUM /\ rxCount + Len(rxMails) = RX_BUFFER_NUM
  /\ parser.dataState \in 0 .. 4 /\ parser.sumcheck \in 0 .. 7 /\ parser.payloadLen \in 0 .. 7

(* However TCP cuts the stream, the commands handed on are those the server *)
(* sent, in order, each once; and after pieces were dropped for want of a   *)
(* buffer, or the connection was cut in a frame, they are so again from the *)
(* first frame at whose beginning the parser waits for one.                 *)
CommandsInStep == parser.inStep => parser.handed = parser.expected
=============================================================================
