------------------------------- MODULE LineSend -------------------------------
(***************************************************************************)
(* The configuration line of the controller as it sends: an answer of the   *)
(* thread that receives, or a report of the thread that updates units, goes *)
(* out in parts - start, data, sum - each handed to the DMA after waiting   *)
(* that the line has sent the last (ConfigComm::SendFileData, UartComm::    *)
(* Sync, USART_Send). Nothing keeps the threads from sending at once, and   *)
(* nobody looks at what Send returns.                                       *)
(***************************************************************************)
EXTENDS Integers, Sequences, FiniteSets

CONSTANTS
  LineThreads,   \* threads that send
  MaxMessages    \* bound

ASSUME LineThreadsAssumption == IsFiniteSet(LineThreads) /\ MaxMessages \in Nat

VARIABLES
  sender,       \* what each thread sends, and where it is
  send_active,  \* the DMA works
  TC,           \* the line has sent everything
  wire,         \* parts that went out
  messages,     \* messages so far
  alone         \* history: messages during which no other thread was sending

sendVars == <<sender, send_active, TC, wire, messages, alone>>

Parts(data) == IF data THEN <<"pre", "data", "checksum">> ELSE <<"pre", "checksum">>
PartsOf(id, data) == [i \in DOMAIN Parts(data) |-> <<id, Parts(data)[i]>>]

Sent(t) == sender[t].pc = "idle"
NotSending == [pc |-> "idle", id |-> 0, left |-> <<>>]

SendInit ==
  /\ sender = [t \in LineThreads |-> NotSending]
  /\ send_active = FALSE /\ TC = TRUE
  /\ wire = <<>> /\ messages = <<>> /\ alone = {}

SendFileData(t, data) ==
  /\ Sent(t) /\ Len(messages) < MaxMessages
  /\ LET id == Len(messages) + 1
         others == {u \in LineThreads : ~Sent(u)}
     IN /\ messages' = Append(messages, [data |-> data, done |-> FALSE])
        /\ sender' = [sender EXCEPT ![t] = [pc |-> "sync", id |-> id, left |-> Parts(data)]]
        /\ alone' = IF others = {} THEN alone \cup {id}
                    ELSE alone \ {sender[u].id : u \in others}
  /\ UNCHANGED <<send_active, TC, wire>>

(* Faulty variant: it is waited after the last part only.                   *)
SyncLast(t) ==
  /\ sender[t].pc = "sync" /\ (TC \/ sender[t].left # <<>>)
  /\ IF sender[t].left # <<>>
     THEN sender' = [sender EXCEPT ![t].pc = "send"] /\ UNCHANGED messages
     ELSE /\ sender' = [sender EXCEPT ![t] = NotSending]
          /\ messages' = [messages EXCEPT ![sender[t].id].done = TRUE]
  /\ UNCHANGED <<send_active, TC, wire, alone>>

(* while (uart.GetStatus().tx_busy), before each part and after the last.   *)
Sync(t) ==
  /\ sender[t].pc = "sync" /\ TC
  /\ IF sender[t].left # <<>>
     THEN sender' = [sender EXCEPT ![t].pc = "send"] /\ UNCHANGED messages
     ELSE /\ sender' = [sender EXCEPT ![t] = NotSending]
          /\ messages' = [messages EXCEPT ![sender[t].id].done = TRUE]
  /\ UNCHANGED <<send_active, TC, wire, alone>>

(* USART_Send: refused while another part is sent. The DMA clears TC with   *)
(* the first byte.                                                          *)
Send(t) ==
  /\ sender[t].pc = "send"
  /\ sender' = [sender EXCEPT ![t].pc = "sync", ![t].left = Tail(@)]
  /\ \/ send_active /\ UNCHANGED <<send_active, TC, wire>>
     \/ /\ ~send_active
        /\ send_active' = TRUE /\ TC' = FALSE
        /\ wire' = Append(wire, <<sender[t].id, Head(sender[t].left)>>)
  /\ UNCHANGED <<messages, alone>>

(* USART_TX_DMA_Complete, within the time of a byte; then the last byte is  *)
(* out.                                                                     *)
TX_DMA_Complete ==
  /\ send_active /\ send_active' = FALSE
  /\ UNCHANGED <<sender, TC, wire, messages, alone>>

LineIdle ==
  /\ ~send_active /\ ~TC /\ TC' = TRUE
  /\ UNCHANGED <<sender, send_active, wire, messages, alone>>

SendNext ==
  \/ \E t \in LineThreads :
       \/ \E data \in BOOLEAN : SendFileData(t, data)
       \/ Sync(t) \/ Send(t)
  \/ TX_DMA_Complete \/ LineIdle

SendSpec == SendInit /\ [][SendNext]_sendVars

----------------------------------------------------------------------------
SendTypeOK ==
  /\ \A t \in LineThreads :
       /\ sender[t].pc \in {"idle", "sync", "send"}
       /\ sender[t].pc = "send" => sender[t].left # <<>>
  /\ send_active \in BOOLEAN /\ TC \in BOOLEAN
  /\ send_active => ~TC

(* A message that no other thread's came across is on the line whole and in *)
(* one piece, also when those before it were mixed up or lost parts.        *)
SentWhole ==
  \A id \in alone : messages[id].done =>
    LET parts == PartsOf(id, messages[id].data) IN
    \E i \in 0 .. Len(wire) - Len(parts) : SubSeq(wire, i + 1, i + Len(parts)) = parts
=============================================================================
