------------------------------ MODULE TcpClient ------------------------------
(***************************************************************************)
(* The controller's connection to the server (iValuableController/         *)
(* TcpClient.cpp), its sending half: any thread may call SendData, which   *)
(* puts the segments of a message into a mail queue of TCP_BUFFER_NUM      *)
(* buffers guarded by a semaphore; the net thread, which alone runs the    *)
(* TCP stack (net_main), sends them. When no buffer is to be had, the      *)
(* caller itself empties the queue and aborts the connection.              *)
(*                                                                         *)
(* What mails hold is left out, and so are txCount, which decides nothing, *)
(* and the receiving half, except that the net thread may call SendData in *)
(* the middle of a command it has received.                                *)
(***************************************************************************)
EXTENDS Integers, FiniteSets

CONSTANTS
  Senders,         \* threads that call SendData, besides the net thread
  Net,             \* the net thread
  TCP_BUFFER_NUM,  \* buffers, and permits of the semaphore
  MaxSegments,     \* bound: segments of one message
  MaxCalls         \* bound: calls of SendData

Threads == Senders \cup {Net}

ASSUME ThreadsAssumption == IsFiniteSet(Senders) /\ Net \notin Senders
ASSUME NumAssumption ==
  TCP_BUFFER_NUM \in Nat /\ MaxSegments \in Nat \ {0} /\ MaxCalls \in Nat

VARIABLES
  thread,     \* where each thread is, and the segments it has yet to put
  semaphoreS, \* permits of semaphoreSid
  free,       \* buffers of the mail pool that are not allocated
  mails,      \* mails in the queue
  tcpSocket,  \* the socket, with the state the TCP stack has for it
  window,     \* whether the stack would take another packet
  conn, ack,
  LinkState,
  calls       \* bound: calls of SendData so far

vars == <<thread, semaphoreS, free, mails, tcpSocket, window, conn, ack, LinkState, calls>>
bufferVars == <<semaphoreS, free, mails>>
tcpVars == <<tcpSocket, window, ack, LinkState>>

Locations ==
  {"idle",                                          \* a sender outside SendData
   "main", "process", "connected", "tx", "mailFree", "mailRelease", "size", "send", "rx",  \* Net
   "wait", "alloc", "put",                          \* SendData
   "drain", "drainFree", "drainRelease", "reset", "abort"}  \* AbortConnection

TypeOK ==
  /\ thread \in [Threads -> [pc: Locations, left: 0 .. MaxSegments]]
  /\ semaphoreS \in 0 .. TCP_BUFFER_NUM
  /\ free \in 0 .. TCP_BUFFER_NUM
  /\ mails \in 0 .. TCP_BUFFER_NUM
  /\ tcpSocket \in {"none", "closed", "connecting", "established"}
  /\ window \in BOOLEAN /\ conn \in BOOLEAN /\ ack \in BOOLEAN /\ LinkState \in BOOLEAN
  /\ calls \in 0 .. MaxCalls

Init ==
  /\ thread = [t \in Threads |-> [pc |-> IF t = Net THEN "main" ELSE "idle", left |-> 0]]
  /\ semaphoreS = TCP_BUFFER_NUM /\ free = TCP_BUFFER_NUM /\ mails = 0
  /\ tcpSocket = "none" /\ window = FALSE
  /\ conn = FALSE /\ ack = TRUE
  /\ LinkState = FALSE
  /\ calls = 0

At(t, pc) == thread[t].pc = pc
MoveTo(t, pc, left) == thread' = [thread EXCEPT ![t] = [pc |-> pc, left |-> left]]
Goto(t, pc) == MoveTo(t, pc, thread[t].left)
(* Out of SendData or AbortConnection; the net thread may be in the middle *)
(* of a command that calls SendData again.                                 *)
Home(t) == IF t = Net THEN "rx" ELSE "idle"
Return(t) == MoveTo(t, Home(t), 0)

----------------------------------------------------------------------------
(* SendData, by any thread.                                                *)

(* It is called; only a connected client takes the message.                *)
SendData(t) ==
  /\ At(t, Home(t))
  /\ conn /\ calls < MaxCalls
  /\ \E n \in 1 .. MaxSegments : MoveTo(t, "wait", n)
  /\ calls' = calls + 1
  /\ UNCHANGED <<bufferVars, tcpVars, conn>>

TakePermit(t) ==
  /\ At(t, "wait") /\ semaphoreS > 0
  /\ semaphoreS' = semaphoreS - 1
  /\ Goto(t, "alloc")
  /\ UNCHANGED <<free, mails, tcpVars, conn, calls>>

(* osSemaphoreWait times out: AbortConnection.                             *)
OutOfResources(t) ==
  /\ At(t, "wait") /\ semaphoreS = 0
  /\ Goto(t, "drain")
  /\ UNCHANGED <<bufferVars, tcpVars, conn, calls>>

(* osMailAlloc(mailSid, osWaitForever).                                    *)
AllocMail(t) ==
  /\ At(t, "alloc") /\ free > 0
  /\ free' = free - 1
  /\ Goto(t, "put")
  /\ UNCHANGED <<semaphoreS, mails, tcpVars, conn, calls>>

(* osMailPut; the next segment, if there is one.                           *)
PutMail(t) ==
  /\ At(t, "put")
  /\ mails' = mails + 1
  /\ IF thread[t].left > 1 THEN MoveTo(t, "wait", thread[t].left - 1) ELSE Return(t)
  /\ UNCHANGED <<semaphoreS, free, tcpVars, conn, calls>>

----------------------------------------------------------------------------
(* AbortConnection, by any thread.                                         *)

DrainMail(t) ==
  /\ At(t, "drain")
  /\ \/ mails > 0 /\ mails' = mails - 1 /\ Goto(t, "drainFree")
     \/ mails = 0 /\ UNCHANGED mails /\ Goto(t, "reset")
  /\ UNCHANGED <<semaphoreS, free, tcpVars, conn, calls>>

DrainFree(t) ==
  /\ At(t, "drainFree")
  /\ free' = free + 1
  /\ Goto(t, "drainRelease")
  /\ UNCHANGED <<semaphoreS, mails, tcpVars, conn, calls>>

(* Faulty variant: the permit of a mail that is thrown away is forgotten.  *)
DrainKeepsPermit(t) ==
  /\ At(t, "drainRelease")
  /\ Goto(t, "drain")
  /\ UNCHANGED <<bufferVars, tcpVars, conn, calls>>

DrainRelease(t) ==
  /\ At(t, "drainRelease")
  /\ semaphoreS' = semaphoreS + 1
  /\ Goto(t, "drain")
  /\ UNCHANGED <<free, mails, tcpVars, conn, calls>>

(* The queue was empty: if there is a socket, conn = false ...             *)
ResetConnection(t) ==
  /\ At(t, "reset")
  /\ \/ tcpSocket # "none" /\ conn' = FALSE /\ Goto(t, "abort")
     \/ tcpSocket = "none" /\ UNCHANGED conn /\ Return(t)
  /\ UNCHANGED <<bufferVars, tcpVars, calls>>

(* ... and it is aborted and released.                                     *)
AbortSocket(t) ==
  /\ At(t, "abort")
  /\ tcpSocket' = "none" /\ window' = FALSE
  /\ Return(t)
  /\ UNCHANGED <<bufferVars, conn, ack, LinkState, calls>>

Sending(t) ==
  \/ TakePermit(t) \/ OutOfResources(t) \/ AllocMail(t) \/ PutMail(t)
  \/ DrainMail(t) \/ DrainFree(t) \/ DrainRelease(t) \/ ResetConnection(t) \/ AbortSocket(t)

----------------------------------------------------------------------------
(* The net thread: net_main and its callbacks, then TcpProcessor.          *)

NetMain ==
  /\ At(Net, "main")
  /\ Goto(Net, "process")
  /\ UNCHANGED <<bufferVars, conn, calls>>

NothingHappens == NetMain /\ UNCHANGED tcpVars

LinkNotified ==
  /\ NetMain
  /\ LinkState' = ~LinkState
  /\ UNCHANGED <<tcpSocket, window, ack>>

Established ==
  /\ NetMain /\ tcpSocket = "connecting"
  /\ tcpSocket' = "established" /\ window' = TRUE /\ ack' = TRUE
  /\ UNCHANGED LinkState

Closed ==
  /\ NetMain /\ tcpSocket \in {"connecting", "established"}
  /\ tcpSocket' = "closed" /\ window' = FALSE
  /\ UNCHANGED <<ack, LinkState>>

(* The server acknowledges; it may have no room for more.                  *)
Acknowledged ==
  /\ NetMain /\ tcpSocket = "established"
  /\ ack' = TRUE /\ window' \in BOOLEAN
  /\ UNCHANGED <<tcpSocket, LinkState>>

(* TcpProcessor: nothing to do, or the link is down.                       *)
ProcessWithoutLink ==
  /\ At(Net, "process") /\ ~LinkState
  /\ \/ tcpSocket # "none" /\ conn /\ conn' = FALSE /\ Goto(Net, "drain")
     \/ (tcpSocket = "none" \/ ~conn) /\ UNCHANGED conn /\ Goto(Net, "main")
  /\ UNCHANGED <<bufferVars, tcpVars, calls>>

(* A socket is taken, or connected.                                        *)
ProcessUnconnected ==
  /\ At(Net, "process") /\ LinkState
  /\ \/ tcpSocket = "none" /\ tcpSocket' = "closed" /\ conn' = FALSE
     \/ tcpSocket = "closed" /\ tcpSocket' = "connecting" /\ conn' = FALSE
     \/ tcpSocket = "connecting" /\ UNCHANGED <<tcpSocket, conn>>
  /\ Goto(Net, "main")
  /\ UNCHANGED <<bufferVars, window, ack, LinkState, calls>>

ProcessConnected ==
  /\ At(Net, "process") /\ LinkState /\ tcpSocket = "established"
  /\ Goto(Net, "connected")
  /\ UNCHANGED <<bufferVars, tcpVars, conn, calls>>

SetConnected ==
  /\ At(Net, "connected")
  /\ conn' = TRUE
  /\ Goto(Net, "tx")
  /\ UNCHANGED <<bufferVars, tcpVars, calls>>

tcp_check_send == tcpSocket = "established" /\ window

(* TxProcessor.                                                            *)
NothingToSend ==
  /\ At(Net, "tx") /\ ((~ack /\ ~tcp_check_send) \/ mails = 0)
  /\ Goto(Net, "rx")
  /\ UNCHANGED <<bufferVars, tcpVars, conn, calls>>

TakeMail ==
  /\ At(Net, "tx") /\ (ack \/ tcp_check_send) /\ mails > 0
  /\ mails' = mails - 1
  /\ Goto(Net, "mailFree")
  /\ UNCHANGED <<semaphoreS, free, tcpVars, conn, calls>>

(* Faulty variant: a permit is released in place of the buffer.            *)
FreeMailNot ==
  /\ At(Net, "mailFree")
  /\ semaphoreS' = semaphoreS + 1
  /\ Goto(Net, "mailRelease")
  /\ UNCHANGED <<free, mails, tcpVars, conn, calls>>

FreeMail ==
  /\ At(Net, "mailFree")
  /\ free' = free + 1
  /\ Goto(Net, "mailRelease")
  /\ UNCHANGED <<semaphoreS, mails, tcpVars, conn, calls>>

ReleasePermit ==
  /\ At(Net, "mailRelease")
  /\ semaphoreS' = semaphoreS + 1
  /\ Goto(Net, "size")
  /\ UNCHANGED <<free, mails, tcpVars, conn, calls>>

(* tcp_max_data_size, which is 0 when there is no socket any more: then    *)
(* the mail is dropped.                                                    *)
CheckSize ==
  /\ At(Net, "size")
  /\ Goto(Net, IF tcpSocket = "none" THEN "rx" ELSE "send")
  /\ UNCHANGED <<bufferVars, tcpVars, conn, calls>>

(* while (!tcp_check_send(tcpSocket)) osDelay(5): net_main does not run,   *)
(* so only the threads that abort the connection can change what it sees.  *)
SendPacket ==
  /\ At(Net, "send") /\ tcp_check_send
  /\ window' = FALSE /\ ack' = FALSE
  /\ Goto(Net, "rx")
  /\ UNCHANGED <<bufferVars, tcpSocket, conn, LinkState, calls>>

(* DataReceiver, when it calls nothing.                                    *)
NothingReceived ==
  /\ At(Net, "rx")
  /\ Goto(Net, "main")
  /\ UNCHANGED <<bufferVars, tcpVars, conn, calls>>

Stack == NothingHappens \/ LinkNotified \/ Established \/ Closed \/ Acknowledged
Process ==
  \/ ProcessWithoutLink \/ ProcessUnconnected \/ ProcessConnected \/ SetConnected
  \/ NothingToSend \/ TakeMail \/ FreeMail \/ ReleasePermit \/ CheckSize
  \/ SendPacket \/ NothingReceived

----------------------------------------------------------------------------
Next ==
  \/ Stack \/ Process
  \/ \E t \in Threads : SendData(t) \/ Sending(t)

(* Every thread that can run does; nobody has to call SendData.            *)
Fairness ==
  /\ WF_vars(Stack \/ Process \/ Sending(Net))
  /\ \A t \in Senders : WF_vars(Sending(t))

Spec == Init /\ [][Next]_vars
FairSpec == Spec /\ Fairness

----------------------------------------------------------------------------
(* Properties.                                                             *)

(* Threads that hold a permit, and those that hold a buffer out of the     *)
(* queue.                                                                  *)
PermitHeld == {t \in Threads : thread[t].pc \in
  {"alloc", "put", "mailFree", "mailRelease", "drainFree", "drainRelease"}}
BufferHeld == {t \in Threads : thread[t].pc \in {"put", "mailFree", "drainFree"}}

(* Every permit and every buffer is accounted for, while any number of     *)
(* threads send, and empty the queue, against each other: none is lost by  *)
(* AbortConnection, which resets txCount without knowing who holds what.   *)
BuffersConserved ==
  /\ semaphoreS + mails + Cardinality(PermitHeld) = TCP_BUFFER_NUM
  /\ free + mails + Cardinality(BufferHeld) = TCP_BUFFER_NUM

(* A thread that has a permit finds a buffer: osMailAlloc, which would     *)
(* wait for ever, and with it the net thread that frees buffers, does not. *)
AllocNeverBlocks == \A t \in Threads : At(t, "alloc") => free > 0

(* A call of SendData returns, even if the net thread is stuck.            *)
SendReturns == \A t \in Senders : ~At(t, "idle") ~> At(t, "idle")

(* "if out of resource, reset Tcp connection" (TcpClient.cpp:401): after   *)
(* the connection was aborted, while the link is up, a socket is taken to  *)
(* connect anew.                                                           *)
ConnectionReset == tcpSocket = "none" /\ LinkState ~> tcpSocket # "none" \/ ~LinkState
=============================================================================
