------------------------------ MODULE CanDriver ------------------------------
(***************************************************************************)
(* The CAN driver of the controller: CAN_push and CAN_pull (Driver_CAN.c), *)
(* the hardware layer under them and its callbacks (CAN_STM32F40x.c), and  *)
(* the handle, interrupts and mailboxes of the HAL (stm32f4xx_hal_can.c),  *)
(* which this repository has changed so that it may be called from its own *)
(* interrupts. Every call is made under CanEx's mutex, by a thread that    *)
(* sends (CanEx::Transmit, Sync, ...) or by the thread that polls.         *)
(*                                                                         *)
(* A frame is its number in the order of the calls of CAN_push. What the   *)
(* frames received hold is left out: they are counted. The bxCAN cell and  *)
(* the RTX primitives are external, modelled by what the driver relies on: *)
(* mailboxes are sent in the order of their requests (TXFP), RQCP of one   *)
(* stays set until its next request, a failed attempt sets TERR.           *)
(***************************************************************************)
EXTENDS Integers, Sequences, FiniteSets

CONSTANTS
  Senders,      \* threads that transmit
  Poller,       \* the thread of CanPollWorker
  NoThread,     \* nobody holds the mutex
  TxMails,      \* mails of MBX_tx1: 36 in the code
  RxMails,      \* mails of MBX_rx1: 36 in the code
  Mailboxes,    \* transmit mailboxes of the cell: 3
  FifoDepth,    \* frames the receive FIFO 0 holds: 3
  SemMax,       \* tokens a semaphore may hold: 65535 in RTX
  MaxFrames,    \* bound: frames pushed
  MaxArrivals,  \* bound: frames received from the bus
  MaxErrors     \* bound: errors on the bus

Threads == Senders \cup {Poller}

ASSUME ThreadsAssumption == NoThread \notin Threads /\ Poller \notin Senders
ASSUME SizeAssumption ==
  /\ TxMails \in Nat \ {0} /\ RxMails \in Nat \ {0} /\ FifoDepth \in Nat \ {0}
  /\ SemMax \in Nat \ {0} /\ MaxFrames \in Nat /\ MaxArrivals \in Nat /\ MaxErrors \in Nat
ASSUME MailboxesAssumption ==
  Mailboxes # {} /\ IsFiniteSet(Mailboxes) /\ Mailboxes \subseteq Nat

Frames == 1 .. MaxFrames

VARIABLES
  holder,    \* the owner of CanEx's mutex
  pc,        \* where in the driver it is
  msg,       \* the frame it pushes
  pTxMsg,    \* the frame in the buffer of the handle
  box,       \* the mailbox it has chosen
  seen,      \* hcan->State as it read it
  wr_sem,    \* tokens
  txMail,    \* frames queued in MBX_tx1
  txUsed,    \* mails of MBX_tx1 that are allocated
  rxMail,    \* frames queued in MBX_rx1
  hcan,      \* the handle, and the interrupts enabled
  sending,   \* mailboxes requested, in order, with their frames
  rqcp,      \* mailboxes whose last request has been performed (RQCP)
  terr,      \* mailboxes whose last attempt failed (TERR)
  fifo,      \* frames in the receive FIFO
  lec,       \* the cell holds an error (LEC, EWG, EPV, BOF)
  pushed, arrived, errors,         \* bounds, and what has come in so far
  sent, aborted, dropped, thrown,  \* history: frames by how they left the driver
  blinded    \* history: a frame was taken by the error interrupt inside the lock

threadVars == <<holder, pc, msg, pTxMsg, box, seen>>
mailVars == <<wr_sem, txMail, txUsed>>
cellVars == <<sending, rqcp, terr>>
rxVars == <<rxMail, fifo>>
boundVars == <<pushed, arrived, errors>>
txHistory == <<sent, aborted, dropped, thrown>>
vars == <<threadVars, mailVars, hcan, cellVars, rxVars, lec, boundVars, txHistory, blinded>>

Locations ==
  {"idle", "try", "alloc", "retry", "get",                  \* CAN_push
   "drain", "pull", "rxFree",                               \* CAN1_Receive
   "write", "state", "update", "unlock", "enable", "request"}  \* CAN_hw_wr
HalStates == {"READY", "BUSY_TX", "BUSY_RX", "BUSY_TX_RX"}

TypeOK ==
  /\ holder \in Threads \cup {NoThread} /\ pc \in Locations
  /\ msg \in 0 .. MaxFrames /\ pTxMsg \in 0 .. MaxFrames
  /\ box \in Mailboxes /\ seen \in HalStates
  /\ wr_sem \in 0 .. SemMax
  /\ txMail \in Seq(Frames) /\ txUsed \in 0 .. TxMails /\ rxMail \in 0 .. RxMails
  /\ hcan \in [State: HalStates, Lock: BOOLEAN, ErrorCode: BOOLEAN,
               tme: BOOLEAN, fmp0: BOOLEAN, err: BOOLEAN]
  /\ sending \in Seq([box: Mailboxes, frame: Frames])
  /\ rqcp \subseteq Mailboxes /\ terr \subseteq Mailboxes
  /\ fifo \in 0 .. FifoDepth /\ lec \in BOOLEAN /\ blinded \in BOOLEAN
  /\ pushed \in 0 .. MaxFrames /\ arrived \in 0 .. MaxArrivals /\ errors \in 0 .. MaxErrors
  /\ sent \in [Frames -> Nat] /\ aborted \in [Frames -> Nat]
  /\ dropped \in [Frames -> Nat] /\ thrown \in [Frames -> Nat]

(* After CAN_init and CAN_hw_start: one token, reception armed.            *)
Init ==
  /\ holder = NoThread /\ pc = "idle" /\ msg = 0 /\ pTxMsg = 0
  /\ box = (CHOOSE b \in Mailboxes : TRUE) /\ seen = "READY"
  /\ wr_sem = 1 /\ txMail = <<>> /\ txUsed = 0 /\ rxMail = 0
  /\ hcan = [State |-> "BUSY_RX", Lock |-> FALSE, ErrorCode |-> FALSE,
             tme |-> FALSE, fmp0 |-> TRUE, err |-> TRUE]
  /\ sending = <<>> /\ rqcp = {} /\ terr = {} /\ fifo = 0 /\ lec = FALSE
  /\ pushed = 0 /\ arrived = 0 /\ errors = 0
  /\ sent = [f \in Frames |-> 0] /\ aborted = [f \in Frames |-> 0]
  /\ dropped = [f \in Frames |-> 0] /\ thrown = [f \in Frames |-> 0]
  /\ blinded = FALSE

Release == holder' = NoThread /\ pc' = "idle"
Goto(l) == pc' = l /\ UNCHANGED holder
ReleaseToken(n) == IF n < SemMax THEN n + 1 ELSE n
Count(history, f) == [history EXCEPT ![f] = @ + 1]
----------------------------------------------------------------------------
(* CAN_push, by a thread that has taken the mutex to send one frame.       *)

HardwareFree == wr_sem > 0 /\ hcan.State \in {"READY", "BUSY_RX"}

Send(t) ==
  /\ holder = NoThread /\ pushed < MaxFrames
  /\ holder' = t /\ pc' = "try"
  /\ pushed' = pushed + 1 /\ msg' = pushed + 1
  /\ UNCHANGED <<pTxMsg, box, seen, mailVars, hcan, cellVars, rxVars, lec, arrived, errors,
                 txHistory, blinded>>

(* CAN_hw_tx_empty keeps the token it took when it finds the hardware free. *)
TryDirect ==
  /\ pc = "try"
  /\ \/ /\ HardwareFree
        /\ wr_sem' = wr_sem - 1 /\ pTxMsg' = msg
        /\ Goto("write")
     \/ ~HardwareFree /\ Goto("alloc") /\ UNCHANGED <<wr_sem, pTxMsg>>
  /\ UNCHANGED <<msg, box, seen, txMail, txUsed, hcan, cellVars, rxVars, lec, boundVars,
                 txHistory, blinded>>

(* osMailAlloc and osMailPut; or no mail becomes free within the time.     *)
Queue ==
  /\ pc = "alloc"
  /\ \/ /\ txUsed < TxMails
        /\ txUsed' = txUsed + 1 /\ txMail' = Append(txMail, msg)
        /\ Goto("retry")
        /\ UNCHANGED dropped
     \/ /\ txUsed = TxMails
        /\ dropped' = Count(dropped, msg)
        /\ Release
        /\ UNCHANGED <<txUsed, txMail>>
  /\ UNCHANGED <<msg, pTxMsg, box, seen, wr_sem, hcan, cellVars, rxVars, lec, boundVars,
                 sent, aborted, thrown, blinded>>

Retry ==
  /\ pc = "retry"
  /\ \/ HardwareFree /\ wr_sem' = wr_sem - 1 /\ Goto("get")
     \/ ~HardwareFree /\ Release /\ UNCHANGED wr_sem
  /\ UNCHANGED <<msg, pTxMsg, box, seen, txMail, txUsed, hcan, cellVars, rxVars, lec,
                 boundVars, txHistory, blinded>>

(* Faulty variant: the mail taken from the queue is not freed.             *)
GetKeepsMail ==
  /\ pc = "get" /\ txMail # <<>>
  /\ txMail' = Tail(txMail) /\ pTxMsg' = msg
  /\ thrown' = IF Head(txMail) = msg THEN thrown ELSE Count(thrown, Head(txMail))
  /\ Goto("write")
  /\ UNCHANGED <<msg, box, seen, wr_sem, txUsed, hcan, cellVars, rxVars, lec, boundVars, sent,
                 aborted, dropped, blinded>>

(* Faulty variant: what is at the head of the queue is not taken from it.  *)
GetLeavesMail ==
  /\ pc = "get"
  /\ pTxMsg' = msg /\ Goto("write")
  /\ UNCHANGED <<msg, box, seen, mailVars, hcan, cellVars, rxVars, lec, boundVars, txHistory,
                 blinded>>

(* The oldest mail is taken and freed, but the frame written is msg, which *)
(* is the youngest and stays in the queue when it is not also the oldest.  *)
(* The queue is never empty here, as the code thinks it may be: only the   *)
(* owner of the mutex takes mails, since TxCpltCallback no longer does.    *)
GetOldest ==
  /\ pc = "get" /\ txMail # <<>>
  /\ txMail' = Tail(txMail) /\ txUsed' = txUsed - 1
  /\ thrown' = IF Head(txMail) = msg THEN thrown ELSE Count(thrown, Head(txMail))
  /\ pTxMsg' = msg
  /\ Goto("write")
  /\ UNCHANGED <<msg, box, seen, wr_sem, hcan, cellVars, rxVars, lec, boundVars, sent, aborted,
                 dropped, blinded>>

----------------------------------------------------------------------------
(* CAN_hw_wr: HAL_CAN_Transmit_IT is called again every 5 ms until it does *)
(* not answer HAL_BUSY.                                                    *)

Empty == Mailboxes \ {sending[i].box : i \in DOMAIN sending}

SelectMailbox ==
  /\ pc = "write"
  /\ hcan.State \in {"READY", "BUSY_RX"} /\ ~hcan.Lock
  /\ \E b \in Empty : (\A c \in Empty : b <= c) /\ box' = b
  /\ hcan' = [hcan EXCEPT !.Lock = TRUE]
  /\ Goto("state")
  /\ UNCHANGED <<msg, pTxMsg, seen, mailVars, cellVars, rxVars, lec, boundVars, txHistory,
                 blinded>>

(* The state is read, and then written from what was read.                 *)
ReadState ==
  /\ pc = "state"
  /\ seen' = hcan.State
  /\ Goto("update")
  /\ UNCHANGED <<msg, pTxMsg, box, mailVars, hcan, cellVars, rxVars, lec, boundVars,
                 txHistory, blinded>>

UpdateState ==
  /\ pc = "update"
  /\ hcan' = [hcan EXCEPT !.State = IF seen = "BUSY_RX" THEN "BUSY_TX_RX" ELSE "BUSY_TX"]
  /\ Goto("unlock")
  /\ UNCHANGED <<msg, pTxMsg, box, seen, mailVars, cellVars, rxVars, lec, boundVars,
                 txHistory, blinded>>

Unlock ==
  /\ pc = "unlock"
  /\ hcan' = [hcan EXCEPT !.ErrorCode = FALSE, !.Lock = FALSE]
  /\ Goto("enable")
  /\ UNCHANGED <<msg, pTxMsg, box, seen, mailVars, cellVars, rxVars, lec, boundVars,
                 txHistory, blinded>>

(* Faulty variant: the mailbox interrupt is not enabled.                   *)
EnableErrorsOnly ==
  /\ pc = "enable"
  /\ hcan' = [hcan EXCEPT !.err = TRUE]
  /\ Goto("request")
  /\ UNCHANGED <<msg, pTxMsg, box, seen, mailVars, cellVars, rxVars, lec, boundVars,
                 txHistory, blinded>>

Enable ==
  /\ pc = "enable"
  /\ hcan' = [hcan EXCEPT !.err = TRUE, !.tme = TRUE]
  /\ Goto("request")
  /\ UNCHANGED <<msg, pTxMsg, box, seen, mailVars, cellVars, rxVars, lec, boundVars,
                 txHistory, blinded>>

(* Faulty variant: a mail is freed by whoever writes a frame.              *)
RequestFrees ==
  /\ pc = "request"
  /\ sending' = Append(sending, [box |-> box, frame |-> pTxMsg])
  /\ rqcp' = rqcp \ {box} /\ terr' = terr \ {box}
  /\ txUsed' = txUsed - 1
  /\ \/ holder = Poller /\ Goto("pull")
     \/ holder # Poller /\ Release
  /\ UNCHANGED <<msg, pTxMsg, box, seen, wr_sem, txMail, hcan, rxVars, lec, boundVars,
                 txHistory, blinded>>

(* TXRQ, which clears the mailbox's status; CAN_push returns, CAN1_Receive *)
(* frees the mail it has sent.                                             *)
Request ==
  /\ pc = "request"
  /\ sending' = Append(sending, [box |-> box, frame |-> pTxMsg])
  /\ rqcp' = rqcp \ {box} /\ terr' = terr \ {box}
  /\ \/ holder = Poller /\ txUsed' = txUsed - 1 /\ Goto("pull")
     \/ holder # Poller /\ UNCHANGED txUsed /\ Release
  /\ UNCHANGED <<msg, pTxMsg, box, seen, wr_sem, txMail, hcan, rxVars, lec, boundVars,
                 txHistory, blinded>>

----------------------------------------------------------------------------
(* CanEx::Poll: CAN1_Receive under the mutex.                              *)

Poll ==
  /\ holder = NoThread
  /\ holder' = Poller /\ pc' = "drain"
  /\ UNCHANGED <<msg, pTxMsg, box, seen, mailVars, hcan, cellVars, rxVars, lec, boundVars,
                 txHistory, blinded>>

(* Faulty variant: the queue is left to the interrupt, which is no longer   *)
(* there.                                                                  *)
DrainTokensOnly ==
  /\ pc = "drain"
  /\ wr_sem' = ReleaseToken(wr_sem)
  /\ Goto("pull")
  /\ UNCHANGED <<msg, pTxMsg, box, seen, txMail, txUsed, hcan, cellVars, rxVars, lec,
                 boundVars, txHistory, blinded>>

(* A queued frame is written, or a token is given back: at every poll, and *)
(* so beyond the one the semaphore was created with.                       *)
Drain ==
  /\ pc = "drain"
  /\ \/ /\ txMail # <<>>
        /\ pTxMsg' = Head(txMail) /\ txMail' = Tail(txMail)
        /\ Goto("write")
        /\ UNCHANGED wr_sem
     \/ /\ txMail = <<>>
        /\ wr_sem' = ReleaseToken(wr_sem)
        /\ Goto("pull")
        /\ UNCHANGED <<pTxMsg, txMail>>
  /\ UNCHANGED <<msg, box, seen, txUsed, hcan, cellVars, rxVars, lec, boundVars, txHistory,
                 blinded>>

(* CAN_pull with a timeout of 1 ms, and the mutex is given back.           *)
Pull ==
  /\ pc = "pull"
  /\ \/ rxMail > 0 /\ rxMail' = rxMail - 1 /\ Goto("rxFree")
     \/ rxMail = 0 /\ UNCHANGED rxMail /\ Release
  /\ UNCHANGED <<msg, pTxMsg, box, seen, mailVars, hcan, cellVars, fifo, lec, boundVars,
                 txHistory, blinded>>

PullFree ==
  /\ pc = "rxFree"
  /\ Release
  /\ UNCHANGED <<msg, pTxMsg, box, seen, mailVars, hcan, cellVars, rxVars, lec, boundVars,
                 txHistory, blinded>>

----------------------------------------------------------------------------
(* HAL_CAN_IRQHandler: the three interrupts have one handler and one       *)
(* priority, so that it runs to its end before any thread goes on. It      *)
(* looks for a mailbox sent, a frame received, an error, in this order.    *)

CAN_Transmit_IT(h) ==
  [h EXCEPT !.tme = FALSE,
            !.err = @ /\ h.State # "BUSY_TX",
            !.State = IF @ = "BUSY_TX_RX" THEN "BUSY_RX" ELSE "READY"]

CAN_Receive_IT(h) ==
  [h EXCEPT !.fmp0 = FALSE,
            !.err = @ /\ h.State # "BUSY_RX",
            !.State = IF @ = "BUSY_TX_RX" THEN "BUSY_TX" ELSE "READY"]

(* Faulty variant: the lock is taken in every interrupt, as in the HAL     *)
(* this one was made from.                                                 *)
ReceiveAlwaysLocks(h, isr) ==
  IF h.State \in {"READY", "BUSY_TX"} /\ ~h.Lock
    THEN [h EXCEPT !.State = IF @ = "BUSY_TX" THEN "BUSY_TX_RX" ELSE "BUSY_RX",
                   !.ErrorCode = FALSE, !.err = TRUE, !.fmp0 = TRUE]
    ELSE h

(* Arms the reception again, from HAL_CAN_RxCpltCallback. The lock counts  *)
(* when isr is false, which it is in the error interrupt too.              *)
HAL_CAN_Receive_IT(h, isr) ==
  IF h.State \in {"READY", "BUSY_TX"} /\ (isr \/ ~h.Lock)
    THEN [h EXCEPT !.State = IF @ = "BUSY_TX" THEN "BUSY_TX_RX" ELSE "BUSY_RX",
                   !.ErrorCode = FALSE, !.err = TRUE, !.fmp0 = TRUE]
    ELSE h

AfterTransmit == IF hcan.tme /\ rqcp # {} THEN CAN_Transmit_IT(hcan) ELSE hcan
Takes(n) == AfterTransmit.fmp0 /\ n > 0
AfterReceive(isr, n) ==
  IF Takes(n) THEN HAL_CAN_Receive_IT(CAN_Receive_IT(AfterTransmit), isr) ELSE AfterTransmit

(* The mail CAN_pull copies is allocated until it is freed.                *)
RxUsed == rxMail + IF pc = "rxFree" THEN 1 ELSE 0

(* HAL_CAN_RxCpltCallback: a frame for which there is no mail is lost.     *)
Deliver(n) ==
  /\ fifo' = IF Takes(n) THEN n - 1 ELSE n
  /\ \/ Takes(n) /\ RxUsed < RxMails /\ rxMail' = rxMail + 1
     \/ (Takes(n) => RxUsed = RxMails) /\ UNCHANGED rxMail

(* HAL_CAN_ErrorCallback gives up the frame of a mailbox that failed: the  *)
(* attempt under way still may succeed before the abort is done. Writing   *)
(* the status register back as it was read clears what is set in it, of    *)
(* every mailbox. A token is given back.                                   *)
ErrorCallback(h) ==
  \/ /\ terr = {}
     /\ hcan' = h
     /\ UNCHANGED <<cellVars, wr_sem, sent, aborted>>
  \/ \E b \in terr :
       /\ \A c \in terr : b <= c
       /\ hcan' = [h EXCEPT !.tme = FALSE]
       /\ rqcp' = {} /\ terr' = {}
       /\ \E i \in DOMAIN sending :
            /\ sending[i].box = b
            /\ sending' = SubSeq(sending, 1, i - 1) \o SubSeq(sending, i + 1, Len(sending))
            /\ \/ aborted' = Count(aborted, sending[i].frame) /\ UNCHANGED sent
               \/ sent' = Count(sent, sending[i].frame) /\ UNCHANGED aborted
       /\ wr_sem' = ReleaseToken(wr_sem)

Handler(isr, n) ==
  LET h == AfterReceive(isr, n)
      seesError == lec /\ h.err
  IN /\ Deliver(n)
     /\ lec' = (lec /\ ~seesError)
     /\ \/ /\ seesError \/ h.ErrorCode
           /\ ErrorCallback([h EXCEPT !.ErrorCode = TRUE, !.State = "READY"])
        \/ /\ ~(seesError \/ h.ErrorCode)
           /\ hcan' = h
           /\ UNCHANGED <<cellVars, wr_sem, sent, aborted>>
     /\ blinded' = (blinded \/ (Takes(n) /\ ~isr /\ hcan.Lock))
     /\ UNCHANGED <<threadVars, txMail, txUsed, pushed, errors, dropped, thrown>>

IrqPending == (hcan.tme /\ rqcp # {}) \/ (hcan.fmp0 /\ fifo > 0)

(* CAN1_TX_IRQHandler and CAN1_RX0_IRQHandler.                             *)
TransferIrq ==
  /\ IrqPending
  /\ Handler(TRUE, fifo)
  /\ UNCHANGED arrived

(* CAN1_SCE_IRQHandler: the others have the lower numbers and go first, but *)
(* a frame may arrive when it is already running.                          *)
ErrorIrq ==
  /\ ~IrqPending /\ lec /\ hcan.err
  /\ \/ Handler(FALSE, fifo) /\ UNCHANGED arrived
     \/ /\ arrived < MaxArrivals /\ fifo < FifoDepth
        /\ arrived' = arrived + 1
        /\ Handler(FALSE, fifo + 1)

----------------------------------------------------------------------------
(* The CAN cell.                                                           *)

Transmitted ==
  /\ sending # <<>>
  /\ sending' = Tail(sending)
  /\ sent' = Count(sent, Head(sending).frame)
  /\ rqcp' = rqcp \cup {Head(sending).box} /\ terr' = terr \ {Head(sending).box}
  /\ UNCHANGED <<threadVars, mailVars, hcan, rxVars, lec, boundVars, aborted, dropped, thrown,
                 blinded>>

(* While the cell sends, or while it receives.                             *)
BusError ==
  /\ errors < MaxErrors
  /\ errors' = errors + 1
  /\ lec' = TRUE
  /\ \/ sending # <<>> /\ terr' = terr \cup {Head(sending).box}
     \/ UNCHANGED terr
  /\ UNCHANGED <<threadVars, mailVars, hcan, sending, rqcp, rxVars, pushed, arrived, txHistory,
                 blinded>>

(* A frame for this station; when the FIFO is full one is lost.            *)
Arrive ==
  /\ arrived < MaxArrivals
  /\ arrived' = arrived + 1
  /\ \/ fifo < FifoDepth /\ fifo' = fifo + 1
     \/ fifo = FifoDepth /\ UNCHANGED fifo
  /\ UNCHANGED <<threadVars, mailVars, hcan, cellVars, rxMail, lec, pushed, errors,
                 txHistory, blinded>>

----------------------------------------------------------------------------
ThreadStep ==
  \/ TryDirect \/ Queue \/ Retry \/ GetOldest
  \/ SelectMailbox \/ ReadState \/ UpdateState \/ Unlock \/ Enable \/ Request
  \/ Drain \/ Pull \/ PullFree

Next ==
  \/ \E t \in Senders : Send(t)
  \/ Poll
  \/ ThreadStep
  \/ TransferIrq \/ ErrorIrq
  \/ Transmitted \/ BusError \/ Arrive

Spec == Init /\ [][Next]_vars

(* The scheduler runs the threads; a waiting poller gets the mutex, which  *)
(* RTX hands over in the order of waiting; interrupts are served; the bus  *)
(* takes a frame that is offered to it again and again. Nothing is assumed *)
(* of the senders or of what comes in.                                     *)
Fairness ==
  /\ SF_vars(Poll) /\ WF_vars(ThreadStep)
  /\ WF_vars(TransferIrq) /\ WF_vars(ErrorIrq) /\ WF_vars(Transmitted)

FairSpec == Spec /\ Fairness

----------------------------------------------------------------------------
Writing == {"write", "state", "update", "unlock", "enable", "request"}
Held(f) == Cardinality({i \in DOMAIN txMail : txMail[i] = f})
Sending(f) == Cardinality({i \in DOMAIN sending : sending[i].frame = f})
InHand(f) == IF (pc \in {"try", "alloc"} /\ msg = f) \/ (pc \in Writing /\ pTxMsg = f)
               THEN 1 ELSE 0
(* Where copies of a frame are, or how they have left.                     *)
Copies(f) == Held(f) + Sending(f) + InHand(f) + sent[f] + aborted[f] + dropped[f]

(* As long as no frame was thrown out of the queue, each frame a thread has *)
(* given to CAN_push is in one place only, or went one way only: none is    *)
(* lost between queue, buffer and mailboxes, and none is sent twice.        *)
OneCopyUnlessThrown ==
  (\A f \in Frames : thrown[f] = 0) => \A f \in 1 .. pushed : Copies(f) = 1

(* A frame CAN_push found the hardware busy for is queued to be sent when   *)
(* it becomes free ("otherwise push message to message queue to be sent     *)
(* when hardware becomes free", Driver_CAN.c:154).                          *)
QueuedFramesKept == \A f \in 1 .. pushed : Copies(f) > 0

(* The pool of mails is what is queued and what the poller is sending: a    *)
(* mail is freed once on every way through CAN_push and CAN1_Receive.       *)
PoolMatchesQueue ==
  txUsed = Len(txMail) + IF holder = Poller /\ pc \in Writing THEN 1 ELSE 0

(* The receive interrupt stays armed, whatever the threads and interrupts   *)
(* do to the state of the handle, unless the error interrupt took a frame   *)
(* while a thread was inside the lock of HAL_CAN_Transmit_IT.               *)
ReceptionArmed == hcan.fmp0 \/ blinded

(* When the handle says a transmission is under way, one is: an interrupt   *)
(* is to come that ends it, or the thread that starts it is not done. So    *)
(* CAN_hw_wr, which waits under the mutex, does not wait for nothing.       *)
BusyMeansInterrupt ==
  hcan.State \in {"BUSY_TX", "BUSY_TX_RX"} =>
    \/ pc \in {"unlock", "enable"}
    \/ hcan.tme /\ (pc = "request" \/ sending # <<>> \/ rqcp # {})

(* When no thread pushes any more, the polls empty the queue: no call of    *)
(* the driver keeps the mutex that the poller needs.                        *)
QueueDrains == []<>(txMail = <<>>)
=============================================================================
