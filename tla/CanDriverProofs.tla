---------------------------- MODULE CanDriverProofs ----------------------------
(***************************************************************************)
(* Proofs about CanDriver, for any numbers of threads, mails and mailboxes: *)
(* types, the pool of mails, what the interrupts and the threads leave in   *)
(* the handle's State, which both write without excluding each other, and   *)
(* that the driver neither loses nor doubles a frame, except where CAN_push *)
(* throws the oldest of its queue away. And about RequestPath, which takes  *)
(* the driver's steps: what the unit makes of the frames that reach it.     *)
(***************************************************************************)
EXTENDS RequestPath, Lemmas, SequenceTheorems

(* Where in the driver each thread may be, and what it has in hand there.   *)
Places ==
  /\ holder = NoThread <=> pc = "idle"
  /\ pc \in {"try", "alloc", "retry", "get"} => holder \in Senders /\ msg \in Frames
  /\ pc \in {"drain", "pull", "rxFree"} => holder = Poller
  /\ pc \in Writing => pTxMsg \in Frames

Types == TypeOK /\ Places
PoolInv == Types /\ PoolMatchesQueue

(* A handle remains one in each function of the HAL.                        *)
Handle ==
  [State: HalStates, Lock: BOOLEAN, ErrorCode: BOOLEAN, tme: BOOLEAN, fmp0: BOOLEAN, err: BOOLEAN]

LEMMA TransmitTyped == ASSUME NEW h \in Handle PROVE CAN_Transmit_IT(h) \in Handle
  BY DEF Handle, CAN_Transmit_IT, HalStates

LEMMA ReceiveTyped == ASSUME NEW h \in Handle PROVE CAN_Receive_IT(h) \in Handle
  BY DEF Handle, CAN_Receive_IT, HalStates

LEMMA ArmTyped ==
  ASSUME NEW h \in Handle, NEW isr \in BOOLEAN PROVE HAL_CAN_Receive_IT(h, isr) \in Handle
  BY DEF Handle, HAL_CAN_Receive_IT, HalStates

LEMMA AfterTransmitTyped == hcan \in Handle => AfterTransmit \in Handle
  BY TransmitTyped DEF AfterTransmit

LEMMA AfterReceiveTyped ==
  ASSUME hcan \in Handle, NEW isr \in BOOLEAN, NEW n PROVE AfterReceive(isr, n) \in Handle
  BY AfterTransmitTyped, ReceiveTyped, ArmTyped DEF AfterReceive

(* The counters of the frames, the tokens and the sequences.                *)
LEMMA CountTyped ==
  ASSUME NEW history \in [Frames -> Nat], NEW f \in Frames
  PROVE Count(history, f) \in [Frames -> Nat]
  BY DEF Count

LEMMA TokenTyped == ASSUME NEW n \in 0 .. SemMax PROVE ReleaseToken(n) \in 0 .. SemMax
  BY SizeAssumption DEF ReleaseToken

LEMMA ElementTyped ==
  ASSUME NEW S, NEW s \in Seq(S), NEW i \in DOMAIN s PROVE s[i] \in S
  OBVIOUS

LEMMA HeadTailTyped ==
  ASSUME NEW S, NEW s \in Seq(S), s # <<>>
  PROVE  Head(s) \in S /\ Tail(s) \in Seq(S) /\ Len(Tail(s)) = Len(s) - 1
  BY HeadTailProperties

LEMMA CutTyped ==
  ASSUME NEW S, NEW s \in Seq(S), NEW i \in DOMAIN s
  PROVE SubSeq(s, 1, i - 1) \o SubSeq(s, i + 1, Len(s)) \in Seq(S)
  <1>1. SubSeq(s, 1, i - 1) \in Seq(S)
    OBVIOUS
  <1>2. SubSeq(s, i + 1, Len(s)) \in Seq(S)
    OBVIOUS
  <1> QED BY <1>1, <1>2

-----------------------------------------------------------------------------
LEMMA TypesInit == Init => PoolInv
  <1> SUFFICES ASSUME Init PROVE PoolInv
    OBVIOUS
  <1> USE DEF Init
  <1>1. box \in Mailboxes
    BY MailboxesAssumption
  <1>2. hcan \in Handle /\ seen \in HalStates
    BY DEF Handle, HalStates
  <1>3. /\ sent \in [Frames -> Nat] /\ aborted \in [Frames -> Nat]
        /\ dropped \in [Frames -> Nat] /\ thrown \in [Frames -> Nat]
    OBVIOUS
  <1>4. txMail \in Seq(Frames) /\ sending \in Seq([box: Mailboxes, frame: Frames])
    OBVIOUS
  <1>5. holder \in Threads \cup {NoThread} /\ pc \in Locations
    BY DEF Locations
  <1>6. /\ wr_sem \in 0 .. SemMax /\ txUsed \in 0 .. TxMails /\ rxMail \in 0 .. RxMails
        /\ fifo \in 0 .. FifoDepth /\ pushed \in 0 .. MaxFrames
        /\ arrived \in 0 .. MaxArrivals /\ errors \in 0 .. MaxErrors
        /\ msg \in 0 .. MaxFrames /\ pTxMsg \in 0 .. MaxFrames
    BY SizeAssumption
  <1>7. rqcp \subseteq Mailboxes /\ terr \subseteq Mailboxes /\ lec \in BOOLEAN /\ blinded \in BOOLEAN
    OBVIOUS
  <1>8. TypeOK
    BY <1>1, <1>2, <1>3, <1>4, <1>5, <1>6, <1>7 DEF TypeOK, Handle
  <1>9. Places
    BY DEF Places, Writing
  <1>10. PoolMatchesQueue
    BY DEF PoolMatchesQueue, Writing
  <1> QED BY <1>8, <1>9, <1>10 DEF PoolInv, Types

(* What the interrupts do to the handle: either what the three functions    *)
(* make of it, or, after an error, State READY.                             *)
LEMMA HandlerHandle ==
  ASSUME NEW isr \in BOOLEAN, NEW n, hcan \in Handle, Handler(isr, n)
  PROVE  /\ hcan' \in Handle
         /\ hcan'.fmp0 = AfterReceive(isr, n).fmp0
         /\ \/ hcan'.State = "READY"
            \/ hcan' = AfterReceive(isr, n) /\ UNCHANGED <<sending, rqcp>>
  <1> DEFINE h == AfterReceive(isr, n)
             g == [h EXCEPT !.ErrorCode = TRUE, !.State = "READY"]
             e == [g EXCEPT !.tme = FALSE]
  <1>1. h \in Handle
    BY AfterReceiveTyped
  <1> HIDE DEF h
  <1>2. g \in Handle /\ g.fmp0 = h.fmp0 /\ g.State = "READY"
    BY <1>1 DEF Handle, HalStates
  <1> HIDE DEF g
  <1>3. e \in Handle /\ e.fmp0 = h.fmp0 /\ e.State = "READY"
    BY <1>2 DEF Handle, HalStates
  <1> HIDE DEF e
  <1>4. \/ ErrorCallback(g)
        \/ hcan' = h /\ UNCHANGED cellVars
    BY DEF Handler, h, g
  <1>5. ErrorCallback(g) => hcan' = g \/ hcan' = e
    BY DEF ErrorCallback, e
  <1>6. CASE hcan' = h /\ UNCHANGED cellVars
    BY <1>6, <1>1 DEF h, cellVars
  <1>7. CASE hcan' = g
    BY <1>7, <1>2 DEF h
  <1>8. CASE hcan' = e
    BY <1>8, <1>3 DEF h
  <1> QED BY <1>4, <1>5, <1>6, <1>7, <1>8

(* What they do to the mailboxes, the tokens and the histories.             *)
LEMMA HandlerCell ==
  ASSUME PoolInv, NEW isr \in BOOLEAN, NEW n, Handler(isr, n)
  PROVE  /\ sending' \in Seq([box: Mailboxes, frame: Frames])
         /\ rqcp' \subseteq Mailboxes /\ terr' \subseteq Mailboxes
         /\ wr_sem' \in 0 .. SemMax
         /\ sent' \in [Frames -> Nat] /\ aborted' \in [Frames -> Nat]
  <1> DEFINE Cell == /\ sending' \in Seq([box: Mailboxes, frame: Frames])
                     /\ rqcp' \subseteq Mailboxes /\ terr' \subseteq Mailboxes
                     /\ wr_sem' \in 0 .. SemMax
                     /\ sent' \in [Frames -> Nat] /\ aborted' \in [Frames -> Nat]
  <1>1. /\ sending \in Seq([box: Mailboxes, frame: Frames])
        /\ rqcp \subseteq Mailboxes /\ terr \subseteq Mailboxes /\ wr_sem \in 0 .. SemMax
        /\ sent \in [Frames -> Nat] /\ aborted \in [Frames -> Nat]
    BY DEF PoolInv, Types, TypeOK
  <1>2. CASE UNCHANGED <<cellVars, wr_sem, sent, aborted>>
    BY <1>1, <1>2 DEF cellVars
  <1>3. ASSUME NEW i \in DOMAIN sending,
               rqcp' = {} /\ terr' = {},
               sending' = SubSeq(sending, 1, i - 1) \o SubSeq(sending, i + 1, Len(sending)),
               \/ aborted' = Count(aborted, sending[i].frame) /\ UNCHANGED sent
               \/ sent' = Count(sent, sending[i].frame) /\ UNCHANGED aborted,
               wr_sem' = ReleaseToken(wr_sem)
        PROVE  Cell
    <2>1. sending' \in Seq([box: Mailboxes, frame: Frames])
      BY <1>1, <1>3, CutTyped
    <2>2. sending[i] \in [box: Mailboxes, frame: Frames]
      BY <1>1, ElementTyped
    <2>3. sending[i].frame \in Frames
      BY <2>2
    <2>4. CASE aborted' = Count(aborted, sending[i].frame) /\ UNCHANGED sent
      <3>1. aborted' \in [Frames -> Nat]
        BY <2>3, <2>4, <1>1, CountTyped
      <3> QED BY <3>1, <2>4, <2>1, <1>1, <1>3, TokenTyped
    <2>5. CASE sent' = Count(sent, sending[i].frame) /\ UNCHANGED aborted
      <3>1. sent' \in [Frames -> Nat]
        BY <2>3, <2>5, <1>1, CountTyped
      <3> QED BY <3>1, <2>5, <2>1, <1>1, <1>3, TokenTyped
    <2> QED BY <2>4, <2>5, <1>3
  <1>4. ASSUME NEW h, ErrorCallback(h) PROVE Cell
    BY <1>2, <1>3, <1>4 DEF ErrorCallback
  <1>5. \/ ErrorCallback([AfterReceive(isr, n) EXCEPT !.ErrorCode = TRUE, !.State = "READY"])
        \/ UNCHANGED <<cellVars, wr_sem, sent, aborted>>
    BY DEF Handler
  <1>6. Cell
    BY <1>2, <1>4, <1>5
  <1> QED BY <1>6

LEMMA HandlerKeeps ==
  ASSUME PoolInv, NEW isr \in BOOLEAN, NEW n \in 0 .. FifoDepth, Handler(isr, n),
         arrived' \in 0 .. MaxArrivals
  PROVE PoolInv'
  <1>1. UNCHANGED <<threadVars, txMail, txUsed, pushed, errors, dropped, thrown>>
    BY DEF Handler
  <1>2. hcan \in Handle
    BY DEF PoolInv, Types, TypeOK, Handle
  <1>3. hcan' \in Handle
    BY <1>2, HandlerHandle
  <1>4. fifo' \in 0 .. FifoDepth
    BY SizeAssumption DEF Handler, Deliver, Takes
  <1>5. rxMail \in 0 .. RxMails /\ RxUsed \in Nat /\ rxMail <= RxUsed
    BY SizeAssumption DEF RxUsed, PoolInv, Types, TypeOK
  <1>6. UNCHANGED rxMail \/ (RxUsed < RxMails /\ rxMail' = rxMail + 1)
    BY DEF Handler, Deliver
  <1>7. rxMail' \in 0 .. RxMails
    BY <1>5, <1>6, SizeAssumption
  <1>8. lec' \in BOOLEAN /\ blinded' \in BOOLEAN
    BY DEF Handler, PoolInv, Types, TypeOK
  <1>9. /\ sending' \in Seq([box: Mailboxes, frame: Frames])
        /\ rqcp' \subseteq Mailboxes /\ terr' \subseteq Mailboxes /\ wr_sem' \in 0 .. SemMax
        /\ sent' \in [Frames -> Nat] /\ aborted' \in [Frames -> Nat]
    BY HandlerCell
  <1>10. TypeOK'
    BY <1>1, <1>3, <1>4, <1>7, <1>8, <1>9 DEF PoolInv, Types, TypeOK, threadVars, Handle
  <1>11. Places'
    BY <1>1 DEF PoolInv, Types, Places, threadVars
  <1>12. PoolMatchesQueue'
    BY <1>1 DEF PoolInv, PoolMatchesQueue, threadVars
  <1> QED BY <1>10, <1>11, <1>12 DEF PoolInv, Types
-----------------------------------------------------------------------------
(* The steps of the threads and of the cell, for types, places and pool.    *)

LEMMA PoolStep == PoolInv /\ [Next]_vars => PoolInv'
  <1> SUFFICES ASSUME PoolInv, [Next]_vars PROVE PoolInv'
    OBVIOUS
  <1> USE DEF PoolInv, Types, TypeOK, Places, PoolMatchesQueue, Writing, Locations,
              threadVars, mailVars, cellVars, rxVars, boundVars, txHistory, Goto, Release
  <1>1. ASSUME NEW t \in Senders, Send(t) PROVE PoolInv'
    <2>1. pushed' \in 0 .. MaxFrames /\ msg' \in Frames
      BY <1>1, SizeAssumption DEF Send, Frames
    <2>2. msg' \in 0 .. MaxFrames
      BY <2>1 DEF Frames
    <2>3. holder' \in Threads \cup {NoThread} /\ pc' = "try"
      BY <1>1 DEF Send, Threads
    <2>8. TypeOK'
      BY <1>1, <2>1, <2>2, <2>3 DEF Send
    <2>9. Places'
      BY <1>1, ThreadsAssumption, SizeAssumption DEF Send, Threads, Frames
    <2>10. PoolMatchesQueue'
      BY <1>1, ThreadsAssumption, SizeAssumption DEF Send, Threads, Frames
    <2> QED BY <2>8, <2>9, <2>10
  <1>2. CASE Poll
    BY <1>2, ThreadsAssumption DEF Poll, Threads
  <1>3. CASE TryDirect
    <2>1. wr_sem' \in 0 .. SemMax
      BY <1>3, SizeAssumption DEF TryDirect, HardwareFree
    <2>2. pTxMsg' \in 0 .. MaxFrames /\ pc' \in Locations /\ holder' = holder
      BY <1>3 DEF TryDirect
    <2>8. TypeOK'
      BY <1>3, <2>1, <2>2 DEF TryDirect
    <2>9. Places'
      BY <1>3, ThreadsAssumption, SizeAssumption DEF TryDirect, Threads, HardwareFree
    <2>10. PoolMatchesQueue'
      BY <1>3, ThreadsAssumption, SizeAssumption DEF TryDirect, Threads, HardwareFree
    <2> QED BY <2>8, <2>9, <2>10
  <1>4. CASE Queue
    <2>1. CASE /\ txUsed < TxMails /\ pc = "alloc"
               /\ txUsed' = txUsed + 1 /\ txMail' = Append(txMail, msg)
               /\ Goto("retry") /\ UNCHANGED dropped
      BY <1>4, <2>1, ThreadsAssumption, SizeAssumption DEF Queue, Threads
    <2>2. CASE dropped' = Count(dropped, msg) /\ pc = "alloc" /\ Release /\ UNCHANGED <<txUsed, txMail>>
      <3>1. dropped' \in [Frames -> Nat]
        BY <2>2, CountTyped
      <3> QED BY <1>4, <2>2, <3>1, ThreadsAssumption DEF Queue, Threads
    <2> QED BY <1>4, <2>1, <2>2 DEF Queue
  <1>5. CASE Retry
    <2>8. TypeOK'
      BY <1>5, ThreadsAssumption, SizeAssumption DEF Retry, Threads, HardwareFree
    <2>9. Places'
      BY <1>5, ThreadsAssumption, SizeAssumption DEF Retry, Threads, HardwareFree
    <2>10. PoolMatchesQueue'
      BY <1>5, ThreadsAssumption, SizeAssumption DEF Retry, Threads, HardwareFree
    <2> QED BY <2>8, <2>9, <2>10
  <1>6. CASE GetOldest
    <2>1. txMail \in Seq(Frames) /\ txMail # <<>> /\ msg \in Frames /\ holder # Poller
      BY <1>6, ThreadsAssumption DEF GetOldest
    <2>2. Head(txMail) \in Frames /\ Tail(txMail) \in Seq(Frames) /\ Len(Tail(txMail)) = Len(txMail) - 1
      BY <2>1, HeadTailTyped
    <2>3. thrown' \in [Frames -> Nat]
      BY <1>6, <2>2, CountTyped DEF GetOldest
    <2>4. Len(txMail) \in Nat \ {0} /\ txUsed = Len(txMail)
      BY <1>6, <2>1, ThreadsAssumption DEF GetOldest
    <2>5. txUsed' \in 0 .. TxMails
      BY <1>6, <2>4, SizeAssumption, SMTT(40) DEF GetOldest
    <2>8. TypeOK'
      BY <1>6, <2>1, <2>2, <2>3, <2>5, ThreadsAssumption DEF GetOldest, Threads
    <2>9. Places'
      BY <1>6, <2>1, <2>2, <2>3, ThreadsAssumption DEF GetOldest, Threads, Frames
    <2>10. PoolMatchesQueue'
      BY <1>6, <2>1, <2>2, <2>3, ThreadsAssumption DEF GetOldest, Threads, Frames
    <2> QED BY <2>8, <2>9, <2>10
  <1>7. CASE SelectMailbox
    <2>1. hcan' \in Handle
      BY <1>7 DEF SelectMailbox, Handle
    <2>2. box' \in Mailboxes
      BY <1>7 DEF SelectMailbox, Empty
    <2> QED BY <1>7, <2>1, <2>2, ThreadsAssumption DEF SelectMailbox, Handle
  <1>8. CASE ReadState
    BY <1>8, ThreadsAssumption DEF ReadState
  <1>9. CASE UpdateState
    <2>1. hcan' \in Handle
      BY <1>9 DEF UpdateState, Handle, HalStates
    <2> QED BY <1>9, <2>1, ThreadsAssumption DEF UpdateState, Handle
  <1>10. CASE Unlock
    <2>1. hcan' \in Handle
      BY <1>10 DEF Unlock, Handle
    <2> QED BY <1>10, <2>1, ThreadsAssumption DEF Unlock, Handle
  <1>11. CASE Enable
    <2>1. hcan' \in Handle
      BY <1>11 DEF Enable, Handle
    <2> QED BY <1>11, <2>1, ThreadsAssumption DEF Enable, Handle
  <1>12. CASE Request
    <2>1. [box |-> box, frame |-> pTxMsg] \in [box: Mailboxes, frame: Frames]
      BY <1>12 DEF Request
    <2>2. sending' \in Seq([box: Mailboxes, frame: Frames])
      BY <1>12, <2>1 DEF Request
    <2>3. txUsed' \in 0 .. TxMails
      <3>1. Len(txMail) \in Nat
        OBVIOUS
      <3>2. CASE holder = Poller
        BY <1>12, <3>1, <3>2, SizeAssumption DEF Request
      <3>3. CASE holder # Poller
        BY <1>12, <3>3 DEF Request
      <3> QED BY <3>2, <3>3
    <2>4. rqcp' \subseteq Mailboxes /\ terr' \subseteq Mailboxes
      BY <1>12 DEF Request
    <2>8. TypeOK'
      BY <1>12, <2>2, <2>3, <2>4, ThreadsAssumption DEF Request, Threads
    <2>9. Places'
      BY <1>12, <2>2, ThreadsAssumption DEF Request, Threads
    <2>10. PoolMatchesQueue'
      BY <1>12, <2>2, ThreadsAssumption, SMTT(40) DEF Request, Threads
    <2> QED BY <2>8, <2>9, <2>10
  <1>13. CASE Drain
    <2>1. CASE /\ txMail # <<>> /\ pTxMsg' = Head(txMail) /\ txMail' = Tail(txMail)
               /\ Goto("write") /\ UNCHANGED wr_sem
      <3>0. txMail \in Seq(Frames)
        BY DEF PoolInv, Types, TypeOK
      <3>1. Head(txMail) \in Frames /\ Tail(txMail) \in Seq(Frames) /\ Len(Tail(txMail)) = Len(txMail) - 1
        BY <2>1, <3>0, HeadTailTyped
      <3>8. TypeOK'
        BY <1>13, <2>1, <3>1, ThreadsAssumption, SMTT(30) DEF Drain, Frames
      <3>9. Places'
        BY <1>13, <2>1, <3>1, ThreadsAssumption, SMTT(30) DEF Drain, Frames
      <3>10. PoolMatchesQueue'
        BY <1>13, <2>1, <3>1, ThreadsAssumption, SMTT(30) DEF Drain, Frames
      <3> QED BY <3>8, <3>9, <3>10
    <2>2. CASE wr_sem' = ReleaseToken(wr_sem) /\ Goto("pull") /\ UNCHANGED <<pTxMsg, txMail>>
      <3>1. wr_sem' \in 0 .. SemMax
        BY <2>2, TokenTyped
      <3> QED BY <1>13, <2>2, <3>1, ThreadsAssumption DEF Drain
    <2> QED BY <1>13, <2>1, <2>2 DEF Drain
  <1>14. CASE Pull
    <2>8. TypeOK'
      BY <1>14, ThreadsAssumption, SizeAssumption DEF Pull, Threads
    <2>9. Places'
      BY <1>14, ThreadsAssumption, SizeAssumption DEF Pull, Threads
    <2>10. PoolMatchesQueue'
      BY <1>14, ThreadsAssumption, SizeAssumption DEF Pull, Threads
    <2> QED BY <2>8, <2>9, <2>10
  <1>15. CASE PullFree
    BY <1>15, ThreadsAssumption DEF PullFree, Threads
  <1>16. CASE TransferIrq
    BY <1>16, HandlerKeeps DEF TransferIrq
  <1>17. CASE ErrorIrq
    <2>1. CASE Handler(FALSE, fifo) /\ UNCHANGED arrived
      BY <2>1, HandlerKeeps
    <2>2. CASE Handler(FALSE, fifo + 1) /\ arrived < MaxArrivals /\ fifo < FifoDepth /\ arrived' = arrived + 1
      <3>1. fifo + 1 \in 0 .. FifoDepth /\ arrived' \in 0 .. MaxArrivals
        BY <2>2, SizeAssumption
      <3> QED BY <2>2, <3>1, HandlerKeeps
    <2> QED BY <1>17, <2>1, <2>2 DEF ErrorIrq
  <1>18. CASE Transmitted
    <2> DEFINE Entry == [box: Mailboxes, frame: Frames]
    <2>1. sending \in Seq(Entry) /\ sending # <<>>
      BY <1>18 DEF Transmitted
    <2>2. Head(sending) \in Entry /\ Tail(sending) \in Seq(Entry)
      BY <2>1, HeadTailTyped
    <2>3. Head(sending).box \in Mailboxes /\ Head(sending).frame \in Frames
      BY <2>2
    <2>4. sent' \in [Frames -> Nat] /\ rqcp' \subseteq Mailboxes /\ terr' \subseteq Mailboxes
      BY <1>18, <2>3, CountTyped DEF Transmitted
    <2>5. TypeOK'
      BY <1>18, <2>2, <2>4, ZenonT(60) DEF Transmitted
    <2>6. Places' /\ PoolMatchesQueue'
      BY <1>18 DEF Transmitted
    <2> QED BY <2>5, <2>6
  <1>19. CASE BusError
    <2>1. terr' \subseteq Mailboxes
      <3>1. CASE sending # <<>> /\ terr' = terr \cup {Head(sending).box}
        <4>1. Head(sending) \in [box: Mailboxes, frame: Frames]
          BY <3>1, HeadTailTyped
        <4>2. Head(sending).box \in Mailboxes
          BY <4>1
        <4> QED BY <3>1, <4>2
      <3> QED BY <1>19, <3>1 DEF BusError
    <2> QED BY <1>19, <2>1, SizeAssumption, SMTT(40) DEF BusError
  <1>20. CASE Arrive
    BY <1>20, SizeAssumption DEF Arrive
  <1>21. CASE UNCHANGED vars
    BY <1>21 DEF vars
  <1> QED BY <1>1, <1>2, <1>3, <1>4, <1>5, <1>6, <1>7, <1>8, <1>9, <1>10, <1>11, <1>12, <1>13,
             <1>14, <1>15, <1>16, <1>17, <1>18, <1>19, <1>20, <1>21 DEF Next, ThreadStep

LEMMA PoolAlways == Spec => []PoolInv
  <1>1. Init => PoolInv
    BY TypesInit
  <1>2. PoolInv /\ [Next]_vars => PoolInv'
    BY PoolStep
  <1> QED BY <1>1, <1>2, PTL DEF Spec

(* Every variable keeps its type: no counter leaves its range, whatever the *)
(* interrupts do while a thread is in the driver.                           *)
THEOREM TypeCorrect == Spec => []TypeOK
  <1>1. PoolInv => TypeOK
    BY DEF PoolInv, Types
  <1> QED BY <1>1, PoolAlways, PTL

(* A mail of the pool is allocated exactly for each frame queued, and for   *)
(* the one the poller is sending: none leaks and none is freed twice.       *)
THEOREM PoolCorrect == Spec => []PoolMatchesQueue
  <1>1. PoolInv => PoolMatchesQueue
    BY DEF PoolInv
  <1> QED BY <1>1, PoolAlways, PTL
-----------------------------------------------------------------------------
(* What the interrupts leave of a handle that receives: the reception is    *)
(* armed again, unless it is the error interrupt and the handle is locked.  *)
LEMMA InterruptArms ==
  ASSUME NEW isr \in BOOLEAN, NEW n, hcan \in Handle, hcan.fmp0
  PROVE  AfterReceive(isr, n).fmp0 \/ (Takes(n) /\ ~isr /\ hcan.Lock)
  <1> DEFINE t == AfterTransmit
             r == CAN_Receive_IT(t)
  <1>1. t \in Handle /\ t.fmp0 = hcan.fmp0 /\ t.Lock = hcan.Lock
    BY DEF AfterTransmit, CAN_Transmit_IT, Handle, HalStates
  <1> HIDE DEF t
  <1>2. r \in Handle /\ r.Lock = t.Lock /\ r.State \in {"READY", "BUSY_TX"}
    BY <1>1, ZenonT(60) DEF CAN_Receive_IT, Handle, HalStates
  <1> HIDE DEF r
  <1>3. CASE Takes(n)
    <2>1. AfterReceive(isr, n) = HAL_CAN_Receive_IT(r, isr)
      BY <1>3 DEF AfterReceive, r, t
    <2>2. isr \/ ~hcan.Lock => HAL_CAN_Receive_IT(r, isr).fmp0
      BY <1>1, <1>2 DEF HAL_CAN_Receive_IT, Handle
    <2> QED BY <1>3, <2>1, <2>2
  <1>4. CASE ~Takes(n)
    BY <1>1, <1>4 DEF AfterReceive, t
  <1> QED BY <1>3, <1>4

LEMMA ReceptionStep ==
  TypeOK /\ ReceptionArmed /\ [Next]_vars => ReceptionArmed'
  <1> SUFFICES ASSUME TypeOK, ReceptionArmed, [Next]_vars PROVE ReceptionArmed'
    OBVIOUS
  <1>1. hcan \in Handle /\ blinded \in BOOLEAN
    BY DEF TypeOK, Handle
  <1>2. ASSUME NEW isr \in BOOLEAN, NEW n, Handler(isr, n) PROVE ReceptionArmed'
    <2>1. hcan'.fmp0 = AfterReceive(isr, n).fmp0
      BY <1>1, <1>2, HandlerHandle
    <2>2. blinded' = (blinded \/ (Takes(n) /\ ~isr /\ hcan.Lock))
      BY <1>2 DEF Handler
    <2>3. CASE blinded
      BY <2>2, <2>3 DEF ReceptionArmed
    <2>4. CASE hcan.fmp0
      <3>1. AfterReceive(isr, n).fmp0 \/ (Takes(n) /\ ~isr /\ hcan.Lock)
        BY <1>1, <2>4, InterruptArms
      <3> QED BY <2>1, <2>2, <3>1 DEF ReceptionArmed
    <2> QED BY <2>3, <2>4 DEF ReceptionArmed
  <1>3. CASE TransferIrq
    BY <1>2, <1>3 DEF TransferIrq
  <1>4. CASE ErrorIrq
    BY <1>2, <1>4 DEF ErrorIrq
  <1>5. ASSUME hcan'.fmp0 = hcan.fmp0, blinded' = blinded PROVE ReceptionArmed'
    BY <1>5 DEF ReceptionArmed
  <1>6. CASE SelectMailbox \/ UpdateState \/ Unlock \/ Enable
    <2>1. hcan'.fmp0 = hcan.fmp0 /\ blinded' = blinded
      BY <1>1, <1>6 DEF SelectMailbox, UpdateState, Unlock, Enable, Handle
    <2> QED BY <1>5, <2>1
  <1>7. CASE \/ \E t \in Senders : Send(t)
             \/ Poll \/ TryDirect \/ Queue \/ Retry \/ GetOldest \/ ReadState \/ Request
             \/ Drain \/ Pull \/ PullFree \/ Transmitted \/ BusError \/ Arrive
             \/ UNCHANGED vars
    <2>1. UNCHANGED <<hcan, blinded>>
      BY <1>7 DEF Send, Poll, TryDirect, Queue, Retry, GetOldest, ReadState, Request, Drain,
                  Pull, PullFree, Transmitted, BusError, Arrive, vars
    <2> QED BY <1>5, <2>1
  <1> QED BY <1>3, <1>4, <1>6, <1>7 DEF Next, ThreadStep

(* The reception stays armed, or a frame was taken inside the lock.         *)
THEOREM ReceptionCorrect == Spec => []ReceptionArmed
  <1>1. Init => ReceptionArmed
    BY DEF Init, ReceptionArmed
  <1>2. TypeOK /\ ReceptionArmed /\ [Next]_vars => ReceptionArmed'
    BY ReceptionStep
  <1> QED BY <1>1, <1>2, TypeCorrect, PTL DEF Spec
-----------------------------------------------------------------------------
Transmits == {"BUSY_TX", "BUSY_TX_RX"}

(* An interrupt that leaves the handle transmitting has found it so, and no *)
(* mailbox to end it.                                                       *)
LEMMA InterruptEnds ==
  ASSUME NEW isr \in BOOLEAN, NEW n, hcan \in Handle, AfterReceive(isr, n).State \in Transmits
  PROVE  hcan.State \in Transmits /\ AfterReceive(isr, n).tme = hcan.tme
  <1> DEFINE t == AfterTransmit
             r == CAN_Receive_IT(t)
  <1>1. /\ t \in Handle
        /\ t.State \in Transmits => hcan.State \in Transmits /\ t.tme = hcan.tme
    BY DEF AfterTransmit, CAN_Transmit_IT, Handle, HalStates, Transmits
  <1> HIDE DEF t
  <1>2. /\ r \in Handle /\ r.tme = t.tme
        /\ r.State \in Transmits => t.State \in Transmits
    BY <1>1 DEF CAN_Receive_IT, Handle, HalStates, Transmits
  <1> HIDE DEF r
  <1>3. CASE Takes(n)
    <2>1. AfterReceive(isr, n) = HAL_CAN_Receive_IT(r, isr)
      BY <1>3 DEF AfterReceive, r, t
    <2>2. /\ HAL_CAN_Receive_IT(r, isr).tme = r.tme
          /\ HAL_CAN_Receive_IT(r, isr).State \in Transmits => r.State \in Transmits
      BY <1>2 DEF HAL_CAN_Receive_IT, Handle, HalStates, Transmits
    <2> QED BY <1>1, <1>2, <2>1, <2>2
  <1>4. CASE ~Takes(n)
    BY <1>1, <1>4 DEF AfterReceive, t
  <1> QED BY <1>3, <1>4

LEMMA BusyStep ==
  Types /\ BusyMeansInterrupt /\ [Next]_vars => BusyMeansInterrupt'
  <1> SUFFICES ASSUME Types, BusyMeansInterrupt, [Next]_vars PROVE BusyMeansInterrupt'
    OBVIOUS
  <1> USE DEF BusyMeansInterrupt
  <1>1. hcan \in Handle
    BY DEF Types, TypeOK, Handle
  <1>2. ASSUME NEW isr \in BOOLEAN, NEW n, Handler(isr, n) PROVE BusyMeansInterrupt'
    <2>1. UNCHANGED pc
      BY <1>2 DEF Handler, threadVars
    <2>2. CASE hcan'.State = "READY"
      BY <2>2
    <2>3. CASE hcan' = AfterReceive(isr, n) /\ UNCHANGED <<sending, rqcp>>
      <3>1. hcan'.State \in Transmits => hcan.State \in Transmits /\ hcan'.tme = hcan.tme
        BY <1>1, <2>3, InterruptEnds
      <3> QED BY <2>1, <2>3, <3>1 DEF Transmits
    <2> QED BY <1>1, <1>2, <2>2, <2>3, HandlerHandle
  <1>3. CASE TransferIrq
    BY <1>2, <1>3 DEF TransferIrq
  <1>4. CASE ErrorIrq
    BY <1>2, <1>4 DEF ErrorIrq
  <1>5. CASE SelectMailbox
    BY <1>1, <1>5 DEF SelectMailbox, Handle, Goto
  <1>6. CASE UpdateState
    BY <1>6 DEF UpdateState, Goto
  <1>7. CASE Unlock
    BY <1>7 DEF Unlock, Goto
  <1>8. CASE Enable
    <2>1. hcan'.tme /\ pc' = "request"
      BY <1>1, <1>8 DEF Enable, Goto, Handle
    <2> QED BY <2>1
  <1>9. CASE Request
    <2>1. UNCHANGED hcan /\ pc = "request"
      BY <1>9 DEF Request
    <2>2. sending' # <<>>
      <3>1. sending \in Seq([box: Mailboxes, frame: Frames])
        BY DEF Types, TypeOK
      <3>2. Len(sending') = Len(sending) + 1 /\ Len(sending) \in Nat
        BY <1>9, <3>1 DEF Request
      <3> QED BY <3>2
    <2> QED BY <2>1, <2>2
  <1>10. CASE Transmitted
    <2>1. UNCHANGED <<hcan, pc>> /\ rqcp' # {}
      BY <1>10 DEF Transmitted, threadVars
    <2> QED BY <2>1
  <1>11. CASE BusError \/ Arrive \/ UNCHANGED vars
    BY <1>11 DEF BusError, Arrive, vars, threadVars, cellVars
  <1>12. CASE \/ \E t \in Senders : Send(t)
              \/ Poll \/ TryDirect \/ Queue \/ Retry \/ GetOldest \/ ReadState
              \/ Drain \/ Pull \/ PullFree
    <2>1. UNCHANGED <<hcan, sending, rqcp>>
      BY <1>12 DEF Send, Poll, TryDirect, Queue, Retry, GetOldest, ReadState, Drain,
                   Pull, PullFree, cellVars
    <2>2. holder = NoThread => pc = "idle"
      BY DEF Types, Places
    <2>3. pc \notin {"unlock", "enable", "request"}
      BY <1>12, <2>2 DEF Send, Poll, TryDirect, Queue, Retry, GetOldest, ReadState, Drain,
                         Pull, PullFree
    <2> QED BY <2>1, <2>3
  <1> QED BY <1>3, <1>4, <1>5, <1>6, <1>7, <1>8, <1>9, <1>10, <1>11, <1>12 DEF Next, ThreadStep

(* A handle that says a transmission is under way is going to be told of    *)
(* its end, so that no thread waits for it in vain with the mutex.          *)
THEOREM BusyCorrect == Spec => []BusyMeansInterrupt
  <1>1. Init => BusyMeansInterrupt
    BY DEF Init, BusyMeansInterrupt
  <1>2. Types /\ BusyMeansInterrupt /\ [Next]_vars => BusyMeansInterrupt'
    BY BusyStep
  <1>3. PoolInv => Types
    BY DEF PoolInv
  <1> QED BY <1>1, <1>2, <1>3, PoolAlways, PTL DEF Spec

-----------------------------------------------------------------------------
(* The property of the copies counts the places a frame is in, so its proof *)
(* is one of sums: each step moves a copy from one place to another.        *)

(* Mailboxes with their frames, counted by frame.                           *)
FramesOf(s) == [i \in DOMAIN s |-> s[i].frame]
OfBox(s, f) == Cardinality({i \in DOMAIN s : s[i].frame = f})
Entry == [box: Mailboxes, frame: Frames]

LEMMA OfBoxAt ==
  ASSUME NEW S, NEW s \in Seq(S), NEW f PROVE OfBox(s, f) = Cardinality(Where(FramesOf(s), Len(s), f))
  <1>1. {i \in DOMAIN s : s[i].frame = f} = Where(FramesOf(s), Len(s), f)
    BY DEF Where, FramesOf
  <1> QED BY <1>1 DEF OfBox

LEMMA OfBoxTyped ==
  ASSUME NEW S, NEW s \in Seq(S), NEW f PROVE OfBox(s, f) \in Nat
  <1>1. Len(s) \in Nat
    OBVIOUS
  <1> QED BY <1>1, OfBoxAt, AtFinite

LEMMA OfBoxAppend ==
  ASSUME NEW S, NEW s \in Seq(S), NEW e \in S, NEW f
  PROVE  OfBox(Append(s, e), f) = OfBox(s, f) + One(e.frame, f)
  <1> DEFINE t == Append(s, e)
  <1>1. t \in Seq(S) /\ Len(t) = Len(s) + 1 /\ Len(s) \in Nat
    OBVIOUS
  <1>2. FramesOf(t)[Len(s) + 1] = e.frame
    BY DEF FramesOf
  <1>3. \A i \in 1 .. Len(s) : FramesOf(t)[i] = FramesOf(s)[i]
    BY DEF FramesOf
  <1> HIDE DEF t
  <1>4. Cardinality(Where(FramesOf(t), Len(s) + 1, f)) =
          Cardinality(Where(FramesOf(s), Len(s), f)) + IF e.frame = f THEN 1 ELSE 0
    <2> DEFINE n == Len(s)
               m == Len(t)
               p == FramesOf(t)
               q == FramesOf(s)
    <2>1. n \in Nat /\ m \in Nat /\ m = n + 1 /\ \A i \in 1 .. n : p[i] = q[i]
      BY <1>1, <1>3
    <2>2. p[m] = e.frame
      BY <1>1, <1>2
    <2> HIDE DEF n, m, p, q
    <2>3. Cardinality(Where(p, m, f)) = Cardinality(Where(q, n, f)) + IF p[m] = f THEN 1 ELSE 0
      BY <2>1, CountAdded, SMTT(60)
    <2> QED BY <1>1, <2>2, <2>3 DEF n, m, p, q
  <1>5. OfBox(t, f) = OfBox(s, f) + One(e.frame, f)
    BY <1>1, <1>4, OfBoxAt DEF One
  <1> QED BY <1>5 DEF t

Cut(s, k) == SubSeq(s, 1, k - 1) \o SubSeq(s, k + 1, Len(s))

LEMMA CutFacts ==
  ASSUME NEW S, NEW s \in Seq(S), NEW k \in 1 .. Len(s)
  PROVE  /\ Cut(s, k) \in Seq(S) /\ Len(Cut(s, k)) = Len(s) - 1
         /\ \A i \in 1 .. Len(s) - 1 : Cut(s, k)[i] = s[IF i < k THEN i ELSE i + 1]
  <1> DEFINE a == SubSeq(s, 1, k - 1)
             b == SubSeq(s, k + 1, Len(s))
  <1>1. a \in Seq(S) /\ Len(a) = k - 1 /\ \A i \in 1 .. k - 1 : a[i] = s[i]
    OBVIOUS
  <1>2. b \in Seq(S) /\ Len(b) = Len(s) - k /\ \A i \in 1 .. Len(s) - k : b[i] = s[i + k]
    OBVIOUS
  <1>3. Len(s) \in Nat /\ k \in Nat /\ 1 <= k /\ k <= Len(s)
    OBVIOUS
  <1> HIDE DEF a, b
  <1>4. (a \o b) \in Seq(S) /\ Len(a \o b) = Len(a) + Len(b)
    BY <1>1, <1>2, ConcatProperties
  <1>5. Len(a \o b) = Len(s) - 1
    BY <1>1, <1>2, <1>3, <1>4
  <1>6. ASSUME NEW i \in 1 .. Len(s) - 1
        PROVE  (a \o b)[i] = s[IF i < k THEN i ELSE i + 1]
    <2>1. i \in 1 .. Len(a) + Len(b) /\ i \in Nat
      BY <1>1, <1>2, <1>3
    <2>2. (a \o b)[i] = IF i <= Len(a) THEN a[i] ELSE b[i - Len(a)]
      BY <1>1, <1>2, <2>1, ConcatProperties
    <2>3. CASE i < k
      <3>1. i <= k - 1 /\ i \in 1 .. k - 1
        BY <1>3, <2>1, <2>3
      <3> QED BY <1>1, <2>2, <2>3, <3>1
    <2>4. CASE ~(i < k)
      <3>1. i - (k - 1) \in 1 .. Len(s) - k /\ (i - (k - 1)) + k = i + 1 /\ ~(i <= k - 1)
        BY <1>3, <2>1, <2>4
      <3>2. b[i - (k - 1)] = s[i + 1]
        BY <1>2, <3>1
      <3> QED BY <1>1, <2>2, <2>4, <3>1, <3>2
    <2> QED BY <2>3, <2>4
  <1> QED BY <1>4, <1>5, <1>6 DEF Cut, a, b

LEMMA OfBoxCut ==
  ASSUME NEW S, NEW s \in Seq(S), NEW k \in 1 .. Len(s), NEW f
  PROVE  OfBox(s, f) = OfBox(Cut(s, k), f) + One(s[k].frame, f)
  <1> DEFINE t == Cut(s, k)
  <1>1. t \in Seq(S) /\ Len(t) = Len(s) - 1 /\ Len(s) \in Nat \ {0}
    BY CutFacts
  <1>2. \A i \in 1 .. Len(s) - 1 : t[i] = s[IF i < k THEN i ELSE i + 1]
    BY CutFacts
  <1> HIDE DEF t
  <1>3. \A i \in 1 .. Len(s) - 1 : FramesOf(t)[i] = FramesOf(s)[IF i < k THEN i ELSE i + 1]
    BY <1>1, <1>2 DEF FramesOf
  <1>4. FramesOf(s)[k] = s[k].frame
    BY DEF FramesOf
  <1>5. Cardinality(Where(FramesOf(s), Len(s), f)) =
          Cardinality(Where(FramesOf(t), Len(s) - 1, f)) + IF s[k].frame = f THEN 1 ELSE 0
    <2> DEFINE n == Len(s)
               p == FramesOf(s)
               q == FramesOf(t)
    <2>1. n \in Nat \ {0} /\ k \in 1 .. n
      BY <1>1
    <2>2. \A i \in 1 .. n - 1 : q[i] = p[IF i < k THEN i ELSE i + 1]
      BY <1>3
    <2> HIDE DEF n, p, q
    <2>3. Cardinality(Where(p, n, f)) = Cardinality(Where(q, n - 1, f)) + IF p[k] = f THEN 1 ELSE 0
      BY <2>1, <2>2, CountRemoved, SMTT(60)
    <2> QED BY <1>4, <2>3 DEF n, p, q
  <1>6. OfBox(s, f) = OfBox(t, f) + One(s[k].frame, f)
    BY <1>1, <1>5, OfBoxAt DEF One
  <1> QED BY <1>6 DEF t

LEMMA OfBoxTail ==
  ASSUME NEW S, NEW s \in Seq(S), s # <<>>, NEW f
  PROVE  OfBox(s, f) = OfBox(Tail(s), f) + One(Head(s).frame, f)
  <1> DEFINE t == Tail(s)
  <1>1. t \in Seq(S) /\ Len(t) = Len(s) - 1 /\ Len(s) \in Nat \ {0} /\ s[1] = Head(s)
    OBVIOUS
  <1>2. 1 \in 1 .. Len(s)
    BY <1>1
  <1>3. \A i \in 1 .. Len(s) - 1 : t[i] = s[IF i < 1 THEN i ELSE i + 1]
    OBVIOUS
  <1> HIDE DEF t
  <1>4. \A i \in 1 .. Len(s) - 1 : FramesOf(t)[i] = FramesOf(s)[IF i < 1 THEN i ELSE i + 1]
    BY <1>1, <1>3, SMTT(40) DEF FramesOf
  <1>5. FramesOf(s)[1] = Head(s).frame
    BY <1>1, <1>2 DEF FramesOf
  <1>6. Cardinality(Where(FramesOf(s), Len(s), f)) =
          Cardinality(Where(FramesOf(t), Len(s) - 1, f)) + IF FramesOf(s)[1] = f THEN 1 ELSE 0
    <2> DEFINE n == Len(s)
               p == FramesOf(t)
               q == FramesOf(s)
    <2>1. n \in Nat \ {0} /\ 1 \in 1 .. n /\ \A i \in 1 .. n - 1 : p[i] = q[IF i < 1 THEN i ELSE i + 1]
      BY <1>1, <1>2, <1>4
    <2> HIDE DEF n, p, q
    <2>2. Cardinality(Where(q, n, f)) = Cardinality(Where(p, n - 1, f)) + IF q[1] = f THEN 1 ELSE 0
      BY <2>1, CountRemoved
    <2> QED BY <2>2 DEF n, p, q
  <1>7. OfBox(s, f) = OfBox(t, f) + One(Head(s).frame, f)
    BY <1>1, <1>5, <1>6, OfBoxAt DEF One
  <1> QED BY <1>7 DEF t

LEMMA CountAt ==
  ASSUME NEW h \in [Frames -> Nat], NEW g \in Frames, NEW f \in Frames
  PROVE  Count(h, g)[f] \in Nat /\ Count(h, g)[f] = h[f] + One(g, f)
  <1>1. h[f] \in Nat
    OBVIOUS
  <1>2. CASE g = f
    <2>1. Count(h, g)[f] = h[f] + 1
      BY <1>2 DEF Count
    <2> QED BY <1>1, <1>2, <2>1 DEF One
  <1>3. CASE g # f
    <2>1. Count(h, g)[f] = h[f]
      BY <1>3 DEF Count
    <2> QED BY <1>1, <1>3, <2>1 DEF One
  <1> QED BY <1>2, <1>3

-----------------------------------------------------------------------------
NoneThrown == \A f \in Frames : thrown[f] = 0

(* The property, strengthened by the frames that are still to come: there   *)
(* is no copy of them.                                                      *)
CopyInv == NoneThrown => \A f \in Frames : Copies(f) = IF f <= pushed THEN 1 ELSE 0

LEMMA CopyInit == Init => CopyInv
  <1> SUFFICES ASSUME Init, NEW f \in Frames PROVE Copies(f) = IF f <= pushed THEN 1 ELSE 0
    BY DEF CopyInv
  <1>1. {i \in DOMAIN txMail : txMail[i] = f} = {} /\ {i \in DOMAIN sending : sending[i].frame = f} = {}
    BY DEF Init
  <1>2. Held(f) = 0 /\ Sending(f) = 0
    BY <1>1, FS_EmptySet DEF Held, Sending
  <1>3. InHand(f) = 0
    BY DEF Init, InHand, Writing
  <1>4. sent[f] = 0 /\ aborted[f] = 0 /\ dropped[f] = 0 /\ ~(f <= pushed)
    BY SizeAssumption DEF Init, Frames
  <1> QED BY <1>2, <1>3, <1>4 DEF Copies

(* A step moves a copy from one place to another: it changes no sum.        *)
LEMMA CopyStep == PoolInv /\ CopyInv /\ [Next]_vars => CopyInv'
  <1> SUFFICES ASSUME PoolInv, CopyInv, [Next]_vars, NoneThrown', NEW f \in Frames
               PROVE  Copies(f)' = IF f <= pushed' THEN 1 ELSE 0
    BY DEF CopyInv
  <1> DEFINE Sum == IF f <= pushed THEN 1 ELSE 0
             SumNext == IF f <= pushed' THEN 1 ELSE 0
             h == InHand(f)
             hNext == InHand(f)'
  <1>1. /\ txMail \in Seq(Frames) /\ sending \in Seq(Entry) /\ pushed \in Nat /\ f \in Nat
        /\ sent \in [Frames -> Nat] /\ aborted \in [Frames -> Nat]
        /\ dropped \in [Frames -> Nat] /\ thrown \in [Frames -> Nat]
    BY SizeAssumption DEF PoolInv, Types, TypeOK, Entry, Frames
  <1>2. /\ Of(txMail, f) \in Nat /\ OfBox(sending, f) \in Nat
        /\ sent[f] \in Nat /\ aborted[f] \in Nat /\ dropped[f] \in Nat
    BY <1>1, OfTyped, OfBoxTyped
  <1>3. h \in {0, 1}
    BY DEF InHand
  <1>4. Copies(f) = Of(txMail, f) + OfBox(sending, f) + h + sent[f] + aborted[f] + dropped[f]
    BY DEF Copies, Held, Sending, Of, OfBox
  <1>5. Copies(f)' = Of(txMail', f) + OfBox(sending', f) + hNext + sent'[f] + aborted'[f] + dropped'[f]
    BY DEF Copies, Held, Sending, Of, OfBox
  <1>6. UNCHANGED thrown => Copies(f) = Sum
    BY DEF CopyInv, NoneThrown
  <1> HIDE DEF h, hNext
  <1>7. ASSUME UNCHANGED <<txMail, sending, sent, aborted, dropped, thrown, pushed>>, hNext = h
        PROVE  Copies(f)' = SumNext
    BY <1>4, <1>5, <1>6, <1>7
  <1>8. ASSUME NEW t \in Senders, Send(t) PROVE Copies(f)' = SumNext
    <2>1. /\ UNCHANGED <<txMail, sending, sent, aborted, dropped, thrown>>
          /\ pushed' = pushed + 1 /\ msg' = pushed + 1 /\ pc' = "try" /\ pc = "idle"
      BY <1>8 DEF Send, mailVars, cellVars, txHistory, PoolInv, Types, Places
    <2>2. h = 0 /\ hNext = One(pushed + 1, f)
      BY <2>1 DEF h, hNext, InHand, Writing, One
    <2>3. Copies(f)' = Sum + One(pushed + 1, f)
      BY <1>1, <1>2, <1>4, <1>5, <1>6, <2>1, <2>2 DEF One
    <2> QED BY <1>1, <2>1, <2>3 DEF One
  <1>9. CASE Poll \/ TryDirect \/ Retry \/ Pull \/ PullFree
    <2>1. UNCHANGED <<txMail, sending, sent, aborted, dropped, thrown, pushed>>
      BY <1>9 DEF Poll, TryDirect, Retry, Pull, PullFree, mailVars, cellVars, boundVars, txHistory
    <2>2. holder = NoThread => pc = "idle"
      BY DEF PoolInv, Types, Places
    <2>3. hNext = h
      BY <1>9, <2>2 DEF Poll, TryDirect, Retry, Pull, PullFree, h, hNext, InHand, Writing, Goto, Release
    <2> QED BY <1>7, <2>1, <2>3
  <1>10. CASE SelectMailbox \/ ReadState \/ UpdateState \/ Unlock \/ Enable
    <2>1. UNCHANGED <<txMail, sending, sent, aborted, dropped, thrown, pushed>>
      BY <1>10 DEF SelectMailbox, ReadState, UpdateState, Unlock, Enable, mailVars, cellVars,
                   boundVars, txHistory
    <2>2. pc \in Writing /\ pc' \in Writing /\ pTxMsg' = pTxMsg
      BY <1>10 DEF SelectMailbox, ReadState, UpdateState, Unlock, Enable, Writing, Goto
    <2>3. hNext = h
      BY <2>2 DEF h, hNext, InHand, Writing
    <2> QED BY <1>7, <2>1, <2>3
  <1>11. CASE Queue
    <2>1. /\ pc = "alloc" /\ msg \in Frames
          /\ UNCHANGED <<sending, sent, aborted, thrown, pushed>>
          /\ \/ txMail' = Append(txMail, msg) /\ UNCHANGED dropped
             \/ UNCHANGED txMail /\ dropped' = Count(dropped, msg)
      BY <1>11 DEF Queue, cellVars, boundVars, PoolInv, Types, Places
    <2>2. pc' \in {"retry", "idle"}
      BY <1>11 DEF Queue, Goto, Release
    <2>3. h = One(msg, f) /\ hNext = 0
      BY <2>1, <2>2 DEF h, hNext, InHand, Writing, One
    <2>4. Of(txMail', f) + dropped'[f] = Of(txMail, f) + dropped[f] + One(msg, f)
      <3>1. CASE txMail' = Append(txMail, msg) /\ UNCHANGED dropped
        <4>1. Of(Append(txMail, msg), f) = Of(txMail, f) + One(msg, f)
          BY <1>1, <2>1, OfAppend
        <4> QED BY <1>2, <3>1, <4>1 DEF One
      <3>2. CASE UNCHANGED txMail /\ dropped' = Count(dropped, msg)
        <4>1. dropped'[f] = dropped[f] + One(msg, f)
          BY <1>1, <2>1, <3>2, CountAt
        <4> QED BY <1>2, <3>2, <4>1 DEF One
      <3> QED BY <2>1, <3>1, <3>2
    <2>5. Of(txMail', f) \in Nat
      <3>1. Append(txMail, msg) \in Seq(Frames)
        BY <1>1, <2>1
      <3>2. txMail' \in Seq(Frames)
        BY <1>1, <2>1, <3>1
      <3> QED BY <3>2, OfTyped
    <2>6. dropped'[f] \in Nat
      BY <1>1, <1>2, <2>1, CountAt
    <2>7. Copies(f)' = Copies(f)
      <3>1. sending' = sending /\ sent'[f] = sent[f] /\ aborted'[f] = aborted[f]
        BY <2>1
      <3>2. OfBox(sending', f) = OfBox(sending, f)
        BY <3>1
      <3>3. One(msg, f) \in {0, 1}
        BY DEF One
      <3> QED BY <1>2, <1>4, <1>5, <2>3, <2>4, <2>5, <2>6, <3>1, <3>2, <3>3
    <2> QED BY <1>6, <2>1, <2>7
  <1>12. CASE GetOldest
    <2>1. /\ pc = "get" /\ txMail # <<>> /\ txMail' = Tail(txMail) /\ pTxMsg' = msg /\ pc' = "write"
          /\ UNCHANGED <<sending, sent, aborted, dropped, pushed>>
          /\ thrown' = IF Head(txMail) = msg THEN thrown ELSE Count(thrown, Head(txMail))
      BY <1>12 DEF GetOldest, cellVars, boundVars, Goto
    <2>2. Head(txMail) \in Frames
      BY <1>1, <2>1, HeadTailTyped
    <2>3. Head(txMail) = msg
      <3> SUFFICES ASSUME Head(txMail) # msg PROVE FALSE
        OBVIOUS
      <3>1. thrown'[Head(txMail)] = thrown[Head(txMail)] + 1 /\ thrown[Head(txMail)] \in Nat
        BY <1>1, <2>1, <2>2, CountAt DEF One
      <3>2. thrown'[Head(txMail)] = 0
        BY <2>2 DEF NoneThrown
      <3> QED BY <3>1, <3>2
    <2>4. Of(txMail, f) = Of(txMail', f) + One(msg, f)
      BY <1>1, <2>1, <2>3, OfTail
    <2>5. txMail' \in Seq(Frames)
      BY <1>1, <2>1, HeadTailTyped
    <2>6. Of(txMail', f) \in Nat
      BY <2>5, OfTyped
    <2>7. h = 0 /\ hNext = One(msg, f)
      BY <2>1 DEF h, hNext, InHand, Writing, One
    <2> QED BY <1>2, <1>4, <1>5, <1>6, <2>1, <2>3, <2>4, <2>6, <2>7 DEF One
  <1>13. CASE Request
    <2> DEFINE e == [box |-> box, frame |-> pTxMsg]
    <2>1. /\ pc = "request" /\ pc' \in {"pull", "idle"} /\ pTxMsg \in Frames /\ box \in Mailboxes
          /\ sending' = Append(sending, e)
          /\ UNCHANGED <<txMail, sent, aborted, dropped, thrown, pushed>>
      BY <1>13 DEF Request, Goto, Release, boundVars, txHistory, PoolInv, Types, TypeOK, Places, Writing
    <2>2. e \in Entry /\ e.frame = pTxMsg
      BY <2>1 DEF Entry
    <2>3. OfBox(sending', f) = OfBox(sending, f) + One(pTxMsg, f)
      BY <1>1, <2>1, <2>2, OfBoxAppend
    <2>4. h = One(pTxMsg, f) /\ hNext = 0
      BY <2>1 DEF h, hNext, InHand, Writing, One
    <2> QED BY <1>2, <1>4, <1>5, <1>6, <2>1, <2>3, <2>4 DEF One
  <1>14. CASE Drain
    <2>1. pc = "drain" /\ UNCHANGED <<sending, sent, aborted, dropped, thrown, pushed>>
      BY <1>14 DEF Drain, cellVars, boundVars, txHistory
    <2>2. CASE txMail # <<>> /\ pTxMsg' = Head(txMail) /\ txMail' = Tail(txMail) /\ pc' = "write"
      <3>1. Of(txMail, f) = Of(txMail', f) + One(Head(txMail), f)
        BY <1>1, <2>2, OfTail
      <3>2. txMail' \in Seq(Frames)
        BY <1>1, <2>2, HeadTailTyped
      <3>3. Of(txMail', f) \in Nat
        BY <3>2, OfTyped
      <3>4. h = 0 /\ hNext = One(Head(txMail), f)
        BY <2>1, <2>2 DEF h, hNext, InHand, Writing, One
      <3> QED BY <1>2, <1>4, <1>5, <1>6, <2>1, <3>1, <3>3, <3>4 DEF One
    <2>3. CASE pc' = "pull" /\ UNCHANGED <<pTxMsg, txMail>>
      <3>1. hNext = h
        BY <2>1, <2>3 DEF h, hNext, InHand, Writing
      <3> QED BY <1>7, <2>1, <2>3, <3>1
    <2> QED BY <1>14, <2>2, <2>3 DEF Drain, Goto
  <1>15. ASSUME NEW isr, NEW n, Handler(isr, n) PROVE Copies(f)' = SumNext
    <2>1. UNCHANGED <<threadVars, txMail, pushed, dropped, thrown>>
      BY <1>15 DEF Handler
    <2>2. hNext = h
      BY <2>1 DEF h, hNext, InHand, Writing, threadVars
    <2>3. CASE UNCHANGED <<sending, sent, aborted>>
      BY <1>7, <2>1, <2>2, <2>3
    <2>4. ASSUME NEW i \in DOMAIN sending,
                 sending' = Cut(sending, i),
                 \/ aborted' = Count(aborted, sending[i].frame) /\ UNCHANGED sent
                 \/ sent' = Count(sent, sending[i].frame) /\ UNCHANGED aborted
          PROVE  Copies(f)' = SumNext
      <3>1. i \in 1 .. Len(sending)
        BY <1>1
      <3>2. OfBox(sending, f) = OfBox(sending', f) + One(sending[i].frame, f)
        BY <1>1, <2>4, <3>1, OfBoxCut
      <3>3. sending' \in Seq(Entry)
        BY <1>1, <2>4, <3>1, CutFacts
      <3>4. OfBox(sending', f) \in Nat
        BY <3>3, OfBoxTyped
      <3>5. sending[i].frame \in Frames
        <4>1. sending[i] \in Entry
          BY <1>1, ElementTyped
        <4> QED BY <4>1 DEF Entry
      <3>6. /\ sent'[f] \in Nat /\ aborted'[f] \in Nat
            /\ sent'[f] + aborted'[f] = sent[f] + aborted[f] + One(sending[i].frame, f)
        <4>1. CASE aborted' = Count(aborted, sending[i].frame) /\ UNCHANGED sent
          <5>1. aborted'[f] \in Nat /\ aborted'[f] = aborted[f] + One(sending[i].frame, f)
            BY <1>1, <3>5, <4>1, CountAt
          <5> QED BY <1>2, <4>1, <5>1 DEF One
        <4>2. CASE sent' = Count(sent, sending[i].frame) /\ UNCHANGED aborted
          <5>1. sent'[f] \in Nat /\ sent'[f] = sent[f] + One(sending[i].frame, f)
            BY <1>1, <3>5, <4>2, CountAt
          <5> QED BY <1>2, <4>2, <5>1 DEF One
        <4> QED BY <2>4, <4>1, <4>2
      <3> QED BY <1>2, <1>3, <1>4, <1>5, <1>6, <2>1, <2>2, <3>2, <3>4, <3>6 DEF One
    <2>5. ASSUME NEW g, ErrorCallback(g) PROVE Copies(f)' = SumNext
      BY <2>3, <2>4, <2>5 DEF ErrorCallback, cellVars, Cut
    <2>6. \/ ErrorCallback([AfterReceive(isr, n) EXCEPT !.ErrorCode = TRUE, !.State = "READY"])
          \/ UNCHANGED <<cellVars, wr_sem, sent, aborted>>
      BY <1>15 DEF Handler
    <2> QED BY <2>3, <2>5, <2>6 DEF cellVars
  <1>16. CASE TransferIrq \/ ErrorIrq
    BY <1>15, <1>16 DEF TransferIrq, ErrorIrq
  <1>17. CASE Transmitted
    <2>1. /\ sending # <<>> /\ sending' = Tail(sending) /\ sent' = Count(sent, Head(sending).frame)
          /\ UNCHANGED <<threadVars, txMail, aborted, dropped, thrown, pushed>>
      BY <1>17 DEF Transmitted, mailVars, boundVars
    <2>2. hNext = h
      BY <2>1 DEF h, hNext, InHand, Writing, threadVars
    <2>3. Head(sending) \in Entry /\ sending' \in Seq(Entry)
      BY <1>1, <2>1, HeadTailTyped
    <2>4. OfBox(sending, f) = OfBox(sending', f) + One(Head(sending).frame, f)
      BY <1>1, <2>1, OfBoxTail
    <2>5. OfBox(sending', f) \in Nat
      BY <2>3, OfBoxTyped
    <2>6. Head(sending).frame \in Frames
      BY <2>3 DEF Entry
    <2>7. sent'[f] \in Nat /\ sent'[f] = sent[f] + One(Head(sending).frame, f)
      BY <1>1, <1>2, <2>1, <2>6, CountAt
    <2>8. Copies(f)' = Copies(f)
      <3>1. aborted'[f] = aborted[f] /\ dropped'[f] = dropped[f] /\ txMail' = txMail
        BY <2>1
      <3> QED BY <1>2, <1>3, <1>4, <1>5, <2>2, <2>4, <2>5, <2>7, <3>1 DEF One
    <2> QED BY <1>6, <2>1, <2>8
  <1>18. CASE BusError \/ Arrive \/ UNCHANGED vars
    <2>1. UNCHANGED <<threadVars, txMail, sending, sent, aborted, dropped, thrown, pushed>>
      BY <1>18 DEF BusError, Arrive, vars, mailVars, cellVars, boundVars, txHistory
    <2>2. hNext = h
      BY <2>1 DEF h, hNext, InHand, Writing, threadVars
    <2> QED BY <1>7, <2>1, <2>2
  <1> QED BY <1>8, <1>9, <1>10, <1>11, <1>12, <1>13, <1>14, <1>16, <1>17, <1>18 DEF Next, ThreadStep

(* As long as CAN_push has thrown no frame out of the queue, each frame     *)
(* given to it is in one place, or has left in one way: the queue, the      *)
(* buffer, the mailboxes and the interrupts lose and double none.           *)
THEOREM CopiesCorrect == Spec => []OneCopyUnlessThrown
  <1>1. Init => CopyInv
    BY CopyInit
  <1>2. PoolInv /\ CopyInv /\ [Next]_vars => CopyInv'
    BY CopyStep
  <1>3. PoolInv /\ CopyInv => OneCopyUnlessThrown
    <2> SUFFICES ASSUME PoolInv, CopyInv, NoneThrown, NEW f \in 1 .. pushed PROVE Copies(f) = 1
      BY DEF OneCopyUnlessThrown, NoneThrown
    <2>1. pushed \in 0 .. MaxFrames
      BY DEF PoolInv, Types, TypeOK
    <2>2. f \in Frames /\ f <= pushed
      BY <2>1, SizeAssumption DEF Frames
    <2> QED BY <2>2 DEF CopyInv
  <1> QED BY <1>1, <1>2, <1>3, PoolAlways, PTL DEF Spec

----------------------------------------------------------------------------
(* RequestPath: what the unit makes of the frames.                          *)

(* The entries of the plan, and where each thread is with them.            *)
FrameOf(e, p) == [entry |-> e, part |-> p]
Given(e, p) == e.nth < nth[e.by] \/ (e.nth = nth[e.by] /\ p < part[e.by])

Numbered ==
  /\ nth \in [Senders -> Nat] /\ part \in [Senders -> Nat]
  /\ \A t \in Senders : nth[t] \in DOMAIN Plan[t] => part[t] <= Plan[t][nth[t]]

(* The frames pushed are the parts given so far, each once and in order;   *)
(* without a second thread between them, those of an entry follow one      *)
(* another.                                                                *)
InParts ==
  /\ frame \in Seq([entry: Entries, part: Nat]) /\ Len(frame) = pushed
  /\ \A f \in 1 .. pushed :
       frame[f].part <= Last(frame[f].entry) /\ Given(frame[f].entry, frame[f].part)
  /\ \A e \in Entries : \A p \in 0 .. Last(e) : Given(e, p) => \E f \in 1 .. pushed : frame[f] = FrameOf(e, p)
  /\ \A f, g \in 1 .. pushed :
       frame[f].entry = frame[g].entry => (f < g <=> frame[f].part < frame[g].part)
  /\ ~interleaved => \A f \in 1 .. pushed : frame[f].part > 0 =>
       f > 1 /\ frame[f - 1] = FrameOf(frame[f].entry, frame[f].part - 1)

(* The unit has received the first r frames; what it has of them.          *)
Prefix(r) == \A f \in 1 .. pushed : sent[f] = IF f <= r THEN 1 ELSE 0

Completed(r) == {f \in 1 .. r : frame[f].part = Last(frame[f].entry)}

Assembled(r) ==
  /\ r > 0 =>
       /\ rxEntry.head = frame[r].entry
       /\ \A p \in 0 .. frame[r].part : rxEntry.from[p] = rxEntry.head
       /\ Last(rxEntry.head) > 0 => tag = frame[r].part + 1 .. Last(rxEntry.head)
  /\ \A i \in DOMAIN handed :
       handed[i].own /\ \E f \in Completed(r) : handed[i].entry = frame[f].entry
  /\ \A i, j \in DOMAIN handed : handed[i].entry = handed[j].entry => i = j
  /\ \A f \in Completed(r) : \E i \in DOMAIN handed : handed[i].entry = frame[f].entry

InOrder ==
  Lost \/ overtaken \/ interleaved \/ \E r \in 0 .. pushed : Prefix(r) /\ Assembled(r)

UnitTyped ==
  /\ rxEntry \in [head: Entries \cup {NoEntry}, from: [Parts -> Entries \cup {NoEntry}]]
  /\ handed \in Seq([entry: Entries, own: BOOLEAN])


LEMMA CountGrows ==
  ASSUME NEW h \in [Frames -> Nat], NEW g, NEW f \in Frames PROVE h[f] <= Count(h, g)[f]
<1>1. Count(h, g)[f] = IF f = g THEN h[f] + 1 ELSE h[f]
  BY DEF Count
<1> QED
  BY <1>1

(* A frame that was lost stays lost, and one frame at most is sent in a    *)
(* step.                                                                   *)
LEMMA HistoryGrows ==
  ASSUME PoolInv, [Next]_vars
  PROVE  /\ \A f \in Frames : thrown[f] <= thrown'[f] /\ aborted[f] <= aborted'[f] /\ dropped[f] <= dropped'[f]
         /\ sent' = sent \/ \E f \in Frames : sent' = Count(sent, f)
<1>1. /\ sent \in [Frames -> Nat] /\ aborted \in [Frames -> Nat]
      /\ dropped \in [Frames -> Nat] /\ thrown \in [Frames -> Nat]
      /\ sending \in Seq([box: Mailboxes, frame: Frames])
  BY DEF PoolInv, Types, TypeOK
<1>2. \A f \in Frames : thrown[f] <= thrown[f] /\ aborted[f] <= aborted[f] /\ dropped[f] <= dropped[f]
  BY <1>1
<1>3. ASSUME NEW isr, NEW n, Handler(isr, n)
      PROVE  /\ UNCHANGED <<thrown, dropped>> /\ \A f \in Frames : aborted[f] <= aborted'[f]
             /\ sent' = sent \/ \E f \in Frames : sent' = Count(sent, f)
  <2>1. UNCHANGED <<thrown, dropped>>
    BY <1>3 DEF Handler
  <2>2. \/ UNCHANGED <<sent, aborted>>
        \/ \E i \in DOMAIN sending :
             \/ aborted' = Count(aborted, sending[i].frame) /\ UNCHANGED sent
             \/ sent' = Count(sent, sending[i].frame) /\ UNCHANGED aborted
    BY <1>3 DEF Handler, ErrorCallback
  <2>3. ASSUME NEW i \in DOMAIN sending PROVE sending[i].frame \in Frames
    <3>1. sending[i] \in Entry
      BY <1>1, ElementTyped DEF Entry
    <3> QED
      BY <3>1 DEF Entry
  <2> QED
    BY <1>1, <1>2, <2>1, <2>2, <2>3, CountGrows
<1>4. CASE TransferIrq \/ ErrorIrq
  BY <1>2, <1>3, <1>4 DEF TransferIrq, ErrorIrq
<1>5. CASE Queue \/ GetOldest
  <2>1. UNCHANGED <<sent, aborted>> /\ (thrown' = thrown \/ \E f : thrown' = Count(thrown, f))
        /\ (dropped' = dropped \/ \E f : dropped' = Count(dropped, f))
    BY <1>5 DEF Queue, GetOldest, txHistory
  <2> QED
    BY <1>1, <1>2, <2>1, CountGrows
<1>6. CASE Transmitted
  <2>1. sending # <<>> /\ sent' = Count(sent, Head(sending).frame) /\ UNCHANGED <<aborted, dropped, thrown>>
    BY <1>6 DEF Transmitted
  <2>2. Head(sending).frame \in Frames
    <3>1. Head(sending) \in Entry
      BY <1>1, <2>1, HeadTailTyped DEF Entry
    <3> QED
      BY <3>1 DEF Entry
  <2> QED
    BY <1>2, <2>1, <2>2
<1>7. CASE UNCHANGED txHistory
  BY <1>2, <1>7 DEF txHistory
<1>8. \/ UNCHANGED txHistory \/ Queue \/ GetOldest \/ TransferIrq \/ ErrorIrq \/ Transmitted
  BY DEF Next, ThreadStep, Send, Poll, TryDirect, Retry, SelectMailbox, ReadState, UpdateState, Unlock,
         Enable, Request, Drain, Pull, PullFree, BusError, Arrive, vars
<1> QED
  BY <1>4, <1>5, <1>6, <1>7, <1>8

(* Entries are what the plan says.                                         *)
LEMMA PlanFacts ==
  /\ \A e \in Entries :
       /\ e.by \in Senders /\ e.nth \in DOMAIN Plan[e.by] /\ e.nth \in Nat
       /\ e = [by |-> e.by, nth |-> e.nth] /\ e # NoEntry
       /\ Last(e) = Plan[e.by][e.nth] /\ Last(e) \in Nat
       /\ 0 .. Last(e) \subseteq Parts
  /\ \A t \in Senders : \A i \in DOMAIN Plan[t] : [by |-> t, nth |-> i] \in Entries
  /\ 0 \in Parts /\ Parts \subseteq Nat
<1>1. \A t \in Senders : Plan[t] \in Seq(Nat)
  BY PlanAssumption
<1>2. ASSUME NEW e \in Entries
      PROVE  /\ e.by \in Senders /\ e.nth \in DOMAIN Plan[e.by] /\ e.nth \in Nat
             /\ e = [by |-> e.by, nth |-> e.nth] /\ e # NoEntry
             /\ Last(e) = Plan[e.by][e.nth] /\ Last(e) \in Nat
             /\ 0 .. Last(e) \subseteq Parts
  <2>1. PICK t \in Senders : e \in EntriesOf(t)
    BY DEF Entries
  <2>2. PICK i \in DOMAIN Plan[t] : e = [by |-> t, nth |-> i]
    BY <2>1 DEF EntriesOf
  <2>3. e # NoEntry
    BY NoEntryAssumption
  <2>4. i \in Nat /\ Plan[t][i] \in Nat
    BY <1>1, <2>2
  <2>5. 0 .. Last(e) \subseteq Parts
    BY DEF Parts
  <2> QED
    BY <2>2, <2>3, <2>4, <2>5 DEF Last
<1>3. \A t \in Senders : \A i \in DOMAIN Plan[t] : [by |-> t, nth |-> i] \in Entries
  BY DEF Entries, EntriesOf
<1>4. 0 \in Parts /\ Parts \subseteq Nat
  BY <1>2 DEF Parts
<1> QED
  BY <1>2, <1>3, <1>4


LEMMA FrameFacts ==
  ASSUME InParts, PoolInv
  PROVE  /\ pushed \in Nat /\ pushed <= MaxFrames /\ DOMAIN frame = 1 .. pushed
         /\ \A f \in 1 .. pushed :
              /\ f \in Frames /\ frame[f].entry \in Entries /\ frame[f].part \in 0 .. Last(frame[f].entry)
              /\ frame[f] = FrameOf(frame[f].entry, frame[f].part)
         /\ \A f, g \in 1 .. pushed : frame[f] = frame[g] => f = g
<1>1. pushed \in 0 .. MaxFrames /\ MaxFrames \in Nat
  BY SizeAssumption DEF PoolInv, Types, TypeOK
<1>2. frame \in Seq([entry: Entries, part: Nat]) /\ Len(frame) = pushed
  BY DEF InParts
<1>3. \A f \in 1 .. pushed : frame[f] \in [entry: Entries, part: Nat] /\ f \in Frames
  <2>1. DOMAIN frame = 1 .. pushed
    BY <1>2
  <2>2. \A f \in 1 .. pushed : frame[f] \in [entry: Entries, part: Nat]
    BY <1>2, <2>1, ElementTyped
  <2>3. 1 .. pushed \subseteq Frames
    BY <1>1 DEF Frames
  <2> QED
    BY <2>2, <2>3
<1>4. ASSUME NEW f \in 1 .. pushed
      PROVE  frame[f].entry \in Entries /\ frame[f].part \in 0 .. Last(frame[f].entry)
             /\ frame[f] = FrameOf(frame[f].entry, frame[f].part)
  <2>1. frame[f].entry \in Entries /\ frame[f].part \in Nat
        /\ frame[f] = FrameOf(frame[f].entry, frame[f].part)
    BY <1>3 DEF FrameOf
  <2>2. frame[f].part <= Last(frame[f].entry) /\ Last(frame[f].entry) \in Nat
    BY <2>1, PlanFacts DEF InParts
  <2> QED
    BY <2>1, <2>2
<1>5. ASSUME NEW f \in 1 .. pushed, NEW g \in 1 .. pushed, frame[f] = frame[g] PROVE f = g
  <2>1. (f < g <=> frame[f].part < frame[g].part) /\ (g < f <=> frame[g].part < frame[f].part)
    BY <1>5 DEF InParts
  <2>2. frame[f].part \in Nat /\ frame[g].part = frame[f].part
    BY <1>4, <1>5
  <2> QED
    BY <1>1, <2>1, <2>2
<1> QED
  BY <1>1, <1>2, <1>3, <1>4, <1>5

(* Transmit gives the next part of its entry.                              *)
LEMMA TransmitGives ==
  ASSUME PoolInv, Numbered, InParts, NEW t \in Senders, Transmit(t)
  PROVE  Numbered' /\ InParts'
<1> DEFINE e == Current(t)
           p == part[t]
           n == pushed + 1
<1>1. /\ nth[t] \in DOMAIN Plan[t] /\ pushed' = n /\ frame' = Append(frame, FrameOf(e, p))
      /\ interleaved' = (interleaved \/ (part[t] > 0 /\ ~Follows(t)))
      /\ \/ /\ part[t] < Plan[t][nth[t]]
            /\ part' = [part EXCEPT ![t] = part[t] + 1] /\ nth' = nth
         \/ /\ part[t] = Plan[t][nth[t]]
            /\ part' = [part EXCEPT ![t] = 0] /\ nth' = [nth EXCEPT ![t] = nth[t] + 1]
  BY DEF Transmit, Send, FrameOf
<1>2. /\ e \in Entries /\ e.by = t /\ e.nth = nth[t] /\ Last(e) = Plan[t][nth[t]] /\ Last(e) \in Nat
      /\ nth \in [Senders -> Nat] /\ part \in [Senders -> Nat] /\ p \in Nat /\ nth[t] \in Nat /\ p <= Last(e)
  <2>1. e \in Entries /\ e.by = t /\ e.nth = nth[t]
    BY <1>1, PlanFacts DEF Current
  <2> QED
    BY <1>1, <2>1, PlanFacts DEF Numbered
<1>3. /\ pushed \in Nat /\ frame \in Seq([entry: Entries, part: Nat]) /\ Len(frame) = pushed
  BY FrameFacts DEF InParts
<1>4. FrameOf(e, p) \in [entry: Entries, part: Nat] /\ FrameOf(e, p).entry = e /\ FrameOf(e, p).part = p
  BY <1>2 DEF FrameOf
<1>5. /\ frame' \in Seq([entry: Entries, part: Nat]) /\ Len(frame') = n
      /\ frame'[n] = FrameOf(e, p) /\ \A f \in 1 .. pushed : frame'[f] = frame[f]
  <2> HIDE DEF e, p
  <2> QED
    BY <1>1, <1>3, <1>4
<1> HIDE DEF e, p, n
<1>6. /\ part' \in [Senders -> Nat] /\ nth' \in [Senders -> Nat]
      /\ \A u \in Senders : u # t => part'[u] = part[u] /\ nth'[u] = nth[u]
      /\ \/ p < Last(e) /\ part'[t] = p + 1 /\ nth'[t] = nth[t]
         \/ p = Last(e) /\ part'[t] = 0 /\ nth'[t] = nth[t] + 1
  <2>1. p = part[t]
    BY DEF p
  <2>2. CASE part[t] < Plan[t][nth[t]] /\ part' = [part EXCEPT ![t] = part[t] + 1] /\ nth' = nth
    BY <1>2, <2>1, <2>2
  <2>3. CASE part[t] = Plan[t][nth[t]] /\ part' = [part EXCEPT ![t] = 0]
             /\ nth' = [nth EXCEPT ![t] = nth[t] + 1]
    BY <1>2, <2>1, <2>3
  <2> QED
    BY <1>1, <2>2, <2>3
<1>7. Numbered'
  <2>1. ASSUME NEW u \in Senders, nth'[u] \in DOMAIN Plan[u] PROVE part'[u] <= Plan[u][nth'[u]]
    <3>1. CASE u # t
      BY <1>6, <2>1, <3>1 DEF Numbered
    <3>2. CASE u = t /\ p < Last(e) /\ part'[t] = p + 1 /\ nth'[t] = nth[t]
      BY <1>2, <3>2
    <3>3. CASE u = t /\ part'[t] = 0
      <4>1. Plan[u] \in Seq(Nat)
        BY PlanAssumption
      <4>2. Plan[u][nth'[u]] \in Nat
        BY <2>1, <4>1
      <4> QED
        BY <3>3, <4>2
    <3> QED
      BY <1>6, <3>1, <3>2, <3>3
  <2> QED
    BY <1>6, <2>1 DEF Numbered
<1>8. ASSUME NEW d \in Entries, NEW q \in Nat, q <= Last(d)
      PROVE  Given(d, q)' <=> Given(d, q) \/ (d = e /\ q = p)
  <2>1. d.by \in Senders /\ d.nth \in Nat /\ d = [by |-> d.by, nth |-> d.nth]
        /\ e = [by |-> t, nth |-> nth[t]] /\ Last(d) \in Nat
    BY PlanFacts DEF e, Current
  <2>2. CASE d.by # t
    BY <1>2, <1>6, <2>1, <2>2 DEF Given
  <2>3. CASE d.by = t /\ d.nth # nth[t]
    BY <1>2, <1>6, <2>1, <2>3 DEF Given
  <2>4. CASE d = e
    <3>1. d.by = t /\ d.nth = nth[t] /\ p = part[t] /\ q <= Last(e)
      BY <1>2, <1>8, <2>4 DEF p
    <3>2. (Given(d, q) <=> q < p) /\ (Given(d, q)' <=> nth[t] < nth'[t] \/ (nth[t] = nth'[t] /\ q < part'[t]))
      BY <1>2, <3>1 DEF Given
    <3>3. CASE p < Last(e) /\ part'[t] = p + 1 /\ nth'[t] = nth[t]
      <4>1. q < p + 1 <=> q < p \/ q = p
        BY <1>2, <1>8
      <4> QED
        BY <1>2, <2>4, <3>2, <3>3, <4>1
    <3>4. CASE p = Last(e) /\ nth'[t] = nth[t] + 1
      <4>1. nth[t] < nth'[t] /\ (q < p \/ q = p)
        BY <1>2, <1>8, <3>1, <3>4
      <4> QED
        BY <2>4, <3>2, <4>1
    <3> QED
      BY <1>6, <3>3, <3>4
  <2> QED
    BY <2>1, <2>2, <2>3, <2>4
<1>9. ~Given(e, p)
  BY <1>2 DEF Given, p
<1>10. ASSUME NEW f \in 1 .. pushed
       PROVE  /\ f \in 1 .. n /\ f < n /\ frame[f].entry \in Entries /\ frame[f].part \in Nat
              /\ frame[f].part <= Last(frame[f].entry) /\ Given(frame[f].entry, frame[f].part)
              /\ frame[f].entry = e => frame[f].part < p
  <2>1. /\ frame[f].entry \in Entries /\ frame[f].part \in Nat
        /\ frame[f].part <= Last(frame[f].entry) /\ Given(frame[f].entry, frame[f].part)
    BY FrameFacts DEF InParts
  <2>2. f \in 1 .. n /\ f < n
    BY <1>3 DEF n
  <2>3. frame[f].entry = e => frame[f].part < p
    BY <1>2, <2>1 DEF Given, p
  <2> QED
    BY <2>1, <2>2, <2>3
<1>11. n \in 1 .. n /\ n \in Nat /\ \A f \in 1 .. n : f = n \/ f \in 1 .. pushed
  BY <1>3 DEF n
<1>12. ASSUME NEW f \in 1 .. n
       PROVE  LET d == frame'[f].entry
                  q == frame'[f].part
              IN q <= Last(d) /\ (d.nth < nth'[d.by] \/ (d.nth = nth'[d.by] /\ q < part'[d.by]))
  <2>1. PICK d \in Entries, q \in Nat : d = frame'[f].entry /\ q = frame'[f].part /\ q <= Last(d)
                                     /\ (Given(d, q) \/ (d = e /\ q = p))
    BY <1>2, <1>4, <1>5, <1>10, <1>11
  <2>2. Given(d, q)'
    BY <1>8, <2>1
  <2>3. d.nth < nth'[d.by] \/ (d.nth = nth'[d.by] /\ q < part'[d.by])
    BY <2>2 DEF Given
  <2> QED
    BY <2>1, <2>3
<1>13. ASSUME NEW d \in Entries, NEW q \in 0 .. Last(d), Given(d, q)'
       PROVE  \E f \in 1 .. n : frame'[f] = FrameOf(d, q)
  <2>1. q \in Nat /\ q <= Last(d)
    BY PlanFacts
  <2>2. CASE Given(d, q)
    <3>1. PICK f \in 1 .. pushed : frame[f] = FrameOf(d, q)
      BY <2>2 DEF InParts
    <3> QED
      BY <1>5, <1>10, <3>1
  <2>3. CASE d = e /\ q = p
    BY <1>5, <1>11, <2>3
  <2> QED
    BY <1>8, <1>13, <2>1, <2>2, <2>3
<1>14. ASSUME NEW f \in 1 .. n, NEW g \in 1 .. n, frame'[f].entry = frame'[g].entry
       PROVE  f < g <=> frame'[f].part < frame'[g].part
  <2>1. CASE f \in 1 .. pushed /\ g \in 1 .. pushed
    BY <1>5, <1>14, <2>1 DEF InParts
  <2>2. CASE f \in 1 .. pushed /\ g = n
    <3>1. frame'[f].part < p /\ f < n
      BY <1>4, <1>5, <1>10, <1>14, <2>2
    <3> QED
      BY <1>4, <1>5, <2>2, <3>1
  <2>3. CASE f = n /\ g \in 1 .. pushed
    <3>1. frame[g].part < p /\ g < n /\ frame[g].part \in Nat /\ frame'[g].part = frame[g].part
      BY <1>4, <1>5, <1>10, <1>14, <2>3
    <3>2. ~(n < g) /\ ~(p < frame[g].part)
      BY <1>2, <1>11, <3>1
    <3> QED
      BY <1>4, <1>5, <2>3, <3>1, <3>2
  <2>4. CASE f = n /\ g = n
    BY <1>2, <1>4, <1>5, <1>11, <2>4
  <2> QED
    BY <1>11, <2>1, <2>2, <2>3, <2>4
<1>15. ASSUME ~interleaved', NEW f \in 1 .. n, frame'[f].part > 0
       PROVE  f > 1 /\ frame'[f - 1] = FrameOf(frame'[f].entry, frame'[f].part - 1)
  <2>1. ~interleaved /\ (part[t] > 0 => Follows(t))
    BY <1>1, <1>15
  <2>2. CASE f \in 1 .. pushed
    <3>1. f > 1 /\ frame[f - 1] = FrameOf(frame[f].entry, frame[f].part - 1)
      BY <1>5, <1>15, <2>1, <2>2 DEF InParts
    <3>2. f - 1 \in 1 .. pushed
      BY <1>3, <2>2, <3>1
    <3> QED
      BY <1>5, <2>2, <3>1, <3>2
  <2>3. CASE f = n
    <3>1. frame # <<>> /\ frame[pushed] = FrameOf(e, p - 1)
      BY <1>3, <1>4, <1>5, <1>15, <2>1, <2>3 DEF Follows, FrameOf, e, p
    <3>2. pushed \in 1 .. pushed /\ n - 1 = pushed /\ n > 1
      BY <1>3, <3>1 DEF n
    <3> QED
      BY <1>4, <1>5, <2>3, <3>1, <3>2
  <2> QED
    BY <1>11, <2>2, <2>3
<1>16. pushed' = n
  BY <1>1 DEF n
<1>17. InParts'
  <2>1. \A f \in 1 .. pushed' :
          /\ frame'[f].part <= Last(frame'[f].entry)
          /\ \/ frame'[f].entry.nth < nth'[frame'[f].entry.by]
             \/ /\ frame'[f].entry.nth = nth'[frame'[f].entry.by]
                /\ frame'[f].part < part'[frame'[f].entry.by]
    BY <1>12, <1>16
  <2>2. \A d \in Entries : \A q \in 0 .. Last(d) :
          Given(d, q)' => \E f \in 1 .. pushed' : frame'[f] = FrameOf(d, q)
    BY <1>13, <1>16
  <2>3. \A f, g \in 1 .. pushed' :
          frame'[f].entry = frame'[g].entry => (f < g <=> frame'[f].part < frame'[g].part)
    BY <1>14, <1>16
  <2>4. ~interleaved' => \A f \in 1 .. pushed' : frame'[f].part > 0 =>
          f > 1 /\ frame'[f - 1] = FrameOf(frame'[f].entry, frame'[f].part - 1)
    BY <1>15, <1>16
  <2>5. frame' \in Seq([entry: Entries, part: Nat]) /\ Len(frame') = pushed'
    BY <1>5, <1>16
  <2> QED
    BY <2>1, <2>2, <2>3, <2>4, <2>5 DEF InParts, Given
<1> QED
  BY <1>7, <1>17


(* A frame pushed is on its way or sent, if none was lost.                 *)
LEMMA CopyFacts ==
  ASSUME PoolInv, CopyInv, ~Lost, NEW f \in Frames
  PROVE  /\ sent[f] \in {0, 1}
         /\ f > pushed => sent[f] = 0
         /\ f <= pushed /\ ~(Sending(f) + Held(f) + InHand(f) > 0) => sent[f] = 1
<1>1. /\ sent[f] \in Nat /\ aborted[f] \in Nat /\ dropped[f] \in Nat /\ thrown[f] \in Nat
      /\ \A g \in Frames : aborted[g] \in Nat /\ dropped[g] \in Nat /\ thrown[g] \in Nat
      /\ pushed \in Nat /\ f \in Nat
      /\ txMail \in Seq(Frames) /\ sending \in Seq([box: Mailboxes, frame: Frames])
  BY SizeAssumption DEF PoolInv, Types, TypeOK, Frames
<1>2. Held(f) \in Nat /\ Sending(f) \in Nat /\ InHand(f) \in Nat
  <2>1. Held(f) \in Nat
    BY <1>1, OfTyped DEF Held, Of
  <2>2. Sending(f) \in Nat
    BY <1>1, OfBoxTyped DEF Sending, OfBox
  <2> QED
    BY <2>1, <2>2 DEF InHand
<1>3. \A g \in Frames : thrown[g] = 0 /\ aborted[g] = 0 /\ dropped[g] = 0
  BY <1>1 DEF Lost
<1>4. Copies(f) = IF f <= pushed THEN 1 ELSE 0
  BY <1>3 DEF CopyInv, NoneThrown
<1>5. Held(f) + Sending(f) + InHand(f) + sent[f] = IF f <= pushed THEN 1 ELSE 0
  BY <1>1, <1>2, <1>3, <1>4 DEF Copies
<1> HIDE DEF Held, Sending, InHand
<1> QED
  BY <1>1, <1>2, <1>5

LEMMA LostStays == ASSUME PoolInv, [Next]_vars, Lost PROVE Lost'
<1>1. PICK f \in Frames : thrown[f] + aborted[f] + dropped[f] > 0
  BY DEF Lost
<1>2. thrown[f] \in Nat /\ aborted[f] \in Nat /\ dropped[f] \in Nat
  BY DEF PoolInv, Types, TypeOK
<1>3. thrown[f] <= thrown'[f] /\ aborted[f] <= aborted'[f] /\ dropped[f] <= dropped'[f]
  BY HistoryGrows
<1>4. thrown'[f] \in Nat /\ aborted'[f] \in Nat /\ dropped'[f] \in Nat
  <2>1. PoolInv'
    BY PoolStep
  <2> QED
    BY <2>1 DEF PoolInv, Types, TypeOK, Frames
<1>5. thrown'[f] + aborted'[f] + dropped'[f] > 0
  BY <1>1, <1>2, <1>3, <1>4
<1> QED
  BY <1>5 DEF Lost, Frames

LEMMA PathIsNext ==
  ASSUME [PathNext]_pathVars PROVE [Next]_vars
  BY DEF PathNext, Transmit, Carry, DriverStep, Next, pathVars

LEMMA DriverPushesNone == ASSUME DriverStep PROVE pushed' = pushed
  BY DEF DriverStep, Poll, ThreadStep, TransferIrq, ErrorIrq, Handler, Transmitted, BusError, TryDirect,
         Queue, Retry, GetOldest, SelectMailbox, ReadState, UpdateState, Unlock, Enable, Request, Drain,
         Pull, PullFree, boundVars

LEMMA UnitTypedStep == PoolInv /\ InParts /\ UnitTyped /\ [PathNext]_pathVars => UnitTyped'
<1> SUFFICES ASSUME PoolInv, InParts, UnitTyped, [PathNext]_pathVars PROVE UnitTyped'
  OBVIOUS
<1> DEFINE Rx == [head: Entries \cup {NoEntry}, from: [Parts -> Entries \cup {NoEntry}]]
           Handed == [entry: Entries, own: BOOLEAN]
<1>1. CASE UNCHANGED unitVars
  BY <1>1 DEF unitVars, UnitTyped
<1>2. ASSUME NEW f \in 1 .. pushed, CAN_rx(f) PROVE UnitTyped'
  <2> DEFINE e == frame[f].entry
             p == frame[f].part
  <2>1. e \in Entries
    BY FrameFacts
  <2> HIDE DEF e, p
  <2>2. rxEntry \in Rx /\ handed \in Seq(Handed)
    BY DEF UnitTyped
  <2>3. ASSUME rxEntry' \in Rx, rxEntry'.head \in Entries, HandOver(rxEntry') PROVE UnitTyped'
    <3>1. Whole(rxEntry') \in BOOLEAN
      BY DEF Whole
    <3>2. [entry |-> rxEntry'.head, own |-> Whole(rxEntry')] \in Handed
      BY <2>3, <3>1
    <3> HIDE DEF Handed
    <3>3. handed' \in Seq(Handed)
      BY <2>2, <2>3, <3>2 DEF HandOver
    <3> QED
      BY <2>3, <3>3 DEF UnitTyped, Handed
  <2>4. CASE ReceiveFirst(e)
    <3>1. rxEntry' = [head |-> e, from |-> [rxEntry.from EXCEPT ![0] = e]]
      BY <2>4 DEF ReceiveFirst
    <3>2. rxEntry' \in Rx /\ rxEntry'.head \in Entries
      BY <2>1, <2>2, <3>1
    <3>3. HandOver(rxEntry') \/ handed' = handed
      BY <2>4 DEF ReceiveFirst
    <3> QED
      BY <2>2, <2>3, <3>2, <3>3 DEF UnitTyped
  <2>5. CASE p > 0 /\ ReceivePart(e, p)
    <3>1. CASE rxEntry' = rxEntry /\ handed' = handed
      BY <2>2, <3>1 DEF UnitTyped
    <3>2. CASE rxEntry' = [rxEntry EXCEPT !.from[p] = e] /\ p <= Last(rxEntry.head)
      <4>1. rxEntry' \in Rx /\ rxEntry'.head = rxEntry.head
        BY <2>1, <2>2, <3>2
      <4>2. rxEntry.head # NoEntry
        <5>1. p \in Nat
          BY FrameFacts, PlanFacts DEF p
        <5> QED
          BY <2>5, <3>2, <5>1 DEF Last
      <4>3. rxEntry'.head \in Entries
        BY <2>2, <4>1, <4>2
      <4>4. HandOver(rxEntry') \/ handed' = handed
        BY <2>5 DEF ReceivePart
      <4> QED
        BY <2>2, <2>3, <4>1, <4>3, <4>4 DEF UnitTyped
    <3> QED
      BY <2>5, <3>1, <3>2 DEF ReceivePart
  <2>6. ReceiveFirst(e) \/ (p > 0 /\ ReceivePart(e, p))
    BY <1>2 DEF CAN_rx, e, p
  <2> QED
    BY <2>4, <2>5, <2>6
<1> QED
  BY <1>1, <1>2 DEF PathNext, Transmit, Carry, pathVars


LEMMA SentAtMostOnce == PoolInv /\ CopyInv /\ ~Lost => \A g \in Frames : sent[g] \in {0, 1}
  BY CopyFacts

(* The unit gets the frames in the order they were pushed in.              *)
LEMMA ReceivesNext ==
  ASSUME PoolInv, CopyInv, InParts, DriverStep, NEW r \in 0 .. pushed, Prefix(r), ~Lost', ~overtaken',
         NEW f \in 1 .. pushed, sent'[f] # sent[f], CAN_rx(f)
  PROVE  f = r + 1 /\ \A g \in 1 .. pushed : sent'[g] = IF g <= r + 1 THEN 1 ELSE 0
<1>1. [Next]_vars
  BY DEF DriverStep, Next
<1>2. PoolInv' /\ CopyInv' /\ ~Lost
  BY <1>1, PoolStep, CopyStep, LostStays
<1>3. pushed \in Nat /\ \A g \in 1 .. pushed : g \in Frames /\ g <= pushed /\ g \in Nat
  BY FrameFacts
<1>4. pushed' = pushed
  BY DriverPushesNone
<1>5. ASSUME NEW g \in 1 .. f - 1 PROVE g <= r
  <2>1. g \in 1 .. pushed /\ g \in Frames
    BY <1>3
  <2>2. ~(Sending(g) + Held(g) + InHand(g) > 0)
    BY DEF CAN_rx
  <2>3. sent[g] = 1
    BY <1>2, <1>3, <2>1, <2>2, CopyFacts
  <2> QED
    BY <2>1, <2>3 DEF Prefix
<1>6. sent[f] \in {0, 1} /\ f \in Frames
  BY <1>2, <1>3, CopyFacts
<1>7. sent'[f] \in {0, 1}
  <2>1. f \in Frames
    BY <1>3
  <2>2. (\A g \in Frames : sent[g] \in {0, 1})'
    BY <1>2, SentAtMostOnce, PTL
  <2> QED
    BY <2>1, <2>2 DEF Frames
<1>8. PICK h \in Frames : sent' = Count(sent, h)
  BY <1>1, HistoryGrows
<1>9. sent \in [Frames -> Nat]
  BY DEF PoolInv, Types, TypeOK
<1>10. h = f /\ sent'[f] = sent[f] + 1 /\ \A g \in Frames : g # f => sent'[g] = sent[g]
  BY <1>6, <1>8, <1>9 DEF Count
<1>11. sent[f] = 0 /\ sent'[f] = 1
  BY <1>6, <1>7, <1>10
<1>12. ~(f <= r)
  BY <1>11 DEF Prefix
<1>13. f = r + 1
  <2>1. CASE f - 1 \in 1 .. f - 1
    <3>1. f - 1 <= r
      BY <1>5, <2>1
    <3> QED
      BY <1>3, <1>12, <3>1
  <2>2. CASE f - 1 \notin 1 .. f - 1
    <3>1. f = 1
      BY <1>3, <2>2
    <3> QED
      BY <1>3, <1>12, <3>1
  <2> QED
    BY <2>1, <2>2
<1>14. ASSUME NEW g \in 1 .. pushed PROVE sent'[g] = IF g <= r + 1 THEN 1 ELSE 0
  <2>1. g \in Frames /\ g \in Nat
    BY <1>3
  <2>2. CASE g = f
    BY <1>11, <1>13, <2>1, <2>2
  <2>3. CASE g # f
    <3>1. sent'[g] = sent[g] /\ sent[g] = IF g <= r THEN 1 ELSE 0
      BY <1>10, <2>1, <2>3 DEF Prefix
    <3>2. g <= r + 1 <=> g <= r
      BY <1>3, <1>13, <2>1, <2>3
    <3> QED
      BY <3>1, <3>2
  <2> QED
    BY <2>2, <2>3
<1> QED
  BY <1>13, <1>14

(* CAN_rx makes of the next frame what is due.                             *)
LEMMA Assembles ==
  ASSUME PoolInv, InParts, UnitTyped, NEW r \in 0 .. pushed, Assembled(r), ~interleaved,
         NEW s \in 1 .. pushed, s = r + 1, CAN_rx(s), UNCHANGED frame
  PROVE  Assembled(s)'
<1> DEFINE e == frame[s].entry
           p == frame[s].part
<1>1. /\ pushed \in Nat /\ r \in Nat /\ s \in Nat /\ s > 0 /\ e \in Entries /\ p \in 0 .. Last(e)
      /\ Last(e) \in Nat /\ p \in Parts /\ 0 \in Parts /\ p \in Nat
  BY FrameFacts, PlanFacts
<1>2. (p = 0 /\ ReceiveFirst(e)) \/ (p > 0 /\ ReceivePart(e, p))
  BY DEF CAN_rx
<1>3. p > 0 => r > 0 /\ r \in 1 .. pushed /\ frame[r].entry = e /\ frame[r].part = p - 1
  <2> SUFFICES ASSUME p > 0 PROVE r > 0 /\ r \in 1 .. pushed /\ frame[r].entry = e /\ frame[r].part = p - 1
    OBVIOUS
  <2>1. s > 1 /\ frame[s - 1] = FrameOf(e, p - 1)
    BY DEF InParts
  <2>2. s - 1 = r
    BY <1>1
  <2> QED
    BY <1>1, <2>1, <2>2 DEF FrameOf
<1>4. /\ rxEntry \in [head: Entries \cup {NoEntry}, from: [Parts -> Entries \cup {NoEntry}]]
      /\ handed \in Seq([entry: Entries, own: BOOLEAN])
  BY DEF UnitTyped
<1>5. \A f \in 1 .. pushed : frame[f].entry = e /\ frame[f].part = p => f = s
  BY FrameFacts
<1>6. /\ r > 0 =>
           /\ rxEntry.head = frame[r].entry
           /\ \A q \in 0 .. frame[r].part : rxEntry.from[q] = rxEntry.head
           /\ Last(rxEntry.head) > 0 => tag = frame[r].part + 1 .. Last(rxEntry.head)
      /\ \A i \in DOMAIN handed :
           handed[i].own /\ \E f \in Completed(r) : handed[i].entry = frame[f].entry
      /\ \A i, j \in DOMAIN handed : handed[i].entry = handed[j].entry => i = j
      /\ \A f \in Completed(r) : \E i \in DOMAIN handed : handed[i].entry = frame[f].entry
  BY DEF Assembled
<1>7. \A f : f \in Completed(s) <=> f \in Completed(r) \/ (f = s /\ p = Last(e))
  BY <1>1 DEF Completed
<1> HIDE DEF e, p
<1>8. /\ rxEntry'.head = e
      /\ \A q \in 0 .. p : rxEntry'.from[q] = e
      /\ Last(e) > 0 => tag' = p + 1 .. Last(e)
      /\ IF p = Last(e) THEN HandOver(rxEntry') ELSE handed' = handed
  <2>1. CASE p = 0
    <3>1. rxEntry' = [head |-> e, from |-> [rxEntry.from EXCEPT ![0] = e]]
      BY <1>2, <2>1 DEF ReceiveFirst
    <3>2. rxEntry.from \in [Parts -> Entries \cup {NoEntry}]
      BY <1>4
    <3>3. rxEntry'.head = e /\ rxEntry'.from[0] = e
      BY <1>1, <3>1, <3>2
    <3> QED
      BY <1>1, <1>2, <2>1, <3>3 DEF ReceiveFirst
  <2>2. CASE p > 0
    <3>1. rxEntry.head = e /\ tag = p .. Last(e) /\ \A q \in 0 .. p - 1 : rxEntry.from[q] = e
      <4>1. Last(e) > 0 /\ p - 1 + 1 = p
        BY <1>1, <2>2
      <4> QED
        BY <1>3, <1>6, <2>2, <4>1
    <3>2. /\ tag' = tag \ {p} /\ rxEntry' = [rxEntry EXCEPT !.from[p] = e]
          /\ (tag' = {} /\ HandOver(rxEntry')) \/ (tag' # {} /\ handed' = handed)
      BY <1>1, <1>2, <2>2, <3>1 DEF ReceivePart
    <3>3. rxEntry'.head = e /\ \A q \in Parts : rxEntry'.from[q] = IF q = p THEN e ELSE rxEntry.from[q]
      BY <1>1, <1>4, <3>1, <3>2
    <3>4. \A q \in 0 .. p : q \in Parts /\ (q = p \/ q \in 0 .. p - 1)
      <4>1. \A q \in 0 .. p : q \in 0 .. Last(e)
        BY <1>1
      <4>2. 0 .. Last(e) \subseteq Parts
        BY <1>1, PlanFacts
      <4> QED
        BY <1>1, <4>1, <4>2
    <3>5. tag' = p + 1 .. Last(e) /\ (tag' = {} <=> p = Last(e))
      BY <1>1, <3>1, <3>2
    <3> QED
      BY <3>1, <3>2, <3>3, <3>4, <3>5
  <2> QED
    BY <1>1, <2>1, <2>2
<1>9. ASSUME p = Last(e)
      PROVE  handed' = Append(handed, [entry |-> e, own |-> TRUE])
  <2>1. Whole(rxEntry') = TRUE
    BY <1>8, <1>9 DEF Whole
  <2> QED
    BY <1>8, <1>9, <2>1 DEF HandOver
<1>10. /\ \A i \in DOMAIN handed' :
            handed'[i].own /\ \E f \in Completed(s) : handed'[i].entry = frame[f].entry
       /\ \A i, j \in DOMAIN handed' : handed'[i].entry = handed'[j].entry => i = j
       /\ \A f \in Completed(s) : \E i \in DOMAIN handed' : handed'[i].entry = frame[f].entry
  <2>1. CASE p # Last(e)
    BY <1>6, <1>7, <1>8, <2>1
  <2>2. CASE p = Last(e)
    <3> DEFINE n == Len(handed) + 1
    <3>1. /\ DOMAIN handed = 1 .. Len(handed) /\ Len(handed) \in Nat /\ DOMAIN handed' = 1 .. n
          /\ handed'[n].entry = e /\ handed'[n].own
          /\ \A i \in 1 .. Len(handed) : handed'[i] = handed[i]
      BY <1>4, <1>9, <2>2
    <3>2. n \in 1 .. n /\ \A i \in 1 .. n : i = n \/ i \in DOMAIN handed
      BY <3>1
    <3>3. \A i \in DOMAIN handed : i \in 1 .. n
      BY <3>1
    <3>4. s \in Completed(s) /\ frame[s].entry = e
      BY <1>7, <2>2 DEF e
    <3>5. ASSUME NEW i \in DOMAIN handed PROVE handed[i].entry # e
      <4> SUFFICES ASSUME handed[i].entry = e PROVE FALSE
        OBVIOUS
      <4>1. PICK f \in Completed(r) : handed[i].entry = frame[f].entry
        BY <1>6
      <4>2. f \in 1 .. r /\ f \in 1 .. pushed /\ frame[f].part = Last(frame[f].entry)
        BY <1>1, <4>1 DEF Completed
      <4>3. f = s
        BY <1>5, <2>2, <4>1, <4>2
      <4> QED
        BY <1>1, <4>2, <4>3
    <3> HIDE DEF n
    <3>6. \A i \in DOMAIN handed' :
            handed'[i].own /\ \E f \in Completed(s) : handed'[i].entry = frame[f].entry
      BY <1>6, <1>7, <3>1, <3>2, <3>4
    <3>7. \A i, j \in DOMAIN handed' : handed'[i].entry = handed'[j].entry => i = j
      BY <1>6, <3>1, <3>2, <3>5
    <3>8. \A f \in Completed(s) : \E i \in DOMAIN handed' : handed'[i].entry = frame[f].entry
      BY <1>6, <1>7, <3>1, <3>2, <3>3, <3>4
    <3> QED
      BY <3>6, <3>7, <3>8
  <2> QED
    BY <2>1, <2>2
<1>11. Completed(s)' = Completed(s)
  BY DEF Completed
<1>12. s > 0 =>
         /\ rxEntry'.head = frame[s].entry
         /\ \A q \in 0 .. frame[s].part : rxEntry'.from[q] = rxEntry'.head
         /\ Last(rxEntry'.head) > 0 => tag' = frame[s].part + 1 .. Last(rxEntry'.head)
  BY <1>8 DEF e, p
<1> QED
  BY <1>10, <1>11, <1>12 DEF Assembled


PathInv == PoolInv /\ CopyInv /\ Numbered /\ InParts /\ UnitTyped /\ InOrder

LEMMA PathStarts == PathInit => PathInv
<1> SUFFICES ASSUME PathInit PROVE PathInv
  OBVIOUS
<1>1. PoolInv /\ CopyInv
  BY TypesInit, CopyInit DEF PathInit
<1>2. /\ pushed = 0 /\ frame = <<>> /\ handed = <<>> /\ nth = [t \in Senders |-> 1]
      /\ part = [t \in Senders |-> 0]
      /\ rxEntry = [head |-> NoEntry, from |-> [p \in Parts |-> NoEntry]]
  BY DEF PathInit, Init
<1>3. Numbered
  <2>1. ASSUME NEW t \in Senders, nth[t] \in DOMAIN Plan[t] PROVE part[t] <= Plan[t][nth[t]]
    <3>1. Plan[t] \in Seq(Nat)
      BY PlanAssumption
    <3> QED
      BY <1>2, <2>1, <3>1
  <2> QED
    BY <1>2, <2>1 DEF Numbered
<1>4. InParts
  <2>1. \A e \in Entries : \A p \in 0 .. Last(e) : ~Given(e, p)
    <3> TAKE e \in Entries
    <3> TAKE p \in 0 .. Last(e)
    <3>1. e.by \in Senders /\ e.nth \in Nat /\ e.nth \in DOMAIN Plan[e.by] /\ Plan[e.by] \in Seq(Nat)
      BY PlanFacts, PlanAssumption
    <3>2. e.nth >= 1 /\ nth[e.by] = 1 /\ part[e.by] = 0
      BY <1>2, <3>1
    <3>3. ~(p < 0)
      BY PlanFacts
    <3> QED
      BY <3>1, <3>2, <3>3 DEF Given
  <2>2. frame \in Seq([entry: Entries, part: Nat]) /\ Len(frame) = 0 /\ 1 .. pushed = {}
    BY <1>2
  <2> QED
    BY <1>2, <2>1, <2>2 DEF InParts
<1>5. UnitTyped
  BY <1>2 DEF UnitTyped
<1>6. Prefix(0) /\ Assembled(0) /\ 0 \in 0 .. pushed
  BY <1>2 DEF Prefix, Assembled, Completed
<1> QED
  BY <1>1, <1>3, <1>4, <1>5, <1>6 DEF PathInv, InOrder

LEMMA InPartsStep ==
  PoolInv /\ Numbered /\ InParts /\ [PathNext]_pathVars => Numbered' /\ InParts'
<1> SUFFICES ASSUME PoolInv, Numbered, InParts, [PathNext]_pathVars PROVE Numbered' /\ InParts'
  OBVIOUS
<1>1. CASE \E t \in Senders : Transmit(t)
  BY <1>1, TransmitGives
<1>2. CASE Carry \/ UNCHANGED pathVars
  <2>1. UNCHANGED <<nth, part, frame, interleaved, pushed>>
    BY <1>2, DriverPushesNone DEF Carry, pathVars, threadPos, vars, boundVars
  <2> QED
    BY <2>1 DEF Numbered, InParts, Given
<1> QED
  BY <1>1, <1>2 DEF PathNext

LEMMA InOrderStep ==
  PoolInv /\ CopyInv /\ Numbered /\ InParts /\ UnitTyped /\ InOrder /\ [PathNext]_pathVars => InOrder'
<1> SUFFICES ASSUME PoolInv, CopyInv, Numbered, InParts, UnitTyped, InOrder, [PathNext]_pathVars,
                    ~Lost', ~overtaken', ~interleaved'
             PROVE  \E r \in 0 .. pushed' : Prefix(r)' /\ Assembled(r)'
  BY DEF InOrder
<1>1. [Next]_vars
  BY PathIsNext
<1>2. ~Lost /\ ~overtaken /\ ~interleaved
  <2>1. ~Lost
    BY <1>1, LostStays
  <2>2. CASE \E t \in Senders : Transmit(t)
    <3>1. overtaken' = overtaken /\ (interleaved => interleaved')
      BY <2>2 DEF Transmit, unitVars
    <3> QED
      BY <2>1, <3>1
  <2>3. CASE Carry
    <3>1. interleaved' = interleaved
      BY <2>3 DEF Carry, threadPos
    <3>2. overtaken => overtaken'
      <4>1. UNCHANGED unitVars \/ \E f \in 1 .. pushed : CAN_rx(f)
        BY <2>3 DEF Carry
      <4>2. ASSUME NEW f \in 1 .. pushed, CAN_rx(f) PROVE overtaken => overtaken'
        BY <4>2, Zenon DEF CAN_rx
      <4> QED
        BY <4>1, <4>2 DEF unitVars
    <3> QED
      BY <2>1, <3>1, <3>2
  <2>4. CASE UNCHANGED pathVars
    BY <2>1, <2>4 DEF pathVars, unitVars, threadPos
  <2> QED
    BY <2>2, <2>3, <2>4 DEF PathNext
<1>3. PICK r \in 0 .. pushed : Prefix(r) /\ Assembled(r)
  BY <1>2 DEF InOrder
<1>4. /\ pushed \in Nat /\ \A f \in 1 .. pushed : f \in Frames
  BY FrameFacts
<1>5. CASE \E t \in Senders : Transmit(t)
  <2>1. PICK t \in Senders : Transmit(t)
    BY <1>5
  <2>2. /\ pushed' = pushed + 1 /\ UNCHANGED <<sent, rxEntry, tag, handed>> /\ pushed < MaxFrames
        /\ frame' = Append(frame, [entry |-> Current(t), part |-> part[t]])
    BY <2>1 DEF Transmit, Send, txHistory, unitVars
  <2>3. \A f \in 1 .. pushed : frame'[f] = frame[f]
    <3>1. frame \in Seq([entry: Entries, part: Nat]) /\ Len(frame) = pushed
      BY DEF InParts
    <3> DEFINE m == [entry |-> Current(t), part |-> part[t]]
    <3>2. frame' = Append(frame, m)
      BY <2>2
    <3> HIDE DEF m
    <3> QED
      BY <3>1, <3>2
  <2>4. Prefix(r)'
    <3>1. pushed + 1 \in Frames /\ pushed + 1 > pushed
      BY <1>4, <2>2, SizeAssumption DEF Frames
    <3>2. sent[pushed + 1] = 0
      BY <1>2, <3>1, CopyFacts
    <3>3. \A f \in 1 .. pushed + 1 : f \in 1 .. pushed \/ f = pushed + 1
      BY <1>4
    <3>4. ~(pushed + 1 <= r)
      BY <1>4
    <3> QED
      BY <1>3, <2>2, <3>2, <3>3, <3>4 DEF Prefix
  <2>5. Assembled(r)'
    <3>1. \A f \in 1 .. r : f \in 1 .. pushed
      BY <1>4
    <3>2. Completed(r)' = Completed(r) /\ \A f \in Completed(r) : f \in 1 .. pushed
      BY <2>3, <3>1 DEF Completed
    <3>3. r > 0 => r \in 1 .. pushed /\ frame'[r] = frame[r]
      BY <1>4, <2>3
    <3>4. /\ \A f \in Completed(r) : frame'[f] = frame[f]
          /\ rxEntry' = rxEntry /\ tag' = tag /\ handed' = handed
      BY <2>2, <2>3, <3>2
    <3>5. \A i \in DOMAIN handed :
            handed[i].own /\ \E f \in Completed(r) : handed[i].entry = frame'[f].entry
      BY <1>3, <3>4 DEF Assembled
    <3>6. \A f \in Completed(r) : \E i \in DOMAIN handed : handed[i].entry = frame'[f].entry
      BY <1>3, <3>4 DEF Assembled
    <3>7. /\ \A i, j \in DOMAIN handed : handed[i].entry = handed[j].entry => i = j
          /\ r > 0 =>
               /\ rxEntry.head = frame'[r].entry
               /\ \A p \in 0 .. frame'[r].part : rxEntry.from[p] = rxEntry.head
               /\ Last(rxEntry.head) > 0 => tag = frame'[r].part + 1 .. Last(rxEntry.head)
      BY <1>3, <3>3 DEF Assembled
    <3> QED
      BY <3>2, <3>4, <3>5, <3>6, <3>7 DEF Assembled
  <2>6. r \in 0 .. pushed'
    BY <1>4, <2>2
  <2> QED
    BY <2>4, <2>5, <2>6
<1>6. CASE UNCHANGED <<sent, pushed, unitVars, frame>>
  <2>1. Prefix(r)' /\ Assembled(r)'
    BY <1>3, <1>6 DEF Prefix, Assembled, Completed, unitVars
  <2> QED
    BY <1>6, <2>1
<1>7. CASE Carry /\ ~UNCHANGED <<sent, pushed, unitVars, frame>>
  <2>1. DriverStep /\ pushed' = pushed /\ frame' = frame
    BY <1>7, DriverPushesNone DEF Carry, threadPos
  <2>2. PICK f \in 1 .. pushed : sent'[f] # sent[f] /\ CAN_rx(f)
    BY <1>7, <2>1 DEF Carry
  <2>3. f = r + 1 /\ \A g \in 1 .. pushed : sent'[g] = IF g <= r + 1 THEN 1 ELSE 0
    BY <1>3, <2>1, <2>2, ReceivesNext
  <2>4. Assembled(f)'
    BY <1>2, <1>3, <2>1, <2>2, <2>3, Assembles
  <2>5. Prefix(f)'
    BY <2>1, <2>3 DEF Prefix
  <2>6. f \in 0 .. pushed'
    BY <1>4, <2>1
  <2> QED
    BY <2>4, <2>5, <2>6
<1>8. UNCHANGED pathVars => UNCHANGED <<sent, pushed, unitVars, frame>>
  BY DEF pathVars, vars, txHistory, boundVars, threadPos
<1> QED
  BY <1>5, <1>6, <1>7, <1>8 DEF PathNext

(* What has been handed over is what has been received whole.              *)
LEMMA PathHandsOver == PathInv => HandedOver
<1> SUFFICES ASSUME PathInv, ~Lost, ~overtaken, ~interleaved
             PROVE  /\ \A i \in DOMAIN handed : handed[i].own
                    /\ \A e \in Entries :
                         LET own == {f \in DOMAIN frame : frame[f].entry = e}
                         IN Cardinality({i \in DOMAIN handed : handed[i].entry = e}) =
                              IF Cardinality(own) = Last(e) + 1 /\ \A f \in own : sent[f] > 0 THEN 1 ELSE 0
  BY DEF HandedOver
<1>1. PoolInv /\ Numbered /\ InParts
  BY DEF PathInv
<1>2. PICK r \in 0 .. pushed : Prefix(r) /\ Assembled(r)
  BY DEF PathInv, InOrder
<1>3. /\ pushed \in Nat /\ DOMAIN frame = 1 .. pushed
      /\ \A f \in 1 .. pushed :
           /\ frame[f].entry \in Entries /\ frame[f].part \in 0 .. Last(frame[f].entry)
           /\ frame[f] = FrameOf(frame[f].entry, frame[f].part)
      /\ \A f, g \in 1 .. pushed : frame[f] = frame[g] => f = g
  BY <1>1, FrameFacts
<1>4. ASSUME NEW e \in Entries
      PROVE  LET own == {f \in DOMAIN frame : frame[f].entry = e}
             IN Cardinality({i \in DOMAIN handed : handed[i].entry = e}) =
                  IF Cardinality(own) = Last(e) + 1 /\ \A f \in own : sent[f] > 0 THEN 1 ELSE 0
  <2> DEFINE own == {f \in DOMAIN frame : frame[f].entry = e}
             got == {i \in DOMAIN handed : handed[i].entry = e}
             L == Last(e)
             k == IF e.nth < nth[e.by] THEN L + 1 ELSE IF e.nth = nth[e.by] THEN part[e.by] ELSE 0
  <2>1. L \in Nat /\ e.by \in Senders /\ e.nth \in DOMAIN Plan[e.by] /\ L = Plan[e.by][e.nth]
        /\ nth[e.by] \in Nat /\ part[e.by] \in Nat /\ e.nth \in Nat
    BY <1>1, PlanFacts DEF Numbered
  <2>2. k \in 0 .. L + 1 /\ k \in Nat
    <3>1. e.nth = nth[e.by] => part[e.by] <= L
      BY <1>1, <2>1 DEF Numbered
    <3> HIDE DEF L
    <3> QED
      BY <2>1, <3>1
  <2>3. \A p \in 0 .. L : Given(e, p) <=> p < k
    <3> HIDE DEF L
    <3> TAKE p \in 0 .. L
    <3> QED
      BY <2>1 DEF Given
  <2>4. \A f \in own : f \in 1 .. pushed /\ frame[f].part \in 0 .. L /\ frame[f].part < k
    BY <1>1, <1>3, <2>3 DEF InParts
  <2>5. \A p \in 0 .. L : p < k => \E f \in own : frame[f].part = p
    <3> TAKE p \in 0 .. L
    <3> HAVE p < k
    <3>1. PICK f \in 1 .. pushed : frame[f] = FrameOf(e, p)
      BY <1>1, <2>3 DEF InParts
    <3> QED
      BY <1>3, <3>1 DEF FrameOf
  <2>6. Cardinality(own) = k
    <3> DEFINE m == [f \in own |-> frame[f].part]
    <3> HIDE DEF k, L
    <3>1. \A f \in own : frame[f].part \in 0 .. k - 1
      BY <2>1, <2>2, <2>4
    <3>2. \A p \in 0 .. k - 1 : \E f \in own : frame[f].part = p
      <4>1. \A p \in 0 .. k - 1 : p \in 0 .. L /\ p < k
        BY <2>1, <2>2
      <4> QED
        BY <2>5, <4>1
    <3>3. \A f, g \in own : frame[f].part = frame[g].part => f = g
      BY <1>3, <2>4
    <3>4. m \in Bijection(own, 0 .. k - 1)
      <4> HIDE DEF own
      <4> QED
        BY <3>1, <3>2, <3>3 DEF Bijection, Injection, Surjection, IsInjective
    <3>5. IsFiniteSet(own)
      <4>1. own \in SUBSET (1 .. pushed) /\ IsFiniteSet(1 .. pushed)
        BY <1>3, FS_Interval
      <4> QED
        BY <4>1, FS_Subset
    <3>6. Cardinality(own) = Cardinality(0 .. k - 1)
      <4>1. ExistsBijection(own, 0 .. k - 1)
        BY <3>4 DEF ExistsBijection
      <4> HIDE DEF own, m
      <4> QED
        BY <3>5, <4>1, FS_Bijection
    <3>7. Cardinality(0 .. k - 1) = k
      BY <2>2, FS_Interval
    <3> QED
      BY <3>6, <3>7
  <2>7. \A f \in 1 .. pushed : sent[f] > 0 <=> f <= r
    BY <1>2 DEF Prefix
  <2>8. CASE got = {}
    <3>1. ~(k = L + 1 /\ \A f \in own : sent[f] > 0)
      <4> SUFFICES ASSUME k = L + 1, \A f \in own : sent[f] > 0 PROVE FALSE
        OBVIOUS
      <4>1. L \in 0 .. L /\ L < k
        BY <2>1
      <4>2. PICK f \in own : frame[f].part = L
        BY <2>5, <4>1
      <4>3. f \in 1 .. pushed /\ f <= r /\ f \in 1 .. r
        BY <1>3, <2>4, <2>7
      <4>4. f \in Completed(r)
        BY <4>2, <4>3 DEF Completed
      <4> QED
        BY <1>2, <2>8, <4>4 DEF Assembled
    <3>2. Cardinality(got) = 0
      BY <2>8, FS_EmptySet
    <3> QED
      BY <2>6, <3>1, <3>2
  <2>9. CASE got # {}
    <3>1. PICK i \in got : TRUE
      BY <2>9
    <3>2. PICK f \in Completed(r) : e = frame[f].entry
      BY <1>2, <3>1 DEF Assembled
    <3>3. f \in 1 .. pushed /\ f <= r /\ f \in own /\ frame[f].part = L
      BY <1>3, <3>2 DEF Completed
    <3>4. L < k
      BY <2>4, <3>3
    <3>5. k = L + 1
      <4> HIDE DEF k, L
      <4> QED
        BY <2>1, <2>2, <3>4
    <3>6. ASSUME NEW g \in own PROVE sent[g] > 0
      <4>1. g \in 1 .. pushed /\ frame[g].part \in 0 .. L /\ frame[g].entry = frame[f].entry
        BY <2>4, <3>2
      <4>2. ~(f < g)
        <5>1. f < g <=> frame[f].part < frame[g].part
          BY <1>1, <3>3, <4>1 DEF InParts
        <5>2. ~(L < frame[g].part)
          BY <2>1, <4>1
        <5> QED
          BY <3>3, <5>1, <5>2
      <4>3. g <= r
        BY <3>3, <4>1, <4>2
      <4> QED
        BY <2>7, <4>1, <4>3
    <3>7. got = {i}
      BY <1>2, <3>1 DEF Assembled
    <3>8. Cardinality(got) = 1
      BY <3>7, FS_Singleton
    <3> QED
      BY <2>6, <3>5, <3>6, <3>8
  <2> QED
    BY <2>8, <2>9
<1> QED
  BY <1>2, <1>4 DEF Assembled

(* In every execution of the way to the unit in which the driver loses no  *)
(* frame and lets none overtake another, and no two threads send to the    *)
(* unit at once, it hands over each request whose frames have gone out,    *)
(* once and made of its own parts, for any threads, plans and mailboxes.   *)
THEOREM HandedCorrect == PathSpec => []HandedOver
<1>1. PathInit => PathInv
  BY PathStarts
<1>2. PathInv /\ [PathNext]_pathVars => PathInv'
  BY PathIsNext, PoolStep, CopyStep, InPartsStep, UnitTypedStep, InOrderStep DEF PathInv
<1>3. PathInv => HandedOver
  BY PathHandsOver
<1> QED
  BY <1>1, <1>2, <1>3, PTL DEF PathSpec
=============================================================================
