---------------------------- MODULE ServerProofs ----------------------------
(***************************************************************************)
(* Proofs about the connection to the server, for any number of threads,   *)
(* buffers, commands and connections: TcpClient, that no permit and no     *)
(* buffer is lost and osMailAlloc never has to wait; TcpReceive, that the  *)
(* commands handed on are those that were sent, however TCP cuts them.     *)
(***************************************************************************)
EXTENDS TcpClient, TcpReceive, Lemmas

(* The connection to the server.                                           *)

Count(t, S) == IF t \in S THEN 1 ELSE 0

(* When only t comes or goes, so does the number.                          *)
LEMMA OneMoves ==
  ASSUME NEW S, NEW T, IsFiniteSet(S), IsFiniteSet(T), NEW t, S \ {t} = T \ {t}
  PROVE  /\ Cardinality(S) \in Nat /\ Cardinality(T) \in Nat
         /\ Cardinality(T) + Count(t, S) = Cardinality(S) + Count(t, T)
<1>1. IsFiniteSet(S \ {t}) /\ Cardinality(S \ {t}) = Cardinality(S) - Count(t, S)
      /\ Cardinality(S) \in Nat
  BY FS_RemoveElement, FS_CardinalityType DEF Count
<1>2. IsFiniteSet(T \ {t}) /\ Cardinality(T \ {t}) = Cardinality(T) - Count(t, T)
      /\ Cardinality(T) \in Nat
  BY FS_RemoveElement, FS_CardinalityType DEF Count
<1> QED
  BY <1>1, <1>2 DEF Count

LEMMA HeldFinite == IsFiniteSet(PermitHeld) /\ IsFiniteSet(BufferHeld)
<1>1. IsFiniteSet(Threads)
  BY ThreadsAssumption, FS_AddElement DEF Threads
<1> QED
  BY <1>1, FS_Subset DEF PermitHeld, BufferHeld

(* A permit comes with a place in the code, and a buffer with a permit.    *)
PermitAt == {"alloc", "put", "mailFree", "mailRelease", "drainFree", "drainRelease"}
BufferAt == {"put", "mailFree", "drainFree"}
Holds(pc, S) == IF pc \in S THEN 1 ELSE 0

(* When t alone moves, from one place in the code to another, the numbers  *)
(* of permits and of buffers held change by what the two places hold.      *)
LEMMA ThreadMoves ==
  ASSUME TypeOK, NEW t \in Threads, NEW left, NEW STATE pc,
         MoveTo(t, pc, left)
  PROVE  /\ Cardinality(PermitHeld) \in Nat /\ Cardinality(BufferHeld) \in Nat
         /\ Cardinality(PermitHeld') \in Nat /\ Cardinality(BufferHeld') \in Nat
         /\ Cardinality(PermitHeld') + Holds(thread[t].pc, PermitAt)
              = Cardinality(PermitHeld) + Holds(pc, PermitAt)
         /\ Cardinality(BufferHeld') + Holds(thread[t].pc, BufferAt)
              = Cardinality(BufferHeld) + Holds(pc, BufferAt)
<1>1. thread'[t].pc = pc /\ \A u \in Threads \ {t} : thread'[u] = thread[u]
  BY DEF TypeOK, MoveTo
<1>2. PermitHeld \ {t} = PermitHeld' \ {t} /\ BufferHeld \ {t} = BufferHeld' \ {t}
  BY <1>1 DEF PermitHeld, BufferHeld
<1>3. IsFiniteSet(PermitHeld') /\ IsFiniteSet(BufferHeld')
  <2>1. IsFiniteSet(Threads)
    BY ThreadsAssumption, FS_AddElement DEF Threads
  <2> QED
    BY <2>1, FS_Subset DEF PermitHeld, BufferHeld
<1>4. /\ Count(t, PermitHeld) = Holds(thread[t].pc, PermitAt)
      /\ Count(t, PermitHeld') = Holds(pc, PermitAt)
      /\ Count(t, BufferHeld) = Holds(thread[t].pc, BufferAt)
      /\ Count(t, BufferHeld') = Holds(pc, BufferAt)
  BY <1>1 DEF Count, Holds, PermitHeld, BufferHeld, PermitAt, BufferAt
<1> QED
  BY <1>2, <1>3, <1>4, HeldFinite, OneMoves

Inv == TypeOK /\ BuffersConserved

(* What Inv says of the threads and the buffers, after a step.             *)
Kept ==
  /\ BuffersConserved'
  /\ thread' \in [Threads -> [pc: Locations, left: 0 .. MaxSegments]]
  /\ semaphoreS' \in 0 .. TCP_BUFFER_NUM /\ free' \in 0 .. TCP_BUFFER_NUM
  /\ mails' \in 0 .. TCP_BUFFER_NUM

(* The thread moves, and the semaphore, the pool and the queue change by   *)
(* what it took or gave: nothing is lost, and nothing leaves its range.    *)
LEMMA MoveKeeps ==
  ASSUME Inv, NEW t \in Threads, NEW STATE left, left \in 0 .. MaxSegments, NEW STATE pc, pc \in Locations,
         MoveTo(t, pc, left),
         semaphoreS' \in Nat, free' \in Nat, mails' \in Nat,
         semaphoreS' + mails' + Holds(pc, PermitAt)
           = semaphoreS + mails + Holds(thread[t].pc, PermitAt),
         free' + mails' + Holds(pc, BufferAt)
           = free + mails + Holds(thread[t].pc, BufferAt)
  PROVE  Kept
<1>1. TypeOK /\ BuffersConserved
  BY DEF Inv
<1>2. semaphoreS \in Nat /\ free \in Nat /\ mails \in Nat /\ TCP_BUFFER_NUM \in Nat
  BY <1>1, NumAssumption DEF TypeOK
<1>3. /\ Cardinality(PermitHeld) \in Nat /\ Cardinality(BufferHeld) \in Nat
      /\ Cardinality(PermitHeld') \in Nat /\ Cardinality(BufferHeld') \in Nat
      /\ Cardinality(PermitHeld') + Holds(thread[t].pc, PermitAt)
           = Cardinality(PermitHeld) + Holds(pc, PermitAt)
      /\ Cardinality(BufferHeld') + Holds(thread[t].pc, BufferAt)
           = Cardinality(BufferHeld) + Holds(pc, BufferAt)
  BY <1>1, ThreadMoves
<1>4. \A p, S : Holds(p, S) \in 0 .. 1
  BY DEF Holds
<1>5. semaphoreS' + mails' + Cardinality(PermitHeld') = TCP_BUFFER_NUM
  BY <1>1, <1>2, <1>3, <1>4 DEF BuffersConserved
<1>6. free' + mails' + Cardinality(BufferHeld') = TCP_BUFFER_NUM
  BY <1>1, <1>2, <1>3, <1>4 DEF BuffersConserved
<1>7. thread' \in [Threads -> [pc: Locations, left: 0 .. MaxSegments]]
  BY <1>1 DEF TypeOK, MoveTo
<1> QED
  BY <1>2, <1>3, <1>5, <1>6, <1>7 DEF Kept, BuffersConserved

(* A thread that moves between places that hold the same.                  *)
LEMMA GotoKeeps ==
  ASSUME Inv, NEW t \in Threads, NEW STATE left, left \in 0 .. MaxSegments, NEW STATE pc, pc \in Locations,
         MoveTo(t, pc, left), UNCHANGED bufferVars,
         Holds(pc, PermitAt) = Holds(thread[t].pc, PermitAt),
         Holds(pc, BufferAt) = Holds(thread[t].pc, BufferAt)
  PROVE  Kept
<1>1. semaphoreS' \in Nat /\ free' \in Nat /\ mails' \in Nat
  BY DEF bufferVars, Inv, TypeOK
<1>2. semaphoreS' + mails' + Holds(pc, PermitAt)
        = semaphoreS + mails + Holds(thread[t].pc, PermitAt)
  BY DEF bufferVars
<1>3. free' + mails' + Holds(pc, BufferAt)
        = free + mails + Holds(thread[t].pc, BufferAt)
  BY DEF bufferVars
<1> QED
  BY <1>1, <1>2, <1>3, MoveKeeps

LEMMA ThreadType ==
  ASSUME TypeOK, NEW t \in Threads
  PROVE  /\ thread[t].left \in 0 .. MaxSegments /\ 0 \in 0 .. MaxSegments
         /\ Home(t) \in Locations /\ Net \in Threads
         /\ semaphoreS \in Nat /\ free \in Nat /\ mails \in Nat
<1>1. thread[t] \in [pc: Locations, left: 0 .. MaxSegments]
  BY DEF TypeOK
<1>2. 0 \in 0 .. MaxSegments
  BY NumAssumption
<1>3. Home(t) \in Locations /\ Net \in Threads
  BY DEF Home, Locations, Threads
<1>4. semaphoreS \in Nat /\ free \in Nat /\ mails \in Nat
  BY NumAssumption DEF TypeOK
<1> QED
  BY <1>1, <1>2, <1>3, <1>4

(* What the places hold that a thread passes through.                      *)
LEMMA HoldsAt ==
  /\ \A pc \in {"wait", "idle", "rx", "drain", "reset", "tx", "size"} :
       Holds(pc, PermitAt) = 0 /\ Holds(pc, BufferAt) = 0
  /\ \A pc \in {"alloc", "mailRelease", "drainRelease"} :
       Holds(pc, PermitAt) = 1 /\ Holds(pc, BufferAt) = 0
  /\ \A pc \in {"put", "mailFree", "drainFree"} :
       Holds(pc, PermitAt) = 1 /\ Holds(pc, BufferAt) = 1
  BY DEF Holds, PermitAt, BufferAt

(* The steps by which a thread takes a permit or a buffer, or gives one.   *)
LEMMA BufferSteps ==
  ASSUME Inv, NEW t \in Threads,
         \/ TakePermit(t) \/ AllocMail(t) \/ PutMail(t) \/ DrainMail(t) \/ DrainFree(t)
         \/ DrainRelease(t)
         \/ t = Net /\ (TakeMail \/ FreeMail \/ ReleasePermit)
  PROVE  Kept
<1> USE DEF Goto, Return
<1>0. /\ TypeOK /\ thread[t].left \in 0 .. MaxSegments /\ 0 \in 0 .. MaxSegments
      /\ semaphoreS \in Nat /\ free \in Nat /\ mails \in Nat
  BY ThreadType DEF Inv
<1>1. CASE TakePermit(t)
  <2>1. MoveTo(t, "alloc", thread[t].left) /\ thread[t].pc = "wait"
        /\ semaphoreS' = semaphoreS - 1 /\ free' = free /\ mails' = mails /\ semaphoreS > 0
    BY <1>1 DEF TakePermit, At
  <2>2. semaphoreS' \in Nat /\ free' \in Nat /\ mails' \in Nat
    BY <1>0, <2>1
  <2> QED
    BY <1>0, <2>1, <2>2, HoldsAt, MoveKeeps DEF Locations
<1>2. CASE AllocMail(t)
  <2>1. MoveTo(t, "put", thread[t].left) /\ thread[t].pc = "alloc"
        /\ semaphoreS' = semaphoreS /\ free' = free - 1 /\ mails' = mails /\ free > 0
    BY <1>2 DEF AllocMail, At
  <2>2. semaphoreS' \in Nat /\ free' \in Nat /\ mails' \in Nat
    BY <1>0, <2>1
  <2> QED
    BY <1>0, <2>1, <2>2, HoldsAt, MoveKeeps DEF Locations
<1>3. CASE PutMail(t)
  <2>1. thread[t].pc = "put" /\ semaphoreS' = semaphoreS /\ free' = free /\ mails' = mails + 1
    BY <1>3 DEF PutMail, At
  <2>2. CASE thread[t].left > 1
    <3>1. MoveTo(t, "wait", thread[t].left - 1) /\ thread[t].left - 1 \in 0 .. MaxSegments
      BY <1>0, <1>3, <2>2, ThreadType, NumAssumption DEF PutMail
    <3>2. semaphoreS' \in Nat /\ free' \in Nat /\ mails' \in Nat
      BY <1>0, <2>1, <3>1
    <3> QED
      BY <1>0, <2>1, <3>1, <3>2, HoldsAt, MoveKeeps DEF Locations
  <2>3. CASE ~(thread[t].left > 1)
    <3>1. MoveTo(t, Home(t), 0) /\ Home(t) \in {"rx", "idle"}
      BY <1>3, <2>3 DEF PutMail, Home
    <3>2. semaphoreS' \in Nat /\ free' \in Nat /\ mails' \in Nat
      BY <1>0, <2>1, <3>1
    <3> QED
      BY <1>0, <2>1, <3>1, <3>2, HoldsAt, MoveKeeps DEF Locations
  <2> QED
    BY <2>2, <2>3
<1>4. CASE DrainMail(t)
  <2>1. CASE mails > 0 /\ mails' = mails - 1 /\ Goto(t, "drainFree")
    <3>1. MoveTo(t, "drainFree", thread[t].left) /\ thread[t].pc = "drain"
          /\ semaphoreS' = semaphoreS /\ free' = free /\ mails' = mails - 1 /\ mails > 0
      BY <1>4, <2>1 DEF DrainMail, At
    <3>2. semaphoreS' \in Nat /\ free' \in Nat /\ mails' \in Nat
      BY <1>0, <3>1
    <3> QED
      BY <1>0, <3>1, <3>2, HoldsAt, MoveKeeps DEF Locations
  <2>2. CASE mails = 0 /\ UNCHANGED mails /\ Goto(t, "reset")
    <3>1. MoveTo(t, "reset", thread[t].left) /\ thread[t].pc = "drain" /\ UNCHANGED bufferVars
      BY <1>4, <2>2 DEF DrainMail, At, bufferVars
    <3> QED
      BY <1>0, <3>1, HoldsAt, GotoKeeps DEF Locations
  <2> QED
    BY <1>4, <2>1, <2>2 DEF DrainMail
<1>5. CASE DrainFree(t)
  <2>1. MoveTo(t, "drainRelease", thread[t].left) /\ thread[t].pc = "drainFree"
        /\ semaphoreS' = semaphoreS /\ free' = free + 1 /\ mails' = mails
    BY <1>5 DEF DrainFree, At
  <2>2. semaphoreS' \in Nat /\ free' \in Nat /\ mails' \in Nat
    BY <1>0, <2>1
  <2> QED
    BY <1>0, <2>1, <2>2, HoldsAt, MoveKeeps DEF Locations
<1>6. CASE DrainRelease(t)
  <2>1. MoveTo(t, "drain", thread[t].left) /\ thread[t].pc = "drainRelease"
        /\ semaphoreS' = semaphoreS + 1 /\ free' = free /\ mails' = mails
    BY <1>6 DEF DrainRelease, At
  <2>2. semaphoreS' \in Nat /\ free' \in Nat /\ mails' \in Nat
    BY <1>0, <2>1
  <2> QED
    BY <1>0, <2>1, <2>2, HoldsAt, MoveKeeps DEF Locations
<1>7. CASE t = Net /\ TakeMail
  <2>1. MoveTo(t, "mailFree", thread[t].left) /\ thread[t].pc = "tx"
        /\ semaphoreS' = semaphoreS /\ free' = free /\ mails' = mails - 1 /\ mails > 0
    BY <1>7 DEF TakeMail, At
  <2>2. semaphoreS' \in Nat /\ free' \in Nat /\ mails' \in Nat
    BY <1>0, <2>1
  <2> QED
    BY <1>0, <2>1, <2>2, HoldsAt, MoveKeeps DEF Locations
<1>8. CASE t = Net /\ FreeMail
  <2>1. MoveTo(t, "mailRelease", thread[t].left) /\ thread[t].pc = "mailFree"
        /\ semaphoreS' = semaphoreS /\ free' = free + 1 /\ mails' = mails
    BY <1>8 DEF FreeMail, At
  <2>2. semaphoreS' \in Nat /\ free' \in Nat /\ mails' \in Nat
    BY <1>0, <2>1
  <2> QED
    BY <1>0, <2>1, <2>2, HoldsAt, MoveKeeps DEF Locations
<1>9. CASE t = Net /\ ReleasePermit
  <2>1. MoveTo(t, "size", thread[t].left) /\ thread[t].pc = "mailRelease"
        /\ semaphoreS' = semaphoreS + 1 /\ free' = free /\ mails' = mails
    BY <1>9 DEF ReleasePermit, At
  <2>2. semaphoreS' \in Nat /\ free' \in Nat /\ mails' \in Nat
    BY <1>0, <2>1
  <2> QED
    BY <1>0, <2>1, <2>2, HoldsAt, MoveKeeps DEF Locations
<1> QED
  BY <1>1, <1>2, <1>3, <1>4, <1>5, <1>6, <1>7, <1>8, <1>9

Unencumbered == Locations \ PermitAt

(* All other steps move a thread from one place that holds nothing to      *)
(* another.                                                                *)
LEMMA OtherMoves ==
  ASSUME Inv, NEW t \in Threads, NEW STATE left, left \in 0 .. MaxSegments,
         NEW STATE pc, pc \in Unencumbered, MoveTo(t, pc, left), UNCHANGED bufferVars,
         thread[t].pc \in Unencumbered
  PROVE  Kept
<1>1. Holds(pc, PermitAt) = 0 /\ Holds(pc, BufferAt) = 0
  BY DEF Holds, Unencumbered, PermitAt, BufferAt
<1>2. Holds(thread[t].pc, PermitAt) = 0 /\ Holds(thread[t].pc, BufferAt) = 0
  BY DEF Holds, Unencumbered, PermitAt, BufferAt
<1> QED
  BY <1>1, <1>2, GotoKeeps DEF Unencumbered

LEMMA SendSteps ==
  ASSUME Inv, NEW t \in Threads,
         SendData(t) \/ OutOfResources(t) \/ ResetConnection(t) \/ AbortSocket(t)
  PROVE  Kept
<1> USE DEF Goto, Return, At
<1>0. TypeOK /\ thread[t].left \in 0 .. MaxSegments /\ 0 \in 0 .. MaxSegments
      /\ Home(t) \in Unencumbered /\ {"wait", "drain", "reset", "abort"} \subseteq Unencumbered
  BY ThreadType DEF Inv, Home, Unencumbered, Locations, PermitAt
<1>1. CASE SendData(t)
  <2>1. PICK n \in 1 .. MaxSegments : MoveTo(t, "wait", n)
    BY <1>1 DEF SendData
  <2>2. thread[t].pc = Home(t) /\ UNCHANGED bufferVars /\ n \in 0 .. MaxSegments
    BY <1>1, NumAssumption DEF SendData
  <2> QED
    BY <1>0, <2>1, <2>2, OtherMoves
<1>2. CASE OutOfResources(t)
  <2>1. MoveTo(t, "drain", thread[t].left) /\ thread[t].pc = "wait" /\ UNCHANGED bufferVars
    BY <1>2 DEF OutOfResources
  <2> QED
    BY <1>0, <2>1, OtherMoves
<1>3. CASE ResetConnection(t)
  <2>1. thread[t].pc = "reset" /\ UNCHANGED bufferVars
        /\ (MoveTo(t, "abort", thread[t].left) \/ MoveTo(t, Home(t), 0))
    BY <1>3 DEF ResetConnection
  <2> QED
    BY <1>0, <2>1, OtherMoves
<1>4. CASE AbortSocket(t)
  <2>1. thread[t].pc = "abort" /\ UNCHANGED bufferVars /\ MoveTo(t, Home(t), 0)
    BY <1>4 DEF AbortSocket
  <2> QED
    BY <1>0, <2>1, OtherMoves
<1> QED
  BY <1>1, <1>2, <1>3, <1>4

LEMMA NetSteps ==
  ASSUME Inv,
         \/ Stack \/ ProcessWithoutLink \/ ProcessUnconnected \/ ProcessConnected
         \/ SetConnected \/ NothingToSend \/ CheckSize \/ SendPacket \/ NothingReceived
  PROVE  Kept
<1> USE DEF Goto, Return, At
<1>0. /\ Net \in Threads /\ thread[Net].left \in 0 .. MaxSegments
      /\ {"main", "process", "connected", "tx", "size", "send", "rx", "drain"} \subseteq Unencumbered
  BY ThreadType DEF Inv, Unencumbered, Locations, PermitAt, Threads
<1>1. CASE Stack
  <2>1. MoveTo(Net, "process", thread[Net].left) /\ thread[Net].pc = "main" /\ UNCHANGED bufferVars
    BY <1>1 DEF Stack, NothingHappens, LinkNotified, Established, Closed, Acknowledged, NetMain
  <2> QED
    BY <1>0, <2>1, OtherMoves
<1>2. CASE ProcessWithoutLink
  <2>1. thread[Net].pc = "process" /\ UNCHANGED bufferVars
        /\ (MoveTo(Net, "drain", thread[Net].left) \/ MoveTo(Net, "main", thread[Net].left))
    BY <1>2 DEF ProcessWithoutLink
  <2> QED
    BY <1>0, <2>1, OtherMoves
<1>3. CASE ProcessUnconnected
  <2>1. MoveTo(Net, "main", thread[Net].left) /\ thread[Net].pc = "process" /\ UNCHANGED bufferVars
    BY <1>3 DEF ProcessUnconnected
  <2> QED
    BY <1>0, <2>1, OtherMoves
<1>4. CASE ProcessConnected
  <2>1. MoveTo(Net, "connected", thread[Net].left) /\ thread[Net].pc = "process"
        /\ UNCHANGED bufferVars
    BY <1>4 DEF ProcessConnected
  <2> QED
    BY <1>0, <2>1, OtherMoves
<1>5. CASE SetConnected
  <2>1. MoveTo(Net, "tx", thread[Net].left) /\ thread[Net].pc = "connected" /\ UNCHANGED bufferVars
    BY <1>5 DEF SetConnected
  <2> QED
    BY <1>0, <2>1, OtherMoves
<1>6. CASE NothingToSend
  <2>1. MoveTo(Net, "rx", thread[Net].left) /\ thread[Net].pc = "tx" /\ UNCHANGED bufferVars
    BY <1>6 DEF NothingToSend
  <2> QED
    BY <1>0, <2>1, OtherMoves
<1>7. CASE CheckSize
  <2>1. thread[Net].pc = "size" /\ UNCHANGED bufferVars
        /\ (MoveTo(Net, "rx", thread[Net].left) \/ MoveTo(Net, "send", thread[Net].left))
    BY <1>7 DEF CheckSize
  <2> QED
    BY <1>0, <2>1, OtherMoves
<1>8. CASE SendPacket
  <2>1. MoveTo(Net, "rx", thread[Net].left) /\ thread[Net].pc = "send" /\ UNCHANGED bufferVars
    BY <1>8 DEF SendPacket
  <2> QED
    BY <1>0, <2>1, OtherMoves
<1>9. CASE NothingReceived
  <2>1. MoveTo(Net, "main", thread[Net].left) /\ thread[Net].pc = "rx" /\ UNCHANGED bufferVars
    BY <1>9 DEF NothingReceived
  <2> QED
    BY <1>0, <2>1, OtherMoves
<1> QED
  BY <1>1, <1>2, <1>3, <1>4, <1>5, <1>6, <1>7, <1>8, <1>9

(* The variables that no buffer depends on.                                *)
ConnectionTyped ==
  /\ tcpSocket \in {"none", "closed", "connecting", "established"}
  /\ window \in BOOLEAN /\ conn \in BOOLEAN /\ ack \in BOOLEAN /\ LinkState \in BOOLEAN
  /\ calls \in 0 .. MaxCalls

LEMMA ConnectionKept ==
  ASSUME ConnectionTyped, Next
  PROVE  ConnectionTyped'
<1> USE DEF ConnectionTyped, bufferVars, tcpVars
<1>1. CASE Stack
  BY <1>1 DEF Stack, NetMain, NothingHappens, LinkNotified, Established, Closed, Acknowledged
<1>2. CASE Process
  BY <1>2 DEF Process, ProcessWithoutLink, ProcessUnconnected, ProcessConnected, SetConnected,
    NothingToSend, TakeMail, FreeMail, ReleasePermit, CheckSize, SendPacket, NothingReceived
<1>3. ASSUME NEW t \in Threads, SendData(t) \/ Sending(t)
      PROVE  ConnectionTyped'
  <2>1. CASE SendData(t)
    BY <2>1, NumAssumption DEF SendData
  <2>2. CASE Sending(t)
    BY <2>2 DEF Sending, TakePermit, OutOfResources, AllocMail, PutMail, DrainMail, DrainFree,
      DrainRelease, ResetConnection, AbortSocket
  <2> QED
    BY <1>3, <2>1, <2>2
<1> QED
  BY <1>1, <1>2, <1>3 DEF Next

LEMMA InvStep ==
  ASSUME Inv, [Next]_vars
  PROVE  Inv'
<1>1. CASE Next
  <2>1. Kept
    <3>1. CASE Stack
      BY <3>1, NetSteps
    <3>2. CASE Process
      <4>1. Net \in Threads
        BY DEF Threads
      <4> QED
        BY <3>2, <4>1, NetSteps, BufferSteps DEF Process
    <3>3. ASSUME NEW t \in Threads, SendData(t) \/ Sending(t)
          PROVE  Kept
      BY <3>3, SendSteps, BufferSteps DEF Sending
    <3> QED
      BY <1>1, <3>1, <3>2, <3>3 DEF Next
  <2>2. ConnectionTyped
    BY DEF Inv, TypeOK, ConnectionTyped
  <2>3. ConnectionTyped'
    BY <1>1, <2>2, ConnectionKept
  <2> QED
    BY <2>1, <2>3 DEF Inv, TypeOK, Kept, ConnectionTyped
<1>2. CASE UNCHANGED vars
  BY <1>2 DEF vars, Inv, TypeOK, BuffersConserved, PermitHeld, BufferHeld
<1> QED
  BY <1>1, <1>2

LEMMA InvInit == Init => Inv
<1> SUFFICES ASSUME Init PROVE Inv
  OBVIOUS
<1>1. TypeOK
  <2>1. \A t \in Threads : (IF t = Net THEN "main" ELSE "idle") \in Locations
    BY DEF Locations
  <2>2. thread \in [Threads -> [pc: Locations, left: 0 .. MaxSegments]]
    BY <2>1, NumAssumption DEF Init
  <2>3. ConnectionTyped
    <3>1. calls \in 0 .. MaxCalls
      BY NumAssumption DEF Init
    <3> QED
      BY <3>1 DEF Init, ConnectionTyped
  <2>4. TCP_BUFFER_NUM \in 0 .. TCP_BUFFER_NUM /\ 0 \in 0 .. TCP_BUFFER_NUM
    BY NumAssumption
  <2> QED
    BY <2>2, <2>3, <2>4 DEF Init, TypeOK, ConnectionTyped
<1>2. \A t \in Threads : thread[t].pc \in {"main", "idle"}
  BY DEF Init
<1>3. PermitHeld = {} /\ BufferHeld = {}
  BY <1>2 DEF PermitHeld, BufferHeld
<1>4. BuffersConserved
  BY <1>3, FS_EmptySet, NumAssumption DEF Init, BuffersConserved
<1> QED
  BY <1>1, <1>4 DEF Inv

(* Every variable has its type.                                            *)
THEOREM TypeCorrect == Spec => []TypeOK
<1>1. Inv => TypeOK
  BY DEF Inv
<1> QED
  BY InvInit, InvStep, <1>1, PTL DEF Spec

(* However many threads send, and abort the connection against each other, *)
(* no permit and no buffer is lost or made up.                             *)
THEOREM BuffersCorrect == Spec => []BuffersConserved
<1>1. Inv => BuffersConserved
  BY DEF Inv
<1> QED
  BY InvInit, InvStep, <1>1, PTL DEF Spec

(* The semaphore lets in as many threads as there are buffers for: those   *)
(* with a buffer have a permit too, and one that only has the permit       *)
(* leaves a buffer in the pool.                                            *)
LEMMA PermitMeansBuffer == Inv => AllocNeverBlocks
<1> SUFFICES ASSUME Inv, NEW t \in Threads, At(t, "alloc") PROVE free > 0
  BY DEF AllocNeverBlocks
<1>1. BufferHeld \subseteq PermitHeld \ {t} /\ t \in PermitHeld
  BY DEF At, BufferHeld, PermitHeld
<1>2. /\ IsFiniteSet(PermitHeld \ {t})
      /\ Cardinality(PermitHeld \ {t}) = Cardinality(PermitHeld) - 1
      /\ Cardinality(PermitHeld) \in Nat
  BY <1>1, HeldFinite, FS_RemoveElement, FS_CardinalityType
<1>3. Cardinality(BufferHeld) <= Cardinality(PermitHeld) - 1 /\ Cardinality(BufferHeld) \in Nat
  BY <1>1, <1>2, HeldFinite, FS_Subset, FS_CardinalityType
<1>4. semaphoreS \in Nat /\ free \in Nat /\ mails \in Nat
      /\ semaphoreS + mails + Cardinality(PermitHeld) = TCP_BUFFER_NUM
      /\ free + mails + Cardinality(BufferHeld) = TCP_BUFFER_NUM
  BY NumAssumption DEF Inv, TypeOK, BuffersConserved
<1> QED
  BY <1>2, <1>3, <1>4, NumAssumption

(* osMailAlloc(mailSid, osWaitForever) never waits.                        *)
THEOREM AllocCorrect == Spec => []AllocNeverBlocks
BY InvInit, InvStep, PermitMeansBuffer, PTL DEF Spec

----------------------------------------------------------------------------
(* The receiving half. What its parts may hold.                            *)
Tokens == [byte: 0 .. 7, number: Nat, payload: Payloads, at: Nat \ {0}]
ReceiveParsers == [dataState: 0 .. 4, payloadLen: 0 .. 7, payload: Seq(0 .. 7), sumcheck: 0 .. 7,
                   last: Nat, inStep: BOOLEAN, handed: Seq(Seq(0 .. 7)), expected: Seq(Seq(0 .. 7))]

ReceiveTyped ==
  /\ stream \in Seq(Tokens) /\ rxMails \in Seq(Seq(Tokens))
  /\ position \in Nat \ {0} /\ parser \in ReceiveParsers

(* The bytes that have not been parsed.                                    *)
BytesIn(s) == {s[i] : i \in DOMAIN s}
Waiting == BytesIn(stream) \cup UNION {BytesIn(rxMails[i]) : i \in DOMAIN rxMails}

(* They are of frames, the ones with successive numbers one after the      *)
(* other, and the last one the server has sent is the last of a frame.     *)
Succeeds(u, t) == IF Last(t) THEN u.at = 1 ELSE u.payload = t.payload /\ u.at = t.at + 1
OfFrames(W, n) ==
  /\ \A t \in W : /\ t.at <= Len(Frame(t.payload)) /\ t.byte = Frame(t.payload)[t.at]
                  /\ t.number < n /\ (t.number = n - 1 => Last(t))
  /\ \A t, u \in W : u.number = t.number + 1 => Succeeds(u, t)

(* The parser p has k bytes of the frame of a payload.                     *)
BodyLen(payload) == 3 + Len(payload)
FrameBody(payload) == <<DataHeader0, DataHeader1, Len(payload)>> \o payload
HasBytes(p, payload, k) ==
  /\ p.dataState = IF k < 3 THEN k ELSE IF k < BodyLen(payload) THEN 3 ELSE 4
  /\ k > 1 => p.sumcheck = Sums(FrameBody(payload))[k]
  /\ k > 2 => p.payloadLen = Len(payload) /\ p.payload = SubSeq(payload, 1, k - 3)

(* The parser q given b, but for its history.                              *)
Given(q, b) ==
  CASE q.dataState = 0 -> Header0(q, b) [] q.dataState = 1 -> Header1(q, b)
    [] q.dataState = 2 -> Length(q, b) [] q.dataState = 3 -> Payload(q, b)
    [] q.dataState = 4 -> Sumcheck(q, b)

(* The next byte of the server is the one the parser needs.                *)
InTime(p, W, n) ==
  \/ p.dataState = 0 /\ \A t \in W : t.number = p.last + 1 => t.at = 1
  \/ /\ p.last # n - 1
     /\ \E payload \in Payloads : \E k \in 1 .. BodyLen(payload) :
          /\ HasBytes(p, payload, k)
          /\ \A t \in W : t.number = p.last + 1 => t.payload = payload /\ t.at = k + 1

Stands(p, W, n) ==
  /\ p \in ReceiveParsers /\ p.last < n
  /\ p.inStep => p.handed = p.expected /\ InTime(p, W, n)

ReceiveInv ==
  ReceiveTyped /\ OfFrames(Waiting, position) /\ Stands(parser, Waiting, position)

(* The parser after each byte of a piece, from the one before.              *)
LEMMA ParsedIs ==
  ASSUME NEW p, NEW piece, Len(piece) \in Nat
  PROVE  /\ Parsed(p, piece)[0] = p
         /\ \A n \in 1 .. Len(piece) :
              Parsed(p, piece)[n] = DataByte(Parsed(p, piece)[n - 1], piece[n])
<1> DEFINE N == Len(piece)
           Is(g, m) == g = [n \in 0 .. m |-> IF n = 0 THEN p ELSE DataByte(g[n - 1], piece[n])]
           T == {m \in Nat : m <= N => \E g : Is(g, m)}
<1>0. N \in Nat
  OBVIOUS
<1> HIDE DEF N
<1>1. 0 \in T
  <2> DEFINE g == [n \in 0 .. 0 |-> p]
  <2>1. Is(g, 0)
    OBVIOUS
  <2> QED
    BY <2>1
<1>2. ASSUME NEW m \in Nat, m \in T PROVE m + 1 \in T
  <2> SUFFICES ASSUME m + 1 <= N PROVE \E g : Is(g, m + 1)
    OBVIOUS
  <2>1. PICK g : Is(g, m)
    BY <1>0, <1>2
  <2> DEFINE h == [n \in 0 .. m + 1 |-> IF n = m + 1 THEN DataByte(g[m], piece[m + 1]) ELSE g[n]]
  <2>2. \A n \in 0 .. m + 1 : h[n] = IF n = 0 THEN p ELSE DataByte(h[n - 1], piece[n])
    <3> TAKE n \in 0 .. m + 1
    <3>1. CASE n = m + 1
      BY <3>1
    <3>2. CASE n # m + 1
      <4>1. n \in 0 .. m /\ h[n] = g[n]
        BY <3>2
      <4>2. n # 0 => n - 1 \in 0 .. m + 1 /\ n - 1 # m + 1
        BY <4>1
      <4>3. n # 0 => h[n - 1] = g[n - 1]
        BY <4>2
      <4> QED
        BY <2>1, <4>1, <4>3
    <3> QED
      BY <3>1, <3>2
  <2>3. h = [n \in 0 .. m + 1 |-> IF n = 0 THEN p ELSE DataByte(h[n - 1], piece[n])]
    <3>1. h = [n \in 0 .. m + 1 |-> h[n]]
      OBVIOUS
    <3> HIDE DEF h
    <3> QED
      BY <2>2, <3>1
  <2> QED
    BY <2>3
<1>3. N \in T
  BY <1>0, <1>1, <1>2, Upward
<1>4. PICK g : Is(g, N)
  BY <1>0, <1>3
<1>5. Parsed(p, piece) =
        CHOOSE f : f = [n \in 0 .. Len(piece) |-> IF n = 0 THEN p ELSE DataByte(f[n - 1], piece[n])]
  BY DEF Parsed
<1>6. Is(Parsed(p, piece), N)
  BY <1>4, <1>5 DEF N
<1> QED
  BY <1>0, <1>6 DEF N

LEMMA FrameIs ==
  ASSUME PayloadsAssumption, NEW payload \in Payloads
  PROVE  /\ payload \in Seq(0 .. 7) /\ Len(payload) \in 1 .. 7
         /\ FrameBody(payload) \in Seq(0 .. 7) /\ Len(FrameBody(payload)) = 3 + Len(payload)
         /\ Frame(payload) \in Seq(0 .. 7) /\ Len(Frame(payload)) = 4 + Len(payload)
         /\ Frame(payload)[1] = DataHeader0 /\ Frame(payload)[2] = DataHeader1
         /\ Frame(payload)[3] = Len(payload)
         /\ \A i \in 1 .. Len(payload) : Frame(payload)[3 + i] = payload[i]
         /\ Frame(payload)[4 + Len(payload)] = Sums(FrameBody(payload))[3 + Len(payload)]
         /\ \A i \in 1 .. 3 + Len(payload) : FrameBody(payload)[i] = Frame(payload)[i]
<1> DEFINE d == payload
           D == Len(d)
           head3 == <<DataHeader0, DataHeader1, D>>
           body == head3 \o d
           n == Len(body)
           k == Len(head3)
           m == SumOf(body)
           f == body \o <<m>>
           F == Len(f)
           o == Len(<<m>>)
<1>1. d \in Seq(0 .. 7) /\ D \in 1 .. 7
  BY DEF PayloadsAssumption
<1>2. head3 \in Seq(0 .. 7)
  <2>1. D \in 0 .. 7 /\ DataHeader0 \in 0 .. 7 /\ DataHeader1 \in 0 .. 7
    <3>1. D \in 0 .. 7
      <4>1. D \in 1 .. 7
        BY <1>1
      <4> HIDE DEF D
      <4> QED
        BY <4>1
    <3>2. DataHeader0 \in 0 .. 7 /\ DataHeader1 \in 0 .. 7
      BY DEF DataHeader0, DataHeader1
    <3> QED
      BY <3>1, <3>2
  <2> HIDE DEF D
  <2> QED
    BY <2>1
<1>3. k = 3 /\ head3[1] = DataHeader0 /\ head3[2] = DataHeader1 /\ head3[3] = D
  OBVIOUS
<1> HIDE DEF head3
<1>4. /\ body \in Seq(0 .. 7) /\ n = 3 + D
      /\ \A i \in 1 .. 3 : body[i] = head3[i]
      /\ \A i \in 1 .. D : body[3 + i] = d[i]
  <2>1. body \in Seq(0 .. 7)
    BY <1>1, <1>2, ConcatGives
  <2>2. n = k + D
    BY <1>1, <1>2, ConcatGives
  <2>3. \A i \in 1 .. k : body[i] = head3[i]
    BY <1>1, <1>2, ConcatGives
  <2>4. \A i \in 1 .. D : body[k + i] = d[i]
    BY <1>1, <1>2, ConcatGives
  <2> HIDE DEF body, k, n, D
  <2> QED
    BY <1>3, <2>1, <2>2, <2>3, <2>4
<1>5. m = Sums(body)[n] /\ m \in 0 .. 7
  <2>1. m = Sums(body)[n]
    BY DEF SumOf
  <2> HIDE DEF body, n, D
  <2>2. n \in 0 .. n
    BY <1>1, <1>4
  <2> QED
    BY <1>4, <2>1, <2>2, SumsTyped DEF n
<1> HIDE DEF body, m
<1>6. /\ f \in Seq(0 .. 7) /\ F = n + 1
      /\ \A i \in 1 .. n : f[i] = body[i]
      /\ f[n + 1] = m
  <2>0. <<m>> \in Seq(0 .. 7) /\ o = 1 /\ <<m>>[1] = m
    BY <1>5
  <2>1. f \in Seq(0 .. 7)
    BY <1>4, <2>0, ConcatGives
  <2>2. F = n + o
    BY <1>4, <2>0, ConcatGives
  <2>3. \A i \in 1 .. n : f[i] = body[i]
    BY <1>4, <2>0, ConcatGives
  <2>4. \A i \in 1 .. o : f[n + i] = <<m>>[i]
    BY <1>4, <2>0, ConcatGives
  <2> HIDE DEF f, F, n, o
  <2> QED
    BY <2>0, <2>1, <2>2, <2>3, <2>4
<1>7. Frame(payload) = f /\ FrameBody(payload) = body
  BY DEF Frame, FrameBody, body, m, head3
<1> HIDE DEF f, F, n
<1>8. /\ F = 4 + D /\ f[1] = DataHeader0 /\ f[2] = DataHeader1 /\ f[3] = D
      /\ f[4 + D] = Sums(body)[3 + D]
      /\ \A i \in 1 .. D : f[3 + i] = d[i]
  <2> HIDE DEF D
  <2>1. /\ 1 \in 1 .. n /\ 2 \in 1 .. n /\ 3 \in 1 .. n /\ n + 1 = 4 + D
        /\ \A i \in 1 .. D : 3 + i \in 1 .. n
    BY <1>1, <1>4
  <2> QED
    BY <1>3, <1>4, <1>5, <1>6, <2>1
<1> QED
  BY <1>1, <1>4, <1>6, <1>7, <1>8 DEF F, n

LEMMA TokensAre ==
  ASSUME NEW S, NEW b, NEW e, NEW g, NEW r,
         b = [i \in S |-> [byte |-> e[i], number |-> g[i], payload |-> r, at |-> i]]
  PROVE  \A i \in S : /\ b[i].byte = e[i] /\ b[i].number = g[i]
                      /\ b[i].payload = r /\ b[i].at = i
<1> TAKE i \in S
<1>1. b[i] = [byte |-> e[i], number |-> g[i], payload |-> r, at |-> i]
  OBVIOUS
<1> QED
  BY <1>1

LEMMA MarkedAre ==
  ASSUME PayloadsAssumption, NEW payload \in Payloads, position \in Nat \ {0}
  PROVE  /\ Marked(payload) \in Seq(Tokens) /\ Len(Marked(payload)) = Len(Frame(payload))
         /\ \A i \in 1 .. Len(Frame(payload)) :
              /\ Marked(payload)[i].byte = Frame(payload)[i]
              /\ Marked(payload)[i].number = position + i - 1
              /\ Marked(payload)[i].payload = payload /\ Marked(payload)[i].at = i
<1> DEFINE f == Frame(payload)
           F == Len(f)
           g == [i \in 1 .. F |-> position + i - 1]
           b == [i \in 1 .. F |-> [byte |-> f[i], number |-> g[i], payload |-> payload, at |-> i]]
           M == Marked(payload)
<1>1. f \in Seq(0 .. 7) /\ F \in Nat
  BY FrameIs
<1>2. M = [i \in 1 .. F |->
             [byte |-> f[i], number |-> position + i - 1, payload |-> payload, at |-> i]]
  BY DEF Marked
<1>3. \A i \in 1 .. F : g[i] = position + i - 1 /\ g[i] \in Nat /\ f[i] \in 0 .. 7
  BY <1>1
<1> HIDE DEF f, M
<1>4. M = b
  <2> HIDE DEF F
  <2> QED
    BY <1>2
<1> HIDE DEF g
<1>5. \A i \in 1 .. F : M[i].byte = f[i] /\ M[i].number = g[i] /\ M[i].payload = payload /\ M[i].at = i
  BY <1>4, TokensAre
<1>6. \A i \in 1 .. F :
        [byte |-> f[i], number |-> g[i], payload |-> payload, at |-> i] \in Tokens
  BY <1>3 DEF Tokens
<1>7. M \in [1 .. F -> Tokens]
  BY <1>4, <1>6
<1>8. M \in Seq(Tokens) /\ Len(M) = F
  BY <1>1, <1>7
<1> QED
  BY <1>3, <1>5, <1>8 DEF f, M

LEMMA FollowIs ==
  ASSUME PayloadsAssumption, NEW p \in ReceiveParsers, NEW t \in Tokens
  PROVE  /\ Follow(p, t) \in ReceiveParsers
         /\ Follow(p, t).dataState = p.dataState /\ Follow(p, t).payloadLen = p.payloadLen
         /\ Follow(p, t).payload = p.payload /\ Follow(p, t).sumcheck = p.sumcheck
         /\ Follow(p, t).last = t.number
         /\ Follow(p, t).inStep <=> \/ p.inStep /\ t.number = p.last + 1
                                    \/ t.at = 1 /\ p.dataState = 0
         /\ ~p.inStep => Follow(p, t).handed = <<>> /\ Follow(p, t).expected = <<>>
         /\ p.inStep => /\ Follow(p, t).handed = p.handed
                        /\ Follow(p, t).expected = IF t.number = p.last + 1 /\ Last(t)
                                                   THEN Append(p.expected, t.payload) ELSE p.expected
<1> DEFINE C == p.inStep /\ t.number = p.last + 1
           in == C \/ (t.at = 1 /\ p.dataState = 0)
           hd == IF p.inStep THEN p.handed ELSE <<>>
           ex == IF ~p.inStep THEN <<>> ELSE IF C /\ Last(t) THEN Append(p.expected, t.payload)
                 ELSE p.expected
           no == t.number
           H == Seq(Seq(0 .. 7))
           q == [p EXCEPT !.inStep = in, !.last = no, !.handed = hd, !.expected = ex]
<1>1. p.inStep \in BOOLEAN /\ p.handed \in H /\ p.expected \in H
  BY DEF ReceiveParsers
<1>2. no \in Nat /\ t.payload \in Seq(0 .. 7)
  BY DEF Tokens, PayloadsAssumption
<1>3. hd \in H
  BY <1>1
<1>4. ex \in H
  <2> HIDE DEF C
  <2>1. Append(p.expected, t.payload) \in H
    BY <1>1, <1>2
  <2>2. <<>> \in H
    OBVIOUS
  <2> HIDE DEF H
  <2> QED
    BY <1>1, <2>1, <2>2
<1>5. in \in BOOLEAN
  OBVIOUS
<1>6. Follow(p, t) = q
  BY DEF Follow
<1>7. /\ q.dataState = p.dataState /\ q.payloadLen = p.payloadLen
      /\ q.payload = p.payload /\ q.sumcheck = p.sumcheck
      /\ q.last = no /\ q.inStep = in /\ q.handed = hd /\ q.expected = ex
  <2> HIDE DEF in, no, hd, ex
  <2> QED
    BY DEF ReceiveParsers
<1>8. q \in ReceiveParsers
  <2> DEFINE D == Seq(0 .. 7)
             O == 0 .. 7
             A == 0 .. 4
  <2>1. ReceiveParsers = [dataState: A, payloadLen: O, payload: D, sumcheck: O,
                          last: Nat, inStep: BOOLEAN, handed: H, expected: H]
    BY DEF ReceiveParsers
  <2> HIDE DEF D, O, A, H, in, no, hd, ex
  <2> QED
    BY <1>2, <1>3, <1>4, <1>5, <2>1
<1> HIDE DEF q
<1>9. ~p.inStep => hd = <<>> /\ ex = <<>>
  OBVIOUS
<1>10. p.inStep => hd = p.handed /\ ex = IF t.number = p.last + 1 /\ Last(t)
                                         THEN Append(p.expected, t.payload) ELSE p.expected
  OBVIOUS
<1> HIDE DEF hd, ex
<1>11. /\ Follow(p, t) \in ReceiveParsers
       /\ Follow(p, t).dataState = p.dataState /\ Follow(p, t).payloadLen = p.payloadLen
       /\ Follow(p, t).payload = p.payload /\ Follow(p, t).sumcheck = p.sumcheck
       /\ Follow(p, t).last = t.number
       /\ Follow(p, t).handed = hd /\ Follow(p, t).expected = ex
  <2> HIDE DEF in
  <2> QED
    BY <1>6, <1>7, <1>8
<1>12. Follow(p, t).inStep = in
  <2> HIDE DEF in
  <2> QED
    BY <1>6, <1>7
<1> QED
  BY <1>9, <1>10, <1>11, <1>12

(* The fields the parser changes with a byte b.                             *)
LEMMA HeadersAre ==
  ASSUME NEW p \in ReceiveParsers, NEW b \in 0 .. 7
  PROVE  /\ Header0(p, b) \in ReceiveParsers
         /\ b = DataHeader0 => Header0(p, b).dataState = 1
         /\ Header0(p, b).last = p.last /\ Header0(p, b).inStep = p.inStep
         /\ Header0(p, b).handed = p.handed /\ Header0(p, b).expected = p.expected
         /\ Header1(p, b) \in ReceiveParsers
         /\ b = DataHeader1 => Header1(p, b).dataState = 2 /\ Header1(p, b).sumcheck = 3
         /\ Header1(p, b).last = p.last /\ Header1(p, b).inStep = p.inStep
         /\ Header1(p, b).handed = p.handed /\ Header1(p, b).expected = p.expected
<1> DEFINE q == [p EXCEPT !.dataState = 1, !.payloadLen = 0]
           st == IF b = DataHeader1 THEN 2 ELSE 0
           u == [p EXCEPT !.sumcheck = 3, !.dataState = st]
<1>0. q \in ReceiveParsers
  <2> DEFINE S == Seq(0 .. 7)
             O == 0 .. 7
             A == 0 .. 4
             HH == Seq(Seq(0 .. 7))
  <2>1. ReceiveParsers = [dataState: A, payloadLen: O, payload: S, sumcheck: O,
                          last: Nat, inStep: BOOLEAN, handed: HH, expected: HH]
    BY DEF ReceiveParsers
  <2>2. 1 \in A /\ 0 \in O
    OBVIOUS
  <2> HIDE DEF S, O, A, HH
  <2> QED
    BY <2>1, <2>2
<1>1. /\ q \in ReceiveParsers /\ q.dataState = 1
      /\ q.last = p.last /\ q.inStep = p.inStep /\ q.handed = p.handed /\ q.expected = p.expected
  <2>1. /\ q.dataState = 1
        /\ q.last = p.last /\ q.inStep = p.inStep /\ q.handed = p.handed /\ q.expected = p.expected
    BY DEF ReceiveParsers
  <2> HIDE DEF q
  <2> QED
    BY <1>0, <2>1
<1>2. st \in 0 .. 4 /\ (b = DataHeader1 => st = 2)
  OBVIOUS
<1>3. Header0(p, b) = IF b = DataHeader0 THEN q ELSE p
  BY DEF Header0
<1>4. (DataHeader0 + DataHeader1) % 8 = 3
  BY DEF DataHeader0, DataHeader1
<1>5. Header1(p, b) = u
  BY <1>4 DEF Header1
<1> HIDE DEF st
<1>6. u \in ReceiveParsers
  <2> DEFINE S == Seq(0 .. 7)
             O == 0 .. 7
             A == 0 .. 4
             HH == Seq(Seq(0 .. 7))
  <2>1. ReceiveParsers = [dataState: A, payloadLen: O, payload: S, sumcheck: O,
                          last: Nat, inStep: BOOLEAN, handed: HH, expected: HH]
    BY DEF ReceiveParsers
  <2>2. st \in A /\ 3 \in O
    BY <1>2
  <2> HIDE DEF S, O, A, HH
  <2> QED
    BY <2>1, <2>2
<1>7. /\ u \in ReceiveParsers /\ u.dataState = st /\ u.sumcheck = 3
      /\ u.last = p.last /\ u.inStep = p.inStep /\ u.handed = p.handed /\ u.expected = p.expected
  <2>1. /\ u.dataState = st /\ u.sumcheck = 3
        /\ u.last = p.last /\ u.inStep = p.inStep /\ u.handed = p.handed /\ u.expected = p.expected
    BY DEF ReceiveParsers
  <2> HIDE DEF u
  <2> QED
    BY <1>6, <2>1
<1> HIDE DEF q, u
<1>8. /\ Header0(p, b) \in ReceiveParsers /\ (b = DataHeader0 => Header0(p, b).dataState = 1)
      /\ Header0(p, b).last = p.last /\ Header0(p, b).inStep = p.inStep
      /\ Header0(p, b).handed = p.handed /\ Header0(p, b).expected = p.expected
  BY <1>1, <1>3
<1> QED
  BY <1>2, <1>5, <1>7, <1>8

LEMMA LengthIs ==
  ASSUME NEW p \in ReceiveParsers, NEW b \in 0 .. 7
  PROVE  /\ Length(p, b) \in ReceiveParsers /\ Length(p, b).dataState = 3
         /\ Length(p, b).payloadLen = b /\ Length(p, b).payload = <<>>
         /\ Length(p, b).sumcheck = (p.sumcheck + b) % 8
         /\ Length(p, b).last = p.last /\ Length(p, b).inStep = p.inStep
         /\ Length(p, b).handed = p.handed /\ Length(p, b).expected = p.expected
<1> DEFINE s == (p.sumcheck + b) % 8
           D == Seq(0 .. 7)
           e == <<>>
           q == [p EXCEPT !.sumcheck = s, !.payloadLen = b, !.payload = e, !.dataState = 3]
<1>1. s \in 0 .. 7 /\ e \in D
  <2>1. p.sumcheck \in 0 .. 7
    BY DEF ReceiveParsers
  <2> QED
    BY <2>1
<1>2. Length(p, b) = q
  BY DEF Length
<1> HIDE DEF s, e
<1>3. /\ q.dataState = 3 /\ q.payloadLen = b /\ q.payload = e /\ q.sumcheck = s
      /\ q.last = p.last /\ q.inStep = p.inStep /\ q.handed = p.handed /\ q.expected = p.expected
  BY DEF ReceiveParsers
<1>4. q \in ReceiveParsers
  <2> DEFINE S == Seq(0 .. 7)
             O == 0 .. 7
             A == 0 .. 4
             HH == Seq(Seq(0 .. 7))
  <2>1. ReceiveParsers = [dataState: A, payloadLen: O, payload: S, sumcheck: O,
                          last: Nat, inStep: BOOLEAN, handed: HH, expected: HH]
    BY DEF ReceiveParsers
  <2>2. 3 \in A /\ s \in O /\ b \in O /\ e \in S
    BY <1>1
  <2> HIDE DEF S, O, A, HH
  <2> QED
    BY <2>1, <2>2
<1> HIDE DEF q
<1>5. /\ Length(p, b) \in ReceiveParsers /\ Length(p, b).dataState = 3
      /\ Length(p, b).payloadLen = b /\ Length(p, b).payload = e
      /\ Length(p, b).sumcheck = s
      /\ Length(p, b).last = p.last /\ Length(p, b).inStep = p.inStep
      /\ Length(p, b).handed = p.handed /\ Length(p, b).expected = p.expected
  BY <1>2, <1>3, <1>4
<1> QED
  BY <1>5 DEF s, e

LEMMA PayloadIs ==
  ASSUME NEW p \in ReceiveParsers, NEW b \in 0 .. 7
  PROVE  /\ Payload(p, b) \in ReceiveParsers
         /\ Payload(p, b).dataState = (IF Len(p.payload) + 1 >= p.payloadLen THEN 4 ELSE 3)
         /\ Payload(p, b).payloadLen = p.payloadLen
         /\ Payload(p, b).payload = Append(p.payload, b)
         /\ Payload(p, b).sumcheck = (p.sumcheck + b) % 8
         /\ Payload(p, b).last = p.last /\ Payload(p, b).inStep = p.inStep
         /\ Payload(p, b).handed = p.handed /\ Payload(p, b).expected = p.expected
<1> DEFINE s == (p.sumcheck + b) % 8
           D == Seq(0 .. 7)
           e == Append(p.payload, b)
           st == IF Len(p.payload) + 1 >= p.payloadLen THEN 4 ELSE 3
           q == [p EXCEPT !.sumcheck = s, !.payload = e, !.dataState = st]
<1>1. s \in 0 .. 7 /\ e \in D /\ st \in 0 .. 4
  <2>1. p.sumcheck \in 0 .. 7 /\ p.payload \in D
    BY DEF ReceiveParsers
  <2>2. s \in 0 .. 7
    BY <2>1, SMTT(40)
  <2>3. e \in D
    BY <2>1
  <2>4. st \in 0 .. 4
    OBVIOUS
  <2> QED
    BY <2>2, <2>3, <2>4
<1>2. Payload(p, b) = q
  BY DEF Payload
<1> HIDE DEF s, e, st
<1>3. /\ q.dataState = st /\ q.payloadLen = p.payloadLen /\ q.payload = e /\ q.sumcheck = s
      /\ q.last = p.last /\ q.inStep = p.inStep /\ q.handed = p.handed /\ q.expected = p.expected
  BY DEF ReceiveParsers
<1>4. q \in ReceiveParsers
  <2> DEFINE S == Seq(0 .. 7)
             O == 0 .. 7
             A == 0 .. 4
             HH == Seq(Seq(0 .. 7))
  <2>1. ReceiveParsers = [dataState: A, payloadLen: O, payload: S, sumcheck: O,
                          last: Nat, inStep: BOOLEAN, handed: HH, expected: HH]
    BY DEF ReceiveParsers
  <2>2. st \in A /\ s \in O /\ e \in S
    BY <1>1
  <2> HIDE DEF S, O, A, HH
  <2> QED
    BY <2>1, <2>2
<1> HIDE DEF q
<1>5. /\ Payload(p, b) \in ReceiveParsers /\ Payload(p, b).dataState = st
      /\ Payload(p, b).payloadLen = p.payloadLen /\ Payload(p, b).payload = e
      /\ Payload(p, b).sumcheck = s
      /\ Payload(p, b).last = p.last /\ Payload(p, b).inStep = p.inStep
      /\ Payload(p, b).handed = p.handed /\ Payload(p, b).expected = p.expected
  BY <1>2, <1>3, <1>4
<1> QED
  BY <1>5 DEF s, e, st

LEMMA SumcheckIs ==
  ASSUME NEW p \in ReceiveParsers, NEW b \in 0 .. 7
  PROVE  /\ Sumcheck(p, b) \in ReceiveParsers /\ Sumcheck(p, b).dataState = 0
         /\ Sumcheck(p, b).last = p.last /\ Sumcheck(p, b).inStep = p.inStep
         /\ Sumcheck(p, b).expected = p.expected
         /\ b = p.sumcheck => Sumcheck(p, b).handed = Append(p.handed, p.payload)
<1> DEFINE hd == IF b = p.sumcheck THEN Append(p.handed, p.payload) ELSE p.handed
           H == Seq(Seq(0 .. 7))
           q == [p EXCEPT !.dataState = 0, !.payloadLen = 0, !.handed = hd]
<1>1. hd \in H
  <2>1. p.handed \in H /\ p.payload \in Seq(0 .. 7)
    BY DEF ReceiveParsers
  <2>2. Append(p.handed, p.payload) \in H
    BY <2>1
  <2> HIDE DEF H
  <2> QED
    BY <2>1, <2>2
<1>2. Sumcheck(p, b) = q
  BY DEF Sumcheck
<1>3. b = p.sumcheck => hd = Append(p.handed, p.payload)
  OBVIOUS
<1> HIDE DEF hd
<1>4. /\ q.dataState = 0 /\ q.handed = hd
      /\ q.last = p.last /\ q.inStep = p.inStep /\ q.expected = p.expected
  BY DEF ReceiveParsers
<1>5. q \in ReceiveParsers
  <2> DEFINE S == Seq(0 .. 7)
             O == 0 .. 7
             A == 0 .. 4
             HH == Seq(Seq(0 .. 7))
  <2>1. ReceiveParsers = [dataState: A, payloadLen: O, payload: S, sumcheck: O,
                          last: Nat, inStep: BOOLEAN, handed: HH, expected: HH]
    BY DEF ReceiveParsers
  <2>2. 0 \in A /\ 0 \in O /\ hd \in HH
    BY <1>1
  <2> HIDE DEF S, O, A, HH
  <2> QED
    BY <2>1, <2>2
<1> HIDE DEF q
<1> QED
  BY <1>2, <1>3, <1>4, <1>5

(* A parser that has k bytes of a frame, given the next one, q but for its  *)
(* history, has k + 1, or the frame is whole.                               *)
LEMMA NextByte ==
  ASSUME PayloadsAssumption, NEW payload \in Payloads, NEW k \in 1 .. BodyLen(payload),
         NEW q \in ReceiveParsers, HasBytes(q, payload, k)
  PROVE  IF k = BodyLen(payload)
         THEN /\ Given(q, Frame(payload)[k + 1]).dataState = 0
              /\ Given(q, Frame(payload)[k + 1]).handed = Append(q.handed, payload)
         ELSE /\ HasBytes(Given(q, Frame(payload)[k + 1]), payload, k + 1)
              /\ Given(q, Frame(payload)[k + 1]).handed = q.handed
<1> DEFINE d == payload
           D == Len(d)
           f == Frame(d)
           body == FrameBody(d)
           S == Sums(body)
           n == Len(body)
           B == BodyLen(d)
           b == f[k + 1]
           r == Given(q, b)
<1>1. /\ d \in Seq(0 .. 7) /\ D \in 1 .. 7
      /\ body \in Seq(0 .. 7) /\ n = 3 + D
      /\ f \in Seq(0 .. 7) /\ Len(f) = 4 + D
      /\ f[1] = DataHeader0 /\ f[2] = DataHeader1 /\ f[3] = D
      /\ \A i \in 1 .. D : f[3 + i] = d[i]
      /\ f[4 + D] = S[3 + D]
      /\ \A i \in 1 .. 3 + D : body[i] = f[i]
  BY FrameIs
<1> HIDE DEF D, B, r
<1>0. B = 3 + D /\ B \in Nat /\ D \in Nat
  <2>1. B = 3 + D
    BY DEF B, BodyLen, D
  <2> QED
    BY <1>1, <2>1
<1>2. /\ S[0] = 0 /\ \A i \in 1 .. n : S[i] = (S[i - 1] + body[i]) % 8
      /\ \A i \in 0 .. n : S[i] \in 0 .. 7
  BY <1>1, SumsTyped
<1>3. k \in 1 .. B /\ k \in 1 .. 3 + D
  <2>1. k \in 1 .. B
    BY DEF B
  <2> QED
    BY <1>0, <2>1
<1>4. /\ q.dataState = IF k < 3 THEN k ELSE IF k < B THEN 3 ELSE 4
      /\ k > 1 => q.sumcheck = S[k]
      /\ k > 2 => q.payloadLen = D /\ q.payload = SubSeq(d, 1, k - 3)
  BY DEF HasBytes, B, D
<1>5. HasBytes(r, d, k + 1) <=>
        /\ r.dataState = IF k + 1 < 3 THEN k + 1 ELSE IF k + 1 < B THEN 3 ELSE 4
        /\ k + 1 > 1 => r.sumcheck = S[k + 1]
        /\ k + 1 > 2 => r.payloadLen = D /\ r.payload = SubSeq(d, 1, k + 1 - 3)
  <2> DEFINE j == k + 1
  <2>1. HasBytes(r, d, j) <=>
          /\ r.dataState = IF j < 3 THEN j ELSE IF j < B THEN 3 ELSE 4
          /\ j > 1 => r.sumcheck = S[j]
          /\ j > 2 => r.payloadLen = D /\ r.payload = SubSeq(d, 1, j - 3)
    <3> HIDE DEF j
    <3> QED
      BY DEF HasBytes, B, D
  <2> QED
    BY <2>1
<1>6. b = f[k + 1]
  OBVIOUS
<1>7. \A i \in 1 .. Len(f) : f[i] \in 0 .. 7
  BY <1>1
<1> DEFINE F == Len(f)
<1>8. F = 4 + D /\ \A i \in 1 .. F : f[i] \in 0 .. 7
  BY <1>0, <1>1, <1>7
<1> DEFINE part == SubSeq(d, 1, k - 3)
           next == SubSeq(d, 1, k + 1 - 3)
<1>9. /\ k = 2 => next = <<>>
      /\ k > 2 => Len(part) = k - 3
      /\ k > 2 /\ k < B => next = Append(part, d[k - 2])
      /\ k = B => part = d
  <2>1. ASSUME k = 2 PROVE next = <<>>
    <3>1. k + 1 - 3 = 0
      BY <2>1
    <3> QED
      BY <3>1, SubSeqEmpty
  <2>2. ASSUME k > 2 PROVE Len(part) = k - 3
    <3> DEFINE h == k - 3
    <3>1. h \in Int /\ (\A i \in 1 .. h : d[i] \in 0 .. 7) /\ h >= 0 /\ h \in Nat
      <4>1. D \in Nat /\ h \in Nat /\ h <= D
        <5> QED
          BY <1>0, <1>3, <2>2
      <4> HIDE DEF h
      <4>2. \A i \in 1 .. h : i \in 1 .. D
        <5> QED
          BY <4>1
      <4> QED
        BY <1>0, <1>1, <4>1, <4>2
    <3> HIDE DEF h
    <3>2. Len(SubSeq(d, 1, h)) = IF 1 <= h THEN h - 1 + 1 ELSE 0
      BY <3>1, SubSeqProperties
    <3> DEFINE l == Len(SubSeq(d, 1, h))
    <3>3. l = IF 1 <= h THEN h - 1 + 1 ELSE 0
      BY <3>2
    <3> HIDE DEF l
    <3>4. l = h
      BY <3>1, <3>3
    <3> QED
      BY <3>4 DEF h, l
  <2>3. ASSUME k > 2, k < B PROVE next = Append(part, d[k - 2])
    <3> DEFINE j == k - 2
    <3>1. j \in 1 .. D /\ k - 3 = j - 1 /\ k + 1 - 3 = j
      <4> QED
        BY <1>0, <1>3, <2>3
    <3> HIDE DEF j
    <3>2. Append(SubSeq(d, 1, j - 1), d[j]) = SubSeq(d, 1, j)
      BY <1>0, <1>1, <3>1, SubSeqGrows
    <3> QED
      BY <3>1, <3>2 DEF j
  <2>4. ASSUME k = B PROVE part = d
    <3>1. k - 3 = D
      <4> QED
        BY <1>0, <2>4
    <3>2. SubSeq(d, 1, D) = d
      BY <1>0, <1>1, SubSeqWhole DEF D
    <3> HIDE DEF D
    <3> QED
      BY <3>1, <3>2
  <2> QED
    BY <2>1, <2>2, <2>3, <2>4
<1> DEFINE l == Len(part)
<1>10. k > 2 => l = k - 3
  BY <1>9
<1> HIDE DEF d, f, body, S, n, F, part, next, l, b
<1>11. b \in 0 .. 7
  BY <1>0, <1>1, <1>3, <1>6, <1>8
<1>12. k <= 2 + D => /\ k + 1 \in 1 .. n /\ k + 1 - 1 = k /\ b = body[k + 1]
                     /\ S[k + 1] = (S[k] + b) % 8
  BY <1>0, <1>1, <1>2, <1>3, <1>6
<1> DEFINE Then == IF k = B THEN r.dataState = 0 /\ r.handed = Append(q.handed, d)
                    ELSE HasBytes(r, d, k + 1) /\ r.handed = q.handed
<1>13. ASSUME k = 1 PROVE Then
  <2>1. q.dataState = 1 /\ b = DataHeader1
    BY <1>0, <1>1, <1>4, <1>6, <1>13
  <2>2. r = Header1(q, b)
    BY <2>1 DEF r, Given
  <2>3. r.dataState = 2 /\ r.sumcheck = 3 /\ r.handed = q.handed
    BY <1>11, <2>1, <2>2, HeadersAre
  <2>4. S[2] = 3 /\ k # B
    <3>1. 1 \in 1 .. n /\ 2 \in 1 .. n /\ 1 \in 1 .. 3 + D /\ 2 \in 1 .. 3 + D /\ k # B
      BY <1>0, <1>1, <1>13
    <3>2. S[1] = (0 + 5) % 8 /\ S[2] = (S[1] + 6) % 8
      BY <1>0, <1>1, <1>2, <3>1, SMTT(40) DEF DataHeader0, DataHeader1
    <3> QED
      BY <3>1, <3>2
  <2>5. HasBytes(r, d, k + 1)
    BY <1>0, <1>1, <1>5, <1>13, <2>3, <2>4
  <2> QED
    BY <2>3, <2>4, <2>5
<1>14. ASSUME k = 2 PROVE Then
  <2>1. q.dataState = 2 /\ b = D /\ q.sumcheck = S[2] /\ S[3] = (S[2] + b) % 8
    BY <1>0, <1>1, <1>4, <1>6, <1>12, <1>14
  <2>2. r = Length(q, b)
    BY <2>1 DEF r, Given
  <2>3. /\ r.dataState = 3 /\ r.payloadLen = b /\ r.payload = <<>>
        /\ r.sumcheck = (q.sumcheck + b) % 8 /\ r.handed = q.handed
    BY <1>11, <2>2, LengthIs
  <2>4. k + 1 < B /\ k # B /\ k + 1 = 3
    BY <1>0, <1>1, <1>14
  <2>5. next = <<>>
    BY <1>9, <1>14
  <2>6. HasBytes(r, d, k + 1)
    BY <1>5, <2>1, <2>3, <2>4, <2>5 DEF next
  <2> QED
    BY <2>3, <2>4, <2>6
<1>15. ASSUME k > 2, k < B PROVE Then
  <2>1. /\ q.dataState = 3 /\ q.payloadLen = D /\ q.payload = part /\ q.sumcheck = S[k]
        /\ S[k + 1] = (S[k] + b) % 8
    BY <1>0, <1>1, <1>3, <1>4, <1>12, <1>15 DEF part
  <2>2. b = d[k - 2]
    <3>1. k - 2 \in 1 .. D /\ 3 + (k - 2) = k + 1
      BY <1>0, <1>1, <1>3, <1>15
    <3> QED
      BY <1>0, <1>1, <1>6, <3>1
  <2>3. r = Payload(q, b)
    BY <2>1 DEF r, Given
  <2>4. /\ r.dataState = (IF Len(q.payload) + 1 >= q.payloadLen THEN 4 ELSE 3)
        /\ r.payloadLen = q.payloadLen
        /\ r.payload = Append(q.payload, b)
        /\ r.sumcheck = (q.sumcheck + b) % 8 /\ r.handed = q.handed
    BY <1>11, <2>3, PayloadIs
  <2>5. r.dataState = (IF l + 1 >= D THEN 4 ELSE 3)
    BY <2>1, <2>4 DEF l
  <2>6. l + 1 >= D <=> ~(k + 1 < B)
    BY <1>0, <1>1, <1>3, <1>10, <1>15
  <2>7. r.dataState = IF k + 1 < 3 THEN k + 1 ELSE IF k + 1 < B THEN 3 ELSE 4
    BY <1>3, <1>15, <2>5, <2>6
  <2>8. r.payload = next
    BY <1>9, <1>15, <2>1, <2>2, <2>4
  <2>9. HasBytes(r, d, k + 1)
    BY <1>5, <2>1, <2>4, <2>7, <2>8 DEF next
  <2>10. k # B
    BY <1>0, <1>1, <1>15
  <2> QED
    BY <2>4, <2>9, <2>10
<1>16. ASSUME k = B PROVE Then
  <2>1. q.dataState = 4 /\ q.payload = d /\ q.sumcheck = S[3 + D] /\ b = S[3 + D]
    <3>1. k > 2 /\ k > 1 /\ ~(k < 3) /\ ~(k < B) /\ k + 1 = 4 + D
      BY <1>0, <1>1, <1>16
    <3>2. part = d /\ q.payload = part
      BY <1>4, <1>9, <1>16, <3>1 DEF part
    <3> QED
      BY <1>0, <1>1, <1>4, <1>6, <1>16, <3>1, <3>2
  <2>2. r = Sumcheck(q, b)
    BY <2>1 DEF r, Given
  <2>3. b = q.sumcheck
    BY <2>1
  <2>4. r.dataState = 0 /\ r.handed = Append(q.handed, q.payload)
    BY <1>11, <2>2, <2>3, SumcheckIs
  <2> QED
    BY <1>16, <2>1, <2>4
<1>17. Then
  <2>1. k = 1 \/ k = 2 \/ (k > 2 /\ k < B) \/ k = B
    BY <1>0, <1>3
  <2> HIDE DEF Then
  <2> QED
    BY <1>13, <1>14, <1>15, <1>16, <2>1
<1> QED
  BY <1>17 DEF B, b, d, f, r

LEMMA DataByteTyped ==
  ASSUME PayloadsAssumption, NEW p \in ReceiveParsers, NEW t \in Tokens
  PROVE  /\ DataByte(p, t) \in ReceiveParsers
         /\ DataByte(p, t).last = t.number
         /\ DataByte(p, t).inStep = Follow(p, t).inStep
         /\ DataByte(p, t).expected = Follow(p, t).expected
<1> DEFINE q == Follow(p, t)
           b == t.byte
<1>1. q \in ReceiveParsers /\ q.last = t.number
  BY FollowIs
<1>2. b \in 0 .. 7
  BY DEF Tokens
<1>3. p.dataState \in 0 .. 4
  BY DEF ReceiveParsers
<1>4. DataByte(p, t) =
        CASE p.dataState = 0 -> Header0(q, b) [] p.dataState = 1 -> Header1(q, b)
          [] p.dataState = 2 -> Length(q, b) [] p.dataState = 3 -> Payload(q, b)
          [] p.dataState = 4 -> Sumcheck(q, b)
  BY DEF DataByte
<1> DEFINE r == DataByte(p, t)
<1> HIDE DEF q, b, r
<1>5. r \in {Header0(q, b), Header1(q, b), Length(q, b), Payload(q, b), Sumcheck(q, b)}
  <2>1. p.dataState = 0 \/ p.dataState = 1 \/ p.dataState = 2 \/ p.dataState = 3 \/ p.dataState = 4
    BY <1>3
  <2> QED
    BY <1>4, <2>1 DEF r
<1>6. r \in ReceiveParsers /\ r.last = q.last /\ r.inStep = q.inStep /\ r.expected = q.expected
  <2>1. CASE r = Header0(q, b)
    BY <1>1, <1>2, <2>1, HeadersAre
  <2>2. CASE r = Header1(q, b)
    BY <1>1, <1>2, <2>2, HeadersAre
  <2>3. CASE r = Length(q, b)
    BY <1>1, <1>2, <2>3, LengthIs
  <2>4. CASE r = Payload(q, b)
    BY <1>1, <1>2, <2>4, PayloadIs
  <2>5. CASE r = Sumcheck(q, b)
    BY <1>1, <1>2, <2>5, SumcheckIs
  <2> QED
    BY <1>5, <2>1, <2>2, <2>3, <2>4, <2>5
<1> QED
  BY <1>1, <1>6 DEF q, r

(* Whatever byte of the frames under way the parser is given, if it is in   *)
(* step afterwards it stands where the next one begins.                     *)
LEMMA ByteTaken ==
  ASSUME PayloadsAssumption, NEW W, W \subseteq Tokens, NEW n \in Nat \ {0}, OfFrames(W, n),
         NEW t \in W, NEW p, Stands(p, W, n)
  PROVE  Stands(DataByte(p, t), W, n)
<1> DEFINE q == Follow(p, t)
           b == t.byte
           r == DataByte(p, t)
<1>1. t \in Tokens /\ p \in ReceiveParsers /\ t.payload \in Payloads /\ t.number \in Nat
      /\ t.at \in Nat \ {0} /\ b \in 0 .. 7
  BY DEF Stands, Tokens
<1>2. /\ t.at <= Len(Frame(t.payload)) /\ b = Frame(t.payload)[t.at]
      /\ t.number < n /\ (t.number = n - 1 => Last(t))
      /\ \A u \in W : u.number = t.number + 1 => Succeeds(u, t)
  BY DEF OfFrames
<1>3. /\ q \in ReceiveParsers
      /\ q.dataState = p.dataState /\ q.payloadLen = p.payloadLen
      /\ q.payload = p.payload /\ q.sumcheck = p.sumcheck
      /\ q.inStep <=> \/ p.inStep /\ t.number = p.last + 1
                      \/ t.at = 1 /\ p.dataState = 0
      /\ ~p.inStep => q.handed = <<>> /\ q.expected = <<>>
      /\ p.inStep => /\ q.handed = p.handed
                     /\ q.expected = IF t.number = p.last + 1 /\ Last(t)
                                     THEN Append(p.expected, t.payload) ELSE p.expected
  BY <1>1, FollowIs
<1>4. r \in ReceiveParsers /\ r.last = t.number /\ r.inStep = q.inStep /\ r.expected = q.expected
  BY <1>1, DataByteTyped
<1>5. r = Given(q, b)
  BY <1>3 DEF DataByte, Given
<1>6. p.inStep => p.handed = p.expected /\ InTime(p, W, n)
  BY DEF Stands
<1> DEFINE d == t.payload
           D == Len(d)
           F == Len(Frame(d))
           B == BodyLen(d)
<1>7. D \in 1 .. 7 /\ F = 4 + D /\ Frame(d)[1] = DataHeader0
  BY <1>1, FrameIs
<1>8. B = 3 + D
  BY DEF BodyLen
<1>9. Last(t) <=> t.at = F
  BY DEF Last
<1> HIDE DEF q, b, r
<1>10. SUFFICES ASSUME q.inStep
               PROVE  r.handed = r.expected /\ InTime(r, W, n)
  BY <1>2, <1>4 DEF Stands, r
<1>11. ASSUME ~Last(t), HasBytes(r, d, t.at) PROVE InTime(r, W, n)
  <2>1. t.at \in 1 .. B
    <3> HIDE DEF D, F, B
    <3> QED
      BY <1>1, <1>2, <1>7, <1>9, <1>8, <1>11 DEF F
  <2>2. \A u \in W : u.number = r.last + 1 => u.payload = d /\ u.at = t.at + 1
    BY <1>2, <1>4, <1>11 DEF Succeeds
  <2>3. r.last # n - 1
    BY <1>2, <1>4, <1>11
  <2> QED
    BY <1>1, <1>11, <2>1, <2>2, <2>3 DEF InTime, B
<1>12. ASSUME t.at = 1, p.dataState = 0
       PROVE  r.handed = r.expected /\ InTime(r, W, n)
  <2>1. b = DataHeader0 /\ ~Last(t)
    <3> HIDE DEF D, F, B
    <3> QED
      BY <1>2, <1>7, <1>9, <1>12
  <2>2. r = Header0(q, b)
    BY <1>3, <1>5, <1>12 DEF Given
  <2>3. r.dataState = 1 /\ r.handed = q.handed
    BY <1>1, <1>3, <2>1, <2>2, HeadersAre DEF b
  <2>4. q.handed = q.expected
    <3>1. CASE p.inStep
      BY <1>3, <1>6, <2>1, <3>1
    <3>2. CASE ~p.inStep
      BY <1>3, <3>2
    <3> QED
      BY <3>1, <3>2
  <2>5. HasBytes(r, d, t.at)
    BY <1>12, <2>3 DEF HasBytes
  <2> QED
    BY <1>4, <1>11, <2>1, <2>3, <2>4, <2>5
<1>13. CASE t.at = 1 /\ p.dataState = 0
  BY <1>12, <1>13
<1>14. CASE ~(t.at = 1 /\ p.dataState = 0)
  <2>1. p.inStep /\ t.number = p.last + 1 /\ p.handed = p.expected /\ InTime(p, W, n)
    BY <1>3, <1>6, <1>10, <1>14
  <2>2. PICK payload \in Payloads : \E k \in 1 .. BodyLen(payload) :
          /\ HasBytes(p, payload, k)
          /\ \A u \in W : u.number = p.last + 1 => u.payload = payload /\ u.at = k + 1
    BY <1>14, <2>1 DEF InTime
  <2>3. PICK k \in 1 .. BodyLen(payload) :
          /\ HasBytes(p, payload, k)
          /\ \A u \in W : u.number = p.last + 1 => u.payload = payload /\ u.at = k + 1
    BY <2>2
  <2>4. payload = d /\ t.at = k + 1 /\ k \in 1 .. B
    BY <2>1, <2>3
  <2>5. HasBytes(q, d, k)
    BY <1>3, <2>3, <2>4 DEF HasBytes
  <2>6. b = Frame(d)[k + 1] /\ d \in Payloads
    BY <1>1, <1>2, <2>4
  <2>7. IF k = B THEN r.dataState = 0 /\ r.handed = Append(q.handed, d)
        ELSE HasBytes(r, d, k + 1) /\ r.handed = q.handed
    <3> HIDE DEF d
    <3> QED
      BY <1>3, <1>5, <2>4, <2>5, <2>6, NextByte DEF B
  <2>8. q.handed = p.handed /\ q.expected = IF Last(t) THEN Append(p.expected, d) ELSE p.expected
    BY <1>3, <2>1
  <2>9. Last(t) <=> k = B
    <3>1. k \in Nat /\ D \in Nat
      <4> HIDE DEF D, B
      <4> QED
        BY <1>7, <1>8, <2>4
    <3> HIDE DEF D, F, B
    <3> QED
      BY <1>7, <1>9, <1>8, <2>4, <3>1
  <2>10. CASE Last(t)
    <3>1. r.dataState = 0 /\ r.handed = r.expected
      BY <1>4, <2>1, <2>7, <2>8, <2>9, <2>10
    <3>2. \A u \in W : u.number = r.last + 1 => u.at = 1
      BY <1>2, <1>4, <2>10 DEF Succeeds
    <3> QED
      BY <3>1, <3>2 DEF InTime
  <2>11. CASE ~Last(t)
    <3>1. HasBytes(r, d, t.at) /\ r.handed = r.expected
      BY <1>4, <2>1, <2>4, <2>7, <2>8, <2>9, <2>11
    <3> QED
      BY <1>11, <2>11, <3>1
  <2> QED
    BY <2>10, <2>11
<1> QED
  BY <1>13, <1>14

LEMMA PartOf ==
  ASSUME NEW S, NEW s \in Seq(S), NEW a \in 1 .. Len(s) + 1, NEW b \in 0 .. Len(s)
  PROVE  SubSeq(s, a, b) \in Seq(S) /\ BytesIn(SubSeq(s, a, b)) \subseteq BytesIn(s)
<1> DEFINE L == Len(s)
           z == SubSeq(s, a, b)
           l == Len(z)
<1>1. L \in Nat /\ a \in 1 .. L + 1 /\ b \in 0 .. L /\ DOMAIN s = 1 .. L /\ \A i \in 1 .. L : s[i] \in S
  OBVIOUS
<1>2. a \in Int /\ b \in Int /\ \A i \in a .. b : i \in 1 .. L
  <2> HIDE DEF L
  <2> QED
    BY <1>1
<1>3. \A i \in a .. b : s[i] \in S
  BY <1>1, <1>2
<1>4. /\ z \in Seq(S) /\ l = (IF a <= b THEN b - a + 1 ELSE 0)
      /\ \A i \in 1 .. b - a + 1 : z[i] = s[a + i - 1]
  <2>1. z \in Seq(S)
    BY <1>2, <1>3, SubSeqProperties
  <2>2. l = (IF a <= b THEN b - a + 1 ELSE 0)
    BY <1>2, <1>3, SubSeqProperties
  <2>3. \A i \in 1 .. b - a + 1 : z[i] = s[a + i - 1]
    BY <1>2, <1>3, SubSeqProperties
  <2> HIDE DEF z, l
  <2> QED
    BY <2>1, <2>2, <2>3
<1>5. DOMAIN z = 1 .. l
  BY <1>4
<1> HIDE DEF z, l, L
<1>6. ASSUME NEW i \in 1 .. l PROVE z[i] \in BytesIn(s)
  <2>1. i \in 1 .. b - a + 1 /\ a + i - 1 \in 1 .. L
    BY <1>1, <1>4
  <2> QED
    BY <1>1, <1>4, <2>1 DEF BytesIn
<1>7. BytesIn(z) \subseteq BytesIn(s)
  BY <1>5, <1>6 DEF BytesIn
<1> QED
  BY <1>4, <1>7 DEF z

(* A piece of the bytes under way leaves it so, however long it is.         *)
LEMMA PieceTaken ==
  ASSUME PayloadsAssumption, NEW W, W \subseteq Tokens, NEW n \in Nat \ {0}, OfFrames(W, n),
         NEW piece \in Seq(Tokens), BytesIn(piece) \subseteq W, NEW p, Stands(p, W, n)
  PROVE  Stands(Parsed(p, piece)[Len(piece)], W, n)
<1> DEFINE N == Len(piece)
           after == Parsed(p, piece)
           T == {m \in Nat : m <= N => Stands(after[m], W, n)}
<1>1. N \in Nat /\ \A m \in 1 .. N : piece[m] \in W
  BY DEF BytesIn
<1>2. after[0] = p /\ \A m \in 1 .. N : after[m] = DataByte(after[m - 1], piece[m])
  BY <1>1, ParsedIs
<1> HIDE DEF N, after
<1>3. 0 \in T
  BY <1>2
<1>4. ASSUME NEW m \in Nat, m \in T PROVE m + 1 \in T
  <2> SUFFICES ASSUME m + 1 <= N PROVE Stands(after[m + 1], W, n)
    OBVIOUS
  <2>1. m + 1 \in 1 .. N /\ m + 1 - 1 = m /\ m <= N
    BY <1>1
  <2>2. Stands(after[m], W, n) /\ piece[m + 1] \in W /\ after[m + 1] = DataByte(after[m], piece[m + 1])
    BY <1>1, <1>2, <1>4, <2>1
  <2> QED
    BY <2>2, ByteTaken
<1>5. \A m \in Nat : m \in T
  BY <1>3, <1>4, Upward
<1>6. Stands(after[N], W, n)
  BY <1>1, <1>5
<1> QED
  BY <1>6 DEF after, N

(* With fewer bytes under way all the more.                                 *)
LEMMA Fewer ==
  ASSUME NEW W, NEW V, V \subseteq W, NEW n, OfFrames(W, n), NEW p, Stands(p, W, n)
  PROVE  OfFrames(V, n) /\ Stands(p, V, n)
<1>1. OfFrames(V, n)
  BY DEF OfFrames
<1>2. InTime(p, W, n) => InTime(p, V, n)
  BY DEF InTime
<1> QED
  BY <1>1, <1>2 DEF Stands

LEMMA WaitingTyped ==
  ASSUME ReceiveTyped
  PROVE  Waiting \subseteq Tokens
BY DEF ReceiveTyped, Waiting, BytesIn

LEMMA ReceiveInitially ==
  ASSUME PayloadsAssumption, ReceiveInit
  PROVE  ReceiveInv
<1>1. stream = <<>> /\ rxMails = <<>> /\ position = 1
  BY DEF ReceiveInit
<1>2. Waiting = {}
  BY <1>1 DEF Waiting, BytesIn
<1>3. parser \in ReceiveParsers
  BY DEF ReceiveInit, ReceiveParsers
<1>4. parser.last < position /\ parser.handed = parser.expected /\ parser.dataState = 0
  BY <1>1 DEF ReceiveInit
<1>5. Stands(parser, Waiting, position)
  BY <1>2, <1>3, <1>4 DEF Stands, InTime
<1> QED
  BY <1>1, <1>2, <1>3, <1>5 DEF ReceiveInv, ReceiveTyped, OfFrames

LEMMA ServerSendsStep ==
  ASSUME PayloadsAssumption, ReceiveInv, NEW payload \in Payloads, ServerSends(payload)
  PROVE  ReceiveInv'
<1> DEFINE n == position
           M == Marked(payload)
           F == Len(Frame(payload))
           L == Len(stream)
           S == stream'
           W == Waiting
           V == BytesIn(M)
<1>1. /\ stream \in Seq(Tokens) /\ n \in Nat \ {0} /\ W \subseteq Tokens
      /\ OfFrames(W, n) /\ Stands(parser, W, n)
  BY WaitingTyped DEF ReceiveInv, ReceiveTyped
<1>2. /\ M \in Seq(Tokens) /\ Len(M) = F
      /\ \A i \in 1 .. F : /\ M[i].byte = Frame(payload)[i] /\ M[i].number = n + i - 1
                           /\ M[i].payload = payload /\ M[i].at = i
  BY <1>1, MarkedAre
<1>3. F \in Nat /\ F >= 5
  <2> DEFINE D == Len(payload)
  <2>1. D \in 1 .. 7 /\ F = 4 + D
    BY FrameIs
  <2> HIDE DEF D, F
  <2> QED
    BY <2>1
<1>4. S = stream \o M /\ n' = n + F /\ UNCHANGED <<rxMails, parser>>
  BY DEF ServerSends
<1>5. ReceiveTyped'
  <2>1. stream \o M \in Seq(Tokens)
    BY <1>1, <1>2, ConcatGives
  <2>2. n + F \in Nat \ {0}
    <3> HIDE DEF F
    <3> QED
      BY <1>1, <1>3
  <2>3. rxMails \in Seq(Seq(Tokens)) /\ parser \in ReceiveParsers
    BY DEF ReceiveInv, ReceiveTyped
  <2> HIDE DEF S, F
  <2> QED
    BY <1>4, <2>1, <2>2, <2>3 DEF ReceiveTyped, S
<1>6. V = {M[i] : i \in 1 .. F} /\ V \subseteq Tokens
  <2>1. DOMAIN M = 1 .. F
    BY <1>2
  <2> HIDE DEF M, F
  <2> QED
    BY <1>2, <2>1 DEF BytesIn
<1>7. W' \subseteq W \cup V
  <2>1. BytesIn(S) \subseteq BytesIn(stream) \cup V
    <3> DEFINE m == Len(M)
               l == Len(S)
    <3>1. S = stream \o M /\ S \in Seq(Tokens)
      BY <1>1, <1>2, <1>4, ConcatGives
    <3>2. l = L + m
      BY <1>1, <1>2, <1>4, ConcatGives, ZenonT(60)
    <3>3. \A i \in 1 .. L : S[i] = stream[i]
      BY <1>1, <1>2, <1>4, ConcatGives
    <3>4. \A i \in 1 .. m : S[L + i] = M[i]
      BY <1>1, <1>2, <1>4, ConcatGives
    <3>5. DOMAIN S = 1 .. l /\ DOMAIN stream = 1 .. L /\ DOMAIN M = 1 .. m /\ L \in Nat /\ m \in Nat
      BY <1>1, <1>2, <3>1
    <3> HIDE DEF S, M, m, l, L
    <3>6. ASSUME NEW i \in 1 .. l PROVE S[i] \in BytesIn(stream) \cup BytesIn(M)
      <4>1. CASE i <= L
        <5>1. i \in 1 .. L
          BY <3>5, <4>1
        <5> QED
          BY <3>3, <3>5, <5>1 DEF BytesIn
      <4>2. CASE ~(i <= L)
        <5>1. i - L \in 1 .. m /\ L + (i - L) = i
          BY <3>2, <3>5, <4>2
        <5> QED
          BY <3>4, <3>5, <5>1 DEF BytesIn
      <4> QED
        BY <4>1, <4>2
    <3> QED
      BY <3>5, <3>6 DEF BytesIn
  <2>2. UNION {BytesIn(rxMails'[i]) : i \in DOMAIN rxMails'} = UNION {BytesIn(rxMails[i]) : i \in DOMAIN rxMails}
    BY <1>4
  <2> HIDE DEF V
  <2> QED
    BY <2>1, <2>2 DEF Waiting
<1> DEFINE A == W \cup V
<1>8. \A t \in W : t \in Tokens /\ t.number \in Nat /\ t.number < n /\ t.at \in Nat
  BY <1>1 DEF OfFrames, Tokens
<1>9. \A t \in V : \E i \in 1 .. F : t = M[i]
  BY <1>6
<1> HIDE DEF M, F, W, V, n
<1>10. OfFrames(A, n + F)
  <2>1. ASSUME NEW t \in A
        PROVE  /\ t.at <= Len(Frame(t.payload)) /\ t.byte = Frame(t.payload)[t.at]
               /\ t.number < n + F /\ (t.number = n + F - 1 => Last(t))
    <3>1. CASE t \in W
      <4>1. t.at <= Len(Frame(t.payload)) /\ t.byte = Frame(t.payload)[t.at]
        BY <1>1, <3>1 DEF OfFrames
      <4>2. t.number < n + F /\ t.number # n + F - 1
        BY <1>1, <1>3, <1>8, <3>1
      <4> QED
        BY <4>1, <4>2
    <3>2. CASE t \in V
      <4>1. PICK i \in 1 .. F : t = M[i]
        BY <1>9, <3>2
      <4>2. t.byte = Frame(payload)[i] /\ t.number = n + i - 1 /\ t.payload = payload /\ t.at = i
        BY <1>2, <4>1
      <4>3. t.number < n + F /\ (t.number = n + F - 1 => i = F) /\ i <= F
        BY <1>1, <1>3, <4>2
      <4> QED
        BY <4>2, <4>3 DEF Last, F
    <3> QED
      BY <2>1, <3>1, <3>2
  <2>2. ASSUME NEW t \in A, NEW u \in A, u.number = t.number + 1 PROVE Succeeds(u, t)
    <3>1. CASE t \in W /\ u \in W
      BY <1>1, <2>2, <3>1 DEF OfFrames
    <3>2. CASE t \in W /\ u \in V
      <4>1. PICK i \in 1 .. F : u = M[i]
        BY <1>9, <3>2
      <4>2. u.number = n + i - 1 /\ u.at = i
        BY <1>2, <4>1
      <4>3. t.number = n - 1 /\ i = 1
        BY <1>1, <1>3, <1>8, <2>2, <3>2, <4>2
      <4>4. Last(t)
        BY <1>1, <3>2, <4>3 DEF OfFrames
      <4> QED
        BY <4>2, <4>3, <4>4 DEF Succeeds
    <3>3. CASE t \in V /\ u \in W
      <4>1. PICK i \in 1 .. F : t = M[i]
        BY <1>9, <3>3
      <4>2. t.number = n + i - 1
        BY <1>2, <4>1
      <4> QED
        BY <1>1, <1>3, <1>8, <2>2, <3>3, <4>2
    <3>4. CASE t \in V /\ u \in V
      <4>1. PICK i \in 1 .. F : t = M[i]
        BY <1>9, <3>4
      <4>2. PICK j \in 1 .. F : u = M[j]
        BY <1>9, <3>4
      <4>3. /\ t.number = n + i - 1 /\ t.payload = payload /\ t.at = i
            /\ u.number = n + j - 1 /\ u.payload = payload /\ u.at = j
        BY <1>2, <4>1, <4>2
      <4>4. j = i + 1 /\ i # F
        BY <1>1, <1>3, <2>2, <4>3
      <4>5. ~Last(t)
        BY <4>3, <4>4 DEF Last, F
      <4> QED
        BY <4>3, <4>4, <4>5 DEF Succeeds
    <3> QED
      BY <2>2, <3>1, <3>2, <3>3, <3>4
  <2> DEFINE N == n + F
  <2>0. N - 1 = n + F - 1
    BY <1>1, <1>3
  <2>3. \A t \in A : /\ t.at <= Len(Frame(t.payload)) /\ t.byte = Frame(t.payload)[t.at]
                    /\ t.number < N /\ (t.number = N - 1 => Last(t))
    BY <2>0, <2>1
  <2>4. \A t, u \in A : u.number = t.number + 1 => Succeeds(u, t)
    BY <2>2
  <2> HIDE DEF A, N
  <2>5. OfFrames(A, N)
    BY <2>3, <2>4 DEF OfFrames
  <2> QED
    BY <2>5 DEF N
<1>11. Stands(parser, A, n + F)
  <2>1. parser \in ReceiveParsers /\ parser.last \in Nat /\ parser.last < n
        /\ (parser.inStep => parser.handed = parser.expected /\ InTime(parser, W, n))
    BY <1>1 DEF Stands, ReceiveParsers
  <2>2. parser.last < n + F /\ parser.last # n + F - 1
    BY <1>1, <1>3, <2>1
  <2>3. \A t \in V : t.number = parser.last + 1 => parser.last = n - 1 /\ t.at = 1
    <3> TAKE t \in V
    <3>1. PICK i \in 1 .. F : t = M[i]
      BY <1>9
    <3>2. t.number = n + i - 1 /\ t.at = i
      BY <1>2, <3>1
    <3> QED
      BY <1>1, <1>3, <2>1, <3>2
  <2>4. InTime(parser, W, n) => InTime(parser, A, n + F)
    <3>1. ASSUME parser.dataState = 0, \A t \in W : t.number = parser.last + 1 => t.at = 1
          PROVE  InTime(parser, A, n + F)
      BY <2>3, <3>1 DEF InTime
    <3>2. ASSUME parser.last # n - 1,
                 NEW d \in Payloads, NEW k \in 1 .. BodyLen(d), HasBytes(parser, d, k),
                 \A t \in W : t.number = parser.last + 1 => t.payload = d /\ t.at = k + 1
          PROVE  InTime(parser, A, n + F)
      <4>1. \A t \in A : t.number = parser.last + 1 => t.payload = d /\ t.at = k + 1
        BY <2>3, <3>2
      <4> DEFINE N == n + F
      <4>2. parser.last # N - 1
        BY <1>1, <1>3, <2>2
      <4> HIDE DEF A, N
      <4>3. InTime(parser, A, N)
        BY <3>2, <4>1, <4>2 DEF InTime
      <4> QED
        BY <4>3 DEF N
    <3> HIDE DEF A
    <3> QED
      BY <3>1, <3>2 DEF InTime
  <2> QED
    BY <2>1, <2>2, <2>4 DEF Stands
<1>12. OfFrames(W', n + F) /\ Stands(parser, W', n + F)
  <2>1. W' \subseteq A
    BY <1>7
  <2> HIDE DEF A
  <2> QED
    BY <1>10, <1>11, <2>1, Fewer
<1>13. position' = n + F /\ parser' = parser
  BY <1>4 DEF n
<1> QED
  BY <1>5, <1>12, <1>13 DEF ReceiveInv, W

LEMMA DisconnectStep ==
  ASSUME PayloadsAssumption, ReceiveInv, Disconnect
  PROVE  ReceiveInv'
<1> DEFINE n == position
           W == Waiting
<1>1. stream' = <<>> /\ n' = n + 1 /\ UNCHANGED <<rxMails, parser>>
  BY DEF Disconnect
<1>2. n \in Nat \ {0} /\ rxMails \in Seq(Seq(Tokens)) /\ parser \in ReceiveParsers
      /\ W \subseteq Tokens /\ OfFrames(W, n) /\ Stands(parser, W, n)
  BY WaitingTyped DEF ReceiveInv, ReceiveTyped
<1>3. ReceiveTyped'
  BY <1>1, <1>2 DEF ReceiveTyped
<1>4. W' \subseteq W
  BY <1>1 DEF Waiting, BytesIn
<1>5. \A t \in W : t.number \in Nat
  BY <1>2 DEF Tokens
<1>6. parser.last \in Nat /\ parser.last < n
  BY <1>2 DEF Stands, ReceiveParsers
<1> HIDE DEF W, n
<1>7. OfFrames(W, n + 1)
  <2>1. \A t \in W : t.number < n => t.number < n + 1 /\ t.number # n + 1 - 1
    BY <1>2, <1>5
  <2> QED
    BY <1>2, <2>1 DEF OfFrames
<1>8. Stands(parser, W, n + 1)
  <2>1. parser.last < n + 1 /\ parser.last # n + 1 - 1
    BY <1>2, <1>6
  <2> QED
    BY <1>2, <2>1 DEF Stands, InTime
<1>9. OfFrames(W', n + 1) /\ Stands(parser, W', n + 1)
  BY <1>4, <1>7, <1>8, Fewer
<1> QED
  BY <1>1, <1>3, <1>9 DEF ReceiveInv, W, n

LEMMA EventDataStep ==
  ASSUME PayloadsAssumption, ReceiveInv, NEW k \in DOMAIN stream, EventData(k)
  PROVE  ReceiveInv'
<1> DEFINE L == Len(stream)
           piece == SubSeq(stream, 1, k)
           rest == SubSeq(stream, k + 1, L)
<1>1. /\ stream \in Seq(Tokens) /\ rxMails \in Seq(Seq(Tokens)) /\ parser \in ReceiveParsers
      /\ position \in Nat \ {0}
      /\ OfFrames(Waiting, position) /\ Stands(parser, Waiting, position)
  BY DEF ReceiveInv, ReceiveTyped
<1>2. L \in Nat /\ k \in 1 .. L /\ \A i \in 1 .. L : stream[i] \in Tokens
  BY <1>1
<1>3. stream' = rest /\ UNCHANGED <<parser, position>>
      /\ (rxMails' = Append(rxMails, piece) \/ rxMails' = rxMails)
  BY DEF EventData
<1>4. /\ rest \in Seq(Tokens) /\ BytesIn(rest) \subseteq BytesIn(stream)
      /\ piece \in Seq(Tokens) /\ BytesIn(piece) \subseteq BytesIn(stream)
  <2>1. 1 \in 1 .. L + 1 /\ k \in 0 .. L /\ k + 1 \in 1 .. L + 1 /\ L \in 0 .. L
    <3> HIDE DEF L
    <3> QED
      BY <1>2
  <2>2. rest \in Seq(Tokens) /\ BytesIn(rest) \subseteq BytesIn(stream)
    BY <1>1, <2>1, PartOf
  <2>3. piece \in Seq(Tokens) /\ BytesIn(piece) \subseteq BytesIn(stream)
    BY <1>1, <2>1, PartOf
  <2> HIDE DEF piece, rest
  <2> QED
    BY <2>2, <2>3
<1>5. ReceiveTyped'
  <2> HIDE DEF rest, piece
  <2>1. Append(rxMails, piece) \in Seq(Seq(Tokens))
    BY <1>1, <1>4
  <2> QED
    BY <1>1, <1>3, <1>4, <2>1 DEF ReceiveTyped
<1>6. Waiting' \subseteq Waiting
  <2> HIDE DEF rest, piece
  <2> DEFINE Mails(q) == UNION {BytesIn(q[i]) : i \in DOMAIN q}
  <2>1. \A i \in DOMAIN Append(rxMails, piece) :
          Append(rxMails, piece)[i] = piece
          \/ \E j \in DOMAIN rxMails : Append(rxMails, piece)[i] = rxMails[j]
    BY <1>1, <1>4, AppendHas
  <2>2. Mails(Append(rxMails, piece)) \subseteq Mails(rxMails) \cup BytesIn(piece)
    BY <2>1
  <2>3. Mails(rxMails') \subseteq Mails(rxMails) \cup BytesIn(piece)
    BY <1>3, <2>2
  <2>4. Waiting = BytesIn(stream) \cup Mails(rxMails) /\ Waiting' = BytesIn(rest) \cup Mails(rxMails')
    BY <1>3 DEF Waiting
  <2> HIDE DEF Mails
  <2> QED
    BY <1>4, <2>3, <2>4
<1>7. OfFrames(Waiting', position) /\ Stands(parser, Waiting', position)
  BY <1>1, <1>6, Fewer
<1> QED
  BY <1>3, <1>5, <1>7 DEF ReceiveInv

LEMMA DataReceiverStep ==
  ASSUME PayloadsAssumption, ReceiveInv, DataReceiver
  PROVE  ReceiveInv'
<1> DEFINE piece == Head(rxMails)
           W == Waiting
           p == Parsed(parser, piece)[Len(piece)]
<1>1. /\ stream \in Seq(Tokens) /\ rxMails \in Seq(Seq(Tokens)) /\ rxMails # <<>>
      /\ position \in Nat \ {0} /\ W \subseteq Tokens
      /\ OfFrames(W, position) /\ Stands(parser, W, position)
  BY WaitingTyped DEF ReceiveInv, ReceiveTyped, DataReceiver
<1>2. parser' = p /\ rxMails' = Tail(rxMails) /\ UNCHANGED <<stream, position>>
  BY DEF DataReceiver
<1>3. /\ piece \in Seq(Tokens) /\ Tail(rxMails) \in Seq(Seq(Tokens))
      /\ \E i \in DOMAIN rxMails : piece = rxMails[i]
      /\ \A i \in DOMAIN Tail(rxMails) : \E j \in DOMAIN rxMails : Tail(rxMails)[i] = rxMails[j]
  BY <1>1, TailHas
<1>4. BytesIn(piece) \subseteq W
  <2> HIDE DEF piece
  <2> QED
    BY <1>3 DEF Waiting
<1>5. Waiting' \subseteq W
  <2>1. UNION {BytesIn(Tail(rxMails)[i]) : i \in DOMAIN Tail(rxMails)}
          \subseteq UNION {BytesIn(rxMails[i]) : i \in DOMAIN rxMails}
    BY <1>3
  <2> QED
    BY <1>2, <2>1 DEF Waiting
<1> HIDE DEF W, piece
<1>6. Stands(p, W, position)
  BY <1>1, <1>3, <1>4, PieceTaken
<1> HIDE DEF p
<1>7. OfFrames(Waiting', position) /\ Stands(p, Waiting', position)
  BY <1>1, <1>5, <1>6, Fewer
<1>8. ReceiveTyped'
  BY <1>1, <1>2, <1>3, <1>6 DEF ReceiveTyped, Stands
<1> QED
  BY <1>2, <1>7, <1>8 DEF ReceiveInv

LEMMA ReceiveInvariant == ReceiveSpec => []ReceiveInv
<1>1. ReceiveInit => ReceiveInv
  BY PayloadsAssumption, ReceiveInitially
<1>2. ReceiveInv /\ [ReceiveNext]_receiveVars => ReceiveInv'
  <2> SUFFICES ASSUME ReceiveInv, [ReceiveNext]_receiveVars PROVE ReceiveInv'
    OBVIOUS
  <2>1. CASE Connect
    BY <2>1 DEF Connect, ReceiveInv, ReceiveTyped, Waiting
  <2>2. CASE Disconnect
    BY <2>2, PayloadsAssumption, DisconnectStep
  <2>3. CASE \E payload \in Payloads : ServerSends(payload)
    BY <2>3, PayloadsAssumption, ServerSendsStep
  <2>4. CASE \E k \in DOMAIN stream : EventData(k)
    BY <2>4, PayloadsAssumption, EventDataStep
  <2>5. CASE DataReceiver
    BY <2>5, PayloadsAssumption, DataReceiverStep
  <2>6. CASE UNCHANGED receiveVars
    BY <2>6 DEF receiveVars, ReceiveInv, ReceiveTyped, Waiting
  <2> QED
    BY <2>1, <2>2, <2>3, <2>4, <2>5, <2>6 DEF ReceiveNext
<1> QED
  BY <1>1, <1>2, PTL DEF ReceiveSpec

(* However TCP cuts the stream, the commands handed on are those the server *)
(* sent, in order, each once, and after a loss they are so again from the   *)
(* first frame at whose beginning the parser waits: for commands of any     *)
(* content and number, and any number of buffers and connections.           *)
THEOREM CommandsCorrect == ReceiveSpec => []CommandsInStep
<1>1. ReceiveInv => CommandsInStep
  BY DEF ReceiveInv, Stands, CommandsInStep
<1> QED
  BY <1>1, ReceiveInvariant, PTL

(* Of the receiving buffers none is lost and none made up: those of the     *)
(* mails and the free ones are all; and the parser stays within its types.  *)
THEOREM ReceiveTypes == ReceiveSpec => []ReceiveTypeOK
<1> DEFINE Counted == /\ connected \in BOOLEAN /\ rxCount \in 0 .. RX_BUFFER_NUM
                      /\ rxCount + Len(rxMails) = RX_BUFFER_NUM
<1>1. ReceiveInit => Counted
  <2>1. RX_BUFFER_NUM \in Nat
    BY PayloadsAssumption DEF PayloadsAssumption
  <2>2. ASSUME ReceiveInit PROVE rxCount = RX_BUFFER_NUM /\ Len(rxMails) = 0 /\ connected \in BOOLEAN
    BY <2>2 DEF ReceiveInit
  <2> QED
    BY <2>1, <2>2
<1>2. ReceiveInv /\ Counted /\ [ReceiveNext]_receiveVars => Counted'
  <2> SUFFICES ASSUME ReceiveInv, Counted, [ReceiveNext]_receiveVars PROVE Counted'
    OBVIOUS
  <2>1. rxMails \in Seq(Seq(Tokens)) /\ Len(rxMails) \in Nat /\ RX_BUFFER_NUM \in Nat
    BY PayloadsAssumption DEF ReceiveInv, ReceiveTyped, PayloadsAssumption
  <2>2. CASE UNCHANGED <<rxCount, rxMails>>
    <3>1. connected' \in BOOLEAN
      BY DEF ReceiveNext, receiveVars, Connect, Disconnect, ServerSends, EventData, DataReceiver
    <3> QED
      BY <2>2, <3>1
  <2>3. CASE \E n \in DOMAIN stream : EventData(n)
    <3>1. PICK n \in DOMAIN stream : EventData(n)
      BY <2>3
    <3>2. CASE UNCHANGED <<rxCount, rxMails>>
      BY <2>2, <3>2
    <3>3. CASE rxCount > 0 /\ rxCount' = rxCount - 1
               /\ rxMails' = Append(rxMails, SubSeq(stream, 1, n))
      <4>1. Len(rxMails') = Len(rxMails) + 1
        BY <2>1, <3>3
      <4>2. connected' \in BOOLEAN
        BY <3>1 DEF EventData
      <4> QED
        BY <2>1, <3>3, <4>1, <4>2
    <3> QED
      BY <3>1, <3>2, <3>3 DEF EventData
  <2>4. CASE DataReceiver
    <3>1. rxMails # <<>> /\ rxMails' = Tail(rxMails) /\ rxCount' = rxCount + 1
          /\ connected' \in BOOLEAN
      BY <2>4 DEF DataReceiver
    <3>2. Len(rxMails) > 0 /\ Len(rxMails') = Len(rxMails) - 1
      BY <2>1, <3>1
    <3> DEFINE n == Len(rxMails)
               m == Len(rxMails')
    <3>3. n \in Nat /\ n > 0 /\ m = n - 1 /\ rxCount + n = RX_BUFFER_NUM
      BY <2>1, <3>2
    <3> HIDE DEF n, m
    <3>4. rxCount' \in 0 .. RX_BUFFER_NUM /\ rxCount' + m = RX_BUFFER_NUM
      BY <2>1, <3>1, <3>3
    <3> QED
      BY <3>1, <3>4 DEF m
  <2> QED
    BY <2>2, <2>3, <2>4 DEF ReceiveNext, receiveVars, Connect, Disconnect, ServerSends
<1>3. ReceiveInv /\ Counted => ReceiveTypeOK
  BY DEF ReceiveInv, ReceiveTyped, ReceiveParsers, ReceiveTypeOK
<1> QED
  BY <1>1, <1>2, <1>3, ReceiveInvariant, PTL DEF ReceiveSpec
=============================================================================
