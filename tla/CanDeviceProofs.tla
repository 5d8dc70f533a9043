--------------------------- MODULE CanDeviceProofs ----------------------------
(***************************************************************************)
(* Proofs about CanDevice, for any number of devices, attributes, threads, *)
(* permits and tries: its type invariant, that the table and the threads   *)
(* agree, that no permit is lost, that it implements AttributeService, and *)
(* that a caller is told "ok" only upon an answer it can be told of.       *)
(***************************************************************************)
EXTENDS CanDevice, Lemmas, FiniteSetTheorems, TLAPS

(* The transactions that have begun, and therefore have a key.             *)
BegunTx == 1 .. net.next - 1

(* The numbers that remain are enough for the items that are left.         *)
NetKnowsTx ==
  /\ net.next + net.left <= MaxTx + 1
  /\ net.pc # "idle" => net.tx \in BegunTx
KeysKnown == \A t \in BegunTx : tx[t].key \in Keys
(* A worker has a transaction, and sends only while it has tries left.     *)
WorkersKnowTx ==
  \A w \in Workers :
    /\ worker[w].pc # "free" => worker[w].tx \in BegunTx
    /\ worker[w].pc = "send" => worker[w].tries > 0
BusKnowsTx ==
  /\ \A d \in Devices : reqBus[d] \subseteq BegunTx
  /\ rspBus \in Seq(BegunTx)
  /\ \A d \in Devices : unit[d] # NoTx => unit[d] \in BegunTx

TypeInv == TypeOK /\ NetKnowsTx /\ KeysKnown /\ WorkersKnowTx /\ BusKnowsTx

(* Since the table was looked at, nobody has taken the attribute: only the *)
(* net thread inserts.                                                     *)
StillFree == net.pc = "semaphore" => ~Taken(Wanted)

TableInv == TypeInv /\ StillFree /\ TableMatchesWorkers

LEMMA InitTypeInv == Init => TypeInv
  BY PermitsAssumption, BoundsAssumption
  DEF Init, TypeInv, TypeOK, NetThread, WorkThread, Transaction, Outcomes, Idle, NoTx, Tx, Keys,
      NetKnowsTx, KeysKnown, WorkersKnowTx, BusKnowsTx, BegunTx

LEMMA BegunIsTx == TypeInv => BegunTx \subseteq Tx
  BY BoundsAssumption DEF TypeInv, TypeOK, NetThread, BegunTx, Tx

LEMMA SeqMonotone ==
  ASSUME NEW S, NEW T, S \subseteq T, NEW s \in Seq(S)
  PROVE  s \in Seq(T)
  OBVIOUS

LEMMA SeqTail ==
  ASSUME NEW S, NEW s \in Seq(S), s # <<>>
  PROVE  Head(s) \in S /\ Tail(s) \in Seq(S)
  OBVIOUS

(* A call that begins leaves the keys of its predecessors as they are.     *)
LEMMA BeginCallType ==
  ASSUME TypeInv,
         NEW STATE k, k \in Keys, NEW write \in BOOLEAN, NEW STATE left, left \in Nat,
         NEW STATE told, told \in [Tx -> Transaction], \A t \in Tx : told[t].key = tx[t].key,
         net.next + left <= MaxTx,
         BeginCall(k, write, left, told)
  PROVE  /\ net' \in NetThread /\ tx' \in [Tx -> Transaction]
         /\ NetKnowsTx' /\ KeysKnown' /\ net'.pc = "check"
         /\ BegunTx \subseteq BegunTx'
         /\ \A t \in BegunTx : tx'[t].key = tx[t].key
<1> DEFINE T(t) == IF t = net.next THEN [told[t] EXCEPT !.key = k, !.write = write, !.outcome = "open"]
                                   ELSE told[t]
<1>1. net \in NetThread /\ net.next \in Tx
  BY BoundsAssumption DEF TypeInv, TypeOK, NetThread, Tx
<1>2. tx' = [t \in Tx |-> T(t)]
  BY <1>1 DEF BeginCall
<1>3. ASSUME NEW t \in Tx PROVE T(t) \in Transaction
  <2>1. told[t] \in Transaction
    OBVIOUS
  <2>2. [told[t] EXCEPT !.key = k, !.write = write, !.outcome = "open"] \in Transaction
    BY <2>1 DEF Transaction, Outcomes
  <2> QED
    BY <2>1, <2>2
<1>4. tx' \in [Tx -> Transaction]
  BY <1>2, <1>3
<1>5. net' \in NetThread /\ net'.pc = "check" /\ net'.next = net.next + 1 /\ net'.tx = net.next
      /\ net'.left = left
  BY <1>1, BoundsAssumption DEF BeginCall, NetThread, Tx, NoTx
<1>6. BegunTx \subseteq BegunTx' /\ BegunTx' = BegunTx \cup {net.next} /\ BegunTx \subseteq Tx
      /\ net.next \notin BegunTx
  <2>1. net.next \in Nat /\ net.next >= 1 /\ net.next <= MaxTx
    BY <1>1, BoundsAssumption DEF Tx
  <2>2. BegunTx = 1 .. net.next - 1 /\ BegunTx' = 1 .. net.next
    BY <1>5, <2>1 DEF BegunTx
  <2> QED
    BY <2>1, <2>2, BoundsAssumption DEF Tx
<1>7. \A t \in BegunTx : tx'[t].key = tx[t].key
  BY <1>2, <1>6
<1>8. tx'[net.next].key = k
  BY <1>1, <1>2 DEF Transaction
<1>9. KeysKnown'
  BY <1>6, <1>7, <1>8 DEF TypeInv, KeysKnown
<1>10. NetKnowsTx'
  BY <1>1, <1>5, <1>6, BoundsAssumption DEF NetKnowsTx, NetThread, Tx
<1> QED
  BY <1>4, <1>5, <1>6, <1>7, <1>9, <1>10

LEMMA CommandType ==
  ASSUME TypeInv, NEW k \in Keys, NEW write \in BOOLEAN, NEW items \in 1 .. MaxItems,
         Command(k, write, items)
  PROVE  /\ net' \in NetThread /\ tx' \in [Tx -> Transaction]
         /\ NetKnowsTx' /\ KeysKnown' /\ net'.pc = "check"
         /\ BegunTx \subseteq BegunTx'
         /\ \A t \in BegunTx : tx'[t].key = tx[t].key
<1>1. items - 1 \in Nat /\ net.next + (items - 1) <= MaxTx
  BY BoundsAssumption DEF Command, TypeInv, TypeOK, NetThread, Tx
<1>2. BeginCall(k, write, items - 1, tx) /\ tx \in [Tx -> Transaction]
  BY DEF Command, TypeInv, TypeOK
<1> QED
  BY <1>1, <1>2, BeginCallType

LEMMA CallReturnsType ==
  ASSUME TypeInv, net.pc # "idle",
         NEW STATE told, told \in [Tx -> Transaction], \A t \in Tx : told[t].key = tx[t].key,
         CallReturns(told)
  PROVE  /\ net' \in NetThread /\ tx' \in [Tx -> Transaction]
         /\ NetKnowsTx' /\ KeysKnown' /\ net'.pc # "semaphore"
         /\ BegunTx \subseteq BegunTx'
         /\ \A t \in BegunTx : tx'[t].key = tx[t].key
<1>1. net \in NetThread /\ BegunTx \subseteq Tx /\ net.tx \in BegunTx
      /\ net.next + net.left <= MaxTx + 1
  BY BoundsAssumption DEF TypeInv, TypeOK, NetThread, NetKnowsTx, BegunTx, Tx
<1>2. CASE net.left > 0 /\ BeginCall(tx[net.tx].key, TRUE, net.left - 1, told)
  <2>1. tx[net.tx].key \in Keys
    BY <1>1 DEF TypeInv, KeysKnown
  <2>2. net.left - 1 \in Nat /\ net.next + (net.left - 1) <= MaxTx
    BY <1>1, <1>2, BoundsAssumption DEF NetThread
  <2> HIDE DEF BeginCall, NetKnowsTx, KeysKnown, BegunTx
  <2> QED
    BY <1>2, <2>1, <2>2, BeginCallType, ZenonT(60)
<1>3. CASE net.left = 0 /\ net' = [net EXCEPT !.pc = "idle", !.tx = NoTx] /\ tx' = told
  <2>1. net' \in NetThread /\ net'.pc = "idle" /\ BegunTx' = BegunTx /\ NetKnowsTx'
    BY <1>1, <1>3 DEF NetThread, NetKnowsTx, BegunTx, NoTx
  <2> QED
    BY <1>1, <1>3, <2>1 DEF TypeInv, KeysKnown
<1> QED
  BY <1>2, <1>3 DEF CallReturns

(* What an action that leaves net alone must keep, given that it keeps the *)
(* keys.                                                                   *)
LEMMA SameNetTypeInv ==
  ASSUME TypeInv, UNCHANGED net, TypeOK',
         \A t \in Tx : tx'[t].key = tx[t].key,
         WorkersKnowTx', BusKnowsTx'
  PROVE  TypeInv'
<1>1. BegunTx' = BegunTx /\ BegunTx \subseteq Tx /\ NetKnowsTx'
  BY BoundsAssumption DEF TypeInv, TypeOK, NetThread, NetKnowsTx, BegunTx, Tx
<1>2. KeysKnown'
  BY <1>1 DEF TypeInv, KeysKnown
<1> QED
  BY <1>1, <1>2 DEF TypeInv

LEMMA TypeInvStep == TypeInv /\ [Next]_vars => TypeInv'
<1> SUFFICES ASSUME TypeInv, [Next]_vars PROVE TypeInv'
  OBVIOUS
<1> USE DEF busVars, pollVars
<1>0. /\ TypeOK /\ WorkersKnowTx /\ BusKnowsTx /\ KeysKnown /\ NetKnowsTx
      /\ BegunTx \subseteq Tx
  BY BoundsAssumption DEF TypeInv, TypeOK, NetThread, NetKnowsTx, BegunTx, Tx
<1>1. ASSUME net' \in NetThread, tx' \in [Tx -> Transaction], NetKnowsTx', KeysKnown',
             BegunTx \subseteq BegunTx', UNCHANGED <<EntryBuffer, poll, heard, reqBus, rspBus, unit>>,
             SyncTable' \in [Keys -> Workers \cup {NoWorker}], permits' \in Int,
             worker' \in [Workers -> WorkThread], WorkersKnowTx'
      PROVE  TypeInv'
  <2>1. TypeOK'
    BY <1>0, <1>1 DEF TypeOK
  <2>2. BusKnowsTx'
    BY <1>0, <1>1, SeqMonotone DEF BusKnowsTx
  <2> QED
    BY <1>1, <2>1, <2>2 DEF TypeInv
<1>2. ASSUME NEW k \in Keys, NEW write \in BOOLEAN, NEW items \in 1 .. MaxItems,
             Command(k, write, items)
      PROVE  TypeInv'
  <2>1. /\ net' \in NetThread /\ tx' \in [Tx -> Transaction] /\ NetKnowsTx' /\ KeysKnown'
        /\ BegunTx \subseteq BegunTx'
    BY <1>2, CommandType
  <2> QED
    BY <1>0, <1>1, <1>2, <2>1 DEF Command, TypeOK, WorkersKnowTx
<1>3. CASE WriteDelays
  <2>1. net \in NetThread /\ net.count - 1 \in 0 .. WriteWaits
        /\ net' = [net EXCEPT !.pc = "delay", !.count = @ - 1]
    BY <1>0, <1>3, BoundsAssumption DEF WriteDelays, TypeOK, NetThread
  <2>2. net' \in NetThread
    BY <2>1 DEF NetThread
  <2>3. NetKnowsTx' /\ BegunTx' = BegunTx
    BY <1>0, <1>3, <2>1 DEF WriteDelays, NetThread, NetKnowsTx, BegunTx
  <2> QED
    BY <1>0, <1>1, <1>3, <2>2, <2>3 DEF WriteDelays, TypeOK, WorkersKnowTx, KeysKnown
<1>4. CASE DelayEnds
  BY <1>0, <1>1, <1>4 DEF DelayEnds, TypeOK, NetThread, WorkersKnowTx, NetKnowsTx, KeysKnown, BegunTx
<1>5. CASE Refused
  <2> DEFINE told == [tx EXCEPT ![net.tx].outcome = "refused"]
  <2>1. net.pc # "idle" /\ CallReturns(told)
    BY <1>5 DEF Refused
  <2>2. told \in [Tx -> Transaction] /\ \A t \in Tx : told[t].key = tx[t].key
    BY <1>0, ZenonT(60) DEF TypeOK, Transaction, Outcomes
  <2> HIDE DEF told
  <2>3. /\ net' \in NetThread /\ tx' \in [Tx -> Transaction] /\ NetKnowsTx' /\ KeysKnown'
        /\ BegunTx \subseteq BegunTx'
    BY <2>1, <2>2, CallReturnsType
  <2> QED
    BY <1>0, <1>1, <1>5, <2>3 DEF Refused, TypeOK, WorkersKnowTx
<1>6. CASE Admit
  BY <1>0, <1>1, <1>6 DEF Admit, TypeOK, NetThread, WorkersKnowTx, NetKnowsTx, KeysKnown, BegunTx
<1>7. ASSUME NEW w \in Workers, StartWorker(w)
      PROVE  TypeInv'
  <2>1. net.pc # "idle" /\ CallReturns(tx) /\ tx \in [Tx -> Transaction]
    BY <1>0, <1>7 DEF StartWorker, TypeOK
  <2>2. /\ net' \in NetThread /\ tx' \in [Tx -> Transaction] /\ NetKnowsTx' /\ KeysKnown'
        /\ BegunTx \subseteq BegunTx'
    BY <2>1, CallReturnsType
  <2>3. net.tx \in BegunTx
    BY <1>0, <2>1 DEF NetKnowsTx
  <2>4. worker' \in [Workers -> WorkThread] /\ WorkersKnowTx'
    BY <1>0, <1>7, <2>2, <2>3, BoundsAssumption DEF StartWorker, TypeOK, WorkThread, WorkersKnowTx
  <2>5. SyncTable' \in [Keys -> Workers \cup {NoWorker}] /\ permits' \in Int
    <3> HIDE DEF Wanted, Keys
    <3>1. SyncTable' = [SyncTable EXCEPT ![Wanted] = w] /\ permits' = permits - 1
      BY <1>7 DEF StartWorker
    <3>2. SyncTable \in [Keys -> Workers \cup {NoWorker}] /\ permits \in Int
      BY <1>0 DEF TypeOK
    <3>3. permits - 1 \in Int
      BY <3>2
    <3> QED
      BY <3>1, <3>2, <3>3
  <2> QED
    BY <1>1, <1>7, <2>2, <2>4, <2>5 DEF StartWorker
<1>8. ASSUME NEW w \in Workers, Worker(w)
      PROVE  TypeInv'
  <2> USE DEF TypeOK, WorkersKnowTx, BusKnowsTx, BegunTx, Goto
  <2>1. CASE WorkerSends(w)
    <3>1. worker' \in [Workers -> WorkThread] /\ worker[w].tx \in BegunTx /\ WorkersKnowTx'
      <4>1. worker' = [worker EXCEPT ![w].pc = "wait", ![w].tries = @ - 1]
            /\ worker[w].pc = "send" /\ UNCHANGED net /\ worker[w] \in WorkThread
        BY <1>0, <2>1 DEF WorkerSends
      <4>2. worker[w].tries - 1 \in 0 .. Tries /\ worker[w].tx \in BegunTx
        <5>1. worker[w].tries \in 0 .. Tries /\ worker[w].tries > 0
          BY <1>0, <4>1 DEF WorkThread
        <5>2. worker[w].tx \in BegunTx
          BY <1>0, <4>1
        <5> QED
          BY <5>1, <5>2, BoundsAssumption
      <4> QED
        BY <1>0, <4>1, <4>2 DEF WorkThread
    <3>2. reqBus' \in [Devices -> SUBSET Tx] /\ \A d \in Devices : reqBus'[d] \subseteq BegunTx
      <4> DEFINE dev == KeyOf(w)[1]
      <4>1. reqBus' = [reqBus EXCEPT ![dev] = @ \cup {worker[w].tx}]
        BY <2>1 DEF WorkerSends
      <4> HIDE DEF dev
      <4> QED
        BY <1>0, <3>1, <4>1
    <3>3. TypeOK' /\ BusKnowsTx'
      BY <1>0, <2>1, <3>1, <3>2 DEF WorkerSends
    <3> QED
      BY <2>1, <3>1, <3>3, SameNetTypeInv DEF WorkerSends
  <2>2. CASE WorkerSignalled(w)
    <3>1. worker' \in [Workers -> WorkThread] /\ WorkersKnowTx'
      <4>1. worker' = [worker EXCEPT ![w] =
                         [@ EXCEPT !.pc = "report", !.sig = NoTx, !.got = worker[w].sig]]
            /\ worker[w].pc = "wait" /\ UNCHANGED net
        BY <2>2 DEF WorkerSignalled
      <4> DEFINE x == worker[w].sig
      <4>2. x \in Tx \cup {NoTx} /\ NoTx \in Tx \cup {NoTx} /\ worker[w] \in WorkThread
        BY <1>0 DEF WorkThread
      <4>3. worker' = [worker EXCEPT ![w] = [@ EXCEPT !.pc = "report", !.sig = NoTx, !.got = x]]
        BY <4>1
      <4> HIDE DEF x
      <4>4. [worker[w] EXCEPT !.pc = "report", !.sig = NoTx, !.got = x] \in WorkThread
        BY <4>2 DEF WorkThread
      <4>5. worker' \in [Workers -> WorkThread]
        <5>1. worker \in [Workers -> WorkThread]
          BY <1>0
        <5> HIDE DEF WorkThread
        <5> QED
          BY <5>1, <4>3, <4>4
      <4>6. worker'[w].tx = worker[w].tx /\ worker'[w].pc = "report"
        BY <1>0, <4>2, <4>3 DEF WorkThread
      <4>7. \A v \in Workers : v # w => worker'[v] = worker[v]
        BY <1>0, <4>3
      <4> QED
        BY <1>0, <4>1, <4>5, <4>6, <4>7
    <3>2. TypeOK' /\ BusKnowsTx'
      <4>1. UNCHANGED <<net, SyncTable, permits, EntryBuffer, pollVars, busVars, tx>>
        BY <2>2 DEF WorkerSignalled
      <4> QED
        BY <1>0, <3>1, <4>1
    <3> QED
      BY <2>2, <3>1, <3>2, SameNetTypeInv DEF WorkerSignalled
  <2>3. CASE WorkerTimesOut(w)
    <3> DEFINE p == IF worker[w].tries > 0 THEN "send" ELSE "report"
    <3>1. worker' = [worker EXCEPT ![w].pc = p] /\ worker[w].pc = "wait"
          /\ UNCHANGED <<net, SyncTable, permits, EntryBuffer, pollVars, busVars, tx>>
      BY <2>3 DEF WorkerTimesOut
    <3>2. p \in {"send", "report"} /\ (p = "send" => worker[w].tries > 0)
      OBVIOUS
    <3> HIDE DEF p
    <3>3. worker' \in [Workers -> WorkThread] /\ WorkersKnowTx'
      BY <1>0, <3>1, <3>2 DEF WorkThread
    <3>4. TypeOK' /\ BusKnowsTx'
      BY <1>0, <3>1, <3>3
    <3> QED
      BY <3>1, <3>3, <3>4, SameNetTypeInv
  <2>4. CASE WorkerReportsWrite(w)
    <3>1. worker' \in [Workers -> WorkThread] /\ WorkersKnowTx'
      BY <1>0, <2>4 DEF WorkerReportsWrite, WorkThread
    <3>2. worker[w].tx \in Tx
      BY <1>0, <2>4 DEF WorkerReportsWrite, WorkThread
    <3>3. tx' \in [Tx -> Transaction] /\ \A t \in Tx : tx'[t].key = tx[t].key
      <4> DEFINE o == IF worker[w].got # NoTx THEN "ok" ELSE "failed"
                 a == worker[w].got
      <4>1. tx' = [tx EXCEPT ![worker[w].tx] = [@ EXCEPT !.outcome = o, !.answer = a]]
            /\ o \in Outcomes
        BY <2>4 DEF WorkerReportsWrite, Outcomes
      <4>2. a \in Tx \cup {NoTx}
        BY <1>0 DEF WorkThread
      <4> HIDE DEF o, a
      <4> QED
        BY <1>0, <3>2, <4>1, <4>2, ZenonT(60) DEF Transaction
    <3>4. TypeOK' /\ BusKnowsTx'
      BY <1>0, <2>4, <3>1, <3>3 DEF WorkerReportsWrite
    <3> QED
      BY <2>4, <3>1, <3>3, <3>4, SameNetTypeInv DEF WorkerReportsWrite
  <2>5. CASE WorkerReportsRead(w)
    <3>1. worker' \in [Workers -> WorkThread] /\ WorkersKnowTx'
      BY <1>0, <2>5, ZenonT(60) DEF WorkerReportsRead, WorkThread
    <3>2. worker[w].tx \in Tx
      BY <1>0, <2>5, SMTT(30), ZenonT(60) DEF WorkerReportsRead, WorkThread
    <3>3. tx' \in [Tx -> Transaction] /\ \A t \in Tx : tx'[t].key = tx[t].key
      <4> DEFINE held == EntryBuffer[KeyOf(w)[1]]
                 o == IF held # NoTx THEN "data" ELSE "empty"
      <4>1. held \in Tx \cup {NoTx}
        <5>1. worker[w].tx \in BegunTx
          BY <1>0, <2>5 DEF WorkerReportsRead
        <5>2. KeyOf(w) \in Devices \X Attrs
          BY <1>0, <5>1 DEF KeysKnown, Keys, KeyOf
        <5> QED
          BY <1>0, <5>2
      <4>2. tx' = [tx EXCEPT ![worker[w].tx] = [@ EXCEPT !.outcome = o, !.answer = held]]
            /\ o \in Outcomes
        BY <2>5 DEF WorkerReportsRead, Outcomes
      <4> HIDE DEF held, o
      <4> QED
        BY <1>0, <3>2, <4>1, <4>2, ZenonT(60) DEF Transaction
    <3>4. TypeOK' /\ BusKnowsTx'
      BY <1>0, <2>5, <3>1, <3>3 DEF WorkerReportsRead
    <3> QED
      BY <2>5, <3>1, <3>3, <3>4, SameNetTypeInv DEF WorkerReportsRead
  <2>6. CASE WorkerResets(w)
    BY <1>0, <2>6, SameNetTypeInv DEF WorkerResets, WorkThread
  <2>7. CASE WorkerErases(w)
    BY <1>0, <2>7, SameNetTypeInv DEF WorkerErases, WorkThread
  <2>8. CASE WorkerEnds(w)
    BY <1>0, <2>8, SameNetTypeInv, BoundsAssumption DEF WorkerEnds, WorkThread, Idle
  <2> QED
    BY <1>8, <2>1, <2>2, <2>3, <2>4, <2>5, <2>6, <2>7, <2>8 DEF Worker
<1>9. CASE Poll
  <2> USE DEF TypeOK, WorkersKnowTx, BusKnowsTx, BegunTx
  <2>1. CASE PollIgnores
    BY <1>0, <2>1, SameNetTypeInv DEF PollIgnores
  <2>2. CASE PollStores
    <3>1. Head(rspBus) \in BegunTx /\ Tail(rspBus) \in Seq(BegunTx) /\ Tail(rspBus) \in Seq(Tx)
      BY <1>0, <2>2, SeqTail DEF PollStores
    <3>2. SyncTable[tx[Head(rspBus)].key] \in Workers \cup {NoWorker}
      BY <1>0, <3>1 DEF KeysKnown
    <3>3. TypeOK' /\ BusKnowsTx' /\ WorkersKnowTx'
      <4> DEFINE t == Head(rspBus)
      <4>1. /\ EntryBuffer' = [EntryBuffer EXCEPT ![DeviceOf(t)] = t]
            /\ poll' = SyncTable[tx[t].key] /\ heard' = t /\ rspBus' = Tail(rspBus)
            /\ UNCHANGED <<net, SyncTable, permits, worker, reqBus, unit, tx>>
        BY <2>2 DEF PollStores
      <4>2. EntryBuffer' \in [Devices -> Tx \cup {NoTx}]
        <5> DEFINE dev == DeviceOf(t)
        <5>1. EntryBuffer' = [EntryBuffer EXCEPT ![dev] = t] /\ t \in Tx
          BY <1>0, <3>1, <4>1
        <5> HIDE DEF dev, t
        <5> QED
          BY <1>0, <5>1
      <4> HIDE DEF t
      <4> QED
        BY <1>0, <3>1, <3>2, <4>1, <4>2 DEF t
    <3> QED
      BY <1>0, <2>2, <3>3, SameNetTypeInv DEF PollStores
  <2>3. CASE PollSignals
    BY <1>0, <2>3, SameNetTypeInv, ZenonT(60) DEF PollSignals, WorkThread
  <2> QED
    BY <1>9, <2>1, <2>2, <2>3 DEF Poll
<1>10. ASSUME NEW d \in Devices, Unit(d)
       PROVE  TypeInv'
  <2> USE DEF TypeOK, WorkersKnowTx, BusKnowsTx, BegunTx
  <2>1. CASE UnitReceives(d)
    <3>1. PICK t \in reqBus[d] :
             /\ tx[t].applied < MaxCopies
             /\ tx' = [tx EXCEPT ![t].applied = @ + 1] /\ unit' = [unit EXCEPT ![d] = t]
             /\ UNCHANGED <<net, SyncTable, permits, worker, EntryBuffer, pollVars, reqBus, rspBus>>
      BY <2>1 DEF UnitReceives
    <3>2. t \in BegunTx /\ t \in Tx
      BY <1>0, <3>1
    <3>3. tx' \in [Tx -> Transaction] /\ \A u \in Tx : tx'[u].key = tx[u].key
      <4>1. tx \in [Tx -> Transaction] /\ tx[t].applied + 1 \in 0 .. MaxCopies
        BY <1>0, <3>1, <3>2, BoundsAssumption DEF Transaction
      <4> QED
        BY <3>1, <3>2, <4>1 DEF Transaction
    <3>4. TypeOK' /\ BusKnowsTx' /\ WorkersKnowTx'
      BY <1>0, <3>1, <3>2, <3>3
    <3> QED
      BY <3>1, <3>3, <3>4, SameNetTypeInv
  <2>2. CASE UnitSends(d)
    <3>1. unit[d] \in BegunTx /\ unit[d] \in Tx
      BY <1>0, <2>2 DEF UnitSends
    <3>2. Append(rspBus, unit[d]) \in Seq(BegunTx) /\ Append(rspBus, unit[d]) \in Seq(Tx)
      BY <1>0, <3>1
    <3>3. rspBus' \in Seq(BegunTx) /\ rspBus' \in Seq(Tx)
      BY <1>0, <2>2, <3>2 DEF UnitSends
    <3>4. TypeOK' /\ BusKnowsTx' /\ WorkersKnowTx'
      BY <1>0, <2>2, <3>3 DEF UnitSends
    <3> QED
      BY <2>2, <3>4, SameNetTypeInv DEF UnitSends
  <2> QED
    BY <1>10, <2>1, <2>2 DEF Unit
<1>11. CASE UNCHANGED vars
  BY <1>11 DEF TypeInv, TypeOK, NetKnowsTx, KeysKnown, WorkersKnowTx, BusKnowsTx, BegunTx, vars
<1> QED
  BY <1>2, <1>3, <1>4, <1>5, <1>6, <1>7, <1>8, <1>9, <1>10, <1>11 DEF Next, Net

(* The state of the system stays well formed: a response never carries an  *)
(* attribute nobody asked for, a worker always has a transaction, and the  *)
(* batch of a command never runs out of numbers.                           *)
THEOREM TypeCorrect == Spec => []TypeOK
<1>1. TypeInv => TypeOK
  BY DEF TypeInv
<1> QED
  BY InitTypeInv, TypeInvStep, <1>1, PTL DEF Spec

----------------------------------------------------------------------------
(* The table.                                                              *)

(* What keeps the table, the registered workers and their keys as they are *)
(* keeps the agreement between them.                                       *)
LEMMA SameTableInv ==
  ASSUME TableInv, TypeInv', UNCHANGED SyncTable, net' = net,
         \A t \in BegunTx : tx'[t].key = tx[t].key,
         \A w \in Workers : Registered(w)' = Registered(w) /\ worker'[w].tx = worker[w].tx
  PROVE  TableInv'
<1>1. ASSUME NEW w \in Workers, Registered(w)
      PROVE  KeyOf(w)' = KeyOf(w)
  BY <1>1 DEF TableInv, TypeInv, WorkersKnowTx, KeyOf, Registered
<1>2. TableMatchesWorkers'
  BY <1>1 DEF TableInv, TypeInv, TypeOK, TableMatchesWorkers, Taken
<1>3. StillFree'
  BY DEF TableInv, TypeInv, NetKnowsTx, StillFree, Taken, Wanted
<1> QED
  BY <1>2, <1>3 DEF TableInv

LEMMA TableInvStep == TableInv /\ [Next]_vars => TableInv'
<1> SUFFICES ASSUME TableInv, [Next]_vars PROVE TableInv'
  OBVIOUS
<1> USE DEF busVars
<1>0. /\ TypeInv' /\ TypeInv /\ StillFree /\ TableMatchesWorkers
      /\ NetKnowsTx /\ WorkersKnowTx /\ BegunTx \subseteq Tx
      /\ worker \in [Workers -> WorkThread] /\ tx \in [Tx -> Transaction]
      /\ SyncTable \in [Keys -> Workers \cup {NoWorker}]
  <2>1. TypeInv /\ StillFree /\ TableMatchesWorkers
    BY DEF TableInv
  <2>2. TypeInv'
    BY <2>1, TypeInvStep
  <2> QED
    BY <2>1, <2>2, BegunIsTx DEF TypeInv, TypeOK
<1>1. ASSUME \A t \in BegunTx : tx'[t].key = tx[t].key,
             UNCHANGED <<SyncTable, worker>>,
             net'.pc # "semaphore" \/ (net.pc = "check" /\ ~Taken(Wanted) /\ net'.tx = net.tx)
      PROVE  TableInv'
  <2>1. ASSUME NEW w \in Workers, Registered(w)
        PROVE  KeyOf(w)' = KeyOf(w)
    BY <1>0, <1>1, <2>1 DEF WorkersKnowTx, KeyOf, Registered
  <2>2. TableMatchesWorkers'
    BY <1>0, <1>1, <2>1 DEF TableMatchesWorkers, Taken, Registered
  <2>3. StillFree'
    BY <1>0, <1>1 DEF NetKnowsTx, StillFree, Taken, Wanted
  <2> QED
    BY <1>0, <2>2, <2>3 DEF TableInv
<1>2. ASSUME NEW k \in Keys, NEW write \in BOOLEAN, NEW items \in 1 .. MaxItems,
             Command(k, write, items)
      PROVE  TableInv'
  <2>1. UNCHANGED <<SyncTable, worker>>
    BY <1>2 DEF Command
  <2>2. net'.pc = "check" /\ \A t \in BegunTx : tx'[t].key = tx[t].key
    BY <1>0, <1>2, CommandType
  <2> QED
    BY <1>1, <2>1, <2>2
<1>3. CASE WriteDelays
  BY <1>0, <1>1, <1>3 DEF WriteDelays, TypeInv, TypeOK, NetThread
<1>4. CASE DelayEnds
  BY <1>0, <1>1, <1>4 DEF DelayEnds, TypeInv, TypeOK, NetThread
<1>5. CASE Refused
  <2> DEFINE told == [tx EXCEPT ![net.tx].outcome = "refused"]
  <2>1. net.pc # "idle" /\ CallReturns(told) /\ UNCHANGED <<SyncTable, worker>>
    BY <1>5 DEF Refused
  <2>2. told \in [Tx -> Transaction] /\ \A t \in Tx : told[t].key = tx[t].key
    BY <1>0, ZenonT(60) DEF Transaction, Outcomes
  <2> HIDE DEF told
  <2>3. net'.pc # "semaphore" /\ \A t \in BegunTx : tx'[t].key = tx[t].key
    BY <1>0, <2>1, <2>2, CallReturnsType
  <2> QED
    BY <1>1, <2>1, <2>3
<1>6. CASE Admit
  BY <1>0, <1>1, <1>6 DEF Admit, TypeInv, TypeOK, NetThread
<1>7. ASSUME NEW w \in Workers, StartWorker(w)
      PROVE  TableInv'
  <2>1. net.pc = "semaphore" /\ CallReturns(tx) /\ worker[w].pc = "free"
    BY <1>7 DEF StartWorker
  <2>2. net'.pc # "semaphore" /\ \A t \in BegunTx : tx'[t].key = tx[t].key
    BY <1>0, <2>1, CallReturnsType
  <2>3. net.tx \in BegunTx /\ ~Taken(Wanted) /\ Wanted \in Keys
    BY <1>0, <2>1 DEF NetKnowsTx, StillFree, TypeInv, KeysKnown, Wanted
  <2>4. SyncTable' = [SyncTable EXCEPT ![Wanted] = w]
    BY <1>7 DEF StartWorker
  <2>5. worker'[w].tx = net.tx /\ worker'[w].pc = "send"
        /\ \A v \in Workers \ {w} : worker'[v] = worker[v]
    BY <1>0, <1>7 DEF StartWorker
  <2>6. KeyOf(w)' = Wanted
    BY <2>2, <2>3, <2>5 DEF KeyOf, Wanted
  <2>7. ASSUME NEW v \in Workers \ {w}, Registered(v)
        PROVE  Registered(v)' /\ KeyOf(v)' = KeyOf(v) /\ KeyOf(v) # Wanted /\ KeyOf(v) \in Keys
    <3>1. worker[v].tx \in BegunTx
      BY <1>0, <2>7 DEF WorkersKnowTx, Registered
    <3>2. SyncTable[KeyOf(v)] = v
      BY <1>0, <2>7 DEF TableMatchesWorkers
    <3>3. v # NoWorker
      BY WorkersAssumption
    <3>4. KeyOf(v) \in Keys
      BY <1>0, <3>1 DEF TypeInv, KeysKnown, KeyOf
    <3> QED
      BY <2>2, <2>3, <2>5, <2>7, <3>1, <3>2, <3>3, <3>4 DEF KeyOf, Registered, Taken
  <2>8. \A v \in Workers \ {w} : Registered(v)' => Registered(v)
    BY <2>5 DEF Registered
  <2>9. TableMatchesWorkers'
    <3>1. ASSUME NEW v \in Workers, Registered(v)'
          PROVE  SyncTable'[KeyOf(v)'] = v
      <4>1. CASE v = w
        BY <1>0, <2>3, <2>4, <2>6, <4>1
      <4>2. CASE v # w
        BY <1>0, <2>4, <2>7, <2>8, <3>1, <4>2 DEF TableMatchesWorkers
      <4> QED
        BY <4>1, <4>2
    <3>2. ASSUME NEW k \in Keys, Taken(k)'
          PROVE  (Registered(SyncTable[k]) /\ KeyOf(SyncTable[k]) = k)'
      <4>1. CASE k = Wanted
        <5>1. SyncTable'[k] = w
          BY <1>0, <2>3, <2>4, <4>1
        <5> QED
          BY <2>5, <2>6, <4>1, <5>1 DEF Registered, KeyOf
      <4>2. CASE k # Wanted
        <5>1. SyncTable'[k] = SyncTable[k] /\ Taken(k)
          BY <1>0, <2>4, <3>2, <4>2 DEF Taken
        <5>2. Registered(SyncTable[k]) /\ KeyOf(SyncTable[k]) = k /\ SyncTable[k] \in Workers
          BY <1>0, <5>1 DEF TableMatchesWorkers, Taken
        <5>3. SyncTable[k] # w
          BY <2>1, <5>2 DEF Registered
        <5> QED
          BY <2>7, <5>1, <5>2, <5>3 DEF Registered, KeyOf
      <4> QED
        BY <4>1, <4>2
    <3> QED
      BY <3>1, <3>2 DEF TableMatchesWorkers
  <2>10. StillFree'
    BY <2>2 DEF StillFree
  <2> QED
    BY <1>0, <2>9, <2>10 DEF TableInv
<1>8. ASSUME NEW w \in Workers, Worker(w)
      PROVE  TableInv'
  <2> USE DEF Goto, WorkThread, Registered
  <2>1. CASE WorkerSends(w)
    BY <1>0, <2>1, SameTableInv DEF WorkerSends
  <2>2. CASE WorkerSignalled(w)
    BY <1>0, <2>2, SameTableInv DEF WorkerSignalled
  <2>3. CASE WorkerTimesOut(w)
    BY <1>0, <2>3, SameTableInv DEF WorkerTimesOut
  <2>4. CASE WorkerReportsWrite(w)
    <3>1. \A t \in Tx : tx'[t].key = tx[t].key
      BY <1>0, <2>4 DEF WorkerReportsWrite, Transaction
    <3> QED
      BY <1>0, <2>4, <3>1, SameTableInv DEF WorkerReportsWrite
  <2>5. CASE WorkerReportsRead(w)
    <3>1. \A t \in Tx : tx'[t].key = tx[t].key
      BY <1>0, <2>5 DEF WorkerReportsRead, Transaction
    <3> QED
      BY <1>0, <2>5, <3>1, SameTableInv DEF WorkerReportsRead
  <2>6. CASE WorkerResets(w)
    BY <1>0, <2>6, SameTableInv DEF WorkerResets
  <2>7. CASE WorkerErases(w)
    <3> DEFINE key == KeyOf(w)
    <3>1. SyncTable' = [SyncTable EXCEPT ![key] = NoWorker] /\ UNCHANGED <<net, tx>>
          /\ Registered(w) /\ ~Registered(w)'
          /\ \A v \in Workers \ {w} : worker'[v] = worker[v]
      BY <1>0, <2>7 DEF WorkerErases
    <3>2. SyncTable[key] = w
      BY <1>0, <3>1 DEF TableMatchesWorkers
    <3>3. \A v \in Workers \ {w} : Registered(v) => KeyOf(v) # key
      BY <1>0, <3>2 DEF TableMatchesWorkers
    <3>4. \A v \in Workers \ {w} : Registered(v)' = Registered(v) /\ KeyOf(v)' = KeyOf(v)
      BY <3>1 DEF KeyOf
    <3>5. \A k \in Keys : SyncTable'[k] = IF k = key THEN NoWorker ELSE SyncTable[k]
      <4> HIDE DEF key
      <4> QED
        BY <1>0, <3>1
    <3>6. \A v \in Workers : Registered(v) => KeyOf(v) \in Keys
      BY <1>0 DEF WorkersKnowTx, TypeInv, KeysKnown, KeyOf
    <3> HIDE DEF Registered, key
    <3>7. \A v \in Workers : Registered(v)' => SyncTable'[KeyOf(v)'] = v
      BY <1>0, <3>1, <3>3, <3>4, <3>5, <3>6 DEF TableMatchesWorkers
    <3>8. ASSUME NEW k \in Keys, Taken(k)'
          PROVE  (Registered(SyncTable[k]) /\ KeyOf(SyncTable[k]) = k)'
      <4>1. k # key /\ SyncTable'[k] = SyncTable[k] /\ Taken(k)
        BY <3>5, <3>8 DEF Taken
      <4>2. Registered(SyncTable[k]) /\ KeyOf(SyncTable[k]) = k /\ SyncTable[k] \in Workers
        BY <1>0, <4>1 DEF TableMatchesWorkers, Taken
      <4>3. SyncTable[k] # w
        BY <4>1, <4>2 DEF key
      <4> QED
        BY <3>4, <4>1, <4>2, <4>3 DEF Registered, KeyOf
    <3>9. StillFree'
      BY <1>0, <3>1, <3>5 DEF StillFree, Taken, Wanted, NetKnowsTx, TypeInv, KeysKnown
    <3> QED
      BY <1>0, <3>7, <3>8, <3>9 DEF TableInv, TableMatchesWorkers
  <2>8. CASE WorkerEnds(w)
    <3>1. \A v \in Workers : Registered(v)' = Registered(v)
      BY <1>0, <2>8 DEF WorkerEnds, Idle
    <3>2. \A v \in Workers : Registered(v) => worker'[v] = worker[v]
      BY <1>0, <2>8 DEF WorkerEnds
    <3>3. \A v \in Workers : Registered(v) => KeyOf(v)' = KeyOf(v)
      BY <2>8, <3>2 DEF WorkerEnds, KeyOf
    <3> HIDE DEF Registered
    <3>4. TableMatchesWorkers'
      BY <1>0, <2>8, <3>1, <3>3 DEF WorkerEnds, TableMatchesWorkers, Taken
    <3>5. StillFree'
      BY <1>0, <2>8 DEF WorkerEnds, StillFree, Taken, Wanted
    <3> QED
      BY <1>0, <3>4, <3>5 DEF TableInv
  <2> HIDE DEF Registered
  <2> QED
    BY <1>8, <2>1, <2>2, <2>3, <2>4, <2>5, <2>6, <2>7, <2>8 DEF Worker
<1>9. CASE Poll
  <2>1. CASE PollIgnores
    BY <1>0, <2>1, SameTableInv DEF PollIgnores, Registered
  <2>2. CASE PollStores
    BY <1>0, <2>2, SameTableInv DEF PollStores, Registered
  <2>3. CASE PollSignals
    BY <1>0, <2>3, SameTableInv DEF PollSignals, Registered, WorkThread
  <2> QED
    BY <1>9, <2>1, <2>2, <2>3 DEF Poll
<1>10. ASSUME NEW d \in Devices, Unit(d)
       PROVE  TableInv'
  <2>1. CASE UnitReceives(d)
    <3>1. \A t \in Tx : tx'[t].key = tx[t].key
      BY <1>0, <2>1 DEF UnitReceives, Transaction
    <3> QED
      BY <1>0, <2>1, <3>1, SameTableInv DEF UnitReceives, Registered
  <2>2. CASE UnitSends(d)
    BY <1>0, <2>2, SameTableInv DEF UnitSends, Registered
  <2> QED
    BY <1>10, <2>1, <2>2 DEF Unit
<1>11. CASE UNCHANGED vars
  BY <1>0, <1>11, SameTableInv DEF vars, Registered
<1> QED
  BY <1>2, <1>3, <1>4, <1>5, <1>6, <1>7, <1>8, <1>9, <1>10, <1>11 DEF Next, Net

LEMMA InitTableInv == Init => TableInv
<1> SUFFICES ASSUME Init PROVE TableInv
  OBVIOUS
<1>1. TypeInv
  BY InitTypeInv
<1>2. StillFree /\ TableMatchesWorkers
  BY WorkersAssumption DEF Init, StillFree, TableMatchesWorkers, Registered, Taken, Idle
<1> QED
  BY <1>1, <1>2 DEF TableInv

(* However the calls, the workers' ends and the responses interleave, the  *)
(* table looked at before the semaphore and written after it never lets    *)
(* two threads run a transaction on one attribute, and an erase by key     *)
(* never removes another thread's entry.                                   *)
THEOREM TableCorrect == Spec => []TableMatchesWorkers
<1>1. TableInv => TableMatchesWorkers
  BY DEF TableInv
<1> QED
  BY InitTableInv, TableInvStep, <1>1, PTL DEF Spec

----------------------------------------------------------------------------
(* The permits.                                                            *)

Holders == {w \in Workers : worker[w].pc # "free"}
PermitsInv == TypeInv /\ permits \in Nat /\ permits + Cardinality(Holders) = Permits

LEMMA HoldersFinite == IsFiniteSet(Holders) /\ Cardinality(Holders) \in Nat
<1>1. IsFiniteSet(Holders)
  BY FS_Subset, WorkersAssumption DEF Holders
<1> QED
  BY <1>1, FS_CardinalityType

LEMMA PermitsInvStep == PermitsInv /\ [Next]_vars => PermitsInv'
<1> SUFFICES ASSUME PermitsInv, [Next]_vars PROVE PermitsInv'
  OBVIOUS
<1>0. /\ TypeInv' /\ TypeInv /\ permits \in Nat /\ permits + Cardinality(Holders) = Permits
      /\ worker \in [Workers -> WorkThread]
  BY TypeInvStep DEF PermitsInv, TypeInv, TypeOK
<1>1. ASSUME Holders' = Holders, permits' = permits
      PROVE  PermitsInv'
  BY <1>0, <1>1 DEF PermitsInv
<1>2. ASSUME UNCHANGED <<worker, permits>>
      PROVE  PermitsInv'
  BY <1>1, <1>2 DEF Holders
<1>3. ASSUME NEW w \in Workers, StartWorker(w)
      PROVE  PermitsInv'
  <2>1. permits > 0 /\ permits' = permits - 1 /\ w \notin Holders
    BY <1>3 DEF StartWorker, Holders
  <2>2. Holders' = Holders \cup {w}
    BY <1>0, <1>3 DEF StartWorker, Holders
  <2>3. Cardinality(Holders') = Cardinality(Holders) + 1
    BY <2>1, <2>2, HoldersFinite, FS_AddElement
  <2> QED
    BY <1>0, <2>1, <2>3, HoldersFinite DEF PermitsInv
<1>4. ASSUME NEW w \in Workers, WorkerEnds(w)
      PROVE  PermitsInv'
  <2>1. permits' = permits + 1 /\ w \in Holders
    BY <1>4 DEF WorkerEnds, Holders
  <2>2. Holders' = Holders \ {w}
    BY <1>0, <1>4 DEF WorkerEnds, Holders, Idle
  <2>3. Cardinality(Holders') = Cardinality(Holders) - 1
    BY <2>1, <2>2, HoldersFinite, FS_RemoveElement
  <2> QED
    BY <1>0, <2>1, <2>3, HoldersFinite DEF PermitsInv
<1>5. ASSUME NEW w \in Workers, Worker(w), ~WorkerEnds(w)
      PROVE  PermitsInv'
  <2>1. permits' = permits /\ worker[w].pc # "free" /\ worker'[w].pc # "free"
        /\ \A v \in Workers \ {w} : worker'[v] = worker[v]
    BY <1>0, <1>5, ZenonT(60)
    DEF Worker, WorkerSends, WorkerSignalled, WorkerTimesOut, WorkerReportsWrite,
        WorkerReportsRead, WorkerResets, WorkerErases, Goto, WorkThread
  <2> QED
    BY <1>1, <2>1 DEF Holders
<1>6. CASE PollSignals
  BY <1>0, <1>1, <1>6 DEF PollSignals, Holders, WorkThread
<1>7. CASE UNCHANGED vars
  BY <1>2, <1>7 DEF vars
<1>8. ASSUME NEW k \in Keys, NEW write \in BOOLEAN, NEW items \in 1 .. MaxItems,
             Command(k, write, items)
      PROVE  PermitsInv'
  BY <1>2, <1>8 DEF Command
<1>9. CASE WriteDelays \/ DelayEnds \/ Refused \/ Admit
  BY <1>2, <1>9 DEF WriteDelays, DelayEnds, Refused, Admit
<1>10. CASE PollIgnores \/ PollStores
  BY <1>2, <1>10 DEF PollIgnores, PollStores
<1>11. ASSUME NEW d \in Devices, Unit(d)
       PROVE  PermitsInv'
  BY <1>2, <1>11 DEF Unit, UnitReceives, UnitSends
<1> QED
  BY <1>3, <1>4, <1>5, <1>6, <1>7, <1>8, <1>9, <1>10, <1>11 DEF Next, Net, Poll

LEMMA InitPermitsInv == Init => PermitsInv
<1> SUFFICES ASSUME Init PROVE PermitsInv
  OBVIOUS
<1>1. Holders = {}
  BY DEF Init, Holders, Idle
<1>2. permits = Permits
  BY DEF Init
<1> QED
  BY <1>1, <1>2, InitTypeInv, PermitsAssumption, FS_EmptySet DEF PermitsInv

(* Whatever times out, is lost or is refused, no permit leaks and none is  *)
(* given back twice.                                                       *)
THEOREM PermitsCorrect == Spec => []PermitsConserved
<1>1. PermitsInv => PermitsConserved
  BY DEF PermitsInv, PermitsConserved, Holders
<1> QED
  BY <1>1, InitPermitsInv, PermitsInvStep, PTL DEF Spec

----------------------------------------------------------------------------
(* The service.                                                             *)

(* CanDevice implements AttributeService: each step of the net thread, the *)
(* workers, the poll thread and the units is a step of the service seen by *)
(* the callers, or none of it. Beyond the agreement of table and threads   *)
(* and the count of the permits, this takes what a transaction has been    *)
(* told at each place of its worker. From the same invariant follows what  *)
(* the answers mean.                                                       *)

(* The variables of the service, as the refinement mapping gives them.     *)
Owner == [k \in Keys |-> IF Taken(k) THEN worker[SyncTable[k]].tx ELSE NoTx]
Result == [t \in Tx |-> IF tx[t].outcome \in {"none", "open"} THEN "pending" ELSE tx[t].outcome]

Told == {"ok", "failed", "data", "empty"}

Unanswered(w) == worker[w].pc \in {"send", "wait", "report"}
Answered(w) == worker[w].pc \in {"reset", "erase"}

(* The call at hand is open and no worker's; a worker's is open until it   *)
(* reports, and answered until it has erased its entry.                    *)
OutcomesKnown ==
  /\ \A t \in Tx \ BegunTx : tx[t].outcome = "none"
  /\ net.pc # "idle" => /\ tx[net.tx].outcome = "open"
                        /\ \A w \in Workers : Registered(w) => worker[w].tx # net.tx
  /\ \A w \in Workers :
       /\ Unanswered(w) => tx[worker[w].tx].outcome = "open"
       /\ Answered(w) => tx[worker[w].tx].outcome \in Told

ServiceInv == TableInv /\ PermitsInv /\ OutcomesKnown

ServiceStep == [Service!Next]_(Service!vars)

(* Two threads in the table have different keys, so different numbers.     *)
LEMMA WorkersDiffer ==
  ASSUME TableInv, NEW v \in Workers, NEW w \in Workers, v # w, Registered(v), Registered(w)
  PROVE  worker[v].tx # worker[w].tx
  BY DEF TableInv, TableMatchesWorkers, KeyOf

(* What leaves the table and the registered workers' numbers alone leaves  *)
(* the owners alone.                                                       *)
LEMMA SameOwner ==
  ASSUME TableInv, UNCHANGED SyncTable,
         \A w \in Workers : Registered(w) => worker'[w].tx = worker[w].tx
  PROVE  Owner' = Owner
  <1>1. ASSUME NEW k \in Keys, Taken(k)
        PROVE  worker'[SyncTable[k]].tx = worker[SyncTable[k]].tx
    BY <1>1 DEF TableInv, TypeInv, TypeOK, TableMatchesWorkers, Taken
  <1>2. \A k \in Keys : Taken(k)' = Taken(k) /\ SyncTable'[k] = SyncTable[k]
    BY DEF Taken
  <1> QED BY <1>1, <1>2 DEF Owner

LEMMA SameResult ==
  ASSUME \A t \in Tx : tx'[t].outcome = tx[t].outcome
  PROVE  Result' = Result
  BY DEF Result

LEMMA NoServiceStep ==
  ASSUME Owner' = Owner, Result' = Result
  PROVE  ServiceStep
  BY DEF ServiceStep, Service!vars, Owner, Result

OthersAsIn(told) == \A t \in Tx : t # net.next => tx'[t].outcome = told[t].outcome

(* A call begins: it is open, and the others are as they were.             *)
LEMMA BeginCallOutcomes ==
  ASSUME TypeInv,
         NEW STATE k, NEW write \in BOOLEAN, NEW STATE left, left \in Nat,
         NEW STATE told, told \in [Tx -> Transaction],
         net.next + left <= MaxTx,
         BeginCall(k, write, left, told)
  PROVE  /\ net.next \in Tx /\ net.next \notin BegunTx /\ BegunTx' = BegunTx \cup {net.next}
         /\ net'.tx = net.next
         /\ tx'[net.next].outcome = "open"
         /\ OthersAsIn(told)
  <1>1. net \in NetThread /\ net.next \in Tx
    BY BoundsAssumption DEF TypeInv, TypeOK, NetThread, Tx
  <1>2. net'.tx = net.next /\ net'.next = net.next + 1
    BY DEF BeginCall
  <1>3. net.next \in Nat /\ net.next >= 1
    BY <1>1, BoundsAssumption DEF Tx
  <1>4. net.next \notin BegunTx /\ BegunTx' = BegunTx \cup {net.next}
    BY <1>2, <1>3 DEF BegunTx
  <1>5. tx'[net.next].outcome = "open"
    BY <1>1 DEF BeginCall, Transaction
  <1>6. \A t \in Tx : t # net.next => tx'[t] = told[t]
    BY <1>1 DEF BeginCall
  <1> QED BY <1>1, <1>2, <1>4, <1>5, <1>6 DEF OthersAsIn

(* The call at hand returns, and the next of the command may begin.        *)
LEMMA CallReturnsOutcomes ==
  ASSUME TypeInv, net.pc # "idle",
         NEW STATE told, told \in [Tx -> Transaction],
         \A t \in Tx \ BegunTx : told[t].outcome = "none",
         CallReturns(told)
  PROVE  /\ BegunTx \subseteq BegunTx'
         /\ \A t \in BegunTx : tx'[t].outcome = told[t].outcome
         /\ \A t \in Tx \ BegunTx' : tx'[t].outcome = "none"
         /\ \A t \in Tx \ BegunTx : tx'[t].outcome \in {"none", "open"}
         /\ net'.pc # "idle" => net'.tx \in Tx \ BegunTx /\ tx'[net'.tx].outcome = "open"
  <1>1. net \in NetThread /\ BegunTx \subseteq Tx /\ net.tx \in BegunTx
        /\ net.next + net.left <= MaxTx + 1
    BY BoundsAssumption DEF TypeInv, TypeOK, NetThread, NetKnowsTx, BegunTx, Tx
  <1>2. CASE net.left > 0 /\ BeginCall(tx[net.tx].key, TRUE, net.left - 1, told)
    <2>1. net.left - 1 \in Nat /\ net.next + (net.left - 1) <= MaxTx
      BY <1>1, <1>2, BoundsAssumption DEF NetThread
    <2>2. /\ net.next \in Tx /\ net.next \notin BegunTx /\ BegunTx' = BegunTx \cup {net.next}
          /\ net'.tx = net.next
          /\ tx'[net.next].outcome = "open"
          /\ OthersAsIn(told)
      <3> DEFINE k == tx[net.tx].key
                 l == net.left - 1
      <3>1. BeginCall(k, TRUE, l, told) /\ l \in Nat /\ net.next + l <= MaxTx
        BY <1>2, <2>1
      <3> HIDE DEF k, l
      <3> QED BY <3>1, BeginCallOutcomes
    <2> QED BY <1>1, <2>2 DEF OthersAsIn
  <1>3. CASE net.left = 0 /\ net' = [net EXCEPT !.pc = "idle", !.tx = NoTx] /\ tx' = told
    <2>1. net'.pc = "idle" /\ BegunTx' = BegunTx
      BY <1>1, <1>3 DEF NetThread, BegunTx
    <2> QED BY <1>1, <1>3, <2>1
  <1> QED BY <1>2, <1>3 DEF CallReturns

(* A permit in the semaphore means that the service has a slot: the        *)
(* attributes taken are no more than the threads that hold a permit.       *)
LEMMA SlotFree ==
  ASSUME ServiceInv, permits > 0
  PROVE  Cardinality({j \in Keys : Owner[j] # NoTx}) < Permits
  <1> DEFINE S == {j \in Keys : Owner[j] # NoTx}
             f == [j \in S |-> SyncTable[j]]
  <1>1. \A j \in S : Taken(j)
    BY DEF Owner
  <1>2. \A j \in S : SyncTable[j] \in Holders /\ KeyOf(SyncTable[j]) = j
    BY <1>1 DEF ServiceInv, TableInv, TypeInv, TypeOK, TableMatchesWorkers, Taken, Registered, Holders
  <1>3. f \in [S -> Holders] /\ \A i, j \in S : f[i] = f[j] => i = j
    BY <1>2
  <1> HIDE DEF f, S
  <1>4. f \in Injection(S, Holders)
    BY <1>3, Fun_IsInj
  <1>5. IsFiniteSet(S) /\ Cardinality(S) <= Cardinality(Holders)
    BY <1>4, HoldersFinite, FS_Injection
  <1>6. Cardinality(S) \in Nat
    BY <1>5, FS_CardinalityType
  <1>7. permits \in Nat /\ permits + Cardinality(Holders) = Permits
    BY DEF ServiceInv, PermitsInv
  <1>8. Cardinality(S) < Permits
    BY <1>5, <1>6, <1>7, HoldersFinite, PermitsAssumption
  <1> QED BY <1>8 DEF S

-----------------------------------------------------------------------------
LEMMA Places ==
  ASSUME TypeInv, NEW w \in Workers
  PROVE  /\ Registered(w) <=> Unanswered(w) \/ Answered(w)
         /\ Registered(w) => worker[w].tx \in BegunTx /\ worker[w].tx \in Tx
  BY BegunIsTx DEF TypeInv, TypeOK, WorkThread, WorkersKnowTx, Registered, Unanswered, Answered

(* Steps that tell nobody anything, and steps of the net thread that keep  *)
(* the call at hand.                                                       *)
LEMMA Quiet ==
  ASSUME ServiceInv, TypeInv', UNCHANGED SyncTable,
         net'.next = net.next, net'.tx = net.tx, net'.pc # "idle" => net.pc # "idle",
         \A t \in Tx : tx'[t].outcome = tx[t].outcome,
         \A w \in Workers : Registered(w) => worker'[w].tx = worker[w].tx,
         \A w \in Workers : (Unanswered(w)' => Unanswered(w)) /\ (Answered(w)' => Answered(w))
  PROVE  OutcomesKnown' /\ ServiceStep
  <1>1. BegunTx' = BegunTx /\ BegunTx \subseteq Tx /\ NetKnowsTx /\ TableInv /\ TypeInv /\ OutcomesKnown
    BY BegunIsTx DEF BegunTx, ServiceInv, TableInv, TypeInv
  <1>2. ASSUME NEW w \in Workers, Registered(w)'
        PROVE  Registered(w) /\ worker'[w].tx = worker[w].tx /\ worker[w].tx \in Tx
    <2>1. (Unanswered(w) \/ Answered(w))'
      <3>1. (Registered(w) <=> Unanswered(w) \/ Answered(w))'
        BY Places, PTL
      <3> QED BY <1>2, <3>1
    <2>2. Registered(w)
      BY <1>1, <2>1, Places
    <2> QED BY <1>1, <2>2, Places
  <1>3. \A w \in Workers : Unanswered(w)' \/ Answered(w)' => Registered(w)'
    BY DEF Unanswered, Answered, Registered
  <1>4. ASSUME net'.pc # "idle"
        PROVE  /\ tx'[net'.tx].outcome = "open"
               /\ \A w \in Workers : Registered(w)' => worker'[w].tx # net'.tx
    BY <1>1, <1>2, <1>4 DEF OutcomesKnown, NetKnowsTx
  <1>5. ASSUME NEW w \in Workers
        PROVE  /\ Unanswered(w)' => tx'[worker'[w].tx].outcome = "open"
               /\ Answered(w)' => tx'[worker'[w].tx].outcome \in Told
    BY <1>1, <1>2, <1>3 DEF OutcomesKnown
  <1>6. \A t \in Tx \ BegunTx' : tx'[t].outcome = "none"
    BY <1>1 DEF OutcomesKnown
  <1>7. OutcomesKnown'
    BY <1>4, <1>5, <1>6 DEF OutcomesKnown
  <1>8. Owner' = Owner /\ Result' = Result
    BY <1>1, SameOwner, SameResult
  <1> QED BY <1>7, <1>8, NoServiceStep

(* A command, and the call that it begins.                                  *)
LEMMA CommandIsQuiet ==
  ASSUME ServiceInv, NEW k \in Keys, NEW write \in BOOLEAN, NEW items \in 1 .. MaxItems,
         Command(k, write, items)
  PROVE  OutcomesKnown' /\ ServiceStep
  <1>1. BegunTx \subseteq Tx /\ WorkersKnowTx /\ TableInv /\ TypeInv /\ OutcomesKnown
        /\ tx \in [Tx -> Transaction]
    BY BegunIsTx DEF ServiceInv, TableInv, TypeInv, TypeOK
  <1>2. UNCHANGED <<SyncTable, worker>> /\ BeginCall(k, write, items - 1, tx)
        /\ items - 1 \in Nat /\ net.next + (items - 1) <= MaxTx
    BY <1>1, BoundsAssumption DEF Command, TypeInv, TypeOK, NetThread, Tx
  <1>3. /\ net.next \in Tx /\ net.next \notin BegunTx /\ BegunTx' = BegunTx \cup {net.next}
        /\ net'.tx = net.next
        /\ tx'[net.next].outcome = "open"
        /\ OthersAsIn(tx)
    BY <1>1, <1>2, BeginCallOutcomes
  <1>4. ASSUME NEW w \in Workers
        PROVE  /\ Registered(w)' = Registered(w) /\ Unanswered(w)' = Unanswered(w)
               /\ Answered(w)' = Answered(w) /\ worker'[w].tx = worker[w].tx
               /\ Registered(w) => worker[w].tx \in BegunTx /\ tx'[worker[w].tx].outcome = tx[worker[w].tx].outcome
    BY <1>1, <1>2, <1>3, Places DEF Registered, Unanswered, Answered, OthersAsIn
  <1>5. OutcomesKnown'
    BY <1>1, <1>3, <1>4, Places DEF OutcomesKnown, OthersAsIn
  <1>6. Owner' = Owner
    BY <1>1, <1>2, SameOwner
  <1>7. Result' = Result
    BY <1>1, <1>3 DEF OutcomesKnown, OthersAsIn, Result
  <1> QED BY <1>5, <1>6, <1>7, NoServiceStep

(* The net thread's call at hand belongs to no worker: it is not running,  *)
(* and it has not been answered.                                           *)
LEMMA CallNotRunning ==
  ASSUME ServiceInv, net.pc # "idle"
  PROVE  /\ net.tx \in Tx /\ net.tx \in BegunTx /\ Result[net.tx] = "pending"
         /\ \A k \in Keys : Owner[k] # net.tx
         /\ Wanted \in Keys
  <1>1. TypeInv /\ OutcomesKnown /\ TableMatchesWorkers /\ net.tx \in BegunTx /\ net.tx \in Tx
    BY BegunIsTx DEF ServiceInv, TableInv, TypeInv, NetKnowsTx
  <1>2. Result[net.tx] = "pending"
    BY <1>1 DEF OutcomesKnown, Result
  <1>3. ASSUME NEW k \in Keys PROVE Owner[k] # net.tx
    <2>1. CASE Taken(k)
      <3>1. Registered(SyncTable[k]) /\ SyncTable[k] \in Workers
        BY <1>1, <2>1 DEF TableMatchesWorkers, TypeInv, TypeOK, Taken
      <3> QED BY <1>1, <2>1, <3>1 DEF OutcomesKnown, Owner
    <2>2. CASE ~Taken(k)
      BY <1>1, <2>2 DEF Owner, Tx, NoTx
    <2> QED BY <2>1, <2>2
  <1>4. Wanted \in Keys
    BY <1>1 DEF Wanted, TypeInv, KeysKnown
  <1> QED BY <1>1, <1>2, <1>3, <1>4

LEMMA TakenIsOwned ==
  ASSUME TableInv, NEW k \in Keys, Taken(k)
  PROVE  /\ SyncTable[k] \in Workers /\ Registered(SyncTable[k])
         /\ Owner[k] = worker[SyncTable[k]].tx /\ Owner[k] \in BegunTx /\ Owner[k] \in Tx /\ Owner[k] # NoTx
  <1>1. SyncTable[k] \in Workers /\ Registered(SyncTable[k])
    BY DEF TableInv, TypeInv, TypeOK, TableMatchesWorkers, Taken
  <1>2. worker[SyncTable[k]].tx \in BegunTx /\ worker[SyncTable[k]].tx \in Tx
    BY <1>1, Places DEF TableInv
  <1>3. Owner[k] = worker[SyncTable[k]].tx
    BY DEF Owner
  <1> QED BY <1>1, <1>2, <1>3 DEF Tx, NoTx

(* What the return of a call means for the outcomes, whatever it is told   *)
(* and whichever worker takes it over.                                     *)
LEMMA ReturnKeepsOutcomes ==
  ASSUME ServiceInv, net.pc # "idle",
         NEW STATE told, told \in [Tx -> Transaction],
         \A t \in Tx : t # net.tx => told[t].outcome = tx[t].outcome,
         CallReturns(told),
         \A w \in Workers : \/ worker'[w] = worker[w]
                            \/ /\ worker'[w].tx = net.tx /\ worker'[w].pc = "send"
                               /\ told[net.tx].outcome = "open"
  PROVE  /\ OutcomesKnown'
         /\ \A t \in BegunTx : tx'[t].outcome = told[t].outcome
         /\ \A t \in Tx \ BegunTx : tx[t].outcome = "none" /\ tx'[t].outcome \in {"none", "open"}
  <1>1. BegunTx \subseteq Tx /\ TypeInv /\ OutcomesKnown /\ net.tx \in BegunTx
    BY BegunIsTx, CallNotRunning DEF ServiceInv, TableInv
  <1>2. \A t \in Tx \ BegunTx : told[t].outcome = "none" /\ tx[t].outcome = "none"
    BY <1>1 DEF OutcomesKnown
  <1>3. /\ BegunTx \subseteq BegunTx'
        /\ \A t \in BegunTx : tx'[t].outcome = told[t].outcome
        /\ \A t \in Tx \ BegunTx' : tx'[t].outcome = "none"
        /\ \A t \in Tx \ BegunTx : tx'[t].outcome \in {"none", "open"}
        /\ net'.pc # "idle" => net'.tx \in Tx \ BegunTx /\ tx'[net'.tx].outcome = "open"
    BY <1>1, <1>2, CallReturnsOutcomes
  <1>4. ASSUME NEW w \in Workers
        PROVE  /\ Registered(w)' => worker'[w].tx \in BegunTx
               /\ Unanswered(w)' => tx'[worker'[w].tx].outcome = "open"
               /\ Answered(w)' => tx'[worker'[w].tx].outcome \in Told
    <2>1. CASE worker'[w] = worker[w]
      <3>1. Registered(w)' = Registered(w) /\ Unanswered(w)' = Unanswered(w) /\ Answered(w)' = Answered(w)
        BY <2>1 DEF Registered, Unanswered, Answered
      <3>2. ASSUME Registered(w)
            PROVE  worker[w].tx \in BegunTx /\ tx'[worker[w].tx].outcome = tx[worker[w].tx].outcome
        <4>1. worker[w].tx \in BegunTx /\ worker[w].tx # net.tx
          BY <1>1, <3>2, Places DEF OutcomesKnown
        <4> QED BY <1>1, <1>3, <4>1
      <3>3. Unanswered(w) \/ Answered(w) => Registered(w)
        BY <1>1, Places
      <3> QED BY <1>1, <2>1, <3>1, <3>2, <3>3 DEF OutcomesKnown
    <2>2. CASE worker'[w].tx = net.tx /\ worker'[w].pc = "send" /\ told[net.tx].outcome = "open"
      BY <1>1, <1>3, <2>2 DEF Answered
    <2> QED BY <2>1, <2>2
  <1>5. net'.pc # "idle" => \A w \in Workers : Registered(w)' => worker'[w].tx # net'.tx
    BY <1>3, <1>4
  <1>6. OutcomesKnown'
    BY <1>3, <1>4, <1>5 DEF OutcomesKnown
  <1> QED BY <1>2, <1>3, <1>6

LEMMA RefusedIsRefuse ==
  ASSUME ServiceInv, Refused
  PROVE  OutcomesKnown' /\ ServiceStep
  <1> DEFINE told == [tx EXCEPT ![net.tx].outcome = "refused"]
  <1>1. net.pc # "idle" /\ Taken(Wanted) /\ CallReturns(told) /\ UNCHANGED <<SyncTable, worker>>
    BY DEF Refused
  <1>2. TableInv /\ tx \in [Tx -> Transaction] /\ BegunTx \subseteq Tx
    BY BegunIsTx DEF ServiceInv, TableInv, TypeInv, TypeOK
  <1>3. /\ net.tx \in Tx /\ net.tx \in BegunTx /\ Result[net.tx] = "pending"
        /\ \A k \in Keys : Owner[k] # net.tx
        /\ Wanted \in Keys
    BY <1>1, CallNotRunning
  <1>4. /\ told \in [Tx -> Transaction]
        /\ told[net.tx].outcome = "refused"
        /\ \A t \in Tx : t # net.tx => told[t].outcome = tx[t].outcome
    BY <1>2, <1>3 DEF Transaction, Outcomes
  <1> HIDE DEF told
  <1>5. /\ OutcomesKnown'
        /\ \A t \in BegunTx : tx'[t].outcome = told[t].outcome
        /\ \A t \in Tx \ BegunTx : tx[t].outcome = "none" /\ tx'[t].outcome \in {"none", "open"}
    BY <1>1, <1>4, ReturnKeepsOutcomes
  <1>6. Result' = [Result EXCEPT ![net.tx] = "refused"]
    BY <1>2, <1>3, <1>4, <1>5 DEF Result
  <1>7. Owner' = Owner
    BY <1>1, <1>2, SameOwner
  <1>8. Owner[Wanted] # NoTx
    BY <1>1, <1>2, <1>3, TakenIsOwned
  <1>9. PICK t \in Tx : t = net.tx
    BY <1>3
  <1>10. Service!Refuse(t)
    BY <1>3, <1>6, <1>7, <1>8, <1>9 DEF Service!Refuse, Service!Running, Owner, Result
  <1> QED BY <1>5, <1>10 DEF ServiceStep, Service!Next

LEMMA StartIsStart ==
  ASSUME ServiceInv, NEW w \in Workers, StartWorker(w)
  PROVE  OutcomesKnown' /\ ServiceStep
  <1>1. /\ net.pc = "semaphore" /\ permits > 0 /\ CallReturns(tx)
        /\ SyncTable' = [SyncTable EXCEPT ![Wanted] = w]
        /\ worker' = [worker EXCEPT ![w] =
             [pc |-> "send", tx |-> net.tx, tries |-> Tries, sig |-> NoTx, got |-> NoTx]]
        /\ worker[w].pc = "free"
    BY DEF StartWorker
  <1>2. /\ TableInv /\ OutcomesKnown /\ tx \in [Tx -> Transaction] /\ BegunTx \subseteq Tx
        /\ worker \in [Workers -> WorkThread] /\ SyncTable \in [Keys -> Workers \cup {NoWorker}]
        /\ ~Taken(Wanted)
    BY <1>1, BegunIsTx DEF ServiceInv, TableInv, TypeInv, TypeOK, StillFree
  <1>3. /\ net.tx \in Tx /\ net.tx \in BegunTx /\ Result[net.tx] = "pending"
        /\ \A k \in Keys : Owner[k] # net.tx
        /\ Wanted \in Keys
    BY <1>1, CallNotRunning
  <1>4. /\ worker'[w].tx = net.tx /\ worker'[w].pc = "send"
        /\ \A v \in Workers : v # w => worker'[v] = worker[v]
    BY <1>1, <1>2
  <1>5. /\ OutcomesKnown'
        /\ \A t \in BegunTx : tx'[t].outcome = tx[t].outcome
        /\ \A t \in Tx \ BegunTx : tx[t].outcome = "none" /\ tx'[t].outcome \in {"none", "open"}
    <2>1. net.pc # "idle" /\ tx[net.tx].outcome = "open"
      BY <1>1, <1>2 DEF OutcomesKnown
    <2> QED BY <1>1, <1>2, <1>4, <2>1, ReturnKeepsOutcomes
  <1>6. Result' = Result
    BY <1>2, <1>5 DEF Result
  <1>7. Owner' = [Owner EXCEPT ![Wanted] = net.tx]
    <2>1. ASSUME NEW k \in Keys PROVE Owner'[k] = IF k = Wanted THEN net.tx ELSE Owner[k]
      <3>1. CASE k = Wanted
        <4>1. SyncTable'[k] = w /\ w # NoWorker
          BY <1>1, <1>2, <1>3, <3>1, WorkersAssumption
        <4> QED BY <1>4, <3>1, <4>1 DEF Owner, Taken
      <3>2. CASE k # Wanted
        <4>1. SyncTable'[k] = SyncTable[k]
          BY <1>1, <1>2, <3>2
        <4>2. Taken(k) => SyncTable[k] \in Workers /\ SyncTable[k] # w
          BY <1>1, <1>2, TakenIsOwned DEF Registered
        <4> QED BY <1>4, <3>2, <4>1, <4>2 DEF Owner, Taken
      <3> QED BY <3>1, <3>2
    <2>2. Owner = [k \in Keys |-> Owner[k]] /\ Owner' = [k \in Keys |-> Owner'[k]]
      BY DEF Owner
    <2> HIDE DEF Owner
    <2> QED BY <1>3, <2>1, <2>2
  <1>8. Owner[Wanted] = NoTx
    BY <1>2, <1>3 DEF Owner
  <1>9. Cardinality({j \in Keys : Owner[j] # NoTx}) < Permits
    BY <1>1, SlotFree
  <1>10. PICK t \in Tx : t = net.tx
    BY <1>3
  <1>11. PICK k \in Keys : k = Wanted
    BY <1>3
  <1>12. Service!Start(t, k)
    <2>1. /\ Result[t] = "pending" /\ ~(\E j \in Keys : Owner[j] = t)
          /\ Owner[k] = NoTx
          /\ Cardinality({j \in Keys : Owner[j] # NoTx}) < Permits
          /\ Owner' = [Owner EXCEPT ![k] = t]
          /\ Result' = Result
      BY <1>3, <1>6, <1>7, <1>8, <1>9, <1>10, <1>11
    <2>2. Service!Cardinality({j \in Keys : Owner[j] # NoTx}) = Cardinality({j \in Keys : Owner[j] # NoTx})
      BY DEF Cardinality, Service!Cardinality
    <2> QED BY <2>1, <2>2 DEF Service!Start, Service!Running, Owner, Result
  <1> QED BY <1>5, <1>12 DEF ServiceStep, Service!Next

(* A worker that tells its caller what became of the transaction.          *)
LEMMA ReportIsAnswer ==
  ASSUME ServiceInv, TypeInv', NEW w \in Workers, Unanswered(w), NEW r \in Told,
         UNCHANGED <<net, SyncTable>>,
         tx'[worker[w].tx].outcome = r,
         \A t \in Tx : t # worker[w].tx => tx'[t].outcome = tx[t].outcome,
         worker'[w].tx = worker[w].tx, Answered(w)',
         \A v \in Workers : v # w => worker'[v] = worker[v]
  PROVE  OutcomesKnown' /\ ServiceStep
  <1>1. TableInv /\ TypeInv /\ OutcomesKnown /\ BegunTx' = BegunTx /\ BegunTx \subseteq Tx /\ NetKnowsTx
    BY BegunIsTx DEF ServiceInv, TableInv, TypeInv, BegunTx
  <1>2. Registered(w) /\ worker[w].tx \in BegunTx /\ worker[w].tx \in Tx
    BY <1>1, Places
  <1>3. tx[worker[w].tx].outcome = "open"
    BY <1>1 DEF OutcomesKnown
  <1>4. net.pc # "idle" => net.tx # worker[w].tx /\ net.tx \in Tx
    BY <1>1, <1>2 DEF OutcomesKnown, NetKnowsTx
  <1>5. ASSUME NEW v \in Workers, v # w
        PROVE  /\ Registered(v)' = Registered(v) /\ Unanswered(v)' = Unanswered(v) /\ Answered(v)' = Answered(v)
               /\ worker'[v].tx = worker[v].tx
               /\ Registered(v) => tx'[worker[v].tx].outcome = tx[worker[v].tx].outcome
    BY <1>1, <1>2, <1>5, WorkersDiffer, Places DEF Registered, Unanswered, Answered
  <1>6. ~Unanswered(w)'
    BY DEF Unanswered, Answered
  <1>7. ASSUME NEW v \in Workers
        PROVE  /\ Unanswered(v)' => tx'[worker'[v].tx].outcome = "open"
               /\ Answered(v)' => tx'[worker'[v].tx].outcome \in Told
    BY <1>1, <1>5, <1>6, Places DEF OutcomesKnown
  <1>8. net'.pc # "idle" => /\ tx'[net'.tx].outcome = "open"
                            /\ \A v \in Workers : Registered(v)' => worker'[v].tx # net'.tx
    BY <1>1, <1>2, <1>4, <1>5 DEF OutcomesKnown
  <1>9. OutcomesKnown'
    BY <1>1, <1>2, <1>7, <1>8 DEF OutcomesKnown
  <1>10. Owner' = Owner
    BY <1>1, <1>5, SameOwner
  <1>11. Result' = [Result EXCEPT ![worker[w].tx] = r]
    BY <1>2 DEF Result, Told
  <1>12. Result[worker[w].tx] = "pending" /\ Owner[KeyOf(w)] = worker[w].tx /\ KeyOf(w) \in Keys
    <2>1. KeyOf(w) \in Keys /\ SyncTable[KeyOf(w)] = w
      BY <1>1, <1>2 DEF TableInv, TableMatchesWorkers, TypeInv, KeysKnown, KeyOf
    <2> QED BY <1>2, <1>3, <2>1, WorkersAssumption DEF Result, Owner, Taken
  <1>13. PICK t \in Tx : t = worker[w].tx
    BY <1>2
  <1>14. Service!Answer(t, r) /\ r \in Service!Answers
    BY <1>10, <1>11, <1>12, <1>13 DEF Service!Answer, Service!Running, Service!Answers, Told, Owner, Result
  <1> QED BY <1>9, <1>14 DEF ServiceStep, Service!Next

LEMMA EraseIsRelease ==
  ASSUME ServiceInv, TypeInv', NEW w \in Workers, WorkerErases(w)
  PROVE  OutcomesKnown' /\ ServiceStep
  <1>1. TableInv /\ TypeInv /\ OutcomesKnown /\ BegunTx' = BegunTx /\ BegunTx \subseteq Tx
        /\ worker \in [Workers -> WorkThread] /\ SyncTable \in [Keys -> Workers \cup {NoWorker}]
    BY BegunIsTx DEF ServiceInv, TableInv, TypeInv, TypeOK, BegunTx, WorkerErases
  <1>2. /\ worker[w].pc = "erase" /\ worker' = [worker EXCEPT ![w].pc = "release"]
        /\ SyncTable' = [SyncTable EXCEPT ![KeyOf(w)] = NoWorker] /\ UNCHANGED <<net, tx>>
    BY DEF WorkerErases, Goto
  <1>3. Answered(w) /\ Registered(w) /\ worker[w].tx \in BegunTx /\ worker[w].tx \in Tx
    BY <1>1, <1>2, Places DEF Answered
  <1>4. KeyOf(w) \in Keys /\ SyncTable[KeyOf(w)] = w /\ w # NoWorker
    BY <1>1, <1>3, WorkersAssumption DEF TableInv, TableMatchesWorkers, TypeInv, KeysKnown, KeyOf
  <1>5. /\ \A v \in Workers : worker'[v].tx = worker[v].tx
        /\ \A v \in Workers : v # w => worker'[v] = worker[v]
        /\ worker'[w].pc = "release"
    BY <1>1, <1>2 DEF WorkThread
  <1>6. \A v \in Workers : /\ Registered(v)' => Registered(v)
                           /\ Unanswered(v)' => Unanswered(v)
                           /\ Answered(v)' => Answered(v)
    BY <1>5 DEF Registered, Unanswered, Answered
  <1>7. OutcomesKnown'
    BY <1>1, <1>2, <1>5, <1>6 DEF OutcomesKnown
  <1>8. Owner' = [Owner EXCEPT ![KeyOf(w)] = NoTx]
    <2>1. ASSUME NEW k \in Keys PROVE Owner'[k] = IF k = KeyOf(w) THEN NoTx ELSE Owner[k]
      <3>1. SyncTable'[k] = IF k = KeyOf(w) THEN NoWorker ELSE SyncTable[k]
        <4> HIDE DEF Keys
        <4> QED BY <1>1, <1>2
      <3>2. Taken(k) => SyncTable[k] \in Workers
        BY <1>1, TakenIsOwned
      <3> QED BY <1>5, <3>1, <3>2 DEF Owner, Taken
    <2>2. Owner = [k \in Keys |-> Owner[k]] /\ Owner' = [k \in Keys |-> Owner'[k]]
      BY DEF Owner
    <2> DEFINE key == KeyOf(w)
    <2>3. \A k \in Keys : Owner'[k] = IF k = key THEN NoTx ELSE Owner[k]
      BY <2>1
    <2> HIDE DEF Owner, key
    <2>4. Owner' = [Owner EXCEPT ![key] = NoTx]
      BY <2>2, <2>3
    <2> QED BY <2>4 DEF key
  <1>9. Result' = Result
    BY <1>2 DEF Result
  <1>10. Owner[KeyOf(w)] = worker[w].tx /\ worker[w].tx # NoTx
    BY <1>3, <1>4 DEF Owner, Taken, Tx, NoTx
  <1>11. Result[worker[w].tx] # "pending"
    BY <1>1, <1>3 DEF OutcomesKnown, Result, Told
  <1>12. PICK k \in Keys : k = KeyOf(w)
    BY <1>4
  <1>13. Service!Release(k)
    BY <1>8, <1>9, <1>10, <1>11, <1>12 DEF Service!Release, Owner, Result
  <1> QED BY <1>7, <1>13 DEF ServiceStep, Service!Next

-----------------------------------------------------------------------------
LEMMA ServiceNext == ServiceInv /\ [Next]_vars => OutcomesKnown' /\ ServiceStep
  <1> SUFFICES ASSUME ServiceInv, [Next]_vars PROVE OutcomesKnown' /\ ServiceStep
    OBVIOUS
  <1>0. /\ TypeInv /\ TypeInv' /\ TableInv /\ OutcomesKnown /\ BegunTx \subseteq Tx /\ WorkersKnowTx
        /\ worker \in [Workers -> WorkThread] /\ tx \in [Tx -> Transaction] /\ net \in NetThread
    <2>1. TypeInv /\ TableInv /\ OutcomesKnown
      BY DEF ServiceInv, TableInv
    <2>2. TypeInv'
      BY <2>1, TypeInvStep
    <2> QED BY <2>1, <2>2, BegunIsTx DEF TypeInv, TypeOK
  <1>1. ASSUME NEW k \in Keys, NEW write \in BOOLEAN, NEW items \in 1 .. MaxItems,
               Command(k, write, items)
        PROVE  OutcomesKnown' /\ ServiceStep
    BY <1>1, CommandIsQuiet
  <1>2. CASE WriteDelays \/ DelayEnds \/ Admit
    <2>1. UNCHANGED <<SyncTable, worker, tx>> /\ net.pc # "idle"
      BY <1>2 DEF WriteDelays, DelayEnds, Admit
    <2>2. net'.next = net.next /\ net'.tx = net.tx
      BY <1>0, <1>2 DEF WriteDelays, DelayEnds, Admit, NetThread
    <2> QED BY <1>0, <2>1, <2>2, Quiet DEF Unanswered, Answered
  <1>3. CASE Refused
    BY <1>3, RefusedIsRefuse
  <1>4. ASSUME NEW w \in Workers, StartWorker(w) PROVE OutcomesKnown' /\ ServiceStep
    BY <1>4, StartIsStart
  <1>5. ASSUME NEW w \in Workers, WorkerSends(w) \/ WorkerSignalled(w) \/ WorkerTimesOut(w)
                                  \/ WorkerResets(w) \/ WorkerEnds(w)
        PROVE  OutcomesKnown' /\ ServiceStep
    <2>1. UNCHANGED <<net, SyncTable, tx>>
      BY <1>5 DEF WorkerSends, WorkerSignalled, WorkerTimesOut, WorkerResets, WorkerEnds
    <2>2. \A v \in Workers : /\ Registered(v) => worker'[v].tx = worker[v].tx
                             /\ Unanswered(v)' => Unanswered(v)
                             /\ Answered(v)' => Answered(v)
      <3>1. \A v \in Workers : v # w => worker'[v] = worker[v]
        BY <1>0, <1>5 DEF WorkerSends, WorkerSignalled, WorkerTimesOut, WorkerResets, WorkerEnds, Goto
      <3>2. \/ /\ worker[w].pc \in {"send", "wait"} /\ worker'[w].tx = worker[w].tx
               /\ worker'[w].pc \in {"send", "wait", "report"}
            \/ worker[w].pc = "reset" /\ worker'[w].pc = "erase" /\ worker'[w].tx = worker[w].tx
            \/ worker[w].pc = "release" /\ worker'[w].pc = "free"
        <4>1. CASE WorkerSends(w)
          BY <1>0, <4>1 DEF WorkerSends, WorkThread
        <4>2. CASE WorkerSignalled(w)
          BY <1>0, <4>2 DEF WorkerSignalled, WorkThread
        <4>3. CASE WorkerTimesOut(w)
          BY <1>0, <4>3 DEF WorkerTimesOut, Goto, WorkThread
        <4>4. CASE WorkerResets(w)
          BY <1>0, <4>4 DEF WorkerResets, Goto, WorkThread
        <4>5. CASE WorkerEnds(w)
          BY <1>0, <4>5 DEF WorkerEnds, Idle
        <4> QED BY <1>5, <4>1, <4>2, <4>3, <4>4, <4>5
      <3> QED BY <3>1, <3>2 DEF Registered, Unanswered, Answered
    <2> QED BY <1>0, <2>1, <2>2, Quiet
  <1>6. ASSUME NEW w \in Workers, WorkerReportsWrite(w) PROVE OutcomesKnown' /\ ServiceStep
    <2> DEFINE a == worker[w].got
               r == IF a # NoTx THEN "ok" ELSE "failed"
    <2>1. /\ worker[w].pc = "report"
          /\ tx' = [tx EXCEPT ![worker[w].tx] = [@ EXCEPT !.outcome = r, !.answer = a]]
          /\ worker' = [worker EXCEPT ![w] = [@ EXCEPT !.pc = "erase", !.got = NoTx]]
          /\ UNCHANGED <<net, SyncTable>>
      BY <1>6 DEF WorkerReportsWrite
    <2>2. r \in Told
      BY DEF Told
    <2> HIDE DEF a, r
    <2>3. Unanswered(w) /\ worker[w].tx \in Tx
      BY <1>0, <2>1 DEF Unanswered, WorkersKnowTx
    <2>4. /\ tx'[worker[w].tx].outcome = r
          /\ \A t \in Tx : t # worker[w].tx => tx'[t].outcome = tx[t].outcome
      BY <1>0, <2>1, <2>3 DEF Transaction
    <2>5. /\ worker'[w].tx = worker[w].tx /\ worker'[w].pc = "erase"
          /\ \A v \in Workers : v # w => worker'[v] = worker[v]
      BY <1>0, <2>1 DEF WorkThread
    <2>6. Answered(w)'
      BY <2>5 DEF Answered
    <2> QED BY <1>0, <2>1, <2>2, <2>3, <2>4, <2>5, <2>6, ReportIsAnswer
  <1>7. ASSUME NEW w \in Workers, WorkerReportsRead(w) PROVE OutcomesKnown' /\ ServiceStep
    <2> DEFINE held == EntryBuffer[KeyOf(w)[1]]
               r == IF held # NoTx THEN "data" ELSE "empty"
               place == IF held # NoTx THEN "reset" ELSE "erase"
    <2>1. /\ worker[w].pc = "report"
          /\ tx' = [tx EXCEPT ![worker[w].tx] = [@ EXCEPT !.outcome = r, !.answer = held]]
          /\ worker' = [worker EXCEPT ![w] = [@ EXCEPT !.pc = place, !.got = NoTx]]
          /\ UNCHANGED <<net, SyncTable>>
      BY <1>7 DEF WorkerReportsRead
    <2>2. r \in Told /\ place \in {"reset", "erase"}
      BY DEF Told
    <2> HIDE DEF held, r, place
    <2>3. Unanswered(w) /\ worker[w].tx \in Tx
      BY <1>0, <2>1 DEF Unanswered, WorkersKnowTx
    <2>4. /\ tx'[worker[w].tx].outcome = r
          /\ \A t \in Tx : t # worker[w].tx => tx'[t].outcome = tx[t].outcome
      BY <1>0, <2>1, <2>3 DEF Transaction
    <2>5. /\ worker'[w].tx = worker[w].tx /\ worker'[w].pc = place
          /\ \A v \in Workers : v # w => worker'[v] = worker[v]
      BY <1>0, <2>1 DEF WorkThread
    <2>6. Answered(w)'
      BY <2>2, <2>5 DEF Answered
    <2> QED BY <1>0, <2>1, <2>2, <2>3, <2>4, <2>5, <2>6, ReportIsAnswer
  <1>8. ASSUME NEW w \in Workers, WorkerErases(w) PROVE OutcomesKnown' /\ ServiceStep
    BY <1>0, <1>8, EraseIsRelease
  <1>9. CASE Poll
    <2>1. UNCHANGED <<net, SyncTable, tx>>
      BY <1>9 DEF Poll, PollIgnores, PollStores, PollSignals
    <2>2. \A v \in Workers : worker'[v].tx = worker[v].tx /\ worker'[v].pc = worker[v].pc
      BY <1>0, <1>9 DEF Poll, PollIgnores, PollStores, PollSignals, WorkThread
    <2> QED BY <1>0, <2>1, <2>2, Quiet DEF Unanswered, Answered
  <1>10. ASSUME NEW d \in Devices, Unit(d) PROVE OutcomesKnown' /\ ServiceStep
    <2>1. UNCHANGED <<net, SyncTable, worker>>
      BY <1>10 DEF Unit, UnitReceives, UnitSends
    <2>2. \A t \in Tx : tx'[t].outcome = tx[t].outcome
      BY <1>0, <1>10 DEF Unit, UnitReceives, UnitSends, Transaction
    <2> QED BY <1>0, <2>1, <2>2, Quiet DEF Unanswered, Answered
  <1>11. CASE UNCHANGED vars
    <2>1. UNCHANGED <<net, SyncTable, worker, tx>>
      BY <1>11 DEF vars
    <2> QED BY <1>0, <2>1, Quiet DEF Unanswered, Answered
  <1> QED BY <1>1, <1>2, <1>3, <1>4, <1>5, <1>6, <1>7, <1>8, <1>9, <1>10, <1>11 DEF Next, Net, Worker

LEMMA InitServiceInv == Init => ServiceInv
  <1> SUFFICES ASSUME Init PROVE ServiceInv
    OBVIOUS
  <1>1. PermitsInv
    BY InitPermitsInv
  <1>2. OutcomesKnown
    BY DEF Init, OutcomesKnown, Unanswered, Answered, Registered, Idle
  <1> QED BY <1>1, <1>2, InitTableInv DEF ServiceInv

LEMMA ServiceInvStep == ServiceInv /\ [Next]_vars => ServiceInv'
  BY TableInvStep, PermitsInvStep, ServiceNext DEF ServiceInv

(* The callers of ReadAttribute and WriteAttribute get what the service    *)
(* promises, for any number of units, attributes, threads, permits and     *)
(* tries: at most one transaction on an attribute, no more than the        *)
(* permits at once, no refusal without a transaction in the way, and one   *)
(* answer for each that runs, before its attribute is free again.          *)
THEOREM ServiceImplemented == Spec => ImplementsService
  <1>1. Init => Service!Init
    <2> SUFFICES ASSUME Init PROVE Service!Init
      OBVIOUS
    <2>1. Owner = [k \in Keys |-> NoTx]
      BY DEF Init, Owner, Taken
    <2>2. Result = [t \in Tx |-> "pending"]
      BY DEF Init, Result
    <2> QED BY <2>1, <2>2 DEF Service!Init, Owner, Result
  <1>2. ServiceInv /\ [Next]_vars => [Service!Next]_(Service!vars)
    BY ServiceNext DEF ServiceStep
  <1> QED BY <1>1, <1>2, InitServiceInv, ServiceInvStep, PTL DEF Spec, ImplementsService, Service!Spec

-----------------------------------------------------------------------------
(* What an answer means.                                                    *)

IsTold(t) == tx[t].outcome \in Told
Executed(t) == tx[t].applied > 0
ExecutedTx == {t \in Tx : Executed(t)}

(* A worker has been given the request: it is open and that worker's, or   *)
(* its caller has been told.                                               *)
Started(t) == IsTold(t) \/ \E w \in Workers : Unanswered(w) /\ worker[w].tx = t

(* x may answer t: it is t or an earlier request, and nobody waits for x   *)
(* but the caller of t.                                                    *)
Came(x, t) == x \in Tx /\ x <= t /\ Executed(x) /\ (x = t \/ IsTold(x))

NetIsLast == net.pc # "idle" => net.tx = net.next - 1

RequestsStarted ==
  /\ \A d \in Devices : \A t \in reqBus[d] : Started(t)
  /\ \A t \in ExecutedTx : Started(t)
ResponsesExecuted ==
  /\ rspBus \in Seq(ExecutedTx)
  /\ \A d \in Devices : unit[d] # NoTx => unit[d] \in ExecutedTx

(* The table lets an attribute's transactions run one after the other, so  *)
(* the one that runs is the latest that has started.                       *)
LatestRuns ==
  \A x \in Tx, w \in Workers :
    Started(x) /\ Registered(w) /\ tx[x].key = KeyOf(w) => x <= worker[w].tx

(* The signals a thread has got, or is about to get from the poll thread.  *)
(* If that thread has ended meanwhile, its next transaction gets it.       *)
SignalCame(w) ==
  /\ worker[w].sig # NoTx => Came(worker[w].sig, worker[w].tx)
  /\ worker[w].got # NoTx => Came(worker[w].got, worker[w].tx)
  /\ worker[w].pc = "release" => IsTold(worker[w].tx)
  /\ poll = w => IF worker[w].pc = "free" THEN heard \in ExecutedTx /\ IsTold(heard)
                                          ELSE Came(heard, worker[w].tx)
OkCame == \A t \in Tx : tx[t].outcome = "ok" => Came(tx[t].answer, t)

AnswersInv ==
  /\ ServiceInv /\ NetIsLast /\ RequestsStarted /\ ResponsesExecuted /\ LatestRuns
  /\ \A w \in Workers : SignalCame(w)
  /\ OkCame

(* What a step never takes back.                                           *)
Grows ==
  /\ \A t \in Tx : /\ IsTold(t) => tx'[t].outcome = tx[t].outcome /\ tx'[t].answer = tx[t].answer
                   /\ Executed(t) => Executed(t)'
                   /\ Started(t) => Started(t)'
  /\ \A t \in BegunTx : tx'[t].key = tx[t].key

LEMMA StartedIsBegun ==
  ASSUME ServiceInv, NEW t \in Tx, Started(t)
  PROVE  t \in BegunTx /\ (net.pc # "idle" => t # net.tx)
  <1>1. TypeInv /\ OutcomesKnown
    BY DEF ServiceInv, TableInv
  <1>2. CASE IsTold(t)
    BY <1>1, <1>2 DEF OutcomesKnown, IsTold, Told
  <1>3. ASSUME NEW w \in Workers, Unanswered(w), worker[w].tx = t
        PROVE  t \in BegunTx /\ (net.pc # "idle" => t # net.tx)
    BY <1>1, <1>3, Places DEF OutcomesKnown
  <1> QED BY <1>2, <1>3 DEF Started

LEMMA StartedBeforeNet ==
  ASSUME ServiceInv, NetIsLast, net.pc # "idle", NEW t \in Tx, Started(t)
  PROVE  t <= net.tx
  <1>1. t \in BegunTx /\ net \in NetThread /\ net.tx = net.next - 1
    BY StartedIsBegun DEF NetIsLast, ServiceInv, TableInv, TypeInv, TypeOK
  <1> QED BY <1>1, BoundsAssumption DEF BegunTx, NetThread

LEMMA CameStays ==
  ASSUME Grows, NEW x, NEW t, Came(x, t)
  PROVE  Came(x, t)'
  BY DEF Grows, Came, IsTold

(* Of all that a step must keep, what it does not touch is kept.           *)
LEMMA AnswersKept ==
  ASSUME AnswersInv, ServiceInv', NetIsLast', Grows,
         \A d \in Devices : \A t \in reqBus'[d] : t \in reqBus[d] \/ Started(t),
         \A t \in ExecutedTx' : Executed(t) \/ Started(t),
         ResponsesExecuted', LatestRuns',
         \A w \in Workers : SignalCame(w)',
         \A t \in Tx : tx'[t].outcome = "ok" => IsTold(t) \/ Came(tx'[t].answer, t)
  PROVE  AnswersInv'
  <1>1. RequestsStarted'
    <2>1. \A d \in Devices : reqBus[d] \subseteq Tx /\ reqBus'[d] \subseteq Tx
      BY DEF AnswersInv, ServiceInv, TableInv, TypeInv, TypeOK
    <2>2. ASSUME NEW d \in Devices, NEW t \in reqBus'[d]
          PROVE  Started(t)'
      BY <2>1, <2>2 DEF AnswersInv, RequestsStarted, Grows
    <2>3. ASSUME NEW t \in ExecutedTx'
          PROVE  Started(t)'
      BY <2>3 DEF AnswersInv, RequestsStarted, ExecutedTx, Grows
    <2> QED BY <2>2, <2>3 DEF RequestsStarted
  <1>2. OkCame'
    <2>1. ASSUME NEW t \in Tx, tx'[t].outcome = "ok"
          PROVE  Came(tx'[t].answer, t)
      <3>1. CASE IsTold(t)
        <4>1. tx[t].outcome = "ok" /\ tx'[t].answer = tx[t].answer
          BY <2>1, <3>1 DEF Grows
        <4> QED BY <4>1 DEF AnswersInv, OkCame
      <3>2. CASE Came(tx'[t].answer, t)
        BY <3>2
      <3> QED BY <2>1, <3>1, <3>2
    <2>2. ASSUME NEW t \in Tx, tx'[t].outcome = "ok"
          PROVE  Came(tx[t].answer, t)'
      BY <2>1, <2>2 DEF Grows, Came, IsTold
    <2> QED BY <2>2 DEF OkCame
  <1> QED BY <1>1, <1>2 DEF AnswersInv

(* A thread whose signals at most go from one place to the other.          *)
LEMMA SignalKept ==
  ASSUME Grows, NEW w \in Workers, SignalCame(w),
         worker'[w].tx = worker[w].tx, worker[w].tx \in Tx \cup {NoTx},
         worker'[w].sig \in {NoTx, worker[w].sig},
         worker'[w].got \in {NoTx, worker[w].sig, worker[w].got},
         worker'[w].pc = "release" => worker[w].tx \in Tx /\ IsTold(worker[w].tx),
         worker'[w].pc = "free" <=> worker[w].pc = "free",
         poll' = w => poll = w /\ heard' = heard
  PROVE  SignalCame(w)'
  <1> DEFINE C(x, t) == /\ x \in Tx /\ x <= t /\ tx'[x].applied > 0
                        /\ x = t \/ tx'[x].outcome \in Told
  <1>0. \A x, t : Came(x, t) => C(x, t)
    BY DEF Came, Grows, IsTold, Executed
  <1> HIDE DEF C
  <1>1. worker'[w].sig # NoTx => C(worker'[w].sig, worker'[w].tx)
    BY <1>0 DEF SignalCame
  <1>2. worker'[w].got # NoTx => C(worker'[w].got, worker'[w].tx)
    BY <1>0 DEF SignalCame
  <1>3. worker'[w].pc = "release" => IsTold(worker[w].tx)'
    BY DEF Grows, IsTold
  <1>4. ASSUME poll' = w
        PROVE  IF worker'[w].pc = "free"
               THEN heard' \in Tx /\ tx'[heard'].applied > 0 /\ tx'[heard'].outcome \in Told
               ELSE C(heard', worker'[w].tx)
    BY <1>0, <1>4 DEF SignalCame, Grows, IsTold, Executed, ExecutedTx
  <1> QED BY <1>1, <1>2, <1>3, <1>4 DEF C, SignalCame, Came, IsTold, Executed, ExecutedTx

LEMMA LatestKept ==
  ASSUME AnswersInv, \A t \in BegunTx : tx'[t].key = tx[t].key,
         \A x \in Tx : Started(x)' => Started(x),
         \A w \in Workers : Registered(w)' => Registered(w) /\ worker'[w].tx = worker[w].tx
  PROVE  LatestRuns'
  <1> SUFFICES ASSUME NEW x \in Tx, NEW w \in Workers,
                      Started(x)', Registered(w)', tx'[x].key = KeyOf(w)'
               PROVE  x <= worker'[w].tx
    BY DEF LatestRuns
  <1>1. Started(x) /\ Registered(w) /\ worker'[w].tx = worker[w].tx /\ TypeInv /\ ServiceInv
    BY DEF AnswersInv, ServiceInv, TableInv
  <1>2. x \in BegunTx /\ worker[w].tx \in BegunTx
    BY <1>1, StartedIsBegun, Places
  <1>3. tx[x].key = KeyOf(w)
    BY <1>1, <1>2 DEF KeyOf
  <1> QED BY <1>1, <1>3 DEF AnswersInv, LatestRuns

(* What the net thread's steps leave of the transactions: nobody is told   *)
(* of an answer, though a call may be refused and another begin.           *)
TxKept ==
  /\ \A t \in Tx : /\ tx'[t].applied = tx[t].applied /\ tx'[t].answer = tx[t].answer
                   /\ \/ tx'[t].outcome = tx[t].outcome
                      \/ ~IsTold(t) /\ ~IsTold(t)'
  /\ \A t \in BegunTx : tx'[t].key = tx[t].key

NothingTold(told) ==
  \A t \in Tx : /\ told[t].applied = tx[t].applied /\ told[t].answer = tx[t].answer
                /\ told[t].key = tx[t].key
                /\ \/ told[t].outcome = tx[t].outcome
                   \/ ~IsTold(t) /\ told[t].outcome \notin Told

LEMMA BeginCallKeeps ==
  ASSUME ServiceInv,
         NEW STATE k, NEW write \in BOOLEAN, NEW STATE left,
         NEW STATE told, told \in [Tx -> Transaction], net.next \in Tx,
         NothingTold(told),
         BeginCall(k, write, left, told)
  PROVE  TxKept /\ NetIsLast'
  <1>1. net \in NetThread /\ OutcomesKnown
    BY DEF ServiceInv, TableInv, TypeInv, TypeOK
  <1>2. net.next \notin BegunTx /\ BegunTx \subseteq Tx
    BY <1>1, BegunIsTx, BoundsAssumption DEF NetThread, BegunTx, ServiceInv, TableInv
  <1>3. \A t \in Tx : t # net.next => tx'[t] = told[t]
    BY DEF BeginCall
  <1>4. /\ tx'[net.next].applied = told[net.next].applied
        /\ tx'[net.next].answer = told[net.next].answer
        /\ tx'[net.next].outcome = "open"
    BY DEF BeginCall, Transaction
  <1>5. tx[net.next].outcome = "none"
    BY <1>1, <1>2 DEF OutcomesKnown
  <1>6. TxKept
    BY <1>2, <1>3, <1>4, <1>5 DEF NothingTold, TxKept, IsTold, Told
  <1>7. NetIsLast'
    BY <1>1, BoundsAssumption DEF BeginCall, NetIsLast, NetThread
  <1> QED BY <1>6, <1>7

LEMMA CallReturnsKeeps ==
  ASSUME ServiceInv, net.pc # "idle",
         NEW STATE told, told \in [Tx -> Transaction],
         NothingTold(told),
         CallReturns(told)
  PROVE  TxKept /\ NetIsLast'
  <1>1. net \in NetThread /\ BegunTx \subseteq Tx /\ net.next + net.left <= MaxTx + 1
    BY BegunIsTx DEF ServiceInv, TableInv, TypeInv, TypeOK, NetKnowsTx
  <1>2. CASE net.left > 0 /\ BeginCall(tx[net.tx].key, TRUE, net.left - 1, told)
    <2> DEFINE k == tx[net.tx].key
               l == net.left - 1
    <2>1. net.next \in Tx
      BY <1>1, <1>2, BoundsAssumption DEF NetThread, Tx
    <2>2. BeginCall(k, TRUE, l, told)
      BY <1>2
    <2> HIDE DEF k, l
    <2> QED BY <2>1, <2>2, BeginCallKeeps
  <1>3. CASE net.left = 0 /\ net' = [net EXCEPT !.pc = "idle", !.tx = NoTx] /\ tx' = told
    <2>1. net'.pc = "idle"
      BY <1>1, <1>3 DEF NetThread
    <2> QED BY <1>1, <1>3, <2>1 DEF NothingTold, TxKept, NetIsLast, IsTold
  <1> QED BY <1>2, <1>3 DEF CallReturns

LEMMA TxKeptGrows ==
  ASSUME TxKept, \A w \in Workers : Unanswered(w) => Unanswered(w)' /\ worker'[w].tx = worker[w].tx
  PROVE  Grows
  <1>1. \A t \in Tx : IsTold(t) => IsTold(t)' /\ tx'[t].outcome = tx[t].outcome
    BY DEF TxKept, IsTold
  <1>2. \A t \in Tx : Started(t) => Started(t)'
    BY <1>1 DEF Started
  <1> QED BY <1>1, <1>2 DEF Grows, TxKept, Executed

(* Steps that concern no thread, except that the poll thread may find one  *)
(* to signal.                                                              *)
LEMMA AnswersQuiet ==
  ASSUME AnswersInv, ServiceInv', NetIsLast', TxKept, UNCHANGED <<worker, reqBus>>,
         rspBus' \in Seq(ExecutedTx), \A d \in Devices : unit'[d] \in {NoTx, unit[d]},
         \A w \in Workers : poll' = w => \/ poll = w /\ heard' = heard
                                         \/ worker[w].pc # "free" /\ Came(heard', worker[w].tx)
  PROVE  AnswersInv'
  <1>1. /\ \A w \in Workers : Unanswered(w)' = Unanswered(w) /\ Registered(w)' = Registered(w)
        /\ \A t \in Tx : IsTold(t)' = IsTold(t)
        /\ worker \in [Workers -> WorkThread]
    BY DEF Unanswered, Registered, TxKept, IsTold, AnswersInv, ServiceInv, TableInv, TypeInv, TypeOK
  <1>2. Grows /\ \A t \in Tx : Started(t)' = Started(t)
    BY <1>1, TxKeptGrows DEF Started
  <1>3. ExecutedTx' = ExecutedTx
    BY DEF ExecutedTx, Executed, TxKept
  <1>4. ResponsesExecuted'
    BY <1>3 DEF AnswersInv, ResponsesExecuted
  <1>5. LatestRuns'
    BY <1>1, <1>2, LatestKept DEF TxKept
  <1>6. ASSUME NEW w \in Workers
        PROVE  SignalCame(w)'
    <2>1. SignalCame(w) /\ worker[w].tx \in Tx \cup {NoTx}
      BY <1>1 DEF AnswersInv, WorkThread
    <2>2. worker[w].pc = "release" => worker[w].tx \in Tx /\ IsTold(worker[w].tx)
      BY <2>1, BegunIsTx DEF AnswersInv, ServiceInv, TableInv, TypeInv, WorkersKnowTx, SignalCame
    <2>3. CASE poll' = w => poll = w /\ heard' = heard
      BY <1>2, <2>1, <2>2, <2>3, SignalKept
    <2>4. CASE poll' = w /\ worker[w].pc # "free" /\ Came(heard', worker[w].tx)
      <3>1. heard' \in Tx /\ heard' <= worker[w].tx /\ tx'[heard'].applied > 0
            /\ (heard' = worker[w].tx \/ tx'[heard'].outcome \in Told)
        BY <2>4 DEF Came, Executed, IsTold, TxKept
      <3>2. /\ worker[w].sig # NoTx => Came(worker[w].sig, worker[w].tx)'
            /\ worker[w].got # NoTx => Came(worker[w].got, worker[w].tx)'
            /\ worker[w].pc = "release" => IsTold(worker[w].tx)'
        BY <1>1, <2>1, <2>2 DEF SignalCame, Came, Executed, TxKept
      <3> QED BY <2>4, <3>1, <3>2 DEF SignalCame, Came, Executed, IsTold
    <2> QED BY <2>3, <2>4
  <1>7. \A d \in Devices : \A t \in reqBus'[d] : t \in reqBus[d] \/ Started(t)
    OBVIOUS
  <1>8. \A t \in ExecutedTx' : Executed(t) \/ Started(t)
    BY <1>3 DEF ExecutedTx
  <1>9. \A t \in Tx : tx'[t].outcome = "ok" => IsTold(t) \/ Came(tx'[t].answer, t)
    BY <1>1 DEF IsTold, Told
  <1> QED BY <1>2, <1>4, <1>5, <1>6, <1>7, <1>8, <1>9, AnswersKept

(* A worker starts: its request is the latest of its attribute. A signal   *)
(* on its way to the thread that had its id is for an earlier request.     *)
LEMMA StartKeepsAnswers ==
  ASSUME AnswersInv, ServiceInv', NEW w \in Workers, StartWorker(w)
  PROVE  AnswersInv'
  <1>1. /\ ServiceInv /\ TableInv /\ TypeInv /\ OutcomesKnown /\ NetIsLast
        /\ worker \in [Workers -> WorkThread] /\ tx \in [Tx -> Transaction]
        /\ BegunTx \subseteq Tx /\ net.tx \in BegunTx /\ net.tx \in Tx
    <2>1. ServiceInv /\ TableInv /\ TypeInv /\ OutcomesKnown /\ NetIsLast
      BY DEF AnswersInv, ServiceInv, TableInv
    <2>2. net.tx \in BegunTx /\ net.tx \in Tx
      BY <2>1, CallNotRunning DEF StartWorker
    <2> QED BY <2>1, <2>2, BegunIsTx DEF TypeInv, TypeOK
  <1>2. /\ net.pc = "semaphore" /\ worker[w].pc = "free" /\ CallReturns(tx)
        /\ worker' = [worker EXCEPT ![w] =
             [pc |-> "send", tx |-> net.tx, tries |-> Tries, sig |-> NoTx, got |-> NoTx]]
        /\ UNCHANGED <<poll, heard, reqBus, rspBus, unit>>
    BY DEF StartWorker, pollVars, busVars
  <1>3. /\ worker'[w].tx = net.tx /\ worker'[w].pc = "send"
        /\ worker'[w].sig = NoTx /\ worker'[w].got = NoTx
        /\ \A v \in Workers : v # w => worker'[v] = worker[v]
    BY <1>1, <1>2
  <1>4. TxKept /\ NetIsLast'
    <2>1. net.pc # "idle" /\ CallReturns(tx)
      BY <1>2
    <2>2. NothingTold(tx)
      BY DEF NothingTold
    <2> QED BY <1>1, <2>1, <2>2, CallReturnsKeeps
  <1>5. /\ \A v \in Workers : v # w => Unanswered(v)' = Unanswered(v) /\ Registered(v)' = Registered(v)
        /\ ~Unanswered(w) /\ ~Registered(w)
    BY <1>2, <1>3 DEF Unanswered, Registered
  <1>6. Grows
    BY <1>3, <1>4, <1>5, TxKeptGrows
  <1>7. \A t \in Tx : Started(t)' => Started(t) \/ t = net.tx
    BY <1>3, <1>4, <1>5 DEF Started, TxKept, IsTold
  <1>8. ExecutedTx' = ExecutedTx
    BY <1>4 DEF ExecutedTx, Executed, TxKept
  <1>9. ResponsesExecuted'
    BY <1>2, <1>8 DEF AnswersInv, ResponsesExecuted
  <1>10. LatestRuns'
    <2> SUFFICES ASSUME NEW x \in Tx, NEW v \in Workers,
                        Started(x)', Registered(v)', tx'[x].key = KeyOf(v)'
                 PROVE  x <= worker'[v].tx
      BY DEF LatestRuns
    <2>1. x <= net.tx /\ x \in BegunTx
      BY <1>1, <1>2, <1>7, StartedBeforeNet, StartedIsBegun DEF Tx
    <2>2. CASE v = w
      BY <1>3, <2>1, <2>2
    <2>3. CASE v # w
      <3>1. Registered(v) /\ worker'[v].tx = worker[v].tx /\ worker[v].tx \in BegunTx
        BY <1>1, <1>3, <1>5, <2>3, Places
      <3>2. KeyOf(v)' = KeyOf(v) /\ tx'[x].key = tx[x].key
        BY <1>4, <2>1, <3>1 DEF KeyOf, TxKept
      <3>3. SyncTable[KeyOf(v)] = v /\ v # NoWorker /\ ~Taken(Wanted)
        BY <1>1, <1>2, <3>1, WorkersAssumption DEF TableInv, TableMatchesWorkers, StillFree
      <3>4. x # net.tx
        BY <3>2, <3>3 DEF Taken, Wanted
      <3> QED BY <1>7, <3>1, <3>2, <3>4 DEF AnswersInv, LatestRuns
    <2> QED BY <2>2, <2>3
  <1>11. ASSUME NEW v \in Workers
         PROVE  SignalCame(v)'
    <2>1. CASE v = w
      <3>1. ASSUME poll' = w
            PROVE  heard' \in Tx /\ heard' <= net.tx /\ tx'[heard'].applied > 0 /\ tx'[heard'].outcome \in Told
        <4>1. heard' = heard /\ heard \in ExecutedTx /\ IsTold(heard)
          BY <1>2, <3>1 DEF AnswersInv, SignalCame
        <4>2. heard \in Tx /\ Started(heard)
          BY <4>1 DEF ExecutedTx, Started
        <4>3. heard <= net.tx
          BY <1>1, <1>2, <4>2, StartedBeforeNet
        <4> QED BY <1>4, <4>1, <4>2, <4>3 DEF ExecutedTx, Executed, TxKept, IsTold
      <3> QED BY <1>3, <2>1, <3>1 DEF SignalCame, Came, Executed, IsTold
    <2>2. CASE v # w
      <3>1. SignalCame(v) /\ worker'[v] = worker[v] /\ worker[v].tx \in Tx \cup {NoTx}
        BY <1>1, <1>3, <2>2 DEF AnswersInv, WorkThread
      <3>2. worker[v].pc = "release" => worker[v].tx \in Tx /\ IsTold(worker[v].tx)
        BY <1>1, <3>1 DEF TypeInv, WorkersKnowTx, SignalCame
      <3> QED BY <1>2, <1>6, <3>1, <3>2, SignalKept
    <2> QED BY <2>1, <2>2
  <1>12. \A d \in Devices : \A t \in reqBus'[d] : t \in reqBus[d] \/ Started(t)
    BY <1>2
  <1>13. \A t \in ExecutedTx' : Executed(t) \/ Started(t)
    BY <1>8 DEF ExecutedTx
  <1>14. \A t \in Tx : tx'[t].outcome = "ok" => IsTold(t) \/ Came(tx'[t].answer, t)
    BY <1>4 DEF TxKept, IsTold, Told
  <1> QED BY <1>4, <1>6, <1>9, <1>10, <1>11, <1>12, <1>13, <1>14, AnswersKept

(* A worker goes on: nothing is sent but what it has been given, its       *)
(* signals go from the flag to the result and from there to the caller,    *)
(* and it ends when the caller has been told.                              *)
LEMMA WorkerKeepsAnswers ==
  ASSUME AnswersInv, ServiceInv', NEW w \in Workers,
         UNCHANGED <<net, poll, heard, rspBus, unit>>,
         \A v \in Workers : v # w => worker'[v] = worker[v],
         worker'[w].tx = worker[w].tx, worker[w].pc # "free", worker'[w].pc # "free",
         worker'[w].sig \in {NoTx, worker[w].sig},
         worker'[w].got \in {NoTx, worker[w].sig, worker[w].got},
         Unanswered(w) => Unanswered(w)' \/ IsTold(worker[w].tx)',
         (Unanswered(w)' => Unanswered(w)) /\ (Registered(w)' => Registered(w)),
         worker'[w].pc = "release" => worker[w].pc = "release" \/ Answered(w),
         \A d \in Devices : \A t \in reqBus'[d] : t \in reqBus[d] \/ Started(t),
         \A t \in Tx : /\ tx'[t].applied = tx[t].applied /\ tx'[t].key = tx[t].key
                       /\ \/ t = worker[w].tx /\ Unanswered(w)
                          \/ tx'[t].outcome = tx[t].outcome /\ tx'[t].answer = tx[t].answer,
         tx'[worker[w].tx].outcome = "ok" =>
           IsTold(worker[w].tx) \/ Came(tx'[worker[w].tx].answer, worker[w].tx)
  PROVE  AnswersInv'
  <1>1. /\ ServiceInv /\ TypeInv /\ OutcomesKnown /\ NetIsLast /\ BegunTx \subseteq Tx
        /\ worker \in [Workers -> WorkThread]
    BY BegunIsTx DEF AnswersInv, ServiceInv, TableInv, TypeInv, TypeOK
  <1>2. worker[w].tx \in Tx /\ (Unanswered(w) => ~IsTold(worker[w].tx))
    BY <1>1 DEF TypeInv, WorkersKnowTx, OutcomesKnown, IsTold, Told
  <1>3. NetIsLast'
    BY <1>1 DEF NetIsLast
  <1>4. \A v \in Workers : v # w => Unanswered(v)' = Unanswered(v) /\ Registered(v)' = Registered(v)
    BY DEF Unanswered, Registered
  <1>5. ASSUME NEW t \in Tx, IsTold(t)
        PROVE  tx'[t].outcome = tx[t].outcome /\ tx'[t].answer = tx[t].answer
    BY <1>2, <1>5
  <1>6. ASSUME NEW t \in Tx, Started(t)
        PROVE  Started(t)'
    <2>1. CASE IsTold(t)
      BY <1>5, <2>1 DEF IsTold, Started
    <2>2. ASSUME NEW v \in Workers, Unanswered(v), worker[v].tx = t
          PROVE  Started(t)'
      BY <1>4, <2>2 DEF Started
    <2> QED BY <1>6, <2>1, <2>2 DEF Started
  <1>7. Grows
    BY <1>1, <1>5, <1>6 DEF Grows, Executed
  <1>8. ASSUME NEW t \in Tx, Started(t)'
        PROVE  Started(t)
    <2>1. CASE IsTold(t)'
      <3>1. CASE t = worker[w].tx /\ Unanswered(w)
        BY <3>1 DEF Started
      <3>2. CASE tx'[t].outcome = tx[t].outcome
        BY <2>1, <3>2 DEF Started, IsTold
      <3> QED BY <3>1, <3>2
    <2>2. ASSUME NEW v \in Workers, Unanswered(v)', worker'[v].tx = t
          PROVE  Started(t)
      BY <1>4, <2>2 DEF Started
    <2> QED BY <1>8, <2>1, <2>2 DEF Started
  <1>9. ExecutedTx' = ExecutedTx
    BY DEF ExecutedTx, Executed
  <1>10. ResponsesExecuted'
    BY <1>9 DEF AnswersInv, ResponsesExecuted
  <1>11. LatestRuns'
    BY <1>1, <1>4, <1>8, LatestKept
  <1>12. ASSUME NEW v \in Workers
         PROVE  SignalCame(v)'
    <2>1. SignalCame(v) /\ worker[v].tx \in Tx \cup {NoTx}
      BY <1>1 DEF AnswersInv, WorkThread
    <2>2. worker[v].pc = "release" => worker[v].tx \in Tx /\ IsTold(worker[v].tx)
      BY <1>1, <2>1 DEF TypeInv, WorkersKnowTx, SignalCame
    <2>3. Answered(w) => IsTold(worker[w].tx)
      BY <1>1 DEF OutcomesKnown, IsTold
    <2> QED BY <1>2, <1>7, <2>1, <2>2, <2>3, SignalKept
  <1>13. \A t \in ExecutedTx' : Executed(t) \/ Started(t)
    BY <1>9 DEF ExecutedTx
  <1>14. \A t \in Tx : tx'[t].outcome = "ok" => IsTold(t) \/ Came(tx'[t].answer, t)
    BY DEF IsTold, Told
  <1> QED BY <1>3, <1>7, <1>10, <1>11, <1>12, <1>13, <1>14, AnswersKept

LEMMA AnswersStep == AnswersInv /\ [Next]_vars => AnswersInv'
  <1> SUFFICES ASSUME AnswersInv, [Next]_vars PROVE AnswersInv'
    OBVIOUS
  <1> USE DEF busVars, pollVars
  <1>0. /\ ServiceInv /\ ServiceInv' /\ TableInv /\ TypeInv /\ OutcomesKnown /\ NetIsLast
        /\ ResponsesExecuted /\ RequestsStarted /\ BegunTx \subseteq Tx
        /\ worker \in [Workers -> WorkThread] /\ tx \in [Tx -> Transaction] /\ net \in NetThread
    <2>1. ServiceInv /\ TableInv /\ TypeInv /\ OutcomesKnown /\ NetIsLast
          /\ ResponsesExecuted /\ RequestsStarted
      BY DEF AnswersInv, ServiceInv, TableInv
    <2> QED BY <2>1, ServiceInvStep, BegunIsTx DEF TypeInv, TypeOK
  <1>1. ASSUME UNCHANGED <<worker, poll, heard, reqBus, rspBus, unit>>, TxKept, NetIsLast'
        PROVE  AnswersInv'
    <2>1. rspBus' \in Seq(ExecutedTx) /\ \A d \in Devices : unit'[d] \in {NoTx, unit[d]}
      BY <1>0, <1>1 DEF ResponsesExecuted
    <2> QED BY <1>0, <1>1, <2>1, AnswersQuiet
  <1>2. ASSUME NEW k \in Keys, NEW write \in BOOLEAN, NEW items \in 1 .. MaxItems,
               Command(k, write, items)
        PROVE  AnswersInv'
    <2>1. BeginCall(k, write, items - 1, tx) /\ net.next \in Tx
      BY <1>0, <1>2, BoundsAssumption DEF Command, Tx, NetThread
    <2>2. NothingTold(tx)
      BY DEF NothingTold
    <2>3. TxKept /\ NetIsLast'
      BY <1>0, <2>1, <2>2, BeginCallKeeps
    <2> QED BY <1>1, <1>2, <2>3 DEF Command
  <1>3. CASE WriteDelays \/ DelayEnds \/ Admit
    <2>1. /\ UNCHANGED <<worker, poll, heard, reqBus, rspBus, unit, tx>>
          /\ net'.tx = net.tx /\ net'.next = net.next /\ net.pc # "idle"
      BY <1>0, <1>3 DEF WriteDelays, DelayEnds, Admit, NetThread
    <2> QED BY <1>0, <1>1, <2>1 DEF TxKept, NetIsLast
  <1>4. CASE Refused
    <2> DEFINE told == [tx EXCEPT ![net.tx].outcome = "refused"]
    <2>1. net.pc # "idle" /\ CallReturns(told)
          /\ UNCHANGED <<worker, poll, heard, reqBus, rspBus, unit>>
      BY <1>4 DEF Refused
    <2>2. net.tx \in Tx /\ tx[net.tx].outcome = "open"
      BY <1>0, <2>1, CallNotRunning DEF OutcomesKnown
    <2>3. told \in [Tx -> Transaction]
      BY <1>0, <2>2, ZenonT(60) DEF Transaction, Outcomes
    <2>4. NothingTold(told)
      <3>1. \A t \in Tx : t # net.tx => told[t] = tx[t]
        BY <1>0
      <3>2. /\ told[net.tx].applied = tx[net.tx].applied /\ told[net.tx].answer = tx[net.tx].answer
            /\ told[net.tx].key = tx[net.tx].key /\ told[net.tx].outcome = "refused"
        BY <1>0, <2>2 DEF Transaction
      <3> HIDE DEF told
      <3> QED BY <2>2, <3>1, <3>2 DEF NothingTold, IsTold, Told
    <2> HIDE DEF told
    <2>5. TxKept /\ NetIsLast'
      BY <1>0, <2>1, <2>3, <2>4, CallReturnsKeeps
    <2> QED BY <1>1, <2>1, <2>5
  <1>5. ASSUME NEW w \in Workers, StartWorker(w) PROVE AnswersInv'
    BY <1>0, <1>5, StartKeepsAnswers
  <1>6. ASSUME NEW w \in Workers, Worker(w) PROVE AnswersInv'
    <2> DEFINE me == worker[w].tx
    <2>0. worker[w] \in WorkThread /\ SignalCame(w) /\ (worker[w].pc # "free" => me \in Tx)
      BY <1>0 DEF AnswersInv, TypeInv, WorkersKnowTx
    <2>1. CASE WorkerSends(w)
      <3>1. /\ worker[w].pc = "send" /\ worker' = [worker EXCEPT ![w].pc = "wait", ![w].tries = @ - 1]
            /\ reqBus' = [reqBus EXCEPT ![KeyOf(w)[1]] = @ \cup {me}]
            /\ UNCHANGED <<net, poll, heard, rspBus, unit, tx>>
        BY <2>1 DEF WorkerSends
      <3>2. /\ \A v \in Workers : v # w => worker'[v] = worker[v]
            /\ worker'[w].tx = me /\ worker'[w].pc = "wait"
            /\ worker'[w].sig = worker[w].sig /\ worker'[w].got = worker[w].got
        BY <1>0, <2>0, <3>1 DEF WorkThread
      <3>3. \A d \in Devices : \A t \in reqBus'[d] : t \in reqBus[d] \/ Started(t)
        <4>1. Started(me)
          BY <3>1 DEF Started, Unanswered
        <4>2. reqBus \in [Devices -> SUBSET Tx]
          BY <1>0 DEF TypeInv, TypeOK
        <4> DEFINE dev == KeyOf(w)[1]
        <4>3. reqBus' = [reqBus EXCEPT ![dev] = @ \cup {me}]
          BY <3>1
        <4> HIDE DEF dev, me
        <4>4. \A d \in Devices : \A t \in reqBus'[d] : t \in reqBus[d] \/ t = me
          BY <4>2, <4>3
        <4> QED BY <4>1, <4>4
      <3> QED BY <1>0, <3>1, <3>2, <3>3, <2>0, WorkerKeepsAnswers
              DEF Unanswered, Answered, Registered, OutcomesKnown, IsTold, Told
    <2>2. CASE WorkerSignalled(w)
      <3> DEFINE x == worker[w].sig
      <3>1. /\ worker[w].pc = "wait"
            /\ worker' = [worker EXCEPT ![w] = [@ EXCEPT !.pc = "report", !.sig = NoTx, !.got = x]]
            /\ UNCHANGED <<net, poll, heard, reqBus, rspBus, unit, tx>>
        BY <2>2 DEF WorkerSignalled
      <3> HIDE DEF x
      <3>2. /\ \A v \in Workers : v # w => worker'[v] = worker[v]
            /\ worker'[w].tx = me /\ worker'[w].pc = "report"
            /\ worker'[w].sig = NoTx /\ worker'[w].got = x
        BY <1>0, <2>0, <3>1 DEF WorkThread
      <3> QED BY <1>0, <3>1, <3>2, <2>0, WorkerKeepsAnswers
              DEF x, Unanswered, Answered, Registered, OutcomesKnown, IsTold, Told
    <2>3. CASE WorkerTimesOut(w) \/ WorkerResets(w) \/ WorkerErases(w)
      <3>1. PICK p \in {"send", "report", "erase", "release"} :
              /\ worker' = [worker EXCEPT ![w].pc = p]
              /\ UNCHANGED <<net, poll, heard, reqBus, rspBus, unit, tx>>
              /\ \/ worker[w].pc = "wait" /\ p \in {"send", "report"}
                 \/ worker[w].pc = "reset" /\ p = "erase"
                 \/ worker[w].pc = "erase" /\ p = "release"
        BY <2>3 DEF WorkerTimesOut, WorkerResets, WorkerErases, Goto
      <3>2. /\ \A v \in Workers : v # w => worker'[v] = worker[v]
            /\ worker'[w].tx = me /\ worker'[w].pc = p
            /\ worker'[w].sig = worker[w].sig /\ worker'[w].got = worker[w].got
        BY <1>0, <2>0, <3>1 DEF WorkThread
      <3> QED BY <1>0, <3>1, <3>2, <2>0, WorkerKeepsAnswers
              DEF Unanswered, Answered, Registered, OutcomesKnown, IsTold, Told
    <2>4. CASE WorkerReportsWrite(w) \/ WorkerReportsRead(w)
      <3>1. PICK p \in {"reset", "erase"}, o \in Told, a \in Tx \cup {NoTx} :
              /\ worker[w].pc = "report"
              /\ worker' = [worker EXCEPT ![w] = [@ EXCEPT !.pc = p, !.got = NoTx]]
              /\ tx' = [tx EXCEPT ![me] = [@ EXCEPT !.outcome = o, !.answer = a]]
              /\ UNCHANGED <<net, poll, heard, reqBus, rspBus, unit>>
              /\ o = "ok" => a = worker[w].got /\ a # NoTx
        <4>1. CASE WorkerReportsWrite(w)
          <5> DEFINE a == worker[w].got
                     o == IF a # NoTx THEN "ok" ELSE "failed"
          <5>1. /\ worker[w].pc = "report"
                /\ worker' = [worker EXCEPT ![w] = [@ EXCEPT !.pc = "erase", !.got = NoTx]]
                /\ tx' = [tx EXCEPT ![me] = [@ EXCEPT !.outcome = o, !.answer = a]]
                /\ UNCHANGED <<net, poll, heard, reqBus, rspBus, unit>>
            BY <4>1 DEF WorkerReportsWrite
          <5>2. o \in Told /\ a \in Tx \cup {NoTx} /\ (o = "ok" => a # NoTx)
            BY <2>0 DEF Told, WorkThread
          <5> HIDE DEF o
          <5> QED BY <5>1, <5>2
        <4>2. CASE WorkerReportsRead(w)
          <5> DEFINE a == EntryBuffer[KeyOf(w)[1]]
                     o == IF a # NoTx THEN "data" ELSE "empty"
                     p == IF a # NoTx THEN "reset" ELSE "erase"
          <5>1. /\ worker[w].pc = "report"
                /\ worker' = [worker EXCEPT ![w] = [@ EXCEPT !.pc = p, !.got = NoTx]]
                /\ tx' = [tx EXCEPT ![me] = [@ EXCEPT !.outcome = o, !.answer = a]]
                /\ UNCHANGED <<net, poll, heard, reqBus, rspBus, unit>>
            BY <4>2 DEF WorkerReportsRead
          <5>2. a \in Tx \cup {NoTx}
            <6>1. me \in BegunTx
              BY <1>0, <5>1, Places DEF Registered
            <6>2. KeyOf(w) \in Devices \X Attrs
              BY <1>0, <6>1 DEF TypeInv, KeysKnown, Keys, KeyOf
            <6> QED BY <1>0, <6>2 DEF TypeInv, TypeOK
          <5>3. o \in Told /\ o # "ok" /\ p \in {"reset", "erase"}
            BY DEF Told
          <5> HIDE DEF a, o, p
          <5> QED BY <5>1, <5>2, <5>3
        <4> QED BY <2>4, <4>1, <4>2
      <3>2. /\ \A v \in Workers : v # w => worker'[v] = worker[v]
            /\ worker'[w].tx = me /\ worker'[w].pc = p
            /\ worker'[w].sig = worker[w].sig /\ worker'[w].got = NoTx
        BY <1>0, <2>0, <3>1 DEF WorkThread
      <3>3. me \in Tx /\ Unanswered(w)
        BY <2>0, <3>1 DEF Unanswered
      <3>4. /\ \A t \in Tx : t # me => tx'[t] = tx[t]
            /\ tx'[me].outcome = o /\ tx'[me].answer = a
            /\ tx'[me].applied = tx[me].applied /\ tx'[me].key = tx[me].key
        BY <1>0, <3>1, <3>3 DEF Transaction
      <3>5. IsTold(me)' /\ (o = "ok" => Came(a, me))
        BY <2>0, <3>1, <3>4 DEF IsTold, SignalCame
      <3>6. Registered(w) /\ ~Unanswered(w)' /\ worker'[w].pc # "free"
        BY <3>1, <3>2 DEF Unanswered, Registered
      <3> QED BY <1>0, <3>1, <3>2, <3>3, <3>4, <3>5, <3>6, WorkerKeepsAnswers
    <2>5. CASE WorkerEnds(w)
      <3>1. worker[w].pc = "release" /\ worker' = [worker EXCEPT ![w] = Idle]
            /\ UNCHANGED <<net, poll, heard, reqBus, rspBus, unit, tx>>
        BY <2>5 DEF WorkerEnds
      <3>2. /\ \A v \in Workers : v # w => worker'[v] = worker[v]
            /\ worker'[w] = Idle
        BY <1>0, <3>1
      <3>3. \A v \in Workers : /\ Unanswered(v)' = Unanswered(v) /\ Registered(v)' = Registered(v)
                               /\ Unanswered(v) \/ Registered(v) => worker'[v].tx = worker[v].tx
        BY <3>1, <3>2 DEF Unanswered, Registered, Idle
      <3>4. TxKept /\ NetIsLast'
        BY <1>0, <3>1 DEF TxKept, NetIsLast
      <3>5. Grows /\ \A t \in Tx : Started(t)' = Started(t)
        BY <3>1, <3>3, <3>4, TxKeptGrows DEF Started, IsTold
      <3>6. LatestRuns'
        BY <3>3, <3>5, <3>1, LatestKept
      <3>7. ASSUME NEW v \in Workers PROVE SignalCame(v)'
        <4>1. CASE v = w
          <5>1. ASSUME poll = w
                PROVE  heard \in ExecutedTx /\ IsTold(heard)
            <6>1. Came(heard, me) /\ IsTold(me)
              BY <2>0, <3>1, <5>1 DEF SignalCame
            <6> QED BY <6>1 DEF Came, ExecutedTx
          <5> QED BY <3>1, <3>2, <4>1, <5>1 DEF SignalCame, Idle, ExecutedTx, Executed, IsTold
        <4>2. CASE v # w
          <5>1. SignalCame(v)
            BY DEF AnswersInv
          <5> QED BY <3>1, <3>2, <4>2, <5>1 DEF SignalCame, Came, Executed, ExecutedTx, IsTold
        <4> QED BY <4>1, <4>2
      <3>8. ResponsesExecuted'
        BY <1>0, <3>1 DEF ResponsesExecuted, ExecutedTx, Executed
      <3>9. \A t \in ExecutedTx' : Executed(t) \/ Started(t)
        BY <3>1 DEF ExecutedTx, Executed
      <3>10. \A t \in Tx : tx'[t].outcome = "ok" => IsTold(t) \/ Came(tx'[t].answer, t)
        BY <3>1 DEF IsTold, Told
      <3> QED BY <1>0, <3>1, <3>4, <3>5, <3>6, <3>7, <3>8, <3>9, <3>10, AnswersKept
    <2> QED BY <1>6, <2>1, <2>2, <2>3, <2>4, <2>5 DEF Worker
  <1>7. CASE Poll
    <2>1. ASSUME rspBus # <<>>
          PROVE  Head(rspBus) \in ExecutedTx /\ Tail(rspBus) \in Seq(ExecutedTx)
      BY <1>0, <2>1, SeqTail DEF ResponsesExecuted
    <2>2. CASE PollIgnores
      <3>1. rspBus' \in Seq(ExecutedTx)
            /\ UNCHANGED <<net, worker, poll, heard, reqBus, unit, tx>>
        BY <2>1, <2>2 DEF PollIgnores
      <3>2. TxKept /\ NetIsLast'
        BY <1>0, <3>1 DEF TxKept, NetIsLast
      <3> QED BY <1>0, <3>1, <3>2, AnswersQuiet
    <2>3. CASE PollStores
      <3> DEFINE t == Head(rspBus)
                 w == SyncTable[tx[t].key]
      <3>1. /\ t \in ExecutedTx /\ rspBus' \in Seq(ExecutedTx) /\ Taken(tx[t].key)
            /\ poll' = w /\ heard' = t /\ UNCHANGED <<net, worker, reqBus, unit, tx>>
        BY <2>1, <2>3 DEF PollStores
      <3> HIDE DEF t, w
      <3>2. t \in Tx /\ Started(t) /\ Executed(t)
        BY <1>0, <3>1 DEF RequestsStarted, ExecutedTx
      <3>3. tx[t].key \in Keys
        BY <1>0, <3>2, StartedIsBegun DEF TypeInv, KeysKnown
      <3>4. w \in Workers /\ Registered(w) /\ KeyOf(w) = tx[t].key
        BY <1>0, <3>1, <3>3 DEF TableInv, TypeInv, TypeOK, TableMatchesWorkers, Taken, w
      <3>5. t <= worker[w].tx
        BY <3>2, <3>4 DEF AnswersInv, LatestRuns
      <3>6. t = worker[w].tx \/ IsTold(t)
        <4>1. ASSUME NEW v \in Workers, Unanswered(v), worker[v].tx = t
              PROVE  v = w
          <5>1. Registered(v) /\ KeyOf(v) = tx[t].key
            BY <4>1 DEF Unanswered, Registered, KeyOf
          <5> QED BY <1>0, <3>4, <5>1 DEF TableInv, TableMatchesWorkers
        <4> QED BY <3>2, <4>1 DEF Started
      <3>7. Came(t, worker[w].tx) /\ worker[w].pc # "free"
        BY <3>2, <3>4, <3>5, <3>6 DEF Came, Registered
      <3>8. TxKept /\ NetIsLast'
        BY <1>0, <3>1 DEF TxKept, NetIsLast
      <3>9. \A d \in Devices : unit'[d] \in {NoTx, unit[d]}
        BY <3>1
      <3>10. \A v \in Workers : poll' = v => worker[v].pc # "free" /\ Came(heard', worker[v].tx)
        BY <3>1, <3>7
      <3> QED BY <1>0, <3>1, <3>8, <3>9, <3>10, AnswersQuiet
    <2>4. CASE PollSignals
      <3>1. /\ poll # NoWorker /\ poll' = NoWorker
            /\ worker' = IF worker[poll].pc = "free" THEN worker
                                                     ELSE [worker EXCEPT ![poll].sig = heard]
            /\ UNCHANGED <<net, reqBus, rspBus, unit, tx>>
        BY <2>4 DEF PollSignals
      <3>2. poll \in Workers
        BY <1>0, <3>1 DEF TypeInv, TypeOK
      <3>3. /\ \A v \in Workers : /\ worker'[v].pc = worker[v].pc /\ worker'[v].tx = worker[v].tx
                                  /\ worker'[v].got = worker[v].got
                                  /\ \/ worker'[v].sig = worker[v].sig
                                     \/ /\ v = poll /\ worker[v].pc # "free"
                                        /\ worker'[v].sig = heard
        BY <1>0, <3>1, <3>2 DEF WorkThread
      <3>4. \A v \in Workers : Unanswered(v)' = Unanswered(v) /\ Registered(v)' = Registered(v)
        BY <3>3 DEF Unanswered, Registered
      <3>5. TxKept /\ NetIsLast'
        BY <1>0, <3>1 DEF TxKept, NetIsLast
      <3>6. Grows /\ \A t \in Tx : Started(t)' = Started(t)
        BY <3>1, <3>3, <3>4, <3>5, TxKeptGrows DEF Started, IsTold
      <3>7. LatestRuns'
        BY <3>1, <3>3, <3>4, <3>6, LatestKept
      <3>8. ASSUME NEW v \in Workers PROVE SignalCame(v)'
        <4>1. SignalCame(v) /\ v # NoWorker
          BY WorkersAssumption DEF AnswersInv
        <4>2. worker'[v].sig # NoTx => Came(worker'[v].sig, worker[v].tx)
          BY <3>3, <4>1 DEF SignalCame
        <4> QED BY <3>1, <3>3, <4>1, <4>2 DEF SignalCame, Came, Executed, IsTold
      <3>9. ResponsesExecuted'
        BY <1>0, <3>1 DEF ResponsesExecuted, ExecutedTx, Executed
      <3>10. \A t \in ExecutedTx' : Executed(t) \/ Started(t)
        BY <3>1 DEF ExecutedTx, Executed
      <3>11. \A t \in Tx : tx'[t].outcome = "ok" => IsTold(t) \/ Came(tx'[t].answer, t)
        BY <3>1 DEF IsTold, Told
      <3> QED BY <1>0, <3>1, <3>5, <3>6, <3>7, <3>8, <3>9, <3>10, <3>11, AnswersKept
    <2> QED BY <1>7, <2>2, <2>3, <2>4 DEF Poll
  <1>8. ASSUME NEW d \in Devices, UnitReceives(d) PROVE AnswersInv'
    <2>1. PICK t \in reqBus[d] :
            /\ tx' = [tx EXCEPT ![t].applied = @ + 1] /\ unit' = [unit EXCEPT ![d] = t]
            /\ UNCHANGED <<net, worker, poll, heard, reqBus, rspBus>>
      BY <1>8 DEF UnitReceives
    <2>2. t \in Tx /\ Started(t) /\ unit \in [Devices -> Tx \cup {NoTx}]
      BY <1>0, <2>1 DEF TypeInv, TypeOK, RequestsStarted
    <2>3. /\ \A u \in Tx : /\ tx'[u].key = tx[u].key /\ tx'[u].outcome = tx[u].outcome
                           /\ tx'[u].answer = tx[u].answer
                           /\ u # t => tx'[u].applied = tx[u].applied
          /\ tx'[t].applied = tx[t].applied + 1 /\ tx[t].applied \in 0 .. MaxCopies
      BY <1>0, <2>1, <2>2 DEF Transaction
    <2>4. ExecutedTx \subseteq ExecutedTx' /\ t \in ExecutedTx' /\ \A u \in ExecutedTx' : Executed(u) \/ u = t
      BY <2>2, <2>3, BoundsAssumption DEF ExecutedTx, Executed
    <2>5. \A w \in Workers : /\ Unanswered(w)' = Unanswered(w) /\ Registered(w)' = Registered(w)
                             /\ worker'[w].tx = worker[w].tx
      BY <2>1 DEF Unanswered, Registered
    <2>6. \A u \in Tx : Started(u)' = Started(u)
      BY <2>3, <2>5 DEF Started, IsTold
    <2>7. Grows
      BY <1>0, <2>3, <2>4, <2>6 DEF Grows, ExecutedTx, Executed, IsTold
    <2>8. ResponsesExecuted'
      <3>1. rspBus' \in Seq(ExecutedTx')
        BY <1>0, <2>1, <2>4, SeqMonotone DEF ResponsesExecuted
      <3>2. \A e \in Devices : unit'[e] # NoTx => unit'[e] \in ExecutedTx'
        BY <1>0, <2>1, <2>2, <2>4 DEF ResponsesExecuted
      <3> QED BY <3>1, <3>2 DEF ResponsesExecuted
    <2>9. LatestRuns'
      BY <1>0, <2>3, <2>5, <2>6, LatestKept
    <2>10. ASSUME NEW w \in Workers PROVE SignalCame(w)'
      <3>1. SignalCame(w) /\ worker[w].tx \in Tx \cup {NoTx}
        BY <1>0 DEF AnswersInv, WorkThread
      <3>2. worker[w].pc = "release" => worker[w].tx \in Tx /\ IsTold(worker[w].tx)
        BY <1>0, <3>1 DEF TypeInv, WorkersKnowTx, SignalCame
      <3> QED BY <2>1, <2>7, <3>1, <3>2, SignalKept
    <2>11. \A u \in Tx : tx'[u].outcome = "ok" => IsTold(u) \/ Came(tx'[u].answer, u)
      BY <2>3 DEF IsTold, Told
    <2>12. NetIsLast'
      BY <1>0, <2>1 DEF NetIsLast
    <2> QED BY <1>0, <2>1, <2>2, <2>4, <2>7, <2>8, <2>9, <2>10, <2>11, <2>12, AnswersKept
  <1>9. ASSUME NEW d \in Devices, UnitSends(d) PROVE AnswersInv'
    <2>1. /\ unit[d] # NoTx /\ unit' = [unit EXCEPT ![d] = NoTx]
          /\ rspBus' = Append(rspBus, unit[d]) \/ rspBus' = rspBus
          /\ UNCHANGED <<net, worker, poll, heard, reqBus, tx>>
      BY <1>9 DEF UnitSends
    <2>2. rspBus' \in Seq(ExecutedTx)
      BY <1>0, <2>1 DEF ResponsesExecuted
    <2>3. \A e \in Devices : unit'[e] \in {NoTx, unit[e]}
      BY <1>0, <2>1 DEF TypeInv, TypeOK
    <2>4. TxKept /\ NetIsLast'
      BY <1>0, <2>1 DEF TxKept, NetIsLast
    <2> QED BY <1>0, <2>1, <2>2, <2>3, <2>4, AnswersQuiet
  <1>10. CASE UNCHANGED vars
    BY <1>0, <1>1, <1>10 DEF vars, TxKept, NetIsLast
  <1> QED BY <1>2, <1>3, <1>4, <1>5, <1>6, <1>7, <1>8, <1>9, <1>10 DEF Next, Net, Unit

LEMMA InitAnswers == Init => AnswersInv
  <1> SUFFICES ASSUME Init PROVE AnswersInv
    OBVIOUS
  <1> USE DEF Init
  <1>1. ServiceInv /\ NetIsLast
    BY InitServiceInv DEF NetIsLast
  <1>2. ExecutedTx = {} /\ RequestsStarted /\ ResponsesExecuted
    BY DEF ExecutedTx, Executed, RequestsStarted, ResponsesExecuted
  <1>3. LatestRuns
    BY DEF LatestRuns, Registered, Idle
  <1>4. \A w \in Workers : SignalCame(w)
    BY WorkersAssumption DEF SignalCame, Idle
  <1>5. OkCame
    BY DEF OkCame
  <1> QED BY <1>1, <1>2, <1>3, <1>4, <1>5 DEF AnswersInv

(* However late and in whatever order requests and answers come, however   *)
(* often a request is executed and whoever has the thread's id by then: a  *)
(* caller is told "ok" only upon an answer to its own write or to an       *)
(* earlier request whose caller had been told, and what was refused is     *)
(* never executed.                                                         *)
THEOREM OkIsMeant == Spec => []OkMeansExecuted
  <1>1. AnswersInv => OkMeansExecuted
    <2> SUFFICES ASSUME AnswersInv, NEW t \in Tx
                 PROVE  /\ tx[t].outcome = "ok" =>
                             LET a == tx[t].answer IN
                             a \in 1 .. t /\ tx[a].applied > 0 /\ (a = t \/ tx[a].outcome # "open")
                        /\ tx[t].outcome = "refused" => tx[t].applied = 0
      BY DEF OkMeansExecuted
    <2>1. tx[t].outcome = "ok" => Came(tx[t].answer, t)
      BY DEF AnswersInv, OkCame
    <2>2. ASSUME tx[t].outcome = "refused"
          PROVE  ~Started(t)
      <3>1. \A w \in Workers : Unanswered(w) => tx[worker[w].tx].outcome = "open"
        BY DEF AnswersInv, ServiceInv, OutcomesKnown
      <3> QED BY <2>2, <3>1 DEF Started, IsTold, Told
    <2>3. Executed(t) => Started(t)
      BY DEF AnswersInv, RequestsStarted, ExecutedTx
    <2>4. tx[t].applied \in 0 .. MaxCopies
      BY DEF AnswersInv, ServiceInv, TableInv, TypeInv, TypeOK, Transaction
    <2> QED BY <2>1, <2>2, <2>3, <2>4, BoundsAssumption DEF Came, Executed, IsTold, Told, Tx
  <1> QED BY <1>1, InitAnswers, AnswersStep, PTL DEF Spec
=============================================================================
