------------------------------ MODULE CanDevice ------------------------------
(***************************************************************************)
(* Attribute transactions between the controller and the units on the CAN  *)
(* bus: CanDevice::ReadAttribute, WriteAttribute, CanWorkThread and        *)
(* ResponseRecievedEvent (iValuableController/CanDevice.cpp), the commands *)
(* that call them (NetworkEngine.cpp) and the single response buffer with  *)
(* which a unit answers (iValuableUnit/main.cpp).                          *)
(*                                                                         *)
(* Four kinds of actors run interleaved: the net thread, which executes    *)
(* server commands one after the other; the worker threads it creates, one *)
(* for each transaction; the CAN poll thread, which delivers responses;    *)
(* and, on each unit, the CAN interrupt and the main loop.                 *)
(*                                                                         *)
(* A request, a response and a buffered entry are all represented by the   *)
(* number of the transaction that caused them: it determines the device,   *)
(* the attribute and the direction, which is all the code looks at.        *)
(***************************************************************************)
EXTENDS Integers, Sequences, FiniteSets

CONSTANTS
  Devices,     \* CAN device ids
  Attrs,       \* object dictionary indices
  Workers,     \* ids of the worker threads (RTX task blocks, reused)
  NoWorker,    \* SyncTable.end()
  NoKey,       \* the key of a transaction that has not begun
  Permits,     \* osSemaphoreCreate(..., 4)
  Tries,       \* tryCount: how often a request is sent
  WriteWaits,  \* count: how often a write looks at a taken attribute
  MaxTx,       \* bound: transactions in one behaviour
  MaxBus,      \* bound: responses on their way to the controller
  MaxCopies,   \* bound: how often a request arrives at its unit
  MaxItems     \* bound: items of one SetInventoryInfo command

ASSUME PermitsAssumption == Permits \in Nat /\ Permits > 0
ASSUME WorkersAssumption ==
  /\ IsFiniteSet(Workers)
  /\ Cardinality(Workers) >= Permits
  /\ NoWorker \notin Workers
ASSUME BoundsAssumption ==
  /\ Tries \in Nat /\ Tries > 0
  /\ WriteWaits \in Nat /\ WriteWaits > 0
  /\ MaxTx \in Nat /\ MaxBus \in Nat /\ MaxCopies \in Nat /\ MaxItems \in Nat

Tx == 1 .. MaxTx
NoTx == 0
Keys == Devices \X Attrs
ASSUME KeysAssumption == NoKey \notin Keys

VARIABLES
  net,          \* the net thread: where it is, the call at hand, the next number
  SyncTable,    \* worker registered for each (device, attribute)
  permits,      \* the counting semaphore
  worker,       \* the worker threads
  EntryBuffer,  \* last response of each device
  poll,         \* worker the CAN poll thread is about to signal, or NoWorker
  heard,        \* the response for which it does (history)
  reqBus,       \* requests sent to each device: any may arrive, at any time
  rspBus,       \* responses on their way to the controller
  unit,         \* the response a unit has yet to send: res while ResponseTriggered
  tx            \* each transaction: what it is, and what became of it (history)

vars == <<net, SyncTable, permits, worker, EntryBuffer, poll, heard, reqBus, rspBus, unit, tx>>
busVars == <<reqBus, rspBus, unit>>
pollVars == <<poll, heard>>

Outcomes == {"none", "open", "ok", "failed", "data", "empty", "refused"}

NetThread == [pc: {"idle", "check", "delay", "semaphore"}, tx: Tx \cup {NoTx},
              count: 0 .. WriteWaits, left: Nat, next: 1 .. MaxTx + 1]
(* sig, got: the response it was signalled for, and has seen the signal    *)
(* of; to the code both are flags.                                         *)
WorkThread == [pc: {"free", "send", "wait", "report", "reset", "erase", "release"},
               tx: Tx \cup {NoTx}, tries: 0 .. Tries, sig: Tx \cup {NoTx}, got: Tx \cup {NoTx}]
Transaction == [key: Keys \cup {NoKey}, write: BOOLEAN, applied: 0 .. MaxCopies,
                outcome: Outcomes, answer: Tx \cup {NoTx}]

Idle == [pc |-> "free", tx |-> NoTx, tries |-> 0, sig |-> NoTx, got |-> NoTx]

TypeOK ==
  /\ net \in NetThread
  /\ SyncTable \in [Keys -> Workers \cup {NoWorker}]
  /\ permits \in Int
  /\ worker \in [Workers -> WorkThread]
  /\ EntryBuffer \in [Devices -> Tx \cup {NoTx}]
  /\ poll \in Workers \cup {NoWorker}
  /\ heard \in Tx \cup {NoTx}
  /\ reqBus \in [Devices -> SUBSET Tx]
  /\ rspBus \in Seq(Tx)
  /\ unit \in [Devices -> Tx \cup {NoTx}]
  /\ tx \in [Tx -> Transaction]

Init ==
  /\ net = [pc |-> "idle", tx |-> NoTx, count |-> 0, left |-> 0, next |-> 1]
  /\ SyncTable = [k \in Keys |-> NoWorker]
  /\ permits = Permits
  /\ worker = [w \in Workers |-> Idle]
  /\ EntryBuffer = [d \in Devices |-> NoTx]
  /\ poll = NoWorker
  /\ heard = NoTx
  /\ reqBus = [d \in Devices |-> {}]
  /\ rspBus = <<>>
  /\ unit = [d \in Devices |-> NoTx]
  /\ tx = [t \in Tx |-> [key |-> NoKey, write |-> FALSE, applied |-> 0,
                         outcome |-> "none", answer |-> NoTx]]

----------------------------------------------------------------------------
(* The net thread: TcpClientCommandArrival runs one command to its end.    *)

(* A call of ReadAttribute or WriteAttribute for key k begins; told is the *)
(* history until then.                                                     *)
BeginCall(k, write, left, told) ==
  /\ net' = [pc |-> "check", tx |-> net.next, count |-> WriteWaits, left |-> left,
             next |-> net.next + 1]
  /\ tx' = [told EXCEPT ![net.next].key = k, ![net.next].write = write,
                        ![net.next].outcome = "open"]

(* A server command arrives: a query, a single write, or SetInventoryInfo  *)
(* with several items, each written to the same attribute.                 *)
Command(k, write, items) ==
  /\ net.pc = "idle"
  /\ net.next + items - 1 \in Tx
  /\ ~write => items = 1
  /\ BeginCall(k, write, items - 1, tx)
  /\ UNCHANGED <<SyncTable, permits, worker, EntryBuffer, pollVars, busVars>>

(* The call at hand has returned: the next item of the command follows or, *)
(* after the last one, the net thread is free.                             *)
CallReturns(told) ==
  \/ /\ net.left > 0
     /\ BeginCall(tx[net.tx].key, TRUE, net.left - 1, told)
  \/ /\ net.left = 0
     /\ net' = [net EXCEPT !.pc = "idle", !.tx = NoTx]
     /\ tx' = told

Taken(k) == SyncTable[k] # NoWorker
Wanted == tx[net.tx].key

(* WriteAttribute finds the attribute taken and delays.                    *)
WriteDelays ==
  /\ net.pc = "check" /\ Taken(Wanted)
  /\ tx[net.tx].write /\ net.count > 1
  /\ net' = [net EXCEPT !.pc = "delay", !.count = @ - 1]
  /\ UNCHANGED <<SyncTable, permits, worker, EntryBuffer, pollVars, busVars, tx>>

DelayEnds ==
  /\ net.pc = "delay"
  /\ net' = [net EXCEPT !.pc = "check"]
  /\ UNCHANGED <<SyncTable, permits, worker, EntryBuffer, pollVars, busVars, tx>>

(* The attribute is taken: a read is refused at once, a write when it has  *)
(* looked WriteWaits times. Nothing is sent.                               *)
Refused ==
  /\ net.pc = "check" /\ Taken(Wanted)
  /\ tx[net.tx].write => net.count <= 1
  /\ CallReturns([tx EXCEPT ![net.tx].outcome = "refused"])
  /\ UNCHANGED <<SyncTable, permits, worker, EntryBuffer, pollVars, busVars>>

(* Faulty variant: the look at the table forgotten.                        *)
AdmitTaken ==
  /\ net.pc = "check"
  /\ net' = [net EXCEPT !.pc = "semaphore"]
  /\ UNCHANGED <<SyncTable, permits, worker, EntryBuffer, pollVars, busVars, tx>>

(* The attribute is free: on to osSemaphoreWait. The table is not looked   *)
(* at again.                                                               *)
Admit ==
  /\ net.pc = "check" /\ ~Taken(Wanted)
  /\ net' = [net EXCEPT !.pc = "semaphore"]
  /\ UNCHANGED <<SyncTable, permits, worker, EntryBuffer, pollVars, busVars, tx>>

(* A permit is there: create the worker, record it, let it go. The worker  *)
(* waits for signal 0x100, so nobody sees the states in between.           *)
StartWorker(w) ==
  /\ net.pc = "semaphore" /\ permits > 0 /\ worker[w].pc = "free"
  /\ permits' = permits - 1
  /\ SyncTable' = [SyncTable EXCEPT ![Wanted] = w]
  /\ worker' = [worker EXCEPT ![w] =
       [pc |-> "send", tx |-> net.tx, tries |-> Tries, sig |-> NoTx, got |-> NoTx]]
  /\ CallReturns(tx)
  /\ UNCHANGED <<EntryBuffer, pollVars, busVars>>

Net ==
  \/ WriteDelays \/ DelayEnds \/ Refused \/ Admit
  \/ \E w \in Workers : StartWorker(w)

----------------------------------------------------------------------------
(* A worker thread: CanWorkThread from the request to its end.             *)

KeyOf(w) == tx[worker[w].tx].key
DeviceOf(t) == tx[t].key[1]
Goto(w, pc) == worker' = [worker EXCEPT ![w].pc = pc]

(* ex->Request. Nothing is said of when, in which order and how often the  *)
(* request reaches the unit, if it does: CAN_push sends the frame it has   *)
(* just queued before older ones and leaves it in the queue to be sent     *)
(* again; the queue or the bus may lose it; and Transmit tells nobody.     *)
WorkerSends(w) ==
  /\ worker[w].pc = "send"
  /\ worker' = [worker EXCEPT ![w].pc = "wait", ![w].tries = @ - 1]
  /\ reqBus' = [reqBus EXCEPT ![KeyOf(w)[1]] = @ \cup {worker[w].tx}]
  /\ UNCHANGED <<net, SyncTable, permits, EntryBuffer, pollVars, rspBus, unit, tx>>

(* Faulty variant: a signalled worker ends without calling back.           *)
WorkerSkipsReport(w) ==
  /\ worker[w].pc = "wait" /\ worker[w].sig # NoTx
  /\ worker' = [worker EXCEPT ![w] =
       [@ EXCEPT !.pc = "erase", !.sig = NoTx, !.got = worker[w].sig]]
  /\ UNCHANGED <<net, SyncTable, permits, EntryBuffer, pollVars, busVars, tx>>

(* osSignalWait(0xff, SYNC_TIME) returns with the signal.                  *)
WorkerSignalled(w) ==
  /\ worker[w].pc = "wait" /\ worker[w].sig # NoTx
  /\ worker' = [worker EXCEPT ![w] =
       [@ EXCEPT !.pc = "report", !.sig = NoTx, !.got = worker[w].sig]]
  /\ UNCHANGED <<net, SyncTable, permits, EntryBuffer, pollVars, busVars, tx>>

(* Faulty variant: tryCount not looked at.                                 *)
WorkerRetriesForever(w) ==
  /\ worker[w].pc = "wait" /\ worker[w].sig = NoTx
  /\ Goto(w, "send")
  /\ UNCHANGED <<net, SyncTable, permits, EntryBuffer, pollVars, busVars, tx>>

(* It times out: once more, or report. The answer may be on its way.       *)
WorkerTimesOut(w) ==
  /\ worker[w].pc = "wait" /\ worker[w].sig = NoTx
  /\ Goto(w, IF worker[w].tries > 0 THEN "send" ELSE "report")
  /\ UNCHANGED <<net, SyncTable, permits, EntryBuffer, pollVars, busVars, tx>>

(* Faulty variant: result.status is not looked at.                         *)
WorkerReportsOk(w) ==
  /\ worker[w].pc = "report" /\ tx[worker[w].tx].write
  /\ tx' = [tx EXCEPT ![worker[w].tx] = [@ EXCEPT !.outcome = "ok", !.answer = worker[w].got]]
  /\ Goto(w, "erase")
  /\ UNCHANGED <<net, SyncTable, permits, EntryBuffer, pollVars, busVars>>

(* A write tells the server whether a signal came.                         *)
WorkerReportsWrite(w) ==
  /\ worker[w].pc = "report" /\ tx[worker[w].tx].write
  /\ tx' = [tx EXCEPT ![worker[w].tx] =
       [@ EXCEPT !.outcome = IF worker[w].got # NoTx THEN "ok" ELSE "failed",
                 !.answer = worker[w].got]]
  /\ worker' = [worker EXCEPT ![w] = [@ EXCEPT !.pc = "erase", !.got = NoTx]]
  /\ UNCHANGED <<net, SyncTable, permits, EntryBuffer, pollVars, busVars>>

(* A read hands out whatever EntryBuffer holds, and nothing if it is null. *)
WorkerReportsRead(w) ==
  LET held == EntryBuffer[KeyOf(w)[1]] IN
  /\ worker[w].pc = "report" /\ ~tx[worker[w].tx].write
  /\ tx' = [tx EXCEPT ![worker[w].tx] =
       [@ EXCEPT !.outcome = IF held # NoTx THEN "data" ELSE "empty", !.answer = held]]
  /\ worker' = [worker EXCEPT ![w] =
       [@ EXCEPT !.pc = IF held # NoTx THEN "reset" ELSE "erase", !.got = NoTx]]
  /\ UNCHANGED <<net, SyncTable, permits, EntryBuffer, pollVars, busVars>>

(* EntryBuffer.reset(), after the callback.                                *)
WorkerResets(w) ==
  /\ worker[w].pc = "reset"
  /\ EntryBuffer' = [EntryBuffer EXCEPT ![KeyOf(w)[1]] = NoTx]
  /\ Goto(w, "erase")
  /\ UNCHANGED <<net, SyncTable, permits, pollVars, busVars, tx>>

(* SyncTable.erase(key), by key, whoever is registered there.              *)
WorkerErases(w) ==
  /\ worker[w].pc = "erase"
  /\ SyncTable' = [SyncTable EXCEPT ![KeyOf(w)] = NoWorker]
  /\ Goto(w, "release")
  /\ UNCHANGED <<net, permits, EntryBuffer, pollVars, busVars, tx>>

(* Faulty variant: the permit is not given back.                           *)
WorkerKeepsPermit(w) ==
  /\ worker[w].pc = "release"
  /\ worker' = [worker EXCEPT ![w] = Idle]
  /\ UNCHANGED <<net, SyncTable, permits, EntryBuffer, pollVars, busVars, tx>>

(* osSemaphoreRelease, and the thread ends: its id may be used again.      *)
WorkerEnds(w) ==
  /\ worker[w].pc = "release"
  /\ permits' = permits + 1
  /\ worker' = [worker EXCEPT ![w] = Idle]
  /\ UNCHANGED <<net, SyncTable, EntryBuffer, pollVars, busVars, tx>>

Worker(w) ==
  \/ WorkerSends(w) \/ WorkerSignalled(w) \/ WorkerTimesOut(w)
  \/ WorkerReportsWrite(w) \/ WorkerReportsRead(w) \/ WorkerResets(w)
  \/ WorkerErases(w) \/ WorkerEnds(w)

----------------------------------------------------------------------------
(* The CAN poll thread: Poll, MessageReceiver, ResponseRecievedEvent.      *)

(* The response's attribute has no transaction: it is dropped.             *)
PollIgnores ==
  /\ poll = NoWorker /\ rspBus # <<>>
  /\ ~Taken(tx[Head(rspBus)].key)
  /\ rspBus' = Tail(rspBus)
  /\ UNCHANGED <<net, SyncTable, permits, worker, EntryBuffer, pollVars, reqBus, unit, tx>>

(* It has one: EntryBuffer = entry.                                        *)
PollStores ==
  LET t == Head(rspBus) IN
  /\ poll = NoWorker /\ rspBus # <<>>
  /\ Taken(tx[t].key)
  /\ EntryBuffer' = [EntryBuffer EXCEPT ![DeviceOf(t)] = t]
  /\ poll' = SyncTable[tx[t].key] /\ heard' = t
  /\ rspBus' = Tail(rspBus)
  /\ UNCHANGED <<net, SyncTable, permits, worker, reqBus, unit, tx>>

(* osSignalSet(it->second, 0xff): the transaction may have ended since,    *)
(* and its thread id may belong to another one.                            *)
PollSignals ==
  /\ poll # NoWorker
  /\ worker' = IF worker[poll].pc = "free" THEN worker
                                           ELSE [worker EXCEPT ![poll].sig = heard]
  /\ poll' = NoWorker /\ heard' = NoTx
  /\ UNCHANGED <<net, SyncTable, permits, EntryBuffer, busVars, tx>>

Poll == PollIgnores \/ PollStores \/ PollSignals

----------------------------------------------------------------------------
(* The bus and the units.                                                  *)

(* CAN interrupt: a request is executed, perhaps once more, and the one    *)
(* response buffer is filled, whatever it held. Not only the driver repeats*)
(* a request: CAN_rx keeps an entry it has handed over, and hands it over  *)
(* again with every further segment.                                       *)
UnitReceives(d) ==
  \E t \in reqBus[d] :
    /\ tx[t].applied < MaxCopies
    /\ tx' = [tx EXCEPT ![t].applied = @ + 1]
    /\ unit' = [unit EXCEPT ![d] = t]
    /\ UNCHANGED <<net, SyncTable, permits, worker, EntryBuffer, pollVars, reqBus, rspBus>>

(* Main loop: the response is sent and ResponseTriggered cleared. It may   *)
(* be lost: CANSend drops it when the bus is in error, and the clear, which*)
(* follows the send, wipes a response the interrupt filled in between.     *)
UnitSends(d) ==
  /\ unit[d] # NoTx
  /\ unit' = [unit EXCEPT ![d] = NoTx]
  /\ \/ Len(rspBus) < MaxBus /\ rspBus' = Append(rspBus, unit[d])
     \/ UNCHANGED rspBus
  /\ UNCHANGED <<net, SyncTable, permits, worker, EntryBuffer, pollVars, reqBus, tx>>

Unit(d) == UnitReceives(d) \/ UnitSends(d)

----------------------------------------------------------------------------
Next ==
  \/ \E k \in Keys, write \in BOOLEAN, items \in 1 .. MaxItems : Command(k, write, items)
  \/ Net
  \/ \E w \in Workers : Worker(w)
  \/ Poll
  \/ \E d \in Devices : Unit(d)

(* Threads of equal priority under round robin: each that can run does.    *)
(* The server, the bus and the units owe nothing.                          *)
Fairness ==
  /\ WF_vars(Net)
  /\ \A w \in Workers : WF_vars(Worker(w))
  /\ WF_vars(Poll)

Spec == Init /\ [][Next]_vars
FairSpec == Spec /\ Fairness

----------------------------------------------------------------------------
(* Properties.                                                             *)

Registered(w) == worker[w].pc \notin {"free", "release"}

(* The table and the threads agree: the workers registered in SyncTable    *)
(* are exactly those that have not yet erased their entry, each under its  *)
(* own key. So no two threads ever run a transaction on one attribute,     *)
(* though ReadAttribute and WriteAttribute look at the table before they   *)
(* wait for the semaphore, and insert after it; and an erase by key never  *)
(* removes another thread's entry.                                         *)
TableMatchesWorkers ==
  /\ \A w \in Workers : Registered(w) => SyncTable[KeyOf(w)] = w
  /\ \A k \in Keys : Taken(k) => Registered(SyncTable[k]) /\ KeyOf(SyncTable[k]) = k

(* Every permit is in the semaphore or held by exactly one living worker:  *)
(* none is lost on a timeout or given back twice, so the net thread, which *)
(* waits for one without a limit, cannot be starved of them.               *)
PermitsConserved ==
  permits + Cardinality({w \in Workers : worker[w].pc # "free"}) = Permits

(* What a server is told of a write: "ok" only upon a response to a request *)
(* that a unit has executed. It is the write itself or an earlier request, *)
(* whose own caller had been told by then: nobody is told twice of a       *)
(* response somebody still waits for, though responses come late, requests *)
(* more than once and in any order, and thread ids are reused. And what    *)
(* was refused is never executed.                                          *)
OkMeansExecuted ==
  \A t \in Tx :
    /\ tx[t].outcome = "ok" =>
         LET a == tx[t].answer IN
         a \in 1 .. t /\ tx[a].applied > 0 /\ (a = t \/ tx[a].outcome # "open")
    /\ tx[t].outcome = "refused" => tx[t].applied = 0

(* Every call of ReadAttribute and WriteAttribute is answered: the worker  *)
(* stops retrying, and the net thread is neither stuck in WriteAttribute's *)
(* loop nor on the semaphore. Losing every frame does not prevent it.      *)
EveryCallAnswered ==
  \A t \in Tx : tx[t].outcome = "open" ~> tx[t].outcome # "open"

(* CanDevice implements the attribute service it offers its callers.       *)
Service == INSTANCE AttributeService WITH
  Slots <- Permits,
  owner <- [k \in Keys |-> IF Taken(k) THEN worker[SyncTable[k]].tx ELSE NoTx],
  result <- [t \in Tx |-> IF tx[t].outcome \in {"none", "open"} THEN "pending"
                                                                ELSE tx[t].outcome]
ImplementsService == Service!Spec

(* "Wait for response" (CanDevice.cpp:61): the answer a read hands out, to *)
(* be decoded as its attribute's value, is a response to a read of that    *)
(* attribute.                                                              *)
ReadAnswersItsAttribute ==
  \A t \in Tx : tx[t].outcome = "data" =>
    tx[tx[t].answer].key = tx[t].key /\ ~tx[tx[t].answer].write
=============================================================================
