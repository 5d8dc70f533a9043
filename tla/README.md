# iValuable: TLA+ models, checks and proofs

iValuable is the firmware of a cabinet of storage units. A controller (STM32, CMSIS-RTOS
RTX, `src/iValuableController/`) talks to a server over TCP, to the units over CAN, to a
configuration tool over a serial line, and to a CAN programming bridge over another. A unit
(LPC11C24, `src/iValuableUnit/`) has scales, a display, a door with an electric lock and,
in one type, a card reader. The bridge (`src/iValuableISP/`) programs the flash of units
that are in ISP mode. A tool on a PC (`src/FWUpdater/`) uploads their firmware files.

The repository has no design document: what the code is meant to do is taken from the code,
its names and its comments. Each module below names the functions it translates;
`PROJECT.json` maps every definition to its lines.

## Inventory

| Component | State | Operations | What is hard about it | What makes it correct | Modelled in |
|---|---|---|---|---|---|
| CAN attribute transactions (`CanDevice.cpp`) | `SyncTable`, semaphore of 4, `EntryBuffer` of each device | `ReadAttribute`, `WriteAttribute`, `CanWorkThread`, `ResponseRecievedEvent` | Threads share the table without a lock; answers may come after the timeout; requests are sent up to 3 times; thread ids are reused | One transaction on an attribute; no permit lost; each call answered; an answer belongs to its call | CanDevice, AttributeService |
| Server commands (`NetworkEngine.cpp`) | none of its own | `TcpClientCommandArrival`, responses, reports | Runs on the net thread and blocks it; several writes in one command | Each command is answered for what happened | CanDevice, DoorStatus, CardReport (in part) |
| CAN transport (`CanEx.cpp`) | partial entries (`rxTable`), devices | `Transmit`, `Poll`, `Sync`, `Request` | Segments of several senders and of retries | A complete entry is one that was sent | RequestPath, UnitCan |
| CAN driver (`Driver_CAN.c`, `CAN_STM32F40x.c`, the HAL) | mail queues, semaphore, the HAL's handle and lock | `CAN_push`, `CAN_pull`, `CAN1_Receive`, interrupt | The interrupt comes while a thread is in the HAL, and changes the same state | Each frame sent once; no mail lost; reception goes on | CanDriver |
| Units and groups (`UnitManager`, `StorageUnit`) | `unitList`, `groupList` with a `LockGroup` each | `Add`, `Recover`, `OnDoorChanged`, `Traversal` | CAN poll thread against Traversal thread | The server is told the doors' state | DoorStatus |
| Heartbeats (`main.cpp` of both) | the unit's `Connected`, `Registered` | `HeartbeatArrival`, `CanexSyncTrigger`, `TIMER32_0` | The answer is a toggle, frames are lost, both sides restart | A silent unit is one the controller knows | DoorStatus |
| Cards (`RfidProcessor`, `RfidUnit`) | the card last seen; its report, pending or sent | `UpdateRfid`, `RfidChanged`, `SendRfidData` | Two sides, two threads, a mark that is cleared | The server knows the card | CardReport |
| Lock and door of a unit (`iValuableUnit/main.cpp`) | pin, `LockCount`, `DoorState` | `OP_LOCKER`, `TIMER32_0`, `TIMER32_1` | Three interrupts | A lock is not left on | LockTimer |
| CAN on the unit (`canonchip.c`) | message slots, `tx_count`, `rxEntry` | `CANTransmit`, `CANSend`, `CAN_rx`, `CAN_tx` | Main loop against interrupts | Each entry is sent; the main loop goes on | UnitCan, RequestPath |
| Unit data (`DataProcessor`, `fram`) | RAM copy and FRAM | setters, the start | Interrupt in the middle of a transaction of the bus; power failure | What is read back is what was set | UnitStore |
| Display texts (`SuppliesDisplay`, `iap`) | two flash sectors | `ModifyString`, `DeleteString` | Power failure at each operation of the flash | A name is never lost by changing another | NameFlash |
| Notices (`NoticeLogic`) | state of the bar | `NoticeUpdate` | Re-entrance from the interrupt | The bar shows what holds | NoticeBar |
| TCP client (`TcpClient.cpp`) | mail queues and pools, semaphore, socket, `conn`, `ack`, parser | `SendData`, `AbortConnection` on any thread; `TcpProcessor`, `TxProcessor`, `DataReceiver` on the net thread | A thread that finds no buffer empties the queue and takes the socket away; pieces are dropped after TCP has acknowledged them | Buffers and permits agree; senders return; commands come in order | TcpClient, TcpReceive |
| Configuration line (`UartComm`, `ConfigComm`, the USART's DMA) | ring of the DMA, `head`, `tail`, parser | interrupt of a full buffer, thread | `tail` changes under the thread; two threads send | Commands come whole; messages go out whole | UartLine, LineSend |
| Settings (`NetworkConfig`, `System.c`) | user sector and its backup | setters, start | Power failure; changes during the start | A setting lasts | UserFlash |
| Firmware files (`UnitManager::CommandArrival`, `FWUpdater`) | slots, tags, CRC, the tool's place | Access, WriteInfo, Write; `SendFile` | Retries, late answers, a restart between | A slot that is ready holds a whole file | FileSlots |
| Firmware update, controller (`UnitManager`, `ISPProgram`) and bridge | `updating`, `MsgId`, the bridge's `page`, flash | `UpdateOne`, `FindDevice`, `Format`, `ProgramData`, `RestartDevice`; `handleUartReceFrame` | Timeouts on both sides of the line, late answers, units left in ISP mode | The flash holds the image before the unit is restarted; updates end | FirmwareUpdate |
| SDO transfers of the bridge (`iValuableISP/main.c`, `canonchip.c`) | `CANopen_SDOC_State`, `CANopen_SDOC_BuffCount`, the last message received | `CANopen_SDOC_Exp_ReadWrite`, `ispSegmentDown`, `repeatISPDataSend`; interrupt, timer | One state for main loop, interrupt and timer; lost and late answers | What is answered is done; every command is answered | SdoClient, BridgeService |
| Sensors; BSON; emergency switch | filters; none; none | | Sequential or numeric | | not modelled |

How they interact: the net thread runs the TCP stack and every server command; a command calls
`ReadAttribute` or `WriteAttribute`, which start a worker thread; workers and the net thread
send CAN frames; the CAN poll thread delivers what arrives (responses to workers, door reports
to the groups, cards to `RfidUnit`, heartbeats to `HeartbeatArrival`) and sends what the
driver has queued; the Traversal thread reads the groups and cards and calls `SendData`. The
thread of the configuration line changes settings and file slots, and starts the update
thread, which reads them. All threads have the same priority and are scheduled round robin
(`OS_ROBIN`, `OS_TICK` 1000), so any two steps may be interleaved. On a unit, a CAN interrupt
and two timer interrupts, which do not nest, interleave with one main loop. The interrupts of
the controller's CAN cell have one priority and do not nest either.

`PROJECT.json` lists the hazards at their lines, with the properties that are about them. Seven
have none, and their notes say why: data races inside C++ containers and the lifetime of
replaced objects (below the level of these models), the answer to a command of several items
(always "true", evidently), and four which the code does not withstand and the models contain: a
controller that restarts while units are connected, a reconnection that Traversal does not see,
a unit's response that is overwritten, and the quantity that `SetQuantity` misplaces. For others the
code does go wrong in one way and the property excepts it by name; the note of such a hazard says
what is excepted, and the property that nothing else goes wrong (see *Further results*).

## Plan

| | Module | State |
|---|---|---|
| 1 | `CanDevice` and its abstract specification `AttributeService` | done; refinement proved |
| 2 | `DoorStatus`: handshake, groups, Traversal | done, proved |
| 3 | `LockTimer`: the lock | done, proved |
| 4 | `TcpClient`: the sending half | done, proved |
| 5 | `FirmwareUpdate`: update thread, bridge, units | done, proved |
| 6 | `UnitCan` (unit's sending, controller's reassembly), `RequestPath` (controller's sending through the driver, unit's reassembly) | done, proved |
| 7 | `CanDriver`: driver and HAL | done, proved |
| 8 | `CardReport`, `TcpReceive` | done, proved |
| 9 | `UnitStore`, `NameFlash`, `UserFlash`, `NoticeBar`; then `UartLine`, `LineSend`, `FileSlots` | done, proved |
| 10 | Step simulation of `AttributeService`, what an answer means | proved |
| 11 | `SdoClient`: the bridge's transfers, and their abstract specification `BridgeService` | done; refinement proved |

## Modules

Each module's VARIABLES carry the code's names where it has them; history and bounds are
marked in their comments. Operators introduced as *faulty variant* are not part of any
specification: they state how a definition could be wrong, and show that the properties notice.

### Transactions and doors

**CanDevice** (`CanDevice.cpp`, `NetworkEngine.cpp`, `iValuableUnit/main.cpp`). The net thread
`net` runs one command at a time; each call of `ReadAttribute`/`WriteAttribute` has a number,
which stands for request, response and buffered entry alike. `Admit` and `StartWorker` are two
steps, since the semaphore is waited for after the table was looked at. `StartWorker` is one
step, since the worker waits for signal 0x100 until the table has its entry. A worker goes
through send, wait, report, reset, erase, release as `CanWorkThread` does; the poll thread
looks at the table, stores and signals in two steps (`PollStores`, `PollSignals`), and
signals the id it found, whoever has it then. Between worker and unit lies the driver, which
may send a request late, before older ones or once more (`CAN_push`), and `CAN_rx` of the unit,
which may hand it over once more: `reqBus` is the set of requests sent, and any of them arrives
at any time, up to `MaxCopies` times, or never (`UnitReceives`). Responses are lost
also after the unit has filled its single response buffer. Signals carry the response they were
sent for (`heard`, `sig`, `got`), which is history. Left out: `busy`, which nothing
reads; the values; memory errors of the unlocked map.

**AttributeService**. What `CanDevice` offers: start, refuse, answer, release. `CanDevice`
implements it (`ImplementsService`) under the mapping `Service`: an attribute's owner is the
transaction of the thread that is registered for it, and a caller's result is the outcome.

**DoorStatus** (`iValuableUnit/main.cpp`, `iValuableController/main.cpp`, `UnitManager.cpp`).
The units of one group. A unit's heartbeats count only from `STATE_OPERATIONAL` on
(`HeartbeatArrival` ignores the others), so `UnitBoots` leads there at once. `SYNC_LIVE` is
a toggle (`SyncArrives`). `rx` keeps the order of the CAN bus. `CheckChanged` is two steps
(`ReadChanged`, `ClearChanged`). The connection is what `IsConnected` returns.

**CardReport** (`RfidProcessor.cpp`, `iValuableUnit/main.cpp`, `RfidUnit.cpp`,
`NetworkEngine.cpp`). `UpdateRfid` and `RfidChanged` in the unit's main loop, the report on
its way, the poll thread that stores it and the Traversal thread that reads, sends and clears
the mark in steps. `inDoubt` is history: the ways a change is lost, each named where it
happens. Unlike doors, cards are not reported again after a reconnection.

### CAN on both sides

**CanDriver** (`Driver_CAN.c`, `CAN_STM32F40x.c`, `stm32f4xx_hal_can.c`). `CAN_push`,
`CAN_pull`, `CAN1_Receive`, `CAN_hw_tx_empty`, `CAN_hw_wr` and the HAL calls under them line by
line where an interrupt matters: the handle's lock and `State`, the enabled interrupts, the
mailboxes, the semaphore, the mail queue and its pool. All calls are made under `CanEx`'s mutex.
The interrupts are atomic, since they do not nest. Two things of the code show in the model: a
thread stores TSR with `|=`, which clears the flags of requests completed in between (so their
end is not reported), and a bus error that comes while a thread is inside the handle's lock
takes a received frame whose interrupt is then not armed again (`blinded`): reception stops. The
semaphore gains a token with each poll.

**RequestPath** EXTENDS `CanDriver`: `CanEx::Transmit` of several threads, which take the mutex
for each frame, through the driver to `CAN_rx` of the unit, whose one `rxEntry` serves all.

**UnitCan** (`iValuableUnit/canonchip.c`, `CanEx.cpp`). `CANTransmit` and `CANSend` in the main
loop and in the timer interrupt, the cell's interrupts, the controller's `MessageReceiver` with
its incomplete entries. `msgSignals` is read, changed and written in separate steps. What
can happen to a frame is history (`faults`): dropped with an error on the bus, overwritten,
overtaken, reset, lost, or a response overwritten while it is sent. A heartbeat that finds all
slots busy spins in the interrupt (`hung`); heartbeats decrement `tx_count` when sent.

### The unit

**LockTimer** (`iValuableUnit/main.cpp`). The pin, `LockCount`, the door and its sample.
`Timer0` is a millisecond, `Timer1` comes after `Period` of them; commands and door movements
come in between at any time. Ticks lost in long interrupts are left out.

**UnitStore** (`DataProcessor.cpp`, `fram.cpp`, `ssp.c`, `main.cpp`) EXTENDS `Supplies`, the
places of a unit. `WriteMemory` of the main loop goes WREN, select, data, deselect, and the CAN
interrupt with its own writes may come between any two; the power may be cut at each. `doubt` is
history: the regions in which something is known to go wrong. `SetQuantity` writes the bytes of
the supplies entry where the quantity belongs (`DataProcessor.cpp:288`), which the model does
too, so `StoreKept` speaks of the card and the supplies only.

**NameFlash** (`SuppliesDisplay.cpp`, `iap.c`) EXTENDS `Supplies`. A step is an erasure or the
programming of a page; a power failure leaves the pages of a step garbled.

**NoticeBar** (`NoticeLogic.cpp`, `display.cpp`, `DataProcessor.cpp`, `iValuableUnit/main.cpp`).
`NoticeUpdate` and `DisplayOnOff` of the main loop step by step, and at any point of them
`NoticeUpdate` in the CAN interrupt and `UpdateDisplay` in the timer interrupt, which draws
the texts above the bar and may leave a colour of theirs as the background (`ShowFormatString`
returns without `ResetColor` at the end of the screen). All of them put their
commands together in one array of bytes and send them on one UART. When an interrupt draws while
the main loop sends a command, the model lets the display show anything afterwards (`Mixed`), and
`disturbed` and `unsure` keep record of it. Left out: a display that restarts, after which the texts
are drawn again and the bar is not; the texts themselves.

### The server's stream, the PC's line, the controller's flash

**TcpClient** (`TcpClient.cpp`). Each thread is at a place of `SendData`, `AbortConnection` or,
for the net thread, `TcpProcessor`. The queue, the pool and the semaphore are counters, taken
and given back in separate steps as in the code. The TCP stack is external: it changes the
socket only in `net_main`, which the net thread calls (`main.cpp:240-245`). `txCount` decides
nothing and is left out.

**TcpReceive** (`TcpClient.cpp`). `tcp_cb_func` copies a piece of the stream into a mail, or drops
it; `DataReceiver` parses one mail, with a state that outlives the connection (`Parsed`, byte by
byte). The sums are those of the code modulo 8 (`CheckSum`), and a length is one byte. A byte
carries its number and of which command it is, the how manieth, which only the histories look at.

**UartLine** (`USART_STM32F4xx.c`, `UartComm.cpp`, `ConfigComm.cpp`). The DMA, the interrupt at
the end of its buffer, the thread between each two of its accesses to `tail` and the counter,
the parser. Assumed: the interrupt is served within one byte's time. `sent` keeps what the PC
has sent, and `number` is how much of it has come. The sum of a command of a file is that of
`CheckSum`.

**LineSend** (`UartComm.cpp`, `ConfigComm.cpp`). Two threads that each wait for the line and
hand a part to the DMA; a part handed while the DMA works is refused, and nobody looks.

**UserFlash** (`NetworkConfig.cpp`, `System.c`). `PrepareWriteFlash` by operations of the flash,
the setters, the start. The backup is never read at the start, and the code writes the
library's `localm` to the flash even if the library has not yet got it (`early`).

**FileSlots** (`UnitManager.cpp`, `System.c`, `FWUpdater/Program.cs`, `SerialComm.cs`). The tool,
the line with losses and late answers, the controller's handler and its restarts, and the
thread that reads a slot for `FirmwareUpdate`. Words are programmed once after an erasure.

**FirmwareUpdate** (`UnitManager.cpp`, `ISPProgram.cpp`, `iValuableISP/main.c`,
`iValuableISP/canonchip.c`). The update thread sends a command, waits, and goes on or gives up;
the bridge reads a frame, does the SDO transfers it consists of, and answers. A transfer whose
answer is lost costs one SDO timeout (`slow`), which is as long as the controller waits for
all commands but `Format`; `TransferLost` and `WaitRunsOut` model that race. A command without a
lost transfer is answered in time. A lost segment makes the bridge hang or is not noticed
(`SegmentLost`), an erase or a copy whose answer is lost is refused when it is repeated
(`TransferRefused`); a few of the bridge's error messages have a wrong checksum and are never
seen (`Fail`, `SegmentGivenUp`). The page number the
controller sends is not looked at by the bridge, which counts pages itself (`page`). Left out:
frames garbled on the line (so the bridge never answers `SLAVE_CHECKSUM_ERROR`), units of
different types, a second update thread. The wait of `Format` (500 ms) runs out after three SDO
timeouts of 200 ms; that it may run out sooner because the erasure itself takes long is left out.

**SdoClient** (`iValuableISP/main.c`, `canonchip.c`). The same bridge one level below: the
transfers of each command (`Transfers`), the state they share with the interrupt (`Receive`) and
the timer (`TimeOut`), their repetition, and the segments of a page (`SegmentDown`, `Repeat`).
What the bridge promises is `BridgeService`: a command takes effect at most once while it is
under way, also when it is reported as failed; a page goes to the place after the last one
acknowledged, whole if that was blank; "ok" comes only after the effect. SdoClient implements it until
something happens that the bridge cannot notice (`Promise`): `TakenEffect` maps the step of the
command and what is left of the unit's preparation to "it has taken effect". The outcomes
FirmwareUpdate gives a command are taken from what TLC finds here, late answers
excepted; that one is not a checked refinement. Histories record which segments timed out (`missed`,
`skipped`). `CAN_rx` receives through a pointer that is never set: it is taken to point to memory
nobody else uses. The unit's boot loader is external; what it does (`Served`) is what the code
relies on. Left out: the transceiver, the reset of the cell after bus errors, and the timer that
switches the transceiver off after a long silence.

### Instances

`MCCanDevice`, `MCCanDriver`, `MCDoorStatus` and `MCTcpClient` give the constants their values.
`MCUnit`, `MCHost`, `MCTraffic` and `MCFirmwareUpdate` bring together parts that share no
state: each behaviour runs one part and leaves the others as they began. Side by side the parts
would only multiply each other's states, with nothing new for any property.

## Runs

| Run | Instance | What it shows |
|---|---|---|
| CanDevice | 1 device, 2 attributes, 2 workers, 2 permits, 1 try, 3 transactions, each request arriving once or never, 1 response on the way, symmetry; 1.2M states | `TableMatchesWorkers`, `PermitsConserved`, and that CanDevice implements AttributeService |
| CanDeviceLive | 1 permit, 2 tries, 2 transactions, each request arriving up to 3 times, no symmetry; 661k | `OkMeansExecuted`; `EveryCallAnswered`, although nothing guarantees that a frame arrives |
| CanDeviceStale | as CanDevice | `ReadAnswersItsAttribute` is violated |
| DoorStatus | 2 units, 2 unit starts, 1 door movement, 1 frame on the way, 1 heartbeat at a time, 2 disturbances; 167k | `RegisteredMeansKnown`, `OpenIsAnyLock`, `HandshakeEnds`, `ReportedAfterReconnect` |
| DoorMissing | 2 units, 2 unit starts, 1 door movement, 2 frames, 2 heartbeats before an answer | `NothingMissing` is violated |
| TcpClient | 2 senders and the net thread, 2 buffers, messages of 1 or 2 segments, 4 calls; 171k | `BuffersConserved`, `SendReturns` |
| TcpReset | 1 sender, 1 buffer, 3 calls | `ConnectionReset` is violated |
| FirmwareUpdate | commands: 2 units, 2 pages, 2 tries, 2 updates, 1 lost transfer or segment, queue of 2; transfers: 2 commands, 5 segments, 3 tries, 2 messages lost, 1 late; 554k | `CleanMeansImage`, `UpdateEnds`; `BridgeComesBack`, and that SdoClient implements BridgeService (`PromiseKept`, of which `ReplyMeansDone` is a part) |
| CanDriver | a sender and the poller, 2 mails, 2 mailboxes, 4 frames, 2 arrivals, 1 bus error; 683k | `OneCopyUnlessThrown`, `PoolMatchesQueue`, `ReceptionArmed`, `BusyMeansInterrupt`, `QueueDrains` |
| Traffic | requests: 2 threads, 6 frames, 2 mailboxes, 2 mails, 1 bus error; reports: 2 cards, 1 report on the way; 7.4M | `HandedOver`, `ServerKnowsCard` |
| Unit | CAN: 3 entries, 2 of them segmented, 2 slots, 1 heartbeat, 1 bus error, 1 loss; lock: 5 ms and a period of 3 ms; data and names: 3 places, 2 cards, 2 names, 1 power failure each; 4 notices; 2.1M | `WholeEntries`, `OnlyBeatsInterfere`, `TransmitReturns`, `OnTimeBounded`, `OpenMeansOff`, `StoreKept`, `NamesShown`, `OneSectorHolds`, `NoticeShown` |
| Host | stream: 3 frames, 2 buffers, 2 connections; line: buffer of 5 bytes, 3 requests, 3 messages of 2 threads; settings: 2 changes, 1 power failure, 3 starts; files: 3 files of 12, 8 and 7 bytes, 2 slots, 2 uploads, 1 update, 1 late answer, 1 loss, 1 restart; 4.0M | `CommandsInStep`, `LineHanded`, `SentWhole`, `SettingsKept`, `IdentityLeft`, `ReadyIsWhole`, `PassMeansFile`, `CleanUploads`, `UpdateReadsFile` |

The type invariants are proved for the modules with proofs, and were seen to hold with TLC for
the others; the runs do not repeat them.

Why the bounds are enough. CanDevice: two workers are two transactions at once, and the third
transaction meets both a reused thread and a late answer of the first; a device has its own
buffer and unit, so that one is enough; two attributes are needed for answers to be mixed up.
CanDeviceLive: a request that arrives three times is executed more often than it is sent, and
after its transaction has ended.
DoorStatus: two units are needed for one lock to be open while another closes; a second start
meets answers to the first. `MaxDisturbances` counts starts of units
and door movements together: both units start, or one starts twice, or one and a door moves.
TcpClient: with two buffers a message of two segments takes all of
them, and two senders fight for the second. FirmwareUpdate: two units are needed for one that is
left in ISP mode while the other is updated; two pages for a page that is written to the place of
the next; two tries for a command that is sent again. Its transfers: five segments have a first,
a last, one before the last and two between, each of which behaves differently when it is lost, and
the two between can be lost in a row. CanDriver: four frames fill two mailboxes
and two mails, so that the next push meets a full queue; the receive FIFO of one frame meets
an arrival while one waits. Traffic: six frames are an entry of three, one of one and one of two,
so that segments of two threads mix and an entry follows another of the same thread.
Unit: with two slots a segmented entry waits for its own frames; the lock's wait is nearly two
periods, so commands fall before, in and after each sample; with four notices the guide and the
exception each come and go, or one comes again after the other was drawn. Host: a command of a
file has six bytes and the line's buffer five, so it always wraps; the three files end with a
chunk, with a part of a word, and with a chunk too short to be accepted; the sizes of word, chunk and
header are 3, 6 and 6 where the code has 4, 0x100 and 12.

Deadlock is not checked: every counter of starts, calls or losses is bounded, and a system
whose bounds are used up may stop.

### Fairness

The controller's threads have one priority and are scheduled round robin: weak fairness for
each thread (in CanDevice for the net thread, each worker and the poll thread; in DoorStatus
for the poll and Traversal threads; in TcpClient for the net thread and each sender; in
FirmwareUpdate for the update thread and the bridge's main loop; in SdoClient for the main loop,
the interrupt, the timer and the unit that answers, while messages lost and late are bounded). Weak fairness holds for the
disjunction of a thread's steps, never for one of them: no timeout is made to lose a race.
Nothing is assumed of the server, of the units in CanDevice, of SDO answers, or of callers.

CanDriver: weak fairness of the thread in the driver and of the interrupts (hardware serves
them), and that a mailbox that is sent leaves or fails. Strong fairness of `Poll`: the poller
must get the mutex although senders compete for it, which RTX grants, since it queues the
waiting threads. UnitCan: the main loop goes on, the cell sends or fails, interrupts are served.

`HandshakeEnds` needs strong fairness of a unit's heartbeat and of the arrival of `SYNC_LIVE`:
a unit repeats heartbeats for as long as it is not connected, and not all of them, or of the
answers, are lost. It also needs that a unit sends no second heartbeat before the first is
answered (`MaxUnanswered = 1`): heartbeats are an interval apart, answers take milliseconds.
Without it, two answers in a row undo each other. `LimitedSpec` bounds the starts and
movements of the two units together; it stops no action that fairness is stated for.

### What the violations show

- `ReadAnswersItsAttribute`: `EntryBuffer` is one for each device and is not tied to a
  transaction. The answer to a write stays in it, and the next read of any attribute of the
  device that times out hands it out as its value.
- `NothingMissing`: `changed = (open != last)` overwrites a pending change, and `CheckChanged`
  clears what it has not read: the server keeps a stale state until the group changes again.
- `ConnectionReset`: when a sender runs out of buffers while the net thread waits for the
  window, the reset leaves the net thread in `while (!tcp_check_send(NULL))` for ever.

### Further results

Seen with TLC while modelling, and stated by the exceptions the properties name:

- *Restarts of the controller.* With `MaxControllerBoots = 2`, `RegisteredMeansKnown` is violated:
  a controller that restarts while a unit is not connected toggles it to registered, although
  it does not know it, and the unit stays silent.
- *Lock.* A countdown is not restarted by a later unlock command, contrary to the comment
  (`RelocksAfterLastUnlock` of LockTimer). It is what makes `OnTimeBounded` hold however often
  the server unlocks.
- *Update.* One repeated SDO transfer takes as long as `ISP_SYNC_TIME`. The page is sent again,
  the bridge writes the copy as the next page, the late answer acknowledges a page that was never
  written, and the unit is restarted with a broken image marked as updated (`ProgramCompleted`
  of FirmwareUpdate).
- *Bridge.* `ispSegmentDown` goes on after a timeout. The loss of the segment before the last is not
  noticed, nor that of two in a row, after which the toggle fits again: the page is acknowledged and
  is not what was sent (`skipped` of SdoClient). Another lost segment, or a lost
  answer to one, makes the unit abort, and the loop repeats the aborted segment for ever, unless
  its repetitions fail three times in a row (the third counts as failed also if it succeeds). A
  unit that vanishes after it has answered the start of a download is sent the first segment for
  ever. An answer that comes after its timeout may be taken for that of a later transfer (`lates`).
- *Driver.* `CAN_push` with a full hardware throws the oldest queued frame out and sends the newest
  in its place (`QueuedFramesKept` of CanDriver). Its branch for an empty queue is never reached.
- *Requests to a unit.* When segments of two threads are mixed, the unit hands over an entry
  composed of both; a segment that follows the last one hands the entry over once more. So a unit
  may execute a request more often than it was sent, and after the caller was told that it failed.
- *Unit's sending.* A heartbeat in the middle of `CANSend` can overwrite a frame in its slot; a frame
  that vanishes leaves the main loop in `CANTransmit`; a request that arrives before
  `ResponseTriggered` is cleared gets no answer.
- *Unit's data.* Quantities are not those that were set after a restart; requests before the FRAM
  is read are lost; the identifier is written before the defaults, so a power cut in between
  leaves the defaults out; supplies set while those of the last card are removed may go.
- *Names.* The code does not look which sector survived a power failure: a change after it may
  copy garbled pages over the good ones.
- *Notices.* When the guide comes or goes, or a text is drawn, while the main loop draws, the bar
  may be left as it is not meant, and stays so until the next change.
- *Cards.* A report refused by the connection, or one that comes while the one before is sent, is lost.
- *Files.* A chunk repeated after a lost answer is appended twice, and the slot is tagged complete:
  the tool says "Failed", `UpdateOne` uses it, since it checks no CRC. After a restart in the
  middle of an upload, writes go to slot 0. The tool's queue of answers is not emptied, so answers
  lag by one, may hide a lost Access, and let the tool say "Pass" on the answer to an earlier upload. Files whose size is no multiple of the word are written
  correctly and reported as "Failed"; files whose last chunk has at most two bytes can never be
  completed.
- *Settings.* A change made before the network has taken its settings writes zeros; after a power
  cut in a change, the MAC address is a new one although the backup still holds the old.
- *Line.* A whole buffer that waits when the interrupt comes is taken for none.

## Proofs

All theorems hold for every value of the constants that satisfies the named assumptions of the
module; `tlapm` checks them from nothing.

- **CanDeviceProofs**: `TypeCorrect`, `TableCorrect`, `PermitsCorrect`. `TableMatchesWorkers` is not
  inductive: an insertion after the wait for the semaphore is harmless only because nobody else
  inserts, and a worker erases by key. The invariant adds that between `Admit` and
  `StartWorker` the wanted attribute is free, that a worker's transaction has a key, and that
  numbers not yet used belong to nobody. The permits are counted by the cardinality of the set
  of living workers, one lemma for each of start and end.
  `ServiceImplemented`: every step of CanDevice is one of
  AttributeService or a stutter under the mapping. The invariant `OutcomesKnown` says at each
  place of a worker what its transaction has been told; that a slot is free at a start follows
  by an injection of the taken attributes into the holders of permits. Start, refuse, answer and
  release have one lemma each. `OkIsMeant`: every response on its way answers a
  request that was executed (`ResponsesExecuted`), and the signal a worker gets is for its own
  transaction or one begun earlier whose caller has been told (`SignalCame`): the worker in the table is
  the latest of its attribute (`LatestRuns`), and one that ends before it is signalled has told.
- **CanDriverProofs**: `TypeCorrect`, `PoolCorrect`, `ReceptionCorrect`, `BusyCorrect`,
  `CopiesCorrect`. The type invariant says of the thread in the driver what it holds at each
  line. Reception rests on what `State` of the handle may be while the thread is inside the lock,
  when only `State` and the mask of interrupts say whether reception runs. The copies of a frame
  are counted in the queue, in the mailboxes and in the thread's hand; each step takes one out and
  puts one in, and a box is in `sending` at most once, so that what leaves is one copy.
  `HandedCorrect` of RequestPath rests on it: the frames pushed are the parts of the entries, in
  order, and those of an entry follow one another unless another thread pushed in between
  (`InParts`); as no copy is lost or overtaken, what has reached the unit is always a prefix of
  them (`InOrder`), so that the unit's `rxEntry` is the entry of the last of these frames, with
  the parts up to it, and it has handed over the entries completed before (`Assembled`).
- **Lemmas**, which the other modules share: how often an element occurs in a sequence, and what
  `Append`, `Tail` and taking an element out change about that; parts and concatenations of
  sequences; the sums of CheckSum, and induction over numbers (`Upward`). The library's rule for
  that has an operator as its parameter, which the provers cannot be given; `Upward` is about a
  set, and follows from the least number that is not in it (`WFMin`).
- **UnitProofs**, one part after the other:
  - *LockTimer*: `TypeCorrect`; `OnTimeCorrect`, from an invariant that relates `onFor`,
    `LockCount` and `phase` while the lock is on, with and without a countdown; `OpenCorrect`.
  - *NameFlash*: `NamesCorrect`, `OneSectorCorrect`. The invariant says at each operation of a
    change which sector still shows all other names (`AtStep`); the first power failure is one
    lemma, after which only the sector that was not being written counts.
  - *NoticeBar*: `NoticeCorrect`. In a call no interrupt has disturbed, what is not drawn by it
    shows what is due already; a disturbed call leaves nothing sure. The timer's texts change the
    background, which a call sets before it fills.
  - *UnitStore*: `StoreCorrect`. A region that is not in doubt is right in memory, unless it is about
    to be removed with its card, and the FRAM has what memory has, unless one of the two writers has
    it still to write (`Right`).
  - *CardReport*: `CardCorrect`. The last report on its way, or else what the controller has stored,
    is the unit's card or a newer report is pending (`OnItsWay`); and what the Traversal thread
    holds at each line is what is stored, or the mark is set again (`Forwarded`).
  - *UnitCan*: `OnlyBeatsCorrect`, `EntriesCorrect`, for slots that follow one another and entries
    of any length. Without heartbeats and resets, main's copy of `msgSignals` may have lost bits
    but none of a slot in use (`SlotsMarked`), `tx_count` is at least what is still to go out
    (`FramesCounted`), so only frames of one entry wait, its first in the lowest of the slots that
    are used, and what is below stays marked for good (`FirstLowest`). As long as no frame goes
    astray, with or without heartbeats, the frames that wait are of entries that have not come, none
    but the next has a frame gone out (`InLine`), and the controller's table is what has gone out of
    that one (`Table`). That the last lag is at most one more than the frames that wait is an
    injection of entries into slots.
- **ServerProofs**:
  - *TcpClient*: `TypeCorrect`, `BuffersCorrect`, `AllocCorrect`. The conjunction of types and
    `BuffersConserved` is inductive. Every step moves one thread between the places where it holds a
    permit or a buffer, so the proof rests on lemmas about how such a move changes the two
    cardinalities. `AllocNeverBlocks` follows: the threads with a buffer and the one about to
    allocate are all among those with a permit.
  - *TcpReceive*: `CommandsCorrect`, `ReceiveTypes`. The invariant speaks of the set of bytes that
    wait in the stream and in the mails (`Waiting`), and not of their order: those with successive
    numbers follow one another in a frame or from its end to the next one's beginning (`OfFrames`),
    whatever was dropped between. A parser in step has taken `k` bytes of a frame and the
    byte after its last one is byte `k + 1` of the same frame, or it is between two frames
    (`InTime`). What each byte does to such a parser is `NextByte`; a mail is a chain of these,
    by induction over the bytes of the piece (`PieceTaken`). A parser that is out of step needs no
    assertion but its types: it comes into step only at the beginning of a frame.
- **ControllerProofs**:
  - *DoorStatus*: `TypeCorrect`; `OpenCorrect`, that the group is open exactly if a lock is, where
    `LockOne` and `UnlockOne` need one lemma each; `KnownCorrect`, under the assumption
    `MaxControllerBoots <= 1`: the invariant says of a unit the controller does not know that it
    is not registered and that at most one SYNC_LIVE, the one of the controller's start, is on its
    way to it while it still takes itself for connected; and that before that start nothing is
    known, in flight or in the queue.
  - *LineSend*: `SendCorrect`. Of a thread that sends alone the line ends with what it has sent, what
    it has left is the rest, and when it hands over a part the line is free; without the last,
    the part would be refused.
  - *UartLine*: `LineCorrect`, `LineTypes`. The invariant gives each place of the buffer the number of
    the byte that came there last (`InPlace`). Unless the DMA has overtaken the thread, the thread
    is at most one buffer behind, and `head` is the place of the byte after the last it has
    taken, on this lap of the DMA, the last one or the next (`Behind`); and `tail`, or the count the
    thread has read and not yet stored, is the place of some byte between that one and the last that
    came, unless it is the end of the buffer, which the test of `tail` catches (`Aimed`). So a byte that
    is taken is the next one sent. The parser stands in the command of that byte at its place
    (`Standing`), by the recursion of its sum and the length counted down.
  - *UserFlash*: `SettingsCorrect`, `IdentityCorrect`, for an area of any size. The invariant follows
    the two sectors byte by byte: on first use (`FirstUse`), in use (`InUse`), and in each phase
    of a change, where a sector is `Complete`, the copy of a complete one up to `at`, or blank.
- **FileSlotsProofs**: `ReadyCorrect`, `PassCorrect`, `ReadCorrect`, `CleanCorrect`. The invariant has a part for each
  actor: what is on the line of one upload comes in order (`InOrder`); the slot last accessed is
  fresh, garbled, or holds the first words of one file (`Accessed`), also when a chunk was taken
  twice or is missing, when it only says how much was taken; what the tool has sent (`Sent`); what an
  answer with a CRC means (`Answered`); what the reader has read (`Reads`). A write keeps all of them,
  for any sizes of word, chunk and header, by arithmetic on words in part (`WordsCounted`,
  `Chunks`). That `ReadyIsWhole` and `PassMeansFile` had to name a late answer taken for a lost Access,
  and one that answers an earlier upload, was found while looking for this invariant.
  `CleanCorrect` follows the one request or reply of an undisturbed upload through its phases
  (`Clean`), the slot being in each as far as the tool.
- **FirmwareUpdateProofs**: `TypeCorrect`; `UpdatingCorrect`, which is inductive with the types;
  `CleanCorrect`. `CleanMeansImage` looks at one moment of an update, so the invariant
  (`OneCommand`) names every place where the one command can be while no wait has run out: ready, on
  the line, at the bridge, unanswered, acknowledged, refused. Before its effect and after it the
  bridge's page and the flash of the units in ISP mode are those the update thread counts on
  (`Before`, `After`). The proof has one lemma for each step that moves the command on.
  And `DoneCorrect` about SdoClient: a reply follows from what each answered transfer has done, so
  the invariant (`SdoInv`) says what is on the bus and what that means. While no answer comes after
  its timeout, the bus holds one request or its answer, and before it at most the last segment,
  for whose answer nobody waits (`OnBus`). A transfer that has been answered has had its effect
  (`Answered`), and no later step of the command undoes it (`Prepared`). In a download the unit is at the
  segment sent last or after it, or before it when one has been missed, and its toggle tells
  which of the two it is (`InStep`). That argument fails when two segments are missed one after the other,
  which four segments to a page were too few to show: `skipped` counts that way since, and the
  run has five.
  `PromiseCorrect`, that SdoClient implements BridgeService, adds three facts to that invariant
  (`InHand`): the unit is prepared from the answer to `prepare` until what uses it up, it is no
  longer once that is answered, and it has not run the code of a command still to come. A served
  request is then one of five things (`UnitDoes`), three of which are the effects; a transfer
  that ends is the next one, another try, or the answer (`BridgeEnds`).

Only model-checked: everything under fairness (`EveryCallAnswered`, `HandshakeEnds`,
`ReportedAfterReconnect`, `SendReturns`, `UpdateEnds`, `BridgeComesBack`, `QueueDrains`,
`TransmitReturns`), which is out of the prover's reach, as is ENABLED. Every invariant and
action property of the runs that pass is proved. No module has a RECURSIVE operator.

## Not modelled

A large part of the lines of this repository are drivers of vendors for modes this product does not use
(USART, Ethernet MAC, HAL), their configuration headers, and a delegate library in two copies:
they have no state of this system beyond what the modules above take from them.

- Sensors and their filters (`SensorArray`, `ScaleInfo`, `hx711`): floating point. With them the
  timers that sync sensor data, and calibration in `DataProcessor`, which is stored like supplies.
- The card reader's chip and protocols (`trf796x`, `iso15693`, `iso14443*`): what they do rests on
  events of the chip the sources do not state; `CardReport` takes what they report.
- BSON and message structures: encoding without state. Drawing on the display: output.
- The emergency switch: one straight sequence of outputs.
- Queries of versions, devices and settings, which read and answer.
- Bit timings, filters, clocks and pins, the second CAN controller, start-up code.
- The classes of units by type, but for `RfidUnit`: they choose attributes and decode data.
- Data races on C++ containers, and objects replaced while a thread still uses them.
