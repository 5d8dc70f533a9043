------------------------------ MODULE FileSlots ------------------------------
(***************************************************************************)
(* The firmware files the controller keeps in slots of its flash for the    *)
(* units it updates: the tool on the PC that uploads a file (FWUpdater,     *)
(* Program.cs and SerialComm.cs), the line, the controller's handler        *)
(* (UnitManager::CommandArrival), and the thread that reads a slot to       *)
(* update a unit (UpdateOne; how the unit gets it is FirmwareUpdate's).     *)
(* The tool sends Access, WriteInfo and the file in chunks, waits for each  *)
(* answer, and sends a chunk again when none came in time. Requests and     *)
(* answers may be lost or late, and the controller may restart.             *)
(*                                                                          *)
(* A word of a file is <<"data", file, position>>; the CRC of words is the  *)
(* sequence of them. All files are for one type of unit.                    *)
(***************************************************************************)
EXTENDS Integers, Sequences, FiniteSets

CONSTANTS
  Files,          \* files that are uploaded
  FileSize,       \* bytes of each of them
  SlotNum,        \* slots
  WORD, CHUNK,    \* bytes of a word of flash, and of a chunk the tool sends
  HEADER,         \* FILE_HEADER_SIZE
  BlankSize,      \* 0xffff, the size read from a slot that is blank
  LEAST,          \* a Write of so many bytes or fewer is refused
  MaxUploads, MaxUpdates, MaxLates, MaxLosses, MaxRestarts  \* bounds

ASSUME FilesAssumption ==
  /\ IsFiniteSet(Files) /\ Files # {} /\ FileSize \in [Files -> Nat \ {0}]
  /\ SlotNum \in Nat \ {0} /\ WORD \in Nat \ {0} /\ LEAST \in Nat /\ LEAST < CHUNK
  /\ CHUNK \in Nat /\ CHUNK % WORD = 0 /\ HEADER \in Nat /\ HEADER % WORD = 0
  /\ 0 < HEADER /\ HEADER <= CHUNK
  /\ MaxUploads \in Nat /\ MaxUpdates \in Nat /\ MaxLates \in Nat /\ MaxLosses \in Nat
  /\ MaxRestarts \in Nat
  /\ BlankSize \in Nat /\ \A f \in Files : FileSize[f] + HEADER <= BlankSize

FileSlot == 0 .. SlotNum - 1

VARIABLES
  info,      \* the first words of each slot: tags and size
  complete,  \* the byte of a slot that marks it complete is 0x00
  words,     \* the words of each slot after its header
  slotIndex, slotOffset, pushed,  \* index and offset of CommandArrival, and the CRC unit
  requests, answers,              \* what is on the line
  tool,      \* the tool's process
  reader,    \* UpdateOne
  budget,    \* bounds: what may yet happen
  \* history
  faulty,    \* something was late, lost or restarted in this upload
  broken,    \* since its last Access the controller restarted or took another upload's request
  owner,     \* the upload for which it was last accessed
  reached,   \* the end of the chunk it has taken last since
  suspect    \* slots written while broken or with a chunk taken twice

slotVars == <<info, complete, words>>
takenVars == <<broken, owner, reached, suspect>>
uploadVars == <<slotVars, slotIndex, slotOffset, pushed, requests, answers, tool, reader,
                budget, faulty, takenVars>>

TopWord == (BlankSize + HEADER) \div WORD
WordsOf(size) == (size + WORD - 1) \div WORD
DataWord(f, i) == <<"data", f, i>>
FileWords(f) == [i \in 1 .. WordsOf(FileSize[f]) |-> DataWord(f, i)]
Blank == <<"blank">>
Garbled == <<"garbled">>

NoReader == [pc |-> "idle", slot |-> 0, size |-> 0, read |-> <<>>, disturbed |-> FALSE]

(* An upload: how many may still come, and the file.                        *)
NoUpload == <<MaxUploads + 1, CHOOSE f \in Files : TRUE>>
File(upload) == upload[2]

NoTool == [pc |-> "idle", upload |-> NoUpload, slot |-> 0, pos |-> 0, fed |-> 0, count |-> 0,
           sync |-> FALSE, signal |-> FALSE, queue |-> <<>>, said |-> <<"none", NoUpload>>]

SlotsInit ==
  /\ info = [s \in FileSlot |-> Blank] /\ complete = [s \in FileSlot |-> FALSE]
  /\ words = [s \in FileSlot |-> [i \in 1 .. TopWord |-> Blank]]
  /\ slotIndex = 0 /\ slotOffset = 0 /\ pushed = <<>>
  /\ requests = <<>> /\ answers = <<>>
  /\ tool = NoTool /\ reader = NoReader
  /\ budget = [uploads |-> MaxUploads, updates |-> MaxUpdates, lates |-> MaxLates,
               losses |-> MaxLosses, restarts |-> MaxRestarts]
  /\ faulty = FALSE /\ broken = FALSE /\ owner = NoUpload /\ reached = 0 /\ suspect = {}

Spend(what) == budget[what] > 0 /\ budget' = [budget EXCEPT ![what] = @ - 1]

----------------------------------------------------------------------------
(* The tool. SendCommand is in two steps: the request goes out, and later   *)
(* an answer is taken from the queue that the port's own thread fills.      *)

ChunkLen(f, from) == IF FileSize[f] - from < CHUNK THEN FileSize[f] - from ELSE CHUNK

(* SendFile, by a new process: what was received before is discarded.       *)
StartUpload(f, s) ==
  /\ tool.pc \in {"idle", "done"} /\ Spend("uploads")
  /\ LET upload == <<budget.uploads, f>> IN
       /\ tool' = [NoTool EXCEPT !.pc = "access", !.upload = upload, !.slot = s, !.sync = TRUE]
       /\ requests' = Append(requests, [kind |-> "access", upload |-> upload, slot |-> s])
  /\ answers' = <<>> /\ faulty' = (requests # <<>>)
  /\ UNCHANGED <<slotVars, slotIndex, slotOffset, pushed, reader, takenVars>>

SendInfo ==
  /\ tool.pc = "toInfo"
  /\ tool' = [tool EXCEPT !.pc = "info", !.sync = TRUE, !.signal = FALSE]
  /\ requests' = Append(requests, [kind |-> "info", upload |-> tool.upload])
  /\ UNCHANGED <<slotVars, slotIndex, slotOffset, pushed, answers, reader, budget, faulty,
                 takenVars>>

(* A chunk, for the first time or again: its CRC is taken once.             *)
SendChunk ==
  /\ tool.pc = "toWrite"
  /\ LET len == ChunkLen(File(tool.upload), tool.pos) IN
       /\ requests' = Append(requests, [kind |-> "write", upload |-> tool.upload,
                                        from |-> tool.pos, len |-> len])
       /\ tool' = [tool EXCEPT !.pc = "write", !.sync = TRUE, !.signal = FALSE,
                               !.fed = tool.pos + len]
  /\ UNCHANGED <<slotVars, slotIndex, slotOffset, pushed, answers, reader, budget, faulty,
                 takenVars>>

(* CommandResponse to the end of a file: "CRC Validation: Pass" when the    *)
(* CRC of the slot is that of what was fed, in whole words as the words of  *)
(* the slot (a last word in part is completed too late).                    *)
Failed == <<"failed", NoUpload>>

Said(answer) ==
  IF answer.kind # "done" THEN tool.said
  ELSE IF /\ tool.fed % WORD = 0
          /\ answer.crc = [i \in 1 .. tool.fed \div WORD |-> DataWord(File(tool.upload), i)]
       THEN <<"pass", answer.upload>> ELSE Failed

(* An exception: outside the loop that tries a chunk three times the        *)
(* program ends, as it does with "Write Fail!" after the third.             *)
AfterException(t) ==
  CASE t.pc # "write" -> [t EXCEPT !.pc = "done", !.said = Failed]
    [] t.pc = "write" /\ t.count > 1 -> [t EXCEPT !.pc = "toWrite", !.count = @ - 1]
    [] t.pc = "write" /\ t.count <= 1 -> [t EXCEPT !.pc = "done", !.said = Failed]

Proceed(t) ==
  LET file == File(t.upload)
      next == t.pos + ChunkLen(file, t.pos) IN
  CASE t.pc = "access" -> [t EXCEPT !.pc = "toInfo"]
    [] t.pc = "info" -> [t EXCEPT !.pc = "toWrite", !.count = 3]
    [] t.pc = "write" /\ next < FileSize[file] ->
         [t EXCEPT !.pc = "toWrite", !.pos = next, !.count = 3]
    [] OTHER -> [t EXCEPT !.pc = "done"]

Waiting == tool.pc \in {"access", "info", "write"}

(* The event is set: the oldest answer is taken, whatever it answers.       *)
TakeAnswer ==
  /\ Waiting /\ tool.signal
  /\ LET answer == Head(tool.queue)
         t == [tool EXCEPT !.sync = FALSE, !.signal = FALSE, !.queue = Tail(@),
                           !.said = Said(answer)]
     IN tool' = IF answer.kind = "error" THEN AfterException(t) ELSE Proceed(t)
  /\ UNCHANGED <<slotVars, slotIndex, slotOffset, pushed, requests, answers, reader, budget,
                 faulty, takenVars>>

(* No answer in time: it is late, or there is none.                         *)
NoAnswer ==
  /\ Waiting /\ ~tool.signal
  /\ \/ requests = <<>> /\ answers = <<>> /\ UNCHANGED budget
     \/ Spend("lates")
  /\ tool' = AfterException(tool)
  /\ faulty' = TRUE
  /\ UNCHANGED <<slotVars, slotIndex, slotOffset, pushed, requests, answers, reader, takenVars>>

(* SerialDataReceived: an answer is queued, or, when no command waits, it   *)
(* is handled there, where an exception ends the program.                   *)
AnswerArrives ==
  /\ answers # <<>> /\ answers' = Tail(answers)
  /\ LET answer == Head(answers) IN
       tool' = CASE tool.pc \in {"idle", "done"} -> tool
                 [] tool.pc \notin {"idle", "done"} /\ tool.sync ->
                      [tool EXCEPT !.queue = Append(@, answer), !.signal = TRUE]
                 [] OTHER ->
                      IF answer.kind = "error"
                      THEN [tool EXCEPT !.pc = "done", !.said = Failed]
                      ELSE [tool EXCEPT !.said = Said(answer)]
  /\ UNCHANGED <<slotVars, slotIndex, slotOffset, pushed, requests, reader, budget, faulty,
                 takenVars>>

ToolNext ==
  \/ \E f \in Files, s \in FileSlot : StartUpload(f, s)
  \/ SendInfo \/ SendChunk \/ TakeAnswer \/ NoAnswer \/ AnswerArrives

----------------------------------------------------------------------------
(* The line loses a request or an answer.                                   *)
LineLoses ==
  /\ Spend("losses") /\ faulty' = TRUE
  /\ \/ requests # <<>> /\ requests' = Tail(requests) /\ UNCHANGED answers
     \/ answers # <<>> /\ answers' = Tail(answers) /\ UNCHANGED requests
  /\ UNCHANGED <<slotVars, slotIndex, slotOffset, pushed, tool, reader, takenVars>>

----------------------------------------------------------------------------
(* CommandArrival, by the thread that receives.                             *)

Arrived(kind) == requests # <<>> /\ Head(requests).kind = kind /\ requests' = Tail(requests)
Answer(kind) == answers' = Append(answers, [kind |-> kind, upload |-> Head(requests).upload,
                                            crc |-> <<>>])

(* Faulty variant: the slot is not erased, only the tag is taken off.       *)
AccessKeeps ==
  /\ Arrived("access")
  /\ LET s == Head(requests).slot IN
       /\ slotIndex' = s /\ slotOffset' = 0 /\ pushed' = <<>>
       /\ info' = [info EXCEPT ![s] = Blank] /\ complete' = [complete EXCEPT ![s] = FALSE]
       /\ reader' = [reader EXCEPT !.disturbed = @ \/ reader.slot = s]
       /\ suspect' = suspect \ {s}
  /\ Answer("ok")
  /\ broken' = FALSE /\ owner' = Head(requests).upload /\ reached' = 0
  /\ UNCHANGED <<words, tool, budget, faulty>>

CommandAccess ==
  /\ Arrived("access")
  /\ LET s == Head(requests).slot IN
       /\ slotIndex' = s /\ slotOffset' = 0 /\ pushed' = <<>>
       /\ info' = [info EXCEPT ![s] = Blank] /\ complete' = [complete EXCEPT ![s] = FALSE]
       /\ words' = [words EXCEPT ![s] = [i \in 1 .. TopWord |-> Blank]]
       /\ reader' = [reader EXCEPT !.disturbed = @ \/ reader.slot = s]
       /\ suspect' = suspect \ {s}
  /\ Answer("ok")
  /\ broken' = FALSE /\ owner' = Head(requests).upload /\ reached' = 0
  /\ UNCHANGED <<tool, budget, faulty>>

(* The size where a header is written over another one is of both their     *)
(* bits. The offset starts anew, the CRC does not.                          *)
CommandWriteInfo ==
  /\ Arrived("info")
  /\ LET size == FileSize[File(Head(requests).upload)]
         old == info[slotIndex]
     IN \E s \in 0 .. size :
          /\ old \in {Blank, Garbled, <<"info", size>>} => s = size
          /\ info' = IF old = Garbled THEN info
                     ELSE [info EXCEPT ![slotIndex] = <<"info", s>>]
  /\ slotOffset' = HEADER
  /\ Answer("ok")
  /\ broken' = (broken \/ Head(requests).upload # owner)
  /\ suspect' = IF broken' THEN suspect \cup {slotIndex} ELSE suspect
  /\ UNCHANGED <<complete, words, slotIndex, pushed, tool, reader, budget, faulty,
                 owner, reached>>

SizeRead(size) ==
  LET i == info[slotIndex] IN
  CASE i = Blank -> size = BlankSize
    [] i = Garbled -> size \in 0 .. BlankSize
    [] OTHER -> size = i[2]

(* if (offset+len-FILE_HEADER_SIZE>size), in unsigned integers.             *)
Fits(len, size) ==
  slotOffset + len - HEADER >= 0 /\ slotOffset + len - HEADER <= size

(* Faulty variants: complete with the last but one word; the header is     *)
(* counted as part of the file.                                             *)
CompletesEarly(len, size) == slotOffset + len - HEADER >= size - WORD
CompletesHeader(len, size) == slotOffset + len = size

Completes(len, size) == slotOffset + len - HEADER = size

CommandWriteRefused ==
  /\ Arrived("write")
  /\ LET len == Head(requests).len IN
       len <= LEAST \/ \E size \in 0 .. BlankSize : SizeRead(size) /\ ~Fits(len, size)
  /\ Answer("error")
  /\ UNCHANGED <<slotVars, slotIndex, slotOffset, pushed, tool, reader, budget, faulty,
                 takenVars>>

(* Bits of the flash are only cleared.                                      *)
ProgramWord(old, new) == IF old \in {Blank, new} THEN new ELSE Garbled

(* The words of a chunk are programmed from the offset on; an offset that   *)
(* is no multiple of a word, which the flash refuses, programs none.        *)
CommandWrite ==
  /\ Arrived("write")
  /\ LET request == Head(requests)
         len == request.len
         chunk == [k \in 1 .. WordsOf(len) |->
                     DataWord(File(request.upload), request.from \div WORD + k)]
         first == (slotOffset - HEADER) \div WORD  \* words before it, as the slot counts them
     IN /\ len > LEAST
        /\ pushed' = pushed \o chunk
        /\ info' = IF slotOffset < HEADER THEN [info EXCEPT ![slotIndex] = Garbled] ELSE info
        /\ \E size \in 0 .. BlankSize :
             /\ SizeRead(size) /\ Fits(len, size)
             /\ complete' = [complete EXCEPT ![slotIndex] = @ \/ Completes(len, size)]
             /\ answers' = Append(answers,
                  [kind |-> IF Completes(len, size) THEN "done" ELSE "ok",
                   upload |-> request.upload,
                   crc |-> IF ~Completes(len, size) THEN <<>>
                           ELSE IF complete[slotIndex] \/ info'[slotIndex] = Garbled
                           THEN <<Garbled>> ELSE pushed'])
        /\ words' = IF slotOffset % WORD # 0 THEN words
                    ELSE [words EXCEPT ![slotIndex] =
                           [i \in 1 .. TopWord |->
                              IF i - first \in DOMAIN chunk
                              THEN ProgramWord(@[i], chunk[i - first]) ELSE @[i]]]
        /\ slotOffset' = slotOffset + len
        /\ reached' = request.from + len
        /\ broken' = (broken \/ request.upload # owner)
        /\ suspect' = IF broken' \/ request.from < reached
                      THEN suspect \cup {slotIndex} ELSE suspect
  /\ UNCHANGED <<slotIndex, tool, reader, budget, faulty, owner>>

(* The controller restarts; what is on its line is lost.                    *)
Restart ==
  /\ Spend("restarts")
  /\ slotIndex' = 0 /\ slotOffset' = 0 /\ pushed' = <<>>
  /\ requests' = <<>> /\ reader' = NoReader
  /\ faulty' = TRUE /\ broken' = TRUE
  /\ UNCHANGED <<slotVars, answers, tool, owner, reached, suspect>>

CommandArrival == CommandAccess \/ CommandWriteInfo \/ CommandWriteRefused \/ CommandWrite

----------------------------------------------------------------------------
(* UpdateOne: the first slot that is complete.                              *)
Ready(s) == complete[s] /\ info[s][1] = "info"

StartUpdate ==
  /\ reader.pc # "reading" /\ Spend("updates")
  /\ \E s \in FileSlot :
       /\ Ready(s) /\ \A r \in FileSlot : Ready(r) => s <= r
       /\ reader' = [NoReader EXCEPT !.pc = "reading", !.slot = s, !.size = info[s][2],
                                     !.disturbed = s \in suspect]
  /\ UNCHANGED <<slotVars, slotIndex, slotOffset, pushed, requests, answers, tool, faulty,
                 takenVars>>

(* Faulty variant: from the slot last accessed.                             *)
ReadWordAccessed ==
  /\ reader.pc = "reading"
  /\ reader' = IF Len(reader.read) < WordsOf(reader.size)
               THEN [reader EXCEPT !.read = Append(@, words[slotIndex][Len(@) + 1])]
               ELSE [reader EXCEPT !.pc = "finished"]
  /\ UNCHANGED <<slotVars, slotIndex, slotOffset, pushed, requests, answers, tool, budget,
                 faulty, takenVars>>

ReadWord ==
  /\ reader.pc = "reading"
  /\ reader' = IF Len(reader.read) < WordsOf(reader.size)
               THEN [reader EXCEPT !.read = Append(@, words[reader.slot][Len(@) + 1])]
               ELSE [reader EXCEPT !.pc = "finished"]
  /\ UNCHANGED <<slotVars, slotIndex, slotOffset, pushed, requests, answers, tool, budget,
                 faulty, takenVars>>

SlotsNext == ToolNext \/ LineLoses \/ CommandArrival \/ Restart \/ StartUpdate \/ ReadWord

SlotsSpec == SlotsInit /\ [][SlotsNext]_uploadVars

----------------------------------------------------------------------------
FlashWord == {Blank, Garbled} \cup ({"data"} \X Files \X Nat)
Uploads == (0 .. MaxUploads + 1) \X Files
UploadRequests ==
  [kind: {"access"}, upload: Uploads, slot: FileSlot] \cup [kind: {"info"}, upload: Uploads]
  \cup [kind: {"write"}, upload: Uploads, from: Nat, len: Nat]
UploadAnswers == [kind: {"ok", "done", "error"}, upload: Uploads, crc: Seq(FlashWord)]

Sayings == {"none", "pass", "failed"} \X Uploads
Tool ==
  [pc: {"idle", "access", "toInfo", "info", "toWrite", "write", "done"}, upload: Uploads,
   slot: FileSlot, pos: Nat, fed: Nat, count: 0 .. 3, sync: BOOLEAN, signal: BOOLEAN,
   queue: Seq(UploadAnswers), said: Sayings]
Reader ==
  [pc: {"idle", "reading", "finished"}, slot: FileSlot, size: 0 .. BlankSize,
   read: Seq(FlashWord), disturbed: BOOLEAN]
Budget ==
  [uploads: 0 .. MaxUploads, updates: 0 .. MaxUpdates, lates: 0 .. MaxLates,
   losses: 0 .. MaxLosses, restarts: 0 .. MaxRestarts]

SlotsTypeOK ==
  /\ info \in [FileSlot -> {Blank, Garbled} \cup ({"info"} \X (0 .. BlankSize))]
  /\ complete \in [FileSlot -> BOOLEAN]
  /\ words \in [FileSlot -> [1 .. TopWord -> FlashWord]]
  /\ slotIndex \in FileSlot /\ slotOffset \in 0 .. HEADER + BlankSize
  /\ pushed \in Seq(FlashWord)
  /\ requests \in Seq(UploadRequests) /\ answers \in Seq(UploadAnswers)
  /\ tool \in Tool /\ (tool.signal => tool.queue # <<>>) /\ reader \in Reader
  /\ budget \in Budget
  /\ faulty \in BOOLEAN /\ broken \in BOOLEAN /\ owner \in Uploads /\ reached \in Nat
  /\ suspect \subseteq FileSlot

Holds(s, f) ==
  /\ Ready(s) /\ info[s][2] = FileSize[f]
  /\ \A i \in 1 .. WordsOf(FileSize[f]) : words[s][i] = DataWord(f, i)

(* A slot UpdateOne would choose holds one whole file, whatever was lost,   *)
(* late or restarted in the middle of any upload, but for three ways that   *)
(* nothing in the code prevents: a chunk that was taken, and sent again     *)
(* because its answer did not come, is appended again; after a restart      *)
(* CommandArrival goes on with slot 0; and a late answer is taken for that  *)
(* of a lost Access, so that the upload goes on in the slot of another.     *)
ReadyIsWhole ==
  \A s \in FileSlot \ suspect : Ready(s) => \E f \in Files : Holds(s, f)

(* When the last the tool says is "CRC Validation: Pass", and what it heard *)
(* was the answer to this upload, a slot holds the file, also when chunks   *)
(* were taken twice or answers came one too late. (An answer to an earlier  *)
(* upload that comes late says nothing of this one; and when a late answer  *)
(* hides that the Access was lost, it is the slot of the upload before.)    *)
PassMeansFile ==
  tool.pc = "done" /\ tool.said = <<"pass", tool.upload>> /\ ~broken =>
    \E s \in FileSlot : Holds(s, File(tool.upload))

(* An upload in which nothing goes wrong ends with the file in its slot,    *)
(* and "Pass" unless its last word is in part; but when the last chunk is   *)
(* of LEAST bytes or fewer it is refused three times.                       *)
CleanUploads ==
  tool.pc = "done" /\ ~faulty =>
    LET size == FileSize[File(tool.upload)] IN
    \/ size % CHUNK \in 1 .. LEAST /\ ~Ready(tool.slot)
    \/ /\ Holds(tool.slot, File(tool.upload))
       /\ size % WORD = 0 => tool.said = <<"pass", tool.upload>>

(* An update that is not disturbed by an Access of its slot gives the unit  *)
(* one whole file, whatever other slots are written meanwhile.              *)
UpdateReadsFile ==
  reader.pc = "finished" /\ ~reader.disturbed /\ reader.slot \notin suspect =>
    \E f \in Files : reader.read = FileWords(f)
=============================================================================
