--------------------------- MODULE FileSlotsProofs ----------------------------
(***************************************************************************)
(* Proofs about FileSlots, for any files, slots and sizes of words, chunks *)
(* and headers, any number of uploads, updates, losses, late answers and   *)
(* restarts: a slot an update would choose holds one whole file, "Pass"    *)
(* means that the file is there, an update gives the unit one file, and an *)
(* upload that nothing disturbs succeeds.                                  *)
(***************************************************************************)
EXTENDS FileSlots, TLAPS

(* What is on the line of one upload comes in the order Access, WriteInfo, *)
(* Write, and before that of a later upload; budget.uploads counts down.   *)
Before(r, next) ==
  \/ r.upload[1] > next.upload[1]
  \/ /\ r.upload = next.upload /\ next.kind # "access"
     /\ r.kind # "access" => next.kind = "write"

IsChunk(file, from, len) ==
  from % WORD = 0 /\ from < FileSize[file] /\ len = ChunkLen(file, from)

InOrder ==
  /\ \A i, j \in DOMAIN requests : i < j => Before(requests[i], requests[j])
  /\ \A i \in DOMAIN requests :
       /\ requests[i].upload[1] >= tool.upload[1]
       /\ requests[i].upload[1] = tool.upload[1] => requests[i].upload = tool.upload
       /\ requests[i].kind = "write" =>
            IsChunk(File(requests[i].upload), requests[i].from, requests[i].len)
  /\ budget.uploads < tool.upload[1] /\ budget.uploads < owner[1]

(* The slot that is accessed, as long as it is written for one upload.     *)
Fresh ==
  /\ info[slotIndex] = Blank /\ ~complete[slotIndex] /\ slotOffset = 0 /\ pushed = <<>>
  /\ reached = 0 /\ \A i \in 1 .. TopWord : words[slotIndex][i] = Blank

Taken == slotOffset - HEADER
Right(n) ==
  \A i \in 1 .. TopWord :
    words[slotIndex][i] = IF i <= WordsOf(n) THEN DataWord(File(owner), i) ELSE Blank
AsPushed ==
  \A i \in 1 .. TopWord :
    words[slotIndex][i] = IF i <= Len(pushed) THEN pushed[i] ELSE Blank

InWriting ==
  LET size == FileSize[File(owner)] IN
  /\ info[slotIndex] = <<"info", size>>
  /\ Taken \in 0 .. size /\ (complete[slotIndex] => Taken = size)
  /\ slotIndex \notin suspect =>
       /\ Taken <= reached /\ reached <= size
       /\ Taken = reached => Right(Taken)
  /\ Taken <= Len(pushed) * WORD
  /\ Taken = Len(pushed) * WORD => AsPushed

Accessed ==
  ~broken =>
    /\ Fresh \/ info[slotIndex] = Garbled \/ InWriting
    /\ \A i \in DOMAIN requests :
         requests[i].upload = owner =>
           requests[i].kind # "access" /\ (~Fresh => requests[i].kind = "write")

(* What the tool has sent of its upload.                                   *)
DoneOf(queue, upload) ==
  \E i \in DOMAIN queue : queue[i].kind = "done" /\ queue[i].upload = upload
Done ==
  \/ DoneOf(answers, tool.upload) \/ DoneOf(tool.queue, tool.upload)
  \/ tool.said = <<"pass", tool.upload>>

Sent ==
  /\ tool.pos % WORD = 0 /\ tool.pos < FileSize[File(tool.upload)]
  /\ tool.fed <= FileSize[File(tool.upload)]
  /\ tool.pc \in {"access", "toInfo"} =>
       /\ \A i \in DOMAIN requests :
            requests[i].upload = tool.upload => requests[i].kind = "access"
       /\ owner = tool.upload /\ ~broken => Fresh
       /\ ~Done
  /\ Done => \A i \in DOMAIN requests :
               requests[i].upload = tool.upload /\ requests[i].kind = "write"

(* What an answer to the end of the tool's upload means.                   *)
Stored == owner = tool.upload /\ Holds(slotIndex, File(tool.upload))
FirstWords(crc, f) ==
  \E m \in 0 .. WordsOf(FileSize[f]) :
    m * WORD <= FileSize[f] /\ crc = [i \in 1 .. m |-> DataWord(f, i)]
Means(queue) ==
  \A i \in DOMAIN queue :
    queue[i].kind = "done" /\ queue[i].upload = tool.upload =>
      owner = tool.upload /\ (FirstWords(queue[i].crc, File(tool.upload)) => Stored)

Answered ==
  ~broken =>
    Means(answers) /\ Means(tool.queue) /\ (tool.said = <<"pass", tool.upload>> => Stored)

(* What the reader has read.                                               *)
Reads ==
  ~reader.disturbed /\ reader.slot \notin suspect =>
    /\ reader.pc = "reading" =>
         \E f \in Files :
           /\ Holds(reader.slot, f) /\ reader.size = FileSize[f]
           /\ Len(reader.read) <= WordsOf(reader.size)
           /\ \A i \in 1 .. Len(reader.read) : reader.read[i] = DataWord(f, i)
    /\ reader.pc = "finished" => \E f \in Files : reader.read = FileWords(f)

SlotsInv ==
  SlotsTypeOK /\ InOrder /\ Accessed /\ Sent /\ Answered /\ Reads /\ ReadyIsWhole

----------------------------------------------------------------------------
(* Facts of the types.                                                     *)
LEMMA Parameters ==
  /\ Files # {} /\ FileSize \in [Files -> Nat \ {0}] /\ SlotNum \in Nat \ {0}
  /\ WORD \in Nat \ {0} /\ LEAST \in Nat /\ CHUNK \in Nat \ {0} /\ CHUNK % WORD = 0
  /\ HEADER \in Nat \ {0} /\ HEADER % WORD = 0 /\ BlankSize \in Nat /\ MaxUploads \in Nat
  /\ \A f \in Files : FileSize[f] + HEADER <= BlankSize
  /\ TopWord \in Nat
<1>1. WORD \in Nat \ {0} /\ BlankSize + HEADER \in Nat
  BY FilesAssumption
<1>2. TopWord \in Nat
  BY <1>1 DEF TopWord
<1> QED
  BY <1>2, FilesAssumption

LEMMA WordsCounted ==
  ASSUME NEW n \in Nat
  PROVE  /\ n \div WORD \in Nat /\ n % WORD \in 0 .. WORD - 1
         /\ n = WORD * (n \div WORD) + (n % WORD)
         /\ WordsOf(n) \in Nat /\ WordsOf(n) * WORD >= n
         /\ WordsOf(n) * WORD = n => n % WORD = 0
         /\ n % WORD = 0 => WordsOf(n) = n \div WORD
<1>1. WORD \in Nat \ {0}
  BY Parameters
<1>2. n \div WORD \in Nat /\ n % WORD \in 0 .. WORD - 1 /\ n = WORD * (n \div WORD) + (n % WORD)
  BY <1>1
<1>3. WordsOf(n) \in Nat /\ WordsOf(n) * WORD >= n
  BY <1>1 DEF WordsOf
<1>4. ASSUME NEW k \in Nat PROVE (k * WORD) % WORD = 0
  BY <1>1
<1>5. WordsOf(n) * WORD = n => n % WORD = 0
  BY <1>3, <1>4
<1>6. ASSUME NEW k \in Nat PROVE (k * WORD + (WORD - 1)) \div WORD = k
  BY <1>1
<1>7. n % WORD = 0 => WordsOf(n) = n \div WORD
  <2>1. SUFFICES ASSUME n % WORD = 0 PROVE (n + WORD - 1) \div WORD = n \div WORD
    BY DEF WordsOf
  <2>2. n = (n \div WORD) * WORD /\ n + WORD - 1 = (n \div WORD) * WORD + (WORD - 1)
    BY <1>1, <1>2, <2>1
  <2> QED
    BY <1>2, <1>6, <2>2
<1> QED
  BY <1>2, <1>3, <1>5, <1>7

LEMMA WordsNat == \A n \in Nat : n \div WORD \in Nat /\ WordsOf(n) \in Nat
  BY WordsCounted

LEMMA WordsAdded ==
  ASSUME NEW a \in Nat, NEW b \in Nat, a % WORD = 0
  PROVE  /\ (a + b) % WORD = b % WORD /\ (a + b) \div WORD = a \div WORD + b \div WORD
         /\ WordsOf(a + b) = WordsOf(a) + WordsOf(b)
<1>1. WORD \in Nat \ {0}
  BY Parameters
<1>2. ASSUME NEW c \in Nat PROVE (a + c) % WORD = c % WORD /\ (a + c) \div WORD = a \div WORD + c \div WORD
  BY <1>1
<1>3. WordsOf(a) = a \div WORD
  BY WordsCounted
<1>4. b + WORD - 1 \in Nat /\ a + b + WORD - 1 = a + (b + WORD - 1)
  BY <1>1
<1>5. WordsOf(a + b) = a \div WORD + WordsOf(b)
  BY <1>2, <1>4 DEF WordsOf
<1> QED
  BY <1>2, <1>3, <1>5

LEMMA WordsFit == \A n \in Nat : n <= BlankSize => WordsOf(n) <= TopWord
<1> SUFFICES ASSUME NEW n \in Nat, n <= BlankSize PROVE WordsOf(n) <= TopWord
  OBVIOUS
<1>1. WORD \in Nat \ {0} /\ BlankSize \in Nat /\ HEADER \in Nat \ {0} /\ HEADER % WORD = 0
  BY Parameters
<1>2. \A a, b \in Nat : a <= b => a \div WORD <= b \div WORD
  BY <1>1
<1>3. HEADER >= WORD
  <2>1. \A a \in 0 .. WORD - 1 : a % WORD = a
    BY <1>1
  <2> QED
    BY <1>1, <2>1
<1>4. n + WORD - 1 \in Nat /\ BlankSize + HEADER \in Nat /\ n + WORD - 1 <= BlankSize + HEADER
  BY <1>1, <1>3
<1> QED
  BY <1>2, <1>4 DEF WordsOf, TopWord

LEMMA Chunks ==
  ASSUME NEW f \in Files, NEW from \in Nat, from % WORD = 0, from < FileSize[f]
  PROVE  /\ ChunkLen(f, from) \in Nat \ {0} /\ from + ChunkLen(f, from) <= FileSize[f]
         /\ \/ from + ChunkLen(f, from) = FileSize[f]
            \/ /\ ChunkLen(f, from) % WORD = 0 /\ (from + ChunkLen(f, from)) % WORD = 0
<1>1. FileSize[f] \in Nat \ {0} /\ CHUNK \in Nat \ {0} /\ CHUNK % WORD = 0
  BY Parameters
<1>2. (from + CHUNK) % WORD = 0
  BY <1>1, WordsAdded
<1> QED
  BY <1>1, <1>2 DEF ChunkLen

LEMMA Typed ==
  ASSUME SlotsTypeOK
  PROVE  /\ info \in [FileSlot -> {Blank, Garbled} \cup ({"info"} \X (0 .. BlankSize))]
         /\ complete \in [FileSlot -> BOOLEAN] /\ words \in [FileSlot -> [1 .. TopWord -> FlashWord]]
         /\ slotIndex \in FileSlot /\ slotOffset \in Nat /\ pushed \in Seq(FlashWord)
         /\ requests \in Seq(UploadRequests) /\ answers \in Seq(UploadAnswers)
         /\ tool \in Tool /\ (tool.signal => tool.queue # <<>>) /\ reader \in Reader
         /\ tool.upload \in Uploads /\ tool.upload[1] \in Nat /\ File(tool.upload) \in Files
         /\ tool.pos \in Nat /\ tool.fed \in Nat /\ tool.queue \in Seq(UploadAnswers)
         /\ owner \in Uploads /\ owner[1] \in Nat /\ File(owner) \in Files
         /\ reached \in Nat /\ suspect \subseteq FileSlot
         /\ budget.uploads \in 0 .. MaxUploads
<1>1. tool.upload \in Uploads /\ tool.pos \in Nat /\ tool.fed \in Nat /\ tool.queue \in Seq(UploadAnswers)
  BY DEF SlotsTypeOK, Tool
<1>2. ASSUME NEW u \in Uploads PROVE u[1] \in Nat /\ File(u) \in Files
  BY Parameters DEF Uploads, File
<1>3. slotOffset \in Nat
  BY Parameters DEF SlotsTypeOK
<1> QED
  BY <1>1, <1>2, <1>3 DEF SlotsTypeOK, Budget

LEMMA RequestTyped ==
  ASSUME NEW r \in UploadRequests
  PROVE  /\ r.kind \in {"access", "info", "write"}
         /\ r.upload \in Uploads /\ r.upload[1] \in Nat /\ File(r.upload) \in Files
         /\ r.kind = "access" => r.slot \in FileSlot
         /\ r.kind = "write" => r.from \in Nat /\ r.len \in Nat
<1>1. /\ r.kind \in {"access", "info", "write"} /\ r.upload \in Uploads
      /\ r.kind = "access" => r.slot \in FileSlot
      /\ r.kind = "write" => r.from \in Nat /\ r.len \in Nat
  BY DEF UploadRequests
<1>2. ASSUME NEW u \in Uploads PROVE u[1] \in Nat /\ File(u) \in Files
  BY Parameters DEF Uploads, File
<1> QED
  BY <1>1, <1>2

LEMMA TailOf ==
  ASSUME NEW S, NEW s \in Seq(S), s # <<>>
  PROVE  /\ Tail(s) \in Seq(S) /\ Head(s) = s[1] /\ Head(s) \in S /\ 1 \in DOMAIN s
         /\ \A i \in DOMAIN Tail(s) : i + 1 \in DOMAIN s /\ Tail(s)[i] = s[i + 1]
  OBVIOUS

LEMMA AppendTo ==
  ASSUME NEW S, NEW s \in Seq(S), NEW e \in S
  PROVE  /\ Append(s, e) \in Seq(S)
         /\ \A i \in DOMAIN Append(s, e) :
              (i \in DOMAIN s /\ Append(s, e)[i] = s[i]) \/ (i = Len(s) + 1 /\ Append(s, e)[i] = e)
         /\ \A i \in DOMAIN s : i \in DOMAIN Append(s, e) /\ Append(s, e)[i] = s[i]
         /\ DOMAIN s = 1 .. Len(s) /\ Len(s) \in Nat /\ Append(s, e) # <<>>
<1>1. DOMAIN s = 1 .. Len(s) /\ Len(s) \in Nat /\ Append(s, e) \in Seq(S)
  OBVIOUS
<1>2. DOMAIN Append(s, e) = 1 .. Len(s) + 1
  OBVIOUS
<1>3. \A i \in 1 .. Len(s) : Append(s, e)[i] = s[i]
  OBVIOUS
<1>4. Append(s, e)[Len(s) + 1] = e /\ Append(s, e) # <<>>
  OBVIOUS
<1>5. \A i \in DOMAIN Append(s, e) : i \in 1 .. Len(s) \/ i = Len(s) + 1
  BY <1>1, <1>2
<1> QED
  <2>1. \A i \in DOMAIN s : i \in DOMAIN Append(s, e) /\ Append(s, e)[i] = s[i]
    BY <1>1, <1>2, <1>3
  <2>2. \A i \in DOMAIN Append(s, e) :
          (i \in DOMAIN s /\ Append(s, e)[i] = s[i]) \/ (i = Len(s) + 1 /\ Append(s, e)[i] = e)
    <3> TAKE i \in DOMAIN Append(s, e)
    <3>1. CASE i \in 1 .. Len(s)
      <4>1. i \in DOMAIN s
        BY <1>1, <3>1
      <4>2. Append(s, e)[i] = s[i]
        BY <1>3, <3>1
      <4> QED
        BY <4>1, <4>2
    <3>2. CASE i = Len(s) + 1
      BY <1>4, <3>2
    <3> QED
      BY <1>5, <3>1, <3>2
  <2> QED
    BY <1>1, <1>4, <2>1, <2>2

LEMMA JoinedTo ==
  ASSUME NEW S, NEW s \in Seq(S), NEW t \in Seq(S)
  PROVE  /\ s \o t \in Seq(S) /\ Len(s \o t) = Len(s) + Len(t) /\ Len(s) \in Nat
         /\ \A i \in 1 .. Len(s) + Len(t) :
              (s \o t)[i] = IF i <= Len(s) THEN s[i] ELSE t[i - Len(s)]
  OBVIOUS

LEMMA Spent ==
  ASSUME budget \in Budget,
         NEW what \in {"uploads", "updates", "lates", "losses", "restarts"}, Spend(what)
  PROVE  budget' \in Budget
<1>1. /\ budget.uploads \in 0 .. MaxUploads /\ budget.updates \in 0 .. MaxUpdates
      /\ budget.lates \in 0 .. MaxLates /\ budget.losses \in 0 .. MaxLosses
      /\ budget.restarts \in 0 .. MaxRestarts
  BY DEF Budget
<1>2. /\ MaxUploads \in Nat /\ MaxUpdates \in Nat /\ MaxLates \in Nat
      /\ MaxLosses \in Nat /\ MaxRestarts \in Nat
  BY FilesAssumption
<1>3. budget[what] > 0 /\ budget' = [budget EXCEPT ![what] = budget[what] - 1]
  BY DEF Spend
<1>4. CASE what = "uploads"
  BY <1>1, <1>2, <1>3, <1>4 DEF Budget
<1>5. CASE what = "updates"
  BY <1>1, <1>2, <1>3, <1>5 DEF Budget
<1>6. CASE what = "lates"
  BY <1>1, <1>2, <1>3, <1>6 DEF Budget
<1>7. CASE what = "losses"
  BY <1>1, <1>2, <1>3, <1>7 DEF Budget
<1>8. CASE what = "restarts"
  BY <1>1, <1>2, <1>3, <1>8 DEF Budget
<1> QED
  BY <1>4, <1>5, <1>6, <1>7, <1>8

----------------------------------------------------------------------------
(* The types are kept.                                                     *)
LEMMA SaidTyped ==
  ASSUME SlotsTypeOK
  PROVE  /\ NoUpload \in Uploads /\ Failed \in Sayings /\ <<"none", NoUpload>> \in Sayings
         /\ \A a \in UploadAnswers : Said(a) \in Sayings
<1>1. NoUpload \in Uploads
  BY Parameters DEF NoUpload, Uploads
<1>2. Failed \in Sayings /\ <<"none", NoUpload>> \in Sayings
  BY <1>1 DEF Failed, Sayings
<1>3. ASSUME NEW a \in UploadAnswers PROVE Said(a) \in Sayings
  <2>1. a.upload \in Uploads /\ tool.said \in Sayings
    BY DEF UploadAnswers, Tool, SlotsTypeOK
  <2>2. <<"pass", a.upload>> \in Sayings
    BY <2>1 DEF Sayings
  <2> QED
    BY <1>2, <2>1, <2>2 DEF Said
<1> QED
  BY <1>1, <1>2, <1>3

LEMMA TakenTyped ==
  ASSUME SlotsTypeOK, tool.signal
  PROVE  LET t == [tool EXCEPT !.sync = FALSE, !.signal = FALSE, !.queue = Tail(@),
                               !.said = Said(Head(tool.queue))]
         IN /\ t \in Tool /\ t.upload = tool.upload /\ t.pos = tool.pos /\ t.fed = tool.fed
            /\ t.pc = tool.pc /\ t.slot = tool.slot /\ ~t.signal
            /\ t.queue = Tail(tool.queue) /\ t.said = Said(Head(tool.queue))
<1>1. tool \in Tool /\ tool.queue \in Seq(UploadAnswers) /\ tool.queue # <<>>
  BY Typed
<1>2. Head(tool.queue) \in UploadAnswers /\ Tail(tool.queue) \in Seq(UploadAnswers)
  BY <1>1, TailOf
<1>3. Said(Head(tool.queue)) \in Sayings
  BY <1>2, SaidTyped
<1> QED
  BY <1>1, <1>2, <1>3 DEF Tool

LEMMA ToolType ==
  ASSUME SlotsTypeOK, InOrder, Sent, ToolNext
  PROVE  SlotsTypeOK'
<1> USE DEF ToolNext, uploadVars, slotVars, takenVars
<1>0. /\ requests \in Seq(UploadRequests) /\ answers \in Seq(UploadAnswers)
      /\ tool \in Tool /\ (tool.signal => tool.queue # <<>>) /\ tool.upload \in Uploads
      /\ tool.pos \in Nat /\ tool.fed \in Nat /\ tool.queue \in Seq(UploadAnswers)
      /\ File(tool.upload) \in Files
  BY Typed
<1>1. <<>> \in Seq(UploadAnswers) /\ budget \in Budget
  BY DEF SlotsTypeOK
<1>a. ASSUME NEW what \in {"uploads", "updates", "lates", "losses", "restarts"}, Spend(what)
      PROVE  budget' \in Budget
  BY <1>1, <1>a, Spent
<1>b. NoUpload \in Uploads /\ Failed \in Sayings /\ <<"none", NoUpload>> \in Sayings
  BY SaidTyped
<1>2. ASSUME NEW r \in UploadRequests, requests' = Append(requests, r)
      PROVE  requests' \in Seq(UploadRequests)
  BY <1>0, <1>2, AppendTo
<1>3. CASE requests' \in Seq(UploadRequests) /\ answers' \in Seq(UploadAnswers) /\ tool' \in Tool
           /\ (tool'.signal => tool'.queue # <<>>) /\ faulty' \in BOOLEAN
           /\ budget' \in Budget
           /\ UNCHANGED <<slotVars, slotIndex, slotOffset, pushed, reader, takenVars>>
  BY <1>3 DEF SlotsTypeOK
<1>4. ASSUME NEW f \in Files, NEW s \in FileSlot, StartUpload(f, s) PROVE SlotsTypeOK'
  <2>0. 0 \in FileSlot /\ 0 \in Nat /\ 0 \in 0 .. 3 /\ FALSE \in BOOLEAN
    BY Parameters DEF FileSlot
  <2>1. <<budget.uploads, f>> \in Uploads
    <3>1. budget.uploads \in 0 .. MaxUploads + 1
      BY Typed, Parameters, SMTT(30)
    <3> QED
      BY <3>1 DEF Uploads
  <2>2. [kind |-> "access", upload |-> <<budget.uploads, f>>, slot |-> s] \in UploadRequests
    BY <2>1 DEF UploadRequests
  <2>3. requests' \in Seq(UploadRequests)
    BY <1>2, <1>4, <2>2 DEF StartUpload
  <2>4. NoTool.said \in Sayings
    BY <1>b DEF NoTool
  <2>5. tool' = [NoTool EXCEPT !.pc = "access", !.upload = <<budget.uploads, f>>, !.slot = s, !.sync = TRUE]
    BY <1>4 DEF StartUpload
  <2>6. NoTool \in Tool
    BY <1>1, <1>b, <2>4, <2>0 DEF Tool, NoTool
  <2>7. tool' \in Tool /\ tool'.signal = NoTool.signal
    BY <2>1, <2>5, <2>6 DEF Tool
  <2>8. ~tool'.signal
    BY <2>7 DEF NoTool
  <2> QED
    BY <1>1, <1>a, <1>3, <1>4, <2>3, <2>7, <2>8 DEF StartUpload
<1>5. CASE SendInfo
  <2>1. [kind |-> "info", upload |-> tool.upload] \in UploadRequests
    BY <1>0 DEF UploadRequests
  <2>2. requests' \in Seq(UploadRequests)
    BY <1>2, <1>5, <2>1 DEF SendInfo
  <2>3. tool' \in Tool /\ ~tool'.signal
    BY <1>0, <1>5 DEF SendInfo, Tool
  <2> QED
    BY <1>0, <1>3, <1>5, <2>2, <2>3 DEF SendInfo, SlotsTypeOK
<1>6. CASE SendChunk
  <2>1. ChunkLen(File(tool.upload), tool.pos) \in Nat
    BY <1>0, Chunks DEF Sent
  <2>2. [kind |-> "write", upload |-> tool.upload, from |-> tool.pos,
         len |-> ChunkLen(File(tool.upload), tool.pos)] \in UploadRequests
    BY <1>0, <2>1 DEF UploadRequests
  <2>3. requests' \in Seq(UploadRequests)
    BY <1>2, <1>6, <2>2 DEF SendChunk
  <2>4. ASSUME NEW n \in Nat
        PROVE  LET t == [tool EXCEPT !.pc = "write", !.sync = TRUE, !.signal = FALSE, !.fed = n]
               IN t \in Tool /\ ~t.signal
    BY <1>0 DEF Tool
  <2>5. tool.pos + ChunkLen(File(tool.upload), tool.pos) \in Nat
    BY <1>0, <2>1
  <2>6. tool' \in Tool /\ ~tool'.signal
    BY <1>6, <2>4, <2>5 DEF SendChunk
  <2> QED
    BY <1>0, <1>3, <1>6, <2>3, <2>6 DEF SendChunk, SlotsTypeOK
<1>7. ASSUME NEW t \in Tool, t.upload = tool.upload, t.pos = tool.pos, ~t.signal
      PROVE  /\ AfterException(t) \in Tool /\ ~AfterException(t).signal
             /\ Proceed(t) \in Tool /\ ~Proceed(t).signal
  <2>1. ChunkLen(File(tool.upload), tool.pos) \in Nat
    BY <1>0, Chunks DEF Sent
  <2>2. AfterException(t) \in Tool /\ ~AfterException(t).signal
    <3>1. t.count \in 0 .. 3 /\ (t.count > 1 => t.count - 1 \in 0 .. 3)
      BY <1>7 DEF Tool
    <3>2. ASSUME NEW n \in 0 .. 3
          PROVE  LET u == [t EXCEPT !.pc = "toWrite", !.count = n] IN u \in Tool /\ ~u.signal
      BY <1>7 DEF Tool
    <3>3. LET u == [t EXCEPT !.pc = "done", !.said = Failed] IN u \in Tool /\ ~u.signal
      BY <1>7, <1>b DEF Tool
    <3>4. CASE t.pc = "write" /\ t.count > 1
      <4>1. AfterException(t) = [t EXCEPT !.pc = "toWrite", !.count = t.count - 1]
        BY <3>1, <3>4 DEF AfterException
      <4> QED
        BY <3>1, <3>2, <3>4, <4>1
    <3>5. CASE ~(t.pc = "write" /\ t.count > 1)
      <4>1. AfterException(t) = [t EXCEPT !.pc = "done", !.said = Failed]
        BY <3>1, <3>5 DEF AfterException
      <4> QED
        BY <3>3, <4>1
    <3> QED
      BY <3>4, <3>5
  <2>3. Proceed(t) \in Tool /\ ~Proceed(t).signal
    <3>1. tool.pos + ChunkLen(File(tool.upload), tool.pos) \in Nat /\ 3 \in 0 .. 3
      BY <1>0, <2>1
    <3>2. ASSUME NEW p \in {"toInfo", "done"}
          PROVE  LET u == [t EXCEPT !.pc = p] IN u \in Tool /\ ~u.signal
      BY <1>7 DEF Tool
    <3>3. LET u == [t EXCEPT !.pc = "toWrite", !.count = 3] IN u \in Tool /\ ~u.signal
      BY <1>7, <3>1 DEF Tool
    <3>4. ASSUME NEW n \in Nat
          PROVE  LET u == [t EXCEPT !.pc = "toWrite", !.pos = n, !.count = 3]
                 IN u \in Tool /\ ~u.signal
      BY <1>7, <3>1 DEF Tool
    <3>5. \/ \E p \in {"toInfo", "done"} : Proceed(t) = [t EXCEPT !.pc = p]
          \/ Proceed(t) = [t EXCEPT !.pc = "toWrite", !.count = 3]
          \/ Proceed(t) = [t EXCEPT !.pc = "toWrite",
                                    !.pos = tool.pos + ChunkLen(File(tool.upload), tool.pos),
                                    !.count = 3]
      BY <1>7 DEF Proceed
    <3> QED
      BY <3>1, <3>2, <3>3, <3>4, <3>5
  <2> QED
    BY <2>2, <2>3
<1>9. CASE TakeAnswer
  <2> DEFINE t == [tool EXCEPT !.sync = FALSE, !.signal = FALSE, !.queue = Tail(@),
                               !.said = Said(Head(tool.queue))]
  <2>1. t \in Tool /\ t.upload = tool.upload /\ t.pos = tool.pos /\ ~t.signal
    BY <1>0, <1>9, TakenTyped DEF TakeAnswer
  <2>2. tool' = AfterException(t) \/ tool' = Proceed(t)
    BY <1>9 DEF TakeAnswer
  <2>3. tool' \in Tool /\ ~tool'.signal
    BY <1>7, <2>1, <2>2
  <2> QED
    BY <1>0, <1>3, <1>9, <2>3 DEF TakeAnswer, SlotsTypeOK
<1>10. CASE NoAnswer
  <2>1. tool' \in Tool /\ ~tool'.signal
    BY <1>0, <1>7, <1>10 DEF NoAnswer
  <2>2. budget' \in Budget
    BY <1>1, <1>a, <1>10 DEF NoAnswer
  <2> QED
    BY <1>0, <1>3, <1>10, <2>1, <2>2 DEF NoAnswer
<1>11. CASE AnswerArrives
  <2>1. Head(answers) \in UploadAnswers /\ Tail(answers) \in Seq(UploadAnswers)
    BY <1>0, <1>11, TailOf DEF AnswerArrives
  <2>2. Append(tool.queue, Head(answers)) \in Seq(UploadAnswers) /\ Append(tool.queue, Head(answers)) # <<>>
    BY <1>0, <2>1, AppendTo
  <2>3. Said(Head(answers)) \in Sayings
    BY <2>1, SaidTyped
  <2>4. Failed \in Sayings
    BY <1>b
  <2>5. tool' \in Tool /\ (tool'.signal => tool'.queue # <<>>)
    BY <1>0, <1>11, <2>2, <2>3, <2>4 DEF AnswerArrives, Tool
  <2> QED
    BY <1>0, <1>3, <1>11, <2>1, <2>5 DEF AnswerArrives, SlotsTypeOK
<1> QED
  BY <1>4, <1>5, <1>6, <1>9, <1>10, <1>11

LEMMA HandlerType ==
  ASSUME SlotsTypeOK, InOrder, LineLoses \/ CommandArrival \/ Restart \/ StartUpdate \/ ReadWord
  PROVE  SlotsTypeOK'
<1> USE DEF uploadVars, slotVars, takenVars
<1> DEFINE Infos == {Blank, Garbled} \cup ({"info"} \X (0 .. BlankSize))
<1>0. /\ info \in [FileSlot -> Infos]
      /\ complete \in [FileSlot -> BOOLEAN]
      /\ words \in [FileSlot -> [1 .. TopWord -> FlashWord]]
      /\ slotIndex \in FileSlot /\ slotOffset \in Nat /\ pushed \in Seq(FlashWord)
      /\ requests \in Seq(UploadRequests) /\ answers \in Seq(UploadAnswers)
      /\ reader \in Reader /\ suspect \subseteq FileSlot /\ owner \in Uploads
      /\ budget \in Budget /\ reached \in Nat /\ broken \in BOOLEAN /\ faulty \in BOOLEAN
  BY Typed DEF SlotsTypeOK
<1>1. /\ <<>> \in Seq(UploadRequests) /\ <<>> \in Seq(FlashWord) /\ Blank \in FlashWord
      /\ Garbled \in FlashWord /\ Blank \in Infos /\ Garbled \in Infos
      /\ 0 \in 0 .. HEADER + BlankSize /\ HEADER \in 0 .. HEADER + BlankSize /\ 0 \in FileSlot
  BY Parameters DEF FlashWord, FileSlot
<1>2. ASSUME NEW kind \in {"access", "info", "write"}, Arrived(kind)
      PROVE  /\ Head(requests) \in UploadRequests /\ Head(requests).kind = kind
             /\ requests' \in Seq(UploadRequests) /\ Head(requests) = requests[1]
             /\ 1 \in DOMAIN requests
  BY <1>0, <1>2, TailOf DEF Arrived
<1>3. ASSUME NEW kind \in {"ok", "done", "error"}, NEW upload \in Uploads, NEW crc \in Seq(FlashWord),
             answers' = Append(answers, [kind |-> kind, upload |-> upload, crc |-> crc])
      PROVE  answers' \in Seq(UploadAnswers)
  <2>1. [kind |-> kind, upload |-> upload, crc |-> crc] \in UploadAnswers
    BY DEF UploadAnswers
  <2> QED
    BY <1>0, <1>3, <2>1, AppendTo
<1>4. ASSUME NEW kind \in {"ok", "error"}, Answer(kind), Head(requests).upload \in Uploads
      PROVE  answers' \in Seq(UploadAnswers)
  BY <1>1, <1>3, <1>4 DEF Answer
<1> HIDE DEF Infos
<1>5. CASE LineLoses
  <2>1. requests' \in Seq(UploadRequests) /\ answers' \in Seq(UploadAnswers)
    <3>1. requests # <<>> => Tail(requests) \in Seq(UploadRequests)
      BY <1>0, TailOf
    <3>2. answers # <<>> => Tail(answers) \in Seq(UploadAnswers)
      BY <1>0, TailOf
    <3> QED
      BY <1>0, <1>5, <3>1, <3>2 DEF LineLoses
  <2>2. budget' \in Budget /\ faulty' \in BOOLEAN
    BY <1>0, <1>5, Spent DEF LineLoses
  <2> QED
    BY <1>5, <2>1, <2>2 DEF LineLoses, SlotsTypeOK
<1>6. CASE CommandAccess
  <2>1. Head(requests).slot \in FileSlot /\ Head(requests).upload \in Uploads
        /\ requests' \in Seq(UploadRequests)
    BY <1>2, <1>6, RequestTyped DEF CommandAccess
  <2>2. answers' \in Seq(UploadAnswers)
    BY <1>4, <1>6, <2>1 DEF CommandAccess
  <2>3. info' \in [FileSlot -> Infos] /\ complete' \in [FileSlot -> BOOLEAN]
    BY <1>0, <1>1, <1>6, <2>1 DEF CommandAccess
  <2>4. words' \in [FileSlot -> [1 .. TopWord -> FlashWord]]
    <3>1. [i \in 1 .. TopWord |-> Blank] \in [1 .. TopWord -> FlashWord]
      BY <1>1
    <3> QED
      BY <1>0, <1>6, <2>1, <3>1 DEF CommandAccess
  <2>5. reader' \in Reader
    BY <1>0, <1>6 DEF CommandAccess, Reader
  <2>6. suspect' \subseteq FileSlot /\ owner' \in Uploads /\ broken' \in BOOLEAN /\ reached' \in Nat
    BY <1>0, <1>6, <2>1 DEF CommandAccess
  <2>7. slotIndex' \in FileSlot /\ slotOffset' \in 0 .. HEADER + BlankSize /\ pushed' \in Seq(FlashWord)
    BY <1>1, <1>6, <2>1 DEF CommandAccess
  <2> QED
    BY <1>6, <2>1, <2>2, <2>3, <2>4, <2>5, <2>6, <2>7 DEF CommandAccess, SlotsTypeOK, Infos
<1>7. CASE CommandWriteInfo
  <2>1. Head(requests).upload \in Uploads /\ requests' \in Seq(UploadRequests)
        /\ File(Head(requests).upload) \in Files
    BY <1>2, <1>7, RequestTyped DEF CommandWriteInfo
  <2>2. answers' \in Seq(UploadAnswers)
    BY <1>4, <1>7, <2>1 DEF CommandWriteInfo
  <2>3. info' \in [FileSlot -> Infos]
    <3>1. PICK s \in 0 .. FileSize[File(Head(requests).upload)] :
            info' = info \/ info' = [info EXCEPT ![slotIndex] = <<"info", s>>]
      BY <1>7 DEF CommandWriteInfo
    <3>2. <<"info", s>> \in Infos
      BY <2>1, Parameters DEF Infos
    <3> QED
      BY <1>0, <3>1, <3>2
  <2>4. suspect' \subseteq FileSlot /\ broken' \in BOOLEAN
    BY <1>0, <1>7 DEF CommandWriteInfo
  <2> QED
    BY <1>1, <1>7, <2>1, <2>2, <2>3, <2>4 DEF CommandWriteInfo, SlotsTypeOK, Infos
<1>8. CASE CommandWriteRefused
  <2>1. Head(requests).upload \in Uploads /\ requests' \in Seq(UploadRequests)
    BY <1>2, <1>8, RequestTyped DEF CommandWriteRefused
  <2>2. answers' \in Seq(UploadAnswers)
    BY <1>4, <1>8, <2>1 DEF CommandWriteRefused
  <2> QED
    BY <1>8, <2>1, <2>2 DEF CommandWriteRefused, SlotsTypeOK
<1>9. CASE CommandWrite
  <2> DEFINE r == Head(requests)
             chunk == [k \in 1 .. WordsOf(r.len) |-> DataWord(File(r.upload), r.from \div WORD + k)]
             first == (slotOffset - HEADER) \div WORD
  <2>1. /\ r.upload \in Uploads /\ requests' \in Seq(UploadRequests) /\ File(r.upload) \in Files
        /\ r.from \in Nat /\ r.len \in Nat
    BY <1>2, <1>9, RequestTyped DEF CommandWrite
  <2>2. chunk \in Seq(FlashWord) /\ \A k \in DOMAIN chunk : chunk[k] \in FlashWord
    <3>1. WordsOf(r.len) \in Nat /\ r.from \div WORD \in Nat
      BY <2>1, WordsCounted
    <3>2. ASSUME NEW n \in Nat PROVE DataWord(File(r.upload), n) \in FlashWord
      BY <2>1 DEF DataWord, FlashWord
    <3>3. \A k \in 1 .. WordsOf(r.len) : DataWord(File(r.upload), r.from \div WORD + k) \in FlashWord
      BY <3>1, <3>2
    <3> QED
      BY <3>1, <3>3
  <2> HIDE DEF chunk
  <2>3. pushed' \in Seq(FlashWord)
    <3>1. pushed' = pushed \o chunk
      BY <1>9 DEF CommandWrite, chunk
    <3> QED
      BY <1>0, <2>2, <3>1
  <2>4. info' \in [FileSlot -> Infos]
    BY <1>0, <1>1, <1>9 DEF CommandWrite
  <2>5. PICK size \in 0 .. BlankSize :
          /\ SizeRead(size) /\ Fits(r.len, size)
          /\ complete' = [complete EXCEPT ![slotIndex] = @ \/ Completes(r.len, size)]
          /\ answers' = Append(answers,
               [kind |-> IF Completes(r.len, size) THEN "done" ELSE "ok",
                upload |-> r.upload,
                crc |-> IF ~Completes(r.len, size) THEN <<>>
                        ELSE IF complete[slotIndex] \/ info'[slotIndex] = Garbled
                        THEN <<Garbled>> ELSE pushed'])
    BY <1>9 DEF CommandWrite
  <2>6. complete' \in [FileSlot -> BOOLEAN]
    <3>1. Completes(r.len, size) \in BOOLEAN
      BY DEF Completes
    <3> QED
      BY <1>0, <2>5, <3>1
  <2>7. answers' \in Seq(UploadAnswers)
    <3>1. <<Garbled>> \in Seq(FlashWord)
      BY <1>1
    <3>2. CASE Completes(r.len, size)
      BY <1>3, <2>1, <2>3, <2>5, <3>1, <3>2
    <3>3. CASE ~Completes(r.len, size)
      BY <1>1, <1>3, <2>1, <2>5, <3>3
    <3> QED
      BY <3>2, <3>3
  <2>8. words' \in [FileSlot -> [1 .. TopWord -> FlashWord]]
    <3>1. ASSUME NEW i \in 1 .. TopWord
          PROVE  (IF i - first \in DOMAIN chunk
                  THEN ProgramWord(words[slotIndex][i], chunk[i - first])
                  ELSE words[slotIndex][i]) \in FlashWord
      <4>1. words[slotIndex][i] \in FlashWord
        BY <1>0
      <4>2. i - first \in DOMAIN chunk => chunk[i - first] \in FlashWord
        BY <2>2
      <4> QED
        BY <1>1, <4>1, <4>2 DEF ProgramWord
    <3>2. \/ words' = words
          \/ words' = [words EXCEPT ![slotIndex] =
               [i \in 1 .. TopWord |->
                  IF i - first \in DOMAIN chunk
                  THEN ProgramWord(words[slotIndex][i], chunk[i - first]) ELSE words[slotIndex][i]]]
      BY <1>9 DEF CommandWrite, chunk
    <3> HIDE DEF first
    <3> QED
      BY <1>0, <3>1, <3>2
  <2>9. slotOffset' \in 0 .. HEADER + BlankSize
    <3>1. slotOffset' = slotOffset + r.len
      BY <1>9 DEF CommandWrite
    <3> QED
      <4>1. slotOffset + r.len <= HEADER + BlankSize
        <5>1. size \in Nat /\ size <= BlankSize /\ slotOffset + r.len - HEADER <= size
          BY <2>5, Parameters DEF Fits
        <5> QED
          BY <1>0, <2>1, <5>1, Parameters, SMTT(30)
      <4>2. slotOffset + r.len \in Nat
        BY <1>0, <2>1
      <4> QED
        BY <3>1, <4>1, <4>2, Parameters
  <2>10. reached' \in Nat /\ broken' \in BOOLEAN /\ suspect' \subseteq FileSlot
    <3>1. reached' = r.from + r.len /\ broken' \in BOOLEAN
      BY <1>0, <1>9 DEF CommandWrite
    <3>2. suspect' = suspect \/ suspect' = suspect \cup {slotIndex}
      BY <1>9 DEF CommandWrite
    <3> QED
      BY <1>0, <2>1, <3>1, <3>2
  <2>11. UNCHANGED <<slotIndex, tool, reader, budget, faulty, owner>>
    BY <1>9 DEF CommandWrite
  <2> QED
    BY <2>1, <2>3, <2>4, <2>6, <2>7, <2>8, <2>9, <2>10, <2>11 DEF SlotsTypeOK, Infos
<1>10. NoReader \in Reader
  BY <1>1, Parameters DEF NoReader, Reader
<1>11. CASE Restart
  <2>1. budget' \in Budget /\ faulty' \in BOOLEAN /\ broken' \in BOOLEAN
    BY <1>0, <1>11, Spent DEF Restart
  <2> QED
    BY <1>1, <1>10, <1>11, <2>1 DEF Restart, SlotsTypeOK
<1>12. CASE StartUpdate
  <2>1. budget' \in Budget
    BY <1>0, <1>12, Spent DEF StartUpdate
  <2>2. PICK s \in FileSlot :
          /\ Ready(s) /\ reader' = [NoReader EXCEPT !.pc = "reading", !.slot = s, !.size = info[s][2],
                                                     !.disturbed = s \in suspect]
    BY <1>12 DEF StartUpdate
  <2>3. info[s][2] \in 0 .. BlankSize
    <3>1. info[s] \in Infos /\ info[s][1] = "info"
      BY <1>0, <2>2 DEF Ready
    <3>2. Blank[1] # "info" /\ Garbled[1] # "info"
      BY DEF Blank, Garbled
    <3>3. info[s] \in {"info"} \X (0 .. BlankSize)
      BY <3>1, <3>2 DEF Infos
    <3> QED
      BY <3>3
  <2>4. reader' \in Reader
    <3>1. (s \in suspect) \in BOOLEAN
      OBVIOUS
    <3>2. ASSUME NEW n \in 0 .. BlankSize, NEW d \in BOOLEAN
          PROVE  [NoReader EXCEPT !.pc = "reading", !.slot = s, !.size = n, !.disturbed = d] \in Reader
      BY <1>10 DEF Reader
    <3> QED
      BY <2>2, <2>3, <3>1, <3>2
  <2> QED
    BY <1>12, <2>1, <2>4 DEF StartUpdate, SlotsTypeOK
<1>13. CASE ReadWord
  <2>1. reader.slot \in FileSlot /\ reader.size \in 0 .. BlankSize /\ reader.read \in Seq(FlashWord)
    BY <1>0 DEF Reader
  <2>2. WordsOf(reader.size) \in Nat /\ Len(reader.read) \in Nat
    <3>1. reader.size \in Nat
      BY <2>1, Parameters
    <3>2. Len(reader.read) \in Nat
      BY <2>1
    <3> QED
      BY <3>1, <3>2, WordsNat
  <2>3. CASE Len(reader.read) < WordsOf(reader.size)
    <3>1. WordsOf(reader.size) <= TopWord
      BY <2>1, WordsFit, Parameters
    <3>2. words[reader.slot][Len(reader.read) + 1] \in FlashWord
      <4>1. Len(reader.read) + 1 \in 1 .. TopWord
        BY <2>2, <2>3, <3>1, Parameters
      <4> QED
        BY <1>0, <2>1, <4>1
    <3>3. Append(reader.read, words[reader.slot][Len(reader.read) + 1]) \in Seq(FlashWord)
      BY <2>1, <3>2, AppendTo
    <3>4. reader' = [reader EXCEPT !.read = Append(@, words[reader.slot][Len(@) + 1])]
      BY <1>13, <2>3 DEF ReadWord
    <3>5. reader' \in Reader
      BY <1>0, <3>3, <3>4 DEF Reader
    <3> QED
      BY <1>13, <3>5 DEF ReadWord, SlotsTypeOK
  <2>4. CASE ~(Len(reader.read) < WordsOf(reader.size))
    <3>1. reader' \in Reader
      BY <1>0, <1>13, <2>4 DEF ReadWord, Reader
    <3> QED
      BY <1>13, <3>1 DEF ReadWord, SlotsTypeOK
  <2> QED
    BY <2>3, <2>4
<1> QED
  BY <1>5, <1>6, <1>7, <1>8, <1>9, <1>11, <1>12, <1>13 DEF CommandArrival

LEMMA SlotsTypeStep ==
  SlotsTypeOK /\ InOrder /\ Sent /\ [SlotsNext]_uploadVars => SlotsTypeOK'
<1> SUFFICES ASSUME SlotsTypeOK, InOrder, Sent, [SlotsNext]_uploadVars PROVE SlotsTypeOK'
  OBVIOUS
<1>1. CASE UNCHANGED uploadVars
  BY <1>1 DEF SlotsTypeOK, uploadVars, slotVars, takenVars
<1> QED
  BY <1>1, ToolType, HandlerType DEF SlotsNext

----------------------------------------------------------------------------
(* What is on the line stays in order.                                     *)
LEMMA OrderKept ==
  ASSUME SlotsTypeOK, InOrder, tool'.upload = tool.upload,
         budget'.uploads <= budget.uploads, budget'.uploads \in Nat, budget.uploads < owner'[1],
         \/ requests' = requests \/ requests' = <<>>
         \/ requests # <<>> /\ requests' = Tail(requests),
         owner'[1] \in Nat
  PROVE  InOrder'
<1>1. requests \in Seq(UploadRequests) /\ tool.upload[1] \in Nat /\ budget.uploads \in Nat
  BY Typed
<1>2. CASE requests' = requests
  BY <1>1, <1>2 DEF InOrder, Before, IsChunk, File, ChunkLen
<1>3. CASE requests' = <<>>
  BY <1>1, <1>3 DEF InOrder
<1>4. CASE requests # <<>> /\ requests' = Tail(requests)
  <2>1. \A i \in DOMAIN requests' : i \in Nat /\ i + 1 \in DOMAIN requests /\ requests'[i] = requests[i + 1]
    BY <1>1, <1>4, TailOf
  <2>2. \A i, j \in DOMAIN requests' : i < j => Before(requests'[i], requests'[j])
    <3>1. \A i, j \in DOMAIN requests : i < j => Before(requests[i], requests[j])
      BY DEF InOrder
    <3>2. TAKE i, j \in DOMAIN requests'
    <3>3. i < j => i + 1 < j + 1
      BY <2>1
    <3> QED
      BY <2>1, <3>1, <3>3
  <2>3. \A i \in DOMAIN requests' :
          /\ requests'[i].upload[1] >= tool.upload[1]
          /\ requests'[i].upload[1] = tool.upload[1] => requests'[i].upload = tool.upload
          /\ requests'[i].kind = "write" =>
               IsChunk(File(requests'[i].upload), requests'[i].from, requests'[i].len)
    <3>1. \A i \in DOMAIN requests :
            /\ requests[i].upload[1] >= tool.upload[1]
            /\ requests[i].upload[1] = tool.upload[1] => requests[i].upload = tool.upload
            /\ requests[i].kind = "write" =>
                 IsChunk(File(requests[i].upload), requests[i].from, requests[i].len)
      BY DEF InOrder
    <3> QED
      BY <2>1, <3>1
  <2>4. budget'.uploads < tool'.upload[1] /\ budget'.uploads < owner'[1]
    BY <1>1 DEF InOrder
  <2> QED
    BY <2>2, <2>3, <2>4 DEF InOrder, Before, IsChunk, File, ChunkLen
<1> QED
  BY <1>2, <1>3, <1>4

LEMMA OrderGrows ==
  ASSUME SlotsTypeOK, InOrder, NEW r \in UploadRequests, requests' = Append(requests, r),
         tool'.upload = r.upload, r.upload[1] <= tool.upload[1],
         budget'.uploads < r.upload[1], budget'.uploads < owner'[1],
         r.kind = "write" => IsChunk(File(r.upload), r.from, r.len),
         \A i \in DOMAIN requests :
           /\ Before(requests[i], r)
           /\ requests[i].upload[1] = r.upload[1] => requests[i].upload = r.upload
  PROVE  InOrder'
<1>1. requests \in Seq(UploadRequests) /\ tool.upload[1] \in Nat /\ r.upload[1] \in Nat
  BY Typed, RequestTyped
<1>2. /\ \A i \in DOMAIN requests' :
           (i \in DOMAIN requests /\ requests'[i] = requests[i]) \/ (i = Len(requests) + 1 /\ requests'[i] = r)
      /\ DOMAIN requests = 1 .. Len(requests) /\ Len(requests) \in Nat
  BY <1>1, AppendTo
<1>3. \A i, j \in DOMAIN requests' : i < j => Before(requests'[i], requests'[j])
  <2>1. \A i, j \in DOMAIN requests : i < j => Before(requests[i], requests[j])
    BY DEF InOrder
  <2>2. TAKE i, j \in DOMAIN requests'
  <2>3. i < j => i \in DOMAIN requests
    BY <1>2
  <2> QED
    BY <1>2, <2>1, <2>3
<1>4. \A i \in DOMAIN requests' :
        /\ requests'[i].upload[1] >= r.upload[1]
        /\ requests'[i].upload[1] = r.upload[1] => requests'[i].upload = r.upload
        /\ requests'[i].kind = "write" =>
             IsChunk(File(requests'[i].upload), requests'[i].from, requests'[i].len)
  <2>1. \A i \in DOMAIN requests :
          /\ requests[i].upload[1] >= tool.upload[1]
          /\ requests[i].kind = "write" =>
               IsChunk(File(requests[i].upload), requests[i].from, requests[i].len)
    BY DEF InOrder
  <2>2. \A i \in DOMAIN requests : requests[i].upload[1] \in Nat
    BY <1>1, RequestTyped
  <2> TAKE i \in DOMAIN requests'
  <2>3. CASE i \in DOMAIN requests /\ requests'[i] = requests[i]
    <3>1. requests[i].upload[1] >= r.upload[1]
      BY <1>1, <2>1, <2>2, <2>3
    <3> QED
      BY <2>1, <2>3, <3>1
  <2>4. CASE requests'[i] = r
    BY <1>1, <2>4
  <2> QED
    BY <1>2, <2>3, <2>4
<1> QED
  BY <1>3, <1>4 DEF InOrder, Before, IsChunk, File, ChunkLen

(* What the tool's process keeps when no request is sent.                  *)
LEMMA ToolAnswered ==
  ASSUME SlotsTypeOK, TakeAnswer \/ NoAnswer \/ AnswerArrives
  PROVE  /\ tool'.upload = tool.upload /\ tool'.slot = tool.slot /\ tool'.fed = tool.fed
         /\ \/ tool'.pos = tool.pos
            \/ /\ tool'.pos = tool.pos + ChunkLen(File(tool.upload), tool.pos)
               /\ tool'.pos < FileSize[File(tool.upload)]
         /\ tool'.pc \in {"access", "toInfo"} => tool.pc \in {"access", "toInfo"}
         /\ budget'.uploads = budget.uploads
         /\ UNCHANGED <<slotVars, slotIndex, slotOffset, pushed, requests, reader, takenVars>>
<1>1. tool \in Tool /\ budget \in Budget
  BY DEF SlotsTypeOK
<1>2. CASE AnswerArrives
  BY <1>1, <1>2 DEF AnswerArrives, Tool
<1>3. budget'.uploads = budget.uploads
  BY <1>1 DEF TakeAnswer, NoAnswer, AnswerArrives, Spend, Budget
<1>4. ASSUME NEW t \in Tool, t.pc \in {"access", "info", "write"},
             NEW u, u = AfterException(t) \/ u = Proceed(t)
      PROVE  /\ u.upload = t.upload /\ u.slot = t.slot /\ u.fed = t.fed
             /\ \/ u.pos = t.pos
                \/ /\ u.pos = t.pos + ChunkLen(File(t.upload), t.pos)
                   /\ u.pos < FileSize[File(t.upload)]
             /\ u.pc \in {"access", "toInfo"} => t.pc \in {"access", "toInfo"}
  <2>1. CASE u = AfterException(t)
    <3>1. u = [t EXCEPT !.pc = "toWrite", !.count = @ - 1] \/ u = [t EXCEPT !.pc = "done", !.said = Failed]
      <4>1. t.count \in 0 .. 3
        BY <1>4 DEF Tool
      <4> QED
        BY <1>4, <2>1, <4>1 DEF AfterException
    <3> QED
      BY <1>4, <3>1 DEF Tool
  <2>2. CASE u = Proceed(t)
    <3>1. \/ t.pc = "access" /\ u = [t EXCEPT !.pc = "toInfo"]
          \/ u = [t EXCEPT !.pc = "toWrite", !.count = 3]
          \/ /\ t.pos + ChunkLen(File(t.upload), t.pos) < FileSize[File(t.upload)]
             /\ u = [t EXCEPT !.pc = "toWrite", !.pos = t.pos + ChunkLen(File(t.upload), t.pos), !.count = 3]
          \/ u = [t EXCEPT !.pc = "done"]
      BY <1>4, <2>2 DEF Proceed
    <3> QED
      BY <1>4, <3>1 DEF Tool
  <2> QED
    BY <1>4, <2>1, <2>2
<1>5. CASE NoAnswer
  <2>1. tool.pc \in {"access", "info", "write"} /\ tool' = AfterException(tool)
    BY <1>5 DEF NoAnswer, Waiting
  <2> QED
    BY <1>1, <1>3, <1>4, <1>5, <2>1 DEF NoAnswer, Tool
<1>6. CASE TakeAnswer
  <2> DEFINE t == [tool EXCEPT !.sync = FALSE, !.signal = FALSE, !.queue = Tail(@),
                               !.said = Said(Head(tool.queue))]
  <2>1. tool.pc \in {"access", "info", "write"} /\ t \in Tool
        /\ (tool' = AfterException(t) \/ tool' = Proceed(t))
    BY <1>6, TakenTyped DEF TakeAnswer, Waiting
  <2>2. t.pc = tool.pc /\ t.upload = tool.upload /\ t.slot = tool.slot /\ t.pos = tool.pos /\ t.fed = tool.fed
    BY <1>6, TakenTyped DEF TakeAnswer
  <2> HIDE DEF t
  <2> QED
    BY <1>3, <1>4, <1>6, <2>1, <2>2 DEF TakeAnswer
<1> QED
  BY <1>2, <1>3, <1>5, <1>6

LEMMA OrderStep ==
  SlotsTypeOK /\ InOrder /\ Sent /\ [SlotsNext]_uploadVars => InOrder'
<1> SUFFICES ASSUME SlotsTypeOK, InOrder, Sent, [SlotsNext]_uploadVars PROVE InOrder'
  OBVIOUS
<1>0. /\ requests \in Seq(UploadRequests) /\ budget.uploads \in Nat /\ tool.upload[1] \in Nat
      /\ owner[1] \in Nat /\ budget \in Budget /\ tool \in Tool /\ File(tool.upload) \in Files
      /\ tool.pos \in Nat /\ tool.upload \in Uploads
      /\ budget.uploads < tool.upload[1] /\ budget.uploads < owner[1]
  BY Typed DEF SlotsTypeOK, InOrder
<1>1. \A i \in DOMAIN requests :
        /\ requests[i].upload[1] \in Nat /\ requests[i].upload[1] >= tool.upload[1]
        /\ requests[i].upload[1] = tool.upload[1] => requests[i].upload = tool.upload
        /\ requests[i].kind \in {"access", "info", "write"}
  BY <1>0, RequestTyped DEF InOrder
<1>2. ASSUME requests' = requests \/ requests' = <<>> \/ (requests # <<>> /\ requests' = Tail(requests)),
             tool'.upload = tool.upload, budget'.uploads = budget.uploads, owner' = owner
      PROVE  InOrder'
  BY <1>0, <1>2, OrderKept
<1>3. ASSUME NEW f \in Files, NEW s \in FileSlot, StartUpload(f, s) PROVE InOrder'
  <2> DEFINE r == [kind |-> "access", upload |-> <<budget.uploads, f>>, slot |-> s]
  <2>1. budget.uploads > 0 /\ budget'.uploads = budget.uploads - 1 /\ owner' = owner
        /\ tool'.upload = r.upload /\ requests' = Append(requests, r)
    BY <1>0, <1>3 DEF StartUpload, Spend, NoTool, Budget, takenVars
  <2>2. r \in UploadRequests /\ r.upload[1] = budget.uploads /\ r.kind = "access"
    <3>1. budget.uploads \in 0 .. MaxUploads + 1
      BY Typed, Parameters, SMTT(30)
    <3>2. <<budget.uploads, f>> \in Uploads
      BY <3>1 DEF Uploads
    <3> QED
      BY <3>2 DEF UploadRequests
  <2>3. ASSUME NEW i \in DOMAIN requests PROVE requests[i].upload[1] > r.upload[1]
    BY <1>0, <1>1, <2>2
  <2>4. ASSUME NEW i \in DOMAIN requests
        PROVE  /\ Before(requests[i], r)
               /\ requests[i].upload[1] = r.upload[1] => requests[i].upload = r.upload
    BY <1>0, <1>1, <2>2, <2>3 DEF Before
  <2> HIDE DEF r
  <2> QED
    BY <1>0, <2>1, <2>2, <2>4, OrderGrows
<1>4. CASE SendInfo
  <2> DEFINE r == [kind |-> "info", upload |-> tool.upload]
  <2>1. budget' = budget /\ owner' = owner /\ tool'.upload = tool.upload /\ requests' = Append(requests, r)
    BY <1>0, <1>4 DEF SendInfo, takenVars, Tool
  <2>2. r \in UploadRequests /\ r.upload = tool.upload /\ r.kind = "info"
    BY <1>0 DEF UploadRequests
  <2>3. ASSUME NEW i \in DOMAIN requests
        PROVE  /\ Before(requests[i], r)
               /\ requests[i].upload[1] = r.upload[1] => requests[i].upload = r.upload
    <3>1. requests[i].upload = tool.upload => requests[i].kind = "access"
      BY <1>4 DEF SendInfo, Sent
    <3> QED
      BY <1>0, <1>1, <2>2, <3>1 DEF Before
  <2> HIDE DEF r
  <2> QED
    BY <1>0, <2>1, <2>2, <2>3, OrderGrows
<1>5. CASE SendChunk
  <2> DEFINE r == [kind |-> "write", upload |-> tool.upload, from |-> tool.pos,
                   len |-> ChunkLen(File(tool.upload), tool.pos)]
  <2>1. budget' = budget /\ owner' = owner /\ tool'.upload = tool.upload /\ requests' = Append(requests, r)
    BY <1>0, <1>5 DEF SendChunk, takenVars, Tool
  <2>2. ChunkLen(File(tool.upload), tool.pos) \in Nat
    BY <1>0, Chunks DEF Sent
  <2>3. r \in UploadRequests /\ r.upload = tool.upload /\ r.kind = "write"
    BY <1>0, <2>2 DEF UploadRequests
  <2>4. IsChunk(File(r.upload), r.from, r.len)
    BY DEF IsChunk, Sent
  <2>5. ASSUME NEW i \in DOMAIN requests
        PROVE  /\ Before(requests[i], r)
               /\ requests[i].upload[1] = r.upload[1] => requests[i].upload = r.upload
    BY <1>0, <1>1, <2>3 DEF Before
  <2> HIDE DEF r
  <2> QED
    BY <1>0, <2>1, <2>3, <2>4, <2>5, OrderGrows
<1>6. CASE TakeAnswer \/ NoAnswer \/ AnswerArrives
  BY <1>2, <1>6, ToolAnswered DEF takenVars
<1>7. CASE LineLoses
  BY <1>0, <1>2, <1>7 DEF LineLoses, Spend, Budget, takenVars
<1>8. CASE CommandAccess
  <2>1. requests # <<>> /\ requests' = Tail(requests) /\ tool' = tool /\ budget' = budget
        /\ owner' = Head(requests).upload
    BY <1>8 DEF CommandAccess, Arrived
  <2>2. owner'[1] \in Nat /\ budget.uploads < owner'[1]
    BY <1>0, <1>1, <2>1, TailOf
  <2> QED
    BY <1>0, <2>1, <2>2, OrderKept
<1>9. CASE CommandWriteInfo
  BY <1>2, <1>9 DEF CommandWriteInfo, Arrived
<1>10. CASE CommandWriteRefused
  BY <1>2, <1>10 DEF CommandWriteRefused, Arrived, takenVars
<1>11. CASE CommandWrite
  <2>1. requests # <<>> /\ requests' = Tail(requests) /\ tool' = tool /\ budget' = budget /\ owner' = owner
    BY <1>11 DEF CommandWrite, Arrived
  <2> QED
    BY <1>2, <2>1
<1>12. CASE Restart
  BY <1>0, <1>2, <1>12 DEF Restart, Spend, Budget
<1>13. CASE StartUpdate
  BY <1>0, <1>2, <1>13 DEF StartUpdate, Spend, Budget, takenVars
<1>14. CASE ReadWord
  BY <1>2, <1>14 DEF ReadWord, takenVars
<1>15. CASE UNCHANGED uploadVars
  BY <1>2, <1>15 DEF uploadVars, takenVars
<1> QED
  BY <1>3, <1>4, <1>5, <1>6, <1>7, <1>8, <1>9, <1>10, <1>11, <1>12, <1>13, <1>14, <1>15
     DEF SlotsNext, ToolNext, CommandArrival

----------------------------------------------------------------------------
(* The slot that is accessed.                                              *)

(* What CommandWrite does; the words of the request and where they go.     *)
Chunk(r) == [k \in 1 .. WordsOf(r.len) |-> DataWord(File(r.upload), r.from \div WORD + k)]

LEMMA RequestTaken ==
  ASSUME SlotsTypeOK, InOrder,
         NEW kind \in {"access", "info", "write"}, Arrived(kind)
  PROVE  LET r == Head(requests) IN
         /\ r \in UploadRequests /\ r = requests[1] /\ 1 \in DOMAIN requests /\ r.kind = kind
         /\ r.upload \in Uploads /\ r.upload[1] \in Nat /\ File(r.upload) \in Files
         /\ FileSize[File(r.upload)] \in Nat \ {0}
         /\ requests' \in Seq(UploadRequests)
         /\ \A i \in DOMAIN requests' : i + 1 \in DOMAIN requests /\ requests'[i] = requests[i + 1]
         /\ \A i \in DOMAIN requests' : Before(r, requests'[i])
         /\ kind = "access" => r.slot \in FileSlot
         /\ kind = "write" =>
              /\ r.from \in Nat /\ r.len \in Nat \ {0} /\ r.from % WORD = 0
              /\ r.from + r.len <= FileSize[File(r.upload)]
              /\ r.len = ChunkLen(File(r.upload), r.from) /\ r.from < FileSize[File(r.upload)]
<1> DEFINE r == Head(requests)
<1>1. requests \in Seq(UploadRequests) /\ requests # <<>> /\ requests' = Tail(requests) /\ r.kind = kind
  BY Typed DEF Arrived
<1>2. /\ r \in UploadRequests /\ r = requests[1] /\ 1 \in DOMAIN requests
      /\ requests' \in Seq(UploadRequests)
      /\ \A i \in DOMAIN requests' : i + 1 \in DOMAIN requests /\ requests'[i] = requests[i + 1]
  BY <1>1, TailOf
<1>3. /\ r.upload \in Uploads /\ r.upload[1] \in Nat /\ File(r.upload) \in Files
      /\ kind = "access" => r.slot \in FileSlot
      /\ kind = "write" => r.from \in Nat /\ r.len \in Nat
  BY <1>1, <1>2, RequestTyped
<1>4. ASSUME NEW i \in DOMAIN requests' PROVE Before(r, requests'[i])
  <2>1. i + 1 \in DOMAIN requests /\ requests'[i] = requests[i + 1] /\ 1 < i + 1
    BY <1>2
  <2> QED
    BY <1>2, <2>1 DEF InOrder
<1>5. ASSUME kind = "write"
      PROVE  /\ r.len \in Nat \ {0} /\ r.from % WORD = 0
             /\ r.from + r.len <= FileSize[File(r.upload)]
             /\ r.len = ChunkLen(File(r.upload), r.from) /\ r.from < FileSize[File(r.upload)]
  <2>1. IsChunk(File(r.upload), r.from, r.len)
    BY <1>1, <1>2, <1>5 DEF InOrder
  <2>2. r.from % WORD = 0 /\ r.from < FileSize[File(r.upload)] /\ r.len = ChunkLen(File(r.upload), r.from)
    BY <2>1 DEF IsChunk
  <2> HIDE DEF r
  <2> QED
    BY <1>3, <1>5, <2>2, Chunks
<1>6. FileSize[File(r.upload)] \in Nat \ {0}
  BY <1>3, Parameters
<1> HIDE DEF r
<1>7. kind = "write" => r.from \in Nat
  BY <1>3
<1> QED
  BY <1>1, <1>2, <1>3, <1>4, <1>5, <1>6, <1>7 DEF r

LEMMA WriteEffect ==
  ASSUME SlotsTypeOK, InOrder, CommandWrite
  PROVE  LET r == Head(requests)
             first == (slotOffset - HEADER) \div WORD IN
         /\ slotIndex' = slotIndex /\ owner' = owner /\ slotOffset' = slotOffset + r.len
         /\ reached' = r.from + r.len /\ pushed' = pushed \o Chunk(r)
         /\ broken' = (broken \/ r.upload # owner)
         /\ suspect' = IF broken' \/ r.from < reached THEN suspect \cup {slotIndex} ELSE suspect
         /\ info' = IF slotOffset < HEADER THEN [info EXCEPT ![slotIndex] = Garbled] ELSE info
         /\ \E size \in 0 .. BlankSize :
              /\ SizeRead(size) /\ Fits(r.len, size)
              /\ complete' = [complete EXCEPT ![slotIndex] = @ \/ Completes(r.len, size)]
              /\ answers' = Append(answers,
                   [kind |-> IF Completes(r.len, size) THEN "done" ELSE "ok",
                    upload |-> r.upload,
                    crc |-> IF ~Completes(r.len, size) THEN <<>>
                            ELSE IF complete[slotIndex] \/ info'[slotIndex] = Garbled
                            THEN <<Garbled>> ELSE pushed'])
         /\ \A s \in FileSlot \ {slotIndex} : words'[s] = words[s]
         /\ slotOffset % WORD = 0 =>
              \A i \in 1 .. TopWord :
                words'[slotIndex][i] = IF i - first \in DOMAIN Chunk(r)
                                       THEN ProgramWord(words[slotIndex][i], Chunk(r)[i - first])
                                       ELSE words[slotIndex][i]
         /\ r.len > LEAST
<1> DEFINE r == Head(requests)
           first == (slotOffset - HEADER) \div WORD
<1>1. words \in [FileSlot -> [1 .. TopWord -> FlashWord]] /\ slotIndex \in FileSlot
  BY Typed
<1>2. words' = IF slotOffset % WORD # 0 THEN words
               ELSE [words EXCEPT ![slotIndex] =
                       [i \in 1 .. TopWord |->
                          IF i - first \in DOMAIN Chunk(r)
                          THEN ProgramWord(words[slotIndex][i], Chunk(r)[i - first]) ELSE words[slotIndex][i]]]
  BY DEF CommandWrite, Chunk
<1> HIDE DEF first
<1>3. \A s \in FileSlot \ {slotIndex} : words'[s] = words[s]
  BY <1>1, <1>2
<1>4. slotOffset % WORD = 0 =>
        \A i \in 1 .. TopWord :
          words'[slotIndex][i] = IF i - first \in DOMAIN Chunk(r)
                                 THEN ProgramWord(words[slotIndex][i], Chunk(r)[i - first])
                                 ELSE words[slotIndex][i]
  BY <1>1, <1>2
<1> QED
  BY <1>3, <1>4 DEF CommandWrite, Chunk, first

LEMMA ChunkWords ==
  ASSUME NEW r, File(r.upload) \in Files, r.from \in Nat, r.len \in Nat
  PROVE  /\ DOMAIN Chunk(r) = 1 .. WordsOf(r.len) /\ Chunk(r) \in Seq(FlashWord)
         /\ Len(Chunk(r)) = WordsOf(r.len) /\ WordsOf(r.len) \in Nat
         /\ \A k \in 1 .. WordsOf(r.len) :
              Chunk(r)[k] = DataWord(File(r.upload), r.from \div WORD + k)
<1>1. WordsOf(r.len) \in Nat /\ r.from \div WORD \in Nat
  BY WordsNat
<1>2. ASSUME NEW n \in Nat PROVE DataWord(File(r.upload), n) \in FlashWord
  BY DEF DataWord, FlashWord
<1>3. \A k \in 1 .. WordsOf(r.len) : DataWord(File(r.upload), r.from \div WORD + k) \in FlashWord
  BY <1>1, <1>2
<1> HIDE DEF DataWord
<1> QED
  BY <1>1, <1>3 DEF Chunk

(* Words are programmed after the ones before them, on blank ones.         *)
LEMMA Programming ==
  ASSUME SlotsTypeOK, InOrder, CommandWrite, slotOffset % WORD = 0,
         NEW first \in Nat, (slotOffset - HEADER) \div WORD = first,
         \A i \in 1 .. TopWord : i > first => words[slotIndex][i] = Blank
  PROVE  \A i \in 1 .. TopWord :
           words'[slotIndex][i] =
             IF i <= first THEN words[slotIndex][i]
             ELSE IF i <= first + WordsOf(Head(requests).len) THEN Chunk(Head(requests))[i - first]
             ELSE Blank
<1> DEFINE r == Head(requests)
           count == WordsOf(r.len)
<1>1. DOMAIN Chunk(r) = 1 .. count /\ count \in Nat
  BY RequestTaken, ChunkWords DEF CommandWrite
<1>2. \A i \in 1 .. TopWord :
        words'[slotIndex][i] = IF i - first \in DOMAIN Chunk(r)
                               THEN ProgramWord(words[slotIndex][i], Chunk(r)[i - first])
                               ELSE words[slotIndex][i]
  BY WriteEffect
<1> HIDE DEF r, count
<1> SUFFICES ASSUME NEW i \in 1 .. TopWord
             PROVE  words'[slotIndex][i] = IF i <= first THEN words[slotIndex][i]
                                           ELSE IF i <= first + count THEN Chunk(r)[i - first] ELSE Blank
  BY DEF r, count
<1>3. i \in Nat
  BY Parameters
<1>4. CASE i <= first
  <2>1. i - first \notin 1 .. count
    BY <1>3, <1>4
  <2> QED
    BY <1>1, <1>2, <1>4, <2>1
<1>5. CASE i > first /\ i <= first + count
  <2>1. i - first \in 1 .. count /\ words[slotIndex][i] = Blank /\ ~(i <= first)
    BY <1>1, <1>3, <1>5
  <2>2. words'[slotIndex][i] = Chunk(r)[i - first]
    BY <1>1, <1>2, <2>1 DEF ProgramWord
  <2> QED
    BY <1>5, <2>1, <2>2
<1>6. CASE i > first /\ i > first + count
  <2>1. i - first \notin 1 .. count /\ words[slotIndex][i] = Blank /\ ~(i <= first) /\ ~(i <= first + count)
    BY <1>1, <1>3, <1>6
  <2> QED
    BY <1>1, <1>2, <2>1
<1> QED
  BY <1>1, <1>3, <1>4, <1>5, <1>6

(* A slot in which n bytes of a file are written has the rest blank.       *)
LEMMA WriteKeeps ==
  ASSUME SlotsTypeOK, InOrder, CommandWrite, ~broken', InWriting
  PROVE  InWriting'
<1> DEFINE r == Head(requests)
           f == File(owner)
           size == FileSize[f]
           n == slotOffset - HEADER
<1>1. /\ r.from \in Nat /\ r.len \in Nat \ {0} /\ r.from % WORD = 0
      /\ r.from + r.len <= FileSize[File(r.upload)] /\ File(r.upload) \in Files
      /\ r.len = ChunkLen(File(r.upload), r.from) /\ r.from < FileSize[File(r.upload)]
  BY RequestTaken DEF CommandWrite
<1>2. /\ slotIndex' = slotIndex /\ owner' = owner /\ slotOffset' = slotOffset + r.len
      /\ reached' = r.from + r.len /\ pushed' = pushed \o Chunk(r)
      /\ ~broken /\ r.upload = owner
      /\ suspect' = IF r.from < reached THEN suspect \cup {slotIndex} ELSE suspect
  BY WriteEffect
<1>3. /\ slotIndex \in FileSlot /\ slotOffset \in Nat /\ pushed \in Seq(FlashWord) /\ reached \in Nat
      /\ f \in Files /\ size \in Nat \ {0} /\ HEADER \in Nat \ {0} /\ HEADER % WORD = 0
      /\ WORD \in Nat \ {0} /\ TopWord \in Nat
      /\ info \in [FileSlot -> {Blank, Garbled} \cup ({"info"} \X (0 .. BlankSize))]
      /\ complete \in [FileSlot -> BOOLEAN]
  BY Typed, Parameters
<1>4. /\ info[slotIndex] = <<"info", size>>
      /\ n \in 0 .. size /\ (complete[slotIndex] => n = size)
      /\ slotIndex \notin suspect =>
           /\ n <= reached /\ reached <= size
           /\ n = reached => Right(n)
      /\ n <= Len(pushed) * WORD
      /\ n = Len(pushed) * WORD => AsPushed
  BY DEF InWriting, Taken
<1>5. n \in Nat /\ slotOffset = HEADER + n /\ r.from + r.len <= size
  BY <1>1, <1>2, <1>3, <1>4
<1>6. info' = info
  <2>1. ~(slotOffset < HEADER)
    BY <1>3, <1>5
  <2> QED
    BY <2>1, WriteEffect
<1>7. PICK sz \in 0 .. BlankSize :
        /\ SizeRead(sz) /\ Fits(r.len, sz)
        /\ complete' = [complete EXCEPT ![slotIndex] = @ \/ Completes(r.len, sz)]
  BY WriteEffect
<1>8. sz = size /\ n + r.len <= size
  <2>1. <<"info", size>> # Blank /\ <<"info", size>> # Garbled
    BY DEF Blank, Garbled
  <2>2. sz = size
    BY <1>4, <1>7, <2>1 DEF SizeRead
  <2> QED
    BY <1>1, <1>3, <1>5, <1>7, <2>2 DEF Fits
<1>a. n = slotOffset - HEADER
  OBVIOUS
<1>9. slotOffset' - HEADER = n + r.len
  <2> HIDE DEF r, n
  <2> QED
    BY <1>1, <1>2, <1>3, <1>a
<1>10. complete'[slotIndex] => n + r.len = size
  <2>1. n # size
    BY <1>1, <1>3, <1>5, <1>8
  <2>2. ~complete[slotIndex]
    BY <1>4, <2>1
  <2>3. complete'[slotIndex] = (complete[slotIndex] \/ Completes(r.len, sz))
    BY <1>3, <1>7
  <2>4. Completes(r.len, sz) => n + r.len = size
    <3>1. slotOffset + r.len - HEADER = n + r.len
      <4> HIDE DEF r, n
      <4> QED
        BY <1>1, <1>3, <1>a
    <3> QED
      BY <1>8, <3>1 DEF Completes
  <2> QED
    BY <2>2, <2>3, <2>4
<1>11. /\ DOMAIN Chunk(r) = 1 .. WordsOf(r.len) /\ Len(Chunk(r)) = WordsOf(r.len)
       /\ WordsOf(r.len) \in Nat /\ Chunk(r) \in Seq(FlashWord)
       /\ \A k \in 1 .. WordsOf(r.len) : Chunk(r)[k] = DataWord(File(r.upload), r.from \div WORD + k)
  BY <1>1, ChunkWords
<1>12. ASSUME n % WORD = 0
       PROVE  /\ slotOffset % WORD = 0 /\ n \div WORD \in Nat /\ WordsOf(n) = n \div WORD
              /\ WordsOf(n + r.len) = n \div WORD + WordsOf(r.len)
  <2>1. slotOffset % WORD = 0
    <3>1. (HEADER + n) % WORD = n % WORD
      BY <1>3, <1>5, WordsAdded
    <3> QED
      BY <1>5, <1>12, <3>1
  <2>2. n \div WORD \in Nat /\ WordsOf(n) = n \div WORD
    BY <1>5, <1>12, WordsCounted
  <2>3. WordsOf(n + r.len) = n \div WORD + WordsOf(r.len)
    BY <1>1, <1>5, <1>12, <2>2, WordsAdded, SMTT(40)
  <2> QED
    BY <2>1, <2>2, <2>3
<1> HIDE DEF r, f, size, n
<1>13. ASSUME slotIndex \notin suspect'
       PROVE  /\ n + r.len <= reached' /\ reached' <= size
              /\ n + r.len = reached' =>
                   \A i \in 1 .. TopWord :
                     words'[slotIndex][i] = IF i <= WordsOf(n + r.len) THEN DataWord(f, i) ELSE Blank
  <2>1. slotIndex \notin suspect /\ ~(r.from < reached)
    BY <1>2, <1>13
  <2>2. n <= reached /\ reached <= r.from
    BY <1>1, <1>3, <1>4, <2>1
  <2>3. n + r.len <= reached' /\ reached' <= size
    BY <1>1, <1>2, <1>3, <1>5, <2>2, SMTT(40)
  <2>4. ASSUME n + r.len = reached', NEW i \in 1 .. TopWord
        PROVE  words'[slotIndex][i] = IF i <= WordsOf(n + r.len) THEN DataWord(f, i) ELSE Blank
    <3>1. n = r.from /\ n = reached
      BY <1>1, <1>2, <1>3, <1>5, <2>2, <2>4, SMTT(40)
    <3>2. n % WORD = 0
      BY <1>1, <3>1
    <3> DEFINE first == n \div WORD
    <3>3. first \in Nat /\ WordsOf(n) = first /\ WordsOf(n + r.len) = first + WordsOf(r.len)
      BY <1>12, <3>2
    <3>4. \A j \in 1 .. TopWord :
            words[slotIndex][j] = IF j <= first THEN DataWord(f, j) ELSE Blank
      BY <1>4, <2>1, <3>1, <3>3 DEF Right, f
    <3>5. \A j \in 1 .. TopWord : j > first => words[slotIndex][j] = Blank
      BY <1>3, <3>3, <3>4
    <3>7. words'[slotIndex][i] = IF i <= first THEN words[slotIndex][i]
                                 ELSE IF i <= first + WordsOf(r.len) THEN Chunk(r)[i - first] ELSE Blank
      <4>1. slotOffset % WORD = 0 /\ (slotOffset - HEADER) \div WORD = first
        BY <1>12, <1>a, <3>2
      <4> HIDE DEF first
      <4> QED
        BY <3>3, <3>5, <4>1, Programming DEF r
    <3>8. i > first /\ i <= first + WordsOf(r.len) => Chunk(r)[i - first] = DataWord(f, i)
      <4>1. SUFFICES ASSUME i > first, i <= first + WordsOf(r.len) PROVE Chunk(r)[i - first] = DataWord(f, i)
        OBVIOUS
      <4>2. i - first \in 1 .. WordsOf(r.len) /\ first + (i - first) = i
        BY <1>3, <1>11, <3>3, <4>1
      <4>3. Chunk(r)[i - first] = DataWord(File(r.upload), first + (i - first))
        BY <1>11, <3>1, <4>2
      <4> QED
        BY <1>2, <4>2, <4>3 DEF f
    <3> HIDE DEF first
    <3>9. i \in Nat /\ TopWord \in Nat /\ WordsOf(r.len) \in Nat
      BY <1>3, <1>11
    <3>10. i <= first => words[slotIndex][i] = DataWord(f, i)
      BY <3>4
    <3> QED
      BY <3>3, <3>7, <3>8, <3>9, <3>10
  <2> QED
    BY <2>3, <2>4
<1>14. Len(pushed') = Len(pushed) + WordsOf(r.len) /\ Len(pushed) \in Nat
       /\ \A i \in 1 .. Len(pushed') :
            pushed'[i] = IF i <= Len(pushed) THEN pushed[i] ELSE Chunk(r)[i - Len(pushed)]
  BY <1>2, <1>3, <1>11, JoinedTo
<1>15. WordsOf(r.len) * WORD >= r.len /\ (WordsOf(r.len) * WORD = r.len => r.len % WORD = 0)
  BY <1>1, WordsCounted
<1>16. Len(pushed') * WORD = Len(pushed) * WORD + WordsOf(r.len) * WORD
  <2>1. \A a, b \in Nat : (a + b) * WORD = a * WORD + b * WORD
    BY <1>3
  <2> QED
    BY <1>11, <1>14, <2>1
<1>17. /\ Len(pushed) * WORD \in Nat /\ WordsOf(r.len) * WORD \in Nat
  BY <1>3, <1>11, <1>14
<1>18. n + r.len <= Len(pushed') * WORD
  BY <1>1, <1>4, <1>5, <1>15, <1>16, <1>17
<1>19. ASSUME n + r.len = Len(pushed') * WORD, NEW i \in 1 .. TopWord
       PROVE  words'[slotIndex][i] = IF i <= Len(pushed') THEN pushed'[i] ELSE Blank
  <2>1. n = Len(pushed) * WORD /\ AsPushed
    <3>1. n = Len(pushed) * WORD
      BY <1>1, <1>4, <1>5, <1>15, <1>16, <1>17, <1>19
    <3> QED
      BY <1>4, <3>1
  <2>2. n % WORD = 0 /\ n \div WORD = Len(pushed)
    <3>1. \A k \in Nat : (k * WORD) % WORD = 0 /\ (k * WORD) \div WORD = k
      BY <1>3, SMTT(40)
    <3> QED
      BY <1>14, <2>1, <3>1
  <2> DEFINE first == Len(pushed)
  <2>4. \A j \in 1 .. TopWord : words[slotIndex][j] = IF j <= first THEN pushed[j] ELSE Blank
    BY <2>1 DEF AsPushed
  <2>5. \A j \in 1 .. TopWord : j > first => words[slotIndex][j] = Blank
    BY <1>3, <1>14, <2>4
  <2>3. first \in Nat
    BY <1>14
  <2>6. slotOffset % WORD = 0 /\ (slotOffset - HEADER) \div WORD = first
    BY <1>12, <1>a, <2>2
  <2> HIDE DEF first
  <2>7. words'[slotIndex][i] = IF i <= first THEN words[slotIndex][i]
                               ELSE IF i <= first + WordsOf(r.len) THEN Chunk(r)[i - first] ELSE Blank
    BY <2>3, <2>5, <2>6, Programming DEF r
  <2>8. i \in Nat /\ i >= 1
    BY <1>3
  <2>9. i <= first => words[slotIndex][i] = pushed[i]
    BY <2>4
  <2>10. i <= first + WordsOf(r.len) => i \in 1 .. Len(pushed')
    BY <1>11, <1>14, <2>8 DEF first
  <2>11. i <= first + WordsOf(r.len) =>
           pushed'[i] = IF i <= first THEN pushed[i] ELSE Chunk(r)[i - first]
    BY <1>14, <2>10 DEF first
  <2>12. Len(pushed') = first + WordsOf(r.len)
    BY <1>14 DEF first
  <2> QED
    BY <1>11, <2>3, <2>7, <2>8, <2>9, <2>11, <2>12
<1>20. Taken' = n + r.len /\ FileSize[File(owner)]' = size /\ info'[slotIndex'] = <<"info", size>>
       /\ complete'[slotIndex'] = complete'[slotIndex]
  BY <1>2, <1>4, <1>6, <1>9 DEF Taken, size, f, File
<1>21. n + r.len \in 0 .. size
  BY <1>1, <1>3, <1>5, <1>8
<1>22. n + r.len = reached' /\ slotIndex \notin suspect' => Right(Taken)'
  BY <1>2, <1>13, <1>20 DEF Right, f, File, DataWord, WordsOf
<1>23. n + r.len = Len(pushed') * WORD => AsPushed'
  BY <1>2, <1>19 DEF AsPushed
<1> QED
  BY <1>2, <1>10, <1>13, <1>18, <1>20, <1>21, <1>22, <1>23 DEF InWriting

LEMMA SlotSame ==
  ASSUME UNCHANGED <<slotVars, slotIndex, slotOffset, pushed, takenVars>>
  PROVE  /\ Fresh' <=> Fresh
         /\ InWriting' <=> InWriting
         /\ (info[slotIndex] = Garbled)' <=> info[slotIndex] = Garbled
         /\ broken' = broken /\ owner' = owner
<1> USE DEF slotVars, takenVars
<1>1. Fresh' <=> Fresh
  BY DEF Fresh, Blank, TopWord
<1>2. Right(Taken)' <=> Right(Taken)
  BY DEF Right, Taken, WordsOf, DataWord, File, Blank, TopWord
<1>3. AsPushed' <=> AsPushed
  BY DEF AsPushed, Blank, TopWord
<1>4. InWriting' <=> InWriting
  <2>1. Taken' = Taken /\ FileSize[File(owner)]' = FileSize[File(owner)]
    BY DEF Taken, File
  <2> HIDE DEF slotVars, takenVars
  <2>2. UNCHANGED <<info, complete, slotIndex, suspect, reached, pushed>>
    BY DEF slotVars, takenVars
  <2> QED
    BY <1>2, <1>3, <2>1, <2>2 DEF InWriting
<1> QED
  BY <1>1, <1>4 DEF Garbled

LEMMA AccessedSame ==
  ASSUME Accessed, UNCHANGED <<slotVars, slotIndex, slotOffset, pushed, takenVars>>,
         ~broken =>
           \A i \in DOMAIN requests' :
             requests'[i].upload = owner =>
               requests'[i].kind # "access" /\ (~Fresh => requests'[i].kind = "write")
  PROVE  Accessed'
<1>1. broken' = broken /\ owner' = owner
  BY SlotSame
<1> QED
  BY <1>1, SlotSame DEF Accessed

LEMMA AccessedStep ==
  SlotsTypeOK /\ InOrder /\ Accessed /\ Sent /\ [SlotsNext]_uploadVars => Accessed'
<1> SUFFICES ASSUME SlotsTypeOK, InOrder, Accessed, Sent, [SlotsNext]_uploadVars PROVE Accessed'
  OBVIOUS
<1>0. requests \in Seq(UploadRequests) /\ tool.upload[1] \in Nat /\ owner[1] \in Nat
      /\ budget.uploads \in Nat /\ budget.uploads < owner[1] /\ tool.upload \in Uploads
      /\ File(tool.upload) \in Files /\ tool.pos \in Nat /\ slotIndex \in FileSlot
      /\ info \in [FileSlot -> {Blank, Garbled} \cup ({"info"} \X (0 .. BlankSize))]
      /\ complete \in [FileSlot -> BOOLEAN] /\ words \in [FileSlot -> [1 .. TopWord -> FlashWord]]
      /\ HEADER \in Nat \ {0} /\ WORD \in Nat \ {0}
  <2>1. budget.uploads \in Nat
    BY Typed, Parameters
  <2>2. budget.uploads < owner[1]
    BY DEF InOrder
  <2> QED
    BY <2>1, <2>2, Typed, Parameters
<1>1. ~broken =>
        \A i \in DOMAIN requests :
          requests[i].upload = owner =>
            requests[i].kind # "access" /\ (~Fresh => requests[i].kind = "write")
  BY DEF Accessed
<1>2. ASSUME requests' = requests \/ (requests # <<>> /\ requests' = Tail(requests)),
             UNCHANGED <<slotVars, slotIndex, slotOffset, pushed, takenVars>>
      PROVE  Accessed'
  <2>1. CASE requests' = requests
    BY <1>1, <1>2, <2>1, AccessedSame
  <2>2. CASE requests # <<>> /\ requests' = Tail(requests)
    <3>1. \A i \in DOMAIN requests' : i + 1 \in DOMAIN requests /\ requests'[i] = requests[i + 1]
      BY <1>0, <2>2, TailOf
    <3> QED
      BY <1>1, <1>2, <3>1, AccessedSame
  <2> QED
    BY <1>2, <2>1, <2>2
<1>3. ASSUME NEW r \in UploadRequests, requests' = Append(requests, r),
             UNCHANGED <<slotVars, slotIndex, slotOffset, pushed, takenVars>>,
             ~broken /\ r.upload = owner => r.kind # "access" /\ (~Fresh => r.kind = "write")
      PROVE  Accessed'
  <2>1. \A i \in DOMAIN requests' :
          (i \in DOMAIN requests /\ requests'[i] = requests[i]) \/ requests'[i] = r
    BY <1>0, <1>3, AppendTo
  <2> QED
    BY <1>1, <1>3, <2>1, AccessedSame
<1>4. ASSUME NEW f \in Files, NEW s \in FileSlot, StartUpload(f, s) PROVE Accessed'
  <2> DEFINE r == [kind |-> "access", upload |-> <<budget.uploads, f>>, slot |-> s]
  <2>1. <<budget.uploads, f>> \in Uploads
    <3>1. budget.uploads \in 0 .. MaxUploads + 1
      BY Typed, Parameters, SMTT(30)
    <3> QED
      BY <3>1 DEF Uploads
  <2>2. r \in UploadRequests
    BY <2>1 DEF UploadRequests
  <2>3. r.upload # owner
    BY <1>0
  <2>4. requests' = Append(requests, r)
        /\ UNCHANGED <<slotVars, slotIndex, slotOffset, pushed, takenVars>>
    BY <1>4 DEF StartUpload
  <2> HIDE DEF r
  <2> QED
    BY <1>3, <2>2, <2>3, <2>4
<1>5. CASE SendInfo
  <2> DEFINE r == [kind |-> "info", upload |-> tool.upload]
  <2>1. requests' = Append(requests, r)
        /\ UNCHANGED <<slotVars, slotIndex, slotOffset, pushed, takenVars>>
    BY <1>5 DEF SendInfo
  <2>2. r \in UploadRequests /\ r.kind = "info" /\ r.upload = tool.upload
    BY <1>0 DEF UploadRequests
  <2>3. ~broken /\ r.upload = owner => Fresh
    BY <1>5 DEF SendInfo, Sent
  <2> HIDE DEF r
  <2> QED
    BY <1>3, <2>1, <2>2, <2>3
<1>6. CASE SendChunk
  <2> DEFINE r == [kind |-> "write", upload |-> tool.upload, from |-> tool.pos,
                   len |-> ChunkLen(File(tool.upload), tool.pos)]
  <2>1. requests' = Append(requests, r)
        /\ UNCHANGED <<slotVars, slotIndex, slotOffset, pushed, takenVars>>
    BY <1>6 DEF SendChunk
  <2>2. ChunkLen(File(tool.upload), tool.pos) \in Nat
    BY <1>0, Chunks DEF Sent
  <2>3. r \in UploadRequests /\ r.kind = "write"
    BY <1>0, <2>2 DEF UploadRequests
  <2> HIDE DEF r
  <2> QED
    BY <1>3, <2>1, <2>3
<1>7. CASE TakeAnswer \/ NoAnswer \/ AnswerArrives
  BY <1>2, <1>7, ToolAnswered
<1>8. CASE LineLoses
  BY <1>2, <1>8 DEF LineLoses
<1>9. CASE CommandAccess
  <2> DEFINE r == Head(requests)
  <2>1. /\ r.slot \in FileSlot /\ r.kind = "access"
        /\ \A i \in DOMAIN requests' : i + 1 \in DOMAIN requests /\ requests'[i] = requests[i + 1]
        /\ \A i \in DOMAIN requests' : Before(r, requests'[i])
        /\ r.upload[1] \in Nat
    BY <1>9, RequestTaken DEF CommandAccess
  <2>2. /\ slotIndex' = r.slot /\ slotOffset' = 0 /\ pushed' = <<>> /\ owner' = r.upload
        /\ info' = [info EXCEPT ![r.slot] = Blank] /\ complete' = [complete EXCEPT ![r.slot] = FALSE]
        /\ words' = [words EXCEPT ![r.slot] = [i \in 1 .. TopWord |-> Blank]]
        /\ reached' = 0
    BY <1>9 DEF CommandAccess
  <2> HIDE DEF r
  <2>3. Fresh'
    BY <1>0, <2>1, <2>2 DEF Fresh, TopWord, Blank
  <2>4. \A i \in DOMAIN requests' : requests'[i].upload = owner' => requests'[i].kind # "access"
    <3> TAKE i \in DOMAIN requests'
    <3>1. Before(r, requests'[i])
      BY <2>1
    <3> QED
      BY <2>1, <2>2, <3>1 DEF Before
  <2> QED
    BY <2>3, <2>4 DEF Accessed
<1>10. CASE CommandWriteInfo
  <2> DEFINE r == Head(requests)
             size == FileSize[File(r.upload)]
  <2>1. /\ r.kind = "info" /\ r = requests[1] /\ 1 \in DOMAIN requests /\ size \in Nat \ {0}
        /\ r.upload[1] \in Nat
        /\ \A i \in DOMAIN requests' : Before(r, requests'[i])
    BY <1>10, RequestTaken DEF CommandWriteInfo
  <2>2. /\ \E s \in 0 .. size :
             /\ info[slotIndex] \in {Blank, Garbled, <<"info", size>>} => s = size
             /\ info' = IF info[slotIndex] = Garbled THEN info
                        ELSE [info EXCEPT ![slotIndex] = <<"info", s>>]
        /\ slotOffset' = HEADER /\ broken' = (broken \/ r.upload # owner)
        /\ suspect' = IF broken' THEN suspect \cup {slotIndex} ELSE suspect
        /\ UNCHANGED <<complete, words, slotIndex, pushed, owner, reached>>
    BY <1>10 DEF CommandWriteInfo
  <2>3. SUFFICES ASSUME ~broken' PROVE Accessed'
    BY DEF Accessed
  <2>4. ~broken /\ r.upload = owner
    BY <2>2, <2>3
  <2>5. Fresh \/ info[slotIndex] = Garbled
    <3>1. r.kind # "write"
      BY <2>1
    <3>2. Fresh
      BY <1>1, <2>1, <2>4, <3>1
    <3> QED
      BY <3>2
  <2>6. \A i \in DOMAIN requests' : requests'[i].upload = owner' => requests'[i].kind = "write"
    <3> TAKE i \in DOMAIN requests'
    <3>1. Before(r, requests'[i])
      BY <2>1
    <3> QED
      BY <2>1, <2>2, <2>4, <3>1 DEF Before
  <2> HIDE DEF r
  <2>7. CASE info[slotIndex] = Garbled
    <3>1. info'[slotIndex'] = Garbled
      BY <2>2, <2>7
    <3> QED
      BY <2>6, <3>1 DEF Accessed, Garbled
  <2>8. CASE Fresh
    <3>1. Blank # Garbled
      BY DEF Blank, Garbled
    <3>2. info'[slotIndex] = <<"info", size>>
      BY <1>0, <2>2, <2>8, <3>1 DEF Fresh
    <3>3. Taken' = 0
      BY <1>0, <2>2 DEF Taken
    <3>4. File(owner)' = File(r.upload) /\ FileSize[File(owner)]' = size
      BY <2>2, <2>4 DEF File
    <3>5. WordsOf(0) = 0
      <4>1. \A w \in Nat \ {0} : (0 * w + (w - 1)) \div w = 0
        OBVIOUS
      <4>2. 0 * WORD + (WORD - 1) = 0 + WORD - 1
        BY <1>0
      <4>3. (0 + WORD - 1) \div WORD = 0
        BY <1>0, <4>1, <4>2
      <4> QED
        BY <4>3 DEF WordsOf
    <3>6. \A i \in 1 .. TopWord : words'[slotIndex'][i] = Blank /\ ~(i <= 0)
      BY <2>2, <2>8, Parameters DEF Fresh
    <3>7. Right(Taken)'
      BY <3>3, <3>5, <3>6 DEF Right, WordsOf, TopWord, DataWord, Blank
    <3>8. AsPushed' /\ Len(pushed') * WORD = 0 /\ reached' = 0 /\ ~complete'[slotIndex']
      <4>1. pushed' = <<>> /\ Len(<<>>) = 0
        BY <2>2, <2>8 DEF Fresh
      <4> QED
        <5>1. Len(pushed') = 0 /\ Len(pushed') * WORD = 0
          BY <1>0, <4>1
        <5>2. AsPushed'
          BY <3>6, <5>1 DEF AsPushed, TopWord, Blank
        <5> QED
          BY <2>2, <2>8, <5>1, <5>2 DEF Fresh
    <3>9. 0 \in 0 .. size /\ 0 <= size
      BY <2>1
    <3> HIDE DEF size
    <3>10. InWriting'
      BY <2>2, <3>2, <3>3, <3>4, <3>7, <3>8, <3>9 DEF InWriting
    <3> QED
      BY <2>6, <3>10 DEF Accessed
  <2> QED
    BY <2>5, <2>7, <2>8
<1>11. CASE CommandWriteRefused
  BY <1>2, <1>11 DEF CommandWriteRefused, Arrived
<1>12. CASE CommandWrite
  <2> DEFINE r == Head(requests)
  <2>1. /\ r.kind = "write" /\ r.upload[1] \in Nat
        /\ \A i \in DOMAIN requests' : Before(r, requests'[i])
    BY <1>12, RequestTaken DEF CommandWrite
  <2>2. /\ slotIndex' = slotIndex /\ owner' = owner /\ broken' = (broken \/ r.upload # owner)
        /\ info' = IF slotOffset < HEADER THEN [info EXCEPT ![slotIndex] = Garbled] ELSE info
    BY <1>12, WriteEffect
  <2>3. SUFFICES ASSUME ~broken' PROVE Accessed'
    BY DEF Accessed
  <2>4. ~broken /\ r.upload = owner
    BY <2>2, <2>3
  <2>5. \A i \in DOMAIN requests' : requests'[i].upload = owner' => requests'[i].kind = "write"
    <3> TAKE i \in DOMAIN requests'
    <3>1. Before(r, requests'[i])
      BY <2>1
    <3> QED
      BY <2>1, <2>2, <2>4, <3>1 DEF Before
  <2>6. CASE Fresh \/ info[slotIndex] = Garbled
    <3>1. Fresh => slotOffset < HEADER
      BY <1>0 DEF Fresh
    <3>2. info'[slotIndex'] = Garbled
      BY <1>0, <2>2, <2>6, <3>1
    <3> QED
      BY <2>5, <3>2 DEF Accessed, Garbled
  <2>7. CASE InWriting
    <3>1. InWriting'
      BY <1>12, <2>3, <2>7, WriteKeeps
    <3> QED
      BY <2>5, <3>1 DEF Accessed
  <2> QED
    BY <2>4, <2>6, <2>7 DEF Accessed
<1>13. CASE Restart
  BY <1>13 DEF Restart, Accessed
<1>14. CASE StartUpdate
  BY <1>2, <1>14 DEF StartUpdate
<1>15. CASE ReadWord
  BY <1>2, <1>15 DEF ReadWord
<1>16. CASE UNCHANGED uploadVars
  BY <1>2, <1>16 DEF uploadVars
<1> QED
  BY <1>4, <1>5, <1>6, <1>7, <1>8, <1>9, <1>10, <1>11, <1>12, <1>13, <1>14, <1>15, <1>16
     DEF SlotsNext, ToolNext, CommandArrival

----------------------------------------------------------------------------
(* A complete slot is not written again, and holds the file.               *)
LEMMA Filled ==
  ASSUME SlotsTypeOK, InOrder, Accessed, Ready(slotIndex), ~broken',
         CommandWrite \/ CommandWriteInfo
  PROVE  FALSE
<1>1. complete[slotIndex] /\ info[slotIndex] # Garbled
  <2>1. Garbled[1] # "info"
    BY DEF Garbled
  <2> QED
    BY <2>1 DEF Ready
<1>2. ~broken /\ Head(requests).upload = owner
  <2>1. CASE CommandWrite
    BY <2>1, WriteEffect
  <2>2. CASE CommandWriteInfo
    BY <2>2 DEF CommandWriteInfo
  <2> QED
    BY <2>1, <2>2
<1>3. InWriting /\ ~Fresh
  BY <1>1, <1>2 DEF Accessed, Fresh
<1>4. CASE CommandWriteInfo
  <2>1. Head(requests).kind = "info" /\ Head(requests) = requests[1] /\ 1 \in DOMAIN requests
    BY <1>4, RequestTaken DEF CommandWriteInfo
  <2> QED
    BY <1>2, <1>3, <2>1 DEF Accessed
<1>5. CASE CommandWrite
  <2> DEFINE len == Head(requests).len
             size == FileSize[File(owner)]
  <2>1. len \in Nat \ {0} /\ size \in Nat
    <3>1. len \in Nat \ {0}
      BY <1>5, RequestTaken DEF CommandWrite
    <3>2. size \in Nat
      BY Typed, Parameters
    <3> QED
      BY <3>1, <3>2
  <2>2. PICK sz \in 0 .. BlankSize : SizeRead(sz) /\ Fits(len, sz)
    BY <1>5, WriteEffect
  <2>3. info[slotIndex] = <<"info", size>> /\ slotOffset - HEADER = size
    BY <1>1, <1>3 DEF InWriting, Taken
  <2>4. sz = size
    <3>1. <<"info", size>> # Blank /\ <<"info", size>> # Garbled
      BY DEF Blank, Garbled
    <3> QED
      BY <2>2, <2>3, <3>1 DEF SizeRead
  <2>5. slotOffset \in Nat /\ HEADER \in Nat
    BY Typed, Parameters
  <2> HIDE DEF len, size
  <2>6. slotOffset + len - HEADER <= size
    BY <2>2, <2>4 DEF Fits
  <2> QED
    BY <2>1, <2>3, <2>5, <2>6
<1> QED
  BY <1>4, <1>5

LEMMA WholeSlot ==
  SlotsTypeOK /\ Accessed /\ ~broken /\ slotIndex \notin suspect /\ Ready(slotIndex)
    => Holds(slotIndex, File(owner)) /\ File(owner) \in Files
<1> SUFFICES ASSUME SlotsTypeOK, Accessed, ~broken, slotIndex \notin suspect, Ready(slotIndex)
             PROVE  Holds(slotIndex, File(owner)) /\ File(owner) \in Files
  OBVIOUS
<1> DEFINE f == File(owner)
           size == FileSize[f]
<1>1. f \in Files /\ size \in Nat /\ reached \in Nat /\ TopWord \in Nat /\ WordsOf(size) \in Nat
  <2>1. f \in Files /\ reached \in Nat /\ TopWord \in Nat
    BY Typed, Parameters
  <2>2. size \in Nat
    BY <2>1, Parameters
  <2> QED
    BY <2>1, <2>2, WordsNat
<1>2. complete[slotIndex] /\ info[slotIndex] # Garbled
  <2>1. Garbled[1] # "info"
    BY DEF Garbled
  <2> QED
    BY <2>1 DEF Ready
<1>3. InWriting
  BY <1>2 DEF Accessed, Fresh
<1>4. info[slotIndex] = <<"info", size>> /\ Taken = size /\ Taken = reached /\ Right(Taken)
  BY <1>1, <1>2, <1>3 DEF InWriting
<1>5. WordsOf(size) <= TopWord
  <2>1. size <= BlankSize
    BY <1>1, Parameters
  <2> QED
    BY <1>1, <2>1, WordsFit
<1>6. ASSUME NEW i \in 1 .. WordsOf(size) PROVE words[slotIndex][i] = DataWord(f, i)
  <2>1. i \in 1 .. TopWord /\ i <= WordsOf(size)
    BY <1>1, <1>5
  <2> QED
    BY <1>4, <2>1 DEF Right
<1> QED
  BY <1>1, <1>4, <1>6 DEF Holds

LEMMA StaysWhole ==
  ASSUME SlotsTypeOK, InOrder, Accessed, NEW s \in FileSlot, NEW f, Holds(s, f),
         CommandWrite \/ CommandWriteInfo, s # slotIndex \/ ~broken'
  PROVE  Holds(s, f)'
<1>1. s # slotIndex
  BY Filled DEF Holds
<1>2. /\ slotIndex \in FileSlot
      /\ info \in [FileSlot -> {Blank, Garbled} \cup ({"info"} \X (0 .. BlankSize))]
      /\ complete \in [FileSlot -> BOOLEAN]
  BY Typed
<1>3. info'[s] = info[s] /\ complete'[s] = complete[s] /\ words'[s] = words[s]
  <2>1. CASE CommandWrite
    BY <1>1, <1>2, <2>1, WriteEffect
  <2>2. CASE CommandWriteInfo
    BY <1>1, <1>2, <2>2 DEF CommandWriteInfo
  <2> QED
    BY <2>1, <2>2
<1> QED
  BY <1>3 DEF Holds, Ready, WordsOf, DataWord

LEMMA ReadyStep ==
  SlotsTypeOK /\ InOrder /\ Accessed /\ ReadyIsWhole /\ SlotsTypeOK' /\ Accessed' /\ [SlotsNext]_uploadVars
    => ReadyIsWhole'
<1> SUFFICES ASSUME SlotsTypeOK, InOrder, Accessed, ReadyIsWhole, SlotsTypeOK', Accessed',
                    [SlotsNext]_uploadVars
             PROVE  ReadyIsWhole'
  OBVIOUS
<1>0. /\ slotIndex \in FileSlot /\ suspect \subseteq FileSlot
      /\ info \in [FileSlot -> {Blank, Garbled} \cup ({"info"} \X (0 .. BlankSize))]
      /\ complete \in [FileSlot -> BOOLEAN] /\ words \in [FileSlot -> [1 .. TopWord -> FlashWord]]
  BY Typed
<1>1. CASE UNCHANGED <<slotVars, suspect>>
  BY <1>1 DEF slotVars, ReadyIsWhole, Ready, Holds, WordsOf, DataWord
<1>2. CASE CommandAccess
  <2> DEFINE r == Head(requests)
  <2>1. r.slot \in FileSlot
    BY <1>2, RequestTaken DEF CommandAccess
  <2>2. /\ info' = [info EXCEPT ![r.slot] = Blank] /\ complete' = [complete EXCEPT ![r.slot] = FALSE]
        /\ words' = [words EXCEPT ![r.slot] = [i \in 1 .. TopWord |-> Blank]]
        /\ suspect' = suspect \ {r.slot}
    BY <1>2 DEF CommandAccess
  <2> HIDE DEF r
  <2>3. ASSUME NEW s \in FileSlot \ suspect', Ready(s)'
        PROVE  \E f \in Files : Holds(s, f)'
    <3>1. s # r.slot
      BY <1>0, <2>1, <2>2, <2>3 DEF Ready
    <3>2. info'[s] = info[s] /\ complete'[s] = complete[s] /\ words'[s] = words[s] /\ s \notin suspect
      BY <1>0, <2>1, <2>2, <2>3, <3>1
    <3>3. PICK f \in Files : Holds(s, f)
      BY <2>3, <3>2 DEF ReadyIsWhole, Ready
    <3> QED
      BY <3>2, <3>3 DEF Holds, Ready, WordsOf, DataWord
  <2> QED
    BY <2>3 DEF ReadyIsWhole, FileSlot
<1>3. CASE CommandWrite \/ CommandWriteInfo
  <2>1. /\ slotIndex' = slotIndex /\ suspect \subseteq suspect'
        /\ broken' => slotIndex \in suspect'
        /\ \A s \in FileSlot : s # slotIndex =>
             info'[s] = info[s] /\ complete'[s] = complete[s] /\ words'[s] = words[s]
    <3>1. CASE CommandWrite
      BY <1>0, <3>1, WriteEffect
    <3>2. CASE CommandWriteInfo
      BY <1>0, <3>2 DEF CommandWriteInfo
    <3> QED
      BY <1>3, <3>1, <3>2
  <2>2. (SlotsTypeOK /\ Accessed /\ ~broken /\ slotIndex \notin suspect /\ Ready(slotIndex)
           => Holds(slotIndex, File(owner)) /\ File(owner) \in Files)'
    BY WholeSlot, PTL
  <2>3. ASSUME NEW s \in FileSlot \ suspect', Ready(s)'
        PROVE  \E f \in Files : Holds(s, f)'
    <3>1. CASE s = slotIndex
      <4>1. ~broken' /\ slotIndex' \notin suspect' /\ Ready(slotIndex)'
        BY <2>1, <2>3, <3>1 DEF Ready
      <4>2. Holds(slotIndex, File(owner))' /\ File(owner)' \in Files
        BY <2>2, <4>1
      <4> QED
        BY <2>1, <3>1, <4>2 DEF Holds, Ready, WordsOf, DataWord, File
    <3>2. CASE s # slotIndex
      <4>1. info'[s] = info[s] /\ complete'[s] = complete[s] /\ words'[s] = words[s] /\ s \notin suspect
        BY <2>1, <2>3, <3>2
      <4>2. PICK f \in Files : Holds(s, f)
        BY <2>3, <4>1 DEF ReadyIsWhole, Ready
      <4> QED
        BY <4>1, <4>2 DEF Holds, Ready, WordsOf, DataWord
    <3> QED
      BY <3>1, <3>2
  <2> QED
    BY <2>3 DEF ReadyIsWhole, FileSlot
<1>4. CASE ToolNext
  BY <1>1, <1>4 DEF ToolNext, StartUpload, SendInfo, SendChunk, TakeAnswer, NoAnswer, AnswerArrives, takenVars
<1>5. CASE LineLoses \/ CommandWriteRefused \/ Restart \/ StartUpdate \/ ReadWord
  BY <1>1, <1>5 DEF LineLoses, CommandWriteRefused, Restart, StartUpdate, ReadWord, takenVars
<1>6. CASE UNCHANGED uploadVars
  BY <1>1, <1>6 DEF uploadVars, takenVars
<1> QED
  BY <1>2, <1>3, <1>4, <1>5, <1>6 DEF SlotsNext, CommandArrival

----------------------------------------------------------------------------
(* What the reader has read.                                               *)
Reading(f) ==
  /\ Holds(reader.slot, f) /\ reader.size = FileSize[f]
  /\ Len(reader.read) <= WordsOf(reader.size)
  /\ \A i \in 1 .. Len(reader.read) : reader.read[i] = DataWord(f, i)

LEMMA ReadsSame ==
  ASSUME Reads, reader' = reader, reader.slot \notin suspect' => reader.slot \notin suspect,
         reader.slot \notin suspect' => \A f \in Files : Holds(reader.slot, f) => Holds(reader.slot, f)'
  PROVE  Reads'
<1> SUFFICES ASSUME ~reader.disturbed, reader.slot \notin suspect'
             PROVE  /\ reader.pc = "reading" => \E f \in Files : Reading(f)'
                    /\ reader.pc = "finished" => \E f \in Files : reader.read = FileWords(f)
  BY DEF Reads, Reading, FileWords, WordsOf, DataWord
<1>1. ASSUME reader.pc = "reading" PROVE \E f \in Files : Reading(f)'
  <2>1. PICK f \in Files : Reading(f)
    BY <1>1 DEF Reads, Reading
  <2>2. Holds(reader.slot, f)'
    BY <2>1 DEF Reading
  <2> QED
    BY <2>1, <2>2 DEF Reading, WordsOf, DataWord
<1> QED
  BY <1>1 DEF Reads

LEMMA ReadsStep ==
  SlotsTypeOK /\ InOrder /\ Accessed /\ ReadyIsWhole /\ Reads /\ [SlotsNext]_uploadVars => Reads'
<1> SUFFICES ASSUME SlotsTypeOK, InOrder, Accessed, ReadyIsWhole, Reads, [SlotsNext]_uploadVars
             PROVE  Reads'
  OBVIOUS
<1>0. /\ slotIndex \in FileSlot /\ suspect \subseteq FileSlot /\ reader \in Reader
      /\ reader.slot \in FileSlot /\ reader.read \in Seq(FlashWord) /\ Len(reader.read) \in Nat
      /\ info \in [FileSlot -> {Blank, Garbled} \cup ({"info"} \X (0 .. BlankSize))]
      /\ complete \in [FileSlot -> BOOLEAN] /\ words \in [FileSlot -> [1 .. TopWord -> FlashWord]]
  BY Typed, SMTT(40) DEF Reader
<1>1. ASSUME UNCHANGED <<slotVars, suspect, reader>> PROVE Reads'
  <2>1. \A f \in Files : Holds(reader.slot, f) => Holds(reader.slot, f)'
    BY <1>1 DEF slotVars, Holds, Ready, WordsOf, DataWord
  <2> QED
    BY <1>1, <2>1, ReadsSame
<1>2. CASE CommandAccess
  <2> DEFINE s == Head(requests).slot
  <2>1. s \in FileSlot
    BY <1>2, RequestTaken DEF CommandAccess
  <2>2. /\ info' = [info EXCEPT ![s] = Blank] /\ complete' = [complete EXCEPT ![s] = FALSE]
        /\ words' = [words EXCEPT ![s] = [i \in 1 .. TopWord |-> Blank]]
        /\ suspect' = suspect \ {s}
        /\ reader' = [reader EXCEPT !.disturbed = @ \/ reader.slot = s]
    BY <1>2 DEF CommandAccess
  <2> HIDE DEF s
  <2>3. CASE reader.slot = s
    <3>1. reader'.disturbed
      BY <1>0, <2>2, <2>3 DEF Reader
    <3> QED
      BY <3>1 DEF Reads
  <2>4. CASE reader.slot # s
    <3>1. reader'.disturbed = reader.disturbed /\ reader'.slot = reader.slot /\ reader'.pc = reader.pc
          /\ reader'.size = reader.size /\ reader'.read = reader.read
      <4>1. (reader.disturbed \/ reader.slot = s) = reader.disturbed
        BY <1>0, <2>4 DEF Reader
      <4> QED
        BY <1>0, <2>2, <4>1 DEF Reader
    <3>2. info'[reader.slot] = info[reader.slot] /\ complete'[reader.slot] = complete[reader.slot]
          /\ words'[reader.slot] = words[reader.slot]
          /\ (reader.slot \notin suspect' => reader.slot \notin suspect)
      BY <1>0, <2>2, <2>4
    <3> QED
      BY <3>1, <3>2 DEF Reads, Holds, Ready, WordsOf, DataWord, FileWords
  <2> QED
    BY <2>3, <2>4
<1>3. CASE CommandWrite \/ CommandWriteInfo
  <2>1. reader' = reader /\ suspect \subseteq suspect' /\ (broken' => slotIndex \in suspect')
    <3>1. CASE CommandWrite
      <4>1. reader' = reader
        BY <3>1 DEF CommandWrite
      <4> QED
        BY <3>1, <4>1, WriteEffect
    <3>2. CASE CommandWriteInfo
      BY <3>2 DEF CommandWriteInfo
    <3> QED
      BY <1>3, <3>1, <3>2
  <2>2. ASSUME reader.slot \notin suspect', NEW f \in Files, Holds(reader.slot, f)
        PROVE  Holds(reader.slot, f)'
    <3>1. PICK s \in FileSlot : s = reader.slot
      BY <1>0
    <3>2. s # slotIndex \/ ~broken'
      BY <2>1, <2>2, <3>1
    <3>3. Holds(s, f)
      BY <2>2, <3>1
    <3>4. Holds(s, f)'
      BY <1>3, <3>2, <3>3, StaysWhole
    <3> QED
      BY <2>1, <3>1, <3>4 DEF Holds, Ready, WordsOf, DataWord
  <2> QED
    BY <2>1, <2>2, ReadsSame
<1>4. CASE ToolNext
  BY <1>1, <1>4 DEF ToolNext, StartUpload, SendInfo, SendChunk, TakeAnswer, NoAnswer, AnswerArrives, takenVars
<1>5. CASE LineLoses \/ CommandWriteRefused
  BY <1>1, <1>5 DEF LineLoses, CommandWriteRefused, takenVars
<1>6. CASE Restart
  BY <1>6 DEF Restart, NoReader, Reads
<1>7. CASE StartUpdate
  <2>1. PICK s \in FileSlot :
          /\ Ready(s) /\ reader' = [NoReader EXCEPT !.pc = "reading", !.slot = s, !.size = info[s][2],
                                                    !.disturbed = s \in suspect]
    BY <1>7 DEF StartUpdate
  <2>2. /\ reader'.pc = "reading" /\ reader'.slot = s /\ reader'.size = info[s][2]
        /\ reader'.read = <<>> /\ reader'.disturbed = (s \in suspect)
    BY <2>1 DEF NoReader
  <2>3. SUFFICES ASSUME s \notin suspect PROVE Reads'
    BY <2>2 DEF Reads
  <2>4. PICK f \in Files : Holds(s, f)
    BY <2>1, <2>3 DEF ReadyIsWhole
  <2>5. Len(<<>>) = 0 /\ 0 <= WordsOf(FileSize[f]) /\ 1 .. 0 = {}
    <3>1. FileSize[f] \in Nat
      BY Parameters
    <3>2. WordsOf(FileSize[f]) \in Nat
      BY <3>1, WordsNat
    <3> QED
      BY <3>2
  <2>6. UNCHANGED <<info, complete, words>>
    BY <1>7 DEF StartUpdate, slotVars
  <2>7. reader'.size = FileSize[f]
    BY <2>2, <2>4 DEF Holds
  <2>8. Holds(reader.slot, f)'
    BY <2>2, <2>4, <2>6 DEF Holds, Ready, WordsOf, DataWord
  <2>9. Reading(f)'
    BY <2>2, <2>5, <2>7, <2>8 DEF Reading, WordsOf
  <2> QED
    BY <2>2, <2>9 DEF Reads, Reading
<1>8. CASE ReadWord
  <2>1. reader.pc = "reading" /\ UNCHANGED <<info, complete, words, suspect>>
    BY <1>8 DEF ReadWord, slotVars, takenVars
  <2>2. CASE Len(reader.read) < WordsOf(reader.size)
    <3> DEFINE e == words[reader.slot][Len(reader.read) + 1]
    <3>1. reader' = [reader EXCEPT !.read = Append(@, e)]
      BY <1>8, <2>2 DEF ReadWord
    <3>2. /\ reader'.pc = "reading" /\ reader'.slot = reader.slot /\ reader'.size = reader.size
          /\ reader'.read = Append(reader.read, e) /\ reader'.disturbed = reader.disturbed
      BY <1>0, <2>1, <3>1 DEF Reader
    <3>3. SUFFICES ASSUME ~reader.disturbed, reader.slot \notin suspect PROVE Reads'
      BY <2>1, <3>2 DEF Reads
    <3>4. PICK f \in Files : Reading(f)
      BY <2>1, <3>3 DEF Reads, Reading
    <3>5. WordsOf(FileSize[f]) \in Nat /\ reader.size = FileSize[f] /\ FileSize[f] \in Nat
      <4>1. FileSize[f] \in Nat
        BY Parameters
      <4> QED
        BY <3>4, <4>1, WordsNat DEF Reading
    <3>6. e = DataWord(f, Len(reader.read) + 1)
      <4>1. Len(reader.read) + 1 \in 1 .. WordsOf(FileSize[f])
        BY <1>0, <2>2, <3>5
      <4> QED
        BY <3>4, <4>1 DEF Reading, Holds
    <3> HIDE DEF e
    <3>7. Len(reader'.read) = Len(reader.read) + 1
          /\ \A i \in 1 .. Len(reader'.read) : reader'.read[i] = DataWord(f, i)
      <4>1. /\ Len(Append(reader.read, e)) = Len(reader.read) + 1
            /\ \A i \in 1 .. Len(reader.read) : Append(reader.read, e)[i] = reader.read[i]
            /\ Append(reader.read, e)[Len(reader.read) + 1] = e
        BY <1>0
      <4>2. \A i \in 1 .. Len(reader.read) + 1 : i \in 1 .. Len(reader.read) \/ i = Len(reader.read) + 1
        BY <1>0
      <4> QED
        BY <3>2, <3>4, <3>6, <4>1, <4>2 DEF Reading
    <3>8. Len(reader'.read) <= WordsOf(FileSize[f])
      BY <1>0, <2>2, <3>5, <3>7
    <3>9. Holds(reader.slot, f)'
      BY <2>1, <3>2, <3>4 DEF Reading, Holds, Ready, WordsOf, DataWord
    <3>10. Reading(f)'
      BY <3>2, <3>5, <3>7, <3>8, <3>9 DEF Reading, WordsOf, DataWord
    <3> QED
      BY <3>2, <3>10 DEF Reads, Reading
  <2>3. CASE ~(Len(reader.read) < WordsOf(reader.size))
    <3>1. reader' = [reader EXCEPT !.pc = "finished"]
      BY <1>8, <2>3 DEF ReadWord
    <3>2. /\ reader'.pc = "finished" /\ reader'.slot = reader.slot
          /\ reader'.read = reader.read /\ reader'.disturbed = reader.disturbed
      BY <1>0, <3>1 DEF Reader
    <3>3. SUFFICES ASSUME ~reader.disturbed, reader.slot \notin suspect PROVE Reads'
      BY <2>1, <3>2 DEF Reads
    <3>4. PICK f \in Files : Reading(f)
      BY <2>1, <3>3 DEF Reads, Reading
    <3>5. WordsOf(FileSize[f]) \in Nat /\ reader.size = FileSize[f]
      <4>1. FileSize[f] \in Nat
        BY Parameters
      <4> QED
        BY <3>4, <4>1, WordsNat DEF Reading
    <3>6. Len(reader.read) = WordsOf(FileSize[f])
      BY <1>0, <2>3, <3>4, <3>5 DEF Reading
    <3>7. reader.read = FileWords(f)
      <4>1. reader.read = [i \in 1 .. Len(reader.read) |-> reader.read[i]]
        BY <1>0, SMTT(40)
      <4> QED
        BY <3>4, <3>6, <4>1 DEF Reading, FileWords
    <3> QED
      BY <3>2, <3>7 DEF Reads, FileWords, WordsOf, DataWord
  <2> QED
    BY <2>2, <2>3
<1>9. CASE UNCHANGED uploadVars
  BY <1>1, <1>9 DEF uploadVars, takenVars
<1> QED
  BY <1>2, <1>3, <1>4, <1>5, <1>6, <1>7, <1>8, <1>9 DEF SlotsNext, CommandArrival

----------------------------------------------------------------------------
(* The answers to the tool.                                                *)

IsDone(a) == a.kind = "done" /\ a.upload = tool.upload

(* An answer is moved, and what the tool says of it.                       *)
LEMMA AnswersMove ==
  ASSUME SlotsTypeOK, Sent, TakeAnswer \/ NoAnswer \/ AnswerArrives
  PROVE  /\ \A i \in DOMAIN answers' : \E j \in DOMAIN answers : answers'[i] = answers[j]
         /\ \A i \in DOMAIN tool'.queue :
              \/ \E j \in DOMAIN tool.queue : tool'.queue[i] = tool.queue[j]
              \/ \E j \in DOMAIN answers : tool'.queue[i] = answers[j]
         /\ tool'.said = <<"pass", tool.upload>> =>
              \/ tool.said = <<"pass", tool.upload>>
              \/ \E j \in DOMAIN tool.queue :
                   IsDone(tool.queue[j]) /\ FirstWords(tool.queue[j].crc, File(tool.upload))
              \/ \E j \in DOMAIN answers :
                   IsDone(answers[j]) /\ FirstWords(answers[j].crc, File(tool.upload))
<1>0. /\ answers \in Seq(UploadAnswers) /\ tool.queue \in Seq(UploadAnswers) /\ tool \in Tool
      /\ tool.fed \in Nat /\ File(tool.upload) \in Files /\ tool.upload[1] \in Nat
      /\ FileSize[File(tool.upload)] \in Nat
  BY Typed, Parameters
<1>1. ASSUME NEW a, Said(a) = <<"pass", tool.upload>>
      PROVE  tool.said = <<"pass", tool.upload>> \/ (IsDone(a) /\ FirstWords(a.crc, File(tool.upload)))
  <2>1. CASE a.kind # "done"
    BY <1>1, <2>1 DEF Said
  <2>2. CASE a.kind = "done"
    <3>1. Said(a) # Failed
      BY <1>1 DEF Failed
    <3>2. /\ tool.fed % WORD = 0 /\ Said(a) = <<"pass", a.upload>>
          /\ a.crc = [i \in 1 .. tool.fed \div WORD |-> DataWord(File(tool.upload), i)]
      BY <2>2, <3>1 DEF Said
    <3>3. a.upload = tool.upload
      BY <1>1, <3>2
    <3> DEFINE m == tool.fed \div WORD
               size == FileSize[File(tool.upload)]
    <3>4. m \in Nat /\ m * WORD = tool.fed /\ tool.fed <= size
      <4>1. m \in Nat /\ tool.fed = WORD * m + (tool.fed % WORD)
        BY <1>0, WordsCounted
      <4>2. tool.fed <= size
        BY DEF Sent
      <4>3. tool.fed % WORD = 0 /\ WORD \in Nat
        BY <3>2, Parameters
      <4> HIDE DEF m, size
      <4>4. m * WORD = WORD * m /\ WORD * m \in Nat
        BY <4>1, <4>3
      <4>5. tool.fed = WORD * m
        BY <4>1, <4>3, <4>4
      <4> QED
        BY <4>1, <4>2, <4>4, <4>5
    <3>5. m <= WordsOf(size)
      <4>1. WordsOf(size) \in Nat /\ WordsOf(size) * WORD >= size /\ size \in Nat /\ WORD \in Nat
        BY <1>0, WordsCounted, Parameters
      <4> HIDE DEF m, size
      <4>2. m * WORD <= WordsOf(size) * WORD
        <5>1. WordsOf(size) * WORD \in Nat /\ m * WORD <= size /\ m * WORD \in Nat
          BY <1>0, <3>4, <4>1
        <5> QED
          BY <4>1, <5>1
      <4>3. \A w \in Nat \ {0} : \A b, c \in Nat : b * w <= c * w => b <= c
        OBVIOUS
      <4> QED
        BY <3>4, <4>1, <4>2, <4>3, Parameters
    <3>6. m \in 0 .. WordsOf(size) /\ m * WORD <= size
      <4>1. WordsOf(size) \in Nat
        BY <1>0, WordsNat
      <4> HIDE DEF m, size
      <4> QED
        BY <3>4, <3>5, <4>1
    <3> QED
      BY <2>2, <3>2, <3>3, <3>6 DEF IsDone, FirstWords
  <2> QED
    BY <2>1, <2>2
<1>2. Failed # <<"pass", tool.upload>>
  BY DEF Failed
<1>3. ASSUME NEW t \in Tool, t.pc \in {"access", "info", "write"},
             NEW u, u = AfterException(t) \/ u = Proceed(t)
      PROVE  u.queue = t.queue /\ (u.said = t.said \/ u.said = Failed)
  <2>1. CASE u = AfterException(t)
    <3>1. u = [t EXCEPT !.pc = "toWrite", !.count = @ - 1] \/ u = [t EXCEPT !.pc = "done", !.said = Failed]
      <4>1. t.count \in 0 .. 3
        BY <1>3 DEF Tool
      <4> QED
        BY <1>3, <2>1, <4>1 DEF AfterException
    <3> QED
      BY <1>3, <3>1 DEF Tool
  <2>2. CASE u = Proceed(t)
    <3>1. \/ u = [t EXCEPT !.pc = "toInfo"]
          \/ u = [t EXCEPT !.pc = "toWrite", !.count = 3]
          \/ u = [t EXCEPT !.pc = "toWrite", !.pos = t.pos + ChunkLen(File(t.upload), t.pos), !.count = 3]
          \/ u = [t EXCEPT !.pc = "done"]
      BY <1>3, <2>2 DEF Proceed
    <3> QED
      BY <1>3, <3>1 DEF Tool
  <2> QED
    BY <1>3, <2>1, <2>2
<1>4. CASE TakeAnswer
  <2> DEFINE t == [tool EXCEPT !.sync = FALSE, !.signal = FALSE, !.queue = Tail(@),
                               !.said = Said(Head(tool.queue))]
  <2>1. /\ tool.signal /\ tool.pc \in {"access", "info", "write"} /\ answers' = answers
        /\ tool' = AfterException(t) \/ tool' = Proceed(t)
    BY <1>4 DEF TakeAnswer, Waiting
  <2>2. t \in Tool /\ t.pc = tool.pc /\ t.queue = Tail(tool.queue) /\ t.said = Said(Head(tool.queue))
    BY <2>1, TakenTyped
  <2> HIDE DEF t
  <2>3. tool'.queue = Tail(tool.queue) /\ (tool'.said = Said(Head(tool.queue)) \/ tool'.said = Failed)
    BY <1>3, <2>1, <2>2
  <2>4. /\ Head(tool.queue) = tool.queue[1] /\ 1 \in DOMAIN tool.queue
        /\ \A i \in DOMAIN Tail(tool.queue) :
             i + 1 \in DOMAIN tool.queue /\ Tail(tool.queue)[i] = tool.queue[i + 1]
    <3>1. tool.queue # <<>>
      BY <2>1, Typed
    <3> QED
      BY <1>0, <3>1, TailOf
  <2>5. tool'.said = <<"pass", tool.upload>> =>
          \/ tool.said = <<"pass", tool.upload>>
          \/ IsDone(tool.queue[1]) /\ FirstWords(tool.queue[1].crc, File(tool.upload))
    BY <1>1, <1>2, <2>3, <2>4
  <2> QED
    BY <2>1, <2>3, <2>4, <2>5
<1>5. CASE NoAnswer
  <2>1. tool' = AfterException(tool) /\ tool.pc \in {"access", "info", "write"} /\ answers' = answers
    BY <1>5 DEF NoAnswer, Waiting
  <2>2. tool'.queue = tool.queue /\ (tool'.said = tool.said \/ tool'.said = Failed)
    BY <1>0, <1>3, <2>1
  <2> QED
    BY <1>2, <2>1, <2>2
<1>6. CASE AnswerArrives
  <2>1. /\ answers' = Tail(answers) /\ Head(answers) = answers[1] /\ 1 \in DOMAIN answers
        /\ Head(answers) \in UploadAnswers
        /\ \A i \in DOMAIN Tail(answers) : i + 1 \in DOMAIN answers /\ Tail(answers)[i] = answers[i + 1]
    BY <1>0, <1>6, TailOf DEF AnswerArrives
  <2>2. \/ tool'.queue = tool.queue
        \/ tool'.queue = Append(tool.queue, Head(answers))
    BY <1>0, <1>6 DEF AnswerArrives, Tool
  <2>3. \A i \in DOMAIN Append(tool.queue, Head(answers)) :
          \/ i \in DOMAIN tool.queue /\ Append(tool.queue, Head(answers))[i] = tool.queue[i]
          \/ Append(tool.queue, Head(answers))[i] = answers[1]
    BY <1>0, <2>1, AppendTo
  <2>4. tool'.said = tool.said \/ tool'.said = Failed \/ tool'.said = Said(Head(answers))
    BY <1>0, <1>6 DEF AnswerArrives, Tool
  <2>5. tool'.said = <<"pass", tool.upload>> =>
          \/ tool.said = <<"pass", tool.upload>>
          \/ IsDone(answers[1]) /\ FirstWords(answers[1].crc, File(tool.upload))
    BY <1>1, <1>2, <2>1, <2>4
  <2> QED
    BY <2>1, <2>2, <2>3, <2>5
<1> QED
  BY <1>4, <1>5, <1>6

(* A handler adds one answer.                                              *)
LEMMA AnswerAdded ==
  ASSUME SlotsTypeOK, tool' = tool, NEW a \in UploadAnswers, answers' = Append(answers, a), ~IsDone(a)
  PROVE  /\ Done' <=> Done
         /\ \A i \in DOMAIN answers' : IsDone(answers'[i]) => i \in DOMAIN answers /\ answers'[i] = answers[i]
<1>1. answers \in Seq(UploadAnswers)
  BY Typed
<1>2. /\ \A i \in DOMAIN answers' :
           (i \in DOMAIN answers /\ answers'[i] = answers[i]) \/ answers'[i] = a
      /\ \A i \in DOMAIN answers : i \in DOMAIN answers' /\ answers'[i] = answers[i]
  BY <1>1, AppendTo
<1>3. DoneOf(answers, tool.upload)' <=> DoneOf(answers, tool.upload)
  BY <1>2 DEF DoneOf, IsDone
<1>4. DoneOf(tool.queue, tool.upload)' <=> DoneOf(tool.queue, tool.upload)
  BY DEF DoneOf
<1> QED
  BY <1>2, <1>3, <1>4 DEF Done

LEMMA WriteAnswer ==
  ASSUME SlotsTypeOK, InOrder, CommandWrite
  PROVE  \E a \in UploadAnswers : \E size \in 0 .. BlankSize :
           LET r == Head(requests) IN
           /\ answers' = Append(answers, a) /\ a.upload = r.upload
           /\ SizeRead(size) /\ Fits(r.len, size)
           /\ a.kind = "done" =>
                /\ Completes(r.len, size) /\ complete'[slotIndex]
                /\ a.crc = IF complete[slotIndex] \/ info'[slotIndex] = Garbled THEN <<Garbled>> ELSE pushed'
<1> DEFINE r == Head(requests)
<1>1. PICK size \in 0 .. BlankSize :
        /\ SizeRead(size) /\ Fits(r.len, size)
        /\ complete' = [complete EXCEPT ![slotIndex] = @ \/ Completes(r.len, size)]
        /\ answers' = Append(answers,
             [kind |-> IF Completes(r.len, size) THEN "done" ELSE "ok",
              upload |-> r.upload,
              crc |-> IF ~Completes(r.len, size) THEN <<>>
                      ELSE IF complete[slotIndex] \/ info'[slotIndex] = Garbled
                      THEN <<Garbled>> ELSE pushed'])
  BY WriteEffect
<1> DEFINE a == [kind |-> IF Completes(r.len, size) THEN "done" ELSE "ok",
                 upload |-> r.upload,
                 crc |-> IF ~Completes(r.len, size) THEN <<>>
                         ELSE IF complete[slotIndex] \/ info'[slotIndex] = Garbled
                         THEN <<Garbled>> ELSE pushed']
<1>2. slotIndex \in FileSlot /\ complete \in [FileSlot -> BOOLEAN] /\ answers \in Seq(UploadAnswers)
  BY Typed
<1>3. answers' \in Seq(UploadAnswers)
  <2>1. SlotsTypeOK'
    BY HandlerType DEF CommandArrival
  <2> QED
    BY <2>1 DEF SlotsTypeOK
<1>4. a.upload = r.upload /\ (a.kind = "done" => Completes(r.len, size))
      /\ (a.kind = "done" =>
            a.crc = IF complete[slotIndex] \/ info'[slotIndex] = Garbled THEN <<Garbled>> ELSE pushed')
  OBVIOUS
<1>5. Completes(r.len, size) => complete'[slotIndex]
  BY <1>1, <1>2
<1>6. answers' = Append(answers, a)
  BY <1>1
<1> HIDE DEF a, r
<1>7. a \in UploadAnswers
  <2>1. Len(answers) \in Nat /\ answers'[Len(answers) + 1] = a /\ Len(answers') = Len(answers) + 1
    BY <1>2, <1>6
  <2>2. \A i \in 1 .. Len(answers') : answers'[i] \in UploadAnswers
    BY <1>3
  <2> QED
    BY <2>1, <2>2
<1> QED
  BY <1>1, <1>4, <1>5, <1>6, <1>7 DEF r

(* The access and the info of the upload are not answered with its end.    *)
LEMMA SmallAnswer ==
  ASSUME SlotsTypeOK, InOrder, CommandAccess \/ CommandWriteInfo \/ CommandWriteRefused
  PROVE  /\ tool' = tool
         /\ \E a \in UploadAnswers : answers' = Append(answers, a) /\ ~IsDone(a)
<1>1. Head(requests).upload \in Uploads
  BY RequestTaken DEF CommandAccess, CommandWriteInfo, CommandWriteRefused
<1>2. PICK kind \in {"ok", "error"} : Answer(kind)
  BY DEF CommandAccess, CommandWriteInfo, CommandWriteRefused
<1> DEFINE a == [kind |-> kind, upload |-> Head(requests).upload, crc |-> <<>>]
<1>3. <<>> \in Seq(FlashWord)
  OBVIOUS
<1>4. a \in UploadAnswers /\ a.kind # "done"
  BY <1>1, <1>3 DEF UploadAnswers
<1>5. answers' = Append(answers, a)
  BY <1>2 DEF Answer
<1>6. tool' = tool
  BY DEF CommandAccess, CommandWriteInfo, CommandWriteRefused
<1> HIDE DEF a
<1> QED
  BY <1>4, <1>5, <1>6 DEF IsDone

LEMMA SentStep ==
  SlotsTypeOK /\ InOrder /\ Accessed /\ Sent /\ [SlotsNext]_uploadVars => Sent'
<1> SUFFICES ASSUME SlotsTypeOK, InOrder, Accessed, Sent, [SlotsNext]_uploadVars PROVE Sent'
  OBVIOUS
<1>0. /\ requests \in Seq(UploadRequests) /\ answers \in Seq(UploadAnswers) /\ tool \in Tool
      /\ tool.upload[1] \in Nat /\ owner[1] \in Nat /\ tool.upload \in Uploads
      /\ File(tool.upload) \in Files /\ tool.pos \in Nat /\ tool.queue \in Seq(UploadAnswers)
      /\ tool.pos % WORD = 0 /\ tool.pos < FileSize[File(tool.upload)]
      /\ tool.fed <= FileSize[File(tool.upload)]
  BY Typed DEF Sent
<1>1. tool.pc \in {"access", "toInfo"} =>
        /\ \A i \in DOMAIN requests : requests[i].upload = tool.upload => requests[i].kind = "access"
        /\ owner = tool.upload /\ ~broken => Fresh
        /\ ~Done
  BY DEF Sent
<1>2. Done => \A i \in DOMAIN requests :
                requests[i].upload = tool.upload /\ requests[i].kind = "write"
  BY DEF Sent
<1>3. ASSUME requests' = requests \/ (requests # <<>> /\ requests' = Tail(requests)) \/ requests' = <<>>
      PROVE  \A i \in DOMAIN requests' : \E j \in DOMAIN requests : requests'[i] = requests[j]
  BY <1>0, <1>3, TailOf, SMTT(30)
(* The requests are some of those there are, the tool is where it was.     *)
<1>4. ASSUME \A i \in DOMAIN requests' : \E j \in DOMAIN requests : requests'[i] = requests[j],
             tool' = tool, Done' => Done,
             tool.pc \in {"access", "toInfo"} /\ owner' = tool.upload /\ ~broken' => Fresh'
      PROVE  Sent'
  BY <1>0, <1>1, <1>2, <1>4 DEF Sent, File
<1>5. ASSUME UNCHANGED <<answers, tool>> PROVE Done' <=> Done
  BY <1>5 DEF Done, DoneOf
<1>6. ASSUME NEW f \in Files, NEW s \in FileSlot, StartUpload(f, s) PROVE Sent'
  <2> DEFINE u == <<budget.uploads, f>>
             r == [kind |-> "access", upload |-> u, slot |-> s]
  <2>1. requests' = Append(requests, r) /\ answers' = <<>>
        /\ UNCHANGED <<slotVars, slotIndex, slotOffset, pushed, takenVars>>
        /\ tool' = [NoTool EXCEPT !.pc = "access", !.upload = u, !.slot = s, !.sync = TRUE]
    BY <1>6 DEF StartUpload
  <2>2. tool'.upload = u /\ tool'.pos = 0 /\ tool'.fed = 0 /\ tool'.queue = <<>> /\ tool'.said[1] = "none"
    BY <2>1 DEF NoTool
  <2>3. ~Done'
    BY <2>1, <2>2 DEF Done, DoneOf
  <2>4. u \in Uploads /\ u[1] = budget.uploads /\ File(u) \in Files
    <3>1. budget.uploads \in 0 .. MaxUploads + 1
      BY Typed, Parameters, SMTT(30)
    <3> QED
      BY <3>1 DEF Uploads, File
  <2>5. budget.uploads \in Nat /\ budget.uploads < tool.upload[1] /\ budget.uploads < owner[1]
    <3>1. budget.uploads \in Nat
      BY Typed, Parameters
    <3> QED
      BY <3>1 DEF InOrder
  <2>6. r \in UploadRequests /\ r.kind = "access"
    BY <2>4 DEF UploadRequests
  <2>7. \A i \in DOMAIN requests : requests[i].upload # u
    <3>1. \A i \in DOMAIN requests : requests[i].upload[1] >= tool.upload[1] /\ requests[i].upload[1] \in Nat
      BY <1>0, RequestTyped DEF InOrder
    <3> QED
      BY <1>0, <2>4, <2>5, <3>1
  <2>8. owner # u /\ owner' = owner
    BY <1>0, <2>1, <2>4, <2>5 DEF takenVars
  <2> HIDE DEF r
  <2>9. \A i \in DOMAIN requests' :
          (i \in DOMAIN requests /\ requests'[i] = requests[i]) \/ requests'[i] = r
    BY <1>0, <2>1, <2>6, AppendTo
  <2>10. \A i \in DOMAIN requests' : requests'[i].upload = u => requests'[i].kind = "access"
    BY <2>6, <2>7, <2>9
  <2>11. 0 % WORD = 0 /\ 0 < FileSize[File(u)] /\ 0 <= FileSize[File(u)]
    <3>1. FileSize[File(u)] \in Nat \ {0} /\ WORD \in Nat \ {0}
      BY <2>4, Parameters
    <3> HIDE DEF u
    <3> QED
      BY <3>1
  <2> HIDE DEF u
  <2> QED
    BY <2>2, <2>3, <2>8, <2>10, <2>11 DEF Sent, File
<1>7. CASE SendInfo
  <2>1. tool.pc = "toInfo" /\ answers' = answers
        /\ tool' = [tool EXCEPT !.pc = "info", !.sync = TRUE, !.signal = FALSE]
    BY <1>7 DEF SendInfo
  <2>2. tool'.pc = "info" /\ tool'.upload = tool.upload /\ tool'.pos = tool.pos /\ tool'.fed = tool.fed
        /\ tool'.queue = tool.queue /\ tool'.said = tool.said
    BY <1>0, <2>1 DEF Tool
  <2>3. ~Done'
    BY <1>1, <2>1, <2>2 DEF Done, DoneOf
  <2> QED
    BY <1>0, <2>2, <2>3 DEF Sent, File
<1>8. CASE SendChunk
  <2> DEFINE len == ChunkLen(File(tool.upload), tool.pos)
             r == [kind |-> "write", upload |-> tool.upload, from |-> tool.pos, len |-> len]
  <2>1. answers' = answers /\ requests' = Append(requests, r)
        /\ tool' = [tool EXCEPT !.pc = "write", !.sync = TRUE, !.signal = FALSE, !.fed = tool.pos + len]
    BY <1>8 DEF SendChunk
  <2>2. tool'.pc = "write" /\ tool'.upload = tool.upload /\ tool'.pos = tool.pos /\ tool'.fed = tool.pos + len
        /\ tool'.queue = tool.queue /\ tool'.said = tool.said
    BY <1>0, <2>1 DEF Tool
  <2>3. Done' <=> Done
    BY <2>1, <2>2 DEF Done, DoneOf
  <2>4. len \in Nat /\ tool.pos + len <= FileSize[File(tool.upload)]
    BY <1>0, Chunks
  <2>5. r \in UploadRequests /\ r.kind = "write" /\ r.upload = tool.upload
    BY <1>0, <2>4 DEF UploadRequests
  <2> HIDE DEF r, len
  <2>6. \A i \in DOMAIN requests' :
          (i \in DOMAIN requests /\ requests'[i] = requests[i]) \/ requests'[i] = r
    BY <1>0, <2>1, <2>5, AppendTo
  <2>7. Done' => \A i \in DOMAIN requests' :
                   requests'[i].upload = tool.upload /\ requests'[i].kind = "write"
    BY <1>2, <2>3, <2>5, <2>6
  <2> QED
    BY <1>0, <2>2, <2>4, <2>7 DEF Sent, File
<1>9. CASE TakeAnswer \/ NoAnswer \/ AnswerArrives
  <2>1. /\ tool'.upload = tool.upload /\ tool'.fed = tool.fed
        /\ \/ tool'.pos = tool.pos
           \/ /\ tool'.pos = tool.pos + ChunkLen(File(tool.upload), tool.pos)
              /\ tool'.pos < FileSize[File(tool.upload)]
        /\ tool'.pc \in {"access", "toInfo"} => tool.pc \in {"access", "toInfo"}
        /\ UNCHANGED <<slotVars, slotIndex, slotOffset, pushed, requests, takenVars>>
    BY <1>9, ToolAnswered
  <2>2. Done' => Done
    BY <1>9, <2>1, AnswersMove DEF Done, DoneOf, IsDone
  <2>3. tool'.pos % WORD = 0 /\ tool'.pos < FileSize[File(tool.upload)]
    <3>1. \/ tool.pos + ChunkLen(File(tool.upload), tool.pos) = FileSize[File(tool.upload)]
          \/ (tool.pos + ChunkLen(File(tool.upload), tool.pos)) % WORD = 0
      BY <1>0, Chunks
    <3>2. FileSize[File(tool.upload)] \in Nat
      BY <1>0, Parameters
    <3> QED
      BY <1>0, <2>1, <3>1, <3>2
  <2>4. (Fresh' <=> Fresh) /\ broken' = broken /\ owner' = owner
    BY <2>1, SlotSame
  <2> QED
    BY <1>0, <1>1, <1>2, <2>1, <2>2, <2>3, <2>4 DEF Sent, File
<1>10. CASE LineLoses
  <2>1. /\ UNCHANGED <<slotVars, slotIndex, slotOffset, pushed, tool, takenVars>>
        /\ \/ requests # <<>> /\ requests' = Tail(requests) /\ answers' = answers
           \/ answers # <<>> /\ answers' = Tail(answers) /\ requests' = requests
    BY <1>10 DEF LineLoses
  <2>2. \A i \in DOMAIN requests' : \E j \in DOMAIN requests : requests'[i] = requests[j]
    BY <1>3, <2>1
  <2>3. \A i \in DOMAIN answers' : \E j \in DOMAIN answers : answers'[i] = answers[j]
    BY <1>0, <2>1, TailOf, SMTT(30)
  <2>4. Done' => Done
    BY <2>1, <2>3 DEF Done, DoneOf
  <2>5. (Fresh' <=> Fresh) /\ broken' = broken /\ owner' = owner
    BY <2>1, SlotSame
  <2> QED
    BY <1>1, <1>4, <2>1, <2>2, <2>4, <2>5
<1>11. CASE CommandAccess
  <2>1. tool' = tool /\ (Done' <=> Done)
    BY <1>11, SmallAnswer, AnswerAdded
  <2>2. requests # <<>> /\ requests' = Tail(requests)
    BY <1>11 DEF CommandAccess, Arrived
  <2>3. Fresh'
    <3>1. /\ slotIndex \in FileSlot /\ Head(requests).slot \in FileSlot
          /\ info \in [FileSlot -> {Blank, Garbled} \cup ({"info"} \X (0 .. BlankSize))]
          /\ complete \in [FileSlot -> BOOLEAN] /\ words \in [FileSlot -> [1 .. TopWord -> FlashWord]]
      BY <1>11, Typed, RequestTaken DEF CommandAccess
    <3> QED
      BY <1>11, <3>1 DEF CommandAccess, Fresh, TopWord, Blank
  <2> QED
    BY <1>3, <1>4, <2>1, <2>2, <2>3
<1>12. CASE CommandWriteInfo
  <2>1. tool' = tool /\ (Done' <=> Done)
    BY <1>12, SmallAnswer, AnswerAdded
  <2>2. requests # <<>> /\ requests' = Tail(requests) /\ owner' = owner
        /\ broken' = (broken \/ Head(requests).upload # owner)
    BY <1>12 DEF CommandWriteInfo, Arrived
  <2>3. Head(requests).kind = "info" /\ Head(requests) = requests[1] /\ 1 \in DOMAIN requests
    BY <1>12, RequestTaken DEF CommandWriteInfo
  <2>4. ~(tool.pc \in {"access", "toInfo"} /\ owner' = tool.upload /\ ~broken')
    BY <1>1, <2>2, <2>3
  <2> QED
    BY <1>3, <1>4, <2>1, <2>2, <2>4
<1>13. CASE CommandWriteRefused
  <2>1. tool' = tool /\ (Done' <=> Done)
    BY <1>13, SmallAnswer, AnswerAdded
  <2>2. requests # <<>> /\ requests' = Tail(requests)
        /\ UNCHANGED <<slotVars, slotIndex, slotOffset, pushed, takenVars>>
    BY <1>13 DEF CommandWriteRefused, Arrived
  <2>3. (Fresh' <=> Fresh) /\ broken' = broken /\ owner' = owner
    BY <2>2, SlotSame
  <2> QED
    BY <1>1, <1>3, <1>4, <2>1, <2>2, <2>3
<1>14. CASE CommandWrite
  <2> DEFINE r == Head(requests)
  <2>1. /\ r.kind = "write" /\ r = requests[1] /\ 1 \in DOMAIN requests /\ r.upload[1] \in Nat
        /\ \A i \in DOMAIN requests' : i + 1 \in DOMAIN requests /\ requests'[i] = requests[i + 1]
        /\ \A i \in DOMAIN requests' : Before(r, requests'[i])
    BY <1>14, RequestTaken DEF CommandWrite
  <2>2. tool' = tool /\ owner' = owner /\ broken' = (broken \/ r.upload # owner)
    BY <1>14, WriteEffect DEF CommandWrite
  <2>3. PICK a \in UploadAnswers : answers' = Append(answers, a) /\ a.upload = r.upload
    BY <1>14, WriteAnswer
  <2> HIDE DEF r
  <2>4. tool.pc \in {"access", "toInfo"} => r.upload # tool.upload
    BY <1>1, <2>1
  <2>5. ~(tool.pc \in {"access", "toInfo"} /\ owner' = tool.upload /\ ~broken')
    BY <2>2, <2>4
  <2>6. CASE ~IsDone(a)
    <3>1. Done' <=> Done
      BY <2>2, <2>3, <2>6, AnswerAdded
    <3>2. \A i \in DOMAIN requests' : \E j \in DOMAIN requests : requests'[i] = requests[j]
      BY <2>1
    <3> QED
      BY <1>4, <2>2, <2>5, <3>1, <3>2
  <2>7. CASE IsDone(a)
    <3>1. r.upload = tool.upload
      BY <2>3, <2>7 DEF IsDone
    <3>2. \A i \in DOMAIN requests' : requests'[i].upload = tool.upload /\ requests'[i].kind = "write"
      <4> TAKE i \in DOMAIN requests'
      <4>1. Before(r, requests'[i])
        BY <2>1
      <4>2. requests'[i].upload[1] >= tool.upload[1] /\ requests'[i].upload[1] \in Nat
        <5>1. i + 1 \in DOMAIN requests /\ requests'[i] = requests[i + 1]
          BY <2>1
        <5>2. requests[i + 1] \in UploadRequests
          BY <1>0, <5>1
        <5> QED
          BY <5>1, <5>2, RequestTyped DEF InOrder
      <4> QED
        BY <1>0, <2>1, <3>1, <4>1, <4>2 DEF Before
    <3>3. tool.pc \notin {"access", "toInfo"}
      BY <2>4, <3>1
    <3> QED
      BY <1>0, <2>2, <3>2, <3>3 DEF Sent, File
  <2> QED
    BY <2>6, <2>7
<1>15. CASE Restart
  <2>1. requests' = <<>> /\ tool' = tool /\ answers' = answers /\ broken'
    BY <1>15 DEF Restart
  <2> QED
    BY <1>3, <1>4, <1>5, <2>1
<1>16. CASE StartUpdate \/ ReadWord \/ UNCHANGED uploadVars
  <2>1. UNCHANGED <<slotVars, slotIndex, slotOffset, pushed, takenVars, requests, answers, tool>>
    BY <1>16 DEF StartUpdate, ReadWord, uploadVars
  <2>2. (Fresh' <=> Fresh) /\ broken' = broken /\ owner' = owner
    BY <2>1, SlotSame
  <2> QED
    BY <1>1, <1>3, <1>4, <1>5, <2>1, <2>2
<1> QED
  BY <1>6, <1>7, <1>8, <1>9, <1>10, <1>11, <1>12, <1>13, <1>14, <1>15, <1>16
     DEF SlotsNext, ToolNext, CommandArrival

LEMMA StoredSame ==
  ASSUME UNCHANGED <<slotVars, slotIndex, takenVars>>, tool'.upload = tool.upload
  PROVE  Stored' <=> Stored
  BY DEF Stored, Holds, Ready, slotVars, takenVars, WordsOf, DataWord, File

(* The answer to the last chunk: its CRC is that of the words in the slot. *)
LEMMA DoneStored ==
  ASSUME SlotsTypeOK, InOrder, Accessed, CommandWrite, ~broken',
         NEW size \in 0 .. BlankSize, SizeRead(size), Completes(Head(requests).len, size),
         Fits(Head(requests).len, size), complete'[slotIndex],
         FirstWords(IF complete[slotIndex] \/ info'[slotIndex] = Garbled THEN <<Garbled>> ELSE pushed',
                    File(owner))
  PROVE  Holds(slotIndex, File(owner))'
<1> DEFINE r == Head(requests)
           f == File(owner)
<1>1. /\ slotIndex' = slotIndex /\ owner' = owner /\ slotOffset' = slotOffset + r.len
      /\ ~broken /\ r.upload = owner
      /\ info' = IF slotOffset < HEADER THEN [info EXCEPT ![slotIndex] = Garbled] ELSE info
  BY WriteEffect
<1>2. /\ slotIndex \in FileSlot /\ slotOffset \in Nat /\ f \in Files /\ FileSize[f] \in Nat
      /\ HEADER \in Nat \ {0} /\ WORD \in Nat \ {0} /\ TopWord \in Nat
      /\ info \in [FileSlot -> {Blank, Garbled} \cup ({"info"} \X (0 .. BlankSize))]
  <2>1. f \in Files
    BY Typed
  <2> QED
    BY <2>1, Typed, Parameters
<1>3. r.len \in Nat \ {0}
  BY RequestTaken DEF CommandWrite
<1>4. ~FirstWords(<<Garbled>>, f)
  <2>1. SUFFICES ASSUME NEW m \in 0 .. WordsOf(FileSize[f]), <<Garbled>> = [i \in 1 .. m |-> DataWord(f, i)]
                 PROVE  FALSE
    BY DEF FirstWords
  <2>2. WordsOf(FileSize[f]) \in Nat
    BY <1>2, WordsNat
  <2>3. DOMAIN <<Garbled>> = 1 .. 1 /\ <<Garbled>>[1] = Garbled
    OBVIOUS
  <2>4. 1 \in 1 .. m
    BY <2>1, <2>3
  <2>5. Garbled = DataWord(f, 1)
    BY <2>1, <2>3, <2>4
  <2>6. Garbled[1] = "garbled" /\ DataWord(f, 1)[1] = "data"
    BY DEF Garbled, DataWord
  <2> QED
    BY <2>5, <2>6
<1>5. ~complete[slotIndex] /\ info'[slotIndex] # Garbled /\ FirstWords(pushed', f)
  BY <1>4
<1>6. InWriting
  <2>1. ~Fresh
    <3>1. SUFFICES ASSUME Fresh PROVE FALSE
      OBVIOUS
    <3>2. slotOffset < HEADER
      BY <1>2, <3>1 DEF Fresh
    <3> QED
      BY <1>1, <1>2, <1>5, <3>2
  <2>2. info[slotIndex] # Garbled
    BY <1>1, <1>2, <1>5
  <2> QED
    BY <1>1, <2>1, <2>2 DEF Accessed
<1>7. InWriting'
  BY <1>6, WriteKeeps
<1>8. size = FileSize[f] /\ Taken' = size
  <2>1. info[slotIndex] = <<"info", FileSize[f]>>
    BY <1>6 DEF InWriting
  <2>2. <<"info", FileSize[f]>> # Blank /\ <<"info", FileSize[f]>> # Garbled
    BY DEF Blank, Garbled
  <2>3. size = FileSize[f]
    BY <2>1, <2>2 DEF SizeRead
  <2>4. Taken' = slotOffset + r.len - HEADER
    BY <1>1, <1>2, <1>3 DEF Taken
  <2> QED
    BY <2>3, <2>4 DEF Completes
<1>9. PICK m \in 0 .. WordsOf(FileSize[f]) :
        m * WORD <= FileSize[f] /\ pushed' = [i \in 1 .. m |-> DataWord(f, i)]
  BY <1>5 DEF FirstWords
<1>10. m \in Nat /\ WordsOf(FileSize[f]) \in Nat
  <2>1. WordsOf(FileSize[f]) \in Nat
    BY <1>2, WordsNat
  <2> QED
    BY <2>1
<1>11. Len(pushed') = m
  BY <1>9, <1>10
<1>12. m * WORD = FileSize[f] /\ AsPushed'
  <2>1. Taken' <= Len(pushed') * WORD /\ (Taken' = Len(pushed') * WORD => AsPushed')
    BY <1>7 DEF InWriting
  <2>2. m * WORD \in Nat
    BY <1>2, <1>10
  <2> HIDE DEF f
  <2> QED
    BY <1>2, <1>8, <1>9, <1>11, <2>1, <2>2
<1>13. WordsOf(FileSize[f]) = m
  <2>1. (m * WORD) % WORD = 0 /\ (m * WORD) \div WORD = m
    BY <1>2, <1>10
  <2>2. FileSize[f] % WORD = 0 /\ FileSize[f] \div WORD = m
    BY <1>12, <2>1
  <2> QED
    BY <1>2, <2>2, WordsCounted
<1>14. m <= TopWord
  <2>1. FileSize[f] <= BlankSize
    BY <1>2, Parameters
  <2> QED
    BY <1>2, <1>13, <2>1, WordsFit
<1>15. ASSUME NEW i \in 1 .. m PROVE words'[slotIndex'][i] = DataWord(f, i)
  <2>1. i \in 1 .. TopWord /\ i <= Len(pushed')
    BY <1>2, <1>10, <1>11, <1>14
  <2>2. words'[slotIndex'][i] = pushed'[i]
    BY <1>12, <2>1 DEF AsPushed, TopWord
  <2> QED
    BY <1>9, <2>2
<1>16. info'[slotIndex'] = <<"info", FileSize[f]>>
  BY <1>1, <1>7 DEF InWriting, File
<1> QED
  BY <1>1, <1>13, <1>15, <1>16 DEF Holds, Ready, WordsOf, DataWord, File

LEMMA AnsweredStep ==
  SlotsTypeOK /\ InOrder /\ Accessed /\ Sent /\ Answered /\ [SlotsNext]_uploadVars => Answered'
<1> SUFFICES ASSUME SlotsTypeOK, InOrder, Accessed, Sent, Answered, [SlotsNext]_uploadVars, ~broken'
             PROVE  Answered'
  BY DEF Answered
<1>0. /\ answers \in Seq(UploadAnswers) /\ tool.queue \in Seq(UploadAnswers) /\ tool \in Tool
      /\ slotIndex \in FileSlot
  BY Typed
<1>1. ~broken => Means(answers) /\ Means(tool.queue) /\ (tool.said = <<"pass", tool.upload>> => Stored)
  BY DEF Answered
(* What is answered was answered before, of the same slot.                 *)
<1>2. ASSUME \A i \in DOMAIN answers' :
               (\E j \in DOMAIN answers : answers'[i] = answers[j]) \/ ~IsDone(answers'[i]),
             \A i \in DOMAIN tool'.queue :
               \/ \E j \in DOMAIN tool.queue : tool'.queue[i] = tool.queue[j]
               \/ \E j \in DOMAIN answers : tool'.queue[i] = answers[j],
             tool'.upload = tool.upload,
             tool'.said = <<"pass", tool.upload>> =>
               \/ tool.said = <<"pass", tool.upload>>
               \/ \E j \in DOMAIN tool.queue :
                    IsDone(tool.queue[j]) /\ FirstWords(tool.queue[j].crc, File(tool.upload))
               \/ \E j \in DOMAIN answers :
                    IsDone(answers[j]) /\ FirstWords(answers[j].crc, File(tool.upload)),
             ~broken, owner' = owner, Stored => Stored'
      PROVE  Answered'
  <2>1. /\ \A i \in DOMAIN answers :
             IsDone(answers[i]) =>
               owner = tool.upload /\ (FirstWords(answers[i].crc, File(tool.upload)) => Stored')
        /\ \A i \in DOMAIN tool.queue :
             IsDone(tool.queue[i]) =>
               owner = tool.upload /\ (FirstWords(tool.queue[i].crc, File(tool.upload)) => Stored')
        /\ tool.said = <<"pass", tool.upload>> => Stored'
    BY <1>1, <1>2 DEF Means, IsDone
  <2>2. Means(answers)'
    <3>1. \A i \in DOMAIN answers' :
            answers'[i].kind = "done" /\ answers'[i].upload = tool'.upload =>
              owner' = tool'.upload /\ (FirstWords(answers'[i].crc, File(tool'.upload)) => Stored')
      BY <1>2, <2>1 DEF IsDone
    <3> QED
      BY <3>1 DEF Means, FirstWords, File, WordsOf, DataWord
  <2>3. Means(tool.queue)'
    <3>1. \A i \in DOMAIN tool'.queue :
            tool'.queue[i].kind = "done" /\ tool'.queue[i].upload = tool'.upload =>
              owner' = tool'.upload /\ (FirstWords(tool'.queue[i].crc, File(tool'.upload)) => Stored')
      BY <1>2, <2>1 DEF IsDone
    <3> QED
      BY <3>1 DEF Means, FirstWords, File, WordsOf, DataWord
  <2>4. tool'.said = <<"pass", tool'.upload>> => Stored'
    BY <1>2, <2>1
  <2> QED
    BY <2>2, <2>3, <2>4 DEF Answered
(* A request that is not the end of the tool's upload, and none was.       *)
<1>3. ASSUME ~Done, tool' = tool, NEW a \in UploadAnswers, answers' = Append(answers, a), ~IsDone(a)
      PROVE  Answered'
  <2>1. Done' <=> Done
    BY <1>3, AnswerAdded
  <2> QED
    BY <1>3, <2>1 DEF Answered, Done, DoneOf, Means
<1>4. ASSUME NEW f \in Files, NEW s \in FileSlot, StartUpload(f, s) PROVE Answered'
  <2>1. answers' = <<>> /\ tool'.queue = <<>> /\ tool'.said[1] = "none"
    BY <1>4 DEF StartUpload, NoTool
  <2> QED
    BY <2>1 DEF Answered, Means
<1>5. CASE SendInfo \/ SendChunk
  <2>1. UNCHANGED <<answers, slotVars, slotIndex, slotOffset, pushed, takenVars>>
        /\ tool'.upload = tool.upload /\ tool'.queue = tool.queue /\ tool'.said = tool.said
    BY <1>0, <1>5 DEF SendInfo, SendChunk, Tool
  <2>2. (Stored' <=> Stored) /\ broken' = broken /\ owner' = owner
    BY <2>1, StoredSame DEF takenVars
  <2> QED
    BY <1>2, <2>1, <2>2
<1>6. CASE TakeAnswer \/ NoAnswer \/ AnswerArrives
  <2>1. UNCHANGED <<slotVars, slotIndex, slotOffset, pushed, takenVars>> /\ tool'.upload = tool.upload
    BY <1>6, ToolAnswered
  <2>2. (Stored' <=> Stored) /\ broken' = broken /\ owner' = owner
    BY <2>1, StoredSame DEF takenVars
  <2> QED
    BY <1>2, <1>6, <2>1, <2>2, AnswersMove
<1>7. CASE LineLoses
  <2>1. UNCHANGED <<slotVars, slotIndex, slotOffset, pushed, takenVars, tool>>
        /\ (answers' = answers \/ (answers # <<>> /\ answers' = Tail(answers)))
    BY <1>7 DEF LineLoses
  <2>2. (Stored' <=> Stored) /\ broken' = broken /\ owner' = owner
    BY <2>1, StoredSame DEF takenVars
  <2>3. \A i \in DOMAIN answers' : \E j \in DOMAIN answers : answers'[i] = answers[j]
    BY <1>0, <2>1, TailOf, SMTT(30)
  <2> QED
    BY <1>2, <2>1, <2>2, <2>3
<1>8. CASE CommandAccess \/ CommandWriteInfo
  <2>1. Head(requests) = requests[1] /\ 1 \in DOMAIN requests /\ Head(requests).kind # "write"
    BY <1>8, RequestTaken DEF CommandAccess, CommandWriteInfo
  <2>2. ~Done
    BY <2>1 DEF Sent
  <2> QED
    BY <1>3, <1>8, <2>2, SmallAnswer
<1>9. CASE CommandWriteRefused
  <2>1. UNCHANGED <<slotVars, slotIndex, slotOffset, pushed, takenVars>>
    BY <1>9 DEF CommandWriteRefused
  <2>2. tool' = tool /\ \A i \in DOMAIN answers' : IsDone(answers'[i]) => i \in DOMAIN answers /\ answers'[i] = answers[i]
    BY <1>9, SmallAnswer, AnswerAdded
  <2>3. (Stored' <=> Stored) /\ broken' = broken /\ owner' = owner
    BY <2>1, <2>2, StoredSame DEF takenVars
  <2> QED
    BY <1>2, <2>2, <2>3
<1>10. CASE CommandWrite
  <2>1. slotIndex' = slotIndex /\ owner' = owner /\ tool' = tool /\ ~broken /\ Head(requests).upload = owner
    BY <1>10, WriteEffect DEF CommandWrite
  <2>2. ~Stored
    BY <1>10, <2>1, Filled DEF Stored, Holds
  <2>3. PICK a \in UploadAnswers, size \in 0 .. BlankSize :
          LET r == Head(requests) IN
          /\ answers' = Append(answers, a) /\ a.upload = r.upload
          /\ SizeRead(size) /\ Fits(r.len, size)
          /\ a.kind = "done" =>
               /\ Completes(r.len, size) /\ complete'[slotIndex]
               /\ a.crc = IF complete[slotIndex] \/ info'[slotIndex] = Garbled THEN <<Garbled>> ELSE pushed'
    BY <1>10, WriteAnswer
  <2>4. CASE ~IsDone(a)
    <3>1. \A i \in DOMAIN answers' : IsDone(answers'[i]) => i \in DOMAIN answers /\ answers'[i] = answers[i]
      BY <2>1, <2>3, <2>4, AnswerAdded
    <3> QED
      BY <1>2, <2>1, <2>2, <3>1
  <2>5. CASE IsDone(a)
    <3>1. owner = tool.upload
      BY <2>1, <2>3, <2>5 DEF IsDone
    <3>2. FirstWords(a.crc, File(tool.upload)) => Stored'
      <4>1. SUFFICES ASSUME FirstWords(a.crc, File(tool.upload)) PROVE Stored'
        OBVIOUS
      <4>2. Holds(slotIndex, File(owner))'
        BY <1>10, <2>3, <2>5, <3>1, <4>1, DoneStored DEF IsDone
      <4> QED
        BY <2>1, <3>1, <4>2 DEF Stored
    <3>3. \A i \in DOMAIN answers' : (\E j \in DOMAIN answers : answers'[i] = answers[j]) \/ answers'[i] = a
      BY <1>0, <2>3, AppendTo
    <3>4. \A i \in DOMAIN answers : IsDone(answers[i]) => ~FirstWords(answers[i].crc, File(tool.upload))
      BY <1>1, <2>1, <2>2 DEF Means, IsDone
    <3>5. \A i \in DOMAIN answers' :
            answers'[i].kind = "done" /\ answers'[i].upload = tool.upload =>
              (FirstWords(answers'[i].crc, File(tool.upload)) => Stored')
      BY <3>2, <3>3, <3>4 DEF IsDone
    <3>6. Means(answers)'
      BY <2>1, <3>1, <3>5 DEF Means, FirstWords, File, WordsOf, DataWord
    <3>7. Means(tool.queue)'
      <4>1. \A i \in DOMAIN tool.queue : IsDone(tool.queue[i]) => ~FirstWords(tool.queue[i].crc, File(tool.upload))
        BY <1>1, <2>1, <2>2 DEF Means, IsDone
      <4> QED
        BY <2>1, <3>1, <4>1 DEF Means, FirstWords, File, WordsOf, DataWord, IsDone
    <3>8. tool'.said # <<"pass", tool'.upload>>
      BY <1>1, <2>1, <2>2
    <3> QED
      BY <3>6, <3>7, <3>8 DEF Answered
  <2> QED
    BY <2>4, <2>5
<1>11. CASE Restart
  BY <1>11 DEF Restart
<1>12. CASE StartUpdate \/ ReadWord \/ UNCHANGED uploadVars
  <2>1. UNCHANGED <<slotVars, slotIndex, slotOffset, pushed, takenVars, requests, answers, tool>>
    BY <1>12 DEF StartUpdate, ReadWord, uploadVars
  <2>2. (Stored' <=> Stored) /\ broken' = broken /\ owner' = owner
    BY <2>1, StoredSame DEF takenVars
  <2> QED
    BY <1>2, <2>1, <2>2
<1> QED
  BY <1>4, <1>5, <1>6, <1>7, <1>8, <1>9, <1>10, <1>11, <1>12
     DEF SlotsNext, ToolNext, CommandArrival

----------------------------------------------------------------------------
LEMMA SlotsInitially == SlotsInit => SlotsInv
<1> SUFFICES ASSUME SlotsInit PROVE SlotsInv
  OBVIOUS
<1> USE DEF SlotsInit
<1>0. 0 \in FileSlot /\ TopWord \in Nat /\ <<>> \in Seq(FlashWord) /\ <<>> \in Seq(UploadRequests)
      /\ <<>> \in Seq(UploadAnswers) /\ Blank \in FlashWord /\ NoUpload \in Uploads
      /\ <<"none", NoUpload>> \in Sayings
  <2>1. NoUpload \in Uploads
    BY Parameters DEF NoUpload, Uploads
  <2> QED
    BY <2>1, Parameters DEF FileSlot, FlashWord, Sayings
<1>1. NoTool \in Tool /\ NoTool.upload = NoUpload /\ ~NoTool.signal /\ NoTool.pc = "idle"
      /\ NoTool.pos = 0 /\ NoTool.fed = 0 /\ NoTool.queue = <<>> /\ NoTool.said = <<"none", NoUpload>>
  BY <1>0 DEF NoTool, Tool
<1>2. NoReader \in Reader /\ NoReader.pc = "idle"
  BY <1>0, Parameters DEF NoReader, Reader
<1>3. budget \in Budget /\ budget.uploads = MaxUploads
  BY FilesAssumption DEF Budget
<1>4. SlotsTypeOK
  <2>1. info \in [FileSlot -> {Blank, Garbled} \cup ({"info"} \X (0 .. BlankSize))]
    OBVIOUS
  <2>2. words \in [FileSlot -> [1 .. TopWord -> FlashWord]] /\ complete \in [FileSlot -> BOOLEAN]
    BY <1>0
  <2>3. 0 \in 0 .. HEADER + BlankSize
    BY Parameters
  <2> QED
    BY <1>0, <1>1, <1>2, <1>3, <2>1, <2>2, <2>3 DEF SlotsTypeOK
<1>5. InOrder
  <2>1. NoUpload[1] = MaxUploads + 1 /\ MaxUploads \in Nat
    BY Parameters DEF NoUpload
  <2> QED
    BY <1>1, <1>3, <2>1 DEF InOrder
<1>6. Accessed
  BY <1>0 DEF Accessed, Fresh
<1>7. Sent
  <2>1. File(NoUpload) \in Files
    BY Parameters DEF NoUpload, File
  <2>2. FileSize[File(NoUpload)] \in Nat \ {0} /\ WORD \in Nat \ {0}
    BY <2>1, Parameters
  <2>3. 0 % WORD = 0
    BY <2>2
  <2>4. ~Done
    BY <1>1 DEF Done, DoneOf
  <2> QED
    BY <1>1, <2>2, <2>3, <2>4 DEF Sent
<1>8. Answered
  BY <1>1 DEF Answered, Means
<1>9. Reads
  BY <1>2 DEF Reads
<1>10. ReadyIsWhole
  BY DEF ReadyIsWhole, Ready
<1> QED
  BY <1>4, <1>5, <1>6, <1>7, <1>8, <1>9, <1>10 DEF SlotsInv

LEMMA SlotsInvariant == SlotsSpec => []SlotsInv
<1>1. SlotsInv /\ [SlotsNext]_uploadVars => SlotsInv'
  BY SlotsTypeStep, OrderStep, AccessedStep, SentStep, AnsweredStep, ReadsStep, ReadyStep DEF SlotsInv
<1> QED
  BY <1>1, SlotsInitially, PTL DEF SlotsSpec

(* A slot that UpdateOne would choose holds one whole file.                *)
THEOREM ReadyCorrect == SlotsSpec => []ReadyIsWhole
<1>1. SlotsInv => ReadyIsWhole
  BY DEF SlotsInv
<1> QED
  BY <1>1, SlotsInvariant, PTL

(* When the tool says "CRC Validation: Pass", a slot holds the file.       *)
THEOREM PassCorrect == SlotsSpec => []PassMeansFile
<1>1. SlotsInv => PassMeansFile
  <2> SUFFICES ASSUME SlotsInv, tool.said = <<"pass", tool.upload>>, ~broken
               PROVE  \E s \in FileSlot : Holds(s, File(tool.upload))
    BY DEF PassMeansFile
  <2>1. Holds(slotIndex, File(tool.upload))
    BY DEF SlotsInv, Answered, Stored
  <2>2. slotIndex \in FileSlot
    BY DEF SlotsInv, SlotsTypeOK
  <2> QED
    BY <2>1, <2>2
<1> QED
  BY <1>1, SlotsInvariant, PTL

(* An update that is not disturbed reads one whole file.                   *)
THEOREM ReadCorrect == SlotsSpec => []UpdateReadsFile
<1>1. SlotsInv => UpdateReadsFile
  BY DEF SlotsInv, Reads, UpdateReadsFile
<1> QED
  BY <1>1, SlotsInvariant, PTL

----------------------------------------------------------------------------
(* An upload in which nothing goes wrong: one request or one answer is on  *)
(* its way at a time, and the slot is as far as the tool.                  *)
Quiet == requests = <<>> /\ answers = <<>> /\ tool.queue = <<>>
Asked ==
  /\ tool.sync /\ answers = <<>> /\ tool.queue = <<>> /\ Len(requests) = 1
  /\ requests[1].kind = tool.pc /\ requests[1].upload = tool.upload
  /\ tool.pc = "access" => requests[1].slot = tool.slot
  /\ tool.pc = "write" => requests[1].from = tool.pos
Reply == IF answers = <<>> THEN tool.queue[1] ELSE answers[1]
Replied ==
  /\ tool.sync /\ requests = <<>>
  /\ \/ answers = <<>> /\ Len(tool.queue) = 1 /\ tool.signal
     \/ Len(answers) = 1 /\ tool.queue = <<>>

Own == ~broken /\ owner = tool.upload /\ slotIndex = tool.slot /\ slotIndex \notin suspect
Begun ==
  /\ Own /\ info[slotIndex] = <<"info", FileSize[File(owner)]>> /\ ~complete[slotIndex]
  /\ slotOffset = HEADER + reached
  /\ pushed = [i \in 1 .. WordsOf(reached) |-> DataWord(File(owner), i)]
Refused == FileSize[File(tool.upload)] % CHUNK \in 1 .. LEAST /\ ~Ready(tool.slot)
Uploaded == Holds(tool.slot, File(tool.upload))
SaidPass == FileSize[File(tool.upload)] % WORD = 0 => tool.said = <<"pass", tool.upload>>

Until == tool.pos + ChunkLen(File(tool.upload), tool.pos)
Small == Reply.kind = "error" /\ Until - tool.pos <= LEAST /\ Begun /\ reached = tool.pos
Written ==
  Reply.kind = "ok" /\ Until < FileSize[File(tool.upload)] /\ Begun /\ reached = Until
Completed ==
  /\ Reply.kind = "done" /\ Reply.upload = tool.upload
  /\ Reply.crc = FileWords(File(tool.upload))
  /\ Until = FileSize[File(tool.upload)] /\ Uploaded

(* The tool's steps, one after the other.                                  *)
InAccess ==
  /\ tool.pc = "access" /\ tool.pos = 0
  /\ Asked \/ (Own /\ Fresh /\ Replied /\ Reply.kind = "ok")
BeforeInfo == tool.pc = "toInfo" /\ tool.pos = 0 /\ Quiet /\ Own /\ Fresh
InInfo ==
  /\ tool.pc = "info" /\ tool.pos = 0
  /\ (Asked /\ Own /\ Fresh) \/ (Replied /\ Reply.kind = "ok" /\ Begun /\ reached = 0)
BeforeWrite == tool.pc = "toWrite" /\ Quiet /\ Begun /\ reached = tool.pos
InWrite ==
  /\ tool.pc = "write" /\ tool.fed = Until
  /\ \/ Asked /\ Begun /\ reached = tool.pos
     \/ Replied /\ (Small \/ Written \/ Completed)
AtEnd == tool.pc = "done" /\ Quiet /\ (Refused \/ (Uploaded /\ SaidPass))

Phase ==
  \/ tool.pc = "idle"
  \/ InAccess \/ BeforeInfo \/ InInfo \/ BeforeWrite \/ InWrite \/ AtEnd
Clean == ~faulty => tool.pos % CHUNK = 0 /\ Phase

(* The parts of Clean that are about the slot.                             *)
LEMMA CleanSame ==
  ASSUME UNCHANGED <<slotVars, slotIndex, slotOffset, pushed, takenVars>>,
         tool'.upload = tool.upload, tool'.slot = tool.slot
  PROVE  /\ Own' <=> Own
         /\ Begun' <=> Begun
         /\ Fresh' <=> Fresh
         /\ Refused' <=> Refused
         /\ Uploaded' <=> Uploaded
         /\ reached' = reached
<1>1. Fresh' <=> Fresh
  BY SlotSame
<1>2. /\ UNCHANGED <<info, complete, words, slotIndex, slotOffset, pushed>>
      /\ UNCHANGED <<broken, owner, reached, suspect>>
  BY DEF slotVars, takenVars
<1>3. Own' <=> Own
  BY <1>2 DEF Own
<1>4. Begun' <=> Begun
  BY <1>2, <1>3 DEF Begun, File, WordsOf, DataWord
<1>5. Refused' <=> Refused
  BY <1>2 DEF Refused, Ready, File
<1>6. Uploaded' <=> Uploaded
  BY <1>2 DEF Uploaded, Holds, Ready, File, WordsOf, DataWord
<1> QED
  BY <1>1, <1>2, <1>3, <1>4, <1>5, <1>6

(* A step that leaves the upload, its slot and its line as they are.       *)
LEMMA PhaseSame ==
  ASSUME Phase,
         UNCHANGED <<slotVars, slotIndex, slotOffset, pushed, requests, answers, takenVars, tool>>
  PROVE  Phase'
<1>1. /\ Own' <=> Own
      /\ Begun' <=> Begun
      /\ Fresh' <=> Fresh
      /\ Refused' <=> Refused
      /\ Uploaded' <=> Uploaded
      /\ reached' = reached
  <2>1. tool'.upload = tool.upload /\ tool'.slot = tool.slot
    OBVIOUS
  <2> QED
    BY <2>1, CleanSame
<1>2. UNCHANGED <<Quiet, Asked, Replied, Reply, Until, SaidPass>>
  BY DEF Quiet, Asked, Replied, Reply, Until, SaidPass, ChunkLen, File
<1>3. UNCHANGED <<Small, Written, Completed>>
  <2>1. FileSize[File(tool.upload)]' = FileSize[File(tool.upload)]
        /\ FileWords(File(tool.upload))' = FileWords(File(tool.upload))
    BY DEF File, FileWords, WordsOf, DataWord
  <2> QED
    BY <1>1, <1>2, <2>1 DEF Small, Written, Completed
<1> QED
  BY <1>1, <1>2, <1>3 DEF Phase, InAccess, BeforeInfo, InInfo, BeforeWrite, InWrite, AtEnd

(* The steps of a clean upload, one after the other.                       *)
LEMMA ToolFields ==
  ASSUME SlotsTypeOK
  PROVE  /\ tool \in Tool /\ tool.pos \in Nat /\ tool.count \in 0 .. 3
         /\ tool.pc \in {"idle", "access", "toInfo", "info", "toWrite", "write", "done"}
         /\ File(tool.upload) \in Files /\ FileSize[File(tool.upload)] \in Nat \ {0}
         /\ tool.queue \in Seq(UploadAnswers) /\ answers \in Seq(UploadAnswers)
         /\ requests \in Seq(UploadRequests)
<1>1. tool \in Tool /\ File(tool.upload) \in Files
  BY Typed
<1>2. FileSize[File(tool.upload)] \in Nat \ {0}
  BY <1>1, Parameters
<1> QED
  BY <1>1, <1>2, Typed DEF Tool

LEMMA OneOf ==
  ASSUME NEW S, NEW s \in Seq(S)
  PROVE  Len(s) = 1 => s # <<>> /\ Tail(s) = <<>> /\ Head(s) = s[1]
<1> SUFFICES ASSUME Len(s) = 1 PROVE s # <<>> /\ Tail(s) = <<>> /\ Head(s) = s[1]
  OBVIOUS
<1>1. s # <<>> /\ Head(s) = s[1]
  OBVIOUS
<1>2. Tail(s) \in Seq(S) /\ Len(Tail(s)) = 0
  BY <1>1
<1>3. ASSUME NEW t \in Seq(S), Len(t) = 0 PROVE t = <<>>
  BY <1>3
<1> QED
  BY <1>1, <1>2, <1>3

(* The last chunk of a file, which is shorter, and the ones before it.     *)
LEMMA ChunkEnds ==
  ASSUME NEW f \in Files, NEW pos \in Nat, pos < FileSize[f], pos % CHUNK = 0, pos % WORD = 0
  PROVE  LET len == ChunkLen(f, pos) IN
         /\ len \in Nat \ {0} /\ pos + len <= FileSize[f] /\ pos + len \in Nat
         /\ pos + len # FileSize[f] => (pos + len) % CHUNK = 0
         /\ len <= LEAST => FileSize[f] % CHUNK \in 1 .. LEAST
<1> DEFINE len == ChunkLen(f, pos)
           size == FileSize[f]
<1>1. size \in Nat /\ CHUNK \in Nat \ {0} /\ LEAST \in Nat /\ LEAST < CHUNK
  BY Parameters, FilesAssumption
<1>2. len \in Nat \ {0} /\ pos + len <= size
  BY Chunks
<1>3. len = IF size - pos < CHUNK THEN size - pos ELSE CHUNK
  BY DEF ChunkLen
<1> HIDE DEF len, size
<1>4. ASSUME pos + len # size PROVE (pos + len) % CHUNK = 0
  <2>1. len = CHUNK
    BY <1>1, <1>2, <1>3, <1>4
  <2>2. pos \div CHUNK \in Nat /\ pos = CHUNK * (pos \div CHUNK) + (pos % CHUNK)
    BY <1>1
  <2>3. ASSUME NEW k \in Nat PROVE (k * CHUNK) % CHUNK = 0
    BY <1>1
  <2>4. ((pos \div CHUNK + 1) * CHUNK) % CHUNK = 0
    <3>1. pos \div CHUNK + 1 \in Nat
      BY <2>2
    <3> QED
      BY <2>3, <3>1
  <2>5. pos + CHUNK = (pos \div CHUNK + 1) * CHUNK
    BY <1>1, <2>2
  <2> QED
    BY <2>1, <2>4, <2>5
<1>5. ASSUME len <= LEAST PROVE size % CHUNK \in 1 .. LEAST
  <2>1. size = pos + len /\ len \in 1 .. LEAST /\ len \in 0 .. CHUNK - 1
    BY <1>1, <1>2, <1>3, <1>5
  <2>2. \A n \in Nat, k \in 0 .. CHUNK - 1 : n % CHUNK = 0 => (n + k) % CHUNK = k
    BY <1>1
  <2>3. (pos + len) % CHUNK = len
    BY <2>1, <2>2
  <2> QED
    BY <2>1, <2>3
<1>6. pos + len \in Nat
  BY <1>2
<1> QED
  BY <1>2, <1>4, <1>5, <1>6 DEF len, size

LEMMA CleanAsks ==
  ASSUME SlotsTypeOK, Sent, Clean, ~faulty',
         (\E f \in Files, s \in FileSlot : StartUpload(f, s)) \/ SendInfo \/ SendChunk
  PROVE  tool'.pos % CHUNK = 0 /\ Phase'
<1>1. CHUNK \in Nat \ {0} /\ 0 % CHUNK = 0
  <2>1. CHUNK \in Nat \ {0}
    BY Parameters
  <2> QED
    BY <2>1
<1>2. CASE \E f \in Files, s \in FileSlot : StartUpload(f, s)
  <2>1. PICK f \in Files, s \in FileSlot : StartUpload(f, s)
    BY <1>2
  <2> DEFINE upload == <<budget.uploads, f>>
  <2>2. tool' = [NoTool EXCEPT !.pc = "access", !.upload = upload, !.slot = s, !.sync = TRUE]
        /\ requests = <<>> /\ answers' = <<>>
        /\ requests' = Append(requests, [kind |-> "access", upload |-> upload, slot |-> s])
    BY <2>1 DEF StartUpload
  <2> HIDE DEF upload
  <2>3. /\ tool'.pc = "access" /\ tool'.upload = upload /\ tool'.slot = s /\ tool'.sync = TRUE
        /\ tool'.pos = 0 /\ tool'.queue = <<>>
    BY <2>2 DEF NoTool
  <2>4. Len(requests') = 1 /\ requests'[1] = [kind |-> "access", upload |-> upload, slot |-> s]
    BY <2>2
  <2>5. Asked'
    BY <2>2, <2>3, <2>4 DEF Asked
  <2> QED
    BY <1>1, <2>3, <2>5 DEF Phase, InAccess
<1>3. CASE SendInfo
  <2>1. /\ tool.pc = "toInfo" /\ ~faulty
        /\ tool' = [tool EXCEPT !.pc = "info", !.sync = TRUE, !.signal = FALSE]
        /\ requests' = Append(requests, [kind |-> "info", upload |-> tool.upload])
        /\ UNCHANGED <<slotVars, slotIndex, slotOffset, pushed, answers, takenVars>>
    BY <1>3 DEF SendInfo
  <2>2. BeforeInfo
    BY <2>1 DEF Clean, Phase, InAccess, InInfo, BeforeWrite, InWrite, AtEnd
  <2>3. tool'.pc = "info" /\ tool'.sync = TRUE /\ tool'.pos = tool.pos /\ tool'.slot = tool.slot
        /\ tool'.upload = tool.upload /\ tool'.queue = tool.queue
    BY <2>1, ToolFields DEF Tool
  <2>4. Own' /\ Fresh'
    BY <2>1, <2>2, <2>3, CleanSame DEF BeforeInfo
  <2>5. requests = <<>> /\ answers' = <<>> /\ tool'.queue = <<>> /\ tool'.pos = 0
    BY <2>1, <2>2, <2>3 DEF BeforeInfo, Quiet
  <2>6. Len(requests') = 1 /\ requests'[1] = [kind |-> "info", upload |-> tool.upload]
    BY <2>1, <2>5
  <2>7. Asked'
    BY <2>3, <2>5, <2>6 DEF Asked
  <2> QED
    BY <1>1, <2>3, <2>4, <2>5, <2>7 DEF Phase, InInfo
<1>4. CASE SendChunk
  <2> DEFINE len == ChunkLen(File(tool.upload), tool.pos)
             r == [kind |-> "write", upload |-> tool.upload, from |-> tool.pos, len |-> len]
  <2>1. /\ tool.pc = "toWrite" /\ ~faulty
        /\ tool' = [tool EXCEPT !.pc = "write", !.sync = TRUE, !.signal = FALSE,
                                !.fed = tool.pos + len]
        /\ requests' = Append(requests, r)
        /\ UNCHANGED <<slotVars, slotIndex, slotOffset, pushed, answers, takenVars>>
    BY <1>4 DEF SendChunk
  <2>2. BeforeWrite /\ tool.pos % CHUNK = 0
    BY <2>1 DEF Clean, Phase, InAccess, InInfo, BeforeInfo, InWrite, AtEnd
  <2>3. r.kind = "write" /\ r.upload = tool.upload /\ r.from = tool.pos
    OBVIOUS
  <2> HIDE DEF r
  <2>4. tool'.pc = "write" /\ tool'.sync = TRUE /\ tool'.pos = tool.pos /\ tool'.slot = tool.slot
        /\ tool'.upload = tool.upload /\ tool'.queue = tool.queue /\ tool'.fed = tool.pos + len
    <3> HIDE DEF len
    <3> QED
      BY <2>1, ToolFields DEF Tool
  <2>5. Begun' /\ reached' = tool'.pos
    BY <2>1, <2>2, <2>4, CleanSame DEF BeforeWrite
  <2>6. requests = <<>> /\ answers' = <<>> /\ tool'.queue = <<>>
    BY <2>1, <2>2, <2>4 DEF BeforeWrite, Quiet
  <2>7. Len(requests') = 1 /\ requests'[1] = r
    BY <2>1, <2>6
  <2>8. Asked'
    BY <2>3, <2>4, <2>6, <2>7 DEF Asked
  <2>9. tool'.fed = Until'
    BY <2>4 DEF Until, ChunkLen
  <2> QED
    BY <2>2, <2>4, <2>5, <2>8, <2>9 DEF Phase, InWrite
<1> QED
  BY <1>2, <1>3, <1>4

(* The tool takes an answer: the one reply there is.                       *)
LEMMA CleanTakes ==
  ASSUME SlotsTypeOK, Sent, Clean, ~faulty', TakeAnswer
  PROVE  tool'.pos % CHUNK = 0 /\ Phase'
<1> DEFINE t == [tool EXCEPT !.sync = FALSE, !.signal = FALSE, !.queue = Tail(@),
                             !.said = Said(Head(tool.queue))]
           file == File(tool.upload)
           len == ChunkLen(file, tool.pos)
<1>1. /\ tool.pc \in {"access", "info", "write"} /\ tool.signal /\ ~faulty
      /\ tool' = IF Head(tool.queue).kind = "error" THEN AfterException(t) ELSE Proceed(t)
      /\ UNCHANGED <<slotVars, slotIndex, slotOffset, pushed, requests, answers, takenVars>>
  BY DEF TakeAnswer, Waiting
<1>2. /\ t \in Tool /\ t.upload = tool.upload /\ t.pos = tool.pos /\ t.fed = tool.fed
      /\ t.pc = tool.pc /\ t.slot = tool.slot
      /\ t.queue = Tail(tool.queue) /\ t.said = Said(Head(tool.queue))
  BY <1>1, TakenTyped
<1> HIDE DEF t
<1>3. tool.pos % CHUNK = 0 /\ (InAccess \/ InInfo \/ InWrite)
  BY <1>1 DEF Clean, Phase, BeforeInfo, BeforeWrite, AtEnd
<1>4. ~Asked
  <2>1. tool.queue # <<>>
    BY <1>1 DEF SlotsTypeOK
  <2> QED
    BY <2>1 DEF Asked
<1>5. /\ Replied /\ requests' = <<>> /\ answers' = <<>> /\ Head(tool.queue) = Reply /\ t.queue = <<>>
  <2>1. Replied
    BY <1>3, <1>4 DEF InAccess, InInfo, InWrite
  <2>2. tool.queue # <<>>
    BY <1>1 DEF SlotsTypeOK
  <2>3. answers = <<>> /\ Len(tool.queue) = 1 /\ requests = <<>>
    BY <2>1, <2>2 DEF Replied
  <2>4. Tail(tool.queue) = <<>> /\ Head(tool.queue) = tool.queue[1]
    BY <2>3, ToolFields, OneOf
  <2> QED
    BY <1>1, <1>2, <2>1, <2>3, <2>4 DEF Reply
<1>6. file \in Files /\ FileSize[file] \in Nat \ {0} /\ tool.pos \in Nat
  BY ToolFields
<1>7. /\ len \in Nat \ {0} /\ Until = tool.pos + len /\ Until - tool.pos = len
      /\ tool.pos + len <= FileSize[file] /\ tool.pos + len \in Nat
      /\ tool.pos + len # FileSize[file] => (tool.pos + len) % CHUNK = 0
      /\ len <= LEAST => FileSize[file] % CHUNK \in 1 .. LEAST
  <2>1. tool.pos < FileSize[file] /\ tool.pos % WORD = 0
    BY DEF Sent
  <2>2. /\ len \in Nat \ {0}
        /\ tool.pos + len <= FileSize[file] /\ tool.pos + len \in Nat
        /\ tool.pos + len # FileSize[file] => (tool.pos + len) % CHUNK = 0
        /\ len <= LEAST => FileSize[file] % CHUNK \in 1 .. LEAST
    BY <1>3, <1>6, <2>1, ChunkEnds
  <2>3. Until = tool.pos + len
    BY DEF Until
  <2> HIDE DEF len, file
  <2> QED
    BY <1>6, <2>2, <2>3
<1> HIDE DEF file, len
<1>8. ASSUME tool'.upload = tool.upload, tool'.slot = tool.slot
      PROVE  /\ Own' <=> Own
             /\ Begun' <=> Begun
             /\ Fresh' <=> Fresh
             /\ Refused' <=> Refused
             /\ Uploaded' <=> Uploaded
             /\ reached' = reached
  BY <1>1, <1>8, CleanSame
<1>9. CASE tool.pc = "access"
  <2>1. InAccess
    BY <1>3, <1>9 DEF InInfo, InWrite
  <2>2. Own /\ Fresh /\ Reply.kind = "ok" /\ tool.pos = 0
    BY <1>4, <2>1 DEF InAccess
  <2>3. tool' = [t EXCEPT !.pc = "toInfo"]
    BY <1>1, <1>2, <1>5, <1>9, <2>2 DEF Proceed
  <2>4. /\ tool'.pc = "toInfo" /\ tool'.upload = tool.upload /\ tool'.slot = tool.slot
        /\ tool'.pos = tool.pos /\ tool'.queue = <<>>
    BY <1>2, <1>5, <2>3 DEF Tool
  <2> QED
    BY <1>3, <1>5, <1>8, <2>2, <2>4 DEF Phase, BeforeInfo, Quiet
<1>10. CASE tool.pc = "info"
  <2>1. InInfo
    BY <1>3, <1>10 DEF InAccess, InWrite
  <2>2. Begun /\ reached = 0 /\ Reply.kind = "ok" /\ tool.pos = 0
    BY <1>4, <2>1 DEF InInfo
  <2>3. tool' = [t EXCEPT !.pc = "toWrite", !.count = 3]
    BY <1>1, <1>2, <1>5, <1>10, <2>2 DEF Proceed
  <2>4. /\ tool'.pc = "toWrite" /\ tool'.upload = tool.upload /\ tool'.slot = tool.slot
        /\ tool'.pos = tool.pos /\ tool'.queue = <<>>
    BY <1>2, <1>5, <2>3 DEF Tool
  <2> QED
    BY <1>3, <1>5, <1>8, <2>2, <2>4 DEF Phase, BeforeWrite, Quiet
<1>11. CASE tool.pc = "write"
  <2>1. tool.fed = Until /\ (Small \/ Written \/ Completed)
    BY <1>3, <1>4, <1>11 DEF InAccess, InInfo, InWrite
  <2>2. CASE Small
    <3>1. Reply.kind = "error" /\ len <= LEAST /\ Begun /\ reached = tool.pos
      BY <1>7, <2>2 DEF Small
    <3>2. /\ \/ tool' = [t EXCEPT !.pc = "toWrite", !.count = @ - 1]
             \/ tool' = [t EXCEPT !.pc = "done", !.said = Failed]
      <4>1. t.count \in 0 .. 3
        BY <1>2 DEF Tool
      <4> QED
        BY <1>1, <1>2, <1>5, <1>11, <3>1, <4>1 DEF AfterException
    <3>3. /\ tool'.pc \in {"toWrite", "done"} /\ tool'.upload = tool.upload
          /\ tool'.slot = tool.slot /\ tool'.pos = tool.pos /\ tool'.queue = <<>>
      BY <1>2, <1>5, <3>2 DEF Tool
    <3>4. FileSize[file] % CHUNK \in 1 .. LEAST
      BY <1>7, <3>1
    <3>5. Refused
      <4>1. ~complete[tool.slot]
        BY <3>1 DEF Begun, Own
      <4> QED
        BY <3>4, <4>1 DEF Refused, Ready, file
    <3>6. Begun' /\ Refused' /\ reached' = tool'.pos
      BY <1>8, <3>1, <3>3, <3>5
    <3>7. Quiet'
      BY <1>5, <3>3 DEF Quiet
    <3> QED
      BY <1>3, <3>3, <3>6, <3>7 DEF Phase, BeforeWrite, AtEnd
  <2>3. CASE Written
    <3>1. Reply.kind = "ok" /\ tool.pos + len < FileSize[file] /\ Begun /\ reached = tool.pos + len
      BY <1>7, <2>3 DEF Written, file
    <3>2. tool' = [t EXCEPT !.pc = "toWrite", !.pos = tool.pos + len, !.count = 3]
      BY <1>1, <1>2, <1>5, <1>11, <3>1 DEF Proceed, file, len
    <3>3. /\ tool'.pc = "toWrite" /\ tool'.upload = tool.upload
          /\ tool'.slot = tool.slot /\ tool'.pos = tool.pos + len /\ tool'.queue = <<>>
      BY <1>2, <1>5, <3>2 DEF Tool
    <3>4. (tool.pos + len) % CHUNK = 0
      BY <1>7, <3>1
    <3>5. Begun' /\ reached' = tool'.pos
      BY <1>8, <3>1, <3>3
    <3>6. Quiet'
      BY <1>5, <3>3 DEF Quiet
    <3> QED
      BY <3>3, <3>4, <3>5, <3>6 DEF Phase, BeforeWrite
  <2>4. CASE Completed
    <3>1. /\ Reply.kind = "done" /\ Reply.upload = tool.upload /\ Reply.crc = FileWords(file)
          /\ tool.pos + len = FileSize[file] /\ Uploaded
      BY <1>7, <2>4 DEF Completed, file
    <3>2. tool' = [t EXCEPT !.pc = "done"]
      BY <1>1, <1>2, <1>5, <1>6, <1>11, <3>1 DEF Proceed, file, len
    <3>3. /\ tool'.pc = "done" /\ tool'.upload = tool.upload
          /\ tool'.slot = tool.slot /\ tool'.pos = tool.pos /\ tool'.queue = <<>>
          /\ tool'.said = Said(Reply)
      BY <1>2, <1>5, <3>2 DEF Tool
    <3>4. FileSize[file] % WORD = 0 => Said(Reply) = <<"pass", tool.upload>>
      <4>1. SUFFICES ASSUME FileSize[file] % WORD = 0 PROVE Said(Reply) = <<"pass", tool.upload>>
        OBVIOUS
      <4>2. WordsOf(FileSize[file]) = FileSize[file] \div WORD /\ tool.fed = FileSize[file]
        BY <1>6, <1>7, <2>1, <3>1, <4>1, WordsCounted
      <4>3. Reply.crc = [i \in 1 .. tool.fed \div WORD |-> DataWord(file, i)]
        BY <3>1, <4>2 DEF FileWords
      <4> QED
        BY <3>1, <4>1, <4>2, <4>3 DEF Said, file
    <3>5. Uploaded' /\ SaidPass'
      <4>1. Uploaded'
        BY <1>8, <3>1, <3>3
      <4>2. FileSize[File(tool.upload)]' = FileSize[file]
        BY <3>3 DEF File, file
      <4> QED
        BY <3>3, <3>4, <4>1, <4>2 DEF SaidPass
    <3>6. Quiet'
      BY <1>5, <3>3 DEF Quiet
    <3> QED
      BY <1>3, <3>3, <3>5, <3>6 DEF Phase, AtEnd
  <2> QED
    BY <2>1, <2>2, <2>3, <2>4
<1> QED
  BY <1>1, <1>9, <1>10, <1>11

(* An answer comes to the queue.                                           *)
LEMMA CleanHears ==
  ASSUME SlotsTypeOK, Sent, Clean, ~faulty', AnswerArrives
  PROVE  tool'.pos % CHUNK = 0 /\ Phase'
<1>1. /\ answers # <<>> /\ answers' = Tail(answers) /\ ~faulty
      /\ UNCHANGED <<slotVars, slotIndex, slotOffset, pushed, requests, takenVars>>
  BY DEF AnswerArrives
<1>2. tool.pos % CHUNK = 0 /\ (tool.pc = "idle" \/ InAccess \/ InInfo \/ InWrite)
  BY <1>1 DEF Clean, Phase, BeforeInfo, BeforeWrite, AtEnd, Quiet
<1>3. CASE tool.pc = "idle"
  <2>1. tool' = tool
    BY <1>3 DEF AnswerArrives
  <2> QED
    BY <1>2, <1>3, <2>1 DEF Phase
<1>4. CASE tool.pc # "idle"
  <2>1. Replied /\ tool.pc \in {"access", "info", "write"}
    BY <1>1, <1>2, <1>4 DEF InAccess, InInfo, InWrite, Asked
  <2>2. tool.sync /\ Len(answers) = 1 /\ tool.queue = <<>> /\ requests = <<>>
    BY <1>1, <2>1 DEF Replied
  <2>3. Tail(answers) = <<>> /\ Head(answers) = answers[1]
    BY <2>2, ToolFields, OneOf
  <2>4. tool' = [tool EXCEPT !.queue = Append(tool.queue, Head(answers)), !.signal = TRUE]
    BY <2>1, <2>2 DEF AnswerArrives
  <2>5. /\ tool'.pc = tool.pc /\ tool'.upload = tool.upload /\ tool'.slot = tool.slot
        /\ tool'.pos = tool.pos /\ tool'.fed = tool.fed /\ tool'.sync = tool.sync
        /\ tool'.signal = TRUE /\ tool'.queue = Append(<<>>, answers[1])
    BY <2>2, <2>3, <2>4, ToolFields DEF Tool
  <2>6. Replied' /\ Reply' = Reply
    <3>1. tool'.queue[1] = answers[1] /\ Len(tool'.queue) = 1 /\ answers' = <<>>
      BY <1>1, <2>3, <2>5
    <3> QED
      BY <1>1, <2>2, <2>5, <3>1 DEF Replied, Reply
  <2>7. /\ Own' <=> Own
        /\ Begun' <=> Begun
        /\ Fresh' <=> Fresh
        /\ Refused' <=> Refused
        /\ Uploaded' <=> Uploaded
        /\ reached' = reached
    BY <1>1, <2>5, CleanSame
  <2>8. Until' = Until /\ FileSize[File(tool.upload)]' = FileSize[File(tool.upload)]
        /\ FileWords(File(tool.upload))' = FileWords(File(tool.upload))
    BY <2>5 DEF Until, ChunkLen, File, FileWords, WordsOf, DataWord
  <2>9. (Small' <=> Small) /\ (Written' <=> Written) /\ (Completed' <=> Completed)
    <3>1. Small' <=> Small
      BY <2>5, <2>6, <2>7, <2>8 DEF Small
    <3>2. Written' <=> Written
      BY <2>6, <2>7, <2>8 DEF Written
    <3>3. Completed' <=> Completed
      BY <2>5, <2>6, <2>7, <2>8 DEF Completed
    <3> QED
      BY <3>1, <3>2, <3>3
  <2>10. ~Asked
    BY <1>1 DEF Asked
  <2>11. CASE InAccess
    BY <1>2, <2>5, <2>6, <2>7, <2>10, <2>11 DEF Phase, InAccess
  <2>12. CASE InInfo
    BY <1>2, <2>5, <2>6, <2>7, <2>10, <2>12 DEF Phase, InInfo
  <2>13. CASE InWrite
    BY <1>2, <2>5, <2>6, <2>8, <2>9, <2>10, <2>13 DEF Phase, InWrite
  <2> QED
    BY <1>2, <1>4, <2>11, <2>12, <2>13
<1> QED
  BY <1>3, <1>4

(* The controller takes the request of the upload, which is the one there  *)
(* is, and answers it.                                                     *)
LEMMA CleanRequest ==
  ASSUME SlotsTypeOK, InOrder, Clean, ~faulty, tool.pc # "idle",
         NEW kind \in {"access", "info", "write"}, Arrived(kind)
  PROVE  /\ Asked /\ tool.pc = kind /\ tool.pos % CHUNK = 0
         /\ InAccess \/ InInfo \/ InWrite
         /\ Head(requests) = requests[1] /\ requests' = <<>> /\ answers = <<>>
         /\ Head(requests).upload = tool.upload
<1>1. requests # <<>> /\ requests' = Tail(requests) /\ Head(requests).kind = kind
  BY DEF Arrived
<1>2. tool.pos % CHUNK = 0 /\ Asked
  BY <1>1 DEF Clean, Phase, InAccess, BeforeInfo, InInfo, BeforeWrite, InWrite, AtEnd, Quiet, Replied
<1>3. Tail(requests) = <<>> /\ Head(requests) = requests[1]
  BY <1>2, ToolFields, OneOf DEF Asked
<1>4. tool.pc = kind
  BY <1>1, <1>2, <1>3 DEF Asked
<1>5. InAccess \/ InInfo \/ InWrite
  BY <1>4 DEF Clean, Phase, BeforeInfo, BeforeWrite, AtEnd
<1> QED
  BY <1>1, <1>2, <1>3, <1>4, <1>5 DEF Asked

(* The one reply is the answer that is put on the line.                    *)
LEMMA CleanReply ==
  ASSUME Asked, requests' = <<>>, tool' = tool, answers = <<>>, NEW a, answers' = Append(answers, a)
  PROVE  Replied' /\ Reply' = a /\ Until' = Until
<1>1. answers' # <<>> /\ Len(answers') = 1 /\ answers'[1] = a
  OBVIOUS
<1>2. tool.sync /\ tool.queue = <<>>
  BY DEF Asked
<1>3. Until' = Until
  BY DEF Until, ChunkLen, File
<1> QED
  BY <1>1, <1>2, <1>3 DEF Replied, Reply

LEMMA CleanAccess ==
  ASSUME SlotsTypeOK, InOrder, Clean, ~faulty, tool.pc # "idle", CommandAccess
  PROVE  Phase'
<1> DEFINE r == Head(requests)
           s == r.slot
<1>1. Arrived("access") /\ tool' = tool
  BY DEF CommandAccess
<1>2. /\ Asked /\ tool.pc = "access"
      /\ InAccess \/ InInfo \/ InWrite
      /\ r = requests[1] /\ requests' = <<>> /\ answers = <<>> /\ r.upload = tool.upload
  BY <1>1, CleanRequest
<1>3. r.slot = tool.slot /\ s \in FileSlot
  <2>1. r.slot \in FileSlot
    BY <1>1, RequestTaken
  <2> QED
    BY <1>2, <2>1 DEF Asked
<1> HIDE DEF r
<1>4. tool.pos = 0
  BY <1>2 DEF InAccess, InInfo, InWrite
<1>5. /\ slotIndex' = s /\ slotOffset' = 0 /\ pushed' = <<>>
      /\ info' = [info EXCEPT ![s] = Blank] /\ complete' = [complete EXCEPT ![s] = FALSE]
      /\ words' = [words EXCEPT ![s] = [i \in 1 .. TopWord |-> Blank]]
      /\ suspect' = suspect \ {s}
      /\ broken' = FALSE /\ owner' = r.upload /\ reached' = 0
      /\ answers' = Append(answers, [kind |-> "ok", upload |-> r.upload, crc |-> <<>>])
  BY DEF CommandAccess, Answer, r
<1>6. Own'
  BY <1>1, <1>2, <1>3, <1>5 DEF Own
<1>7. Fresh'
  <2>1. info \in [FileSlot -> {Blank, Garbled} \cup ({"info"} \X (0 .. BlankSize))]
        /\ complete \in [FileSlot -> BOOLEAN] /\ words \in [FileSlot -> [1 .. TopWord -> FlashWord]]
    BY Typed
  <2> HIDE DEF s
  <2>2. info'[s] = Blank /\ ~complete'[s] /\ words'[s] = [i \in 1 .. TopWord |-> Blank]
    BY <1>3, <1>5, <2>1
  <2>3. \A i \in 1 .. TopWord : words'[s][i] = Blank
    BY <2>2
  <2>4. Blank' = Blank /\ TopWord' = TopWord
    BY DEF Blank, TopWord
  <2> QED
    BY <1>5, <2>2, <2>3, <2>4 DEF Fresh
<1>8. Replied' /\ Reply'.kind = "ok"
  <2>1. Reply' = [kind |-> "ok", upload |-> r.upload, crc |-> <<>>] /\ Replied'
    BY <1>1, <1>2, <1>5, CleanReply
  <2> QED
    BY <2>1
<1> QED
  BY <1>1, <1>2, <1>4, <1>6, <1>7, <1>8 DEF Phase, InAccess

LEMMA CleanInfo ==
  ASSUME SlotsTypeOK, InOrder, Clean, ~faulty, tool.pc # "idle", CommandWriteInfo
  PROVE  Phase'
<1> DEFINE r == Head(requests)
           size == FileSize[File(tool.upload)]
<1>1. Arrived("info") /\ tool' = tool
  BY DEF CommandWriteInfo
<1>2. /\ Asked /\ tool.pc = "info"
      /\ InAccess \/ InInfo \/ InWrite
      /\ r = requests[1] /\ requests' = <<>> /\ answers = <<>> /\ r.upload = tool.upload
  BY <1>1, CleanRequest
<1>3. ~Replied
  BY <1>2 DEF Asked, Replied
<1>4. Own /\ Fresh /\ tool.pos = 0
  BY <1>2, <1>3 DEF InAccess, InInfo, InWrite
<1>5. ~broken /\ owner = tool.upload /\ slotIndex = tool.slot /\ slotIndex \notin suspect
  BY <1>4 DEF Own
<1>6. info[slotIndex] = Blank /\ ~complete[slotIndex] /\ pushed = <<>> /\ reached = 0
  BY <1>4 DEF Fresh
<1>7. PICK s \in 0 .. size :
        /\ s = size
        /\ info' = [info EXCEPT ![slotIndex] = <<"info", s>>]
  <2>1. Blank # Garbled
    BY DEF Blank, Garbled
  <2> QED
    BY <1>2, <1>6, <2>1 DEF CommandWriteInfo
<1>8. /\ slotOffset' = HEADER
      /\ answers' = Append(answers, [kind |-> "ok", upload |-> r.upload, crc |-> <<>>])
      /\ broken' = (broken \/ r.upload # owner)
      /\ suspect' = IF broken' THEN suspect \cup {slotIndex} ELSE suspect
      /\ UNCHANGED <<complete, slotIndex, pushed, owner, reached>>
  BY DEF CommandWriteInfo, Answer
<1> HIDE DEF r, size
<1>9. Own'
  <2>1. ~broken' /\ suspect' = suspect
    BY <1>2, <1>5, <1>8
  <2> QED
    BY <1>1, <1>5, <1>8, <2>1 DEF Own
<1>10. Begun'
  <2>1. slotIndex \in FileSlot /\ info \in [FileSlot -> {Blank, Garbled} \cup ({"info"} \X (0 .. BlankSize))]
    BY Typed
  <2>2. info'[slotIndex'] = <<"info", size>>
    BY <1>7, <1>8, <2>1
  <2>3. size = FileSize[File(owner)]'
    BY <1>5, <1>8 DEF size, File
  <2>4. slotOffset' = HEADER + reached'
    BY <1>6, <1>8, Parameters
  <2>5. pushed' = [i \in 1 .. WordsOf(reached) |-> DataWord(File(owner), i)]'
    <3>1. WordsOf(0) = 0
      <4>1. WORD \in Nat \ {0}
        BY Parameters
      <4>2. 0 % WORD = 0 /\ 0 \div WORD = 0
        BY <4>1
      <4> QED
        BY <4>2, WordsCounted
    <3>2. WordsOf(reached') = 0
      BY <1>6, <1>8, <3>1
    <3>3. 1 .. 0 = {}
      OBVIOUS
    <3>4. \A f : [i \in {} |-> DataWord(f, i)] = <<>>
      OBVIOUS
    <3> QED
      BY <1>6, <1>8, <3>2, <3>3, <3>4
  <2> QED
    BY <1>6, <1>8, <1>9, <2>2, <2>3, <2>4, <2>5 DEF Begun
<1>11. Replied' /\ Reply'.kind = "ok"
  <2>1. Reply' = [kind |-> "ok", upload |-> r.upload, crc |-> <<>>] /\ Replied'
    BY <1>1, <1>2, <1>8, CleanReply
  <2> QED
    BY <2>1
<1> QED
  BY <1>1, <1>2, <1>4, <1>6, <1>8, <1>10, <1>11 DEF Phase, InInfo

(* The chunk that the tool has sent is the next one of its file.           *)
LEMMA CleanChunk ==
  ASSUME SlotsTypeOK, InOrder, Clean, ~faulty, tool.pc # "idle", Arrived("write")
  PROVE  LET r == Head(requests)
             size == FileSize[File(owner)] IN
         /\ Asked /\ tool.pc = "write" /\ tool.fed = Until /\ tool.pos % CHUNK = 0
         /\ requests' = <<>> /\ answers = <<>>
         /\ Begun /\ reached = tool.pos /\ r.upload = tool.upload /\ owner = tool.upload
         /\ r.from = reached /\ r.len \in Nat \ {0} /\ r.from \in Nat /\ r.from % WORD = 0
         /\ Until = reached + r.len /\ Until - tool.pos = r.len /\ Until <= size
         /\ size \in Nat /\ \A n : SizeRead(n) => n = size
<1> DEFINE r == Head(requests)
           size == FileSize[File(owner)]
<1>1. /\ Asked /\ tool.pc = "write" /\ tool.pos % CHUNK = 0
      /\ InAccess \/ InInfo \/ InWrite
      /\ r = requests[1] /\ requests' = <<>> /\ answers = <<>> /\ r.upload = tool.upload
  BY CleanRequest
<1>2. tool.fed = Until /\ Begun /\ reached = tool.pos
  <2>1. ~Replied
    BY <1>1 DEF Asked, Replied
  <2> QED
    BY <1>1, <2>1 DEF InAccess, InInfo, InWrite
<1>3. /\ r.from \in Nat /\ r.len \in Nat \ {0} /\ r.from % WORD = 0
      /\ r.from + r.len <= FileSize[File(r.upload)] /\ FileSize[File(r.upload)] \in Nat \ {0}
      /\ r.len = ChunkLen(File(r.upload), r.from)
  BY RequestTaken
<1>4. r.from = reached /\ owner = tool.upload
  BY <1>1, <1>2 DEF Asked, Begun, Own
<1> HIDE DEF r
<1>5. Until = reached + r.len
  BY <1>1, <1>2, <1>3, <1>4 DEF Until
<1>6. Until - tool.pos = r.len
  BY <1>2, <1>3, <1>4, <1>5
<1>7. ASSUME NEW n, SizeRead(n) PROVE n = size
  <2>1. info[slotIndex] = <<"info", size>>
    BY <1>2 DEF Begun
  <2>2. info[slotIndex] # Blank /\ info[slotIndex] # Garbled /\ info[slotIndex][2] = size
    BY <2>1 DEF Blank, Garbled
  <2> QED
    BY <1>7, <2>2 DEF SizeRead
<1> QED
  BY <1>1, <1>2, <1>3, <1>4, <1>5, <1>6, <1>7 DEF r

LEMMA CleanRefusal ==
  ASSUME SlotsTypeOK, InOrder, Clean, ~faulty, tool.pc # "idle", CommandWriteRefused
  PROVE  Phase'
<1> DEFINE r == Head(requests)
           size == FileSize[File(owner)]
<1>1. /\ Arrived("write") /\ tool' = tool
      /\ UNCHANGED <<slotVars, slotIndex, slotOffset, pushed, takenVars>>
      /\ answers' = Append(answers, [kind |-> "error", upload |-> r.upload, crc |-> <<>>])
      /\ r.len <= LEAST \/ \E n \in 0 .. BlankSize : SizeRead(n) /\ ~Fits(r.len, n)
  BY DEF CommandWriteRefused, Answer
<1>2. /\ Asked /\ tool.pc = "write" /\ tool.fed = Until /\ requests' = <<>> /\ answers = <<>>
      /\ Begun /\ reached = tool.pos /\ r.upload = tool.upload
      /\ r.from = reached /\ r.len \in Nat \ {0} /\ r.from \in Nat
      /\ Until = reached + r.len /\ Until - tool.pos = r.len /\ Until <= size
      /\ size \in Nat /\ \A n : SizeRead(n) => n = size
  BY <1>1, CleanChunk
<1> HIDE DEF r
<1>3. r.len <= LEAST
  <2>1. slotOffset = HEADER + reached /\ HEADER \in Nat
    BY <1>2, Parameters DEF Begun
  <2> HIDE DEF size
  <2>2. slotOffset + r.len - HEADER = reached + r.len
    BY <1>2, <2>1
  <2>3. Fits(r.len, size)
    BY <1>2, <2>2 DEF Fits
  <2> QED
    BY <1>1, <1>2, <2>3
<1>4. Reply'.kind = "error" /\ Replied' /\ Until' = Until
  <2>1. Reply' = [kind |-> "error", upload |-> r.upload, crc |-> <<>>] /\ Replied' /\ Until' = Until
    BY <1>1, <1>2, CleanReply
  <2> QED
    BY <2>1
<1>5. Begun' /\ reached' = reached
  BY <1>1, <1>2, CleanSame
<1>6. Small'
  BY <1>1, <1>2, <1>3, <1>4, <1>5 DEF Small
<1> QED
  BY <1>1, <1>2, <1>4, <1>6 DEF Phase, InWrite

LEMMA CleanWrite ==
  ASSUME SlotsTypeOK, SlotsTypeOK', InOrder, Accessed', Clean, ~faulty, tool.pc # "idle",
         CommandWrite
  PROVE  Phase'
<1> DEFINE r == Head(requests)
           f == File(owner)
           size == FileSize[f]
<1>1. Arrived("write") /\ tool' = tool
  BY DEF CommandWrite
<1>2. /\ Asked /\ tool.pc = "write" /\ tool.fed = Until /\ requests' = <<>> /\ answers = <<>>
      /\ Begun /\ reached = tool.pos /\ r.upload = tool.upload /\ owner = tool.upload
      /\ r.from = reached /\ r.len \in Nat \ {0} /\ r.from \in Nat /\ r.from % WORD = 0
      /\ Until = reached + r.len /\ Until - tool.pos = r.len /\ Until <= size
      /\ size \in Nat /\ \A n : SizeRead(n) => n = size
  BY <1>1, CleanChunk
<1>3. /\ slotIndex' = slotIndex /\ owner' = owner /\ slotOffset' = slotOffset + r.len
      /\ reached' = r.from + r.len /\ pushed' = pushed \o Chunk(r)
      /\ broken' = (broken \/ r.upload # owner)
      /\ suspect' = IF broken' \/ r.from < reached THEN suspect \cup {slotIndex} ELSE suspect
      /\ info' = IF slotOffset < HEADER THEN [info EXCEPT ![slotIndex] = Garbled] ELSE info
      /\ \E n \in 0 .. BlankSize :
           /\ SizeRead(n) /\ Fits(r.len, n)
           /\ complete' = [complete EXCEPT ![slotIndex] = @ \/ Completes(r.len, n)]
           /\ answers' = Append(answers,
                [kind |-> IF Completes(r.len, n) THEN "done" ELSE "ok",
                 upload |-> r.upload,
                 crc |-> IF ~Completes(r.len, n) THEN <<>>
                         ELSE IF complete[slotIndex] \/ info'[slotIndex] = Garbled
                         THEN <<Garbled>> ELSE pushed'])
  BY WriteEffect
<1> HIDE DEF r
<1>4. /\ ~broken /\ slotIndex = tool.slot /\ slotIndex \notin suspect
      /\ info[slotIndex] = <<"info", size>> /\ ~complete[slotIndex]
      /\ slotOffset = HEADER + reached
      /\ pushed = [i \in 1 .. WordsOf(reached) |-> DataWord(f, i)]
  BY <1>2 DEF Begun, Own
<1> HIDE DEF f, size
<1>5. HEADER \in Nat /\ slotIndex \in FileSlot /\ complete \in [FileSlot -> BOOLEAN] /\ f \in Files
      /\ pushed \in Seq(FlashWord)
  BY Typed, Parameters DEF f
<1>6. ~broken' /\ suspect' = suspect /\ info' = info /\ reached' = Until
      /\ slotOffset' = HEADER + reached'
  BY <1>2, <1>3, <1>4, <1>5
<1>7. Own'
  BY <1>1, <1>2, <1>3, <1>4, <1>6 DEF Own
<1>8. info'[slotIndex] = <<"info", size>> /\ info'[slotIndex] # Garbled
  BY <1>4, <1>6 DEF Garbled
<1>9. pushed' = [i \in 1 .. WordsOf(Until) |-> DataWord(f, i)]
  <2>1. /\ DOMAIN Chunk(r) = 1 .. WordsOf(r.len) /\ Chunk(r) \in Seq(FlashWord)
        /\ Len(Chunk(r)) = WordsOf(r.len) /\ WordsOf(r.len) \in Nat
        /\ \A k \in 1 .. WordsOf(r.len) : Chunk(r)[k] = DataWord(f, reached \div WORD + k)
    <3>1. File(r.upload) = f
      BY <1>2 DEF f
    <3> QED
      BY <1>2, <1>5, <3>1, ChunkWords
  <2>2. WordsOf(reached) \in Nat /\ WordsOf(reached) = reached \div WORD
        /\ WordsOf(Until) = WordsOf(reached) + WordsOf(r.len)
    <3>1. reached \in Nat /\ reached % WORD = 0 /\ r.len \in Nat
      BY <1>2
    <3>2. WordsOf(reached) \in Nat /\ WordsOf(reached) = reached \div WORD
      BY <3>1, WordsCounted
    <3>3. WordsOf(reached + r.len) = WordsOf(reached) + WordsOf(r.len)
      BY <3>1, WordsAdded
    <3> QED
      BY <1>2, <3>2, <3>3
  <2>3. Len(pushed) = WordsOf(reached)
    BY <1>4, <1>5, <2>2
  <2>4. /\ pushed \o Chunk(r) \in Seq(FlashWord)
        /\ Len(pushed \o Chunk(r)) = WordsOf(Until)
        /\ \A i \in 1 .. WordsOf(Until) :
             (pushed \o Chunk(r))[i] =
               IF i <= WordsOf(reached) THEN pushed[i] ELSE Chunk(r)[i - WordsOf(reached)]
    <3>1. /\ pushed \o Chunk(r) \in Seq(FlashWord)
          /\ Len(pushed \o Chunk(r)) = Len(pushed) + Len(Chunk(r))
          /\ \A i \in 1 .. Len(pushed) + Len(Chunk(r)) :
               (pushed \o Chunk(r))[i] = IF i <= Len(pushed) THEN pushed[i] ELSE Chunk(r)[i - Len(pushed)]
      BY <1>5, <2>1, JoinedTo
    <3> QED
      BY <2>1, <2>2, <2>3, <3>1
  <2>5. ASSUME NEW i \in 1 .. WordsOf(Until) PROVE (pushed \o Chunk(r))[i] = DataWord(f, i)
    <3>1. CASE i <= WordsOf(reached)
      <4>1. i \in 1 .. WordsOf(reached)
        BY <2>2, <3>1
      <4> QED
        BY <1>4, <2>4, <3>1, <4>1
    <3>2. CASE ~(i <= WordsOf(reached))
      <4>1. i - WordsOf(reached) \in 1 .. WordsOf(r.len)
            /\ reached \div WORD + (i - WordsOf(reached)) = i
        BY <2>1, <2>2, <3>2
      <4> QED
        BY <2>1, <2>4, <3>2, <4>1
    <3> QED
      BY <3>1, <3>2
  <2>6. DOMAIN (pushed \o Chunk(r)) = 1 .. WordsOf(Until)
    BY <2>4
  <2>7. pushed \o Chunk(r) = [i \in 1 .. WordsOf(Until) |-> (pushed \o Chunk(r))[i]]
    <3>1. ASSUME NEW q \in Seq(FlashWord) PROVE q = [i \in DOMAIN q |-> q[i]]
      BY <3>1
    <3> QED
      BY <2>4, <2>6, <3>1
  <2> QED
    BY <1>3, <2>5, <2>7
<1>10. PICK n \in 0 .. BlankSize :
         /\ n = size
         /\ complete' = [complete EXCEPT ![slotIndex] = @ \/ Completes(r.len, n)]
         /\ answers' = Append(answers,
              [kind |-> IF Completes(r.len, n) THEN "done" ELSE "ok",
               upload |-> r.upload,
               crc |-> IF ~Completes(r.len, n) THEN <<>>
                       ELSE IF complete[slotIndex] \/ info'[slotIndex] = Garbled
                       THEN <<Garbled>> ELSE pushed'])
  BY <1>2, <1>3
<1>11. Completes(r.len, n) <=> Until = size
  BY <1>2, <1>4, <1>5, <1>10 DEF Completes
<1>12. tool'.pc = "write" /\ tool'.fed = Until' /\ Until' = Until
  BY <1>1, <1>2 DEF Until, ChunkLen, File
<1>13. FileSize[File(tool.upload)]' = size /\ FileSize[File(owner)]' = size
       /\ File(tool.upload)' = f
  BY <1>1, <1>2, <1>3 DEF size, f, File
<1>14. CASE Until # size
  <2>1. answers' = Append(answers, [kind |-> "ok", upload |-> r.upload, crc |-> <<>>])
        /\ ~complete'[slotIndex]
    BY <1>4, <1>5, <1>10, <1>11, <1>14
  <2>2. Reply' = [kind |-> "ok", upload |-> r.upload, crc |-> <<>>] /\ Replied'
    BY <1>1, <1>2, <2>1, CleanReply
  <2>3. Begun'
    <3>1. pushed' = [i \in 1 .. WordsOf(reached) |-> DataWord(File(owner), i)]'
      <4>1. pushed' = [i \in 1 .. WordsOf(reached') |-> DataWord(f, i)]
        BY <1>6, <1>9
      <4>2. f = File(owner')
        BY <1>3 DEF f
      <4> QED
        BY <4>1, <4>2 DEF WordsOf, DataWord
    <3> QED
      BY <1>3, <1>6, <1>7, <1>8, <1>13, <2>1, <3>1 DEF Begun
  <2>4. Until < size
    BY <1>2, <1>14
  <2>5. Written'
    BY <1>6, <1>12, <1>13, <2>2, <2>3, <2>4 DEF Written
  <2> QED
    BY <1>12, <2>2, <2>5 DEF Phase, InWrite
<1>15. CASE Until = size
  <2>1. answers' = Append(answers, [kind |-> "done", upload |-> r.upload, crc |-> pushed'])
        /\ complete'[slotIndex]
    BY <1>4, <1>5, <1>8, <1>10, <1>11, <1>15
  <2>2. Reply' = [kind |-> "done", upload |-> r.upload, crc |-> pushed'] /\ Replied'
    BY <1>1, <1>2, <2>1, CleanReply
  <2>3. Reply'.kind = "done" /\ Reply'.upload = tool'.upload /\ Reply'.crc = pushed'
    BY <1>1, <1>2, <2>2
  <2>4. Reply'.crc = FileWords(File(tool.upload))'
    <3>1. FileWords(f) = [i \in 1 .. WordsOf(size) |-> DataWord(f, i)]
      BY DEF FileWords, size
    <3>2. FileWords(File(tool.upload))' = FileWords(f)
      BY <1>13 DEF FileWords, WordsOf, DataWord
    <3> QED
      BY <1>9, <1>15, <2>3, <3>1, <3>2
  <2>5. Uploaded'
    <3>1. (SlotsTypeOK /\ Accessed /\ ~broken /\ slotIndex \notin suspect /\ Ready(slotIndex)
             => Holds(slotIndex, File(owner)) /\ File(owner) \in Files)'
      BY WholeSlot, PTL
    <3>2. Ready(slotIndex)'
      <4>1. info'[slotIndex][1] = "info"
        BY <1>8
      <4> QED
        BY <1>3, <2>1, <4>1 DEF Ready
    <3>3. slotIndex' \notin suspect'
      BY <1>3, <1>4, <1>6
    <3>4. Holds(slotIndex, File(owner))'
      BY <1>6, <3>1, <3>2, <3>3
    <3>5. slotIndex' = tool'.slot /\ owner' = tool'.upload
      BY <1>1, <1>2, <1>3, <1>4
    <3> QED
      BY <3>4, <3>5 DEF Uploaded, Holds, Ready, File
  <2>6. Completed'
    BY <1>12, <1>13, <1>15, <2>3, <2>4, <2>5 DEF Completed
  <2> QED
    BY <1>12, <2>2, <2>6 DEF Phase, InWrite
<1> QED
  BY <1>14, <1>15

LEMMA CleanStep ==
  SlotsInv /\ SlotsInv' /\ Clean /\ [SlotsNext]_uploadVars => Clean'
<1> SUFFICES ASSUME SlotsInv, SlotsInv', Clean, [SlotsNext]_uploadVars, ~faulty'
             PROVE  tool'.pos % CHUNK = 0 /\ Phase'
  BY DEF Clean
<1>1. SlotsTypeOK /\ InOrder /\ Sent /\ SlotsTypeOK' /\ Accessed'
  BY DEF SlotsInv
<1>2. CASE (\E f \in Files, s \in FileSlot : StartUpload(f, s)) \/ SendInfo \/ SendChunk
  BY <1>1, <1>2, CleanAsks
<1>3. CASE TakeAnswer
  BY <1>1, <1>3, CleanTakes
<1>4. CASE AnswerArrives
  BY <1>1, <1>4, CleanHears
<1>5. CASE NoAnswer \/ LineLoses \/ Restart
  BY <1>5 DEF NoAnswer, LineLoses, Restart
<1>6. CASE CommandArrival
  <2>1. tool' = tool /\ ~faulty
    BY <1>6 DEF CommandArrival, CommandAccess, CommandWriteInfo, CommandWriteRefused, CommandWrite
  <2>2. tool.pos % CHUNK = 0
    BY <2>1 DEF Clean
  <2>3. CASE tool.pc = "idle"
    BY <2>1, <2>2, <2>3 DEF Phase
  <2>4. CASE tool.pc # "idle"
    BY <1>1, <1>6, <2>1, <2>2, <2>4, CleanAccess, CleanInfo, CleanRefusal, CleanWrite DEF CommandArrival
  <2> QED
    BY <2>3, <2>4
<1>7. CASE StartUpdate \/ ReadWord \/ UNCHANGED uploadVars
  <2>1. UNCHANGED <<slotVars, slotIndex, slotOffset, pushed, requests, answers, takenVars, tool, faulty>>
    BY <1>7 DEF StartUpdate, ReadWord, uploadVars, slotVars, takenVars
  <2>2. Phase /\ tool.pos % CHUNK = 0
    BY <2>1 DEF Clean
  <2> QED
    BY <2>1, <2>2, PhaseSame
<1> QED
  BY <1>2, <1>3, <1>4, <1>5, <1>6, <1>7 DEF SlotsNext, ToolNext

(* An upload in which nothing goes wrong leaves its file in its slot and   *)
(* says "Pass"; if the last chunk is too small, it leaves no file there.   *)
THEOREM CleanCorrect == SlotsSpec => []CleanUploads
<1>1. SlotsInit => Clean
  <2>1. CHUNK \in Nat \ {0}
    BY Parameters
  <2>2. 0 % CHUNK = 0
    BY <2>1
  <2>3. NoTool.pc = "idle" /\ NoTool.pos = 0
    BY DEF NoTool
  <2> QED
    BY <2>2, <2>3 DEF SlotsInit, Clean, Phase
<1>2. SlotsInv /\ Clean => CleanUploads
  BY DEF Clean, Phase, InAccess, BeforeInfo, InInfo, BeforeWrite, InWrite, AtEnd, CleanUploads,
         Refused, Uploaded, SaidPass
<1> QED
  BY <1>1, <1>2, CleanStep, SlotsInvariant, PTL DEF SlotsSpec
=============================================================================
