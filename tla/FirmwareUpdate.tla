--------------------------- MODULE FirmwareUpdate ---------------------------
(***************************************************************************)
(* File access over EtherCAT (SSC/Src/ecatfoe.c, foeappl.c) with its       *)
(* callbacks (port/hpm_ecat_foe.c, ecat_foe_support.c): a master downloads *)
(* a firmware package into the slot that is not running, or reads the      *)
(* running one back; the supply may fail at any time, and the boot loader  *)
(* then chooses what runs (BootUser).  The mailbox is what ReliableMailbox *)
(* promises: requests and answers arrive once and in order, until it is    *)
(* stopped.  The OTA library, which keeps a position of its own and is not *)
(* in the repository, and the master are external.                         *)
(***************************************************************************)
EXTENDS BootUser

CONSTANTS
  Shipped,       \* the packages there may be in the flash at first
  Downloads,     \* the packages the master downloads
  ReadBlock,     \* u16FoeMaxSendBlockSize: the bytes of a full packet to the master
  MaxFile,       \* FOE_FILE_MAX_SIZE
  MaxFaults      \* bound on what the master, the flash and the supply do wrong

ASSUME DownloadAssumption == Downloads \cup Shipped \subseteq Files
ASSUME SizesAssumption ==
  ReadBlock \in Nat \ {0} /\ MaxFile \in Nat /\ MaxFaults \in Nat

VARIABLES
  foe,       \* the variables of the file service and of its callbacks: see FileAccess
  mailbox,   \* "on" or "off": whether the mailbox runs
  request, answer,   \* what is under way in the mailbox, each way
  ota,       \* the OTA library: see Otas
  flash,     \* what is in either slot
  running,   \* the slot that was started
  master,    \* see Masters
  faults     \* faults so far

vars == <<foe, mailbox, request, answer, ota, flash, running, master, faults>>

\* FOE_WAIT_FOR_LAST_DATA is never entered.
States == {"READY", "WAIT_FOR_ACK", "WAIT_FOR_LAST_ACK", "WAIT_FOR_DATA"}

FileAccess == [
  state      : States,   \* u16FileAccessState
  packetNo   : Nat,      \* u32PacketNo
  fileOffset : Nat,      \* u32FileOffset
  lastOffset : Nat,      \* u32LastFileOffset
  readSize   : Nat,      \* read_file_size
  written    : Nat,      \* write_file_offset
  passed     : BOOLEAN]  \* foe_data_verification_pass

FoeAtReset == [state |-> "READY", packetNo |-> 0, fileOffset |-> 0,
  lastOffset |-> 0, readSize |-> 0, written |-> 0, passed |-> FALSE]

\* FOE_Init
FoeInit(f) == [f EXCEPT !.state = "READY", !.packetNo = 0]

\* Whether name and password are right; the packet carried; what the
\* acknowledgement says.  Fields a service does not have are not looked at.
NoChunk == [file |-> CHOOSE f \in Files : TRUE, no |-> 0, size |-> 0]
Requests == [op : {"RRQ", "WRQ", "DATA", "ACK", "ERR", "BUSY", "other"},
             allowed : BOOLEAN, chunk : Chunk]
Service(op) == [op |-> op, allowed |-> TRUE, chunk |-> NoChunk]
Refused(op) == [Service(op) EXCEPT !.allowed = FALSE]
Data(c)     == [Service("DATA") EXCEPT !.chunk = c]

Answers == [op : {"DATA", "ACK", "ERR"}, no : Nat, offset : Nat, size : Nat]
Answer(op, no) == [op |-> op, no |-> no, offset |-> 0, size |-> 0]

-----------------------------------------------------------------------------
(* The OTA library: it takes the chunks one after the other, the first     *)
(* being a header, writes them to the slot that does not run and verifies  *)
(* the whole when it has the length the header gives.  Whether it          *)
(* recognises the header of another package in the middle of one is not    *)
(* known.                                                                  *)

Otas == [busy : BOOLEAN, position : Nat]
OtaIdle == [busy |-> FALSE, position |-> 0]

Target == IF running = HPM_APP1 THEN HPM_APP2 ELSE HPM_APP1

\* What hpm_ota_auto_write does with chunk c and returns: 0 stored, 1
\* verified, -1 failed.
AutoWrite(c, fresh, broken) ==
  LET begins   == fresh \/ ~ota.busy
      image    == IF begins THEN <<c>> ELSE Append(flash[Target], c)
      position == c.size + IF begins THEN 0 ELSE ota.position
  IN  IF broken \/ (begins /\ c.no # 1)
      THEN [ota |-> OtaIdle, image |-> flash[Target], result |-> -1]
      ELSE IF position < Size[image[1].file]
      THEN [ota |-> [busy |-> TRUE, position |-> position], image |-> image,
            result |-> 0]
      ELSE [ota |-> OtaIdle, image |-> image,
            result |-> IF image = Package[image[1].file] THEN 1 ELSE -1]

\* foe_support_store_data: an empty packet is not passed on, nor is the offset.
StoreData(c, fresh, broken) ==
  IF c.size = 0
  THEN [ota |-> ota, image |-> flash[Target], result |-> 0]
  ELSE AutoWrite(c, fresh, broken)

-----------------------------------------------------------------------------
(* What the application makes of a service: file access f, the offset and  *)
(* the size of the data to be sent, and what the service ends in.          *)

Sends(f, offset, size) ==
  [foe |-> f, ends |-> "data", offset |-> offset, size |-> size]
Ends(f, how) == [foe |-> f, ends |-> how, offset |-> 0, size |-> 0]

\* The file read is the running package, whose header tells its size.
AppSize == LET size == Size[flash[running][1].file]
           IN  IF size > MaxFile THEN 0 ELSE size

\* FOE_Read, foe_read
Read(f, allowed) ==
  LET g    == [f EXCEPT !.lastOffset = 0]
      h    == [g EXCEPT !.readSize = AppSize]
      size == Least(AppSize, ReadBlock)
  IN  IF ~allowed THEN Ends(g, "error")
      ELSE IF AppSize = 0 THEN Ends(h, "error")
      ELSE Sends([h EXCEPT !.packetNo = 1, !.fileOffset = size], 0, size)

\* Variant: the offset of an aborted download stays.
WriteOn(f, allowed) ==
  Ends([f EXCEPT !.packetNo = 0], IF allowed THEN "ack" ELSE "error")

\* FOE_Write, foe_write
Write(f, allowed) ==
  LET g == [f EXCEPT !.packetNo = 0]
  IN  IF allowed THEN Ends([g EXCEPT !.written = 0], "ack")
      ELSE Ends(g, "error")

\* foe_read_data
ReadData(f, offset) ==
  IF f.readSize < offset THEN 0 ELSE Least(f.readSize - offset, ReadBlock)

\* Variant: that the library failed is not looked at.
WriteDataUnchecked(f, c, store) ==
  IF f.written + c.size > MaxFile THEN Ends(f, "error")
  ELSE Ends([f EXCEPT !.written = IF c.size = Block THEN @ + c.size ELSE 0], "ok")

\* foe_write_data; store is what foe_store_data did.
WriteData(f, c, store) ==
  IF f.written + c.size > MaxFile \/ store.result = -1 THEN Ends(f, "error")
  ELSE Ends([f EXCEPT !.passed = @ \/ store.result = 1,
                      !.written = IF c.size = Block THEN @ + c.size ELSE 0], "ok")

\* FOE_Data: a packet that is not full is the last.
FoeData(f, c, store) ==
  LET w == WriteData(f, c, store)
  IN  IF w.ends = "error" THEN w
      ELSE Ends(w.foe, IF c.size = Block THEN "ack" ELSE "ackfinished")

\* Data reaches the library when it is what is waited for, fits and is not empty.
Stores(f, r) ==
  /\ r.op = "DATA" /\ f.state = "WAIT_FOR_DATA" /\ r.chunk.no = f.packetNo
  /\ f.written + r.chunk.size <= MaxFile /\ r.chunk.size # 0

\* Variant: the packet is read from where the last one was.
AcknowledgedBehind(f) ==
  LET size == ReadData(f, f.fileOffset)
  IN  Sends([f EXCEPT !.lastOffset = f.fileOffset, !.fileOffset = @ + size,
                      !.packetNo = @ + 1], f.lastOffset, size)

Acknowledged(f) ==
  LET size == ReadData(f, f.fileOffset)
  IN  Sends([f EXCEPT !.lastOffset = f.fileOffset, !.fileOffset = @ + size,
                      !.packetNo = @ + 1], f.fileOffset, size)

\* What FOE_ServiceInd does with r before it answers.
Handled(f, r, store) ==
  CASE r.op = "RRQ" /\ f.state = "READY" -> Read(f, r.allowed)
    [] r.op = "WRQ" /\ f.state = "READY" -> Write(f, r.allowed)
    [] r.op = "DATA" /\ f.state = "WAIT_FOR_DATA" /\ r.chunk.no = f.packetNo ->
         FoeData(f, r.chunk, store)
    [] r.op = "ACK" /\ f.state = "WAIT_FOR_ACK" -> Acknowledged(f)
    [] r.op = "ACK" /\ f.state = "WAIT_FOR_LAST_ACK" -> Ends(f, "finished")
    [] r.op = "ERR" /\ f.state # "READY" -> Ends(f, "finished")
    [] r.op = "BUSY" /\ f.state \in {"WAIT_FOR_ACK", "WAIT_FOR_LAST_ACK"} ->
         Sends(f, f.lastOffset, ReadData(f, f.lastOffset))
    [] OTHER -> Ends(f, "error")

\* Variant: an error leaves the transfer as it is.
LeftRunning(h) ==
  CASE h.ends = "data" ->
         [h.foe EXCEPT !.state = IF h.size = ReadBlock THEN "WAIT_FOR_ACK"
                                 ELSE "WAIT_FOR_LAST_ACK"]
    [] h.ends = "ack" ->
         [h.foe EXCEPT !.state = "WAIT_FOR_DATA", !.packetNo = @ + 1]
    [] h.ends \in {"ackfinished", "finished"} ->
         [h.foe EXCEPT !.state = "READY"]
    [] OTHER -> h.foe

\* The state FOE_ServiceInd leaves, by what the service ended in.
Left(h) ==
  CASE h.ends = "data" ->
         [h.foe EXCEPT !.state = IF h.size = ReadBlock THEN "WAIT_FOR_ACK"
                                 ELSE "WAIT_FOR_LAST_ACK"]
    [] h.ends = "ack" ->
         [h.foe EXCEPT !.state = "WAIT_FOR_DATA", !.packetNo = @ + 1]
    [] h.ends = "ackfinished" ->
         [h.foe EXCEPT !.state = "READY", !.packetNo = @ + 1]
    [] OTHER -> [h.foe EXCEPT !.state = "READY"]

\* The answer, if any.
Reply(h) ==
  CASE h.ends = "data" -> <<[op |-> "DATA", no |-> h.foe.packetNo,
                             offset |-> h.offset, size |-> h.size]>>
    [] h.ends \in {"ack", "ackfinished"} -> <<Answer("ACK", h.foe.packetNo)>>
    [] h.ends = "finished" -> <<>>
    [] OTHER -> <<Answer("ERR", 0)>>

-----------------------------------------------------------------------------
(* The master and the device.                                              *)

\* download, upload: what it is at; downloaded, uploaded: what it completed;
\* no: the packet it sent or took last; got: the data taken in an upload.
Masters == [
  job  : {"none", "download", "downloaded", "upload", "uploaded"},
  file : Files,
  no   : Nat,
  got  : Seq([offset : Nat, size : Nat])]

Idle == master.job \notin {"download", "upload"}
Job(job, f) == [job |-> job, file |-> f, no |-> 0, got |-> <<>>]
NoJob == Job("none", master.file)

Init ==
  /\ foe = FoeAtReset /\ mailbox = "off"
  /\ request = <<>> /\ answer = <<>>
  /\ ota = OtaIdle
  /\ flash \in [Slots -> {<<>>} \cup {Package[f] : f \in Shipped}]
  /\ running = SelectJumpApp(flash) /\ running # None
  /\ master = Job("none", NoChunk.file)
  /\ faults = 0

\* MBX_StartMailboxHandler
EnterBoot ==
  /\ mailbox = "off" /\ running # None
  /\ mailbox' = "on"
  /\ UNCHANGED <<foe, request, answer, ota, flash, running, master, faults>>

Blames(fault) == /\ fault => faults < MaxFaults
                 /\ faults' = faults + IF fault THEN 1 ELSE 0

\* MBX_StopMailboxHandler with FOE_Init; APPL_StopMailboxHandler does nothing.
\* It is a fault of the master to stop in the middle of a transfer.
LeaveBoot ==
  /\ mailbox = "on"
  /\ mailbox' = "off" /\ foe' = FoeInit(foe)
  /\ request' = <<>> /\ answer' = <<>>
  /\ master' = IF Idle THEN master ELSE NoJob
  /\ Blames(~Idle)
  /\ UNCHANGED <<ota, flash, running>>

\* Whatever was in RAM is gone; the boot loader chooses from the flash.
Restart ==
  /\ foe' = FoeAtReset /\ mailbox' = "off"
  /\ request' = <<>> /\ answer' = <<>> /\ ota' = OtaIdle
  /\ running' = SelectJumpApp(flash)
  /\ master' = NoJob
  /\ UNCHANGED flash

PowerLoss == Restart /\ Blames(TRUE)

\* A master begins when nothing is under way; else it is a fault of its own.
Quiet == request = <<>> /\ answer = <<>>

StartDownload(f) ==
  /\ mailbox = "on" /\ Idle
  /\ master' = Job("download", f)
  /\ request' = Append(request, Service("WRQ"))
  /\ Blames(~Quiet)
  /\ UNCHANGED <<foe, mailbox, answer, ota, flash, running>>

StartUpload ==
  /\ mailbox = "on" /\ Idle
  /\ master' = Job("upload", master.file)
  /\ request' = Append(request, Service("RRQ"))
  /\ Blames(~Quiet)
  /\ UNCHANGED <<foe, mailbox, answer, ota, flash, running>>

\* The answer the master waits for; a packet that is not full is the last.
Sends1(m, r) == master' = m /\ request' = Append(request, r)
Expected(a) ==
  \/ master.job = "download" /\ a.op = "ACK" /\ a.no = master.no
  \/ master.job = "upload" /\ a.op = "DATA" /\ a.no = master.no + 1

Proceed(a) ==
  LET taken == [master EXCEPT !.no = a.no,
                  !.got = Append(@, [offset |-> a.offset, size |-> a.size])]
      next  == master.no + 1
  IN  \/ /\ master.job = "download" /\ master.no = Packets(master.file)
         /\ master' = [master EXCEPT !.job = "downloaded"]
         /\ UNCHANGED request
      \/ /\ master.job = "download" /\ master.no < Packets(master.file)
         /\ Sends1([master EXCEPT !.no = next], Data(Packet(master.file, next)))
      \/ /\ master.job = "upload" /\ a.size = ReadBlock
         /\ Sends1(taken, Service("ACK"))
      \/ /\ master.job = "upload" /\ a.size < ReadBlock
         /\ Sends1([taken EXCEPT !.job = "uploaded"], Service("ACK"))

\* Any other answer ends the job, an error at once, the rest with an error
\* from the master; with no job answers are dropped.
TakeAnswer ==
  /\ answer # <<>>
  /\ answer' = Tail(answer)
  /\ LET a == Head(answer)
     IN  \/ Expected(a) /\ Proceed(a)
         \/ Idle /\ UNCHANGED <<master, request>>
         \/ ~Idle /\ a.op = "ERR" /\ master' = NoJob /\ UNCHANGED request
         \/ ~Idle /\ a.op # "ERR" /\ ~Expected(a) /\ Sends1(NoJob, Service("ERR"))
  /\ UNCHANGED <<foe, mailbox, ota, flash, running, faults>>

\* The master gives up, perhaps without a word.
GiveUp ==
  /\ ~Idle /\ mailbox = "on"
  /\ master' = NoJob
  /\ \/ request' = Append(request, Service("ERR"))
     \/ UNCHANGED request
  /\ Blames(TRUE)
  /\ UNCHANGED <<foe, mailbox, answer, ota, flash, running>>

\* A service out of turn; data is of the file at hand, or too much of it.
Strays ==
  {Service(op) : op \in {"ACK", "ERR", "BUSY", "other", "WRQ", "RRQ"}}
    \cup {Refused("WRQ"), Refused("RRQ")}
    \cup UNION {{Data(Packet(master.file, n)),
                 Data([Packet(master.file, n) EXCEPT !.size = Block])} :
                   n \in 1 .. Packets(master.file)}

Stray ==
  /\ mailbox = "on"
  /\ \E r \in Strays : request' = Append(request, r)
  /\ Blames(TRUE)
  /\ UNCHANGED <<foe, mailbox, answer, ota, flash, running, master>>

\* foe_reset_request is read but written nowhere in the files that are built.
FoeResetRequest == FALSE

\* FOE_ServiceInd with the request at the head
ServiceInd(fresh, broken) ==
  LET r     == Head(request)
      store == StoreData(r.chunk, fresh, broken)
      h     == Handled(foe, r, store)
  IN  /\ mailbox = "on" /\ request # <<>>
      /\ request' = Tail(request)
      /\ foe' = Left(h)
      /\ answer' = answer \o Reply(h)
      /\ IF Stores(foe, r)
         THEN /\ fresh => ota.busy /\ r.chunk.no = 1
              /\ ota' = store.ota /\ flash' = [flash EXCEPT ![Target] = store.image]
         ELSE /\ ~fresh /\ ~broken
              /\ UNCHANGED <<ota, flash>>
      /\ Blames(broken)
      /\ UNCHANGED <<mailbox, running, master>>

\* ecat_slave_poll
Poll ==
  IF FoeResetRequest
  THEN Restart /\ UNCHANGED faults
  ELSE \E fresh, broken \in BOOLEAN : ServiceInd(fresh, broken)

Next ==
  \/ Poll \/ EnterBoot \/ LeaveBoot \/ PowerLoss
  \/ \E f \in Downloads : StartDownload(f)
  \/ StartUpload \/ TakeAnswer \/ GiveUp \/ Stray

\* The slave polls; the master takes what it is sent, returns to Bootstrap
\* and, when a transfer failed, tries again.
Fairness ==
  /\ WF_vars(Poll) /\ WF_vars(TakeAnswer) /\ WF_vars(EnterBoot)
  /\ \A f \in Downloads : SF_vars(StartDownload(f))

Spec == Init /\ [][Next]_vars /\ Fairness

-----------------------------------------------------------------------------
(* Properties.                                                             *)

TypeOK ==
  /\ foe \in FileAccess /\ mailbox \in {"on", "off"}
  /\ request \in Seq(Requests) /\ answer \in Seq(Answers)
  /\ ota \in Otas /\ flash \in [Slots -> Seq(Chunk)]
  /\ running \in Slots /\ master \in Masters /\ faults \in 0 .. MaxFaults

\* Packet number and offsets of file access f belong together.
Agree(f) ==
  /\ f.state = "WAIT_FOR_DATA" =>
       f.packetNo # 0 /\ f.written = Block * (f.packetNo - 1)
  /\ f.state \in {"WAIT_FOR_ACK", "WAIT_FOR_LAST_ACK"} =>
       /\ f.packetNo # 0 /\ f.lastOffset = ReadBlock * (f.packetNo - 1)
       /\ f.fileOffset = Least(f.readSize, ReadBlock * f.packetNo)
       /\ f.state = "WAIT_FOR_ACK" <=> ReadBlock * f.packetNo <= f.readSize

\* The packet number ecatfoe.c keeps and the offsets ecatfoe.c and
\* hpm_ecat_foe.c keep beside it agree, whatever was aborted before: a packet
\* accepted goes where its number says, and the data read for a number is
\* that of the number, for the packet to be repeated and the next one.
InStep == Agree(foe)

\* An upload the master completed is the running package, from the first
\* byte to the last, no part twice and none left out.
UploadIsWhole ==
  master.job = "uploaded" =>
    master.got = [n \in 1 .. AppSize \div ReadBlock + 1 |->
      [offset |-> ReadBlock * (n - 1),
       size   |-> Least(ReadBlock, AppSize - ReadBlock * (n - 1))]]

\* The slave acknowledges the last packet of a download.
Finishes ==
  /\ foe.state = "WAIT_FOR_DATA" /\ foe'.state = "READY"
  /\ Len(answer') > Len(answer) /\ answer'[Len(answer')].op = "ACK"

\* The library took the package for more of one whose download was aborted,
\* and waits for the rest of that one.
TakenForMore(file) ==
  ota'.busy /\ Size[flash'[Target][1].file] > Size[file]

\* When the slave acknowledges the last packet of a download, the slot that
\* is not running holds the whole package.  One case is left, which nothing in
\* foe_write and foe_support_store_data (ecat_foe_support.c:80) prevents: a
\* longer package was aborted before and the library did not recognise the
\* header of this one.  After an aborted package that is not longer, or the
\* same one, no download is acknowledged that is not installed.
FinishedIsInstalled ==
  [][Finishes => \/ flash'[Target] = Package[Head(request).chunk.file]
                 \/ TakenForMore(Head(request).chunk.file)]_vars

\* What the boot loader would start in slot s, if it is a whole package.
NoPackage == "none"
Boots(s) ==
  IF s = None THEN NoPackage
  ELSE IF flash[s] = Package[flash[s][1].file] THEN flash[s][1].file
  ELSE NoPackage

\* Whenever the supply fails, the device starts a whole package again, never
\* an older one than it ran, nor one that was not downloaded whole.
Abstract == INSTANCE AtomicUpdate WITH
  next <- Boots(SelectJumpApp(flash)), current <- Boots(running)
ImplementsAtomicUpdate == Abstract!Spec

\* A master that tries again after each failure has its package acknowledged
\* and installed again and again: nothing a failed transfer leaves behind, nor
\* the rest of an aborted package in the library, is in the way of all later
\* ones.
RetrySucceeds ==
  \A f \in Downloads :
    []<>(/\ master.job = "downloaded" /\ master.file = f
         /\ flash[Target] = Package[f])

\* README.md:167, user_app/ecat/README_en.md:136: when a verified download is
\* followed by leaving Bootstrap, the device restarts.
UpdateStarts == foe.passed /\ mailbox = "off" ~> ~foe.passed
=============================================================================
