------------------------------ MODULE SdoServer ------------------------------
(***************************************************************************)
(* The SDO server of SSC/Src/sdoserv.c: uploads and downloads of objects,  *)
(* in one piece or in segments when they do not fit into a mailbox, and    *)
(* SDO information, of which a list of objects is sent in fragments.  The  *)
(* server works on one request at a time and keeps one transfer; the       *)
(* master is external and conforms to the protocol, but may give up, ask   *)
(* again and stop the mailbox.  The mailbox between them keeps the order   *)
(* and loses nothing, which is what module Mailbox shows.                  *)
(***************************************************************************)
EXTENDS SdoInformation

CONSTANTS
  Used,           \* the objects that the instance keeps
  Jobs,           \* the transfers the master may ask for: see JobType
  ReceiveSize,    \* u16ReceiveMbxSize
  SendSize,       \* u16SendMbxSize
  HeapLow,        \* an allocation may fail
  MaxTransfers, MaxFaults, MaxTicks  \* bounds

\* A download sends the value for every entry, less the last `short` bytes;
\* of a list the value is the list type.
Operations == {"upload", "download", "list", "describeObject",
               "describeEntry"}

JobType == [op : Operations, index : Indexes \cup {"none"},
            sub : 0 .. 255, ca : BOOLEAN, value : Nat, short : Nat]

ASSUME UsedAssumption == Used \subseteq Indexes
ASSUME JobAssumption ==
  /\ Jobs \subseteq JobType
  /\ \A job \in Jobs : job.index \in Used \cup {"none"}
  /\ \A job \in Jobs : job.op = "download" /\ job.index # "none" =>
       job.sub <= Object[job.index].max
  /\ \A job \in Jobs : job.ca => job.op \in {"upload", "download"}
ASSUME SizeAssumption == {ReceiveSize, SendSize} \subseteq 36 .. 268
ASSUME FlagAssumption == HeapLow \in BOOLEAN
ASSUME BoundAssumption == {MaxTransfers, MaxFaults, MaxTicks} \subseteq Nat

VARIABLES
  objects,   \* the value of each object
  al,        \* nAlStatus
  sdo,       \* the transfer in progress: see SdoType
  info,      \* the list of objects in progress: see InfoType
  heap,      \* number of buffers allocated for transfers
  requests,  \* from the master
  answers,   \* to the master
  master,    \* see MasterType; seen: the values of the object during the job
  ticks      \* changes by the application

vars == <<objects, al, sdo, info, heap, requests, answers, master, ticks>>

(***************************************************************************)
(* Room in a mailbox behind the headers, in bytes.                         *)
(***************************************************************************)
UploadRoom      == SendSize - 16       \* MBX_HEADER and UPLOAD_NORM_RES
DownloadRoom    == ReceiveSize - 16    \* MBX_HEADER and DOWNLOAD_NORM_REQ
UploadSegRoom   == SendSize - 9        \* MBX_HEADER and SEGMENT_NORM_HEADER
DownloadSegRoom == ReceiveSize - 9
ListRoom        == SendSize - 14       \* MBX_HEADER and SDOINFOLISTSTRUCT
FragmentRoom    == SendSize - 12       \* MBX_HEADER and SDOINFO
NameRoom        == SendSize - 6        \* MBX_HEADER

(***************************************************************************)
(* The transfer.  Idle is the command of a download segment, zero; Null is *)
(* no buffer, which is never empty.  The toggle bit starts as 1, which no  *)
(* request has, so that any is taken for the first.                        *)
(***************************************************************************)
Idle == "downloadSegment"
Null == <<>>

Tags == {Cleared} \cup (0 .. 255) \X Nat

SdoType == [
  service  : {Idle, "uploadSegment"},    \* nSdoSegService
  toggle   : {0, 1, 16},                 \* bSdoSegLastToggle
  index    : Indexes \cup {"none"},      \* nSdoSegIndex, pSdoSegObjEntry
  sub      : 0 .. 255,                   \* nSdoSegSubindex
  ca       : BOOLEAN,                    \* bSdoSegAccess
  handled  : Nat,                        \* nSdoSegBytesToHandle
  complete : Nat,                        \* nSdoSegCompleteSize
  data     : Seq(Tags)]                  \* pSdoSegData

NoTransfer == [service |-> Idle, toggle |-> 0, index |-> "none", sub |-> 0,
               ca |-> FALSE, handled |-> 0, complete |-> 0, data |-> Null]

\* Mutant: the buffer is freed, the pointer stays.
EndedDangling(s) == [s EXCEPT !.service = Idle, !.handled = 0]

\* SDOS_ClearPendingResponse, and what an ended transfer leaves.
Ended(s) == [s EXCEPT !.service = Idle, !.handled = 0, !.data = Null]

\* Buffers freed when the one of the transfer is.
Held == IF sdo.data = Null THEN 0 ELSE 1

InfoType == [
  left   : Nat,                          \* nSdoInfoFragmentsLeft
  next   : 1 .. Len(ObjDicList) + 1,     \* pSdoInfoObjEntry, nSdoInfoIndex
  list   : 0 .. 5,                       \* aSdoInfoHeader
  follow : BOOLEAN]                      \* u8MailboxSendReqStored, of CoE

NoList == [left |-> 0, next |-> 1, list |-> 0, follow |-> FALSE]

\* n bytes of a buffer from an offset; outside of it, whatever is there.
Piece(data, from, n) ==
  [k \in 1 .. n |-> IF from + k \in DOMAIN data THEN data[from + k]
                    ELSE Cleared]

\* Mutant: a byte too far.
PlacedOff(data, from, piece) ==
  [k \in DOMAIN data |-> IF k - from - 1 \in DOMAIN piece
                         THEN piece[k - from - 1] ELSE data[k]]

\* MBXMEMCPY of a piece into the buffer.
Placed(data, from, piece) ==
  [k \in DOMAIN data |-> IF k - from \in DOMAIN piece THEN piece[k - from]
                         ELSE data[k]]

(***************************************************************************)
(* Requests and answers.                                                   *)
(***************************************************************************)
Request == Head(requests)

\* While fragments of a list follow, no request is taken out of the mailbox.
Received(cmd) == ~info.follow /\ requests # <<>> /\ Request.cmd = cmd

Answer(answer) == /\ requests' = Tail(requests)
                  /\ answers' = Append(answers, answer)

\* SdoRes leaves the command of a segment in place, to which it adds that of
\* an abort: of an upload segment, 3, the answer is no abort, 4, but 7.
Abort(cmd) ==
  Answer([kind |-> IF cmd = "uploadSegment" THEN "unknown" ELSE "abort"])

(***************************************************************************)
(* The application.                                                        *)
(***************************************************************************)
\* Entries it changes: the cycle time and the counters of sync errors, which
\* the interrupts count, and the process data inputs.
Live(x) == CASE x \in SyncPars -> {2, 11, 12}
             [] x = "x6000"    -> 1 .. 7
             [] OTHER          -> {}

\* The master writes none of them, nor what a write of the cycle time resets.
ASSUME LiveAssumption ==
  \A x \in Indexes :
    /\ \A i \in Live(x) : EntryDesc(x, i).write = {}
    /\ x \in SyncPars =>
         \A i \in Measured(0) \cup Measured(2) : EntryDesc(x, i).write = {}

\* The value of an object, and the objects, n interrupts later.
Later(x, value, n) ==
  [i \in DOMAIN value |-> value[i] + IF i \in Live(x) THEN n ELSE 0]

Ticked(n) == [x \in Used |-> Later(x, objects[x], n)]

\* History: the values that the object of the master's job has had during the
\* job, each with the number of interrupts that came while it was copied.
Seeing(values, n) ==
  IF master.phase = "idle" \/ master.job.index = "none" THEN master
  ELSE LET x == master.job.index
       IN  [master EXCEPT !.seen = @ \cup {<<objects[x], n>>, <<values[x], 0>>}]

Tick ==
  /\ ticks < MaxTicks
  /\ ticks' = ticks + 1 /\ objects' = Ticked(1)
  /\ master' = Seeing(Ticked(1), 0)
  /\ UNCHANGED <<al, sdo, info, heap, requests, answers>>

\* OBJ_Read copies word by word with the interrupts enabled: each of n
\* interrupts comes behind some of the words, before others.
Cuts(n, length) == [1 .. n -> 1 .. (length - 1) \div 2]

\* The interrupts that come before byte k is copied.
Interrupts(cuts, k) == Cardinality({j \in DOMAIN cuts : 2 * cuts[j] < k})

\* What becomes of the data of an object, if the copy is so interrupted.
Copied(x, data, cuts) ==
  [k \in DOMAIN data |->
     IF data[k] # Cleared /\ data[k][1] \in Live(x)
     THEN <<data[k][1], data[k][2] + Interrupts(cuts, k)>> ELSE data[k]]

\* What OBJ_Read may return, and the interrupts meanwhile.
ReadingsWith(r, n) ==
  LET data == Read(r.index, objects[r.index], r.sub, r.ca, al)
  IN  {[bytes |-> Copied(r.index, data, cuts), n |-> n] :
         cuts \in Cuts(n, Length(r.index, r.sub, r.ca))}

Readings(r) == UNION {ReadingsWith(r, n) : n \in 0 .. MaxTicks - ticks}

Interrupted(n) ==
  /\ objects' = Ticked(n) /\ ticks' = ticks + n
  /\ master' = Seeing(Ticked(n), n)

(***************************************************************************)
(* SDOS_SdoInd: the initiating requests.                                   *)
(***************************************************************************)
Addresses(r) == /\ r.index # "none"
                /\ r.sub <= Object[r.index].max
                /\ r.ca => r.sub <= 1

Initiates(cmd) == Received(cmd) /\ Addresses(Request)

\* Mutant: the request is dropped without an answer.
RefuseSilently ==
  /\ Received("initiateUpload") \/ Received("initiateDownload")
  /\ ~Addresses(Request)
  /\ requests' = Tail(requests)
  /\ UNCHANGED <<objects, al, sdo, heap, answers, master, ticks>>

RefuseInitiate ==
  /\ Received("initiateUpload") \/ Received("initiateDownload")
  /\ ~Addresses(Request)
  /\ Abort(Request.cmd)
  /\ UNCHANGED <<objects, al, sdo, heap, master, ticks>>

\* A transfer in one piece leaves that in segments alone, except that an
\* object of unknown length takes the place of the object in it.
Passed(r) ==
  IF Length(r.index, r.sub, r.ca) = 0
  THEN [sdo EXCEPT !.index = r.index, !.sub = r.sub] ELSE sdo

\* Mutant: the toggle bit of the transfer before stays.
OpenedUnset(r, complete) ==
  [sdo EXCEPT !.index = r.index, !.sub = r.sub, !.ca = r.ca,
              !.complete = complete, !.data = Null]

\* The transfer in segments before its buffer is allocated; that of the
\* transfer before is freed.
Opened(r, complete) ==
  [sdo EXCEPT !.toggle = 1, !.index = r.index, !.sub = r.sub, !.ca = r.ca,
              !.complete = complete, !.data = Null]

Fresh(n) == [k \in 1 .. n |-> Cleared]

\* The fault is bounded with those of the master.
Fault == [master EXCEPT !.faults = @ + 1, !.fault = TRUE]

AllocationFails(r, complete) ==
  /\ HeapLow /\ master.faults < MaxFaults
  /\ sdo' = Opened(r, complete)
  /\ heap' = heap - Held
  /\ Abort(r.cmd)
  /\ master' = Fault
  /\ UNCHANGED <<objects, al, ticks>>

\* An expedited or a normal upload.
UploadAtOnce ==
  /\ Initiates("initiateUpload")
  /\ LET r == Request
         length == Length(r.index, r.sub, r.ca)
     IN  /\ length <= UploadRoom
         /\ sdo' = Passed(r)
         /\ IF ReadRefused(r.index, r.sub, r.ca, al)
            THEN Abort(r.cmd) /\ UNCHANGED <<objects, master, ticks>>
            ELSE \E read \in Readings(r) :
                   /\ Answer([kind |-> "upload", size |-> length,
                              data |-> read.bytes])
                   /\ Interrupted(read.n)
  /\ UNCHANGED <<al, heap>>

\* If the object is not read the buffer stays, for nobody.
UploadInSegments ==
  /\ Initiates("initiateUpload")
  /\ LET r == Request
         length == Length(r.index, r.sub, r.ca)
         opened == [Opened(r, length) EXCEPT !.handled = UploadRoom,
                                             !.data = Fresh(length)]
     IN  /\ length > UploadRoom
         /\ \/ AllocationFails(r, length)
            \/ /\ heap' = heap - Held + 1
               /\ IF ReadRefused(r.index, r.sub, r.ca, al)
                  THEN /\ Abort(r.cmd) /\ sdo' = opened
                       /\ UNCHANGED <<objects, master, ticks>>
                  ELSE \E read \in Readings(r) :
                         /\ sdo' = [opened EXCEPT !.data = read.bytes,
                                                  !.service = "uploadSegment"]
                         /\ Answer([kind |-> "upload", size |-> length,
                                    data |-> Piece(read.bytes, 0, UploadRoom)])
                         /\ Interrupted(read.n)
               /\ UNCHANGED al

\* OBJ_Write of the whole data, and the answer.
WriteObject(cmd, x, sub, ca, data) ==
  IF WriteRefused(x, objects[x], sub, ca, al, data)
  THEN Abort(cmd) /\ UNCHANGED objects
  ELSE /\ Answer([kind |-> IF cmd = "downloadSegment" THEN cmd ELSE "download"])
       /\ objects' = Write(objects, x, sub, ca, al, data)

DownloadAtOnce ==
  /\ Initiates("initiateDownload")
  /\ Request.size = Len(Request.data)
  /\ LET r == Request
     IN  sdo' = Passed(r) /\ WriteObject(r.cmd, r.index, r.sub, r.ca, r.data)
  /\ UNCHANGED <<al, heap, master, ticks>>

DownloadInSegments ==
  /\ Initiates("initiateDownload")
  /\ Request.size > Len(Request.data)
  /\ LET r == Request
     IN  \/ AllocationFails(r, r.size)
         \/ /\ sdo' = [Opened(r, r.size) EXCEPT
                         !.service = Idle, !.handled = Len(r.data),
                         !.data = Placed(Fresh(r.size), 0, r.data)]
            /\ heap' = heap - Held + 1
            /\ Answer([kind |-> "download"])
            /\ UNCHANGED <<objects, al, master, ticks>>

(***************************************************************************)
(* SDOS_SdoInd: the segments, SdoDownloadSegmentInd, SdoUploadSegmentInd.  *)
(***************************************************************************)
Remaining == sdo.complete - sdo.handled

\* The last segment has what remains, any other is full; what the length of
\* short segments is coded as is the master's part.
Misfits(r) ==
  IF r.last THEN Remaining > DownloadSegRoom \/ Remaining # Len(r.data)
  ELSE Remaining <= DownloadSegRoom

Continues(cmd) == Received(cmd) /\ sdo.service = cmd

\* Without a transfer the service is that of a download segment too.
DownloadSegment ==
  /\ Continues("downloadSegment")
  /\ LET r == Request
         turned == [sdo EXCEPT !.toggle = r.toggle]
         data == Placed(sdo.data, sdo.handled, r.data)
     IN  \/ /\ r.toggle = sdo.toggle \/ sdo.data = Null \/ Misfits(r)
            /\ sdo' = Ended(turned) /\ heap' = heap - Held
            /\ Abort(r.cmd) /\ UNCHANGED objects
         \/ /\ r.toggle # sdo.toggle /\ sdo.data # Null /\ ~Misfits(r)
            /\ ~r.last
            /\ sdo' = [turned EXCEPT !.data = data,
                                     !.handled = @ + DownloadSegRoom]
            /\ Answer([kind |-> r.cmd])
            /\ UNCHANGED <<objects, heap>>
         \/ /\ r.toggle # sdo.toggle /\ sdo.data # Null /\ ~Misfits(r)
            /\ r.last
            /\ WriteObject(r.cmd, sdo.index, sdo.sub, sdo.ca, data)
            /\ sdo' = Ended(turned) /\ heap' = heap - Held
  /\ UNCHANGED <<al, master, ticks>>

\* Mutant: a segment is read from the object again, not from the buffer.
UploadSegmentReread ==
  /\ Continues("uploadSegment")
  /\ LET r == Request
         last == sdo.complete < sdo.handled + UploadSegRoom
         size == IF last THEN Remaining ELSE UploadSegRoom
         turned == [sdo EXCEPT !.toggle = r.toggle]
         data == Read(sdo.index, objects[sdo.index], sdo.sub, sdo.ca, al)
     IN  \/ /\ r.toggle = sdo.toggle
            /\ Abort(r.cmd) /\ UNCHANGED <<sdo, heap>>
         \/ /\ r.toggle # sdo.toggle
            /\ Answer([kind |-> r.cmd, last |-> last,
                       data |-> Piece(data, sdo.handled, size)])
            /\ sdo' = IF last THEN Ended(turned)
                      ELSE [turned EXCEPT !.handled = @ + size]
            /\ heap' = IF last THEN heap - Held ELSE heap
  /\ UNCHANGED <<objects, al, master, ticks>>

\* A segment that fills the mailbox is never the last: an empty one follows.
\* A segment out of turn leaves the transfer as it is.
UploadSegment ==
  /\ Continues("uploadSegment")
  /\ LET r == Request
         last == sdo.complete < sdo.handled + UploadSegRoom
         size == IF last THEN Remaining ELSE UploadSegRoom
         turned == [sdo EXCEPT !.toggle = r.toggle]
     IN  \/ /\ r.toggle = sdo.toggle
            /\ Abort(r.cmd) /\ UNCHANGED <<sdo, heap>>
         \/ /\ r.toggle # sdo.toggle
            /\ Answer([kind |-> r.cmd, last |-> last,
                       data |-> Piece(sdo.data, sdo.handled, size)])
            /\ sdo' = IF last THEN Ended(turned)
                      ELSE [turned EXCEPT !.handled = @ + size]
            /\ heap' = IF last THEN heap - Held ELSE heap
  /\ UNCHANGED <<objects, al, master, ticks>>

\* Any other command, an abort by the master among them.
RefuseCommand ==
  /\ \E cmd \in {"abort", "uploadSegment", "downloadSegment"} \ {sdo.service} :
       Received(cmd)
  /\ Abort(Request.cmd)
  /\ UNCHANGED <<objects, al, sdo, heap, master, ticks>>

SdoInd ==
  /\ \/ RefuseInitiate \/ UploadAtOnce \/ UploadInSegments
     \/ DownloadAtOnce \/ DownloadInSegments
     \/ DownloadSegment \/ UploadSegment \/ RefuseCommand
  /\ UNCHANGED info

(***************************************************************************)
(* SDOS_SdoInfoInd.                                                        *)
(***************************************************************************)
Inform(answer) ==
  /\ Answer(answer)
  /\ UNCHANGED <<objects, al, sdo, heap, master, ticks>>

\* Mutant: the fragment after the first begins with it again.
FragmentAgain(list) ==
  LET first == info.left = 0
      part  == GetObjectList(list - 1, 1, ListRoom)
      left  == IF first
               THEN FragmentsLeft(GetNoOfObjects(list - 1), ListRoom)
               ELSE info.left - 1
  IN  [info   |-> [left |-> left, next |-> part.next, list |-> list,
                   follow |-> left > 0],
       answer |-> [kind |-> "list", left |-> left,
                   objects |-> part.objects]]

\* The next fragment of a list: the first one, if none is left of the last.
Fragment(list) ==
  LET first == info.left = 0
      part  == GetObjectList(list - 1, IF first THEN 1 ELSE info.next,
                             IF first THEN ListRoom ELSE FragmentRoom)
      left  == IF first
               THEN FragmentsLeft(GetNoOfObjects(list - 1), ListRoom)
               ELSE info.left - 1
  IN  [info   |-> [left |-> left, next |-> part.next, list |-> list,
                   follow |-> left > 0],
       answer |-> [kind |-> "list", left |-> left,
                   objects |-> part.objects]]

\* A list type that does not exist is answered with the request itself.
SendList ==
  /\ Received("list")
  /\ LET list == Request.list
     IN  \/ /\ list = 0
            /\ Inform([kind |-> "list", left |-> 0,
                       objects |-> [i \in 1 .. 5 |-> GetNoOfObjects(i - 1)]])
            /\ info' = [info EXCEPT !.left = 0, !.list = 0]
         \/ /\ list \in 1 .. 5
            /\ Inform(Fragment(list).answer) /\ info' = Fragment(list).info
         \/ /\ list > 5
            /\ Inform([kind |-> "unknown"]) /\ UNCHANGED info

\* MBX_MailboxReadInd, when the master has read what was sent, and
\* COE_ContinueInd; that its buffer is allocated is module Mailbox's part.
ContinueInd ==
  /\ info.follow /\ answers = <<>>
  /\ answers' = <<Fragment(info.list).answer>>
  /\ info' = Fragment(info.list).info
  /\ UNCHANGED <<objects, al, sdo, heap, requests, master, ticks>>

Describe ==
  /\ Received("describeObject") \/ Received("describeEntry")
  /\ LET r == Request
         exists == /\ r.index # "none"
                   /\ r.cmd = "describeEntry" => r.sub <= Object[r.index].max
     IN  \/ /\ ~exists
            /\ Inform([kind |-> "abort"]) /\ info' = [info EXCEPT !.left = 0]
         \/ /\ exists
            /\ Inform([kind |-> "description", name |->
                         IF r.cmd = "describeObject"
                         THEN ObjectName(r.index, NameRoom)
                         ELSE EntryName(r.index, r.sub, NameRoom)])
            /\ UNCHANGED info

SdoInfoInd == SendList \/ ContinueInd \/ Describe

(***************************************************************************)
(* SDOS_ClearPendingResponse, when the mailbox stops, and the AL states.   *)
(***************************************************************************)
\* Mutant: a buffer is freed whether there is one or not.
StopMailboxUnchecked ==
  /\ master.faults < MaxFaults
  /\ requests' = <<>> /\ answers' = <<>>
  /\ sdo' = Ended(sdo) /\ heap' = heap - 1
  /\ al' = "preop"
  /\ master' = [Fault EXCEPT !.phase = "idle", !.result =
                  IF master.phase = "idle" THEN @ ELSE "failed"]
  /\ UNCHANGED <<objects, info, ticks>>

\* The master takes the slave to INIT and back to PREOP: its job ends.  The
\* fragments of a list that are left stay.
StopMailbox ==
  /\ master.faults < MaxFaults
  /\ info' = [info EXCEPT !.follow = FALSE]
  /\ requests' = <<>> /\ answers' = <<>>
  /\ sdo' = Ended(sdo) /\ heap' = heap - Held
  /\ al' = "preop"
  /\ master' = [Fault EXCEPT !.phase = "idle", !.result =
                  IF master.phase = "idle" THEN @ ELSE "failed"]
  /\ UNCHANGED <<objects, ticks>>

ChangeState ==
  /\ master.faults < MaxFaults
  /\ \E state \in AlStates \ {al} : al' = state
  /\ master' = Fault
  /\ UNCHANGED <<objects, sdo, info, heap, requests, answers, ticks>>

(***************************************************************************)
(* The master (external).                                                  *)
(***************************************************************************)
Rests == [left : Nat, next : 1 .. Len(ObjDicList) + 1]

MasterType == [
  phase     : {"idle", "initiated", "segments"},
  job       : JobType,                    \* the last or present transfer
  result    : {"none", "ok", "failed"},   \* of the last transfer
  toggle    : {0, 16},                    \* of the last segment asked for
  size      : Nat,                        \* upload: as announced
  got       : Seq(Tags),                  \* upload: data so far
  listed    : Seq(Nat),                   \* list: objects so far
  rest      : Rests,                      \* history: list not ended before
  data      : Seq(Tags),                  \* download: the whole data
  from      : Nat,                        \* download: begin and end of ...
  to        : Nat,                        \* ... the last piece sent
  fault     : BOOLEAN,                    \* history: one during this job
  transfers : 0 .. MaxTransfers,          \* bounded counts
  faults    : 0 .. MaxFaults]

\* The entry of each byte of an object as the master sees it: the entries
\* follow each other, entry 0 takes two bytes.
Image ==
  [x \in Indexes |->
     [k \in 1 .. Length(x, 0, Object[x].code # "VAR") |->
        The({i \in 0 .. Object[x].max :
               /\ 8 * (k - 1) >= Offset(x, i)
               /\ 8 * (k - 1) < Offset(x, i) + EntryDesc(x, i).bits})]]

\* The bytes before the first entry accessed.
First(x, sub, ca) == IF ca THEN 2 * sub ELSE Offset(x, sub) \div 8

\* The data of these entries with these values, from the first one accessed.
ImageOf(x, value, sub, ca, entries) ==
  [k \in 1 .. Length(x, sub, ca) |->
     IF ca /\ Object[x].code = "VAR" THEN Cleared
     ELSE LET i == Image[x][First(x, sub, ca) + k]
          IN  IF i \in entries THEN <<i, value[i]>> ELSE Cleared]

\* Entries that can be read in some state.
Readables(x, sub, ca) ==
  {i \in Accessed(x, sub, ca) : EntryDesc(x, i).read # {}}

\* What the server makes of this dictionary, and the master, in every access
\* that is not refused: what can be written is looked for where the master
\* puts it, what can be read is put where it looks for it.
ASSUME AccessAssumption ==
  \A x \in Indexes : \A sub \in 0 .. Object[x].max : \A ca \in BOOLEAN :
    (ca => Object[x].code # "VAR" /\ sub <= 1) =>
      LET n == Length(x, sub, ca)
          first == First(x, sub, ca)
          readables == Readables(x, sub, ca)
      IN  /\ \A i \in Accessed(x, sub, ca) :
               EntryDesc(x, i).write # {} \/ (ca /\ i = 0) =>
                 LET place == Place(x, sub, ca, i)
                 IN  /\ place # {} /\ place \subseteq 1 .. n
                     /\ \A k \in place : Image[x][first + k] = i
          /\ \A k \in 1 .. n :
               LET i == EntryAt(x, sub, ca, k)
                   j == Image[x][first + k]
               IN  i \in readables \/ j \in readables => i = j
          /\ ca => n > 0 /\ readables # {}

\* What the master wants the entries to be, the number of entries aside.
Wanted(job) ==
  [i \in 0 .. Object[job.index].max |->
     IF i = 0 /\ Object[job.index].code # "VAR" THEN Object[job.index].max
     ELSE job.value]

\* The data of each job, none for an upload or for no object.
Payload ==
  [job \in Jobs |->
     IF job.op # "download" \/ job.index = "none" THEN <<>>
     ELSE SubSeq(ImageOf(job.index, Wanted(job), job.sub, job.ca,
                         Accessed(job.index, job.sub, job.ca)),
                 1, Length(job.index, job.sub, job.ca) - job.short)]

\* The request that is to be answered now.
Asked(m) ==
  LET job == m.job
      piece == SubSeq(m.data, m.from + 1, m.to)
  IN  CASE job.op = "list" -> [cmd |-> "list", list |-> job.value]
        [] job.op \in {"describeObject", "describeEntry"} ->
             [cmd |-> job.op, index |-> job.index, sub |-> job.sub]
        [] job.op = "upload" /\ m.phase = "initiated" ->
             [cmd |-> "initiateUpload", index |-> job.index,
              sub |-> job.sub, ca |-> job.ca]
        [] job.op = "upload" /\ m.phase = "segments" ->
             [cmd |-> "uploadSegment", toggle |-> m.toggle]
        [] job.op = "download" /\ m.phase = "initiated" ->
             [cmd |-> "initiateDownload", index |-> job.index,
              sub |-> job.sub, ca |-> job.ca, size |-> Len(m.data),
              data |-> piece]
        [] job.op = "download" /\ m.phase = "segments" ->
             [cmd |-> "downloadSegment", toggle |-> m.toggle,
              last |-> m.to = Len(m.data), data |-> piece]

\* An answer that comes late is out before the next transfer begins.
Quiet == requests = <<>> /\ answers = <<>> /\ ~info.follow

Started(job, data) ==
  [master EXCEPT !.phase = "initiated", !.job = job, !.result = "none",
                 !.size = 0, !.got = <<>>, !.listed = <<>>, !.data = data,
                 !.rest = [left |-> info.left, next |-> info.next],
                 !.from = 0, !.to = Least(Len(data), DownloadRoom),
                 !.seen = IF job.index = "none" THEN {}
                          ELSE {<<objects[job.index], 0>>},
                 !.toggle = 16, !.fault = FALSE, !.transfers = @ + 1]

Start(job) ==
  /\ master.phase = "idle" /\ Quiet
  /\ master.transfers < MaxTransfers
  /\ master' = Started(job, Payload[job])
  /\ requests' = <<Asked(master')>>
  /\ UNCHANGED <<objects, al, sdo, info, heap, answers, ticks>>

Done(result) == [master EXCEPT !.phase = "idle", !.result = result]

\* The next segment; the first has toggle bit 0.
NextSegment(m) == [m EXCEPT !.phase = "segments", !.toggle = 16 - @]

AfterUpload(answer) ==
  LET got == master.got \o answer.data
      m == [master EXCEPT !.got = got, !.size =
              IF answer.kind = "upload" THEN answer.size ELSE @]
      whole == IF answer.kind = "upload" THEN Len(got) >= answer.size
               ELSE answer.last
  IN  IF whole THEN [m EXCEPT !.phase = "idle", !.result = "ok"]
      ELSE NextSegment(m)

AfterDownload ==
  LET total == Len(master.data)
  IN  IF master.to = total THEN Done("ok")
      ELSE NextSegment([master EXCEPT !.from = master.to,
                          !.to = Least(total, @ + DownloadSegRoom)])

AfterList(answer) ==
  [master EXCEPT !.listed = @ \o answer.objects,
                 !.phase  = IF answer.left = 0 THEN "idle" ELSE @,
                 !.result = IF answer.left = 0 THEN "ok" ELSE @]

\* The kinds of answers that go on with the job.
Expected ==
  CASE master.phase = "idle"      -> {}
    [] master.phase = "initiated" ->
         {IF master.job.op \in {"describeObject", "describeEntry"}
          THEN "description" ELSE master.job.op}
    [] master.phase = "segments" /\ master.job.op = "upload" ->
         {"uploadSegment"}
    [] master.phase = "segments" /\ master.job.op = "download" ->
         {"downloadSegment"}

After(answer) ==
  CASE answer.kind \in Expected /\ master.job.op = "upload" ->
         AfterUpload(answer)
    [] answer.kind \in Expected /\ master.job.op = "download" ->
         AfterDownload
    [] answer.kind = "list" /\ "list" \in Expected ->
         AfterList(answer)
    [] answer.kind = "description" /\ "description" \in Expected ->
         Done("ok")
    [] answer.kind \notin Expected ->
         IF answer.kind \in {"abort", "unknown"} /\ master.phase # "idle"
         THEN Done("failed") ELSE master

TakeAnswer ==
  /\ answers # <<>>
  /\ master' = After(Head(answers))
  /\ requests' = IF /\ Head(answers).kind \in Expected \ {"list"}
                    /\ master'.phase # "idle"
                 THEN Append(requests, Asked(master')) ELSE requests
  /\ answers' = Tail(answers)
  /\ UNCHANGED <<objects, al, sdo, info, heap, ticks>>

\* A timeout, with or without an abort to the slave.
GiveUp ==
  /\ master.phase # "idle" /\ master.faults < MaxFaults
  /\ requests' \in {requests, Append(requests, [cmd |-> "abort"])}
  /\ master' = [Fault EXCEPT !.phase = "idle", !.result = "failed"]
  /\ UNCHANGED <<objects, al, sdo, info, heap, answers, ticks>>

\* A request that is made again, though the first may have arrived.
AskAgain ==
  /\ master.phase # "idle" /\ master.faults < MaxFaults
  /\ requests' = Append(requests, Asked(master))
  /\ master' = Fault
  /\ UNCHANGED <<objects, al, sdo, info, heap, answers, ticks>>

Master == \/ \E job \in Jobs : Start(job)
          \/ TakeAnswer \/ GiveUp \/ AskAgain \/ ChangeState \/ StopMailbox

(***************************************************************************)
(* Start: COE_ObjInit, COE_Init; the values are those of the start, 0.     *)
(***************************************************************************)
NoJob == [op |-> "upload", index |-> "none", sub |-> 0, ca |-> FALSE,
          value |-> 0, short |-> 0]

Init ==
  /\ objects = [x \in Used |-> [i \in 0 .. Object[x].max |->
                  IF i = 0 THEN Object[x].max ELSE 0]]
  /\ al = "preop"
  /\ sdo = NoTransfer /\ info = NoList
  /\ heap = 0
  /\ requests = <<>> /\ answers = <<>>
  /\ master = [phase |-> "idle", job |-> NoJob, result |-> "none",
               toggle |-> 0, size |-> 0, got |-> <<>>, listed |-> <<>>,
               rest |-> [left |-> 0, next |-> 1],
               data |-> <<>>, from |-> 0, to |-> 0,
               seen |-> {}, fault |-> FALSE, transfers |-> 0, faults |-> 0]
  /\ ticks = 0

Next == SdoInd \/ SdoInfoInd \/ Tick \/ Master

Spec == Init /\ [][Next]_vars

\* What the server has to do: a fragment, if the last one is read, or else a
\* request.
Waiting == IF info.follow THEN answers = <<>> ELSE requests # <<>>

\* Weak fairness of the server, written out because it is enabled exactly
\* when it has to do: the mailbox is served in every poll of ECAT_Main.
RequestsServed == []<>(~Waiting) \/ []<><<SdoInd \/ SdoInfoInd>>_vars

\* The master reads what it is sent; it need not start anything.
FairSpec == Spec /\ RequestsServed /\ WF_vars(TakeAnswer)

(***************************************************************************)
(* Properties.                                                             *)
(***************************************************************************)

\* Every variable has its type, the queues of messages aside.
TypeOK ==
  /\ DOMAIN objects = Used
  /\ \A x \in Used : objects[x] \in [0 .. Object[x].max -> Nat]
  /\ al \in AlStates
  /\ sdo \in SdoType /\ info \in InfoType
  /\ heap \in Nat /\ ticks \in 0 .. MaxTicks
  /\ [f \in DOMAIN master \ {"seen"} |-> master[f]] \in MasterType
  /\ \A seen \in master.seen : \E x \in Used :
       seen \in [0 .. Object[x].max -> Nat] \X Nat

\* An upload without a fault during it gives the master the object as it was
\* while the server copied it once, every readable entry at its offset, with
\* the length that was announced: no segment is missed, taken twice or read
\* from an object that has changed since the first, whatever the transfers
\* before have left.  Nothing keeps the interrupts away from the copy, so that
\* a word may be later than those before it, and an entry of two words that
\* the interrupts count have the halves of two values; no word is torn, none
\* is earlier than those before it, and no interrupt after the copy shows.  (A
\* master that initiates an upload twice may put the begin of one before the
\* end of the other.)  (sdoserv.c:396-467, objdef.c:971-1290, 1164)
UploadIsWhole ==
  ~master.fault /\ master.result = "ok" /\ master.job.op = "upload" =>
    LET job == master.job
        entries == Readables(job.index, job.sub, job.ca)
        Whole(value) ==
          ImageOf(job.index, value, job.sub, job.ca, entries)
    IN  /\ Len(master.got) = master.size
        /\ \E seen \in master.seen : \E cuts \in Cuts(seen[2], master.size) :
             master.got = Copied(job.index, Whole(seen[1]), cuts)

\* A list of objects without a fault during it has the objects that belong to
\* it, each once, in the order of their numbers, though it is sent in fragments
\* that are counted before the objects are looked for, and continues where the
\* last left off.  It is the whole list if the list before it was sent to its
\* end.  If the mailbox was stopped before that, the code takes the request
\* for the next fragment: the list begins where that one broke off, and has
\* every object of its own type from there (sdoserv.c:1085-1180,
\* objdef.c:381-484).
ListIsWhole ==
  ~master.fault /\ master.result = "ok" /\ master.job.op = "list" =>
    LET listed == master.listed
        begin == IF master.rest.left = 0 THEN 1 ELSE master.rest.next
        Members(list, from) ==
          {Number[x] : x \in {ObjDicList[k] : k \in
             {j \in from .. Len(ObjDicList) : InList(ObjDicList[j], list)}}}
    IN  IF master.job.value = 0
        THEN listed = [i \in 1 .. 5 |-> Cardinality(Members(i - 1, 1))]
        ELSE /\ {listed[i] : i \in DOMAIN listed}
                  = Members(master.job.value - 1, begin)
             /\ \A i, j \in DOMAIN listed : i < j => listed[i] < listed[j]

\* Whatever the master reads is whole, as far as the code keeps it so.
ReadIsWhole == UploadIsWhole /\ ListIsWhole

\* The entries that a download sends and the code lets it write.
Storable(job, states) ==
  {i \in Accessed(job.index, job.sub, job.ca) :
     states \subseteq EntryDesc(job.index, i).write}

\* After a download that ended well each entry that it may write has the
\* value sent for it, also where two pieces share an entry or the state has
\* changed on the way (sdoserv.c:287-330, objdef.c:1425-1790).
DownloadIsStored ==
  master.result = "ok" /\ master.job.op = "download" =>
    \A i \in Storable(master.job, AlStates) \cup
             (IF master.fault THEN {} ELSE Storable(master.job, {al})) :
      objects[master.job.index][i] = master.job.value

\* A writable entry changes only when the whole of a download has been sent,
\* to the value sent, and with all others of it: no part of a transfer that
\* was abandoned, asked for twice or cut short by another is ever written
\* (sdoserv.c:219-330, 779-784).
WriteIsWhole ==
  [][\A x \in Used : \A i \in DOMAIN objects[x] :
       /\ objects'[x][i] # objects[x][i]
       /\ EntryDesc(x, i).write # {}
       => /\ master.job.op = "download" /\ master.job.index = x
          /\ master.to = Len(master.data)
          /\ \A k \in Storable(master.job, {al}) \cup {i} :
               objects'[x][k] = master.job.value]_vars

\* There is a buffer on the heap exactly while a transfer has it, however
\* transfers are abandoned, replaced, refused or stopped
\* (sdoserv.c:318, 366, 457, 779-784, 1034).
HeapBalanced == heap = IF sdo.data = Null THEN 0 ELSE 1

\* What the dictionary lets the master do, in state al.
LegalUpload(job) ==
  \E i \in Accessed(job.index, job.sub, job.ca) :
    al \in EntryDesc(job.index, i).read

LegalDownload(job) ==
  /\ Storable(job, {al}) # {}
  /\ job.index \in SyncPars /\ 1 \in Storable(job, {al}) =>
       CheckSyncTypeValue(job.index, job.value)

Legal(job) ==
  IF job.op = "list" THEN job.value <= 5
  ELSE /\ job.index # "none"
       /\ job.op # "describeObject" => job.sub <= Object[job.index].max
       /\ job.ca => Object[job.index].code # "VAR" /\ job.sub <= 1
       /\ job.op = "upload" => LegalUpload(job)
       /\ job.op = "download" => LegalDownload(job)

\* Without a fault during it a job fails exactly if it is not legal, whatever
\* the transfers before have left in the server: a toggle bit, a buffer, a
\* service (sdoserv.c:576-935).
FailsIffIllegal ==
  ~master.fault /\ master.result # "none" =>
    (master.result = "ok" <=> Legal(master.job))

\* Every transfer that is started ends, also with requests made twice and
\* transfers abandoned: each request is answered, and each answer brings the
\* transfer forward (sdoserv.c:505-562, 396-467).
TransfersEnd == master.phase # "idle" ~> master.phase = "idle"

=============================================================================
