--------------------------- MODULE SdoServerProofs ---------------------------
(***************************************************************************)
(* Proofs about SdoInformation and SdoServer, for mailboxes of any size    *)
(* and any jobs of the master: the count of fragments, the balance of the  *)
(* buffers, the types, what a download writes, and, of a job without a     *)
(* fault, what the master reads and whether it is refused.                 *)
(***************************************************************************)
EXTENDS SdoServer, SequenceTheorems, FiniteSetTheorems, TLAPS

(***************************************************************************)
(* The fragments of a list, in a mailbox of an even size.                  *)
(***************************************************************************)

\* What the division in C gives.
LEMMA DivFacts ==
  ASSUME NEW a \in Nat, NEW d \in Nat \ {0}
  PROVE  /\ a \div d \in Nat
         /\ d * (a \div d) <= a
         /\ a < d * (a \div d) + d
  OBVIOUS

\* A list of n objects, of which the first fragment takes k and each of the
\* others k + 1, has as many fragments as it needs and none too many: the
\* count that sdoserv.c:1153-1156 makes before it looks for the objects.
THEOREM FragmentsSuffice ==
  ASSUME NEW n \in Nat, NEW k \in Nat
  PROVE  LET left == FragmentsLeft(n, 2 * k)
         IN  /\ n <= k + left * (k + 1)
             /\ left > 0 => n > k + (left - 1) * (k + 1)
<1> DEFINE left == FragmentsLeft(n, 2 * k)
<1>1. CASE n <= k
  <2>1. left = 0
    BY <1>1 DEF FragmentsLeft
  <2> QED
    BY <1>1, <2>1
<1>2. CASE n > k
  <2> DEFINE whole == 2 * (k + 1)
             bytes == 2 * n + 1
  <2>1. left = bytes \div whole
    <3>1. 2 * n - 2 * k + (2 * k + 2) - 1 = bytes /\ 2 * k + 2 = whole
      OBVIOUS
    <3> QED
      BY <1>2, <3>1 DEF FragmentsLeft
  <2>2. bytes \in Nat /\ whole \in Nat \ {0}
    OBVIOUS
  <2>3. /\ left \in Nat
        /\ whole * left <= bytes
        /\ bytes < whole * left + whole
    <3> HIDE DEF left, bytes, whole
    <3> QED
      BY <2>1, <2>2, DivFacts
  <2> DEFINE part == (k + 1) * left
  <2>4. part \in Nat /\ whole * left = 2 * part
        /\ left * (k + 1) = part /\ (left - 1) * (k + 1) = part - (k + 1)
    <3> HIDE DEF left
    <3> QED
      BY <2>3
  <2>5. 2 * part <= 2 * n + 1 /\ 2 * n + 1 < 2 * part + 2 * (k + 1)
    <3> HIDE DEF left, part
    <3> QED
      BY <2>3, <2>4
  <2> HIDE DEF left, part
  <2>6. n <= k + part /\ n > k + (part - (k + 1))
    BY <2>4, <2>5
  <2> QED
    BY <2>4, <2>6 DEF left
<1> QED
  BY <1>1, <1>2

(***************************************************************************)
(* The buffers.  The invariant: a buffer has at least one byte (an empty   *)
(* one could not be told from none), for which the lengths that requests   *)
(* announce must be numbers; they are the master's.                        *)
(***************************************************************************)
RequestType ==
  [cmd : {"initiateUpload"}, index : Used \cup {"none"}, sub : 0 .. 255,
   ca : BOOLEAN]
  \cup [cmd : {"initiateDownload"}, index : Used \cup {"none"},
        sub : 0 .. 255, ca : BOOLEAN, size : Nat, data : Seq(Tags)]
  \cup [cmd : {"uploadSegment"}, toggle : {0, 16}]
  \cup [cmd : {"downloadSegment"}, toggle : {0, 16}, last : BOOLEAN,
        data : Seq(Tags)]
  \cup [cmd : {"list"}, list : Nat]
  \cup [cmd : {"describeObject", "describeEntry"},
        index : Used \cup {"none"}, sub : 0 .. 255]
  \cup [cmd : {"abort"}]

MasterGood(m) ==
  /\ DOMAIN m = {"phase", "job", "result", "toggle", "size", "got", "listed",
                 "rest", "data", "from", "to", "seen", "fault", "transfers",
                 "faults"}
  /\ m.phase \in {"idle", "initiated", "segments"}
  /\ m.job \in JobType /\ m.job.index \in Used \cup {"none"}
  /\ m.phase = "segments" => m.job.op \in {"upload", "download"}
  /\ m.toggle \in {0, 16}
  /\ m.data \in Seq(Tags)
  /\ m.from \in Nat /\ m.to \in Nat /\ m.to <= Len(m.data)

SdoGood(s) ==
  /\ DOMAIN s = {"service", "toggle", "index", "sub", "ca", "handled",
                 "complete", "data"}
  /\ s.data = Null \/ 1 \in DOMAIN s.data

Parties == requests \in Seq(RequestType) /\ MasterGood(master)

IInv == Parties /\ SdoGood(sdo) /\ HeapBalanced

\* What a job of the master sends is a sequence of tagged bytes.
LEMMA PayloadType ==
  ASSUME NEW job \in Jobs
  PROVE  Payload[job] \in Seq(Tags)
<1>1. job \in JobType
  BY JobAssumption
<1>2. CASE job.op # "download" \/ job.index = "none"
  BY <1>2 DEF Payload
<1>3. CASE job.op = "download" /\ job.index # "none"
  <2> DEFINE x == job.index
             entries == Accessed(x, job.sub, job.ca)
             image == ImageOf(x, Wanted(job), job.sub, job.ca, entries)
             length == Length(x, job.sub, job.ca)
  <2>1. /\ x \in Indexes /\ job.sub \in 0 .. Object[x].max
        /\ job.ca \in BOOLEAN /\ job.value \in Nat /\ job.short \in Nat
    BY <1>1, <1>3, JobAssumption, UsedAssumption DEF JobType
  <2>2. length \in Nat /\ Object[x].max \in 0 .. 255
    BY <2>1, LengthAssumption
  <2>3. \A i \in entries : i \in 0 .. 255 /\ i \in 0 .. Object[x].max
    BY SMTT(60), <2>1, <2>2 DEF Accessed
  <2>4. \A i \in entries : <<i, Wanted(job)[i]>> \in Tags
    <3> HIDE DEF entries
    <3> SUFFICES ASSUME NEW i \in entries
                 PROVE  <<i, Wanted(job)[i]>> \in Tags
      OBVIOUS
    <3>1. /\ i \in 0 .. Object[job.index].max
          /\ Object[job.index].max \in Nat /\ job.value \in Nat
      BY <2>1, <2>2, <2>3
    <3>2. Wanted(job)[i] \in Nat
      BY ONLY <3>1 DEF Wanted
    <3> QED
      BY <2>3, <3>2 DEF Tags
  <2>5. \A k \in 1 .. length : image[k] \in Tags
    <3> HIDE DEF entries, length
    <3>1. Cleared \in Tags
      BY DEF Tags
    <3> QED
      BY <2>4, <3>1 DEF ImageOf, length
  <2>6. SubSeq(image, 1, length - job.short) \in Seq(Tags)
    <3> HIDE DEF image, length
    <3> QED
      BY <2>1, <2>2, <2>5, SubSeqProperties
  <2> QED
    BY <1>3, <2>6 DEF Payload
<1> QED
  BY <1>2, <1>3

(***************************************************************************)
(* The master keeps its part.                                              *)
(***************************************************************************)
LEMMA AskedType ==
  ASSUME NEW m, MasterGood(m), m.phase # "idle"
  PROVE  Asked(m) \in RequestType
<1> DEFINE piece == SubSeq(m.data, m.from + 1, m.to)
<1>1. /\ m.job.index \in Used \cup {"none"} /\ m.job.sub \in 0 .. 255
      /\ m.job.ca \in BOOLEAN /\ m.job.value \in Nat
      /\ m.job.op \in Operations
  BY DEF MasterGood, JobType
<1>2. Len(m.data) \in Nat
  BY LenProperties DEF MasterGood
<1>3. piece \in Seq(Tags)
  BY LenProperties, SubSeqProperties DEF MasterGood
<1> HIDE DEF piece
<1>4. CASE m.job.op = "list"
  BY <1>1, <1>4 DEF Asked, RequestType
<1>5. CASE m.job.op \in {"describeObject", "describeEntry"}
  BY <1>1, <1>5 DEF Asked, RequestType
<1>6. CASE m.job.op = "upload"
  BY <1>1, <1>6 DEF Asked, RequestType, MasterGood
<1>7. CASE m.job.op = "download"
  BY <1>1, <1>2, <1>3, <1>7 DEF Asked, RequestType, MasterGood, piece
<1> QED
  BY <1>1, <1>4, <1>5, <1>6, <1>7 DEF Operations

LEMMA RoomType ==
  /\ UploadRoom \in Nat /\ UploadRoom > 0
  /\ DownloadRoom \in Nat /\ DownloadSegRoom \in Nat
  BY SizeAssumption DEF UploadRoom, DownloadRoom, DownloadSegRoom

\* What becomes of the master when it gives up, sees an object or a fault.
LEMMA MasterChanges ==
  ASSUME MasterGood(master)
  PROVE  /\ MasterGood(Fault)
         /\ \A values, n : MasterGood(Seeing(values, n))
         /\ \A result : MasterGood([Fault EXCEPT !.phase = "idle",
                                                !.result = result])
         /\ \A result : MasterGood(Done(result))
  BY DEF MasterGood, Fault, Seeing, Done

LEMMA StartedGood ==
  ASSUME MasterGood(master), NEW job \in Jobs
  PROVE  MasterGood(Started(job, Payload[job]))
<1> DEFINE data == Payload[job]
<1>1. data \in Seq(Tags) /\ Len(data) \in Nat
  BY PayloadType, LenProperties
<1> DEFINE to == Least(Len(data), DownloadRoom)
<1>2. to \in Nat /\ to <= Len(data)
  BY <1>1, RoomType DEF Least
<1>3. job \in JobType /\ job.index \in Used \cup {"none"}
  BY JobAssumption
<1> HIDE DEF data
<1>4. MasterGood(Started(job, data))
  BY <1>1, <1>2, <1>3 DEF MasterGood, Started
<1> QED
  BY <1>4 DEF data

LEMMA NextSegmentGood ==
  ASSUME NEW m, MasterGood(m), m.job.op \in {"upload", "download"}
  PROVE  MasterGood(NextSegment(m))
<1>1. /\ DOMAIN NextSegment(m) = DOMAIN m
      /\ NextSegment(m).phase = "segments"
      /\ NextSegment(m).toggle = 16 - m.toggle
      /\ NextSegment(m).job = m.job /\ NextSegment(m).data = m.data
      /\ NextSegment(m).from = m.from /\ NextSegment(m).to = m.to
  BY DEF MasterGood, NextSegment
<1>2. 16 - m.toggle \in {0, 16}
  BY DEF MasterGood
<1> QED
  BY <1>1, <1>2 DEF MasterGood

LEMMA AfterGood ==
  ASSUME MasterGood(master), NEW answer
  PROVE  MasterGood(After(answer))
<1>1. ASSUME master.job.op = "upload"
      PROVE  MasterGood(AfterUpload(answer))
  <2> DEFINE got == master.got \o answer.data
             size == IF answer.kind = "upload" THEN answer.size
                     ELSE master.size
             m == [master EXCEPT !.got = got, !.size = size]
  <2>1. MasterGood(m) /\ m.job.op = "upload"
    <3> HIDE DEF got, size
    <3> QED
      BY <1>1 DEF MasterGood
  <2>2. MasterGood([m EXCEPT !.phase = "idle", !.result = "ok"])
    <3> HIDE DEF m
    <3> QED
      BY <2>1 DEF MasterGood
  <2>3. MasterGood(NextSegment(m))
    <3> HIDE DEF m
    <3> QED
      BY <2>1, NextSegmentGood
  <2> QED
    BY <2>2, <2>3 DEF AfterUpload
<1>2. ASSUME master.job.op = "download"
      PROVE  MasterGood(AfterDownload)
  <2> DEFINE to == Least(Len(master.data), master.to + DownloadSegRoom)
             m == [master EXCEPT !.from = master.to, !.to = to]
  <2>1. to \in Nat /\ to <= Len(master.data)
    BY LenProperties, RoomType DEF MasterGood, Least
  <2>2. MasterGood(m) /\ m.job.op = "download"
    <3> HIDE DEF to
    <3> QED
      BY <1>2, <2>1 DEF MasterGood
  <2>3. MasterGood(NextSegment(m))
    <3> HIDE DEF m
    <3> QED
      BY <2>2, NextSegmentGood
  <2> QED
    BY <2>3, MasterChanges DEF AfterDownload
<1>3. MasterGood(AfterList(answer))
  <2> DEFINE listed == master.listed \o answer.objects
             phase == IF answer.left = 0 THEN "idle" ELSE master.phase
             result == IF answer.left = 0 THEN "ok" ELSE master.result
  <2>1. phase \in {"idle", master.phase}
    OBVIOUS
  <2> HIDE DEF listed, phase, result
  <2>2. MasterGood([master EXCEPT !.listed = listed, !.phase = phase,
                                  !.result = result])
    BY <2>1 DEF MasterGood
  <2> QED
    BY <2>2 DEF AfterList, listed, phase, result
<1>4. answer.kind \in Expected =>
        \/ master.job.op \in {"upload", "download"}
        \/ answer.kind = "list" /\ "list" \in Expected
        \/ answer.kind = "description" /\ "description" \in Expected
  BY DEF Expected, MasterGood, JobType, Operations
<1> QED
  BY <1>1, <1>2, <1>3, <1>4, MasterChanges DEF After

LEMMA MasterStep ==
  ASSUME Parties, Master
  PROVE  Parties'
<1> USE DEF Parties
<1>1. ASSUME NEW job \in Jobs, Start(job)
      PROVE  Parties'
  <2> DEFINE m == Started(job, Payload[job])
  <2>1. MasterGood(m) /\ m.phase # "idle"
    <3>1. m.phase = "initiated"
      BY DEF MasterGood, Started
    <3> QED
      BY <3>1, StartedGood
  <2>2. Asked(m) \in RequestType
    BY <2>1, AskedType
  <2>3. requests' = <<Asked(m)>> /\ master' = m
    BY <1>1 DEF Start
  <2> QED
    BY <2>1, <2>2, <2>3
<1>2. CASE TakeAnswer
  <2> DEFINE m == After(Head(answers))
  <2>1. MasterGood(m)
    BY AfterGood
  <2>2. m.phase # "idle" => Asked(m) \in RequestType
    BY <2>1, AskedType
  <2>3. /\ master' = m
        /\ \/ requests' = requests
           \/ m.phase # "idle" /\ requests' = Append(requests, Asked(m))
    BY <1>2 DEF TakeAnswer
  <2> QED
    BY <2>1, <2>2, <2>3, AppendProperties
<1>3. CASE GiveUp
  <2>1. [cmd |-> "abort"] \in RequestType
    BY DEF RequestType
  <2> QED
    BY <1>3, <2>1, MasterChanges, AppendProperties DEF GiveUp
<1>4. CASE AskAgain
  BY <1>4, AskedType, MasterChanges, AppendProperties DEF AskAgain
<1>5. CASE ChangeState
  BY <1>5, MasterChanges DEF ChangeState
<1>6. CASE StopMailbox
  <2>1. requests' = <<>> /\ MasterGood(master')
    BY <1>6, MasterChanges DEF StopMailbox
  <2> QED
    BY <2>1
<1> QED
  BY <1>1, <1>2, <1>3, <1>4, <1>5, <1>6 DEF Master

LEMMA AnswerStep ==
  ASSUME Parties, requests # <<>>, requests' = Tail(requests),
         \/ master' \in {master, Fault}
         \/ \E values, n : master' = Seeing(values, n)
  PROVE  Parties'
  BY MasterChanges, HeadTailProperties DEF Parties

(***************************************************************************)
(* The buffers.                                                            *)
(***************************************************************************)
Balanced(s, h) == SdoGood(s) /\ h = (IF s.data = Null THEN 0 ELSE 1)

LEMMA NoBuffer == 1 \notin DOMAIN Null
  BY DEF Null

LEMMA FreshBuffer ==
  ASSUME NEW n \in Nat, n > 0
  PROVE  1 \in DOMAIN Fresh(n)
  BY DEF Fresh

LEMMA PlacedBuffer ==
  ASSUME NEW data, 1 \in DOMAIN data, NEW from, NEW piece
  PROVE  1 \in DOMAIN Placed(data, from, piece)
  BY DEF Placed

\* The transfer without a buffer in place of the one before, and with one.
LEMMA OpenedBalanced ==
  ASSUME SdoGood(sdo), HeapBalanced, NEW r, NEW complete
  PROVE  /\ Balanced(Opened(r, complete), heap - Held)
         /\ \A s : DOMAIN s = DOMAIN sdo /\ 1 \in DOMAIN s.data =>
              Balanced(s, heap - Held + 1)
<1>1. heap - Held = 0
  BY DEF HeapBalanced, Held
<1>2. /\ DOMAIN Opened(r, complete) = DOMAIN sdo
      /\ Opened(r, complete).data = Null
  BY DEF SdoGood, Opened
<1> QED
  BY <1>1, <1>2, NoBuffer DEF SdoGood, Balanced

LEMMA OpenedDomain ==
  ASSUME SdoGood(sdo), NEW r, NEW complete
  PROVE  DOMAIN Opened(r, complete) = DOMAIN sdo
  BY DEF SdoGood, Opened

\* The transfer without its buffer.
LEMMA EndedBalanced ==
  ASSUME SdoGood(sdo), HeapBalanced, NEW toggle
  PROVE  /\ Balanced(Ended(sdo), heap - Held)
         /\ Balanced(Ended([sdo EXCEPT !.toggle = toggle]), heap - Held)
<1>1. heap - Held = 0
  BY DEF HeapBalanced, Held
<1> QED
  BY <1>1 DEF SdoGood, Ended, Balanced

\* The transfer as it goes on.
LEMMA KeptBalanced ==
  ASSUME SdoGood(sdo), HeapBalanced
  PROVE  /\ \A r : Balanced(Passed(r), heap)
         /\ \A toggle, handled :
              Balanced([[sdo EXCEPT !.toggle = toggle]
                          EXCEPT !.handled = handled], heap)
         /\ \A toggle, handled, data :
              1 \in DOMAIN data /\ sdo.data # Null =>
              Balanced([[sdo EXCEPT !.toggle = toggle]
                          EXCEPT !.data = data, !.handled = handled], heap)
  BY NoBuffer DEF SdoGood, Passed, Balanced, HeapBalanced

\* The length of an object that is there is a number.
LEMMA AddressedLength ==
  ASSUME Parties, NEW cmd \in {"initiateUpload", "initiateDownload"},
         Initiates(cmd)
  PROVE  Length(Request.index, Request.sub, Request.ca) \in Nat
<1>1. Request \in RequestType /\ Request.cmd = cmd
  BY HeadTailProperties DEF Parties, Initiates, Received, Request
<1>2. /\ Request.index \in Indexes \cup {"none"}
      /\ Request.sub \in 0 .. 255 /\ Request.ca \in BOOLEAN
  <2>1. /\ Request.index \in Used \cup {"none"}
        /\ Request.sub \in 0 .. 255 /\ Request.ca \in BOOLEAN
    BY <1>1 DEF RequestType
  <2> QED
    BY <2>1, UsedAssumption
<1>3. Request.index \in Indexes /\ Request.sub <= Object[Request.index].max
  BY <1>2 DEF Initiates, Addresses
<1> QED
  BY <1>2, <1>3, LengthAssumption

\* What an upload in segments reads has a first byte.
LEMMA ReadingBuffer ==
  ASSUME NEW r, Length(r.index, r.sub, r.ca) \in Nat,
         Length(r.index, r.sub, r.ca) > UploadRoom,
         NEW read \in Readings(r)
  PROVE  1 \in DOMAIN read.bytes
<1> DEFINE data == Read(r.index, objects[r.index], r.sub, r.ca, al)
<1>1. 1 \in DOMAIN data
  BY RoomType DEF Read
<1>2. \E cuts : read.bytes = Copied(r.index, data, cuts)
  BY DEF Readings, ReadingsWith
<1> HIDE DEF data
<1> QED
  BY <1>1, <1>2 DEF Copied

\* A request for a transfer that begins.
LEMMA InitiateStep ==
  ASSUME IInv,
         \/ RefuseInitiate \/ UploadAtOnce \/ UploadInSegments
         \/ DownloadAtOnce \/ DownloadInSegments
  PROVE  Parties' /\ Balanced(sdo, heap)'
<1> DEFINE r == Request
           length == Length(r.index, r.sub, r.ca)
<1> USE DEF IInv
<1>1. CASE RefuseInitiate
  <2>1. Parties'
    BY <1>1, AnswerStep DEF RefuseInitiate, Received, Abort, Answer
  <2>2. sdo' = sdo /\ heap' = heap
    BY <1>1 DEF RefuseInitiate
  <2> QED
    BY <2>1, <2>2 DEF Balanced, HeapBalanced, SdoGood
<1>2. CASE UploadAtOnce
  <2>1. Parties'
    <3>1. requests # <<>> /\ requests' = Tail(requests)
      BY <1>2 DEF UploadAtOnce, Initiates, Received, Abort, Answer
    <3>2. master' = master \/ \E values, n : master' = Seeing(values, n)
      BY <1>2 DEF UploadAtOnce, Interrupted
    <3> QED
      BY <3>1, <3>2, AnswerStep
  <2>2. sdo' = Passed(r) /\ heap' = heap
    BY <1>2 DEF UploadAtOnce
  <2> QED
    BY <2>1, <2>2, KeptBalanced DEF Balanced, SdoGood
<1>3. CASE UploadInSegments
  <2>1. length \in Nat /\ length > UploadRoom
    BY <1>3, AddressedLength DEF UploadInSegments
  <2>2. 1 \in DOMAIN Fresh(length)
    <3> HIDE DEF length
    <3> QED
      BY <2>1, RoomType, FreshBuffer
  <2>3. CASE AllocationFails(r, length)
    <3>1. /\ sdo' = Opened(r, length) /\ heap' = heap - Held
          /\ master' = Fault /\ requests' = Tail(requests)
      BY <2>3 DEF AllocationFails, Abort, Answer
    <3>2. requests # <<>>
      BY <1>3 DEF UploadInSegments, Initiates, Received
    <3>3. Balanced(Opened(r, length), heap - Held)
      BY OpenedBalanced
    <3> QED
      BY <3>1, <3>2, <3>3, AnswerStep DEF Balanced, SdoGood
  <2>4. CASE ~AllocationFails(r, length)
    <3>1. heap' = heap - Held + 1
      BY <1>3, <2>4 DEF UploadInSegments
    <3>2. Parties'
      <4>1. requests # <<>> /\ requests' = Tail(requests)
        BY <1>3, <2>4
        DEF UploadInSegments, Initiates, Received, Abort, Answer
      <4>2. master' = master \/ \E values, n : master' = Seeing(values, n)
        BY <1>3, <2>4 DEF UploadInSegments, Interrupted
      <4> QED
        BY <4>1, <4>2, AnswerStep
    <3>3. DOMAIN sdo' = DOMAIN sdo /\ 1 \in DOMAIN sdo'.data
      <4> DEFINE opened == [Opened(r, length) EXCEPT
                              !.handled = UploadRoom, !.data = Fresh(length)]
      <4>1. DOMAIN opened = DOMAIN sdo /\ 1 \in DOMAIN opened.data
        BY <2>2, OpenedDomain DEF SdoGood
      <4>2. ASSUME NEW read \in Readings(r),
                   sdo' = [opened EXCEPT !.data = read.bytes,
                                         !.service = "uploadSegment"]
            PROVE  DOMAIN sdo' = DOMAIN sdo /\ 1 \in DOMAIN sdo'.data
        <5>1. 1 \in DOMAIN read.bytes
          BY <2>1, ReadingBuffer
        <5> HIDE DEF opened
        <5> QED
          BY <4>1, <4>2, <5>1 DEF SdoGood
      <4>3. \/ sdo' = opened
            \/ \E read \in Readings(r) :
                 sdo' = [opened EXCEPT !.data = read.bytes,
                                       !.service = "uploadSegment"]
        BY <1>3, <2>4 DEF UploadInSegments
      <4> HIDE DEF opened
      <4> QED
        BY <4>1, <4>2, <4>3
    <3>4. Balanced(sdo', heap - Held + 1)
      BY <3>3, OpenedBalanced
    <3> QED
      BY <3>1, <3>2, <3>4 DEF Balanced, SdoGood
  <2> QED
    BY <2>3, <2>4
<1>4. CASE DownloadAtOnce
  <2>1. /\ requests # <<>> /\ requests' = Tail(requests)
        /\ master' = master
    BY <1>4 DEF DownloadAtOnce, Initiates, Received, WriteObject, Abort,
               Answer
  <2>2. sdo' = Passed(r) /\ heap' = heap
    BY <1>4 DEF DownloadAtOnce
  <2> QED
    BY <2>1, <2>2, AnswerStep, KeptBalanced DEF Balanced, SdoGood
<1>5. CASE DownloadInSegments
  <2>1. r.size \in Nat /\ r.size > 0
    <3>1. r \in RequestType /\ r.cmd = "initiateDownload"
      BY <1>5, HeadTailProperties
      DEF DownloadInSegments, Initiates, Received, Parties, Request
    <3>2. r.size \in Nat /\ r.data \in Seq(Tags)
      BY <3>1 DEF RequestType
    <3> QED
      BY <1>5, <3>2, LenProperties DEF DownloadInSegments
  <2> DEFINE data == Placed(Fresh(r.size), 0, r.data)
  <2>2. 1 \in DOMAIN data
    BY <2>1, FreshBuffer, PlacedBuffer
  <2>3. /\ requests # <<>> /\ requests' = Tail(requests)
        /\ master' \in {master, Fault}
    BY <1>5 DEF DownloadInSegments, Initiates, Received, AllocationFails,
               Abort, Answer
  <2>4. \/ sdo' = Opened(r, r.size) /\ heap' = heap - Held
        \/ /\ sdo' = [Opened(r, r.size) EXCEPT
                        !.service = Idle, !.handled = Len(r.data),
                        !.data = data]
           /\ heap' = heap - Held + 1
    BY <1>5 DEF DownloadInSegments, AllocationFails
  <2> HIDE DEF data
  <2>5. CASE sdo' = Opened(r, r.size) /\ heap' = heap - Held
    BY <2>3, <2>5, AnswerStep, OpenedBalanced DEF Balanced, SdoGood
  <2>6. CASE /\ sdo' = [Opened(r, r.size) EXCEPT
                          !.service = Idle, !.handled = Len(r.data),
                          !.data = data]
             /\ heap' = heap - Held + 1
    <3>1. DOMAIN sdo' = DOMAIN sdo /\ sdo'.data = data
      BY <2>6, OpenedDomain DEF SdoGood
    <3>2. Balanced(sdo', heap')
      BY <2>2, <2>6, <3>1, OpenedBalanced
    <3> QED
      BY <2>3, <3>2, AnswerStep DEF Balanced, SdoGood
  <2> QED
    BY <2>4, <2>5, <2>6
<1> QED
  BY <1>1, <1>2, <1>3, <1>4, <1>5

\* A segment, or a request that is refused.
LEMMA SegmentStep ==
  ASSUME IInv, DownloadSegment \/ UploadSegment \/ RefuseCommand
  PROVE  Parties' /\ Balanced(sdo, heap)'
<1> DEFINE r == Request
           turned == [sdo EXCEPT !.toggle = r.toggle]
<1> USE DEF IInv
<1>1. Parties'
  <2>1. requests # <<>> /\ requests' = Tail(requests) /\ master' = master
    BY DEF DownloadSegment, UploadSegment, RefuseCommand, Continues,
           Received, WriteObject, Abort, Answer
  <2> QED
    BY <2>1, AnswerStep
<1>2. CASE DownloadSegment
  <2> DEFINE data == Placed(sdo.data, sdo.handled, r.data)
  <2>1. \/ sdo' = Ended(turned) /\ heap' = heap - Held
        \/ /\ sdo.data # Null
           /\ sdo' = [turned EXCEPT !.data = data,
                                    !.handled = @ + DownloadSegRoom]
           /\ heap' = heap
    BY <1>2 DEF DownloadSegment
  <2>2. sdo.data # Null => 1 \in DOMAIN data
    BY PlacedBuffer DEF SdoGood
  <2> HIDE DEF data
  <2> QED
    BY <1>1, <2>1, <2>2, EndedBalanced, KeptBalanced DEF Balanced, SdoGood
<1>3. CASE UploadSegment
  <2>1. \/ sdo' = Ended(turned) /\ heap' = heap - Held
        \/ sdo' = sdo /\ heap' = heap
        \/ /\ \E handled : sdo' = [turned EXCEPT !.handled = handled]
           /\ heap' = heap
    BY <1>3 DEF UploadSegment
  <2> QED
    BY <1>1, <2>1, EndedBalanced, KeptBalanced
    DEF Balanced, SdoGood, HeapBalanced
<1>4. CASE RefuseCommand
  BY <1>1, <1>4 DEF RefuseCommand, Balanced, SdoGood, HeapBalanced
<1> QED
  BY <1>2, <1>3, <1>4

\* SDO information, the application, and the master.
LEMMA OtherStep ==
  ASSUME IInv, SdoInfoInd \/ Tick \/ Master
  PROVE  Parties' /\ Balanced(sdo, heap)'
<1> USE DEF IInv
<1>1. CASE SdoInfoInd
  <2>1. sdo' = sdo /\ heap' = heap /\ master' = master
    BY <1>1 DEF SdoInfoInd, SendList, ContinueInd, Describe, Inform
  <2>2. \/ requests' = requests
        \/ requests # <<>> /\ requests' = Tail(requests)
    BY <1>1 DEF SdoInfoInd, SendList, ContinueInd, Describe, Inform, Answer,
               Received
  <2>3. Parties'
    BY <2>1, <2>2, AnswerStep DEF Parties
  <2> QED
    BY <2>1, <2>3 DEF Balanced, SdoGood, HeapBalanced
<1>2. CASE Tick
  BY <1>2, MasterChanges
  DEF Tick, Parties, Balanced, SdoGood, HeapBalanced
<1>3. CASE Master
  <2>1. CASE StopMailbox
    BY <1>3, <2>1, MasterStep, EndedBalanced
    DEF StopMailbox, Balanced, SdoGood
  <2>2. CASE ~StopMailbox
    <3>1. sdo' = sdo /\ heap' = heap
      BY <1>3, <2>2
      DEF Master, Start, TakeAnswer, GiveUp, AskAgain, ChangeState
    <3> QED
      BY <1>3, <3>1, MasterStep DEF Balanced, SdoGood, HeapBalanced
  <2> QED
    BY <2>1, <2>2
<1> QED
  BY <1>1, <1>2, <1>3

LEMMA InitIInv == Init => IInv
<1> SUFFICES ASSUME Init PROVE IInv
  OBVIOUS
<1>1. requests = <<>> /\ requests \in Seq(RequestType)
  BY DEF Init
<1>2. NoJob \in JobType /\ NoJob.index = "none"
  BY DEF NoJob, JobType, Operations
<1>3. MasterGood(master)
  BY <1>2, EmptySeq DEF Init, MasterGood
<1>4. SdoGood(sdo) /\ HeapBalanced
  BY DEF Init, NoTransfer, SdoGood, HeapBalanced
<1> QED
  BY <1>1, <1>3, <1>4 DEF IInv, Parties

LEMMA BuffersStep == IInv /\ [Next]_vars => IInv'
<1> SUFFICES ASSUME IInv, [Next]_vars PROVE IInv'
  OBVIOUS
<1>1. CASE Next
  <2>1. Parties' /\ Balanced(sdo, heap)'
    BY <1>1, InitiateStep, SegmentStep, OtherStep DEF Next, SdoInd
  <2> QED
    BY <2>1 DEF IInv, Balanced, HeapBalanced
<1>2. CASE UNCHANGED vars
  BY <1>2 DEF vars, IInv, Parties, SdoGood, HeapBalanced
<1> QED
  BY <1>1, <1>2

\* There is a buffer on the heap exactly while the transfer has it, after
\* any sequence of requests, failed allocations and stops of the mailbox, for
\* every size of the mailboxes and every job (sdoserv.c:318, 366, 457,
\* 779-784, 1034).
THEOREM BuffersBalance == Spec => []HeapBalanced
<1>1. IInv /\ [Next]_vars => IInv'
  BY BuffersStep
<1>2. IInv => HeapBalanced
  BY DEF IInv
<1> QED
  BY InitIInv, <1>1, <1>2, PTL DEF Spec

(***************************************************************************)
(* Types.                                                                  *)
(***************************************************************************)
Value(x) == [0 .. Object[x].max -> Nat]

ObjectsTyped(o) == DOMAIN o = Used /\ \A x \in Used : o[x] \in Value(x)

AnswerType ==
  [kind : {"abort", "unknown", "download", "downloadSegment"}]
  \cup [kind : {"upload"}, size : Nat, data : Seq(Tags)]
  \cup [kind : {"uploadSegment"}, last : BOOLEAN, data : Seq(Tags)]
  \cup [kind : {"list"}, left : Nat, objects : Seq(Nat)]
  \cup [kind : {"description"}, name : Nat]

MasterRecord == [
  phase     : {"idle", "initiated", "segments"},
  job       : JobType,
  result    : {"none", "ok", "failed"},
  toggle    : {0, 16},
  size      : Nat,
  got       : Seq(Tags),
  listed    : Seq(Nat),
  rest      : Rests,
  data      : Seq(Tags),
  from      : Nat,
  to        : Nat,
  seen      : SUBSET UNION {Value(x) \X Nat : x \in Used},
  fault     : BOOLEAN,
  transfers : 0 .. MaxTransfers,
  faults    : 0 .. MaxFaults]

\* The object of a transfer that has a buffer is one there is.
Aims(s) == s.index \in Used \cup {"none"} /\ (s.data # Null => s.index \in Used)

\* A list that goes on is one of those there are.
Following(f) == f.follow => f.list \in 1 .. 5

TypeInv ==
  /\ ObjectsTyped(objects) /\ al \in AlStates
  /\ sdo \in SdoType /\ Aims(sdo) /\ info \in InfoType /\ Following(info)
  /\ heap \in Nat /\ ticks \in 0 .. MaxTicks
  /\ answers \in Seq(AnswerType) /\ master \in MasterRecord
  /\ IInv

LEMMA TypeShows == TypeInv => TypeOK
<1> SUFFICES ASSUME TypeInv PROVE TypeOK
  OBVIOUS
<1>1. [f \in DOMAIN master \ {"seen"} |-> master[f]] \in MasterType
  BY DEF TypeInv, MasterRecord, MasterType
<1>2. \A seen \in master.seen : \E x \in Used :
        seen \in [0 .. Object[x].max -> Nat] \X Nat
  BY DEF TypeInv, MasterRecord, Value
<1> QED
  BY <1>1, <1>2 DEF TypeInv, TypeOK, ObjectsTyped, Value

LEMMA UsedObject ==
  ASSUME NEW x \in Used
  PROVE  /\ x \in Indexes /\ Object[x].max \in 0 .. 255
         /\ 0 .. Object[x].max \subseteq 0 .. 255
<1>1. x \in Indexes
  BY UsedAssumption
<1> DEFINE max == Object[x].max
<1>2. max \in 0 .. 255
  BY <1>1, LengthAssumption
<1> HIDE DEF max
<1>3. 0 .. max \subseteq 0 .. 255
  BY <1>2
<1> QED
  BY <1>1, <1>2, <1>3 DEF max

\* Objects that count on, and those that are written.
LEMMA TickedTyped ==
  ASSUME ObjectsTyped(objects), NEW n \in Nat
  PROVE  ObjectsTyped(Ticked(n))
<1>1. ASSUME NEW x \in Used
      PROVE  Ticked(n)[x] \in Value(x)
  <2>1. objects[x] \in Value(x)
    BY DEF ObjectsTyped
  <2>2. Ticked(n)[x] = [i \in DOMAIN objects[x] |->
                          objects[x][i] + IF i \in Live(x) THEN n ELSE 0]
    BY DEF Ticked, Later
  <2> DEFINE more(i) == IF i \in Live(x) THEN n ELSE 0
             keys == 0 .. Object[x].max
  <2>3. \A i \in keys : objects[x][i] \in Nat /\ more(i) \in {0, n}
    BY <2>1 DEF Value
  <2> HIDE DEF more
  <2>4. \A i \in keys : objects[x][i] + more(i) \in Nat
    BY <2>3
  <2>5. Ticked(n)[x] = [i \in keys |-> objects[x][i] + more(i)]
    BY <2>1, <2>2 DEF Value, more
  <2> QED
    BY <2>4, <2>5 DEF Value
<1> QED
  BY <1>1 DEF ObjectsTyped, Ticked

LEMMA FoundNat ==
  ASSUME NEW data \in Seq(Tags), NEW place, NEW i
  PROVE  FoundAt(place, data, i) \in Nat
<1>1. CASE /\ place \subseteq DOMAIN data
           /\ \E v \in {data[k] : k \in place} :
                v # Cleared /\ v[1] = i /\ \A k \in place : data[k] = v
  <2>1. PICK v \in {data[k] : k \in place} :
          v # Cleared /\ v[1] = i /\ \A k \in place : data[k] = v
    BY <1>1
  <2>2. v \in Tags
    BY <1>1, <2>1, ElementOfSeq
  <2>3. v[2] \in Nat
    BY <2>1, <2>2 DEF Tags
  <2>4. data[CHOOSE k \in place : TRUE] = v
    BY <2>1
  <2>5. FoundAt(place, data, i) = data[CHOOSE k \in place : TRUE][2]
    BY <1>1 DEF FoundAt
  <2> QED
    BY <2>3, <2>4, <2>5
<1> QED
  BY <1>1 DEF FoundAt, Mixed

LEMMA StoredTyped ==
  ASSUME ObjectsTyped(objects), NEW x, NEW new, NEW reset,
         \A i \in DOMAIN new : new[i] \in Nat
  PROVE  ObjectsTyped(Stored(objects, x, new, reset))
<1> DEFINE result == Stored(objects, x, new, reset)
<1>1. ASSUME NEW y \in Used
      PROVE  result[y] \in Value(y)
  <2>1. objects[y] \in Value(y) /\ y \in DOMAIN objects
    BY DEF ObjectsTyped
  <2>2. result[y] = [i \in DOMAIN objects[y] |->
                       CASE y = x /\ i \in DOMAIN new     -> new[i]
                         [] y \in SyncPars /\ i \in reset -> 0
                         [] OTHER                         -> objects[y][i]]
    BY <2>1 DEF Stored
  <2> QED
    BY <2>1, <2>2 DEF Value
<1>2. DOMAIN result = Used
  BY DEF ObjectsTyped, Stored
<1> QED
  BY <1>1, <1>2 DEF ObjectsTyped

LEMMA WriteTyped ==
  ASSUME ObjectsTyped(objects), NEW x, NEW sub, NEW ca, NEW data \in Seq(Tags)
  PROVE  ObjectsTyped(Write(objects, x, sub, ca, al, data))
<1> DEFINE written == Written(x, sub, ca, al, data)
           new == [i \in written |-> Found(x, sub, ca, data, i)]
<1>1. \A i \in DOMAIN new : new[i] \in Nat
  BY FoundNat DEF Found
<1> HIDE DEF new
<1>2. ObjectsTyped(Stored(objects, x, new, Reset(x, sub, ca, data, written)))
  BY <1>1, StoredTyped
<1> QED
  BY <1>2 DEF Write, new

\* What is read, and what is sent of it.
LEMMA ReadTyped ==
  ASSUME NEW x \in Used, NEW value \in Value(x), NEW sub \in 0 .. Object[x].max,
         NEW ca \in BOOLEAN
  PROVE  /\ Length(x, sub, ca) \in Nat
         /\ Read(x, value, sub, ca, al) \in Seq(Tags)
         /\ Len(Read(x, value, sub, ca, al)) = Length(x, sub, ca)
<1> DEFINE n == Length(x, sub, ca)
           read == Read(x, value, sub, ca, al)
<1>1. n \in Nat
  BY UsedObject, LengthAssumption
<1>2. \A i \in Accessed(x, sub, ca) : i \in 0 .. Object[x].max
  BY UsedObject DEF Accessed
<1>3. Cleared \in Tags
  BY DEF Tags
<1>4. \A i : Byte(x, value, sub, ca, al, i) \in Tags
  <2> TAKE i
  <2>1. CASE i \in Accessed(x, sub, ca)
    <3>1. i \in 0 .. 255 /\ value[i] \in Nat
      BY <1>2, <2>1, UsedObject DEF Value
    <3> QED
      BY <1>3, <3>1 DEF Byte, Tags
  <2>2. CASE i \notin Accessed(x, sub, ca)
    BY <1>3, <2>2 DEF Byte
  <2> QED
    BY <2>1, <2>2
<1>5. read = [k \in 1 .. n |-> Byte(x, value, sub, ca, al, EntryAt(x, sub, ca, k))]
  BY DEF Read
<1>6. read \in [1 .. n -> Tags]
  BY <1>4, <1>5
<1> HIDE DEF n, read
<1>7. read \in Seq(Tags) /\ Len(read) = n
  BY <1>1, <1>6, IsASeq
<1> QED
  BY <1>1, <1>7 DEF n, read

LEMMA FunctionSeq ==
  ASSUME NEW n \in Nat, NEW S, NEW f \in [1 .. n -> S]
  PROVE  f \in Seq(S) /\ Len(f) = n /\ DOMAIN f = 1 .. n
BY IsASeq

LEMMA PieceTyped ==
  ASSUME NEW data \in Seq(Tags), NEW from, NEW n \in Int
  PROVE  Piece(data, from, n) \in Seq(Tags)
<1>1. Cleared \in Tags
  BY DEF Tags
<1>2. Piece(data, from, n) \in [1 .. n -> Tags]
  BY <1>1, ElementOfSeq DEF Piece
<1>3. CASE n \in Nat
  BY <1>2, <1>3, FunctionSeq
<1>4. CASE n < 0
  <2>1. 1 .. n = 1 .. 0
    BY <1>4
  <2> QED
    BY <1>2, <2>1, FunctionSeq
<1> QED
  BY <1>3, <1>4

LEMMA PlacedTyped ==
  ASSUME NEW data \in Seq(Tags), NEW from, NEW piece \in Seq(Tags)
  PROVE  /\ Placed(data, from, piece) \in Seq(Tags)
         /\ Len(Placed(data, from, piece)) = Len(data)
<1>1. DOMAIN data = 1 .. Len(data) /\ Len(data) \in Nat
  BY LenProperties
<1>2. Placed(data, from, piece) \in [1 .. Len(data) -> Tags]
  BY <1>1, ElementOfSeq, LenProperties DEF Placed
<1> QED
  BY <1>1, <1>2, FunctionSeq

LEMMA FreshTyped ==
  ASSUME NEW n \in Nat
  PROVE  Fresh(n) \in Seq(Tags) /\ Len(Fresh(n)) = n
<1>1. Fresh(n) \in [1 .. n -> Tags]
  BY DEF Fresh, Tags
<1> QED
  BY <1>1, FunctionSeq

LEMMA InterruptsNat ==
  ASSUME NEW n \in Nat, NEW cuts, DOMAIN cuts = 1 .. n, NEW k
  PROVE  Interrupts(cuts, k) \in Nat
<1> DEFINE before == {j \in DOMAIN cuts : 2 * cuts[j] < k}
<1>1. IsFiniteSet(1 .. n)
  BY FS_Interval
<1>2. IsFiniteSet(before)
  BY <1>1, FS_Subset
<1> HIDE DEF before
<1>3. Cardinality(before) \in Nat
  BY <1>2, FS_CardinalityType
<1> QED
  BY <1>3 DEF Interrupts, before

\* A copy that is interrupted is as long, of bytes of the same entries.
LEMMA CopiedTyped ==
  ASSUME NEW data \in Seq(Tags), NEW x, NEW n \in Nat, NEW cuts,
         DOMAIN cuts = 1 .. n
  PROVE  /\ Copied(x, data, cuts) \in Seq(Tags)
         /\ Len(Copied(x, data, cuts)) = Len(data)
<1> DEFINE length == Len(data)
           later(k) == Interrupts(cuts, k)
           copy == Copied(x, data, cuts)
<1>1. length \in Nat /\ DOMAIN data = 1 .. length
  BY LenProperties
<1>2. \A k \in 1 .. length : data[k] \in Tags /\ later(k) \in Nat
  BY <1>1, ElementOfSeq, InterruptsNat
<1>3. copy = [k \in DOMAIN data |->
                IF data[k] # Cleared /\ data[k][1] \in Live(x)
                THEN <<data[k][1], data[k][2] + later(k)>> ELSE data[k]]
  BY DEF Copied
<1> HIDE DEF length, later, copy
<1>4. ASSUME NEW k \in 1 .. length, data[k] # Cleared
      PROVE  <<data[k][1], data[k][2] + later(k)>> \in Tags
  <2>1. data[k] \in (0 .. 255) \X Nat
    BY <1>2, <1>4 DEF Tags
  <2> DEFINE i == data[k][1]
             v == data[k][2]
  <2>2. i \in 0 .. 255 /\ v \in Nat
    BY <2>1
  <2> HIDE DEF i, v
  <2>3. v + later(k) \in Nat
    BY <1>2, <2>2
  <2> QED
    BY <2>2, <2>3 DEF Tags, i, v
<1>5. copy \in [1 .. length -> Tags]
  BY <1>1, <1>2, <1>3, <1>4
<1>6. copy \in Seq(Tags) /\ Len(copy) = length
  BY <1>1, <1>5, FunctionSeq
<1> QED
  BY <1>6 DEF copy, length

LEMMA ReadingsTyped ==
  ASSUME ObjectsTyped(objects), ticks \in 0 .. MaxTicks, NEW r,
         r.index \in Used, r.sub \in 0 .. Object[r.index].max, r.ca \in BOOLEAN,
         NEW read \in Readings(r)
  PROVE  /\ read.bytes \in Seq(Tags)
         /\ Len(read.bytes) = Length(r.index, r.sub, r.ca)
         /\ read.n \in Nat /\ ticks + read.n \in 0 .. MaxTicks
         /\ ObjectsTyped(Ticked(read.n))
         /\ \E cuts \in Cuts(read.n, Length(r.index, r.sub, r.ca)) :
              read.bytes =
                Copied(r.index, Read(r.index, objects[r.index], r.sub, r.ca, al),
                       cuts)
<1> DEFINE length == Length(r.index, r.sub, r.ca)
           data == Read(r.index, objects[r.index], r.sub, r.ca, al)
<1>1. objects[r.index] \in Value(r.index)
  BY DEF ObjectsTyped
<1>2. data \in Seq(Tags) /\ Len(data) = length
  BY <1>1, ReadTyped
<1>3. PICK n \in 0 .. MaxTicks - ticks : read \in ReadingsWith(r, n)
  BY DEF Readings
<1>4. PICK cuts \in Cuts(n, length) :
        read = [bytes |-> Copied(r.index, data, cuts), n |-> n]
  BY <1>3 DEF ReadingsWith
<1>5. read.bytes = Copied(r.index, data, cuts) /\ read.n = n
  BY <1>4
<1>6. n \in Nat /\ ticks + n \in 0 .. MaxTicks
  BY BoundAssumption
<1>7. DOMAIN cuts = 1 .. n
  BY <1>4 DEF Cuts
<1> HIDE DEF length, data
<1>8. read.bytes \in Seq(Tags) /\ Len(read.bytes) = length
  BY <1>2, <1>5, <1>6, <1>7, CopiedTyped
<1>9. ObjectsTyped(Ticked(n))
  BY <1>6, TickedTyped
<1> QED
  BY <1>4, <1>5, <1>6, <1>8, <1>9 DEF length, data

LEMMA ReadingsCount ==
  ASSUME ticks \in 0 .. MaxTicks, NEW r, NEW read \in Readings(r)
  PROVE  read.n \in Nat
<1>1. PICK n \in 0 .. MaxTicks - ticks : read \in ReadingsWith(r, n)
  BY DEF Readings
<1>2. read.n = n /\ n \in Nat
  BY <1>1, BoundAssumption DEF ReadingsWith
<1> QED
  BY <1>2

LEMMA SeeingTyped ==
  ASSUME master \in MasterRecord, MasterGood(master), NEW values,
         ObjectsTyped(objects), ObjectsTyped(values), NEW n \in Nat
  PROVE  Seeing(values, n) \in MasterRecord
<1>1. CASE master.phase = "idle" \/ master.job.index = "none"
  BY <1>1 DEF Seeing
<1>2. CASE ~(master.phase = "idle" \/ master.job.index = "none")
  <2> DEFINE x == master.job.index
             seen == master.seen \cup {<<objects[x], n>>, <<values[x], 0>>}
  <2>1. x \in Used
    BY <1>2 DEF MasterGood
  <2>2. objects[x] \in Value(x) /\ values[x] \in Value(x)
    BY <2>1 DEF ObjectsTyped
  <2>3. seen \in SUBSET UNION {Value(y) \X Nat : y \in Used}
    <3>1. master.seen \in SUBSET UNION {Value(y) \X Nat : y \in Used}
      BY DEF MasterRecord
    <3>2. {<<objects[x], n>>, <<values[x], 0>>} \subseteq Value(x) \X Nat
      BY <2>2
    <3> QED
      BY <2>1, <3>1, <3>2
  <2>4. Seeing(values, n) = [master EXCEPT !.seen = seen]
    BY <1>2 DEF Seeing
  <2> HIDE DEF seen
  <2>5. [master EXCEPT !.seen = seen] \in MasterRecord
    BY <2>3 DEF MasterRecord
  <2> QED
    BY <2>4, <2>5
<1> QED
  BY <1>1, <1>2

LEMMA FaultTyped ==
  ASSUME master \in MasterRecord, master.faults < MaxFaults
  PROVE  /\ Fault \in MasterRecord
         /\ \A result \in {"none", "ok", "failed"} :
              [Fault EXCEPT !.phase = "idle", !.result = result] \in MasterRecord
<1> DEFINE faults == master.faults + 1
<1>1. faults \in 0 .. MaxFaults
  BY BoundAssumption DEF MasterRecord
<1> HIDE DEF faults
<1>2. [master EXCEPT !.faults = faults, !.fault = TRUE] \in MasterRecord
  BY <1>1 DEF MasterRecord
<1>3. Fault \in MasterRecord
  BY <1>2 DEF Fault, faults
<1> HIDE DEF Fault
<1>4. ASSUME NEW result \in {"none", "ok", "failed"}
      PROVE  [Fault EXCEPT !.phase = "idle", !.result = result] \in MasterRecord
  BY <1>3 DEF MasterRecord
<1> QED
  BY <1>3, <1>4

\* The types, those aside that IInv has.
Typed == 
  /\ ObjectsTyped(objects) /\ al \in AlStates
  /\ sdo \in SdoType /\ Aims(sdo) /\ info \in InfoType /\ Following(info)
  /\ ticks \in 0 .. MaxTicks
  /\ answers \in Seq(AnswerType) /\ master \in MasterRecord

LEMMA AnswerTyped ==
  ASSUME TypeInv, NEW answer, answer \in AnswerType, Answer(answer)
  PROVE  answers' \in Seq(AnswerType)
BY AppendProperties DEF TypeInv, Answer

LEMMA AbortTyped ==
  ASSUME TypeInv, NEW cmd, Abort(cmd)
  PROVE  answers' \in Seq(AnswerType)
<1>1. ASSUME NEW kind \in {"unknown", "abort"}
      PROVE  [kind |-> kind] \in AnswerType
  BY DEF AnswerType
<1> QED
  BY <1>1, AnswerTyped DEF Abort

\* A request for a transfer that begins, of an object there is.
LEMMA InitiateRequest ==
  ASSUME Parties, NEW cmd \in {"initiateUpload", "initiateDownload"},
         Initiates(cmd)
  PROVE  /\ Request \in RequestType /\ Request.cmd = cmd /\ requests # <<>>
         /\ Request.index \in Used /\ Request.ca \in BOOLEAN
         /\ Request.sub \in 0 .. Object[Request.index].max
         /\ Request.sub \in 0 .. 255
         /\ cmd = "initiateDownload" =>
              Request.size \in Nat /\ Request.data \in Seq(Tags)
<1>1. Request \in RequestType /\ Request.cmd = cmd /\ requests # <<>>
  BY HeadTailProperties DEF Parties, Initiates, Received, Request
<1>2. /\ Request.index \in Used \cup {"none"}
      /\ Request.sub \in 0 .. 255 /\ Request.ca \in BOOLEAN
      /\ cmd = "initiateDownload" =>
           Request.size \in Nat /\ Request.data \in Seq(Tags)
  BY <1>1 DEF RequestType
<1>3. Request.index \in Used /\ Request.sub <= Object[Request.index].max
  BY <1>2 DEF Initiates, Addresses
<1>4. Request.sub \in 0 .. Object[Request.index].max
  <2> DEFINE max == Object[Request.index].max
             sub == Request.sub
  <2>1. max \in 0 .. 255 /\ sub \in 0 .. 255 /\ sub <= max
    BY <1>2, <1>3, UsedObject
  <2> HIDE DEF max, sub
  <2>2. sub \in 0 .. max
    BY <2>1
  <2> QED
    BY <2>2 DEF max, sub
<1> QED
  BY <1>1, <1>2, <1>3, <1>4

LEMMA PassedTyped ==
  ASSUME sdo \in SdoType, Aims(sdo), NEW r, r.index \in Used, r.sub \in 0 .. 255
  PROVE  Passed(r) \in SdoType /\ Aims(Passed(r))
BY UsedAssumption DEF Passed, SdoType, Aims

LEMMA OpenedTyped ==
  ASSUME sdo \in SdoType, NEW r, r.index \in Used, r.sub \in 0 .. 255,
         r.ca \in BOOLEAN, NEW complete \in Nat
  PROVE  /\ Opened(r, complete) \in SdoType /\ Aims(Opened(r, complete))
         /\ \A n \in Nat : \A data \in Seq(Tags) :
              \A service \in {Idle, "uploadSegment"} :
                LET s == [Opened(r, complete) EXCEPT
                            !.service = service, !.handled = n, !.data = data]
                IN  s \in SdoType /\ Aims(s)
<1>1. r.index \in Indexes
  BY UsedAssumption
<1>2. Null \in Seq(Tags)
  BY EmptySeq DEF Null
<1>3. Opened(r, complete) \in SdoType
  BY <1>1, <1>2 DEF Opened, SdoType
<1>4. Opened(r, complete).index = r.index
  BY DEF Opened, SdoType
<1> DEFINE opened == Opened(r, complete)
<1>5. opened \in SdoType /\ opened.index \in Used
  BY <1>3, <1>4
<1> HIDE DEF opened
<1>6. ASSUME NEW n \in Nat, NEW data \in Seq(Tags),
             NEW service \in {Idle, "uploadSegment"}
      PROVE  LET s == [opened EXCEPT
                         !.service = service, !.handled = n, !.data = data]
             IN  s \in SdoType /\ Aims(s)
  <2> DEFINE s == [opened EXCEPT
                     !.service = service, !.handled = n, !.data = data]
  <2>1. s \in SdoType
    BY <1>5 DEF SdoType
  <2>2. s.index = opened.index
    BY <1>5 DEF SdoType
  <2> HIDE DEF s
  <2>3. Aims(s)
    BY <1>5, <2>2 DEF Aims
  <2> QED
    BY <2>1, <2>3 DEF s
<1>7. Aims(opened)
  BY <1>5 DEF Aims
<1> QED
  BY <1>3, <1>6, <1>7 DEF opened

LEMMA WriteObjectTyped ==
  ASSUME TypeInv, NEW cmd \in {"initiateDownload", "downloadSegment"}, NEW x,
         NEW sub, NEW ca, NEW data \in Seq(Tags),
         WriteObject(cmd, x, sub, ca, data)
  PROVE  ObjectsTyped(objects') /\ answers' \in Seq(AnswerType)
<1>1. ASSUME NEW kind \in {"download", "downloadSegment"}
      PROVE  [kind |-> kind] \in AnswerType
  BY DEF AnswerType
<1>2. CASE WriteRefused(x, objects[x], sub, ca, al, data)
  BY <1>2, AbortTyped DEF WriteObject, TypeInv
<1>3. CASE ~WriteRefused(x, objects[x], sub, ca, al, data)
  <2>1. objects' = Write(objects, x, sub, ca, al, data)
    BY <1>3 DEF WriteObject
  <2>2. Answer([kind |-> IF cmd = "downloadSegment" THEN cmd ELSE "download"])
    BY <1>3 DEF WriteObject
  <2> QED
    BY <1>1, <2>1, <2>2, WriteTyped, AnswerTyped DEF TypeInv
<1> QED
  BY <1>2, <1>3

\* All but the objects, the answers and the transfer stays.
LEMMA StaysTyped ==
  ASSUME TypeInv, UNCHANGED <<al, info>>, ticks' \in 0 .. MaxTicks,
         ObjectsTyped(objects'), answers' \in Seq(AnswerType),
         sdo' \in SdoType, Aims(sdo'), master' \in MasterRecord
  PROVE  Typed'
BY DEF TypeInv, Typed, ObjectsTyped, Aims, Following

\* Each request for a transfer.
LEMMA RefuseInitiateTyped ==
  ASSUME TypeInv, RefuseInitiate, UNCHANGED info
  PROVE  Typed'
<1>1. answers' \in Seq(AnswerType)
  BY AbortTyped DEF RefuseInitiate
<1> QED
  BY <1>1, StaysTyped DEF RefuseInitiate, TypeInv

LEMMA AllocationTyped ==
  ASSUME TypeInv, NEW r, r.index \in Used, r.sub \in 0 .. 255,
         r.ca \in BOOLEAN, NEW complete \in Nat, AllocationFails(r, complete),
         UNCHANGED info
  PROVE  Typed'
<1>1. answers' \in Seq(AnswerType)
  BY AbortTyped DEF AllocationFails
<1>2. sdo' \in SdoType /\ Aims(sdo')
  BY OpenedTyped DEF AllocationFails, TypeInv
<1>3. master' \in MasterRecord
  BY FaultTyped DEF AllocationFails, TypeInv
<1> QED
  BY <1>1, <1>2, <1>3, StaysTyped DEF AllocationFails, TypeInv

LEMMA UploadAtOnceTyped ==
  ASSUME TypeInv, UploadAtOnce, UNCHANGED info
  PROVE  Typed'
<1> DEFINE r == Request
           length == Length(r.index, r.sub, r.ca)
<1>1. /\ r.index \in Used /\ r.sub \in 0 .. 255 /\ r.ca \in BOOLEAN
      /\ r.sub \in 0 .. Object[r.index].max
  BY InitiateRequest DEF UploadAtOnce, TypeInv, IInv
<1>2. sdo' \in SdoType /\ Aims(sdo')
  BY <1>1, PassedTyped DEF UploadAtOnce, TypeInv
<1>3. CASE ReadRefused(r.index, r.sub, r.ca, al)
  <2>1. answers' \in Seq(AnswerType)
    BY <1>3, AbortTyped DEF UploadAtOnce
  <2> QED
    BY <1>2, <1>3, <2>1, StaysTyped DEF UploadAtOnce, TypeInv
<1>4. CASE ~ReadRefused(r.index, r.sub, r.ca, al)
  <2>1. PICK read \in Readings(r) :
          /\ Answer([kind |-> "upload", size |-> length, data |-> read.bytes])
          /\ objects' = Ticked(read.n) /\ ticks' = ticks + read.n
          /\ master' = Seeing(Ticked(read.n), read.n)
    BY <1>4 DEF UploadAtOnce, Interrupted
  <2>2. /\ read.bytes \in Seq(Tags) /\ ObjectsTyped(Ticked(read.n))
        /\ read.n \in Nat /\ ticks + read.n \in 0 .. MaxTicks
    BY <1>1, ReadingsTyped DEF TypeInv
  <2>3. length \in Nat
    BY AddressedLength DEF UploadAtOnce, TypeInv, IInv
  <2> HIDE DEF length
  <2>4. [kind |-> "upload", size |-> length, data |-> read.bytes]
          \in AnswerType
    BY <2>2, <2>3 DEF AnswerType
  <2>5. answers' \in Seq(AnswerType)
    BY <2>1, <2>4, AnswerTyped
  <2>6. master' \in MasterRecord
    BY <2>1, <2>2, SeeingTyped DEF TypeInv, IInv, Parties
  <2> QED
    BY <1>2, <2>1, <2>2, <2>5, <2>6, StaysTyped DEF UploadAtOnce
<1> QED
  BY <1>3, <1>4

LEMMA UploadInSegmentsTyped ==
  ASSUME TypeInv, UploadInSegments, UNCHANGED info
  PROVE  Typed'
<1> DEFINE r == Request
           length == Length(r.index, r.sub, r.ca)
           open(service, data) ==
             [Opened(r, length) EXCEPT !.service = service,
                                       !.handled = UploadRoom, !.data = data]
<1>1. /\ r.index \in Used /\ r.sub \in 0 .. 255 /\ r.ca \in BOOLEAN
      /\ r.sub \in 0 .. Object[r.index].max
  BY InitiateRequest DEF UploadInSegments, TypeInv, IInv
<1>2. length \in Nat /\ UploadRoom \in Nat
  BY AddressedLength, RoomType DEF UploadInSegments, TypeInv, IInv
<1>3. CASE AllocationFails(r, length)
  BY <1>1, <1>2, <1>3, AllocationTyped
<1>4. \A data \in Seq(Tags) : \A service \in {Idle, "uploadSegment"} :
        open(service, data) \in SdoType /\ Aims(open(service, data))
  <2> HIDE DEF length
  <2> QED
    BY <1>1, <1>2, OpenedTyped DEF TypeInv
<1>5. Opened(r, length).service \in {Idle, "uploadSegment"}
      /\ DOMAIN Opened(r, length) =
           {"service", "toggle", "index", "sub", "ca", "handled", "complete",
            "data"}
  BY DEF Opened, TypeInv, SdoType
<1>6. CASE ~AllocationFails(r, length)
  <2>1. UNCHANGED al
    BY <1>6 DEF UploadInSegments
  <2>2. CASE ReadRefused(r.index, r.sub, r.ca, al)
    <3>1. answers' \in Seq(AnswerType)
      BY <1>6, <2>2, AbortTyped DEF UploadInSegments
    <3>2. sdo' = open(Opened(r, length).service, Fresh(length))
      <4>1. sdo' = [Opened(r, length) EXCEPT !.handled = UploadRoom,
                                             !.data = Fresh(length)]
        BY <1>6, <2>2 DEF UploadInSegments
      <4> HIDE DEF length
      <4> QED
        BY <1>5, <4>1
    <3>3. Fresh(length) \in Seq(Tags)
      BY <1>2, FreshTyped
    <3>4. sdo' \in SdoType /\ Aims(sdo')
      BY <1>4, <1>5, <3>2, <3>3
    <3>5. UNCHANGED <<objects, master, ticks>>
      BY <1>6, <2>2 DEF UploadInSegments
    <3> QED
      BY <2>1, <3>1, <3>4, <3>5, StaysTyped DEF TypeInv
  <2>3. CASE ~ReadRefused(r.index, r.sub, r.ca, al)
    <3>1. PICK read \in Readings(r) :
            /\ sdo' = [[Opened(r, length) EXCEPT !.handled = UploadRoom,
                                                 !.data = Fresh(length)]
                         EXCEPT !.data = read.bytes,
                                !.service = "uploadSegment"]
            /\ Answer([kind |-> "upload", size |-> length,
                       data |-> Piece(read.bytes, 0, UploadRoom)])
            /\ objects' = Ticked(read.n) /\ ticks' = ticks + read.n
            /\ master' = Seeing(Ticked(read.n), read.n)
      BY <1>6, <2>3 DEF UploadInSegments, Interrupted
    <3>2. /\ read.bytes \in Seq(Tags) /\ ObjectsTyped(Ticked(read.n))
          /\ read.n \in Nat /\ ticks + read.n \in 0 .. MaxTicks
      BY <1>1, ReadingsTyped DEF TypeInv
    <3>3. sdo' = open("uploadSegment", read.bytes)
      <4> HIDE DEF length
      <4> QED
        BY <1>5, <3>1
    <3>4. sdo' \in SdoType /\ Aims(sdo')
      BY <1>4, <3>2, <3>3
    <3> DEFINE piece == Piece(read.bytes, 0, UploadRoom)
    <3>5. piece \in Seq(Tags)
      BY <1>2, <3>2, PieceTyped
    <3> HIDE DEF length, piece
    <3>6. [kind |-> "upload", size |-> length, data |-> piece] \in AnswerType
      BY <1>2, <3>5 DEF AnswerType
    <3>7. answers' \in Seq(AnswerType)
      BY <3>1, <3>6, AnswerTyped DEF piece
    <3>8. master' \in MasterRecord
      BY <3>1, <3>2, SeeingTyped DEF TypeInv, IInv, Parties
    <3> QED
      BY <2>1, <3>1, <3>2, <3>4, <3>7, <3>8, StaysTyped
  <2> QED
    BY <2>2, <2>3
<1> QED
  BY <1>3, <1>6

LEMMA DownloadAtOnceTyped ==
  ASSUME TypeInv, DownloadAtOnce, UNCHANGED info
  PROVE  Typed'
<1> DEFINE r == Request
<1>1. /\ r.index \in Used /\ r.sub \in 0 .. 255 /\ r.data \in Seq(Tags)
      /\ r.cmd = "initiateDownload"
  BY InitiateRequest DEF DownloadAtOnce, TypeInv, IInv
<1>2. sdo' \in SdoType /\ Aims(sdo')
  BY <1>1, PassedTyped DEF DownloadAtOnce, TypeInv
<1>3. ObjectsTyped(objects') /\ answers' \in Seq(AnswerType)
  BY <1>1, WriteObjectTyped DEF DownloadAtOnce
<1> QED
  BY <1>2, <1>3, StaysTyped DEF DownloadAtOnce, TypeInv

LEMMA DownloadInSegmentsTyped ==
  ASSUME TypeInv, DownloadInSegments, UNCHANGED info
  PROVE  Typed'
<1> DEFINE r == Request
<1>1. /\ r.index \in Used /\ r.sub \in 0 .. 255 /\ r.ca \in BOOLEAN
      /\ r.size \in Nat /\ r.data \in Seq(Tags)
  BY InitiateRequest DEF DownloadInSegments, TypeInv, IInv
<1>2. CASE AllocationFails(r, r.size)
  BY <1>1, <1>2, AllocationTyped
<1>3. CASE ~AllocationFails(r, r.size)
  <2> DEFINE data == Placed(Fresh(r.size), 0, r.data)
             n == Len(r.data)
  <2>1. data \in Seq(Tags) /\ n \in Nat
    BY <1>1, FreshTyped, PlacedTyped, LenProperties
  <2>2. sdo' = [Opened(r, r.size) EXCEPT !.service = Idle, !.handled = n,
                                         !.data = data]
    BY <1>3 DEF DownloadInSegments
  <2> HIDE DEF data, n
  <2>3. sdo' \in SdoType /\ Aims(sdo')
    BY <1>1, <2>1, <2>2, OpenedTyped DEF TypeInv
  <2>4. [kind |-> "download"] \in AnswerType
    BY DEF AnswerType
  <2>5. answers' \in Seq(AnswerType)
    BY <1>3, <2>4, AnswerTyped DEF DownloadInSegments
  <2>6. UNCHANGED <<objects, al, master, ticks>>
    BY <1>3 DEF DownloadInSegments
  <2> QED
    BY <2>3, <2>5, <2>6, StaysTyped DEF TypeInv
<1> QED
  BY <1>2, <1>3

\* Segments.
LEMMA EndedTyped ==
  ASSUME NEW s \in SdoType, Aims(s)
  PROVE  Ended(s) \in SdoType /\ Aims(Ended(s))
<1>1. Null \in Seq(Tags)
  BY EmptySeq DEF Null
<1> QED
  BY <1>1 DEF Ended, SdoType, Aims

LEMMA SegmentRequest ==
  ASSUME Parties, NEW cmd \in {"uploadSegment", "downloadSegment"},
         Received(cmd)
  PROVE  /\ Request \in RequestType /\ Request.cmd = cmd /\ requests # <<>>
         /\ Request.toggle \in {0, 16}
         /\ cmd = "downloadSegment" =>
              Request.last \in BOOLEAN /\ Request.data \in Seq(Tags)
<1>1. Request \in RequestType /\ Request.cmd = cmd /\ requests # <<>>
  BY HeadTailProperties DEF Parties, Received, Request
<1> QED
  BY <1>1 DEF RequestType

LEMMA DownloadSegmentTyped ==
  ASSUME TypeInv, DownloadSegment, UNCHANGED info
  PROVE  Typed'
<1> DEFINE r == Request
           turned == [sdo EXCEPT !.toggle = r.toggle]
           data == Placed(sdo.data, sdo.handled, r.data)
<1>1. /\ r.toggle \in {0, 16} /\ r.data \in Seq(Tags)
      /\ r.cmd = "downloadSegment"
  BY SegmentRequest DEF DownloadSegment, Continues, TypeInv, IInv
<1>2. turned \in SdoType /\ Aims(turned)
  BY <1>1 DEF TypeInv, SdoType, Aims
<1>3. data \in Seq(Tags)
  BY <1>1, PlacedTyped DEF TypeInv, SdoType
<1> HIDE DEF turned, data
<1>4. CASE sdo' = Ended(turned) /\ Abort(r.cmd) /\ UNCHANGED objects
  <2>1. sdo' \in SdoType /\ Aims(sdo')
    BY <1>2, <1>4, EndedTyped
  <2>2. answers' \in Seq(AnswerType)
    BY <1>4, AbortTyped
  <2> QED
    BY <1>4, <2>1, <2>2, StaysTyped DEF DownloadSegment, TypeInv
<1>5. CASE /\ sdo' = [turned EXCEPT !.data = data,
                                    !.handled = @ + DownloadSegRoom]
           /\ Answer([kind |-> r.cmd]) /\ UNCHANGED objects
           /\ sdo.data # Null
  <2> DEFINE handled == turned.handled + DownloadSegRoom
  <2>1. handled \in Nat
    BY <1>2, RoomType DEF SdoType
  <2> HIDE DEF handled
  <2>2. sdo' = [turned EXCEPT !.data = data, !.handled = handled]
    BY <1>5, <1>2 DEF handled, SdoType
  <2>3. sdo' \in SdoType /\ sdo'.index = turned.index
    BY <1>2, <1>3, <2>1, <2>2 DEF SdoType
  <2>4. turned.index = sdo.index /\ sdo.index \in Used
    BY <1>5 DEF turned, TypeInv, Aims, SdoType
  <2>5. [kind |-> r.cmd] \in AnswerType
    BY <1>1 DEF AnswerType
  <2>6. answers' \in Seq(AnswerType)
    BY <1>5, <2>5, AnswerTyped
  <2>7. Aims(sdo')
    BY <2>3, <2>4 DEF Aims
  <2> QED
    BY <1>5, <2>3, <2>6, <2>7, StaysTyped DEF DownloadSegment, TypeInv
<1>6. CASE /\ WriteObject(r.cmd, sdo.index, sdo.sub, sdo.ca, data)
           /\ sdo' = Ended(turned)
  <2>1. sdo' \in SdoType /\ Aims(sdo')
    BY <1>2, <1>6, EndedTyped
  <2>2. ObjectsTyped(objects') /\ answers' \in Seq(AnswerType)
    BY <1>1, <1>3, <1>6, WriteObjectTyped
  <2> QED
    BY <2>1, <2>2, StaysTyped DEF DownloadSegment, TypeInv
<1> QED
  BY <1>4, <1>5, <1>6 DEF DownloadSegment, turned, data

LEMMA UploadSegmentTyped ==
  ASSUME TypeInv, UploadSegment, UNCHANGED info
  PROVE  Typed'
<1> DEFINE r == Request
           last == sdo.complete < sdo.handled + UploadSegRoom
           size == IF last THEN Remaining ELSE UploadSegRoom
           turned == [sdo EXCEPT !.toggle = r.toggle]
           data == Piece(sdo.data, sdo.handled, size)
<1>1. r.toggle \in {0, 16} /\ r.cmd = "uploadSegment"
  BY SegmentRequest DEF UploadSegment, Continues, TypeInv, IInv
<1>2. turned \in SdoType /\ Aims(turned)
  BY <1>1 DEF TypeInv, SdoType, Aims
<1>3. sdo.complete \in Nat /\ sdo.handled \in Nat /\ UploadSegRoom \in Nat
  <2>1. SendSize \in 36 .. 268
    BY SizeAssumption
  <2>2. UploadSegRoom \in Nat
    BY <2>1 DEF UploadSegRoom
  <2> QED
    BY <2>2 DEF TypeInv, SdoType
<1>4. last \in BOOLEAN /\ size \in Int /\ (~last => size \in Nat)
  BY <1>3 DEF Remaining
<1>5. data \in Seq(Tags)
  <2> HIDE DEF size
  <2> QED
    BY <1>4, PieceTyped DEF TypeInv, SdoType
<1>6. UNCHANGED <<objects, al, master, ticks>>
  BY DEF UploadSegment
<1>7. CASE Abort(r.cmd) /\ UNCHANGED sdo
  BY <1>6, <1>7, AbortTyped, StaysTyped DEF TypeInv
<1>8. CASE /\ Answer([kind |-> r.cmd, last |-> last, data |-> data])
           /\ sdo' = IF last THEN Ended(turned)
                     ELSE [turned EXCEPT !.handled = @ + size]
  <2> HIDE DEF turned, data, size, last
  <2>1. [kind |-> r.cmd, last |-> last, data |-> data] \in AnswerType
    BY <1>1, <1>4, <1>5 DEF AnswerType
  <2>2. answers' \in Seq(AnswerType)
    BY <1>8, <2>1, AnswerTyped
  <2>3. sdo' \in SdoType /\ Aims(sdo')
    <3>1. CASE last
      BY <1>2, <1>8, <3>1, EndedTyped
    <3>2. CASE ~last
      <4> DEFINE handled == turned.handled + size
      <4>1. handled \in Nat
        BY <1>2, <1>4, <3>2 DEF SdoType
      <4> HIDE DEF handled
      <4>2. sdo' = [turned EXCEPT !.handled = handled]
        BY <1>2, <1>8, <3>2 DEF handled, SdoType
      <4> QED
        BY <1>2, <4>1, <4>2 DEF SdoType, Aims
    <3> QED
      BY <3>1, <3>2
  <2> QED
    BY <1>6, <2>2, <2>3, StaysTyped DEF TypeInv
<1> QED
  BY <1>7, <1>8 DEF UploadSegment

LEMMA SdoIndTyped ==
  ASSUME TypeInv, SdoInd
  PROVE  Typed'
<1>1. CASE RefuseCommand
  <2>1. answers' \in Seq(AnswerType)
    BY <1>1, AbortTyped DEF RefuseCommand
  <2> QED
    BY <1>1, <2>1, StaysTyped DEF RefuseCommand, SdoInd, TypeInv
<1>2. UNCHANGED info
  BY DEF SdoInd
<1> QED
  BY <1>1, <1>2, RefuseInitiateTyped, UploadAtOnceTyped,
     UploadInSegmentsTyped, DownloadAtOnceTyped, DownloadInSegmentsTyped,
     DownloadSegmentTyped, UploadSegmentTyped DEF SdoInd

\* SDO information.
LEMMA ListRooms ==
  /\ SendSize \in 36 .. 268 /\ ReceiveSize \in 36 .. 268
  /\ ListRoom \in 22 .. 254 /\ FragmentRoom = ListRoom + 2
  /\ UploadRoom \in 20 .. 252 /\ UploadSegRoom = UploadRoom + 7
  /\ DownloadRoom \in 20 .. 252 /\ DownloadSegRoom = DownloadRoom + 7
<1>1. SendSize \in 36 .. 268 /\ ReceiveSize \in 36 .. 268
  BY SizeAssumption
<1> QED
  BY <1>1 DEF ListRoom, FragmentRoom, UploadRoom, UploadSegRoom,
              DownloadRoom, DownloadSegRoom

LEMMA ObjectListTyped ==
  ASSUME NEW listType \in 0 .. 4, NEW from \in 1 .. Len(ObjDicList) + 1,
         NEW size \in Nat, size >= 22
  PROVE  LET part == GetObjectList(listType, from, size)
         IN  /\ part.objects \in Seq(Nat)
             /\ part.next \in 1 .. Len(ObjDicList) + 1
<1> DEFINE places == Places(listType, from)
           room == size \div 2
           n == Least(room, Len(places))
           numbers == [k \in 1 .. n |-> Number[ObjDicList[places[k]]]]
           end == Len(ObjDicList)
<1>1. /\ places \in Seq(1 .. end) /\ end \in 1 .. 22
      /\ \A k \in 1 .. end : Number[ObjDicList[k]] \in Nat
  BY PlacesAssumption
<1>2. Len(places) \in Nat /\ room \in Nat /\ room > 0
  BY <1>1, LenProperties
<1>3. n \in Nat /\ n <= Len(places) /\ n <= room
  <2> HIDE DEF places, room
  <2> QED
    BY <1>2 DEF Least
<1>4. \A k \in 1 .. Len(places) : places[k] \in 1 .. end
  BY <1>1, ElementOfSeq
<1>5. numbers \in [1 .. n -> Nat]
  <2> HIDE DEF n, places, end
  <2> QED
    BY <1>1, <1>2, <1>3, <1>4
<1>6. numbers \in Seq(Nat)
  BY <1>3, <1>5, FunctionSeq
<1>7. (IF n = room THEN places[n] + 1 ELSE end + 1) \in 1 .. end + 1
  <2> HIDE DEF n, places, end, room
  <2>1. CASE n = room
    <3>1. places[n] \in 1 .. end
      BY <1>2, <1>3, <1>4, <2>1
    <3> QED
      BY <1>1, <2>1, <3>1
  <2> QED
    BY <1>1, <2>1
<1> HIDE DEF n, places, room
<1> QED
  BY <1>6, <1>7 DEF GetObjectList, n, places, room

LEMMA FragmentsNat ==
  ASSUME NEW n \in Nat, NEW size \in Nat
  PROVE  FragmentsLeft(n, size) \in Nat
<1>1. CASE 2 * n > size
  <2> DEFINE a == 2 * n - size + (size + 2) - 1
             d == size + 2
  <2>1. a \in Nat /\ d \in Nat \ {0}
    BY <1>1
  <2> HIDE DEF a, d
  <2>2. a \div d \in Nat
    BY <2>1
  <2> QED
    BY <1>1, <2>2 DEF FragmentsLeft, a, d
<1> QED
  BY <1>1 DEF FragmentsLeft

LEMMA CountsNat ==
  ASSUME NEW listType \in 0 .. 4
  PROVE  GetNoOfObjects(listType) \in Nat
<1>1. 1 \in 1 .. Len(ObjDicList) + 1
  BY PlacesAssumption
<1>2. Places(listType, 1) \in Seq(1 .. Len(ObjDicList))
  BY <1>1, PlacesAssumption
<1> QED
  BY <1>2, LenProperties DEF GetNoOfObjects

LEMMA PlacesTyped ==
  /\ Len(ObjDicList) \in 1 .. 22 /\ 1 \in 1 .. Len(ObjDicList) + 1
  /\ \A f \in InfoType : f.next \in 1 .. Len(ObjDicList) + 1
<1>1. Len(ObjDicList) \in 1 .. 22
  BY PlacesAssumption
<1>2. \A f \in InfoType : f.next \in 1 .. Len(ObjDicList) + 1
  BY DEF InfoType
<1> QED
  BY <1>1, <1>2

LEMMA FragmentTyped ==
  ASSUME info \in InfoType, NEW list \in 1 .. 5
  PROVE  /\ Fragment(list).info \in InfoType
         /\ Following(Fragment(list).info)
         /\ Fragment(list).answer \in AnswerType
<1> DEFINE first == info.left = 0
           from == IF first THEN 1 ELSE info.next
           size == IF first THEN ListRoom ELSE FragmentRoom
           part == GetObjectList(list - 1, from, size)
           left == IF first
                   THEN FragmentsLeft(GetNoOfObjects(list - 1), ListRoom)
                   ELSE info.left - 1
<1>1. list - 1 \in 0 .. 4
  OBVIOUS
<1>2. size \in Nat /\ size >= 22
  BY ListRooms
<1>3. from \in 1 .. Len(ObjDicList) + 1
  BY PlacesTyped
<1>4. /\ part.objects \in Seq(Nat) /\ part.next \in 1 .. Len(ObjDicList) + 1
  <2> HIDE DEF from, size
  <2> QED
    BY <1>1, <1>2, <1>3, ObjectListTyped
<1>5. left \in Nat
  <2>1. CASE first
    <3>1. GetNoOfObjects(list - 1) \in Nat /\ ListRoom \in Nat
      BY <1>1, CountsNat, ListRooms
    <3>2. FragmentsLeft(GetNoOfObjects(list - 1), ListRoom) \in Nat
      BY <3>1, FragmentsNat
    <3> QED
      BY <2>1, <3>2
  <2>2. CASE ~first
    BY <2>2 DEF InfoType
  <2> QED
    BY <2>1, <2>2
<1>6. (left > 0) \in BOOLEAN
  OBVIOUS
<1>7. /\ Fragment(list).info = [left |-> left, next |-> part.next,
                               list |-> list, follow |-> left > 0]
      /\ Fragment(list).answer = [kind |-> "list", left |-> left,
                                 objects |-> part.objects]
  BY DEF Fragment
<1> HIDE DEF left, part
<1>8. Fragment(list).answer \in AnswerType
  BY <1>4, <1>5, <1>7 DEF AnswerType
<1>9. Fragment(list).info \in InfoType /\ Following(Fragment(list).info)
  BY <1>4, <1>5, <1>6, <1>7 DEF InfoType, Following
<1> QED
  BY <1>8, <1>9

LEMMA NamesTyped ==
  ASSUME NEW x \in Indexes, NEW i \in Nat, NEW size
  PROVE  ObjectName(x, size) \in Nat /\ EntryName(x, i, size) \in Nat
<1>1. \A k : GetDesc(x, k) \in Nat
  BY NamesAssumption, ElementOfSeq DEF GetDesc, SubindexDesc
<1> QED
  BY <1>1 DEF ObjectName, EntryName, Fitting, SubindexDesc

LEMMA SdoInfoIndTyped ==
  ASSUME TypeInv, SdoInfoInd
  PROVE  Typed'
<1>1. ASSUME info' \in InfoType, Following(info'),
             answers' \in Seq(AnswerType)
      PROVE  Typed'
  <2>1. UNCHANGED <<objects, al, sdo, master, ticks>>
    BY DEF SdoInfoInd, SendList, ContinueInd, Describe, Inform
  <2> QED
    BY <1>1, <2>1 DEF TypeInv, Typed, ObjectsTyped, Aims, Following
<1>2. info \in InfoType /\ Following(info)
  BY DEF TypeInv
<1>3. CASE SendList
  <2> DEFINE list == Request.list
  <2>1. /\ [info EXCEPT !.left = 0, !.list = 0] \in InfoType
        /\ Following([info EXCEPT !.left = 0, !.list = 0])
    <3>1. ~info.follow
      BY <1>3 DEF SendList, Received
    <3> DEFINE zero == 0
    <3>2. zero \in Nat /\ zero \in 0 .. 5
      OBVIOUS
    <3> HIDE DEF zero
    <3>3. [info EXCEPT !.left = zero, !.list = zero] \in InfoType
      BY <1>2, <3>2 DEF InfoType
    <3> QED
      BY <1>2, <3>1, <3>3 DEF Following, InfoType, zero
  <2>5. [kind |-> "unknown"] \in AnswerType
    BY DEF AnswerType
  <2>2. ASSUME list = 0
        PROVE  Typed'
    <3> DEFINE counts == [i \in 1 .. 5 |-> GetNoOfObjects(i - 1)]
    <3>1. counts \in [1 .. 5 -> Nat]
      BY CountsNat
    <3>2. counts \in Seq(Nat)
      BY <3>1, FunctionSeq
    <3> HIDE DEF counts
    <3>3. [kind |-> "list", left |-> 0, objects |-> counts] \in AnswerType
      BY <3>2 DEF AnswerType
    <3>4. /\ Inform([kind |-> "list", left |-> 0, objects |-> counts])
          /\ info' = [info EXCEPT !.left = 0, !.list = 0]
      BY <1>3, <2>2 DEF SendList, counts
    <3> QED
      BY <1>1, <2>1, <3>3, <3>4, AnswerTyped DEF Inform
  <2>3. ASSUME list \in 1 .. 5
        PROVE  Typed'
    <3>1. Inform(Fragment(list).answer) /\ info' = Fragment(list).info
      BY <1>3, <2>3 DEF SendList
    <3>2. /\ Fragment(list).info \in InfoType
          /\ Following(Fragment(list).info)
          /\ Fragment(list).answer \in AnswerType
      BY <1>2, <2>3, FragmentTyped
    <3> QED
      BY <1>1, <3>1, <3>2, AnswerTyped DEF Inform
  <2>4. ASSUME Inform([kind |-> "unknown"]), UNCHANGED info
        PROVE  Typed'
    BY <1>1, <1>2, <2>4, <2>5, AnswerTyped DEF Inform
  <2> QED
    BY <1>3, <2>2, <2>3, <2>4 DEF SendList
<1>4. CASE ContinueInd
  <2> DEFINE list == info.list
  <2>1. list \in 1 .. 5
    BY <1>4 DEF ContinueInd, TypeInv, Following
  <2>2. /\ Fragment(list).info \in InfoType
        /\ Following(Fragment(list).info)
        /\ Fragment(list).answer \in AnswerType
    BY <1>2, <2>1, FragmentTyped
  <2>3. answers' = <<Fragment(list).answer>> /\ info' = Fragment(list).info
    BY <1>4 DEF ContinueInd
  <2> QED
    BY <1>1, <2>2, <2>3
<1>5. CASE Describe
  <2> DEFINE r == Request
             exists == /\ r.index # "none"
                       /\ r.cmd = "describeEntry" =>
                            r.sub <= Object[r.index].max
             name == IF r.cmd = "describeObject"
                     THEN ObjectName(r.index, NameRoom)
                     ELSE EntryName(r.index, r.sub, NameRoom)
  <2>1. /\ [info EXCEPT !.left = 0] \in InfoType
        /\ Following([info EXCEPT !.left = 0])
    BY <1>2 DEF InfoType, Following
  <2>6. [kind |-> "abort"] \in AnswerType
    BY DEF AnswerType
  <2>2. r.index \in Used \cup {"none"} /\ r.sub \in 0 .. 255
    <3>1. r \in RequestType /\ r.cmd \in {"describeObject", "describeEntry"}
      BY <1>5, HeadTailProperties
      DEF Describe, Received, Request, TypeInv, IInv, Parties
    <3> QED
      BY <3>1 DEF RequestType
  <2>3. ASSUME exists
        PROVE  name \in Nat
    <3>1. r.index \in Indexes
      BY <2>2, <2>3, UsedAssumption
    <3>2. r.sub \in Nat
      BY <2>2
    <3> QED
      BY <3>1, <3>2, NamesTyped
  <2>4. CASE ~exists
    <3>1. Inform([kind |-> "abort"]) /\ info' = [info EXCEPT !.left = 0]
      BY <1>5, <2>4 DEF Describe
    <3> QED
      BY <1>1, <2>1, <2>6, <3>1, AnswerTyped DEF Inform
  <2>5. CASE exists
    <3>1. name \in Nat
      BY <2>3, <2>5
    <3>2. Inform([kind |-> "description", name |-> name]) /\ UNCHANGED info
      BY <1>5, <2>5 DEF Describe
    <3> HIDE DEF name
    <3>3. [kind |-> "description", name |-> name] \in AnswerType
      BY <3>1 DEF AnswerType
    <3> QED
      BY <1>1, <1>2, <3>2, <3>3, AnswerTyped DEF Inform
  <2> QED
    BY <2>4, <2>5
<1> QED
  BY <1>3, <1>4, <1>5 DEF SdoInfoInd

\* The application and the master.
LEMMA TickTyped ==
  ASSUME TypeInv, Tick
  PROVE  Typed'
<1>1. ObjectsTyped(Ticked(1))
  BY TickedTyped DEF TypeInv
<1>2. Seeing(Ticked(1), 0) \in MasterRecord
  BY <1>1, SeeingTyped DEF TypeInv, IInv, Parties
<1>3. ticks' \in 0 .. MaxTicks
  BY BoundAssumption DEF Tick, TypeInv
<1> QED
  BY <1>1, <1>2, <1>3, StaysTyped DEF Tick, TypeInv

LEMMA StartTyped ==
  ASSUME TypeInv, NEW job \in Jobs, Start(job)
  PROVE  Typed'
<1> DEFINE data == Payload[job]
           to == Least(Len(data), DownloadRoom)
           seen == IF job.index = "none" THEN {} ELSE {<<objects[job.index], 0>>}
           rest == [left |-> info.left, next |-> info.next]
           transfers == master.transfers + 1
<1>1. data \in Seq(Tags) /\ Len(data) \in Nat
  BY PayloadType, LenProperties
<1>2. to \in Nat
  BY <1>1, RoomType DEF Least
<1>3. job \in JobType /\ job.index \in Used \cup {"none"}
  BY JobAssumption
<1>4. seen \in SUBSET UNION {Value(x) \X Nat : x \in Used} /\ rest \in Rests
  BY <1>3 DEF TypeInv, ObjectsTyped, InfoType, Rests
<1>5. transfers \in 0 .. MaxTransfers
  BY BoundAssumption DEF Start, TypeInv, MasterRecord
<1>6. <<>> \in Seq(Tags) /\ <<>> \in Seq(Nat)
  BY EmptySeq
<1> HIDE DEF data, to, seen, rest, transfers
<1>7. [master EXCEPT !.phase = "initiated", !.job = job, !.result = "none",
                     !.size = 0, !.got = <<>>, !.listed = <<>>, !.data = data,
                     !.rest = rest, !.from = 0, !.to = to, !.seen = seen, !.toggle = 16,
                     !.fault = FALSE, !.transfers = transfers]
        \in MasterRecord
  BY <1>1, <1>2, <1>3, <1>4, <1>5, <1>6 DEF TypeInv, MasterRecord
<1>8. master' \in MasterRecord
  BY <1>7 DEF Start, Started, data, to, seen, rest, transfers
<1> QED
  BY <1>8, StaysTyped DEF Start, TypeInv

LEMMA NextSegmentTyped ==
  ASSUME NEW m \in MasterRecord
  PROVE  NextSegment(m) \in MasterRecord
<1> DEFINE toggle == 16 - m.toggle
<1>1. toggle \in {0, 16}
  BY DEF MasterRecord
<1> HIDE DEF toggle
<1>2. [m EXCEPT !.phase = "segments", !.toggle = toggle] \in MasterRecord
  BY <1>1 DEF MasterRecord
<1>3. NextSegment(m) = [m EXCEPT !.phase = "segments", !.toggle = toggle]
  BY DEF NextSegment, MasterRecord, toggle
<1> QED
  BY <1>2, <1>3

LEMMA DoneTyped ==
  ASSUME NEW m \in MasterRecord, NEW result \in {"ok", "failed"}
  PROVE  [m EXCEPT !.phase = "idle", !.result = result] \in MasterRecord
BY DEF MasterRecord

LEMMA AfterTyped ==
  ASSUME master \in MasterRecord, MasterGood(master), NEW answer \in AnswerType
  PROVE  After(answer) \in MasterRecord
<1>1. ASSUME answer.kind \in {"upload", "uploadSegment"}
      PROVE  AfterUpload(answer) \in MasterRecord
  <2> DEFINE got == master.got \o answer.data
             size == IF answer.kind = "upload" THEN answer.size
                     ELSE master.size
             m == [master EXCEPT !.got = got, !.size = size]
  <2>1. answer.data \in Seq(Tags) /\ size \in Nat
    BY <1>1 DEF AnswerType, MasterRecord
  <2>2. got \in Seq(Tags)
    BY <2>1, ConcatProperties DEF MasterRecord
  <2> HIDE DEF got, size
  <2>3. m \in MasterRecord
    BY <2>1, <2>2 DEF MasterRecord
  <2> HIDE DEF m
  <2> QED
    BY <2>3, DoneTyped, NextSegmentTyped DEF AfterUpload, m, got, size
<1>2. AfterDownload \in MasterRecord
  <2> DEFINE to == Least(Len(master.data), master.to + DownloadSegRoom)
             m == [master EXCEPT !.from = master.to, !.to = to]
  <2>1. Len(master.data) \in Nat
    BY LenProperties DEF MasterRecord
  <2>2. to \in Nat
    BY <2>1, RoomType DEF MasterRecord, Least
  <2> HIDE DEF to
  <2>3. m \in MasterRecord
    BY <2>2 DEF MasterRecord
  <2>4. m = [master EXCEPT !.from = master.to,
                           !.to = Least(Len(master.data), @ + DownloadSegRoom)]
    BY DEF MasterRecord, to
  <2> HIDE DEF m
  <2> QED
    BY <2>3, <2>4, DoneTyped, NextSegmentTyped DEF AfterDownload, Done
<1>3. ASSUME answer.kind = "list"
      PROVE  AfterList(answer) \in MasterRecord
  <2> DEFINE listed == master.listed \o answer.objects
             phase == IF answer.left = 0 THEN "idle" ELSE master.phase
             result == IF answer.left = 0 THEN "ok" ELSE master.result
  <2>1. answer.objects \in Seq(Nat)
    BY <1>3 DEF AnswerType
  <2>2. listed \in Seq(Nat)
    BY <2>1, ConcatProperties DEF MasterRecord
  <2>3. /\ phase \in {"idle", "initiated", "segments"}
        /\ result \in {"none", "ok", "failed"}
    BY DEF MasterRecord
  <2> HIDE DEF listed, phase, result
  <2>4. [master EXCEPT !.listed = listed, !.phase = phase, !.result = result]
          \in MasterRecord
    BY <2>2, <2>3 DEF MasterRecord
  <2> QED
    BY <2>4 DEF AfterList, listed, phase, result, MasterRecord
<1>4. Done("ok") \in MasterRecord /\ Done("failed") \in MasterRecord
  BY DoneTyped DEF Done
<1>5. ASSUME answer.kind \in Expected, master.job.op = "upload"
      PROVE  answer.kind \in {"upload", "uploadSegment"}
  BY <1>5 DEF Expected, MasterRecord
<1>6. ASSUME answer.kind \in Expected
      PROVE  \/ master.job.op \in {"upload", "download"}
             \/ answer.kind = "list" /\ "list" \in Expected
             \/ answer.kind = "description" /\ "description" \in Expected
  BY <1>6 DEF Expected, MasterGood, JobType, Operations
<1> QED
  BY <1>1, <1>2, <1>3, <1>4, <1>5, <1>6 DEF After

LEMMA TakeAnswerTyped ==
  ASSUME TypeInv, TakeAnswer
  PROVE  Typed'
<1>1. Head(answers) \in AnswerType /\ Tail(answers) \in Seq(AnswerType)
  BY HeadTailProperties DEF TakeAnswer, TypeInv
<1>2. master' \in MasterRecord
  BY <1>1, AfterTyped DEF TakeAnswer, TypeInv, IInv, Parties
<1>3. answers' \in Seq(AnswerType)
  BY <1>1 DEF TakeAnswer
<1> QED
  BY <1>2, <1>3, StaysTyped DEF TakeAnswer, TypeInv

LEMMA StopMailboxTyped ==
  ASSUME TypeInv, StopMailbox
  PROVE  Typed'
<1>1. sdo' \in SdoType /\ Aims(sdo')
  BY EndedTyped DEF StopMailbox, TypeInv
<1> DEFINE result == IF master.phase = "idle" THEN master.result ELSE "failed"
<1>2. result \in {"none", "ok", "failed"}
  BY DEF TypeInv, MasterRecord
<1> HIDE DEF result
<1>3. master' = [Fault EXCEPT !.phase = "idle", !.result = result]
  BY DEF StopMailbox, result, Fault, TypeInv, MasterRecord
<1>4. master' \in MasterRecord
  BY <1>2, <1>3, FaultTyped DEF StopMailbox, TypeInv
<1>5. answers' \in Seq(AnswerType) /\ al' \in AlStates
  BY EmptySeq DEF StopMailbox, AlStates
<1>6. info' \in InfoType /\ Following(info')
  BY DEF StopMailbox, TypeInv, InfoType, Following
<1> QED
  BY <1>1, <1>4, <1>5, <1>6 DEF StopMailbox, TypeInv, Typed, ObjectsTyped

LEMMA MasterTyped ==
  ASSUME TypeInv, Master
  PROVE  Typed'
<1>1. CASE GiveUp
  <2>1. master' \in MasterRecord
    BY <1>1, FaultTyped DEF GiveUp, TypeInv
  <2> QED
    BY <1>1, <2>1, StaysTyped DEF GiveUp, TypeInv
<1>2. CASE AskAgain
  <2>1. master' \in MasterRecord
    BY <1>2, FaultTyped DEF AskAgain, TypeInv
  <2> QED
    BY <1>2, <2>1, StaysTyped DEF AskAgain, TypeInv
<1>3. CASE ChangeState
  <2>1. master' \in MasterRecord /\ al' \in AlStates
    BY <1>3, FaultTyped DEF ChangeState, TypeInv
  <2>2. UNCHANGED <<objects, sdo, info, answers, ticks>>
    BY <1>3 DEF ChangeState
  <2> QED
    BY <2>1, <2>2 DEF TypeInv, Typed, ObjectsTyped, Aims, Following
<1> QED
  BY <1>1, <1>2, <1>3, StartTyped, TakeAnswerTyped, StopMailboxTyped
  DEF Master

LEMMA TypeInit == Init => TypeInv
<1> SUFFICES ASSUME Init PROVE TypeInv
  OBVIOUS
<1>1. ASSUME NEW x \in Used
      PROVE  objects[x] \in Value(x)
  <2>1. Object[x].max \in 0 .. 255
    BY UsedObject
  <2>2. objects[x] = [i \in 0 .. Object[x].max |->
                        IF i = 0 THEN Object[x].max ELSE 0]
    BY DEF Init
  <2> DEFINE max == Object[x].max
  <2> HIDE DEF max
  <2>3. [i \in 0 .. max |-> IF i = 0 THEN max ELSE 0] \in [0 .. max -> Nat]
    BY <2>1 DEF max
  <2> QED
    BY <2>2, <2>3 DEF Value, max
<1>2. ObjectsTyped(objects) /\ al \in AlStates
  BY <1>1 DEF Init, ObjectsTyped, AlStates
<1>3. NoTransfer \in SdoType /\ Aims(NoTransfer)
  BY EmptySeq DEF NoTransfer, SdoType, Aims, Null
<1>4. NoList \in InfoType /\ Following(NoList)
  BY PlacesAssumption DEF NoList, InfoType, Following
<1>5. ticks \in 0 .. MaxTicks /\ 0 \in 0 .. MaxTransfers
      /\ 0 \in 0 .. MaxFaults
  BY BoundAssumption DEF Init
<1>6. answers \in Seq(AnswerType) /\ <<>> \in Seq(Tags) /\ <<>> \in Seq(Nat)
  BY EmptySeq DEF Init
<1>7. NoJob \in JobType
  BY DEF NoJob, JobType, Operations
<1>8. master \in MasterRecord
  BY <1>5, <1>6, <1>7, PlacesAssumption DEF Init, MasterRecord, Rests
<1> QED
  BY <1>2, <1>3, <1>4, <1>5, <1>6, <1>8, InitIInv DEF TypeInv, Init

LEMMA TypeStep == TypeInv /\ [Next]_vars => TypeInv'
<1> SUFFICES ASSUME TypeInv, [Next]_vars PROVE TypeInv'
  OBVIOUS
<1>1. IInv'
  BY BuffersStep DEF TypeInv
<1>2. Typed'
  <2>1. CASE Next
    BY <2>1, SdoIndTyped, SdoInfoIndTyped, TickTyped, MasterTyped DEF Next
  <2>2. CASE UNCHANGED vars
    BY <2>2 DEF vars, TypeInv, Typed, ObjectsTyped, Aims, Following
  <2> QED
    BY <2>1, <2>2
<1>3. heap' \in Nat
  BY <1>1 DEF IInv, HeapBalanced
<1> QED
  BY <1>1, <1>2, <1>3 DEF TypeInv, Typed

\* In every state each variable has its type: whatever is read, written,
\* placed in a buffer or put together by the master is a sequence of bytes of
\* entries there are, and no count runs below zero, that of the fragments
\* left of a list and of the buffers among them (sdoserv.c:219-330, 396-467,
\* 1085-1180).
THEOREM TypeCorrect == Spec => []TypeOK
<1>1. TypeInv => TypeOK
  BY TypeShows
<1> QED
  BY TypeInit, TypeStep, <1>1, PTL DEF Spec

(***************************************************************************)
(* What a download writes, when all of its data have been sent.            *)
(***************************************************************************)
\* The master sends as many bytes as the entries have: objdef.c:1440 compares
\* the size of a download with nothing but zero.
SentWhole == \A job \in Jobs : job.op = "download" => job.short = 0

\* What the server looks at before it opens the dictionary.
Reached(job) ==
  /\ job.op \in {"upload", "download"} /\ job.index # "none"
  /\ job.sub <= Object[job.index].max /\ (job.ca => job.sub <= 1)

LEMMA JobTyped ==
  ASSUME NEW job \in Jobs
  PROVE  /\ job.op \in Operations /\ job.index \in Used \cup {"none"}
         /\ job.sub \in 0 .. 255 /\ job.ca \in BOOLEAN /\ job.value \in Nat
         /\ job.short \in Nat
BY JobAssumption DEF JobType

LEMMA ReachedTyped ==
  ASSUME NEW job \in Jobs, Reached(job)
  PROVE  /\ job.index \in Used /\ job.index \in Indexes
         /\ job.sub \in 0 .. Object[job.index].max
         /\ Object[job.index].max \in 0 .. 255
         /\ Length(job.index, job.sub, job.ca) \in Nat
<1> DEFINE max == Object[job.index].max
           sub == job.sub
<1>1. job.index \in Used /\ job.index \in Indexes
  BY JobTyped, UsedAssumption DEF Reached
<1>2. max \in 0 .. 255 /\ sub \in 0 .. 255 /\ sub <= max
  BY <1>1, JobTyped, UsedObject DEF Reached
<1> HIDE DEF max, sub
<1>3. sub \in 0 .. max
  BY <1>2
<1>4. job.sub \in 0 .. Object[job.index].max
  BY <1>3 DEF max, sub
<1> QED
  BY <1>1, <1>2, <1>4, JobTyped, LengthAssumption DEF max

LEMMA AccessedTyped ==
  ASSUME NEW job \in Jobs, Reached(job),
         NEW i \in Accessed(job.index, job.sub, job.ca)
  PROVE  /\ i \in 0 .. Object[job.index].max /\ i \in Nat /\ job.sub <= i
         /\ ~job.ca => i = job.sub
<1> DEFINE max == Object[job.index].max
           sub == job.sub
<1>1. max \in 0 .. 255 /\ sub \in 0 .. max
  BY ReachedTyped
<1>2. i \in sub .. (IF job.ca THEN max ELSE sub)
  BY DEF Accessed
<1> HIDE DEF max, sub
<1>3. i \in 0 .. max /\ i \in Nat /\ sub <= i /\ (~job.ca => i = sub)
  BY <1>1, <1>2
<1> QED
  BY <1>3 DEF max, sub

\* Nothing is left out of it.
LEMMA WholePayload ==
  ASSUME SentWhole, NEW job \in Jobs, job.op = "download", Reached(job)
  PROVE  LET n == Length(job.index, job.sub, job.ca)
         IN  /\ Payload[job] \in Seq(Tags) /\ Len(Payload[job]) = n
             /\ Payload[job] = ImageOf(job.index, Wanted(job), job.sub, job.ca,
                                   Accessed(job.index, job.sub, job.ca))
<1> DEFINE n == Length(job.index, job.sub, job.ca)
           image == ImageOf(job.index, Wanted(job), job.sub, job.ca,
                            Accessed(job.index, job.sub, job.ca))
<1>1. n \in Nat
  BY ReachedTyped
<1>2. Payload[job] = SubSeq(image, 1, n - job.short) /\ job.short = 0
  BY DEF Payload, SentWhole, Reached
<1>3. Payload[job] \in Seq(Tags)
  BY PayloadType
<1>4. DOMAIN image = 1 .. n
  BY DEF ImageOf
<1>5. image = [k \in 1 .. n |-> image[k]]
  BY DEF ImageOf
<1> HIDE DEF n, image
<1>6. Payload[job] = SubSeq(image, 1, n)
  BY <1>1, <1>2
<1>7. SubSeq(image, 1, n) = image
  BY <1>1, <1>4, <1>5
<1>8. Len(image) = n
  BY <1>1, <1>3, <1>4, <1>6, <1>7, LenProperties
<1> QED
  BY <1>3, <1>6, <1>7, <1>8 DEF n, image

\* What the master wants the entries to be that can be written.
LEMMA WantedValue ==
  ASSUME NEW job \in Jobs, Reached(job),
         NEW i \in Accessed(job.index, job.sub, job.ca)
  PROVE  /\ EntryDesc(job.index, i).write # {} => Wanted(job)[i] = job.value
         /\ i = 0 /\ Object[job.index].code # "VAR" =>
              Wanted(job)[i] = Object[job.index].max
<1>1. i \in 0 .. Object[job.index].max
  BY AccessedTyped
<1>2. ~(i = 0 /\ Object[job.index].code # "VAR") => Wanted(job)[i] = job.value
  BY <1>1 DEF Wanted
<1>3. i = 0 /\ Object[job.index].code # "VAR" =>
        /\ Wanted(job)[i] = Object[job.index].max
        /\ EntryDesc(job.index, i).write = {}
  BY <1>1, ReachedTyped, EntryAssumption DEF Wanted
<1> QED
  BY <1>2, <1>3

\* In a mapping that puts entry i at a place, the place finds it.
LEMMA FoundThere ==
  ASSUME NEW data, NEW place, place # {}, place \subseteq DOMAIN data,
         NEW i, NEW value, \A k \in place : data[k] = <<i, value>>
  PROVE  FoundAt(place, data, i) = value
<1>1. <<i, value>> # Cleared /\ <<i, value>>[1] = i /\ <<i, value>>[2] = value
  BY DEF Cleared
<1>2. <<i, value>> \in {data[k] : k \in place}
  OBVIOUS
<1>3. data[CHOOSE k \in place : TRUE] = <<i, value>>
  OBVIOUS
<1> QED
  BY <1>1, <1>2, <1>3 DEF FoundAt

\* The server finds every entry that can be written where the master puts it.
LEMMA JobFound ==
  ASSUME SentWhole, NEW job \in Jobs, job.op = "download", Reached(job),
         job.ca => Object[job.index].code # "VAR",
         NEW i \in Accessed(job.index, job.sub, job.ca),
         EntryDesc(job.index, i).write # {} \/ (job.ca /\ i = 0)
  PROVE  /\ Found(job.index, job.sub, job.ca, Payload[job], i) = Wanted(job)[i]
         /\ Len(Payload[job]) > 0
<1> DEFINE x == job.index
           n == Length(job.index, job.sub, job.ca)
           data == Payload[job]
           place == Place(x, job.sub, job.ca, i)
           first == First(x, job.sub, job.ca)
<1>1. /\ x \in Indexes /\ job.sub \in 0 .. Object[x].max /\ job.ca \in BOOLEAN
      /\ (job.ca => Object[x].code # "VAR" /\ job.sub <= 1)
  BY ReachedTyped, JobTyped DEF Reached
<1>2. /\ place # {} /\ place \subseteq 1 .. n
      /\ \A k \in place : Image[x][first + k] = i
  BY <1>1, AccessAssumption
<1>3. /\ data \in Seq(Tags) /\ Len(data) = n /\ n \in Nat
      /\ data = ImageOf(x, Wanted(job), job.sub, job.ca,
                        Accessed(x, job.sub, job.ca))
  BY WholePayload, ReachedTyped
<1>4. \A k \in 1 .. n : Image[x][first + k] = i => data[k] = <<i, Wanted(job)[i]>>
  BY <1>1, <1>3 DEF ImageOf
<1> HIDE DEF data, place, n, first
<1>5. DOMAIN data = 1 .. n
  BY <1>3, LenProperties
<1>6. FoundAt(place, data, i) = Wanted(job)[i]
  <2>1. \A k \in place : data[k] = <<i, Wanted(job)[i]>>
    BY <1>2, <1>4
  <2>2. place \subseteq DOMAIN data
    BY <1>2, <1>5
  <2> DEFINE value == Wanted(job)[i]
  <2>3. /\ place # {} /\ place \subseteq DOMAIN data
        /\ \A k \in place : data[k] = <<i, value>>
    BY <1>2, <2>1, <2>2
  <2> HIDE DEF value
  <2>4. FoundAt(place, data, i) = value
    BY ONLY <2>3, FoundThere
  <2> QED
    BY <2>4 DEF value
<1>7. n > 0
  <2>1. PICK k \in place : TRUE
    BY <1>2
  <2>2. k \in 1 .. n
    BY <1>2
  <2> QED
    BY ONLY <1>3, <2>2
<1> QED
  BY <1>3, <1>6, <1>7 DEF Found, place, data

\* It writes them all, to the value sent.
LEMMA JobWritten ==
  ASSUME SentWhole, NEW job \in Jobs, job.op = "download", Reached(job),
         job.ca => Object[job.index].code # "VAR"
  PROVE  /\ Written(job.index, job.sub, job.ca, al, Payload[job])
              = Storable(job, {al})
         /\ \A i \in Storable(job, {al}) :
              /\ Found(job.index, job.sub, job.ca, Payload[job], i) = job.value
              /\ i \in 0 .. Object[job.index].max
              /\ Len(Payload[job]) > 0
<1> DEFINE x == job.index
           data == Payload[job]
           last == LastWritten(x, job.sub, job.ca, data)
           max == Object[x].max
<1>1. ASSUME NEW i \in Storable(job, {al})
      PROVE  /\ Found(x, job.sub, job.ca, data, i) = job.value
             /\ i \in 0 .. max /\ Len(data) > 0
  <2>1. i \in Accessed(x, job.sub, job.ca) /\ EntryDesc(x, i).write # {}
    BY DEF Storable
  <2> QED
    BY <2>1, JobFound, WantedValue, AccessedTyped
<1>2. ASSUME NEW i \in Accessed(x, job.sub, job.ca)
      PROVE  i <= last
  <2>1. i \in Nat /\ i \in 0 .. max /\ max \in 0 .. 255 /\ (~job.ca => i = job.sub)
    BY AccessedTyped, ReachedTyped
  <2>2. CASE job.ca /\ job.sub = 0
    <3>1. 0 \in Accessed(x, job.sub, job.ca)
      BY <2>1, <2>2 DEF Accessed
    <3>2. Found(x, job.sub, job.ca, data, 0) = Wanted(job)[0]
      BY <2>2, <3>1, JobFound
    <3>3. Wanted(job)[0] = max
      BY <2>2, <3>1, WantedValue
    <3>4. last = Found(x, job.sub, job.ca, data, 0)
      BY <2>2 DEF LastWritten
    <3>5. last = max
      BY <3>2, <3>3, <3>4
    <3> HIDE DEF last, max
    <3> QED
      BY <2>1, <3>5
  <2>3. CASE job.ca /\ job.sub # 0
    <3>1. last = max
      BY <2>3 DEF LastWritten
    <3> HIDE DEF last, max
    <3> QED
      BY <2>1, <3>1
  <2>4. CASE ~job.ca
    <3>1. last = i
      BY <2>1, <2>4 DEF LastWritten
    <3> HIDE DEF last
    <3> QED
      BY <2>1, <3>1
  <2> QED
    BY <2>2, <2>3, <2>4, JobTyped
<1>3. Written(x, job.sub, job.ca, al, data) = Storable(job, {al})
  <2> HIDE DEF data
  <2> QED
    BY <1>1, <1>2 DEF Written, Writable, Storable, data
<1> QED
  BY <1>1, <1>3

(***************************************************************************)
(* What a step makes of the entries that can be written: nothing, or the   *)
(* whole of what the present job stores.                                   *)
(***************************************************************************)
Untouched ==
  \A y \in Used : \A i \in 0 .. Object[y].max :
    EntryDesc(y, i).write # {} => objects'[y][i] = objects[y][i]

Stores(job) ==
  \A y \in Used : \A i \in 0 .. Object[y].max :
    EntryDesc(y, i).write # {} =>
      objects'[y][i] = IF y = job.index /\ i \in Storable(job, {al})
                       THEN job.value ELSE objects[y][i]

LEMMA ResetUnwritable ==
  ASSUME NEW x, NEW sub, NEW ca, NEW data, NEW written, NEW y \in Used \cap SyncPars,
         NEW i \in Reset(x, sub, ca, data, written)
  PROVE  EntryDesc(y, i).write = {}
<1>1. i \in Measured(0) \cup Measured(2)
  <2>1. PICK cycle : i \in Measured(cycle)
    BY DEF Reset
  <2>2. (2 \div 2) % 2 = 1
    OBVIOUS
  <2>3. i \in {2, 5, 6} \cup {11, 12, 32}
    BY <2>1 DEF Measured
  <2> QED
    BY <2>2, <2>3 DEF Measured
<1> QED
  BY <1>1, UsedAssumption, LiveAssumption

LEMMA WriteStores ==
  ASSUME SentWhole, TypeInv, NEW job \in Jobs, job.op = "download", Reached(job),
         ~WriteRefused(job.index, objects[job.index], job.sub, job.ca, al,
                       Payload[job]),
         objects' = Write(objects, job.index, job.sub, job.ca, al, Payload[job])
  PROVE  Stores(job)
<1> DEFINE x == job.index
           data == Payload[job]
           written == Written(x, job.sub, job.ca, al, data)
           new == [i \in written |-> Found(x, job.sub, job.ca, data, i)]
           reset == Reset(x, job.sub, job.ca, data, written)
<1>1. job.ca => Object[x].code # "VAR"
  BY DEF WriteRefused
<1>2. /\ written = Storable(job, {al})
      /\ \A i \in written : new[i] = job.value
  BY <1>1, JobWritten
<1>3. objects' = Stored(objects, x, new, reset)
  BY DEF Write
<1>4. \A y \in Used \cap SyncPars : \A i \in reset : EntryDesc(y, i).write = {}
  BY ResetUnwritable
<1>5. DOMAIN new = written
  OBVIOUS
<1> HIDE DEF written, new, reset
<1>6. ASSUME NEW y \in Used, NEW i \in 0 .. Object[y].max,
             EntryDesc(y, i).write # {}
      PROVE  objects'[y][i] = IF y = x /\ i \in Storable(job, {al})
                              THEN job.value ELSE objects[y][i]
  <2>1. y \in DOMAIN objects /\ DOMAIN objects[y] = 0 .. Object[y].max
    BY DEF TypeInv, ObjectsTyped, Value
  <2>2. ~(y \in SyncPars /\ i \in reset)
    BY <1>4, <1>6
  <2>3. objects'[y][i] = IF y = x /\ i \in written THEN new[i] ELSE objects[y][i]
    BY <1>3, <1>5, <2>1, <2>2 DEF Stored
  <2> QED
    BY <1>2, <2>3
<1> QED
  BY <1>6 DEF Stores

\* A step that leaves the objects alone.
LEMMA ObjectsUntouched ==
  ASSUME objects' = objects
  PROVE  Untouched
BY DEF Untouched

\* What interrupts make of the objects.
Moments == {objects} \cup {Ticked(n) : n \in Nat}

LEMMA TickedUntouched ==
  ASSUME TypeInv, objects' \in Moments
  PROVE  Untouched
<1>1. CASE objects' = objects
  BY <1>1, ObjectsUntouched
<1>2. ASSUME NEW n \in Nat, objects' = Ticked(n)
      PROVE  Untouched
  <2> SUFFICES ASSUME NEW y \in Used, NEW i \in 0 .. Object[y].max,
                      EntryDesc(y, i).write # {}
               PROVE  objects'[y][i] = objects[y][i]
    BY DEF Untouched
  <2>1. objects[y] \in Value(y)
    BY DEF TypeInv, ObjectsTyped
  <2>2. i \notin Live(y)
    BY UsedAssumption, LiveAssumption
  <2>3. Ticked(n)[y][i] = objects[y][i] + 0
    BY <2>1, <2>2 DEF Ticked, Later, Value
  <2>4. objects[y][i] \in Nat
    BY <2>1 DEF Value
  <2> QED
    BY <1>2, <2>3, <2>4
<1> QED
  BY <1>1, <1>2 DEF Moments

\* What the present job was to write has been written.
StoredNow ==
  /\ Reached(master.job)
  /\ \A i \in Storable(master.job, AlStates) \cup
              (IF master.fault THEN {} ELSE Storable(master.job, {al})) :
       objects[master.job.index][i] = master.job.value

SameJob ==
  /\ master'.job = master.job /\ master'.fault \in BOOLEAN
  /\ master.fault => master'.fault
  /\ al' = al \/ master'.fault

LEMMA StorableTyped ==
  ASSUME NEW job \in Jobs, Reached(job), al \in AlStates
  PROVE  /\ Storable(job, AlStates) \subseteq Storable(job, {al})
         /\ \A i \in Storable(job, {al}) : /\ i \in 0 .. Object[job.index].max
                                           /\ EntryDesc(job.index, i).write # {}
<1>1. \A i \in Storable(job, {al}) : i \in 0 .. Object[job.index].max
  BY AccessedTyped DEF Storable
<1> QED
  BY <1>1 DEF Storable

LEMMA StoredStays ==
  ASSUME TypeInv, master.job \in Jobs, SameJob, StoredNow,
         Untouched \/ Stores(master.job)
  PROVE  StoredNow'
<1> DEFINE job == master.job
           now == Storable(job, AlStates) \cup
                    (IF master.fault THEN {} ELSE Storable(job, {al}))
<1>1. now \subseteq Storable(job, {al}) /\ al \in AlStates /\ Reached(job)
  BY StorableTyped DEF TypeInv, StoredNow
<1>2. \A i \in now : /\ i \in 0 .. Object[job.index].max
                     /\ EntryDesc(job.index, i).write # {}
  BY <1>1, StorableTyped
<1>3. job.index \in Used
  BY <1>1, ReachedTyped
<1>4. \A i \in now : objects[job.index][i] = job.value
  BY DEF StoredNow
<1>5. Storable(job, AlStates) \cup
        (IF master'.fault THEN {} ELSE Storable(job, {al'})) \subseteq now
  BY DEF SameJob
<1> HIDE DEF now
<1>6. \A i \in now : objects'[job.index][i] = job.value
  BY <1>2, <1>3, <1>4 DEF Untouched, Stores
<1> QED
  BY <1>1, <1>5, <1>6 DEF StoredNow, SameJob, now

LEMMA StoredDone ==
  ASSUME TypeInv, master.job \in Jobs, Reached(master.job), SameJob,
         Stores(master.job)
  PROVE  StoredNow'
<1> DEFINE job == master.job
<1>1. /\ Storable(job, AlStates) \subseteq Storable(job, {al})
      /\ \A i \in Storable(job, {al}) : /\ i \in 0 .. Object[job.index].max
                                        /\ EntryDesc(job.index, i).write # {}
  BY StorableTyped DEF TypeInv
<1>2. job.index \in Used
  BY ReachedTyped
<1>3. \A i \in Storable(job, {al}) : objects'[job.index][i] = job.value
  BY <1>1, <1>2 DEF Stores
<1>4. Storable(job, AlStates) \cup
        (IF master'.fault THEN {} ELSE Storable(job, {al'}))
        \subseteq Storable(job, {al})
  BY <1>1 DEF SameJob
<1> QED
  BY <1>3, <1>4 DEF StoredNow, SameJob

(***************************************************************************)
(* A download under way.  Requests made again may wait behind each other,  *)
(* but while one waits that begins the transfer, no segment is before it;  *)
(* and of the segments those of the piece before come first.               *)
(***************************************************************************)
Commands(q, cmd) == {i \in 1 .. Len(q) : q[i].cmd = cmd}
Inits(q) == Commands(q, "initiateDownload")
Segments(q) == Commands(q, "downloadSegment")

Kinds(a, kind) == {i \in 1 .. Len(a) : a[i].kind = kind}
Begun(a) == Kinds(a, "download")
Acks(a) == Kinds(a, "downloadSegment")

\* A download has a buffer.
Alive(s) == s.data # Null /\ s.service = Idle

\* The requests of the master: the first, and the present segment.
InitOf(m) ==
  [cmd |-> "initiateDownload", index |-> m.job.index, sub |-> m.job.sub,
   ca |-> m.job.ca, size |-> Len(m.data),
   data |-> SubSeq(m.data, 1, Least(Len(m.data), DownloadRoom))]

SegmentOf(m) ==
  [cmd |-> "downloadSegment", toggle |-> m.toggle,
   last |-> m.to = Len(m.data), data |-> SubSeq(m.data, m.from + 1, m.to)]

\* The master has sent the first request only, or at least one segment.
Opening(m) ==
  /\ m.phase # "segments" /\ m.from = 0 /\ m.toggle = 16
  /\ m.to = Least(Len(m.data), DownloadRoom)

Midway(m) ==
  /\ m.phase # "initiated" /\ Reached(m.job)
  /\ m.from >= DownloadRoom /\ m.from < Len(m.data)
  /\ m.to = Least(Len(m.data), m.from + DownloadSegRoom)
  /\ m.from = DownloadRoom => m.toggle = 0

Pieces(m) == /\ m.job \in Jobs /\ m.data = Payload[m.job]
             /\ Opening(m) \/ Midway(m)

Queued(q, m) ==
  /\ \A i \in 1 .. Len(q) :
       q[i].cmd \in {"initiateDownload", "downloadSegment", "abort"}
  /\ \A i \in Inits(q) : q[i] = InitOf(m)
  /\ \A i \in Segments(q) :
       m.from > 0 /\ (q[i] = SegmentOf(m) \/ q[i].toggle # m.toggle)
  /\ \A i \in Segments(q) : \A j \in Inits(q) : j < i
  /\ \A i, j \in Segments(q) :
       i < j /\ q[i].toggle = m.toggle => q[j].toggle = m.toggle
  /\ Inits(q) # {} /\ m.from > 0 =>
       m.from = DownloadRoom /\ \A i \in Segments(q) : q[i] = SegmentOf(m)

\* The transfer is the master's, and so is the begin of its data.
Ours(m, s) ==
  /\ s.index = m.job.index /\ s.sub = m.job.sub /\ s.ca = m.job.ca
  /\ s.complete = Len(m.data) /\ Len(s.data) = Len(m.data)
  /\ \A k \in 1 .. s.handled : s.data[k] = m.data[k]

\* The server has not taken the present segment, or has taken it already.
Keeps(q, m, s) ==
  Alive(s) /\ Inits(q) = {} /\ (m.phase = "segments" \/ Segments(q) # {}) =>
    /\ Ours(m, s)
    /\ \/ /\ s.toggle # m.toggle /\ s.handled = m.from
          /\ \A i \in Segments(q) :
               q[i].toggle # m.toggle => q[i].toggle = s.toggle
       \/ /\ s.toggle = m.toggle /\ s.handled = m.to
          /\ \A i \in Segments(q) : q[i].toggle = m.toggle

\* What the answer to the present request tells.
Answered(q, a, m, s) ==
  /\ m.phase = "segments" /\ Acks(a) # {} =>
       /\ \A i, j \in Acks(a) : i = j
       /\ Inits(q) = {} /\ \A i \in Segments(q) : q[i].toggle = m.toggle
       /\ Alive(s) => s.toggle = m.toggle
  /\ m.phase = "initiated" =>
       /\ Acks(a) = {} /\ Segments(q) = {}
       /\ Begun(a) # {} =>
            /\ Reached(m.job)
            /\ m.to < Len(m.data) /\ Inits(q) = {} /\ Alive(s) =>
                 Ours(m, s) /\ s.toggle = 1 /\ s.handled = m.to

Downloads(q, a, m, s) ==
  Pieces(m) /\ Queued(q, m) /\ Keeps(q, m, s) /\ Answered(q, a, m, s)

(***************************************************************************)
(* The queues, with one request less or more.                              *)
(***************************************************************************)
LEMMA CommandsTail ==
  ASSUME NEW q \in Seq(RequestType), q # <<>>, NEW cmd
  PROVE  /\ Len(q) \in Nat /\ Len(q) > 0 /\ Head(q) = q[1]
         /\ Len(Tail(q)) = Len(q) - 1
         /\ \A i \in 1 .. Len(Tail(q)) : Tail(q)[i] = q[i + 1] /\ i + 1 \in 1 .. Len(q)
         /\ \A i \in Commands(Tail(q), cmd) :
              /\ i \in Nat /\ i > 0 /\ i + 1 \in Commands(q, cmd)
              /\ Tail(q)[i] = q[i + 1]
         /\ \A i \in Commands(q, cmd) : i > 1 => i - 1 \in Commands(Tail(q), cmd)
         /\ \A i \in Commands(q, cmd) : i \in Nat /\ i > 0
         /\ 1 \in Commands(q, cmd) <=> Head(q).cmd = cmd
<1> DEFINE t == Tail(q)
<1>1. /\ Len(q) \in Nat /\ Len(q) > 0
  BY EmptySeq, LenProperties
<1>2. Len(t) = Len(q) - 1 /\ \A i \in 1 .. Len(t) : t[i] = q[i + 1]
  BY HeadTailProperties
<1>3. Head(q) = q[1]
  OBVIOUS
<1> HIDE DEF t
<1> QED
  BY <1>1, <1>2, <1>3 DEF Commands, t

LEMMA CommandsAppend ==
  ASSUME NEW q \in Seq(RequestType), NEW r \in RequestType, NEW cmd
  PROVE  LET p == Append(q, r)
             n == Len(q) + 1
         IN  /\ Len(q) \in Nat /\ Len(p) = n /\ p[n] = r
             /\ \A i \in 1 .. Len(q) : p[i] = q[i]
             /\ Commands(p, cmd) = Commands(q, cmd)
                                   \cup (IF r.cmd = cmd THEN {n} ELSE {})
             /\ \A i \in Commands(q, cmd) : i \in Nat /\ i < n /\ p[i] = q[i]
<1> DEFINE p == Append(q, r)
<1>1. Len(q) \in Nat
  BY LenProperties
<1>2. /\ Len(p) = Len(q) + 1 /\ p[Len(q) + 1] = r
      /\ \A i \in 1 .. Len(q) : p[i] = q[i]
  BY AppendProperties
<1> HIDE DEF p
<1> QED
  BY <1>1, <1>2 DEF Commands, p

LEMMA RequestsTail ==
  ASSUME NEW q \in Seq(RequestType), q # <<>>
  PROVE  /\ \A i \in Inits(Tail(q)) :
              i \in Nat /\ i + 1 \in Inits(q) /\ Tail(q)[i] = q[i + 1]
         /\ \A i \in Segments(Tail(q)) :
              i \in Nat /\ i + 1 \in Segments(q) /\ Tail(q)[i] = q[i + 1]
<1> DEFINE t == Tail(q)
<1>1. /\ Len(q) \in Nat /\ Len(t) = Len(q) - 1
      /\ \A i \in 1 .. Len(t) : t[i] = q[i + 1]
  BY HeadTailProperties, LenProperties
<1> HIDE DEF t
<1>2. \A i \in Inits(t) : i \in Nat /\ i + 1 \in Inits(q) /\ t[i] = q[i + 1]
  BY <1>1 DEF Inits, Commands
<1>3. \A i \in Segments(t) :
        i \in Nat /\ i + 1 \in Segments(q) /\ t[i] = q[i + 1]
  BY <1>1 DEF Segments, Commands
<1> QED
  BY <1>2, <1>3 DEF t

LEMMA RequestsAppend ==
  ASSUME NEW q \in Seq(RequestType), NEW r \in RequestType
  PROVE  LET p == Append(q, r)
             n == Len(q) + 1
         IN  /\ Inits(p) = Inits(q) \cup
                             (IF r.cmd = "initiateDownload" THEN {n} ELSE {})
             /\ Segments(p) = Segments(q) \cup
                             (IF r.cmd = "downloadSegment" THEN {n} ELSE {})
             /\ p[n] = r
             /\ \A i \in Inits(q) : i \in Nat /\ i < n /\ p[i] = q[i]
             /\ \A i \in Segments(q) : i \in Nat /\ i < n /\ p[i] = q[i]
<1> DEFINE p == Append(q, r)
           n == Len(q) + 1
<1>1. /\ Len(q) \in Nat /\ Len(p) = n /\ p[n] = r
      /\ \A i \in 1 .. Len(q) : p[i] = q[i]
  BY AppendProperties, LenProperties
<1> HIDE DEF p
<1>2. /\ Inits(p) = Inits(q) \cup
                      (IF r.cmd = "initiateDownload" THEN {n} ELSE {})
      /\ \A i \in Inits(q) : i \in Nat /\ i < n /\ p[i] = q[i]
  BY <1>1 DEF Inits, Commands
<1>3. /\ Segments(p) = Segments(q) \cup
                      (IF r.cmd = "downloadSegment" THEN {n} ELSE {})
      /\ \A i \in Segments(q) : i \in Nat /\ i < n /\ p[i] = q[i]
  BY <1>1 DEF Segments, Commands
<1> QED
  BY <1>1, <1>2, <1>3 DEF p

LEMMA KindsTail ==
  ASSUME NEW a \in Seq(AnswerType), a # <<>>, NEW kind
  PROVE  /\ \A i \in Kinds(Tail(a), kind) :
              i \in Nat /\ i > 0 /\ i + 1 \in Kinds(a, kind)
         /\ 1 \in Kinds(a, kind) <=> Head(a).kind = kind
<1> DEFINE t == Tail(a)
<1>1. /\ Len(a) \in Nat /\ Len(a) > 0
  BY EmptySeq, LenProperties
<1>2. Len(t) = Len(a) - 1 /\ \A i \in 1 .. Len(t) : t[i] = a[i + 1]
  BY HeadTailProperties
<1>3. Head(a) = a[1]
  OBVIOUS
<1> HIDE DEF t
<1> QED
  BY <1>1, <1>2, <1>3 DEF Kinds, t

LEMMA KindsAppend ==
  ASSUME NEW a \in Seq(AnswerType), NEW answer \in AnswerType, NEW kind
  PROVE  Kinds(Append(a, answer), kind) =
           Kinds(a, kind) \cup (IF answer.kind = kind THEN {Len(a) + 1} ELSE {})
<1> DEFINE p == Append(a, answer)
<1>1. Len(a) \in Nat
  BY LenProperties
<1>2. /\ Len(p) = Len(a) + 1 /\ p[Len(a) + 1] = answer
      /\ \A i \in 1 .. Len(a) : p[i] = a[i]
  BY AppendProperties
<1> HIDE DEF p
<1> QED
  BY <1>1, <1>2 DEF Kinds, p

LEMMA AnswersAppend ==
  ASSUME NEW a \in Seq(AnswerType), NEW answer \in AnswerType
  PROVE  LET b == Append(a, answer)
             n == Len(a) + 1
         IN  /\ Begun(b) = Begun(a) \cup
                             (IF answer.kind = "download" THEN {n} ELSE {})
             /\ Acks(b) = Acks(a) \cup
                            (IF answer.kind = "downloadSegment" THEN {n} ELSE {})
<1> DEFINE b == Append(a, answer)
           n == Len(a) + 1
<1>1. ASSUME NEW kind
      PROVE  Kinds(b, kind) = Kinds(a, kind) \cup
                              (IF answer.kind = kind THEN {n} ELSE {})
  BY KindsAppend
<1> HIDE DEF b, n
<1> QED
  BY <1>1 DEF Begun, Acks, b, n

LEMMA QueuedTail ==
  ASSUME NEW q \in Seq(RequestType), q # <<>>, NEW m, Queued(q, m)
  PROVE  Queued(Tail(q), m)
<1> DEFINE t == Tail(q)
<1>1. \A i \in Inits(t) : i \in Nat /\ i + 1 \in Inits(q) /\ t[i] = q[i + 1]
  BY RequestsTail
<1>2. \A i \in Segments(t) : i \in Nat /\ i + 1 \in Segments(q) /\ t[i] = q[i + 1]
  BY RequestsTail
<1>3. \A i \in 1 .. Len(t) : t[i] = q[i + 1] /\ i + 1 \in 1 .. Len(q)
  BY CommandsTail
<1> HIDE DEF t
<1>4. \A i \in Segments(t) : \A j \in Inits(t) : j < i
  <2>1. \A i \in Segments(t) : \A j \in Inits(t) : j + 1 < i + 1
    BY <1>1, <1>2 DEF Queued
  <2> QED
    BY <1>1, <1>2, <2>1
<1>5. \A i, j \in Segments(t) :
        i < j /\ t[i].toggle = m.toggle => t[j].toggle = m.toggle
  <2> SUFFICES ASSUME NEW i \in Segments(t), NEW j \in Segments(t), i < j,
                      t[i].toggle = m.toggle
               PROVE  t[j].toggle = m.toggle
    OBVIOUS
  <2>1. i + 1 < j + 1
    BY <1>2
  <2> QED
    BY <1>2, <2>1 DEF Queued
<1>6. \A i \in 1 .. Len(t) :
        t[i].cmd \in {"initiateDownload", "downloadSegment", "abort"}
  BY <1>3 DEF Queued
<1>7. \A i \in Inits(t) : t[i] = InitOf(m)
  BY <1>1 DEF Queued
<1>8. \A i \in Segments(t) :
        m.from > 0 /\ (t[i] = SegmentOf(m) \/ t[i].toggle # m.toggle)
  BY <1>2 DEF Queued
<1>9. Inits(t) # {} /\ m.from > 0 =>
        m.from = DownloadRoom /\ \A i \in Segments(t) : t[i] = SegmentOf(m)
  BY <1>1, <1>2 DEF Queued
<1> QED
  BY <1>4, <1>5, <1>6, <1>7, <1>8, <1>9 DEF Queued, t

LEMMA QueuedTyped ==
  ASSUME NEW m, MasterGood(m), Pieces(m)
  PROVE  /\ m.job \in Jobs /\ Len(m.data) \in Nat /\ m.from \in Nat /\ m.to \in Nat
         /\ m.to <= Len(m.data) /\ m.from >= 0
         /\ DownloadRoom \in Nat /\ DownloadRoom > 0 /\ DownloadSegRoom \in Nat
         /\ DownloadSegRoom > 0
         /\ m.from > 0 => Midway(m)
         /\ m.from = 0 => Opening(m)
         /\ m.phase = "segments" => m.from > 0
         /\ m.phase = "initiated" => m.from = 0
<1>1. /\ Len(m.data) \in Nat /\ m.from \in Nat /\ m.to \in Nat /\ m.to <= Len(m.data)
  BY LenProperties DEF MasterGood
<1>2. /\ DownloadRoom \in Nat /\ DownloadRoom > 0 /\ DownloadSegRoom \in Nat
      /\ DownloadSegRoom > 0
  BY ListRooms
<1> QED
  BY <1>1, <1>2 DEF Pieces, Opening, Midway

(***************************************************************************)
(* The server takes a request.                                             *)
(***************************************************************************)
\* One that is refused.
LEMMA RefusedDownloads ==
  ASSUME NEW q \in Seq(RequestType), q # <<>>, NEW a \in Seq(AnswerType),
         NEW m, MasterGood(m), NEW s, NEW t, NEW answer \in AnswerType,
         Downloads(q, a, m, s), answer.kind \notin {"download", "downloadSegment"},
         \/ ~Alive(t)
         \/ t = s /\ (Head(q).cmd # "initiateDownload" \/ ~Reached(m.job))
  PROVE  Downloads(Tail(q), Append(a, answer), m, t)
<1> DEFINE p == Tail(q)
           b == Append(a, answer)
<1>1. Queued(p, m)
  BY QueuedTail DEF Downloads
<1>2. Acks(b) = Acks(a) /\ Begun(b) = Begun(a)
  BY AnswersAppend
<1>3. \A i \in Segments(p) : i + 1 \in Segments(q) /\ p[i] = q[i + 1]
  BY RequestsTail
<1>4. /\ \A i \in Inits(p) : i + 1 \in Inits(q)
      /\ Head(q).cmd # "initiateDownload" => (Inits(p) = {} => Inits(q) = {})
  <2>1. /\ \A i \in Inits(p) : i + 1 \in Inits(q)
        /\ \A i \in Inits(q) : i \in Nat /\ i > 0 /\ (i > 1 => i - 1 \in Inits(p))
        /\ 1 \in Inits(q) <=> Head(q).cmd = "initiateDownload"
    BY CommandsTail DEF Inits
  <2> HIDE DEF p
  <2>2. ASSUME Head(q).cmd # "initiateDownload", NEW i \in Inits(q)
        PROVE  Inits(p) # {}
    <3>1. i # 1
      BY <2>1, <2>2
    <3>2. i > 1
      BY <2>1, <3>1
    <3> QED
      BY <2>1, <3>2
  <2> QED
    BY <2>1, <2>2
<1>5. ~Reached(m.job) => m.from = 0 /\ m.phase # "segments" /\ Segments(q) = {}
  BY QueuedTyped DEF Downloads, Queued, Midway
<1> HIDE DEF p, b
<1>6. Keeps(p, m, t)
  BY <1>3, <1>4, <1>5 DEF Downloads, Keeps
<1>7. Answered(p, b, m, t)
  BY <1>2, <1>3, <1>4 DEF Downloads, Answered
<1> QED
  BY <1>1, <1>6, <1>7 DEF Downloads, p, b

\* The first request is served.
LEMMA FirstServed ==
  ASSUME NEW q \in Seq(RequestType), q # <<>>, NEW a \in Seq(AnswerType),
         NEW m, MasterGood(m), NEW s, NEW t, NEW answer \in AnswerType,
         Downloads(q, a, m, s), Head(q).cmd = "initiateDownload", Reached(m.job),
         \/ Len(m.data) <= DownloadRoom /\ answer.kind \in {"abort", "download"}
         \/ /\ Len(m.data) > DownloadRoom /\ answer.kind = "download"
            /\ Ours(m, t) /\ t.toggle = 1 /\ t.handled = DownloadRoom
  PROVE  Downloads(Tail(q), Append(a, answer), m, t)
<1> DEFINE p == Tail(q)
           b == Append(a, answer)
<1>1. Queued(p, m)
  BY QueuedTail DEF Downloads
<1>2. Acks(b) = Acks(a)
  BY AnswersAppend
<1>3. \A i \in Segments(p) : i + 1 \in Segments(q) /\ p[i] = q[i + 1]
  BY RequestsTail
<1>4. Inits(q) # {}
  BY CommandsTail DEF Inits
<1>5. m.phase = "segments" => Acks(a) = {}
  BY <1>4 DEF Downloads, Answered
<1>6. /\ Len(m.data) \in Nat /\ m.from \in Nat /\ DownloadRoom \in Nat
      /\ m.from > 0 => Midway(m)
      /\ m.from = 0 => Opening(m)
      /\ m.phase = "segments" => m.from > 0
      /\ m.phase = "initiated" => m.from = 0
  BY QueuedTyped DEF Downloads
<1> HIDE DEF p, b
<1>7. CASE Len(m.data) <= DownloadRoom
  <2>1. m.from = 0 /\ m.phase # "segments" /\ Segments(q) = {}
    BY <1>6, <1>7 DEF Midway, Downloads, Queued
  <2>2. m.to = Len(m.data)
    BY <1>6, <1>7, <2>1 DEF Opening, Least
  <2>3. Keeps(p, m, t)
    BY <1>3, <2>1 DEF Keeps
  <2>4. Answered(p, b, m, t)
    BY <1>2, <1>3, <1>6, <2>1, <2>2 DEF Downloads, Answered
  <2> QED
    BY <1>1, <2>3, <2>4 DEF Downloads, p, b
<1>8. CASE /\ Len(m.data) > DownloadRoom /\ answer.kind = "download"
           /\ Ours(m, t) /\ t.toggle = 1 /\ t.handled = DownloadRoom
  <2>1. Keeps(p, m, t)
    <3> SUFFICES ASSUME m.phase = "segments" \/ Segments(p) # {}
                 PROVE  /\ t.toggle # m.toggle /\ t.handled = m.from
                        /\ \A i \in Segments(p) :
                             p[i].toggle # m.toggle => p[i].toggle = t.toggle
      BY <1>8 DEF Keeps
    <3>1. m.from > 0
      BY <1>3, <1>6 DEF Downloads, Queued
    <3>2. m.from = DownloadRoom /\ \A i \in Segments(q) : q[i] = SegmentOf(m)
      BY <1>4, <3>1 DEF Downloads, Queued
    <3>3. m.toggle = 0
      BY <1>6, <3>1, <3>2 DEF Midway
    <3>4. \A i \in Segments(p) : p[i].toggle = m.toggle
      BY <1>3, <3>2 DEF SegmentOf
    <3> QED
      BY <1>8, <3>2, <3>3, <3>4
  <2>2. m.phase = "initiated" => m.to = DownloadRoom /\ Segments(p) = {}
    BY <1>3, <1>6, <1>8 DEF Opening, Least, Downloads, Answered
  <2>3. Answered(p, b, m, t)
    BY <1>2, <1>5, <1>8, <2>2 DEF Downloads, Answered
  <2> QED
    BY <1>1, <2>1, <2>3 DEF Downloads, p, b
<1> QED
  BY <1>7, <1>8

\* The present segment is the one that the server waits for.
Due(m, s) == s.toggle # m.toggle /\ s.handled = m.from

\* A segment that the server takes is the present one of the master.
LEMMA TakenSegment ==
  ASSUME NEW q \in Seq(RequestType), q # <<>>, NEW a, NEW m, MasterGood(m), NEW s,
         Downloads(q, a, m, s), Head(q).cmd = "downloadSegment", Alive(s),
         Head(q).toggle # s.toggle
  PROVE  /\ Head(q) = SegmentOf(m) /\ Inits(q) = {} /\ Ours(m, s) /\ m.from > 0
         /\ Due(m, s)
         /\ m.phase # "initiated" /\ (m.phase = "segments" => Acks(a) = {})
         /\ \A i \in Segments(q) : q[i].toggle = m.toggle
<1>1. /\ 1 \in Segments(q) /\ Head(q) = q[1]
      /\ \A i \in Segments(q) : i \in Nat /\ i > 0
  BY CommandsTail DEF Segments
<1>2. Inits(q) = {}
  <2>1. \A j \in Inits(q) : j \in Nat /\ j > 0
    BY CommandsTail DEF Inits
  <2>2. \A j \in Inits(q) : j < 1
    BY <1>1 DEF Downloads, Queued
  <2> QED
    BY <2>1, <2>2
<1>3. /\ Ours(m, s) /\ s.toggle # m.toggle /\ s.handled = m.from
      /\ q[1].toggle # m.toggle => q[1].toggle = s.toggle
  BY <1>1, <1>2 DEF Downloads, Keeps
<1>4. q[1] = SegmentOf(m) /\ m.from > 0 /\ q[1].toggle = m.toggle
  BY <1>1, <1>3 DEF Downloads, Queued
<1>5. \A i \in Segments(q) : q[i].toggle = m.toggle
  <2> SUFFICES ASSUME NEW i \in Segments(q) PROVE q[i].toggle = m.toggle
    OBVIOUS
  <2>1. i = 1 \/ 1 < i
    BY <1>1
  <2> QED
    BY <1>1, <1>4, <2>1 DEF Downloads, Queued
<1>6. m.phase # "initiated" /\ (m.phase = "segments" => Acks(a) = {})
  BY <1>1, <1>3 DEF Downloads, Answered
<1> QED
  BY <1>1, <1>2, <1>3, <1>4, <1>5, <1>6 DEF Due

LEMMA SegmentServed ==
  ASSUME NEW q \in Seq(RequestType), q # <<>>, NEW a \in Seq(AnswerType),
         NEW m, MasterGood(m), NEW s, NEW t, NEW answer \in AnswerType,
         Downloads(q, a, m, s), Head(q).cmd = "downloadSegment", Alive(s),
         Head(q).toggle # s.toggle, answer.kind = "downloadSegment",
         ~Alive(t) \/ (Ours(m, t) /\ t.toggle = m.toggle /\ t.handled = m.to)
  PROVE  Downloads(Tail(q), Append(a, answer), m, t)
<1> DEFINE p == Tail(q)
           b == Append(a, answer)
<1>1. Queued(p, m)
  BY QueuedTail DEF Downloads
<1>2. Acks(b) = Acks(a) \cup {Len(a) + 1}
  BY AnswersAppend
<1>3. \A i \in Segments(p) : i + 1 \in Segments(q) /\ p[i] = q[i + 1]
  BY RequestsTail
<1>4. \A i \in Inits(p) : i + 1 \in Inits(q)
  BY RequestsTail
<1>5. /\ Inits(q) = {} /\ m.phase # "initiated"
      /\ m.phase = "segments" => Acks(a) = {}
  BY TakenSegment
<1>8. \A i \in Segments(q) : q[i].toggle = m.toggle
  BY TakenSegment
<1> HIDE DEF p, b
<1>6. Keeps(p, m, t)
  BY <1>3, <1>5, <1>8 DEF Keeps
<1>7. Answered(p, b, m, t)
  BY <1>2, <1>3, <1>4, <1>5, <1>8 DEF Answered
<1> QED
  BY <1>1, <1>6, <1>7 DEF Downloads, p, b

(***************************************************************************)
(* The master goes on.                                                     *)
(***************************************************************************)
\* Where it has come to, its phase aside, stays; it leaves the job, or not,
\* and an answer is taken, or not.
SamePlace(m, n) ==
  /\ n.job = m.job /\ n.data = m.data /\ n.from = m.from /\ n.to = m.to
  /\ n.toggle = m.toggle /\ n.phase \in {"idle", m.phase}

LEMMA LeftDownloads ==
  ASSUME NEW q \in Seq(RequestType), NEW a, NEW b, NEW m, NEW n, NEW s,
         Downloads(q, a, m, s), SamePlace(m, n),
         \/ b = a
         \/ a \in Seq(AnswerType) /\ a # <<>> /\ b = Tail(a)
         \/ Begun(b) = {} /\ Acks(b) = {}
  PROVE  Downloads(q, b, n, s)
<1>1. /\ Begun(b) # {} => Begun(a) # {}
      /\ Acks(b) # {} => Acks(a) # {}
      /\ \A i, j \in Acks(b) : (\A k, l \in Acks(a) : k = l) => i = j
  <2>1. CASE b = a
    BY <2>1
  <2>2. CASE a \in Seq(AnswerType) /\ a # <<>> /\ b = Tail(a)
    <3>1. \A i \in Acks(b) : i \in Nat /\ i + 1 \in Acks(a)
      BY <2>2, KindsTail DEF Acks
    <3>2. \A i \in Begun(b) : i \in Nat /\ i + 1 \in Begun(a)
      BY <2>2, KindsTail DEF Begun
    <3> QED
      BY <3>1, <3>2
  <2>3. CASE Begun(b) = {} /\ Acks(b) = {}
    BY <2>3
  <2> QED
    BY <2>1, <2>2, <2>3
<1>2. InitOf(n) = InitOf(m) /\ SegmentOf(n) = SegmentOf(m)
  BY DEF SamePlace, InitOf, SegmentOf
<1>3. Pieces(n)
  BY DEF Downloads, Pieces, SamePlace, Opening, Midway
<1>4. Queued(q, n)
  BY <1>2 DEF Downloads, Queued, SamePlace
<1>5. Ours(n, s) <=> Ours(m, s)
  BY DEF Ours, SamePlace
<1>6. m.phase = "initiated" => Segments(q) = {}
  BY DEF Downloads, Answered
<1>7. Keeps(q, n, s)
  BY <1>5 DEF Downloads, Keeps, SamePlace
<1>8. Answered(q, b, n, s)
  BY <1>1, <1>5 DEF Downloads, Answered, SamePlace
<1> QED
  BY <1>3, <1>4, <1>7, <1>8 DEF Downloads

LEMMA AbortAppended ==
  ASSUME NEW q \in Seq(RequestType), NEW a, NEW m, NEW s, Downloads(q, a, m, s)
  PROVE  Downloads(Append(q, [cmd |-> "abort"]), a, m, s)
<1> DEFINE r == [cmd |-> "abort"]
           p == Append(q, r)
<1>1. r \in RequestType /\ r.cmd = "abort"
  BY DEF RequestType
<1> HIDE DEF r
<1>2. Inits(p) = Inits(q) /\ Segments(p) = Segments(q)
  <2>1. r.cmd # "initiateDownload" /\ r.cmd # "downloadSegment"
    BY <1>1
  <2>2. Inits(p) = Inits(q) \cup {} /\ Segments(p) = Segments(q) \cup {}
    BY <1>1, <2>1, RequestsAppend
  <2> QED
    BY <2>2
<1>3. /\ \A i \in Inits(q) : p[i] = q[i]
      /\ \A i \in Segments(q) : p[i] = q[i]
  BY <1>1, RequestsAppend
<1>4. \A i \in 1 .. Len(p) : (i \in 1 .. Len(q) /\ p[i] = q[i]) \/ p[i] = r
  <2>1. /\ Len(q) \in Nat /\ Len(p) = Len(q) + 1 /\ p[Len(q) + 1] = r
        /\ \A i \in 1 .. Len(q) : p[i] = q[i]
    BY <1>1, CommandsAppend
  <2> HIDE DEF p
  <2> QED
    BY <2>1
<1> HIDE DEF p
<1>5. Queued(p, m)
  BY <1>1, <1>2, <1>3, <1>4 DEF Downloads, Queued
<1>6. Keeps(p, m, s)
  BY <1>2, <1>3 DEF Downloads, Keeps
<1>7. Answered(p, a, m, s)
  BY <1>2, <1>3 DEF Downloads, Answered
<1> QED
  BY <1>5, <1>6, <1>7 DEF Downloads, p, r

\* The request is made again.
LEMMA AskedAgain ==
  ASSUME NEW m, MasterGood(m), m.job.op = "download", m.phase # "idle", Pieces(m)
  PROVE  Asked(m) = IF m.phase = "initiated" THEN InitOf(m) ELSE SegmentOf(m)
<1>1. CASE m.phase = "initiated"
  <2>1. Opening(m)
    BY <1>1 DEF Pieces, Midway
  <2>2. m.from + 1 = 1 /\ m.to = Least(Len(m.data), DownloadRoom)
    BY <2>1 DEF Opening
  <2> QED
    BY <1>1, <2>2 DEF Asked, InitOf
<1>2. CASE m.phase = "segments"
  BY <1>2 DEF Asked, SegmentOf
<1> QED
  BY <1>1, <1>2 DEF MasterGood

LEMMA AgainDownloads ==
  ASSUME NEW q \in Seq(RequestType), NEW a, NEW m, MasterGood(m), NEW s,
         m.job.op = "download", m.phase # "idle", Downloads(q, a, m, s)
  PROVE  Downloads(Append(q, Asked(m)), a, m, s)
<1> DEFINE r == Asked(m)
           p == Append(q, r)
           n == Len(q) + 1
<1>1. r \in RequestType
  BY AskedType
<1>2. /\ m.phase = "initiated" => r = InitOf(m) /\ r.cmd = "initiateDownload"
      /\ m.phase = "segments" =>
           /\ r = SegmentOf(m) /\ r.cmd = "downloadSegment"
           /\ r.toggle = m.toggle
  BY AskedAgain DEF Downloads, InitOf, SegmentOf
<1>3. m.phase \in {"initiated", "segments"}
  BY DEF MasterGood
<1> HIDE DEF r
<1>4. /\ Inits(p) = Inits(q) \cup
                      (IF r.cmd = "initiateDownload" THEN {n} ELSE {})
      /\ Segments(p) = Segments(q) \cup
                         (IF r.cmd = "downloadSegment" THEN {n} ELSE {})
      /\ p[n] = r
      /\ \A i \in Inits(q) : i \in Nat /\ i < n /\ p[i] = q[i]
      /\ \A i \in Segments(q) : i \in Nat /\ i < n /\ p[i] = q[i]
  BY <1>1, RequestsAppend
<1>5. \A i \in 1 .. Len(p) : (i \in 1 .. Len(q) /\ p[i] = q[i]) \/ p[i] = r
  <2>1. /\ Len(q) \in Nat /\ Len(p) = Len(q) + 1 /\ p[Len(q) + 1] = r
        /\ \A i \in 1 .. Len(q) : p[i] = q[i]
    BY <1>1, CommandsAppend
  <2> HIDE DEF p
  <2> QED
    BY <2>1
<1>6. n \in Nat
  BY LenProperties
<1>7. /\ m.phase = "segments" => m.from > 0
      /\ m.phase = "initiated" => m.from = 0 /\ Segments(q) = {}
  BY QueuedTyped DEF Downloads, Answered
<1> HIDE DEF p, n
<1>8. CASE m.phase = "initiated"
  <2>1. /\ r = InitOf(m) /\ m.from = 0 /\ Segments(p) = {}
        /\ Inits(p) = Inits(q) \cup {n} /\ r.cmd = "initiateDownload"
    BY <1>2, <1>4, <1>7, <1>8
  <2>2. \A i \in Inits(p) : p[i] = InitOf(m)
    BY <1>4, <2>1 DEF Downloads, Queued
  <2>3. \A i \in 1 .. Len(p) :
          p[i].cmd \in {"initiateDownload", "downloadSegment", "abort"}
    BY <1>5, <2>1 DEF Downloads, Queued
  <2>4. Queued(p, m)
    BY <2>1, <2>2, <2>3 DEF Queued
  <2>5. Keeps(p, m, s)
    BY <1>8, <2>1 DEF Keeps
  <2>6. Answered(p, a, m, s)
    BY <1>8, <2>1 DEF Downloads, Answered
  <2> QED
    BY <2>4, <2>5, <2>6 DEF Downloads, p, r
<1>9. CASE m.phase = "segments"
  <2>1. /\ r = SegmentOf(m) /\ r.toggle = m.toggle /\ m.from > 0
        /\ Inits(p) = Inits(q) /\ Segments(p) = Segments(q) \cup {n}
        /\ r.cmd = "downloadSegment"
    BY <1>2, <1>4, <1>7, <1>9
  <2>2. /\ \A i \in Inits(p) : p[i] = InitOf(m)
        /\ \A i \in Segments(p) : i # n => i \in Segments(q) /\ p[i] = q[i] /\ i < n
        /\ p[n] = SegmentOf(m) /\ p[n].toggle = m.toggle
    BY <1>4, <2>1 DEF Downloads, Queued
  <2>3. \A i \in 1 .. Len(p) :
          p[i].cmd \in {"initiateDownload", "downloadSegment", "abort"}
    BY <1>5, <2>1 DEF Downloads, Queued
  <2>4. \A i \in Segments(p) : \A j \in Inits(p) : j < i
    BY <1>4, <2>1, <2>2 DEF Downloads, Queued
  <2>5. \A i, j \in Segments(p) :
          i < j /\ p[i].toggle = m.toggle => p[j].toggle = m.toggle
    <3> SUFFICES ASSUME NEW i \in Segments(p), NEW j \in Segments(p), i < j,
                        p[i].toggle = m.toggle, j # n
                 PROVE  p[j].toggle = m.toggle
      BY <2>2
    <3>1. i # n
      <4>1. j \in Nat /\ j < n
        BY <1>4, <2>2
      <4> QED
        BY <1>6, <4>1
    <3>2. /\ i \in Segments(q) /\ j \in Segments(q)
          /\ p[i] = q[i] /\ p[j] = q[j]
      BY <2>2, <3>1
    <3> QED
      BY <3>2 DEF Downloads, Queued
  <2>6. Queued(p, m)
    BY <2>1, <2>2, <2>3, <2>4, <2>5 DEF Downloads, Queued
  <2>7. Keeps(p, m, s)
    BY <1>9, <2>1, <2>2 DEF Downloads, Keeps
  <2>8. Answered(p, a, m, s)
    BY <1>9, <2>1, <2>2 DEF Downloads, Answered
  <2> QED
    BY <2>6, <2>7, <2>8 DEF Downloads, p, r
<1> QED
  BY <1>3, <1>8, <1>9

\* The next segment, when the piece before has been answered.
LEMMA OpenedDownloads ==
  ASSUME NEW q \in Seq(RequestType), NEW a \in Seq(AnswerType), a # <<>>,
         NEW m, MasterGood(m), NEW n, MasterGood(n), NEW s,
         m.job.op = "download", Downloads(q, a, m, s),
         m.phase = "initiated", Head(a).kind = "download", m.to # Len(m.data),
         n.job = m.job, n.data = m.data, n.phase = "segments",
         n.from = m.to, n.to = Least(Len(m.data), m.to + DownloadSegRoom),
         n.toggle = 16 - m.toggle
  PROVE  Downloads(Append(q, SegmentOf(n)), Tail(a), n, s) /\ Acks(Tail(a)) = {}
<1> DEFINE r == SegmentOf(n)
           p == Append(q, r)
           b == Tail(a)
           k == Len(q) + 1
<1>1. /\ Opening(m) /\ m.from = 0 /\ Len(m.data) \in Nat /\ m.to \in Nat
      /\ DownloadRoom \in Nat /\ DownloadRoom > 0
  BY QueuedTyped DEF Downloads
<1>2. m.to = DownloadRoom /\ m.to < Len(m.data) /\ n.toggle = 0
  BY <1>1 DEF Opening, Least
<1>3. Reached(m.job) /\ Segments(q) = {} /\ Acks(a) = {}
  <2>1. Begun(a) # {}
    BY KindsTail DEF Begun
  <2> QED
    BY <2>1 DEF Downloads, Answered
<1>4. Pieces(n)
  BY <1>1, <1>2, <1>3 DEF Downloads, Pieces, Midway
<1>5. r \in RequestType /\ r.cmd = "downloadSegment" /\ r.toggle = n.toggle
  <2>1. Asked(n) = SegmentOf(n)
    BY <1>4, AskedAgain
  <2> QED
    BY <2>1, AskedType DEF SegmentOf
<1> HIDE DEF r
<1>6. /\ Inits(p) = Inits(q) /\ Segments(p) = {k} /\ p[k] = r
      /\ \A i \in Inits(q) : i \in Nat /\ i < k /\ p[i] = q[i]
  <2>1. /\ Inits(p) = Inits(q) \cup
                        (IF r.cmd = "initiateDownload" THEN {k} ELSE {})
        /\ Segments(p) = Segments(q) \cup
                           (IF r.cmd = "downloadSegment" THEN {k} ELSE {})
        /\ p[k] = r
        /\ \A i \in Inits(q) : i \in Nat /\ i < k /\ p[i] = q[i]
    BY <1>5, RequestsAppend
  <2> HIDE DEF p, k
  <2> QED
    BY <1>3, <1>5, <2>1
<1>7. \A i \in 1 .. Len(p) : (i \in 1 .. Len(q) /\ p[i] = q[i]) \/ p[i] = r
  <2>1. /\ Len(q) \in Nat /\ Len(p) = Len(q) + 1 /\ p[Len(q) + 1] = r
        /\ \A i \in 1 .. Len(q) : p[i] = q[i]
    BY <1>5, CommandsAppend
  <2> HIDE DEF p
  <2> QED
    BY <2>1
<1>8. Acks(b) = {}
  BY <1>3, KindsTail DEF Acks
<1>9. k \in Nat
  BY LenProperties
<1> HIDE DEF p, b, k
<1>10. Queued(p, n)
  <2>1. InitOf(n) = InitOf(m)
    BY DEF InitOf
  <2>2. \A i \in 1 .. Len(p) :
          p[i].cmd \in {"initiateDownload", "downloadSegment", "abort"}
    BY <1>5, <1>7 DEF Downloads, Queued
  <2>3. \A i \in Inits(p) : p[i] = InitOf(n)
    BY <1>6, <2>1 DEF Downloads, Queued
  <2> QED
    BY <1>1, <1>2, <1>6, <1>9, <2>2, <2>3 DEF Queued, r
<1>11. Keeps(p, n, s)
  <2> SUFFICES ASSUME Alive(s), Inits(p) = {}
               PROVE  Ours(n, s) /\ s.toggle # n.toggle /\ s.handled = n.from
    BY <1>5, <1>6 DEF Keeps
  <2>1. Begun(a) # {}
    BY KindsTail DEF Begun
  <2>2. Ours(m, s) /\ s.toggle = 1 /\ s.handled = m.to
    BY <1>2, <1>6, <2>1 DEF Downloads, Answered
  <2> QED
    BY <1>2, <2>2 DEF Ours
<1>12. Answered(p, b, n, s)
  BY <1>8 DEF Answered
<1> QED
  BY <1>4, <1>8, <1>10, <1>11, <1>12 DEF Downloads, p, r, b

LEMMA NextDownloads ==
  ASSUME NEW q \in Seq(RequestType), NEW a \in Seq(AnswerType), a # <<>>,
         NEW m, MasterGood(m), NEW n, MasterGood(n), NEW s,
         m.job.op = "download", Downloads(q, a, m, s),
         m.phase = "segments", Head(a).kind = "downloadSegment",
         m.to # Len(m.data),
         n.job = m.job, n.data = m.data, n.phase = "segments",
         n.from = m.to, n.to = Least(Len(m.data), m.to + DownloadSegRoom),
         n.toggle = 16 - m.toggle
  PROVE  Downloads(Append(q, SegmentOf(n)), Tail(a), n, s) /\ Acks(Tail(a)) = {}
<1> DEFINE r == SegmentOf(n)
           p == Append(q, r)
           b == Tail(a)
           k == Len(q) + 1
<1>1. /\ Midway(m) /\ Len(m.data) \in Nat /\ m.to \in Nat /\ m.from \in Nat
      /\ DownloadRoom \in Nat /\ DownloadRoom > 0
      /\ DownloadSegRoom \in Nat /\ DownloadSegRoom > 0
  BY QueuedTyped DEF Downloads
<1>2. m.to > m.from /\ m.to < Len(m.data) /\ m.from >= DownloadRoom
  BY <1>1 DEF Midway, Least
<1>3. m.toggle \in {0, 16} /\ n.toggle # m.toggle
  BY DEF MasterGood
<1>4. /\ 1 \in Acks(a) /\ \A i, j \in Acks(a) : i = j
      /\ Inits(q) = {} /\ \A i \in Segments(q) : q[i].toggle = m.toggle
      /\ Alive(s) => s.toggle = m.toggle
  <2>1. 1 \in Acks(a)
    BY KindsTail DEF Acks
  <2> QED
    BY <2>1 DEF Downloads, Answered
<1>5. Pieces(n)
  <2>1. m.job \in Jobs /\ m.data = Payload[m.job]
    BY DEF Downloads, Pieces
  <2> QED
    BY <1>1, <1>2, <2>1 DEF Pieces, Midway
<1>6. r \in RequestType /\ r.cmd = "downloadSegment" /\ r.toggle = n.toggle
  <2>1. Asked(n) = SegmentOf(n)
    BY <1>5, AskedAgain
  <2> QED
    BY <2>1, AskedType DEF SegmentOf
<1> HIDE DEF r
<1>7. /\ Inits(p) = {} /\ Segments(p) = Segments(q) \cup {k} /\ p[k] = r
      /\ \A i \in Segments(q) : i \in Nat /\ i < k /\ p[i] = q[i]
  <2>1. /\ Inits(p) = Inits(q) \cup
                        (IF r.cmd = "initiateDownload" THEN {k} ELSE {})
        /\ Segments(p) = Segments(q) \cup
                           (IF r.cmd = "downloadSegment" THEN {k} ELSE {})
        /\ p[k] = r
        /\ \A i \in Segments(q) : i \in Nat /\ i < k /\ p[i] = q[i]
    BY <1>6, RequestsAppend
  <2> HIDE DEF p, k
  <2> QED
    BY <1>4, <1>6, <2>1
<1>8. \A i \in 1 .. Len(p) : (i \in 1 .. Len(q) /\ p[i] = q[i]) \/ p[i] = r
  <2>1. /\ Len(q) \in Nat /\ Len(p) = Len(q) + 1 /\ p[Len(q) + 1] = r
        /\ \A i \in 1 .. Len(q) : p[i] = q[i]
    BY <1>6, CommandsAppend
  <2> HIDE DEF p
  <2> QED
    BY <2>1
<1>9. Acks(b) = {}
  <2>1. \A i \in Acks(b) : i \in Nat /\ i > 0 /\ i + 1 \in Acks(a)
    BY KindsTail DEF Acks
  <2>2. \A i \in Acks(b) : i + 1 = 1
    BY <1>4, <2>1
  <2> QED
    BY <2>1, <2>2
<1>10. k \in Nat
  BY LenProperties
<1> HIDE DEF p, b, k
<1>11. \A i \in Segments(p) :
         \/ i = k /\ p[i] = r
         \/ i \in Segments(q) /\ p[i].toggle = m.toggle /\ i < k
  BY <1>4, <1>7
<1>12. Queued(p, n)
  <2>1. \A i \in 1 .. Len(p) :
          p[i].cmd \in {"initiateDownload", "downloadSegment", "abort"}
    BY <1>6, <1>8 DEF Downloads, Queued
  <2>2. \A i, j \in Segments(p) :
          i < j /\ p[i].toggle = n.toggle => p[j].toggle = n.toggle
    <3> SUFFICES ASSUME NEW i \in Segments(p), NEW j \in Segments(p), i < j,
                        p[i].toggle = n.toggle
                 PROVE  p[j].toggle = n.toggle
      OBVIOUS
    <3>1. i = k
      BY <1>3, <1>11
    <3>2. ~(j < k)
      BY <1>10, <3>1, <1>7, <1>11
    <3> QED
      BY <1>6, <1>11, <3>2
  <2>3. \A i \in Segments(p) :
          n.from > 0 /\ (p[i] = r \/ p[i].toggle # n.toggle)
    BY <1>1, <1>2, <1>3, <1>11
  <2> QED
    BY <1>7, <2>1, <2>2, <2>3 DEF Queued, r
<1>13. Keeps(p, n, s)
  <2> SUFFICES ASSUME Alive(s)
               PROVE  /\ Ours(n, s) /\ s.toggle # n.toggle /\ s.handled = n.from
                      /\ \A i \in Segments(p) :
                           p[i].toggle # n.toggle => p[i].toggle = s.toggle
    BY DEF Keeps
  <2>1. Ours(m, s) /\ s.toggle = m.toggle /\ s.handled = m.to
    BY <1>4 DEF Downloads, Keeps
  <2> QED
    BY <1>3, <1>6, <1>11, <2>1 DEF Ours
<1>14. Answered(p, b, n, s)
  BY <1>9 DEF Answered
<1> QED
  BY <1>5, <1>9, <1>12, <1>13, <1>14 DEF Downloads, p, r, b

\* A download begins.
LEMMA StartedDownloads ==
  ASSUME NEW m, MasterGood(m), m.job.op = "download", m.job \in Jobs,
         m.data = Payload[m.job], Opening(m), m.phase = "initiated", NEW s
  PROVE  Downloads(<<Asked(m)>>, <<>>, m, s)
<1> DEFINE r == Asked(m)
           q == <<r>>
<1>1. Pieces(m)
  BY DEF Pieces
<1>2. r = InitOf(m) /\ r.cmd = "initiateDownload"
  BY <1>1, AskedAgain DEF InitOf
<1> HIDE DEF r
<1>3. Len(q) = 1 /\ q[1] = r
  OBVIOUS
<1> HIDE DEF q
<1>4. Inits(q) = {1} /\ Segments(q) = {}
  BY <1>2, <1>3 DEF Inits, Segments, Commands
<1>5. Acks(<<>>) = {} /\ Begun(<<>>) = {}
  BY DEF Acks, Begun, Kinds
<1>6. Queued(q, m)
  BY <1>2, <1>3, <1>4 DEF Queued, Opening
<1> QED
  BY <1>1, <1>4, <1>5, <1>6 DEF Downloads, Keeps, Answered, q, r

\* No request is left, nor a buffer.
LEMMA StoppedDownloads ==
  ASSUME NEW q, NEW a, NEW m, NEW n, NEW s, NEW t, Downloads(q, a, m, s),
         SamePlace(m, n), n.phase = "idle", ~Alive(t)
  PROVE  Downloads(<<>>, <<>>, n, t)
<1>1. Inits(<<>>) = {} /\ Segments(<<>>) = {}
  BY DEF Inits, Segments, Commands
<1>2. Pieces(n)
  BY DEF Downloads, Pieces, SamePlace, Opening, Midway
<1>3. Queued(<<>>, n)
  BY <1>1 DEF Queued
<1> QED
  BY <1>1, <1>2, <1>3 DEF Downloads, Keeps, Answered

\* The master has been told, or is about to be, that all is written.
Confirmed(a, m) ==
  \/ m.result = "ok"
  \/ /\ m.to = Len(m.data)
     /\ \/ m.phase = "segments" /\ Acks(a) # {}
        \/ m.phase = "initiated" /\ Begun(a) # {}

DInv ==
  IF master.job.op = "download"
  THEN /\ Downloads(requests, answers, master, sdo)
       /\ Confirmed(answers, master) => StoredNow
  ELSE Inits(requests) = {} /\ Segments(requests) = {}

\* What a step may do to the objects.
Effect ==
  \/ Untouched
  \/ /\ master.job.op = "download" /\ master.to = Len(master.data)
     /\ Stores(master.job) /\ Reached(master.job)

LEMMA EmptyQueues ==
  /\ Inits(<<>>) = {} /\ Segments(<<>>) = {}
  /\ Begun(<<>>) = {} /\ Acks(<<>>) = {}
BY DEF Inits, Segments, Commands, Begun, Acks, Kinds

LEMMA DownloadGoesOn ==
  ASSUME TypeInv, DInv, master.job.op = "download", SameJob,
         Downloads(requests', answers', master', sdo'),
         \/ Untouched /\ (Confirmed(answers', master') => Confirmed(answers, master))
         \/ /\ Stores(master.job) /\ Reached(master.job)
            /\ master.to = Len(master.data)
  PROVE  DInv' /\ Effect
<1>1. master.job \in Jobs
  BY DEF DInv, Downloads, Pieces
<1>2. Confirmed(answers', master') => StoredNow'
  BY <1>1, StoredStays, StoredDone DEF DInv
<1>3. master'.job.op = "download"
  BY DEF SameJob
<1>4. DInv'
  BY <1>2, <1>3 DEF DInv
<1> QED
  BY <1>4 DEF Effect

\* An answer that confirms nothing.
LEMMA NotConfirmed ==
  ASSUME NEW a \in Seq(AnswerType), NEW answer \in AnswerType, NEW m,
         answer.kind \notin {"download", "downloadSegment"},
         Confirmed(Append(a, answer), m)
  PROVE  Confirmed(a, m)
<1> DEFINE b == Append(a, answer)
<1>1. Acks(b) = Acks(a) /\ Begun(b) = Begun(a)
  BY AnswersAppend
<1> HIDE DEF b
<1> QED
  BY <1>1 DEF Confirmed, b

LEMMA SamePlaces ==
  ASSUME master \in MasterRecord
  PROVE  /\ SamePlace(master, master)
         /\ \A values, n : /\ SamePlace(master, Seeing(values, n))
                           /\ Seeing(values, n).result = master.result
                           /\ Seeing(values, n).phase = master.phase
                           /\ Seeing(values, n).fault = master.fault
         /\ SamePlace(master, Fault) /\ Fault.fault = TRUE
         /\ Fault.result = master.result /\ Fault.phase = master.phase
         /\ \A result : LET m == [Fault EXCEPT !.phase = "idle", !.result = result]
                        IN  /\ SamePlace(master, m) /\ m.fault = TRUE
                            /\ m.phase = "idle" /\ m.result = result
         /\ \A result : /\ SamePlace(master, Done(result))
                        /\ Done(result).fault = master.fault
                        /\ Done(result).phase = "idle"
                        /\ Done(result).result = result
BY DEF MasterRecord, SamePlace, Fault, Seeing, Done

LEMMA SameJobs ==
  ASSUME TypeInv, SamePlace(master, master'),
         master'.fault = TRUE \/ (master'.fault = master.fault /\ al' = al)
  PROVE  SameJob
BY DEF SamePlace, SameJob, TypeInv, MasterRecord

\* The answers of the server.
LEMMA Aborts ==
  ASSUME NEW cmd, Abort(cmd)
  PROVE  \E answer \in AnswerType : /\ Answer(answer)
                                    /\ answer.kind \in {"abort", "unknown"}
                                    /\ cmd # "uploadSegment" => answer.kind = "abort"
<1> DEFINE kind == IF cmd = "uploadSegment" THEN "unknown" ELSE "abort"
           answer == [kind |-> kind]
<1>1. answer \in AnswerType
  BY DEF AnswerType
<1>2. answer.kind \in {"abort", "unknown"}
      /\ (cmd # "uploadSegment" => answer.kind = "abort")
  OBVIOUS
<1>3. Answer(answer)
  BY DEF Abort
<1> HIDE DEF answer
<1> QED
  BY <1>1, <1>2, <1>3

LEMMA AcknowledgesTyped ==
  [kind |-> "download"] \in AnswerType /\ [kind |-> "downloadSegment"] \in AnswerType
BY DEF AnswerType

\* What the server takes is the master's first request, or a segment.
LEMMA TakenRequest ==
  ASSUME TypeInv, DInv, master.job.op = "download", requests # <<>>
  PROVE  /\ requests \in Seq(RequestType) /\ answers \in Seq(AnswerType)
         /\ MasterGood(master)
         /\ Request.cmd \in {"initiateDownload", "downloadSegment", "abort"}
         /\ Request.cmd = "initiateDownload" => Request = InitOf(master)
<1>1. /\ requests \in Seq(RequestType) /\ MasterGood(master)
      /\ answers \in Seq(AnswerType)
  BY DEF TypeInv, IInv, Parties
<1>2. Queued(requests, master)
  BY DEF DInv, Downloads
<1>3. 1 \in 1 .. Len(requests) /\ Request = requests[1]
  BY <1>1, CommandsTail DEF Request
<1>4. Request.cmd = "initiateDownload" => 1 \in Inits(requests)
  BY <1>3 DEF Inits, Commands
<1> QED
  BY <1>1, <1>2, <1>3, <1>4 DEF Queued

LEMMA RefuseInitiateDownload ==
  ASSUME TypeInv, DInv, master.job.op = "download", RefuseInitiate
  PROVE  DInv' /\ Effect
<1>1. requests # <<>> /\ Request.cmd \in {"initiateUpload", "initiateDownload"}
  BY DEF RefuseInitiate, Received
<1>2. Request = InitOf(master)
  BY <1>1, TakenRequest
<1>3. ~Reached(master.job)
  BY <1>2 DEF RefuseInitiate, Addresses, InitOf, Reached
<1>4. PICK answer \in AnswerType : Answer(answer) /\ answer.kind \in {"abort", "unknown"}
  BY Aborts DEF RefuseInitiate
<1>5. Downloads(Tail(requests), Append(answers, answer), master, sdo)
  BY <1>1, <1>3, <1>4, TakenRequest, RefusedDownloads DEF DInv
<1>6. /\ UNCHANGED <<objects, al, sdo, master>>
      /\ requests' = Tail(requests) /\ answers' = Append(answers, answer)
  BY <1>4 DEF RefuseInitiate, Answer
<1>7. SameJob /\ Untouched
  BY <1>6, SamePlaces, SameJobs, ObjectsUntouched DEF TypeInv
<1>8. Confirmed(answers', master') => Confirmed(answers, master)
  BY <1>1, <1>4, <1>6, TakenRequest, NotConfirmed
<1> QED
  BY <1>5, <1>6, <1>7, <1>8, DownloadGoesOn

\* The first request, as the server reads it.
LEMMA FirstRequest ==
  ASSUME TypeInv, DInv, master.job.op = "download", Initiates("initiateDownload")
  PROVE  /\ requests # <<>> /\ Request = InitOf(master) /\ Reached(master.job)
         /\ Request.index = master.job.index /\ Request.sub = master.job.sub
         /\ Request.ca = master.job.ca /\ Request.size = Len(master.data)
         /\ master.data = Payload[master.job] /\ master.data \in Seq(Tags)
         /\ Len(master.data) \in Nat
         /\ Len(Request.data) = Least(Len(master.data), DownloadRoom)
         /\ \A k \in 1 .. Len(Request.data) : Request.data[k] = master.data[k]
         /\ Len(master.data) <= DownloadRoom => Request.data = master.data
<1>1. /\ requests # <<>> /\ Request = InitOf(master)
      /\ MasterGood(master) /\ Pieces(master)
  BY TakenRequest DEF Initiates, Received, DInv, Downloads
<1>2. Reached(master.job)
  BY <1>1 DEF Initiates, Addresses, InitOf, Reached
<1>3. master.data \in Seq(Tags) /\ master.data = Payload[master.job]
  BY <1>1 DEF Pieces, MasterGood
<1>4. Len(master.data) \in Nat /\ DownloadRoom \in Nat
  BY <1>3, LenProperties, RoomType
<1> DEFINE data == master.data
           n == Least(Len(data), DownloadRoom)
<1>5. n \in Nat /\ n <= Len(data) /\ (Len(data) <= DownloadRoom => n = Len(data))
  BY <1>4 DEF Least
<1> HIDE DEF n
<1>6. /\ Len(SubSeq(data, 1, n)) = n
      /\ \A k \in 1 .. n : SubSeq(data, 1, n)[k] = data[k]
      /\ n = Len(data) => SubSeq(data, 1, n) = data
  <2>1. \A k \in 1 .. n : data[k] \in Tags
    BY <1>3, <1>4, <1>5, ElementOfSeq
  <2> QED
    BY <1>3, <1>5, <2>1, SubSeqProperties, SubSeqFull
<1>7. Request.data = SubSeq(data, 1, n)
  BY <1>1 DEF InitOf, n
<1> QED
  BY <1>1, <1>2, <1>3, <1>4, <1>5, <1>6, <1>7 DEF InitOf, n

LEMMA DownloadAtOnceDownload ==
  ASSUME SentWhole, TypeInv, DInv, master.job.op = "download", DownloadAtOnce
  PROVE  DInv' /\ Effect
<1> DEFINE r == Request
           m == master
           job == master.job
<1>1. Initiates("initiateDownload") /\ r.size = Len(r.data)
  BY DEF DownloadAtOnce
<1>2. /\ requests # <<>> /\ r = InitOf(m) /\ Reached(job) /\ r.index = job.index
      /\ r.sub = job.sub /\ r.ca = job.ca /\ m.data = Payload[job]
      /\ Len(m.data) \in Nat /\ r.size = Len(m.data)
      /\ Len(r.data) = Least(Len(m.data), DownloadRoom)
      /\ Len(m.data) <= DownloadRoom => r.data = m.data
  BY <1>1, FirstRequest
<1>3. Len(m.data) <= DownloadRoom /\ r.data = m.data
  BY <1>1, <1>2, RoomType DEF Least
<1>4. m.job \in Jobs /\ MasterGood(m) /\ Pieces(m)
  BY <1>2, TakenRequest DEF DInv, Downloads, Pieces
<1>5. m.to = Len(m.data)
  BY <1>2, <1>3, <1>4, QueuedTyped DEF Pieces, Opening, Midway, Least
<1>6. UNCHANGED <<al, master>> /\ r.cmd = "initiateDownload"
  BY <1>2 DEF DownloadAtOnce, InitOf
<1>7. SameJob
  BY <1>6, SamePlaces, SameJobs DEF TypeInv
<1>8. WriteObject(r.cmd, job.index, job.sub, job.ca, Payload[job])
  BY <1>2, <1>3 DEF DownloadAtOnce
<1>9. ASSUME NEW answer \in AnswerType, answer.kind \in {"abort", "download"},
             Answer(answer)
      PROVE  Downloads(requests', answers', master', sdo')
  <2>1. Downloads(Tail(requests), Append(answers, answer), m, sdo')
    <3>1. Downloads(requests, answers, m, sdo)
      BY DEF DInv
    <3>2. Head(requests).cmd = "initiateDownload"
      BY <1>6 DEF Request
    <3> QED
      BY <1>2, <1>3, <1>9, <3>1, <3>2, TakenRequest, FirstServed
  <2> QED
    BY <1>6, <1>9, <2>1 DEF Answer
<1>10. CASE WriteRefused(job.index, objects[job.index], job.sub, job.ca, al,
                         Payload[job])
  <2>1. Abort(r.cmd) /\ objects' = objects
    BY <1>8, <1>10 DEF WriteObject
  <2>2. PICK answer \in AnswerType : Answer(answer) /\ answer.kind = "abort"
    BY <1>6, <2>1, Aborts
  <2>3. Confirmed(answers', master') => Confirmed(answers, master)
    BY <1>2, <1>6, <2>2, TakenRequest, NotConfirmed DEF Answer
  <2>4. Untouched
    BY <2>1, ObjectsUntouched
  <2> QED
    BY <1>7, <1>9, <2>2, <2>3, <2>4, DownloadGoesOn
<1>11. CASE ~WriteRefused(job.index, objects[job.index], job.sub, job.ca, al,
                          Payload[job])
  <2>1. /\ Answer([kind |-> "download"])
        /\ objects' = Write(objects, job.index, job.sub, job.ca, al, Payload[job])
    BY <1>6, <1>8, <1>11 DEF WriteObject
  <2>2. Stores(job)
    BY <1>2, <1>4, <1>11, <2>1, WriteStores
  <2>3. Downloads(requests', answers', master', sdo')
    BY <1>9, <2>1, AcknowledgesTyped
  <2> QED
    BY <1>2, <1>5, <1>7, <2>2, <2>3, DownloadGoesOn
<1> QED
  BY <1>10, <1>11

LEMMA DownloadInSegmentsDownload ==
  ASSUME TypeInv, DInv, master.job.op = "download", DownloadInSegments
  PROVE  DInv' /\ Effect
<1> DEFINE r == Request
           m == master
           job == master.job
<1>1. Initiates("initiateDownload") /\ r.size > Len(r.data)
  BY DEF DownloadInSegments
<1>2. /\ requests # <<>> /\ r = InitOf(m) /\ Reached(job) /\ r.index = job.index
      /\ r.sub = job.sub /\ r.ca = job.ca /\ m.data \in Seq(Tags)
      /\ Len(m.data) \in Nat /\ r.size = Len(m.data)
      /\ Len(r.data) = Least(Len(m.data), DownloadRoom)
      /\ \A k \in 1 .. Len(r.data) : r.data[k] = m.data[k]
  BY <1>1, FirstRequest
<1>3. Len(m.data) > DownloadRoom /\ Len(r.data) = DownloadRoom
  BY <1>1, <1>2, RoomType DEF Least
<1>4. MasterGood(m) /\ r.cmd = "initiateDownload"
      /\ Downloads(requests, answers, m, sdo) /\ Head(requests) = r
      /\ requests \in Seq(RequestType) /\ answers \in Seq(AnswerType)
  BY <1>2, TakenRequest DEF DInv, InitOf, Request
<1>5. UNCHANGED <<objects, al>>
  BY DEF DownloadInSegments, AllocationFails
<1>6. Untouched
  BY <1>5, ObjectsUntouched
<1>7. CASE AllocationFails(r, r.size)
  <2>1. sdo' = Opened(r, r.size) /\ Abort(r.cmd) /\ master' = Fault
    BY <1>7 DEF AllocationFails
  <2>2. PICK answer \in AnswerType : Answer(answer) /\ answer.kind = "abort"
    BY <1>4, <2>1, Aborts
  <2>3. ~Alive(sdo')
    BY <2>1 DEF Alive, Opened, TypeInv, SdoType
  <2>4. Downloads(Tail(requests), Append(answers, answer), m, sdo')
    BY <1>2, <1>4, <2>2, <2>3, RefusedDownloads
  <2>5. requests' = Tail(requests) /\ answers' = Append(answers, answer)
    BY <2>2 DEF Answer
  <2>6. SamePlace(m, master') /\ master'.fault = TRUE
        /\ master'.phase = m.phase /\ master'.result = m.result
    BY <2>1, SamePlaces DEF TypeInv
  <2>7. Tail(requests) \in Seq(RequestType)
    BY <1>2, <1>4, HeadTailProperties
  <2>8. Downloads(requests', answers', master', sdo')
    BY <2>4, <2>5, <2>6, <2>7, LeftDownloads
  <2>9. Confirmed(answers', master') => Confirmed(answers, m)
    <3>1. Confirmed(Append(answers, answer), m) => Confirmed(answers, m)
      BY <1>4, <2>2, NotConfirmed
    <3> QED
      BY <2>5, <2>6, <3>1 DEF Confirmed, SamePlace
  <2>10. SameJob
    BY <2>6, SameJobs
  <2> QED
    BY <1>6, <2>8, <2>9, <2>10, DownloadGoesOn
<1>8. CASE ~AllocationFails(r, r.size)
  <2> DEFINE data == Placed(Fresh(r.size), 0, r.data)
  <2>1. /\ sdo' = [Opened(r, r.size) EXCEPT
                     !.service = Idle, !.handled = Len(r.data), !.data = data]
        /\ Answer([kind |-> "download"]) /\ master' = master
    BY <1>8 DEF DownloadInSegments
  <2>2. /\ Len(data) = r.size
        /\ \A k \in 1 .. Len(r.data) : data[k] = r.data[k]
    <3>1. r.data \in Seq(Tags) /\ Fresh(r.size) \in Seq(Tags)
          /\ Len(Fresh(r.size)) = r.size
      BY <1>1, <1>2, FreshTyped, InitiateRequest DEF TypeInv, IInv
    <3>2. Len(data) = r.size
      BY <3>1, PlacedTyped
    <3>3. DOMAIN Fresh(r.size) = 1 .. r.size /\ DOMAIN r.data = 1 .. Len(r.data)
      BY <3>1, LenProperties
    <3>4. \A k \in 1 .. Len(r.data) : k \in 1 .. r.size /\ k - 0 = k
      BY <1>2, <1>3, RoomType
    <3>5. \A k \in 1 .. Len(r.data) : data[k] = r.data[k]
      BY <3>3, <3>4 DEF Placed
    <3> QED
      BY <3>2, <3>5
  <2> HIDE DEF data
  <2>3. Ours(m, sdo') /\ sdo'.toggle = 1 /\ sdo'.handled = DownloadRoom
    <3>1. /\ sdo'.index = r.index /\ sdo'.sub = r.sub /\ sdo'.ca = r.ca
          /\ sdo'.complete = r.size /\ sdo'.data = data
          /\ sdo'.handled = Len(r.data) /\ sdo'.toggle = 1
      BY <2>1 DEF Opened, TypeInv, SdoType
    <3> QED
      BY <1>2, <1>3, <2>2, <3>1 DEF Ours
  <2>4. Downloads(Tail(requests), Append(answers, [kind |-> "download"]), m, sdo')
    BY <1>2, <1>3, <1>4, <2>3, AcknowledgesTyped, FirstServed
  <2>5. Downloads(requests', answers', master', sdo')
    BY <2>1, <2>4 DEF Answer
  <2>6. Confirmed(answers', master') => Confirmed(answers, master)
    <3>1. Acks(answers') = Acks(answers)
      BY <1>4, <2>1, AcknowledgesTyped, AnswersAppend DEF Answer
    <3>2. m.phase = "initiated" => m.to # Len(m.data)
      BY <1>2, <1>3, <1>4, QueuedTyped DEF Downloads, Opening, Least
    <3> QED
      BY <2>1, <3>1, <3>2 DEF Confirmed
  <2>7. SameJob
    BY <1>5, <2>1, SamePlaces, SameJobs DEF TypeInv
  <2> QED
    BY <1>6, <2>5, <2>6, <2>7, DownloadGoesOn
<1> QED
  BY <1>7, <1>8

\* A piece of the data.
LEMMA PartOf ==
  ASSUME NEW data \in Seq(Tags), NEW from \in Nat, NEW to \in Nat,
         from < to, to <= Len(data)
  PROVE  LET piece == SubSeq(data, from + 1, to)
         IN  /\ piece \in Seq(Tags) /\ Len(piece) = to - from
             /\ \A i \in 1 .. to - from : piece[i] = data[from + i]
<1> DEFINE first == from + 1
           piece == SubSeq(data, first, to)
<1>1. Len(data) \in Nat
  BY LenProperties
<1>2. /\ first \in Nat /\ first <= to /\ to - first + 1 = to - from
      /\ \A i \in 1 .. to - from : first + i - 1 = from + i
      /\ \A i \in first .. to : i \in 1 .. Len(data)
  BY <1>1
<1> HIDE DEF first
<1>3. \A i \in first .. to : data[i] \in Tags
  BY <1>2, ElementOfSeq
<1>4. /\ piece \in Seq(Tags)
      /\ Len(piece) = IF first <= to THEN to - first + 1 ELSE 0
      /\ \A i \in 1 .. to - first + 1 : piece[i] = data[first + i - 1]
  BY <1>2, <1>3, SubSeqProperties
<1> HIDE DEF piece
<1>5. /\ Len(piece) = to - from
      /\ \A i \in 1 .. to - from : piece[i] = data[from + i]
  BY <1>2, <1>4
<1> QED
  BY <1>4, <1>5 DEF piece, first

\* The data with the present segment in them.
LEMMA SegmentPlaced ==
  ASSUME NEW m, MasterGood(m), Midway(m), m.from > 0, NEW s \in SdoType,
         Ours(m, s), s.handled = m.from
  PROVE  LET r == SegmentOf(m)
             data == Placed(s.data, s.handled, r.data)
         IN  /\ data \in Seq(Tags) /\ Len(data) = Len(m.data)
             /\ \A k \in 1 .. m.to : data[k] = m.data[k]
             /\ r.last => data = m.data
             /\ ~r.last => m.to = m.from + DownloadSegRoom
<1> DEFINE piece == SubSeq(m.data, m.from + 1, m.to)
           data == Placed(s.data, m.from, piece)
<1>1. /\ m.data \in Seq(Tags) /\ m.from \in Nat /\ m.to \in Nat
      /\ m.to <= Len(m.data) /\ Len(m.data) \in Nat
      /\ s.data \in Seq(Tags)
  BY LenProperties DEF MasterGood, SdoType
<1>2. DownloadSegRoom \in Nat /\ DownloadSegRoom > 0
  BY ListRooms
<1>3. /\ m.from < m.to
      /\ m.to = Len(m.data) \/ m.to = m.from + DownloadSegRoom
  BY <1>1, <1>2 DEF Midway, Least
<1>4. /\ piece \in Seq(Tags) /\ Len(piece) = m.to - m.from
      /\ \A i \in 1 .. m.to - m.from : piece[i] = m.data[m.from + i]
  BY <1>1, <1>3, PartOf
<1> HIDE DEF piece
<1>5. data \in Seq(Tags) /\ Len(data) = Len(m.data)
  BY <1>1, <1>4, PlacedTyped DEF Ours
<1>6. /\ DOMAIN s.data = 1 .. Len(m.data) /\ DOMAIN piece = 1 .. m.to - m.from
      /\ \A k \in 1 .. m.from : s.data[k] = m.data[k]
  BY <1>1, <1>4, LenProperties DEF Ours
<1>7. ASSUME NEW k \in 1 .. m.to
      PROVE  data[k] = m.data[k]
  <2>1. k \in 1 .. Len(m.data)
    BY <1>1
  <2>2. CASE k <= m.from
    <3>1. k - m.from \notin DOMAIN piece
      BY <1>1, <1>6, <2>2
    <3>2. k \in 1 .. m.from
      BY <1>1, <2>2
    <3> QED
      BY <1>6, <2>1, <3>1, <3>2 DEF Placed
  <2>3. CASE k > m.from
    <3>1. /\ k - m.from \in 1 .. m.to - m.from /\ m.from + (k - m.from) = k
      BY <1>1, <2>3
    <3>2. data[k] = piece[k - m.from]
      BY <1>6, <2>1, <3>1 DEF Placed
    <3> QED
      BY <1>4, <3>1, <3>2
  <2> QED
    BY <1>1, <2>2, <2>3
<1> HIDE DEF data
<1>8. m.to = Len(m.data) => data = m.data
  BY <1>1, <1>5, <1>7, SeqEqual
<1> QED
  BY <1>3, <1>5, <1>7, <1>8 DEF SegmentOf, data, piece

LEMMA DownloadSegmentDownload ==
  ASSUME SentWhole, TypeInv, DInv, master.job.op = "download", DownloadSegment
  PROVE  DInv' /\ Effect
<1> DEFINE r == Request
           m == master
           job == master.job
           turned == [sdo EXCEPT !.toggle = r.toggle]
           data == Placed(sdo.data, sdo.handled, r.data)
<1>1. /\ requests # <<>> /\ r.cmd = "downloadSegment" /\ sdo.service = Idle
      /\ Head(requests) = r /\ UNCHANGED <<al, master>>
  BY DEF DownloadSegment, Continues, Received, Request, Idle
<1>2. /\ requests \in Seq(RequestType) /\ answers \in Seq(AnswerType)
      /\ MasterGood(m) /\ Downloads(requests, answers, m, sdo) /\ sdo \in SdoType
  BY <1>1, TakenRequest DEF DInv, TypeInv
<1>3. SameJob
  BY <1>1, SamePlaces, SameJobs DEF TypeInv
<1>4. ~Alive(Ended(turned))
  BY <1>2 DEF Alive, Ended, SdoType
<1>5. ASSUME sdo' = Ended(turned), Abort(r.cmd), objects' = objects
      PROVE  DInv' /\ Effect
  <2>1. PICK answer \in AnswerType : Answer(answer) /\ answer.kind = "abort"
    BY <1>1, <1>5, Aborts
  <2>2. Downloads(Tail(requests), Append(answers, answer), m, sdo')
    BY <1>1, <1>2, <1>4, <1>5, <2>1, RefusedDownloads
  <2>3. Confirmed(answers', master') => Confirmed(answers, master)
    BY <1>1, <1>2, <2>1, NotConfirmed DEF Answer
  <2>4. Untouched
    BY <1>5, ObjectsUntouched
  <2> QED
    BY <1>1, <1>3, <2>1, <2>2, <2>3, <2>4, DownloadGoesOn DEF Answer
<1>6. ASSUME r.toggle # sdo.toggle, sdo.data # Null
      PROVE  /\ r = SegmentOf(m) /\ Ours(m, sdo) /\ sdo.handled = m.from
             /\ m.from > 0 /\ Midway(m) /\ r.toggle = m.toggle
             /\ data \in Seq(Tags) /\ Len(data) = Len(m.data)
             /\ \A k \in 1 .. m.to : data[k] = m.data[k]
             /\ r.last => data = m.data /\ m.to = Len(m.data)
             /\ ~r.last => m.to = m.from + DownloadSegRoom /\ m.to # Len(m.data)
  <2>1. Alive(sdo)
    BY <1>1, <1>6 DEF Alive
  <2>2. /\ r = SegmentOf(m) /\ Ours(m, sdo) /\ sdo.handled = m.from /\ m.from > 0
    <3>1. Head(requests).cmd = "downloadSegment" /\ Head(requests).toggle # sdo.toggle
      BY <1>1, <1>6
    <3>2. requests \in Seq(RequestType) /\ requests # <<>> /\ MasterGood(m)
          /\ Downloads(requests, answers, m, sdo)
      BY <1>1, <1>2
    <3>3. /\ Head(requests) = SegmentOf(m) /\ Ours(m, sdo)
          /\ Due(m, sdo) /\ m.from > 0
      BY ONLY <2>1, <3>1, <3>2, TakenSegment
    <3> QED
      BY <1>1, <3>3 DEF Due
  <2>3. Midway(m)
    BY <1>2, <2>2, QueuedTyped DEF Downloads
  <2>4. r.toggle = m.toggle /\ (r.last <=> m.to = Len(m.data))
    BY <2>2 DEF SegmentOf
  <2> QED
    BY <1>2, <2>2, <2>3, <2>4, SegmentPlaced
<1>7. ASSUME r.toggle # sdo.toggle, sdo.data # Null, NEW t,
             ~Alive(t) \/ (Ours(m, t) /\ t.toggle = m.toggle /\ t.handled = m.to)
      PROVE  Downloads(Tail(requests),
                       Append(answers, [kind |-> "downloadSegment"]), m, t)
  <2>1. Alive(sdo)
    BY <1>1, <1>7 DEF Alive
  <2> QED
    BY <1>1, <1>2, <1>7, <2>1, AcknowledgesTyped, SegmentServed
<1>8. ASSUME r.toggle # sdo.toggle, sdo.data # Null, ~r.last,
             sdo' = [turned EXCEPT !.data = data,
                                   !.handled = @ + DownloadSegRoom],
             Answer([kind |-> r.cmd]), objects' = objects
      PROVE  DInv' /\ Effect
  <2> HIDE DEF data
  <2>1. /\ sdo'.index = sdo.index /\ sdo'.sub = sdo.sub /\ sdo'.ca = sdo.ca
        /\ sdo'.complete = sdo.complete /\ sdo'.data = data
        /\ sdo'.handled = sdo.handled + DownloadSegRoom
        /\ sdo'.toggle = r.toggle
    BY <1>2, <1>8 DEF SdoType
  <2>2. Ours(m, sdo') /\ sdo'.toggle = m.toggle /\ sdo'.handled = m.to
    BY <1>6, <1>8, <2>1 DEF Ours
  <2>3. /\ requests' = Tail(requests)
        /\ answers' = Append(answers, [kind |-> "downloadSegment"])
    BY <1>1, <1>8 DEF Answer
  <2>4. Downloads(requests', answers', master', sdo')
    BY <1>1, <1>7, <1>8, <2>2, <2>3
  <2>5. Confirmed(answers', master') => Confirmed(answers, master)
    BY <1>1, <1>6, <1>8 DEF Confirmed
  <2>6. Untouched
    BY <1>8, ObjectsUntouched
  <2> QED
    BY <1>3, <2>4, <2>5, <2>6, DownloadGoesOn
<1>9. ASSUME r.toggle # sdo.toggle, sdo.data # Null, r.last,
             WriteObject(r.cmd, sdo.index, sdo.sub, sdo.ca, data),
             sdo' = Ended(turned)
      PROVE  DInv' /\ Effect
  <2>1. /\ data = m.data /\ m.to = Len(m.data) /\ Reached(job)
        /\ sdo.index = job.index /\ sdo.sub = job.sub /\ sdo.ca = job.ca
    BY <1>6, <1>9 DEF Ours, Midway
  <2>2. job \in Jobs /\ m.data = Payload[job]
    BY <1>2 DEF Downloads, Pieces
  <2> HIDE DEF data
  <2>3. WriteObject(r.cmd, job.index, job.sub, job.ca, Payload[job])
    BY <1>9, <2>1, <2>2
  <2>4. CASE WriteRefused(job.index, objects[job.index], job.sub, job.ca, al,
                          Payload[job])
    BY <1>5, <1>9, <2>3, <2>4 DEF WriteObject
  <2>5. CASE ~WriteRefused(job.index, objects[job.index], job.sub, job.ca, al,
                           Payload[job])
    <3>1. /\ Answer([kind |-> "downloadSegment"])
          /\ objects' = Write(objects, job.index, job.sub, job.ca, al,
                              Payload[job])
      BY <1>1, <2>3, <2>5 DEF WriteObject
    <3>2. Stores(job)
      BY <2>1, <2>2, <2>5, <3>1, WriteStores
    <3>3. Downloads(Tail(requests),
                    Append(answers, [kind |-> "downloadSegment"]), m, sdo')
      BY <1>4, <1>7, <1>9
    <3>4. Downloads(requests', answers', master', sdo')
      BY <1>1, <3>1, <3>3 DEF Answer
    <3> QED
      BY <1>3, <2>1, <3>2, <3>4, DownloadGoesOn
  <2> QED
    BY <2>4, <2>5
<1> QED
  BY <1>5, <1>8, <1>9 DEF DownloadSegment

LEMMA RefuseCommandDownload ==
  ASSUME TypeInv, DInv, master.job.op = "download", RefuseCommand
  PROVE  DInv' /\ Effect
<1> DEFINE r == Request
<1>1. /\ requests # <<>> /\ Head(requests) = r
      /\ UNCHANGED <<objects, al, sdo, master>> /\ Abort(r.cmd)
      /\ r.cmd \in {"abort", "uploadSegment", "downloadSegment"}
      /\ r.cmd = "downloadSegment" => sdo.service # Idle
  BY DEF RefuseCommand, Received, Request, Idle
<1>2. /\ requests \in Seq(RequestType) /\ answers \in Seq(AnswerType)
      /\ MasterGood(master) /\ Downloads(requests, answers, master, sdo)
      /\ r.cmd # "uploadSegment"
  BY <1>1, TakenRequest DEF DInv
<1>3. PICK answer \in AnswerType : Answer(answer) /\ answer.kind = "abort"
  BY <1>1, <1>2, Aborts
<1>4. Downloads(Tail(requests), Append(answers, answer), master, sdo)
  BY <1>1, <1>2, <1>3, RefusedDownloads DEF Alive
<1>5. Confirmed(answers', master') => Confirmed(answers, master)
  BY <1>1, <1>2, <1>3, NotConfirmed DEF Answer
<1>6. SameJob /\ Untouched
  BY <1>1, SamePlaces, SameJobs, ObjectsUntouched DEF TypeInv
<1> QED
  BY <1>1, <1>3, <1>4, <1>5, <1>6, DownloadGoesOn DEF Answer

\* A request of another kind is never taken during a download.
LEMMA SdoIndDownload ==
  ASSUME SentWhole, TypeInv, DInv, master.job.op = "download", SdoInd
  PROVE  DInv' /\ Effect
<1>1. ~UploadAtOnce /\ ~UploadInSegments /\ ~UploadSegment
  BY TakenRequest
  DEF UploadAtOnce, UploadInSegments, UploadSegment, Initiates, Continues,
      Received
<1> QED
  BY <1>1, RefuseInitiateDownload, DownloadAtOnceDownload,
     DownloadInSegmentsDownload, DownloadSegmentDownload, RefuseCommandDownload
  DEF SdoInd

LEMMA SdoInfoIndDownload ==
  ASSUME TypeInv, DInv, master.job.op = "download", SdoInfoInd
  PROVE  DInv' /\ Effect
<1>1. ~SendList /\ ~Describe
  BY TakenRequest DEF SendList, Describe, Received
<1>2. ContinueInd
  BY <1>1 DEF SdoInfoInd
<1> DEFINE answer == Fragment(info.list).answer
<1>3. /\ answers' = <<answer>> /\ UNCHANGED <<objects, al, sdo, requests, master>>
  BY <1>2 DEF ContinueInd
<1>4. answer.kind = "list"
  BY DEF Fragment
<1> HIDE DEF answer
<1>5. Begun(answers') = {} /\ Acks(answers') = {}
  BY <1>3, <1>4 DEF Begun, Acks, Kinds
<1>6. SamePlace(master, master')
  BY <1>3, SamePlaces DEF TypeInv
<1>7. Downloads(requests', answers', master', sdo')
  <2>1. requests \in Seq(RequestType)
    BY DEF TypeInv, IInv, Parties
  <2> QED
    BY <1>3, <1>5, <1>6, <2>1, LeftDownloads DEF DInv
<1>8. Confirmed(answers', master') => Confirmed(answers, master)
  BY <1>3, <1>5 DEF Confirmed
<1>9. SameJob /\ Untouched
  BY <1>3, <1>6, SameJobs, ObjectsUntouched DEF TypeInv
<1> QED
  BY <1>7, <1>8, <1>9, DownloadGoesOn

\* The master looks on, gives up, or the slave changes its state.
LEMMA PlaceDownload ==
  ASSUME TypeInv, DInv, master.job.op = "download", SamePlace(master, master'),
         SameJob, Untouched, UNCHANGED sdo,
         \/ Confirmed(answers', master') => Confirmed(answers, master),
         \/ requests' = requests
         \/ requests' = Append(requests, [cmd |-> "abort"]),
         \/ answers' = answers
         \/ answers # <<>> /\ answers' = Tail(answers)
  PROVE  DInv' /\ Effect
<1>1. requests \in Seq(RequestType) /\ answers \in Seq(AnswerType)
  BY DEF TypeInv, IInv, Parties
<1>2. Downloads(requests, answers, master, sdo)
  BY DEF DInv
<1>3. Downloads(requests, answers', master', sdo)
  BY <1>1, <1>2, LeftDownloads
<1>4. Downloads(Append(requests, [cmd |-> "abort"]), answers', master', sdo)
  BY <1>1, <1>3, AbortAppended
<1>5. Downloads(requests', answers', master', sdo')
  BY <1>3, <1>4
<1> QED
  BY <1>5, DownloadGoesOn

LEMMA AfterDownloadJob ==
  ASSUME MasterGood(master), master.job.op = "download", NEW answer
  PROVE  \/ /\ \/ master.phase = "initiated" /\ answer.kind = "download"
               \/ master.phase = "segments" /\ answer.kind = "downloadSegment"
            /\ answer.kind \in Expected \ {"list"}
            /\ After(answer) = AfterDownload
         \/ /\ answer.kind \notin Expected
            /\ After(answer) \in {master, Done("failed")}
<1>1. /\ master.phase = "idle" => Expected = {}
      /\ master.phase = "initiated" => Expected = {"download"}
      /\ master.phase = "segments" => Expected = {"downloadSegment"}
  BY DEF Expected
<1>2. master.phase \in {"idle", "initiated", "segments"}
  BY DEF MasterGood
<1>3. CASE answer.kind \in Expected
  <2>1. After(answer) = AfterDownload
    <3> DEFINE kind == answer.kind
               op == master.job.op
    <3>1. kind \in Expected /\ op = "download" /\ kind # "list"
          /\ kind # "description"
      BY <1>1, <1>2, <1>3
    <3>2. ~(kind \in Expected /\ op = "upload") /\ ~(kind = "list" /\ "list" \in Expected)
          /\ ~(kind = "description" /\ "description" \in Expected)
          /\ ~(kind \notin Expected)
      BY <3>1
    <3> HIDE DEF kind, op
    <3> QED
      BY <3>1, <3>2 DEF After, kind, op
  <2> QED
    BY <1>1, <1>2, <1>3, <2>1
<1>4. CASE answer.kind \notin Expected
  <2>1. ~(answer.kind = "list" /\ "list" \in Expected)
        /\ ~(answer.kind = "description" /\ "description" \in Expected)
    BY <1>4
  <2>2. After(answer) = IF answer.kind \in {"abort", "unknown"} /\ master.phase # "idle"
                        THEN Done("failed") ELSE master
    BY <1>4, <2>1 DEF After
  <2> QED
    BY <1>4, <2>2
<1> QED
  BY <1>3, <1>4

LEMMA TakeAnswerDownload ==
  ASSUME TypeInv, DInv, master.job.op = "download", TakeAnswer
  PROVE  DInv' /\ Effect
<1> DEFINE m == master
           answer == Head(answers)
           total == Len(m.data)
           to == Least(total, m.to + DownloadSegRoom)
           n == [m EXCEPT !.phase = "segments", !.toggle = 16 - m.toggle,
                          !.from = m.to, !.to = to]
<1>1. /\ requests \in Seq(RequestType) /\ answers \in Seq(AnswerType)
      /\ MasterGood(m) /\ m \in MasterRecord /\ answers # <<>>
      /\ Downloads(requests, answers, m, sdo)
  BY DEF TypeInv, IInv, Parties, DInv, TakeAnswer
<1>2. /\ UNCHANGED <<objects, al, sdo>> /\ answers' = Tail(answers)
      /\ master' = After(answer)
      /\ requests' = IF answer.kind \in Expected \ {"list"} /\ master'.phase # "idle"
                     THEN Append(requests, Asked(master')) ELSE requests
  BY DEF TakeAnswer
<1>3. Untouched
  BY <1>2, ObjectsUntouched
<1>4. /\ Acks(answers') # {} => Acks(answers) # {}
      /\ Begun(answers') # {} => Begun(answers) # {}
  BY <1>1, <1>2, KindsTail DEF Acks, Begun
<1>5. ASSUME answer.kind \notin Expected, After(answer) \in {m, Done("failed")}
      PROVE  DInv' /\ Effect
  <2>1. requests' = requests
    BY <1>2, <1>5
  <2>2. /\ SamePlace(m, master') /\ master'.fault = m.fault
        /\ \/ master' = m
           \/ master'.phase = "idle" /\ master'.result = "failed"
    <3>1. CASE master' = m
      BY <1>1, <3>1, SamePlaces
    <3>2. CASE master' = Done("failed")
      BY <1>1, <3>2, SamePlaces
    <3> QED
      BY <1>2, <1>5, <3>1, <3>2
  <2>3. SameJob
    BY <1>2, <2>2, SameJobs
  <2>4. Confirmed(answers', master') => Confirmed(answers, m)
    BY <1>4, <2>2 DEF Confirmed
  <2> QED
    BY <1>1, <1>2, <1>3, <2>1, <2>2, <2>3, <2>4, PlaceDownload
<1>6. ASSUME \/ m.phase = "initiated" /\ answer.kind = "download"
             \/ m.phase = "segments" /\ answer.kind = "downloadSegment",
             answer.kind \in Expected \ {"list"}, After(answer) = AfterDownload
      PROVE  DInv' /\ Effect
  <2>1. CASE m.to = total
    <3>1. master' = Done("ok")
      BY <1>2, <1>6, <2>1 DEF AfterDownload
    <3>2. /\ SamePlace(m, master') /\ master'.fault = m.fault
          /\ master'.phase = "idle"
      BY <1>1, <3>1, SamePlaces
    <3>3. SameJob /\ requests' = requests
      BY <1>2, <3>2, SameJobs
    <3>4. Confirmed(answers, m)
      BY <1>1, <1>6, <2>1, KindsTail DEF Confirmed, Acks, Begun
    <3> QED
      BY <1>1, <1>2, <1>3, <3>2, <3>3, <3>4, PlaceDownload
  <2>2. CASE m.to # total
    <3>1. master' = n
      <4>1. AfterDownload =
              NextSegment([m EXCEPT !.from = m.to,
                             !.to = Least(total, @ + DownloadSegRoom)])
        BY <2>2 DEF AfterDownload
      <4> HIDE DEF total
      <4>2. NextSegment([m EXCEPT !.from = m.to,
                           !.to = Least(total, @ + DownloadSegRoom)]) = n
        BY <1>1 DEF NextSegment, MasterRecord
      <4> QED
        BY <1>2, <1>6, <4>1, <4>2
    <3> HIDE DEF to
    <3>2. /\ n.job = m.job /\ n.data = m.data /\ n.phase = "segments"
          /\ n.from = m.to /\ n.to = to /\ n.toggle = 16 - m.toggle
          /\ n.fault = m.fault /\ n.result = m.result
      BY <1>1 DEF MasterRecord
    <3> HIDE DEF n
    <3>3. MasterGood(n)
      BY <1>1, <1>2, <3>1, AfterGood
    <3>4. /\ Downloads(Append(requests, SegmentOf(n)), answers', n, sdo)
          /\ Acks(answers') = {}
      BY <1>1, <1>2, <1>6, <2>2, <3>2, <3>3, OpenedDownloads, NextDownloads
      DEF to
    <3>5. Asked(n) = SegmentOf(n)
      BY <3>2, <3>3, <3>4, AskedAgain DEF Downloads
    <3>6. Downloads(requests', answers', master', sdo')
      BY <1>2, <1>6, <3>1, <3>2, <3>4, <3>5
    <3>7. Confirmed(answers', master') => Confirmed(answers, m)
      BY <3>1, <3>2, <3>4 DEF Confirmed
    <3>8. SameJob
      BY <1>1, <1>2, <3>1, <3>2 DEF SameJob, MasterRecord
    <3> QED
      BY <1>3, <3>6, <3>7, <3>8, DownloadGoesOn
  <2> QED
    BY <2>1, <2>2
<1> QED
  BY <1>1, <1>5, <1>6, AfterDownloadJob

LEMMA MasterDownload ==
  ASSUME TypeInv, DInv, master.job.op = "download",
         GiveUp \/ AskAgain \/ ChangeState \/ StopMailbox \/ Tick
  PROVE  DInv' /\ Effect
<1> USE SamePlaces, SameJobs
<1>1. CASE GiveUp
  <2>1. /\ SamePlace(master, master') /\ master'.phase = "idle"
        /\ master'.result = "failed" /\ master'.fault = TRUE
    BY <1>1 DEF GiveUp, TypeInv
  <2>2. ~Confirmed(answers', master')
    BY <2>1 DEF Confirmed
  <2>3. SameJob /\ Untouched
    BY <1>1, <2>1, ObjectsUntouched DEF GiveUp
  <2> QED
    BY <1>1, <2>1, <2>2, <2>3, PlaceDownload DEF GiveUp
<1>2. CASE AskAgain
  <2>1. /\ SamePlace(master, master') /\ master'.fault = TRUE
        /\ master'.phase = master.phase /\ master'.result = master.result
    BY <1>2 DEF AskAgain, TypeInv
  <2>2. SameJob /\ Untouched
    BY <1>2, <2>1, ObjectsUntouched DEF AskAgain
  <2>3. /\ requests \in Seq(RequestType) /\ MasterGood(master)
        /\ Downloads(requests, answers, master, sdo) /\ master.phase # "idle"
    BY <1>2 DEF TypeInv, IInv, Parties, DInv, AskAgain
  <2>4. Downloads(Append(requests, Asked(master)), answers, master, sdo)
    BY <2>3, AgainDownloads
  <2>5. Append(requests, Asked(master)) \in Seq(RequestType)
    BY <2>3, AskedType, AppendProperties
  <2>6. Downloads(requests', answers', master', sdo')
    <3> DEFINE q == Append(requests, Asked(master))
    <3>1. requests' = q /\ answers' = answers /\ sdo' = sdo
      BY <1>2 DEF AskAgain
    <3>2. q \in Seq(RequestType) /\ Downloads(q, answers, master, sdo)
      BY <2>4, <2>5
    <3> HIDE DEF q
    <3>3. Downloads(q, answers, master', sdo)
      BY ONLY <2>1, <3>2, LeftDownloads
    <3> QED
      BY <3>1, <3>3
  <2>7. Confirmed(answers', master') => Confirmed(answers, master)
    BY <1>2, <2>1 DEF AskAgain, Confirmed, SamePlace
  <2> QED
    BY <2>2, <2>6, <2>7, DownloadGoesOn
<1>3. CASE ChangeState
  <2>1. /\ SamePlace(master, master') /\ master'.fault = TRUE
        /\ master'.phase = master.phase /\ master'.result = master.result
    BY <1>3 DEF ChangeState, TypeInv
  <2>2. SameJob /\ Untouched
    BY <1>3, <2>1, ObjectsUntouched DEF ChangeState
  <2>3. Confirmed(answers', master') => Confirmed(answers, master)
    BY <1>3, <2>1 DEF ChangeState, Confirmed, SamePlace
  <2> QED
    BY <1>3, <2>1, <2>2, <2>3, PlaceDownload DEF ChangeState
<1>4. CASE StopMailbox
  <2> DEFINE result == IF master.phase = "idle" THEN master.result ELSE "failed"
  <2>1. master' = [Fault EXCEPT !.phase = "idle", !.result = result]
    BY <1>4 DEF StopMailbox, Fault, TypeInv, MasterRecord
  <2>2. /\ SamePlace(master, master') /\ master'.fault = TRUE
        /\ master'.phase = "idle" /\ master'.result = result
    <3> HIDE DEF result
    <3> QED
      BY <2>1 DEF TypeInv
  <2>3. SameJob /\ Untouched
    BY <1>4, <2>2, ObjectsUntouched DEF StopMailbox
  <2>4. ~Alive(sdo')
    BY <1>4 DEF StopMailbox, Ended, Alive, TypeInv, SdoType
  <2>5. Downloads(requests', answers', master', sdo')
    <3>1. requests' = <<>> /\ answers' = <<>>
      BY <1>4 DEF StopMailbox
    <3>2. Downloads(requests, answers, master, sdo)
      BY DEF DInv
    <3>3. Downloads(<<>>, <<>>, master', sdo')
      BY ONLY <2>2, <2>4, <3>2, StoppedDownloads
    <3> QED
      BY <3>1, <3>3
  <2>6. Confirmed(answers', master') => Confirmed(answers, master)
    BY <2>2 DEF Confirmed
  <2> QED
    BY <2>3, <2>5, <2>6, DownloadGoesOn
<1>5. CASE Tick
  <2>1. /\ SamePlace(master, master') /\ master'.fault = master.fault
        /\ master'.phase = master.phase /\ master'.result = master.result
    <3> DEFINE m == Seeing(Ticked(1), 0)
    <3>1. /\ SamePlace(master, m) /\ m.fault = master.fault
          /\ m.phase = master.phase /\ m.result = master.result
      <4>1. \A values, n : /\ SamePlace(master, Seeing(values, n))
                           /\ Seeing(values, n).result = master.result
                           /\ Seeing(values, n).phase = master.phase
                           /\ Seeing(values, n).fault = master.fault
        BY SamePlaces DEF TypeInv
      <4> QED
        BY ONLY <4>1
    <3>2. master' = m
      BY <1>5 DEF Tick
    <3> HIDE DEF m
    <3> QED
      BY <3>1, <3>2
  <2>2. SameJob /\ Untouched
    BY <1>5, <2>1, TickedUntouched DEF Tick, Moments
  <2>3. Confirmed(answers', master') => Confirmed(answers, master)
    BY <1>5, <2>1 DEF Tick, Confirmed, SamePlace
  <2> QED
    BY <1>5, <2>1, <2>2, <2>3, PlaceDownload DEF Tick
<1> QED
  BY <1>1, <1>2, <1>3, <1>4, <1>5

LEMMA StartDownload ==
  ASSUME TypeInv, NEW job \in Jobs, Start(job)
  PROVE  DInv' /\ Untouched
<1> DEFINE m == Started(job, Payload[job])
<1>1. master \in MasterRecord /\ MasterGood(m)
  BY StartedGood DEF TypeInv, IInv, Parties
<1>2. /\ m.job = job /\ m.phase = "initiated" /\ m.result = "none"
      /\ m.data = Payload[job] /\ m.from = 0 /\ m.toggle = 16
      /\ m.to = Least(Len(Payload[job]), DownloadRoom)
  BY <1>1 DEF Started, MasterRecord
<1>3. /\ master' = m /\ requests' = <<Asked(m)>> /\ answers' = <<>>
      /\ UNCHANGED <<objects, sdo>>
  BY DEF Start, Quiet
<1> HIDE DEF m
<1>4. Untouched
  BY <1>3, ObjectsUntouched
<1>5. CASE job.op = "download"
  <2>1. Opening(m)
    BY <1>2 DEF Opening
  <2>2. Downloads(<<Asked(m)>>, <<>>, m, sdo)
    BY <1>1, <1>2, <1>5, <2>1, StartedDownloads
  <2>3. ~Confirmed(<<>>, m)
    BY <1>2, EmptyQueues DEF Confirmed
  <2> QED
    BY <1>2, <1>3, <1>4, <1>5, <2>2, <2>3 DEF DInv
<1>6. CASE job.op # "download"
  <2> DEFINE r == Asked(m)
             q == <<r>>
  <2>1. r.cmd # "initiateDownload" /\ r.cmd # "downloadSegment"
    <3>1. job.op \in {"upload", "list", "describeObject", "describeEntry"}
      BY <1>6, JobTyped DEF Operations
    <3> QED
      BY <1>2, <3>1 DEF Asked
  <2> HIDE DEF r
  <2>2. Len(q) = 1 /\ q[1] = r
    OBVIOUS
  <2> HIDE DEF q
  <2>3. Inits(q) = {} /\ Segments(q) = {}
    BY <2>1, <2>2 DEF Inits, Segments, Commands
  <2> QED
    BY <1>2, <1>3, <1>4, <1>6, <2>3 DEF DInv, q, r
<1> QED
  BY <1>5, <1>6

(***************************************************************************)
(* Any other job writes nothing.                                           *)
(***************************************************************************)
LEMMA OtherGoesOn ==
  ASSUME TypeInv, DInv, master.job.op # "download", master'.job = master.job,
         \/ requests' = requests
         \/ requests # <<>> /\ requests' = Tail(requests)
         \/ requests' = <<>>
         \/ \E r \in RequestType :
              /\ r.cmd \notin {"initiateDownload", "downloadSegment"}
              /\ requests' = Append(requests, r)
  PROVE  DInv'
<1>1. /\ Inits(requests) = {} /\ Segments(requests) = {}
      /\ requests \in Seq(RequestType)
  BY DEF DInv, TypeInv, IInv, Parties
<1>2. CASE requests # <<>> /\ requests' = Tail(requests)
  <2>1. Inits(Tail(requests)) = {} /\ Segments(Tail(requests)) = {}
    BY <1>1, <1>2, RequestsTail
  <2> QED
    BY <1>2, <2>1 DEF DInv
<1>3. ASSUME NEW r \in RequestType, requests' = Append(requests, r),
             r.cmd \notin {"initiateDownload", "downloadSegment"}
      PROVE  DInv'
  <2>1. /\ Inits(Append(requests, r)) = {} \cup {}
        /\ Segments(Append(requests, r)) = {} \cup {}
    BY <1>1, <1>3, RequestsAppend
  <2> QED
    BY <1>3, <2>1 DEF DInv
<1> QED
  BY <1>1, <1>2, <1>3, EmptyQueues DEF DInv

LEMMA AfterJob ==
  ASSUME master \in MasterRecord, MasterGood(master), NEW answer
  PROVE  After(answer).job = master.job
<1>1. AfterUpload(answer).job = master.job
  BY DEF AfterUpload, NextSegment, MasterRecord
<1>2. AfterDownload.job = master.job
  BY DEF AfterDownload, Done, NextSegment, MasterRecord
<1>3. AfterList(answer).job = master.job
  BY DEF AfterList, MasterRecord
<1>4. \A result : Done(result).job = master.job
  BY DEF Done, MasterRecord
<1>5. answer.kind \in Expected =>
        \/ master.job.op \in {"upload", "download"}
        \/ answer.kind = "list" /\ "list" \in Expected
        \/ answer.kind = "description" /\ "description" \in Expected
  BY DEF Expected, MasterGood, JobType, Operations
<1> QED
  BY <1>1, <1>2, <1>3, <1>4, <1>5 DEF After

LEMMA AskedOther ==
  ASSUME NEW m, MasterGood(m), m.phase # "idle", m.job.op # "download"
  PROVE  Asked(m).cmd \notin {"initiateDownload", "downloadSegment"}
<1>1. m.job.op \in {"upload", "list", "describeObject", "describeEntry"}
  BY DEF MasterGood, JobType, Operations
<1>2. m.phase \in {"initiated", "segments"}
  BY DEF MasterGood
<1> QED
  BY <1>1, <1>2 DEF Asked

LEMMA ServerOther ==
  ASSUME TypeInv, DInv, master.job.op # "download", SdoInd \/ SdoInfoInd
  PROVE  DInv' /\ Untouched
<1>1. requests # <<>> => Request.cmd \notin {"initiateDownload", "downloadSegment"}
  <2> SUFFICES ASSUME requests # <<>>
               PROVE  Request.cmd \notin {"initiateDownload", "downloadSegment"}
    OBVIOUS
  <2>1. requests \in Seq(RequestType)
    BY DEF TypeInv, IInv, Parties
  <2>2. /\ 1 \in Inits(requests) <=> Head(requests).cmd = "initiateDownload"
        /\ 1 \in Segments(requests) <=> Head(requests).cmd = "downloadSegment"
    BY <2>1, CommandsTail DEF Inits, Segments
  <2> QED
    BY <2>2 DEF DInv, Request
<1>2. ~DownloadAtOnce /\ ~DownloadInSegments /\ ~DownloadSegment
  BY <1>1 DEF DownloadAtOnce, DownloadInSegments, DownloadSegment, Initiates,
              Continues, Received
<1>3. /\ master \in MasterRecord /\ Fault.job = master.job
      /\ \A values, n : Seeing(values, n).job = master.job
  BY SamePlaces DEF TypeInv, SamePlace
<1> DEFINE Served ==
             /\ master'.job = master.job
             /\ requests' = requests \/ (requests # <<>> /\ requests' = Tail(requests))
             /\ objects' \in Moments
<1> USE DEF Moments
<1>4. \A r : \A read \in Readings(r) : read.n \in Nat
  BY ReadingsCount DEF TypeInv
<1>5. ASSUME RefuseInitiate \/ RefuseCommand PROVE Served
  BY <1>5 DEF RefuseInitiate, RefuseCommand, Received, Abort, Answer
<1>6. ASSUME UploadAtOnce PROVE Served
  <2>1. requests # <<>> /\ requests' = Tail(requests)
    BY <1>6 DEF UploadAtOnce, Initiates, Received, Abort, Answer
  <2>2. \/ UNCHANGED <<objects, master>>
        \/ \E read \in Readings(Request) :
             /\ objects' = Ticked(read.n)
             /\ master' = Seeing(Ticked(read.n), read.n)
    BY <1>6 DEF UploadAtOnce, Interrupted
  <2> QED
    BY <1>3, <1>4, <2>1, <2>2
<1>7. ASSUME UploadInSegments PROVE Served
  <2>1. requests # <<>> /\ requests' = Tail(requests)
    BY <1>7
    DEF UploadInSegments, AllocationFails, Initiates, Received, Abort, Answer
  <2>2. \/ UNCHANGED <<objects, master>>
        \/ objects' = objects /\ master' = Fault
        \/ \E read \in Readings(Request) :
             /\ objects' = Ticked(read.n)
             /\ master' = Seeing(Ticked(read.n), read.n)
    BY <1>7 DEF UploadInSegments, AllocationFails, Interrupted
  <2> QED
    BY <1>3, <1>4, <2>1, <2>2
<1>8. ASSUME UploadSegment PROVE Served
  BY <1>8 DEF UploadSegment, Continues, Received, Abort, Answer
<1>9. ASSUME SdoInfoInd PROVE Served
  BY <1>9 DEF SdoInfoInd, SendList, ContinueInd, Describe, Received, Inform,
              Answer
<1>10. Served
  BY <1>2, <1>5, <1>6, <1>7, <1>8, <1>9 DEF SdoInd
<1> QED
  BY <1>10, OtherGoesOn, TickedUntouched

LEMMA MasterOther ==
  ASSUME TypeInv, DInv, master.job.op # "download",
         TakeAnswer \/ GiveUp \/ AskAgain \/ ChangeState \/ StopMailbox \/ Tick
  PROVE  DInv' /\ Untouched
<1>1. /\ master \in MasterRecord /\ MasterGood(master)
      /\ requests \in Seq(RequestType)
  BY DEF TypeInv, IInv, Parties
<1>2. /\ Fault.job = master.job
      /\ \A values, n : Seeing(values, n).job = master.job
      /\ \A result : [Fault EXCEPT !.phase = "idle", !.result = result].job
                       = master.job
  BY <1>1, SamePlaces DEF SamePlace
<1>3. objects' \in Moments
  BY DEF Moments, TakeAnswer, GiveUp, AskAgain, ChangeState, StopMailbox, Tick
<1>4. Untouched
  BY <1>3, TickedUntouched
<1>5. CASE TakeAnswer
  <2> DEFINE m == After(Head(answers))
  <2>1. m.job = master.job /\ MasterGood(m)
    BY <1>1, AfterJob, AfterGood
  <2>2. /\ master' = m
        /\ \/ requests' = requests
           \/ m.phase # "idle" /\ requests' = Append(requests, Asked(m))
    BY <1>5 DEF TakeAnswer
  <2> HIDE DEF m
  <2>3. m.phase # "idle" =>
          /\ Asked(m) \in RequestType
          /\ Asked(m).cmd \notin {"initiateDownload", "downloadSegment"}
    BY <2>1, AskedType, AskedOther
  <2> QED
    BY <1>4, <2>1, <2>2, <2>3, OtherGoesOn
<1>6. CASE GiveUp
  <2>1. [cmd |-> "abort"] \in RequestType
    BY DEF RequestType
  <2>2. master'.job = master.job
    BY <1>2, <1>6 DEF GiveUp
  <2>3. requests' \in {requests, Append(requests, [cmd |-> "abort"])}
    BY <1>6 DEF GiveUp
  <2> DEFINE r == [cmd |-> "abort"]
  <2>4. r \in RequestType /\ r.cmd \notin {"initiateDownload", "downloadSegment"}
    BY <2>1
  <2> HIDE DEF r
  <2>5. \/ requests' = requests
        \/ \E s \in RequestType :
             /\ s.cmd \notin {"initiateDownload", "downloadSegment"}
             /\ requests' = Append(requests, s)
    BY <2>3, <2>4 DEF r
  <2> QED
    BY <1>4, <2>2, <2>5, OtherGoesOn
<1>7. CASE AskAgain
  <2>1. /\ Asked(master) \in RequestType
        /\ Asked(master).cmd \notin {"initiateDownload", "downloadSegment"}
    BY <1>1, <1>7, AskedType, AskedOther DEF AskAgain
  <2>2. master'.job = master.job /\ requests' = Append(requests, Asked(master))
    BY <1>2, <1>7 DEF AskAgain
  <2> QED
    BY <1>4, <2>1, <2>2, OtherGoesOn
<1>8. CASE ChangeState \/ Tick
  BY <1>2, <1>4, <1>8, OtherGoesOn DEF ChangeState, Tick
<1>9. CASE StopMailbox
  <2> DEFINE result == IF master.phase = "idle" THEN master.result ELSE "failed"
  <2>1. master' = [Fault EXCEPT !.phase = "idle", !.result = result]
    BY <1>1, <1>9 DEF StopMailbox, Fault, MasterRecord
  <2>2. master'.job = master.job
    <3> HIDE DEF result
    <3> QED
      BY <1>2, <2>1
  <2>3. requests' = <<>>
    BY <1>9 DEF StopMailbox
  <2> QED
    BY <1>4, <2>2, <2>3, OtherGoesOn
<1> QED
  BY <1>5, <1>6, <1>7, <1>8, <1>9

LEMMA DownloadInit == Init => DInv
<1> SUFFICES ASSUME Init PROVE DInv
  OBVIOUS
<1>1. master.job.op # "download" /\ requests = <<>>
  BY DEF Init, NoJob
<1> QED
  BY <1>1, EmptyQueues DEF DInv

LEMMA DownloadStep ==
  ASSUME SentWhole, TypeInv, DInv, [Next]_vars
  PROVE  DInv' /\ Effect
<1>1. CASE Next
  <2>1. ASSUME NEW job \in Jobs, Start(job)
        PROVE  DInv' /\ Effect
    BY <2>1, StartDownload DEF Effect
  <2>2. CASE master.job.op = "download"
    BY <1>1, <2>1, <2>2, SdoIndDownload, SdoInfoIndDownload, TakeAnswerDownload,
       MasterDownload DEF Next, Master
  <2>3. CASE master.job.op # "download"
    BY <1>1, <2>1, <2>3, ServerOther, MasterOther DEF Next, Master, Effect
  <2> QED
    BY <2>2, <2>3
<1>2. CASE UNCHANGED vars
  <2>1. DInv'
    BY <1>2 DEF DInv, StoredNow, vars
  <2>2. Untouched
    BY <1>2, ObjectsUntouched DEF vars
  <2> QED
    BY <2>1, <2>2 DEF Effect
<1> QED
  BY <1>1, <1>2

\* The step of WriteIsWhole.
WholeWrite ==
  \A x \in Used : \A i \in DOMAIN objects[x] :
    /\ objects'[x][i] # objects[x][i]
    /\ EntryDesc(x, i).write # {}
    => /\ master.job.op = "download" /\ master.job.index = x
       /\ master.to = Len(master.data)
       /\ \A k \in Storable(master.job, {al}) \cup {i} :
            objects'[x][k] = master.job.value

LEMMA EffectIsWhole ==
  ASSUME TypeInv, DInv, Effect
  PROVE  WholeWrite
<1> SUFFICES ASSUME NEW x \in Used, NEW i \in DOMAIN objects[x],
                    objects'[x][i] # objects[x][i], EntryDesc(x, i).write # {}
             PROVE  /\ master.job.op = "download" /\ master.job.index = x
                    /\ master.to = Len(master.data)
                    /\ \A k \in Storable(master.job, {al}) \cup {i} :
                         objects'[x][k] = master.job.value
  BY DEF WholeWrite
<1>1. i \in 0 .. Object[x].max
  BY DEF TypeInv, ObjectsTyped, Value
<1>2. /\ master.job.op = "download" /\ master.to = Len(master.data)
      /\ Stores(master.job) /\ Reached(master.job)
  BY <1>1 DEF Effect, Untouched
<1>3. master.job \in Jobs /\ al \in AlStates
  BY <1>2 DEF DInv, Downloads, Pieces, TypeInv
<1>4. x = master.job.index /\ i \in Storable(master.job, {al})
  BY <1>1, <1>2 DEF Stores
<1>5. \A k \in Storable(master.job, {al}) :
        k \in 0 .. Object[master.job.index].max
        /\ EntryDesc(master.job.index, k).write # {}
  BY <1>2, <1>3, StorableTyped
<1>6. \A k \in Storable(master.job, {al}) : objects'[x][k] = master.job.value
  BY <1>2, <1>4, <1>5 DEF Stores
<1> QED
  BY <1>2, <1>4, <1>6

\* A writable entry changes only when the whole of a download has been sent,
\* to the value sent, and with all others of it: nothing of a transfer that
\* was abandoned, asked for twice or cut short by another is ever written
\* (sdoserv.c:219-330, 779-784).
THEOREM DownloadsWriteWhole ==
  ASSUME SentWhole
  PROVE  Spec => WriteIsWhole
<1>1. Init => TypeInv /\ DInv
  BY TypeInit, DownloadInit
<1>2. TypeInv /\ DInv /\ [Next]_vars => (TypeInv /\ DInv)'
  BY TypeStep, DownloadStep
<1>3. TypeInv /\ DInv /\ [Next]_vars => [WholeWrite]_vars
  BY DownloadStep, EffectIsWhole
<1> QED
  BY <1>1, <1>2, <1>3, PTL DEF Spec, WriteIsWhole, WholeWrite

\* After a download that ended well every entry it may write has the value
\* sent for it, whatever was asked for twice on the way
\* (sdoserv.c:287-330, objdef.c:1425-1790).
THEOREM DownloadsAreStored ==
  ASSUME SentWhole
  PROVE  Spec => []DownloadIsStored
<1>1. Init => TypeInv /\ DInv
  BY TypeInit, DownloadInit
<1>2. TypeInv /\ DInv /\ [Next]_vars => (TypeInv /\ DInv)'
  BY TypeStep, DownloadStep
<1>3. DInv => DownloadIsStored
  BY DEF DInv, DownloadIsStored, Confirmed, StoredNow
<1> QED
  BY <1>1, <1>2, <1>3, PTL DEF Spec

(***************************************************************************)
(* A job without a fault: its request waits, or the answer to it.          *)
(***************************************************************************)
Waits(q, a, m) ==
  q # <<>> /\ Head(q) = Asked(m) /\ Tail(q) = <<>> /\ a = <<>>

Told(q, a) == q = <<>> /\ a # <<>> /\ Tail(a) = <<>>

\* A job that has ended failed exactly if it was not legal.
Fair(m, legal) == m.result # "none" => (m.result = "ok" <=> legal)

(***************************************************************************)
(* An upload: the server has the whole object and the master its begin.    *)
(***************************************************************************)
LengthFor(job) == Length(job.index, job.sub, job.ca)

WholeOf(job, value) ==
  ImageOf(job.index, value, job.sub, job.ca,
          Readables(job.index, job.sub, job.ca))

IsWhole(m, data) ==
  /\ Len(data) = LengthFor(m.job)
  /\ \E seen \in m.seen : \E cuts \in Cuts(seen[2], LengthFor(m.job)) :
       data = Copied(m.job.index, WholeOf(m.job, seen[1]), cuts)

SendsOn(m, s, got) ==
  /\ s.service = "uploadSegment" /\ IsWhole(m, s.data)
  /\ s.complete = Len(s.data) /\ s.handled = Len(got)
  /\ Len(got) <= Len(s.data)
  /\ \A k \in 1 .. Len(got) : got[k] = s.data[k]

\* The answer is the last of the upload.
Completes(m, answer) ==
  IF answer.kind = "upload" THEN Len(m.got \o answer.data) >= answer.size
  ELSE answer.last

UploadTold(m, s, answer, legal) ==
  \/ answer.kind = "abort" /\ m.phase = "initiated" /\ ~legal
  \/ /\ legal
     /\ answer.kind = IF m.phase = "initiated" THEN "upload" ELSE "uploadSegment"
     /\ answer.kind = "upload" => answer.size = LengthFor(m.job)
     /\ IF Completes(m, answer) THEN IsWhole(m, m.got \o answer.data)
        ELSE SendsOn(m, s, m.got \o answer.data) /\ s.toggle # 16 - m.toggle

UploadGoing(q, a, m, s, f, legal) ==
  /\ m.job \in Jobs /\ m.result = "none" /\ ~f.follow
  /\ m.phase = "initiated" => m.got = <<>>
  /\ m.phase = "segments" => legal /\ m.size = LengthFor(m.job)
  /\ \/ /\ Waits(q, a, m)
        /\ m.phase = "segments" => SendsOn(m, s, m.got) /\ s.toggle # m.toggle
     \/ Told(q, a) /\ UploadTold(m, s, Head(a), legal)

UploadOver(m, legal) ==
  /\ m.result = "ok" => IsWhole(m, m.got) /\ m.size = Len(m.got)
  /\ Fair(m, legal)

UploadInv ==
  master.job.op = "upload" /\ ~master.fault =>
    IF master.phase = "idle" THEN UploadOver(master, Legal(master.job))
    ELSE UploadGoing(requests, answers, master, sdo, info, Legal(master.job))

(***************************************************************************)
(* A list.                                                                 *)
(***************************************************************************)
\* Where the list begins: where the one before was broken off, if it was.
Begin(m) == IF m.rest.left = 0 THEN 1 ELSE m.rest.next

NamesTo(m, f, got) ==
  LET all == Places(m.job.value - 1, Begin(m))
      n   == Len(got)
  IN  /\ n <= Len(all)
      /\ \A k \in 1 .. n : got[k] = Number[ObjDicList[all[k]]]
      /\ Places(m.job.value - 1, f.next) = SubSeq(all, n + 1, Len(all))
      /\ Len(all) - n <= f.left * (FragmentRoom \div 2)

Names(m, f, got) == f.list = m.job.value /\ NamesTo(m, f, got)

Counts == [i \in 1 .. 5 |-> GetNoOfObjects(i - 1)]

ListTold(m, f, answer) ==
  \/ answer.kind = "unknown" /\ m.job.value > 5 /\ ~f.follow
  \/ /\ answer.kind = "list" /\ m.job.value = 0 /\ ~f.follow
     /\ answer.left = 0 /\ m.listed = <<>> /\ answer.objects = Counts
  \/ /\ answer.kind = "list" /\ m.job.value \in 1 .. 5
     /\ answer.left = f.left /\ (f.follow <=> f.left > 0)
     /\ Names(m, f, m.listed \o answer.objects)

ListGoing(q, a, m, f) ==
  /\ m.job \in Jobs /\ m.result = "none"
  /\ \/ /\ Waits(q, a, m) /\ ~f.follow /\ m.listed = <<>>
        /\ m.rest = [left |-> f.left, next |-> f.next]
     \/ Told(q, a) /\ ListTold(m, f, Head(a))
     \/ /\ q = <<>> /\ a = <<>> /\ f.follow /\ m.job.value \in 1 .. 5
        /\ Names(m, f, m.listed)

ListOver(m, legal) ==
  /\ m.result = "ok" =>
       IF m.job.value = 0 THEN m.listed = Counts
       ELSE LET all == Places(m.job.value - 1, Begin(m))
            IN  m.listed = [k \in 1 .. Len(all) |-> Number[ObjDicList[all[k]]]]
  /\ Fair(m, legal)

ListInv ==
  master.job.op = "list" /\ ~master.fault =>
    IF master.phase = "idle" THEN ListOver(master, Legal(master.job))
    ELSE ListGoing(requests, answers, master, info)

\* One fragment at most is left, and has room for what is left of any list.
Fragments(f) ==
  /\ f.follow => f.left > 0
  /\ f.left \in {0, 1}
  /\ f.left = 1 => Len(Places(0, f.next)) <= FragmentRoom \div 2

(***************************************************************************)
(* A description.                                                          *)
(***************************************************************************)
DescribeTold(answer, legal) ==
  answer.kind = IF legal THEN "description" ELSE "abort"

DescribeInv ==
  master.job.op \in {"describeObject", "describeEntry"} /\ ~master.fault =>
    IF master.phase = "idle" THEN Fair(master, Legal(master.job))
    ELSE /\ master.job \in Jobs /\ master.result = "none" /\ ~info.follow
         /\ \/ Waits(requests, answers, master)
            \/ /\ Told(requests, answers)
               /\ DescribeTold(Head(answers), Legal(master.job))

(***************************************************************************)
(* A download.                                                             *)
(***************************************************************************)
TypesValid ==
  \A x \in SyncPars \cap Used : CheckSyncTypeValue(x, objects[x][1])

DownloadTold(m, s, answer, legal) ==
  \/ answer.kind = "abort" /\ ~legal
  \/ /\ answer.kind =
          IF m.phase = "initiated" THEN "download" ELSE "downloadSegment"
     /\ IF m.to = Len(m.data) THEN legal
        ELSE Alive(s) /\ s.toggle # 16 - m.toggle

DownloadGoing(q, a, m, s, f, legal) ==
  /\ m.job \in Jobs /\ m.result = "none" /\ ~f.follow
  /\ \/ /\ Waits(q, a, m)
        /\ m.phase = "segments" => Alive(s) /\ s.toggle # m.toggle
     \/ Told(q, a) /\ DownloadTold(m, s, Head(a), legal)

DownloadInv ==
  master.job.op = "download" /\ ~master.fault =>
    IF master.phase = "idle" THEN Fair(master, Legal(master.job))
    ELSE DownloadGoing(requests, answers, master, sdo, info, Legal(master.job))

(***************************************************************************)
(* What is legal is what the server does not refuse.                       *)
(***************************************************************************)
LEMMA LegalStays ==
  ASSUME al' = al, master'.job = master.job
  PROVE  Legal(master.job)' = Legal(master.job)
BY DEF Legal, LegalUpload, LegalDownload, Storable

LEMMA UnreachedIllegal ==
  ASSUME NEW job, job.op \in {"upload", "download"}, ~Reached(job)
  PROVE  ~Legal(job)
BY DEF Legal, Reached

LEMMA UploadLegal ==
  ASSUME NEW job \in Jobs, job.op = "upload", Reached(job), al \in AlStates
  PROVE  Legal(job) <=> ~ReadRefused(job.index, job.sub, job.ca, al)
<1> DEFINE x == job.index
           sub == job.sub
           max == Object[x].max
<1>1. /\ x \in Indexes /\ sub \in 0 .. max /\ max \in 0 .. 255
      /\ job.ca \in BOOLEAN /\ x # "none" /\ (job.ca => sub <= 1)
  BY ReachedTyped, JobTyped DEF Reached
<1>2. sub <= max /\ ~(sub > max)
  <2> HIDE DEF sub, max
  <2> QED
    BY <1>1
<1>3. Legal(job) <=> (job.ca => Object[x].code # "VAR") /\ LegalUpload(job)
  BY <1>1, <1>2 DEF Legal
<1>4. CASE job.ca
  <2>1. Object[x].code # "VAR" => LegalUpload(job)
    <3> SUFFICES ASSUME Object[x].code # "VAR" PROVE LegalUpload(job)
      OBVIOUS
    <3>1. Readables(x, sub, job.ca) # {}
      BY <1>1, <1>4, AccessAssumption
    <3>2. PICK i \in Accessed(x, sub, job.ca) : EntryDesc(x, i).read # {}
      BY <3>1 DEF Readables
    <3>3. i \in 0 .. max
      BY <3>2, AccessedTyped
    <3>4. EntryDesc(x, i).read = AlStates
      BY <1>1, <3>2, <3>3, EntryAssumption
    <3> QED
      BY <3>2, <3>4 DEF LegalUpload
  <2> QED
    BY <1>3, <1>4, <2>1 DEF ReadRefused
<1>5. CASE ~job.ca
  <2>1. Accessed(x, sub, job.ca) = {sub}
    <3>1. Accessed(x, sub, job.ca) = sub .. sub
      BY <1>5 DEF Accessed
    <3> HIDE DEF sub, max
    <3> QED
      BY <1>1, <3>1
  <2> QED
    BY <1>2, <1>3, <1>5, <2>1 DEF LegalUpload, ReadRefused, Readable
<1> QED
  BY <1>1, <1>4, <1>5

\* What is read is what the master looks for.
LEMMA WholeRead ==
  ASSUME NEW job \in Jobs, job.op = "upload", Reached(job), al \in AlStates,
         Legal(job), NEW value
  PROVE  Read(job.index, value, job.sub, job.ca, al) = WholeOf(job, value)
<1> DEFINE x == job.index
           sub == job.sub
           ca == job.ca
           n == LengthFor(job)
           first == First(x, sub, ca)
           readables == Readables(x, sub, ca)
<1>1. /\ x \in Indexes /\ sub \in 0 .. Object[x].max /\ ca \in BOOLEAN
      /\ (ca => Object[x].code # "VAR" /\ sub <= 1)
  BY ReachedTyped, JobTyped DEF Reached, Legal
<1>2. \A k \in 1 .. n :
        LET i == EntryAt(x, sub, ca, k)
            j == Image[x][first + k]
        IN  i \in readables \/ j \in readables => i = j
  BY <1>1, AccessAssumption DEF LengthFor
<1>3. \A i : i \in readables <=> i \in Accessed(x, sub, ca) /\ Readable(x, i, al)
  <2> SUFFICES ASSUME NEW i \in Accessed(x, sub, ca)
               PROVE  EntryDesc(x, i).read # {} <=> Readable(x, i, al)
    BY DEF Readables, Readable
  <2>1. i \in 0 .. Object[x].max
    BY AccessedTyped
  <2>2. EntryDesc(x, i).read \in {{}, AlStates}
    BY <1>1, <2>1, EntryAssumption
  <2> QED
    BY <2>2 DEF Readable
<1>4. Read(x, value, sub, ca, al) =
        [k \in 1 .. n |-> Byte(x, value, sub, ca, al, EntryAt(x, sub, ca, k))]
  BY DEF Read, LengthFor
<1>5. WholeOf(job, value) =
        [k \in 1 .. n |-> LET i == Image[x][first + k]
                          IN  IF i \in readables THEN <<i, value[i]>> ELSE Cleared]
  BY <1>1 DEF WholeOf, ImageOf, LengthFor
<1>6. \A i : Byte(x, value, sub, ca, al, i) =
               IF i \in readables THEN <<i, value[i]>> ELSE Cleared
  BY <1>3 DEF Byte
<1> HIDE DEF n, first, readables
<1>7. \A k \in 1 .. n :
        LET i == Image[x][first + k]
        IN  Byte(x, value, sub, ca, al, EntryAt(x, sub, ca, k)) =
              IF i \in readables THEN <<i, value[i]>> ELSE Cleared
  BY <1>2, <1>6
<1> QED
  BY <1>4, <1>5, <1>7

LEMMA DownloadLegal ==
  ASSUME SentWhole, TypesValid, NEW job \in Jobs, job.op = "download",
         Reached(job), al \in AlStates
  PROVE  WriteRefused(job.index, objects[job.index], job.sub, job.ca, al,
                      Payload[job]) <=> ~Legal(job)
<1> DEFINE x == job.index
           sub == job.sub
           max == Object[x].max
           data == Payload[job]
           stored == Storable(job, {al})
           written == Written(x, sub, job.ca, al, data)
           before == objects[x][1]
<1>1. /\ x \in Used /\ x \in Indexes /\ sub \in 0 .. max /\ max \in 0 .. 255
      /\ job.ca \in BOOLEAN /\ x # "none" /\ (job.ca => sub <= 1)
  BY ReachedTyped, JobTyped DEF Reached
<1>2. sub <= max /\ ~(sub > max)
  <2> HIDE DEF sub, max
  <2> QED
    BY <1>1
<1>3. Legal(job) <=> /\ (job.ca => Object[x].code # "VAR") /\ stored # {}
                     /\ x \in SyncPars /\ 1 \in stored =>
                          CheckSyncTypeValue(x, job.value)
  BY <1>1, <1>2 DEF Legal, LegalDownload
<1>4. CASE job.ca /\ Object[x].code = "VAR"
  BY <1>3, <1>4 DEF WriteRefused
<1>5. CASE job.ca => Object[x].code # "VAR"
  <2>1. written = stored
    BY <1>5, JobWritten
  <2>2. 1 \in stored => Found(x, sub, job.ca, data, 1) = job.value
    BY <1>5, JobWritten
  <2>3. x \in SyncPars /\ 1 \in written /\ TypeRefused(x, before, Found(x, sub, job.ca, data, 1))
        <=> x \in SyncPars /\ 1 \in stored /\ ~CheckSyncTypeValue(x, job.value)
    BY <1>1, <2>1, <2>2 DEF TypeRefused, TypesValid
  <2>4. DataRefused(x, objects[x], sub, job.ca, data, written)
        <=> \/ Len(data) > 0 /\ stored = {}
            \/ x \in SyncPars /\ 1 \in stored /\ ~CheckSyncTypeValue(x, job.value)
    BY <2>1, <2>3 DEF DataRefused
  <2>5. CASE job.ca
    <3>1. Len(data) > 0
      <4>1. Len(data) = Length(x, sub, job.ca)
        BY WholePayload
      <4>2. Length(x, sub, job.ca) > 0
        BY <1>1, <1>5, <2>5, AccessAssumption
      <4> QED
        BY <4>1, <4>2
    <3>2. WriteRefused(x, objects[x], sub, job.ca, al, data)
          <=> DataRefused(x, objects[x], sub, job.ca, data, written)
      BY <1>5, <2>5 DEF WriteRefused
    <3> HIDE DEF stored, written, data
    <3> QED
      BY <1>3, <1>5, <2>4, <3>1, <3>2 DEF data
  <2>6. CASE ~job.ca
    <3>1. Accessed(x, sub, job.ca) = {sub}
      <4>1. Accessed(x, sub, job.ca) = sub .. sub
        BY <2>6 DEF Accessed
      <4> HIDE DEF sub, max
      <4> QED
        BY <1>1, <4>1
    <3>2. stored # {} <=> Writable(x, sub, al)
      BY <3>1 DEF Storable, Writable
    <3>3. WriteRefused(x, objects[x], sub, job.ca, al, data)
          <=> \/ ~Writable(x, sub, al)
              \/ DataRefused(x, objects[x], sub, job.ca, data, written)
      BY <1>2, <2>6 DEF WriteRefused
    <3> HIDE DEF stored, written, data
    <3> QED
      BY <1>3, <2>4, <2>6, <3>2, <3>3 DEF data
  <2> QED
    BY <1>1, <2>5, <2>6
<1> QED
  BY <1>4, <1>5

(***************************************************************************)
(* What may happen to a job without a fault.                               *)
(***************************************************************************)
Starts == \E job \in Jobs : Start(job)

LEMMA FaultSet ==
  ASSUME TypeInv
  PROVE  /\ Fault.fault = TRUE
         /\ \A result : [Fault EXCEPT !.phase = "idle", !.result = result].fault
                          = TRUE
BY SamePlaces DEF TypeInv

\* What the server does, if no allocation fails.
LEMMA ServerCalm ==
  ASSUME TypeInv, SdoInd \/ SdoInfoInd, ~master'.fault
  PROVE  /\ al' = al /\ ~AllocationFails(Request, Request.size)
         /\ ~AllocationFails(Request,
                             Length(Request.index, Request.sub, Request.ca))
         /\ master' = master \/ \E values, n : master' = Seeing(values, n)
<1>1. ~AllocationFails(Request, Request.size)
      /\ ~AllocationFails(Request,
                          Length(Request.index, Request.sub, Request.ca))
  BY FaultSet DEF AllocationFails
<1>2. CASE RefuseInitiate \/ RefuseCommand
  BY <1>1, <1>2 DEF RefuseInitiate, RefuseCommand
<1>3. CASE UploadAtOnce
  BY <1>1, <1>3 DEF UploadAtOnce, Interrupted
<1>4. CASE UploadInSegments
  BY <1>1, <1>4 DEF UploadInSegments, Interrupted
<1>5. CASE DownloadAtOnce \/ DownloadInSegments
  BY <1>1, <1>5 DEF DownloadAtOnce, DownloadInSegments
<1>6. CASE DownloadSegment \/ UploadSegment
  BY <1>1, <1>6 DEF DownloadSegment, UploadSegment
<1>7. CASE SdoInfoInd
  BY <1>1, <1>7 DEF SdoInfoInd, SendList, ContinueInd, Describe, Inform
<1> QED
  BY <1>2, <1>3, <1>4, <1>5, <1>6, <1>7 DEF SdoInd

LEMMA AfterFault ==
  ASSUME master \in MasterRecord, MasterGood(master), NEW answer
  PROVE  After(answer).fault = master.fault
<1>1. AfterUpload(answer).fault = master.fault
  BY DEF AfterUpload, NextSegment, MasterRecord
<1>2. AfterDownload.fault = master.fault
  BY DEF AfterDownload, Done, NextSegment, MasterRecord
<1>3. AfterList(answer).fault = master.fault
  BY DEF AfterList, MasterRecord
<1>4. \A result : Done(result).fault = master.fault
  BY DEF Done, MasterRecord
<1>5. answer.kind \in Expected =>
        \/ master.job.op \in {"upload", "download"}
        \/ answer.kind = "list" /\ "list" \in Expected
        \/ answer.kind = "description" /\ "description" \in Expected
  BY DEF Expected, MasterGood, JobType, Operations
<1> QED
  BY <1>1, <1>2, <1>3, <1>4, <1>5 DEF After

LEMMA CalmStep ==
  ASSUME TypeInv, [Next]_vars, ~Starts, ~master'.fault
  PROVE  /\ al' = al /\ master'.job = master.job /\ master.fault = FALSE
         /\ SdoInd \/ SdoInfoInd \/ Tick \/ TakeAnswer \/ UNCHANGED vars
<1>1. master \in MasterRecord /\ MasterGood(master)
  BY DEF TypeInv, IInv, Parties
<1>2. ~GiveUp /\ ~AskAgain /\ ~ChangeState /\ ~StopMailbox
  <2> DEFINE result == IF master.phase = "idle" THEN master.result ELSE "failed"
  <2>1. StopMailbox => master' = [Fault EXCEPT !.phase = "idle", !.result = result]
    BY <1>1 DEF StopMailbox, Fault, MasterRecord
  <2>2. ~StopMailbox
    <3> HIDE DEF result
    <3> QED
      BY <2>1, FaultSet
  <2> QED
    BY <2>2, FaultSet DEF GiveUp, AskAgain, ChangeState
<1>3. SdoInd \/ SdoInfoInd \/ Tick \/ TakeAnswer \/ UNCHANGED vars
  BY <1>2 DEF Next, Master, Starts
<1>4. \A values, n : /\ Seeing(values, n).job = master.job
                     /\ Seeing(values, n).fault = master.fault
  BY <1>1, SamePlaces DEF SamePlace
<1>5. CASE SdoInd \/ SdoInfoInd
  BY <1>1, <1>3, <1>4, <1>5, ServerCalm DEF MasterRecord
<1>6. CASE Tick
  BY <1>1, <1>3, <1>4, <1>6 DEF Tick, MasterRecord
<1>7. CASE TakeAnswer
  <2>1. After(Head(answers)).job = master.job
        /\ After(Head(answers)).fault = master.fault
    BY <1>1, AfterJob, AfterFault
  <2> QED
    BY <1>1, <1>3, <1>7, <2>1 DEF TakeAnswer, MasterRecord
<1>8. CASE UNCHANGED vars
  BY <1>1, <1>3, <1>8 DEF vars, MasterRecord
<1> QED
  BY <1>3, <1>5, <1>6, <1>7, <1>8

\* A job that has ended stays as it is.
LEMMA CalmIdle ==
  ASSUME TypeInv, [Next]_vars, ~Starts, ~master'.fault, master.phase = "idle"
  PROVE  master' = master
<1>1. SdoInd \/ SdoInfoInd \/ Tick \/ TakeAnswer \/ UNCHANGED vars
  BY CalmStep
<1>2. \A values, n : Seeing(values, n) = master
  BY DEF Seeing
<1>3. CASE TakeAnswer
  <2>1. Expected = {}
    BY DEF Expected
  <2>2. \A answer : After(answer) = master
    BY <2>1 DEF After
  <2> QED
    BY <1>3, <2>2 DEF TakeAnswer
<1> QED
  BY <1>1, <1>2, <1>3, ServerCalm DEF Tick, vars

(***************************************************************************)
(* The one request or answer of the job.                                   *)
(***************************************************************************)
LEMMA Serves ==
  ASSUME NEW m, Waits(requests, answers, m), NEW answer, Answer(answer)
  PROVE  Told(requests', answers') /\ Head(answers') = answer
<1>1. requests' = <<>> /\ answers' = <<answer>>
  BY DEF Waits, Answer
<1> QED
  BY <1>1 DEF Told

LEMMA WaitsFirst ==
  ASSUME NEW m, Waits(requests, answers, m) \/ Told(requests, answers),
         requests # <<>>
  PROVE  Waits(requests, answers, m) /\ Request = Asked(m)
BY DEF Waits, Told, Request

\* Asked depends on what stays when an object changes.
LEMMA SeeingAsks ==
  ASSUME master \in MasterRecord, NEW values, NEW n
  PROVE  LET m == Seeing(values, n)
         IN  /\ Asked(m) = Asked(master)
             /\ m.job = master.job /\ m.phase = master.phase
             /\ m.result = master.result /\ m.got = master.got
             /\ m.size = master.size /\ m.listed = master.listed
             /\ m.data = master.data /\ m.to = master.to
             /\ m.toggle = master.toggle /\ m.fault = master.fault
             /\ m.rest = master.rest /\ master.seen \subseteq m.seen
             /\ master.phase # "idle" /\ master.job.index # "none" =>
                  <<objects[master.job.index], n>> \in m.seen
<1> DEFINE m == Seeing(values, n)
<1>1. /\ m.job = master.job /\ m.phase = master.phase
      /\ m.result = master.result /\ m.got = master.got
      /\ m.size = master.size /\ m.listed = master.listed
      /\ m.data = master.data /\ m.to = master.to /\ m.from = master.from
      /\ m.toggle = master.toggle /\ m.fault = master.fault
      /\ m.rest = master.rest /\ master.seen \subseteq m.seen
      /\ master.phase # "idle" /\ master.job.index # "none" =>
           <<objects[master.job.index], n>> \in m.seen
  BY DEF Seeing, MasterRecord
<1> HIDE DEF m
<1>2. Asked(m) = Asked(master)
  BY <1>1 DEF Asked
<1> QED
  BY <1>1, <1>2 DEF m

\* The commands that each part of the server takes.
LEMMA ServerTakes ==
  /\ SdoInd =>
       /\ requests # <<>> /\ ~info.follow /\ UNCHANGED info
       /\ Request.cmd \in {"initiateUpload", "initiateDownload",
                           "uploadSegment", "downloadSegment", "abort"}
  /\ SendList => requests # <<>> /\ ~info.follow /\ Request.cmd = "list"
  /\ Describe => /\ requests # <<>> /\ ~info.follow
                 /\ Request.cmd \in {"describeObject", "describeEntry"}
<1>1. ASSUME SdoInd
      PROVE  /\ requests # <<>> /\ ~info.follow /\ UNCHANGED info
             /\ Request.cmd \in {"initiateUpload", "initiateDownload",
                                 "uploadSegment", "downloadSegment", "abort"}
  <2>1. PICK cmd \in {"initiateUpload", "initiateDownload", "uploadSegment",
                      "downloadSegment", "abort"} : Received(cmd)
    BY <1>1 DEF SdoInd, RefuseInitiate, UploadAtOnce, UploadInSegments,
                DownloadAtOnce, DownloadInSegments, DownloadSegment,
                UploadSegment, RefuseCommand, Initiates, Continues
  <2> QED
    BY <1>1, <2>1 DEF Received, SdoInd
<1> QED
  BY <1>1 DEF SendList, Describe, Received

\* A job that starts asks first.
LEMMA StartWaits ==
  ASSUME TypeInv, NEW job \in Jobs, Start(job)
  PROVE  /\ Waits(requests', answers', master') /\ ~info'.follow
         /\ master'.phase = "initiated" /\ master'.job = job
         /\ master'.result = "none" /\ master'.fault = FALSE
         /\ master'.got = <<>> /\ master'.listed = <<>>
         /\ master'.data = Payload[job]
         /\ master'.to = Least(Len(master'.data), DownloadRoom)
         /\ master'.rest = [left |-> info'.left, next |-> info'.next]
<1>1. master \in MasterRecord
  BY DEF TypeInv
<1> DEFINE seen == IF job.index = "none" THEN {} ELSE {<<objects[job.index], 0>>}
           rest == [left |-> info.left, next |-> info.next]
           data == Payload[job]
           to == Least(Len(data), DownloadRoom)
           transfers == master.transfers + 1
           m == [master EXCEPT !.phase = "initiated", !.job = job,
                   !.result = "none", !.size = 0, !.got = <<>>,
                   !.listed = <<>>, !.data = data, !.rest = rest,
                   !.from = 0, !.to = to,
                   !.seen = seen, !.toggle = 16, !.fault = FALSE,
                   !.transfers = transfers]
<1>2. master' = m
  BY DEF Start, Started
<1>3. requests' = <<Asked(master')>> /\ answers' = <<>> /\ ~info'.follow
      /\ info' = info
  BY DEF Start, Quiet
<1>4. Waits(requests', answers', master')
  <2> HIDE DEF m
  <2> QED
    BY <1>3 DEF Waits
<1> HIDE DEF seen, data, rest, to, transfers
<1>5. /\ m.phase = "initiated" /\ m.job = job
      /\ m.result = "none" /\ m.fault = FALSE
      /\ m.got = <<>> /\ m.listed = <<>> /\ m.data = data
      /\ m.to = to /\ m.rest = rest
  BY <1>1 DEF MasterRecord
<1> HIDE DEF m
<1> QED
  BY <1>2, <1>3, <1>4, <1>5 DEF rest, data, to

LEMMA DescribeStep ==
  ASSUME TypeInv, DescribeInv, [Next]_vars
  PROVE  DescribeInv'
<1> DEFINE Op(m) == m.job.op \in {"describeObject", "describeEntry"}
<1> SUFFICES ASSUME Op(master'), ~master'.fault
             PROVE  IF master'.phase = "idle"
                    THEN Fair(master', Legal(master.job)')
                    ELSE /\ master'.job \in Jobs /\ master'.result = "none"
                         /\ ~info'.follow
                         /\ \/ Waits(requests', answers', master')
                            \/ /\ Told(requests', answers')
                               /\ DescribeTold(Head(answers'), Legal(master.job)')
  BY DEF DescribeInv
<1>1. CASE Starts
  BY <1>1, StartWaits DEF Starts
<1>2. CASE ~Starts
  <2>1. /\ master'.job = master.job /\ master.fault = FALSE
        /\ SdoInd \/ SdoInfoInd \/ Tick \/ TakeAnswer \/ UNCHANGED vars
        /\ al' = al
    BY <1>2, CalmStep
  <2>2. Legal(master.job)' = Legal(master.job)
    BY <2>1, LegalStays
  <2> DEFINE legal == Legal(master.job)
  <2>3. CASE master.phase = "idle"
    <3>1. master' = master
      BY <1>2, <2>3, CalmIdle
    <3> QED
      BY <2>1, <2>2, <2>3, <3>1 DEF DescribeInv, Fair
  <2>4. CASE master.phase # "idle"
    <3>1. /\ master.job \in Jobs /\ master.result = "none" /\ ~info.follow
          /\ \/ Waits(requests, answers, master)
             \/ /\ Told(requests, answers)
                /\ DescribeTold(Head(answers), legal)
      BY <2>1, <2>4 DEF DescribeInv
    <3>2. master \in MasterRecord /\ MasterGood(master)
      BY DEF TypeInv, IInv, Parties
    <3>3. master.phase = "initiated"
      BY <2>1, <2>4, <3>2 DEF MasterGood
    <3>4. Asked(master) = [cmd |-> master.job.op, index |-> master.job.index,
                           sub |-> master.job.sub]
      BY <2>1 DEF Asked
    <3>5. requests # <<>> => Waits(requests, answers, master)
                             /\ Request = Asked(master)
      BY <3>1, WaitsFirst
    <3>6. ~SdoInd /\ ~SendList /\ ~ContinueInd
      BY <2>1, <3>1, <3>4, <3>5, ServerTakes DEF ContinueInd
    <3>7. CASE Describe
      <4>1. Waits(requests, answers, master) /\ Request = Asked(master)
        BY <3>5, <3>7, ServerTakes
      <4>2. legal <=> /\ Request.index # "none"
                      /\ Request.cmd = "describeEntry" =>
                           Request.sub <= Object[Request.index].max
        <5>1. ~master.job.ca
          BY <2>1, <3>1, JobAssumption
        <5> QED
          BY <2>1, <3>4, <4>1, <5>1 DEF Legal
      <4>3. PICK answer : /\ Answer(answer) /\ DescribeTold(answer, legal)
                          /\ master' = master /\ info'.follow = info.follow
        <5>0. info \in InfoType
          BY DEF TypeInv
        <5>1. CASE ~legal
          <6>1. /\ Inform([kind |-> "abort"])
                /\ info' = [info EXCEPT !.left = 0]
            BY <3>7, <4>2, <5>1 DEF Describe
          <6> QED
            BY <5>0, <5>1, <6>1 DEF Inform, DescribeTold, InfoType
        <5>2. CASE legal
          <6> DEFINE name == IF Request.cmd = "describeObject"
                             THEN ObjectName(Request.index, NameRoom)
                             ELSE EntryName(Request.index, Request.sub, NameRoom)
          <6>1. /\ Inform([kind |-> "description", name |-> name])
                /\ UNCHANGED info
            BY <3>7, <4>2, <5>2 DEF Describe
          <6> HIDE DEF name
          <6> QED
            BY <5>2, <6>1 DEF Inform, DescribeTold
        <5> QED
          BY <5>1, <5>2
      <4>4. Told(requests', answers') /\ Head(answers') = answer
        BY <4>1, <4>3, Serves
      <4> HIDE DEF legal
      <4> QED
        BY <2>2, <2>4, <3>1, <4>3, <4>4 DEF legal
    <3>8. CASE Tick
      <4>1. /\ master' = Seeing(Ticked(1), 0)
            /\ UNCHANGED <<requests, answers, info>>
        BY <3>8 DEF Tick
      <4>2. /\ Asked(Seeing(Ticked(1), 0)) = Asked(master)
            /\ Seeing(Ticked(1), 0).phase = master.phase
            /\ Seeing(Ticked(1), 0).result = master.result
        BY <3>2, SeeingAsks
      <4>3. /\ master'.phase = master.phase /\ master'.result = master.result
            /\ Asked(master') = Asked(master)
        BY ONLY <4>1, <4>2
      <4> HIDE DEF legal
      <4> QED
        BY <2>1, <2>2, <2>4, <3>1, <4>1, <4>3 DEF Waits, legal
    <3>9. CASE TakeAnswer
      <4> DEFINE answer == Head(answers)
      <4>1. Told(requests, answers) /\ DescribeTold(answer, legal)
        BY <3>1, <3>9 DEF TakeAnswer, Waits
      <4>2. Expected = {"description"}
        BY <2>1, <3>3 DEF Expected
      <4>3. After(answer) = Done(IF legal THEN "ok" ELSE "failed")
        BY <2>1, <3>3, <4>1, <4>2 DEF After, DescribeTold
      <4>4. master' = Done(IF legal THEN "ok" ELSE "failed")
        BY <3>9, <4>3 DEF TakeAnswer
      <4>5. master'.phase = "idle"
            /\ master'.result = IF legal THEN "ok" ELSE "failed"
        BY <3>2, <4>4 DEF Done, MasterRecord
      <4> QED
        BY <2>2, <4>5 DEF Fair
    <3>10. CASE UNCHANGED vars
      <4>1. master' = master /\ requests' = requests /\ answers' = answers
            /\ info' = info
        BY <3>10 DEF vars
      <4> QED
        BY <2>2, <2>4, <3>1, <4>1
    <3> QED
      BY <2>1, <3>6, <3>7, <3>8, <3>9, <3>10 DEF SdoInfoInd
  <2> QED
    BY <2>3, <2>4
<1> QED
  BY <1>1, <1>2

\* A whole list, and the numbers of its objects.
LEMMA WholeList ==
  ASSUME NEW listType \in 0 .. 4, NEW begin \in 1 .. Len(ObjDicList) + 1
  PROVE  LET all == Places(listType, begin)
         IN  /\ all \in Seq(1 .. Len(ObjDicList)) /\ Len(all) \in 0 .. 22
             /\ \A k \in 1 .. Len(all) : all[k] \in 1 .. Len(ObjDicList)
             /\ Len(ObjDicList) \in 1 .. 22
<1> DEFINE all == Places(listType, begin)
           end == Len(ObjDicList)
<1>1. end \in 1 .. 22 /\ begin \in 1 .. end + 1
  BY PlacesAssumption
<1>2. all \in Seq(1 .. end) /\ Len(all) <= end
  BY <1>1, PlacesAssumption
<1>3. Len(all) \in Nat /\ \A k \in 1 .. Len(all) : all[k] \in 1 .. end
  BY <1>2, LenProperties, ElementOfSeq
<1> DEFINE n == Len(all)
<1>4. n \in 0 .. 22
  <2>1. n \in Nat /\ n <= end /\ end \in 1 .. 22
    BY <1>1, <1>2, <1>3
  <2> HIDE DEF n, end
  <2> QED
    BY ONLY <2>1
<1> HIDE DEF all, end
<1> QED
  BY <1>1, <1>2, <1>3, <1>4 DEF all, end

\* The next n objects of a list, of which done are sent.
Taken(listType, begin, done, n, numbers) ==
  \A k \in 1 .. n :
    numbers[k] = Number[ObjDicList[Places(listType, begin)[done + k]]]

\* The objects of a list behind the first done ones are those from a place on.
Remain(listType, begin, done, from) ==
  LET all == Places(listType, begin)
  IN  /\ done \in 0 .. Len(all)
      /\ Places(listType, from) = SubSeq(all, done + 1, Len(all))

\* A part of what remains, as much as there is or has room.
IsPart(listType, begin, done, size, part) ==
  LET all == Places(listType, begin)
      n   == Least(size \div 2, Len(all) - done)
  IN  /\ n \in Nat /\ Len(part.objects) = n
      /\ Taken(listType, begin, done, n, part.objects)
      /\ Places(listType, part.next) = SubSeq(all, done + n + 1, Len(all))

\* What OBJ_GetObjectList takes from a list of which done objects are sent.
LEMMA ListPart ==
  ASSUME NEW listType \in 0 .. 4, NEW from, NEW size \in Nat, size >= 22,
         NEW begin \in 1 .. Len(ObjDicList) + 1, NEW done,
         Remain(listType, begin, done, from)
  PROVE  IsPart(listType, begin, done, size, GetObjectList(listType, from, size))
<1>0. /\ done \in 0 .. Len(Places(listType, begin))
      /\ Places(listType, from) =
           SubSeq(Places(listType, begin), done + 1, Len(Places(listType, begin)))
  BY DEF Remain
<1> DEFINE all == Places(listType, begin)
           end == Len(ObjDicList)
           places == Places(listType, from)
           room == size \div 2
           rest == Len(all) - done
           n == Least(room, rest)
<1>1. /\ all \in Seq(1 .. end) /\ Len(all) \in Nat
      /\ \A k \in 1 .. Len(all) : all[k] \in 1 .. end
  <2>1. Len(all) \in 0 .. 22
    BY WholeList
  <2>2. Len(all) \in Nat
    <3> DEFINE m == Len(all)
    <3> HIDE DEF m
    <3> QED
      BY <2>1 DEF m
  <2> QED
    BY <2>2, WholeList
<1>2. /\ Len(places) = rest
      /\ \A k \in 1 .. rest : places[k] = all[done + k]
  <2> HIDE DEF all
  <2>1. done + 1 \in Int /\ Len(all) \in Int /\ done \in Nat
    BY <1>0, <1>1 DEF all
  <2>2. \A k \in done + 1 .. Len(all) : all[k] \in 1 .. end
    <3> HIDE DEF end
    <3> QED
      BY <1>1, <2>1
  <2>3. places = SubSeq(all, done + 1, Len(all))
    BY <1>0 DEF all
  <2> HIDE DEF places
  <2>4. /\ Len(places) = IF done + 1 <= Len(all)
                         THEN Len(all) - (done + 1) + 1 ELSE 0
        /\ \A k \in 1 .. Len(all) - (done + 1) + 1 :
             places[k] = all[done + 1 + k - 1]
    BY <2>1, <2>2, <2>3, SubSeqProperties
  <2>5. done <= Len(all)
    BY <1>0, <1>1 DEF all
  <2>6. Len(places) = rest
    BY <2>1, <2>4, <2>5
  <2>7. \A k \in 1 .. rest : done + 1 + k - 1 = done + k
    BY <2>1
  <2>8. Len(all) - (done + 1) + 1 = rest
    BY <2>1
  <2> HIDE DEF rest
  <2> QED
    BY <2>4, <2>6, <2>7, <2>8
<1>3. room \in Nat /\ room > 0 /\ rest \in Nat /\ done \in Nat
  BY <1>0, <1>1
<1>4. n \in Nat /\ n <= rest /\ n <= room /\ (n # room => n = rest)
  <2> HIDE DEF room, rest
  <2> QED
    BY <1>3 DEF Least
<1> DEFINE part == GetObjectList(listType, from, size)
<1>5. /\ part.objects = [k \in 1 .. n |-> Number[ObjDicList[places[k]]]]
      /\ part.next = IF n = room THEN places[n] + 1 ELSE end + 1
  <2>1. n = Least(room, Len(places))
    BY <1>2
  <2> HIDE DEF n
  <2> QED
    BY <2>1 DEF GetObjectList
<1> HIDE DEF part, room, rest, n, places, all
<1>6. /\ Len(part.objects) = n
      /\ \A k \in 1 .. n : part.objects[k] = Number[ObjDicList[all[done + k]]]
  BY <1>2, <1>3, <1>4, <1>5
<1>7. Places(listType, part.next) = SubSeq(all, done + n + 1, Len(all))
  <2>1. CASE n = room
    <3>1. places[n] = all[done + n] /\ done + n \in 1 .. Len(all)
      BY <1>1, <1>2, <1>3, <1>4, <2>1 DEF rest
    <3>2. part.next = all[done + n] + 1
      BY <1>5, <2>1, <3>1
    <3>3. Places(listType, all[done + n] + 1) = SubSeq(all, (done + n) + 1, Len(all))
      BY <3>1, PlacesAssumption DEF all
    <3> QED
      BY <3>2, <3>3
  <2>2. CASE n # room
    <3>1. Places(listType, part.next) = <<>>
      BY <1>5, <2>2, PlacesAssumption DEF end
    <3>2. Len(all) < done + n + 1 /\ done + n + 1 \in Int /\ Len(all) \in Int
      BY <1>1, <1>3, <1>4, <2>2 DEF rest
    <3>3. SubSeq(all, done + n + 1, Len(all)) = <<>>
      BY <3>2, SubSeqEmpty
    <3> QED
      BY <3>1, <3>3
  <2> QED
    BY <2>1, <2>2
<1>8. Taken(listType, begin, done, n, part.objects)
  BY <1>6 DEF Taken, all
<1> QED
  BY <1>4, <1>6, <1>7, <1>8 DEF IsPart, part, n, room, rest, all

\* The first fragment leaves no more than the fragments counted have room
\* for: there are so few objects that one more is enough for any.
LEMMA FirstLeft ==
  ASSUME NEW listType \in 0 .. 4
  PROVE  LET n    == Len(Places(listType, 1))
             left == FragmentsLeft(n, ListRoom)
         IN  n - Least(ListRoom \div 2, n) <= left * (FragmentRoom \div 2)
<1> DEFINE n == Len(Places(listType, 1))
           left == FragmentsLeft(n, ListRoom)
           room == ListRoom \div 2
           more == FragmentRoom \div 2
<1>1. n \in 0 .. 22
  <2>1. 1 \in 1 .. Len(ObjDicList) + 1
    BY PlacesAssumption
  <2> QED
    BY <2>1, WholeList
<1>2. ListRoom \in 22 .. 254 /\ FragmentRoom = ListRoom + 2
  BY ListRooms
<1>3. ListRoom \in Nat /\ FragmentRoom \in Nat /\ n \in Nat
  <2> HIDE DEF n
  <2> QED
    BY ONLY <1>1, <1>2
<1>4. /\ room \in Nat /\ 2 * room <= ListRoom /\ ListRoom < 2 * room + 2
      /\ more \in Nat /\ FragmentRoom < 2 * more + 2
  <2>1. 2 \in Nat \ {0}
    OBVIOUS
  <2> QED
    BY ONLY <1>3, <2>1, DivFacts
<1>5. left \in Nat
  BY <1>3, FragmentsNat
<1>6. 2 * n > ListRoom => left >= 1
  <2> SUFFICES ASSUME 2 * n > ListRoom PROVE left >= 1
    OBVIOUS
  <2> DEFINE d == ListRoom + 2
             a == 2 * n - ListRoom + d - 1
             q == a \div d
  <2>1. a \in Nat /\ d \in Nat \ {0} /\ a >= d
    <3> HIDE DEF n
    <3> QED
      BY <1>3
  <2>2. left = q
    BY DEF FragmentsLeft
  <2> HIDE DEF a, d
  <2>3. q \in Nat /\ a < d * q + d
    BY <2>1, DivFacts
  <2>4. q # 0
    <3> SUFFICES ASSUME q = 0 PROVE FALSE
      OBVIOUS
    <3>1. d * q = 0
      <4> HIDE DEF q
      <4> QED
        BY <2>1
    <3> HIDE DEF q
    <3> QED
      BY <2>1, <2>3, <3>1
  <2> HIDE DEF q
  <2> QED
    BY <2>2, <2>3, <2>4
<1> DEFINE part == Least(room, n)
           bound == left * more
<1>7. bound \in Nat /\ (left >= 1 => bound >= more)
  <2> HIDE DEF left, more
  <2>1. left * more \in Nat
    BY <1>4, <1>5
  <2>2. left >= 1 => left * more = more + (left - 1) * more
    BY <1>4, <1>5
  <2>3. left >= 1 => (left - 1) * more \in Nat
    BY <1>4, <1>5
  <2> QED
    BY <1>4, <2>1, <2>2, <2>3
<1>8. part = IF room < n THEN room ELSE n
  BY DEF Least
<1> HIDE DEF n, left, room, more, part, bound
<1>9. n - part <= bound
  <2>1. CASE room < n
    <3>1. 2 * n > ListRoom
      BY <1>1, <1>2, <1>4, <2>1
    <3>2. room >= 11 /\ more >= 11
      BY <1>2, <1>4
    <3> QED
      BY <1>1, <1>4, <1>5, <1>6, <1>7, <1>8, <2>1, <3>1, <3>2
  <2>2. CASE ~(room < n)
    BY <1>1, <1>4, <1>7, <1>8, <2>2
  <2> QED
    BY <2>1, <2>2
<1> QED
  BY <1>9 DEF n, left, room, more, part, bound

\* No list has so many objects that it takes more than two fragments, and
\* only the list of all objects takes two.
LEMMA FewLeft ==
  ASSUME NEW listType \in 0 .. 4
  PROVE  LET left == FragmentsLeft(GetNoOfObjects(listType), ListRoom)
         IN  left \in {0, 1} /\ (left = 1 => listType = 0)
<1> DEFINE n == Len(Places(listType, 1))
           left == FragmentsLeft(n, ListRoom)
<1>1. n \in 0 .. 22
  <2>1. 1 \in 1 .. Len(ObjDicList) + 1
    BY PlacesAssumption
  <2> QED
    BY <2>1, WholeList
<1>2. ListRoom \in 22 .. 254
  BY ListRooms
<1>3. CASE ~(2 * n > ListRoom)
  BY <1>3 DEF FragmentsLeft, GetNoOfObjects
<1>4. CASE 2 * n > ListRoom
  <2>1. listType = 0
    <3> SUFFICES ASSUME listType # 0 PROVE FALSE
      OBVIOUS
    <3>1. n <= 11
      BY ShortAssumption
    <3> HIDE DEF n
    <3> QED
      BY <1>1, <1>2, <1>4, <3>1
  <2> DEFINE d == ListRoom + 2
             a == 2 * n - ListRoom + d - 1
             q == a \div d
  <2>2. left = q
    BY <1>4 DEF FragmentsLeft
  <2>3. a \in 0 .. 45 /\ d \in Nat \ {0} /\ d >= 24
    <3> HIDE DEF n
    <3> QED
      BY <1>1, <1>2
  <2> HIDE DEF a, d
  <2>4. q \in Nat /\ d * q <= a
    BY <2>3, DivFacts
  <2> HIDE DEF q
  <2>5. q \in {0, 1}
    <3> SUFFICES ASSUME q >= 2 PROVE FALSE
      BY <2>4
    <3>1. (q - 2) * d \in Nat
      BY <2>3, <2>4
    <3>2. d * q = (q - 2) * d + 2 * d
      BY <2>3, <2>4
    <3> QED
      BY <2>3, <2>4, <3>1, <3>2
  <2> QED
    BY <2>1, <2>2, <2>5 DEF GetNoOfObjects
<1> QED
  BY <1>3, <1>4

LEMMA LeftFits ==
  ASSUME info \in InfoType, Fragments(info), NEW list \in 1 .. 5
  PROVE  Fragments(Fragment(list).info)
<1> DEFINE type == list - 1
           first == info.left = 0
           part == GetObjectList(type, IF first THEN 1 ELSE info.next,
                                 IF first THEN ListRoom ELSE FragmentRoom)
           left == IF first
                   THEN FragmentsLeft(GetNoOfObjects(type), ListRoom)
                   ELSE info.left - 1
           f == Fragment(list).info
           more == FragmentRoom \div 2
<1>1. f.left = left /\ f.next = part.next /\ (f.follow <=> left > 0)
  BY DEF Fragment
<1>2. CASE ~first
  <2>1. left = 0
    BY <1>2 DEF Fragments
  <2> HIDE DEF left, part, f
  <2> QED
    BY <1>1, <2>1 DEF Fragments, f
<1>3. CASE first
  <2>1. type \in 0 .. 4
    OBVIOUS
  <2>2. left \in {0, 1} /\ (left = 1 => type = 0)
    <3> HIDE DEF type
    <3> QED
      BY <1>3, <2>1, FewLeft
  <2>3. ASSUME left = 1
        PROVE  Len(Places(0, part.next)) <= more
    <3> DEFINE all == Places(0, 1)
               room == ListRoom \div 2
               n == Least(room, Len(all) - 0)
    <3>1. type = 0 /\ part = GetObjectList(0, 1, ListRoom)
      BY <1>3, <2>2, <2>3
    <3>2. /\ all \in Seq(1 .. Len(ObjDicList)) /\ Len(all) \in 0 .. 22
          /\ \A k \in 1 .. Len(all) : all[k] \in 1 .. Len(ObjDicList)
          /\ 1 \in 1 .. Len(ObjDicList) + 1
      <4>1. 1 \in 1 .. Len(ObjDicList) + 1
        BY PlacesAssumption
      <4> QED
        BY <4>1, WholeList
    <3>3. ListRoom \in Nat /\ ListRoom >= 22
      BY ListRooms
    <3>4. Places(0, 1) = SubSeq(all, 0 + 1, Len(all)) /\ 0 \in 0 .. Len(all)
      <4>1. SubSeq(all, 1, Len(all)) = all
        BY <3>2, SubSeqFull
      <4> HIDE DEF all
      <4>2. 0 \in 0 .. Len(all)
        BY <3>2
      <4> QED
        BY <4>1, <4>2 DEF all
    <3>5. n \in Nat /\ Places(0, part.next) = SubSeq(all, 0 + n + 1, Len(all))
      <4> HIDE DEF part
      <4>1. Remain(0, 1, 0, 1)
        BY <3>4 DEF Remain
      <4>2. IsPart(0, 1, 0, ListRoom, part)
        BY <3>1, <3>2, <3>3, <4>1, ListPart
      <4> QED
        BY <4>2 DEF IsPart
    <3>6. Len(all) - Least(room, Len(all)) <= left * more
      BY <1>3, <3>1, FirstLeft DEF GetNoOfObjects
    <3>7. more \in Nat
      <4>1. FragmentRoom \in Nat
        BY ListRooms
      <4> QED
        BY <4>1
    <3> HIDE DEF all, more, left, part, room
    <3>8. Len(all) - 0 = Len(all) /\ 1 * more = more
      BY <3>2, <3>7
    <3>9. Len(all) - n <= more
      BY <2>3, <3>6, <3>8
    <3> HIDE DEF n
    <3>10. Len(SubSeq(all, n + 1, Len(all))) =
             IF n + 1 <= Len(all) THEN Len(all) - (n + 1) + 1 ELSE 0
      <4>1. n + 1 \in Int /\ Len(all) \in Int
            /\ \A k \in n + 1 .. Len(all) : all[k] \in 1 .. Len(ObjDicList)
        BY <3>2, <3>5
      <4> QED
        BY <4>1, SubSeqProperties
    <3>11. 0 + n + 1 = n + 1
      BY <3>5
    <3> QED
      BY <3>2, <3>5, <3>7, <3>9, <3>10, <3>11
  <2> HIDE DEF left, part, f, more
  <2> QED
    BY <1>1, <2>2, <2>3 DEF Fragments, f, more
<1> QED
  BY <1>2, <1>3

\* While a list is sent in fragments, fragments are left: no more than one,
\* and if the mailbox stops before it is sent, it stays.
LEMMA FragmentsStep ==
  ASSUME TypeInv, Fragments(info), [Next]_vars
  PROVE  Fragments(info')
<1>1. /\ info \in InfoType /\ master \in MasterRecord
  BY DEF TypeInv
<1>2. CASE UNCHANGED info
  BY <1>2
<1>3. CASE StopMailbox
  <2>1. info' = [info EXCEPT !.follow = FALSE]
    BY <1>3 DEF StopMailbox
  <2>2. info'.follow = FALSE /\ info'.left = info.left /\ info'.next = info.next
    BY <1>1, <2>1 DEF InfoType
  <2> QED
    BY <2>1, <2>2 DEF Fragments
<1>4. ASSUME NEW list \in 1 .. 5, info' = Fragment(list).info
      PROVE  Fragments(info')
  BY <1>1, <1>4, LeftFits
<1>5. ASSUME ~info.follow,
             \/ info' = [info EXCEPT !.left = 0, !.list = 0]
             \/ info' = [info EXCEPT !.left = 0]
      PROVE  Fragments(info')
  <2>1. info'.left = 0 /\ info'.follow = FALSE
    BY <1>1, <1>5 DEF InfoType
  <2> QED
    BY <2>1 DEF Fragments
<1>6. CASE SendList
  BY <1>2, <1>4, <1>5, <1>6, ServerTakes DEF SendList
<1>7. CASE Describe
  BY <1>2, <1>5, <1>7, ServerTakes DEF Describe
<1>8. CASE ContinueInd
  BY <1>4, <1>8 DEF ContinueInd, TypeInv, Following
<1>9. CASE SdoInd \/ Tick
  BY <1>2, <1>9, ServerTakes DEF Tick
<1>10. CASE Master
  BY <1>2, <1>3, <1>10 DEF Master, Start, TakeAnswer, GiveUp, AskAgain,
                            ChangeState
<1> QED
  BY <1>2, <1>6, <1>7, <1>8, <1>9, <1>10 DEF Next, SdoInfoInd, vars

LEMMA BeginTyped ==
  ASSUME NEW m, m.rest \in Rests
  PROVE  Begin(m) \in 1 .. Len(ObjDicList) + 1
<1>1. 1 \in 1 .. Len(ObjDicList) + 1
  BY PlacesAssumption
<1> QED
  BY <1>1 DEF Begin, Rests

\* The fragment that goes on is the one the master waits for.
LEMMA FragmentNames ==
  ASSUME info \in InfoType, NEW m, m.job.value \in 1 .. 5,
         m.listed \in Seq(Nat), m.rest \in Rests,
         \/ info.left = 0 /\ m.rest.left = 0 /\ m.listed = <<>>
         \/ info.left > 0 /\ NamesTo(m, info, m.listed)
  PROVE  LET next == Fragment(m.job.value)
         IN  Names(m, next.info, m.listed \o next.answer.objects)
<1> DEFINE list == m.job.value
           type == list - 1
           begin == Begin(m)
           all == Places(type, begin)
           end == Len(ObjDicList)
           first == info.left = 0
           from == IF first THEN 1 ELSE info.next
           size == IF first THEN ListRoom ELSE FragmentRoom
           done == IF first THEN 0 ELSE Len(m.listed)
           part == GetObjectList(type, from, size)
           left == IF first
                   THEN FragmentsLeft(GetNoOfObjects(type), ListRoom)
                   ELSE info.left - 1
           n == Least(size \div 2, Len(all) - done)
           got == m.listed \o part.objects
           more == FragmentRoom \div 2
<1>1. type \in 0 .. 4
  OBVIOUS
<1>2. all \in Seq(1 .. end) /\ Len(all) \in 0 .. 22
  <2>1. begin \in 1 .. end + 1
    BY BeginTyped
  <2> HIDE DEF begin
  <2> QED
    BY <1>1, <2>1, WholeList
<1>3. /\ Len(m.listed) \in Nat /\ info.left \in Nat
  BY LenProperties DEF InfoType
<1>4. m.listed = <<>> => Len(m.listed) = 0
  OBVIOUS
<1>5. /\ done = Len(m.listed) /\ done \in 0 .. Len(all)
      /\ \A k \in 1 .. done : m.listed[k] = Number[ObjDicList[all[k]]]
      /\ Places(type, from) = SubSeq(all, done + 1, Len(all))
  <2>1. CASE first
    <3>1. m.listed = <<>> /\ begin = 1
      BY <2>1 DEF Begin
    <3>2. SubSeq(all, 1, Len(all)) = all
      BY <1>2, SubSeqFull
    <3>3. done = 0 /\ 0 \in 0 .. Len(all)
      <4> HIDE DEF all
      <4> QED
        BY <1>2, <2>1
    <3> QED
      BY <1>4, <2>1, <3>1, <3>2, <3>3
  <2>2. CASE ~first
    <3>1. NamesTo(m, info, m.listed)
      BY <2>2
    <3>2. /\ Len(m.listed) <= Len(all)
          /\ \A k \in 1 .. Len(m.listed) :
               m.listed[k] = Number[ObjDicList[all[k]]]
          /\ Places(type, info.next) = SubSeq(all, Len(m.listed) + 1, Len(all))
      BY <3>1 DEF NamesTo
    <3>3. Len(m.listed) \in 0 .. Len(all)
      <4> HIDE DEF all
      <4> QED
        BY <1>2, <1>3, <3>2
    <3> HIDE DEF all
    <3> QED
      BY <2>2, <3>2, <3>3
  <2> QED
    BY <2>1, <2>2
<1>6. size \in Nat /\ size >= 22
  BY ListRooms
<1>7. /\ n \in Nat /\ Len(part.objects) = n
      /\ \A k \in 1 .. n :
           part.objects[k] = Number[ObjDicList[all[done + k]]]
      /\ Places(type, part.next) = SubSeq(all, done + n + 1, Len(all))
  <2>1. Remain(type, begin, done, from) /\ begin \in 1 .. Len(ObjDicList) + 1
    BY <1>5, BeginTyped DEF Remain
  <2> HIDE DEF from, size, done, type, begin
  <2>2. IsPart(type, begin, done, size, part)
    BY ONLY <1>1, <1>6, <2>1, ListPart
  <2> QED
    BY ONLY <2>2 DEF IsPart, Taken
<1>8. part.objects \in Seq(Nat)
  <2>1. from \in 1 .. end + 1
    BY PlacesTyped
  <2> HIDE DEF from, size, type
  <2> QED
    BY <1>1, <1>6, <2>1, ObjectListTyped
<1>9. /\ Len(got) = done + n
      /\ \A k \in 1 .. done + n :
           got[k] = IF k <= done THEN m.listed[k] ELSE part.objects[k - done]
  <2> DEFINE listed == m.listed
             taken == part.objects
  <2>1. /\ listed \in Seq(Nat) /\ taken \in Seq(Nat)
        /\ Len(listed) = done /\ Len(taken) = n
    BY <1>5, <1>7, <1>8
  <2>2. got = listed \o taken
    OBVIOUS
  <2> HIDE DEF listed, taken, done, n, got
  <2>3. /\ Len(got) = done + n
        /\ \A k \in 1 .. done + n :
             got[k] = IF k <= done THEN listed[k] ELSE taken[k - done]
    BY ONLY <2>1, <2>2, ConcatProperties
  <2> QED
    BY <2>3 DEF listed, taken
<1>10. done \in Nat /\ Len(all) \in Nat /\ n <= Len(all) - done
       /\ size \div 2 \in Nat /\ (n = size \div 2 \/ n = Len(all) - done)
  <2>1. Len(all) \in Nat /\ done \in Nat /\ done <= Len(all)
    <3> HIDE DEF all, done
    <3> QED
      BY <1>2, <1>5
  <2>2. size \div 2 \in Nat
    <3> HIDE DEF size
    <3> QED
      BY <1>6
  <2> DEFINE room == size \div 2
             rest == Len(all) - done
  <2>3. rest \in Nat
    <3> HIDE DEF all, done
    <3> QED
      BY <2>1
  <2> HIDE DEF room, rest
  <2>4. Least(room, rest) <= rest
        /\ (Least(room, rest) = room \/ Least(room, rest) = rest)
    BY <2>2, <2>3 DEF Least, room
  <2> QED
    BY <2>1, <2>2, <2>4 DEF room, rest
<1>11. \A k \in 1 .. done + n : got[k] = Number[ObjDicList[all[k]]]
  <2> HIDE DEF done, n, got, all, part
  <2> SUFFICES ASSUME NEW k \in 1 .. done + n
               PROVE  got[k] = Number[ObjDicList[all[k]]]
    OBVIOUS
  <2>1. CASE k <= done
    <3>1. k \in 1 .. done
      BY <1>10, <2>1
    <3> QED
      BY <1>5, <1>9, <2>1, <3>1
  <2>2. CASE ~(k <= done)
    <3>1. k - done \in 1 .. n /\ done + (k - done) = k
      BY <1>7, <1>10, <2>2
    <3> QED
      BY <1>7, <1>9, <2>2, <3>1
  <2> QED
    BY <2>1, <2>2
<1>12. Len(all) - (done + n) <= left * more
  <2>1. CASE first
    <3>0. begin = 1
      BY <2>1 DEF Begin
    <3>1. Len(all) - Least(ListRoom \div 2, Len(all)) <= left * more
      BY <1>1, <2>1, <3>0, FirstLeft DEF GetNoOfObjects
    <3>2. done = 0
      BY <2>1
    <3>3. Len(all) - 0 = Len(all)
      <4> HIDE DEF all
      <4> QED
        BY <1>10
    <3>4. n = Least(ListRoom \div 2, Len(all))
      BY <2>1, <3>2, <3>3
    <3>5. Len(all) - (done + n) = Len(all) - n
      <4> HIDE DEF all, n, done
      <4> QED
        BY <1>7, <1>10, <3>2
    <3> QED
      BY <3>1, <3>4, <3>5
  <2>2. CASE ~first
    <3>1. Len(all) - done <= info.left * more
      <4>1. NamesTo(m, info, m.listed)
        BY <2>2
      <4>2. Len(all) - Len(m.listed) <= info.left * more
        BY <4>1 DEF NamesTo
      <4> QED
        BY <2>2, <4>2
    <3>2. size \div 2 = more /\ left = info.left - 1
      BY <2>2
    <3>3. info.left \in Nat \ {0}
      BY <1>3, <2>2
    <3>4. more \in Nat
      BY <1>10, <3>2
    <3>5. n = more \/ n = Len(all) - done
      BY <1>10, <3>2
    <3> DEFINE l == info.left
               rest == Len(all) - done
               b == (l - 1) * more
    <3>6. l * more = b + more /\ b \in Nat
      <4>1. l \in Nat \ {0}
        BY <3>3
      <4> HIDE DEF l, more
      <4>2. (l - 1) * more \in Nat
        BY ONLY <3>4, <4>1
      <4>3. l * more = (l - 1) * more + more
        BY ONLY <3>4, <4>1
      <4> QED
        BY <4>2, <4>3
    <3>7. Len(all) - (done + n) = rest - n /\ rest \in Int
      <4> HIDE DEF all, n, done
      <4> QED
        BY <1>7, <1>10
    <3>8. rest - n <= b
      <4>1. rest <= b + more /\ (n = more \/ n = rest)
        BY <3>1, <3>5, <3>6
      <4>2. rest \in Int /\ b \in Nat /\ more \in Nat /\ n \in Nat
        BY <1>7, <3>4, <3>6, <3>7
      <4> HIDE DEF rest, n, b, more
      <4> QED
        BY ONLY <4>1, <4>2
    <3> QED
      BY <3>2, <3>7, <3>8
  <2> QED
    BY <2>1, <2>2
<1> DEFINE f == Fragment(list).info
<1>13. /\ f.left = left /\ f.next = part.next /\ f.list = list
       /\ Fragment(list).answer.objects = part.objects
  BY DEF Fragment
<1>14. done + n <= Len(all)
  <2> HIDE DEF done, n, all
  <2> QED
    BY <1>7, <1>10
<1> HIDE DEF done, n, all, part, left, more, f
<1>15. Names(m, f, got)
  BY <1>7, <1>9, <1>11, <1>12, <1>13, <1>14 DEF Names, NamesTo, all, more
<1> QED
  BY <1>13, <1>15 DEF f

\* A list of which nothing is left is whole.
LEMMA NamesAll ==
  ASSUME NEW m, m.job.value \in 1 .. 5, m.rest \in Rests, NEW f, f.left = 0,
         NEW got \in Seq(Nat), Names(m, f, got)
  PROVE  LET all == Places(m.job.value - 1, Begin(m))
         IN  got = [k \in 1 .. Len(all) |-> Number[ObjDicList[all[k]]]]
<1> DEFINE all == Places(m.job.value - 1, Begin(m))
           more == FragmentRoom \div 2
<1>1. Len(all) \in 0 .. 22
  <2> DEFINE type == m.job.value - 1
  <2>1. type \in 0 .. 4 /\ Begin(m) \in 1 .. Len(ObjDicList) + 1
    BY BeginTyped
  <2> HIDE DEF type
  <2>2. Len(Places(type, Begin(m))) \in 0 .. 22
    BY <2>1, WholeList
  <2> QED
    BY <2>2 DEF type
<1>2. more \in Nat
  <2>1. FragmentRoom \in Nat
    BY ListRooms
  <2> QED
    BY <2>1
<1>3. /\ Len(got) <= Len(all)
      /\ \A k \in 1 .. Len(got) : got[k] = Number[ObjDicList[all[k]]]
      /\ Len(all) - Len(got) <= 0 * more
  BY DEF Names, NamesTo
<1>4. Len(got) \in Nat /\ DOMAIN got = 1 .. Len(got)
      /\ got = [k \in 1 .. Len(got) |-> got[k]]
  BY LenProperties
<1> HIDE DEF all, more
<1>5. Len(got) = Len(all)
  <2> DEFINE n == Len(got)
             k == Len(all)
  <2>1. 0 * more = 0
    BY <1>2
  <2>2. n \in Nat /\ k \in 0 .. 22 /\ n <= k /\ k - n <= 0
    BY <1>1, <1>3, <1>4, <2>1
  <2> HIDE DEF n, k
  <2>3. n = k
    BY ONLY <2>2
  <2> QED
    BY <2>3 DEF n, k
<1>6. got = [k \in 1 .. Len(all) |-> Number[ObjDicList[all[k]]]]
  BY <1>3, <1>4, <1>5
<1> QED
  BY <1>6 DEF all

\* The fragment that is left of a list has room for what is left of any.
LEMMA RestNames ==
  ASSUME info \in InfoType, Fragments(info), info.left # 0, NEW m,
         m.job.value \in 1 .. 5, m.rest.left = info.left,
         m.rest.next = info.next
  PROVE  NamesTo(m, info, <<>>)
<1> DEFINE type == m.job.value - 1
           next == info.next
           all == Places(type, next)
           more == FragmentRoom \div 2
<1>1. /\ type \in 0 .. 4 /\ next \in 1 .. Len(ObjDicList) + 1
      /\ info.left = 1 /\ Len(Places(0, next)) <= more
  BY DEF Fragments, InfoType
<1>2. Begin(m) = next
  BY DEF Begin
<1> HIDE DEF type, next, more
<1>3. /\ all \in Seq(1 .. Len(ObjDicList)) /\ Len(all) \in 0 .. 22
      /\ Len(Places(0, next)) \in 0 .. 22 /\ Len(all) <= Len(Places(0, next))
  <2>1. all \in Seq(1 .. Len(ObjDicList)) /\ Len(all) \in 0 .. 22
    BY <1>1, WholeList
  <2>2. Len(Places(0, next)) \in 0 .. 22
    BY <1>1, WholeList
  <2>3. Len(all) <= Len(Places(0, next))
    BY <1>1, PlacesAssumption
  <2> QED
    BY <2>1, <2>2, <2>3
<1>4. SubSeq(all, 1, Len(all)) = all
  BY <1>3, SubSeqFull
<1>5. more \in Nat
  <2>1. FragmentRoom \in Nat
    BY ListRooms
  <2> QED
    BY <2>1 DEF more
<1> DEFINE n == Len(all)
           rest == Len(Places(0, next))
           none == Len(<<>>)
<1>6. none = 0
  OBVIOUS
<1>7. /\ 0 <= n /\ n - 0 <= 1 * more
  <2>1. n \in 0 .. 22 /\ rest \in 0 .. 22 /\ n <= rest /\ rest <= more
    BY <1>1, <1>3
  <2> HIDE DEF n, rest
  <2> QED
    BY <1>5, <2>1
<1> HIDE DEF all, none
<1>8. /\ none <= Len(all)
      /\ \A k \in 1 .. none : <<>>[k] = Number[ObjDicList[all[k]]]
      /\ all = SubSeq(all, none + 1, Len(all))
      /\ Len(all) - none <= info.left * more
  BY <1>1, <1>4, <1>6, <1>7
<1> QED
  BY <1>2, <1>8 DEF NamesTo, all, none, type, next, more

\* A list that is asked for is answered, with its first fragment if it is one
\* that has objects.
LEMMA SendListTold ==
  ASSUME TypeInv, Fragments(info), master.job.op = "list",
         Waits(requests, answers, master), Request = Asked(master),
         ~info.follow, master.listed = <<>>,
         master.rest = [left |-> info.left, next |-> info.next], SendList
  PROVE  /\ Told(requests', answers') /\ master' = master
         /\ ListTold(master, info', Head(answers'))
<1> DEFINE list == master.job.value
<1>1. info \in InfoType /\ list \in Nat
  BY DEF TypeInv, MasterRecord, JobType
<1>2. Request.list = list
  BY DEF Asked
<1>3. ASSUME NEW answer, Inform(answer), ListTold(master, info', answer)
      PROVE  /\ Told(requests', answers') /\ master' = master
             /\ ListTold(master, info', Head(answers'))
  <2>1. Answer(answer) /\ master' = master
    BY <1>3 DEF Inform
  <2>2. Told(requests', answers') /\ Head(answers') = answer
    BY <2>1, Serves
  <2> QED
    BY <1>3, <2>1, <2>2
<1>4. CASE list = 0
  <2> DEFINE answer == [kind |-> "list", left |-> 0,
                        objects |-> [i \in 1 .. 5 |-> GetNoOfObjects(i - 1)]]
  <2>1. Inform(answer) /\ info' = [info EXCEPT !.left = 0, !.list = 0]
    BY <1>2, <1>4 DEF SendList
  <2>2. info'.follow = FALSE
    BY <1>1, <2>1 DEF InfoType
  <2>3. answer.kind = "list" /\ answer.left = 0 /\ answer.objects = Counts
    BY DEF Counts
  <2> HIDE DEF answer
  <2>4. ListTold(master, info', answer)
    BY <1>4, <2>2, <2>3 DEF ListTold
  <2> QED
    BY <1>3, <2>1, <2>4
<1>5. CASE list \in 1 .. 5
  <2> DEFINE next == Fragment(list)
  <2>1. Inform(next.answer) /\ info' = next.info
    BY <1>2, <1>5 DEF SendList
  <2>2. /\ next.answer.kind = "list"
        /\ next.answer.left = next.info.left
        /\ (next.info.follow <=> next.info.left > 0)
    BY DEF Fragment
  <2>3. Names(master, next.info, master.listed \o next.answer.objects)
    <3>1. /\ master.listed \in Seq(Nat) /\ master.rest \in Rests
          /\ master.rest.left = info.left /\ master.rest.next = info.next
      BY DEF TypeInv, MasterRecord
    <3>2. CASE info.left = 0
      BY <1>1, <1>5, <3>1, <3>2, FragmentNames
    <3>3. CASE info.left # 0
      <4>1. info.left > 0
        BY <3>3 DEF Fragments
      <4>2. NamesTo(master, info, <<>>)
        BY <1>1, <1>5, <3>1, <3>3, RestNames
      <4> QED
        BY <1>1, <1>5, <3>1, <4>1, <4>2, FragmentNames
    <3> QED
      BY <3>2, <3>3
  <2> HIDE DEF next
  <2>4. ListTold(master, info', next.answer)
    BY <1>5, <2>1, <2>2, <2>3 DEF ListTold
  <2> QED
    BY <1>3, <2>1, <2>4
<1>6. CASE list > 5
  <2>1. Inform([kind |-> "unknown"]) /\ UNCHANGED info
    BY <1>2, <1>6 DEF SendList
  <2>2. ListTold(master, info', [kind |-> "unknown"])
    BY <1>6, <2>1 DEF ListTold
  <2> QED
    BY <1>3, <2>1, <2>2
<1>7. list = 0 \/ list \in 1 .. 5 \/ list > 5
  <2> HIDE DEF list
  <2> QED
    BY <1>1
<1> QED
  BY <1>4, <1>5, <1>6, <1>7

\* The next fragment of the list.
LEMMA ContinueTold ==
  ASSUME TypeInv, Fragments(info), requests = <<>>,
         info.follow, master.job.value \in 1 .. 5,
         Names(master, info, master.listed),
         ContinueInd
  PROVE  /\ Told(requests', answers') /\ master' = master
         /\ ListTold(master, info', Head(answers'))
<1> DEFINE next == Fragment(info.list)
<1>1. /\ answers' = <<next.answer>> /\ info' = next.info
      /\ requests' = <<>> /\ master' = master
  BY DEF ContinueInd
<1>2. /\ next.answer.kind = "list"
      /\ next.answer.left = next.info.left
      /\ (next.info.follow <=> next.info.left > 0)
  BY DEF Fragment
<1>3. Names(master, next.info, master.listed \o next.answer.objects)
  <2>1. info \in InfoType /\ info.left > 0
    BY DEF TypeInv, Fragments
  <2>2. master.listed \in Seq(Nat) /\ master.rest \in Rests
    BY DEF TypeInv, MasterRecord
  <2>3. NamesTo(master, info, master.listed) /\ info.list = master.job.value
    BY DEF Names
  <2> QED
    BY <2>1, <2>2, <2>3, FragmentNames
<1> HIDE DEF next
<1>4. Told(requests', answers') /\ Head(answers') = next.answer
  BY <1>1 DEF Told
<1>5. ListTold(master, info', next.answer)
  BY <1>1, <1>2, <1>3 DEF ListTold
<1> QED
  BY <1>1, <1>4, <1>5

LEMMA ListStep ==
  ASSUME TypeInv, Fragments(info), ListInv, [Next]_vars
  PROVE  ListInv'
<1> SUFFICES ASSUME master'.job.op = "list", ~master'.fault
             PROVE  IF master'.phase = "idle"
                    THEN ListOver(master', Legal(master.job)')
                    ELSE ListGoing(requests', answers', master', info')
  BY DEF ListInv
<1>1. CASE Starts
  BY <1>1, StartWaits DEF Starts, ListGoing
<1>2. CASE ~Starts
  <2>1. /\ master'.job = master.job /\ master.fault = FALSE
        /\ SdoInd \/ SdoInfoInd \/ Tick \/ TakeAnswer \/ UNCHANGED vars
        /\ al' = al
    BY <1>2, CalmStep
  <2>2. Legal(master.job)' = Legal(master.job)
    BY <2>1, LegalStays
  <2> DEFINE legal == Legal(master.job)
  <2>3. CASE master.phase = "idle"
    <3>1. master' = master
      BY <1>2, <2>3, CalmIdle
    <3> QED
      BY <2>1, <2>2, <2>3, <3>1 DEF ListInv
  <2>4. CASE master.phase # "idle"
    <3>1. ListGoing(requests, answers, master, info)
      BY <2>1, <2>4 DEF ListInv
    <3>2. master \in MasterRecord /\ MasterGood(master) /\ info \in InfoType
          /\ answers \in Seq(AnswerType)
      BY DEF TypeInv, IInv, Parties
    <3>3. master.phase = "initiated"
      BY <2>1, <2>4, <3>2 DEF MasterGood
    <3>4. Asked(master) = [cmd |-> "list", list |-> master.job.value]
      BY <2>1 DEF Asked
    <3>5. requests # <<>> =>
            /\ Waits(requests, answers, master) /\ Request = Asked(master)
            /\ ~info.follow /\ master.listed = <<>>
            /\ master.rest = [left |-> info.left, next |-> info.next]
      BY <3>1, WaitsFirst DEF ListGoing, Told, Waits
    <3>6. ~SdoInd /\ ~Describe
      BY <3>4, <3>5, ServerTakes
    <3>7. ASSUME /\ Told(requests', answers') /\ master' = master
                 /\ ListTold(master, info', Head(answers'))
          PROVE  ListGoing(requests', answers', master', info')
      BY <3>1, <3>7 DEF ListGoing
    <3>8. CASE SendList
      <4>1. /\ Waits(requests, answers, master) /\ Request = Asked(master)
            /\ ~info.follow /\ master.listed = <<>>
            /\ master.rest = [left |-> info.left, next |-> info.next]
        BY <3>5, <3>8, ServerTakes
      <4>2. /\ Told(requests', answers') /\ master' = master
            /\ ListTold(master, info', Head(answers'))
        BY <2>1, <3>8, <4>1, SendListTold
      <4> QED
        BY <2>4, <3>7, <4>2
    <3>9. CASE ContinueInd
      <4>1. info.follow /\ answers = <<>>
        BY <3>9 DEF ContinueInd
      <4>2. /\ requests = <<>> /\ master.job.value \in 1 .. 5
            /\ Names(master, info, master.listed)
        BY <3>1, <4>1 DEF ListGoing, Told
      <4>3. /\ Told(requests', answers') /\ master' = master
            /\ ListTold(master, info', Head(answers'))
        BY <3>9, <4>1, <4>2, ContinueTold
      <4> QED
        BY <2>4, <3>7, <4>3
    <3>10. CASE Tick
      <4>1. /\ master' = Seeing(Ticked(1), 0)
            /\ UNCHANGED <<requests, answers, info>>
        BY <3>10 DEF Tick
      <4>2. /\ Asked(Seeing(Ticked(1), 0)) = Asked(master)
            /\ Seeing(Ticked(1), 0).phase = master.phase
            /\ Seeing(Ticked(1), 0).listed = master.listed
            /\ Seeing(Ticked(1), 0).rest = master.rest
            /\ Seeing(Ticked(1), 0).job = master.job
            /\ Seeing(Ticked(1), 0).result = master.result
        BY <3>2, SeeingAsks
      <4>3. /\ master'.phase = master.phase /\ master'.result = master.result
            /\ master'.listed = master.listed /\ master'.rest = master.rest
            /\ Asked(master') = Asked(master)
        BY ONLY <4>1, <4>2
      <4>4. Waits(requests, answers, master) => Waits(requests, answers, master')
        BY <4>3 DEF Waits
      <4>0. \A got : Names(master, info, got) => Names(master', info, got)
        <5>1. Begin(master') = Begin(master)
          BY <4>3 DEF Begin
        <5> QED
          BY <2>1, <5>1 DEF Names, NamesTo
      <4>5. \A answer : ListTold(master, info, answer)
                          => ListTold(master', info, answer)
        BY <2>1, <4>0, <4>3 DEF ListTold
      <4>6. Names(master, info, master.listed) => Names(master', info, master'.listed)
        BY <4>0, <4>3
      <4>7. ListGoing(requests', answers', master', info')
        BY <2>1, <3>1, <4>1, <4>3, <4>4, <4>5, <4>6 DEF ListGoing
      <4> QED
        BY <2>4, <4>3, <4>7
    <3>11. CASE TakeAnswer
      <4> DEFINE answer == Head(answers)
      <4>1. Told(requests, answers) /\ ListTold(master, info, answer)
        BY <3>1, <3>11 DEF TakeAnswer, Waits, ListGoing
      <4>2. Expected = {"list"}
        BY <2>1, <3>3 DEF Expected
      <4>3. master' = After(answer) /\ info' = info /\ answers' = <<>>
            /\ requests' = requests
        BY <3>11, <4>1, <4>2 DEF TakeAnswer, Told
      <4>4. master.listed \in Seq(Nat) /\ master.job.value \in Nat
            /\ master.result = "none" /\ master.rest \in Rests
        BY <3>1, <3>2 DEF MasterRecord, JobType, ListGoing
      <4>5. legal <=> master.job.value <= 5
        BY <2>1 DEF Legal
      <4>6. CASE answer.kind = "unknown" /\ master.job.value > 5
        <5>1. master' = Done("failed")
          BY <2>1, <3>3, <4>2, <4>3, <4>6 DEF After
        <5>2. master'.phase = "idle" /\ master'.result = "failed"
          BY <3>2, <5>1 DEF Done, MasterRecord
        <5>3. ~legal
          BY <4>4, <4>5, <4>6
        <5> QED
          BY <2>2, <5>2, <5>3 DEF ListOver, Fair
      <4>7. ASSUME answer.kind = "list"
            PROVE  /\ master'.listed = master.listed \o answer.objects
                   /\ master'.rest = master.rest
                   /\ master'.phase = IF answer.left = 0 THEN "idle" ELSE "initiated"
                   /\ master'.result = IF answer.left = 0 THEN "ok" ELSE "none"
        <5>1. After(answer) = AfterList(answer)
          BY <2>1, <4>2, <4>7 DEF After
        <5> HIDE DEF answer
        <5>2. /\ AfterList(answer).listed = master.listed \o answer.objects
              /\ AfterList(answer).rest = master.rest
              /\ AfterList(answer).phase =
                   IF answer.left = 0 THEN "idle" ELSE "initiated"
              /\ AfterList(answer).result =
                   IF answer.left = 0 THEN "ok" ELSE "none"
          BY <3>2, <3>3, <4>4 DEF AfterList, MasterRecord
        <5> QED
          BY <4>3, <5>1, <5>2
      <4>8. CASE answer.kind = "list" /\ master.job.value = 0
        <5>1. answer.left = 0 /\ master.listed = <<>> /\ answer.objects = Counts
          BY <4>1, <4>8 DEF ListTold
        <5>2. master'.listed = Counts
          <6>1. <<>> \o Counts = Counts
            <7>1. Counts \in [1 .. 5 -> Nat]
              BY CountsNat DEF Counts
            <7>2. Counts \in Seq(Nat)
              BY <7>1, FunctionSeq
            <7> QED
              BY <7>2, ConcatEmptySeq
          <6> QED
            BY <4>7, <4>8, <5>1, <6>1
        <5> QED
          BY <2>1, <2>2, <4>5, <4>7, <4>8, <5>1, <5>2 DEF ListOver, Fair
      <4>9. CASE answer.kind = "list" /\ master.job.value \in 1 .. 5
        <5> DEFINE got == master.listed \o answer.objects
        <5>1. /\ answer.left = info.left /\ (info.follow <=> info.left > 0)
              /\ Names(master, info, got)
          BY <4>1, <4>9 DEF ListTold
        <5>2. legal
          BY <4>5, <4>9
        <5>3. got \in Seq(Nat)
          <6>1. answer \in AnswerType
            BY <3>2, <4>1, HeadTailProperties DEF Told
          <6>2. answer.objects \in Seq(Nat)
            BY <4>9, <6>1 DEF AnswerType
          <6> HIDE DEF answer
          <6> QED
            BY <4>4, <6>2, ConcatProperties
        <5>4. CASE answer.left = 0
          <6>1. master'.listed = got /\ master'.phase = "idle"
                /\ master'.result = "ok" /\ Begin(master') = Begin(master)
            BY <4>7, <4>9, <5>4 DEF Begin
          <6> HIDE DEF got, answer
          <6>2. LET all == Places(master.job.value - 1, Begin(master))
                IN  got = [k \in 1 .. Len(all) |-> Number[ObjDicList[all[k]]]]
            BY <4>4, <4>9, <5>1, <5>3, <5>4, NamesAll
          <6>3. ListOver(master', legal)
            BY <2>1, <4>9, <5>2, <6>1, <6>2 DEF ListOver, Fair
          <6> QED
            BY <2>2, <6>1, <6>3
        <5>5. CASE answer.left # 0
          <6>1. master'.listed = got /\ master'.phase = "initiated"
                /\ master'.result = "none" /\ Begin(master') = Begin(master)
            BY <4>7, <4>9, <5>5 DEF Begin
          <6> HIDE DEF got, answer
          <6>2. info.follow
            BY <3>2, <5>1, <5>5 DEF InfoType
          <6>3. Names(master', info, master'.listed)
            BY <2>1, <5>1, <6>1 DEF Names, NamesTo
          <6>4. ListGoing(requests', answers', master', info')
            BY <2>1, <3>1, <4>1, <4>3, <4>9, <6>1, <6>2, <6>3
               DEF ListGoing, Told
          <6> QED
            BY <6>1, <6>4
        <5> QED
          BY <5>4, <5>5
      <4> QED
        BY <4>1, <4>6, <4>8, <4>9 DEF ListTold
    <3>12. CASE UNCHANGED vars
      <4>1. master' = master /\ requests' = requests /\ answers' = answers
            /\ info' = info
        BY <3>12 DEF vars
      <4> QED
        BY <2>2, <2>4, <3>1, <4>1
    <3> QED
      BY <2>1, <3>6, <3>8, <3>9, <3>10, <3>11, <3>12 DEF SdoInfoInd
  <2> QED
    BY <2>3, <2>4
<1> QED
  BY <1>1, <1>2

\* A list that was taken to its end is the list of the objects.
LEMMA ListShows ==
  ASSUME TypeInv, ListInv
  PROVE  ListIsWhole
<1> DEFINE Members(list, from) ==
             {Number[x] : x \in {ObjDicList[k] : k \in
                {j \in from .. Len(ObjDicList) : InList(ObjDicList[j], list)}}}
           value == master.job.value
           listed == master.listed
           begin == Begin(master)
<1> SUFFICES ASSUME ~master.fault, master.result = "ok", master.job.op = "list"
             PROVE  IF value = 0
                    THEN listed = [i \in 1 .. 5 |-> Cardinality(Members(i - 1, 1))]
                    ELSE /\ {listed[i] : i \in DOMAIN listed}
                              = Members(value - 1, begin)
                         /\ \A i, j \in DOMAIN listed :
                              i < j => listed[i] < listed[j]
  BY DEF ListIsWhole, Begin
<1>0. begin \in 1 .. Len(ObjDicList) + 1 /\ 1 \in 1 .. Len(ObjDicList) + 1
  <2>1. master.rest \in Rests
    BY DEF TypeInv, MasterRecord
  <2>2. 1 \in 1 .. Len(ObjDicList) + 1
    BY ONLY PlacesAssumption
  <2>3. Begin(master) \in 1 .. Len(ObjDicList) + 1
    BY ONLY <2>1, BeginTyped
  <2> QED
    BY <2>2, <2>3
<1> HIDE DEF begin
<1>1. ListOver(master, Legal(master.job))
  BY DEF ListInv, ListGoing
<1>2. value \in Nat /\ value <= 5
  <2>1. value \in Nat
    BY DEF TypeInv, MasterRecord, JobType
  <2>2. Legal(master.job)
    BY <1>1 DEF ListOver, Fair
  <2> QED
    BY <2>1, <2>2 DEF Legal
<1>3. CASE value = 0
  <2>1. listed = Counts
    BY <1>1, <1>3 DEF ListOver
  <2>2. \A i \in 1 .. 5 : GetNoOfObjects(i - 1) = Cardinality(Members(i - 1, 1))
    <3> SUFFICES ASSUME NEW i \in 1 .. 5
                 PROVE  GetNoOfObjects(i - 1) = Cardinality(Members(i - 1, 1))
      OBVIOUS
    <3>1. i - 1 \in 0 .. 4
      OBVIOUS
    <3> QED
      BY <1>0, <3>1, MembersAssumption DEF GetNoOfObjects
  <2> QED
    BY <1>3, <2>1, <2>2 DEF Counts
<1>4. CASE value # 0
  <2> DEFINE type == value - 1
             all == Places(type, begin)
             n == Len(all)
  <2>1. type \in 0 .. 4
    BY <1>2, <1>4
  <2>2. listed = [k \in 1 .. n |-> Number[ObjDicList[all[k]]]]
    BY <1>1, <1>4 DEF ListOver, begin
  <2>3. /\ {Number[ObjDicList[all[k]]] : k \in 1 .. n} = Members(type, begin)
        /\ \A i, j \in 1 .. n :
             i < j => Number[ObjDicList[all[i]]] < Number[ObjDicList[all[j]]]
    <3> HIDE DEF type
    <3> QED
      BY <1>0, <2>1, MembersAssumption
  <2> HIDE DEF n, all
  <2>4. DOMAIN listed = 1 .. n
        /\ \A k \in 1 .. n : listed[k] = Number[ObjDicList[all[k]]]
    BY <2>2
  <2>5. {listed[i] : i \in DOMAIN listed} = {Number[ObjDicList[all[k]]] : k \in 1 .. n}
    BY <2>4
  <2>6. \A i, j \in DOMAIN listed : i < j => listed[i] < listed[j]
    BY <2>3, <2>4
  <2> QED
    BY <1>4, <2>3, <2>5, <2>6
<1> QED
  BY <1>3, <1>4

(***************************************************************************)
(* An upload, step by step.                                                *)
(***************************************************************************)
\* The master has seen what becomes of the objects, nothing else happens to
\* it.
Watched == master' = master \/ \E values, n : master' = Seeing(values, n)

UploadAsked ==
  /\ TypeInv /\ master.job.op = "upload" /\ master.phase # "idle"
  /\ UploadGoing(requests, answers, master, sdo, info, Legal(master.job))
  /\ Waits(requests, answers, master) /\ Request = Asked(master)

UploadServed ==
  \E answer : /\ Answer(answer) /\ Watched
              /\ UploadTold(master', sdo', answer, Legal(master.job))

\* What the server and the application leave to the master.
LEMMA WatchedStays ==
  ASSUME master \in MasterRecord, master.phase # "idle", Watched
  PROVE  /\ Asked(master') = Asked(master)
         /\ master'.job = master.job /\ master'.phase = master.phase
         /\ master'.result = master.result /\ master'.got = master.got
         /\ master'.size = master.size /\ master'.toggle = master.toggle
         /\ master'.to = master.to /\ master'.data = master.data
         /\ master.seen \subseteq master'.seen
<1>1. CASE master' = master
  BY <1>1
<1>2. ASSUME NEW values, NEW n, master' = Seeing(values, n)
      PROVE  /\ Asked(master') = Asked(master)
             /\ master'.job = master.job /\ master'.phase = master.phase
             /\ master'.result = master.result /\ master'.got = master.got
             /\ master'.size = master.size /\ master'.toggle = master.toggle
             /\ master'.to = master.to /\ master'.data = master.data
             /\ master.seen \subseteq master'.seen
  <2>1. LET m == Seeing(values, n)
        IN  /\ Asked(m) = Asked(master)
            /\ m.job = master.job /\ m.phase = master.phase
            /\ m.result = master.result /\ m.got = master.got
            /\ m.size = master.size /\ m.toggle = master.toggle
            /\ m.to = master.to /\ m.data = master.data
            /\ master.seen \subseteq m.seen
    BY SeeingAsks
  <2> QED
    BY <1>2, <2>1
<1> QED
  BY <1>1, <1>2 DEF Watched

\* The request of the upload.
LEMMA UploadRequest ==
  ASSUME UploadAsked
  PROVE  /\ master.job \in Jobs /\ master \in MasterRecord /\ al \in AlStates
         /\ master.phase \in {"initiated", "segments"}
         /\ master.phase = "initiated" =>
              /\ Request.cmd = "initiateUpload" /\ master.got = <<>>
              /\ Request.index = master.job.index
              /\ Request.sub = master.job.sub /\ Request.ca = master.job.ca
         /\ master.phase = "segments" =>
              /\ Request.cmd = "uploadSegment"
              /\ Request.toggle = master.toggle
              /\ SendsOn(master, sdo, master.got) /\ sdo.toggle # master.toggle
              /\ Legal(master.job) /\ master.size = LengthFor(master.job)
<1>1. /\ master.job \in Jobs /\ master \in MasterRecord /\ al \in AlStates
  BY DEF UploadAsked, UploadGoing, TypeInv
<1>2. master.phase \in {"initiated", "segments"}
  BY <1>1 DEF UploadAsked, MasterRecord
<1>3. master.phase = "initiated" =>
        Request = [cmd |-> "initiateUpload", index |-> master.job.index,
                   sub |-> master.job.sub, ca |-> master.job.ca]
  BY DEF UploadAsked, Asked
<1>4. master.phase = "segments" =>
        Request = [cmd |-> "uploadSegment", toggle |-> master.toggle]
  BY DEF UploadAsked, Asked
<1>5. /\ master.phase = "initiated" => master.got = <<>>
      /\ master.phase = "segments" =>
           /\ Legal(master.job) /\ master.size = LengthFor(master.job)
           /\ SendsOn(master, sdo, master.got) /\ sdo.toggle # master.toggle
  BY DEF UploadAsked, UploadGoing, Told, Waits
<1> QED
  BY <1>1, <1>2, <1>3, <1>4, <1>5

\* An object that there is, and an access to it.
LEMMA UploadReaches ==
  ASSUME UploadAsked, master.phase = "initiated"
  PROVE  Addresses(Request) <=> Reached(master.job)
BY UploadRequest DEF UploadAsked, Addresses, Reached

LEMMA RefuseInitiateUpload ==
  ASSUME UploadAsked, RefuseInitiate
  PROVE  UploadServed
<1>1. Request.cmd \in {"initiateUpload", "initiateDownload"}
  BY DEF RefuseInitiate, Received
<1>2. master.phase = "initiated" /\ Request.cmd = "initiateUpload"
  BY <1>1, UploadRequest
<1>3. ~Reached(master.job)
  BY <1>2, UploadReaches DEF RefuseInitiate
<1>4. ~Legal(master.job)
  BY <1>3, UnreachedIllegal DEF UploadAsked
<1>5. Answer([kind |-> "abort"])
  BY <1>2 DEF RefuseInitiate, Abort
<1>6. Watched /\ master' = master
  BY DEF RefuseInitiate, Watched
<1>7. UploadTold(master', sdo', [kind |-> "abort"], Legal(master.job))
  BY <1>2, <1>4, <1>6 DEF UploadTold
<1> QED
  BY <1>5, <1>6, <1>7 DEF UploadServed

\* What the server reads, when it does.
LEMMA UploadReads ==
  ASSUME UploadAsked, master.phase = "initiated", Addresses(Request)
  PROVE  LET job == master.job
             length == Length(Request.index, Request.sub, Request.ca)
         IN  /\ length = LengthFor(job) /\ length \in Nat
             /\ Legal(job) <=>
                  ~ReadRefused(Request.index, Request.sub, Request.ca, al)
             /\ Legal(job) =>
                  \A read \in Readings(Request) :
                    /\ read.bytes \in Seq(Tags) /\ Len(read.bytes) = length
                    /\ IsWhole(Seeing(Ticked(read.n), read.n), read.bytes)
<1> DEFINE job == master.job
           r == Request
           length == Length(r.index, r.sub, r.ca)
<1>1. /\ job \in Jobs /\ job.op = "upload" /\ Reached(job) /\ al \in AlStates
      /\ r.index = job.index /\ r.sub = job.sub /\ r.ca = job.ca
  BY UploadRequest, UploadReaches DEF UploadAsked
<1>2. length = LengthFor(job) /\ length \in Nat
  BY <1>1, ReachedTyped DEF LengthFor
<1>3. Legal(job) <=> ~ReadRefused(r.index, r.sub, r.ca, al)
  BY <1>1, UploadLegal
<1>4. ASSUME Legal(job), NEW read \in Readings(r)
      PROVE  /\ read.bytes \in Seq(Tags) /\ Len(read.bytes) = length
             /\ IsWhole(Seeing(Ticked(read.n), read.n), read.bytes)
  <2>1. /\ ObjectsTyped(objects) /\ ticks \in 0 .. MaxTicks
    BY DEF UploadAsked, TypeInv
  <2>2. /\ r.index \in Used /\ r.sub \in 0 .. Object[r.index].max
        /\ r.ca \in BOOLEAN
    BY <1>1, ReachedTyped, JobTyped
  <2>3. /\ read.bytes \in Seq(Tags) /\ Len(read.bytes) = length
        /\ \E cuts \in Cuts(read.n, length) :
             read.bytes = Copied(r.index, Read(r.index, objects[r.index],
                                               r.sub, r.ca, al), cuts)
    BY <2>1, <2>2, ReadingsTyped
  <2>4. Read(job.index, objects[job.index], job.sub, job.ca, al)
          = WholeOf(job, objects[job.index])
    BY <1>1, <1>4, WholeRead
  <2> DEFINE m == Seeing(Ticked(read.n), read.n)
             seen == <<objects[job.index], read.n>>
  <2>5. master \in MasterRecord /\ master.phase # "idle" /\ job.index # "none"
    BY <1>1 DEF UploadAsked, TypeInv, Reached
  <2>6. m.job = job /\ seen \in m.seen
    BY <2>5, SeeingAsks
  <2>7. seen[1] = objects[job.index] /\ seen[2] = read.n
    OBVIOUS
  <2>8. PICK cuts \in Cuts(seen[2], LengthFor(job)) :
          read.bytes = Copied(job.index, WholeOf(job, seen[1]), cuts)
    BY <1>1, <1>2, <2>3, <2>4, <2>7
  <2> HIDE DEF m, seen
  <2>9. IsWhole(m, read.bytes)
    BY <1>2, <2>3, <2>6, <2>8 DEF IsWhole
  <2> QED
    BY <2>3, <2>9 DEF m
<1> QED
  BY <1>2, <1>3, <1>4

LEMMA UploadAtOnceUpload ==
  ASSUME UploadAsked, UploadAtOnce
  PROVE  UploadServed
<1> DEFINE r == Request
           length == Length(r.index, r.sub, r.ca)
           legal == Legal(master.job)
<1>1. Request.cmd = "initiateUpload" /\ Addresses(Request)
  BY DEF UploadAtOnce, Initiates, Received
<1>2. master.phase = "initiated" /\ master.got = <<>>
  BY <1>1, UploadRequest
<1>3. /\ length = LengthFor(master.job) /\ length \in Nat
      /\ legal <=> ~ReadRefused(r.index, r.sub, r.ca, al)
      /\ legal => \A read \in Readings(r) :
           /\ read.bytes \in Seq(Tags) /\ Len(read.bytes) = length
           /\ IsWhole(Seeing(Ticked(read.n), read.n), read.bytes)
  BY <1>1, <1>2, UploadReads
<1>4. CASE ~legal
  <2>1. Answer([kind |-> "abort"]) /\ master' = master
    BY <1>1, <1>3, <1>4 DEF UploadAtOnce, Abort
  <2>2. UploadTold(master', sdo', [kind |-> "abort"], legal)
    BY <1>2, <1>4, <2>1 DEF UploadTold
  <2> QED
    BY <2>1, <2>2 DEF UploadServed, Watched
<1>5. CASE legal
  <2>1. PICK read \in Readings(r) :
          /\ Answer([kind |-> "upload", size |-> length, data |-> read.bytes])
          /\ master' = Seeing(Ticked(read.n), read.n)
    BY <1>3, <1>5 DEF UploadAtOnce, Interrupted
  <2> DEFINE answer == [kind |-> "upload", size |-> length, data |-> read.bytes]
  <2>2. /\ read.bytes \in Seq(Tags) /\ Len(read.bytes) = length
        /\ IsWhole(master', read.bytes)
    BY <1>3, <1>5, <2>1
  <2>3. <<>> \o read.bytes = read.bytes
    BY <2>2, ConcatEmptySeq
  <2>4. /\ answer.kind = "upload" /\ answer.size = length
        /\ answer.data = read.bytes
    OBVIOUS
  <2>8. Watched
    BY <2>1 DEF Watched
  <2>9. /\ master'.job = master.job /\ master'.phase = "initiated"
        /\ master'.got = <<>>
    BY <1>2, <2>8, WatchedStays DEF UploadAsked, TypeInv
  <2> HIDE DEF answer, length, legal
  <2>5. master'.got \o answer.data = read.bytes
    BY <2>3, <2>4, <2>9
  <2>6. Completes(master', answer)
    BY <1>3, <2>2, <2>4, <2>5 DEF Completes
  <2>7. UploadTold(master', sdo', answer, legal)
    BY <1>3, <1>5, <2>2, <2>4, <2>5, <2>6, <2>9 DEF UploadTold
  <2> QED
    BY <2>1, <2>7, <2>8 DEF UploadServed, answer, length, legal
<1> QED
  BY <1>4, <1>5

\* The begin of a buffer, and the rest of it or a part in the middle.
LEMMA PieceLength ==
  ASSUME NEW data, NEW from, NEW n \in Nat
  PROVE  /\ Len(Piece(data, from, n)) = n
         /\ \A k \in 1 .. n : Piece(data, from, n)[k] =
                IF from + k \in DOMAIN data THEN data[from + k] ELSE Cleared
BY DEF Piece

LEMMA NextPiece ==
  ASSUME NEW data \in Seq(Tags), NEW got \in Seq(Tags), Len(got) <= Len(data),
         \A k \in 1 .. Len(got) : got[k] = data[k],
         NEW n \in Nat, Len(got) + n <= Len(data)
  PROVE  LET more == got \o Piece(data, Len(got), n)
         IN  /\ Len(more) = Len(got) + n /\ more \in Seq(Tags)
             /\ \A k \in 1 .. Len(more) : more[k] = data[k]
             /\ Len(more) = Len(data) => more = data
<1> DEFINE from == Len(got)
           piece == Piece(data, from, n)
           more == got \o piece
           total == Len(data)
<1>1. from \in Nat /\ total \in Nat /\ DOMAIN data = 1 .. total
  BY LenProperties
<1>2. /\ Len(piece) = n
      /\ \A k \in 1 .. n : piece[k] =
             IF from + k \in DOMAIN data THEN data[from + k] ELSE Cleared
  BY PieceLength
<1>3. piece \in Seq(Tags)
  BY <1>1, PieceTyped
<1> HIDE DEF piece
<1>4. /\ Len(more) = Len(got) + Len(piece) /\ more \in Seq(Tags)
      /\ \A k \in 1 .. Len(got) + Len(piece) : more[k] =
           IF k <= Len(got) THEN got[k] ELSE piece[k - Len(got)]
  BY <1>3, ConcatProperties
<1> HIDE DEF more
<1>5. ASSUME NEW k \in 1 .. from + n PROVE more[k] = data[k]
  <2>1. CASE k <= from
    BY <1>1, <1>2, <1>4, <1>5, <2>1
  <2>2. CASE ~(k <= from)
    <3>1. k - from \in 1 .. n /\ from + (k - from) = k /\ k \in 1 .. total
      BY <1>1, <2>2
    <3>2. more[k] = piece[k - from]
      BY <1>2, <1>4, <2>2
    <3> QED
      BY <1>1, <1>2, <3>1, <3>2
  <2> QED
    BY <2>1, <2>2
<1>6. Len(more) = total => more = data
  <2> SUFFICES ASSUME Len(more) = total PROVE more = data
    OBVIOUS
  <2>1. \A k \in 1 .. total : more[k] = data[k]
    BY <1>2, <1>4, <1>5
  <2> QED
    BY <1>4, <2>1, SeqEqual
<1> QED
  BY <1>2, <1>4, <1>5, <1>6 DEF more, piece

LEMMA UploadInSegmentsUpload ==
  ASSUME UploadAsked, UploadInSegments, ~master'.fault
  PROVE  UploadServed
<1> DEFINE r == Request
           length == Length(r.index, r.sub, r.ca)
           legal == Legal(master.job)
<1>1. Request.cmd = "initiateUpload" /\ Addresses(Request)
  BY DEF UploadInSegments, Initiates, Received
<1>2. /\ master.phase = "initiated" /\ master.got = <<>>
      /\ master \in MasterRecord /\ sdo \in SdoType
  BY <1>1, UploadRequest DEF UploadAsked, TypeInv
<1>3. /\ length = LengthFor(master.job) /\ length \in Nat
      /\ legal <=> ~ReadRefused(r.index, r.sub, r.ca, al)
      /\ legal => \A read \in Readings(r) :
           /\ read.bytes \in Seq(Tags) /\ Len(read.bytes) = length
           /\ IsWhole(Seeing(Ticked(read.n), read.n), read.bytes)
  BY <1>1, <1>2, UploadReads
<1>4. ~AllocationFails(r, length) /\ length > UploadRoom
  BY FaultSet DEF AllocationFails, UploadInSegments, UploadAsked
<1>5. CASE ~legal
  <2>1. Answer([kind |-> "abort"]) /\ master' = master
    BY <1>1, <1>3, <1>4, <1>5 DEF UploadInSegments, Abort
  <2>2. UploadTold(master', sdo', [kind |-> "abort"], legal)
    BY <1>2, <1>5, <2>1 DEF UploadTold
  <2> QED
    BY <2>1, <2>2 DEF UploadServed, Watched
<1>6. CASE legal
  <2>1. PICK read \in Readings(r) :
          /\ sdo' = [[Opened(r, length) EXCEPT !.handled = UploadRoom,
                                               !.data = Fresh(length)]
                       EXCEPT !.data = read.bytes, !.service = "uploadSegment"]
          /\ Answer([kind |-> "upload", size |-> length,
                     data |-> Piece(read.bytes, 0, UploadRoom)])
          /\ master' = Seeing(Ticked(read.n), read.n)
    BY <1>3, <1>4, <1>6 DEF UploadInSegments, Interrupted
  <2> DEFINE piece == Piece(read.bytes, 0, UploadRoom)
             answer == [kind |-> "upload", size |-> length, data |-> piece]
  <2>2. /\ read.bytes \in Seq(Tags) /\ Len(read.bytes) = length
        /\ IsWhole(master', read.bytes)
    BY <1>3, <1>6, <2>1
  <2>3. /\ sdo'.service = "uploadSegment" /\ sdo'.data = read.bytes
        /\ sdo'.complete = length /\ sdo'.handled = UploadRoom
        /\ sdo'.toggle = 1
    <3> HIDE DEF length
    <3> QED
      BY <1>2, <2>1 DEF Opened, SdoType
  <2>4. UploadRoom \in Nat /\ UploadRoom > 0 /\ UploadRoom < length
    BY <1>3, <1>4, ListRooms
  <2>5. /\ Len(<<>> \o piece) = UploadRoom
        /\ \A k \in 1 .. UploadRoom : (<<>> \o piece)[k] = read.bytes[k]
    <3> DEFINE got == <<>>
               data == read.bytes
    <3>1. /\ got \in Seq(Tags) /\ Len(got) = 0
          /\ \A k \in 1 .. Len(got) : got[k] = data[k]
      BY EmptySeq
    <3>2. Len(got) <= Len(data) /\ 0 + UploadRoom <= Len(data)
      BY <1>3, <2>2, <2>4, <3>1
    <3>3. data \in Seq(Tags)
      BY <2>2
    <3> HIDE DEF got, data
    <3>4. /\ Len(got \o Piece(data, Len(got), UploadRoom)) = Len(got) + UploadRoom
          /\ \A k \in 1 .. Len(got \o Piece(data, Len(got), UploadRoom)) :
               (got \o Piece(data, Len(got), UploadRoom))[k] = data[k]
      BY <2>4, <3>1, <3>2, <3>3, NextPiece
    <3>5. Len(got) + UploadRoom = UploadRoom
      BY <2>4, <3>1
    <3> QED
      BY <3>1, <3>4, <3>5 DEF got, data
  <2>6. /\ answer.kind = "upload" /\ answer.size = length
        /\ answer.data = piece
    OBVIOUS
  <2>12. Watched
    BY <2>1 DEF Watched
  <2>13. /\ master'.job = master.job /\ master'.phase = "initiated"
         /\ master'.got = <<>> /\ master'.toggle = master.toggle
    BY <1>2, <2>12, WatchedStays
  <2> HIDE DEF answer, length, piece, legal
  <2>7. master'.got \o answer.data = <<>> \o piece
    BY <2>6, <2>13
  <2> DEFINE got == <<>> \o piece
  <2> HIDE DEF got
  <2>8. ~Completes(master', answer)
    <3>1. Len(master'.got \o answer.data) = UploadRoom
      BY <2>5, <2>7
    <3>2. ~(UploadRoom >= length)
      BY ONLY <1>3, <2>4
    <3> QED
      BY <2>6, <3>1, <3>2 DEF Completes
  <2>9. SendsOn(master', sdo', got)
    BY <2>2, <2>3, <2>4, <2>5 DEF SendsOn, got
  <2>10. sdo'.toggle # 16 - master'.toggle
    <3>1. master.toggle \in {0, 16}
      BY <1>2 DEF MasterRecord
    <3> QED
      BY <2>3, <2>13, <3>1
  <2>11. UploadTold(master', sdo', answer, legal)
    BY <1>3, <1>6, <2>6, <2>7, <2>8, <2>9, <2>10, <2>13 DEF UploadTold, got
  <2> QED
    BY <2>1, <2>11, <2>12 DEF UploadServed, answer, length, piece, legal
<1> QED
  BY <1>5, <1>6

LEMMA UploadSegmentUpload ==
  ASSUME UploadAsked, UploadSegment
  PROVE  UploadServed
<1> DEFINE r == Request
           last == sdo.complete < sdo.handled + UploadSegRoom
           size == IF last THEN Remaining ELSE UploadSegRoom
           turned == [sdo EXCEPT !.toggle = r.toggle]
           piece == Piece(sdo.data, sdo.handled, size)
           answer == [kind |-> r.cmd, last |-> last, data |-> piece]
           got == master.got \o piece
           legal == Legal(master.job)
<1>1. r.cmd = "uploadSegment"
  BY DEF UploadSegment, Continues, Received
<1>2. /\ master.phase = "segments" /\ r.toggle = master.toggle
      /\ SendsOn(master, sdo, master.got) /\ sdo.toggle # master.toggle /\ legal
      /\ master \in MasterRecord /\ sdo \in SdoType
  BY <1>1, UploadRequest DEF UploadAsked, TypeInv
<1>3. /\ Answer(answer)
      /\ sdo' = IF last THEN Ended(turned) ELSE [turned EXCEPT !.handled = @ + size]
      /\ master' = master
  BY <1>2 DEF UploadSegment
<1>4. /\ sdo.data \in Seq(Tags) /\ master.got \in Seq(Tags)
      /\ sdo.complete = Len(sdo.data) /\ sdo.handled = Len(master.got)
      /\ Len(master.got) <= Len(sdo.data)
      /\ \A k \in 1 .. Len(master.got) : master.got[k] = sdo.data[k]
      /\ IsWhole(master, sdo.data)
  BY <1>2 DEF SendsOn, SdoType, MasterRecord
<1>5. /\ Len(master.got) \in Nat /\ Len(sdo.data) \in Nat
      /\ UploadSegRoom \in Nat
  <2>1. Len(master.got) \in Nat
    BY <1>4, LenProperties
  <2>2. Len(sdo.data) \in Nat
    BY <1>4, LenProperties
  <2>3. UploadSegRoom \in Nat
    BY ListRooms
  <2> QED
    BY <2>1, <2>2, <2>3
<1>6. /\ size \in Nat /\ Len(master.got) + size <= Len(sdo.data)
      /\ last => Len(master.got) + size = Len(sdo.data)
  <2> DEFINE handled == sdo.handled
             complete == sdo.complete
  <2>1. /\ handled \in Nat /\ complete \in Nat /\ handled <= complete
        /\ Len(master.got) = handled /\ Len(sdo.data) = complete
        /\ Remaining = complete - handled
    BY <1>4, <1>5 DEF Remaining
  <2> HIDE DEF handled, complete
  <2>2. last <=> complete < handled + UploadSegRoom
    BY DEF handled, complete
  <2> HIDE DEF last
  <2>3. size \in Nat /\ handled + size <= complete
        /\ (last => handled + size = complete)
    BY <1>5, <2>1, <2>2
  <2> HIDE DEF size
  <2> QED
    BY <2>1, <2>3
<1>7. /\ Len(got) = Len(master.got) + size /\ got \in Seq(Tags)
      /\ \A k \in 1 .. Len(got) : got[k] = sdo.data[k]
      /\ Len(got) = Len(sdo.data) => got = sdo.data
  <2> HIDE DEF size
  <2>1. piece = Piece(sdo.data, Len(master.got), size)
    BY <1>4
  <2> DEFINE data == sdo.data
             before == master.got
  <2>2. /\ data \in Seq(Tags) /\ before \in Seq(Tags)
        /\ Len(before) <= Len(data) /\ Len(before) + size <= Len(data)
        /\ \A k \in 1 .. Len(before) : before[k] = data[k]
        /\ size \in Nat /\ got = before \o Piece(data, Len(before), size)
    BY <1>4, <1>6, <2>1
  <2> HIDE DEF data, before, got
  <2>3. /\ Len(got) = Len(before) + size /\ got \in Seq(Tags)
        /\ \A k \in 1 .. Len(got) : got[k] = data[k]
        /\ Len(got) = Len(data) => got = data
    BY ONLY <2>2, NextPiece
  <2> QED
    BY <2>3 DEF data, before
<1>8. Watched /\ (UploadTold(master, sdo', answer, legal) =>
                     UploadTold(master', sdo', answer, legal))
  BY <1>3 DEF Watched
<1>9. /\ answer.kind = "uploadSegment" /\ answer.last = last
      /\ answer.data = piece
  BY <1>1
<1> HIDE DEF answer
<1>10. Completes(master, answer) <=> last
  BY <1>9 DEF Completes
<1>11. CASE last
  <2>1. IsWhole(master, got)
    BY <1>4, <1>6, <1>7, <1>11
  <2> HIDE DEF got, last, piece, size
  <2>2. UploadTold(master, sdo', answer, legal)
    BY <1>2, <1>9, <1>10, <1>11, <2>1 DEF UploadTold, got
  <2> QED
    BY <1>3, <1>8, <2>2 DEF UploadServed
<1>12. CASE ~last
  <2> HIDE DEF size, last, piece, got
  <2>1. /\ sdo'.service = sdo.service /\ sdo'.data = sdo.data
        /\ sdo'.complete = sdo.complete /\ sdo'.handled = sdo.handled + size
        /\ sdo'.toggle = master.toggle
    BY <1>2, <1>3, <1>12 DEF SdoType
  <2>2. SendsOn(master, sdo', got)
    BY <1>2, <1>4, <1>5, <1>6, <1>7, <2>1 DEF SendsOn
  <2>3. sdo'.toggle # 16 - master.toggle
    <3>1. master.toggle \in {0, 16}
      BY <1>2 DEF MasterRecord
    <3> QED
      BY <2>1, <3>1
  <2>4. UploadTold(master, sdo', answer, legal)
    BY <1>2, <1>9, <1>10, <1>12, <2>2, <2>3 DEF UploadTold, got
  <2> QED
    BY <1>3, <1>8, <2>4 DEF UploadServed
<1> QED
  BY <1>11, <1>12

LEMMA SdoIndUpload ==
  ASSUME UploadAsked, SdoInd, ~master'.fault
  PROVE  UploadServed
<1>1. /\ Request.cmd \in {"initiateUpload", "uploadSegment"}
      /\ Request.cmd = "uploadSegment" => sdo.service = "uploadSegment"
  BY UploadRequest DEF SendsOn
<1>2. ~DownloadAtOnce /\ ~DownloadInSegments /\ ~DownloadSegment
  BY <1>1 DEF DownloadAtOnce, DownloadInSegments, DownloadSegment, Initiates,
              Continues, Received
<1>3. ~RefuseCommand
  BY <1>1 DEF RefuseCommand, Received
<1> QED
  BY <1>2, <1>3, RefuseInitiateUpload, UploadAtOnceUpload,
     UploadInSegmentsUpload, UploadSegmentUpload DEF SdoInd

LEMMA UploadWatched ==
  ASSUME master \in MasterRecord, master.phase # "idle", Watched, NEW legal,
         NEW s, NEW answer
  PROVE  /\ \A data : IsWhole(master, data) => IsWhole(master', data)
         /\ \A got : SendsOn(master, s, got) => SendsOn(master', s, got)
         /\ UploadTold(master, s, answer, legal) =>
              UploadTold(master', s, answer, legal)
<1>1. /\ master'.job = master.job /\ master'.phase = master.phase
      /\ master'.got = master.got /\ master'.toggle = master.toggle
      /\ master.seen \subseteq master'.seen
  BY WatchedStays
<1>2. \A data : IsWhole(master, data) => IsWhole(master', data)
  BY <1>1 DEF IsWhole
<1>3. \A got : SendsOn(master, s, got) => SendsOn(master', s, got)
  BY <1>2 DEF SendsOn
<1>4. Completes(master, answer) <=> Completes(master', answer)
  BY <1>1 DEF Completes
<1>5. UploadTold(master, s, answer, legal) => UploadTold(master', s, answer, legal)
  BY <1>1, <1>2, <1>3, <1>4 DEF UploadTold
<1> QED
  BY <1>2, <1>3, <1>5

\* What the master makes of an answer.
UploadAfter(m, answer) ==
  /\ m.job = master.job /\ m.seen = master.seen
  /\ m.got = master.got \o answer.data
  /\ m.size = IF answer.kind = "upload" THEN answer.size ELSE master.size
  /\ Completes(master, answer) => m.phase = "idle" /\ m.result = "ok"
  /\ ~Completes(master, answer) =>
       /\ m.phase = "segments" /\ m.result = master.result
       /\ m.toggle = 16 - master.toggle

LEMMA AfterUploadFields ==
  ASSUME master \in MasterRecord, NEW answer,
         answer.kind \in {"upload", "uploadSegment"}
  PROVE  UploadAfter(AfterUpload(answer), answer)
<1> DEFINE got == master.got \o answer.data
           size == IF answer.kind = "upload" THEN answer.size ELSE master.size
           m == [master EXCEPT !.got = got, !.size = size]
           done == [m EXCEPT !.phase = "idle", !.result = "ok"]
           next == NextSegment(m)
<1>1. AfterUpload(answer) = IF Completes(master, answer) THEN done ELSE next
  BY DEF AfterUpload, Completes, MasterRecord
<1> HIDE DEF got, size
<1>2. /\ m.job = master.job /\ m.seen = master.seen /\ m.got = got
      /\ m.size = size /\ m.toggle = master.toggle /\ m.result = master.result
      /\ DOMAIN m = DOMAIN master
  BY DEF MasterRecord
<1>3. DOMAIN master =
        {"phase", "job", "result", "toggle", "size", "got", "listed", "rest",
         "data", "from", "to", "seen", "fault", "transfers", "faults"}
  BY DEF MasterRecord
<1> HIDE DEF m
<1>4. /\ done.job = m.job /\ done.seen = m.seen /\ done.got = m.got
      /\ done.size = m.size /\ done.phase = "idle" /\ done.result = "ok"
  BY <1>2, <1>3
<1>5. /\ next.job = m.job /\ next.seen = m.seen /\ next.got = m.got
      /\ next.size = m.size /\ next.phase = "segments"
      /\ next.result = m.result /\ next.toggle = 16 - m.toggle
  BY <1>2, <1>3 DEF NextSegment
<1> HIDE DEF done, next
<1>6. CASE Completes(master, answer)
  BY <1>1, <1>2, <1>4, <1>6 DEF got, size, UploadAfter
<1>7. CASE ~Completes(master, answer)
  BY <1>1, <1>2, <1>5, <1>7 DEF got, size, UploadAfter
<1> QED
  BY <1>6, <1>7

LEMMA TakeAnswerUpload ==
  ASSUME TypeInv, master.job.op = "upload", master.phase # "idle", TakeAnswer,
         UploadGoing(requests, answers, master, sdo, info, Legal(master.job))
  PROVE  IF master'.phase = "idle" THEN UploadOver(master', Legal(master.job))
         ELSE UploadGoing(requests', answers', master', sdo', info',
                          Legal(master.job))
<1> DEFINE answer == Head(answers)
           legal == Legal(master.job)
<1>1. /\ Told(requests, answers) /\ UploadTold(master, sdo, answer, legal)
      /\ master.job \in Jobs /\ master.result = "none" /\ ~info.follow
      /\ master.phase = "segments" => master.size = LengthFor(master.job)
  BY DEF TakeAnswer, Waits, UploadGoing
<1>2. /\ master \in MasterRecord /\ master.phase \in {"initiated", "segments"}
      /\ master.toggle \in {0, 16} /\ master.seen = master.seen
  BY DEF TypeInv, MasterRecord
<1>3. /\ sdo' = sdo /\ info' = info
      /\ master' = After(answer) /\ answers' = <<>>
  BY <1>1 DEF TakeAnswer, Told
<1>4. CASE answer.kind = "abort" /\ master.phase = "initiated" /\ ~legal
  <2>1. answer.kind \notin Expected
    BY <1>4 DEF Expected
  <2>2. After(answer) = Done("failed")
    BY <1>4, <2>1 DEF After
  <2>3. master'.phase = "idle" /\ master'.result = "failed"
    BY <1>2, <1>3, <2>2 DEF Done, MasterRecord
  <2> QED
    BY <1>4, <2>3 DEF UploadOver, Fair
<1>5. CASE /\ legal
           /\ answer.kind = IF master.phase = "initiated" THEN "upload"
                            ELSE "uploadSegment"
           /\ answer.kind = "upload" => answer.size = LengthFor(master.job)
           /\ IF Completes(master, answer)
              THEN IsWhole(master, master.got \o answer.data)
              ELSE /\ SendsOn(master, sdo, master.got \o answer.data)
                   /\ sdo.toggle # 16 - master.toggle
  <2>1. answer.kind \in Expected /\ answer.kind \in {"upload", "uploadSegment"}
    BY <1>2, <1>5 DEF Expected
  <2>2. master' = AfterUpload(answer)
    BY <1>3, <2>1 DEF After
  <2> DEFINE got == master.got \o answer.data
  <2>3. /\ master'.job = master.job /\ master'.seen = master.seen
        /\ master'.got = got
        /\ master'.size = LengthFor(master.job)
        /\ Completes(master, answer) =>
             master'.phase = "idle" /\ master'.result = "ok"
        /\ ~Completes(master, answer) =>
             /\ master'.phase = "segments" /\ master'.result = "none"
             /\ master'.toggle = 16 - master.toggle
    <3>1. IF answer.kind = "upload" THEN answer.size = LengthFor(master.job)
          ELSE master.size = LengthFor(master.job)
      BY <1>1, <1>2, <1>5
    <3> HIDE DEF answer
    <3>2. UploadAfter(master', answer)
      BY <1>2, <2>1, <2>2, AfterUploadFields
    <3> QED
      BY <1>1, <3>1, <3>2 DEF UploadAfter
  <2> HIDE DEF got
  <2>4. \A data : IsWhole(master, data) => IsWhole(master', data)
    BY <2>3 DEF IsWhole
  <2>5. CASE Completes(master, answer)
    <3>1. IsWhole(master', got)
      BY <1>5, <2>4, <2>5 DEF got
    <3>2. UploadOver(master', legal)
      BY <1>5, <2>3, <2>5, <3>1 DEF UploadOver, Fair, IsWhole
    <3> QED
      BY <2>3, <2>5, <3>2
  <2>6. CASE ~Completes(master, answer)
    <3>1. SendsOn(master', sdo, got)
      <4>1. SendsOn(master, sdo, got)
        BY <1>5, <2>6 DEF got
      <4> QED
        BY <2>4, <4>1 DEF SendsOn
    <3>2. requests' = <<Asked(master')>>
      <4>1. answer.kind \in Expected \ {"list"}
        BY <2>1
      <4>2. requests' = Append(requests, Asked(master')) /\ requests = <<>>
        BY <1>1, <2>3, <2>6, <4>1 DEF TakeAnswer, Told
      <4> QED
        BY <4>2
    <3>3. Waits(requests', answers', master')
      BY <1>3, <3>2 DEF Waits
    <3>4. master'.phase = "segments" /\ master'.result = "none"
          /\ master'.toggle = 16 - master.toggle
      BY <2>3, <2>6
    <3>5. sdo.toggle # 16 - master.toggle
      BY <1>5, <2>6
    <3> HIDE DEF legal
    <3>6. legal
      BY <1>5
    <3>7. UploadGoing(requests', answers', master', sdo', info', legal)
      BY <1>1, <1>3, <2>3, <3>1, <3>3, <3>4, <3>5, <3>6 DEF UploadGoing
    <3> QED
      BY <1>3, <2>3, <3>4, <3>7 DEF legal
  <2> QED
    BY <2>5, <2>6
<1> QED
  BY <1>1, <1>4, <1>5 DEF UploadTold

LEMMA UploadStep ==
  ASSUME TypeInv, UploadInv, [Next]_vars
  PROVE  UploadInv'
<1> SUFFICES ASSUME master'.job.op = "upload", ~master'.fault
             PROVE  IF master'.phase = "idle"
                    THEN UploadOver(master', Legal(master.job)')
                    ELSE UploadGoing(requests', answers', master', sdo', info',
                                     Legal(master.job)')
  BY DEF UploadInv
<1>1. CASE Starts
  BY <1>1, StartWaits DEF Starts, UploadGoing
<1>2. CASE ~Starts
  <2>1. /\ master'.job = master.job /\ master.fault = FALSE
        /\ SdoInd \/ SdoInfoInd \/ Tick \/ TakeAnswer \/ UNCHANGED vars
        /\ al' = al
    BY <1>2, CalmStep
  <2>2. Legal(master.job)' = Legal(master.job)
    BY <2>1, LegalStays
  <2> DEFINE legal == Legal(master.job)
  <2>3. CASE master.phase = "idle"
    <3>1. master' = master
      BY <1>2, <2>3, CalmIdle
    <3> QED
      BY <2>1, <2>2, <2>3, <3>1 DEF UploadInv
  <2>4. CASE master.phase # "idle"
    <3>1. UploadGoing(requests, answers, master, sdo, info, legal)
      BY <2>1, <2>4 DEF UploadInv
    <3>2. master \in MasterRecord
      BY DEF TypeInv
    <3>3. ASSUME Watched, ~info'.follow,
                 \/ /\ Waits(requests', answers', master)
                    /\ master.phase = "segments" =>
                         /\ SendsOn(master, sdo', master.got)
                         /\ sdo'.toggle # master.toggle
                 \/ /\ Told(requests', answers')
                    /\ UploadTold(master', sdo', Head(answers'), legal)
          PROVE  /\ UploadGoing(requests', answers', master', sdo', info', legal)
                 /\ master'.phase # "idle"
      <4>1. /\ Asked(master') = Asked(master)
            /\ master'.job = master.job /\ master'.phase = master.phase
            /\ master'.result = master.result /\ master'.got = master.got
            /\ master'.size = master.size /\ master'.toggle = master.toggle
        BY <2>4, <3>1, <3>2, <3>3, WatchedStays
      <4>2. \A got : SendsOn(master, sdo', got) => SendsOn(master', sdo', got)
        BY <2>4, <3>2, <3>3, UploadWatched
      <4>3. Waits(requests', answers', master) => Waits(requests', answers', master')
        BY <4>1 DEF Waits
      <4> HIDE DEF legal
      <4>4. UploadGoing(requests', answers', master', sdo', info', legal)
        BY <3>1, <3>3, <4>1, <4>2, <4>3 DEF UploadGoing
      <4> QED
        BY <2>4, <4>1, <4>4
    <3>4. requests # <<>> => Waits(requests, answers, master)
                             /\ Request = Asked(master)
      BY <3>1, WaitsFirst DEF UploadGoing
    <3>5. CASE SdoInd
      <4>1. UploadAsked /\ UNCHANGED info
        BY <2>1, <2>4, <3>1, <3>4, <3>5, ServerTakes DEF UploadAsked
      <4>2. PICK answer : /\ Answer(answer) /\ Watched
                          /\ UploadTold(master', sdo', answer, legal)
        BY <3>5, <4>1, SdoIndUpload DEF UploadServed
      <4>3. Told(requests', answers') /\ Head(answers') = answer
        BY <4>1, <4>2, Serves DEF UploadAsked
      <4>4. ~info'.follow
        BY <3>1, <4>1 DEF UploadGoing
      <4> HIDE DEF legal
      <4> QED
        BY <2>1, <2>2, <3>3, <4>2, <4>3, <4>4 DEF legal
    <3>6. ~SdoInfoInd
      <4>1. requests # <<>> => Request.cmd \in {"initiateUpload", "uploadSegment"}
        <5>1. master.phase \in {"initiated", "segments"}
          BY <2>4, <3>2 DEF MasterRecord
        <5> QED
          BY <2>1, <3>4, <5>1 DEF Asked
      <4>2. ~SendList /\ ~Describe
        BY <4>1, ServerTakes
      <4>3. ~ContinueInd
        BY <3>1 DEF ContinueInd, UploadGoing
      <4> QED
        BY <4>2, <4>3 DEF SdoInfoInd
    <3>7. CASE Tick \/ UNCHANGED vars
      <4>1. Watched /\ UNCHANGED <<requests, answers, sdo, info>>
        BY <3>7 DEF Tick, vars, Watched
      <4> HIDE DEF legal
      <4>2. UploadTold(master, sdo', Head(answers'), legal) =>
              UploadTold(master', sdo', Head(answers'), legal)
        BY <2>4, <3>2, <4>1, UploadWatched
      <4>3. UploadGoing(requests', answers', master', sdo', info', legal)
            /\ master'.phase # "idle"
        BY <3>1, <3>3, <4>1, <4>2 DEF UploadGoing
      <4> QED
        BY <2>2, <4>3 DEF legal
    <3>8. CASE TakeAnswer
      BY <2>1, <2>2, <2>4, <3>1, <3>8, TakeAnswerUpload
    <3> QED
      BY <2>1, <3>5, <3>6, <3>7, <3>8
  <2> QED
    BY <2>3, <2>4
<1> QED
  BY <1>1, <1>2

\* An upload that was taken to its end is the object.
LEMMA UploadShows ==
  ASSUME UploadInv, TypeInv
  PROVE  UploadIsWhole
<1> DEFINE job == master.job
           entries == Readables(job.index, job.sub, job.ca)
           Whole(value) == ImageOf(job.index, value, job.sub, job.ca, entries)
<1> SUFFICES ASSUME ~master.fault, master.result = "ok", job.op = "upload"
             PROVE  /\ Len(master.got) = master.size
                    /\ \E seen \in master.seen :
                         \E cuts \in Cuts(seen[2], master.size) :
                           master.got = Copied(job.index, Whole(seen[1]), cuts)
  BY DEF UploadIsWhole
<1>1. UploadOver(master, Legal(job))
  BY DEF UploadInv, UploadGoing
<1>2. /\ Len(master.got) = master.size /\ master.size = LengthFor(job)
      /\ \E seen \in master.seen : \E cuts \in Cuts(seen[2], LengthFor(job)) :
           master.got = Copied(job.index, WholeOf(job, seen[1]), cuts)
  BY <1>1 DEF UploadOver, IsWhole
<1>3. \A value : WholeOf(job, value) = Whole(value)
  BY DEF WholeOf
<1> HIDE DEF Whole
<1> QED
  BY <1>2, <1>3

(***************************************************************************)
(* The synchronization types that are set are types that exist.            *)
(***************************************************************************)
LEMMA ObjectsChange ==
  ASSUME [Next]_vars
  PROVE  \/ \E n : objects' = Ticked(n)
         \/ objects' = objects
         \/ \E x, sub, ca, data :
              /\ ~WriteRefused(x, objects[x], sub, ca, al, data)
              /\ objects' = Write(objects, x, sub, ca, al, data)
<1> DEFINE Written1 ==
             \E x, sub, ca, data :
               /\ ~WriteRefused(x, objects[x], sub, ca, al, data)
               /\ objects' = Write(objects, x, sub, ca, al, data)
<1>2. \A cmd, x, sub, ca, data :
        WriteObject(cmd, x, sub, ca, data) => objects' = objects \/ Written1
  BY DEF WriteObject
<1>3. CASE RefuseInitiate \/ RefuseCommand \/ UploadSegment
  BY <1>3 DEF RefuseInitiate, RefuseCommand, UploadSegment
<1>4. CASE UploadAtOnce
  BY <1>4 DEF UploadAtOnce, Interrupted
<1>5. CASE UploadInSegments
  BY <1>5 DEF UploadInSegments, AllocationFails, Interrupted
<1> HIDE DEF Written1
<1>6. CASE DownloadAtOnce
  BY <1>2, <1>6 DEF DownloadAtOnce, Written1
<1>7. CASE DownloadInSegments
  BY <1>7 DEF DownloadInSegments, AllocationFails
<1>8. CASE DownloadSegment
  BY <1>2, <1>8 DEF DownloadSegment, Written1
<1>9. CASE SdoInfoInd
  BY <1>9 DEF SdoInfoInd, SendList, ContinueInd, Describe, Inform
<1>10. CASE Tick \/ Master \/ UNCHANGED vars
  BY <1>10 DEF Tick, Master, Start, TakeAnswer, GiveUp, AskAgain, ChangeState,
               StopMailbox, vars
<1> QED
  BY <1>3, <1>4, <1>5, <1>6, <1>7, <1>8, <1>9, <1>10 DEF Next, SdoInd

LEMMA TypesValidStep ==
  ASSUME TypeInv, TypesValid, [Next]_vars
  PROVE  TypesValid'
<1> SUFFICES ASSUME NEW y \in SyncPars \cap Used
             PROVE  CheckSyncTypeValue(y, objects'[y][1])
  BY DEF TypesValid
<1>1. CheckSyncTypeValue(y, objects[y][1])
  BY DEF TypesValid
<1>2. /\ y \in DOMAIN objects /\ DOMAIN objects[y] = 0 .. Object[y].max
      /\ 1 \in 0 .. Object[y].max /\ objects[y][1] \in Nat
  <2>1. /\ y \in Indexes /\ objects[y] \in Value(y) /\ y \in DOMAIN objects
    BY UsedAssumption DEF TypeInv, ObjectsTyped
  <2>2. Object[y].max \in 0 .. 255 /\ Object[y].max >= 1
    BY <2>1, EntryAssumption, UsedObject
  <2> DEFINE max == Object[y].max
  <2> HIDE DEF max
  <2>3. 1 \in 0 .. max
    BY <2>2 DEF max
  <2> QED
    BY <2>1, <2>3 DEF Value, max
<1>3. ASSUME NEW n, objects' = Ticked(n)
      PROVE  CheckSyncTypeValue(y, objects'[y][1])
  <2>1. 1 \notin Live(y)
    <3>1. y \in SyncPars
      OBVIOUS
    <3>2. Live(y) = {2, 11, 12}
      BY <3>1 DEF Live, SyncPars
    <3> QED
      BY <3>2
  <2>2. Ticked(n)[y][1] = objects[y][1] + 0
    BY <1>2, <2>1 DEF Ticked, Later
  <2> QED
    BY <1>1, <1>2, <1>3, <2>2
<1>4. ASSUME NEW x, NEW sub, NEW ca, NEW data,
             ~WriteRefused(x, objects[x], sub, ca, al, data),
             objects' = Write(objects, x, sub, ca, al, data)
      PROVE  CheckSyncTypeValue(y, objects'[y][1])
  <2> DEFINE written == Written(x, sub, ca, al, data)
             new == [i \in written |-> Found(x, sub, ca, data, i)]
             reset == Reset(x, sub, ca, data, written)
  <2>1. 1 \notin reset
    BY DEF Reset, Measured
  <2>2. objects' = Stored(objects, x, new, reset)
    BY <1>4 DEF Write
  <2>3. y = x /\ 1 \in written =>
          \/ new[1] = objects[x][1] \/ CheckSyncTypeValue(x, new[1])
    BY <1>4 DEF WriteRefused, DataRefused, TypeRefused
  <2>4. DOMAIN new = written
    OBVIOUS
  <2> HIDE DEF written, new, reset
  <2>5. objects'[y][1] = IF y = x /\ 1 \in written THEN new[1] ELSE objects[y][1]
    BY <1>2, <2>1, <2>2, <2>4 DEF Stored
  <2> QED
    BY <1>1, <2>3, <2>5
<1> QED
  BY <1>1, <1>3, <1>4, ObjectsChange

(***************************************************************************)
(* A download, step by step.                                               *)
(***************************************************************************)
DownloadAsked ==
  /\ TypeInv /\ DInv /\ TypesValid
  /\ master.job.op = "download" /\ master.phase # "idle"
  /\ DownloadGoing(requests, answers, master, sdo, info, Legal(master.job))
  /\ Waits(requests, answers, master) /\ Request = Asked(master)

DownloadServed ==
  \E answer : /\ Answer(answer) /\ UNCHANGED master
              /\ DownloadTold(master, sdo', answer, Legal(master.job))

\* The request of the download.
LEMMA DownloadRequest ==
  ASSUME DownloadAsked
  PROVE  /\ master.job \in Jobs /\ master \in MasterRecord /\ al \in AlStates
         /\ MasterGood(master) /\ Pieces(master) /\ requests # <<>>
         /\ requests \in Seq(RequestType)
         /\ Downloads(requests, answers, master, sdo)
         /\ master.phase \in {"initiated", "segments"}
         /\ master.phase = "initiated" =>
              Request = InitOf(master) /\ Request.cmd = "initiateDownload"
         /\ master.phase = "segments" =>
              /\ Request = SegmentOf(master) /\ Request.cmd = "downloadSegment"
              /\ Alive(sdo) /\ sdo.toggle # master.toggle
<1>1. /\ master.job \in Jobs /\ master \in MasterRecord /\ al \in AlStates
      /\ MasterGood(master) /\ requests \in Seq(RequestType)
      /\ Downloads(requests, answers, master, sdo)
  BY DEF DownloadAsked, DownloadGoing, TypeInv, IInv, Parties, DInv
<1>2. master.phase \in {"initiated", "segments"} /\ requests # <<>>
  BY <1>1 DEF DownloadAsked, MasterRecord, Waits
<1>3. Pieces(master)
  BY <1>1 DEF Downloads
<1>4. Request = IF master.phase = "initiated" THEN InitOf(master)
                ELSE SegmentOf(master)
  BY <1>1, <1>3, AskedAgain DEF DownloadAsked
<1>5. InitOf(master).cmd = "initiateDownload"
      /\ SegmentOf(master).cmd = "downloadSegment"
  BY DEF InitOf, SegmentOf
<1>6. master.phase = "segments" => Alive(sdo) /\ sdo.toggle # master.toggle
  BY DEF DownloadAsked, DownloadGoing, Told, Waits
<1> QED
  BY <1>1, <1>2, <1>3, <1>4, <1>5, <1>6

LEMMA RefuseInitiateServed ==
  ASSUME DownloadAsked, RefuseInitiate
  PROVE  DownloadServed
<1>1. Request.cmd \in {"initiateUpload", "initiateDownload"}
  BY DEF RefuseInitiate, Received
<1>2. Request = InitOf(master) /\ Request.cmd = "initiateDownload"
  BY <1>1, DownloadRequest
<1>3. ~Reached(master.job)
  BY <1>2 DEF RefuseInitiate, Addresses, InitOf, Reached
<1>4. ~Legal(master.job)
  BY <1>3, UnreachedIllegal DEF DownloadAsked
<1>5. Answer([kind |-> "abort"]) /\ UNCHANGED master
  BY <1>2 DEF RefuseInitiate, Abort
<1>6. DownloadTold(master, sdo', [kind |-> "abort"], Legal(master.job))
  BY <1>4 DEF DownloadTold
<1> QED
  BY <1>5, <1>6 DEF DownloadServed

\* The whole data are written exactly if the job is legal.
LEMMA WholeServed ==
  ASSUME SentWhole, DownloadAsked, Reached(master.job), UNCHANGED master,
         master.to = Len(master.data), NEW cmd,
         cmd = IF master.phase = "initiated" THEN "initiateDownload"
               ELSE "downloadSegment",
         WriteObject(cmd, master.job.index, master.job.sub, master.job.ca,
                     master.data)
  PROVE  DownloadServed
<1> DEFINE job == master.job
           refused == WriteRefused(job.index, objects[job.index], job.sub,
                                   job.ca, al, master.data)
           kind == IF master.phase = "initiated" THEN "download"
                   ELSE "downloadSegment"
<1>1. job \in Jobs /\ al \in AlStates /\ master.data = Payload[job]
      /\ job.op = "download" /\ TypesValid
  BY DownloadRequest DEF Pieces, DownloadAsked
<1>2. refused <=> ~Legal(job)
  BY <1>1, DownloadLegal
<1>3. refused => Answer([kind |-> "abort"])
  BY DEF WriteObject, Abort
<1>4. ~refused => Answer([kind |-> kind])
  BY DEF WriteObject
<1> HIDE DEF refused
<1>5. CASE refused
  <2>1. DownloadTold(master, sdo', [kind |-> "abort"], Legal(job))
    BY <1>2, <1>5 DEF DownloadTold
  <2> QED
    BY <1>3, <1>5, <2>1 DEF DownloadServed
<1>6. CASE ~refused
  <2>1. DownloadTold(master, sdo', [kind |-> kind], Legal(job))
    BY <1>2, <1>6 DEF DownloadTold
  <2> QED
    BY <1>4, <1>6, <2>1 DEF DownloadServed
<1> QED
  BY <1>5, <1>6

LEMMA DownloadAtOnceServed ==
  ASSUME SentWhole, DownloadAsked, DownloadAtOnce
  PROVE  DownloadServed
<1> DEFINE r == Request
           m == master
           job == master.job
<1>1. /\ Initiates("initiateDownload") /\ r.size = Len(r.data)
      /\ r.cmd = "initiateDownload" /\ UNCHANGED master
  BY DEF DownloadAtOnce, Initiates, Received
<1>2. /\ Reached(job) /\ r.index = job.index /\ r.sub = job.sub /\ r.ca = job.ca
      /\ Len(m.data) \in Nat /\ r.size = Len(m.data)
      /\ Len(r.data) = Least(Len(m.data), DownloadRoom)
      /\ Len(m.data) <= DownloadRoom => r.data = m.data
  BY <1>1, FirstRequest DEF DownloadAsked
<1>3. Len(m.data) <= DownloadRoom /\ r.data = m.data
  <2>1. /\ Len(m.data) = Least(Len(m.data), DownloadRoom)
        /\ Len(m.data) \in Nat /\ DownloadRoom \in Nat
    BY <1>1, <1>2, RoomType
  <2>2. Len(m.data) <= DownloadRoom
    BY ONLY <2>1 DEF Least
  <2> QED
    BY <1>2, <2>2
<1>4. m.phase = "initiated" /\ m.to = Len(m.data)
  <2>1. m.phase = "initiated"
    BY <1>1, DownloadRequest
  <2>2. Opening(m)
    BY <2>1, DownloadRequest DEF Pieces, Midway
  <2>3. m.to = Least(Len(m.data), DownloadRoom)
    BY <2>2 DEF Opening
  <2>4. m.to = Len(m.data)
    BY ONLY <1>2, <1>3, <2>3 DEF Least
  <2> QED
    BY <2>1, <2>4
<1>5. WriteObject(r.cmd, job.index, job.sub, job.ca, m.data)
  BY <1>2, <1>3 DEF DownloadAtOnce
<1> QED
  BY <1>1, <1>2, <1>4, <1>5, WholeServed

LEMMA DownloadInSegmentsServed ==
  ASSUME DownloadAsked, DownloadInSegments, ~master'.fault
  PROVE  DownloadServed
<1> DEFINE r == Request
           data == Placed(Fresh(r.size), 0, r.data)
           answer == [kind |-> "download"]
<1>1. Initiates("initiateDownload") /\ r.size > Len(r.data)
      /\ r.cmd = "initiateDownload"
  BY DEF DownloadInSegments, Initiates, Received
<1>2. ~AllocationFails(r, r.size)
  BY FaultSet DEF AllocationFails, DownloadAsked
<1>3. /\ sdo' = [Opened(r, r.size) EXCEPT
                   !.service = Idle, !.handled = Len(r.data), !.data = data]
      /\ Answer(answer) /\ master' = master
  BY <1>2 DEF DownloadInSegments
<1>4. /\ Len(master.data) \in Nat /\ r.size = Len(master.data)
      /\ Len(r.data) = Least(Len(master.data), DownloadRoom)
  BY <1>1, FirstRequest DEF DownloadAsked
<1>5. /\ master.phase = "initiated" /\ master.toggle = 16
      /\ master.to = Len(r.data) /\ master.to # Len(master.data)
  <2>1. master.phase = "initiated"
    BY <1>1, DownloadRequest
  <2>2. Opening(master)
    BY <2>1, DownloadRequest DEF Pieces, Midway
  <2>3. master.to = Len(r.data)
    BY <1>4, <2>2 DEF Opening
  <2>4. Len(r.data) # Len(master.data)
    BY <1>1, <1>4, RoomType DEF Least
  <2> QED
    BY <2>1, <2>2, <2>3, <2>4 DEF Opening
<1>6. data # Null
  <2>1. 1 \in DOMAIN Fresh(r.size)
    <3>1. r.size > 0
      BY <1>1, <1>4, RoomType DEF Least
    <3> QED
      BY <1>4, <3>1 DEF Fresh
  <2>2. 1 \in DOMAIN data
    BY <2>1 DEF Placed
  <2> HIDE DEF data
  <2> QED
    BY <2>2, NoBuffer
<1> HIDE DEF data
<1>7. Alive(sdo') /\ sdo'.toggle = 1
  <2>1. sdo'.service = Idle /\ sdo'.data = data /\ sdo'.toggle = 1
    BY <1>3 DEF Opened, TypeInv, SdoType, DownloadAsked
  <2> QED
    BY <1>6, <2>1 DEF Alive
<1>8. sdo'.toggle # 16 - master.toggle
  BY <1>5, <1>7
<1>9. DownloadTold(master, sdo', answer, Legal(master.job))
  BY <1>5, <1>7, <1>8 DEF DownloadTold
<1> QED
  BY <1>3, <1>9 DEF DownloadServed

LEMMA DownloadSegmentServed ==
  ASSUME SentWhole, DownloadAsked, DownloadSegment
  PROVE  DownloadServed
<1> DEFINE r == Request
           m == master
           turned == [sdo EXCEPT !.toggle = r.toggle]
           data == Placed(sdo.data, sdo.handled, r.data)
           total == Len(m.data)
<1>1. r.cmd = "downloadSegment" /\ UNCHANGED master /\ Head(requests) = r
  BY DEF DownloadSegment, Continues, Received, Request
<1>2. /\ m.phase = "segments" /\ r = SegmentOf(m) /\ Alive(sdo)
      /\ sdo.toggle # m.toggle /\ requests # <<>>
      /\ requests \in Seq(RequestType) /\ MasterGood(m)
      /\ Downloads(requests, answers, m, sdo) /\ sdo \in SdoType
      /\ m \in MasterRecord
  BY <1>1, DownloadRequest DEF DownloadAsked, TypeInv
<1>3. /\ r.toggle = m.toggle /\ (r.last <=> m.to = Len(m.data))
      /\ r.data = SubSeq(m.data, m.from + 1, m.to)
  BY <1>2 DEF SegmentOf
<1>4. Ours(m, sdo) /\ sdo.handled = m.from /\ m.from > 0
  <2>1. Head(requests).cmd = "downloadSegment"
        /\ Head(requests).toggle # sdo.toggle
    BY <1>1, <1>2, <1>3
  <2>2. Ours(m, sdo) /\ Due(m, sdo) /\ m.from > 0
    BY ONLY <1>2, <2>1, TakenSegment
  <2> QED
    BY <2>2 DEF Due
<1>5. Midway(m) /\ m.from \in Nat /\ m.to \in Nat /\ total \in Nat
      /\ DownloadSegRoom \in Nat /\ DownloadSegRoom > 0
  BY <1>2, <1>4, QueuedTyped DEF Downloads
<1>6. /\ data \in Seq(Tags) /\ Len(data) = total
      /\ r.last => data = m.data
      /\ ~r.last => m.to = m.from + DownloadSegRoom
  BY <1>2, <1>4, <1>5, SegmentPlaced
<1>7. /\ m.from < total
      /\ m.to = Least(total, m.from + DownloadSegRoom)
      /\ Reached(m.job) /\ Remaining = total - m.from
  BY <1>4, <1>5 DEF Midway, Remaining, Ours
<1>8. Len(r.data) = m.to - m.from
  <2>1. m.from < m.to /\ m.to <= total
    <3> HIDE DEF total
    <3> QED
      BY <1>5, <1>7 DEF Least
  <2>2. m.data \in Seq(Tags)
    BY <1>2 DEF MasterGood
  <2>3. Len(SubSeq(m.data, m.from + 1, m.to)) = m.to - m.from
    BY <1>5, <2>1, <2>2, PartOf
  <2> QED
    BY <1>3, <2>3
<1>9. ~Misfits(r)
  <2> DEFINE from == m.from
             to == m.to
             n == Len(r.data)
             rest == Remaining
  <2>1. /\ from \in Nat /\ to \in Nat /\ from < total /\ total \in Nat
        /\ to = Least(total, from + DownloadSegRoom) /\ rest = total - from
        /\ n = to - from /\ DownloadSegRoom \in Nat
        /\ (r.last <=> to = total)
    BY <1>3, <1>5, <1>7, <1>8
  <2> HIDE DEF from, to, n, rest, total
  <2>2. IF r.last THEN ~(rest > DownloadSegRoom \/ rest # n)
        ELSE ~(rest <= DownloadSegRoom)
    BY <2>1 DEF Least
  <2> QED
    BY <2>2 DEF Misfits, n, rest
<1> HIDE DEF data
<1>10. CASE r.last
  <2>1. WriteObject(r.cmd, sdo.index, sdo.sub, sdo.ca, data)
    BY <1>2, <1>3, <1>9, <1>10 DEF DownloadSegment, Alive, data
  <2>2. WriteObject("downloadSegment", m.job.index, m.job.sub, m.job.ca, m.data)
    BY <1>1, <1>4, <1>6, <1>10, <2>1 DEF Ours
  <2> QED
    BY <1>1, <1>2, <1>3, <1>7, <1>10, <2>2, WholeServed
<1>11. CASE ~r.last
  <2>1. /\ sdo' = [turned EXCEPT !.data = data,
                                 !.handled = @ + DownloadSegRoom]
        /\ Answer([kind |-> "downloadSegment"])
    BY <1>1, <1>2, <1>3, <1>9, <1>11 DEF DownloadSegment, Alive, data
  <2>2. sdo'.service = Idle /\ sdo'.data = data /\ sdo'.toggle = m.toggle
    <3>1. sdo'.toggle = r.toggle /\ sdo'.data = data /\ sdo'.service = sdo.service
      BY <1>2, <2>1 DEF SdoType
    <3> QED
      BY <1>2, <1>3, <3>1 DEF Alive
  <2>3. data # Null
    <3>1. Len(data) > 0
      <4> HIDE DEF total
      <4> QED
        BY <1>5, <1>6, <1>7
    <3> QED
      BY <3>1, EmptySeq DEF Null
  <2>4. Alive(sdo')
    BY <2>2, <2>3 DEF Alive
  <2>5. sdo'.toggle # 16 - m.toggle
    <3>1. m.toggle \in {0, 16}
      BY <1>2 DEF MasterRecord
    <3> QED
      BY <2>2, <3>1
  <2>6. DownloadTold(m, sdo', [kind |-> "downloadSegment"], Legal(m.job))
    BY <1>2, <1>3, <1>11, <2>4, <2>5 DEF DownloadTold
  <2> QED
    BY <1>1, <2>1, <2>6 DEF DownloadServed
<1> QED
  BY <1>10, <1>11

LEMMA SdoIndServed ==
  ASSUME SentWhole, DownloadAsked, SdoInd, ~master'.fault
  PROVE  DownloadServed
<1>1. /\ Request.cmd \in {"initiateDownload", "downloadSegment"}
      /\ Request.cmd = "downloadSegment" => sdo.service = Idle
  BY DownloadRequest DEF Alive
<1>2. ~UploadAtOnce /\ ~UploadInSegments /\ ~UploadSegment
  BY <1>1 DEF UploadAtOnce, UploadInSegments, UploadSegment, Initiates,
              Continues, Received
<1>3. ~RefuseCommand
  BY <1>1 DEF RefuseCommand, Received, Idle
<1> QED
  BY <1>2, <1>3, RefuseInitiateServed, DownloadAtOnceServed,
     DownloadInSegmentsServed, DownloadSegmentServed DEF SdoInd

LEMMA TakeAnswerServed ==
  ASSUME TypeInv, master.job.op = "download", master.phase # "idle", TakeAnswer,
         DownloadGoing(requests, answers, master, sdo, info, Legal(master.job))
  PROVE  IF master'.phase = "idle" THEN Fair(master', Legal(master.job))
         ELSE DownloadGoing(requests', answers', master', sdo', info',
                            Legal(master.job))
<1> DEFINE answer == Head(answers)
           legal == Legal(master.job)
<1>1. /\ Told(requests, answers) /\ DownloadTold(master, sdo, answer, legal)
      /\ master.job \in Jobs /\ master.result = "none" /\ ~info.follow
  BY DEF TakeAnswer, Waits, DownloadGoing
<1>2. /\ master \in MasterRecord /\ master.phase \in {"initiated", "segments"}
      /\ MasterGood(master)
  BY DEF TypeInv, MasterRecord, IInv, Parties
<1>3. /\ sdo' = sdo /\ info' = info /\ master' = After(answer)
      /\ answers' = <<>> /\ requests = <<>>
  BY <1>1 DEF TakeAnswer, Told
<1>4. CASE answer.kind = "abort" /\ ~legal
  <2>1. answer.kind \notin Expected
    BY <1>2, <1>4 DEF Expected
  <2>2. After(answer) = Done("failed")
    BY <1>4, <2>1 DEF After
  <2>3. master'.phase = "idle" /\ master'.result = "failed"
    BY <1>2, <1>3, <2>2 DEF Done, MasterRecord
  <2> QED
    BY <1>4, <2>3 DEF Fair
<1>5. CASE /\ answer.kind = IF master.phase = "initiated" THEN "download"
                            ELSE "downloadSegment"
           /\ IF master.to = Len(master.data) THEN legal
              ELSE Alive(sdo) /\ sdo.toggle # 16 - master.toggle
  <2>1. answer.kind \in Expected
    BY <1>2, <1>5 DEF Expected
  <2>2. answer.kind \in Expected \ {"list"} /\ After(answer) = AfterDownload
    BY <1>2, <2>1, AfterDownloadJob
  <2>3. CASE master.to = Len(master.data)
    <3>1. master' = Done("ok")
      BY <1>3, <2>2, <2>3 DEF AfterDownload
    <3>2. master'.phase = "idle" /\ master'.result = "ok"
      BY <1>2, <3>1 DEF Done, MasterRecord
    <3> QED
      BY <1>5, <2>3, <3>2 DEF Fair
  <2>4. CASE master.to # Len(master.data)
    <3> DEFINE to == Least(Len(master.data), master.to + DownloadSegRoom)
               m == [master EXCEPT !.phase = "segments",
                       !.toggle = 16 - master.toggle, !.from = master.to,
                       !.to = to]
    <3>1. master' = m
      <4>1. AfterDownload =
              NextSegment([master EXCEPT !.from = master.to,
                 !.to = Least(Len(master.data), @ + DownloadSegRoom)])
        BY <2>4 DEF AfterDownload
      <4>2. NextSegment([master EXCEPT !.from = master.to,
               !.to = Least(Len(master.data), @ + DownloadSegRoom)]) = m
        BY <1>2 DEF NextSegment, MasterRecord
      <4> QED
        BY <1>3, <2>2, <4>1, <4>2
    <3> HIDE DEF to
    <3>2. /\ m.job = master.job /\ m.result = "none" /\ m.phase = "segments"
          /\ m.toggle = 16 - master.toggle
      BY <1>1, <1>2 DEF MasterRecord
    <3> HIDE DEF m
    <3>3. requests' = <<Asked(master')>>
      <4>1. requests' = Append(requests, Asked(master'))
        BY <2>2, <3>1, <3>2 DEF TakeAnswer
      <4> QED
        BY <1>3, <4>1
    <3>4. Waits(requests', answers', master')
      BY <1>3, <3>3 DEF Waits
    <3>5. Alive(sdo) /\ sdo.toggle # 16 - master.toggle
      BY <1>5, <2>4
    <3> HIDE DEF legal
    <3>6. DownloadGoing(requests', answers', master', sdo', info', legal)
      BY <1>1, <1>3, <3>1, <3>2, <3>4, <3>5 DEF DownloadGoing
    <3> QED
      BY <3>1, <3>2, <3>6 DEF legal
  <2> QED
    BY <2>3, <2>4
<1> QED
  BY <1>1, <1>4, <1>5 DEF DownloadTold

LEMMA DownloadFairStep ==
  ASSUME SentWhole, TypeInv, DInv, TypesValid, DownloadInv, [Next]_vars
  PROVE  DownloadInv'
<1> SUFFICES ASSUME master'.job.op = "download", ~master'.fault
             PROVE  IF master'.phase = "idle"
                    THEN Fair(master', Legal(master.job)')
                    ELSE DownloadGoing(requests', answers', master', sdo', info',
                                       Legal(master.job)')
  BY DEF DownloadInv
<1>1. CASE Starts
  BY <1>1, StartWaits DEF Starts, DownloadGoing
<1>2. CASE ~Starts
  <2>1. /\ master'.job = master.job /\ master.fault = FALSE
        /\ SdoInd \/ SdoInfoInd \/ Tick \/ TakeAnswer \/ UNCHANGED vars
        /\ al' = al
    BY <1>2, CalmStep
  <2>2. Legal(master.job)' = Legal(master.job)
    BY <2>1, LegalStays
  <2> DEFINE legal == Legal(master.job)
  <2>3. CASE master.phase = "idle"
    <3>1. master' = master
      BY <1>2, <2>3, CalmIdle
    <3> QED
      BY <2>1, <2>2, <2>3, <3>1 DEF DownloadInv
  <2>4. CASE master.phase # "idle"
    <3>1. DownloadGoing(requests, answers, master, sdo, info, legal)
      BY <2>1, <2>4 DEF DownloadInv
    <3>2. master \in MasterRecord
      BY DEF TypeInv
    <3>3. requests # <<>> => Waits(requests, answers, master)
                             /\ Request = Asked(master)
      BY <3>1, WaitsFirst DEF DownloadGoing
    <3>4. CASE SdoInd
      <4>1. DownloadAsked /\ UNCHANGED info
        BY <2>1, <2>4, <3>1, <3>3, <3>4, ServerTakes DEF DownloadAsked
      <4>2. PICK answer : /\ Answer(answer) /\ UNCHANGED master
                          /\ DownloadTold(master, sdo', answer, legal)
        BY <3>4, <4>1, SdoIndServed DEF DownloadServed
      <4>3. Told(requests', answers') /\ Head(answers') = answer
        BY <4>1, <4>2, Serves DEF DownloadAsked
      <4>4. ~info'.follow /\ master.job \in Jobs /\ master.result = "none"
        BY <3>1, <4>1 DEF DownloadGoing
      <4> HIDE DEF legal
      <4>5. DownloadGoing(requests', answers', master', sdo', info', legal)
        BY <4>2, <4>3, <4>4 DEF DownloadGoing
      <4> QED
        BY <2>2, <2>4, <4>2, <4>5 DEF legal
    <3>5. ~SdoInfoInd
      <4>1. requests # <<>> =>
              Request.cmd \in {"initiateDownload", "downloadSegment"}
        <5>1. master.phase \in {"initiated", "segments"}
          BY <2>4, <3>2 DEF MasterRecord
        <5> QED
          BY <2>1, <3>3, <5>1 DEF Asked
      <4>2. ~SendList /\ ~Describe
        BY <4>1, ServerTakes
      <4>3. ~ContinueInd
        BY <3>1 DEF ContinueInd, DownloadGoing
      <4> QED
        BY <4>2, <4>3 DEF SdoInfoInd
    <3>6. CASE Tick \/ UNCHANGED vars
      <4>1. Watched /\ UNCHANGED <<requests, answers, sdo, info>>
        BY <3>6 DEF Tick, vars, Watched
      <4>2. /\ Asked(master') = Asked(master)
            /\ master'.job = master.job /\ master'.phase = master.phase
            /\ master'.result = master.result
            /\ master'.toggle = master.toggle
            /\ master'.to = master.to /\ master'.data = master.data
        BY <2>4, <3>2, <4>1, WatchedStays
      <4>3. Waits(requests, answers, master) => Waits(requests', answers', master')
        BY <4>1, <4>2 DEF Waits
      <4>4. DownloadTold(master, sdo, Head(answers), legal) =>
              DownloadTold(master', sdo', Head(answers'), legal)
        BY <4>1, <4>2 DEF DownloadTold
      <4>5. Told(requests, answers) => Told(requests', answers')
        BY <4>1
      <4> HIDE DEF legal
      <4>6. DownloadGoing(requests', answers', master', sdo', info', legal)
        BY <3>1, <4>1, <4>2, <4>3, <4>4, <4>5 DEF DownloadGoing
      <4> QED
        BY <2>2, <2>4, <4>2, <4>6 DEF legal
    <3>7. CASE TakeAnswer
      BY <2>1, <2>2, <2>4, <3>1, <3>7, TakeAnswerServed
    <3> QED
      BY <2>1, <3>4, <3>5, <3>6, <3>7
  <2> QED
    BY <2>3, <2>4
<1> QED
  BY <1>1, <1>2

(***************************************************************************)
(* Nothing is going on at the start.                                       *)
(***************************************************************************)
LEMMA CalmInit ==
  ASSUME Init
  PROVE  Fragments(info) /\ UploadInv /\ ListInv /\ DescribeInv /\ DownloadInv
<1>1. /\ master.job.op = "upload" /\ master.phase = "idle"
      /\ master.result = "none"
  BY DEF Init, NoJob
<1>2. info.follow = FALSE /\ info.left = 0
  BY DEF Init, NoList
<1>3. Fragments(info)
  BY <1>2 DEF Fragments
<1>4. UploadInv
  BY <1>1 DEF UploadInv, UploadOver, Fair
<1> QED
  BY <1>1, <1>3, <1>4 DEF ListInv, DescribeInv, DownloadInv

LEMMA TypesValidInit ==
  ASSUME Init
  PROVE  TypesValid
<1> SUFFICES ASSUME NEW x \in SyncPars \cap Used
             PROVE  CheckSyncTypeValue(x, objects[x][1])
  BY DEF TypesValid
<1>1. x \in Indexes /\ Object[x].max \in 0 .. 255 /\ Object[x].max >= 1
  BY UsedAssumption, EntryAssumption, UsedObject
<1> DEFINE max == Object[x].max
<1> HIDE DEF max
<1>2. 1 \in 0 .. max
  BY <1>1 DEF max
<1>3. objects[x] = [i \in 0 .. Object[x].max |-> IF i = 0 THEN Object[x].max ELSE 0]
  BY DEF Init
<1>4. objects[x][1] = 0
  BY <1>2, <1>3 DEF max
<1> QED
  BY <1>4 DEF CheckSyncTypeValue

(***************************************************************************)
(* What the master reads, and whether it is refused.                       *)
(***************************************************************************)
\* An upload without a fault during it gives the master the object as it was
\* while the server copied it once, whatever comes between its segments, with
\* no more than what the interrupts count during the copy; and a list gives it
\* all the objects that belong to it in their order, from where the list before
\* broke off if the mailbox was stopped in the middle of that one
\* (sdoserv.c:396-467, 1085-1180, objdef.c:381-484, 971-1290).
THEOREM UploadsAndListsAreWhole == Spec => []ReadIsWhole
<1> DEFINE Inv == /\ TypeInv /\ Fragments(info) /\ UploadInv /\ ListInv
<1>1. Init => Inv
  BY TypeInit, CalmInit
<1>2. Inv /\ [Next]_vars => Inv'
  BY TypeStep, FragmentsStep, UploadStep, ListStep
<1>3. Inv => ReadIsWhole
  BY UploadShows, ListShows DEF ReadIsWhole
<1> QED
  BY <1>1, <1>2, <1>3, PTL DEF Spec

\* What the server refuses, and nothing else, is what the dictionary does not
\* allow, however many transfers came before (sdoserv.c:576-935).
THEOREM LegalSucceeds ==
  ASSUME SentWhole
  PROVE  Spec => []FailsIffIllegal
<1> DEFINE Inv == /\ TypeInv /\ DInv /\ TypesValid /\ Fragments(info)
                  /\ UploadInv /\ ListInv /\ DescribeInv /\ DownloadInv
<1>1. Init => Inv
  BY TypeInit, DownloadInit, TypesValidInit, CalmInit
<1>2. Inv /\ [Next]_vars => Inv'
  BY TypeStep, DownloadStep, TypesValidStep, FragmentsStep, UploadStep,
     ListStep, DescribeStep, DownloadFairStep
<1>3. Inv => FailsIffIllegal
  <2> SUFFICES ASSUME Inv, ~master.fault, master.result # "none"
               PROVE  master.result = "ok" <=> Legal(master.job)
    BY DEF FailsIffIllegal
  <2> DEFINE legal == Legal(master.job)
             op == master.job.op
  <2>1. op \in Operations
    BY DEF TypeInv, IInv, Parties, MasterGood, JobType
  <2> HIDE DEF legal
  <2>2. Fair(master, legal)
    <3>1. CASE op = "upload"
      BY <3>1 DEF UploadInv, UploadOver, UploadGoing, legal
    <3>2. CASE op = "download"
      BY <3>2 DEF DownloadInv, DownloadGoing, legal
    <3>3. CASE op = "list"
      BY <3>3 DEF ListInv, ListOver, ListGoing, legal
    <3>4. CASE op \in {"describeObject", "describeEntry"}
      BY <3>4 DEF DescribeInv, legal
    <3> QED
      BY <2>1, <3>1, <3>2, <3>3, <3>4 DEF Operations
  <2> QED
    BY <2>2 DEF Fair, legal
<1> QED
  BY <1>1, <1>2, <1>3, PTL DEF Spec

=============================================================================
