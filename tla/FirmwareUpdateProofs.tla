------------------------ MODULE FirmwareUpdateProofs ------------------------
(***************************************************************************)
(* Proofs about BootUser and FirmwareUpdate: the types, that packet        *)
(* numbers and offsets stay in step whatever was aborted, that the update  *)
(* is atomic (AtomicUpdate is implemented when every package has a hash),  *)
(* that an upload is the whole of the package that runs, and that what is  *)
(* acknowledged is installed, except after a longer package was aborted.   *)
(***************************************************************************)
EXTENDS FirmwareUpdate, TLAPS, SequenceTheorems

USE FileAssumption, BlockAssumption, SizesAssumption

-----------------------------------------------------------------------------
(* The boot loader.                                                        *)

Flashes == [Slots -> Seq(Chunk)]

\* An image in flash that is a whole package.
Whole(image) == image # <<>> /\ image = Package[image[1].file]

\* What is in flash begins with a chunk of some package.
LEMMA FirstChunk ==
  ASSUME NEW fl \in Flashes, NEW s \in Slots, fl[s] # <<>>
  PROVE  /\ fl[s][1] \in Chunk /\ fl[s][1].file \in Files
         /\ Size[fl[s][1].file] \in Nat \ {0} /\ Version[fl[s][1].file] \in Nat
<1>1. fl[s] \in Seq(Chunk)
  BY DEF Flashes
<1>2. fl[s][1] \in Chunk
  BY <1>1
<1>3. fl[s][1].file \in Files
  BY <1>2 DEF Chunk
<1> QED
  BY <1>2, <1>3

\* If one slot holds a whole package, the boot loader starts a whole package,
\* and not an older one: a damaged image beside it is passed over.
THEOREM BootSafe ==
  ASSUME Files \subseteq Hashed,
         NEW fl \in Flashes, NEW s \in Slots, Whole(fl[s]),
         fl[s][1].no = 1
  PROVE  LET t == SelectJumpApp(fl)
         IN  /\ t \in Slots /\ Whole(fl[t]) /\ fl[t][1].no = 1
             /\ Version[fl[t][1].file] >= Version[fl[s][1].file]
<1> DEFINE Readable(u)  == ReadAppHeader(fl[u])
           Startable(u) == Readable(u) /\ VerifyAppValid(fl[u])
           VersionOf(u) == Version[fl[u][1].file]
           first == IF /\ Readable(HPM_APP1) /\ Readable(HPM_APP2)
                       /\ VersionOf(HPM_APP1) < VersionOf(HPM_APP2)
                    THEN HPM_APP2 ELSE HPM_APP1
           second == IF first = HPM_APP1 THEN HPM_APP2 ELSE HPM_APP1
           t == SelectJumpApp(fl)
<1>1. ASSUME NEW u \in Slots, Startable(u)
      PROVE  Whole(fl[u]) /\ fl[u][1].no = 1
  BY <1>1, FirstChunk DEF ReadAppHeader, VerifyAppValid, Whole
<1>2. Startable(s) /\ Readable(s)
  BY DEF Whole, ReadAppHeader, VerifyAppValid
<1>3. \A u \in Slots : Readable(u) => VersionOf(u) \in Nat
  BY FirstChunk DEF ReadAppHeader
<1>4. t = IF Startable(first) THEN first
          ELSE IF Startable(second) THEN second ELSE None
  BY DEF SelectJumpApp
<1>5. /\ first \in Slots /\ second \in Slots /\ Slots = {first, second}
      /\ HPM_APP1 \in Slots /\ HPM_APP2 \in Slots /\ HPM_APP1 # HPM_APP2
  BY DEF Slots, HPM_APP1, HPM_APP2
<1>6. Readable(HPM_APP1) /\ Readable(HPM_APP2) =>
        \A u \in Slots : VersionOf(first) >= VersionOf(u)
  <2> SUFFICES ASSUME Readable(HPM_APP1), Readable(HPM_APP2)
               PROVE  /\ VersionOf(first) >= VersionOf(HPM_APP1)
                      /\ VersionOf(first) >= VersionOf(HPM_APP2)
    BY DEF Slots
  <2>1. VersionOf(HPM_APP1) \in Nat /\ VersionOf(HPM_APP2) \in Nat
    BY <1>3, <1>5
  <2>2. first = (IF VersionOf(HPM_APP1) < VersionOf(HPM_APP2) THEN HPM_APP2
                 ELSE HPM_APP1)
    OBVIOUS
  <2> HIDE DEF Readable, VersionOf, first
  <2> QED
    BY <2>1, <2>2
<1>7. t \in Slots /\ Startable(t) /\ (s = first => t = first)
  <2>1. CASE Startable(first)
    BY <2>1, <1>4, <1>5
  <2>2. CASE ~Startable(first)
    BY <2>2, <1>2, <1>4, <1>5
  <2> QED
    BY <2>1, <2>2
<1>8. VersionOf(t) >= VersionOf(s)
  <2>1. CASE t = s
    BY <2>1, <1>2, <1>3
  <2>2. CASE t # s
    <3>1. Readable(t) /\ Readable(s)
      BY <1>2, <1>7
    <3>2. t = first
      BY <2>2, <1>5, <1>7, <1>2, <1>4
    <3>3. {t, s} = {HPM_APP1, HPM_APP2}
      BY <2>2, <1>7 DEF Slots
    <3> QED
      BY <3>1, <3>2, <3>3, <1>6
  <2> QED
    BY <2>1, <2>2
<1> QED
  BY <1>1, <1>7, <1>8

\* What the boot loader starts is a whole package.
LEMMA StartedIsWhole ==
  ASSUME Files \subseteq Hashed, NEW fl \in Flashes, SelectJumpApp(fl) # None
  PROVE  LET t == SelectJumpApp(fl)
         IN  t \in Slots /\ Whole(fl[t]) /\ fl[t][1].no = 1
<1> DEFINE t == SelectJumpApp(fl)
<1>1. t \in Slots /\ ReadAppHeader(fl[t]) /\ VerifyAppValid(fl[t])
  BY DEF SelectJumpApp, Slots
<1> QED
  BY <1>1, FirstChunk DEF ReadAppHeader, VerifyAppValid, Whole

-----------------------------------------------------------------------------
(* Packets and data.                                                       *)

\* What the division gives.
LEMMA DivIs ==
  ASSUME NEW s \in Nat, NEW r \in Nat \ {0}, NEW n \in Nat,
         r * n <= s, s < r * n + r
  PROVE  s \div r = n
<1> DEFINE d == s \div r
<1>1. d \in Nat /\ r * d <= s /\ s < r * d + r
  OBVIOUS
<1> HIDE DEF d
<1>2. ASSUME NEW x \in Nat, NEW y \in Nat, r * x < r * y + r PROVE x <= y
  <2> SUFFICES ASSUME ~(x <= y) PROVE FALSE
    OBVIOUS
  <2>1. x - y - 1 \in Nat
    OBVIOUS
  <2>2. r * (x - y - 1) >= 0 /\ r * (x - y - 1) = r * x - r * y - r
    BY <2>1
  <2>3. r * x \in Nat /\ r * y \in Nat
    OBVIOUS
  <2> QED
    BY <1>2, <2>2, <2>3
<1>3. r * d < r * n + r /\ r * n < r * d + r
  BY <1>1
<1>4. d <= n /\ n <= d
  BY <1>1, <1>2, <1>3
<1> QED
  BY <1>1, <1>4 DEF d

\* A packet that begins inside the file, or at its end, is a chunk.
LEMMA PacketType ==
  ASSUME NEW f \in Files, NEW n \in Nat \ {0}, Block * (n - 1) <= Size[f]
  PROVE  Packet(f, n) \in Chunk
<1>1. Block * (n - 1) \in Nat /\ Size[f] \in Nat
  OBVIOUS
<1>2. Least(Block, Size[f] - Block * (n - 1)) \in 0 .. Block
  BY <1>1 DEF Least
<1> QED
  BY <1>2 DEF Packet, Chunk

\* The packets a master may send are chunks.
LEMMA SentType ==
  ASSUME NEW f \in Files, NEW n \in 1 .. Packets(f)
  PROVE  Packet(f, n) \in Chunk
<1> DEFINE d == Size[f] \div Block
<1>1. d \in Nat /\ Block * d <= Size[f]
  OBVIOUS
<1>2. n \in Nat \ {0} /\ n - 1 <= d
  BY <1>1 DEF Packets
<1> HIDE DEF d
<1>3. Block * (n - 1) <= Block * d
  BY <1>1, <1>2
<1> QED
  BY <1>1, <1>2, <1>3, PacketType

\* A package is a sequence of chunks that begins with the header.
LEMMA PackageType ==
  ASSUME NEW f \in Files
  PROVE  /\ Package[f] \in Seq(Chunk) /\ Package[f] # <<>>
         /\ Package[f][1].file = f /\ Package[f][1].no = 1
<1> DEFINE d == (Size[f] + Block - 1) \div Block
<1>1. d \in Nat /\ d >= 1 /\ Block * d <= Size[f] + Block - 1
  OBVIOUS
<1>2. Package[f] = [n \in 1 .. d |-> Packet(f, n)]
  BY DEF Package
<1> HIDE DEF d
<1>3. ASSUME NEW n \in 1 .. d PROVE Packet(f, n) \in Chunk
  <2>1. n \in Nat \ {0} /\ n <= d
    BY <1>1
  <2>2. Block * n <= Block * d
    BY <1>1, <2>1
  <2>3. Block * (n - 1) = Block * n - Block /\ Block * n \in Nat /\ Block * d \in Nat
    BY <1>1, <2>1
  <2>4. Block * (n - 1) <= Size[f]
    BY <1>1, <2>2, <2>3
  <2> QED
    BY <2>1, <2>4, PacketType
<1>4. Package[f] \in Seq(Chunk) /\ Package[f] # <<>>
  <2>1. Package[f] \in [1 .. d -> Chunk]
    BY <1>2, <1>3
  <2>2. Package[f] \in Seq(Chunk)
    BY <2>1, <1>1
  <2>3. 1 \in DOMAIN Package[f] /\ DOMAIN <<>> = {}
    BY <1>1, <1>2
  <2> QED
    BY <2>2, <2>3
<1> QED
  BY <1>1, <1>2, <1>4 DEF Packet

Outcomes == [foe : FileAccess, offset : Nat, size : Nat,
  ends : {"data", "ack", "ackfinished", "finished", "error"}]

\* What a service ends in, such that the state it leaves is in step.
Good(h) ==
  /\ h \in Outcomes
  /\ h.ends = "ack" => h.foe.written = Block * h.foe.packetNo
  /\ h.ends = "data" =>
       /\ h.foe.packetNo # 0
       /\ h.foe.lastOffset = ReadBlock * (h.foe.packetNo - 1)
       /\ h.foe.fileOffset = Least(h.foe.readSize, ReadBlock * h.foe.packetNo)
       /\ h.size = ReadBlock <=> ReadBlock * h.foe.packetNo <= h.foe.readSize

\* The fields of a file access that is typed.
LEMMA FileAccessFields ==
  ASSUME NEW f \in FileAccess
  PROVE  /\ f.state \in States /\ f.packetNo \in Nat /\ f.fileOffset \in Nat
         /\ f.lastOffset \in Nat /\ f.readSize \in Nat /\ f.written \in Nat
         /\ f.passed \in BOOLEAN
BY DEF FileAccess

\* An outcome that is neither data nor an acknowledgement is good.
LEMMA EndsGood ==
  ASSUME NEW f \in FileAccess, NEW how \in {"ackfinished", "finished", "error"}
  PROVE  Good(Ends(f, how))
BY DEF Good, Ends, Outcomes

\* A file is read from its beginning.
LEMMA ReadGood ==
  ASSUME NEW f \in FileAccess, NEW allowed \in BOOLEAN, AppSize \in Nat
  PROVE  Good(Read(f, allowed))
<1> DEFINE g == [f EXCEPT !.lastOffset = 0]
           h == [g EXCEPT !.readSize = AppSize]
           size == Least(AppSize, ReadBlock)
           i == [h EXCEPT !.packetNo = 1, !.fileOffset = size]
<1>1. size \in Nat /\ size = Least(AppSize, ReadBlock * 1)
      /\ (size = ReadBlock <=> ReadBlock * 1 <= AppSize)
  BY DEF Least
<1>2. g \in FileAccess /\ h \in FileAccess /\ i \in FileAccess
  BY <1>1 DEF FileAccess
<1>3. i.packetNo = 1 /\ i.lastOffset = 0 /\ i.fileOffset = size
      /\ i.readSize = AppSize
  BY DEF FileAccess
<1>4. Read(f, allowed) = IF ~allowed THEN Ends(g, "error")
                         ELSE IF AppSize = 0 THEN Ends(h, "error")
                         ELSE Sends(i, 0, size)
  BY DEF Read
<1> HIDE DEF g, h, i, size
<1>5. Sends(i, 0, size) \in Outcomes
  BY <1>1, <1>2 DEF Sends, Outcomes
<1>6. Good(Sends(i, 0, size))
  BY <1>1, <1>3, <1>5 DEF Good, Sends
<1> QED
  BY <1>2, <1>4, <1>6, EndsGood

\* A file is written from its beginning.
LEMMA WriteGood ==
  ASSUME NEW f \in FileAccess, NEW allowed \in BOOLEAN
  PROVE  Good(Write(f, allowed))
<1> DEFINE g == [f EXCEPT !.packetNo = 0]
           h == [g EXCEPT !.written = 0]
<1>1. g \in FileAccess /\ h \in FileAccess /\ h.packetNo = 0 /\ h.written = 0
  BY DEF FileAccess
<1>2. Write(f, allowed) = IF allowed THEN Ends(h, "ack") ELSE Ends(g, "error")
  BY DEF Write
<1> HIDE DEF g, h
<1>3. Good(Ends(h, "ack"))
  BY <1>1 DEF Good, Ends, Outcomes
<1> QED
  BY <1>1, <1>2, <1>3, EndsGood

\* A packet accepted keeps offset and number together.
LEMMA FoeDataGood ==
  ASSUME NEW f \in FileAccess, NEW c \in Chunk, NEW store,
         store.result \in {-1, 0, 1}, Agree(f), f.state = "WAIT_FOR_DATA"
  PROVE  Good(FoeData(f, c, store))
<1> DEFINE passed == f.passed \/ store.result = 1
           written == IF c.size = Block THEN f.written + c.size ELSE 0
           g == [f EXCEPT !.passed = passed, !.written = written]
<1>1. passed \in BOOLEAN
  BY Zenon
<1>2. c.size \in Nat /\ written \in Nat
  BY FileAccessFields DEF Chunk
<1> HIDE DEF passed, written
<1>3. g \in FileAccess /\ g.packetNo = f.packetNo /\ g.written = written
  BY <1>1, <1>2 DEF FileAccess
<1>4. c.size = Block => written = Block * f.packetNo
  BY FileAccessFields DEF Agree, written
<1>5. WriteData(f, c, store) = Ends(f, "error")
      \/ WriteData(f, c, store) = Ends(g, "ok")
  BY DEF WriteData, written, passed
<1> HIDE DEF g
<1>6. CASE WriteData(f, c, store) = Ends(f, "error")
  <2>1. FoeData(f, c, store) = Ends(f, "error")
    BY <1>6 DEF FoeData, Ends
  <2> QED
    BY <2>1, EndsGood
<1>7. CASE WriteData(f, c, store) = Ends(g, "ok")
  <2>1. FoeData(f, c, store)
          = Ends(g, IF c.size = Block THEN "ack" ELSE "ackfinished")
    BY <1>7 DEF FoeData, Ends
  <2>2. CASE c.size = Block
    BY <2>1, <2>2, <1>3, <1>4 DEF Good, Ends, Outcomes
  <2>3. CASE c.size # Block
    BY <2>1, <2>3, <1>3, EndsGood
  <2> QED
    BY <2>2, <2>3
<1> QED
  BY <1>5, <1>6, <1>7

\* The packet after one that was full.
LEMMA AcknowledgedGood ==
  ASSUME NEW f \in FileAccess, Agree(f), f.state = "WAIT_FOR_ACK"
  PROVE  Good(Acknowledged(f))
<1> DEFINE x == ReadBlock * f.packetNo
           size == ReadData(f, f.fileOffset)
           g == [f EXCEPT !.lastOffset = f.fileOffset,
                          !.fileOffset = @ + size, !.packetNo = @ + 1]
<1>1. f.fileOffset = x /\ x <= f.readSize /\ x \in Nat
  BY FileAccessFields DEF Agree, Least
<1>2. ReadBlock * (f.packetNo + 1) = x + ReadBlock
      /\ ReadBlock * (f.packetNo + 1 - 1) = x
  BY FileAccessFields
<1> HIDE DEF x
<1>3. /\ size \in Nat /\ x + size = Least(f.readSize, x + ReadBlock)
      /\ size = ReadBlock <=> x + ReadBlock <= f.readSize
  BY <1>1, FileAccessFields DEF ReadData, Least
<1> HIDE DEF size
<1>4. g \in FileAccess
  <2>1. f.fileOffset + size \in Nat /\ f.packetNo + 1 \in Nat /\ f.fileOffset \in Nat
    BY <1>3, FileAccessFields
  <2> QED
    BY <2>1 DEF FileAccess
<1>5. /\ g.packetNo = f.packetNo + 1 /\ g.lastOffset = x
      /\ g.fileOffset = x + size /\ g.readSize = f.readSize
  BY <1>1 DEF FileAccess
<1>6. Acknowledged(f) = Sends(g, f.fileOffset, size)
  BY DEF Acknowledged, size
<1> HIDE DEF g
<1>7. Acknowledged(f) \in Outcomes
  BY <1>3, <1>4, <1>6, FileAccessFields DEF Sends, Outcomes
<1>8. g.packetNo # 0 /\ x = ReadBlock * (g.packetNo - 1)
      /\ ReadBlock * g.packetNo = x + ReadBlock
  BY <1>2, <1>5, FileAccessFields
<1>9. /\ g.lastOffset = ReadBlock * (g.packetNo - 1)
      /\ g.fileOffset = Least(g.readSize, ReadBlock * g.packetNo)
      /\ size = ReadBlock <=> ReadBlock * g.packetNo <= g.readSize
  BY <1>3, <1>5, <1>8
<1> QED
  BY <1>6, <1>7, <1>8, <1>9 DEF Good, Sends

\* The packet sent last, once more.
LEMMA BusyGood ==
  ASSUME NEW f \in FileAccess, Agree(f),
         f.state \in {"WAIT_FOR_ACK", "WAIT_FOR_LAST_ACK"}
  PROVE  Good(Sends(f, f.lastOffset, ReadData(f, f.lastOffset)))
<1> DEFINE x == ReadBlock * (f.packetNo - 1)
           size == ReadData(f, f.lastOffset)
<1>1. f.packetNo # 0 /\ f.lastOffset = x /\ x \in Nat
      /\ f.fileOffset = Least(f.readSize, ReadBlock * f.packetNo)
  BY FileAccessFields DEF Agree
<1>2. ReadBlock * f.packetNo = x + ReadBlock
  BY <1>1, FileAccessFields
<1>3. size \in Nat /\ (size = ReadBlock <=> x + ReadBlock <= f.readSize)
  <2> HIDE DEF x
  <2> QED BY <1>1, FileAccessFields DEF ReadData, Least
<1> HIDE DEF size
<1>4. Sends(f, f.lastOffset, size) \in Outcomes
  BY <1>3, FileAccessFields DEF Sends, Outcomes
<1> QED
  BY <1>1, <1>2, <1>3, <1>4 DEF Good, Sends, size

\* Every service ends in something good.
LEMMA HandledGood ==
  ASSUME NEW f \in FileAccess, Agree(f), NEW r \in Requests, NEW store,
         store.result \in {-1, 0, 1}, AppSize \in Nat
  PROVE  Good(Handled(f, r, store))
<1>1. r.allowed \in BOOLEAN /\ r.chunk \in Chunk
  BY DEF Requests
<1>2. CASE r.op = "RRQ" /\ f.state = "READY"
  BY <1>1, <1>2, ReadGood DEF Handled
<1>3. CASE r.op = "WRQ" /\ f.state = "READY"
  BY <1>1, <1>3, WriteGood DEF Handled
<1>4. CASE r.op = "DATA" /\ f.state = "WAIT_FOR_DATA" /\ r.chunk.no = f.packetNo
  BY <1>1, <1>4, FoeDataGood DEF Handled
<1>5. CASE r.op = "ACK" /\ f.state = "WAIT_FOR_ACK"
  BY <1>5, AcknowledgedGood DEF Handled
<1>6. CASE r.op = "ACK" /\ f.state = "WAIT_FOR_LAST_ACK"
  BY <1>6, EndsGood DEF Handled
<1>7. CASE r.op = "ERR" /\ f.state # "READY"
  BY <1>7, EndsGood DEF Handled
<1>8. CASE r.op = "BUSY" /\ f.state \in {"WAIT_FOR_ACK", "WAIT_FOR_LAST_ACK"}
  BY <1>8, BusyGood DEF Handled
<1>9. CASE ~ \/ r.op = "RRQ" /\ f.state = "READY"
             \/ r.op = "WRQ" /\ f.state = "READY"
             \/ r.op = "DATA" /\ f.state = "WAIT_FOR_DATA" /\ r.chunk.no = f.packetNo
             \/ r.op = "ACK" /\ f.state \in {"WAIT_FOR_ACK", "WAIT_FOR_LAST_ACK"}
             \/ r.op = "ERR" /\ f.state # "READY"
             \/ r.op = "BUSY" /\ f.state \in {"WAIT_FOR_ACK", "WAIT_FOR_LAST_ACK"}
  <2>1. Handled(f, r, store) = Ends(f, "error")
    BY <1>9 DEF Handled
  <2> QED
    BY <2>1, EndsGood
<1> QED
  BY <1>2, <1>3, <1>4, <1>5, <1>6, <1>7, <1>8, <1>9

\* After something good, the file access is typed and in step.
LEMMA LeftGood ==
  ASSUME NEW h, Good(h)
  PROVE  Left(h) \in FileAccess /\ Agree(Left(h))
<1>1. h.foe \in FileAccess /\ h.ends \in {"data", "ack", "ackfinished", "finished", "error"}
  BY DEF Good, Outcomes
<1>2. CASE h.ends = "data"
  <2> DEFINE st == IF h.size = ReadBlock THEN "WAIT_FOR_ACK" ELSE "WAIT_FOR_LAST_ACK"
             g == [h.foe EXCEPT !.state = st]
  <2>1. Left(h) = g
    BY <1>2 DEF Left
  <2>2. g \in FileAccess /\ g.state = st /\ g.packetNo = h.foe.packetNo
        /\ g.lastOffset = h.foe.lastOffset /\ g.fileOffset = h.foe.fileOffset
        /\ g.readSize = h.foe.readSize
    BY <1>1 DEF FileAccess, States
  <2> HIDE DEF g
  <2> QED
    BY <1>2, <2>1, <2>2 DEF Good, Agree
<1>3. CASE h.ends = "ack"
  <2> DEFINE n == h.foe.packetNo + 1
             g == [h.foe EXCEPT !.state = "WAIT_FOR_DATA", !.packetNo = @ + 1]
  <2>1. Left(h) = g
    BY <1>3 DEF Left
  <2>2. n \in Nat /\ n # 0 /\ n - 1 = h.foe.packetNo
    BY <1>1, FileAccessFields
  <2>3. g \in FileAccess /\ g.state = "WAIT_FOR_DATA" /\ g.packetNo = n
        /\ g.written = h.foe.written
    BY <1>1, <2>2 DEF FileAccess, States
  <2> HIDE DEF g, n
  <2> QED
    BY <1>3, <2>1, <2>2, <2>3 DEF Good, Agree
<1>4. CASE h.ends = "ackfinished"
  <2> DEFINE g == [h.foe EXCEPT !.state = "READY", !.packetNo = @ + 1]
  <2>1. h.foe.packetNo + 1 \in Nat
    BY <1>1, FileAccessFields
  <2>2. Left(h) = g /\ g \in FileAccess /\ g.state = "READY"
    BY <1>1, <1>4, <2>1 DEF Left, FileAccess, States
  <2> QED
    BY <2>2 DEF Agree
<1>5. CASE h.ends \in {"finished", "error"}
  <2> DEFINE g == [h.foe EXCEPT !.state = "READY"]
  <2>1. Left(h) = g /\ g \in FileAccess /\ g.state = "READY"
    BY <1>1, <1>5 DEF Left, FileAccess, States
  <2> QED
    BY <2>1 DEF Agree
<1> QED
  BY <1>1, <1>2, <1>3, <1>4, <1>5

\* Answers are answers.
LEMMA ReplyType ==
  ASSUME NEW h \in Outcomes
  PROVE  Reply(h) \in Seq(Answers)
<1>1. h.foe.packetNo \in Nat /\ h.offset \in Nat /\ h.size \in Nat
  BY FileAccessFields DEF Outcomes
<1>2. [op |-> "DATA", no |-> h.foe.packetNo, offset |-> h.offset,
       size |-> h.size] \in Answers
  BY <1>1 DEF Answers
<1>3. Answer("ACK", h.foe.packetNo) \in Answers /\ Answer("ERR", 0) \in Answers
  BY <1>1 DEF Answers, Answer
<1> QED
  BY <1>2, <1>3 DEF Reply

-----------------------------------------------------------------------------
(* The OTA library.                                                        *)

Stored == [ota : Otas, image : Seq(Chunk), result : {-1, 0, 1}]

\* Whatever the library does with a chunk, what is in flash is chunks.
LEMMA StoreType ==
  ASSUME NEW c \in Chunk, NEW fresh \in BOOLEAN, NEW broken \in BOOLEAN,
         flash \in Flashes, ota \in Otas
  PROVE  StoreData(c, fresh, broken) \in Stored
<1> DEFINE begins   == fresh \/ ~ota.busy
           image    == IF begins THEN <<c>> ELSE Append(flash[Target], c)
           position == c.size + IF begins THEN 0 ELSE ota.position
<1>1. flash[Target] \in Seq(Chunk)
  BY DEF Flashes, Target, Slots, HPM_APP1, HPM_APP2
<1>2. image \in Seq(Chunk) /\ position \in Nat /\ OtaIdle \in Otas
  <2>1. c.size \in Nat /\ ota.position \in Nat /\ OtaIdle \in Otas
    BY DEF Chunk, Otas, OtaIdle
  <2>2. <<c>> \in Seq(Chunk) /\ Append(flash[Target], c) \in Seq(Chunk)
    BY <1>1
  <2> HIDE DEF begins
  <2> QED
    BY <2>1, <2>2
<1>3. [busy |-> TRUE, position |-> position] \in Otas
  BY <1>2 DEF Otas
<1>4. AutoWrite(c, fresh, broken)
      = IF broken \/ (begins /\ c.no # 1)
        THEN [ota |-> OtaIdle, image |-> flash[Target], result |-> -1]
        ELSE IF position < Size[image[1].file]
        THEN [ota |-> [busy |-> TRUE, position |-> position], image |-> image,
              result |-> 0]
        ELSE [ota |-> OtaIdle, image |-> image,
              result |-> IF image = Package[image[1].file] THEN 1 ELSE -1]
  BY DEF AutoWrite
<1> HIDE DEF begins, image, position
<1>5. AutoWrite(c, fresh, broken) \in Stored
  <2>1. [ota |-> OtaIdle, image |-> flash[Target], result |-> -1] \in Stored
    BY <1>1, <1>2 DEF Stored
  <2>2. [ota |-> [busy |-> TRUE, position |-> position], image |-> image,
         result |-> 0] \in Stored
    BY <1>2, <1>3 DEF Stored
  <2>3. \A x \in {1, -1} : [ota |-> OtaIdle, image |-> image, result |-> x] \in Stored
    BY <1>2 DEF Stored
  <2> QED
    BY <1>4, <2>1, <2>2, <2>3, Zenon
<1> QED
  BY <1>1, <1>5 DEF StoreData, Stored

-----------------------------------------------------------------------------
(* The inductive invariant: the slot that runs holds a whole package, for  *)
(* an update writes to the other one only.                                 *)

RunsWhole == Whole(flash[running]) /\ flash[running][1].no = 1
IInv == TypeOK /\ InStep /\ RunsWhole

\* A master without a job, and one that begins one.
LEMMA JobType ==
  ASSUME NEW job \in {"none", "download", "upload"}, NEW f \in Files
  PROVE  Job(job, f) \in Masters
BY DEF Job, Masters

\* The services a master sends.
LEMMA ServiceType ==
  ASSUME Files # {}, NEW op \in {"RRQ", "WRQ", "DATA", "ACK", "ERR", "BUSY", "other"}
  PROVE  /\ Service(op) \in Requests /\ Refused(op) \in Requests
         /\ \A c \in Chunk : op = "DATA" => Data(c) \in Requests
<1>1. NoChunk \in Chunk
  BY DEF NoChunk, Chunk
<1>2. Service(op) \in Requests
  BY <1>1 DEF Service, Requests
<1>3. Refused(op) \in Requests
  BY <1>2 DEF Refused, Requests
<1>4. Service("DATA") \in Requests
  BY <1>1 DEF Service, Requests
<1>5. \A c \in Chunk : Data(c) \in Requests
  BY <1>4 DEF Data, Requests
<1> QED
  BY <1>2, <1>3, <1>5

\* The device starts a whole package.
LEMMA InitInv ==
  ASSUME Files \subseteq Hashed, Init
  PROVE  IInv
<1>1. flash \in Flashes
  <2>1. \A f \in Shipped : Package[f] \in Seq(Chunk)
    BY PackageType, DownloadAssumption
  <2>2. {<<>>} \cup {Package[f] : f \in Shipped} \subseteq Seq(Chunk)
    <3>1. <<>> \in Seq(Chunk)
      OBVIOUS
    <3> QED
      BY <2>1, <3>1, Zenon
  <2>3. flash \in [Slots -> {<<>>} \cup {Package[f] : f \in Shipped}]
    BY DEF Init
  <2> QED
    BY <2>2, <2>3 DEF Flashes
<1>2. running \in Slots /\ RunsWhole
  BY <1>1, StartedIsWhole DEF Init, RunsWhole
<1>3. Files # {} /\ NoChunk.file \in Files
  <2>1. flash[running][1].file \in Files
    BY <1>1, <1>2, FirstChunk DEF RunsWhole, Whole
  <2> QED
    BY <2>1 DEF NoChunk
<1>4. master \in Masters
  BY <1>3, JobType DEF Init
<1>5. foe \in FileAccess /\ ota \in Otas
  BY DEF Init, FoeAtReset, FileAccess, States, OtaIdle, Otas
<1>6. request \in Seq(Requests) /\ answer \in Seq(Answers)
      /\ mailbox \in {"on", "off"} /\ faults \in 0 .. MaxFaults
  BY DEF Init
<1>7. TypeOK
  BY <1>1, <1>2, <1>4, <1>5, <1>6 DEF TypeOK, Flashes
<1>8. InStep
  <2>1. foe.state = "READY"
    BY DEF Init, FoeAtReset
  <2> QED
    BY <2>1 DEF InStep, Agree
<1> QED
  BY <1>2, <1>7, <1>8 DEF IInv

\* What is sent is put behind what is under way.
LEMMA AppendType ==
  ASSUME NEW S, NEW s \in Seq(S), NEW x \in S
  PROVE  Append(s, x) \in Seq(S)
OBVIOUS

\* While it holds: files there are, the running one has a length.
LEMMA Facts ==
  ASSUME IInv
  PROVE  /\ flash \in Flashes /\ Files # {} /\ master.file \in Files
         /\ AppSize \in Nat /\ flash[running][1].file \in Files
         /\ Boots(running) = flash[running][1].file
<1>1. flash \in Flashes /\ running \in Slots /\ running # None
  BY DEF IInv, TypeOK, Flashes, Slots, HPM_APP1, HPM_APP2, None
<1>2. flash[running][1].file \in Files /\ Size[flash[running][1].file] \in Nat
  BY <1>1, FirstChunk DEF IInv, RunsWhole, Whole
<1>3. AppSize \in Nat
  BY <1>2 DEF AppSize
<1>4. master.file \in Files
  BY DEF IInv, TypeOK, Masters
<1>5. Boots(running) = flash[running][1].file
  BY <1>1 DEF IInv, RunsWhole, Whole, Boots
<1> QED
  BY <1>1, <1>2, <1>3, <1>4, <1>5

\* The boot loader finds something to start, no older than what runs.
LEMMA Starts ==
  ASSUME Files \subseteq Hashed, IInv
  PROVE  LET t == SelectJumpApp(flash)
         IN  /\ t \in Slots /\ Whole(flash[t]) /\ flash[t][1].no = 1
             /\ Version[flash[t][1].file] >= Version[flash[running][1].file]
BY Facts, BootSafe DEF IInv, TypeOK, RunsWhole

\* Faults are counted.
LEMMA FaultsType ==
  ASSUME TypeOK, NEW fault \in BOOLEAN, Blames(fault)
  PROVE  faults' \in 0 .. MaxFaults
BY DEF TypeOK, Blames

\* A restart
LEMMA RestartInv ==
  ASSUME Files \subseteq Hashed, IInv, Restart, faults' \in 0 .. MaxFaults
  PROVE  IInv'
<1>1. running' \in Slots /\ Whole(flash'[running']) /\ flash'[running'][1].no = 1
  BY Starts DEF Restart
<1>2. master' \in Masters
  BY Facts, JobType DEF Restart, NoJob
<1>3. foe' \in FileAccess /\ ota' \in Otas /\ foe'.state = "READY"
  BY DEF Restart, FoeAtReset, FileAccess, States, OtaIdle, Otas
<1>4. TypeOK'
  BY <1>1, <1>2, <1>3 DEF Restart, TypeOK, IInv
<1>5. InStep'
  BY <1>3 DEF InStep, Agree
<1> QED
  BY <1>1, <1>4, <1>5 DEF IInv, RunsWhole

\* One request served
LEMMA ServiceInv ==
  ASSUME IInv, NEW fresh \in BOOLEAN, NEW broken \in BOOLEAN,
         ServiceInd(fresh, broken)
  PROVE  IInv' /\ running' = running /\ flash'[running] = flash[running]
<1> DEFINE r     == Head(request)
           store == StoreData(r.chunk, fresh, broken)
           h     == Handled(foe, r, store)
<1>1. r \in Requests /\ Tail(request) \in Seq(Requests) /\ r.chunk \in Chunk
  <2>1. request \in Seq(Requests) /\ request # <<>>
    BY DEF IInv, TypeOK, ServiceInd
  <2>2. r \in Requests /\ Tail(request) \in Seq(Requests)
    BY <2>1
  <2> QED
    BY <2>2 DEF Requests
<1>2. store \in Stored
  BY <1>1, Facts, StoreType DEF IInv, TypeOK
<1>3. store.ota \in Otas /\ store.image \in Seq(Chunk) /\ store.result \in {-1, 0, 1}
  BY <1>2 DEF Stored
<1>4. /\ request' = Tail(request) /\ foe' = Left(h) /\ answer' = answer \o Reply(h)
      /\ \/ ota' = store.ota /\ flash' = [flash EXCEPT ![Target] = store.image]
         \/ UNCHANGED <<ota, flash>>
      /\ Blames(broken) /\ UNCHANGED <<mailbox, running, master>>
  BY DEF ServiceInd
<1> HIDE DEF r, store
<1>5. Good(h)
  BY <1>1, <1>3, Facts, HandledGood DEF IInv, TypeOK, InStep
<1> HIDE DEF h
<1>6. foe' \in FileAccess /\ Agree(foe')
  BY <1>4, <1>5, LeftGood
<1>7. answer' \in Seq(Answers)
  <2>1. Reply(h) \in Seq(Answers)
    BY <1>5, ReplyType DEF Good
  <2> QED
    BY <1>4, <2>1 DEF IInv, TypeOK
<1>8. ota' \in Otas /\ flash' \in [Slots -> Seq(Chunk)]
  BY <1>3, <1>4 DEF IInv, TypeOK
<1>9. flash'[running] = flash[running]
  <2>1. Target # running /\ running \in Slots
    BY DEF Target, HPM_APP1, HPM_APP2, IInv, TypeOK, Slots
  <2> QED
    BY <1>4, <2>1 DEF IInv, TypeOK
<1>10. faults' \in 0 .. MaxFaults
  BY <1>4, FaultsType DEF IInv
<1>11. TypeOK'
  BY <1>1, <1>4, <1>6, <1>7, <1>8, <1>10 DEF IInv, TypeOK
<1> QED
  BY <1>4, <1>6, <1>9, <1>11 DEF IInv, InStep, RunsWhole

\* What leaves the file service, the flash and the slot alone.
LEMMA OthersInv ==
  ASSUME IInv, UNCHANGED <<foe, ota, flash, running>>,
         mailbox' \in {"on", "off"}, request' \in Seq(Requests),
         answer' \in Seq(Answers), master' \in Masters, faults' \in 0 .. MaxFaults
  PROVE  IInv'
BY DEF IInv, TypeOK, InStep, RunsWhole

\* The master begins a transfer.
LEMMA StartInv ==
  ASSUME IInv, NEW job \in {"download", "upload"}, NEW f \in Files,
         NEW op \in {"WRQ", "RRQ"},
         master' = Job(job, f), request' = Append(request, Service(op)),
         Blames(~Quiet), UNCHANGED <<foe, mailbox, answer, ota, flash, running>>
  PROVE  IInv'
<1>1. master' \in Masters
  BY JobType
<1>2. request' \in Seq(Requests)
  BY Facts, ServiceType DEF IInv, TypeOK
<1>3. faults' \in 0 .. MaxFaults
  BY FaultsType DEF IInv
<1> QED
  BY <1>1, <1>2, <1>3, OthersInv DEF IInv, TypeOK

\* The master goes on with a transfer.
LEMMA ProceedType ==
  ASSUME IInv, NEW a \in Answers, Proceed(a)
  PROVE  master' \in Masters /\ request' \in Seq(Requests)
<1> DEFINE taken == [master EXCEPT !.no = a.no,
                       !.got = Append(@, [offset |-> a.offset, size |-> a.size])]
           next  == master.no + 1
<1>1. master \in Masters /\ request \in Seq(Requests) /\ master.no \in Nat
  BY DEF IInv, TypeOK, Masters
<1>2. taken \in Masters /\ [taken EXCEPT !.job = "uploaded"] \in Masters
  <2>1. a.no \in Nat /\ [offset |-> a.offset, size |-> a.size] \in [offset : Nat, size : Nat]
    BY DEF Answers
  <2>2. master.got \in Seq([offset : Nat, size : Nat])
    BY <1>1 DEF Masters
  <2>3. Append(master.got, [offset |-> a.offset, size |-> a.size])
          \in Seq([offset : Nat, size : Nat])
    BY <2>1, <2>2
  <2> QED
    BY <1>1, <2>1, <2>3 DEF Masters
<1> HIDE DEF taken
<1>3. Service("ACK") \in Requests
  BY Facts, ServiceType
<1>4. CASE master' = [master EXCEPT !.job = "downloaded"] /\ UNCHANGED request
  BY <1>1, <1>4 DEF Masters
<1>5. CASE /\ master.no < Packets(master.file)
           /\ Sends1([master EXCEPT !.no = next], Data(Packet(master.file, next)))
  <2>1. master.file \in Files /\ Packets(master.file) \in Nat
    BY Facts DEF Packets
  <2>2. next \in 1 .. Packets(master.file)
    <3> HIDE DEF Packets
    <3> QED
      BY <1>1, <1>5, <2>1
  <2>3. Data(Packet(master.file, next)) \in Requests
    <3>1. Packet(master.file, next) \in Chunk
      BY <2>1, <2>2, SentType
    <3> QED
      BY <3>1, Facts, ServiceType
  <2>4. [master EXCEPT !.no = next] \in Masters
    <3>1. next \in Nat
      BY <1>1
    <3> QED
      BY <1>1, <3>1 DEF Masters
  <2> QED
    BY <1>1, <1>5, <2>3, <2>4 DEF Sends1
<1>6. CASE Sends1(taken, Service("ACK"))
  BY <1>1, <1>2, <1>3, <1>6 DEF Sends1
<1>7. CASE Sends1([taken EXCEPT !.job = "uploaded"], Service("ACK"))
  BY <1>1, <1>2, <1>3, <1>7 DEF Sends1
<1> QED
  BY <1>4, <1>5, <1>6, <1>7 DEF Proceed, taken

\* The master takes an answer.
LEMMA TakeAnswerInv ==
  ASSUME IInv, TakeAnswer
  PROVE  IInv'
<1> DEFINE a == Head(answer)
<1>1. a \in Answers /\ Tail(answer) \in Seq(Answers)
  BY DEF IInv, TypeOK, TakeAnswer
<1>2. NoJob \in Masters /\ Service("ERR") \in Requests
  <2>1. NoJob \in Masters
    BY Facts, JobType DEF NoJob
  <2>2. Service("ERR") \in Requests
    BY Facts, ServiceType
  <2> QED
    BY <2>1, <2>2
<1>3. answer' = Tail(answer) /\ UNCHANGED <<foe, mailbox, ota, flash, running, faults>>
      /\ \/ Proceed(a)
         \/ UNCHANGED <<master, request>>
         \/ master' = NoJob /\ UNCHANGED request
         \/ Sends1(NoJob, Service("ERR"))
  BY DEF TakeAnswer
<1> HIDE DEF a
<1>4. master' \in Masters /\ request' \in Seq(Requests)
  <2>1. CASE Proceed(a)
    BY <1>1, <2>1, ProceedType
  <2>2. CASE UNCHANGED <<master, request>>
    BY <2>2 DEF IInv, TypeOK
  <2>3. CASE master' = NoJob /\ UNCHANGED request
    BY <1>2, <2>3 DEF IInv, TypeOK
  <2>4. CASE Sends1(NoJob, Service("ERR"))
    BY <2>4, <1>2, AppendType DEF IInv, TypeOK, Sends1
  <2> QED
    BY <1>3, <2>1, <2>2, <2>3, <2>4
<1> QED
  BY <1>1, <1>3, <1>4, OthersInv DEF IInv, TypeOK

\* The master gives up.
LEMMA GiveUpInv ==
  ASSUME IInv, GiveUp
  PROVE  IInv'
<1>1. NoJob \in Masters /\ Service("ERR") \in Requests
  BY Facts, JobType, ServiceType DEF NoJob
<1>2. request' \in Seq(Requests) /\ master' \in Masters
  <2>1. request \in Seq(Requests)
    BY DEF IInv, TypeOK
  <2>2. Append(request, Service("ERR")) \in Seq(Requests)
    BY <1>1, <2>1, AppendType
  <2>3. master' = NoJob /\ request' \in {request, Append(request, Service("ERR"))}
    BY DEF GiveUp
  <2> QED
    BY <1>1, <2>1, <2>2, <2>3
<1>3. faults' \in 0 .. MaxFaults
  BY FaultsType DEF IInv, GiveUp
<1> QED
  BY <1>2, <1>3, OthersInv DEF GiveUp, IInv, TypeOK

\* A service out of turn
LEMMA StrayInv ==
  ASSUME IInv, Stray
  PROVE  IInv'
<1>1. \A op \in {"ACK", "ERR", "BUSY", "other", "WRQ", "RRQ"} :
        Service(op) \in Requests /\ Refused(op) \in Requests
  BY Facts, ServiceType
<1>2. ASSUME NEW n \in 1 .. Packets(master.file)
      PROVE  /\ Data(Packet(master.file, n)) \in Requests
             /\ Data([Packet(master.file, n) EXCEPT !.size = Block]) \in Requests
  <2>1. Packet(master.file, n) \in Chunk
    BY Facts, SentType
  <2>2. [Packet(master.file, n) EXCEPT !.size = Block] \in Chunk
    <3>1. Block \in 0 .. Block
      OBVIOUS
    <3> QED
      BY <2>1, <3>1 DEF Chunk
  <2> QED
    BY <2>1, <2>2, Facts, ServiceType
<1>3. \A r \in Strays : r \in Requests
  BY <1>1, <1>2 DEF Strays
<1>4. request' \in Seq(Requests)
  BY <1>3 DEF Stray, IInv, TypeOK
<1>5. faults' \in 0 .. MaxFaults
  BY FaultsType DEF IInv, Stray
<1> QED
  BY <1>4, <1>5, OthersInv DEF Stray, IInv, TypeOK

\* Bootstrap is left.
LEMMA LeaveBootInv ==
  ASSUME IInv, LeaveBoot
  PROVE  IInv'
<1>1. foe' \in FileAccess /\ foe'.state = "READY"
  BY DEF IInv, TypeOK, LeaveBoot, FoeInit, FileAccess, States
<1>2. master' \in Masters
  BY Facts, JobType DEF IInv, TypeOK, LeaveBoot, NoJob
<1>3. faults' \in 0 .. MaxFaults
  BY FaultsType DEF IInv, LeaveBoot
<1>4. request' = <<>> /\ answer' = <<>> /\ mailbox' = "off"
      /\ UNCHANGED <<ota, flash, running>>
  BY DEF LeaveBoot
<1>5. TypeOK'
  BY <1>1, <1>2, <1>3, <1>4 DEF IInv, TypeOK
<1>6. InStep'
  BY <1>1 DEF InStep, Agree
<1> QED
  BY <1>4, <1>5, <1>6 DEF IInv, RunsWhole

\* What a step does to the abstract state: nothing, a restart, or what is in
\* the slot that does not run.
Effect ==
  \/ Restart
  \/ running' = running /\ flash'[running] = flash[running]

\* Every step keeps the invariant.
LEMMA StepInv ==
  ASSUME Files \subseteq Hashed, IInv, [Next]_vars
  PROVE  IInv' /\ (Effect \/ UNCHANGED <<flash, running>>)
<1>1. CASE Poll
  <2>1. PICK fresh \in BOOLEAN, broken \in BOOLEAN : ServiceInd(fresh, broken)
    BY <1>1 DEF Poll, FoeResetRequest
  <2> QED
    BY <2>1, ServiceInv DEF Effect
<1>2. CASE EnterBoot
  BY <1>2, OthersInv DEF EnterBoot, IInv, TypeOK
<1>3. CASE LeaveBoot
  BY <1>3, LeaveBootInv DEF LeaveBoot
<1>4. CASE PowerLoss
  <2>1. faults' \in 0 .. MaxFaults
    BY <1>4, FaultsType DEF PowerLoss, IInv
  <2> QED
    BY <1>4, <2>1, RestartInv DEF PowerLoss, Effect
<1>5. ASSUME NEW f \in Downloads, StartDownload(f)
      PROVE  IInv' /\ UNCHANGED <<flash, running>>
  <2>1. f \in Files
    BY DownloadAssumption
  <2> QED
    BY <1>5, <2>1, StartInv DEF StartDownload
<1>6. CASE StartUpload
  BY <1>6, StartInv, Facts DEF StartUpload
<1>7. CASE TakeAnswer
  BY <1>7, TakeAnswerInv DEF TakeAnswer
<1>8. CASE GiveUp
  BY <1>8, GiveUpInv DEF GiveUp
<1>9. CASE Stray
  BY <1>9, StrayInv DEF Stray
<1>10. CASE UNCHANGED vars
  BY <1>10 DEF vars, IInv, TypeOK, InStep, RunsWhole
<1> QED
  BY <1>1, <1>2, <1>3, <1>4, <1>5, <1>6, <1>7, <1>8, <1>9, <1>10 DEF Next

\* The inductive invariant holds.
LEMMA Invariance ==
  ASSUME Files \subseteq Hashed
  PROVE  Spec => []IInv
<1>1. Init => IInv
  BY InitInv
<1>2. IInv /\ [Next]_vars => IInv'
  BY StepInv
<1> QED
  BY <1>1, <1>2, PTL DEF Spec

\* Whatever arrives in whatever order, the variables keep their types.
THEOREM TypeCorrect ==
  ASSUME Files \subseteq Hashed
  PROVE  Spec => []TypeOK
<1>1. IInv => TypeOK
  BY DEF IInv
<1> QED
  BY <1>1, Invariance, PTL

\* Packet numbers and offsets agree, whatever transfer was aborted before.
THEOREM InStepCorrect ==
  ASSUME Files \subseteq Hashed
  PROVE  Spec => []InStep
<1>1. IInv => InStep
  BY DEF IInv
<1> QED
  BY <1>1, Invariance, PTL

-----------------------------------------------------------------------------
(* The update is atomic.                                                   *)

AbstractVars == <<Boots(SelectJumpApp(flash)), Boots(running)>>

\* What the boot loader would start next, as the abstract update sees it.
LEMMA NextPackage ==
  ASSUME Files \subseteq Hashed, IInv
  PROVE  LET p == Boots(SelectJumpApp(flash))
         IN  /\ p = flash[SelectJumpApp(flash)][1].file /\ p \in Files
             /\ Version[p] >= Version[Boots(running)]
<1> DEFINE t == SelectJumpApp(flash)
<1>1. /\ t \in Slots /\ Whole(flash[t])
      /\ Version[flash[t][1].file] >= Version[flash[running][1].file]
  BY Starts
<1> HIDE DEF t
<1>2. t # None /\ Boots(t) = flash[t][1].file
  BY <1>1 DEF Slots, HPM_APP1, HPM_APP2, None, Whole, Boots
<1>3. flash[t][1].file \in Files
  BY <1>1, Facts, FirstChunk DEF Whole
<1> QED
  BY <1>1, <1>2, <1>3, Facts DEF t

NextFits ==
  LET p == Boots(SelectJumpApp(flash))
  IN  p \in Files /\ Version[p] >= Version[Boots(running)]

\* The supply may fail at any time in a download, after any abort: the device
\* starts a whole package again, never an older one than it ran.
THEOREM AtomicUpdateImplemented ==
  ASSUME Files \subseteq Hashed
  PROVE  Spec => ImplementsAtomicUpdate
<1>1. Init => Abstract!Init
  <2> SUFFICES ASSUME Init PROVE Abstract!Init
    OBVIOUS
  <2>1. IInv
    BY InitInv
  <2>2. running = SelectJumpApp(flash)
    BY DEF Init
  <2> QED
    BY <2>1, <2>2, NextPackage DEF Abstract!Init
<1>2. IInv => NextFits
  BY NextPackage DEF NextFits
<1>3. IInv' => NextFits'
  BY <1>2, PTL
<1>4. IInv /\ IInv' /\ [Next]_vars =>
        [Abstract!Replace \/ Abstract!Restart]_AbstractVars
  <2> SUFFICES ASSUME IInv, IInv', [Next]_vars
               PROVE  [Abstract!Replace \/ Abstract!Restart]_AbstractVars
    OBVIOUS
  <2>1. CASE Restart
    <3>1. running' = SelectJumpApp(flash) /\ flash' = flash
      BY <2>1 DEF Restart
    <3>2. Boots(running)' = Boots(SelectJumpApp(flash))
          /\ Boots(SelectJumpApp(flash))' = Boots(SelectJumpApp(flash))
      BY <3>1 DEF Boots
    <3> QED
      BY <3>2 DEF Abstract!Restart
  <2>2. CASE running' = running /\ flash'[running] = flash[running]
    <3>1. Boots(running)' = Boots(running)
      BY <2>2 DEF Boots
    <3> QED
      BY <1>3, <3>1 DEF NextFits, Abstract!Replace
  <2>3. CASE UNCHANGED <<flash, running>>
    BY <2>3 DEF AbstractVars, Boots
  <2> QED
    BY <2>1, <2>2, <2>3, StepInv DEF Effect
<1> QED
  BY <1>1, <1>4, Invariance, PTL
     DEF Spec, ImplementsAtomicUpdate, Abstract!Spec, AbstractVars

-----------------------------------------------------------------------------
(* An upload is the running package.  Each answer with data carries the    *)
(* piece its number says, so what the master has taken so far is the       *)
(* beginning of the file, whatever was repeated or sent out of turn.       *)

Piece(s, n) ==
  [offset |-> ReadBlock * (n - 1), size |-> Least(ReadBlock, s - ReadBlock * (n - 1))]

\* The file being read has length s.
ReadsOn(s, f) ==
  f.state \in {"WAIT_FOR_ACK", "WAIT_FOR_LAST_ACK"} =>
    f.readSize = s /\ f.lastOffset <= s

Carries(s, a) ==
  a.op = "DATA" =>
    /\ a.no # 0 /\ ReadBlock * (a.no - 1) <= s
    /\ [offset |-> a.offset, size |-> a.size] = Piece(s, a.no)
AllCarry(s, q) == \A i \in 1 .. Len(q) : Carries(s, q[i])

GotUpTo(s, m, k) == Len(m.got) = k /\ \A n \in 1 .. k : m.got[n] = Piece(s, n)

\* All pieces but the last are full.
Uploads(s, m) ==
  /\ m.job = "upload" => ReadBlock * m.no <= s /\ GotUpTo(s, m, m.no)
  /\ m.job = "uploaded" =>
       /\ m.no # 0 /\ ReadBlock * (m.no - 1) <= s /\ s < ReadBlock * m.no
       /\ GotUpTo(s, m, m.no)

UploadInv ==
  /\ IInv /\ ReadsOn(AppSize, foe) /\ Uploads(AppSize, master)
  /\ AllCarry(AppSize, answer)

\* What a service that sends data ends in.
SendsPiece(s, h) ==
  h.ends = "data" =>
    /\ h.foe.readSize = s /\ h.foe.lastOffset <= s
    /\ h.foe.packetNo # 0 /\ h.offset = ReadBlock * (h.foe.packetNo - 1)
    /\ h.offset <= s /\ h.size = Least(ReadBlock, s - h.offset)

LEMMA EndsSendsNothing ==
  ASSUME NEW s, NEW f, NEW how \in {"ack", "ackfinished", "finished", "error"}
  PROVE  SendsPiece(s, Ends(f, how))
BY DEF SendsPiece, Ends

LEMMA ReadSendsPiece ==
  ASSUME NEW f \in FileAccess, NEW allowed \in BOOLEAN, AppSize \in Nat
  PROVE  SendsPiece(AppSize, Read(f, allowed))
<1> DEFINE g == [f EXCEPT !.lastOffset = 0]
           h == [g EXCEPT !.readSize = AppSize]
           size == Least(AppSize, ReadBlock)
           i == [h EXCEPT !.packetNo = 1, !.fileOffset = size]
<1>1. i.packetNo = 1 /\ i.lastOffset = 0 /\ i.readSize = AppSize
  BY DEF FileAccess
<1>2. size = Least(ReadBlock, AppSize - 0) /\ ReadBlock * (1 - 1) = 0
  BY DEF Least
<1>3. Read(f, allowed) = IF ~allowed THEN Ends(g, "error")
                         ELSE IF AppSize = 0 THEN Ends(h, "error")
                         ELSE Sends(i, 0, size)
  BY DEF Read
<1> HIDE DEF g, h, i, size
<1>4. SendsPiece(AppSize, Sends(i, 0, size))
  BY <1>1, <1>2 DEF SendsPiece, Sends
<1> QED
  BY <1>3, <1>4, EndsSendsNothing

LEMMA AcknowledgedSendsPiece ==
  ASSUME NEW f \in FileAccess, Agree(f), ReadsOn(AppSize, f), f.state = "WAIT_FOR_ACK",
         AppSize \in Nat
  PROVE  SendsPiece(AppSize, Acknowledged(f))
<1> DEFINE x == ReadBlock * f.packetNo
           n == f.packetNo + 1
           size == ReadData(f, f.fileOffset)
           g == [f EXCEPT !.lastOffset = f.fileOffset,
                          !.fileOffset = @ + size, !.packetNo = @ + 1]
<1>1. /\ f.fileOffset = x /\ x <= f.readSize /\ x \in Nat
      /\ f.readSize = AppSize
  BY FileAccessFields DEF Agree, Least, ReadsOn
<1>2. ReadBlock * (n - 1) = x /\ n # 0
  BY FileAccessFields
<1> HIDE DEF x
<1>3. size = Least(ReadBlock, AppSize - x)
  BY <1>1, FileAccessFields DEF ReadData, Least
<1> HIDE DEF size
<1>4. /\ g.packetNo = n /\ g.lastOffset = x
      /\ g.readSize = f.readSize
  BY <1>1 DEF FileAccess
<1>5. Acknowledged(f) = Sends(g, x, size)
  BY <1>1 DEF Acknowledged, size
<1> HIDE DEF g, n
<1>6. g.packetNo # 0 /\ x = ReadBlock * (g.packetNo - 1)
  BY <1>2, <1>4
<1>7. Sends(g, x, size).foe = g /\ Sends(g, x, size).offset = x
      /\ Sends(g, x, size).size = size
  BY DEF Sends
<1> QED
  BY <1>1, <1>3, <1>4, <1>5, <1>6, <1>7 DEF SendsPiece

LEMMA BusySendsPiece ==
  ASSUME NEW f \in FileAccess, Agree(f), ReadsOn(AppSize, f),
         f.state \in {"WAIT_FOR_ACK", "WAIT_FOR_LAST_ACK"}, AppSize \in Nat
  PROVE  SendsPiece(AppSize, Sends(f, f.lastOffset, ReadData(f, f.lastOffset)))
<1> DEFINE x == ReadBlock * (f.packetNo - 1)
<1>1. /\ f.packetNo # 0 /\ f.lastOffset = x /\ f.lastOffset \in Nat
      /\ f.readSize = AppSize /\ f.lastOffset <= AppSize
  BY FileAccessFields DEF Agree, ReadsOn
<1> HIDE DEF x
<1>2. ReadData(f, f.lastOffset) = Least(ReadBlock, AppSize - f.lastOffset)
  BY <1>1 DEF ReadData, Least
<1> QED
  BY <1>1, <1>2 DEF SendsPiece, Sends, x

\* Whatever is sent is the piece its number says.
LEMMA HandledSendsPiece ==
  ASSUME NEW f \in FileAccess, Agree(f), ReadsOn(AppSize, f), NEW r \in Requests,
         NEW store, AppSize \in Nat
  PROVE  SendsPiece(AppSize, Handled(f, r, store))
<1>1. r.allowed \in BOOLEAN
  BY DEF Requests
<1>2. CASE r.op = "RRQ" /\ f.state = "READY"
  BY <1>1, <1>2, ReadSendsPiece DEF Handled
<1>3. CASE r.op = "WRQ" /\ f.state = "READY"
  BY <1>3, EndsSendsNothing DEF Handled, Write
<1>4. CASE r.op = "DATA" /\ f.state = "WAIT_FOR_DATA" /\ r.chunk.no = f.packetNo
  <2>1. Handled(f, r, store) = FoeData(f, r.chunk, store)
    BY <1>4 DEF Handled
  <2>2. SendsPiece(AppSize, FoeData(f, r.chunk, store))
    BY EndsSendsNothing DEF FoeData, WriteData, Ends, SendsPiece
  <2> QED
    BY <2>1, <2>2
<1>5. CASE r.op = "ACK" /\ f.state = "WAIT_FOR_ACK"
  BY <1>5, AcknowledgedSendsPiece DEF Handled
<1>6. CASE r.op = "ACK" /\ f.state = "WAIT_FOR_LAST_ACK"
  BY <1>6, EndsSendsNothing DEF Handled
<1>7. CASE r.op = "ERR" /\ f.state # "READY"
  BY <1>7, EndsSendsNothing DEF Handled
<1>8. CASE r.op = "BUSY" /\ f.state \in {"WAIT_FOR_ACK", "WAIT_FOR_LAST_ACK"}
  BY <1>8, BusySendsPiece DEF Handled
<1>9. CASE ~ \/ r.op = "RRQ" /\ f.state = "READY"
             \/ r.op = "WRQ" /\ f.state = "READY"
             \/ r.op = "DATA" /\ f.state = "WAIT_FOR_DATA" /\ r.chunk.no = f.packetNo
             \/ r.op = "ACK" /\ f.state \in {"WAIT_FOR_ACK", "WAIT_FOR_LAST_ACK"}
             \/ r.op = "ERR" /\ f.state # "READY"
             \/ r.op = "BUSY" /\ f.state \in {"WAIT_FOR_ACK", "WAIT_FOR_LAST_ACK"}
  <2>1. Handled(f, r, store) = Ends(f, "error")
    BY <1>9 DEF Handled
  <2> QED
    BY <2>1, EndsSendsNothing
<1> QED
  BY <1>2, <1>3, <1>4, <1>5, <1>6, <1>7, <1>8, <1>9

\* What it leaves: the same file is read on.
LEMMA LeftReadsOn ==
  ASSUME NEW s, NEW h, Good(h), SendsPiece(s, h)
  PROVE  ReadsOn(s, Left(h))
<1>1. h.foe \in FileAccess
      /\ h.ends \in {"data", "ack", "ackfinished", "finished", "error"}
  BY DEF Good, Outcomes
<1>2. CASE h.ends = "data"
  <2> DEFINE st == IF h.size = ReadBlock THEN "WAIT_FOR_ACK" ELSE "WAIT_FOR_LAST_ACK"
             g == [h.foe EXCEPT !.state = st]
  <2>1. Left(h) = g
    BY <1>2 DEF Left
  <2>2. g.lastOffset = h.foe.lastOffset /\ g.readSize = h.foe.readSize
    BY <1>1 DEF FileAccess
  <2> HIDE DEF g
  <2> QED
    BY <1>2, <2>1, <2>2 DEF SendsPiece, ReadsOn
<1>3. CASE h.ends # "data"
  <2>1. Left(h).state \in {"WAIT_FOR_DATA", "READY"}
    BY <1>1, <1>3 DEF Left, FileAccess
  <2> QED
    BY <2>1 DEF ReadsOn
<1> QED
  BY <1>2, <1>3

\* What is answered carries its piece.
LEMMA ReplyCarries ==
  ASSUME NEW s, NEW h, Good(h), SendsPiece(s, h), NEW i \in 1 .. Len(Reply(h))
  PROVE  Carries(s, Reply(h)[i])
<1>1. CASE h.ends = "data"
  <2> DEFINE a == [op |-> "DATA", no |-> h.foe.packetNo, offset |-> h.offset,
                   size |-> h.size]
  <2>1. Reply(h) = <<a>>
    BY <1>1 DEF Reply
  <2>2. Reply(h)[i] = a
    BY <2>1
  <2>3. Carries(s, a)
    BY <1>1 DEF SendsPiece, Carries, Piece
  <2> QED
    BY <2>2, <2>3
<1>2. CASE h.ends # "data"
  <2>1. Reply(h) \in {<<>>, <<Answer("ACK", h.foe.packetNo)>>, <<Answer("ERR", 0)>>}
    BY <1>2 DEF Reply
  <2>2. Reply(h)[i] \in {Answer("ACK", h.foe.packetNo), Answer("ERR", 0)}
    BY <2>1
  <2> QED
    BY <2>2 DEF Answer, Carries
<1> QED
  BY <1>1, <1>2

LEMMA AllReplyCarries ==
  ASSUME NEW s, NEW h, Good(h), SendsPiece(s, h)
  PROVE  AllCarry(s, Reply(h))
BY ReplyCarries DEF AllCarry

LEMMA TailCarries ==
  ASSUME NEW s, NEW q \in Seq(Answers), q # <<>>, AllCarry(s, q)
  PROVE  Carries(s, Head(q)) /\ AllCarry(s, Tail(q))
<1>1. Len(q) \in Nat \ {0} /\ Head(q) = q[1] /\ Len(Tail(q)) = Len(q) - 1
  OBVIOUS
<1>2. \A i \in 1 .. Len(Tail(q)) : Tail(q)[i] = q[i + 1] /\ i + 1 \in 1 .. Len(q)
  BY <1>1
<1> QED
  BY <1>1, <1>2 DEF AllCarry

LEMMA ConcatCarries ==
  ASSUME NEW s, NEW p \in Seq(Answers), NEW q \in Seq(Answers),
         AllCarry(s, p), AllCarry(s, q)
  PROVE  AllCarry(s, p \o q)
<1> DEFINE n == Len(p)
           m == Len(q)
           both == p \o q
<1>1. n \in Nat /\ m \in Nat /\ Len(both) = n + m
  OBVIOUS
<1>2. \A i \in 1 .. n : both[i] = p[i]
  OBVIOUS
<1>3. \A i \in n + 1 .. n + m : both[i] = q[i - n]
  OBVIOUS
<1>4. (\A i \in 1 .. n : Carries(s, p[i])) /\ (\A i \in 1 .. m : Carries(s, q[i]))
  BY DEF AllCarry
<1> HIDE DEF n, m, both
<1>5. ASSUME NEW i \in 1 .. n + m PROVE Carries(s, both[i])
  <2>1. CASE i <= n
    <3>1. i \in 1 .. n
      BY <1>1, <2>1
    <3> QED
      BY <1>2, <1>4, <3>1
  <2>2. CASE ~(i <= n)
    <3>1. i \in n + 1 .. n + m /\ i - n \in 1 .. m
      BY <1>1, <2>2
    <3> QED
      BY <1>3, <1>4, <3>1
  <2> QED
    BY <2>1, <2>2
<1> QED
  BY <1>1, <1>5 DEF AllCarry, both

\* One more piece is taken.
LEMMA GotOneMore ==
  ASSUME NEW s, NEW m \in Masters, NEW p \in [offset : Nat, size : Nat],
         GotUpTo(s, m, m.no), p = Piece(s, m.no + 1),
         NEW m1, m1.got = Append(m.got, p)
  PROVE  GotUpTo(s, m1, m.no + 1)
<1> DEFINE k == m.no
           got == m.got
<1>1. k \in Nat /\ got \in Seq([offset : Nat, size : Nat])
  BY DEF Masters
<1>2. Len(got) = k /\ \A n \in 1 .. k : got[n] = Piece(s, n)
  BY DEF GotUpTo
<1> HIDE DEF k, got
<1>3. /\ Len(Append(got, p)) = k + 1 /\ Append(got, p)[k + 1] = p
      /\ \A n \in 1 .. k : Append(got, p)[n] = got[n]
  BY <1>1, <1>2
<1>4. \A n \in 1 .. k + 1 : n \in 1 .. k \/ n = k + 1
  BY <1>1
<1>5. p = Piece(s, k + 1) /\ m1.got = Append(got, p)
  BY DEF k, got
<1>6. GotUpTo(s, m1, k + 1)
  BY <1>2, <1>3, <1>4, <1>5 DEF GotUpTo
<1> QED
  BY <1>6 DEF k

\* A packet that is full ends inside the file, one that is not ends it.
LEMMA FullOrLast ==
  ASSUME NEW s \in Nat, NEW n \in Nat, n # 0, ReadBlock * (n - 1) <= s,
         NEW size, size = Least(ReadBlock, s - ReadBlock * (n - 1))
  PROVE  /\ size = ReadBlock => ReadBlock * n <= s
         /\ size < ReadBlock => s < ReadBlock * n
<1> DEFINE x == ReadBlock * (n - 1)
<1>1. x \in Nat /\ ReadBlock * n = x + ReadBlock /\ x <= s
      /\ size = Least(ReadBlock, s - x)
  OBVIOUS
<1> HIDE DEF x
<1> QED
  BY <1>1 DEF Least

\* The master goes on with an upload, or with a download.
LEMMA ProceedUploads ==
  ASSUME UploadInv, NEW a \in Answers, Carries(AppSize, a), Expected(a), Proceed(a)
  PROVE  Uploads(AppSize, master')
<1> DEFINE s == AppSize
           p == [offset |-> a.offset, size |-> a.size]
           taken == [master EXCEPT !.no = a.no, !.got = Append(@, p)]
           last  == [taken EXCEPT !.job = "uploaded"]
<1>1. master \in Masters /\ Uploads(s, master) /\ s \in Nat
  BY Facts DEF UploadInv, IInv, TypeOK
<1>2. a.no \in Nat /\ p \in [offset : Nat, size : Nat] /\ p.size = a.size
  BY DEF Answers
<1>3. /\ taken.job = master.job /\ taken.no = a.no /\ taken.got = Append(master.got, p)
      /\ last.job = "uploaded" /\ last.no = a.no /\ last.got = Append(master.got, p)
  BY <1>1 DEF Masters
<1> HIDE DEF s
<1>4. CASE master.job = "download"
  <2>1. master'.job \in {"download", "downloaded"}
    BY <1>1, <1>4 DEF Proceed, Sends1, Masters
  <2> QED
    BY <2>1 DEF Uploads
<1>5. CASE master.job = "upload"
  <2>1. a.op = "DATA" /\ a.no = master.no + 1
    BY <1>5 DEF Expected
  <2>2. a.no # 0 /\ ReadBlock * (a.no - 1) <= s /\ p = Piece(s, a.no)
    BY <2>1 DEF Carries, s
  <2>3. a.size = Least(ReadBlock, s - ReadBlock * (a.no - 1))
    BY <1>2, <2>2 DEF Piece
  <2>4. /\ a.size = ReadBlock => ReadBlock * a.no <= s
        /\ a.size < ReadBlock => s < ReadBlock * a.no
    BY <1>1, <1>2, <2>2, <2>3, FullOrLast
  <2>5. GotUpTo(s, master, master.no)
    BY <1>1, <1>5 DEF Uploads
  <2>6. GotUpTo(s, taken, a.no) /\ GotUpTo(s, last, a.no)
    <3> HIDE DEF taken, last, p
    <3>1. p = Piece(s, master.no + 1)
      BY <2>1, <2>2
    <3>2. GotUpTo(s, taken, master.no + 1)
      BY <1>1, <1>2, <1>3, <2>5, <3>1, GotOneMore
    <3>3. GotUpTo(s, last, master.no + 1)
      BY <1>1, <1>2, <1>3, <2>5, <3>1, GotOneMore
    <3> QED
      BY <2>1, <3>2, <3>3
  <2>7. \/ a.size = ReadBlock /\ master' = taken
        \/ a.size < ReadBlock /\ master' = last
    BY <1>5 DEF Proceed, Sends1
  <2> HIDE DEF taken, last, p
  <2>8. CASE a.size = ReadBlock /\ master' = taken
    <3>1. Uploads(s, taken)
      BY <1>3, <1>5, <2>4, <2>6, <2>8 DEF Uploads
    <3> QED
      BY <3>1, <2>8 DEF s
  <2>9. CASE a.size < ReadBlock /\ master' = last
    <3>1. Uploads(s, last)
      BY <1>3, <2>2, <2>4, <2>6, <2>9 DEF Uploads
    <3> QED
      BY <3>1, <2>9 DEF s
  <2> QED
    BY <2>7, <2>8, <2>9
<1> QED
  BY <1>4, <1>5 DEF Expected

\* While the slot that runs is left alone, the length of the file is too.
LEMMA SameFile ==
  ASSUME running' = running, flash'[running] = flash[running]
  PROVE  AppSize' = AppSize
BY DEF AppSize

\* With no upload there is nothing to say of the master.
LEMMA NoUpload ==
  ASSUME NEW s, NEW m, m.job \notin {"upload", "uploaded"}
  PROVE  Uploads(s, m)
BY DEF Uploads

\* A request served
LEMMA ServiceUploads ==
  ASSUME UploadInv, NEW fresh \in BOOLEAN, NEW broken \in BOOLEAN,
         ServiceInd(fresh, broken)
  PROVE  UploadInv'
<1> DEFINE r     == Head(request)
           store == StoreData(r.chunk, fresh, broken)
           h     == Handled(foe, r, store)
<1>1. r \in Requests /\ r.chunk \in Chunk
  <2>1. request \in Seq(Requests) /\ request # <<>>
    BY DEF UploadInv, IInv, TypeOK, ServiceInd
  <2>2. r \in Requests
    BY <2>1
  <2> QED
    BY <2>2 DEF Requests
<1>2. store.result \in {-1, 0, 1}
  <2>1. store \in Stored
    BY <1>1, Facts, StoreType DEF UploadInv, IInv, TypeOK
  <2> QED
    BY <2>1 DEF Stored
<1>3. foe' = Left(h) /\ answer' = answer \o Reply(h) /\ master' = master
  BY DEF ServiceInd
<1> HIDE DEF r, store
<1>4. foe \in FileAccess /\ Agree(foe) /\ AppSize \in Nat /\ answer \in Seq(Answers)
      /\ ReadsOn(AppSize, foe) /\ Uploads(AppSize, master)
      /\ AllCarry(AppSize, answer)
  BY Facts DEF UploadInv, IInv, TypeOK, InStep
<1>5. Good(h) /\ SendsPiece(AppSize, h)
  BY <1>1, <1>2, <1>4, HandledGood, HandledSendsPiece
<1> HIDE DEF h
<1>6. ReadsOn(AppSize, foe')
  BY <1>3, <1>5, LeftReadsOn
<1>7. AllCarry(AppSize, answer')
  <2>1. Reply(h) \in Seq(Answers) /\ AllCarry(AppSize, Reply(h))
    BY <1>5, ReplyType, AllReplyCarries DEF Good
  <2> QED
    BY <1>3, <1>4, <2>1, ConcatCarries
<1>8. IInv' /\ AppSize' = AppSize
  BY ServiceInv, SameFile DEF UploadInv
<1> QED
  BY <1>3, <1>4, <1>6, <1>7, <1>8 DEF UploadInv

\* A step that leaves the file service and the flash alone.
LEMMA MasterUploads ==
  ASSUME UploadInv, IInv', UNCHANGED <<foe, flash, running>>,
         AllCarry(AppSize, answer'), Uploads(AppSize, master')
  PROVE  UploadInv'
<1>1. AppSize' = AppSize
  BY SameFile
<1> QED
  BY <1>1 DEF UploadInv

\* An upload begins with nothing taken.
LEMMA JobUploads ==
  ASSUME NEW s \in Nat, NEW job, NEW f, job # "uploaded"
  PROVE  Uploads(s, Job(job, f))
<1>1. Job(job, f).job = job /\ Job(job, f).no = 0 /\ Job(job, f).got = <<>>
  BY DEF Job
<1>2. GotUpTo(s, Job(job, f), 0) /\ ReadBlock * 0 <= s
  BY <1>1 DEF GotUpTo
<1> QED
  BY <1>1, <1>2 DEF Uploads

\* Every step keeps what is known of an upload.
LEMMA StepUploads ==
  ASSUME Files \subseteq Hashed, UploadInv, [Next]_vars
  PROVE  UploadInv'
<1>1. IInv' /\ AppSize \in Nat /\ answer \in Seq(Answers)
      /\ AllCarry(AppSize, answer) /\ Uploads(AppSize, master)
  BY StepInv, Facts DEF UploadInv, IInv, TypeOK
<1>2. AllCarry(AppSize', <<>>)
  BY DEF AllCarry
<1>3. Uploads(AppSize, NoJob)
  BY <1>1, JobUploads DEF NoJob
<1>4. CASE Poll
  <2>1. PICK fresh \in BOOLEAN, broken \in BOOLEAN : ServiceInd(fresh, broken)
    BY <1>4 DEF Poll, FoeResetRequest
  <2> QED
    BY <2>1, ServiceUploads
<1>5. CASE EnterBoot
  BY <1>1, <1>5, MasterUploads DEF EnterBoot
<1>6. CASE LeaveBoot
  <2>1. foe' = FoeInit(foe) /\ answer' = <<>> /\ UNCHANGED <<flash, running>>
        /\ master' \in {master, NoJob}
    BY <1>6 DEF LeaveBoot
  <2>2. foe'.state = "READY"
    BY <2>1 DEF FoeInit, UploadInv, IInv, TypeOK, FileAccess
  <2>3. ReadsOn(AppSize', foe')
    BY <2>2 DEF ReadsOn
  <2>4. AppSize' = AppSize
    BY <2>1, SameFile
  <2> QED
    BY <1>1, <1>2, <1>3, <2>1, <2>3, <2>4 DEF UploadInv
<1>7. CASE PowerLoss
  <2>1. foe' = FoeAtReset /\ answer' = <<>> /\ master' = NoJob
    BY <1>7 DEF PowerLoss, Restart
  <2>2. foe'.state = "READY" /\ master'.job = "none"
    BY <2>1 DEF FoeAtReset, NoJob, Job
  <2>3. ReadsOn(AppSize', foe') /\ Uploads(AppSize', master')
    BY <2>2, NoUpload DEF ReadsOn
  <2> QED
    BY <1>1, <1>2, <2>1, <2>3 DEF UploadInv
<1>8. ASSUME NEW f \in Downloads, StartDownload(f) PROVE UploadInv'
  BY <1>1, <1>8, JobUploads, MasterUploads DEF StartDownload
<1>9. CASE StartUpload
  BY <1>1, <1>9, JobUploads, MasterUploads DEF StartUpload
<1>10. CASE TakeAnswer
  <2> DEFINE a == Head(answer)
  <2>1. answer # <<>> /\ answer' = Tail(answer) /\ UNCHANGED <<foe, flash, running>>
        /\ \/ Expected(a) /\ Proceed(a)
           \/ master' = master
           \/ master' = NoJob
    BY <1>10 DEF TakeAnswer, Sends1
  <2>2. a \in Answers /\ Carries(AppSize, a) /\ AllCarry(AppSize, answer')
    BY <1>1, <2>1, TailCarries
  <2>3. Uploads(AppSize, master')
    BY <1>1, <1>3, <2>1, <2>2, ProceedUploads
  <2> QED
    BY <1>1, <2>1, <2>2, <2>3, MasterUploads
<1>11. CASE GiveUp
  BY <1>1, <1>3, <1>11, MasterUploads DEF GiveUp
<1>12. CASE Stray
  BY <1>1, <1>12, MasterUploads DEF Stray
<1>13. CASE UNCHANGED vars
  BY <1>1, <1>13, MasterUploads DEF vars
<1> QED
  BY <1>4, <1>5, <1>6, <1>7, <1>8, <1>9, <1>10, <1>11, <1>12, <1>13 DEF Next

\* The number of the packet that is not full, from the length.
LEMMA LastPacket ==
  ASSUME NEW s \in Nat, NEW k \in Nat, k # 0,
         ReadBlock * (k - 1) <= s, s < ReadBlock * k
  PROVE  s \div ReadBlock + 1 = k
<1> DEFINE n == k - 1
<1>1. n \in Nat /\ k = n + 1
  OBVIOUS
<1>2. ReadBlock * k = ReadBlock * n + ReadBlock
  OBVIOUS
<1> HIDE DEF n
<1>3. ReadBlock * n <= s /\ s < ReadBlock * n + ReadBlock
  BY <1>2 DEF n
<1>4. s \div ReadBlock = n
  BY <1>1, <1>3, DivIs
<1> QED
  BY <1>1, <1>4

\* What a completed upload has taken.
LEMMA UploadedIsWhole ==
  ASSUME UploadInv
  PROVE  UploadIsWhole
<1> SUFFICES ASSUME master.job = "uploaded"
             PROVE  master.got = [n \in 1 .. AppSize \div ReadBlock + 1 |->
                      [offset |-> ReadBlock * (n - 1),
                       size   |-> Least(ReadBlock, AppSize - ReadBlock * (n - 1))]]
  BY DEF UploadIsWhole
<1> DEFINE s == AppSize
           k == master.no
           got == master.got
<1>1. s \in Nat /\ k \in Nat /\ got \in Seq([offset : Nat, size : Nat])
  BY Facts DEF UploadInv, IInv, TypeOK, Masters
<1>2. /\ k # 0 /\ ReadBlock * (k - 1) <= s /\ s < ReadBlock * k
      /\ Len(got) = k /\ \A n \in 1 .. k : got[n] = Piece(s, n)
  BY DEF UploadInv, Uploads, GotUpTo
<1> HIDE DEF s, k, got
<1>3. s \div ReadBlock + 1 = k
  BY <1>1, <1>2, LastPacket
<1>4. got = [n \in 1 .. k |-> Piece(s, n)]
  BY <1>1, <1>2, LenProperties
<1>5. got = [n \in 1 .. s \div ReadBlock + 1 |->
               [offset |-> ReadBlock * (n - 1),
                size   |-> Least(ReadBlock, s - ReadBlock * (n - 1))]]
  BY <1>3, <1>4 DEF Piece
<1> QED
  BY <1>5 DEF s, got

\* An upload the master completed is the running package, whatever was
\* repeated, aborted or sent out of turn before.
THEOREM UploadsAreWhole ==
  ASSUME Files \subseteq Hashed
  PROVE  Spec => []UploadIsWhole
<1>1. Init => UploadInv
  <2> SUFFICES ASSUME Init PROVE UploadInv
    OBVIOUS
  <2>1. foe.state = "READY" /\ master.job = "none" /\ answer = <<>>
    BY DEF Init, FoeAtReset, Job
  <2>2. ReadsOn(AppSize, foe) /\ Uploads(AppSize, master) /\ AllCarry(AppSize, answer)
    BY <2>1, NoUpload DEF ReadsOn, AllCarry
  <2> QED
    BY <2>2, InitInv DEF UploadInv
<1>2. UploadInv /\ [Next]_vars => UploadInv'
  BY StepUploads
<1>3. UploadInv => UploadIsWhole
  BY UploadedIsWhole
<1> QED
  BY <1>1, <1>2, <1>3, PTL DEF Spec

-----------------------------------------------------------------------------
(* A download that is acknowledged is installed, or taken for the rest of  *)
(* a longer package.  What is in the library and in the slot is the        *)
(* beginning of the file that is being downloaded, or, if mix, that of     *)
(* another one with a header in its middle; and the data under way are of  *)
(* one file up to the next request to write: fs[0] is the file of the      *)
(* transfer, fs[i] that of the one request i belongs to or begins.         *)

Sendable(f) ==
  UNION {{Packet(f, n), [Packet(f, n) EXCEPT !.size = Block]} : n \in 1 .. Packets(f)}

Owes(q, fs) ==
  /\ fs \in [0 .. Len(q) -> Files]
  /\ \A i \in 1 .. Len(q) :
       /\ q[i].op # "WRQ" => fs[i] = fs[i - 1]
       /\ q[i].op = "DATA" => q[i].chunk \in Sendable(fs[i])

Beginning(f, n) == [i \in 1 .. n |-> Packet(f, i)]

\* What the library has when n full packets are stored.
After(f, n) ==
  IF Block * n < Size[f] THEN [busy |-> TRUE, position |-> Block * n] ELSE OtaIdle

\* The beginning of f is stored up to packet n.
Begun(f, n) ==
  n > 0 => /\ Block * n <= Size[f]
           /\ flash[Target] = Beginning(f, n) /\ ota = After(f, n)

\* An image goes on with the header of another package.
Goes(image) == \E i \in 2 .. Len(image) : image[i].no = 1

\* n full packets were taken for more of another package.
Mixed(n) == /\ ota.busy /\ ota.position >= Block * n
            /\ Goes(flash[Target])

\* A busy library has the header of the package it is in, and not all of it.
Middle == ota.busy => /\ flash[Target] # <<>>
                      /\ ota.position < Size[flash[Target][1].file]

DownloadsOn(f, mix) ==
  foe.state = "WAIT_FOR_DATA" =>
    \/ Begun(f, foe.packetNo - 1)
    \/ mix /\ Mixed(foe.packetNo - 1)

InstallInv(mix) ==
  /\ IInv /\ Middle
  /\ \E fs : /\ Owes(request, fs) /\ fs[Len(request)] = master.file
             /\ DownloadsOn(fs[0], mix)

\* The library takes a header as more of what came before.
TakenAsMore ==
  ServiceInd(FALSE, FALSE) /\ Stores(foe, Head(request))
    /\ Head(request).chunk.no = 1 /\ ota.busy

\* It never does.
HeaderRecognised == [][~TakenAsMore]_vars

\* A package whose last packet with data is packet n.
LEMMA PackageIs ==
  ASSUME NEW f \in Files, NEW n \in Nat \ {0},
         Block * (n - 1) < Size[f], Size[f] <= Block * n
  PROVE  Package[f] = Beginning(f, n)
<1> DEFINE x == Block * n
<1>1. x \in Nat /\ Block * (n - 1) = x - Block /\ Size[f] \in Nat \ {0}
  OBVIOUS
<1>2. x - Block < Size[f] /\ Size[f] <= x
  BY <1>1
<1>3. Size[f] + Block - 1 \in Nat /\ Block * n <= Size[f] + Block - 1
      /\ Size[f] + Block - 1 < Block * n + Block
  <2> HIDE DEF x
  <2>1. Size[f] + Block - 1 \in Nat /\ x <= Size[f] + Block - 1
        /\ Size[f] + Block - 1 < x + Block
    BY <1>1, <1>2
  <2> QED
    BY <2>1 DEF x
<1>4. (Size[f] + Block - 1) \div Block = n
  BY <1>3, DivIs
<1> QED
  BY <1>4 DEF Package, Beginning

LEMMA BeginningSeq ==
  ASSUME NEW f, NEW k \in Nat, \A i \in 1 .. k : Packet(f, i) \in Chunk
  PROVE  Beginning(f, k) \in Seq(Chunk) /\ Len(Beginning(f, k)) = k
<1>1. Beginning(f, k) \in [1 .. k -> Chunk] /\ DOMAIN Beginning(f, k) = 1 .. k
  BY DEF Beginning
<1>2. Beginning(f, k) \in Seq(Chunk)
  BY <1>1
<1> QED
  BY <1>1, <1>2

LEMMA SendableFacts ==
  ASSUME NEW f \in Files, NEW c \in Sendable(f)
  PROVE  /\ c.file = f /\ c.no \in 1 .. Packets(f)
         /\ c = Packet(f, c.no) \/ c = [Packet(f, c.no) EXCEPT !.size = Block]
         /\ c \in Chunk
<1>1. PICK n \in 1 .. Packets(f) :
        c = Packet(f, n) \/ c = [Packet(f, n) EXCEPT !.size = Block]
  BY DEF Sendable
<1>2. c.file = f /\ c.no = n
  BY <1>1 DEF Packet
<1>3. Packet(f, n) \in Chunk
  BY SentType
<1>4. c \in Chunk
  <2>1. Block \in 0 .. Block
    OBVIOUS
  <2> QED
    BY <1>1, <1>3, <2>1 DEF Chunk
<1> QED
  BY <1>1, <1>2, <1>4

\* A packet that is taken next and not refused.
LEMMA StoresNext ==
  ASSUME NEW f \in Files, NEW c \in Sendable(f), c.size # 0, Begun(f, c.no - 1),
         NEW fresh \in BOOLEAN, NEW broken \in BOOLEAN, fresh => c.no = 1,
         c.no = 1 /\ ota.busy /\ ~fresh => broken,
         StoreData(c, fresh, broken).result # -1
  PROVE  LET store == StoreData(c, fresh, broken)
         IN  /\ store.image = Beginning(f, c.no)
             /\ c.size = Block => Block * c.no <= Size[f] /\ store.ota = After(f, c.no)
             /\ c.size # Block => store.image = Package[f]
<1> DEFINE n        == c.no
           begins   == fresh \/ ~ota.busy
           image    == IF begins THEN <<c>> ELSE Append(flash[Target], c)
           position == c.size + IF begins THEN 0 ELSE ota.position
           store    == StoreData(c, fresh, broken)
           x        == Block * (n - 1)
           size     == Size[f]
           part     == Append(Beginning(f, n - 1), c)
<1>1. /\ n \in Nat \ {0} /\ c.size \in Nat \ {0} /\ c.file = f /\ size \in Nat
      /\ c = Packet(f, n) \/ c = [Packet(f, n) EXCEPT !.size = Block]
  BY SendableFacts DEF Chunk
<1>2. /\ ~broken /\ ~(begins /\ n # 1)
      /\ \/ /\ position < Size[image[1].file] /\ store.image = image
            /\ store.ota = [busy |-> TRUE, position |-> position]
         \/ /\ ~(position < Size[image[1].file]) /\ store.image = image
            /\ store.ota = OtaIdle /\ image = Package[image[1].file]
  BY DEF StoreData, AutoWrite
<1>3. x \in Nat /\ Block * n = x + Block
  BY <1>1
<1>4. part \in Seq(Chunk) /\ Len(part) = n /\ part[n] = c
      /\ \A i \in 1 .. n - 1 : part[i] = Packet(f, i)
  <2>1. c \in Chunk /\ n \in 1 .. Packets(f) /\ Packets(f) \in Nat
    BY SendableFacts DEF Packets
  <2>2. \A i \in 1 .. n - 1 : Packet(f, i) \in Chunk
    <3> HIDE DEF Packets
    <3>1. \A i \in 1 .. n - 1 : i \in 1 .. Packets(f)
      BY <2>1
    <3> QED
      BY <3>1, SentType
  <2>3. Beginning(f, n - 1) \in Seq(Chunk) /\ Len(Beginning(f, n - 1)) = n - 1
    <3>1. n - 1 \in Nat
      BY <2>1
    <3> HIDE DEF n
    <3> QED
      BY <2>2, <3>1, BeginningSeq
  <2>4. \A i \in 1 .. n - 1 : Beginning(f, n - 1)[i] = Packet(f, i)
    BY DEF Beginning
  <2> HIDE DEF n
  <2> QED
    BY <1>1, <2>1, <2>3, <2>4, AppendProperties
<1>5. image = part /\ position = x + c.size /\ image[1].file = f
  <2>1. CASE n = 1
    <3>1. begins /\ x = 0
      BY <2>1, <1>2
    <3>2. Beginning(f, 0) = <<>>
      BY DEF Beginning
    <3>3. part = <<c>>
      <4>1. n - 1 = 0
        BY <2>1
      <4>2. Append(<<>>, c) = <<c>>
        OBVIOUS
      <4> HIDE DEF n
      <4> QED
        BY <3>2, <4>1, <4>2
    <3>4. image = <<c>> /\ position = c.size
      <4> HIDE DEF begins
      <4> QED
        BY <1>1, <3>1
    <3>5. image[1].file = f
      <4> HIDE DEF image
      <4>1. image[1] = c
        BY <3>4
      <4> QED
        BY <1>1, <4>1
    <3> HIDE DEF image, position, part, x
    <3> QED
      BY <1>1, <3>1, <3>3, <3>4, <3>5
  <2>2. CASE n # 1
    <3>1. n - 1 > 0 /\ n - 1 \in Nat
      <4> HIDE DEF n
      <4> QED
        BY <1>1, <2>2
    <3>2. ~begins
      <4> HIDE DEF begins, n, image, position
      <4> QED
        BY <1>2, <2>2
    <3>3. flash[Target] = Beginning(f, n - 1) /\ ota = After(f, n - 1)
      BY <3>1 DEF Begun
    <3>4. ota = [busy |-> TRUE, position |-> x]
      BY <3>2, <3>3 DEF After, OtaIdle
    <3>5. image = part /\ position = x + c.size
      <4>1. image = Append(flash[Target], c) /\ position = c.size + ota.position
        <5> HIDE DEF begins
        <5> QED
          BY <3>2
      <4>2. ota.position = x
        BY <3>4
      <4> HIDE DEF image, position, x
      <4> QED
        BY <1>1, <1>3, <3>3, <4>1, <4>2
    <3>6. part[1] = Packet(f, 1)
      BY <1>4, <3>1
    <3>7. Packet(f, 1).file = f
      BY DEF Packet
    <3> HIDE DEF image, position, part, x
    <3> QED
      BY <3>5, <3>6, <3>7
  <2> HIDE DEF begins, image, position, part, x, n
  <2> QED
    BY <2>1, <2>2
<1>6. n # 1 => x <= size
  BY <1>1 DEF Begun
<1> HIDE DEF begins, image, position, part, x, size, store
<1>7. c = Packet(f, n)
  <2>1. CASE position < Size[image[1].file]
    <3>1. c = [Packet(f, n) EXCEPT !.size = Block] => Packet(f, n).size = Block
      <4> SUFFICES ASSUME c = [Packet(f, n) EXCEPT !.size = Block]
                   PROVE  Packet(f, n).size = Block
        OBVIOUS
      <4>1. c.size = Block
        BY DEF Packet
      <4>2. Packet(f, n).size = Least(Block, size - x)
        BY DEF Packet, size, x
      <4> QED
        BY <1>1, <1>3, <1>5, <2>1, <4>1, <4>2 DEF Least, size
    <3>2. Packet(f, n).size = Block => [Packet(f, n) EXCEPT !.size = Block] = Packet(f, n)
      BY DEF Packet
    <3> QED
      BY <1>1, <3>1, <3>2
  <2>2. CASE ~(position < Size[image[1].file])
    <3>1. part = Package[f]
      BY <1>2, <1>5, <2>2
    <3>2. n \in DOMAIN Package[f]
      BY <1>1, <1>4, <3>1
    <3>3. Package[f][n] = Packet(f, n)
      BY <3>2 DEF Package
    <3> QED
      BY <1>4, <3>1, <3>3
  <2> QED
    BY <2>1, <2>2
<1>8. part = Beginning(f, n)
  <2>1. \A i \in 1 .. n : part[i] = Packet(f, i)
    <3>1. \A i \in 1 .. n : i \in 1 .. n - 1 \/ i = n
      BY <1>1
    <3> QED
      BY <1>4, <1>7, <3>1
  <2>2. part = [i \in 1 .. n |-> part[i]]
    BY <1>4
  <2> QED
    BY <2>1, <2>2 DEF Beginning
<1>9. c.size = Least(Block, size - x)
  BY <1>7 DEF Packet, size, x
<1>10. x <= size
  BY <1>1, <1>3, <1>6, <1>9 DEF Least, size
<1>11. CASE c.size = Block
  <2>1. x + Block <= size /\ position = x + Block
    BY <1>1, <1>3, <1>5, <1>9, <1>11 DEF Least
  <2>2. Block * n <= size /\ position = Block * n
    BY <1>3, <2>1
  <2>3. store.ota = After(f, n)
    BY <1>2, <1>5, <2>2 DEF After, size
  <2> QED
    BY <1>2, <1>5, <1>8, <1>11, <2>2, <2>3 DEF store, size
<1>12. CASE c.size # Block
  <2>1. position = size
    BY <1>1, <1>3, <1>5, <1>9, <1>10, <1>12 DEF Least
  <2>2. ~(position < Size[image[1].file])
    BY <1>1, <1>5, <2>1 DEF size
  <2>3. store.image = Package[f]
    BY <1>2, <1>5, <2>2
  <2> QED
    BY <1>2, <1>5, <1>8, <1>12, <2>3 DEF store
<1> QED
  BY <1>11, <1>12

\* The empty packet behind a file whose length is a multiple of the block.
LEMMA EmptyIsLast ==
  ASSUME NEW f \in Files, NEW c \in Sendable(f), c.size = 0, Begun(f, c.no - 1)
  PROVE  flash[Target] = Package[f]
<1> DEFINE n == c.no
           x == Block * (n - 1)
<1>1. n \in Nat \ {0}
  BY SendableFacts
<1>2. c = Packet(f, n)
  <2>1. c = Packet(f, n) \/ c = [Packet(f, n) EXCEPT !.size = Block]
    BY SendableFacts
  <2> QED
    BY <2>1 DEF Packet
<1>3. c.size = Least(Block, Size[f] - x)
  BY <1>2 DEF Packet
<1>4. x \in Nat /\ Block * (n - 1 - 1) = x - Block /\ Size[f] \in Nat \ {0}
  <2> HIDE DEF n
  <2>1. n - 1 \in Nat
    BY <1>1
  <2> QED
    BY <2>1
<1>5. Size[f] <= x
  <2> HIDE DEF x
  <2> QED
    BY <1>3, <1>4 DEF Least
<1>6. n - 1 \in Nat \ {0} /\ n - 1 > 0
  <2>1. n = 1 => x = 0
    OBVIOUS
  <2>2. n # 1
    <3> HIDE DEF n, x
    <3> QED
      BY <1>4, <1>5, <2>1
  <2> HIDE DEF n
  <2> QED
    BY <1>1, <2>2
<1>7. x <= Size[f] /\ flash[Target] = Beginning(f, n - 1)
  BY <1>6 DEF Begun
<1>8. Block * (n - 1 - 1) < Size[f] /\ Size[f] <= Block * (n - 1)
  BY <1>4, <1>5, <1>7
<1>9. Package[f] = Beginning(f, n - 1)
  <2> DEFINE k == n - 1
  <2>1. k \in Nat \ {0} /\ Block * (k - 1) < Size[f] /\ Size[f] <= Block * k
    BY <1>6, <1>8
  <2> HIDE DEF k
  <2>2. Package[f] = Beginning(f, k)
    BY <2>1, PackageIs
  <2> QED
    BY <2>2 DEF k
<1> QED
  BY <1>7, <1>9

\* No package has a header in its middle.
LEMMA PackageGoesNot ==
  ASSUME NEW f \in Files
  PROVE  ~Goes(Package[f])
<1> DEFINE d == (Size[f] + Block - 1) \div Block
<1>1. d \in Nat
  OBVIOUS
<1>2. Package[f] = [n \in 1 .. d |-> Packet(f, n)]
  BY DEF Package
<1> HIDE DEF d
<1>3. Len(Package[f]) = d
  BY <1>1, <1>2, LenProperties, PackageType
<1>4. \A i \in 2 .. d : Package[f][i].no = i
  BY <1>1, <1>2 DEF Packet
<1> QED
  BY <1>1, <1>3, <1>4 DEF Goes

\* A packet that is taken for more of another package and not refused.
LEMMA StoresMixed ==
  ASSUME NEW c \in Chunk, c.size # 0, NEW broken \in BOOLEAN,
         ota \in Otas, flash[Target] \in Seq(Chunk), flash[Target] # <<>>,
         ota.busy, NEW n \in Nat, ota.position >= n,
         c.no = 1 \/ Goes(flash[Target]),
         StoreData(c, FALSE, broken).result # -1
  PROVE  LET store == StoreData(c, FALSE, broken)
         IN  /\ store.ota.busy /\ store.ota.position >= n + c.size
             /\ store.image # <<>> /\ Goes(store.image)
             /\ store.ota.position < Size[store.image[1].file]
<1> DEFINE old      == flash[Target]
           image    == Append(old, c)
           position == c.size + ota.position
           store    == StoreData(c, FALSE, broken)
<1>1. /\ old \in Seq(Chunk) /\ Len(old) \in Nat \ {0}
      /\ c.size \in Nat /\ ota.position \in Nat
  BY DEF Chunk, Otas
<1>2. /\ image \in Seq(Chunk) /\ Len(image) = Len(old) + 1
      /\ image[Len(old) + 1] = c
      /\ \A i \in 1 .. Len(old) : image[i] = old[i]
  BY <1>1, AppendProperties
<1>3. c.no = 1 \/ Goes(old)
  OBVIOUS
<1>4. \/ /\ position < Size[image[1].file] /\ store.image = image
         /\ store.ota = [busy |-> TRUE, position |-> position]
      \/ image = Package[image[1].file]
  BY DEF StoreData, AutoWrite
<1> HIDE DEF old, image, store
<1>5. Goes(image)
  <2>1. CASE c.no = 1
    BY <1>1, <1>2, <2>1 DEF Goes
  <2>2. CASE Goes(old)
    <3>1. PICK i \in 2 .. Len(old) : old[i].no = 1
      BY <2>2 DEF Goes
    <3>2. i \in 2 .. Len(image) /\ image[i] = old[i]
      BY <1>1, <1>2, <3>1
    <3> QED
      BY <3>1, <3>2 DEF Goes
  <2> QED
    BY <1>3, <2>1, <2>2
<1>6. image # <<>> /\ image[1].file \in Files
  <2>1. Len(image) \in Nat /\ Len(image) >= 1
    BY <1>1, <1>2
  <2>2. image[1] \in Chunk /\ image # <<>>
    BY <1>2, <2>1, ElementOfSeq
  <2> QED
    BY <2>2 DEF Chunk
<1>7. store.image = image /\ store.ota = [busy |-> TRUE, position |-> position]
      /\ position < Size[image[1].file]
  BY <1>4, <1>5, <1>6, PackageGoesNot
<1>8. position >= n + c.size
  BY <1>1
<1> HIDE DEF position
<1>9. store.ota.busy /\ store.ota.position = position
  BY <1>7
<1> QED
  BY <1>5, <1>6, <1>7, <1>8, <1>9 DEF store

\* Behind the last packet of f, a library in the middle of another package
\* has taken as many bytes as f has.
LEMMA LastCovers ==
  ASSUME NEW f \in Files, NEW c \in Sendable(f), c.size # Block
  PROVE  Block * (c.no - 1) + c.size >= Size[f]
<1> DEFINE x == Block * (c.no - 1)
<1>1. c.no \in Nat \ {0} /\ c = Packet(f, c.no)
  <2>1. c.no \in 1 .. Packets(f) /\ Packets(f) \in Nat
        /\ (c = Packet(f, c.no) \/ c = [Packet(f, c.no) EXCEPT !.size = Block])
    BY SendableFacts DEF Packets
  <2>2. [Packet(f, c.no) EXCEPT !.size = Block].size = Block
    BY DEF Packet
  <2> HIDE DEF Packets
  <2>3. c # [Packet(f, c.no) EXCEPT !.size = Block]
    BY <2>2
  <2>4. c.no \in Nat \ {0}
    BY <2>1
  <2> QED
    BY <2>1, <2>3, <2>4
<1>2. x \in Nat /\ Size[f] \in Nat
  BY <1>1
<1>3. c.size = Least(Block, Size[f] - x)
  BY <1>1 DEF Packet
<1> HIDE DEF x
<1> QED
  BY <1>2, <1>3 DEF Least, x

\* What a library that is busy after it stored a packet has.
LEMMA StoresMiddle ==
  ASSUME NEW c \in Chunk, c.size # 0, NEW fresh \in BOOLEAN,
         NEW broken \in BOOLEAN, ota \in Otas, flash[Target] \in Seq(Chunk),
         StoreData(c, fresh, broken).ota.busy
  PROVE  LET store == StoreData(c, fresh, broken)
         IN  /\ store.image # <<>>
             /\ store.ota.position < Size[store.image[1].file]
<1> DEFINE begins   == fresh \/ ~ota.busy
           image    == IF begins THEN <<c>> ELSE Append(flash[Target], c)
           position == c.size + IF begins THEN 0 ELSE ota.position
           store    == StoreData(c, fresh, broken)
<1>1. image # <<>>
  <2>1. Append(flash[Target], c) # <<>> /\ <<c>> # <<>>
    BY AppendProperties
  <2> HIDE DEF begins
  <2> QED
    BY <2>1
<1>2. ~OtaIdle.busy
  BY DEF OtaIdle
<1>3. /\ position < Size[image[1].file] /\ store.image = image
      /\ store.ota = [busy |-> TRUE, position |-> position]
  BY <1>2 DEF StoreData, AutoWrite
<1> HIDE DEF image, position
<1> QED
  BY <1>1, <1>3

\* A request is put behind those under way; it may begin a transfer of g.
LEMMA AppendOwes ==
  ASSUME NEW q \in Seq(Requests), NEW fs, Owes(q, fs), NEW g \in Files,
         NEW r, r.op # "WRQ" => g = fs[Len(q)],
         r.op = "DATA" => r.chunk \in Sendable(g)
  PROVE  \E es : /\ Owes(Append(q, r), es) /\ es[Len(Append(q, r))] = g
                 /\ es[0] = fs[0]
<1> DEFINE n  == Len(q)
           es == [i \in 0 .. n + 1 |-> IF i <= n THEN fs[i] ELSE g]
           qr == Append(q, r)
<1>1. n \in Nat /\ Len(qr) = n + 1 /\ qr[n + 1] = r
      /\ \A i \in 1 .. n : qr[i] = q[i]
  OBVIOUS
<1>2. /\ fs \in [0 .. n -> Files]
      /\ \A i \in 1 .. n : /\ q[i].op # "WRQ" => fs[i] = fs[i - 1]
                           /\ q[i].op = "DATA" => q[i].chunk \in Sendable(fs[i])
  BY DEF Owes
<1>3. r.op # "WRQ" => g = fs[n]
  OBVIOUS
<1> HIDE DEF n, qr
<1>4. es \in [0 .. n + 1 -> Files] /\ es[n + 1] = g /\ es[0] = fs[0]
      /\ \A i \in 0 .. n : es[i] = fs[i]
  BY <1>1, <1>2
<1> HIDE DEF es
<1>5. ASSUME NEW i \in 1 .. n + 1
      PROVE  /\ qr[i].op # "WRQ" => es[i] = es[i - 1]
             /\ qr[i].op = "DATA" => qr[i].chunk \in Sendable(es[i])
  <2>1. CASE i = n + 1
    <3>1. i - 1 = n /\ n \in 0 .. n
      BY <1>1, <2>1
    <3>2. es[i] = g /\ es[i - 1] = fs[n] /\ qr[i] = r
      BY <1>1, <1>4, <2>1, <3>1
    <3> QED
      BY <1>3, <3>2
  <2>2. CASE i # n + 1
    <3>1. i \in 1 .. n /\ i \in 0 .. n /\ i - 1 \in 0 .. n
      BY <1>1, <2>2
    <3>2. es[i] = fs[i] /\ es[i - 1] = fs[i - 1] /\ qr[i] = q[i]
      BY <1>1, <1>4, <3>1
    <3> QED
      BY <1>2, <3>1, <3>2
  <2> QED
    BY <2>1, <2>2
<1>6. Owes(qr, es)
  BY <1>1, <1>4, <1>5 DEF Owes
<1>7. Owes(qr, es) /\ es[Len(qr)] = g /\ es[0] = fs[0]
  BY <1>1, <1>4, <1>6
<1> QED
  BY <1>7 DEF qr

\* The first request is taken.
LEMMA TailOwes ==
  ASSUME NEW q \in Seq(Requests), q # <<>>, NEW fs, Owes(q, fs)
  PROVE  /\ fs[0] \in Files /\ fs[1] \in Files
         /\ Head(q).op # "WRQ" => fs[1] = fs[0]
         /\ Head(q).op = "DATA" => Head(q).chunk \in Sendable(fs[1])
         /\ \E es : /\ Owes(Tail(q), es) /\ es[Len(Tail(q))] = fs[Len(q)]
                    /\ es[0] = fs[1]
<1> DEFINE n  == Len(q)
           es == [i \in 0 .. n - 1 |-> fs[i + 1]]
           qt == Tail(q)
<1>1. n \in Nat \ {0} /\ Head(q) = q[1] /\ Len(qt) = n - 1
  OBVIOUS
<1>2. \A i \in 1 .. n - 1 : qt[i] = q[i + 1]
  BY <1>1
<1>3. /\ fs \in [0 .. n -> Files]
      /\ \A i \in 1 .. n : /\ q[i].op # "WRQ" => fs[i] = fs[i - 1]
                           /\ q[i].op = "DATA" => q[i].chunk \in Sendable(fs[i])
  BY DEF Owes
<1> HIDE DEF n, qt
<1>4. 0 \in 0 .. n /\ 1 \in 0 .. n /\ 1 \in 1 .. n /\ 1 - 1 = 0
  BY <1>1
<1>5. /\ fs[0] \in Files /\ fs[1] \in Files
      /\ Head(q).op # "WRQ" => fs[1] = fs[0]
      /\ Head(q).op = "DATA" => Head(q).chunk \in Sendable(fs[1])
  BY <1>1, <1>3, <1>4
<1>6. /\ es \in [0 .. n - 1 -> Files] /\ es[n - 1] = fs[n] /\ es[0] = fs[1]
      /\ \A i \in 0 .. n - 1 : es[i] = fs[i + 1]
  <2>1. \A i \in 0 .. n - 1 : i + 1 \in 0 .. n
    BY <1>1
  <2>2. n - 1 \in 0 .. n - 1 /\ 0 \in 0 .. n - 1 /\ (n - 1) + 1 = n /\ 0 + 1 = 1
    BY <1>1
  <2> QED
    BY <1>3, <2>1, <2>2
<1> HIDE DEF es
<1>7. ASSUME NEW i \in 1 .. n - 1
      PROVE  /\ qt[i].op # "WRQ" => es[i] = es[i - 1]
             /\ qt[i].op = "DATA" => qt[i].chunk \in Sendable(es[i])
  <2>1. i + 1 \in 1 .. n /\ i \in 0 .. n - 1 /\ i - 1 \in 0 .. n - 1
        /\ (i - 1) + 1 = i /\ (i + 1) - 1 = i
    BY <1>1
  <2>2. es[i] = fs[i + 1] /\ es[i - 1] = fs[i] /\ qt[i] = q[i + 1]
    BY <1>2, <1>6, <2>1
  <2>3. /\ q[i + 1].op # "WRQ" => fs[i + 1] = fs[i]
        /\ q[i + 1].op = "DATA" => q[i + 1].chunk \in Sendable(fs[i + 1])
    BY <1>3, <2>1
  <2> QED
    BY <2>2, <2>3
<1>8. Owes(qt, es) /\ es[Len(qt)] = fs[n] /\ es[0] = fs[1]
  BY <1>1, <1>6, <1>7 DEF Owes
<1> QED
  BY <1>5, <1>8 DEF n, qt

\* With no request under way
LEMMA NoneOwes ==
  ASSUME NEW f \in Files
  PROVE  \E es : Owes(<<>>, es) /\ es[Len(<<>>)] = f /\ es[0] = f
<1> DEFINE es == [i \in 0 .. 0 |-> f]
<1>1. es \in [0 .. 0 -> Files] /\ es[0] = f /\ Len(<<>>) = 0
  OBVIOUS
<1>2. Owes(<<>>, es)
  BY <1>1 DEF Owes
<1> QED
  BY <1>1, <1>2

\* The transfer a service leaves is one begun, or the one it was, a packet
\* further.
LEMMA LeftDownload ==
  ASSUME NEW f \in FileAccess, NEW r \in Requests, NEW store,
         Left(Handled(f, r, store)).state = "WAIT_FOR_DATA"
  PROVE  \/ Left(Handled(f, r, store)).packetNo = 1
         \/ /\ f.state = "WAIT_FOR_DATA" /\ r.op = "DATA" /\ r.chunk.no = f.packetNo
            /\ Left(Handled(f, r, store)).packetNo = f.packetNo + 1
            /\ r.chunk.size = Block /\ store.result # -1
            /\ f.written + r.chunk.size <= MaxFile
<1> DEFINE h == Handled(f, r, store)
           c == r.chunk
<1>1. CASE r.op = "WRQ" /\ f.state = "READY"
  <2>1. h = Write(f, r.allowed)
    BY <1>1 DEF Handled
  <2>2. h.ends \in {"ack", "error"} /\ (h.ends = "ack" => h.foe.packetNo = 0)
        /\ DOMAIN h.foe = DOMAIN f
    BY <2>1 DEF Write, Ends, FileAccess
  <2> HIDE DEF h
  <2>3. h.ends = "ack" => Left(h).packetNo = 1
    <3>1. DOMAIN h.foe = {"state", "packetNo", "fileOffset", "lastOffset",
                          "readSize", "written", "passed"}
      BY <2>2 DEF FileAccess
    <3>2. h.ends = "ack" => Left(h).packetNo = h.foe.packetNo + 1
      BY <3>1 DEF Left
    <3> QED
      BY <2>2, <3>2
  <2>4. h.ends = "error" => Left(h).state = "READY"
    BY <2>2 DEF Left, FileAccess
  <2> QED
    BY <2>2, <2>3, <2>4 DEF h
<1>2. CASE r.op = "DATA" /\ f.state = "WAIT_FOR_DATA" /\ c.no = f.packetNo
  <2>1. h = FoeData(f, c, store)
    BY <1>2 DEF Handled
  <2>2. /\ h.ends \in {"error", "ack", "ackfinished"} /\ DOMAIN h.foe = DOMAIN f
        /\ h.ends = "ack" => /\ h.foe.packetNo = f.packetNo /\ c.size = Block
                             /\ store.result # -1 /\ f.written + c.size <= MaxFile
    <3>1. WriteData(f, c, store) = Ends(f, "error")
          \/ /\ store.result # -1 /\ ~(f.written + c.size > MaxFile)
             /\ WriteData(f, c, store).ends = "ok"
             /\ WriteData(f, c, store).foe.packetNo = f.packetNo
             /\ DOMAIN WriteData(f, c, store).foe = DOMAIN f
      BY DEF WriteData, Ends, FileAccess
    <3>2. f.written + c.size \in Nat
      BY FileAccessFields DEF Requests, Chunk
    <3>3. CASE WriteData(f, c, store) = Ends(f, "error")
      BY <2>1, <3>3 DEF FoeData, Ends
    <3>4. CASE WriteData(f, c, store).ends = "ok"
               /\ WriteData(f, c, store) # Ends(f, "error")
      <4>1. h = Ends(WriteData(f, c, store).foe,
                     IF c.size = Block THEN "ack" ELSE "ackfinished")
        BY <2>1, <3>4 DEF FoeData
      <4> QED
        BY <3>1, <3>2, <3>4, <4>1 DEF Ends
    <3> QED
      BY <3>1, <3>3, <3>4
  <2> HIDE DEF h
  <2>3. h.ends = "ack" => Left(h).packetNo = f.packetNo + 1
    BY <2>2 DEF Left, FileAccess
  <2>4. h.ends # "ack" => Left(h).state = "READY"
    BY <2>2 DEF Left, FileAccess
  <2> QED
    BY <1>2, <2>2, <2>3, <2>4 DEF h
<1>3. CASE ~(r.op = "WRQ" /\ f.state = "READY")
           /\ ~(r.op = "DATA" /\ f.state = "WAIT_FOR_DATA" /\ c.no = f.packetNo)
  <2>1. h.ends \in {"data", "finished", "error"} /\ DOMAIN h.foe = DOMAIN f
    BY <1>3 DEF Handled, Read, Acknowledged, Sends, Ends, FileAccess
  <2> HIDE DEF h
  <2>2. Left(h).state # "WAIT_FOR_DATA"
    BY <2>1 DEF Left, FileAccess
  <2> QED
    BY <2>2 DEF h
<1> QED
  BY <1>1, <1>2, <1>3

\* What ends a download with an acknowledgement.
LEMMA HowItFinishes ==
  ASSUME NEW f \in FileAccess, NEW r \in Requests, NEW store,
         f.state = "WAIT_FOR_DATA", Left(Handled(f, r, store)).state = "READY",
         Reply(Handled(f, r, store)) # <<>>,
         Reply(Handled(f, r, store))[1].op = "ACK"
  PROVE  /\ r.op = "DATA" /\ r.chunk.no = f.packetNo /\ r.chunk.size # Block
         /\ store.result # -1 /\ f.written + r.chunk.size <= MaxFile
<1> DEFINE h == Handled(f, r, store)
           c == r.chunk
<1>1. h.ends \in {"ack", "ackfinished"}
  <2> HIDE DEF h
  <2>1. h.ends = "data" => Reply(h)[1].op = "DATA"
    BY DEF Reply
  <2>2. h.ends \notin {"data", "ack", "ackfinished", "finished"} => Reply(h)[1].op = "ERR"
    BY DEF Reply, Answer
  <2>3. h.ends = "finished" => Reply(h) = <<>>
    BY DEF Reply
  <2> QED
    BY <2>1, <2>2, <2>3 DEF h
<1>2. r.op = "DATA" /\ c.no = f.packetNo
  <2> SUFFICES ASSUME ~(r.op = "DATA" /\ c.no = f.packetNo) PROVE FALSE
    OBVIOUS
  <2>1. h.ends \in {"finished", "error"}
    BY DEF Handled, Ends
  <2> QED
    BY <1>1, <2>1
<1>3. h = FoeData(f, c, store)
  BY <1>2 DEF Handled
<1>4. /\ store.result # -1 /\ f.written + c.size <= MaxFile
      /\ h.ends = (IF c.size = Block THEN "ack" ELSE "ackfinished")
      /\ DOMAIN h.foe = DOMAIN f
  <2>1. WriteData(f, c, store) = Ends(f, "error")
        \/ /\ store.result # -1 /\ ~(f.written + c.size > MaxFile)
           /\ WriteData(f, c, store).ends = "ok"
           /\ DOMAIN WriteData(f, c, store).foe = DOMAIN f
    BY DEF WriteData, Ends, FileAccess
  <2>2. f.written + c.size \in Nat
    BY FileAccessFields DEF Requests, Chunk
  <2> QED
    BY <1>1, <1>3, <2>1, <2>2 DEF FoeData, Ends
<1> HIDE DEF h
<1>5. h.ends = "ack" => Left(h).state = "WAIT_FOR_DATA"
  BY <1>4 DEF Left, FileAccess
<1> QED
  BY <1>2, <1>4, <1>5 DEF h

\* An answer is one packet.
LEMMA ReplyLast ==
  ASSUME NEW h \in Outcomes, NEW p \in Seq(Answers),
         Len(p \o Reply(h)) > Len(p)
  PROVE  Reply(h) # <<>> /\ (p \o Reply(h))[Len(p \o Reply(h))] = Reply(h)[1]
<1> DEFINE q == Reply(h)
<1>1. q \in Seq(Answers) /\ (q = <<>> \/ Len(q) = 1)
  <2>1. q \in Seq(Answers)
    BY ReplyType
  <2>2. q = <<>> \/ \E a : q = <<a>>
    BY DEF Reply
  <2> HIDE DEF q
  <2> QED
    BY <2>1, <2>2
<1> HIDE DEF q
<1>2. Len(p) \in Nat /\ Len(p \o q) = Len(p) + Len(q)
  BY <1>1
<1>3. q # <<>> /\ Len(q) = 1
  BY <1>1, <1>2 DEF q
<1>4. (p \o q)[Len(p) + 1] = q[1]
  BY <1>1, <1>2, <1>3
<1> QED
  BY <1>2, <1>3, <1>4 DEF q

Finished(mix) ==
  Finishes => \/ flash'[Target] = Package[Head(request).chunk.file]
              \/ mix /\ TakenForMore(Head(request).chunk.file)

\* A request served
LEMMA ServiceInstalls ==
  ASSUME NEW mix \in BOOLEAN, InstallInv(mix), TakenAsMore => mix,
         NEW fresh \in BOOLEAN, NEW broken \in BOOLEAN,
         ServiceInd(fresh, broken)
  PROVE  InstallInv(mix)' /\ Finished(mix)
<1> DEFINE r     == Head(request)
           c     == r.chunk
           store == StoreData(c, fresh, broken)
           h     == Handled(foe, r, store)
<1>1. /\ request \in Seq(Requests) /\ request # <<>> /\ r \in Requests
      /\ c \in Chunk /\ c.size \in Nat
  <2>1. request \in Seq(Requests) /\ request # <<>>
    BY DEF InstallInv, IInv, TypeOK, ServiceInd
  <2>2. r \in Requests
    BY <2>1
  <2> HIDE DEF r
  <2>3. r.chunk \in Chunk
    BY <2>2 DEF Requests
  <2>4. r.chunk.size \in Nat
    BY <2>3 DEF Chunk
  <2> QED
    BY <2>1, <2>2, <2>3, <2>4
<1>2. PICK fs : /\ Owes(request, fs) /\ fs[Len(request)] = master.file
                /\ DownloadsOn(fs[0], mix)
  BY DEF InstallInv
<1>3. /\ fs[0] \in Files /\ fs[1] \in Files
      /\ r.op # "WRQ" => fs[1] = fs[0]
      /\ r.op = "DATA" => c \in Sendable(fs[1])
      /\ \E es : /\ Owes(Tail(request), es)
                 /\ es[Len(Tail(request))] = fs[Len(request)] /\ es[0] = fs[1]
  BY <1>1, <1>2, TailOwes
<1>4. /\ request' = Tail(request) /\ foe' = Left(h) /\ answer' = answer \o Reply(h)
      /\ running' = running /\ master' = master
      /\ IF Stores(foe, r)
         THEN /\ fresh => ota.busy /\ c.no = 1
              /\ ota' = store.ota /\ flash' = [flash EXCEPT ![Target] = store.image]
         ELSE ~fresh /\ ~broken /\ UNCHANGED <<ota, flash>>
  BY DEF ServiceInd
<1>5. Stores(foe, r) /\ c.no = 1 /\ ota.busy /\ ~fresh => broken \/ mix
  <2> SUFFICES ASSUME Stores(foe, r), c.no = 1, ota.busy, ~fresh, ~broken
               PROVE  mix
    OBVIOUS
  <2>1. fresh = FALSE /\ broken = FALSE
    OBVIOUS
  <2>2. ServiceInd(FALSE, FALSE)
    BY <2>1
  <2> QED
    BY <2>2 DEF TakenAsMore
<1>6. /\ foe \in FileAccess /\ Target \in Slots /\ flash \in [Slots -> Seq(Chunk)]
      /\ Target' = Target /\ answer \in Seq(Answers) /\ foe.packetNo \in Nat
      /\ ota \in Otas
  BY <1>4, FileAccessFields DEF InstallInv, IInv, TypeOK, Target, Slots, HPM_APP1, HPM_APP2
<1>7. ASSUME foe.state = "WAIT_FOR_DATA", r.op = "DATA", c.no = foe.packetNo,
             foe.written + c.size <= MaxFile, store.result # -1, c.size # 0
      PROVE  /\ flash'[Target] = store.image /\ ota' = store.ota
             /\ \/ /\ store.image = Beginning(fs[1], c.no)
                   /\ c.size = Block => /\ Block * c.no <= Size[fs[1]]
                                        /\ store.ota = After(fs[1], c.no)
                   /\ c.size # Block => store.image = Package[fs[1]]
                \/ /\ mix /\ store.ota.busy /\ Goes(store.image)
                   /\ store.ota.position >= Block * (c.no - 1) + c.size
                   /\ store.ota.position < Size[store.image[1].file]
  <2>1. Stores(foe, r)
    BY <1>7 DEF Stores
  <2>2. flash'[Target] = store.image /\ ota' = store.ota
        /\ (fresh => ota.busy /\ c.no = 1)
    BY <1>4, <1>6, <2>1
  <2>3. Begun(fs[1], c.no - 1) \/ (mix /\ Mixed(c.no - 1))
    BY <1>2, <1>3, <1>7 DEF DownloadsOn
  <2>4. c \in Sendable(fs[1]) /\ c.no \in Nat \ {0}
    <3>1. c \in Sendable(fs[1])
      BY <1>3, <1>7
    <3>2. c.no \in Nat \ {0}
      BY <3>1, <1>3, SendableFacts
    <3> QED
      BY <3>1, <3>2
  <2>5. c.no = 1 /\ ota.busy /\ ~fresh => broken \/ mix
    BY <1>5, <2>1
  <2>6. flash[Target] \in Seq(Chunk) /\ (ota.busy => flash[Target] # <<>>)
    BY <1>6 DEF InstallInv, Middle
  <2> HIDE DEF c
  <2>7. CASE Begun(fs[1], c.no - 1) /\ (c.no = 1 /\ ota.busy /\ ~fresh => broken)
    BY <1>3, <1>7, <2>2, <2>4, <2>7, StoresNext
  <2>8. ASSUME mix, ota.busy, ~fresh, NEW n \in Nat, n = Block * (c.no - 1),
               ota.position >= n, c.no = 1 \/ Goes(flash[Target])
        PROVE  /\ store.ota.busy /\ Goes(store.image)
               /\ store.ota.position >= n + c.size
               /\ store.ota.position < Size[store.image[1].file]
    <3>1. fresh = FALSE
      BY <2>8
    <3> QED
      BY <1>1, <1>6, <1>7, <2>6, <2>8, <3>1, StoresMixed
  <2> DEFINE n == Block * (c.no - 1)
  <2>9. n \in Nat /\ (c.no = 1 => n = 0)
    BY <2>4
  <2> HIDE DEF n
  <2>10. CASE c.no = 1 /\ ota.busy /\ ~fresh /\ ~broken
    <3>1. mix /\ ota.position >= n
      BY <1>6, <2>5, <2>9, <2>10 DEF Otas
    <3> QED
      BY <2>2, <2>8, <2>9, <2>10, <3>1 DEF n
  <2>11. CASE mix /\ Mixed(c.no - 1) /\ ~(c.no = 1 /\ ota.busy /\ ~fresh /\ ~broken)
              /\ ~Begun(fs[1], c.no - 1)
    <3>1. ota.busy /\ ota.position >= n /\ Goes(flash[Target])
      BY <2>11 DEF Mixed, n
    <3>2. c.no # 1
      BY <2>4, <2>11 DEF Begun
    <3> QED
      BY <2>2, <2>8, <2>9, <2>11, <3>1, <3>2 DEF n
  <2> QED
    BY <2>3, <2>7, <2>10, <2>11
<1>a. Middle'
  <2>1. CASE Stores(foe, r)
    <3>1. ota' = store.ota /\ flash'[Target'] = store.image /\ c.size # 0
      BY <1>4, <1>6, <2>1 DEF Stores
    <3>2. flash[Target] \in Seq(Chunk)
      BY <1>6
    <3> HIDE DEF c
    <3>3. store.ota.busy => /\ store.image # <<>>
                            /\ store.ota.position < Size[store.image[1].file]
      BY <1>1, <1>6, <3>1, <3>2, StoresMiddle
    <3> HIDE DEF store
    <3> QED
      BY <3>1, <3>3 DEF Middle
  <2>2. CASE ~Stores(foe, r)
    BY <1>4, <1>6, <2>2 DEF InstallInv, Middle
  <2> QED
    BY <2>1, <2>2
<1> HIDE DEF store, h
<1>8. IInv'
  BY ServiceInv DEF InstallInv
<1>9. DownloadsOn(fs[1], mix)'
  <2> SUFFICES ASSUME foe'.state = "WAIT_FOR_DATA"
               PROVE  \/ Begun(fs[1], foe.packetNo - 1)'
                      \/ mix /\ Mixed(foe.packetNo - 1)'
    BY DEF DownloadsOn
  <2>1. \/ foe'.packetNo = 1
        \/ /\ foe.state = "WAIT_FOR_DATA" /\ r.op = "DATA" /\ c.no = foe.packetNo
           /\ foe'.packetNo = foe.packetNo + 1
           /\ c.size = Block /\ store.result # -1
           /\ foe.written + c.size <= MaxFile
    BY <1>1, <1>4, <1>6, LeftDownload DEF h
  <2>2. CASE foe'.packetNo = 1
    BY <2>2 DEF Begun
  <2>3. CASE /\ foe.state = "WAIT_FOR_DATA" /\ r.op = "DATA" /\ c.no = foe.packetNo
             /\ foe'.packetNo = foe.packetNo + 1
             /\ c.size = Block /\ store.result # -1
             /\ foe.written + c.size <= MaxFile
    <3>1. c.size # 0
      BY <2>3
    <3>2. \/ /\ flash'[Target] = Beginning(fs[1], c.no) /\ ota' = After(fs[1], c.no)
             /\ Block * c.no <= Size[fs[1]]
          \/ /\ mix /\ ota'.busy /\ Goes(flash'[Target])
             /\ ota'.position >= Block * (c.no - 1) + Block
      BY <1>7, <2>3, <3>1
    <3> DEFINE k == foe.packetNo
    <3>a. k \in Nat /\ foe'.packetNo = k + 1 /\ c.no = k
      BY <1>6, <2>3
    <3> HIDE DEF k
    <3>3. foe'.packetNo - 1 = c.no /\ c.no \in Nat
      BY <3>a
    <3> HIDE DEF c, r
    <3>4. Block * (c.no - 1) + Block = Block * c.no
      BY <3>3
    <3> QED
      BY <1>6, <3>2, <3>3, <3>4 DEF Begun, Mixed
  <2> QED
    BY <2>1, <2>2, <2>3
<1>10. InstallInv(mix)'
  <2>1. PICK es : /\ Owes(Tail(request), es)
                  /\ es[Len(Tail(request))] = fs[Len(request)] /\ es[0] = fs[1]
    BY <1>3
  <2>2. Owes(request', es) /\ es[Len(request')] = master'.file
    BY <1>2, <1>4, <2>1
  <2>3. DownloadsOn(es[0], mix)'
    BY <1>9, <2>1
  <2> QED
    BY <1>8, <1>a, <2>2, <2>3 DEF InstallInv
<1>11. Finished(mix)
  <2> SUFFICES ASSUME foe.state = "WAIT_FOR_DATA", foe'.state = "READY",
                      Len(answer') > Len(answer), answer'[Len(answer')].op = "ACK"
               PROVE  \/ flash'[Target] = Package[c.file]
                      \/ mix /\ TakenForMore(c.file)
    BY DEF Finished, Finishes
  <2>1. h \in Outcomes
    <3>1. store.result \in {-1, 0, 1}
      <4>1. store \in Stored
        BY <1>1, StoreType DEF store, InstallInv, IInv, TypeOK, Flashes
      <4> QED
        BY <4>1 DEF Stored
    <3>2. Agree(foe) /\ AppSize \in Nat
      BY Facts DEF InstallInv, IInv, InStep
    <3> HIDE DEF r
    <3>3. Good(h)
      BY <1>1, <1>6, <3>1, <3>2, HandledGood DEF h
    <3> QED
      BY <3>3 DEF Good
  <2>2. Reply(h) # <<>> /\ Reply(h)[1].op = "ACK"
    BY <1>4, <1>6, <2>1, ReplyLast
  <2>3. /\ r.op = "DATA" /\ c.no = foe.packetNo /\ c.size # Block
        /\ store.result # -1 /\ foe.written + c.size <= MaxFile
    BY <1>1, <1>4, <1>6, <2>2, HowItFinishes DEF h
  <2>4. c \in Sendable(fs[1]) /\ c.file = fs[1]
    BY <1>3, <2>3, SendableFacts
  <2> DEFINE n == Block * (c.no - 1)
  <2>a. n \in Nat /\ n + c.size >= Size[fs[1]] /\ Size[fs[1]] \in Nat
        /\ c.no \in Nat \ {0}
    <3>1. c.no \in Nat \ {0}
      BY <1>3, <2>4, SendableFacts
    <3>2. n + c.size >= Size[fs[1]]
      <4> HIDE DEF c
      <4> QED
        BY <1>3, <2>3, <2>4, LastCovers
    <3>3. n \in Nat
      <4> HIDE DEF c
      <4> QED
        BY <3>1
    <3>4. Size[fs[1]] \in Nat
      BY <1>3
    <3> QED
      BY <3>1, <3>2, <3>3, <3>4
  <2>5. CASE c.size # 0
    <3>1. \/ flash'[Target] = Package[fs[1]]
          \/ /\ mix /\ ota'.busy /\ Goes(flash'[Target])
             /\ ota'.position >= n + c.size
             /\ ota'.position < Size[flash'[Target][1].file]
      BY <1>7, <2>3, <2>5
    <3>2. CASE /\ mix /\ ota'.busy /\ Goes(flash'[Target])
               /\ ota'.position >= n + c.size
               /\ ota'.position < Size[flash'[Target][1].file]
      <4>1. ota'.position \in Nat /\ flash'[Target] \in Seq(Chunk)
        BY <1>6, <1>8 DEF IInv, TypeOK, Otas
      <4>2. 1 \in DOMAIN flash'[Target]
        BY <3>2, <4>1 DEF Goes
      <4>3. Size[flash'[Target][1].file] \in Nat
        <5>1. flash'[Target][1] \in Chunk
          BY <4>1, <4>2
        <5>2. flash'[Target][1].file \in Files
          BY <5>1 DEF Chunk
        <5> QED
          BY <5>2
      <4> DEFINE long == Size[flash'[Target][1].file]
      <4>4. long > Size[fs[1]]
        <5> HIDE DEF n, c, long
        <5>1. long \in Nat /\ ota'.position < long
          BY <3>2, <4>3 DEF long
        <5> QED
          BY <1>1, <2>a, <3>2, <4>1, <5>1
      <4> HIDE DEF n, c
      <4> QED
        BY <2>4, <3>2, <4>4 DEF TakenForMore
    <3> QED
      BY <2>4, <3>1, <3>2
  <2>6. CASE c.size = 0
    <3>1. ~Stores(foe, r)
      BY <2>6 DEF Stores
    <3>2. flash' = flash /\ ota' = ota
      BY <1>4, <3>1
    <3>3. Begun(fs[1], c.no - 1) \/ (mix /\ Mixed(c.no - 1))
      BY <1>2, <1>3, <2>3 DEF DownloadsOn
    <3>4. CASE Begun(fs[1], c.no - 1)
      <4> HIDE DEF c
      <4>1. flash[Target] = Package[fs[1]]
        BY <1>3, <2>4, <2>6, <3>4, EmptyIsLast
      <4> QED
        BY <2>4, <3>2, <4>1
    <3>5. CASE mix /\ Mixed(c.no - 1)
      <4>1. ota.position >= n /\ ota.busy /\ flash[Target] # <<>>
            /\ ota.position < Size[flash[Target][1].file]
        BY <3>5 DEF Mixed, InstallInv, Middle
      <4>2. ota.position \in Nat /\ Size[flash[Target][1].file] \in Nat
        <5>1. ota.position \in Nat
          BY <1>6 DEF Otas
        <5>2. Size[flash[Target][1].file] \in Nat
          BY <1>6, <4>1, FirstChunk DEF Flashes
        <5> QED
          BY <5>1, <5>2
      <4> HIDE DEF n, c
      <4> QED
        BY <1>1, <2>4, <2>6, <2>a, <3>2, <3>5, <4>1, <4>2 DEF TakenForMore
    <3> QED
      BY <3>3, <3>4, <3>5
  <2> QED
    BY <2>5, <2>6
<1> QED
  BY <1>10, <1>11

\* The master sends a request, or none.
LEMMA MasterInstalls ==
  ASSUME NEW mix \in BOOLEAN, InstallInv(mix), IInv',
         UNCHANGED <<foe, ota, flash, running>>,
         \/ request' = request /\ master'.file = master.file
         \/ \E r : /\ request' = Append(request, r)
                   /\ r.op # "WRQ" => master'.file = master.file
                   /\ r.op = "DATA" => r.chunk \in Sendable(master'.file)
  PROVE  InstallInv(mix)'
<1>1. PICK fs : /\ Owes(request, fs) /\ fs[Len(request)] = master.file
                /\ DownloadsOn(fs[0], mix)
  BY DEF InstallInv
<1>2. DownloadsOn(fs[0], mix)' /\ Middle'
  BY <1>1 DEF InstallInv, DownloadsOn, Begun, Mixed, Middle, Target
<1>3. CASE request' = request /\ master'.file = master.file
  BY <1>1, <1>2, <1>3 DEF InstallInv
<1>4. ASSUME NEW r, request' = Append(request, r),
             r.op # "WRQ" => master'.file = master.file,
             r.op = "DATA" => r.chunk \in Sendable(master'.file)
      PROVE  InstallInv(mix)'
  <2>1. request \in Seq(Requests) /\ master'.file \in Files
    BY DEF InstallInv, IInv, TypeOK, Masters
  <2> DEFINE g == master'.file
  <2>2. g \in Files /\ (r.op # "WRQ" => g = fs[Len(request)])
        /\ (r.op = "DATA" => r.chunk \in Sendable(g))
    BY <1>1, <1>4, <2>1
  <2> HIDE DEF g
  <2>3. PICK es : /\ Owes(Append(request, r), es)
                  /\ es[Len(Append(request, r))] = g /\ es[0] = fs[0]
    BY <1>1, <2>1, <2>2, AppendOwes
  <2>4. Owes(request', es) /\ es[Len(request')] = master'.file
    BY <1>4, <2>3 DEF g
  <2>5. DownloadsOn(es[0], mix)' /\ Middle'
    BY <1>2, <2>3
  <2> QED
    BY <2>4, <2>5 DEF InstallInv
<1> QED
  BY <1>3, <1>4

\* No transfer and nothing under way.
LEMMA StoppedInstalls ==
  ASSUME NEW mix \in BOOLEAN, IInv', Middle', request' = <<>>,
         foe'.state = "READY"
  PROVE  InstallInv(mix)'
<1>1. master'.file \in Files
  BY DEF IInv, TypeOK, Masters
<1>2. PICK es : Owes(<<>>, es) /\ es[Len(<<>>)] = master'.file
  BY <1>1, NoneOwes
<1>3. DownloadsOn(es[0], mix)'
  BY DEF DownloadsOn
<1> QED
  BY <1>2, <1>3 DEF InstallInv

\* What the services of the master are.
LEMMA ServiceFields ==
  /\ \A op : Service(op).op = op /\ Refused(op).op = op
  /\ \A d : Data(d).op = "DATA" /\ Data(d).chunk = d
BY DEF Service, Refused, Data

\* A packet may be sent.
LEMMA PacketSendable ==
  ASSUME NEW f, NEW n \in 1 .. Packets(f)
  PROVE  /\ Packet(f, n) \in Sendable(f)
         /\ [Packet(f, n) EXCEPT !.size = Block] \in Sendable(f)
BY DEF Sendable

\* The master takes an answer.
LEMMA TakeAnswerInstalls ==
  ASSUME NEW mix \in BOOLEAN, InstallInv(mix), IInv', TakeAnswer
  PROVE  InstallInv(mix)'
<1>1. master \in Masters /\ master.no \in Nat /\ Packets(master.file) \in Nat
      /\ DOMAIN master = {"job", "file", "no", "got"}
  <2>1. master \in Masters
    BY DEF InstallInv, IInv, TypeOK
  <2>2. master.no \in Nat /\ master.file \in Files
        /\ DOMAIN master = {"job", "file", "no", "got"}
    BY <2>1 DEF Masters
  <2>3. Size[master.file] \div Block \in Nat
    BY <2>2
  <2> QED
    BY <2>1, <2>2, <2>3 DEF Packets
<1>2. UNCHANGED <<foe, ota, flash, running>>
  BY DEF TakeAnswer
<1>3. NoJob.file = master.file
  BY DEF NoJob, Job
<1>4. ASSUME NEW a, Proceed(a)
      PROVE  /\ master'.file = master.file
             /\ \/ request' = request
                \/ request' = Append(request, Service("ACK"))
                \/ \E n \in 1 .. Packets(master.file) :
                     request' = Append(request, Data(Packet(master.file, n)))
  <2>1. master'.file = master.file
    BY <1>1, <1>4 DEF Proceed, Sends1
  <2>2. master.no < Packets(master.file) => master.no + 1 \in 1 .. Packets(master.file)
    <3> HIDE DEF Packets
    <3> QED
      BY <1>1
  <2> QED
    BY <1>4, <2>1, <2>2 DEF Proceed, Sends1
<1>5. CASE /\ master'.file = master.file
           /\ \/ request' = request
              \/ request' = Append(request, Service("ACK"))
              \/ request' = Append(request, Service("ERR"))
  <2>1. \A op \in {"ACK", "ERR"} : Service(op).op \notin {"WRQ", "DATA"}
    BY ServiceFields
  <2> QED
    BY <1>2, <1>5, <2>1, MasterInstalls
<1>6. ASSUME NEW n \in 1 .. Packets(master.file), master'.file = master.file,
             request' = Append(request, Data(Packet(master.file, n)))
      PROVE  InstallInv(mix)'
  <2> DEFINE r == Data(Packet(master.file, n))
  <2>1. r.op = "DATA" /\ r.chunk = Packet(master.file, n)
    BY ServiceFields
  <2>2. r.chunk \in Sendable(master'.file)
    BY <1>6, <2>1, PacketSendable
  <2>3. request' = Append(request, r)
    BY <1>6
  <2> HIDE DEF r
  <2> QED
    BY <1>2, <1>6, <2>2, <2>3, MasterInstalls
<1> QED
  BY <1>3, <1>4, <1>5, <1>6 DEF TakeAnswer, Sends1

\* A service out of turn
LEMMA StrayInstalls ==
  ASSUME NEW mix \in BOOLEAN, InstallInv(mix), IInv', Stray
  PROVE  InstallInv(mix)'
<1>1. UNCHANGED <<foe, ota, flash, running, master>>
  BY DEF Stray
<1>2. PICK r \in Strays : request' = Append(request, r)
  BY DEF Stray
<1>3. r.op = "DATA" => r.chunk \in Sendable(master.file)
  <2>1. CASE \E op \in {"ACK", "ERR", "BUSY", "other", "WRQ", "RRQ"} :
               r = Service(op) \/ r = Refused(op)
    BY <2>1, ServiceFields
  <2>2. ASSUME NEW n \in 1 .. Packets(master.file),
               \/ r = Data(Packet(master.file, n))
               \/ r = Data([Packet(master.file, n) EXCEPT !.size = Block])
        PROVE  r.chunk \in Sendable(master.file)
    <3> DEFINE p == Packet(master.file, n)
               q == [p EXCEPT !.size = Block]
    <3>1. p \in Sendable(master.file) /\ q \in Sendable(master.file)
      BY PacketSendable
    <3>2. r = Data(p) \/ r = Data(q)
      BY <2>2
    <3> HIDE DEF p, q
    <3> QED
      BY <3>1, <3>2, ServiceFields
  <2>3. \/ \E op \in {"ACK", "ERR", "BUSY", "other", "WRQ", "RRQ"} :
             r = Service(op) \/ r = Refused(op)
        \/ \E n \in 1 .. Packets(master.file) :
             \/ r = Data(Packet(master.file, n))
             \/ r = Data([Packet(master.file, n) EXCEPT !.size = Block])
    BY DEF Strays
  <2> QED
    BY <2>1, <2>2, <2>3
<1> QED
  BY <1>1, <1>2, <1>3, MasterInstalls

\* Every step keeps what is known of a download and installs what it ends.
LEMMA StepInstalls ==
  ASSUME Files \subseteq Hashed, NEW mix \in BOOLEAN, InstallInv(mix),
         TakenAsMore => mix, [Next]_vars
  PROVE  InstallInv(mix)' /\ [Finished(mix)]_vars
<1>1. IInv'
  BY StepInv DEF InstallInv
<1>2. (foe' = foe \/ answer' = <<>>) => Finished(mix)
  <2>1. Len(answer) \in Nat /\ Len(<<>>) = 0
    BY DEF InstallInv, IInv, TypeOK
  <2> QED
    BY <2>1 DEF Finished, Finishes
<1>3. CASE Poll
  <2>1. PICK fresh \in BOOLEAN, broken \in BOOLEAN : ServiceInd(fresh, broken)
    BY <1>3 DEF Poll, FoeResetRequest
  <2> QED
    BY <2>1, ServiceInstalls
<1>4. CASE EnterBoot
  BY <1>1, <1>2, <1>4, MasterInstalls DEF EnterBoot
<1>5. CASE LeaveBoot
  <2>1. foe'.state = "READY" /\ request' = <<>> /\ answer' = <<>>
    BY <1>5 DEF LeaveBoot, FoeInit, InstallInv, IInv, TypeOK, FileAccess
  <2>2. Middle'
    BY <1>5 DEF LeaveBoot, InstallInv, Middle, Target
  <2> QED
    BY <1>1, <1>2, <2>1, <2>2, StoppedInstalls
<1>6. CASE PowerLoss
  <2>1. foe'.state = "READY" /\ request' = <<>> /\ answer' = <<>>
    BY <1>6 DEF PowerLoss, Restart, FoeAtReset
  <2>2. Middle'
    BY <1>6 DEF PowerLoss, Restart, OtaIdle, Middle
  <2> QED
    BY <1>1, <1>2, <2>1, <2>2, StoppedInstalls
<1>7. ASSUME NEW f \in Downloads, StartDownload(f) PROVE InstallInv(mix)' /\ Finished(mix)
  BY <1>1, <1>2, <1>7, MasterInstalls, ServiceFields DEF StartDownload
<1>8. CASE StartUpload
  <2>1. master'.file = master.file
    BY <1>8 DEF StartUpload, Job
  <2> QED
    BY <1>1, <1>2, <1>8, <2>1, MasterInstalls, ServiceFields DEF StartUpload
<1>9. CASE TakeAnswer
  BY <1>1, <1>2, <1>9, TakeAnswerInstalls DEF TakeAnswer
<1>10. CASE GiveUp
  <2>1. master'.file = master.file
    BY <1>10 DEF GiveUp, NoJob, Job
  <2> QED
    BY <1>1, <1>2, <1>10, <2>1, MasterInstalls, ServiceFields DEF GiveUp
<1>11. CASE Stray
  BY <1>1, <1>2, <1>11, StrayInstalls DEF Stray
<1>12. CASE UNCHANGED vars
  BY <1>1, <1>12, MasterInstalls DEF vars
<1> QED
  BY <1>3, <1>4, <1>5, <1>6, <1>7, <1>8, <1>9, <1>10, <1>11, <1>12 DEF Next

LEMMA InitInstalls ==
  ASSUME NEW mix \in BOOLEAN, Files \subseteq Hashed, Init
  PROVE  InstallInv(mix)
<1>1. IInv /\ foe.state = "READY" /\ request = <<>> /\ ~ota.busy
  BY InitInv DEF Init, FoeAtReset, OtaIdle
<1>2. master.file \in Files
  BY <1>1 DEF IInv, TypeOK, Masters
<1>3. PICK es : Owes(<<>>, es) /\ es[Len(<<>>)] = master.file
  BY <1>2, NoneOwes
<1> QED
  BY <1>1, <1>3 DEF InstallInv, DownloadsOn, Middle

\* Whatever the lengths of the packages, whatever was aborted and whatever the
\* library makes of a header in the middle of another package: a download
\* whose last packet FOE_Data acknowledges is installed, or the library waits
\* for the rest of a longer package, which was aborted.
THEOREM FinishedInstalled ==
  ASSUME Files \subseteq Hashed
  PROVE  Spec => FinishedIsInstalled
<1>1. Init => InstallInv(TRUE)
  BY InitInstalls
<1>2. InstallInv(TRUE) /\ [Next]_vars
      => /\ InstallInv(TRUE)'
         /\ [Finishes => \/ flash'[Target] = Package[Head(request).chunk.file]
                         \/ TakenForMore(Head(request).chunk.file)]_vars
  <2> SUFFICES ASSUME InstallInv(TRUE), [Next]_vars
               PROVE  InstallInv(TRUE)' /\ [Finished(TRUE)]_vars
    BY DEF Finished
  <2> QED
    BY StepInstalls
<1> QED
  BY <1>1, <1>2, PTL DEF Spec, FinishedIsInstalled

\* FOE_Data acknowledges a last packet only of a package that is installed, if
\* the library recognises the header of a package wherever it comes: this is
\* all that is missing.
THEOREM RecognisedInstalled ==
  ASSUME Files \subseteq Hashed
  PROVE  Spec /\ HeaderRecognised =>
           [][Finishes => flash'[Target] = Package[Head(request).chunk.file]]_vars
<1>1. Init => InstallInv(FALSE)
  BY InitInstalls
<1>2. InstallInv(FALSE) /\ [~TakenAsMore]_vars /\ [Next]_vars
      => /\ InstallInv(FALSE)'
         /\ [Finishes => flash'[Target] = Package[Head(request).chunk.file]]_vars
  <2> SUFFICES ASSUME InstallInv(FALSE), [~TakenAsMore]_vars, [Next]_vars
               PROVE  InstallInv(FALSE)' /\ [Finished(FALSE)]_vars
    BY DEF Finished
  <2>1. CASE ~TakenAsMore
    BY <2>1, StepInstalls
  <2>2. CASE UNCHANGED vars
    <3>1. IInv'
      BY StepInv DEF InstallInv
    <3>2. InstallInv(FALSE)'
      BY <2>2, <3>1, MasterInstalls DEF vars
    <3> QED
      BY <2>2, <3>2
  <2> QED
    BY <2>1, <2>2
<1> QED
  BY <1>1, <1>2, PTL DEF Spec, HeaderRecognised

=============================================================================
