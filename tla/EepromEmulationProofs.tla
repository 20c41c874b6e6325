----------------------- MODULE EepromEmulationProofs -----------------------
(***************************************************************************)
(* Proofs about EepromEmulation: the types, and that the emulated EEPROM   *)
(* is the memory of SiiMemory, for any size, contents and flash.           *)
(***************************************************************************)
EXTENDS EepromEmulation, TLAPS

USE SizeAssumption, ValueAssumption, ImageAssumption, CommandAssumption

Words == 0 .. Size - 1

\* Before the main loop nobody has touched the registers.
AtRest == phase # "run" => esc = EscAtPowerOn /\ result = "none"

\* What the two loops of the start have done so far.
Progress ==
  /\ phase = "defaults" => \A w \in 0 .. index - 1 : flash[w] = Contents[image][w]
  /\ phase = "fill" => /\ Fits(flash, image)
                       /\ Readable(flash, 0 .. index - 1)
  /\ phase = "reload" => Fits(flash, image) /\ Readable(flash, Words)

\* A write between the flash and the register.
UnderWay ==
  result # "none" =>
    /\ esc.busy /\ esc.cmd = "write"
    /\ result = "stored" => esc.addr < Blocks /\ flash[esc.addr] = esc.data[1]
    /\ result = "refused" => esc.addr >= Blocks \/ WriteFails

IInv == TypeOK /\ AtRest /\ Progress /\ UnderWay /\ EepromLoaded

-----------------------------------------------------------------------------
LEMMA Sets ==
  /\ ConfigArea \subseteq Words /\ Words \subseteq 0 .. Blocks - 1
  /\ 0 \in ConfigArea /\ AliasWord \in ConfigArea
  /\ NoAnswer \in Answers /\ EscAtPowerOn \in Registers
BY DEF ConfigArea, Words, NoAnswer, Answers, EscAtPowerOn, Registers

\* The defaults of an image fit the image.
LEMMA DefaultsFit ==
  ASSUME NEW f, NEW i \in Images, \A w \in Words : f[w] = Contents[i][w]
  PROVE  Fits(f, i) /\ Readable(f, Words)
<1>1. Contents[i] \in [Words -> Values]
  BY DEF Words
<1>2. \A w \in Words : f[w] \in Values /\ f[w] # Unwritten
  BY <1>1
<1>3. [w \in ConfigArea |-> f[w]] = [w \in ConfigArea |-> Contents[i][w]]
  BY Sets
<1>4. ValidConfig(f)
  BY <1>2, <1>3, Sets DEF ValidConfig, Readable
<1>5. ProductWord \in Words /\ RevisionWord \in Words
  BY DEF Words
<1>6. Contents[i][RevisionWord] \in Nat
  BY <1>1, <1>5
<1> QED
  BY <1>2, <1>4, <1>5, <1>6 DEF Fits, Readable, Matches

\* Blanking a word that could not be read changes nothing of what is compared.
LEMMA BlankKeepsFit ==
  ASSUME NEW f \in [0 .. Blocks - 1 -> Values \cup {Unwritten}],
         NEW i \in Images, Fits(f, i),
         NEW w \in Words, f[w] = Unwritten
  PROVE  Fits([f EXCEPT ![w] = Blank], i)
<1> DEFINE g == [f EXCEPT ![w] = Blank]
<1>1. \A b \in Words : b # w => g[b] = f[b]
  BY Sets
<1>2. w \notin ConfigArea /\ w # ProductWord /\ w # RevisionWord
  BY DEF Fits, ValidConfig, Readable
<1>3. ProductWord \in Words /\ RevisionWord \in Words
  BY DEF Words
<1>4. \A b \in ConfigArea : g[b] = f[b]
  BY <1>1, <1>2, Sets
<1>5. [b \in ConfigArea |-> g[b]] = [b \in ConfigArea |-> f[b]]
  BY <1>4
<1> HIDE DEF g
<1>6. ValidConfig(g)
  BY <1>4, <1>5 DEF Fits, ValidConfig, Readable
<1>7. g[ProductWord] = f[ProductWord] /\ g[RevisionWord] = f[RevisionWord]
  BY <1>1, <1>2, <1>3
<1>8. Fits(g, i)
  BY <1>6, <1>7 DEF Fits, Readable, Matches
<1> QED
  BY <1>8 DEF g

-----------------------------------------------------------------------------
LEMMA InitInv == Init => IInv
BY Sets DEF Init, IInv, TypeOK, AtRest, Progress, UnderWay, EepromLoaded,
   EscAtPowerOn, StoreAtReset, Phases

\* The command is over and the registers are written back.
LEMMA DoneType ==
  ASSUME esc \in Registers, NEW d \in Answers, NEW c \in BOOLEAN,
         NEW a \in BOOLEAN, Done(d, c, a)
  PROVE  /\ esc' \in Registers /\ ~esc'.busy /\ esc'.crc = c
         /\ esc'.ack = a /\ esc'.data = d /\ esc'.cmd = esc.cmd
         /\ esc'.addr = esc.addr
BY DEF Registers, Done

\* Every block is whole or cannot be read; the answers are words.
LEMMA AnswerTypes ==
  ASSUME IInv
  PROVE  /\ esc.data \in Answers
         /\ ValidConfig(flash) => ReloadAnswer(flash) \in Answers
         /\ \A a \in Nat : ReadOk(a) => ReadAnswers(a) \subseteq Answers
<1>1. esc.data \in Answers
  BY DEF IInv, TypeOK, Registers
<1>2. ValidConfig(flash) => ReloadAnswer(flash) \in Answers
  BY Sets DEF IInv, TypeOK, ValidConfig, Readable, ReloadAnswer, Answers
<1>3. ASSUME NEW a \in Nat, ReadOk(a), readSize = 4
      PROVE  ReadAnswers(a) \subseteq Answers
  <2>1. a + 1 \in 0 .. Blocks - 1 /\ a \in 0 .. Blocks - 1
        /\ flash[a] # Unwritten /\ flash[a + 1] # Unwritten
    BY <1>3 DEF ReadOk
  <2> QED
    BY <2>1, <1>3 DEF IInv, TypeOK, ReadAnswers, Answers
<1>4. ASSUME NEW a \in Nat, readSize # 4 PROVE ReadAnswers(a) \subseteq Answers
  BY <1>4 DEF ReadAnswers
<1> QED
  BY <1>1, <1>2, <1>3, <1>4

\* A block that gets a word stays a memory.
LEMMA PutType ==
  ASSUME NEW f \in [0 .. Blocks - 1 -> Values \cup {Unwritten}],
         NEW b \in 0 .. Blocks - 1, NEW v \in Values
  PROVE  [f EXCEPT ![b] = v] \in [0 .. Blocks - 1 -> Values \cup {Unwritten}]
OBVIOUS

LEMMA StartInv == IInv /\ (PowerOn \/ Start) => IInv'
<1> SUFFICES ASSUME IInv, PowerOn \/ Start PROVE IInv'
  OBVIOUS
<1> USE Sets
<1>1. CASE PowerOn
  BY <1>1 DEF PowerOn, IInv, TypeOK, AtRest, Progress, UnderWay, EepromLoaded,
     Phases, EscAtPowerOn
<1>2. CASE ContentsRefused
  BY <1>2 DEF ContentsRefused, Decide, IInv, TypeOK, AtRest, Progress,
     UnderWay, EepromLoaded, Phases
<1>3. CASE IdentityUnreadable
  BY <1>3 DEF IdentityUnreadable, Decide, IInv, TypeOK, AtRest, Progress,
     UnderWay, EepromLoaded, Phases
<1>4. CASE ContentsKept
  BY <1>4 DEF ContentsKept, Decide, IInv, TypeOK, AtRest, Progress, Readable,
     UnderWay, EepromLoaded, Phases
<1>5. CASE WriteDefault
  <2>1. /\ flash' = [flash EXCEPT ![index] = Contents[image][index]]
        /\ phase = "defaults" /\ index \in Words /\ image \in Images
        /\ flash \in [0 .. Blocks - 1 -> Values \cup {Unwritten}]
        /\ Contents[image][index] \in Values
        /\ UNCHANGED <<image, esc, result, readSize, store>>
        /\ Advance("fill")
    BY <1>5 DEF WriteDefault, Put, IInv, TypeOK, Words
  <2>2. flash' \in [0 .. Blocks - 1 -> Values \cup {Unwritten}]
    BY <2>1
  <2>3. \A w \in 0 .. index : flash'[w] = Contents[image][w]
    BY <2>1 DEF IInv, Progress, Words
  <2>4. CASE index + 1 < Size
    <3>1. index' = index + 1 /\ phase' = phase
      BY <2>1, <2>4 DEF Advance
    <3> QED
      BY <2>1, <2>2, <2>3, <2>4, <3>1
         DEF IInv, TypeOK, AtRest, Progress, UnderWay, EepromLoaded, Words
  <2>5. CASE ~(index + 1 < Size)
    <3>1. index' = 0 /\ phase' = "fill"
      BY <2>1, <2>5 DEF Advance
    <3>2. Words = 0 .. index
      BY <2>1, <2>5 DEF Words
    <3>3. Fits(flash', image)
      BY <2>1, <2>3, <3>2, DefaultsFit
    <3> QED
      BY <2>1, <2>2, <3>1, <3>3
         DEF IInv, TypeOK, AtRest, Progress, UnderWay, EepromLoaded, Phases,
             Readable, Fits, Matches, ValidConfig
  <2> QED
    BY <2>4, <2>5
<1>6. CASE FillWord
  <2>1. /\ phase = "fill" /\ index \in Words /\ image \in Images
        /\ flash \in [0 .. Blocks - 1 -> Values \cup {Unwritten}]
        /\ Fits(flash, image) /\ Readable(flash, 0 .. index - 1)
        /\ UNCHANGED <<image, esc, result, readSize, store>>
        /\ Advance("reload")
    BY <1>6 DEF FillWord, IInv, TypeOK, Progress, Words
  <2>2. /\ flash' \in [0 .. Blocks - 1 -> Values \cup {Unwritten}]
        /\ Readable(flash', 0 .. index) /\ Fits(flash', image)
    <3>1. CASE flash[index] # Unwritten /\ UNCHANGED flash
      <4>1. Readable(flash, 0 .. index)
        BY <2>1, <3>1 DEF Readable, Words
      <4> QED
        BY <2>1, <3>1, <4>1
    <3>2. CASE flash[index] = Unwritten /\ Put(Blank)
      <4>1. flash' = [flash EXCEPT ![index] = Blank]
        BY <3>2 DEF Put
      <4>2. Readable(flash', 0 .. index)
        BY <2>1, <4>1 DEF Readable, Words
      <4>3. Fits(flash', image)
        BY <2>1, <3>2, <4>1, BlankKeepsFit
      <4> QED
        BY <2>1, <4>1, <4>2, <4>3, PutType
    <3> QED
      BY <1>6, <3>1, <3>2 DEF FillWord
  <2>3. CASE index + 1 < Size
    <3>1. index' = index + 1 /\ phase' = phase
      BY <2>1, <2>3 DEF Advance
    <3>2. Fits(flash', image') /\ Readable(flash', 0 .. index' - 1)
      BY <2>1, <2>2, <3>1 DEF Words
    <3> QED
      BY <2>1, <2>2, <2>3, <3>1, <3>2
         DEF IInv, TypeOK, AtRest, Progress, UnderWay, EepromLoaded, Words,
             Readable, Fits, Matches, ValidConfig
  <2>4. CASE ~(index + 1 < Size)
    <3>1. index' = 0 /\ phase' = "reload"
      BY <2>1, <2>4 DEF Advance
    <3>a. Words = 0 .. index /\ image' = image
      BY <2>1, <2>4 DEF Words
    <3>2. Fits(flash', image') /\ Readable(flash', Words)
      BY <2>2, <3>a
    <3> QED
      BY <2>1, <2>2, <3>1, <3>2
         DEF IInv, TypeOK, AtRest, Progress, UnderWay, EepromLoaded, Phases,
             Readable, Fits, Matches, ValidConfig
  <2> QED
    BY <2>3, <2>4
<1>7. CASE StartFails
  BY <1>7 DEF StartFails, IInv, TypeOK, AtRest, Progress, UnderWay,
     EepromLoaded, Phases
<1>8. CASE ReloadResponse
  <2>1. /\ ValidConfig(flash) /\ Readable(flash, ConfigArea)
        /\ phase = "reload" /\ result = "none"
    BY <1>8 DEF ReloadResponse, IInv, Progress, AtRest, Fits, ValidConfig
  <2>2. ReloadAnswer(flash) \in Answers
    BY <2>1, AnswerTypes
  <2>3. Done(ReloadAnswer(flash), FALSE, FALSE)
    BY <1>8, <2>1 DEF ReloadResponse
  <2>4. esc' \in Registers /\ ~esc'.crc
    BY <2>2, <2>3, DoneType DEF IInv, TypeOK
  <2>5. phase' = "run" /\ UNCHANGED <<flash, image, index, result, readSize, store>>
    BY <1>8, <2>1 DEF ReloadResponse
  <2> QED
    BY <2>1, <2>4, <2>5 DEF IInv, TypeOK, AtRest, Progress, UnderWay,
       EepromLoaded, Phases
<1> QED
  BY <1>1, <1>2, <1>3, <1>4, <1>5, <1>6, <1>7, <1>8 DEF Start

-----------------------------------------------------------------------------
\* The parts of IInv a command leaves alone.
LEMMA CommandFrame ==
  ASSUME IInv, phase = "run",
         UNCHANGED <<image, phase, index, readSize>>,
         flash' \in [0 .. Blocks - 1 -> Values \cup {Unwritten}],
         esc' \in Registers, ~esc'.crc,
         result' \in {"none", "stored", "refused"}, UnderWay',
         store' \in [value : {0, StoreTime}, counter : Nat]
  PROVE  IInv'
BY DEF IInv, TypeOK, AtRest, Progress, EepromLoaded

LEMMA QuietType ==
  ASSUME IInv, QuietAgain
  PROVE  store' \in [value : {0, StoreTime}, counter : Nat]
BY DEF IInv, TypeOK, QuietAgain

\* What a command that is answered at once does to the registers.
LEMMA AnsweredInv ==
  ASSUME IInv, NEW cmd, Pending(cmd), QuietAgain,
         UNCHANGED <<flash, image, phase, index, result, readSize>>,
         NEW d \in Answers, NEW a \in BOOLEAN, Done(d, FALSE, a)
  PROVE  IInv'
<1>0. esc \in Registers
  BY DEF IInv, TypeOK
<1>1. esc' \in Registers /\ ~esc'.crc
  BY <1>0, DoneType
<1>2. result' = "none" /\ phase = "run"
  BY DEF Pending
<1>3. UnderWay'
  BY <1>2 DEF UnderWay
<1> QED
  BY <1>1, <1>2, <1>3, QuietType, CommandFrame DEF IInv, TypeOK

LEMMA HandlerInv == IInv /\ Handler => IInv'
<1> SUFFICES ASSUME IInv, Handler PROVE IInv'
  OBVIOUS
<1>a. esc.crc = FALSE /\ esc.data \in Answers /\ esc.addr \in Nat
  BY AnswerTypes DEF IInv, EepromLoaded, TypeOK, Registers
<1>1. CASE ReadCommand
  <2>1. CASE ReadOk(esc.addr)
    <3>1. PICK d \in ReadAnswers(esc.addr) : Done(d, FALSE, FALSE)
      BY <1>1, <1>a, <2>1 DEF ReadCommand
    <3>2. d \in Answers
      BY <1>a, <2>1, AnswerTypes
    <3> QED
      BY <1>1, <3>1, <3>2, AnsweredInv DEF ReadCommand
  <2>2. CASE ~ReadOk(esc.addr)
    BY <1>1, <1>a, <2>2, AnsweredInv DEF ReadCommand
  <2> QED
    BY <2>1, <2>2
<1>2. CASE WriteCommand
  <2>1. /\ phase = "run" /\ esc.busy /\ esc.cmd = "write" /\ esc' = esc
        /\ UNCHANGED <<image, phase, index, readSize>>
        /\ flash \in [0 .. Blocks - 1 -> Values \cup {Unwritten}]
        /\ store' = [store EXCEPT !.value = StoreTime]
    BY <1>2 DEF WriteCommand, Pending, IInv, TypeOK
  <2>2. esc.data[1] \in Values
    BY <1>a DEF Answers
  <2>3. store' \in [value : {0, StoreTime}, counter : Nat]
    BY <2>1 DEF IInv, TypeOK
  <2>4. CASE esc.addr < Blocks /\ result' = "stored"
             /\ flash' = [flash EXCEPT ![esc.addr] = esc.data[1]]
    <3>1. esc.addr \in 0 .. Blocks - 1
      BY <1>a, <2>4
    <3>2. flash' \in [0 .. Blocks - 1 -> Values \cup {Unwritten}]
          /\ flash'[esc.addr] = esc.data[1]
      BY <2>1, <2>2, <2>4, <3>1, PutType
    <3>3. UnderWay'
      BY <2>1, <2>4, <3>2 DEF UnderWay
    <3> QED
      BY <1>a, <2>1, <2>3, <2>4, <3>2, <3>3, CommandFrame DEF IInv, TypeOK
  <2>5. CASE (esc.addr < Blocks => WriteFails /\ flash[esc.addr] # esc.data[1])
             /\ result' = "refused" /\ UNCHANGED flash
    <3>1. UnderWay'
      BY <1>a, <2>1, <2>5 DEF UnderWay
    <3> QED
      BY <1>a, <2>1, <2>3, <2>5, <3>1, CommandFrame DEF IInv, TypeOK
  <2> QED
    BY <1>2, <2>4, <2>5 DEF WriteCommand
<1>3. CASE WriteDone
  <2>1. esc' \in Registers /\ ~esc'.crc
    BY <1>3, <1>a, DoneType DEF WriteDone, IInv, TypeOK
  <2>2. UnderWay'
    BY <1>3 DEF WriteDone, UnderWay
  <2> QED
    BY <1>3, <2>1, <2>2, QuietType, CommandFrame DEF WriteDone, IInv, TypeOK
<1>4. CASE ReloadCommand
  BY <1>4, <1>a, AnswerTypes, AnsweredInv DEF ReloadCommand
<1>5. CASE ReloadSegment
  <2>1. CASE \E d \in Answers : Done(d, FALSE, FALSE)
    BY <1>5, <2>1, AnsweredInv DEF ReloadSegment
  <2>2. CASE Done(esc.data, esc.crc, TRUE)
    BY <1>5, <1>a, <2>2, AnsweredInv DEF ReloadSegment
  <2>3. CASE \E d \in Answers :
               esc' = [esc EXCEPT !.addr = @ + 4, !.data = d,
                                  !.crc = FALSE, !.ack = FALSE]
    <3>a. PICK d \in Answers :
            esc' = [esc EXCEPT !.addr = @ + 4, !.data = d,
                               !.crc = FALSE, !.ack = FALSE]
      BY <2>3
    <3>b. esc \in Registers /\ esc.addr + 4 \in Nat
      BY <1>a DEF IInv, TypeOK
    <3>1. esc' \in Registers /\ ~esc'.crc
      BY <3>a, <3>b DEF Registers
    <3>2. result' = "none"
      BY <1>5 DEF ReloadSegment, Pending
    <3>3. UnderWay'
      BY <3>2 DEF UnderWay
    <3> QED
      BY <1>5, <3>1, <3>2, <3>3, QuietType, CommandFrame
         DEF ReloadSegment, Pending, IInv, TypeOK
  <2> QED
    BY <1>5, <2>1, <2>2, <2>3 DEF ReloadSegment
<1>6. CASE OtherCommand
  BY <1>6, <1>a, AnsweredInv DEF OtherCommand
<1> QED
  BY <1>1, <1>2, <1>3, <1>4, <1>5, <1>6 DEF Handler

\* The four kinds of command in one form.
LEMMA CommandTaken ==
  ASSUME MasterCommand
  PROVE  \E c \in {"read", "write", "reload", "other"}, a \in Nat, d \in Answers :
           esc' = [esc EXCEPT !.busy = TRUE, !.cmd = c, !.addr = a, !.data = d]
<1>1. ASSUME NEW a \in 0 .. Blocks,
             esc' = [esc EXCEPT !.busy = TRUE, !.cmd = "read", !.addr = a,
                                !.data = NoAnswer]
      PROVE  \E c \in {"read", "write", "reload", "other"}, b \in Nat, d \in Answers :
               esc' = [esc EXCEPT !.busy = TRUE, !.cmd = c, !.addr = b, !.data = d]
  <2>1. a \in Nat
    OBVIOUS
  <2> QED
    BY <1>1, <2>1, Sets, Zenon
<1>2. ASSUME NEW a \in 0 .. Blocks, NEW v \in MasterValues,
             esc' = [esc EXCEPT !.busy = TRUE, !.cmd = "write", !.addr = a,
                                !.data = <<v, Blank>>]
      PROVE  \E c \in {"read", "write", "reload", "other"}, b \in Nat, d \in Answers :
               esc' = [esc EXCEPT !.busy = TRUE, !.cmd = c, !.addr = b, !.data = d]
  <2>1. a \in Nat /\ <<v, Blank>> \in Answers
    BY DEF Answers
  <2> QED
    BY <1>2, <2>1, Zenon
<1>3. ASSUME NEW e \in {"reload", "other"},
             esc' = [esc EXCEPT !.busy = TRUE, !.cmd = e, !.addr = 0,
                                !.data = NoAnswer]
      PROVE  \E c \in {"read", "write", "reload", "other"}, b \in Nat, d \in Answers :
               esc' = [esc EXCEPT !.busy = TRUE, !.cmd = c, !.addr = b, !.data = d]
  <2>1. e \in {"read", "write", "reload", "other"} /\ 0 \in Nat
    OBVIOUS
  <2> QED
    BY <1>3, <2>1, Sets, Zenon
<1> QED
  BY <1>1, <1>2, <1>3 DEF MasterCommand

LEMMA OutsideInv == IInv /\ (StoreTimer \/ MasterCommand \/ PowerLoss) => IInv'
<1> SUFFICES ASSUME IInv, StoreTimer \/ MasterCommand \/ PowerLoss PROVE IInv'
  OBVIOUS
<1>1. CASE StoreTimer
  <2>1. store' \in [value : {0, StoreTime}, counter : Nat]
    <3>1. store \in [value : {0, StoreTime}, counter : Nat]
      BY DEF IInv, TypeOK
    <3>2. StoreAtReset \in [value : {0, StoreTime}, counter : Nat]
      BY DEF StoreAtReset
    <3>3. CASE store' = [store EXCEPT !.counter = @ + 1]
      BY <3>1, <3>3
    <3> QED
      BY <1>1, <3>2, <3>3 DEF StoreTimer
  <2>2. UnderWay'
    BY <1>1 DEF StoreTimer, UnderWay
  <2> QED
    BY <1>1, <2>1, <2>2, CommandFrame DEF StoreTimer, IInv, TypeOK, EepromLoaded
<1>2. CASE MasterCommand
  <2>1. result = "none"
    BY <1>2 DEF MasterCommand, IInv, UnderWay
  <2>2. esc' \in Registers /\ ~esc'.crc
    <3>1. PICK c \in {"read", "write", "reload", "other"}, a \in Nat, d \in Answers :
            esc' = [esc EXCEPT !.busy = TRUE, !.cmd = c, !.addr = a, !.data = d]
      BY <1>2, Sets, CommandTaken
    <3> QED
      BY <3>1 DEF IInv, TypeOK, EepromLoaded, Registers
  <2>3. UnderWay'
    BY <1>2, <2>1 DEF MasterCommand, UnderWay
  <2> QED
    BY <1>2, <2>2, <2>3, CommandFrame DEF MasterCommand, IInv, TypeOK
<1>3. CASE PowerLoss
  BY <1>3, Sets DEF PowerLoss, IInv, TypeOK, AtRest, Progress, UnderWay,
     EepromLoaded, EscAtPowerOn, StoreAtReset, Phases
<1> QED
  BY <1>1, <1>2, <1>3

LEMMA NextInv == IInv /\ [Next]_vars => IInv'
<1>1. ASSUME IInv, UNCHANGED vars PROVE IInv'
  BY <1>1 DEF vars, IInv, TypeOK, AtRest, Progress, UnderWay, EepromLoaded
<1> QED
  BY <1>1, StartInv, HandlerInv, OutsideInv DEF Next

LEMMA Invariance == Spec => []IInv
BY InitInv, NextInv, PTL DEF Spec

\* The registers, the loops of the start and the timer keep their ranges.
THEOREM TypeCorrect == Spec => []TypeOK
<1>1. IInv => TypeOK
  BY DEF IInv
<1> QED
  BY <1>1, Invariance, PTL

-----------------------------------------------------------------------------
\* What the memory of SiiMemory calls fitting is what the code compares.
LEMMA SameFit ==
  /\ \A f, i : Memory!Fits(f, i) <=> Fits(f, i)
  /\ \A f : Memory!ValidConfig(f) <=> ValidConfig(f)
  /\ \A f, ws : Memory!Readable(f, ws) <=> Readable(f, ws)
BY DEF Memory!Fits, Fits, Memory!ValidConfig, ValidConfig, Memory!Readable,
   Readable, Memory!Matches, Matches, Memory!ConfigArea, ConfigArea

\* While the main loop does not run, the master sees nothing.
LEMMA Hidden ==
  ASSUME phase' # "run" PROVE Memory!Down
BY DEF Memory!Down, Memory!NoRequest, Memory!NoReply, Request, Reply,
   NoRequest, NoReply

LEMMA HiddenStutter ==
  ASSUME phase # "run", phase' # "run", phase # "defaults", phase' # "defaults",
         UNCHANGED <<flash, image, readSize>>
  PROVE  UNCHANGED Memory!vars
BY DEF Memory!vars, Request, Reply

\* While it runs, only words, requests and answers change.
LEMMA Serving ==
  ASSUME IInv, IInv', phase = "run", phase' = "run", UNCHANGED <<image, readSize>>
  PROVE  Memory!InService
<1>1. EepromLoaded /\ EepromLoaded'
  BY DEF IInv
<1> QED
  BY <1>1 DEF Memory!InService

LEMMA Answered ==
  ASSUME IInv, IInv', phase = "run", phase' = "run", esc.busy, ~esc'.busy,
         UNCHANGED <<flash, image, readSize>>,
         \/ ~esc'.ack /\ Memory!Right(Request.op, Request.addr, esc'.data)
         \/ esc'.ack /\ Memory!Refusable(Request.op, Request.addr)
  PROVE  Memory!Reply
<1>1. esc.cmd \in {"read", "write", "reload", "other"} /\ esc'.data \in Answers
      /\ esc'.ack \in BOOLEAN
  BY DEF IInv, TypeOK, Registers
<1>2. Request.op # "none" /\ Request # NoRequest
  BY <1>1 DEF Request, NoRequest
<1>3. Request' = NoRequest
  BY DEF Request
<1>4. Reply' = [ok |-> ~esc'.ack, data |-> esc'.data]
  BY DEF Reply
<1>5. Memory!NoRequest = NoRequest /\ Memory!Answers = Answers
  BY DEF Memory!NoRequest, NoRequest, Memory!Answers, Answers
<1>6. CASE ~esc'.ack /\ Memory!Right(Request.op, Request.addr, esc'.data)
  <2>1. Reply' = [ok |-> TRUE, data |-> esc'.data]
    BY <1>4, <1>6
  <2> QED
    BY <1>1, <1>2, <1>3, <1>5, <1>6, <2>1, Serving DEF Memory!Reply
<1>7. CASE esc'.ack /\ Memory!Refusable(Request.op, Request.addr)
  <2>1. Reply' = [ok |-> FALSE, data |-> esc'.data]
    BY <1>4, <1>7
  <2> QED
    BY <1>1, <1>2, <1>3, <1>5, <1>7, <2>1, Serving DEF Memory!Reply
<1> QED
  BY <1>6, <1>7

\* The registers after a command are those of Done.
LEMMA DoneFields ==
  ASSUME IInv, NEW d \in Answers, NEW a \in BOOLEAN, Done(d, FALSE, a)
  PROVE  ~esc'.busy /\ esc'.ack = a /\ esc'.data = d
<1>1. esc \in Registers
  BY DEF IInv, TypeOK
<1> QED
  BY <1>1, DoneType

LEMMA InitMemory == Init => Memory!Init
BY DEF Init, Memory!Init, Request, Reply, Memory!NoRequest, Memory!NoReply,
   NoRequest, NoReply

LEMMA StartSteps ==
  IInv /\ IInv' /\ (PowerOn \/ Start) => [Memory!Next]_Memory!vars
<1> SUFFICES ASSUME IInv, IInv', PowerOn \/ Start PROVE [Memory!Next]_Memory!vars
  OBVIOUS
<1>1. CASE PowerOn
  <2>1. Memory!Boot
    BY <1>1, Hidden DEF PowerOn, Memory!Boot
  <2> QED
    BY <2>1 DEF Memory!Next
<1>2. CASE ContentsRefused
  <2>1. ~Fits(flash, image)
    BY <1>2 DEF ContentsRefused, Fits
  <2>2. Memory!Refuse
    BY <1>2, <2>1, Hidden, SameFit DEF ContentsRefused, Decide, Memory!Refuse
  <2> QED
    BY <2>2 DEF Memory!Next
<1>3. CASE IdentityUnreadable \/ ContentsKept
  BY <1>3, HiddenStutter DEF IdentityUnreadable, ContentsKept, Decide
<1>4. CASE WriteDefault
  <2>1. /\ flash' = [flash EXCEPT ![index] = Contents[image][index]]
        /\ phase = "defaults" /\ phase' # "run" /\ index \in 0 .. Size - 1
        /\ UNCHANGED <<image, readSize>>
    BY <1>4 DEF WriteDefault, Put, Advance, IInv, TypeOK
  <2>2. \A w \in 0 .. index - 1 : flash[w] = Contents[image][w]
    BY <2>1 DEF IInv, Progress
  <2>3. (phase' = "defaults") = (index + 1 < Size)
    BY <1>4, <2>1 DEF WriteDefault, Advance
  <2>4. Memory!Restore
    BY <2>1, <2>2, <2>3, Hidden DEF Memory!Restore
  <2> QED
    BY <2>4 DEF Memory!Next
<1>5. CASE FillWord
  <2>1. phase = "fill" /\ phase' \in {"fill", "reload"} /\ index \in 0 .. Size - 1
        /\ UNCHANGED <<image, readSize>>
    BY <1>5 DEF FillWord, Advance, IInv, TypeOK
  <2>2. CASE UNCHANGED flash
    BY <2>1, <2>2, HiddenStutter
  <2>3. CASE flash[index] = Unwritten /\ Put(Blank)
    <3>1. Memory!Fill
      BY <2>1, <2>3, Hidden DEF Put, Memory!Fill
    <3> QED
      BY <3>1 DEF Memory!Next
  <2> QED
    BY <1>5, <2>2, <2>3 DEF FillWord
<1>6. CASE StartFails
  <2>1. CASE phase = "defaults"
    <3>1. Memory!Interrupt
      BY <1>6, <2>1, Hidden DEF StartFails, Memory!Interrupt
    <3> QED
      BY <3>1 DEF Memory!Next
  <2>2. CASE phase = "fill"
    BY <1>6, <2>2, HiddenStutter DEF StartFails
  <2> QED
    BY <1>6, <2>1, <2>2 DEF StartFails
<1>7. CASE ReloadResponse
  <2>1. /\ phase = "reload" /\ Fits(flash, image) /\ Readable(flash, 0 .. Size - 1)
        /\ ValidConfig(flash) /\ Readable(flash, ConfigArea)
    BY <1>7 DEF ReloadResponse, IInv, Progress, Fits, ValidConfig, Words
  <2>2. Done(ReloadAnswer(flash), FALSE, FALSE) /\ phase' = "run"
        /\ UNCHANGED <<flash, image, readSize>>
    BY <1>7, <2>1 DEF ReloadResponse
  <2>3. ~esc'.busy /\ esc'.ack = FALSE /\ esc'.data = <<flash[AliasWord], flash[0]>>
    BY <2>1, <2>2, AnswerTypes, DoneFields DEF ReloadAnswer
  <2>4. Request = NoRequest /\ Request' = NoRequest
    BY <2>1, <2>2, <2>3 DEF Request
  <2>5. Reply' = [ok |-> TRUE, data |-> <<flash[AliasWord], flash[0]>>]
    BY <2>2, <2>3 DEF Reply
  <2>6. EepromLoaded'
    BY DEF IInv
  <2>7. Memory!ComeUp
    BY <2>1, <2>2, <2>4, <2>5, <2>6, SameFit DEF Memory!ComeUp
  <2> QED
    BY <2>7 DEF Memory!Next
<1> QED
  BY <1>1, <1>2, <1>3, <1>4, <1>5, <1>6, <1>7 DEF Start

LEMMA HandlerSteps ==
  IInv /\ IInv' /\ Handler => [Memory!Next]_Memory!vars
<1> SUFFICES ASSUME IInv, IInv', Handler PROVE [Memory!Next]_Memory!vars
  OBVIOUS
<1>a. esc.crc = FALSE /\ esc.data \in Answers /\ esc.addr \in Nat
      /\ readSize \in {4, 8} /\ esc \in Registers
  BY AnswerTypes DEF IInv, EepromLoaded, TypeOK, Registers
<1>1. CASE ReadCommand
  <2>1. /\ phase = "run" /\ phase' = "run" /\ esc.busy
        /\ Request.op = "read" /\ Request.addr = esc.addr
        /\ UNCHANGED <<flash, image, readSize>>
    BY <1>1 DEF ReadCommand, Pending, Request
  <2>2. CASE ReadOk(esc.addr)
    <3>1. PICK d \in ReadAnswers(esc.addr) : Done(d, FALSE, FALSE)
      BY <1>1, <1>a, <2>2 DEF ReadCommand
    <3>2. d \in Answers /\ (readSize = 4 => d = <<flash[esc.addr], flash[esc.addr + 1]>>)
      BY <1>a, <2>2, <3>1, AnswerTypes DEF ReadAnswers
    <3>3. ~esc'.busy /\ esc'.ack = FALSE /\ esc'.data = d
      BY <3>1, <3>2, DoneFields
    <3>4. /\ esc.addr + 1 < Blocks
          /\ Readable(flash, {esc.addr, esc.addr + 1})
      BY <1>a, <2>2 DEF ReadOk, Readable
    <3>5. Memory!Right("read", esc.addr, d)
      BY <3>2, <3>4, SameFit DEF Memory!Right
    <3> QED
      BY <2>1, <3>3, <3>5, Answered DEF Memory!Next
  <2>3. CASE ~ReadOk(esc.addr)
    <3>1. ~esc'.busy /\ esc'.ack = TRUE
      BY <1>1, <1>a, <2>3, DoneFields DEF ReadCommand
    <3>2. Memory!Refusable("read", esc.addr)
      BY <1>a, <2>3 DEF ReadOk, Memory!Refusable
    <3> QED
      BY <2>1, <3>1, <3>2, Answered DEF Memory!Next
  <2> QED
    BY <2>2, <2>3
<1>2. CASE WriteCommand
  <2>1. /\ phase = "run" /\ phase' = "run" /\ esc' = esc /\ esc.busy /\ esc.cmd = "write"
        /\ UNCHANGED <<image, readSize>>
    BY <1>2 DEF WriteCommand, Pending
  <2>2. UNCHANGED <<Request, Reply>>
    BY <2>1 DEF Request, Reply
  <2>3. CASE esc.addr < Blocks /\ flash' = [flash EXCEPT ![esc.addr] = esc.data[1]]
    <3>1. Request.op = "write" /\ Request.addr = esc.addr
          /\ Request.value = esc.data[1]
      BY <2>1 DEF Request
    <3>2. Memory!Write
      BY <2>1, <2>2, <2>3, <3>1, Serving DEF Memory!Write
    <3> QED
      BY <3>2 DEF Memory!Next
  <2>4. CASE UNCHANGED flash
    BY <2>1, <2>2, <2>4 DEF Memory!vars, EepromLoaded
  <2> QED
    BY <1>2, <2>3, <2>4 DEF WriteCommand
<1>3. CASE WriteDone
  <2>1. /\ phase = "run" /\ phase' = "run" /\ result # "none"
        /\ UNCHANGED <<flash, image, readSize>>
        /\ Done(esc.data, FALSE, result = "refused")
    BY <1>3, <1>a DEF WriteDone
  <2>2. ~esc'.busy /\ esc'.ack = (result = "refused") /\ esc'.data = esc.data
    BY <1>a, <2>1, DoneFields
  <2>3. /\ esc.busy /\ Request.op = "write" /\ Request.addr = esc.addr
        /\ Request.value = esc.data[1]
    BY <2>1 DEF IInv, UnderWay, Request
  <2>4. CASE result = "stored"
    <3>1. Memory!Right("write", esc.addr, esc.data)
      BY <2>1, <2>3, <2>4 DEF IInv, UnderWay, Memory!Right
    <3> QED
      BY <2>1, <2>2, <2>3, <2>4, <3>1, Answered DEF Memory!Next
  <2>5. CASE result = "refused"
    <3>1. Memory!Refusable("write", esc.addr)
      BY <2>1, <2>5 DEF IInv, UnderWay, Memory!Refusable
    <3> QED
      BY <2>1, <2>2, <2>3, <2>5, <3>1, Answered DEF Memory!Next
  <2> QED
    BY <2>1, <2>4, <2>5 DEF IInv, TypeOK
<1>4. CASE ReloadCommand
  <2>1. /\ phase = "run" /\ phase' = "run" /\ esc.busy /\ readSize = 4
        /\ Request.op = "reload" /\ UNCHANGED <<flash, image, readSize>>
    BY <1>4 DEF ReloadCommand, Pending, Request
  <2>2. CASE ValidConfig(flash)
    <3>1. ~esc'.busy /\ esc'.ack = FALSE /\ esc'.data = <<flash[AliasWord], flash[0]>>
      BY <1>4, <2>2, AnswerTypes, DoneFields DEF ReloadCommand, ReloadAnswer
    <3>2. Memory!Right("reload", Request.addr, esc'.data)
      BY <2>2, <3>1, SameFit DEF Memory!Right
    <3> QED
      BY <2>1, <3>1, <3>2, Answered DEF Memory!Next
  <2>3. CASE ~ValidConfig(flash)
    <3>1. ~esc'.busy /\ esc'.ack = TRUE
      BY <1>4, <1>a, <2>3, DoneFields DEF ReloadCommand
    <3>2. Memory!Refusable("reload", Request.addr)
      BY <2>3, SameFit DEF Memory!Refusable
    <3> QED
      BY <2>1, <3>1, <3>2, Answered DEF Memory!Next
  <2> QED
    BY <2>2, <2>3
<1>5. CASE ReloadSegment
  <2>1. /\ phase = "run" /\ phase' = "run" /\ esc.busy /\ readSize = 8
        /\ Request.op = "reload" /\ esc.cmd = "reload"
        /\ UNCHANGED <<flash, image, readSize>>
    BY <1>5 DEF ReloadSegment, Pending, Request
  <2>2. CASE \E d \in Answers : Done(d, FALSE, FALSE)
    <3>1. ~esc'.busy /\ esc'.ack = FALSE
      BY <2>2, DoneFields
    <3>2. Memory!Right("reload", Request.addr, esc'.data)
      BY <2>1 DEF Memory!Right
    <3> QED
      BY <2>1, <3>1, <3>2, Answered DEF Memory!Next
  <2>3. CASE Done(esc.data, esc.crc, TRUE)
    <3>1. ~esc'.busy /\ esc'.ack = TRUE
      BY <1>a, <2>3, DoneFields
    <3>2. Memory!Refusable("reload", Request.addr)
      BY <2>1 DEF Memory!Refusable
    <3> QED
      BY <2>1, <3>1, <3>2, Answered DEF Memory!Next
  <2>4. CASE \E d \in Answers :
               esc' = [esc EXCEPT !.addr = @ + 4, !.data = d,
                                  !.crc = FALSE, !.ack = FALSE]
    <3>1. esc'.busy /\ esc'.cmd = "reload"
      BY <1>a, <2>1, <2>4 DEF Registers
    <3>2. UNCHANGED <<Request, Reply>>
      BY <2>1, <3>1 DEF Request, Reply
    <3>3. EepromLoaded /\ EepromLoaded'
      BY DEF IInv
    <3> QED
      BY <2>1, <3>2, <3>3 DEF Memory!vars
  <2> QED
    BY <1>5, <2>2, <2>3, <2>4 DEF ReloadSegment
<1>6. CASE OtherCommand
  <2>1. /\ phase = "run" /\ phase' = "run" /\ esc.busy /\ Request.op = "other"
        /\ UNCHANGED <<flash, image, readSize>>
    BY <1>6 DEF OtherCommand, Pending, Request
  <2>2. ~esc'.busy /\ esc'.ack = TRUE
    BY <1>6, <1>a, DoneFields DEF OtherCommand
  <2>3. Memory!Refusable("other", Request.addr)
    BY DEF Memory!Refusable
  <2> QED
    BY <2>1, <2>2, <2>3, Answered DEF Memory!Next
<1> QED
  BY <1>1, <1>2, <1>3, <1>4, <1>5, <1>6 DEF Handler

LEMMA OutsideSteps ==
  IInv /\ IInv' /\ (StoreTimer \/ MasterCommand \/ PowerLoss)
    => [Memory!Next]_Memory!vars
<1> SUFFICES ASSUME IInv, IInv', StoreTimer \/ MasterCommand \/ PowerLoss
             PROVE  [Memory!Next]_Memory!vars
  OBVIOUS
<1>1. CASE StoreTimer
  BY <1>1 DEF StoreTimer, Memory!vars, Request, Reply, EepromLoaded
<1>2. CASE MasterCommand
  <2>1. /\ phase = "run" /\ phase' = "run" /\ ~esc.busy
        /\ UNCHANGED <<flash, image, readSize>>
    BY <1>2 DEF MasterCommand
  <2>2. esc'.busy
    <3>1. esc \in Registers
      BY DEF IInv, TypeOK
    <3> QED
      BY <1>2, <3>1, CommandTaken DEF Registers
  <2>3. esc' \in Registers
    BY DEF IInv, TypeOK
  <2>4. Request = NoRequest
    BY <2>1 DEF Request
  <2>5. Request' \in [op : {"read", "write", "reload", "other"},
                      addr : Nat, value : Values]
    BY <2>1, <2>2, <2>3 DEF Request, Registers, Answers
  <2>6. Reply' = NoReply
    BY <2>1, <2>2 DEF Reply
  <2>7. Memory!NoRequest = NoRequest /\ Memory!NoReply = NoReply
    BY DEF Memory!NoRequest, NoRequest, Memory!NoReply, NoReply
  <2>8. Memory!Ask
    BY <2>1, <2>4, <2>5, <2>6, <2>7, Serving DEF Memory!Ask
  <2> QED
    BY <2>8 DEF Memory!Next
<1>3. CASE PowerLoss
  <2>1. phase' = "off" /\ UNCHANGED <<flash, image, readSize>>
    BY <1>3 DEF PowerLoss
  <2>2. CASE phase = "run"
    <3>1. Memory!GoDown
      BY <2>1, <2>2, Hidden DEF Memory!GoDown
    <3> QED
      BY <3>1 DEF Memory!Next
  <2>3. CASE phase \notin {"run", "defaults"}
    BY <2>1, <2>3, HiddenStutter
  <2>4. CASE phase = "defaults"
    <3>1. Memory!Interrupt
      BY <2>1, <2>4, Hidden DEF Memory!Interrupt
    <3> QED
      BY <3>1 DEF Memory!Next
  <2> QED
    BY <2>2, <2>3, <2>4
<1> QED
  BY <1>1, <1>2, <1>3

\* ecat_flash_eeprom_init and EEPROM_CommandHandler over the flash are the
\* memory of SiiMemory: the slave serves only contents whose configuration,
\* product code and revision fit its firmware, a replacement by the defaults
\* goes from the first word on and ends with the last one unless it is cut
\* short, and then only the writes of the master change what is stored.
THEOREM MemoryImplemented == Spec => ImplementsSiiMemory
<1>1. IInv /\ IInv' /\ [Next]_vars => [Memory!Next]_Memory!vars
  <2>1. ASSUME UNCHANGED vars PROVE UNCHANGED Memory!vars
    BY <2>1 DEF vars, Memory!vars, Request, Reply, EepromLoaded
  <2> QED
    BY <2>1, StartSteps, HandlerSteps, OutsideSteps DEF Next
<1> QED
  BY <1>1, InitMemory, Invariance, PTL DEF Spec, ImplementsSiiMemory, Memory!Spec

=============================================================================
