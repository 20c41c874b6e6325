------------------------- MODULE ReceiveRingProofs -------------------------
(***************************************************************************)
(* Proofs about ReceiveRing, for a ring and a read buffer of any size.     *)
(***************************************************************************)
EXTENDS ReceiveRing, TLAPS

USE RingAssumption

\* Where the DMA writes next.
Here == Size - remaining

\* Index j is n bytes behind index i, round the end of the ring.
Behind(i, j, n) ==
  \/ i <= j /\ n = j - i
  \/ i > j /\ n = Size - i + j

\* The last bytes that came lie behind the DMA, the latest first.
Back(d) == IF d <= Here THEN Here - d ELSE Here - d + Size
Content ==
  \A d \in 1 .. Size : d <= received => ring[Back(d)] = received + 1 - d

InFlush == call = "flush" /\ pc # "idle"

\* While bytes may be taken, front_index is where the first that is not lies.
Front ==
  open /\ ~InFlush =>
    /\ received - taken <= Size - 1
    /\ ~torn => Behind(front, Here, received - taken)

\* A call that has read the DMA knows where it was not long ago.
Looked ==
  /\ pc # "idle" /\ call # "flush" => open
  /\ pc \in {"store", "compare", "result", "drop"} =>
       /\ received - leftAt <= Size - 1
       /\ call # "flush" => taken <= leftAt
  /\ pc = "store" => Behind(Size - left, Here, received - leftAt)
  /\ pc \in {"compare", "result", "drop"} =>
       leftAt <= rearAt /\ Behind(rear, Here, received - rearAt)
  /\ pc = "drop" => call = "flush"

\* What the comparison found is still so, unless the call is torn.
Compared ==
  pc = "result" /\ call # "flush" /\ ~torn => (ahead <=> front > rear)

IInv == TypeOK /\ Content /\ Front /\ Looked /\ Compared /\ ReceivedIsNext

-----------------------------------------------------------------------------
LEMMA Modulus ==
  ASSUME NEW a \in Int
  PROVE  a % Wrap \in 0 .. Wrap - 1 /\ (a \in 0 .. Wrap - 1 => a % Wrap = a)
OBVIOUS

LEMMA AvailableType == IInv => Available \in 0 .. Wrap - 1
<1> SUFFICES ASSUME IInv PROVE Available \in 0 .. Wrap - 1
  OBVIOUS
<1>1. Size - front + rear \in Int /\ rear - front \in Int
  BY DEF IInv, TypeOK
<1> QED
  BY <1>1, Modulus DEF Available

\* The result of a call that is not torn is what came and is not taken.
LEMMA Counted ==
  ASSUME IInv, pc = "result", call # "flush", ~torn
  PROVE  Available = rearAt - taken
<1>1. /\ Behind(front, Here, received - taken) /\ Behind(rear, Here, received - rearAt)
      /\ received - taken <= Size - 1 /\ taken <= rearAt /\ rearAt <= received
      /\ ahead <=> front > rear
  BY DEF IInv, TypeOK, Front, Looked, Compared, InFlush
<1>2. /\ front \in 0 .. Size - 1 /\ rear \in 0 .. Size - 1 /\ remaining \in 1 .. Size
      /\ rearAt \in Nat /\ taken \in Nat /\ received \in Nat
  BY DEF IInv, TypeOK
<1>3. (IF ahead THEN Size - front + rear ELSE rear - front) = rearAt - taken
  BY <1>1, <1>2 DEF Behind, Here
<1>4. rearAt - taken \in 0 .. Wrap - 1
  BY <1>1, <1>2
<1> QED
  BY <1>3, <1>4, Modulus DEF Available

LEMMA InitInv == Init => IInv
BY DEF Init, IInv, TypeOK, Content, Front, Looked, Compared, ReceivedIsNext,
   InFlush, Here

\* A byte goes where the DMA is, and the others lie one place further behind.
LEMMA ByteInv == IInv /\ Byte => IInv'
<1> SUFFICES ASSUME IInv, Byte PROVE IInv'
  OBVIOUS
<1>1. /\ ring \in [0 .. Size - 1 -> Nat] /\ remaining \in 1 .. Size
      /\ received \in Nat /\ Here \in 0 .. Size - 1
      /\ rearAt \in 0 .. received /\ taken \in 0 .. received
      /\ leftAt \in 0 .. received /\ rear \in 0 .. Size - 1 /\ left \in 1 .. Size
  BY DEF IInv, TypeOK, Here
<1>2. /\ ring' = [ring EXCEPT ![Here] = received + 1]
      /\ received' = received + 1
      /\ remaining' = IF remaining = 1 THEN Size ELSE remaining - 1
      /\ UNCHANGED <<front, rear, rearAt, locals, pc, answer, data, taken, open,
                     torn>>
      /\ Unread < Size - 1
  BY DEF Byte, Here
<1>3. Here' = IF Here = Size - 1 THEN 0 ELSE Here + 1
  BY <1>1, <1>2 DEF Here
<1>4. TypeOK'
  BY <1>1, <1>2 DEF IInv, TypeOK, locals
<1>5. Content'
  <2> SUFFICES ASSUME NEW d \in 1 .. Size, d <= received + 1
               PROVE  ring'[Back(d)'] = received + 2 - d
    BY <1>1, <1>2 DEF Content
  <2>1. CASE d = 1
    <3>1. Back(d)' = Here
      BY <1>1, <1>3, <2>1 DEF Back
    <3> QED
      BY <1>1, <1>2, <2>1, <3>1
  <2>2. CASE d # 1
    <3>1. d - 1 \in 1 .. Size /\ d - 1 <= received /\ d - 1 < Size
      BY <1>1, <2>2
    <3>2. Back(d)' = Back(d - 1) /\ Back(d - 1) \in 0 .. Size - 1
          /\ Back(d - 1) # Here
      BY <1>1, <1>3, <3>1 DEF Back
    <3>3. ring[Back(d - 1)] = received + 1 - (d - 1)
      BY <3>1 DEF IInv, Content
    <3> QED
      BY <1>1, <1>2, <3>1, <3>2, <3>3
  <2> QED
    BY <2>1, <2>2
<1>6. \A i \in Nat, n \in Nat :
        n < Size - 1 /\ Behind(i, Here, n) /\ i < Size
          => Behind(i, Here', n + 1)
  BY <1>1, <1>3 DEF Behind
<1>7. Front'
  <2>1. ASSUME open, ~InFlush
        PROVE  /\ received' - taken <= Size - 1
               /\ ~torn => Behind(front, Here', received' - taken)
    <3>1. received - taken < Size - 1 /\ received - taken \in Nat
      BY <1>1, <1>2, <2>1 DEF Unread, InFlush
    <3>2. CASE ~torn
      <4>1. front \in Nat /\ front < Size /\ Behind(front, Here, received - taken)
        BY <2>1, <3>2 DEF IInv, TypeOK, Front
      <4>2. Behind(front, Here', (received - taken) + 1)
        BY <1>6, <3>1, <4>1
      <4>3. received' - taken = (received - taken) + 1
        BY <1>1, <1>2
      <4> QED
        BY <3>1, <4>2, <4>3
    <3>3. received' - taken <= Size - 1
      BY <1>1, <1>2, <3>1
    <3> QED
      BY <3>2, <3>3
  <2> QED
    BY <1>2, <2>1 DEF Front, InFlush, locals
<1>8. Looked'
  <2>1. ASSUME pc \in {"store", "compare", "result", "drop"}
        PROVE  received - leftAt < Size - 1 /\ received - leftAt \in Nat
    <3>1. CASE call = "flush"
      BY <1>1, <1>2, <2>1, <3>1 DEF Unread
    <3>2. CASE call # "flush"
      <4>1. open /\ taken <= leftAt
        BY <2>1, <3>2 DEF IInv, Looked
      <4> QED
        BY <1>1, <1>2, <3>2, <4>1 DEF Unread
    <3> QED
      BY <3>1, <3>2
  <2>2. ASSUME pc = "store" PROVE Behind(Size - left, Here', received' - leftAt)
    <3>1. Behind(Size - left, Here, received - leftAt)
      BY <2>2 DEF IInv, Looked
    <3>2. Size - left \in Nat /\ Size - left < Size
      BY <1>1
    <3>3. Behind(Size - left, Here', (received - leftAt) + 1)
      BY <1>6, <2>1, <2>2, <3>1, <3>2
    <3>4. received' - leftAt = (received - leftAt) + 1
      BY <1>1, <1>2
    <3> QED
      BY <3>3, <3>4
  <2>3. ASSUME pc \in {"compare", "result", "drop"}
        PROVE  leftAt <= rearAt /\ Behind(rear, Here', received' - rearAt)
    <3>1. leftAt <= rearAt /\ Behind(rear, Here, received - rearAt)
      BY <2>3 DEF IInv, Looked
    <3>2. received - rearAt < Size - 1 /\ received - rearAt \in Nat
      BY <1>1, <2>1, <2>3, <3>1
    <3>3. Behind(rear, Here', (received - rearAt) + 1)
      BY <1>1, <1>6, <3>1, <3>2
    <3>4. received' - rearAt = (received - rearAt) + 1
      BY <1>1, <1>2
    <3> QED
      BY <3>1, <3>3, <3>4
  <2>4. UNCHANGED <<call, left, leftAt, ahead, pc, open, taken, rear, rearAt>>
    BY <1>2 DEF locals
  <2>5. pc \in {"store", "compare", "result", "drop"} => received' - leftAt <= Size - 1
    BY <1>1, <1>2, <2>1
  <2>6. /\ pc # "idle" /\ call # "flush" => open
        /\ pc = "drop" => call = "flush"
        /\ pc \in {"store", "compare", "result", "drop"} =>
             (call # "flush" => taken <= leftAt)
    BY DEF IInv, Looked
  <2> QED
    BY <2>2, <2>3, <2>4, <2>5, <2>6 DEF Looked
<1>9. Compared' /\ ReceivedIsNext'
  BY <1>2 DEF IInv, Compared, ReceivedIsNext, locals
<1> QED
  BY <1>4, <1>5, <1>7, <1>8, <1>9 DEF IInv

\* The four steps of modbus_uart_available.
LEMMA LookInv ==
  IInv /\ ((\E c \in {"flush", "receive", "check"} : Call(c))
           \/ ReadDma \/ StoreRear \/ Compare) => IInv'
<1> SUFFICES ASSUME IInv,
                    \/ \E c \in {"flush", "receive", "check"} : Call(c)
                    \/ ReadDma \/ StoreRear \/ Compare
             PROVE  IInv'
  OBVIOUS
<1>a. /\ remaining \in 1 .. Size /\ received \in Nat /\ Here \in 0 .. Size - 1
      /\ rearAt \in 0 .. received /\ taken \in 0 .. received
      /\ leftAt \in 0 .. received /\ rear \in 0 .. Size - 1 /\ left \in 1 .. Size
  BY DEF IInv, TypeOK, Here
<1>b. UNCHANGED <<ring, remaining, received, Here>> => (Content => Content')
  BY DEF Content, Back, Here
<1>1. CASE \E c \in {"flush", "receive", "check"} : Call(c)
  BY <1>1, <1>b DEF Call, line, IInv, TypeOK, Front, Looked, Compared,
     ReceivedIsNext, InFlush, Here
<1>2. CASE ReadDma
  <2>1. Behind(Size - left', Here, received - leftAt')
    BY <1>2, <1>a DEF ReadDma, Behind, Here
  <2> QED
    BY <1>2, <1>a, <1>b, <2>1 DEF ReadDma, line, IInv, TypeOK, Front, Looked,
       Compared, ReceivedIsNext, InFlush, Here
<1>3. CASE StoreRear
  BY <1>3, <1>a, <1>b DEF StoreRear, line, locals, IInv, TypeOK, Front, Looked,
     Compared, ReceivedIsNext, InFlush, Here
<1>4. CASE Compare
  BY <1>4, <1>a, <1>b DEF Compare, line, IInv, TypeOK, Front, Looked, Compared,
     ReceivedIsNext, InFlush, Here
<1> QED
  BY <1>1, <1>2, <1>3, <1>4

\* Byte number k lies where front_index says, k - taken - 1 places on.
LEMMA CellIs ==
  ASSUME IInv, open, ~InFlush \/ call # "flush", ~torn,
         NEW i \in 1 .. received - taken
  PROVE  Cell(front + i - 1) = taken + i
<1>1. /\ received - taken <= Size - 1 /\ Behind(front, Here, received - taken)
      /\ front \in 0 .. Size - 1 /\ Here \in 0 .. Size - 1
      /\ received \in Nat /\ taken \in 0 .. received
  BY DEF IInv, TypeOK, Front, InFlush, Here
<1> DEFINE d == received - taken - i + 1
<1>2. d \in 1 .. Size /\ d <= received
  BY <1>1
<1>3. ring[Back(d)] = received + 1 - d
  BY <1>2 DEF IInv, Content
<1>4. received + 1 - d = taken + i
  BY <1>1
<1>5. Back(d) = (IF front + i - 1 >= Size THEN front + i - 1 - Size ELSE front + i - 1)
      /\ Back(d) < Size
  BY <1>1, <1>2 DEF Back, Behind
<1>6. Cell(front + i - 1) = ring[Back(d)]
  <2> DEFINE j == front + i - 1
  <2>1. (IF j >= Size THEN j - Size ELSE j) = Back(d)
    BY <1>1, <1>5
  <2> HIDE DEF j
  <2>2. Cell(j) = ring[Back(d)]
    BY <1>5, <2>1 DEF Cell
  <2> QED
    BY <2>2 DEF j
<1> QED
  BY <1>3, <1>4, <1>6

LEMMA ReceiveInv == IInv /\ Receive => IInv'
<1> SUFFICES ASSUME IInv, Receive PROVE IInv'
  OBVIOUS
<1> DEFINE n == IF Available > MaxLen THEN MaxLen ELSE Available
<1>1. /\ pc = "result" /\ call = "receive" /\ pc' = "idle" /\ open
      /\ data' = [i \in 1 .. n |-> Cell(front + i - 1)]
      /\ front' = IF n > 0 /\ front + n >= Size THEN front + n - Size
                   ELSE front + n
      /\ taken' = (IF torn THEN taken ELSE taken + n)
      /\ answer' = Available
      /\ UNCHANGED <<ring, remaining, received, rear, rearAt, call, left, leftAt,
                     ahead, open, torn>>
  BY DEF Receive, line, locals, IInv, Looked
<1>2. Available \in 0 .. Wrap - 1 /\ n \in Nat
  BY AvailableType
<1>3. \A i \in 1 .. n : Cell(front + i - 1) \in Nat
  BY <1>2 DEF Cell, IInv, TypeOK
<1>4. data' \in Seq(Nat) /\ Len(data') = n /\ DOMAIN data' = 1 .. n
  BY <1>1, <1>2, <1>3
<1>5. ~torn => /\ n = rearAt - taken /\ taken + n = rearAt /\ n <= received - taken
               /\ Behind(front, Here, received - taken)
               /\ received - taken <= Size - 1 /\ front < Size
  <2>1. ASSUME ~torn PROVE Available = rearAt - taken
    BY <1>1, <2>1, Counted
  <2> QED
    BY <1>1, <2>1 DEF IInv, TypeOK, Front, InFlush
<1> HIDE DEF n
<1>6. ~torn => /\ front' \in 0 .. Size - 1 /\ taken' = rearAt
               /\ Behind(front', Here, received - taken')
  BY <1>1, <1>2, <1>5 DEF IInv, TypeOK, Behind, Here
<1>7. TypeOK'
  BY <1>1, <1>2, <1>4, <1>6 DEF IInv, TypeOK
<1>8. Content' /\ Here' = Here
  BY <1>1 DEF IInv, Content, Back, Here
<1>9. Front'
  <2>1. received - taken <= Size - 1
    BY <1>1 DEF IInv, Front, InFlush
  <2>2. received - taken' <= Size - 1
    BY <1>1, <1>2, <2>1 DEF IInv, TypeOK
  <2> QED
    BY <1>1, <1>6, <1>8, <2>2 DEF Front
<1>10. Looked' /\ Compared'
  BY <1>1 DEF Looked, Compared
<1>11. ReceivedIsNext'
  <2> SUFFICES ASSUME ~torn, NEW i \in 1 .. n PROVE data'[i] = taken' - n + i
    BY <1>1, <1>4 DEF ReceivedIsNext
  <2>a. received \in Nat /\ taken \in Nat /\ i \in 1 .. received - taken
    BY <1>2, <1>5 DEF IInv, TypeOK
  <2>1. Cell(front + i - 1) = taken + i
    BY <1>1, <2>a, CellIs
  <2> QED
    BY <1>1, <1>2, <1>5, <2>1 DEF IInv, TypeOK
<1> QED
  BY <1>7, <1>8, <1>9, <1>10, <1>11 DEF IInv

LEMMA EndInv ==
  IInv /\ (CheckQuiet \/ FlushLooked \/ Drop \/ Close) => IInv'
<1> SUFFICES ASSUME IInv, CheckQuiet \/ FlushLooked \/ Drop \/ Close PROVE IInv'
  OBVIOUS
<1>a. Available \in 0 .. Wrap - 1
  BY AvailableType
<1>b. UNCHANGED <<ring, remaining, received, Here>> => (Content => Content')
  BY DEF Content, Back, Here
<1>1. CASE CheckQuiet
  BY <1>1, <1>a, <1>b DEF CheckQuiet, line, locals, IInv, TypeOK, Front, Looked,
     Compared, ReceivedIsNext, InFlush, Here
<1>2. CASE FlushLooked
  BY <1>2, <1>a, <1>b DEF FlushLooked, line, locals, IInv, TypeOK, Front, Looked,
     Compared, ReceivedIsNext, InFlush, Here
<1>3. CASE Drop
  <2>1. /\ Behind(rear, Here, received - rearAt) /\ received - rearAt <= Size - 1
        /\ rear \in 0 .. Size - 1
    BY <1>3 DEF Drop, IInv, TypeOK, Looked
  <2>2. data' \in Seq(Nat) /\ DOMAIN data' = {}
    BY <1>3 DEF Drop
  <2>3. /\ pc' = "idle" /\ front' = rear /\ taken' = rearAt
        /\ open' = TRUE /\ torn' = FALSE
        /\ UNCHANGED <<ring, remaining, received, rear, rearAt, call, left,
                       leftAt, ahead, answer, Here>>
    BY <1>3 DEF Drop, line, locals, Here
  <2>a. /\ ring \in [0 .. Size - 1 -> Nat] /\ remaining \in 1 .. Size
        /\ received \in Nat /\ rearAt \in 0 .. received
        /\ call \in {"flush", "receive", "check"} /\ left \in 1 .. Size
        /\ leftAt \in 0 .. received /\ ahead \in BOOLEAN
        /\ answer \in 0 .. Wrap - 1
    BY DEF IInv, TypeOK
  <2>b. /\ ring' \in [0 .. Size - 1 -> Nat] /\ remaining' \in 1 .. Size
        /\ received' \in Nat /\ rearAt' \in 0 .. received'
        /\ taken' \in 0 .. received' /\ leftAt' \in 0 .. received'
    BY <2>3, <2>a
  <2>c. /\ front' \in Nat /\ front' < Size /\ rear' \in 0 .. Size - 1
        /\ answer' \in 0 .. Wrap - 1 /\ left' \in 1 .. Size
    BY <2>1, <2>3, <2>a
  <2>d. /\ ahead' \in BOOLEAN /\ torn' \in BOOLEAN /\ open' \in BOOLEAN
        /\ call' \in {"flush", "receive", "check"} /\ pc' = "idle"
    BY <2>3, <2>a, Zenon
  <2>4. TypeOK'
    BY <2>2, <2>b, <2>c, <2>d DEF TypeOK
  <2>5. Front' /\ Looked' /\ Compared'
    BY <2>1, <2>3 DEF Front, Looked, Compared
  <2>6. ReceivedIsNext'
    BY <2>2 DEF ReceivedIsNext
  <2> QED
    BY <1>b, <2>3, <2>4, <2>5, <2>6 DEF IInv
<1>4. CASE Close
  BY <1>4, <1>b DEF Close, line, locals, IInv, TypeOK, Front, Looked, Compared,
     ReceivedIsNext, InFlush, Here
<1> QED
  BY <1>1, <1>2, <1>3, <1>4

\* The shell looks: what the comparison found can change only by a wrap round
\* the end, and that is what torn says.
LEMMA GetDiagInv == IInv /\ GetDiag => IInv'
<1> SUFFICES ASSUME IInv, GetDiag PROVE IInv'
  OBVIOUS
<1>1. /\ rear' = Here /\ rearAt' = received
      /\ torn' = (torn \/ (pc = "result" /\ ~ahead /\ Here < front))
      /\ UNCHANGED <<ring, remaining, received, front, call, left, leftAt, ahead,
                     pc, answer, data, taken, open>>
  BY DEF GetDiag, line, locals, Here
<1>2. /\ remaining \in 1 .. Size /\ received \in Nat /\ Here \in 0 .. Size - 1
      /\ rearAt \in 0 .. received /\ taken \in 0 .. received
      /\ leftAt \in 0 .. received /\ rear \in 0 .. Size - 1
      /\ torn \in BOOLEAN /\ ahead \in BOOLEAN
      /\ front \in Nat /\ (~torn => front < Size)
  BY DEF IInv, TypeOK, Here
<1>3. TypeOK'
  BY <1>1, <1>2 DEF IInv, TypeOK
<1>4. Content' /\ Here' = Here
  BY <1>1 DEF IInv, Content, Back, Here
<1>5. ~torn' => ~torn
  BY <1>1
<1>6. Front' /\ ReceivedIsNext'
  BY <1>1, <1>4, <1>5 DEF IInv, Front, InFlush, ReceivedIsNext
<1>7. Looked'
  BY <1>1, <1>2, <1>4 DEF IInv, Looked, Behind
<1>8. Compared'
  <2> SUFFICES ASSUME pc = "result", call # "flush", ~torn'
               PROVE  ahead <=> front > Here
    BY <1>1, <1>4 DEF Compared
  <2>b. open /\ leftAt <= rearAt /\ taken <= leftAt
        /\ Behind(rear, Here, received - rearAt)
    BY DEF IInv, Looked
  <2>c. Behind(front, Here, received - taken) /\ received - taken <= Size - 1
    BY <1>5, <2>b DEF IInv, Front, InFlush
  <2>1. /\ Behind(front, Here, received - taken) /\ received - taken <= Size - 1
        /\ Behind(rear, Here, received - rearAt) /\ taken <= rearAt
    BY <1>2, <2>b, <2>c
  <2>a. ahead <=> front > rear
    BY <1>5 DEF IInv, Compared
  <2>2. CASE ahead
    BY <1>2, <1>5, <2>1, <2>a, <2>2 DEF Behind
  <2>3. CASE ~ahead
    BY <1>1, <1>2, <2>3
  <2> QED
    BY <2>2, <2>3
<1> QED
  BY <1>3, <1>4, <1>6, <1>7, <1>8 DEF IInv

LEMMA NextInv == IInv /\ [Next]_vars => IInv'
<1>1. ASSUME IInv, UNCHANGED vars PROVE IInv'
  BY <1>1 DEF vars, IInv, TypeOK, Content, Back, Front, Looked, Compared,
     ReceivedIsNext, InFlush, Here
<1> QED
  BY <1>1, ByteInv, LookInv, ReceiveInv, EndInv, GetDiagInv DEF Next, Task

LEMMA Invariance == Spec => []IInv
BY InitInv, NextInv, PTL DEF Spec

\* The indices of the ring keep their ranges, and front_index stays in the
\* ring unless a call is torn.
THEOREM TypeCorrect == Spec => []TypeOK
<1>1. IInv => TypeOK
  BY DEF IInv
<1> QED
  BY <1>1, Invariance, PTL

\* modbus_uart_receive returns the bytes in the order they came, none twice and
\* none left out, and nothing that came before the flush.
THEOREM ReceivedCorrect == Spec => []ReceivedIsNext
<1>1. IInv => ReceivedIsNext
  BY DEF IInv
<1> QED
  BY <1>1, Invariance, PTL

\* modbus_uart_available counts what is there, round the end of the ring and
\* with the shell writing rear_index too.
THEOREM AvailableCorrect == Spec => AvailableIsUnread
<1>1. IInv /\ [Next]_vars =>
        [pc = "result" /\ pc' = "idle" /\ ~torn => answer' = rearAt - taken]_vars
  <2> SUFFICES ASSUME IInv, Next, pc = "result", pc' = "idle", ~torn
               PROVE  answer' = rearAt - taken
    OBVIOUS
  <2>1. Receive \/ CheckQuiet
    BY DEF Next, Task, Byte, Call, ReadDma, StoreRear, Compare, FlushLooked,
       Drop, Close, GetDiag
  <2>2. answer' = Available /\ call # "flush"
    BY <2>1 DEF Receive, CheckQuiet
  <2> QED
    BY <2>2, Counted
<1> QED
  BY <1>1, Invariance, PTL DEF Spec, AvailableIsUnread

=============================================================================
