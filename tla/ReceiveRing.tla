---------------------------- MODULE ReceiveRing ----------------------------
(***************************************************************************)
(* The receive side of the Modbus serial line (modbus_uart_available,      *)
(* modbus_uart_receive, modbus_uart_flush and modbus_master_get_diag of    *)
(* modbus_master_app.c): a DMA channel writes round a ring for ever, the   *)
(* Modbus task takes the bytes from front_index on, and rear_index, which  *)
(* tells where the DMA was when somebody last looked, is written by the    *)
(* Modbus task and by the shell task, which has the higher priority.       *)
(* Bytes are numbered from 1 as they arrive.                               *)
(***************************************************************************)
EXTENDS Integers, Sequences

CONSTANTS
  Size,      \* MODBUS_RX_BUFFER_SIZE
  MaxLen,    \* AGILE_MODBUS_MAX_ADU_LENGTH, the room of the read buffer
  Wrap,      \* 2^32: the indices and lengths are unsigned
  MaxBytes,  \* bound on the bytes that arrive
  MaxFront   \* bound on front_index once it has run away

ASSUME RingAssumption ==
  /\ Size \in Nat \ {0, 1} /\ MaxLen \in Nat /\ MaxLen >= Size
  /\ Wrap \in Nat /\ Wrap >= 2 * (MaxFront + Size)
  /\ MaxBytes \in Nat /\ MaxFront \in Nat /\ MaxFront >= Size

VARIABLES
  ring,       \* s_uart_rx_buf, a byte as its number, 0 when none came
  remaining,  \* the transfer size the DMA still has to its end of the ring
  received,   \* the bytes that have arrived
  front,      \* s_rx_cursor.front_index
  rear,       \* s_rx_cursor.rear_index ...
  rearAt,     \* ... and the bytes that had arrived when the DMA was read for it
  call,       \* what called modbus_uart_available: "flush", "receive", "check"
  pc,         \* where that call is
  left,       \* dma_remaining_size of the call ...
  leftAt,     \* ... and the bytes that had arrived then
  ahead,      \* whether the call found front_index > rear_index
  answer,     \* the last result of modbus_uart_available
  data,       \* what the last receive since the flush returned
  taken,      \* the number of the last byte flushed or taken
  open,       \* since a flush: bytes may be taken
  torn        \* since a flush: see GetDiag

line   == <<ring, remaining, received>>
locals == <<call, left, leftAt, ahead>>
vars   == <<ring, remaining, received, front, rear, rearAt, call, pc, left,
            leftAt, ahead, answer, data, taken, open, torn>>

Init ==
  /\ ring = [i \in 0 .. Size - 1 |-> 0] /\ remaining = Size /\ received = 0
  /\ front = 0 /\ rear = 0 /\ rearAt = 0
  /\ call = "flush" /\ pc = "idle" /\ left = Size /\ leftAt = 0 /\ ahead = FALSE
  /\ answer = 0 /\ data = <<>> /\ taken = 0 /\ open = FALSE /\ torn = FALSE

\* A turn of the task is 10 ms, in which fewer than Size bytes arrive; while no
\* answer is awaited, any number may.
Unread ==
  IF pc = "idle" \/ call # "flush" THEN IF open THEN received - taken ELSE 0
  ELSE IF pc = "read" THEN 0 ELSE received - leftAt

\* The two linked descriptors start the channel again at the end of the ring.
Byte ==
  /\ received < MaxBytes /\ Unread < Size - 1
  /\ ring' = [ring EXCEPT ![Size - remaining] = received + 1]
  /\ remaining' = IF remaining = 1 THEN Size ELSE remaining - 1
  /\ received' = received + 1
  /\ UNCHANGED <<front, rear, rearAt, locals, pc, answer, data, taken, open, torn>>

(***************************************************************************)
(* modbus_uart_available on the Modbus task.  Both indices are volatile:   *)
(* each is read again wherever it is named.                                *)
(***************************************************************************)
\* A request begins with a flush, receives follow until the answer is complete
\* or late; after a receive the task looks whether the line is quiet.
Call(c) ==
  /\ pc = "idle" /\ (c # "flush" => open /\ front <= MaxFront)
  /\ pc' = "read" /\ call' = c
  /\ UNCHANGED <<line, front, rear, rearAt, left, leftAt, ahead, answer, data,
                 taken, open, torn>>

ReadDma ==
  /\ pc = "read" /\ pc' = "store"
  /\ left' = remaining /\ leftAt' = received
  /\ UNCHANGED <<line, front, rear, rearAt, call, ahead, answer, data, taken,
                 open, torn>>

StoreRear ==
  /\ pc = "store" /\ pc' = "compare"
  /\ rear' = Size - left /\ rearAt' = leftAt
  /\ UNCHANGED <<line, front, locals, answer, data, taken, open, torn>>

\* Mutant of Compare: >= instead of >.
CompareNotLess ==
  /\ pc = "compare" /\ pc' = "result"
  /\ ahead' = (front >= rear)
  /\ UNCHANGED <<line, front, rear, rearAt, call, left, leftAt, answer, data,
                 taken, open, torn>>

Compare ==
  /\ pc = "compare" /\ pc' = "result"
  /\ ahead' = (front > rear)
  /\ UNCHANGED <<line, front, rear, rearAt, call, left, leftAt, answer, data,
                 taken, open, torn>>

Available ==
  (IF ahead THEN Size - front + rear ELSE rear - front) % Wrap

(***************************************************************************)
(* Its callers.                                                            *)
(***************************************************************************)
\* Mutant of Cell: the index is not folded back.
CellUnfolded(i) == IF i < Size THEN ring[i] ELSE 0

\* The byte at an index, which is folded back once; nobody knows what lies
\* behind the ring.
Cell(i) ==
  LET index == IF i >= Size THEN i - Size ELSE i
  IN IF index < Size THEN ring[index] ELSE 0

\* Mutant of Receive: the front is folded back from beyond the ring only.
ReceiveFoldsLate ==
  /\ pc = "result" /\ call = "receive" /\ pc' = "idle"
  /\ LET n == IF Available > MaxLen THEN MaxLen ELSE Available
     IN /\ data' = [i \in 1 .. n |-> Cell(front + i - 1)]
        /\ front' = IF n > 0 /\ front + n > Size THEN front + n - Size ELSE front + n
        /\ taken' = IF torn THEN taken ELSE taken + n
  /\ answer' = Available
  /\ UNCHANGED <<line, rear, rearAt, locals, open, torn>>

\* The bytes are copied and the front moves on; nothing is done when none came.
Receive ==
  /\ pc = "result" /\ call = "receive" /\ pc' = "idle"
  /\ LET n == IF Available > MaxLen THEN MaxLen ELSE Available
     IN /\ data' = [i \in 1 .. n |-> Cell(front + i - 1)]
        /\ front' = IF n > 0 /\ front + n >= Size THEN front + n - Size ELSE front + n
        /\ taken' = IF torn THEN taken ELSE taken + n
  /\ answer' = Available
  /\ UNCHANGED <<line, rear, rearAt, locals, open, torn>>

\* The task looks whether the line is quiet.
CheckQuiet ==
  /\ pc = "result" /\ call = "check" /\ pc' = "idle"
  /\ answer' = Available
  /\ UNCHANGED <<line, front, rear, rearAt, locals, data, taken, open, torn>>

FlushLooked ==
  /\ pc = "result" /\ call = "flush" /\ pc' = "drop"
  /\ answer' = Available
  /\ UNCHANGED <<line, front, rear, rearAt, locals, data, taken, open, torn>>

\* front_index = rear_index: what has come so far is dropped.
Drop ==
  /\ pc = "drop" /\ pc' = "idle"
  /\ front' = rear /\ taken' = rearAt /\ data' = <<>>
  /\ open' = TRUE /\ torn' = FALSE
  /\ UNCHANGED <<line, rear, rearAt, locals, answer>>

\* The exchange is over; the task waits for the next poll.
Close ==
  /\ pc = "idle" /\ open /\ open' = FALSE
  /\ UNCHANGED <<line, front, rear, rearAt, locals, pc, answer, data, taken, torn>>

\* modbus_master_get_diag, in a critical section of the shell task.  When it
\* finds that the DMA has gone round between the comparison of a call and its
\* result, the call subtracts the greater index from the smaller.
GetDiag ==
  /\ rear' = Size - remaining /\ rearAt' = received
  /\ torn' = (torn \/ (pc = "result" /\ ~ahead /\ rear' < front))
  /\ UNCHANGED <<line, front, locals, pc, answer, data, taken, open>>

Task == \/ \E c \in {"flush", "receive", "check"} : Call(c)
        \/ ReadDma \/ StoreRear \/ Compare
        \/ Receive \/ CheckQuiet \/ FlushLooked \/ Drop \/ Close

Next == Byte \/ Task \/ GetDiag

Spec == Init /\ [][Next]_vars

(***************************************************************************)
(* Properties.                                                             *)
(***************************************************************************)
TypeOK ==
  /\ ring \in [0 .. Size - 1 -> Nat] /\ remaining \in 1 .. Size /\ received \in Nat
  /\ front \in Nat /\ (~torn => front < Size) /\ rear \in 0 .. Size - 1
  /\ rearAt \in 0 .. received /\ taken \in 0 .. received
  /\ call \in {"flush", "receive", "check"}
  /\ pc \in {"idle", "read", "store", "compare", "result", "drop"}
  /\ left \in 1 .. Size /\ leftAt \in 0 .. received /\ ahead \in BOOLEAN
  /\ answer \in 0 .. Wrap - 1 /\ data \in Seq(Nat)
  /\ open \in BOOLEAN /\ torn \in BOOLEAN

\* What a receive returns follows without a gap what was flushed or taken
\* before, round the end of the ring and whatever the shell does in between,
\* unless the shell tore a call since the flush: then a flush mends it.
ReceivedIsNext ==
  ~torn => \A i \in DOMAIN data : data[i] = taken - Len(data) + i

\* The length a receive or a check works with is that of what had arrived when
\* anybody last looked and is not taken: zero means that the line was quiet.
AvailableIsUnread ==
  [][pc = "result" /\ pc' = "idle" /\ ~torn => answer' = rearAt - taken]_vars
=============================================================================
