--------------------------- MODULE ModbusMaster ---------------------------
(***************************************************************************)
(* The Modbus RTU master task of user_app/modbus/modbus_master_app.c with  *)
(* the two words of process data it shares with the EtherCAT side          *)
(* (user_app/app/charger_app.c), the UART it sends and receives on, and    *)
(* the charger board that answers it.                                      *)
(*                                                                         *)
(* One step of the task is one turn of its 10 ms loop.  A turn that reads  *)
(* shared state twice is two actions (Refresh and Select, Receive and      *)
(* CheckIdle), because an EtherCAT interrupt or an arriving byte may fall  *)
(* between the two reads.  A word of bits is the set of its one-bits.      *)
(***************************************************************************)
EXTENDS Integers, FiniteSets

CONSTANTS
  BitCount,      \* MODBUS_CONTROL_BIT_COUNT: the coils 0x5000 ..
  WordBits,      \* number of bits of control_word, the reserved ones included
  TimeoutTicks,  \* MODBUS_RESPONSE_TIMEOUT_MS in turns of the loop
  PollTicks,     \* MODBUS_POLL_PERIOD_MS in turns of the loop
  Cuts,          \* lengths at which a reply may be split over two turns
  EchoChecked,   \* the library compares the echoed coil with the request
  TxMayStall,    \* a transmission may take longer than the timeout
  Interlocked,   \* coils the board refuses to switch on ...
  BmsBit,        \* ... while this one is off
  MaxFaults,     \* bound: disturbances of the line and of the board
  MaxUpdates     \* bound: changes of the requested control word

ControlBits == 0 .. (BitCount - 1)
Words       == SUBSET (0 .. (WordBits - 1))
Phases      == {"control", "status", "parameters"}

ASSUME BitsAssumption ==
  /\ BitCount \in Nat \ {0}
  /\ WordBits \in Nat
  /\ BitCount <= WordBits
ASSUME TimeAssumption ==
  /\ TimeoutTicks \in Nat \ {0}
  /\ PollTicks \in Nat \ {0}
  /\ PollTicks <= TimeoutTicks
ASSUME ChannelAssumption ==
  /\ Cuts \subseteq Nat \ {0}
  /\ EchoChecked \in BOOLEAN
  /\ TxMayStall \in BOOLEAN
ASSUME BoardAssumption ==
  /\ Interlocked \subseteq ControlBits
  /\ BmsBit \in ControlBits
ASSUME BoundAssumption ==
  /\ MaxFaults \in Nat
  /\ MaxUpdates \in Nat

\* Variants of definitions of this module, each with a plausible mistake; the
\* properties must tell them from the code.
MinLenOfEcho == 8   \* the shortest good answer, not the shortest answer

\* MODBUS_RX_MIN_LEN: the length of an exception reply.
MinLen == 5

VARIABLES
  rxpdo,      \* s_rxpdo.control_word
  txpdo,      \* s_txpdo: the status and parameter samples last published
  phase,      \* which exchange the state names: control, status, parameters
  at,         \* how far the exchange is, or "poll_delay"
  age,        \* now - state_start, in turns of the loop
  applied,    \* s_applied_control_word
  pending,    \* s_pending_control_mask
  active,     \* s_active_control_bit
  value,      \* s_active_control_value
  statusBits, \* s_status_bits
  registers,  \* s_feedback_registers
  sendBuf,    \* the request serialised in s_modbus_send_buf
  readBuf,    \* what the last read left in s_modbus_read_buf
  txBusy,     \* s_tx_busy
  dma,        \* the transmit channel and shift register: "idle", "sending"
  rx,         \* the bytes in the receive ring not yet read
  board,      \* the charger board: its UART and the request it works on
  coil,       \* the coils of the board that are on
  faults,     \* disturbances so far
  updates     \* changes of the control word so far

taskVars  == <<phase, at, age, applied, pending, active, value, statusBits,
               registers, sendBuf, readBuf, txBusy>>
lineVars  == <<dma, rx, board, coil>>
countVars == <<faults, updates>>
vars == <<rxpdo, txpdo, taskVars, lineVars, countVars>>

(***************************************************************************)
(* Requests, replies and the bytes between them.                           *)
(***************************************************************************)
WriteBit(b, v)  == [fc |-> "control", bit |-> b, on |-> v]
Read(p)         == [fc |-> p, bit |-> 0, on |-> FALSE]
Requests        == [fc : Phases, bit : ControlBits, on : BOOLEAN]

\* A reply echoes its request and, for a read, carries a sample of the board.
Frame(kind, req, sample) == [kind |-> kind, req |-> req, sample |-> sample]
Frames == [kind : {"normal", "exception", "garbage"}, req : Requests,
           sample : SUBSET ControlBits]

\* Reply lengths on the wire: FC05 echo, FC02 with 2 and FC03 with 12 bytes.
FrameLen(f) == CASE f.kind = "exception"    -> 5
                 [] f.req.fc = "status"     -> 7
                 [] f.req.fc = "parameters" -> 17
                 [] OTHER                   -> 8

\* What a reader of some received bytes can tell: nothing there, the first
\* part of one frame, exactly one frame, or bytes that parse as no frame.
NoFrame  == Frame("garbage", Read("status"), {})
NoBytes  == [len |-> 0, holds |-> "nothing", frame |-> NoFrame]
Contents == [len : Nat, holds : {"nothing", "head", "whole", "torn"},
             frame : Frames]

\* The bytes c followed by n more: part of f that ends as part says.
Arrived(c, n, part, f) ==
  LET holds == IF c.holds = "nothing" /\ part # "tail" THEN part
               ELSE IF c.holds = "head" /\ part = "tail" /\ c.frame = f
                    THEN "whole" ELSE "torn"
  IN  [len   |-> c.len + n,
       holds |-> holds,
       frame |-> IF holds = "torn" THEN NoFrame ELSE f]

\* agile_modbus_deserialize_*: one whole reply, its checksum right, to this
\* function code; of a coil's echo the library may or may not compare the rest.
Accepts(c, req) ==
  /\ c.holds = "whole"
  /\ c.frame.kind = "normal"
  /\ c.frame.req.fc = req.fc
  /\ EchoChecked => c.frame.req = req

(***************************************************************************)
(* The task.                                                               *)
(***************************************************************************)
Older == IF age > TimeoutTicks THEN age ELSE age + 1

Enter(p, a) == phase' = p /\ at' = a /\ age' = 1
PollDelay   == Enter("control", "poll_delay")

ChangedBitsUnmasked == (rxpdo \ applied) \cup (applied \ rxpdo)
ChangedBitsRising   == (rxpdo \ applied) \cap ControlBits

\* The exclusive or of requested and applied word, reserved bits masked off.
ChangedBits == ((rxpdo \ applied) \cup (applied \ rxpdo)) \cap ControlBits

StillPendingDropped(mask) == {}

\* What refreshing keeps of the mask: "|=", so a bit stays until confirmed.
StillPending(mask) == mask

\* modbus_refresh_pending_controls, and the branch on an empty mask.
Refresh ==
  /\ phase = "control" /\ at = "send"
  /\ pending' = StillPending(pending) \cup ChangedBits
  /\ IF pending' = {}
     THEN Enter("status", "send")
     ELSE at' = "select" /\ UNCHANGED <<phase, age>>
  /\ UNCHANGED <<rxpdo, txpdo, applied, active, value, statusBits, registers,
                 sendBuf, readBuf, txBusy, lineVars, countVars>>

\* modbus_uart_flush, the serialiser, and modbus_uart_send.  The request is
\* serialised into the buffer before the send is found to be impossible.
Transmit(req) ==
  /\ rx' = NoBytes
  /\ sendBuf' = req
  /\ IF txBusy \/ dma = "sending"
     THEN PollDelay /\ UNCHANGED <<txBusy, dma>>
     ELSE /\ txBusy' = TRUE
          /\ dma' = "sending"
          /\ Enter(phase, "wait_tx_done")
  /\ UNCHANGED <<board, coil>>

\* The rest of modbus_select_pending_control, with its second look at the
\* control word, and the send: the lowest pending bit comes first.
SelectAndSend ==
  /\ phase = "control" /\ at = "select"
  /\ \E b \in pending :
       /\ \A c \in pending : b <= c
       /\ active' = b
       /\ value' = (b \in rxpdo)
       /\ Transmit(WriteBit(b, b \in rxpdo))
  /\ UNCHANGED <<rxpdo, txpdo, applied, pending, statusBits, registers,
                 readBuf, countVars>>

SendRead(p) ==
  /\ phase = p /\ at = "send"
  /\ Transmit(Read(p))
  /\ UNCHANGED <<rxpdo, txpdo, applied, pending, active, value, statusBits,
                 registers, readBuf, countVars>>

SendStatusRead     == SendRead("status")
SendParametersRead == SendRead("parameters")

\* modbus_uart_send_finish, then the timeout.  Unless transmissions may
\* stall, the line is faster than the timeout.
WaitTxDone(p) ==
  /\ phase = p /\ at = "wait_tx_done"
  /\ \/ /\ dma = "idle" \/ ~txBusy
        /\ txBusy' = FALSE
        /\ Enter(p, "wait_response")
     \/ /\ dma = "sending" /\ txBusy
        /\ IF age > TimeoutTicks
           THEN PollDelay
           ELSE age' = Older /\ UNCHANGED <<phase, at>>
        /\ TxMayStall \/ age < TimeoutTicks
        /\ UNCHANGED txBusy
  /\ UNCHANGED <<rxpdo, txpdo, applied, pending, active, value, statusBits,
                 registers, sendBuf, readBuf, lineVars, countVars>>

WaitControlTxDone    == WaitTxDone("control")
WaitStatusTxDone     == WaitTxDone("status")
WaitParametersTxDone == WaitTxDone("parameters")

\* modbus_uart_receive: whatever has arrived leaves the ring, also when it is
\* too short and is then dropped.  A board that is still at work when the
\* timeout strikes is one of the counted disturbances.
Receive(p) ==
  /\ phase = p /\ at = "wait_response"
  /\ readBuf' = rx
  /\ rx' = NoBytes
  /\ \/ /\ rx.len >= MinLen
        /\ at' = "check_idle"
        /\ UNCHANGED <<phase, age, faults>>
     \/ /\ rx.len < MinLen
        /\ age <= TimeoutTicks
        /\ age' = Older
        /\ UNCHANGED <<phase, at, faults>>
     \/ /\ rx.len < MinLen
        /\ age > TimeoutTicks
        /\ PollDelay
        /\ IF board.at = "idle" THEN UNCHANGED faults
           ELSE faults < MaxFaults /\ faults' = faults + 1
  /\ UNCHANGED <<rxpdo, txpdo, applied, pending, active, value, statusBits,
                 registers, sendBuf, txBusy, dma, board, coil, updates>>

WaitControlResponse    == Receive("control")
WaitStatusResponse     == Receive("status")
WaitParametersResponse == Receive("parameters")

\* The second look at the ring: bytes that came meanwhile keep the task
\* waiting, and its next read overwrites the ones it has.
CheckIdle ==
  /\ at = "check_idle"
  /\ IF rx.len = 0
     THEN at' = "process_response" /\ UNCHANGED age
     ELSE at' = "wait_response" /\ age' = Older
  /\ UNCHANGED <<rxpdo, txpdo, phase, applied, pending, active, value,
                 statusBits, registers, sendBuf, readBuf, txBusy, lineVars,
                 countVars>>

\* The applied bit taken from the control word wanted now, not the one sent.
ConfirmRequested ==
  /\ applied' = IF active \in rxpdo THEN applied \cup {active}
                ELSE applied \ {active}
  /\ pending' = pending \ {active}

\* modbus_confirm_active_control.
ConfirmActive ==
  /\ applied' = IF value THEN applied \cup {active} ELSE applied \ {active}
  /\ pending' = pending \ {active}

ProcessControl ==
  /\ phase = "control" /\ at = "process_response"
  /\ IF Accepts(readBuf, sendBuf)
     THEN ConfirmActive /\ Enter("control", "send")
     ELSE PollDelay /\ UNCHANGED <<applied, pending>>
  /\ UNCHANGED <<rxpdo, txpdo, active, value, statusBits, registers, sendBuf,
                 readBuf, txBusy, lineVars, countVars>>

ProcessStatus ==
  /\ phase = "status" /\ at = "process_response"
  /\ IF Accepts(readBuf, sendBuf)
     THEN statusBits' = readBuf.frame.sample /\ Enter("parameters", "send")
     ELSE PollDelay /\ UNCHANGED statusBits
  /\ UNCHANGED <<rxpdo, txpdo, applied, pending, active, value, registers,
                 sendBuf, readBuf, txBusy, lineVars, countVars>>

\* The register read fails, and what the last one left is published.
ProcessParametersAnyway ==
  /\ phase = "parameters" /\ at = "process_response"
  /\ registers' = IF Accepts(readBuf, sendBuf) THEN readBuf.frame.sample
                  ELSE registers
  /\ txpdo' = [valid |-> TRUE, status |-> statusBits,
               parameters |-> registers']
  /\ PollDelay
  /\ UNCHANGED <<rxpdo, applied, pending, active, value, statusBits, sendBuf,
                 readBuf, txBusy, lineVars, countVars>>

\* The register read, modbus_apply_feedback and charger_app_set_modbus_feedback.
ProcessParameters ==
  /\ phase = "parameters" /\ at = "process_response"
  /\ IF Accepts(readBuf, sendBuf)
     THEN /\ registers' = readBuf.frame.sample
          /\ txpdo' = [valid |-> TRUE, status |-> statusBits,
                       parameters |-> registers']
     ELSE UNCHANGED <<registers, txpdo>>
  /\ PollDelay
  /\ UNCHANGED <<rxpdo, applied, pending, active, value, statusBits, sendBuf,
                 readBuf, txBusy, lineVars, countVars>>

Delay ==
  /\ at = "poll_delay"
  /\ IF age >= PollTicks
     THEN Enter("control", "send")
     ELSE age' = Older /\ UNCHANGED <<phase, at>>
  /\ UNCHANGED <<rxpdo, txpdo, applied, pending, active, value, statusBits,
                 registers, sendBuf, readBuf, txBusy, lineVars, countVars>>

Task ==
  \/ Refresh \/ SelectAndSend \/ SendStatusRead \/ SendParametersRead
  \/ WaitControlTxDone \/ WaitStatusTxDone \/ WaitParametersTxDone
  \/ WaitControlResponse \/ WaitStatusResponse \/ WaitParametersResponse
  \/ CheckIdle \/ ProcessControl \/ ProcessStatus \/ ProcessParameters
  \/ Delay

(***************************************************************************)
(* charger_app_set_rxpdo, called from the EtherCAT interrupt and main loop *)
(* and from the shell.                                                     *)
(***************************************************************************)
SetRxpdo ==
  /\ updates < MaxUpdates
  /\ \E w \in Words \ {rxpdo} : rxpdo' = w
  /\ updates' = updates + 1
  /\ UNCHANGED <<txpdo, taskVars, lineVars, faults>>

(***************************************************************************)
(* The line and the charger board (external).  The board works on one      *)
(* request at a time and does not hear another before its reply is out.    *)
(***************************************************************************)
Idle == [at |-> "idle", reply |-> NoFrame, left |-> 0]

LineUnchanged == UNCHANGED <<rxpdo, txpdo, taskVars, updates>>

\* The transmit channel runs dry.  The board gets what the buffer holds now,
\* or, at the cost of a disturbance, nothing it understands.
TxComplete ==
  /\ dma = "sending"
  /\ dma' = "idle"
  /\ \/ /\ board.at = "idle"
        /\ board' = [at |-> "working", reply |-> Frame("normal", sendBuf, {}),
                     left |-> 0]
        /\ UNCHANGED faults
     \/ /\ board.at # "idle"
        /\ UNCHANGED <<board, faults>>
     \/ /\ board.at = "idle"
        /\ faults < MaxFaults
        /\ faults' = faults + 1
        /\ UNCHANGED board
  /\ UNCHANGED <<rx, coil>>
  /\ LineUnchanged

Refuses(req) ==
  req.fc = "control" /\ req.on /\ req.bit \in Interlocked /\ BmsBit \notin coil

\* The board acts on the request: it writes the coil, takes the sample that
\* the read asks for, or refuses with an exception reply.
Execute ==
  /\ board.at = "working"
  /\ LET req == board.reply.req
         newCoil == IF req.fc # "control" \/ Refuses(req) THEN coil
                    ELSE IF req.on THEN coil \cup {req.bit}
                         ELSE coil \ {req.bit}
         kind == IF Refuses(req) THEN "exception" ELSE "normal"
     IN  /\ coil' = newCoil
         /\ board' = [at |-> "replying", reply |-> Frame(kind, req, newCoil),
                      left |-> 0]
  /\ UNCHANGED <<dma, rx, faults>>
  /\ LineUnchanged

ReplyWhole ==
  /\ board.at = "replying"
  /\ rx' = Arrived(rx, FrameLen(board.reply), "whole", board.reply)
  /\ board' = Idle
  /\ UNCHANGED <<dma, coil, faults>>
  /\ LineUnchanged

\* Noise: the reply arrives, but its checksum is wrong.
ReplyGarbled ==
  /\ board.at = "replying"
  /\ faults < MaxFaults
  /\ faults' = faults + 1
  /\ rx' = Arrived(rx, FrameLen(board.reply), "whole",
                   [board.reply EXCEPT !.kind = "garbage"])
  /\ board' = Idle
  /\ UNCHANGED <<dma, coil>>
  /\ LineUnchanged

ReplyLost ==
  /\ board.at = "replying"
  /\ faults < MaxFaults
  /\ faults' = faults + 1
  /\ board' = Idle
  /\ UNCHANGED <<dma, rx, coil>>
  /\ LineUnchanged

\* A reply the task may find half received.
ReplyHead ==
  /\ board.at = "replying"
  /\ faults < MaxFaults
  /\ faults' = faults + 1
  /\ \E n \in Cuts :
       /\ n < FrameLen(board.reply)
       /\ rx' = Arrived(rx, n, "head", board.reply)
       /\ board' = [board EXCEPT !.at = "tail",
                                 !.left = FrameLen(board.reply) - n]
  /\ UNCHANGED <<dma, coil>>
  /\ LineUnchanged

ReplyTail ==
  /\ board.at = "tail"
  /\ rx' = Arrived(rx, board.left, "tail", board.reply)
  /\ board' = Idle
  /\ UNCHANGED <<dma, coil, faults>>
  /\ LineUnchanged

Line == \/ TxComplete \/ Execute \/ ReplyWhole \/ ReplyGarbled \/ ReplyLost
        \/ ReplyHead \/ ReplyTail

(***************************************************************************)
(* Start: modbus_master_init and charger_app_init; the board has been      *)
(* powered for any time and its coils may be in any position.              *)
(***************************************************************************)
Init ==
  /\ rxpdo = {}
  /\ txpdo = [valid |-> FALSE, status |-> {}, parameters |-> {}]
  /\ phase = "control" /\ at = "send" /\ age = 1
  /\ applied = {}
  /\ pending = ControlBits
  /\ active = 0 /\ value = FALSE
  /\ statusBits = {} /\ registers = {}
  /\ sendBuf = Read("status") /\ readBuf = NoBytes
  /\ txBusy = FALSE /\ dma = "idle"
  /\ rx = NoBytes
  /\ board = Idle
  /\ coil \in SUBSET ControlBits
  /\ faults = 0 /\ updates = 0

Next == Task \/ SetRxpdo \/ Line

Spec == Init /\ [][Next]_vars

\* The task is woken every 10 ms, the transmit DMA drains, and the board ends
\* what it has begun.
Fairness ==
  /\ WF_vars(Task)
  /\ WF_vars(TxComplete)
  /\ WF_vars(Execute)
  /\ WF_vars(ReplyWhole \/ ReplyTail)

FairSpec == Spec /\ Fairness

-----------------------------------------------------------------------------
(***************************************************************************)
(* Properties.                                                             *)
(***************************************************************************)
Ats == {"send", "select", "wait_tx_done", "wait_response", "check_idle",
        "process_response", "poll_delay"}

Boards == [at : {"idle", "working", "replying", "tail"}, reply : Frames,
           left : Nat]
Reports == [valid : BOOLEAN, status : SUBSET ControlBits,
            parameters : SUBSET ControlBits]

\* The variables have their types: no reserved bit of the control word ever
\* reaches the masks, the coils or a request.
TypeOK ==
  /\ rxpdo \in Words /\ txpdo \in Reports
  /\ phase \in Phases /\ at \in Ats /\ age \in 1 .. (TimeoutTicks + 1)
  /\ applied \in SUBSET ControlBits /\ pending \in SUBSET ControlBits
  /\ active \in ControlBits /\ value \in BOOLEAN
  /\ statusBits \in SUBSET ControlBits /\ registers \in SUBSET ControlBits
  /\ sendBuf \in Requests /\ readBuf \in Contents
  /\ txBusy \in BOOLEAN /\ dma \in {"idle", "sending"}
  /\ rx \in Contents /\ board \in Boards
  /\ coil \in SUBSET ControlBits
  /\ faults \in 0 .. MaxFaults /\ updates \in 0 .. MaxUpdates

\* A control bit that is no longer pending is, on the board, in the position
\* that s_applied_control_word says: no lost, late, garbled or split reply to
\* another write makes the task take a coil for written.
AppliedIsOnBoard ==
  \A b \in ControlBits \ pending : b \in applied <=> b \in coil

\* Feedback is published only when every coil is confirmed, and the status
\* bits and the registers published together were both read with the coils
\* in the position they still have: never a half of an older poll.
PublishedIsSettled ==
  [][txpdo' # txpdo =>
       /\ pending = {}
       /\ txpdo'.status = coil
       /\ txpdo'.parameters = coil]_vars

\* The coils and the published feedback behave as CoilSync promises.
Sync == INSTANCE CoilSync WITH
          Coils    <- ControlBits,
          believed <- applied,
          known    <- ControlBits \ pending,
          report   <- txpdo
ImplementsCoilSync == Sync!Spec

\* Once the requested control word and the line are quiet, the coils of the
\* board come to show the requested word and keep it.
CoilsConverge == <>[](coil = rxpdo \cap ControlBits)

\* The parameters are read over and over, whatever replies are lost, late,
\* garbled or split: "cyclically reads 0x4002~0x4007" (README.md:95).  Not so
\* when a transmission stalls or the board refuses a coil (TxMayStall,
\* Interlocked).
PollsForEver == []<>(phase = "parameters" /\ at = "process_response")

=============================================================================
