------------------------ MODULE ModbusMasterProofs ------------------------
(***************************************************************************)
(* Proofs about ModbusMaster: its types, that a coil the task takes for    *)
(* written is written, that published feedback shows a settled board, and  *)
(* that the whole implements CoilSync.  All but the first rest on the      *)
(* library comparing the echo of a coil write with the request.            *)
(***************************************************************************)
EXTENDS ModbusMaster, TLAPS

USE DEF Phases, Ats

(***************************************************************************)
(* The helpers have the types their names say.                             *)
(***************************************************************************)
\* Every request the task builds is a request.
LEMMA RequestTypes ==
  /\ \A b \in ControlBits, v \in BOOLEAN : WriteBit(b, v) \in Requests
  /\ \A p \in Phases : Read(p) \in Requests
  /\ NoFrame \in Frames
  /\ NoBytes \in Contents
<1>1. 0 \in ControlBits
  BY BitsAssumption DEF ControlBits
<1>2. \A b \in ControlBits, v \in BOOLEAN : WriteBit(b, v) \in Requests
  BY DEF WriteBit, Requests
<1>3. \A p \in Phases : Read(p) \in Requests
  BY <1>1 DEF Read, Requests
<1>4. NoFrame \in Frames
  BY <1>3 DEF NoFrame, Frame, Frames
<1>5. NoBytes \in Contents
  BY <1>4 DEF NoBytes, Contents
<1> QED
  BY <1>2, <1>3, <1>4, <1>5

\* A frame has a length.
LEMMA FrameLenType == \A f \in Frames : FrameLen(f) \in Nat
BY DEF FrameLen

\* What arrives leaves the receive ring well typed.
LEMMA ArrivedType ==
  ASSUME NEW c \in Contents, NEW n \in Nat,
         NEW part \in {"head", "whole", "tail"}, NEW f \in Frames
  PROVE  Arrived(c, n, part, f) \in Contents
<1> DEFINE holds == IF c.holds = "nothing" /\ part # "tail" THEN part
                    ELSE IF c.holds = "head" /\ part = "tail" /\ c.frame = f
                         THEN "whole" ELSE "torn"
<1>1. holds \in {"head", "whole", "torn"}
  OBVIOUS
<1>2. c.len + n \in Nat
  BY DEF Contents
<1>3. (IF holds = "torn" THEN NoFrame ELSE f) \in Frames
  BY RequestTypes
<1> HIDE DEF holds
<1>4. Arrived(c, n, part, f)
        = [len |-> c.len + n, holds |-> holds,
           frame |-> IF holds = "torn" THEN NoFrame ELSE f]
  BY DEF Arrived, holds
<1> QED
  BY <1>1, <1>2, <1>3, <1>4 DEF Contents

(***************************************************************************)
(* Type correctness.                                                       *)
(***************************************************************************)
\* The initial state is well typed.
LEMMA InitTypeOK == Init => TypeOK
<1> SUFFICES ASSUME Init PROVE TypeOK
  OBVIOUS
<1>1. 0 \in ControlBits /\ {} \in Words
  BY BitsAssumption DEF ControlBits, Words
<1>2. board \in Boards
  BY RequestTypes DEF Init, Idle, Boards
<1>3. txpdo \in Reports
  BY DEF Init, Reports
<1>4. age \in 1 .. (TimeoutTicks + 1) /\ 0 \in 0 .. MaxFaults /\ 0 \in 0 .. MaxUpdates
  BY TimeAssumption, BoundAssumption DEF Init
<1>5. sendBuf \in Requests /\ readBuf \in Contents /\ rx \in Contents
  BY RequestTypes DEF Init
<1>6. coil \in SUBSET ControlBits
  BY DEF Init
<1> QED
  BY <1>1, <1>2, <1>3, <1>4, <1>5, <1>6 DEF Init, TypeOK

\* What the parts shared by several actions do to the types.
LEMMA EnterType ==
  ASSUME NEW p \in Phases, NEW a \in Ats, Enter(p, a)
  PROVE  phase' \in Phases /\ at' \in Ats /\ age' \in 1 .. (TimeoutTicks + 1)
BY TimeAssumption DEF Enter

\* The age of the phase stays in its range.
LEMMA OlderType ==
  ASSUME age \in 1 .. (TimeoutTicks + 1)
  PROVE  Older \in 1 .. (TimeoutTicks + 1)
BY TimeAssumption DEF Older

\* Transmitting is well typed.
LEMMA TransmitType ==
  ASSUME TypeOK, NEW req \in Requests, Transmit(req)
  PROVE  /\ phase' \in Phases /\ at' \in Ats
         /\ age' \in 1 .. (TimeoutTicks + 1)
         /\ sendBuf' \in Requests /\ rx' \in Contents
         /\ txBusy' \in BOOLEAN /\ dma' \in {"idle", "sending"}
         /\ board' \in Boards /\ coil' \in SUBSET ControlBits
<1>1. CASE txBusy \/ dma = "sending"
  BY <1>1, EnterType, RequestTypes DEF TypeOK, Transmit, PollDelay
<1>2. CASE ~(txBusy \/ dma = "sending")
  BY <1>2, EnterType, RequestTypes DEF TypeOK, Transmit
<1> QED
  BY <1>1, <1>2

\* The steps of the Modbus task keep the types.
LEMMA TaskTypeOK == TypeOK /\ Task => TypeOK'
<1> SUFFICES ASSUME TypeOK, Task PROVE TypeOK'
  OBVIOUS
<1> USE DEF taskVars, lineVars, countVars
<1>1. CASE Refresh
  BY <1>1, EnterType DEF TypeOK, Refresh, StillPending, ChangedBits
<1>2. CASE SelectAndSend
  <2>1. PICK b \in pending : /\ active' = b
                            /\ value' = (b \in rxpdo)
                            /\ Transmit(WriteBit(b, b \in rxpdo))
    BY <1>2 DEF SelectAndSend
  <2>0. b \in ControlBits /\ (b \in rxpdo) \in BOOLEAN
    BY DEF TypeOK
  <2>2. WriteBit(b, b \in rxpdo) \in Requests
    BY <2>0, RequestTypes, Zenon
  <2> DEFINE req == WriteBit(b, b \in rxpdo)
  <2>3. Transmit(req) /\ req \in Requests
    BY <2>1, <2>2
  <2> HIDE DEF req
  <2>4. /\ phase' \in Phases /\ at' \in Ats
        /\ age' \in 1 .. (TimeoutTicks + 1)
        /\ sendBuf' \in Requests /\ rx' \in Contents
        /\ txBusy' \in BOOLEAN /\ dma' \in {"idle", "sending"}
        /\ board' \in Boards /\ coil' \in SUBSET ControlBits
    BY <2>3, TransmitType
  <2>5. active' \in ControlBits /\ value' \in BOOLEAN
    BY <2>0, <2>1
  <2> QED
    BY <1>2, <2>4, <2>5 DEF TypeOK, SelectAndSend
<1>3. ASSUME NEW p \in Phases, SendRead(p) PROVE TypeOK'
  BY <1>3, TransmitType, RequestTypes DEF TypeOK, SendRead
<1>4. ASSUME NEW p \in Phases, WaitTxDone(p) PROVE TypeOK'
  BY <1>4, EnterType, OlderType DEF TypeOK, WaitTxDone, PollDelay
<1>5. ASSUME NEW p \in Phases, Receive(p) PROVE TypeOK'
  BY <1>5, EnterType, OlderType, RequestTypes, BoundAssumption
  DEF TypeOK, Receive, PollDelay
<1>6. CASE CheckIdle
  BY <1>6, OlderType DEF TypeOK, CheckIdle
<1>7. CASE ProcessControl
  BY <1>7, EnterType DEF TypeOK, ProcessControl, PollDelay, ConfirmActive
<1>8. CASE ProcessStatus
  BY <1>8, EnterType DEF TypeOK, ProcessStatus, PollDelay, Contents, Frames
<1>9. CASE ProcessParameters
  <2>1. phase' \in Phases /\ at' \in Ats /\ age' \in 1 .. (TimeoutTicks + 1)
    BY <1>9, EnterType DEF ProcessParameters, PollDelay
  <2>2. registers' \in SUBSET ControlBits /\ txpdo' \in Reports
    <3>1. readBuf.frame.sample \in SUBSET ControlBits
      BY DEF TypeOK, Contents, Frames
    <3>2. CASE Accepts(readBuf, sendBuf)
      <4>1. registers' = readBuf.frame.sample
        BY <1>9, <3>2 DEF ProcessParameters
      <4>2. txpdo' = [valid |-> TRUE, status |-> statusBits,
                      parameters |-> registers']
        BY <1>9, <3>2 DEF ProcessParameters
      <4> QED
        BY <3>1, <4>1, <4>2 DEF TypeOK, Reports
    <3>3. CASE ~Accepts(readBuf, sendBuf)
      BY <1>9, <3>3 DEF TypeOK, ProcessParameters
    <3> QED
      BY <3>2, <3>3
  <2> QED
    BY <1>9, <2>1, <2>2 DEF TypeOK, ProcessParameters
<1>10. CASE Delay
  BY <1>10, EnterType, OlderType DEF TypeOK, Delay
<1> QED
  BY <1>1, <1>2, <1>3, <1>4, <1>5, <1>6, <1>7, <1>8, <1>9, <1>10
  DEF Task, SendStatusRead, SendParametersRead, WaitControlTxDone,
      WaitStatusTxDone, WaitParametersTxDone, WaitControlResponse,
      WaitStatusResponse, WaitParametersResponse

\* The steps of the line and the board keep the types.
LEMMA LineTypeOK == TypeOK /\ Line => TypeOK'
<1> SUFFICES ASSUME TypeOK, Line PROVE TypeOK'
  OBVIOUS
<1> USE DEF taskVars, LineUnchanged
<1>0. board.reply \in Frames /\ Idle \in Boards
  BY RequestTypes DEF TypeOK, Boards, Idle
<1>1. CASE TxComplete
  <2>1. Frame("normal", sendBuf, {}) \in Frames
    BY DEF TypeOK, Frame, Frames
  <2>2. board' \in Boards
    <3> DEFINE f == Frame("normal", sendBuf, {})
    <3>1. \/ board' = board
          \/ board' = [at |-> "working", reply |-> f, left |-> 0]
      BY <1>1 DEF TxComplete
    <3> HIDE DEF f
    <3> QED
      BY <2>1, <3>1 DEF TypeOK, Boards, f
  <2>3. faults' \in 0 .. MaxFaults
    BY <1>1, BoundAssumption DEF TypeOK, TxComplete
  <2> QED
    BY <1>1, <2>2, <2>3 DEF TypeOK, TxComplete
<1>2. CASE Execute
  <2> DEFINE req == board.reply.req
             newCoil == IF req.fc # "control" \/ Refuses(req) THEN coil
                        ELSE IF req.on THEN coil \cup {req.bit}
                             ELSE coil \ {req.bit}
             kind == IF Refuses(req) THEN "exception" ELSE "normal"
  <2>1. req \in Requests /\ newCoil \in SUBSET ControlBits
    BY <1>0 DEF TypeOK, Frames, Requests
  <2>2. Frame(kind, req, newCoil) \in Frames
    BY <2>1 DEF Frame, Frames
  <2>3. /\ coil' = newCoil
        /\ board' = [at |-> "replying", reply |-> Frame(kind, req, newCoil),
                     left |-> 0]
        /\ UNCHANGED <<dma, rx, faults>> /\ LineUnchanged
    BY <1>2 DEF Execute
  <2> HIDE DEF req, newCoil, kind
  <2>4. board' \in Boards /\ coil' \in SUBSET ControlBits
    BY <2>1, <2>2, <2>3 DEF Boards
  <2> QED
    BY <2>3, <2>4 DEF TypeOK
<1>3. CASE ReplyWhole
  BY <1>0, <1>3, FrameLenType, ArrivedType DEF TypeOK, ReplyWhole
<1>4. CASE ReplyGarbled
  <2>1. [board.reply EXCEPT !.kind = "garbage"] \in Frames
    BY <1>0 DEF Frames
  <2> DEFINE f == [board.reply EXCEPT !.kind = "garbage"]
  <2>2. rx' = Arrived(rx, FrameLen(board.reply), "whole", f) /\ f \in Frames
    BY <1>4, <2>1 DEF ReplyGarbled
  <2> HIDE DEF f
  <2>3. rx' \in Contents
    BY <1>0, <2>2, FrameLenType, ArrivedType DEF TypeOK
  <2>4. faults' \in 0 .. MaxFaults
    BY <1>4, BoundAssumption DEF TypeOK, ReplyGarbled
  <2> QED
    BY <1>0, <1>4, <2>3, <2>4 DEF TypeOK, ReplyGarbled
<1>5. CASE ReplyLost
  BY <1>0, <1>5, BoundAssumption DEF TypeOK, ReplyLost
<1>6. CASE ReplyHead
  <2>1. PICK n \in Cuts :
          /\ n < FrameLen(board.reply)
          /\ rx' = Arrived(rx, n, "head", board.reply)
          /\ board' = [board EXCEPT !.at = "tail",
                                    !.left = FrameLen(board.reply) - n]
    BY <1>6 DEF ReplyHead
  <2>2. n \in Nat /\ FrameLen(board.reply) \in Nat
    BY <1>0, FrameLenType, ChannelAssumption
  <2>3. FrameLen(board.reply) - n \in Nat
    BY <2>1, <2>2
  <2>4. rx' \in Contents
    BY <1>0, <2>1, <2>2, ArrivedType DEF TypeOK
  <2>5. board' \in Boards
    BY <2>1, <2>3 DEF TypeOK, Boards
  <2> QED
    BY <1>6, <2>4, <2>5, BoundAssumption DEF TypeOK, ReplyHead
<1>7. CASE ReplyTail
  <2>1. board.left \in Nat
    BY DEF TypeOK, Boards
  <2> QED
    BY <1>0, <1>7, <2>1, ArrivedType DEF TypeOK, ReplyTail
<1> QED
  BY <1>1, <1>2, <1>3, <1>4, <1>5, <1>6, <1>7 DEF Line

\* Every variable keeps its type, for any number of bits and any bounds.
THEOREM TypeCorrect == Spec => []TypeOK
<1>1. TypeOK /\ [Next]_vars => TypeOK'
  <2> SUFFICES ASSUME TypeOK, [Next]_vars PROVE TypeOK'
    OBVIOUS
  <2>1. CASE SetRxpdo
    BY <2>1, BoundAssumption DEF TypeOK, SetRxpdo, taskVars, lineVars
  <2>2. CASE UNCHANGED vars
    BY <2>2 DEF TypeOK, vars, taskVars, lineVars, countVars
  <2> QED
    BY <2>1, <2>2, TaskTypeOK, LineTypeOK DEF Next
<1> QED
  BY <1>1, InitTypeOK, PTL DEF Spec

(***************************************************************************)
(* The inductive invariant behind the safety theorems.  An exchange is     *)
(* "open" from the send of a request to the processing of its reply.       *)
(***************************************************************************)
Open     == at \in {"wait_tx_done", "wait_response", "check_idle",
                     "process_response"}
HaveRead == at \in {"check_idle", "process_response"}

\* A reply that shows the board as it is now.
Shows(f) ==
  /\ f.sample = coil
  /\ f.req.fc = "control" => (f.req.bit \in coil <=> f.req.on)

\* The task's own variables fit the state it is in.
TaskInv ==
  /\ at = "select" => phase = "control" /\ pending # {}
  /\ phase \in {"status", "parameters"} => pending = {}
  /\ Open /\ phase = "control" =>
       sendBuf = WriteBit(active, value) /\ active \in pending
  /\ Open /\ phase # "control" => sendBuf = Read(phase)
  /\ at \in {"wait_response", "check_idle", "process_response"} => dma = "idle"
  /\ dma = "sending" => txBusy

\* Nothing under way can move a coil the task counts on.
Harmless(req) ==
  req.fc = "control" /\ req.bit \notin pending =>
    (req.on <=> req.bit \in applied)

WorkInv ==
  /\ dma = "sending" /\ sendBuf.fc = "control" => sendBuf.bit \in pending
  /\ board.at = "working" => Harmless(board.reply.req)

\* A reply is true when the board sends it, and stays true as long as the
\* request it answers is the one last sent; after a first byte of it the
\* board can be at work on nothing else.
ReplyTrue(c) ==
  /\ c.holds = "whole" /\ c.frame.kind = "normal" /\ c.frame.req = sendBuf =>
       Shows(c.frame)
  /\ c.holds # "nothing" /\ board.at = "working" => board.reply.req = sendBuf

ReplyInv ==
  /\ board.at \in {"replying", "tail"} /\ board.reply.kind = "normal" =>
       Shows(board.reply)
  /\ Open => ReplyTrue(rx)
  /\ HaveRead => ReplyTrue(readBuf)

StatusInv == phase = "parameters" => statusBits = coil

IInv == TaskInv /\ AppliedIsOnBoard /\ WorkInv /\ ReplyInv /\ StatusInv

\* The invariant holds at the start.
LEMMA InitIInv == Init => IInv
BY DEF Init, IInv, TaskInv, AppliedIsOnBoard, WorkInv, ReplyInv, StatusInv,
       Open, HaveRead, Idle, NoBytes

\* The steps of the Modbus task keep the invariant.
LEMMA TaskIInv ==
  ASSUME EchoChecked, TypeOK, IInv, Task
  PROVE  IInv'
<1> USE DEF taskVars, lineVars, countVars, Open, HaveRead, PollDelay, Enter
<1>1. CASE Refresh
  <2>1. /\ phase = "control" /\ pending \subseteq pending'
        /\ UNCHANGED <<applied, statusBits, sendBuf, txBusy, dma, board, coil>>
        /\ \/ phase' = "status" /\ at' = "send" /\ pending' = {}
           \/ phase' = "control" /\ at' = "select" /\ pending' # {}
    BY <1>1 DEF Refresh, StillPending
  <2>2. TaskInv' /\ StatusInv'
    BY <2>1 DEF IInv, TaskInv, StatusInv
  <2>3. AppliedIsOnBoard' /\ WorkInv'
    BY <2>1 DEF IInv, AppliedIsOnBoard, WorkInv, Harmless
  <2>4. ReplyInv'
    BY <2>1 DEF IInv, ReplyInv, Shows
  <2> QED
    BY <2>2, <2>3, <2>4 DEF IInv
<1>2. CASE SelectAndSend
  <2>1. PICK b \in pending : /\ active' = b
                            /\ value' = (b \in rxpdo)
                            /\ Transmit(WriteBit(b, b \in rxpdo))
    BY <1>2 DEF SelectAndSend
  <2>2. phase = "control" /\ UNCHANGED <<applied, pending, board, coil>>
    BY <1>2, <2>1 DEF SelectAndSend, Transmit
  <2>3. /\ sendBuf' = WriteBit(active', value')
        /\ sendBuf'.fc = "control" /\ sendBuf'.bit = b
        /\ rx' = NoBytes
    BY <2>1 DEF Transmit, WriteBit
  <2>4. phase' = "control" /\ at' \in {"wait_tx_done", "poll_delay"}
    BY <2>1, <2>2 DEF Transmit
  <2>5. TaskInv'
    <3>1. dma' = "sending" => txBusy'
      BY <2>1 DEF Transmit, IInv, TaskInv
    <3> QED
      BY <2>1, <2>2, <2>3, <2>4, <3>1 DEF TaskInv
  <2>6. AppliedIsOnBoard' /\ StatusInv'
    BY <2>2, <2>4 DEF IInv, AppliedIsOnBoard, StatusInv
  <2>7. WorkInv'
    BY <2>1, <2>2, <2>3 DEF IInv, WorkInv, Harmless
  <2>8. ReplyInv'
    BY <2>2, <2>3, <2>4 DEF IInv, ReplyInv, ReplyTrue, Shows, NoBytes
  <2> QED
    BY <2>5, <2>6, <2>7, <2>8 DEF IInv
<1>3. ASSUME NEW p \in {"status", "parameters"}, SendRead(p) PROVE IInv'
  <2>1. /\ sendBuf' = Read(p) /\ sendBuf'.fc = p
        /\ rx' = NoBytes /\ phase = p
        /\ UNCHANGED <<applied, pending, statusBits, board, coil>>
    BY <1>3 DEF SendRead, Transmit, Read
  <2>2. \/ at' = "wait_tx_done" /\ phase' = p
        \/ at' = "poll_delay" /\ phase' = "control"
    BY <1>3, <2>1 DEF SendRead, Transmit
  <2>3. dma' = "sending" => txBusy'
    BY <1>3 DEF SendRead, Transmit, IInv, TaskInv
  <2>5. TaskInv' /\ AppliedIsOnBoard' /\ StatusInv' /\ WorkInv'
    BY <2>1, <2>2, <2>3
    DEF IInv, TaskInv, AppliedIsOnBoard, StatusInv, WorkInv, Harmless
  <2>4. ReplyInv'
    BY <2>1, <2>2 DEF IInv, ReplyInv, ReplyTrue, Shows, NoBytes
  <2> QED
    BY <2>5, <2>4 DEF IInv
<1>4. ASSUME NEW p \in Phases, WaitTxDone(p) PROVE IInv'
  <2>1. /\ phase = p /\ at = "wait_tx_done"
        /\ UNCHANGED <<applied, pending, active, value, statusBits, sendBuf,
                       dma, rx, board, coil>>
        /\ \/ phase' = p /\ at' = "wait_response" /\ (dma = "idle" \/ ~txBusy)
           \/ phase' = "control" /\ at' = "poll_delay"
           \/ phase' = p /\ at' = "wait_tx_done"
        /\ dma = "sending" => txBusy' = txBusy
    BY <1>4 DEF WaitTxDone, IInv, TaskInv
  <2>2. TaskInv'
    BY <2>1 DEF TypeOK, IInv, TaskInv
  <2>3. AppliedIsOnBoard' /\ WorkInv' /\ StatusInv'
    BY <2>1 DEF IInv, AppliedIsOnBoard, WorkInv, Harmless, StatusInv
  <2>4. ReplyInv'
    BY <2>1 DEF IInv, ReplyInv, ReplyTrue, Shows
  <2> QED
    BY <2>2, <2>3, <2>4 DEF IInv
<1>5. ASSUME NEW p \in Phases, Receive(p) PROVE IInv'
  BY <1>5 DEF Receive, IInv, TaskInv, AppliedIsOnBoard, WorkInv, Harmless,
     ReplyInv, ReplyTrue, Shows, StatusInv, NoBytes
<1>6. CASE CheckIdle
  BY <1>6 DEF CheckIdle, IInv, TaskInv, AppliedIsOnBoard, WorkInv, Harmless,
     ReplyInv, ReplyTrue, Shows, StatusInv
<1>7. CASE ProcessControl
  <2>1. CASE ~Accepts(readBuf, sendBuf)
    BY <1>7, <2>1 DEF ProcessControl, IInv, TaskInv, AppliedIsOnBoard, WorkInv,
       Harmless, ReplyInv, ReplyTrue, Shows, StatusInv
  <2>2. CASE Accepts(readBuf, sendBuf)
    <3>1. /\ sendBuf = WriteBit(active, value) /\ active \in pending
          /\ dma = "idle" /\ ReplyTrue(readBuf)
      BY <1>7 DEF ProcessControl, IInv, TaskInv, ReplyInv
    <3>2. readBuf.frame.req = sendBuf /\ readBuf.frame.kind = "normal"
          /\ readBuf.holds = "whole"
      BY <2>2 DEF Accepts
    <3>3. active \in coil <=> value
      BY <3>1, <3>2 DEF ReplyTrue, Shows, WriteBit
    <3>4. board.at = "working" => board.reply.req = sendBuf
      BY <3>1, <3>2 DEF ReplyTrue
    <3>5. /\ applied' = IF value THEN applied \cup {active} ELSE applied \ {active}
          /\ pending' = pending \ {active}
          /\ phase' = "control" /\ at' = "send"
          /\ UNCHANGED <<txBusy, dma, board, coil, sendBuf>>
      BY <1>7, <2>2 DEF ProcessControl, ConfirmActive
    <3>6. TaskInv' /\ StatusInv'
      BY <3>5 DEF IInv, TaskInv, StatusInv
    <3>7. AppliedIsOnBoard'
      BY <3>3, <3>5 DEF IInv, AppliedIsOnBoard
    <3>8. WorkInv'
      <4>1. dma' # "sending"
        BY <3>1, <3>5
      <4>2. ASSUME board.at = "working"
            PROVE  Harmless(board.reply.req)'
        <5>1. board.reply.req.bit = active /\ (board.reply.req.on <=> value)
          BY <3>1, <3>4, <4>2 DEF WriteBit
        <5> QED
          BY <3>5, <5>1 DEF Harmless
      <4> QED
        BY <3>5, <4>1, <4>2 DEF WorkInv
    <3>9. ReplyInv'
      BY <3>5 DEF IInv, ReplyInv, Shows
    <3> QED
      BY <3>6, <3>7, <3>8, <3>9 DEF IInv
  <2> QED
    BY <2>1, <2>2
<1>8. CASE ProcessStatus
  <2>1. /\ ReplyTrue(readBuf)
        /\ at' \in {"send", "poll_delay"} /\ phase' \in {"parameters", "control"}
        /\ pending = {}
        /\ UNCHANGED <<applied, pending, sendBuf, txBusy, dma, board, coil>>
    BY <1>8 DEF ProcessStatus, IInv, TaskInv, ReplyInv
  <2>2. StatusInv'
    BY <1>8, <2>1 DEF ProcessStatus, StatusInv, Accepts, ReplyTrue, Shows
  <2>3. TaskInv' /\ AppliedIsOnBoard' /\ WorkInv'
    BY <2>1 DEF IInv, TaskInv, AppliedIsOnBoard, WorkInv, Harmless
  <2>4. ReplyInv'
    BY <2>1 DEF IInv, ReplyInv, Shows
  <2> QED
    BY <2>2, <2>3, <2>4 DEF IInv
<1>9. CASE ProcessParameters
  BY <1>9 DEF ProcessParameters, IInv, TaskInv, AppliedIsOnBoard, WorkInv,
     Harmless, ReplyInv, Shows, StatusInv
<1>10. CASE Delay
  BY <1>10 DEF Delay, IInv, TaskInv, AppliedIsOnBoard, WorkInv, Harmless,
     ReplyInv, Shows, StatusInv
<1> QED
  BY <1>1, <1>2, <1>3, <1>4, <1>5, <1>6, <1>7, <1>8, <1>9, <1>10
  DEF Task, SendStatusRead, SendParametersRead, WaitControlTxDone,
      WaitStatusTxDone, WaitParametersTxDone, WaitControlResponse,
      WaitStatusResponse, WaitParametersResponse

\* Carrying out a request moves no coil that is not pending.
LEMMA ExecuteEffect ==
  ASSUME TypeOK, IInv, Execute
  PROVE  /\ board.at = "working"
         /\ board'.at = "replying" /\ board'.reply.req = board.reply.req
         /\ board'.reply.sample = coil'
         /\ board'.reply.kind = "normal" /\ board.reply.req.fc = "control" =>
              (board.reply.req.bit \in coil' <=> board.reply.req.on)
         /\ coil' # coil => board.reply.req.fc = "control"
         /\ \/ coil' = coil
            \/ board.reply.req.on /\ coil' = coil \cup {board.reply.req.bit}
            \/ ~board.reply.req.on /\ coil' = coil \ {board.reply.req.bit}
         /\ UNCHANGED <<dma, rx, rxpdo, txpdo, taskVars>>
<1> DEFINE req == board.reply.req
           newCoil == IF req.fc # "control" \/ Refuses(req) THEN coil
                      ELSE IF req.on THEN coil \cup {req.bit}
                           ELSE coil \ {req.bit}
           kind == IF Refuses(req) THEN "exception" ELSE "normal"
<1>1. /\ coil' = newCoil
      /\ board' = [at |-> "replying", reply |-> Frame(kind, req, newCoil),
                   left |-> 0]
      /\ board.at = "working"
      /\ UNCHANGED <<dma, rx, rxpdo, txpdo, taskVars>>
  BY DEF Execute, LineUnchanged
<1>2. board'.reply = Frame(kind, req, newCoil) /\ board'.at = "replying"
  BY <1>1
<1>3. /\ board'.reply.req = req /\ board'.reply.sample = newCoil
      /\ board'.reply.kind = kind
  BY <1>2 DEF Frame
<1>4. kind = "normal" /\ req.fc = "control" => (req.bit \in newCoil <=> req.on)
  OBVIOUS
<1>5. newCoil # coil => req.fc = "control"
  OBVIOUS
<1>6. \/ newCoil = coil
      \/ req.on /\ newCoil = coil \cup {req.bit}
      \/ ~req.on /\ newCoil = coil \ {req.bit}
  OBVIOUS
<1> HIDE DEF req, newCoil, kind
<1> QED
  BY <1>1, <1>2, <1>3, <1>4, <1>5, <1>6 DEF req

\* The board's execution of a request keeps the invariant.
LEMMA ExecuteIInv ==
  ASSUME TypeOK, IInv, Execute
  PROVE  IInv'
<1> DEFINE req == board.reply.req
<1>1. req \in Requests /\ req.on \in BOOLEAN /\ coil \in SUBSET ControlBits
  BY DEF TypeOK, Boards, Frames, Requests
<1>2. /\ board.at = "working"
      /\ board'.at = "replying" /\ board'.reply.req = req
      /\ board'.reply.sample = coil'
      /\ board'.reply.kind = "normal" /\ req.fc = "control" =>
           (req.bit \in coil' <=> req.on)
      /\ coil' # coil => req.fc = "control"
      /\ \/ coil' = coil
         \/ req.on /\ coil' = coil \cup {req.bit}
         \/ ~req.on /\ coil' = coil \ {req.bit}
      /\ UNCHANGED <<dma, rx, rxpdo, txpdo, taskVars>>
  BY ExecuteEffect
<1> HIDE DEF req
<1>3. Harmless(req)
  BY <1>2 DEF IInv, WorkInv, req
<1>4. TaskInv' /\ WorkInv'
  BY <1>2 DEF IInv, TaskInv, WorkInv, Open, taskVars
<1>5. AppliedIsOnBoard'
  <2> SUFFICES ASSUME NEW b \in ControlBits \ pending
               PROVE  b \in applied <=> b \in coil'
    BY <1>2 DEF AppliedIsOnBoard, taskVars
  <2>1. b \in applied <=> b \in coil
    BY DEF IInv, AppliedIsOnBoard
  <2>2. CASE coil' = coil \/ b # req.bit
    BY <1>2, <2>1, <2>2
  <2>3. CASE coil' # coil /\ b = req.bit
    <3>1. req.on <=> b \in applied
      BY <1>2, <1>3, <2>3 DEF Harmless
    <3>2. req.on <=> b \in coil'
      BY <1>1, <1>2, <2>3
    <3> QED
      BY <1>1, <3>1, <3>2
  <2> QED
    BY <2>2, <2>3
<1>6. StatusInv'
  <2> SUFFICES ASSUME phase = "parameters" PROVE coil' = coil
    BY <1>2 DEF IInv, StatusInv, taskVars
  <2>1. pending = {} /\ AppliedIsOnBoard
    BY DEF IInv, TaskInv
  <2>2. ASSUME coil' # coil PROVE FALSE
    <3>1. req.fc = "control" /\ req.bit \in ControlBits
      BY <1>1, <1>2, <2>2 DEF Requests
    <3>2. req.on <=> req.bit \in coil
      BY <1>3, <2>1, <3>1 DEF Harmless, AppliedIsOnBoard
    <3> QED
      BY <1>1, <1>2, <2>2, <3>2
  <2> QED
    BY <2>2
<1>7. ReplyInv'
  <2>1. ASSUME NEW c, ReplyTrue(c)
        PROVE  /\ c.holds = "whole" /\ c.frame.kind = "normal"
                    /\ c.frame.req = sendBuf =>
                  /\ c.frame.sample = coil'
                  /\ c.frame.req.fc = "control" =>
                       (c.frame.req.bit \in coil' <=> c.frame.req.on)
    <3> SUFFICES ASSUME c.holds = "whole", c.frame.kind = "normal",
                        c.frame.req = sendBuf
                 PROVE  coil' = coil
      BY <2>1 DEF ReplyTrue, Shows
    <3>1. req = sendBuf /\ Shows(c.frame)
      BY <1>2, <2>1 DEF ReplyTrue, req
    <3>2. req.fc = "control" => (req.bit \in coil <=> req.on)
      BY <3>1 DEF Shows
    <3> QED
      BY <1>1, <1>2, <3>2
  <2>2. board'.reply.kind = "normal" => Shows(board.reply)'
    BY <1>2 DEF Shows
  <2>3. Open => ReplyTrue(rx)'
    BY <1>2, <2>1 DEF IInv, ReplyInv, ReplyTrue, Shows, taskVars
  <2>4. HaveRead => ReplyTrue(readBuf)'
    BY <1>2, <2>1 DEF IInv, ReplyInv, ReplyTrue, Shows, taskVars
  <2> QED
    BY <1>2, <2>2, <2>3, <2>4 DEF ReplyInv, Open, HaveRead, taskVars
<1> QED
  BY <1>4, <1>5, <1>6, <1>7 DEF IInv

\* The steps of the line and the board keep the invariant.
LEMMA LineIInv ==
  ASSUME TypeOK, IInv, Line
  PROVE  IInv'
<1> USE DEF taskVars, LineUnchanged, Open, HaveRead
<1>1. CASE TxComplete
  BY <1>1 DEF TxComplete, IInv, TaskInv, AppliedIsOnBoard, WorkInv, Harmless,
     ReplyInv, ReplyTrue, Shows, StatusInv, Frame
<1>2. CASE Execute
  BY <1>2, ExecuteIInv
<1>3. ASSUME UNCHANGED <<dma, coil, txpdo, taskVars>>, board'.at # "working"
      PROVE  TaskInv' /\ AppliedIsOnBoard' /\ WorkInv' /\ StatusInv'
  BY <1>3 DEF IInv, TaskInv, AppliedIsOnBoard, WorkInv, StatusInv
<1>4. ASSUME NEW n, NEW part \in {"head", "whole", "tail"}, NEW f,
             f.kind = "normal" => Shows(f),
             rx' = Arrived(rx, n, part, f),
             UNCHANGED <<dma, coil, txpdo, taskVars>>,
             board' = Idle \/ (board'.at = "tail" /\ board'.reply = board.reply
                               /\ board.at = "replying")
      PROVE  IInv'
  <2>1. board'.at # "working"
    BY <1>4 DEF Idle
  <2>2. rx'.holds = "whole" => rx'.frame = f
    BY <1>4 DEF Arrived
  <2>3. ReplyTrue(rx)' /\ (HaveRead => ReplyTrue(readBuf)')
    BY <1>4, <2>1, <2>2 DEF IInv, ReplyInv, ReplyTrue, Shows
  <2>4. ReplyInv'
    BY <1>4, <2>3 DEF IInv, ReplyInv, Shows, Idle
  <2> QED
    BY <1>3, <1>4, <2>1, <2>4 DEF IInv
<1>5. CASE ReplyWhole
  BY <1>4, <1>5 DEF ReplyWhole, IInv, ReplyInv
<1>6. CASE ReplyGarbled
  <2>1. [board.reply EXCEPT !.kind = "garbage"].kind # "normal"
    BY DEF TypeOK, Boards, Frames
  <2> QED
    BY <1>4, <1>6, <2>1 DEF ReplyGarbled
<1>7. CASE ReplyLost
  <2>1. board' = Idle /\ UNCHANGED <<dma, rx, coil, txpdo, taskVars>>
    BY <1>7 DEF ReplyLost
  <2>2. ReplyInv'
    BY <2>1 DEF IInv, ReplyInv, ReplyTrue, Shows, Idle
  <2> QED
    BY <1>3, <2>1, <2>2 DEF IInv, Idle
<1>8. CASE ReplyHead
  <2>1. PICK n \in Cuts :
          /\ rx' = Arrived(rx, n, "head", board.reply)
          /\ board' = [board EXCEPT !.at = "tail",
                                    !.left = FrameLen(board.reply) - n]
    BY <1>8 DEF ReplyHead
  <2>2. board'.at = "tail" /\ board'.reply = board.reply
    BY <2>1 DEF TypeOK, Boards
  <2> QED
    BY <1>4, <1>8, <2>1, <2>2 DEF ReplyHead, IInv, ReplyInv
<1>9. CASE ReplyTail
  BY <1>4, <1>9 DEF ReplyTail, IInv, ReplyInv
<1> QED
  BY <1>1, <1>2, <1>5, <1>6, <1>7, <1>8, <1>9 DEF Line

\* The invariant is inductive.
LEMMA StepIInv ==
  ASSUME EchoChecked, TypeOK, IInv, [Next]_vars
  PROVE  IInv'
<1>1. CASE SetRxpdo \/ UNCHANGED vars
  <2>1. UNCHANGED <<taskVars, lineVars>>
    BY <1>1 DEF SetRxpdo, vars
  <2> QED
    BY <2>1 DEF taskVars, lineVars, IInv, TaskInv, AppliedIsOnBoard, WorkInv,
       Harmless, ReplyInv, ReplyTrue, Shows, StatusInv, Open, HaveRead
<1> QED
  BY <1>1, TaskIInv, LineIInv DEF Next

\* The invariant holds always.
LEMMA Invariance == EchoChecked => (Spec => []IInv)
<1> SUFFICES ASSUME EchoChecked PROVE Spec => []IInv
  OBVIOUS
<1>1. TypeOK /\ IInv /\ [Next]_vars => IInv'
  BY StepIInv
<1> QED
  BY <1>1, InitIInv, TypeCorrect, PTL DEF Spec

\* For any number of coils and any line: a bit that is not pending is on the
\* board what s_applied_control_word says.
THEOREM AppliedCorrect == EchoChecked => (Spec => []AppliedIsOnBoard)
<1> SUFFICES ASSUME EchoChecked PROVE Spec => []AppliedIsOnBoard
  OBVIOUS
<1>1. IInv => AppliedIsOnBoard
  BY DEF IInv
<1> QED
  BY <1>1, Invariance, PTL

(***************************************************************************)
(* Steps seen from CoilSync.                                               *)
(***************************************************************************)
\* A publication shows the board as it is, with nothing pending.
LEMMA PublishStep ==
  ASSUME EchoChecked, TypeOK, IInv, ProcessParameters
  PROVE  /\ pending = {} /\ UNCHANGED <<applied, pending, coil>>
         /\ \/ UNCHANGED txpdo
            \/ txpdo' = [valid |-> TRUE, status |-> coil, parameters |-> coil]
<1>1. /\ pending = {} /\ statusBits = coil /\ ReplyTrue(readBuf)
      /\ UNCHANGED <<applied, pending, coil>>
  BY DEF ProcessParameters, IInv, TaskInv, StatusInv, ReplyInv, HaveRead,
     lineVars
<1>2. CASE Accepts(readBuf, sendBuf)
  <2>1. readBuf.frame.sample = coil
    BY <1>1, <1>2 DEF Accepts, ReplyTrue, Shows
  <2> QED
    BY <1>1, <1>2, <2>1 DEF ProcessParameters
<1>3. CASE ~Accepts(readBuf, sendBuf)
  BY <1>1, <1>3 DEF ProcessParameters
<1> QED
  BY <1>2, <1>3

\* No other step publishes.
LEMMA OnlyPublishPublishes ==
  ASSUME [Next]_vars, ~ProcessParameters
  PROVE  UNCHANGED txpdo
BY DEF Next, vars, Task, Line, SetRxpdo, Refresh, SelectAndSend, SendStatusRead,
   SendParametersRead, SendRead, WaitControlTxDone, WaitStatusTxDone,
   WaitParametersTxDone, WaitTxDone, WaitControlResponse, WaitStatusResponse,
   WaitParametersResponse, Receive, CheckIdle, ProcessControl, ProcessStatus,
   Delay, TxComplete, Execute, ReplyWhole, ReplyGarbled, ReplyLost, ReplyHead,
   ReplyTail, LineUnchanged

\* For any number of coils and any line: feedback is published only for a
\* settled board, and both its halves show the board as it still is.
THEOREM PublishedCorrect == EchoChecked => (Spec => PublishedIsSettled)
<1> SUFFICES ASSUME EchoChecked PROVE Spec => PublishedIsSettled
  OBVIOUS
<1>1. TypeOK /\ IInv /\ [Next]_vars =>
        [txpdo' # txpdo => /\ pending = {} /\ txpdo'.status = coil
                           /\ txpdo'.parameters = coil]_vars
  BY PublishStep, OnlyPublishPublishes
<1> QED
  BY <1>1, Invariance, TypeCorrect, PTL DEF Spec, PublishedIsSettled

\* Processing an answer to a write is a step of CoilSync.
LEMMA ConfirmStep ==
  ASSUME EchoChecked, TypeOK, IInv, ProcessControl
  PROVE  Sync!Next \/ UNCHANGED Sync!vars
<1>1. CASE ~Accepts(readBuf, sendBuf)
  BY <1>1 DEF ProcessControl, Sync!vars, lineVars
<1>2. CASE Accepts(readBuf, sendBuf)
  <2>1. /\ sendBuf = WriteBit(active, value) /\ ReplyTrue(readBuf)
        /\ active \in ControlBits
    BY DEF TypeOK, ProcessControl, IInv, TaskInv, ReplyInv, Open, HaveRead
  <2>2. active \in coil <=> value
    BY <1>2, <2>1 DEF Accepts, ReplyTrue, Shows, WriteBit
  <2>3. /\ applied' = IF value THEN applied \cup {active} ELSE applied \ {active}
        /\ pending' = pending \ {active}
        /\ UNCHANGED <<coil, txpdo>>
    BY <1>2 DEF ProcessControl, ConfirmActive, lineVars
  <2>4. (ControlBits \ pending)' = (ControlBits \ pending) \cup {active}
    BY <2>1, <2>3
  <2>5. Sync!Learn(active)
    BY <2>2, <2>3, <2>4 DEF Sync!Learn
  <2> QED
    BY <2>1, <2>5 DEF Sync!Next
<1> QED
  BY <1>1, <1>2

\* The board's execution is a step of CoilSync.
LEMMA ExecuteStep ==
  ASSUME TypeOK, IInv, Execute
  PROVE  Sync!Next \/ UNCHANGED Sync!vars
<1> DEFINE req == board.reply.req
<1>1. /\ board.at = "working" /\ req \in Requests /\ req.on \in BOOLEAN
      /\ coil' # coil => req.fc = "control"
      /\ \/ coil' = coil
         \/ req.on /\ coil' = coil \cup {req.bit}
         \/ ~req.on /\ coil' = coil \ {req.bit}
      /\ UNCHANGED <<applied, pending, txpdo>>
  BY ExecuteEffect DEF taskVars, TypeOK, Boards, Frames, Requests
<1> HIDE DEF req
<1>2. CASE coil' = coil
  BY <1>1, <1>2 DEF Sync!vars
<1>3. CASE coil' # coil
  <2>1. req.fc = "control" /\ req.bit \in ControlBits
    BY <1>1, <1>3 DEF Requests
  <2>2. req.bit \in pending
    <3> SUFFICES ASSUME req.bit \notin pending PROVE FALSE
      OBVIOUS
    <3>1. req.on <=> req.bit \in coil
      BY <1>1, <2>1 DEF IInv, WorkInv, Harmless, AppliedIsOnBoard, req
    <3> QED
      BY <1>1, <1>3, <3>1
  <2>3. Sync!Drive(req.bit)
    BY <1>1, <2>1, <2>2 DEF Sync!Drive
  <2> QED
    BY <2>1, <2>3 DEF Sync!Next
<1> QED
  BY <1>2, <1>3

\* All other steps are invisible to CoilSync.
LEMMA OtherStep ==
  ASSUME [Next]_vars, ~Refresh, ~ProcessControl, ~ProcessParameters, ~Execute
  PROVE  UNCHANGED <<coil, applied, pending, txpdo>>
BY DEF Next, vars, taskVars, lineVars, Task, Line, SetRxpdo, SelectAndSend,
   Transmit, SendStatusRead, SendParametersRead, SendRead, WaitControlTxDone,
   WaitStatusTxDone, WaitParametersTxDone, WaitTxDone, WaitControlResponse,
   WaitStatusResponse, WaitParametersResponse, Receive, CheckIdle,
   ProcessStatus, Delay, TxComplete, ReplyWhole, ReplyGarbled, ReplyLost,
   ReplyHead, ReplyTail, LineUnchanged

\* For any number of coils and any line: the task, its line and the board
\* together keep the promise CoilSync states.
THEOREM Refinement == EchoChecked => (Spec => ImplementsCoilSync)
<1> SUFFICES ASSUME EchoChecked PROVE Spec => ImplementsCoilSync
  OBVIOUS
<1>1. Init => Sync!Init
  BY DEF Init, Sync!Init
<1>2. TypeOK /\ IInv /\ [Next]_vars => [Sync!Next]_Sync!vars
  <2> SUFFICES ASSUME TypeOK, IInv, [Next]_vars
               PROVE  Sync!Next \/ UNCHANGED Sync!vars
    OBVIOUS
  <2>1. CASE Refresh
    <3>1. pending \subseteq pending' /\ UNCHANGED <<coil, applied, txpdo>>
      BY <2>1 DEF Refresh, StillPending, lineVars
    <3> QED
      BY <3>1 DEF Sync!Next, Sync!Forget
  <2>2. CASE ProcessControl
    BY <2>2, ConfirmStep
  <2>3. CASE ProcessParameters
    BY <2>3, PublishStep DEF Sync!Next, Sync!Report, Sync!vars
  <2>4. CASE Execute
    BY <2>4, ExecuteStep
  <2>5. CASE ~Refresh /\ ~ProcessControl /\ ~ProcessParameters /\ ~Execute
    BY <2>5, OtherStep DEF Sync!vars
  <2> QED
    BY <2>1, <2>2, <2>3, <2>4, <2>5
<1> QED
  BY <1>1, <1>2, Invariance, TypeCorrect, PTL
  DEF Spec, ImplementsCoilSync, Sync!Spec

=============================================================================
