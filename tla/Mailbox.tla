------------------------------- MODULE Mailbox -------------------------------
(***************************************************************************)
(* The mailbox of SSC/Src/mailbox.c with the mailbox part of ECAT_Main and *)
(* what the CoE and FoE services do with its buffers: requests arrive in   *)
(* sync manager 0, answers leave through sync manager 1, one at a time,    *)
(* and the data link layer numbers both, so that a lost write or a lost    *)
(* read can be repeated.  The master is external.                          *)
(*                                                                         *)
(* One poll of ECAT_Main is the cycle of steps named by pc; the master     *)
(* acts between any two of them.  What a function does is an operator from *)
(* box to box, so that the functions call each other as they do in the     *)
(* code.  A buffer is a pointer; its content is box.buf of it.             *)
(***************************************************************************)
EXTENDS Integers, Sequences, FiniteSets

CONSTANTS
  Kinds,         \* what the master may ask for: see AllKinds
  Buffers,       \* mailbox buffers the heap has room for
  HeapLow,       \* an allocation may fail: "never", "sometimes", "always"
  QueueSize,     \* MAX_MBX_QUEUE_SIZE
  Counters,      \* the highest data link counter, 7
  Fragments,     \* fragments of an object list after the first
  Starts,        \* what the mailbox may be started for: "preop", "boot"
  Pipelined,     \* in which of these the master may ask again before it has
                 \* the last answer
  MaxRequests, MaxLosses, MaxStops  \* bounds on what the master does

\* sdo: an SDO service; list: an object list, answered in fragments; info:
\* an SDO information service that is refused; foe: a file service; foeEnd: one that ends
\* a transfer and is not answered; bad: a protocol or a header that is
\* refused; long: larger than any mailbox.
AllKinds == {"sdo", "list", "info", "foe", "foeEnd", "bad", "long"}

None == 0

ASSUME KindAssumption == Kinds \subseteq AllKinds
ASSUME BufferAssumption == None \notin Buffers /\ IsFiniteSet(Buffers)
ASSUME HeapAssumption == HeapLow \in {"never", "sometimes", "always"}
ASSUME SizeAssumption ==
  /\ QueueSize \in Nat \ {0, 1} /\ Counters \in Nat \ {0, 1}
  /\ {Fragments, MaxRequests, MaxLosses, MaxStops} \subseteq Nat
ASSUME StartAssumption == Pipelined \cup Starts \subseteq {"preop", "boot"}

VARIABLES
  box,      \* the variables of the mailbox, the ESC's among them: see Boxes
  pc,       \* the step of ECAT_Main the ecat task is at
  seen,     \* the status of SM1 as read at the start of the poll
  master    \* the master: see Masters

vars == <<box, pc, seen, master>>

Nat0(n) == 0 .. n

Contents == [
  kind    : AllKinds,
  counter : Nat0(Counters),     \* data link counter
  serial  : Nat,                \* number of the request or of the answer
  part    : Nat]                \* of an object list: fragments before this

Request(kind, counter, serial) ==
  [kind |-> kind, counter |-> counter, serial |-> serial, part |-> 0]

Blank == Request("bad", 0, 0)
Nothing == [kind |-> "none"]
Optional == Buffers \cup {None}

Boxes == [
  running  : BOOLEAN,                  \* bMbxRunning
  boot     : BOOLEAN,                  \* bBootMode
  noMemory : BOOLEAN,                  \* bNoMbxMemoryAvailable
  heap     : SUBSET Buffers,           \* the buffers in use
  buf      : [Buffers -> Contents],
  read     : Optional,                 \* psReadMbx
  repeat   : Optional,                 \* psRepeatMbx
  store    : Optional,                 \* psStoreMbx
  coe      : Optional,                 \* pCoeSendStored
  foe      : Optional,                 \* pFoeSendStored
  rq       : Seq(Buffers),             \* sMbxReceiveQueue
  sq       : Seq(Buffers),             \* sMbxSendQueue
  full     : BOOLEAN,                  \* bSendMbxIsFull
  locked   : BOOLEAN,                  \* bReceiveMbxIsLocked
  toggle   : BOOLEAN,                  \* bMbxRepeatToggle
  stored   : SUBSET {"coe", "foe"},    \* u8MailboxSendReqStored
  wcount   : Nat0(Counters),           \* u8MbxWriteCounter
  rcount   : Nat0(Counters),           \* u8MbxReadCounter, the next one
  left     : Nat0(Fragments),        \* nSdoInfoFragmentsLeft
  part     : Nat,                      \* nSdoInfoIndex, in fragments
  sent     : Nat,                      \* history: answers sent
  served   : Nat,                      \* history: number of the last request
                                       \* taken out of SM0
  dropped  : BOOLEAN,                  \* history: an answer was given up
  sm0      : Contents \cup {Nothing},  \* what the master wrote
  event    : BOOLEAN,                  \* MAILBOX_WRITE_EVENT
  sm1      : Contents \cup {Nothing},  \* what the master may read
  ack      : BOOLEAN]                  \* repeat acknowledge bit of SM1

(***************************************************************************)
(* Buffers and queues.                                                     *)
(***************************************************************************)
\* Variant of several steps: it is not done.
NotDone(m) == m

Room(m) == Buffers \ m.heap # {}
NextBuffer(m) == CHOOSE b \in Buffers : b \notin m.heap

\* APPL_AllocMailboxBuffer, filled with c at once.
Filled(m, b, c) == [m EXCEPT !.heap = @ \cup {b}, !.buf[b] = c]

\* APPL_FreeMailboxBuffer; the content is not to be read any more.
Freed(m, bs) ==
  [m EXCEPT !.heap = @ \ bs,
            !.buf = [b \in Buffers |-> IF b \in bs THEN Blank ELSE @[b]]]

\* The ring holds one buffer less than its size.
QueueFull(q) == Len(q) = QueueSize - 1

(***************************************************************************)
(* Sending.                                                                *)
(***************************************************************************)
CanSend(m) == m.running /\ ~m.full

\* MBX_CopyToSendMailbox, when it does not fail.
CopyToSend(m, b) ==
  [m EXCEPT !.sm1 = m.buf[b], !.read = b, !.full = TRUE]

\* Variant: u8MbxReadCounter counts on.
CountedOn(m, b) ==
  [m EXCEPT !.buf[b] = [@ EXCEPT !.counter = m.rcount, !.serial = m.sent + 1],
            !.rcount = @ + 1, !.sent = @ + 1]

Counted(m, b) ==
  [m EXCEPT !.buf[b] = [@ EXCEPT !.counter = m.rcount, !.serial = m.sent + 1],
            !.rcount = (@ % Counters) + 1, !.sent = @ + 1]

Sending(m, ok) == [box |-> m, ok |-> ok]

\* MBX_MailboxSendReq.
SendReq(m, b, services, follow) ==
  IF ~m.running THEN Sending(m, FALSE)
  ELSE LET refused == m.full /\ QueueFull(m.sq)
           counted == Counted(m, b)
           put == IF refused THEN m
                  ELSE IF m.full THEN [counted EXCEPT !.sq = Append(@, b)]
                  ELSE CopyToSend(counted, b)
       IN  Sending([put EXCEPT !.stored =
                      IF follow \/ refused THEN @ \cup services ELSE @],
                   ~refused)

\* SdoRes, SDOS_SdoInfoInd: an answer that cannot be sent is stored.
SendCoe(m, b, follow) ==
  LET s == SendReq(m, b, {"coe"}, follow)
  IN  IF s.ok THEN s.box ELSE [s.box EXCEPT !.coe = b]

\* FOE_ServiceInd: in BOOT, the answer is copied without a look at the result.
SendFoe(m, b) ==
  LET s == SendReq(m, b, {"foe"}, FALSE)
      boot == IF CanSend(m) THEN CopyToSend(Counted(m, b), b)
              ELSE [m EXCEPT !.rcount = (@ % Counters) + 1, !.dropped = TRUE]
  IN  IF m.boot THEN boot
      ELSE IF s.ok THEN s.box ELSE [s.box EXCEPT !.foe = b]

\* A mailbox error; the result of MBX_MailboxSendReq is not looked at.
SendError(m, b) ==
  LET s == SendReq(m, b, {}, FALSE)
  IN  [s.box EXCEPT !.dropped = @ \/ ~s.ok]

(***************************************************************************)
(* The services.                                                           *)
(***************************************************************************)

\* SDOS_SdoInfoInd for an object list: its first fragment, or, while
\* fragments are left, the next one.
SdoInfo(m, b) ==
  LET first == m.left = 0
      left  == IF first THEN Fragments ELSE m.left - 1
      part  == IF first THEN 0 ELSE m.part + 1
  IN  SendCoe([m EXCEPT !.left = left, !.part = part, !.buf[b].part = part],
              b, left > 0)

\* MailboxServiceInd and the answer of MBX_Main to what it refuses.
ServiceInd(m, b) ==
  LET kind == m.buf[b].kind
  IN  IF kind = "bad" \/ (m.boot /\ kind \notin {"foe", "foeEnd"})
      THEN SendError(m, b)
      ELSE CASE kind = "sdo"    -> SendCoe(m, b, FALSE)
             [] kind = "list"   -> SdoInfo(m, b)
             [] kind = "info"   -> SendCoe([m EXCEPT !.left = 0], b, FALSE)
             [] kind = "foe"    -> SendFoe(m, b)
             [] kind = "foeEnd" -> Freed(m, {b})

\* COE_ContinueInd.
ContinueCoe(m, room) ==
  IF m.coe # None
  THEN LET s == SendReq(m, m.coe, {"coe"}, FALSE)
       IN  IF s.ok THEN [s.box EXCEPT !.coe = None] ELSE s.box
  ELSE IF ~room THEN [m EXCEPT !.stored = @ \cup {"coe"}]
  ELSE LET b == NextBuffer(m)
       IN  SdoInfo(Filled(m, b, Request("list", 0, 0)), b)

\* FOE_ContinueInd.
ContinueFoe(m) ==
  IF m.foe = None THEN m
  ELSE LET s == SendReq(m, m.foe, {"foe"}, FALSE)
       IN  IF s.ok THEN [s.box EXCEPT !.foe = None] ELSE s.box

(***************************************************************************)
(* Receiving.                                                              *)
(***************************************************************************)

\* MBX_MailboxWriteInd.
WriteInd(m, b) ==
  LET counter == m.buf[b].counter
      taken == [m EXCEPT !.served = m.buf[b].serial]
      new == [taken EXCEPT !.wcount = counter]
  IN  IF m.buf[b].kind = "long" THEN SendError(taken, b)
      ELSE IF counter # 0 /\ counter = m.wcount THEN Freed(m, {b})
      ELSE IF QueueFull(m.rq) THEN SendError(new, b)
      ELSE [new EXCEPT !.rq = Append(@, b)]

\* A mailbox error out of a buffer of 10 bytes, which is freed at once.
Complained(m) ==
  LET b == NextBuffer(m)
  IN  Freed(SendReq(Filled(m, b, Blank), b, {}, FALSE).box, {b})

\* Variant: a request is taken while an answer waits to be read.
HeldByFragments(m) == m.stored # {}

Held(m) == m.full \/ m.stored # {}

\* The request stays in SM0 until MBX_Main tries again.
Locked(m) == [m EXCEPT !.locked = TRUE]

\* MBX_CheckAndCopyMailbox.
CheckAndCopy(m, room) ==
  LET a == IF m.noMemory /\ Room(m) THEN Complained(m) ELSE m
  IN  IF Held(a) \/ ~room THEN Locked(a)
      ELSE LET b == NextBuffer(a)
           IN  WriteInd([Filled(a, b, a.sm0) EXCEPT !.locked = FALSE,
                                                    !.sm0 = Nothing], b)

(***************************************************************************)
(* The master has read, or wants it again.                                 *)
(***************************************************************************)

\* The buffer that is no longer kept for a repeat.
Outdated(m) ==
  IF m.store = None /\ m.read # m.repeat THEN {m.repeat} \ {None} ELSE {}

\* MBX_MailboxReadInd.
ReadInd(m, room) ==
  LET kept == [Freed(m, Outdated(m)) EXCEPT !.full = FALSE, !.repeat = m.read]
      next == IF m.store # None
              THEN [CopyToSend(kept, m.store) EXCEPT !.store = None]
              ELSE IF m.sq # <<>>
              THEN [CopyToSend(kept, Head(m.sq)) EXCEPT !.sq = Tail(@)]
              ELSE kept
  IN  IF "coe" \in m.stored
      THEN ContinueCoe([next EXCEPT !.stored = @ \ {"coe"}], room)
      ELSE IF "foe" \in m.stored
      THEN ContinueFoe([next EXCEPT !.stored = @ \ {"foe"}])
      ELSE next

\* Variant: the answer a repeated one displaces is forgotten.
TakenOffLost(m) == [m EXCEPT !.full = FALSE]

\* The answer the repeated one displaces in SM1 is sent after it.
TakenOff(m) ==
  IF m.full /\ m.store = None
  THEN [m EXCEPT !.store = m.read, !.full = FALSE] ELSE m

Resent(m) ==
  [IF CanSend(m) THEN CopyToSend(m, m.repeat) ELSE m EXCEPT !.repeat = None]

\* MBX_MailboxRepeatReq.
RepeatReq(m) ==
  [IF m.repeat = None THEN m ELSE Resent(TakenOff(m)) EXCEPT !.toggle = ~@]

(***************************************************************************)
(* Starting and stopping.                                                  *)
(***************************************************************************)
Elements(q) == { q[i] : i \in DOMAIN q }

\* Variant: u8MailboxSendReqStored stays.
ResetFlagsPartly(m) ==
  [m EXCEPT !.full = FALSE, !.locked = FALSE, !.toggle = FALSE, !.ack = FALSE]

ResetFlags(m) ==
  [m EXCEPT !.full = FALSE, !.locked = FALSE, !.toggle = FALSE,
            !.ack = FALSE, !.stored = {}]

ResetCounters(m) == [m EXCEPT !.wcount = 0, !.rcount = 1, !.sent = 0]

\* MBX_StopMailboxHandler, with SDOS_ClearPendingResponse (no SDO is ever
\* pending) and FOE_Init.  pCoeSendStored and nSdoInfoFragmentsLeft stay.
Stopped(m) ==
  LET freed == Freed(m, ({m.repeat, m.store, m.read} \ {None})
                          \cup Elements(m.rq) \cup Elements(m.sq))
  IN  ResetCounters(ResetFlags(
        [freed EXCEPT !.running = FALSE, !.boot = FALSE, !.read = None,
                      !.repeat = None, !.store = None, !.foe = None,
                      !.rq = <<>>, !.sq = <<>>, !.sm0 = Nothing,
                      !.event = FALSE, !.sm1 = Nothing]))

\* MBX_StartMailboxHandler.
Started(m, boot, room) ==
  [m EXCEPT !.running = TRUE, !.boot = boot, !.noMemory = ~room]

(***************************************************************************)
(* The ecat task: the mailbox part of one poll.                            *)
(***************************************************************************)
Goto(here, there) == pc = here /\ pc' = there

\* What an allocation may find.
Rooms(m) ==
  IF ~Room(m) \/ HeapLow = "always" THEN {FALSE}
  ELSE IF HeapLow = "sometimes" THEN BOOLEAN ELSE {TRUE}

\* MBX_Main: the requests received ...
Serve ==
  /\ Goto("main", "main")
  /\ box.rq # <<>>
  /\ box' = ServiceInd([box EXCEPT !.rq = Tail(@)], Head(box.rq))
  /\ UNCHANGED <<seen, master>>

\* ... and the one that was locked out.
Unlock ==
  /\ Goto("main", "status")
  /\ box.rq = <<>>
  /\ \E room \in Rooms(box) :
       box' = IF box.locked THEN CheckAndCopy(box, room) ELSE box
  /\ UNCHANGED <<seen, master>>

ReadStatus ==
  /\ Goto("status", "control")
  /\ seen' = [full   |-> box.running /\ box.sm1 # Nothing,
              repeat |-> box.running /\ master.bit]
  /\ UNCHANGED <<box, master>>

\* The state machine keeps the mailbox as it is, stops or starts it.
KeepMailbox ==
  /\ pc = "control"
  /\ pc' = IF box.running THEN "read" ELSE "main"
  /\ UNCHANGED <<box, seen, master>>

\* A master that configures the sync managers starts counting again.
Restarted(m) ==
  [m EXCEPT !.bit = FALSE, !.repeat = "no", !.last = 0, !.got = 0,
            !.counter = 0, !.kind = "none"]

StopMailbox ==
  /\ Goto("control", "main")
  /\ box.running /\ master.stops < MaxStops
  /\ box' = Stopped(box)
  /\ master' = [Restarted(master) EXCEPT !.stops = @ + 1]
  /\ UNCHANGED seen

StartMailbox ==
  /\ Goto("control", "read")
  /\ ~box.running
  /\ \E start \in Starts, room \in Rooms(box) :
       box' = Started(box, start = "boot", room)
  /\ UNCHANGED <<seen, master>>

HandleRead ==
  /\ Goto("read", "repeat")
  /\ \E room \in Rooms(Freed(box, Outdated(box))) :
       box' = IF ~seen.full /\ box.full THEN ReadInd(box, room) ELSE box
  /\ UNCHANGED <<seen, master>>

HandleRepeat ==
  /\ Goto("repeat", "write")
  /\ box' = IF seen.repeat # box.toggle
            THEN [RepeatReq(box) EXCEPT !.ack = ~box.toggle] ELSE box
  /\ UNCHANGED <<seen, master>>

HandleWrite ==
  /\ Goto("write", "main")
  /\ \E room \in Rooms(box) :
       box' = IF box.event
              THEN CheckAndCopy([box EXCEPT !.event = FALSE], room) ELSE box
  /\ UNCHANGED <<seen, master>>

Task == \/ Serve \/ Unlock \/ ReadStatus \/ KeepMailbox \/ StopMailbox
        \/ StartMailbox \/ HandleRead \/ HandleRepeat \/ HandleWrite

(***************************************************************************)
(* The master (external).                                                  *)
(***************************************************************************)
Masters == [
  bit      : BOOLEAN,                       \* repeat request bit of SM1
  repeat   : {"no", "wanted", "asked"},     \* a lost answer
  last     : Nat0(Counters),                \* counter of the last answer
  got      : Nat,                           \* its serial
  counter  : Nat0(Counters),                \* of the last request, and ...
  kind     : AllKinds \cup {"none"},        \* ... its kind, while it may be
                                            \* written once more
  requests : Nat0(MaxRequests),             \* bounded counts
  losses   : Nat0(MaxLosses),
  stops    : Nat0(MaxStops)]

\* The last request is answered, as far as it is.
Answered == /\ box.rq = <<>> /\ box.stored = {} /\ box.sent = master.got

Posted(request) == [box EXCEPT !.sm0 = request, !.event = TRUE]

MasterSends(arrives) ==
  LET counter == (master.counter % Counters) + 1
  IN  /\ box.running /\ box.sm0 = Nothing
      /\ (IF box.boot THEN "boot" ELSE "preop") \in Pipelined \/ Answered
      /\ master.requests < MaxRequests
      /\ arrives \/ master.losses < MaxLosses
      /\ \E kind \in Kinds :
           /\ box' = IF arrives
                     THEN Posted(Request(kind, counter, master.requests + 1))
                     ELSE box
           /\ master' = [master EXCEPT
                !.counter = counter, !.kind = kind, !.requests = @ + 1,
                !.losses = IF arrives THEN @ ELSE @ + 1]
      /\ UNCHANGED <<pc, seen>>

MasterWrites     == MasterSends(TRUE)
MasterLosesWrite == MasterSends(FALSE)

\* A write whose confirmation did not come is repeated, whether it was the
\* write that was lost or its confirmation.
MasterRewrites ==
  /\ box.running /\ box.sm0 = Nothing
  /\ master.kind # "none" /\ master.losses < MaxLosses
  /\ box' = Posted(Request(master.kind, master.counter, master.requests))
  /\ master' = [master EXCEPT !.kind = "none", !.losses = @ + 1]
  /\ UNCHANGED <<pc, seen>>

MayRead ==
  /\ box.sm1 # Nothing
  /\ \/ master.repeat = "no"
     \/ master.repeat = "asked" /\ box.ack = master.bit

MasterReads ==
  /\ MayRead
  /\ box' = [box EXCEPT !.sm1 = Nothing]
  /\ master' = IF box.sm1.counter = master.last
               THEN [master EXCEPT !.repeat = "no"]
               ELSE [master EXCEPT !.repeat = "no", !.got = box.sm1.serial,
                                   !.last = box.sm1.counter]
  /\ UNCHANGED <<pc, seen>>

\* The answer leaves the sync manager, but does not arrive.
MasterLosesRead ==
  /\ MayRead /\ master.losses < MaxLosses
  /\ box' = [box EXCEPT !.sm1 = Nothing]
  /\ master' = [master EXCEPT !.repeat = "wanted", !.losses = @ + 1]
  /\ UNCHANGED <<pc, seen>>

MasterAsksAgain ==
  /\ master.repeat = "wanted"
  /\ master' = [master EXCEPT !.repeat = "asked", !.bit = ~@]
  /\ UNCHANGED <<box, pc, seen>>

Master == \/ MasterWrites \/ MasterLosesWrite \/ MasterRewrites
          \/ MasterReads \/ MasterLosesRead \/ MasterAsksAgain

(***************************************************************************)
(* Start: MBX_Init, COE_Init and FOE_Init.                                 *)
(***************************************************************************)
Init ==
  /\ box = [running |-> FALSE, boot |-> FALSE, noMemory |-> FALSE,
            heap |-> {}, buf |-> [b \in Buffers |-> Blank],
            read |-> None, repeat |-> None, store |-> None, coe |-> None,
            foe |-> None, rq |-> <<>>, sq |-> <<>>, full |-> FALSE,
            locked |-> FALSE, toggle |-> FALSE, stored |-> {}, wcount |-> 0,
            rcount |-> 1, left |-> 0, part |-> 0, sent |-> 0,
            served |-> 0, dropped |-> FALSE, sm0 |-> Nothing, event |-> FALSE,
            sm1 |-> Nothing, ack |-> FALSE]
  /\ pc = "main"
  /\ seen = [full |-> FALSE, repeat |-> FALSE]
  /\ master = [bit |-> FALSE, repeat |-> "no", last |-> 0, got |-> 0,
               counter |-> 0, kind |-> "none",
               requests |-> 0, losses |-> 0, stops |-> 0]

Next == Task \/ Master

Spec == Init /\ [][Next]_vars

\* ECAT_Main is called for ever; the master reads what it is sent and asks
\* again for what it lost.
Fairness == WF_vars(Task) /\ WF_vars(MasterReads) /\ WF_vars(MasterAsksAgain)

FairSpec == Spec /\ Fairness

(***************************************************************************)
(* Properties.                                                             *)
(***************************************************************************)

\* Every variable has its type.
TypeOK ==
  /\ box \in Boxes
  /\ pc \in {"main", "status", "control", "read", "repeat", "write"}
  /\ seen \in [full : BOOLEAN, repeat : BOOLEAN]
  /\ master \in Masters

\* Each pointer and queue place that may free or send a buffer.
Places == <<box.repeat, box.store, box.coe, box.foe>>
            \o (IF box.read = box.repeat THEN <<>> ELSE <<box.read>>)
            \o box.rq \o box.sq

\* Of the buffers the heap has given out each is in exactly one place, and a
\* place holds only such buffers: none is lost, sent after it was freed or
\* freed twice, whatever is repeated, refused or stopped (mailbox.c:45-70).
MemoryOwned ==
  /\ Elements(Places) \ {None} = box.heap
  /\ \A i, j \in DOMAIN Places :
       Places[i] = Places[j] /\ Places[i] # None => i = j

\* A request is taken only when its answer finds room: neither queue ever
\* overflows, so that no answer is kept back by a service, which a stop of
\* the mailbox would forget (mailbox.c:740), and none is given up.
NothingRefused == box.coe = None /\ box.foe = None /\ ~box.dropped

\* Answers arrive once each and in order, though reads are lost and repeated
\* before, after or instead of the next answer (mailbox.c:633-670).
Reliable == INSTANCE ReliableMailbox WITH sent <- box.sent, got <- master.got

ImplementsReliable == Reliable!Spec

\* A request is served once: a repeated write of one that was taken is not
\* executed again, and no new one is discarded for such a repeat, though only
\* a counter of three bits tells them apart (mailbox.c:508-511).
RequestsServedOnce ==
  [][/\ Len(box'.rq) > Len(box.rq) => box'.served > box.served
     /\ box.sm0 # Nothing /\ box'.sm0 = Nothing /\ box'.running
          => box'.served >= box.sm0.serial]_vars

\* A service that waits to send is waiting for the master to read: only
\* MBX_MailboxReadInd calls it again (mailbox.c:1008-1016).
PendingIsDriven == pc = "main" /\ box.stored # {} => box.full

\* A request for an object list is answered from the start of the list
\* (sdoserv.c:1089-1091).
ListFromStart ==
  [][pc = "main" /\ box.rq # <<>> /\ box.buf[Head(box.rq)].kind = "list"
     /\ box'.rq = Tail(box.rq)
       => box'.buf[Head(box.rq)].part = 0]_vars

\* Every answer sent reaches the master, or the mailbox is stopped.
AnswersArrive ==
  \A n \in 1 .. MaxRequests * (Fragments + 1) :
    box.sent = n ~> master.got >= n \/ ~box.running

\* Every request written is taken out of the sync manager, even one that was
\* locked out while answers waited (mailbox.c:1001-1006).
RequestsTaken == box.sm0 # Nothing ~> box.sm0 = Nothing

=============================================================================
