-------------------------- MODULE EcatStateMachine --------------------------
(***************************************************************************)
(* The EtherCAT state machine of SSC/Src/ecatslv.c with the process data   *)
(* path of SSC/Src/ecatappl.c and SSC/Src/ethercat_charger.c: the main     *)
(* loop of the ecat task, the interrupts of the ESC that preempt it, and   *)
(* the master (external) that writes requests, configuration and outputs.  *)
(*                                                                         *)
(* One turn of MainLoop is the cycle of steps named by pc; interrupts and  *)
(* the master act between any two of them, and between a handler and the   *)
(* write of the AL status register that ends it (slave.due).  What a       *)
(* handler does is an operator from slave to slave, so that handlers call  *)
(* each other as they do in the code.                                      *)
(*                                                                         *)
(* The application of this repository answers every APPL_Start... at once  *)
(* and never calls ECAT_StateChange, so that only SAFEOP to OP can be      *)
(* pending and u8LocalErrorState is always 0.  The PDOs have a fixed,      *)
(* nonzero size in both directions.                                        *)
(***************************************************************************)
EXTENDS Integers, FiniteSets

CONSTANTS
  SyncModes,   \* what the master may configure: see Syncs
  AckFreely,   \* the master may set the acknowledge bit without an error
  IdRequests,  \* the master may ask for the explicit device identification
  Mailboxes,   \* what the master may make of SM0 and SM1: see MailboxConfigs
  Timeout,     \* SAFEOP2OPTIMEOUT less 10 %, in ECAT_CheckTimer calls
  PllTicks,    \* i16WaitForPllRunningTimeout
  Words,       \* values of the control word ...
  SafeWord     \* ... and the one it starts with

\* free: polled; sm: outputs event; mixed: outputs event, but 0x1C32 is not
\* SM synchronous, so that the interrupt skips ECAT_Application; dc: Sync0.
Syncs     == {"none", "free", "sm", "mixed", "dc"}
Interrupt == {"sm", "mixed", "dc"}   \* bEscIntEnabled

\* SM0 and SM1 set up as they must be; not so; SM1 not even activated.
MailboxConfigs == {"ok", "bad", "off"}

ASSUME ModeAssumption ==
  /\ Mailboxes \subseteq MailboxConfigs
  /\ SyncModes \subseteq Syncs \ {"none"}
  /\ AckFreely \in BOOLEAN
  /\ IdRequests \in BOOLEAN
ASSUME TickAssumption == Timeout \in Nat \ {0} /\ PllTicks \in Nat \ {0}
ASSUME WordAssumption == SafeWord \in Words

VARIABLES
  slave,    \* the variables of the stack: see Slaves
  pc,       \* the step of MainLoop the ecat task is at
  seen,     \* events and SM1 setting read at the start of ECAT_Main
  reg,      \* the AL status register, as the master sees it
  esc,      \* events pending in the ESC and the sync manager configuration
  out,      \* the control word in the output sync manager
  object,   \* ChargerRxPDO0x7000.Control_word
  rxpdo     \* s_rxpdo.control_word

vars == <<slave, pc, seen, reg, esc, out, object, rxpdo>>
words == <<out, object, rxpdo>>

States  == {"INIT", "PREOP", "BOOT", "SAFEOP", "OP"}
\* The other values of AL control, without and with the bit of OP.
Targets == States \cup {"other", "other8"}

Slaves == [
  state    : States,            \* nAlStatus & STATE_MASK
  err      : BOOLEAN,           \* nAlStatus & STATE_CHANGE
  devid    : BOOLEAN,           \* nAlStatus & STATE_DEVID
  wantId   : BOOLEAN,           \* bExplicitDevIdRequested
  waiting  : BOOLEAN,           \* bEcatWaitForAlControlRes
  pending  : BOOLEAN,           \* bApplEsmPending
  timeout  : -1 .. Timeout,     \* EsmTimeoutCounter
  outputs  : BOOLEAN,           \* bEcatOutputUpdateRunning
  inputs   : BOOLEAN,           \* bEcatInputUpdateRunning
  first    : BOOLEAN,           \* bEcatFirstOutputsReceived
  mailbox  : BOOLEAN,           \* bMbxRunning
  boot     : BOOLEAN,           \* bBootMode
  told     : BOOLEAN,           \* APPL_StartOutputHandler was called last
  sync     : Syncs,             \* bEscIntEnabled, bDcSyncActive, 0x1C32
  sm2      : BOOLEAN,           \* PROCESS_DATA_OUT enabled by the PDI
  wd       : BOOLEAN,           \* EcatWdValue # 0
  dcRun    : BOOLEAN,           \* bDcRunning
  seqValid : BOOLEAN,           \* bSmSyncSequenceValid
  pll      : -1 .. PllTicks,    \* i16WaitForPllRunningCnt, -1: not waiting
  acked    : BOOLEAN,           \* history: the last error was acknowledged, or
                                \* INIT was asked for
  due      : BOOLEAN]           \* the AL status register is to be written

Request(to, ack) == [to |-> to, ack |-> ack]
NothingSeen == [control |-> FALSE, sm |-> FALSE, sm1 |-> TRUE]

(***************************************************************************)
(* Starting and stopping what runs in a state.                             *)
(***************************************************************************)

\* Variant: the output update is left running.
StopOutputPartly(s) == [s EXCEPT !.first = FALSE, !.told = FALSE]

\* APPL_StopOutputHandler, which does nothing, and StopOutputHandler.
StopOutput(s) ==
  [s EXCEPT !.first = FALSE, !.outputs = FALSE, !.told = FALSE]

\* StopInputHandler.  EcatWdValue and the PLL counter stay.
StopInput(s) ==
  [s EXCEPT !.first = FALSE, !.inputs = FALSE, !.sync = "none",
            !.sm2 = FALSE, !.dcRun = FALSE, !.seqValid = FALSE, !.pll = -1]

\* MBX_StopMailboxHandler, as far as the state machine sees it.
StopMailbox(s) == [s EXCEPT !.mailbox = FALSE]

\* Variant: leaving OP, the inputs run on.
StopDownToHalfway(s, to) ==
  LET a == IF s.state = "OP" THEN StopOutput(s)
           ELSE IF s.state = "SAFEOP" /\ to # "SAFEOP" THEN StopInput(s) ELSE s
  IN  IF to = "INIT" THEN StopMailbox(a) ELSE a

\* The way down from a state to a lower one, through all between.
StopDownTo(s, to) ==
  LET a == IF s.state = "OP" THEN StopOutput(s) ELSE s
      b == IF s.state \in {"OP", "SAFEOP"} /\ to # "SAFEOP"
           THEN StopInput(a) ELSE a
  IN  IF to = "INIT" THEN StopMailbox(b) ELSE b

Result(s, r) == [slave |-> s, result |-> r]

\* INIT_2_PREOP and INIT_2_BOOT: the EEPROM may not be loaded, the mailbox
\* areas may overlap, and there may be no memory for a mailbox.
StartMailbox(s, boot) ==
  { Result([s EXCEPT !.mailbox = TRUE, !.boot = boot, !.pending = FALSE],
           "ok"),
    Result(StopMailbox(s), "error") }

\* The two halves of StartInputHandler: the checks, the watchdog's among
\* them, and the start.
InputsChecked(s, wd) == [s EXCEPT !.first = FALSE, !.wd = wd]

InputsOn(s, mode) ==
  [s EXCEPT !.pending = FALSE, !.inputs = TRUE, !.sync = mode, !.sm2 = TRUE,
            !.dcRun = FALSE, !.seqValid = FALSE, !.pll = -1]

\* StartInputHandler: the synchronisation mode is what the DC unit, the
\* objects 0x1C32 and 0x1C33 and the buffer mode make it, or the settings do
\* not fit.
StartInput(s) ==
  { Result(InputsOn(InputsChecked(s, wd), mode), "ok") :
      wd \in BOOLEAN, mode \in SyncModes }
  \cup { Result(StopInput(InputsChecked(s, wd)), "error") : wd \in BOOLEAN }

\* StartOutputHandler, which leaves the rest to AL_ControlRes.
StartOutput(s, ack) ==
  Result([s EXCEPT !.sm2 = @ \/ ack, !.pll = IF s.sync = "dc" THEN 0 ELSE -1],
         "inWork")

(***************************************************************************)
(* AL_ControlInd.                                                          *)
(***************************************************************************)

\* SetALStatus, up to the write of the register.
\* A status code that is not 0 always comes with the error bit.
SetALStatus(s) ==
  [s EXCEPT !.devid = s.wantId /\ ~s.err /\ s.state # "BOOT", !.due = TRUE]

\* CheckSmSettings, with the side of the configuration that fails.
CheckSm(all) ==
  IF esc.mailbox # "ok" THEN "mailbox"
  ELSE IF all /\ ~esc.pdFits THEN "processData" ELSE "ok"

\* The check for a transition.
Check(from, to) ==
  IF to = "PREOP" /\ from # "BOOT" THEN CheckSm(FALSE)
  ELSE IF <<from, to>> \in ({"PREOP", "SAFEOP", "OP"} \X {"SAFEOP"})
                             \cup ({"SAFEOP", "OP"} \X {"OP"})
  THEN CheckSm(TRUE) ELSE "ok"

\* The settings failed: stop what runs, down to PREOP or, without a mailbox,
\* to INIT.  The switch compares nAlStatus whole, its identification bit too.
Demote(s, check) ==
  IF s.devid \/ s.state \notin {"PREOP", "SAFEOP", "OP"} THEN s
  ELSE LET to == IF check = "mailbox" THEN "INIT" ELSE "PREOP"
       IN  [StopDownTo(s, to) EXCEPT !.state = to]

Rank == [INIT |-> 1, PREOP |-> 2, SAFEOP |-> 4, OP |-> 8]
Lower(to, from) == /\ {to, from} \subseteq DOMAIN Rank
                   /\ Rank[to] < Rank[from]

\* Variant: the switch has no default, and no error is set.
RefusedLax(s) == {Result(s, "ok")}

\* ALSTATUSCODE_INVALIDALCONTROL and ALSTATUSCODE_UNKNOWNALCONTROL.
Refused(s) == {Result(s, "error")}

\* The transition itself, once the settings are right: its possible outcomes.
Transition(s, to, ack) ==
  LET edge == <<s.state, to>> IN
  CASE edge = <<"INIT", "BOOT">> /\ esc.mailbox # "ok" -> Refused(s)
    [] edge = <<"INIT", "BOOT">> /\ esc.mailbox = "ok" -> StartMailbox(s, TRUE)
    [] edge = <<"BOOT", "INIT">> ->
         {Result(StopMailbox([s EXCEPT !.boot = FALSE]), "ok")}
    [] edge = <<"INIT", "PREOP">> -> StartMailbox(s, FALSE)
    [] edge = <<"PREOP", "SAFEOP">> -> StartInput(s)
    [] edge = <<"SAFEOP", "OP">> -> {StartOutput(s, ack)}
    [] Lower(to, s.state) ->
         {Result([StopDownTo(s, to) EXCEPT !.pending = FALSE], "ok")}
    [] s.state = to /\ to # "BOOT" ->
         {Result([s EXCEPT !.sm2 = @ \/ to \in {"SAFEOP", "OP"}],
                 "noChange")}
    [] OTHER -> Refused(s)

\* Variant: bEcatWaitForAlControlRes outlives a request for the same state.
FinishedUnlessSame(s, to) ==
  IF to = s.state THEN s ELSE [s EXCEPT !.waiting = FALSE]

Finished(s, to) == [s EXCEPT !.waiting = FALSE]

\* The end of AL_ControlInd.  code: the stack itself reports an error.
Settle(s, to, code, result) ==
  IF result = "inWork" THEN [s EXCEPT !.waiting = TRUE, !.timeout = Timeout]
  ELSE LET ended == Finished(s, to)
           failed == result # "ok"
           leaveOp == (failed \/ code) /\ ("OP" \in {to, s.state} \/ to = "other8")
           halted == IF ~leaveOp THEN ended
                     ELSE [IF s.outputs THEN StopOutput(ended) ELSE ended
                           EXCEPT !.sm2 = FALSE]
       IN  IF to = s.state THEN SetALStatus(ended)
           ELSE IF failed
           THEN SetALStatus([halted EXCEPT !.err = TRUE,
                  !.state = IF @ = "OP" /\ ~s.devid THEN "SAFEOP" ELSE @])
           ELSE SetALStatus([halted EXCEPT !.state = to, !.err = code,
                                           !.devid = FALSE])

\* Variant: asking for the state shown acknowledges its error.
IgnoredHigher(s, req) ==
  s.err /\ ~req.ack /\ req.to \notin {"INIT", s.state}

Ignored(s, req) == s.err /\ ~req.ack /\ req.to # "INIT"

\* What AL_ControlInd can make of the slave.
AlControlInd(s, req, code) ==
  LET begun == [s EXCEPT !.timeout = -1, !.pending = TRUE]
      ready == [begun EXCEPT !.err = FALSE, !.devid = @ /\ req.ack,
                             !.acked = req.ack \/ req.to = "INIT"
                                       \/ (@ /\ ~s.err)]
      check == Check(s.state, req.to)
  IN  IF Ignored(s, req) THEN {begun}
      ELSE IF check # "ok"
      THEN {Settle(Demote(ready, check), req.to, code, "error")}
      ELSE { Settle(r.slave, req.to, code, r.result) :
               r \in Transition(ready, req.to, req.ack) }

(***************************************************************************)
(* AL_ControlRes, for the one transition that can be pending.              *)
(***************************************************************************)
EnterOp(s) == SetALStatus([s EXCEPT !.state = "OP", !.outputs = TRUE,
                             !.waiting = FALSE, !.err = FALSE])

RejectOp(s) == SetALStatus([StopOutput(s) EXCEPT !.waiting = FALSE,
                              !.err = TRUE])

\* The condition under which the application is asked for its outputs.
Ready(s) == IF s.sync = "dc" THEN s.pll >= PllTicks ELSE s.first

AlControlRes(s) ==
  IF s.timeout = 0
  THEN IF s.sync = "dc" /\ s.dcRun /\ s.first /\ s.seqValid
       THEN EnterOp(s) ELSE RejectOp(s)
  ELSE IF s.pending /\ Ready(s)
  THEN EnterOp([s EXCEPT !.pending = FALSE, !.told = TRUE, !.pll = -1])
  ELSE s

(***************************************************************************)
(* The ecat task: one turn of MainLoop.  No step is taken while the AL     *)
(* status register is still to be written.                                 *)
(***************************************************************************)
Goto(here, there) == pc = here /\ pc' = there /\ ~slave.due

\* The polled outputs and the application, when no interrupt runs them.
MainLoopApplication ==
  /\ Goto("app", "timer")
  /\ LET polled == slave.sync \notin Interrupt /\ esc.outEvent
         copied == polled /\ slave.outputs
         runs   == slave.sync # "dc"
                   /\ (slave.sync \notin Interrupt \/ ~slave.first)
     IN  /\ slave' = [slave EXCEPT !.first = @ \/ polled]
         /\ object' = IF copied THEN out ELSE object
         /\ rxpdo' = IF runs THEN object' ELSE rxpdo
         /\ esc' = [esc EXCEPT !.outEvent = @ /\ ~copied]
  /\ UNCHANGED <<seen, reg, out>>

\* Variant: the timeout stops one call short of 0.
CheckTimerShort(s, running, valid) ==
  [s EXCEPT !.timeout = IF s.waiting /\ @ > 1 THEN @ - 1 ELSE @]

\* ECAT_CheckTimer with DC_CheckWatchdog.  Whether Sync0 and Sync1 came in
\* time and the outputs with them is the master's to say.
CheckTimer(s, running, valid) ==
  LET t == [s EXCEPT !.timeout = IF s.waiting /\ @ > 0 THEN @ - 1 ELSE @]
  IN  IF s.sync # "dc" \/ ~s.inputs THEN t
      ELSE [t EXCEPT !.dcRun = running, !.seqValid = running /\ valid,
              !.pll = IF @ = -1 \/ ~running THEN @
                      ELSE IF valid THEN (IF @ < PllTicks THEN @ + 1 ELSE @)
                      ELSE IF s.seqValid THEN 0 ELSE @]

TimerTick ==
  /\ Goto("timer", "read")
  /\ \E running, valid \in BOOLEAN : slave' = CheckTimer(slave, running, valid)
  /\ UNCHANGED <<seen, reg, esc, words>>

NoTick ==
  /\ Goto("timer", "read")
  /\ UNCHANGED <<slave, seen, reg, esc, words>>

\* ECAT_Main reads the SM1 activation and the event register once.
ReadEvents ==
  /\ Goto("read", "control")
  /\ seen' = [control |-> esc.control /\ ~slave.waiting, sm |-> esc.smEvent,
              sm1 |-> slave.mailbox => esc.mailbox # "off"]
  /\ UNCHANGED <<slave, reg, esc, words>>

\* The requests a master may have written.
Requests ==
  { r \in [to : Targets, ack : BOOLEAN] : r.ack => AckFreely \/ reg.err }

\* An AL control event: the request is read and handled.
HandleControl ==
  /\ Goto("control", "smChange")
  /\ seen.control
  /\ esc' = [esc EXCEPT !.control = FALSE]
  /\ seen' = [seen EXCEPT !.sm = FALSE]
  /\ \E req \in Requests, id \in (IF IdRequests THEN BOOLEAN ELSE {FALSE}) :
       slave' \in AlControlInd([slave EXCEPT !.wantId = id], req, FALSE)
  /\ UNCHANGED <<reg, words>>

NoControl ==
  /\ Goto("control", "smChange")
  /\ ~seen.control
  /\ UNCHANGED <<slave, seen, reg, esc, words>>

\* A sync manager changed: the present state is requested again.
SmChangeDue == /\ seen.sm /\ ~slave.waiting /\ ~slave.err
               /\ slave.state = "INIT" => slave.devid

HandleSmChange ==
  /\ Goto("smChange", "res")
  /\ SmChangeDue
  /\ esc' = [esc EXCEPT !.smEvent = FALSE]
  /\ slave' \in AlControlInd(slave, Request(slave.state, FALSE), FALSE)
  /\ UNCHANGED <<seen, reg, words>>

NoSmChange ==
  /\ Goto("smChange", "res")
  /\ ~SmChangeDue
  /\ UNCHANGED <<slave, seen, reg, esc, words>>

HandlePending ==
  /\ Goto("res", "mailbox")
  /\ slave' = IF slave.waiting THEN AlControlRes(slave) ELSE slave
  /\ UNCHANGED <<seen, reg, esc, words>>

\* The mailbox runs, but SM1 was off when it was read: the present state is
\* requested again, a pending transition or not.
CheckMailbox ==
  /\ Goto("mailbox", "error")
  /\ IF slave.mailbox /\ ~seen.sm1
     THEN slave' \in AlControlInd(slave, Request(slave.state, FALSE), FALSE)
     ELSE UNCHANGED slave
  /\ seen' = NothingSeen
  /\ UNCHANGED <<reg, esc, words>>

\* CheckIfEcatError: the process data watchdog, then the synchronisation.
WatchdogExpired ==
  /\ slave.wd
  /\ IF slave.outputs
     THEN /\ Goto("error", "app")
          /\ slave' \in AlControlInd(slave, Request("SAFEOP", FALSE), TRUE)
     ELSE /\ Goto("error", "clear")
          /\ UNCHANGED slave
  /\ UNCHANGED <<seen, reg, esc, words>>

\* The outputs may have come since the watchdog was read.
ClearFirst ==
  /\ Goto("clear", "app")
  /\ slave' = [slave EXCEPT !.first = FALSE]
  /\ UNCHANGED <<seen, reg, esc, words>>

CheckSync ==
  /\ Goto("error", "app")
  /\ IF slave.sync = "dc" /\ slave.outputs /\ ~(slave.dcRun /\ slave.seqValid)
     THEN slave' \in AlControlInd(slave, Request("SAFEOP", FALSE), TRUE)
     ELSE UNCHANGED slave
  /\ UNCHANGED <<seen, reg, esc, words>>

\* The write that ends SetALStatus.
PublishStatus ==
  /\ slave.due
  /\ slave' = [slave EXCEPT !.due = FALSE]
  /\ reg' = [state |-> slave.state, err |-> slave.err]
  /\ UNCHANGED <<pc, seen, esc, words>>

Task ==
  \/ MainLoopApplication \/ TimerTick \/ NoTick \/ ReadEvents
  \/ HandleControl \/ NoControl \/ HandleSmChange \/ NoSmChange
  \/ HandlePending \/ CheckMailbox \/ WatchdogExpired \/ ClearFirst
  \/ CheckSync \/ PublishStatus

(***************************************************************************)
(* The interrupts.                                                         *)
(***************************************************************************)

\* Variant: the outputs are left to ECAT_Application.
PdiIsrApplication ==
  /\ slave.sync \in Interrupt
  /\ esc.outEvent
  /\ esc' = [esc EXCEPT !.outEvent = FALSE]
  /\ slave' = [slave EXCEPT !.first = TRUE]
  /\ object' = IF slave.outputs THEN out ELSE object
  /\ rxpdo' = IF slave.sync = "sm" THEN object' ELSE rxpdo
  /\ UNCHANGED <<pc, seen, reg, out>>

\* PDI_Isr with PROCESS_OUTPUT_EVENT.
PdiIsr ==
  /\ slave.sync \in Interrupt
  /\ esc.outEvent
  /\ esc' = [esc EXCEPT !.outEvent = FALSE]
  /\ slave' = [slave EXCEPT !.first = TRUE]
  /\ object' = IF slave.outputs THEN out ELSE object
  /\ rxpdo' = IF slave.outputs THEN out
              ELSE IF slave.sync = "sm" THEN object ELSE rxpdo
  /\ UNCHANGED <<pc, seen, reg, out>>

\* Sync0_Isr: the application.
Sync0Isr ==
  /\ slave.sync = "dc"
  /\ rxpdo' = object
  /\ UNCHANGED <<slave, pc, seen, reg, esc, out, object>>

(***************************************************************************)
(* The master (external).                                                  *)
(***************************************************************************)
MasterRequests ==
  /\ ~esc.control
  /\ esc' = [esc EXCEPT !.control = TRUE]
  /\ UNCHANGED <<slave, pc, seen, reg, words>>

MasterConfigures ==
  /\ \E m \in Mailboxes, p \in BOOLEAN :
       /\ <<m, p>> # <<esc.mailbox, esc.pdFits>>
       /\ esc' = [esc EXCEPT !.mailbox = m, !.pdFits = p, !.smEvent = TRUE]
  /\ UNCHANGED <<slave, pc, seen, reg, words>>

MasterWritesOutputs ==
  /\ slave.sm2 /\ esc.pdFits
  /\ \E w \in Words : out' = w
  /\ esc' = [esc EXCEPT !.outEvent = TRUE]
  /\ UNCHANGED <<slave, pc, seen, reg, object, rxpdo>>

Master == MasterRequests \/ MasterConfigures \/ MasterWritesOutputs

(***************************************************************************)
(* Start: ECAT_Init.                                                       *)
(***************************************************************************)
SlaveInit == [
  state |-> "INIT", err |-> FALSE, devid |-> FALSE, wantId |-> FALSE,
  waiting |-> FALSE, pending |-> FALSE, timeout |-> 0, outputs |-> FALSE,
  inputs |-> FALSE, first |-> FALSE, mailbox |-> FALSE, boot |-> FALSE,
  told |-> FALSE, sync |-> "none", sm2 |-> FALSE, wd |-> FALSE,
  dcRun |-> FALSE, seqValid |-> FALSE, pll |-> -1, acked |-> FALSE,
  due |-> FALSE]

Init ==
  /\ slave = SlaveInit
  /\ pc = "app"
  /\ seen = NothingSeen
  /\ reg = [state |-> "INIT", err |-> FALSE]
  /\ \E m \in Mailboxes, p \in BOOLEAN :
       esc = [control |-> FALSE, smEvent |-> FALSE, outEvent |-> FALSE,
              mailbox |-> m, pdFits |-> p]
  /\ out = SafeWord /\ object = SafeWord /\ rxpdo = SafeWord

Next == Task \/ PdiIsr \/ Sync0Isr \/ Master

Spec == Init /\ [][Next]_vars

\* MainLoop is called for ever and time passes; an interrupt that is pending
\* is taken.
Fairness == WF_vars(Task) /\ SF_vars(TimerTick) /\ WF_vars(PdiIsr)

FairSpec == Spec /\ Fairness

-----------------------------------------------------------------------------
(***************************************************************************)
(* Properties.                                                             *)
(***************************************************************************)
Steps == {"app", "timer", "read", "control", "smChange", "res", "mailbox",
          "error", "clear"}

\* The variables have their types.
TypeOK ==
  /\ slave \in Slaves
  /\ pc \in Steps
  /\ seen \in [control : BOOLEAN, sm : BOOLEAN, sm1 : BOOLEAN]
  /\ reg \in [state : States, err : BOOLEAN]
  /\ esc \in [control : BOOLEAN, smEvent : BOOLEAN, outEvent : BOOLEAN,
              mailbox : MailboxConfigs, pdFits : BOOLEAN]
  /\ out \in Words /\ object \in Words /\ rxpdo \in Words

\* What runs is what the state allows: after any sequence of requests whose
\* acknowledge bit is set for an error only (~AckFreely), rejected
\* configurations, expired watchdogs and timeouts, a mailbox, an input or an
\* output update is neither left running nor missing.
HandlersFollowState ==
  /\ slave.mailbox <=> slave.state # "INIT"
  /\ slave.boot    <=> slave.state = "BOOT"
  /\ slave.inputs  <=> slave.state \in {"SAFEOP", "OP"}
  /\ slave.inputs  <=> slave.sync # "none"
  /\ slave.outputs <=> slave.state = "OP"
  /\ slave.outputs => ~slave.err

\* A pending transition is SAFEOP to OP, free of errors and with its timeout
\* armed, though AL_ControlInd may run again while it is pending: were the
\* counter left at -1, the slave would wait, and ignore its master, for ever.
WaitIsTimed ==
  slave.waiting =>
    /\ slave.state = "SAFEOP" /\ ~slave.err
    /\ slave.timeout >= 0
    /\ slave.inputs /\ ~slave.outputs

\* The error bit the master sees goes only when a request acknowledged it or
\* asked for INIT, whatever watchdog or configuration event comes between.
ErrorsAwaitAck == [][reg.err /\ ~reg'.err => slave.acked]_vars

\* The AL status register and the output update behave as AlStatus promises.
Status == INSTANCE AlStatus WITH
            state <- reg.state, err <- reg.err, live <- slave.outputs
ImplementsAlStatus == Status!Spec

\* "The function is called in the state transition from SAFEOP to OP"
\* (ethercat_charger.c:158): no OP without APPL_StartOutputHandler.
ApplicationTold == slave.state = "OP" => slave.told

\* "The outputs should be reset to a safe state, when the state OP is left"
\* (ecatappl.c:122).
SafeOutsideOp ==
  slave.state # "OP" /\ ~slave.due => rxpdo = SafeWord

\* A pending transition ends, whatever Sync0, the outputs and the master do;
\* until then no other request is looked at.
WaitEnds == slave.waiting ~> ~slave.waiting

\* Outputs that came while the update runs reach the charger, whatever the
\* synchronisation mode, unless newer ones come or the update ends.
OutputsArrive ==
  \A w \in Words :
    (slave.outputs /\ esc.outEvent /\ out = w)
      ~> (rxpdo = w \/ out # w \/ ~slave.outputs)
=============================================================================
