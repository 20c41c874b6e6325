---------------------- MODULE EcatStateMachineProofs ----------------------
(***************************************************************************)
(* Proofs about EcatStateMachine, for a master that acknowledges errors    *)
(* only (~AckFreely) and every value of the other constants.               *)
(*                                                                         *)
(* The handlers are operators from slave to slave, so the lemmas follow    *)
(* the calls: what each piece of AL_ControlInd does to what runs (Runs)    *)
(* and to the rest (Same), what a transition may end with (Outcome), what  *)
(* Settle makes of that (Settled), and AL_ControlInd as a whole            *)
(* (Indicated).  Effect sums up the steps, and IInv, which relates what    *)
(* runs to the state and the register to both, follows from Effect.        *)
(***************************************************************************)
EXTENDS EcatStateMachine, TLAPS

USE DEF States, Syncs

(***************************************************************************)
(* What runs is what the state st needs.                                   *)
(***************************************************************************)
Runs(s, st) ==
  /\ s \in Slaves
  /\ s.mailbox <=> st # "INIT"
  /\ s.boot    <=> st = "BOOT"
  /\ s.inputs  <=> st \in {"SAFEOP", "OP"}
  /\ s.inputs  <=> s.sync # "none"
  /\ s.outputs <=> st = "OP"

\* What no starting or stopping touches.
Same(s, t) ==
  /\ t.state = s.state /\ t.due = s.due
  /\ t.err = s.err /\ t.devid = s.devid
  /\ t.waiting = s.waiting /\ t.acked = s.acked

\* The counters may be set to -1 and 0.
LEMMA PllStart == -1 \in -1 .. PllTicks /\ 0 \in -1 .. PllTicks
BY TickAssumption

\* The counters may be set to -1, 0 and the timeout.
LEMMA TimerStart == -1 \in -1 .. Timeout /\ 0 \in -1 .. Timeout
                    /\ Timeout \in -1 .. Timeout
BY TickAssumption

\* Stopping keeps the types.
LEMMA StopTypes ==
  ASSUME NEW s \in Slaves
  PROVE  /\ StopOutput(s) \in Slaves
         /\ StopInput(s) \in Slaves
         /\ StopMailbox(s) \in Slaves
<1>1. StopOutput(s) \in Slaves
  BY DEF Slaves, StopOutput
<1>2. StopInput(s) \in Slaves
  BY PllStart DEF Slaves, StopInput
<1>3. StopMailbox(s) \in Slaves
  BY DEF Slaves, StopMailbox
<1> QED
  BY <1>1, <1>2, <1>3

\* What each way of stopping changes and what it leaves alone.
LEMMA StopFields ==
  ASSUME NEW s \in Slaves
  PROVE  /\ LET t == StopOutput(s) IN
              /\ t.mailbox = s.mailbox /\ t.boot = s.boot
              /\ t.inputs = s.inputs /\ t.sync = s.sync /\ ~t.outputs
         /\ LET t == StopInput(s) IN
              /\ t.mailbox = s.mailbox /\ t.boot = s.boot
              /\ ~t.inputs /\ t.sync = "none" /\ t.outputs = s.outputs
         /\ LET t == StopMailbox(s) IN
              /\ ~t.mailbox /\ t.boot = s.boot
              /\ t.inputs = s.inputs /\ t.sync = s.sync
              /\ t.outputs = s.outputs
BY DEF Slaves, StopOutput, StopInput, StopMailbox

\* Stopping touches no state, error or pending transition.
LEMMA StopSame ==
  ASSUME NEW s \in Slaves
  PROVE  /\ Same(s, StopOutput(s))
         /\ Same(s, StopInput(s))
         /\ Same(s, StopMailbox(s))
BY DEF Slaves, Same, StopOutput, StopInput, StopMailbox

\* Stopping one thing takes what runs one state down.
LEMMA StopEffects ==
  ASSUME NEW s \in Slaves
  PROVE  /\ Runs(s, "OP") => Runs(StopOutput(s), "SAFEOP")
         /\ Runs(s, "SAFEOP") => Runs(StopOutput(s), "SAFEOP")
         /\ Runs(s, "SAFEOP") => Runs(StopInput(s), "PREOP")
         /\ Runs(s, "PREOP") => Runs(StopInput(s), "PREOP")
         /\ Runs(s, "PREOP") => Runs(StopMailbox(s), "INIT")
         /\ Runs(s, "INIT") => Runs(StopMailbox(s), "INIT")
BY StopFields, StopTypes DEF Runs

\* The pairs of states the way down leads between.
LEMMA LowerPairs ==
  ASSUME NEW from \in States, NEW to, Lower(to, from)
  PROVE  \/ from = "PREOP"  /\ to = "INIT"
         \/ from = "SAFEOP" /\ to \in {"INIT", "PREOP"}
         \/ from = "OP"     /\ to \in {"INIT", "PREOP", "SAFEOP"}
BY DEF Lower, Rank

\* StopDownTo leaves running what the lower state needs.
LEMMA StopDownToEffect ==
  ASSUME NEW s \in Slaves, NEW to, Runs(s, s.state), Lower(to, s.state)
  PROVE  Runs(StopDownTo(s, to), to) /\ Same(s, StopDownTo(s, to))
<1> DEFINE a == IF s.state = "OP" THEN StopOutput(s) ELSE s
           b == IF s.state \in {"OP", "SAFEOP"} /\ to # "SAFEOP"
                THEN StopInput(a) ELSE a
           c == IF to = "INIT" THEN StopMailbox(b) ELSE b
<1>0. StopDownTo(s, to) = c
  BY DEF StopDownTo
<1>1. s.state \in States
  BY DEF Slaves
<1>2. /\ a \in Slaves /\ Same(s, a)
      /\ s.state = "OP" => Runs(a, "SAFEOP")
      /\ s.state # "OP" => Runs(a, s.state)
  BY StopTypes, StopSame, StopEffects DEF Same
<1> HIDE DEF a
<1>3. b \in Slaves /\ Same(s, b)
  BY <1>2, StopTypes, StopSame DEF Same
<1>4. Runs(b, IF to = "INIT" THEN "PREOP" ELSE to)
  BY <1>1, <1>2, LowerPairs, StopEffects
<1> HIDE DEF b
<1>5. Runs(c, to) /\ Same(s, c)
  BY <1>3, <1>4, StopTypes, StopSame, StopEffects DEF Same
<1> QED
  BY <1>0, <1>5

(***************************************************************************)
(* Starting.                                                               *)
(***************************************************************************)
Ups == { <<"INIT", "PREOP">>, <<"INIT", "BOOT">>, <<"PREOP", "SAFEOP">> }
Downs == { <<"PREOP", "INIT">>, <<"SAFEOP", "INIT">>, <<"SAFEOP", "PREOP">>,
           <<"OP", "INIT">>, <<"OP", "PREOP">>, <<"OP", "SAFEOP">>,
           <<"BOOT", "INIT">> }

\* What a transition may have done to s when it ends with r.
Outcome(s, to, r) ==
  /\ r.slave \in Slaves
  /\ Same(s, r.slave)
  /\ \/ /\ r.result = "ok" /\ <<s.state, to>> \in Ups \cup Downs
        /\ Runs(r.slave, to)
     \/ r.result = "error" /\ Runs(r.slave, s.state)
     \/ r.result = "noChange" /\ to = s.state /\ Runs(r.slave, s.state)
     \/ /\ r.result = "inWork" /\ <<s.state, to>> = <<"SAFEOP", "OP">>
        /\ Runs(r.slave, s.state)

\* A refusal leaves everything running.
LEMMA RefusedOutcome ==
  ASSUME NEW s \in Slaves, NEW to, Runs(s, s.state), NEW r \in Refused(s)
  PROVE  Outcome(s, to, r)
BY DEF Refused, Result, Outcome, Same

\* INIT to PREOP or BOOT: the mailbox runs, or INIT is left as it was.
LEMMA StartMailboxOutcome ==
  ASSUME NEW s \in Slaves, NEW boot \in BOOLEAN, s.state = "INIT",
         Runs(s, "INIT"), NEW r \in StartMailbox(s, boot)
  PROVE  Outcome(s, IF boot THEN "BOOT" ELSE "PREOP", r)
<1> DEFINE t == [s EXCEPT !.mailbox = TRUE, !.boot = boot, !.pending = FALSE]
<1>1. t \in Slaves
  BY DEF Slaves
<1>2. Same(s, t)
  BY DEF Slaves, Same
<1>3. Runs(t, IF boot THEN "BOOT" ELSE "PREOP")
  BY <1>1 DEF Slaves, Runs
<1>4. r = Result(t, "ok") \/ r = Result(StopMailbox(s), "error")
  BY DEF StartMailbox
<1> HIDE DEF t
<1>5. CASE r = Result(t, "ok")
  BY <1>1, <1>2, <1>3, <1>5 DEF Result, Outcome, Ups
<1>6. CASE r = Result(StopMailbox(s), "error")
  BY <1>6, StopTypes, StopSame, StopEffects DEF Result, Outcome
<1> QED
  BY <1>4, <1>5, <1>6

\* The checks of StartInputHandler start nothing.
LEMMA InputsCheckedEffect ==
  ASSUME NEW s \in Slaves, NEW wd \in BOOLEAN, Runs(s, "PREOP")
  PROVE  LET b == InputsChecked(s, wd)
         IN  b \in Slaves /\ Same(s, b) /\ Runs(b, "PREOP")
<1> DEFINE b == InputsChecked(s, wd)
<1>1. b \in Slaves
  BY DEF Slaves, InputsChecked
<1>2. Same(s, b)
  BY DEF Slaves, Same, InputsChecked
<1>3. /\ b.mailbox = s.mailbox /\ b.boot = s.boot /\ b.inputs = s.inputs
      /\ b.sync = s.sync /\ b.outputs = s.outputs
  BY DEF Slaves, InputsChecked
<1> HIDE DEF b
<1>4. Runs(b, "PREOP")
  BY <1>1, <1>3 DEF Runs
<1> QED
  BY <1>1, <1>2, <1>4 DEF b

\* The inputs run once they are started.
LEMMA InputsOnEffect ==
  ASSUME NEW s \in Slaves, NEW mode \in SyncModes, Runs(s, "PREOP")
  PROVE  LET t == InputsOn(s, mode)
         IN  t \in Slaves /\ Same(s, t) /\ Runs(t, "SAFEOP")
<1> DEFINE t == InputsOn(s, mode)
<1>0. mode \in Syncs /\ mode # "none"
  BY ModeAssumption
<1>1. t \in Slaves
  BY <1>0, PllStart DEF Slaves, InputsOn
<1>2. Same(s, t)
  BY DEF Slaves, Same, InputsOn
<1>3. /\ t.mailbox = s.mailbox /\ t.boot = s.boot /\ t.inputs
      /\ t.sync = mode /\ t.outputs = s.outputs
  BY DEF Slaves, InputsOn
<1> HIDE DEF t
<1>4. Runs(t, "SAFEOP")
  BY <1>0, <1>1, <1>3 DEF Runs
<1> QED
  BY <1>1, <1>2, <1>4 DEF t

\* PREOP to SAFEOP: the inputs run, or PREOP is left as it was.
LEMMA StartInputOutcome ==
  ASSUME NEW s \in Slaves, s.state = "PREOP", Runs(s, "PREOP"),
         NEW r \in StartInput(s)
  PROVE  Outcome(s, "SAFEOP", r)
<1>1. \/ \E wd \in BOOLEAN, mode \in SyncModes :
           r = Result(InputsOn(InputsChecked(s, wd), mode), "ok")
      \/ \E wd \in BOOLEAN :
           r = Result(StopInput(InputsChecked(s, wd)), "error")
  BY DEF StartInput
<1>2. ASSUME NEW wd \in BOOLEAN, NEW mode \in SyncModes,
             r = Result(InputsOn(InputsChecked(s, wd), mode), "ok")
      PROVE  Outcome(s, "SAFEOP", r)
  <2>1. LET t == InputsOn(InputsChecked(s, wd), mode)
        IN  t \in Slaves /\ Same(s, t) /\ Runs(t, "SAFEOP")
    <3> DEFINE b == InputsChecked(s, wd)
    <3>1. b \in Slaves /\ Same(s, b) /\ Runs(b, "PREOP")
      BY InputsCheckedEffect
    <3> HIDE DEF b
    <3>2. LET t == InputsOn(b, mode)
          IN  t \in Slaves /\ Same(b, t) /\ Runs(t, "SAFEOP")
      BY <3>1, InputsOnEffect
    <3> QED
      BY <3>1, <3>2 DEF b, Same
  <2> QED
    BY <1>2, <2>1 DEF Result, Outcome, Ups
<1>3. ASSUME NEW wd \in BOOLEAN,
             r = Result(StopInput(InputsChecked(s, wd)), "error")
      PROVE  Outcome(s, "SAFEOP", r)
  <2>1. LET t == StopInput(InputsChecked(s, wd))
        IN  t \in Slaves /\ Same(s, t) /\ Runs(t, "PREOP")
    <3> DEFINE b == InputsChecked(s, wd)
    <3>1. b \in Slaves /\ Same(s, b) /\ Runs(b, "PREOP")
      BY InputsCheckedEffect
    <3> HIDE DEF b
    <3>2. LET t == StopInput(b)
          IN  t \in Slaves /\ Same(b, t) /\ Runs(t, "PREOP")
      BY <3>1, StopTypes, StopSame, StopEffects
    <3> QED
      BY <3>1, <3>2 DEF b, Same
  <2> QED
    BY <1>3, <2>1 DEF Result, Outcome
<1> QED
  BY <1>1, <1>2, <1>3

\* SAFEOP to OP is pending and has started no outputs.
LEMMA StartOutputOutcome ==
  ASSUME NEW s \in Slaves, NEW ack \in BOOLEAN, s.state = "SAFEOP",
         Runs(s, "SAFEOP")
  PROVE  Outcome(s, "OP", StartOutput(s, ack))
<1> DEFINE t == [s EXCEPT !.sm2 = @ \/ ack,
                          !.pll = IF s.sync = "dc" THEN 0 ELSE -1]
<1>1. t \in Slaves
  BY PllStart DEF Slaves
<1>2. Same(s, t) /\ Runs(t, "SAFEOP")
  BY <1>1 DEF Slaves, Same, Runs
<1>3. StartOutput(s, ack) = Result(t, "inWork")
  BY DEF StartOutput
<1> HIDE DEF t
<1> QED
  BY <1>1, <1>2, <1>3 DEF Result, Outcome

\* A request for the present state starts and stops nothing.
LEMMA NoChangeOutcome ==
  ASSUME NEW s \in Slaves, NEW to, NEW ack \in BOOLEAN, Runs(s, s.state),
         to = s.state
  PROVE  Outcome(s, to, Result([s EXCEPT !.sm2 = @ \/ to \in {"SAFEOP", "OP"}],
                               "noChange"))
<1> DEFINE t == [s EXCEPT !.sm2 = @ \/ to \in {"SAFEOP", "OP"}]
<1>1. t \in Slaves
  BY DEF Slaves
<1>2. Same(s, t) /\ Runs(t, s.state)
  BY <1>1 DEF Slaves, Same, Runs
<1> HIDE DEF t
<1>3. Outcome(s, to, Result(t, "noChange"))
  BY <1>1, <1>2 DEF Result, Outcome
<1> QED
  BY <1>3 DEF t

\* A way down stops what the lower state does not need.
LEMMA DownOutcome ==
  ASSUME NEW s \in Slaves, NEW to, Runs(s, s.state), Lower(to, s.state)
  PROVE  Outcome(s, to, Result([StopDownTo(s, to) EXCEPT !.pending = FALSE], "ok"))
<1> DEFINE d == StopDownTo(s, to)
           t == [d EXCEPT !.pending = FALSE]
<1>1. Runs(d, to) /\ Same(s, d) /\ d \in Slaves
  BY StopDownToEffect DEF Runs
<1> HIDE DEF d
<1>2. t \in Slaves /\ Same(d, t)
  BY <1>1 DEF Slaves, Same
<1>3. Runs(t, to)
  BY <1>1, <1>2 DEF Slaves, Runs
<1>4. s.state \in States
  BY DEF Slaves
<1>5. <<s.state, to>> \in Downs
  BY <1>4, LowerPairs DEF Downs
<1> HIDE DEF t
<1>6. Outcome(s, to, Result(t, "ok"))
  BY <1>1, <1>2, <1>3, <1>5 DEF Result, Outcome, Same
<1> QED
  BY <1>6 DEF d, t

\* BOOT to INIT stops the mailbox.
LEMMA LeaveBootOutcome ==
  ASSUME NEW s \in Slaves, Runs(s, "BOOT"), s.state = "BOOT"
  PROVE  Outcome(s, "INIT", Result(StopMailbox([s EXCEPT !.boot = FALSE]), "ok"))
<1> DEFINE b == [s EXCEPT !.boot = FALSE]
           t == StopMailbox(b)
<1>1. b \in Slaves /\ Same(s, b)
  BY DEF Slaves, Same
<1>2. Runs(b, "PREOP")
  BY <1>1 DEF Slaves, Runs
<1> HIDE DEF b
<1>3. t \in Slaves /\ Same(b, t) /\ Runs(t, "INIT")
  BY <1>1, <1>2, StopTypes, StopSame, StopEffects
<1> HIDE DEF t
<1>4. Outcome(s, "INIT", Result(t, "ok"))
  BY <1>1, <1>3 DEF Result, Outcome, Same, Downs
<1> QED
  BY <1>4 DEF b, t

\* Whatever is asked for, and however it ends, what runs afterwards is what
\* the state entered, or the state kept, needs.
LEMMA TransitionOutcome ==
  ASSUME NEW s \in Slaves, NEW to, NEW ack \in BOOLEAN, Runs(s, s.state),
         NEW r \in Transition(s, to, ack)
  PROVE  Outcome(s, to, r)
<1> DEFINE edge == <<s.state, to>>
<1>1. CASE edge = <<"INIT", "BOOT">>
  <2>1. r \in Refused(s) \/ r \in StartMailbox(s, TRUE)
    BY <1>1 DEF Transition, Lower, Rank
  <2> QED
    BY <1>1, <2>1, RefusedOutcome, StartMailboxOutcome
<1>2. CASE edge = <<"BOOT", "INIT">>
  <2>1. Transition(s, to, ack)
          = {Result(StopMailbox([s EXCEPT !.boot = FALSE]), "ok")}
    BY <1>2, SMT DEF Transition, Lower, Rank
  <2> QED
    BY <1>2, <2>1, LeaveBootOutcome
<1>3. CASE edge = <<"INIT", "PREOP">>
  <2>1. Transition(s, to, ack) = StartMailbox(s, FALSE)
    BY <1>3, SMT DEF Transition, Lower, Rank
  <2> QED
    BY <1>3, <2>1, StartMailboxOutcome
<1>4. CASE edge = <<"PREOP", "SAFEOP">>
  <2>1. Transition(s, to, ack) = StartInput(s)
    BY <1>4, SMT DEF Transition, Lower, Rank
  <2> QED
    BY <1>4, <2>1, StartInputOutcome
<1>5. CASE edge = <<"SAFEOP", "OP">>
  <2>1. Transition(s, to, ack) = {StartOutput(s, ack)}
    BY <1>5, SMT DEF Transition, Lower, Rank
  <2> QED
    BY <1>5, <2>1, StartOutputOutcome
<1>6. CASE /\ edge \notin {<<"INIT", "BOOT">>, <<"BOOT", "INIT">>, <<"INIT", "PREOP">>,
                          <<"PREOP", "SAFEOP">>, <<"SAFEOP", "OP">>}
  <2>1. CASE Lower(to, s.state)
    <3>0. s.state # to
      BY <2>1, LowerPairs DEF Slaves
    <3>1. Transition(s, to, ack)
            = {Result([StopDownTo(s, to) EXCEPT !.pending = FALSE], "ok")}
      BY <1>6, <2>1, <3>0, SMT DEF Transition
    <3> QED
      BY <2>1, <3>1, DownOutcome
  <2>2. CASE ~Lower(to, s.state) /\ s.state = to /\ to # "BOOT"
    <3>1. Transition(s, to, ack)
            = {Result([s EXCEPT !.sm2 = @ \/ to \in {"SAFEOP", "OP"}],
                      "noChange")}
      BY <1>6, <2>2, SMT DEF Transition, Lower, Rank
    <3> QED
      BY <2>2, <3>1, NoChangeOutcome
  <2>3. CASE ~Lower(to, s.state) /\ ~(s.state = to /\ to # "BOOT")
    <3>1. r \in Refused(s)
      BY <1>6, <2>3 DEF Transition, Lower, Rank
    <3> QED
      BY <3>1, RefusedOutcome
  <2> QED
    BY <2>1, <2>2, <2>3
<1> QED
  BY <1>1, <1>2, <1>3, <1>4, <1>5, <1>6

(***************************************************************************)
(* The end of AL_ControlInd.                                               *)
(***************************************************************************)

\* What is true of the slave between any two steps.
Sound(s) ==
  /\ Runs(s, s.state)
  /\ s.outputs => ~s.err
  /\ s.waiting => s.state = "SAFEOP" /\ ~s.err /\ s.timeout >= 0
  /\ s.devid => ~s.err /\ ~s.waiting

\* The AL status to be written after the state shown was from.
Leads(from, t) ==
  \/ t.state = from
  \/ <<from, t.state>> \in Downs
  \/ <<from, t.state>> \in Ups /\ ~t.err

\* SetALStatus touches the identification bit only, and never with an error.
LEMMA SetALStatusEffect ==
  ASSUME NEW s \in Slaves
  PROVE  LET t == SetALStatus(s)
         IN  /\ t \in Slaves /\ t.due
             /\ t.state = s.state /\ t.err = s.err
             /\ t.waiting = s.waiting /\ t.acked = s.acked
             /\ t.timeout = s.timeout /\ t.outputs = s.outputs
             /\ t.devid => ~t.err
             /\ \A st : Runs(s, st) => Runs(t, st)
<1> DEFINE t == SetALStatus(s)
<1>1. t \in Slaves
  BY DEF Slaves, SetALStatus
<1>2. /\ t.due /\ t.state = s.state /\ t.err = s.err /\ t.waiting = s.waiting
      /\ t.acked = s.acked /\ t.timeout = s.timeout
      /\ t.devid = (s.wantId /\ ~s.err /\ s.state # "BOOT")
  BY DEF Slaves, SetALStatus
<1>3. /\ t.mailbox = s.mailbox /\ t.boot = s.boot /\ t.inputs = s.inputs
      /\ t.sync = s.sync /\ t.outputs = s.outputs
  BY DEF Slaves, SetALStatus
<1> HIDE DEF t
<1>4. \A st : Runs(s, st) => Runs(t, st)
  BY <1>1, <1>3 DEF Runs
<1>5. t.devid => ~t.err
  BY <1>2
<1> QED
  BY <1>1, <1>2, <1>3, <1>4, <1>5 DEF t

\* Finished ends a pending transition and nothing else.
LEMMA FinishedEffect ==
  ASSUME NEW s \in Slaves, NEW to
  PROVE  LET t == Finished(s, to)
         IN  /\ t \in Slaves /\ ~t.waiting
             /\ t.state = s.state /\ t.due = s.due /\ t.err = s.err
             /\ t.devid = s.devid /\ t.acked = s.acked
             /\ t.outputs = s.outputs
             /\ \A st : Runs(s, st) => Runs(t, st)
<1> DEFINE t == Finished(s, to)
<1>1. t \in Slaves
  BY DEF Slaves, Finished
<1>2. /\ ~t.waiting /\ t.state = s.state /\ t.due = s.due /\ t.err = s.err
      /\ t.devid = s.devid /\ t.acked = s.acked
  BY DEF Slaves, Finished
<1>3. /\ t.mailbox = s.mailbox /\ t.boot = s.boot /\ t.inputs = s.inputs
      /\ t.sync = s.sync /\ t.outputs = s.outputs
  BY DEF Slaves, Finished
<1> HIDE DEF t
<1>4. \A st : Runs(s, st) => Runs(t, st)
  BY <1>1, <1>3 DEF Runs
<1> QED
  BY <1>1, <1>2, <1>3, <1>4 DEF t

\* The slave s as a transition, or the way down from rejected settings, left
\* it, the state shown being from.
Settling(from, s, to, result) ==
  /\ s \in Slaves /\ ~s.err /\ ~s.devid /\ ~s.due
  /\ \/ /\ result = "inWork" /\ from = "SAFEOP"
        /\ s.state = from /\ Runs(s, from)
     \/ /\ result = "ok" /\ <<from, to>> \in Ups \cup Downs
        /\ s.state = from /\ Runs(s, to)
     \/ /\ result = "noChange" /\ s.state = to /\ from = to
        /\ Runs(s, s.state)
     \/ /\ result = "error" /\ Runs(s, s.state)
        /\ s.state = from \/ <<from, s.state>> \in Downs

\* The slave t as AL_ControlInd leaves it.
Settled(from, s, t) ==
  /\ Sound(t)
  /\ t.acked = s.acked
  /\ \/ t.due /\ Leads(from, t)
     \/ ~t.due /\ t.state = from /\ t.waiting

\* A transition that becomes pending has its timeout armed.
LEMMA InWorkSettled ==
  ASSUME NEW s \in Slaves, NEW from, NEW to, NEW code,
         Settling(from, s, to, "inWork")
  PROVE  Settled(from, s, Settle(s, to, code, "inWork"))
<1> DEFINE t == [s EXCEPT !.waiting = TRUE, !.timeout = Timeout]
<1>1. t \in Slaves
  BY TimerStart DEF Slaves
<1>2. /\ t.state = s.state /\ t.err = s.err /\ t.devid = s.devid /\ t.due = s.due
      /\ t.waiting /\ t.timeout = Timeout /\ t.acked = s.acked
  BY DEF Slaves
<1>3. /\ t.mailbox = s.mailbox /\ t.boot = s.boot /\ t.inputs = s.inputs
      /\ t.sync = s.sync /\ t.outputs = s.outputs
  BY DEF Slaves
<1>4. Settle(s, to, code, "inWork") = t
  BY DEF Settle
<1>5. s.state = "SAFEOP" /\ from = "SAFEOP" /\ Runs(s, "SAFEOP") /\ ~s.err /\ ~s.devid /\ ~s.due
  BY DEF Settling
<1> HIDE DEF t
<1>6. Runs(t, "SAFEOP")
  BY <1>1, <1>3, <1>5 DEF Runs
<1>7. t.timeout >= 0
  BY <1>2, TickAssumption
<1>8. Sound(t)
  BY <1>2, <1>5, <1>6, <1>7 DEF Sound
<1> QED
  BY <1>2, <1>4, <1>5, <1>8 DEF Settled

\* A call for the state shown ends where it began.
LEMMA SameStateSettled ==
  ASSUME NEW s \in Slaves, NEW from, NEW code, NEW result,
         result # "inWork", Settling(from, s, s.state, result)
  PROVE  Settled(from, s, Settle(s, s.state, code, result))
<1> DEFINE e == Finished(s, s.state)
           t == SetALStatus(e)
<1>1. Settle(s, s.state, code, result) = t
  BY DEF Settle
<1>2. Runs(s, s.state) /\ ~s.err /\ ~s.devid
  BY DEF Settling, Ups, Downs
<1>3. s.state = from \/ <<from, s.state>> \in Downs
  BY DEF Settling, Ups, Downs
<1>4. /\ e \in Slaves /\ ~e.waiting /\ e.state = s.state /\ ~e.err
      /\ e.acked = s.acked /\ Runs(e, s.state)
  BY <1>2, FinishedEffect
<1> HIDE DEF e
<1>5. /\ t \in Slaves /\ t.due /\ ~t.waiting /\ t.state = s.state /\ ~t.err
      /\ t.acked = s.acked /\ Runs(t, s.state)
  BY <1>4, SetALStatusEffect
<1> HIDE DEF t
<1>6. Sound(t) /\ Leads(from, t)
  BY <1>3, <1>5 DEF Sound, Leads
<1> QED
  BY <1>1, <1>5, <1>6 DEF Settled

\* The outputs are taken away when OP is left or was not reached.
Halted(s, leaveOp) ==
  IF ~leaveOp THEN s
  ELSE [IF s.outputs THEN StopOutput(s) ELSE s EXCEPT !.sm2 = FALSE]

\* Halting takes the outputs away and nothing else.
LEMMA HaltedEffect ==
  ASSUME NEW s \in Slaves, NEW leaveOp \in BOOLEAN
  PROVE  LET t == Halted(s, leaveOp)
         IN  /\ t \in Slaves /\ Same(s, t)
             /\ leaveOp /\ Runs(s, "OP") => Runs(t, "SAFEOP")
             /\ \A st : st # "OP" /\ Runs(s, st) => Runs(t, st)
<1> DEFINE a == IF s.outputs THEN StopOutput(s) ELSE s
           t == [a EXCEPT !.sm2 = FALSE]
<1>1. a \in Slaves /\ Same(s, a)
  BY StopTypes, StopSame DEF Same
<1>2. Runs(s, "OP") => Runs(a, "SAFEOP")
  BY StopEffects DEF Runs
<1>3. \A st : st # "OP" /\ Runs(s, st) => Runs(a, st)
  BY DEF Runs
<1> HIDE DEF a
<1>4. t \in Slaves /\ Same(a, t)
  BY <1>1 DEF Slaves, Same
<1>5. /\ t.mailbox = a.mailbox /\ t.boot = a.boot /\ t.inputs = a.inputs
      /\ t.sync = a.sync /\ t.outputs = a.outputs
  BY <1>1 DEF Slaves
<1> HIDE DEF t
<1>6. \A st : Runs(a, st) => Runs(t, st)
  BY <1>4, <1>5 DEF Runs
<1>7. /\ t \in Slaves /\ Same(s, t)
      /\ Runs(s, "OP") => Runs(t, "SAFEOP")
      /\ \A st : st # "OP" /\ Runs(s, st) => Runs(t, st)
  BY <1>1, <1>2, <1>3, <1>4, <1>6 DEF Same
<1>8. Halted(s, leaveOp) = IF leaveOp THEN t ELSE s
  BY DEF Halted, t, a
<1> QED
  BY <1>7, <1>8 DEF Same

\* A transition that ended well leaves a sound slave.
LEMMA OkSettled ==
  ASSUME NEW s \in Slaves, NEW from, NEW to \in States, NEW code \in BOOLEAN,
         to # s.state, <<from, to>> \in Ups => ~code,
         Settling(from, s, to, "ok")
  PROVE  Settled(from, s, Settle(s, to, code, "ok"))
<1> DEFINE leaveOp == code /\ ("OP" \in {to, s.state} \/ to = "other8")
           e == Finished(s, to)
           h == Halted(e, leaveOp)
           t == [h EXCEPT !.state = to, !.err = code, !.devid = FALSE]
           u == SetALStatus(t)
<1>1. Settle(s, to, code, "ok") = u
  BY DEF Settle, Halted, Finished
<1>2. Runs(s, to) /\ <<from, to>> \in Ups \cup Downs /\ to # "OP"
  BY DEF Settling, Ups, Downs
<1>3. e \in Slaves /\ ~e.waiting /\ e.acked = s.acked /\ Runs(e, to)
  BY <1>2, FinishedEffect
<1> HIDE DEF e
<1>4. leaveOp \in BOOLEAN
  OBVIOUS
<1> HIDE DEF leaveOp
<1>5. h \in Slaves /\ ~h.waiting /\ h.acked = s.acked /\ Runs(h, to)
  BY <1>2, <1>3, <1>4, HaltedEffect DEF Same
<1> HIDE DEF h
<1>6. t \in Slaves
  BY <1>5 DEF Slaves
<1>7. /\ t.state = to /\ t.err = code /\ ~t.devid
      /\ t.waiting = h.waiting /\ t.acked = h.acked
  BY <1>5 DEF Slaves
<1>8. /\ t.mailbox = h.mailbox /\ t.boot = h.boot /\ t.inputs = h.inputs
      /\ t.sync = h.sync /\ t.outputs = h.outputs
  BY <1>5 DEF Slaves
<1> HIDE DEF t
<1>9. Runs(t, to)
  BY <1>5, <1>6, <1>8 DEF Runs
<1>10. /\ u \in Slaves /\ u.due /\ ~u.waiting /\ u.state = to
       /\ u.err = code /\ u.acked = s.acked /\ Runs(u, to)
       /\ (u.devid => ~u.err)
  BY <1>5, <1>6, <1>7, <1>9, SetALStatusEffect
<1> HIDE DEF u
<1>11. ~u.outputs
  BY <1>2, <1>10 DEF Runs
<1>12. Sound(u) /\ Leads(from, u)
  BY <1>2, <1>10, <1>11 DEF Sound, Leads
<1> QED
  BY <1>1, <1>10, <1>12 DEF Settled

\* A transition that failed leaves a sound slave.
LEMMA FailedSettled ==
  ASSUME NEW s \in Slaves, NEW from, NEW to, NEW code \in BOOLEAN,
         to # s.state, Settling(from, s, to, "error")
  PROVE  Settled(from, s, Settle(s, to, code, "error"))
<1> DEFINE leaveOp == "OP" \in {to, s.state} \/ to = "other8"
           e == Finished(s, to)
           h == Halted(e, leaveOp)
           x == IF h.state = "OP" /\ ~s.devid THEN "SAFEOP" ELSE h.state
           t == [h EXCEPT !.err = TRUE, !.state = x]
           u == SetALStatus(t)
           st == IF s.state = "OP" THEN "SAFEOP" ELSE s.state
<1>1. Settle(s, to, code, "error") = u
  BY DEF Settle, Halted, Finished
<1>2. Runs(s, s.state) /\ ~s.devid /\ (s.state = from \/ <<from, s.state>> \in Downs)
  BY DEF Settling
<1>3. /\ e \in Slaves /\ ~e.waiting /\ e.acked = s.acked /\ Runs(e, s.state)
      /\ e.state = s.state /\ ~e.devid
  BY <1>2, FinishedEffect
<1> HIDE DEF e
<1>4. leaveOp \in BOOLEAN /\ (s.state = "OP" => leaveOp)
  OBVIOUS
<1> HIDE DEF leaveOp
<1>5. /\ h \in Slaves /\ ~h.waiting /\ h.acked = s.acked /\ Runs(h, st)
      /\ h.state = s.state /\ ~h.devid
  BY <1>3, <1>4, HaltedEffect DEF Same
<1> HIDE DEF h
<1>x. x = st /\ x \in States
  BY <1>2, <1>5 DEF Slaves
<1> HIDE DEF x
<1>6. t \in Slaves
  BY <1>5, <1>x DEF Slaves
<1>7. /\ t.state = x /\ t.err /\ t.devid = h.devid
      /\ t.waiting = h.waiting /\ t.acked = h.acked
  BY <1>5 DEF Slaves
<1>8. /\ t.mailbox = h.mailbox /\ t.boot = h.boot /\ t.inputs = h.inputs
      /\ t.sync = h.sync /\ t.outputs = h.outputs
  BY <1>5 DEF Slaves
<1> HIDE DEF t
<1>9. Runs(t, st)
  BY <1>5, <1>6, <1>8 DEF Runs
<1>10. /\ u \in Slaves /\ u.due /\ ~u.waiting /\ u.state = st
       /\ u.err /\ u.acked = s.acked /\ Runs(u, st) /\ ~u.devid
  BY <1>5, <1>6, <1>7, <1>9, <1>x, SetALStatusEffect
<1> HIDE DEF u
<1>11. st # "OP" /\ ~u.outputs
  BY <1>10 DEF Runs
<1>12. st = from \/ <<from, st>> \in Downs
  BY <1>2 DEF Downs
<1>13. Sound(u) /\ Leads(from, u)
  BY <1>10, <1>11, <1>12 DEF Sound, Leads
<1> QED
  BY <1>1, <1>10, <1>13 DEF Settled

\* Settle leaves a sound slave, whatever the outcome.
LEMMA SettleEffect ==
  ASSUME NEW s \in Slaves, NEW from, NEW to, NEW code \in BOOLEAN, NEW result,
         <<from, to>> \in Ups => ~code, Settling(from, s, to, result)
  PROVE  Settled(from, s, Settle(s, to, code, result))
<1>1. result \in {"inWork", "ok", "noChange", "error"}
  BY DEF Settling
<1>2. CASE result = "inWork"
  BY <1>2, InWorkSettled
<1>3. CASE result = "ok"
  <2>1. to \in States /\ to # s.state
    BY <1>3 DEF Settling, Ups, Downs
  <2> QED
    BY <1>3, <2>1, OkSettled
<1>4. CASE result = "noChange"
  <2>1. to = s.state
    BY <1>4 DEF Settling
  <2> QED
    BY <1>4, <2>1, SameStateSettled
<1>5. CASE result = "error"
  BY <1>5, FailedSettled, SameStateSettled
<1> QED
  BY <1>1, <1>2, <1>3, <1>4, <1>5

\* Rejected settings lead to a lower state and stop what it does not need.
LEMMA DemoteEffect ==
  ASSUME NEW s \in Slaves, NEW check, Runs(s, s.state)
  PROVE  LET t == Demote(s, check)
         IN  /\ t \in Slaves /\ Runs(t, t.state)
             /\ t.err = s.err /\ t.devid = s.devid /\ t.due = s.due
             /\ t.acked = s.acked
             /\ t.state = s.state \/ <<s.state, t.state>> \in Downs
<1>1. CASE s.devid \/ s.state \notin {"PREOP", "SAFEOP", "OP"}
  BY <1>1 DEF Demote
<1>2. CASE ~(s.devid \/ s.state \notin {"PREOP", "SAFEOP", "OP"})
  <2> DEFINE to == IF check = "mailbox" THEN "INIT" ELSE "PREOP"
             d == StopDownTo(s, to)
             t == [d EXCEPT !.state = to]
  <2>1. Demote(s, check) = t
    BY <1>2 DEF Demote
  <2>2. Lower(to, s.state) \/ to = s.state
    BY <1>2 DEF Lower, Rank
  <2>3. to \in States /\ (to = s.state \/ <<s.state, to>> \in Downs)
    BY <1>2 DEF Downs
  <2>4. to = s.state => d = s
    BY <1>2 DEF StopDownTo
  <2> HIDE DEF to
  <2>5. Runs(d, to) /\ Same(s, d)
    BY <2>2, <2>4, StopDownToEffect DEF Same
  <2>6. d \in Slaves
    BY <2>5 DEF Runs
  <2> HIDE DEF d
  <2>7. t \in Slaves
    BY <2>3, <2>6 DEF Slaves
  <2>8. /\ t.state = to /\ t.err = d.err /\ t.devid = d.devid /\ t.due = d.due
        /\ t.acked = d.acked
    BY <2>6 DEF Slaves
  <2>9. /\ t.mailbox = d.mailbox /\ t.boot = d.boot /\ t.inputs = d.inputs
        /\ t.sync = d.sync /\ t.outputs = d.outputs
    BY <2>6 DEF Slaves
  <2> HIDE DEF t
  <2>10. Runs(t, to)
    BY <2>5, <2>7, <2>9 DEF Runs
  <2> QED
    BY <2>1, <2>3, <2>5, <2>7, <2>8, <2>10 DEF Same
<1> QED
  BY <1>1, <1>2

(***************************************************************************)
(* AL_ControlInd as a whole.                                               *)
(***************************************************************************)

\* What a call made of s.  The register still shows the error while a
\* transition that was acknowledged is pending.
Indicated(s, t) ==
  /\ Sound(t)
  /\ t.due => Leads(s.state, t)
  /\ ~t.due => t.state = s.state /\ ((s.err /\ t.err) \/ t.waiting)
  /\ ~t.err /\ (s.err \/ s.acked) => t.acked

\* AL_ControlInd takes a sound slave to a sound one.
LEMMA AlControlIndEffect ==
  ASSUME NEW s \in Slaves, Sound(s), ~s.due,
         NEW req \in [to : Targets, ack : BOOLEAN], req.ack => ~s.devid,
         NEW code \in BOOLEAN, code => s.state = "OP",
         NEW t \in AlControlInd(s, req, code)
  PROVE  Indicated(s, t)
<1> DEFINE begun == [s EXCEPT !.timeout = -1, !.pending = TRUE]
           id    == begun.devid /\ req.ack
           acks  == req.ack \/ req.to = "INIT" \/ (begun.acked /\ ~s.err)
           ready == [begun EXCEPT !.err = FALSE, !.devid = id, !.acked = acks]
           check == Check(s.state, req.to)
<1>1. Runs(s, s.state) /\ req.ack \in BOOLEAN
  BY DEF Sound
<1>2. begun \in Slaves
  BY TimerStart DEF Slaves
<1>3. /\ begun.state = s.state /\ begun.due = s.due /\ begun.err = s.err
      /\ begun.devid = s.devid /\ begun.waiting = s.waiting
      /\ begun.acked = s.acked
  BY DEF Slaves
<1>4. /\ begun.mailbox = s.mailbox /\ begun.boot = s.boot
      /\ begun.inputs = s.inputs /\ begun.sync = s.sync
      /\ begun.outputs = s.outputs
  BY DEF Slaves
<1>5. Ignored(s, req) => t = begun
  BY DEF AlControlInd
<1>6. ~Ignored(s, req) /\ check # "ok"
        => t = Settle(Demote(ready, check), req.to, code, "error")
  BY DEF AlControlInd
<1>7. ~Ignored(s, req) /\ check = "ok"
        => \E r \in Transition(ready, req.to, req.ack) :
             t = Settle(r.slave, req.to, code, r.result)
  BY DEF AlControlInd
<1> HIDE DEF begun, check
<1>8. Runs(begun, s.state)
  BY <1>1, <1>2, <1>4 DEF Runs
<1>flags. id \in BOOLEAN /\ acks \in BOOLEAN
  OBVIOUS
<1>id. id = (begun.devid /\ req.ack)
  OBVIOUS
<1>acks. acks <=> (req.ack \/ req.to = "INIT" \/ (begun.acked /\ ~s.err))
  OBVIOUS
<1> HIDE DEF id, acks
<1>9. ready \in Slaves
  BY <1>2, <1>flags DEF Slaves
<1>10. /\ ready.state = begun.state /\ ready.due = begun.due /\ ~ready.err
       /\ ready.devid = id
       /\ ready.waiting = begun.waiting
       /\ ready.acked = acks
  BY <1>2 DEF Slaves
<1>11. /\ ready.mailbox = begun.mailbox /\ ready.boot = begun.boot
       /\ ready.inputs = begun.inputs /\ ready.sync = begun.sync
       /\ ready.outputs = begun.outputs
  BY <1>2 DEF Slaves
<1> HIDE DEF ready
<1>12. Runs(ready, s.state)
  BY <1>8, <1>9, <1>11 DEF Runs
<1>13. ready.state = s.state /\ ~ready.due /\ ~ready.err /\ ~ready.devid
  BY <1>3, <1>10, <1>id
<1>14. CASE Ignored(s, req)
  <2>1. t = begun /\ s.err
    BY <1>5, <1>14 DEF Ignored
  <2>2. ~s.waiting /\ ~s.devid /\ ~s.outputs
    BY <2>1 DEF Sound
  <2> QED
    BY <1>2, <1>3, <1>4, <1>8, <2>1, <2>2 DEF Indicated, Sound
<1>15. CASE ~Ignored(s, req)
  <2>1. s.err \/ s.acked => ready.acked
    BY <1>3, <1>10, <1>15, <1>acks DEF Ignored
  <2>2. <<s.state, req.to>> \in Ups => ~code
    BY DEF Ups
  <2>3. ASSUME NEW r, r \in Slaves, r.acked = ready.acked,
               Settled(s.state, r, t)
        PROVE  Indicated(s, t)
    <3>1. Sound(t) /\ t.acked = ready.acked
      BY <2>3 DEF Settled
    <3>2. \/ t.due /\ Leads(s.state, t)
          \/ ~t.due /\ t.state = s.state /\ t.waiting
      BY <2>3 DEF Settled
    <3>3. t.waiting => ~t.err
      BY <3>1 DEF Sound
    <3> QED
      BY <2>1, <3>1, <3>2, <3>3 DEF Indicated
  <2>4. CASE check # "ok"
    <3> DEFINE d == Demote(ready, check)
    <3>1. /\ d \in Slaves /\ Runs(d, d.state)
          /\ ~d.err /\ ~d.devid /\ ~d.due /\ d.acked = ready.acked
          /\ d.state = s.state \/ <<s.state, d.state>> \in Downs
      BY <1>9, <1>12, <1>13, DemoteEffect
    <3>2. t = Settle(d, req.to, code, "error")
      BY <1>6, <1>15, <2>4
    <3> HIDE DEF d
    <3>3. Settling(s.state, d, req.to, "error")
      BY <3>1 DEF Settling
    <3>4. Settled(s.state, d, t)
      BY <2>2, <3>1, <3>2, <3>3, SettleEffect
    <3> QED
      BY <2>3, <3>1, <3>4
  <2>5. CASE check = "ok"
    <3>1. PICK r \in Transition(ready, req.to, req.ack) :
            t = Settle(r.slave, req.to, code, r.result)
      BY <1>7, <1>15, <2>5
    <3>2. Outcome(ready, req.to, r)
      BY <1>1, <1>9, <1>12, <1>13, TransitionOutcome
    <3>3. r.slave \in Slaves /\ Same(ready, r.slave)
      BY <3>2 DEF Outcome
    <3>4. Settling(s.state, r.slave, req.to, r.result)
      BY <1>13, <3>2, <3>3 DEF Outcome, Same, Settling
    <3>5. Settled(s.state, r.slave, t)
      BY <2>2, <3>1, <3>3, <3>4, SettleEffect
    <3> QED
      BY <2>3, <3>3, <3>5 DEF Same
  <2> QED
    BY <2>4, <2>5
<1> QED
  BY <1>14, <1>15

(***************************************************************************)
(* The other steps.                                                        *)
(***************************************************************************)

\* What a step that is no transition leaves alone.
Kept(s, t) ==
  /\ t \in Slaves
  /\ Same(s, t)
  /\ t.mailbox = s.mailbox /\ t.boot = s.boot /\ t.inputs = s.inputs
  /\ t.sync = s.sync /\ t.outputs = s.outputs
  /\ s.timeout >= 0 => t.timeout >= 0

\* A step that keeps state, error and handlers keeps the slave sound.
LEMMA KeptSound ==
  ASSUME NEW s, NEW t, Sound(s), Kept(s, t)
  PROVE  Sound(t)
BY DEF Sound, Kept, Same, Runs

\* A request for the identification changes nothing else.
LEMMA WantIdKept ==
  ASSUME NEW s \in Slaves, NEW id \in BOOLEAN
  PROVE  Kept(s, [s EXCEPT !.wantId = id])
BY DEF Kept, Same, Slaves

\* Outputs received, or forgotten, change nothing else.
LEMMA FirstKept ==
  ASSUME NEW s \in Slaves, NEW b \in BOOLEAN
  PROVE  Kept(s, [s EXCEPT !.first = b])
BY DEF Kept, Same, Slaves

\* The watchdogs of the synchronisation change nothing else.
LEMMA SyncCheckedKept ==
  ASSUME NEW s \in Slaves, NEW a \in BOOLEAN, NEW b \in BOOLEAN,
         NEW p \in -1 .. PllTicks
  PROVE  Kept(s, [s EXCEPT !.dcRun = a, !.seqValid = b, !.pll = p])
<1> DEFINE u == [s EXCEPT !.dcRun = a, !.seqValid = b, !.pll = p]
<1>1. u \in Slaves
  BY DEF Slaves
<1>2. Same(s, u)
  BY DEF Slaves, Same
<1>3. /\ u.mailbox = s.mailbox /\ u.boot = s.boot /\ u.inputs = s.inputs
      /\ u.sync = s.sync /\ u.outputs = s.outputs /\ u.timeout = s.timeout
  BY DEF Slaves
<1> QED
  BY <1>1, <1>2, <1>3 DEF Kept

\* ECAT_CheckTimer keeps the state and never disarms a timeout.
LEMMA CheckTimerKept ==
  ASSUME NEW s \in Slaves, NEW running \in BOOLEAN, NEW valid \in BOOLEAN
  PROVE  Kept(s, CheckTimer(s, running, valid))
<1> DEFINE n == IF s.waiting /\ s.timeout > 0 THEN s.timeout - 1 ELSE s.timeout
           p == IF s.pll = -1 \/ ~running THEN s.pll
                ELSE IF valid
                THEN (IF s.pll < PllTicks THEN s.pll + 1 ELSE s.pll)
                ELSE IF s.seqValid THEN 0 ELSE s.pll
           t == [s EXCEPT !.timeout = n]
           v == running /\ valid
           u == [t EXCEPT !.dcRun = running, !.seqValid = v, !.pll = p]
<1>1. n \in -1 .. Timeout /\ (s.timeout >= 0 => n >= 0)
  BY TickAssumption DEF Slaves
<1>2. p \in -1 .. PllTicks
  BY TickAssumption DEF Slaves
<1>3. CheckTimer(s, running, valid) \in {t, u}
  BY DEF CheckTimer, Slaves
<1>v. v \in BOOLEAN
  OBVIOUS
<1> HIDE DEF n, p, v
<1>4. Kept(s, t)
  BY <1>1 DEF Kept, Same, Slaves
<1>5. t \in Slaves /\ t.timeout = n
  BY <1>1 DEF Slaves
<1>6. t.timeout >= 0 <=> n >= 0
  BY <1>5
<1> HIDE DEF t
<1>7. Kept(t, u)
  BY <1>2, <1>5, <1>v, SyncCheckedKept
<1> HIDE DEF u
<1>8. Kept(s, u)
  BY <1>1, <1>4, <1>6, <1>7 DEF Kept, Same
<1> QED
  BY <1>3, <1>4, <1>8

(***************************************************************************)
(* AL_ControlRes.                                                          *)
(***************************************************************************)

\* The slave t that a call made of s, or not yet.
Resolved(s, t) ==
  /\ Sound(t)
  /\ \/ t = s
     \/ t.due /\ t.state \in {"SAFEOP", "OP"} /\ t.acked = s.acked

\* AL_ControlRes enters OP with its outputs.
LEMMA EnterOpResolves ==
  ASSUME NEW s \in Slaves, Runs(s, "SAFEOP")
  PROVE  Resolved(s, EnterOp(s))
<1> DEFINE t == [s EXCEPT !.state = "OP", !.outputs = TRUE,
                          !.waiting = FALSE, !.err = FALSE]
           u == SetALStatus(t)
<1>1. t \in Slaves
  BY DEF Slaves
<1>2. /\ t.state = "OP" /\ t.outputs /\ ~t.waiting /\ ~t.err
      /\ t.acked = s.acked
  BY DEF Slaves
<1>3. /\ t.mailbox = s.mailbox /\ t.boot = s.boot /\ t.inputs = s.inputs
      /\ t.sync = s.sync
  BY DEF Slaves
<1>4. EnterOp(s) = u
  BY DEF EnterOp
<1> HIDE DEF t
<1>5. Runs(t, "OP")
  BY <1>1, <1>2, <1>3 DEF Runs
<1>6. /\ u.due /\ u.state = "OP" /\ ~u.waiting /\ ~u.err
      /\ u.acked = s.acked /\ Runs(u, "OP") /\ (u.devid => ~u.err)
  BY <1>1, <1>2, <1>5, SetALStatusEffect
<1> HIDE DEF u
<1> QED
  BY <1>4, <1>6 DEF Resolved, Sound

\* AL_ControlRes refuses OP and leaves SAFEOP with an error.
LEMMA RejectOpResolves ==
  ASSUME NEW s \in Slaves, Runs(s, "SAFEOP"), s.state = "SAFEOP"
  PROVE  Resolved(s, RejectOp(s))
<1> DEFINE a == StopOutput(s)
           t == [a EXCEPT !.waiting = FALSE, !.err = TRUE]
           u == SetALStatus(t)
<1>1. a \in Slaves
  BY StopTypes
<1>2. /\ a.state = "SAFEOP" /\ a.acked = s.acked
      /\ a.mailbox = s.mailbox /\ a.boot = s.boot /\ a.inputs = s.inputs
      /\ a.sync = s.sync /\ ~a.outputs
  BY DEF StopOutput, Slaves
<1>3. RejectOp(s) = u
  BY DEF RejectOp
<1> HIDE DEF a
<1>4. t \in Slaves
  BY <1>1 DEF Slaves
<1>5. /\ t.state = "SAFEOP" /\ t.acked = a.acked /\ ~t.waiting /\ t.err
      /\ t.mailbox = a.mailbox /\ t.boot = a.boot /\ t.inputs = a.inputs
      /\ t.sync = a.sync /\ ~t.outputs
  BY <1>1, <1>2 DEF Slaves
<1> HIDE DEF t
<1>6. Runs(t, "SAFEOP")
  BY <1>2, <1>4, <1>5 DEF Runs
<1>7. /\ u.due /\ u.state = "SAFEOP" /\ ~u.waiting /\ u.err
      /\ u.acked = s.acked /\ Runs(u, "SAFEOP") /\ (u.devid => ~u.err)
      /\ ~u.outputs
  BY <1>2, <1>4, <1>5, <1>6, SetALStatusEffect
<1> HIDE DEF u
<1> QED
  BY <1>3, <1>7 DEF Resolved, Sound

\* AL_ControlRes as a whole.
LEMMA AlControlResEffect ==
  ASSUME NEW s \in Slaves, Sound(s), s.waiting
  PROVE  Resolved(s, AlControlRes(s))
<1> DEFINE a == [s EXCEPT !.pending = FALSE, !.told = TRUE, !.pll = -1]
<1>1. s.state = "SAFEOP" /\ Runs(s, "SAFEOP")
  BY DEF Sound
<1>2. a \in Slaves
  BY PllStart DEF Slaves
<1>3. /\ a.mailbox = s.mailbox /\ a.boot = s.boot /\ a.inputs = s.inputs
      /\ a.sync = s.sync /\ a.outputs = s.outputs
  BY DEF Slaves
<1>4. a.acked = s.acked
  BY DEF Slaves
<1>5. AlControlRes(s) \in {EnterOp(s), RejectOp(s), EnterOp(a), s}
  BY DEF AlControlRes
<1> HIDE DEF a
<1>6. Runs(a, "SAFEOP")
  BY <1>1, <1>2, <1>3 DEF Runs
<1>7. Resolved(a, EnterOp(a))
  BY <1>2, <1>6, EnterOpResolves
<1>8. Resolved(s, EnterOp(a))
  <2>1. EnterOp(a).due
    BY <1>2 DEF EnterOp, SetALStatus, Slaves
  <2>2. EnterOp(a).state = "OP"
    BY <1>2 DEF EnterOp, SetALStatus, Slaves
  <2>3. EnterOp(a).acked = a.acked
    BY <1>2 DEF EnterOp, SetALStatus, Slaves
  <2> QED
    BY <1>4, <1>7, <2>1, <2>2, <2>3 DEF Resolved
<1> QED
  BY <1>1, <1>5, <1>8, EnterOpResolves, RejectOpResolves DEF Resolved

(***************************************************************************)
(* The slave and the register.                                             *)
(***************************************************************************)

\* What the register shows of the slave, at any time.
Shown(s, r) ==
  /\ ~s.due => /\ r.state = s.state
               /\ r.err = s.err \/ (s.waiting /\ r.err)
  /\ s.due => Leads(r.state, s) \/ (r.state = "SAFEOP" /\ s.state = "OP")
  /\ r.state = "OP" => ~r.err
  /\ r.err /\ ~s.err => s.acked

\* What is shown stays right when the slave keeps its state.
LEMMA KeptShown ==
  ASSUME NEW s, NEW t, NEW r, Shown(s, r), Kept(s, t)
  PROVE  Shown(t, r)
BY DEF Shown, Kept, Same, Leads

\* What is shown stays right when AL_ControlInd runs.
LEMMA IndicatedShown ==
  ASSUME NEW s \in Slaves, NEW t, NEW r \in [state : States, err : BOOLEAN],
         Shown(s, r), Sound(s), ~s.due, Indicated(s, t)
  PROVE  Shown(t, r)
<1>1. t \in Slaves /\ s.err \in BOOLEAN /\ t.err \in BOOLEAN
      /\ r.err \in BOOLEAN
  BY DEF Indicated, Sound, Runs, Slaves
<1>2. r.state = s.state /\ (r.err = s.err \/ (s.waiting /\ r.err))
  BY DEF Shown
<1>3. s.err => ~s.waiting
  BY DEF Sound
<1>4. t.waiting => ~t.err
  BY DEF Indicated, Sound
<1>5. r.err /\ ~t.err => t.acked
  BY <1>1, <1>2 DEF Shown, Indicated
<1>6. ~t.due => r.state = t.state /\ (r.err = t.err \/ (t.waiting /\ r.err))
  BY <1>1, <1>2, <1>3, <1>4 DEF Indicated
<1>7. t.due => Leads(r.state, t)
  BY <1>2 DEF Indicated
<1> QED
  BY <1>5, <1>6, <1>7 DEF Shown

\* What is shown stays right when AL_ControlRes runs.
LEMMA ResolvedShown ==
  ASSUME NEW s \in Slaves, NEW t, NEW r \in [state : States, err : BOOLEAN],
         Shown(s, r), Sound(s), s.waiting, ~s.due, Resolved(s, t)
  PROVE  Shown(t, r)
BY DEF Shown, Sound, Resolved, Leads

\* Writing the register shows the slave as it is.
LEMMA PublishedShown ==
  ASSUME NEW s \in Slaves, Sound(s)
  PROVE  LET t == [s EXCEPT !.due = FALSE]
         IN  Sound(t) /\ Shown(t, [state |-> s.state, err |-> s.err])
<1> DEFINE t == [s EXCEPT !.due = FALSE]
<1>1. /\ t \in Slaves /\ ~t.due
      /\ t.state = s.state /\ t.err = s.err /\ t.devid = s.devid
      /\ t.waiting = s.waiting /\ t.timeout = s.timeout
  BY DEF Slaves
<1>2. /\ t.mailbox = s.mailbox /\ t.boot = s.boot /\ t.inputs = s.inputs
      /\ t.sync = s.sync /\ t.outputs = s.outputs
  BY DEF Slaves
<1> HIDE DEF t
<1>3. Sound(t)
  BY <1>1, <1>2 DEF Sound, Runs
<1>4. s.state = "OP" => ~s.err
  BY DEF Sound, Runs
<1>5. Shown(t, [state |-> s.state, err |-> s.err])
  BY <1>1, <1>4 DEF Shown
<1> QED
  BY <1>3, <1>5 DEF t

(***************************************************************************)
(* The steps.                                                              *)
(***************************************************************************)

\* The inductive invariant.
IInv == TypeOK /\ Sound(slave) /\ Shown(slave, reg)

\* What a step may do to the slave and the register.
Effect ==
  \/ UNCHANGED reg /\ Kept(slave, slave')
  \/ UNCHANGED reg /\ ~slave.due /\ Indicated(slave, slave')
  \/ /\ UNCHANGED reg /\ ~slave.due /\ slave.waiting
     /\ Resolved(slave, slave')
  \/ PublishStatus

\* Doing nothing keeps everything.
LEMMA SameKept == ASSUME NEW s \in Slaves PROVE Kept(s, s)
BY DEF Kept, Same

\* ECAT_Main's request for the present state.
LEMMA AgainIndicated ==
  ASSUME NEW s \in Slaves, Sound(s), ~s.due,
         NEW t \in AlControlInd(s, Request(s.state, FALSE), FALSE)
  PROVE  Indicated(s, t)
<1> DEFINE req == Request(s.state, FALSE)
<1>1. req \in [to : Targets, ack : BOOLEAN] /\ ~req.ack
  BY DEF Request, Targets, Slaves
<1> HIDE DEF req
<1>2. t \in AlControlInd(s, req, FALSE)
  BY DEF req
<1> QED
  BY <1>1, <1>2, AlControlIndEffect

\* CheckIfEcatError's request for SAFEOP.
LEMMA ErrorIndicated ==
  ASSUME NEW s \in Slaves, Sound(s), ~s.due, s.outputs,
         NEW t \in AlControlInd(s, Request("SAFEOP", FALSE), TRUE)
  PROVE  Indicated(s, t)
<1> DEFINE req == Request("SAFEOP", FALSE)
<1>1. req \in [to : Targets, ack : BOOLEAN] /\ ~req.ack
  BY DEF Request, Targets
<1>2. s.state = "OP"
  BY DEF Sound, Runs
<1> HIDE DEF req
<1>3. t \in AlControlInd(s, req, TRUE)
  BY DEF req
<1> QED
  BY <1>1, <1>2, <1>3, AlControlIndEffect

\* A request of the master: no acknowledge comes with an identification.
LEMMA ControlIndicated ==
  ASSUME ~AckFreely, NEW s \in Slaves, Sound(s), ~s.due, Shown(s, reg),
         NEW req \in Requests, NEW id \in BOOLEAN,
         NEW t \in AlControlInd([s EXCEPT !.wantId = id], req, FALSE)
  PROVE  Indicated(s, t)
<1> DEFINE a == [s EXCEPT !.wantId = id]
<1>1. Kept(s, a)
  BY WantIdKept
<1>2. t \in AlControlInd(a, req, FALSE)
  OBVIOUS
<1> HIDE DEF a
<1>3. a \in Slaves /\ Sound(a) /\ ~a.due
  BY <1>1, KeptSound DEF Kept, Same
<1>4. req \in [to : Targets, ack : BOOLEAN] /\ (req.ack => reg.err)
  BY DEF Requests
<1>5. req.ack => ~a.devid
  <2>1. reg.err => s.err \/ s.waiting
    BY DEF Shown, Slaves
  <2>2. s.err \/ s.waiting => ~s.devid
    BY DEF Sound
  <2> QED
    BY <1>1, <1>4, <2>1, <2>2 DEF Kept, Same
<1>6. Indicated(a, t)
  BY <1>2, <1>3, <1>4, <1>5, AlControlIndEffect
<1> QED
  BY <1>1, <1>6 DEF Indicated, Kept, Same

\* Every step of the system has one of the effects.
LEMMA NextEffect ==
  ASSUME ~AckFreely, IInv, [Next]_vars
  PROVE  Effect
<1>1. slave \in Slaves /\ Sound(slave) /\ Shown(slave, reg)
  BY DEF IInv, TypeOK
<1>2. CASE UNCHANGED <<slave, reg>>
  BY <1>1, <1>2, SameKept DEF Effect
<1>3. CASE MainLoopApplication
  <2>1. PICK b : slave' = [slave EXCEPT !.first = b] /\ b \in BOOLEAN
    <3>1. \A p \in BOOLEAN : (slave.first \/ p) \in BOOLEAN
      OBVIOUS
    <3> QED
      BY <1>3, <3>1, Zenon DEF MainLoopApplication
  <2> QED
    BY <1>1, <1>3, <2>1, FirstKept DEF Effect, MainLoopApplication
<1>4. CASE TimerTick
  BY <1>1, <1>4, CheckTimerKept DEF Effect, TimerTick
<1>5. CASE HandleControl
  <2>1. ~slave.due /\ UNCHANGED reg
    BY <1>5 DEF HandleControl, Goto
  <2>2. PICK req \in Requests, id \in BOOLEAN :
          slave' \in AlControlInd([slave EXCEPT !.wantId = id], req, FALSE)
    BY <1>5 DEF HandleControl
  <2>3. Indicated(slave, slave')
    BY <1>1, <2>1, <2>2, ControlIndicated
  <2> QED
    BY <2>1, <2>3 DEF Effect
<1>6. CASE HandleSmChange
  BY <1>1, <1>6, AgainIndicated DEF Effect, HandleSmChange, Goto
<1>7. CASE HandlePending
  BY <1>1, <1>7, AlControlResEffect, SameKept DEF Effect, HandlePending, Goto
<1>8. CASE CheckMailbox
  BY <1>1, <1>8, AgainIndicated, SameKept DEF Effect, CheckMailbox, Goto
<1>9. CASE WatchdogExpired
  BY <1>1, <1>9, ErrorIndicated, SameKept DEF Effect, WatchdogExpired, Goto
<1>10. CASE ClearFirst
  BY <1>1, <1>10, FirstKept DEF Effect, ClearFirst
<1>11. CASE CheckSync
  BY <1>1, <1>11, ErrorIndicated, SameKept DEF Effect, CheckSync, Goto
<1>12. CASE PublishStatus
  BY <1>12 DEF Effect
<1>13. CASE PdiIsr
  BY <1>1, <1>13, FirstKept DEF Effect, PdiIsr
<1>14. CASE NoTick \/ ReadEvents \/ NoControl \/ NoSmChange \/ Sync0Isr
            \/ Master
  BY <1>2, <1>14
    DEF NoTick, ReadEvents, NoControl, NoSmChange, Sync0Isr, Master,
        MasterRequests, MasterConfigures, MasterWritesOutputs
<1> QED
  BY <1>2, <1>3, <1>4, <1>5, <1>6, <1>7, <1>8, <1>9, <1>10, <1>11, <1>12,
     <1>13, <1>14 DEF Next, Task, vars

\* The effects keep the slave sound and shown.
LEMMA EffectInvariant ==
  ASSUME IInv, Effect
  PROVE  Sound(slave') /\ Shown(slave', reg')
<1>1. /\ slave \in Slaves /\ Sound(slave) /\ Shown(slave, reg)
      /\ reg \in [state : States, err : BOOLEAN]
  BY DEF IInv, TypeOK
<1>2. CASE UNCHANGED reg /\ Kept(slave, slave')
  BY <1>1, <1>2, KeptSound, KeptShown
<1>3. CASE UNCHANGED reg /\ ~slave.due /\ Indicated(slave, slave')
  BY <1>1, <1>3, IndicatedShown DEF Indicated
<1>4. CASE UNCHANGED reg /\ ~slave.due /\ slave.waiting
           /\ Resolved(slave, slave')
  BY <1>1, <1>4, ResolvedShown DEF Resolved
<1>5. CASE PublishStatus
  BY <1>1, <1>5, PublishedShown DEF PublishStatus
<1> QED
  BY <1>2, <1>3, <1>4, <1>5 DEF Effect

\* The variables but the slave, and the steps that change them.
LEMMA TypesKept ==
  ASSUME TypeOK, slave' \in Slaves, [Next]_vars
  PROVE  TypeOK'
<1> USE DEF TypeOK, words, Goto
<1>1. CASE UNCHANGED vars
  BY <1>1 DEF vars
<1>2. CASE MainLoopApplication
  <2> DEFINE polled == slave.sync \notin Interrupt /\ esc.outEvent
             copied == polled /\ slave.outputs
             e == esc.outEvent /\ ~copied
  <2>1. e \in BOOLEAN /\ esc' = [esc EXCEPT !.outEvent = e]
    BY <1>2 DEF MainLoopApplication
  <2> HIDE DEF e
  <2>2. esc' \in [control : BOOLEAN, smEvent : BOOLEAN, outEvent : BOOLEAN,
                  mailbox : MailboxConfigs, pdFits : BOOLEAN]
    BY <2>1
  <2>3. object' \in Words /\ rxpdo' \in Words
    BY <1>2 DEF MainLoopApplication
  <2> QED
    BY <1>2, <2>2, <2>3 DEF MainLoopApplication, Steps
<1>3. CASE TimerTick \/ NoTick \/ NoControl \/ NoSmChange \/ HandlePending
           \/ WatchdogExpired \/ ClearFirst \/ CheckSync
  BY <1>3 DEF TimerTick, NoTick, NoControl, NoSmChange, HandlePending,
              WatchdogExpired, ClearFirst, CheckSync, Steps
<1>4. CASE ReadEvents
  <2> DEFINE c == esc.control /\ ~slave.waiting
             o == slave.mailbox => esc.mailbox # "off"
  <2>1. c \in BOOLEAN /\ o \in BOOLEAN
    OBVIOUS
  <2>2. seen' = [control |-> c, sm |-> esc.smEvent, sm1 |-> o]
    BY <1>4 DEF ReadEvents
  <2> HIDE DEF c, o
  <2>3. seen' \in [control : BOOLEAN, sm : BOOLEAN, sm1 : BOOLEAN]
    BY <2>1, <2>2
  <2> QED
    BY <1>4, <2>3 DEF ReadEvents, Steps
<1>5. CASE HandleControl
  BY <1>5 DEF HandleControl, Steps
<1>6. CASE HandleSmChange
  BY <1>6 DEF HandleSmChange, Steps
<1>7. CASE CheckMailbox
  BY <1>7 DEF CheckMailbox, Steps, NothingSeen
<1>8. CASE PublishStatus
  BY <1>8 DEF PublishStatus, Slaves
<1>9. CASE PdiIsr \/ Sync0Isr
  BY <1>9 DEF PdiIsr, Sync0Isr
<1>10. CASE Master
  BY <1>10, ModeAssumption
    DEF Master, MasterRequests, MasterConfigures, MasterWritesOutputs
<1> QED
  BY <1>1, <1>2, <1>3, <1>4, <1>5, <1>6, <1>7, <1>8, <1>9, <1>10
    DEF Next, Task

\* The invariant holds at the start.
LEMMA InitInvariant == Init => IInv
<1> SUFFICES ASSUME Init PROVE IInv
  OBVIOUS
<1>1. SlaveInit \in Slaves
  BY PllStart, TickAssumption DEF SlaveInit, Slaves
<1>2. Sound(SlaveInit)
  BY <1>1 DEF Sound, Runs, SlaveInit
<1>3. Shown(SlaveInit, [state |-> "INIT", err |-> FALSE])
  BY DEF Shown, SlaveInit
<1>4. TypeOK
  BY <1>1, ModeAssumption, WordAssumption
    DEF Init, TypeOK, Steps, NothingSeen
<1> QED
  BY <1>2, <1>3, <1>4 DEF Init, IInv

\* The invariant is inductive.
LEMMA NextInvariant ==
  ASSUME ~AckFreely, IInv, [Next]_vars
  PROVE  IInv'
<1>1. Sound(slave') /\ Shown(slave', reg')
  BY NextEffect, EffectInvariant
<1>2. slave' \in Slaves
  BY <1>1 DEF Sound, Runs
<1>3. TypeOK'
  BY <1>2, TypesKept DEF IInv
<1> QED
  BY <1>1, <1>3 DEF IInv

(***************************************************************************)
(* The theorems.                                                           *)
(***************************************************************************)

\* With a master that acknowledges errors only, the invariant holds always.
THEOREM Invariance ==
  ASSUME ~AckFreely
  PROVE  Spec => []IInv
<1>1. IInv /\ [Next]_vars => IInv'
  BY NextInvariant
<1> QED
  BY <1>1, InitInvariant, PTL DEF Spec

\* The variables keep their types.
THEOREM TypeCorrect ==
  ASSUME ~AckFreely
  PROVE  Spec => []TypeOK
<1>1. IInv => TypeOK
  BY DEF IInv
<1> QED
  BY <1>1, Invariance, PTL

\* What runs - mailbox, inputs, outputs - is what the AL state allows.
THEOREM HandlersCorrect ==
  ASSUME ~AckFreely
  PROVE  Spec => []HandlersFollowState
<1>1. IInv => HandlersFollowState
  BY DEF IInv, Sound, Runs, HandlersFollowState
<1> QED
  BY <1>1, Invariance, PTL

\* A pending transition always has its timeout armed.
THEOREM WaitCorrect ==
  ASSUME ~AckFreely
  PROVE  Spec => []WaitIsTimed
<1>1. IInv => WaitIsTimed
  BY DEF IInv, Sound, Runs, WaitIsTimed
<1> QED
  BY <1>1, Invariance, PTL

\* The error shown goes only when acknowledged, or for INIT.
THEOREM ErrorsCorrect ==
  ASSUME ~AckFreely
  PROVE  Spec => ErrorsAwaitAck
<1>1. IInv /\ [Next]_vars => [reg.err /\ ~reg'.err => slave.acked]_vars
  <2> SUFFICES ASSUME IInv, Effect, reg.err, ~reg'.err PROVE slave.acked
    BY NextEffect
  <2>1. PublishStatus
    BY DEF Effect
  <2>2. ~slave.err
    BY <2>1 DEF PublishStatus
  <2> QED
    BY <2>2 DEF IInv, Shown
<1> QED
  BY <1>1, Invariance, PTL DEF Spec, ErrorsAwaitAck

\* The status register and the output update do what AlStatus promises.
THEOREM Implementation ==
  ASSUME ~AckFreely
  PROVE  Spec => ImplementsAlStatus
<1>1. Init => Status!Init
  BY DEF Init, SlaveInit, Status!Init
<1>2. IInv /\ IInv' /\ [Next]_vars => [Status!Next]_Status!vars
  <2> SUFFICES ASSUME IInv, IInv', Effect
               PROVE  [Status!Next]_Status!vars
    BY NextEffect
  <2>1. /\ slave.outputs <=> slave.state = "OP"
        /\ slave'.outputs <=> slave'.state = "OP"
        /\ slave.outputs \in BOOLEAN /\ slave'.outputs \in BOOLEAN
        /\ slave \in Slaves /\ Sound(slave) /\ Shown(slave, reg)
        /\ reg \in [state : States, err : BOOLEAN]
    BY DEF IInv, TypeOK, Sound, Runs, Slaves
  <2>2. CASE UNCHANGED reg /\ slave'.outputs = slave.outputs
    BY <2>2 DEF Status!vars
  <2>3. CASE UNCHANGED reg /\ slave.outputs /\ ~slave'.outputs
    <3>1. slave'.outputs = FALSE
      BY <2>1, <2>3
    <3> QED
      BY <2>3, <3>1 DEF Status!Next, Status!StopLive
  <2>4. CASE UNCHANGED reg /\ ~slave.outputs /\ slave'.outputs
    <3>1. ~slave.due /\ slave.waiting
      <4>1. ~Kept(slave, slave')
        BY <2>4 DEF Kept
      <4>2. ~PublishStatus
        BY <2>1, <2>4 DEF PublishStatus, Slaves
      <4>3. ~(~slave.due /\ Indicated(slave, slave'))
        BY <2>1, <2>4 DEF Indicated, Leads, Ups, Downs
      <4> QED
        BY <4>1, <4>2, <4>3 DEF Effect
    <3>2. reg.state = "SAFEOP"
      BY <2>1, <3>1 DEF Shown, Sound
    <3>3. slave'.outputs = TRUE
      BY <2>1, <2>4
    <3> QED
      BY <2>4, <3>2, <3>3 DEF Status!Next, Status!GoLive
  <2>5. CASE PublishStatus
    <3>1. /\ slave.due /\ slave'.outputs = slave.outputs
          /\ reg'.state = slave.state /\ reg'.err = slave.err
          /\ reg'.err \in BOOLEAN
      BY <2>1, <2>5 DEF PublishStatus, Slaves
    <3>2. slave.outputs => ~slave.err
      BY <2>1 DEF Sound
    <3>3. Leads(reg.state, slave) \/ (reg.state = "SAFEOP" /\ slave.state = "OP")
      BY <2>1, <3>1 DEF Shown
    <3>4. CASE slave.outputs /\ reg.state = "OP"
      <4>1. reg.state = reg'.state /\ reg.err = reg'.err
        BY <2>1, <3>1, <3>2, <3>4 DEF Shown
      <4> QED
        BY <3>1, <4>1 DEF Status!vars
    <3>5. CASE slave.outputs /\ reg.state # "OP"
      BY <2>1, <3>1, <3>2, <3>3, <3>5
        DEF Leads, Ups, Downs, Status!Next, Status!ShowOp
    <3>6. CASE ~slave.outputs /\ (reg.state = slave.state
                                  \/ <<reg.state, slave.state>> \in Downs)
      <4>1. \/ <<reg'.state, reg.state>> \in Status!Above
            \/ reg'.state = reg.state
        BY <3>1, <3>6 DEF Downs, Status!Above
      <4> QED
        BY <2>1, <3>1, <3>6, <4>1 DEF Status!Next, Status!ShowLower
    <3>7. CASE ~slave.outputs /\ <<reg.state, slave.state>> \in Ups
               /\ ~slave.err
      BY <2>1, <3>1, <3>7 DEF Ups, Status!Next, Status!Climb
    <3> QED
      BY <2>1, <3>3, <3>4, <3>5, <3>6, <3>7 DEF Leads
  <2> QED
    BY <2>1, <2>2, <2>3, <2>4, <2>5 DEF Effect
<1> QED
  BY <1>1, <1>2, Invariance, PTL
    DEF Spec, ImplementsAlStatus, Status!Spec
=============================================================================
