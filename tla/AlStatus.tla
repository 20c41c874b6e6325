------------------------------ MODULE AlStatus ------------------------------
(***************************************************************************)
(* What the AL status of an EtherCAT slave promises its master: the states *)
(* are climbed one at a time and left downwards at any time, an error      *)
(* never comes with a higher state, the bootstrap state is entered from    *)
(* and left to INIT only, and whenever the status shows OP without a       *)
(* transition ending, outputs are live: they go live before OP is shown,   *)
(* only from an error-free or acknowledged SAFEOP, and stop before a       *)
(* status other than OP is shown.                                          *)
(***************************************************************************)
VARIABLES
  state,   \* the state shown
  err,     \* the error bit shown
  live     \* outputs are taken from the master

vars == <<state, err, live>>

Above == { <<"INIT", "PREOP">>, <<"INIT", "SAFEOP">>, <<"INIT", "OP">>,
           <<"PREOP", "SAFEOP">>, <<"PREOP", "OP">>, <<"SAFEOP", "OP">>,
           <<"INIT", "BOOT">> }

Init == state = "INIT" /\ err = FALSE /\ live = FALSE

\* One state up.
Climb ==
  /\ err' = FALSE
  /\ \/ state = "INIT" /\ state' \in {"PREOP", "BOOT"}
     \/ state = "PREOP" /\ state' = "SAFEOP"
  /\ ~live /\ UNCHANGED live

GoLive == state = "SAFEOP" /\ ~live /\ live' = TRUE /\ UNCHANGED <<state, err>>

ShowOp == /\ live /\ state = "SAFEOP"
          /\ state' = "OP" /\ err' = FALSE /\ UNCHANGED live

StopLive == live /\ live' = FALSE /\ UNCHANGED <<state, err>>

\* Down by any number of states, or the same state; with an error or without.
ShowLower == /\ ~live
             /\ <<state', state>> \in Above \/ state' = state
             /\ state' # "OP"
             /\ err' \in BOOLEAN
             /\ UNCHANGED live

Next == Climb \/ GoLive \/ ShowOp \/ StopLive \/ ShowLower

Spec == Init /\ [][Next]_vars
=============================================================================
