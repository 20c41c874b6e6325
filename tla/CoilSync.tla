----------------------------- MODULE CoilSync -----------------------------
(***************************************************************************)
(* What the Modbus side promises, whatever happens on the line: the coils  *)
(* of the charger board are driven one at a time, and only while the       *)
(* firmware does not count on their position; it counts on a position only *)
(* when the board has it; and a report is made only when it counts on all  *)
(* of them, and shows the board as it then is.                             *)
(***************************************************************************)
CONSTANT Coils

VARIABLES
  coil,      \* the coils that are on
  believed,  \* the coils the firmware takes to be on
  known,     \* the coils whose position the firmware counts on
  report     \* the last report: valid, and the two samples it is made of

vars == <<coil, believed, known, report>>

Init ==
  /\ coil \in SUBSET Coils
  /\ believed = {}
  /\ known = {}
  /\ report = [valid |-> FALSE, status |-> {}, parameters |-> {}]

\* A write reaches the board, also one whose answer will be lost.
Drive(b) ==
  /\ b \notin known
  /\ coil' \in {coil \cup {b}, coil \ {b}}
  /\ UNCHANGED <<believed, known, report>>

Learn(b) ==
  /\ known' = known \cup {b}
  /\ believed' = IF b \in coil THEN believed \cup {b} ELSE believed \ {b}
  /\ UNCHANGED <<coil, report>>

\* Another position is wanted of some coils.
Forget ==
  /\ known' \in SUBSET known
  /\ UNCHANGED <<coil, believed, report>>

Report ==
  /\ known = Coils
  /\ report' = [valid |-> TRUE, status |-> coil, parameters |-> coil]
  /\ UNCHANGED <<coil, believed, known>>

Next == (\E b \in Coils : Drive(b) \/ Learn(b)) \/ Forget \/ Report

Spec == Init /\ [][Next]_vars

=============================================================================
