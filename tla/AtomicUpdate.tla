---------------------------- MODULE AtomicUpdate ----------------------------
(***************************************************************************)
(* What a firmware update promises: there is always a package to start,    *)
(* it is a whole one, and it is never older than the one that runs.        *)
(***************************************************************************)
EXTENDS Integers

CONSTANTS Files, Version

VARIABLES
  next,     \* the package that starts when the supply fails now
  current   \* the package that runs

Init == next \in Files /\ current = next

\* A package was downloaded, or a download destroyed the one that was waiting.
Replace ==
  /\ next' \in Files /\ Version[next'] >= Version[current]
  /\ UNCHANGED current

Restart == current' = next /\ UNCHANGED next

Spec == Init /\ [][Replace \/ Restart]_<<next, current>>
=============================================================================
