--------------------------- MODULE ReliableMailbox ---------------------------
(***************************************************************************)
(* What the mailbox promises its master: the answers it sends arrive once  *)
(* each and in the order they were sent, until the mailbox is stopped.     *)
(***************************************************************************)
EXTENDS Naturals

VARIABLES
  sent,   \* answers sent since the mailbox was started
  got     \* the last of them the master has

vars == <<sent, got>>

Init == sent = 0 /\ got = 0

Send    == sent' = sent + 1 /\ UNCHANGED got
Receive == got < sent /\ got' = got + 1 /\ UNCHANGED sent
Stop    == sent' = 0 /\ got' = 0

Next == Send \/ Receive \/ Stop

Spec == Init /\ [][Next]_vars
=============================================================================
