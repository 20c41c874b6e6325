------------------------- MODULE MCEcatStateMachine -------------------------
(* Values for the constants of EcatStateMachine in the runs of TLC.        *)
EXTENDS EcatStateMachine

AllModes == {"free", "sm", "mixed", "dc"}
OneWord  == {0}
TwoWords == {0, 1}
SmOnly   == {"sm"}
OnOnly   == {"ok"}
=============================================================================
