--------------------------- MODULE MCReceiveRing ---------------------------
(***************************************************************************)
(* An instance of ReceiveRing for TLC.                                     *)
(***************************************************************************)
EXTENDS ReceiveRing
=============================================================================
