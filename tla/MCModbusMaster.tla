-------------------------- MODULE MCModbusMaster --------------------------
(* Model values of ModbusMaster for TLC. *)
EXTENDS ModbusMaster

\* 2 leaves a short rest of a long reply, 4 two short parts, 6 a long head.
MCCuts == {2, 4, 6}

NoInterlock  == {}
ChargeNeeded == {0}

=============================================================================
