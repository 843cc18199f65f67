------------------------------ MODULE MCTimers ------------------------------
(* Instances of Timers for TLC.                                             *)
EXTENDS Timers

MCDelays == {0, 3}
MCDelaysHour == {1, 8}
=============================================================================
