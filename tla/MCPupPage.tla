------------------------------ MODULE MCPupPage ------------------------------
(* Instances of PupPage for TLC.                                            *)
EXTENDS PupPage

MCKeys == 0 .. 5
MCVals == 0 .. 1
=============================================================================
