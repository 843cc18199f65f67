------------------------------ MODULE MCSocket ------------------------------
(* Instances of Socket for TLC.                                             *)
EXTENDS Socket

MCWild == Habits

\* Two chunks on the first socket make a partial send.
MCChunks == [s \in 1 .. MaxSock |-> IF s = 1 THEN 2 ELSE 1]
MCOne == [s \in 1 .. MaxSock |-> 1]
=============================================================================
