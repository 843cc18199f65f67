-------------------------------- MODULE MCPol --------------------------------
(* Instances of Pol for TLC.                                                *)
EXTENDS Pol

CONSTANTS f1, f2, h1, h2
MCFds == {f1, f2}
MCHandlers == {h1, h2}
=============================================================================
