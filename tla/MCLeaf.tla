------------------------------- MODULE MCLeaf -------------------------------
(***************************************************************************)
(* Every leaf, against typed arrays of up to MaxLen bytes.                 *)
(***************************************************************************)
EXTENDS Leaf, LeafTable

=============================================================================
