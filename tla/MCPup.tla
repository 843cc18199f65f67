-------------------------------- MODULE MCPup --------------------------------
(* Instances of Pup for TLC.                                                *)
EXTENDS Pup, TLC

CONSTANTS v1, v2

MCKeys == 1 .. 2
MCVals == {v1, v2}
MCSymmetry == Permutations(MCVals)

\* Four changes to the rows when all have one value, with scans within scans
\* after three; three when they have two; five when there is one key, which may
\* then be in two runs and in both parts of the memtable.
OneValue ==
    /\ \E v \in Vals : \A k \in Keys : wrote[k] \subseteq {v}
    /\ epoch <= 4 /\ (epoch <= 3 \/ Len(scans) <= 1)
TwoValues == epoch <= 3
OneKey == made <= 2 /\ scans = <<>> /\ wrote[2] = {}
Bounded == OneValue \/ TwoValues \/ OneKey
=============================================================================
