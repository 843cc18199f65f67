-------------------------------- MODULE Index --------------------------------
(***************************************************************************)
(* What abc.index promises a script (cont.c): one ordered map.             *)
(*                                                                         *)
(* The newest value of a key wins.  A scan hands out the rows of its range *)
(* in order and holds off every change until it is over.  The cursor, one  *)
(* per index, pulls the next row after the last one it gave, of the map as *)
(* it is now.  There is no memtable, no run and no seal here.              *)
(***************************************************************************)
EXTENDS Naturals, Sequences

CONSTANTS Keys, Vals, None

VARIABLES
    dict,    \* key -> its value, or None
    wrote,   \* key -> the values it was ever given
    scans,   \* the keys each running scan has left, innermost last
    cursor,  \* armed or not, its bound, and whether the bound was given
    out      \* what the last call gave: nothing, a row, or an error

vars == <<dict, wrote, scans, cursor, out>>

Nothing == <<>>
Error == <<"error">>
Row(f, k) == <<k, f[k]>>
NoCursor == [on |-> FALSE, key |-> 0, pulled |-> FALSE]

Least(K) == CHOOSE k \in K : \A j \in K : k <= j
Present(f) == {k \in Keys : f[k] # None}
PastBound(c, k) == IF c.pulled THEN k > c.key ELSE k >= c.key

Init ==
    /\ dict = [k \in Keys |-> None]
    /\ wrote = [k \in Keys |-> {}]
    /\ scans = <<>>
    /\ cursor = NoCursor
    /\ out = Nothing

Put(k, v) ==
    /\ scans = <<>>
    /\ dict' = [dict EXCEPT ![k] = v]
    /\ wrote' = [wrote EXCEPT ![k] = @ \cup {v}]
    /\ out' = Nothing
    /\ UNCHANGED <<scans, cursor>>

\* A call that changes nothing: commit, run, count.
Other ==
    /\ out' = Nothing
    /\ UNCHANGED <<dict, wrote, scans, cursor>>

\* Runs are dropped, or the index is closed, without its last rows perhaps,
\* and opened again.  No key gets a value it never had.
Lose ==
    /\ scans = <<>>
    /\ dict' \in [Keys -> Vals \cup {None}]
    /\ \A k \in Keys : dict'[k] \in wrote[k] \cup {None}
    /\ cursor' = NoCursor
    /\ out' = Nothing
    /\ UNCHANGED <<wrote, scans>>

Fail ==
    /\ out' = Error
    /\ cursor' \in {cursor, NoCursor}
    /\ UNCHANGED <<dict, wrote, scans>>

Get(k) ==
    /\ out' = IF dict[k] = None THEN Nothing ELSE Row(dict, k)
    /\ UNCHANGED <<dict, wrote, scans, cursor>>

Seek(k) ==
    /\ cursor' = [on |-> TRUE, key |-> k, pulled |-> FALSE]
    /\ out' = Nothing
    /\ UNCHANGED <<dict, wrote, scans>>

Pull ==
    LET left == {k \in Present(dict) : cursor.on /\ PastBound(cursor, k)}
    IN  /\ IF left = {}
           THEN /\ cursor' = NoCursor
                /\ out' = Nothing
           ELSE /\ cursor' = [on |-> TRUE, key |-> Least(left), pulled |-> TRUE]
                /\ out' = Row(dict, Least(left))
        /\ UNCHANGED <<dict, wrote, scans>>

Scan(lo, hi) ==
    /\ scans' = Append(scans, {k \in Present(dict) : lo <= k /\ k < hi})
    /\ out' = Nothing
    /\ UNCHANGED <<dict, wrote, cursor>>

Emit ==
    /\ scans # <<>>
    /\ LET left == scans[Len(scans)]
       IN  /\ left # {}
           /\ out' = Row(dict, Least(left))
           /\ scans' = [scans EXCEPT ![Len(scans)] = left \ {Least(left)}]
    /\ UNCHANGED <<dict, wrote, cursor>>

EndScan ==
    /\ scans # <<>>
    /\ scans' = SubSeq(scans, 1, Len(scans) - 1)
    /\ out' = Nothing
    /\ UNCHANGED <<dict, wrote, cursor>>

Next ==
    \/ \E k \in Keys, v \in Vals : Put(k, v)
    \/ \E k \in Keys : Get(k) \/ Seek(k)
    \/ \E lo, k \in Keys : Scan(lo, k + 1)
    \/ Other \/ Lose \/ Fail \/ Pull \/ Emit \/ EndScan

Spec == Init /\ [][Next]_vars
=============================================================================
