------------------------------ MODULE PupPage ------------------------------
(***************************************************************************)
(* How get and range of pup.c find a needle in one run: jpup_page clips    *)
(* the run to a page by the run's table of contents, FindGE searches what  *)
(* is left.                                                                *)
(*                                                                         *)
(* External: dog writes the table, a cell for the first row of each page   *)
(* of Per rows; a short run and the memtable have none.                    *)
(***************************************************************************)
EXTENDS Naturals, Sequences

CONSTANTS
    Keys, Vals,
    Per,        \* DOGPupTocRows
    MaxRows     \* bound: rows in a run

\* Checked where this module is instantiated.
PupPageAssumption ==
    /\ Keys \subseteq Nat /\ Vals \subseteq Nat
    /\ Per \in Nat \ {0} /\ MaxRows \in Nat

VARIABLES
    lane,       \* "kv64", ordered by key only, or "wh128", by key and value
    run, toc,   \* the rows and the cells
    needle,     \* the key looked for
    got,        \* what get answers: a row, or nothing
    from        \* where range starts: a place in the run, or in the table

vars == <<lane, run, toc, needle, got, from>>

Rows == [key : Keys, val : Vals]
Unasked == <<"unasked">>
Nothing == <<>>
Found(r) == <<r.key, r.val>>

\* L##Z of the lane.
Before(a, b) == a.key < b.key \/ (lane = "wh128" /\ a.key = b.key /\ a.val < b.val)

\* A run is sorted and deduplicated.
Runs == {s \in UNION {[1 .. n -> Rows] : n \in 0 .. MaxRows} :
             \A i, j \in 1 .. Len(s) : i < j => Before(s[i], s[j])}

Pages(s) == (Len(s) + Per - 1) \div Per
Toc(s) == [p \in 1 .. Pages(s) |-> s[(p - 1) * Per + 1]]

\* JABCPupWh128, JABCPupKv64: the value is at its low bound.
Needle(k) == [key |-> k, val |-> 0]

\* The first place in first .. last that is not before n, or last + 1.
FindGE(s, first, last, n) ==
    LET after == {i \in first .. last : ~Before(s[i], n)}
    IN  IF after = {} THEN last + 1 ELSE CHOOSE i \in after : \A j \in after : i <= j

Smaller(a, b) == IF a <= b THEN a ELSE b

\* (mutant) the cell found is not stepped back from.
CellNext(n) == Smaller(FindGE(toc, 1, Len(toc), n), Len(toc))

\* The page of n: the last cell not greater than n, or the first.
CellOf(n) ==
    LET c == FindGE(toc, 1, Len(toc), n)
    IN  IF c <= Len(toc) /\ ~Before(n, toc[c]) THEN c
        ELSE IF c > 1 THEN c - 1 ELSE 1

\* (mutant) any greater cell is an answer.
CellGreater(n) == n.key <= toc[CellOf(n) + 1].key

\* PUP_KEYEQ on cell i + 1.
CellEq(n) == toc[CellOf(n) + 1].key = n.key

Answers(n) == toc # <<>> /\ CellOf(n) < Len(toc) /\ CellEq(n)

\* The cell that answers, or else the page to search.
Answer(n) == CellOf(n) + 1
First(n) == IF toc = <<>> THEN 1 ELSE (CellOf(n) - 1) * Per + 1
Last(n) == IF toc = <<>> THEN Len(run) ELSE Smaller(CellOf(n) * Per, Len(run))

Init ==
    /\ lane \in {"kv64", "wh128"}
    /\ run \in Runs
    /\ toc \in {Toc(run), <<>>}
    /\ needle \in Keys
    /\ got = Unasked /\ from = <<>>

Get ==
    /\ LET n == Needle(needle)
           at == FindGE(run, First(n), Last(n), n)
       IN  got' = IF Answers(n) THEN Found(toc[Answer(n)])
                  ELSE IF at <= Last(n) /\ run[at].key = needle THEN Found(run[at])
                  ELSE Nothing
    /\ UNCHANGED <<lane, run, toc, needle, from>>

\* The table narrows the lower bound only; SeekRange searches from there.  A
\* cell that answers is itself the new start: a place in the table.
Range ==
    /\ LET n == Needle(needle)
       IN  from' = IF Answers(n) THEN <<"toc", Answer(n)>>
                   ELSE <<"run", FindGE(run, First(n), Len(run), n)>>
    /\ UNCHANGED <<lane, run, toc, needle, got>>

Again ==
    /\ needle' \in Keys
    /\ got' = Unasked /\ from' = <<>>
    /\ UNCHANGED <<lane, run, toc>>

Next == Get \/ Range \/ Again
Spec == Init /\ [][Next]_vars

-----------------------------------------------------------------------------
(* A get finds a row of its key in the one page it searches, or in a cell,  *)
(* whenever the run has one, at page boundaries and in a short last page    *)
(* too, and finds no other row (pup.c: "a present key sits in that page or  *)
(* nowhere").                                                               *)
GetExact ==
    LET there == {Found(run[i]) : i \in {j \in 1 .. Len(run) : run[j].key = needle}}
    IN  \/ got = Unasked
        \/ got \in there
        \/ got = Nothing /\ there = {}

(* A range leaves out no row and takes none too many: it starts with the    *)
(* first row of the whole run that is not before the bound, be it with that *)
(* row's copy in the table (pup.c: "a matching cell makes the start EXACT,  *)
(* not approximate").                                                       *)
RowOf(place) == IF place[1] = "toc" THEN (place[2] - 1) * Per + 1 ELSE place[2]
StartExact ==
    from # <<>> => RowOf(from) = FindGE(run, 1, Len(run), Needle(needle))

(* And it steps through the run: it starts with the row, not with a copy.   *)
RangeExact ==
    from # <<>> => from = <<"run", FindGE(run, 1, Len(run), Needle(needle))>>

(* It does on the lanes that are ordered by key only.                       *)
KeyedRangeExact == lane = "kv64" => RangeExact
=============================================================================
