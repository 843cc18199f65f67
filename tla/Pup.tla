--------------------------------- MODULE Pup ---------------------------------
(***************************************************************************)
(* An index handle of pup.c: a stack of mapped runs and a memtable, read   *)
(* through raw pointers by scans and by the handle's cursor, and lent to   *)
(* JavaScript as run views.  Every write may move or unmap what the        *)
(* pointers point at.                                                      *)
(*                                                                         *)
(* A mapping is a number, given once.  A pointer into a run is good while  *)
(* the run is mapped, a pointer into the memtable while its rows have not  *)
(* moved (gen counts their moves).  Rows read through a pointer are what   *)
(* the source held when the pointer was taken, so a read through a bad one *)
(* is not hidden by the model: Intact fails.                               *)
(*                                                                         *)
(* This is the kv64 lane: newest wins per key.  External: dog's Pup.  When *)
(* it folds the memtable, seals it and merges runs is left open; what a    *)
(* merge keeps is jpup_merge's.                                            *)
(***************************************************************************)
EXTENDS Naturals, Sequences

CONSTANTS
    Keys, Vals, None,
    Cap,        \* HIT_MAX_RUNS: sources a reader takes, cells of the dict
    MaxMaps,    \* bound: mappings a behaviour makes
    MaxEpoch,   \* bound: changes a behaviour makes
    MaxScans    \* bound: scans within scans

ASSUME PupAssumption ==
    /\ Keys \subseteq Nat /\ None \notin Vals
    /\ Cap \in Nat \ {0} /\ MaxMaps \in Nat /\ MaxEpoch \in Nat /\ MaxScans \in Nat

VARIABLES
    live, rw, busy, epoch,     \* the pupslot
    view,    \* pupslot.view: run index -> the mapping its buffer wraps, or 0
    nview,   \* how many of them are set
    runs,    \* the committed runs, oldest first: mappings, or files when closed
    rows,    \* mapping -> the rows of the run
    made,    \* mappings made so far
    past,    \* the memtable's sorted part
    data,    \* the memtable's arrivals, by key
    dirty,   \* data is not sorted and deduplicated yet
    gen,     \* moves of the memtable's rows
    cur,     \* JABC_PUPCUR*: A, K, X, E and the entries
    scans,   \* range frames, innermost last: entries, `was`, callback called
    lent,    \* mappings whose buffers JavaScript holds, not detached
    out,     \* what the last leaf gave
    wrote    \* history: key -> the values it was ever given

vars == <<live, rw, busy, epoch, view, nview, runs, rows, made, past, data,
          dirty, gen, cur, scans, lent, out, wrote>>
slot == <<live, rw, busy>>
moves == <<epoch, view, nview, lent>>
store == <<runs, rows, made, past, data, wrote>>
memory == <<dirty, gen>>

Nothing == <<>>
Error == <<"error">>
NoRows == [k \in Keys |-> None]
NoCur == [on |-> FALSE, key |-> 0, pulled |-> FALSE, epoch |-> 0, ents |-> <<>>]

Least(K) == CHOOSE k \in K : \A j \in K : k <= j
Last(I) == CHOOSE i \in I : \A j \in I : j <= i
Present(f) == {k \in Keys : f[k] # None}
Only(f, K) == [k \in Keys |-> IF k \in K THEN f[k] ELSE None]

\* A merge of sorted sources, oldest first: equal keys go to the youngest.
NewestOf(fs) ==
    [k \in Keys |->
        LET I == {i \in 1 .. Len(fs) : fs[i][k] # None}
        IN  IF I = {} THEN None ELSE fs[Last(I)][k]]

Mapped == IF live THEN {runs[i] : i \in 1 .. Len(runs)} ELSE {}
RunRows == [i \in 1 .. Len(runs) |-> rows[runs[i]]]

Init ==
    /\ live = FALSE /\ rw = TRUE /\ busy = FALSE /\ epoch = 0
    /\ view = [i \in 1 .. Cap |-> 0] /\ nview = 0
    /\ runs = <<>> /\ rows = [m \in 1 .. MaxMaps |-> NoRows] /\ made = 0
    /\ past = NoRows /\ data = NoRows /\ dirty = FALSE /\ gen = 0
    /\ cur = NoCur /\ scans = <<>> /\ lent = {}
    /\ out = Nothing /\ wrote = [k \in Keys |-> {}]

-----------------------------------------------------------------------------
(* Sources.                                                                 *)

Entry(m, f) == [map |-> m, gen |-> gen', rows |-> f]

RunEntries == [i \in 1 .. Len(runs) |-> Entry(runs[i], rows[runs[i]])]
MemEntry(f) == IF Present(f) = {} THEN <<>> ELSE <<Entry(0, f)>>

\* (mutant) arrivals before the sorted part.
SourcesSwapped == RunEntries \o MemEntry(data) \o MemEntry(past)

\* jpup_src: the runs oldest first, then the memtable's one or two.  Taking
\* them sorts the arrivals.
Sources == RunEntries \o MemEntry(past) \o MemEntry(data)

SortMem ==
    /\ dirty' = FALSE
    /\ gen' = IF dirty THEN gen + 1 ELSE gen

\* Every entry cut to the rows of the keys K.  HIT passes over one that has
\* none left.
Cut(ents, K) ==
    [i \in 1 .. Len(ents) |-> [ents[i] EXCEPT !.rows = Only(@, K)]]

Heads(ents) == UNION {Present(ents[i].rows) : i \in 1 .. Len(ents)}
Top(ents) == Least(Heads(ents))
RowsOf(ents) == [i \in 1 .. Len(ents) |-> ents[i].rows]
TopRow(ents) == <<Top(ents), NewestOf(RowsOf(ents))[Top(ents)]>>

\* The group of the top key is stepped over in every entry.
StepTops(ents) == Cut(ents, Keys \ {Top(ents)})

Intact(e) ==
    /\ live
    /\ IF e.map = 0 THEN e.gen = gen ELSE e.map \in Mapped

-----------------------------------------------------------------------------
(* JavaScript runs between calls, or in the callback of the innermost scan. *)
InScan == scans # <<>>
JSRuns == live /\ (InScan => scans[Len(scans)].called)

\* (mutant) the views are not detached.
MovedUnseen ==
    /\ epoch < MaxEpoch
    /\ epoch' = epoch + 1
    /\ UNCHANGED <<view, nview, lent>>

\* (mutant) the epoch stays.
MovedSilently ==
    /\ epoch < MaxEpoch
    /\ epoch' = epoch
    /\ view' = [i \in 1 .. Cap |-> 0] /\ nview' = 0
    /\ lent' = IF nview = 0 THEN lent ELSE lent \ {view[i] : i \in 1 .. Cap}

\* JABCPupMoved: views go (none are looked for when nview is 0), the epoch up.
Moved ==
    /\ epoch < MaxEpoch
    /\ epoch' = epoch + 1
    /\ view' = [i \in 1 .. Cap |-> 0] /\ nview' = 0
    /\ lent' = IF nview = 0 THEN lent ELSE lent \ {view[i] : i \in 1 .. Cap}

\* N is 0 and A is NO.
Spent(c) == [c EXCEPT !.on = FALSE, !.ents = <<>>]

\* Where DOGPup fails, or a leaf refuses.
Fails == out' = Error

\* What put, commit and drop check.
MayWrite == JSRuns /\ rw /\ ~busy

-----------------------------------------------------------------------------
(* put, commit, drop, open, close.                                          *)

\* A run made of fs, newest last, in place of the runs from j on: a seal and
\* the part of the ladder it sets off.
Sealed(fs, j) ==
    /\ made < MaxMaps
    /\ made' = made + 1
    /\ runs' = Append(SubSeq(runs, 1, j - 1), made + 1)
    /\ rows' = [rows EXCEPT ![made + 1] = NewestOf(SubSeq(RunRows, j, Len(runs)) \o fs)]
    /\ Len(runs') < Cap
    /\ past' = NoRows /\ data' = NoRows
    /\ dirty' = FALSE /\ gen' = gen + 1

Put(k, v) ==
    /\ MayWrite
    /\ Moved
    /\ LET more == [data EXCEPT ![k] = v]
       IN  \/ /\ data' = more
              /\ dirty' = (dirty \/ \E j \in Present(data) : k <= j)
              /\ UNCHANGED <<past, runs, rows, made, gen>>
           \/ /\ past' = NewestOf(<<past, more>>)      \* folded
              /\ data' = NoRows /\ dirty' = FALSE /\ gen' = gen + 1
              /\ UNCHANGED <<runs, rows, made>>
           \/ \E j \in 1 .. Len(runs) + 1 : Sealed(<<past, more>>, j)
    /\ wrote' = [wrote EXCEPT ![k] = @ \cup {v}]
    /\ out' = Nothing
    /\ UNCHANGED <<slot, cur, scans>>

Commit ==
    /\ MayWrite
    /\ Moved
    /\ IF Present(past) \cup Present(data) = {}
       THEN UNCHANGED <<runs, rows, made, past, data, memory>>
       ELSE \E j \in 1 .. Len(runs) + 1 : Sealed(<<past, data>>, j)
    /\ out' = Nothing
    /\ UNCHANGED <<slot, cur, scans, wrote>>

\* put or commit with the stack full: the views and the cursor's entries are
\* gone, the rows are as they were.
WriteFails ==
    /\ MayWrite /\ Len(runs) >= Cap - 1
    /\ Moved
    /\ Fails
    /\ UNCHANGED <<slot, store, memory, cur, scans>>

\* drop() and drop(i); an index that names no run fails after the rest.
Drop ==
    /\ MayWrite
    /\ Moved
    /\ cur' = Spent(cur)
    /\ \/ /\ runs' = <<>>
          /\ out' = Nothing
       \/ \E i \in 1 .. Len(runs) :
            /\ runs' = SubSeq(runs, 1, i - 1) \o SubSeq(runs, i + 1, Len(runs))
            /\ out' = Nothing
       \/ /\ runs' = runs
          /\ Fails
    /\ UNCHANGED <<slot, rows, made, past, data, memory, scans, wrote>>

\* A write to a handle that is closed, scanned or read-only; a close of one
\* that is closed or scanned.
Refused ==
    /\ ~live \/ (JSRuns /\ (busy \/ ~rw))
    /\ Fails
    /\ UNCHANGED <<slot, moves, store, memory, cur, scans>>

Close ==
    /\ JSRuns /\ ~busy
    /\ Moved
    /\ live' = FALSE
    /\ cur' = Spent(cur)
    /\ out' = Nothing
    /\ UNCHANGED <<rw, busy, store, memory, scans>>

\* The runs are mapped anew; rows put and not committed may be there or not.
Open ==
    /\ ~live
    /\ made + Len(runs) <= MaxMaps
    /\ live' = TRUE /\ busy' = FALSE
    /\ rw' \in BOOLEAN
    /\ runs' = [i \in 1 .. Len(runs) |-> made + i]
    /\ rows' = [m \in 1 .. MaxMaps |->
                   IF m > made /\ m <= made + Len(runs) THEN rows[runs[m - made]]
                   ELSE rows[m]]
    /\ made' = made + Len(runs)
    /\ \/ UNCHANGED <<past, data, dirty>>
       \/ past' = NoRows /\ data' = NoRows /\ dirty' = FALSE
    /\ gen' = gen + 1
    /\ cur' = Spent(cur)
    /\ Moved
    /\ out' = Nothing
    /\ UNCHANGED <<scans, wrote>>

-----------------------------------------------------------------------------
(* get, range, seek, next, run.                                             *)

TooMany == Len(Sources) > Cap

Get(k) ==
    /\ JSRuns
    /\ SortMem
    /\ out' = IF TooMany THEN Error
              ELSE LET f == NewestOf(RowsOf(Sources))
                   IN  IF f[k] = None THEN Nothing ELSE <<k, f[k]>>
    /\ UNCHANGED <<slot, moves, store, cur, scans>>

RangeStart(lo, hi) ==
    /\ JSRuns /\ Len(scans) < MaxScans
    /\ SortMem
    /\ IF TooMany THEN /\ Fails
                       /\ UNCHANGED <<busy, scans>>
       ELSE LET within == {k \in Keys : lo <= k /\ k < hi}
            IN  /\ scans' = Append(scans, [ents |-> Cut(Sources, within),
                                           was |-> busy, called |-> FALSE])
                /\ busy' = TRUE
                /\ out' = Nothing
    /\ UNCHANGED <<live, rw, moves, store, cur>>

\* A row is stepped over, then the callback called with it.
RangeRow ==
    /\ InScan
    /\ LET e == scans[Len(scans)].ents
       IN  /\ Heads(e) # {}
           /\ out' = TopRow(e)
           /\ scans' = [scans EXCEPT ![Len(scans)].ents = StepTops(e),
                                     ![Len(scans)].called = TRUE]
    /\ UNCHANGED <<slot, moves, store, memory, cur>>

\* (mutant) the nested scan clears the flag of the outer one.
BusyAfter(frame) == FALSE

BusyWas(frame) == frame.was

\* The rows are out, or the callback threw, or it said "enough".
RangeEnd ==
    /\ InScan
    /\ Heads(scans[Len(scans)].ents) = {} \/ scans[Len(scans)].called
    /\ busy' = BusyWas(scans[Len(scans)])
    /\ scans' = SubSeq(scans, 1, Len(scans) - 1)
    /\ out' = Nothing
    /\ UNCHANGED <<live, rw, moves, store, memory, cur>>

PastBound(c, k) == IF c.pulled THEN k > c.key ELSE k >= c.key

\* jpup_cut: c's entries are taken from the live sources, past its bound.
CutCursor(c) ==
    [c EXCEPT !.ents = Cut(Sources, {k \in Keys : PastBound(c, k)}), !.epoch = epoch]

Seek(k) ==
    /\ JSRuns
    /\ SortMem
    /\ LET c == [cur EXCEPT !.on = TRUE, !.key = k, !.pulled = FALSE]
       IN  IF TooMany THEN /\ cur' = Spent(c)
                           /\ Fails
           ELSE /\ cur' = CutCursor(c)
                /\ out' = Nothing
    /\ UNCHANGED <<slot, moves, store, scans>>

\* One row from the entries of c.
PullFrom(c) ==
    IF Heads(c.ents) = {}
    THEN /\ cur' = Spent(c)
         /\ out' = Nothing
    ELSE /\ cur' = [c EXCEPT !.ents = StepTops(@), !.key = Top(c.ents),
                             !.pulled = TRUE]
         /\ out' = TopRow(c.ents)

\* _next: nothing when spent; a cursor cut at an older epoch is cut again.
Pull ==
    /\ JSRuns
    /\ \/ /\ ~cur.on
          /\ out' = Nothing
          /\ UNCHANGED <<memory, cur>>
       \/ /\ cur.on /\ cur.epoch = epoch
          /\ PullFrom(cur)
          /\ UNCHANGED memory
       \/ /\ cur.on /\ cur.epoch # epoch
          /\ SortMem
          /\ IF TooMany THEN /\ cur' = Spent(cur)
                             /\ Fails
             ELSE PullFrom(CutCursor(cur))
    /\ UNCHANGED <<slot, moves, store, scans>>

\* (mutant) a buffer found again is counted again.
MintedAgain(i) == nview + 1

Minted(i) == IF view[i] = 0 THEN nview + 1 ELSE nview

\* _run(i): the buffer of the run's mapping, made unless the handle has it.
Run(i) ==
    /\ JSRuns /\ i <= Len(runs)
    /\ view' = [view EXCEPT ![i] = runs[i]]
    /\ nview' = Minted(i)
    /\ lent' = lent \cup {runs[i]}
    /\ out' = Nothing
    /\ UNCHANGED <<slot, epoch, store, memory, cur, scans>>

\* The script detaches a buffer itself.
Detach(m) ==
    /\ JSRuns /\ m \in lent
    /\ lent' = lent \ {m}
    /\ UNCHANGED <<slot, epoch, view, nview, store, memory, cur, scans, out>>

-----------------------------------------------------------------------------
Next ==
    \/ \E k \in Keys, v \in Vals : Put(k, v)
    \/ Commit \/ WriteFails \/ Drop \/ Refused \/ Close \/ Open
    \/ \E k \in Keys : Get(k) \/ Seek(k)
    \/ \E lo, k \in Keys : RangeStart(lo, k + 1)
    \/ RangeRow \/ RangeEnd \/ Pull
    \/ \E i \in 1 .. Cap : Run(i)
    \/ \E m \in 1 .. MaxMaps : Detach(m)

Spec == Init /\ [][Next]_vars

-----------------------------------------------------------------------------
Rows == [Keys -> Vals \cup {None}]
Entries == [map : 0 .. MaxMaps, gen : Nat, rows : Rows]
Cursors == [on : BOOLEAN, key : Nat, pulled : BOOLEAN, epoch : 0 .. MaxEpoch,
            ents : Seq(Entries)]
Frames == [ents : Seq(Entries), was : BOOLEAN, called : BOOLEAN]

TypeOK ==
    /\ live \in BOOLEAN /\ rw \in BOOLEAN /\ busy \in BOOLEAN
    /\ epoch \in 0 .. MaxEpoch
    /\ view \in [1 .. Cap -> 0 .. MaxMaps] /\ nview \in 0 .. Cap
    /\ runs \in Seq(1 .. MaxMaps) /\ made \in 0 .. MaxMaps
    /\ rows \in [1 .. MaxMaps -> Rows]
    /\ past \in Rows /\ data \in Rows
    /\ dirty \in BOOLEAN /\ gen \in Nat
    /\ cur \in Cursors /\ scans \in Seq(Frames)
    /\ lent \subseteq 1 .. MaxMaps
    /\ wrote \in [Keys -> SUBSET Vals]

(* An armed cursor of the current epoch steps through rows that are where   *)
(* they were when it was cut: no read moves them, and every write that does *)
(* makes the cursor cut itself again (pup.c: QJAB-006).                     *)
CursorIntact ==
    cur.on /\ cur.epoch = epoch => \A i \in 1 .. Len(cur.ents) : Intact(cur.ents[i])

(* The rows a running scan has left stay mapped and in place, through       *)
(* nested scans, throws and every call its callback may make (QJAB-005).    *)
ScansIntact ==
    \A s \in 1 .. Len(scans) :
        \A i \in 1 .. Len(scans[s].ents) : Intact(scans[s].ents[i])

(* A run view JavaScript holds wraps a mapped run or is detached, whichever *)
(* calls sealed, merged, dropped or closed the run since (QJAB-006).        *)
ViewsIntact == lent \subseteq Mapped

-----------------------------------------------------------------------------
(* The handle implements one ordered map.                                   *)
Whole == NewestOf(RunRows \o <<past, data>>)

Left == [i \in 1 .. Len(scans) |-> Heads(scans[i].ents)]
Cursor == IF cur.on THEN [on |-> TRUE, key |-> cur.key, pulled |-> cur.pulled]
          ELSE [on |-> FALSE, key |-> 0, pulled |-> FALSE]

Abstract == INSTANCE Index WITH dict <- Whole, scans <- Left, cursor <- Cursor

(* Every get, scan and pull answers as one map would in which the newest    *)
(* value of a key wins (pup.c:1-4, cont.c:588-638), wherever seals, the     *)
(* ladder and the memtable have put the rows.                               *)
OneMap == Abstract!Spec
=============================================================================
