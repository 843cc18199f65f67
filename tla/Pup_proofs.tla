------------------------------ MODULE Pup_proofs ------------------------------
(***************************************************************************)
(* Proofs about Pup, for every set of keys and values and every bound:     *)
(* types; that no pointer and no view outlives what it points at; and that *)
(* Pup implements Index: whatever seals, merges and folds the rows went    *)
(* through, the handle answers as one ordered map does.                    *)
(***************************************************************************)
EXTENDS Pup, FiniteSetTheorems, SequenceTheorems, TLAPS

-----------------------------------------------------------------------------
(* The least and the last element of a set.  The library has that finite    *)
(* sets are well-founded under inclusion, and intervals are finite.         *)

LEMMA LeastIsLeast ==
    ASSUME NEW K \in SUBSET Nat, K # {}
    PROVE  Least(K) \in K /\ \A k \in K : Least(K) <= k
  <1>1. PICK m \in K : TRUE
    OBVIOUS
  <1>2. IsFiniteSet(0 .. m)
    BY FS_Interval
  <1> DEFINE T == {0 .. k : k \in {j \in K : j <= m}}
  <1>3. \A t \in T : t \in SUBSET (0 .. m)
    OBVIOUS
  <1>4. T # {} /\ T \subseteq FiniteSubsetsOf(0 .. m)
    BY <1>2, <1>3, FS_Subset DEF FiniteSubsetsOf
  <1>5. IsWellFoundedOn(StrictSubsetOrdering(0 .. m), FiniteSubsetsOf(0 .. m))
    BY FS_StrictSubsetOrderingWellFounded
  <1>6. \E x \in T : \A y \in T : ~ (<<y, x>> \in StrictSubsetOrdering(0 .. m))
    BY <1>4, <1>5, WFMin
  <1>7. PICK k \in K : k <= m /\ \A y \in T : ~ (<<y, 0 .. k>> \in StrictSubsetOrdering(0 .. m))
    BY <1>6
  <1>8. \A j \in K : k <= j
    <2> SUFFICES ASSUME NEW j \in K, j < k PROVE FALSE
      OBVIOUS
    <2>1. 0 .. j \in T /\ 0 .. k \in T
      BY <1>7
    <2>2. 0 .. j \subseteq 0 .. k /\ k \in 0 .. k /\ k \notin 0 .. j
      OBVIOUS
    <2>3. <<0 .. j, 0 .. k>> \in StrictSubsetOrdering(0 .. m)
      BY <1>3, <2>1, <2>2 DEF StrictSubsetOrdering
    <2> QED BY <1>7, <2>1, <2>3
  <1> QED BY <1>8 DEF Least

LEMMA LastIsLast ==
    ASSUME NEW n \in Nat, NEW I \in SUBSET (1 .. n), I # {}
    PROVE  Last(I) \in I /\ \A j \in I : j <= Last(I)
  <1> DEFINE K == {n - i : i \in I}
  <1>1. K \in SUBSET Nat /\ K # {}
    <2>1. \A i \in I : n - i \in Nat
      OBVIOUS
    <2>2. K # {}
      OBVIOUS
    <2> QED BY <2>1, <2>2
  <1>2. PICK i \in I : Least(K) = n - i
    BY <1>1, LeastIsLeast
  <1>3. \A j \in I : n - i <= n - j
    BY <1>1, <1>2, LeastIsLeast
  <1>4. \A j \in I : j <= i
    BY <1>3
  <1> QED BY <1>4 DEF Last

-----------------------------------------------------------------------------
(* What a merge gives, without its CHOOSE.                                  *)

Newest(fs, k, v) ==
    \/ v = None /\ \A i \in 1 .. Len(fs) : fs[i][k] = None
    \/ \E i \in 1 .. Len(fs) :
          /\ v # None /\ fs[i][k] = v
          /\ \A j \in 1 .. Len(fs) : j > i => fs[j][k] = None

LEMMA NewestHolds ==
    ASSUME NEW fs \in Seq(Rows), NEW k \in Keys
    PROVE  Newest(fs, k, NewestOf(fs)[k])
  <1> DEFINE I == {i \in 1 .. Len(fs) : fs[i][k] # None}
  <1>1. NewestOf(fs)[k] = IF I = {} THEN None ELSE fs[Last(I)][k]
    BY DEF NewestOf
  <1>2. CASE I = {}
    BY <1>1, <1>2 DEF Newest
  <1>3. CASE I # {}
    <2>1. Last(I) \in I /\ \A j \in I : j <= Last(I)
      <3>1. Len(fs) \in Nat
        OBVIOUS
      <3>2. I \in SUBSET (1 .. Len(fs))
        OBVIOUS
      <3> HIDE DEF I
      <3> QED BY <1>3, <3>1, <3>2, LastIsLast
    <2>2. \A j \in 1 .. Len(fs) : j > Last(I) => fs[j][k] = None
      BY <2>1
    <2> QED BY <1>1, <1>3, <2>1, <2>2 DEF Newest
  <1> QED BY <1>2, <1>3

LEMMA NewestIsOne ==
    ASSUME NEW fs \in Seq(Rows), NEW k \in Keys, NEW v, NEW w,
           Newest(fs, k, v), Newest(fs, k, w)
    PROVE  v = w
  BY DEF Newest

LEMMA NewestTyped ==
    ASSUME NEW fs \in Seq(Rows)
    PROVE  NewestOf(fs) \in Rows
  <1>1. \A k \in Keys : NewestOf(fs)[k] \in Vals \cup {None}
    BY NewestHolds DEF Newest, Rows
  <1> QED BY <1>1 DEF NewestOf, Rows

-----------------------------------------------------------------------------
(* Entries and sources.                                                     *)

LEMMA OnlyTyped ==
    ASSUME NEW f \in Rows, NEW K
    PROVE  Only(f, K) \in Rows /\ \A k \in Keys : Only(f, K)[k] = IF k \in K THEN f[k] ELSE None
  BY DEF Only, Rows

LEMMA CutKeeps ==
    ASSUME NEW ents \in Seq(Entries), NEW K
    PROVE  /\ Cut(ents, K) \in Seq(Entries) /\ Len(Cut(ents, K)) = Len(ents)
           /\ \A i \in 1 .. Len(ents) :
                 /\ Cut(ents, K)[i].map = ents[i].map
                 /\ Cut(ents, K)[i].gen = ents[i].gen
                 /\ Cut(ents, K)[i].rows = Only(ents[i].rows, K)
  <1> DEFINE Clip(e) == [e EXCEPT !.rows = Only(@, K)]
  <1>1. \A e \in Entries :
            /\ Clip(e) \in Entries /\ Clip(e).map = e.map /\ Clip(e).gen = e.gen
            /\ Clip(e).rows = Only(e.rows, K)
    BY OnlyTyped DEF Entries
  <1>2. Cut(ents, K) = [i \in 1 .. Len(ents) |-> Clip(ents[i])]
    BY DEF Cut
  <1>3. \A i \in 1 .. Len(ents) : ents[i] \in Entries
    OBVIOUS
  <1> HIDE DEF Clip
  <1> QED BY <1>1, <1>2, <1>3

LEMMA RunRowsTyped ==
    ASSUME TypeOK
    PROVE  /\ RunRows \in Seq(Rows) /\ Len(RunRows) = Len(runs)
           /\ \A i \in 1 .. Len(runs) : RunRows[i] = rows[runs[i]]
  <1>1. runs \in Seq(1 .. MaxMaps) /\ rows \in [1 .. MaxMaps -> Rows]
    BY DEF TypeOK
  <1>2. \A i \in 1 .. Len(runs) : rows[runs[i]] \in Rows
    BY <1>1, ElementOfSeq
  <1> QED BY <1>1, <1>2 DEF RunRows

LEMMA MemEntryTyped ==
    ASSUME TypeOK, gen' \in Nat, NEW f \in Rows
    PROVE  /\ MemEntry(f) \in Seq(Entries)
           /\ \A i \in 1 .. Len(MemEntry(f)) : 
                 MemEntry(f)[i].map = 0 /\ MemEntry(f)[i].gen = gen'
  <1>1. Entry(0, f) \in Entries /\ Entry(0, f).map = 0 /\ Entry(0, f).gen = gen'
    BY PupAssumption DEF Entry, Entries
  <1>2. PICK e \in Entries : e = Entry(0, f)
    BY <1>1
  <1> QED BY <1>1, <1>2, EmptySeq DEF MemEntry

LEMMA RunEntriesTyped ==
    ASSUME TypeOK, gen' \in Nat
    PROVE  /\ RunEntries \in Seq(Entries) /\ Len(RunEntries) = Len(runs)
           /\ \A i \in 1 .. Len(runs) :
                 RunEntries[i].map = runs[i] /\ RunEntries[i].gen = gen'
  <1>1. \A i \in 1 .. Len(runs) :
            LET e == Entry(runs[i], rows[runs[i]]) IN
            e \in Entries /\ e.map = runs[i] /\ e.gen = gen'
    <2>1. \A i \in 1 .. Len(runs) :
             runs[i] \in 0 .. MaxMaps /\ rows[runs[i]] \in Rows
      BY PupAssumption DEF TypeOK
    <2> QED BY <2>1 DEF Entry, Entries
  <1> QED BY <1>1 DEF RunEntries, TypeOK

(* A source is a mapped run or the memtable where it is now.                *)
LEMMA SourcesTyped ==
    ASSUME TypeOK, gen' \in Nat
    PROVE  /\ Sources \in Seq(Entries)
           /\ \A i \in 1 .. Len(Sources) :
                 /\ Sources[i].gen = gen'
                 /\ Sources[i].map = 0 \/ \E j \in 1 .. Len(runs) : Sources[i].map = runs[j]
  <1> DEFINE Fit(s) == \A i \in 1 .. Len(s) :
                 /\ s[i].gen = gen'
                 /\ s[i].map = 0 \/ \E j \in 1 .. Len(runs) : s[i].map = runs[j]
  <1>1. RunEntries \in Seq(Entries) /\ Fit(RunEntries)
    BY RunEntriesTyped
  <1>2. \A f \in Rows : MemEntry(f) \in Seq(Entries) /\ Fit(MemEntry(f))
    BY MemEntryTyped
  <1>3. \A s, t \in Seq(Entries) : Fit(s) /\ Fit(t) => s \o t \in Seq(Entries) /\ Fit(s \o t)
    BY ConcatProperties
  <1>4. past \in Rows /\ data \in Rows
    BY DEF TypeOK
  <1> HIDE DEF Fit
  <1>5. Sources \in Seq(Entries) /\ Fit(Sources)
    BY <1>1, <1>2, <1>3, <1>4 DEF Sources
  <1> QED BY <1>5 DEF Fit

-----------------------------------------------------------------------------
(* Types.  The handle counts its views.                                     *)

Viewed == {i \in 1 .. Cap : view[i] # 0}
Counted == nview = Cardinality(Viewed)

StoreOK ==
    /\ runs \in Seq(1 .. MaxMaps) /\ made \in 0 .. MaxMaps
    /\ rows \in [1 .. MaxMaps -> Rows]
    /\ past \in Rows /\ data \in Rows /\ dirty \in BOOLEAN /\ gen \in Nat

LEMMA StoreTyped == TypeOK => StoreOK
  BY DEF TypeOK, StoreOK

LEMMA MovedClears ==
    ASSUME TypeOK, Moved
    PROVE  /\ epoch' = epoch + 1 /\ epoch' \in 0 .. MaxEpoch
           /\ view' \in [1 .. Cap -> 0 .. MaxMaps] /\ \A i \in 1 .. Cap : view'[i] = 0
           /\ nview' = 0 /\ nview' \in 0 .. Cap
           /\ lent' \subseteq lent
  BY PupAssumption DEF TypeOK, Moved

LEMMA NoneCounted ==
    ASSUME nview' = 0, \A i \in 1 .. Cap : view'[i] = 0
    PROVE  Counted'
  <1>1. Viewed' = {}
    BY DEF Viewed
  <1> QED BY <1>1, FS_EmptySet DEF Counted

LEMMA RunCounts ==
    ASSUME TypeOK, Counted, NEW i \in 1 .. Cap, Run(i)
    PROVE  Counted' /\ nview' \in 0 .. Cap /\ nview' # 0
           /\ view' \in [1 .. Cap -> 0 .. MaxMaps]
  <1>1. view \in [1 .. Cap -> 0 .. MaxMaps] /\ i \in 1 .. Len(runs)
        /\ runs \in Seq(1 .. MaxMaps) /\ nview \in Nat /\ Cap \in Nat
    BY PupAssumption DEF TypeOK, Run
  <1>2. runs[i] \in 1 .. MaxMaps /\ MaxMaps \in Nat
    BY <1>1, ElementOfSeq, PupAssumption
  <1>3. view' = [view EXCEPT ![i] = runs[i]] /\ nview' = Minted(i)
    BY DEF Run
  <1>4. view' \in [1 .. Cap -> 0 .. MaxMaps] /\ view'[i] # 0
        /\ \A j \in 1 .. Cap : j # i => view'[j] = view[j]
    BY <1>1, <1>2, <1>3
  <1>5. Viewed' = Viewed \cup {i}
    BY <1>4 DEF Viewed
  <1>6. IsFiniteSet(1 .. Cap) /\ Cardinality(1 .. Cap) = Cap
    BY <1>1, FS_Interval
  <1>7. Viewed \in SUBSET (1 .. Cap) /\ Viewed' \in SUBSET (1 .. Cap)
    BY DEF Viewed
  <1>8. IsFiniteSet(Viewed) /\ Cardinality(Viewed') <= Cap
    BY <1>6, <1>7, FS_Subset
  <1>9. Cardinality(Viewed') = IF i \in Viewed THEN Cardinality(Viewed) ELSE Cardinality(Viewed) + 1
    BY <1>5, <1>8, FS_AddElement
  <1>10. Minted(i) = IF i \in Viewed THEN nview ELSE nview + 1
    BY DEF Minted, Viewed
  <1>11. nview' = Cardinality(Viewed')
    BY <1>3, <1>9, <1>10 DEF Counted
  <1>12. i \in Viewed => nview # 0
    BY <1>8, FS_EmptySet DEF Counted
  <1>13. nview' \in Nat /\ nview' # 0
    BY <1>1, <1>3, <1>10, <1>12
  <1> QED BY <1>1, <1>4, <1>8, <1>11, <1>13 DEF Counted

LEMMA SealedTyped ==
    ASSUME TypeOK, NEW f \in Rows, NEW g \in Rows,
           NEW j \in 1 .. Len(runs) + 1, Sealed(<<f, g>>, j)
    PROVE  StoreOK'
  <1>1. runs \in Seq(1 .. MaxMaps) /\ rows \in [1 .. MaxMaps -> Rows]
        /\ made \in 0 .. MaxMaps /\ gen \in Nat /\ MaxMaps \in Nat
    BY PupAssumption DEF TypeOK
  <1>2. made + 1 \in 1 .. MaxMaps /\ Len(runs) \in Nat
    BY <1>1 DEF Sealed
  <1>3. SubSeq(runs, 1, j - 1) \in Seq(1 .. MaxMaps)
    <2>1. \A i \in 1 .. j - 1 : runs[i] \in 1 .. MaxMaps
      BY <1>1, <1>2, ElementOfSeq
    <2> QED BY <1>2, <2>1, SubSeqProperties
  <1>4. runs' \in Seq(1 .. MaxMaps)
    BY <1>2, <1>3, AppendProperties DEF Sealed
  <1>5. SubSeq(RunRows, j, Len(runs)) \in Seq(Rows)
    <2>1. \A i \in j .. Len(runs) : RunRows[i] \in Rows
      BY <1>2, RunRowsTyped, ElementOfSeq
    <2> QED BY <1>2, <2>1, SubSeqProperties
  <1>6. <<f, g>> \in Seq(Rows)
    OBVIOUS
  <1>7. NewestOf(SubSeq(RunRows, j, Len(runs)) \o <<f, g>>) \in Rows
    BY <1>5, <1>6, ConcatProperties, NewestTyped
  <1>8. rows' \in [1 .. MaxMaps -> Rows]
    BY <1>1, <1>7 DEF Sealed
  <1>9. NoRows \in Rows
    BY DEF NoRows, Rows
  <1>10. made' = made + 1 /\ past' = NoRows /\ data' = NoRows /\ dirty' = FALSE /\ gen' = gen + 1
    BY DEF Sealed
  <1>11. made' \in 0 .. MaxMaps /\ gen' \in Nat
    BY <1>1, <1>2, <1>10
  <1> QED BY <1>4, <1>8, <1>9, <1>10, <1>11 DEF StoreOK

LEMMA SortTyped ==
    ASSUME TypeOK, SortMem
    PROVE  /\ gen' \in Nat /\ ~ dirty' /\ dirty' \in BOOLEAN
           /\ ~ dirty => gen' = gen
  <1>1. gen \in Nat
    BY DEF TypeOK
  <1>2. dirty => gen' = gen + 1
    BY Zenon DEF SortMem
  <1>3. ~ dirty => gen' = gen
    BY Zenon DEF SortMem
  <1>4. ~ dirty' /\ dirty' \in BOOLEAN
    BY Zenon DEF SortMem
  <1>5. gen' \in Nat
    BY <1>1, <1>2, <1>3
  <1> QED BY <1>3, <1>4, <1>5

LEMMA CursorTyped ==
    ASSUME NEW c \in Cursors, TypeOK
    PROVE  /\ Spent(c) \in Cursors /\ ~ Spent(c).on
           /\ \A k \in Nat : [c EXCEPT !.on = TRUE, !.key = k, !.pulled = FALSE] \in Cursors
           /\ \A ents \in Seq(Entries), k \in Nat :
                 [c EXCEPT !.ents = ents, !.key = k, !.pulled = TRUE] \in Cursors
           /\ \A ents \in Seq(Entries) : [c EXCEPT !.ents = ents, !.epoch = epoch] \in Cursors
  BY EmptySeq DEF Cursors, Spent, TypeOK

LEMMA CutCursorTyped ==
    ASSUME TypeOK, gen' \in Nat, NEW c \in Cursors
    PROVE  /\ CutCursor(c) \in Cursors /\ CutCursor(c).on = c.on
           /\ CutCursor(c).epoch = epoch /\ CutCursor(c).key = c.key
           /\ CutCursor(c).pulled = c.pulled
           /\ CutCursor(c).ents = Cut(Sources, {k \in Keys : PastBound(c, k)})
  <1> DEFINE new == Cut(Sources, {k \in Keys : PastBound(c, k)})
  <1>1. new \in Seq(Entries)
    BY SourcesTyped, CutKeeps
  <1>2. CutCursor(c) = [c EXCEPT !.ents = new, !.epoch = epoch]
    BY DEF CutCursor
  <1> HIDE DEF new
  <1>3. CutCursor(c) \in Cursors
    BY <1>1, <1>2, CursorTyped
  <1>4. PICK d \in Cursors : d = [c EXCEPT !.ents = new, !.epoch = epoch]
    BY <1>1, CursorTyped
  <1>5. d.on = c.on /\ d.epoch = epoch /\ d.key = c.key /\ d.pulled = c.pulled /\ d.ents = new
    BY <1>4 DEF Cursors
  <1> QED BY <1>2, <1>3, <1>4, <1>5 DEF new

LEMMA HeadsAreKeys ==
    ASSUME NEW ents
    PROVE  /\ Heads(ents) \in SUBSET Keys /\ Heads(ents) \in SUBSET Nat
           /\ Heads(ents) # {} =>
                 /\ Top(ents) \in Heads(ents) /\ Top(ents) \in Keys
                 /\ \A k \in Heads(ents) : Top(ents) <= k
  <1>1. Heads(ents) \in SUBSET Keys
    BY DEF Heads, Present
  <1>2. Heads(ents) \in SUBSET Nat
    BY <1>1, PupAssumption
  <1> QED BY <1>1, <1>2, LeastIsLeast DEF Top

LEMMA PullTyped ==
    ASSUME NEW c \in Cursors, TypeOK, PullFrom(c)
    PROVE  cur' \in Cursors
  <1>1. CASE Heads(c.ents) = {}
    BY <1>1, CursorTyped DEF PullFrom
  <1>2. CASE Heads(c.ents) # {}
    <2>1. c.ents \in Seq(Entries)
      BY DEF Cursors
    <2>2. StepTops(c.ents) \in Seq(Entries) /\ Top(c.ents) \in Nat
      BY <1>2, <2>1, CutKeeps, HeadsAreKeys DEF StepTops
    <2>3. cur' = [c EXCEPT !.ents = StepTops(c.ents), !.key = Top(c.ents), !.pulled = TRUE]
      BY <1>2 DEF PullFrom
    <2> QED BY <2>2, <2>3, CursorTyped
  <1> QED BY <1>1, <1>2

(* The innermost scan, and what a step over its top row leaves.             *)
LEMMA Innermost ==
    ASSUME scans \in Seq(Frames), InScan
    PROVE  /\ \E k \in 1 .. Len(scans) : k = Len(scans)
           /\ scans[Len(scans)] \in Frames
           /\ \E n \in Nat : Len(scans) = n + 1
  <1>1. Len(scans) \in Nat /\ Len(scans) # 0
    BY EmptySeq DEF InScan
  <1>2. Len(scans) - 1 \in Nat /\ Len(scans) = (Len(scans) - 1) + 1 /\ Len(scans) \in 1 .. Len(scans)
    BY <1>1
  <1> QED BY <1>2, ElementOfSeq

LEMMA Without ==
    ASSUME NEW S, NEW s \in Seq(S), NEW i \in 1 .. Len(s)
    PROVE  LET t == SubSeq(s, 1, i - 1) \o SubSeq(s, i + 1, Len(s)) IN
           /\ t \in Seq(S) /\ Len(t) = Len(s) - 1
           /\ \A j \in 1 .. Len(t) : t[j] = IF j < i THEN s[j] ELSE s[j + 1]
  <1> DEFINE a == SubSeq(s, 1, i - 1)
             b == SubSeq(s, i + 1, Len(s))
  <1>1. Len(s) \in Nat /\ \A j \in 1 .. Len(s) : s[j] \in S
    OBVIOUS
  <1>2. /\ a \in Seq(S) /\ Len(a) = i - 1
        /\ \A j \in 1 .. i - 1 : a[j] = s[j]
    <2>1. \A j \in 1 .. i - 1 : s[j] \in S
      BY <1>1
    <2> QED BY <1>1, <2>1, SubSeqProperties
  <1>3. /\ b \in Seq(S) /\ Len(b) = Len(s) - i
        /\ \A j \in 1 .. Len(s) - i : b[j] = s[i + j]
    <2>1. \A j \in i + 1 .. Len(s) : s[j] \in S
      BY <1>1
    <2> QED BY <1>1, <2>1, SubSeqProperties
  <1> HIDE DEF a, b
  <1>4. /\ a \o b \in Seq(S) /\ Len(a \o b) = Len(a) + Len(b)
        /\ \A j \in 1 .. Len(a) + Len(b) :
              (a \o b)[j] = IF j <= Len(a) THEN a[j] ELSE b[j - Len(a)]
    BY <1>2, <1>3, ConcatProperties
  <1>5. Len(a \o b) = Len(s) - 1
    BY <1>1, <1>2, <1>3, <1>4
  <1>6. \A j \in 1 .. Len(s) - 1 : (a \o b)[j] = IF j < i THEN s[j] ELSE s[j + 1]
    <2> TAKE j \in 1 .. Len(s) - 1
    <2>1. CASE j < i
      BY <1>1, <1>2, <1>3, <1>4, <2>1
    <2>2. CASE ~ j < i
      <3>1. j - (i - 1) \in 1 .. Len(s) - i /\ i + (j - (i - 1)) = j + 1
        BY <1>1, <2>2
      <3>2. (a \o b)[j] = b[j - (i - 1)]
        BY <1>1, <1>2, <1>3, <1>4, <2>2
      <3> QED BY <1>3, <2>2, <3>1, <3>2
    <2> QED BY <2>1, <2>2
  <1> QED BY <1>4, <1>5, <1>6 DEF a, b

LEMMA FrameKinds ==
    /\ \A ents \in Seq(Entries), was \in BOOLEAN :
          LET fr == [ents |-> ents, was |-> was, called |-> FALSE] IN
          fr \in Frames /\ fr.ents = ents /\ fr.was = was
    /\ \A fr \in Frames :
          fr.ents \in Seq(Entries) /\ fr.was \in BOOLEAN /\ fr.called \in BOOLEAN
    /\ \A fr \in Frames, ents \in Seq(Entries) :
          LET new == [fr EXCEPT !.ents = ents, !.called = TRUE] IN
          new \in Frames /\ new.ents = ents /\ new.was = fr.was
  BY DEF Frames

LEMMA RowTaken ==
    ASSUME TypeOK, RangeRow
    PROVE  \E n \in 1 .. Len(scans) :
              /\ n = Len(scans) /\ scans[n].ents \in Seq(Entries)
              /\ Heads(scans[n].ents) # {}
              /\ scans' \in Seq(Frames) /\ Len(scans') = Len(scans)
              /\ scans'[n].ents = StepTops(scans[n].ents) /\ scans'[n].was = scans[n].was
              /\ \A s \in 1 .. Len(scans) : s # n => scans'[s] = scans[s]
              /\ out' = TopRow(scans[n].ents)
  <1>1. scans \in Seq(Frames) /\ InScan
    BY DEF TypeOK, RangeRow
  <1>2. PICK n \in 1 .. Len(scans) : n = Len(scans)
    BY <1>1, Innermost
  <1>3. PICK fr \in Frames : fr = scans[n]
    BY <1>1, ElementOfSeq
  <1>4. fr.ents \in Seq(Entries) /\ StepTops(fr.ents) \in Seq(Entries)
    BY FrameKinds, CutKeeps DEF StepTops
  <1>5. PICK new \in Frames : /\ new = [fr EXCEPT !.ents = StepTops(fr.ents), !.called = TRUE]
                              /\ new.ents = StepTops(fr.ents) /\ new.was = fr.was
    BY <1>4, FrameKinds
  <1>6. scans' = [scans EXCEPT ![n] = new]
    <2>1. scans' = [scans EXCEPT ![n].ents = StepTops(fr.ents), ![n].called = TRUE]
      BY <1>2, <1>3 DEF RangeRow
    <2> QED BY <1>1, <1>3, <1>5, <2>1
  <1>7. LET new2 == [scans EXCEPT ![n] = new] IN
        /\ new2 \in Seq(Frames) /\ Len(new2) = Len(scans) /\ new2[n] = new
        /\ \A i \in 1 .. Len(scans) : i # n => new2[i] = scans[i]
    BY <1>1, ExceptSeq
  <1>8. out' = TopRow(fr.ents) /\ Heads(fr.ents) # {}
    BY <1>2, <1>3 DEF RangeRow
  <1> QED BY <1>2, <1>3, <1>4, <1>5, <1>6, <1>7, <1>8

LEMMA ScanEnded ==
    ASSUME TypeOK, RangeEnd
    PROVE  /\ scans' \in Seq(Frames) /\ Len(scans) = Len(scans') + 1
           /\ \A s \in 1 .. Len(scans') : scans'[s] = scans[s]
           /\ busy' = scans[Len(scans)].was /\ busy' \in BOOLEAN
  <1>1. scans \in Seq(Frames) /\ InScan
    BY DEF TypeOK, RangeEnd
  <1>2. PICK n \in Nat : Len(scans) = n + 1
    BY <1>1, Innermost
  <1>3. scans' = SubSeq(scans, 1, n)
    BY <1>2 DEF RangeEnd
  <1>4. SubSeq(scans, 1, n) \in Seq(Frames) /\ Len(SubSeq(scans, 1, n)) = n
        /\ \A i \in 1 .. n : SubSeq(scans, 1, n)[i] = scans[i]
    BY <1>1, <1>2
  <1>5. busy' = scans[Len(scans)].was
    BY DEF RangeEnd, BusyWas
  <1>6. scans[Len(scans)].was \in BOOLEAN
    BY <1>1, Innermost, FrameKinds
  <1> QED BY <1>2, <1>3, <1>4, <1>5, <1>6

Typed == TypeOK /\ Counted

LEMMA TypedInit == Init => Typed
  <1> SUFFICES ASSUME Init PROVE Typed
    OBVIOUS
  <1>1. Viewed = {}
    BY DEF Init, Viewed
  <1>2. Counted
    BY <1>1, FS_EmptySet DEF Init, Counted
  <1>3. NoRows \in Rows /\ NoCur \in Cursors
    BY EmptySeq, PupAssumption DEF NoRows, Rows, NoCur, Cursors
  <1>4. TypeOK
    <2>1. live \in BOOLEAN /\ rw \in BOOLEAN /\ busy \in BOOLEAN /\ dirty \in BOOLEAN
      BY Zenon DEF Init
    <2>2. epoch \in 0 .. MaxEpoch /\ nview \in 0 .. Cap /\ made \in 0 .. MaxMaps /\ gen \in Nat
      BY PupAssumption DEF Init
    <2>3. view \in [1 .. Cap -> 0 .. MaxMaps]
      BY PupAssumption DEF Init
    <2>4. rows \in [1 .. MaxMaps -> Rows] /\ past \in Rows /\ data \in Rows
      BY <1>3 DEF Init
    <2>5. runs \in Seq(1 .. MaxMaps) /\ scans \in Seq(Frames)
      BY EmptySeq DEF Init
    <2>6. wrote \in [Keys -> SUBSET Vals] /\ lent \subseteq 1 .. MaxMaps /\ cur \in Cursors
      BY <1>3 DEF Init
    <2> QED BY <2>1, <2>2, <2>3, <2>4, <2>5, <2>6 DEF TypeOK
  <1> QED BY <1>2, <1>4 DEF Typed

LEMMA PutTyped ==
    ASSUME TypeOK, NEW k \in Keys, NEW v \in Vals, Put(k, v)
    PROVE  TypeOK' /\ Counted'
  <1> DEFINE more == [data EXCEPT ![k] = v]
  <1>1. past \in Rows /\ more \in Rows /\ NoRows \in Rows /\ gen \in Nat
    BY DEF TypeOK, Rows, NoRows
  <1>2. StoreOK'
    <2>1. CASE /\ data' = more
               /\ dirty' = (dirty \/ \E j \in Present(data) : k <= j)
               /\ UNCHANGED <<past, runs, rows, made, gen>>
      <3>1. dirty' \in BOOLEAN
        BY <2>1, Zenon
      <3>2. past' = past /\ runs' = runs /\ rows' = rows /\ made' = made /\ gen' = gen
        BY <2>1, Zenon
      <3>3. data' = more
        BY <2>1, Zenon
      <3> HIDE DEF more
      <3> QED BY <1>1, <3>1, <3>2, <3>3, StoreTyped DEF StoreOK
    <2>2. CASE /\ past' = NewestOf(<<past, more>>)
               /\ data' = NoRows /\ dirty' = FALSE /\ gen' = gen + 1
               /\ UNCHANGED <<runs, rows, made>>
      <3>1. <<past, more>> \in Seq(Rows)
        BY <1>1
      <3>2. NewestOf(<<past, more>>) \in Rows
        BY <3>1, NewestTyped
      <3>3. dirty' \in BOOLEAN
        BY <2>2, Zenon
      <3>4. gen' \in Nat
        BY <1>1, <2>2
      <3> HIDE DEF more
      <3> QED BY <1>1, <2>2, <3>2, <3>3, <3>4, StoreTyped DEF StoreOK
    <2>3. ASSUME NEW j \in 1 .. Len(runs) + 1, Sealed(<<past, more>>, j)
          PROVE  StoreOK'
      BY <1>1, <2>3, SealedTyped
    <2> QED BY <2>1, <2>2, <2>3 DEF Put
  <1>3. Moved /\ UNCHANGED <<slot, cur, scans>>
    BY DEF Put
  <1>4. wrote' \in [Keys -> SUBSET Vals]
    BY DEF TypeOK, Put
  <1>5. TypeOK'
    BY <1>2, <1>3, <1>4, MovedClears DEF TypeOK, StoreOK, slot
  <1> QED BY <1>3, <1>5, MovedClears, NoneCounted

LEMMA TypedNext == Typed /\ [Next]_vars => Typed'
  <1> SUFFICES ASSUME TypeOK, Counted, [Next]_vars PROVE TypeOK' /\ Counted'
    BY DEF Typed
  <1> USE DEF slot, moves, store, memory
  <1>1. ASSUME NEW k \in Keys, NEW v \in Vals, Put(k, v)
        PROVE  TypeOK' /\ Counted'
    BY <1>1, PutTyped
  <1>2. CASE Commit
    <2>1. StoreOK'
      <3>1. CASE UNCHANGED <<runs, rows, made, past, data, memory>>
        <4>1. /\ runs' = runs /\ rows' = rows /\ made' = made /\ past' = past
              /\ data' = data /\ dirty' = dirty /\ gen' = gen
          BY <3>1, Zenon
        <4> QED BY <4>1, StoreTyped, Zenon DEF StoreOK
      <3>2. ASSUME NEW j \in 1 .. Len(runs) + 1, Sealed(<<past, data>>, j)
            PROVE  StoreOK'
        <4>1. past \in Rows /\ data \in Rows
          BY DEF TypeOK
        <4> QED BY <3>2, <4>1, SealedTyped
      <3> QED BY <1>2, <3>1, <3>2 DEF Commit
    <2>2. Moved /\ UNCHANGED <<slot, cur, scans, wrote>>
      BY <1>2 DEF Commit
    <2>3. TypeOK'
      BY <2>1, <2>2, MovedClears DEF TypeOK, StoreOK
    <2> QED BY <2>2, <2>3, MovedClears, NoneCounted
  <1>3. CASE WriteFails
    <2>1. Moved /\ UNCHANGED <<slot, store, memory, cur, scans>>
      BY <1>3 DEF WriteFails
    <2>2. TypeOK'
      BY <2>1, MovedClears DEF TypeOK
    <2> QED BY <2>1, <2>2, MovedClears, NoneCounted
  <1>4. CASE Drop
    <2>1. Moved /\ cur' = Spent(cur)
          /\ UNCHANGED <<slot, rows, made, past, data, memory, scans, wrote>>
      BY <1>4 DEF Drop
    <2>2. runs' \in Seq(1 .. MaxMaps)
      <3>1. runs \in Seq(1 .. MaxMaps) /\ Len(runs) \in Nat
        BY DEF TypeOK
      <3>2. ASSUME NEW i \in 1 .. Len(runs)
            PROVE  SubSeq(runs, 1, i - 1) \o SubSeq(runs, i + 1, Len(runs)) \in Seq(1 .. MaxMaps)
        BY <3>1, <3>2, Without
      <3> QED BY <1>4, <3>1, <3>2, EmptySeq DEF Drop
    <2>3. cur' \in Cursors
      BY <2>1, CursorTyped DEF TypeOK
    <2>4. TypeOK'
      BY <2>1, <2>2, <2>3, MovedClears DEF TypeOK
    <2> QED BY <2>1, <2>4, MovedClears, NoneCounted
  <1>5. CASE Refused
    BY <1>5 DEF Refused, TypeOK, Counted, Viewed
  <1>6. CASE Close
    <2>1. Moved /\ cur' = Spent(cur) /\ live' = FALSE
          /\ UNCHANGED <<rw, busy, store, memory, scans>>
      BY <1>6 DEF Close
    <2>2. cur' \in Cursors
      BY <2>1, CursorTyped DEF TypeOK
    <2>3. TypeOK'
      BY <2>1, <2>2, MovedClears DEF TypeOK
    <2> QED BY <2>1, <2>3, MovedClears, NoneCounted
  <1>7. CASE Open
    <2>1. /\ Moved /\ cur' = Spent(cur) /\ live' = TRUE /\ busy' = FALSE /\ rw' \in BOOLEAN
          /\ runs' = [i \in 1 .. Len(runs) |-> made + i] /\ made + Len(runs) <= MaxMaps
          /\ made' = made + Len(runs) /\ gen' = gen + 1 /\ UNCHANGED <<scans, wrote>>
      BY <1>7 DEF Open
    <2>2. /\ runs \in Seq(1 .. MaxMaps) /\ Len(runs) \in Nat /\ made \in 0 .. MaxMaps
          /\ MaxMaps \in Nat /\ gen \in Nat /\ rows \in [1 .. MaxMaps -> Rows]
      BY PupAssumption DEF TypeOK
    <2>3. runs' \in Seq(1 .. MaxMaps)
      <3>1. \A i \in 1 .. Len(runs) : made + i \in 1 .. MaxMaps
        BY <2>1, <2>2
      <3> QED BY <2>1, <2>2, <3>1
    <2>4. made' \in 0 .. MaxMaps /\ gen' \in Nat
      BY <2>1, <2>2
    <2>5. rows' \in [1 .. MaxMaps -> Rows]
      <3>1. \A m \in 1 .. MaxMaps :
               m > made /\ m <= made + Len(runs) => rows[runs[m - made]] \in Rows
        <4>1. \A m \in 1 .. MaxMaps :
                 m > made /\ m <= made + Len(runs) => m - made \in 1 .. Len(runs)
          BY <2>2
        <4> QED BY <2>2, <4>1, ElementOfSeq
      <3>2. rows' = [m \in 1 .. MaxMaps |->
                       IF m > made /\ m <= made + Len(runs) THEN rows[runs[m - made]]
                       ELSE rows[m]]
        BY <1>7 DEF Open
      <3> QED BY <2>2, <3>1, <3>2
    <2>6. past' \in Rows /\ data' \in Rows /\ dirty' \in BOOLEAN
      BY <1>7 DEF Open, TypeOK, NoRows, Rows
    <2>7. cur' \in Cursors
      BY <2>1, CursorTyped DEF TypeOK
    <2>8. TypeOK'
      BY <2>1, <2>3, <2>4, <2>5, <2>6, <2>7, MovedClears DEF TypeOK
    <2> QED BY <2>1, <2>8, MovedClears, NoneCounted
  <1>8. ASSUME NEW k \in Keys, Get(k)
        PROVE  TypeOK' /\ Counted'
    <2>1. SortMem /\ UNCHANGED <<slot, moves, store, cur, scans>>
      BY <1>8 DEF Get
    <2> QED BY <2>1, SortTyped DEF TypeOK, Counted, Viewed
  <1>9. ASSUME NEW k \in Keys, Seek(k)
        PROVE  TypeOK' /\ Counted'
    <2>1. SortMem /\ UNCHANGED <<slot, moves, store, scans>>
      BY <1>9 DEF Seek
    <2> DEFINE c == [cur EXCEPT !.on = TRUE, !.key = k, !.pulled = FALSE]
    <2>2. gen' \in Nat /\ cur \in Cursors /\ k \in Nat
      BY <2>1, SortTyped, PupAssumption DEF TypeOK
    <2>3. c \in Cursors
      BY <2>2, CursorTyped
    <2>4. cur' = Spent(c) \/ cur' = CutCursor(c)
      BY <1>9 DEF Seek
    <2> HIDE DEF c
    <2>5. cur' \in Cursors
      BY <2>2, <2>3, <2>4, CursorTyped, CutCursorTyped
    <2> QED BY <2>1, <2>5, SortTyped DEF TypeOK, Counted, Viewed
  <1>10. ASSUME NEW lo \in Keys, NEW hi, RangeStart(lo, hi)
         PROVE  TypeOK' /\ Counted'
    <2>1. SortMem /\ UNCHANGED <<live, rw, moves, store, cur>>
      BY <1>10 DEF RangeStart
    <2>2. gen' \in Nat /\ scans \in Seq(Frames)
      BY <2>1, SortTyped DEF TypeOK
    <2>3. busy' \in BOOLEAN /\ scans' \in Seq(Frames)
      <3>1. CASE UNCHANGED <<busy, scans>>
        BY <3>1 DEF TypeOK
      <3>2. CASE ~ TooMany
        <4> DEFINE within == {k \in Keys : lo <= k /\ k < hi}
        <4>1. Cut(Sources, within) \in Seq(Entries)
          BY <2>2, SourcesTyped, CutKeeps
        <4>2. /\ scans' = Append(scans, [ents |-> Cut(Sources, within), was |-> busy,
                                         called |-> FALSE])
              /\ busy' = TRUE
          BY <1>10, <3>2 DEF RangeStart
        <4> HIDE DEF within
        <4>3. busy \in BOOLEAN
          BY DEF TypeOK
        <4>4. [ents |-> Cut(Sources, within), was |-> busy, called |-> FALSE] \in Frames
          BY <4>1, <4>3, FrameKinds
        <4> QED BY <2>2, <4>2, <4>4, AppendProperties
      <3> QED BY <1>10, <3>1, <3>2 DEF RangeStart
    <2> QED BY <2>1, <2>3, SortTyped DEF TypeOK, Counted, Viewed
  <1>11. CASE RangeRow
    <2>1. scans' \in Seq(Frames)
      BY <1>11, RowTaken
    <2> QED BY <1>11, <2>1 DEF RangeRow, TypeOK, Counted, Viewed
  <1>12. CASE RangeEnd
    <2>1. scans' \in Seq(Frames) /\ busy' \in BOOLEAN
      BY <1>12, ScanEnded
    <2> QED BY <1>12, <2>1 DEF RangeEnd, TypeOK, Counted, Viewed
  <1>13. CASE Pull
    <2>1. UNCHANGED <<slot, moves, store, scans>> /\ cur \in Cursors
      BY <1>13 DEF Pull, TypeOK
    <2>2. cur' \in Cursors /\ gen' \in Nat /\ dirty' \in BOOLEAN
      <3>1. CASE UNCHANGED <<memory, cur>>
        BY <3>1 DEF TypeOK
      <3>2. CASE PullFrom(cur) /\ UNCHANGED memory
        BY <2>1, <3>2, PullTyped DEF TypeOK
      <3>3. CASE SortMem /\ (cur' = Spent(cur) \/ PullFrom(CutCursor(cur)))
        <4>1. gen' \in Nat /\ dirty' \in BOOLEAN
          BY <3>3, SortTyped
        <4>2. CutCursor(cur) \in Cursors
          BY <2>1, <4>1, CutCursorTyped
        <4> QED BY <2>1, <3>3, <4>1, <4>2, CursorTyped, PullTyped
      <3> QED BY <1>13, <3>1, <3>2, <3>3 DEF Pull
    <2> QED BY <2>1, <2>2 DEF TypeOK, Counted, Viewed
  <1>14. ASSUME NEW i \in 1 .. Cap, Run(i)
         PROVE  TypeOK' /\ Counted'
    <2>1. Counted' /\ nview' \in 0 .. Cap /\ view' \in [1 .. Cap -> 0 .. MaxMaps]
      BY <1>14, RunCounts
    <2>2. lent' \subseteq 1 .. MaxMaps
      <3>1. lent' = lent \cup {runs[i]} /\ i \in 1 .. Len(runs) /\ runs \in Seq(1 .. MaxMaps)
        BY <1>14 DEF Run, TypeOK
      <3> QED BY <3>1, ElementOfSeq DEF TypeOK
    <2> QED BY <1>14, <2>1, <2>2 DEF Run, TypeOK
  <1>15. ASSUME NEW m \in 1 .. MaxMaps, Detach(m)
         PROVE  TypeOK' /\ Counted'
    BY <1>15 DEF Detach, TypeOK, Counted, Viewed
  <1>16. CASE UNCHANGED vars
    BY <1>16 DEF vars, TypeOK, Counted, Viewed
  <1> QED BY <1>1, <1>2, <1>3, <1>4, <1>5, <1>6, <1>7, <1>8, <1>9, <1>10, <1>11,
             <1>12, <1>13, <1>14, <1>15, <1>16 DEF Next

(* Every reachable state of the handle is well-typed, and the count of its  *)
(* views, by which JABCPupMoved looks for any, is right.                    *)
THEOREM TypeCorrect == Spec => []Typed
  BY TypedInit, TypedNext, PTL DEF Spec

-----------------------------------------------------------------------------
(* Pointers, views and scans.  A running scan holds busy, which keeps the   *)
(* memtable sorted and every write out; a cursor of the current epoch was   *)
(* cut after the last write; a view is of the run at its index.             *)

Safe(e, M, g) == IF e.map = 0 THEN e.gen = g ELSE e.map \in M
AllSafe(ents, M, g) == \A i \in 1 .. Len(ents) : Safe(ents[i], M, g)

Held ==
    /\ busy => InScan
    /\ InScan => busy
    /\ \A s \in 1 .. Len(scans) : scans[s].was <=> s > 1
    /\ busy => live /\ ~ dirty

Current ==
    /\ cur.epoch <= epoch
    /\ cur.on /\ cur.epoch = epoch => live /\ ~ dirty

Lending ==
    /\ \A i \in 1 .. Cap : view[i] # 0 =>
          live /\ i \in 1 .. Len(runs) /\ view[i] = runs[i]
    /\ \A m \in lent : \E i \in 1 .. Cap : view[i] = m
    /\ nview = 0 => \A i \in 1 .. Cap : view[i] = 0

ScansSafe == \A s \in 1 .. Len(scans) : AllSafe(scans[s].ents, Mapped, gen)
CursorSafe == cur.on /\ cur.epoch = epoch => AllSafe(cur.ents, Mapped, gen)

Inv == Typed /\ Held /\ Current /\ Lending /\ ScansSafe /\ CursorSafe

Write ==
    \/ \E k \in Keys, v \in Vals : Put(k, v)
    \/ Commit \/ WriteFails \/ Drop \/ Close \/ Open

Read ==
    \/ Refused
    \/ \E k \in Keys : Get(k) \/ Seek(k)
    \/ \E lo, k \in Keys : RangeStart(lo, k + 1)
    \/ RangeRow \/ RangeEnd \/ Pull
    \/ \E i \in 1 .. Cap : Run(i)
    \/ \E m \in 1 .. MaxMaps : Detach(m)
    \/ UNCHANGED vars

LEMMA StepKinds == [Next]_vars => Write \/ Read
  BY DEF Next, Write, Read

LEMMA WriteEffect ==
    ASSUME TypeOK, Write
    PROVE  /\ Moved /\ scans' = scans
           /\ busy => ~ live
           /\ busy' => busy
           /\ cur' = cur \/ cur' = Spent(cur)
  <1> DEFINE Shuts == /\ Moved /\ scans' = scans
                      /\ busy => ~ live
                      /\ busy' => busy
                      /\ cur' = cur \/ cur' = Spent(cur)
  <1>1. ASSUME NEW k \in Keys, NEW v \in Vals
        PROVE  Put(k, v) => Shuts
    BY DEF Put, MayWrite, slot
  <1>2. Commit => Shuts
    BY DEF Commit, MayWrite, slot
  <1>3. WriteFails => Shuts
    BY DEF WriteFails, MayWrite, slot
  <1>4. Drop => Shuts
    BY DEF Drop, MayWrite, slot
  <1>5. Close => Shuts
    BY DEF Close
  <1>6. Open => Shuts
    BY DEF Open
  <1> HIDE DEF Shuts
  <1>7. Shuts
    BY <1>1, <1>2, <1>3, <1>4, <1>5, <1>6, Zenon DEF Write
  <1> QED BY <1>7, Zenon DEF Shuts

LEMMA ReadEffect ==
    ASSUME TypeOK, Read
    PROVE  /\ live' = live /\ runs' = runs /\ epoch' = epoch /\ Mapped' = Mapped
           /\ dirty' => dirty
           /\ ~ dirty => gen' = gen
  <1> USE DEF slot, moves, store, memory
  <1> DEFINE Sorts == /\ dirty' => dirty
                      /\ ~ dirty => gen' = gen
  <1>1. SortMem => Sorts
    BY SortTyped
  <1>2. dirty' = dirty /\ gen' = gen => Sorts
    OBVIOUS
  <1> HIDE DEF Sorts
  <1>3. Refused => UNCHANGED <<live, runs, epoch>> /\ Sorts
    BY <1>2, Zenon DEF Refused
  <1>4. ASSUME NEW k \in Keys
        PROVE  Get(k) \/ Seek(k) => UNCHANGED <<live, runs, epoch>> /\ Sorts
    BY <1>1, Zenon DEF Get, Seek
  <1>5. ASSUME NEW lo, NEW hi
        PROVE  RangeStart(lo, hi) => UNCHANGED <<live, runs, epoch>> /\ Sorts
    BY <1>1, Zenon DEF RangeStart
  <1>6. RangeRow \/ RangeEnd => UNCHANGED <<live, runs, epoch>> /\ Sorts
    BY <1>2, Zenon DEF RangeRow, RangeEnd
  <1>7. Pull => UNCHANGED <<live, runs, epoch>> /\ Sorts
    BY <1>1, <1>2, Zenon DEF Pull
  <1>8. ASSUME NEW i
        PROVE  Run(i) \/ Detach(i) => UNCHANGED <<live, runs, epoch>> /\ Sorts
    BY <1>2, Zenon DEF Run, Detach
  <1>9. UNCHANGED vars => UNCHANGED <<live, runs, epoch>> /\ Sorts
    BY <1>2, Zenon DEF vars
  <1>10. UNCHANGED <<live, runs, epoch>> /\ Sorts
    BY <1>3, <1>4, <1>5, <1>6, <1>7, <1>8, <1>9, Zenon DEF Read
  <1>11. Mapped' = Mapped
    BY <1>10, Zenon DEF Mapped
  <1> QED BY <1>10, <1>11, Zenon DEF Sorts

LEMMA CutSafe ==
    ASSUME NEW ents \in Seq(Entries), NEW K, NEW M, NEW g, AllSafe(ents, M, g)
    PROVE  AllSafe(Cut(ents, K), M, g)
  BY CutKeeps DEF AllSafe, Safe

(* Entries taken from the live sources point at what is mapped.             *)
LEMMA SourcesSafe ==
    ASSUME TypeOK, SortMem, live, NEW K
    PROVE  /\ Cut(Sources, K) \in Seq(Entries)
           /\ AllSafe(Cut(Sources, K), Mapped, gen')
  <1>1. gen' \in Nat
    BY SortTyped
  <1>2. Sources \in Seq(Entries)
        /\ \A i \in 1 .. Len(Sources) :
              /\ Sources[i].gen = gen'
              /\ Sources[i].map = 0 \/ \E j \in 1 .. Len(runs) : Sources[i].map = runs[j]
    BY <1>1, SourcesTyped
  <1>3. AllSafe(Sources, Mapped, gen')
    BY <1>2 DEF AllSafe, Safe, Mapped
  <1> QED BY <1>2, <1>3, CutSafe, CutKeeps

-----------------------------------------------------------------------------
(* One lemma per conjunct.                                                  *)

LEMMA InvInit == Init => Inv
  <1> SUFFICES ASSUME Init PROVE Inv
    OBVIOUS
  <1>1. scans = <<>> /\ Len(scans) = 0 /\ ~ busy /\ ~ InScan
    BY EmptySeq DEF Init, InScan
  <1>2. Held
    BY <1>1 DEF Held
  <1>3. ScansSafe
    BY <1>1 DEF ScansSafe
  <1>4. ~ cur.on /\ cur.epoch = 0 /\ epoch = 0
    BY DEF Init, NoCur
  <1>5. Current /\ CursorSafe
    BY <1>4 DEF Current, CursorSafe
  <1>6. Lending
    BY DEF Init, Lending
  <1> QED BY <1>2, <1>3, <1>5, <1>6, TypedInit DEF Inv

LEMMA AfterWrite ==
    ASSUME Inv, Write
    PROVE  Held' /\ Current' /\ Lending' /\ ScansSafe' /\ CursorSafe'
  <1>1. TypeOK /\ Moved /\ scans' = scans /\ (busy => ~ live) /\ (busy' => busy)
        /\ (cur' = cur \/ cur' = Spent(cur))
    BY WriteEffect DEF Inv, Typed
  <1>2. ~ busy /\ ~ InScan /\ ~ busy'
    BY <1>1, Zenon DEF Inv, Held
  <1>3. scans' = <<>> /\ Len(scans') = 0
    BY <1>1, <1>2, EmptySeq DEF InScan
  <1>4. Held' /\ ScansSafe'
    BY <1>2, <1>3 DEF Held, InScan, ScansSafe
  <1>5. /\ epoch' = epoch + 1 /\ epoch \in Nat /\ cur.epoch \in Nat /\ cur.epoch <= epoch
        /\ cur \in Cursors
    BY <1>1, MovedClears DEF Inv, TypeOK, Current, Cursors
  <1>6. cur'.epoch = cur.epoch
    BY <1>1, <1>5 DEF Spent, Cursors
  <1>7. Current' /\ CursorSafe'
    BY <1>5, <1>6 DEF Current, CursorSafe
  <1>8. lent' = {}
    <2>1. \A m \in lent : m # 0 /\ \E i \in 1 .. Cap : view[i] = m
      BY <1>1 DEF Inv, Lending, TypeOK
    <2>2. CASE nview = 0
      <3>1. lent = {}
        BY <2>1, <2>2 DEF Inv, Lending
      <3> QED BY <1>1, <2>2, <3>1 DEF Moved
    <2>3. CASE nview # 0
      BY <1>1, <2>1, <2>3 DEF Moved
    <2> QED BY <2>2, <2>3
  <1>9. Lending'
    BY <1>1, <1>8, MovedClears DEF Lending
  <1> QED BY <1>4, <1>7, <1>9

(* Only range adds a scan and only its end takes one off.                   *)
LEMMA ReadScans ==
    ASSUME TypeOK, Read
    PROVE  \/ scans' = scans /\ (busy' <=> busy)
           \/ RangeRow /\ (busy' <=> busy)
           \/ RangeEnd
           \/ \E lo, k \in Keys : RangeStart(lo, k + 1) /\ ~ TooMany
  <1> DEFINE Same == scans' = scans /\ (busy' <=> busy)
  <1> USE DEF slot
  <1>1. Refused => Same
    BY DEF Refused
  <1>2. ASSUME NEW k \in Keys
        PROVE  Get(k) \/ Seek(k) => Same
    BY DEF Get, Seek
  <1>3. ASSUME NEW lo, NEW hi
        PROVE  RangeStart(lo, hi) /\ TooMany => Same
    BY DEF RangeStart
  <1>4. Pull => Same
    BY DEF Pull
  <1>5. ASSUME NEW i
        PROVE  Run(i) \/ Detach(i) => Same
    BY DEF Run, Detach
  <1>6. UNCHANGED vars => Same
    BY DEF vars
  <1>7. RangeRow => (busy' <=> busy)
    BY DEF RangeRow
  <1> HIDE DEF Same
  <1>8. \/ Same
        \/ RangeRow /\ (busy' <=> busy)
        \/ RangeEnd
        \/ \E lo, k \in Keys : RangeStart(lo, k + 1) /\ ~ TooMany
    BY <1>1, <1>2, <1>3, <1>4, <1>5, <1>6, <1>7, Zenon DEF Read
  <1> QED BY <1>8, Zenon DEF Same

LEMMA ScanStarted ==
    ASSUME TypeOK, NEW lo, NEW hi, RangeStart(lo, hi), ~ TooMany
    PROVE  /\ JSRuns /\ busy' /\ SortMem
           /\ scans' \in Seq(Frames) /\ Len(scans') = Len(scans) + 1
           /\ \A s \in 1 .. Len(scans) : scans'[s] = scans[s]
           /\ scans'[Len(scans) + 1].ents =
                 Cut(Sources, {k \in Keys : lo <= k /\ k < hi})
           /\ scans'[Len(scans) + 1].was = busy
  <1> DEFINE cut == Cut(Sources, {k \in Keys : lo <= k /\ k < hi})
  <1>1. SortMem /\ JSRuns /\ live
    BY DEF RangeStart, JSRuns
  <1>2. cut \in Seq(Entries)
    BY <1>1, SourcesSafe
  <1>3. busy' /\ scans' = Append(scans, [ents |-> cut, was |-> busy, called |-> FALSE])
    BY DEF RangeStart
  <1> HIDE DEF cut
  <1>4. busy \in BOOLEAN /\ scans \in Seq(Frames)
    BY DEF TypeOK
  <1>5. PICK fr \in Frames : /\ fr = [ents |-> cut, was |-> busy, called |-> FALSE]
                             /\ fr.ents = cut /\ fr.was = busy
    BY <1>2, <1>4, FrameKinds
  <1>6. scans' = Append(scans, fr)
    BY <1>3, <1>5
  <1>7. /\ Append(scans, fr) \in Seq(Frames) /\ Len(Append(scans, fr)) = Len(scans) + 1
        /\ \A i \in 1 .. Len(scans) : Append(scans, fr)[i] = scans[i]
        /\ Append(scans, fr)[Len(scans) + 1] = fr
    BY <1>4, AppendProperties
  <1> QED BY <1>1, <1>3, <1>5, <1>6, <1>7 DEF cut

LEMMA HeldAfterRead ==
    ASSUME Inv, Read
    PROVE  Held'
  <1>1. TypeOK /\ scans \in Seq(Frames) /\ Len(scans) \in Nat
    BY DEF Inv, Typed, TypeOK
  <1>2. live' = live /\ (dirty' => dirty)
    BY <1>1, ReadEffect
  <1>3. InScan <=> Len(scans) # 0
    BY <1>1, EmptySeq DEF InScan
  <1>4. CASE scans' = scans /\ (busy' <=> busy)
    BY <1>2, <1>4, Zenon DEF Inv, Held, InScan
  <1>5. CASE RangeRow /\ (busy' <=> busy)
    <2>1. PICK n \in 1 .. Len(scans) :
              /\ scans' \in Seq(Frames) /\ Len(scans') = Len(scans)
              /\ scans'[n].was = scans[n].was
              /\ \A s \in 1 .. Len(scans) : s # n => scans'[s] = scans[s]
      BY <1>1, <1>5, RowTaken
    <2>2. InScan' <=> Len(scans') # 0
      BY <2>1, EmptySeq DEF InScan
    <2>3. InScan' <=> InScan
      BY <1>3, <2>1, <2>2
    <2>4. \A s \in 1 .. Len(scans') : scans'[s].was = scans[s].was
      BY <2>1
    <2>5. \A s \in 1 .. Len(scans') : scans'[s].was <=> s > 1
      BY <2>1, <2>4 DEF Inv, Held
    <2> QED BY <1>2, <1>5, <2>3, <2>5 DEF Inv, Held
  <1>6. CASE RangeEnd
    <2>1. /\ scans' \in Seq(Frames) /\ Len(scans) = Len(scans') + 1
          /\ \A s \in 1 .. Len(scans') : scans'[s] = scans[s]
          /\ busy' = scans[Len(scans)].was
      BY <1>1, <1>6, ScanEnded
    <2>2. InScan' <=> Len(scans') # 0
      BY <2>1, EmptySeq DEF InScan
    <2>3. Len(scans') \in Nat
      BY <2>1
    <2>4. PICK n \in Nat : n = Len(scans') /\ Len(scans) = n + 1
      BY <2>1, <2>3
    <2>5. scans[n + 1].was <=> n + 1 > 1
      BY <2>4 DEF Inv, Held
    <2>6. n + 1 > 1 <=> n # 0
      OBVIOUS
    <2>7. busy' <=> InScan'
      BY <2>1, <2>2, <2>4, <2>5, <2>6
    <2>8. \A s \in 1 .. n : scans'[s].was <=> s > 1
      <3>1. \A s \in 1 .. n : s \in 1 .. n + 1
        OBVIOUS
      <3> QED BY <2>1, <2>4, <3>1 DEF Inv, Held
    <2>9. busy
      BY <1>6 DEF RangeEnd, Inv, Held
    <2>10. live' /\ ~ dirty'
      BY <1>2, <2>9, Zenon DEF Inv, Held
    <2> QED BY <2>4, <2>7, <2>8, <2>10, Zenon DEF Held
  <1>7. ASSUME NEW lo, NEW hi, RangeStart(lo, hi), ~ TooMany
        PROVE  Held'
    <2>1. /\ JSRuns /\ busy' /\ SortMem
          /\ scans' \in Seq(Frames) /\ Len(scans') = Len(scans) + 1
          /\ \A s \in 1 .. Len(scans) : scans'[s] = scans[s]
          /\ scans'[Len(scans) + 1].was = busy
      BY <1>1, <1>7, ScanStarted
    <2>2. Len(scans') # 0
      BY <1>1, <2>1
    <2>3. InScan'
      BY <2>1, <2>2, EmptySeq DEF InScan
    <2>4. live' /\ ~ dirty'
      BY <1>1, <1>2, <2>1, SortTyped DEF JSRuns
    <2>5. \A s \in 1 .. Len(scans) + 1 : scans'[s].was <=> s > 1
      <3> TAKE s \in 1 .. Len(scans) + 1
      <3>1. CASE s \in 1 .. Len(scans)
        BY <2>1, <3>1 DEF Inv, Held
      <3>2. CASE s = Len(scans) + 1
        <4>1. s > 1 <=> Len(scans) # 0
          BY <1>1, <3>2
        <4>2. scans'[s].was = busy
          BY <2>1, <3>2
        <4>3. busy <=> InScan
          BY DEF Inv, Held
        <4> QED BY <1>3, <4>1, <4>2, <4>3
      <3>3. s \in 1 .. Len(scans) \/ s = Len(scans) + 1
        BY <1>1
      <3> QED BY <3>1, <3>2, <3>3
    <2> QED BY <2>1, <2>3, <2>4, <2>5 DEF Held
  <1> QED BY <1>1, <1>4, <1>5, <1>6, <1>7, ReadScans

LEMMA ScansSafeAfterRead ==
    ASSUME Inv, Read
    PROVE  ScansSafe'
  <1>1. TypeOK /\ scans \in Seq(Frames) /\ Len(scans) \in Nat
    BY DEF Inv, Typed, TypeOK
  <1>2. Mapped' = Mapped /\ live' = live
    BY <1>1, ReadEffect
  <1>3. InScan => gen' = gen
    BY <1>1, ReadEffect, Zenon DEF Inv, Held
  <1>4. Len(scans) # 0 => gen' = gen
    BY <1>1, <1>3, EmptySeq DEF InScan
  <1>5. \A s \in 1 .. Len(scans) : AllSafe(scans[s].ents, Mapped', gen')
    <2> TAKE s \in 1 .. Len(scans)
    <2>1. gen' = gen
      BY <1>1, <1>4
    <2> QED BY <1>2, <2>1 DEF Inv, ScansSafe
  <1>6. CASE scans' = scans
    BY <1>5, <1>6 DEF ScansSafe
  <1>7. CASE RangeRow
    <2>1. PICK n \in 1 .. Len(scans) :
              /\ scans[n].ents \in Seq(Entries) /\ Len(scans') = Len(scans)
              /\ scans'[n].ents = StepTops(scans[n].ents)
              /\ \A s \in 1 .. Len(scans) : s # n => scans'[s] = scans[s]
      BY <1>1, <1>7, RowTaken
    <2>2. AllSafe(scans'[n].ents, Mapped', gen')
      BY <1>5, <2>1, CutSafe DEF StepTops
    <2> QED BY <1>5, <2>1, <2>2 DEF ScansSafe
  <1>8. CASE RangeEnd
    <2>1. /\ Len(scans) = Len(scans') + 1 /\ scans' \in Seq(Frames)
          /\ \A s \in 1 .. Len(scans') : scans'[s] = scans[s]
      BY <1>1, <1>8, ScanEnded
    <2>2. PICK n \in Nat : n = Len(scans') /\ Len(scans) = n + 1
      BY <2>1
    <2>3. \A s \in 1 .. n : s \in 1 .. n + 1
      OBVIOUS
    <2> QED BY <1>5, <2>1, <2>2, <2>3 DEF ScansSafe
  <1>9. ASSUME NEW lo, NEW hi, RangeStart(lo, hi), ~ TooMany
        PROVE  ScansSafe'
    <2>1. /\ JSRuns /\ SortMem /\ Len(scans') = Len(scans) + 1
          /\ \A s \in 1 .. Len(scans) : scans'[s] = scans[s]
          /\ scans'[Len(scans) + 1].ents =
                Cut(Sources, {k \in Keys : lo <= k /\ k < hi})
      BY <1>1, <1>9, ScanStarted
    <2>2. AllSafe(scans'[Len(scans) + 1].ents, Mapped', gen')
      BY <1>1, <1>2, <2>1, SourcesSafe DEF JSRuns
    <2>3. \A s \in 1 .. Len(scans) + 1 : s \in 1 .. Len(scans) \/ s = Len(scans) + 1
      BY <1>1
    <2> QED BY <1>5, <2>1, <2>2, <2>3 DEF ScansSafe
  <1> QED BY <1>1, <1>6, <1>7, <1>8, <1>9, ReadScans

(* A cursor a read leaves armed is the one there was, stepped or not, or    *)
(* was cut by this very read.                                               *)
LEMMA CursorAfterRead ==
    ASSUME Inv, Read
    PROVE  Current' /\ CursorSafe'
  <1>1. TypeOK /\ cur \in Cursors /\ epoch \in Nat /\ cur.ents \in Seq(Entries)
    BY DEF Inv, Typed, TypeOK, Cursors
  <1>2. Mapped' = Mapped /\ live' = live /\ epoch' = epoch /\ (dirty' => dirty)
        /\ (~ dirty => gen' = gen)
    BY <1>1, ReadEffect
  <1> DEFINE Good(c) == /\ c \in Cursors /\ c.epoch <= epoch
                        /\ c.on /\ c.epoch = epoch =>
                              live' /\ ~ dirty' /\ AllSafe(c.ents, Mapped', gen')
  <1>3. Good(cur)
    <2>1. cur.epoch <= epoch
      BY DEF Inv, Current
    <2>2. cur.on /\ cur.epoch = epoch => live' /\ ~ dirty' /\ gen' = gen
      BY <1>2, Zenon DEF Inv, Current
    <2>3. cur.on /\ cur.epoch = epoch => AllSafe(cur.ents, Mapped', gen')
      BY <1>2, <2>2 DEF Inv, CursorSafe
    <2> QED BY <1>1, <2>1, <2>2, <2>3
  <1>4. ASSUME NEW c \in Cursors, c.epoch <= epoch
        PROVE  Good(Spent(c))
    BY <1>4, CursorTyped, <1>1 DEF Spent, Cursors
  <1>5. ASSUME NEW c, Good(c), PullFrom(c)
        PROVE  Good(cur')
    <2>1. CASE Heads(c.ents) = {}
      BY <1>4, <1>5, <2>1 DEF PullFrom
    <2>2. CASE Heads(c.ents) # {}
      <3> DEFINE step == StepTops(c.ents)
      <3>1. c.ents \in Seq(Entries) /\ c \in Cursors
        BY <1>5 DEF Cursors
      <3>2. step \in Seq(Entries)
            /\ (AllSafe(c.ents, Mapped', gen') => AllSafe(step, Mapped', gen'))
        BY <3>1, CutKeeps, CutSafe DEF StepTops
      <3>3. cur' \in Cursors
        BY <1>1, <1>5, PullTyped
      <3>4. cur' = [c EXCEPT !.ents = step, !.key = Top(c.ents), !.pulled = TRUE]
        BY <2>2 , <1>5 DEF PullFrom
      <3> HIDE DEF step
      <3>5. cur'.ents = step /\ cur'.epoch = c.epoch /\ cur'.on = c.on
        BY <3>1, <3>4 DEF Cursors
      <3> QED BY <1>5, <3>2, <3>3, <3>5
    <2> QED BY <2>1, <2>2
  <1>6. ASSUME NEW c \in Cursors, live, SortMem
        PROVE  Good(CutCursor(c))
    <2>1. gen' \in Nat /\ ~ dirty'
      BY <1>1, <1>6, SortTyped
    <2>2. /\ CutCursor(c) \in Cursors /\ CutCursor(c).epoch = epoch
          /\ CutCursor(c).ents = Cut(Sources, {k \in Keys : PastBound(c, k)})
      BY <1>1, <2>1, CutCursorTyped
    <2>3. AllSafe(CutCursor(c).ents, Mapped', gen')
      BY <1>1, <1>2, <1>6, <2>2, SourcesSafe
    <2> QED BY <1>1, <1>2, <1>6, <2>1, <2>2, <2>3
  <1> HIDE DEF Good
  <1>8. ASSUME UNCHANGED cur
        PROVE  Good(cur')
    BY <1>3, <1>8
  <1>9. ASSUME NEW k \in Keys, Seek(k)
        PROVE  Good(cur')
    <2> DEFINE c == [cur EXCEPT !.on = TRUE, !.key = k, !.pulled = FALSE]
    <2>1. c \in Cursors
      BY <1>1, CursorTyped, PupAssumption
    <2>2. c.epoch <= epoch
      BY <1>1 DEF Cursors, Inv, Current
    <2>3. live /\ SortMem /\ (cur' = Spent(c) \/ cur' = CutCursor(c))
      BY <1>9 DEF Seek, JSRuns
    <2> HIDE DEF c
    <2> QED BY <1>4, <1>6, <2>1, <2>2, <2>3
  <1>10. ASSUME Pull
         PROVE  Good(cur')
    <2>1. cur.epoch <= epoch /\ live
      BY <1>10 DEF Inv, Current, Pull, JSRuns
    <2>2. \/ cur' = cur
          \/ PullFrom(cur)
          \/ SortMem /\ (cur' = Spent(cur) \/ PullFrom(CutCursor(cur)))
      BY <1>10 DEF Pull
    <2> QED BY <1>1, <1>3, <1>4, <1>5, <1>6, <2>1, <2>2
  <1>11. \/ UNCHANGED cur
         \/ \E k \in Keys : Seek(k)
         \/ Pull
    <2>1. Refused => UNCHANGED cur
      BY DEF Refused
    <2>2. ASSUME NEW k PROVE Get(k) \/ Run(k) \/ Detach(k) => UNCHANGED cur
      BY DEF Get, Run, Detach
    <2>3. ASSUME NEW lo, NEW hi PROVE RangeStart(lo, hi) => UNCHANGED cur
      BY DEF RangeStart
    <2>4. RangeRow \/ RangeEnd => UNCHANGED cur
      BY DEF RangeRow, RangeEnd
    <2>5. UNCHANGED vars => UNCHANGED cur
      BY DEF vars
    <2> QED BY <2>1, <2>2, <2>3, <2>4, <2>5, Zenon DEF Read
  <1>12. Good(cur')
    BY <1>3, <1>8, <1>9, <1>10, <1>11
  <1> QED BY <1>2, <1>12 DEF Good, Current, CursorSafe

LEMMA LendingAfterRead ==
    ASSUME Inv, Read
    PROVE  Lending'
  <1>1. TypeOK /\ Counted
    BY DEF Inv, Typed
  <1>2. live' = live /\ runs' = runs
    BY <1>1, ReadEffect
  <1>3. CASE UNCHANGED <<view, nview, lent>>
    BY <1>2, <1>3 DEF Inv, Lending
  <1>4. ASSUME NEW i \in 1 .. Cap, Run(i)
        PROVE  Lending'
    <2>1. nview' # 0
      BY <1>1, <1>4, RunCounts
    <2>2. /\ view' = [view EXCEPT ![i] = runs[i]] /\ lent' = lent \cup {runs[i]}
          /\ live /\ i \in 1 .. Len(runs)
      BY <1>1, <1>4 DEF Run, JSRuns, TypeOK
    <2>3. view \in [1 .. Cap -> 0 .. MaxMaps]
      BY <1>1 DEF TypeOK
    <2>4. \A j \in 1 .. Cap : view'[j] # 0 =>
              live' /\ j \in 1 .. Len(runs') /\ view'[j] = runs'[j]
      BY <1>2, <2>2, <2>3 DEF Inv, Lending
    <2>5. \A m \in lent' : \E j \in 1 .. Cap : view'[j] = m
      <3> TAKE m \in lent'
      <3>1. CASE m = runs[i]
        BY <2>2, <2>3, <3>1
      <3>2. CASE m \in lent /\ m # runs[i]
        <4>1. PICK j \in 1 .. Cap : view[j] = m
          BY <3>2 DEF Inv, Lending
        <4>2. CASE j # i
          BY <2>2, <2>3, <4>1, <4>2
        <4>3. CASE j = i
          <5>1. m # 0
            BY <1>1, <3>2 DEF TypeOK
          <5>2. view[i] = runs[i]
            BY <4>1, <4>3, <5>1 DEF Inv, Lending
          <5> QED BY <3>2, <4>1, <4>3, <5>2
        <4> QED BY <4>2, <4>3
      <3> QED BY <2>2, <3>1, <3>2
    <2> QED BY <2>1, <2>4, <2>5 DEF Lending
  <1>5. ASSUME NEW m, Detach(m)
        PROVE  Lending'
    BY <1>2, <1>5 DEF Detach, Inv, Lending
  <1>6. \/ UNCHANGED <<view, nview, lent>>
        \/ \E i \in 1 .. Cap : Run(i)
        \/ \E m \in 1 .. MaxMaps : Detach(m)
    <2> USE DEF moves
    <2>1. Refused => UNCHANGED <<view, nview, lent>>
      BY DEF Refused
    <2>2. ASSUME NEW k PROVE Get(k) \/ Seek(k) => UNCHANGED <<view, nview, lent>>
      BY DEF Get, Seek
    <2>3. ASSUME NEW lo, NEW hi PROVE RangeStart(lo, hi) => UNCHANGED <<view, nview, lent>>
      BY DEF RangeStart
    <2>4. RangeRow \/ RangeEnd \/ Pull => UNCHANGED <<view, nview, lent>>
      BY DEF RangeRow, RangeEnd, Pull
    <2>5. UNCHANGED vars => UNCHANGED <<view, nview, lent>>
      BY DEF vars
    <2> QED BY <2>1, <2>2, <2>3, <2>4, <2>5, Zenon DEF Read
  <1> QED BY <1>3, <1>4, <1>5, <1>6

LEMMA InvNext == Inv /\ [Next]_vars => Inv'
  <1> SUFFICES ASSUME Inv, [Next]_vars PROVE Inv'
    OBVIOUS
  <1>1. Typed'
    BY TypedNext DEF Inv
  <1>2. CASE Write
    BY <1>1, <1>2, AfterWrite DEF Inv
  <1>3. CASE Read
    BY <1>1, <1>3, HeldAfterRead, ScansSafeAfterRead, CursorAfterRead, LendingAfterRead DEF Inv
  <1> QED BY <1>2, <1>3, StepKinds

THEOREM AlwaysInv == Spec => []Inv
  BY InvInit, InvNext, PTL DEF Spec

-----------------------------------------------------------------------------
(* A run view JavaScript holds is of a mapped run, in any handle and after  *)
(* any calls (pup.c:118-172).                                               *)
THEOREM ViewsStayMapped == Spec => []ViewsIntact
  <1>1. Inv => ViewsIntact
    <2> SUFFICES ASSUME Inv, NEW m \in lent PROVE m \in Mapped
      BY DEF ViewsIntact
    <2>1. PICK i \in 1 .. Cap : view[i] = m
      BY DEF Inv, Lending
    <2>2. m # 0
      BY DEF Inv, Typed, TypeOK
    <2> QED BY <2>1, <2>2 DEF Inv, Lending, Mapped
  <1> QED BY <1>1, AlwaysInv, PTL

(* What a running scan has left stays mapped and in place, with scans       *)
(* nested to any depth (pup.c:595-619).                                     *)
THEOREM ScansStayIntact == Spec => []ScansIntact
  <1>1. Inv => ScansIntact
    <2> SUFFICES ASSUME Inv, NEW s \in 1 .. Len(scans), NEW i \in 1 .. Len(scans[s].ents)
                 PROVE  Intact(scans[s].ents[i])
      BY DEF ScansIntact
    <2>1. Safe(scans[s].ents[i], Mapped, gen)
      BY DEF Inv, ScansSafe, AllSafe
    <2>2. InScan
      <3>1. Len(scans) # 0 /\ scans \in Seq(Frames)
        BY DEF Inv, Typed, TypeOK
      <3> QED BY <3>1, EmptySeq DEF InScan
    <2>3. live
      BY <2>2, Zenon DEF Inv, Held
    <2> QED BY <2>1, <2>3 DEF Safe, Intact
  <1> QED BY <1>1, AlwaysInv, PTL

(* The cursor steps only through rows that have not moved since it was cut  *)
(* (pup.c:419-444, 641-673).                                                *)
THEOREM CursorStaysIntact == Spec => []CursorIntact
  <1>1. Inv => CursorIntact
    BY DEF Inv, CursorSafe, Current, AllSafe, Safe, CursorIntact, Intact
  <1> QED BY <1>1, AlwaysInv, PTL

-----------------------------------------------------------------------------
(* Layers.  A merge of two stacks is the younger laid over the older.       *)

Over(f, g) == [k \in Keys |-> IF g[k] # None THEN g[k] ELSE f[k]]

LEMMA OverTyped ==
    ASSUME NEW f \in Rows, NEW g \in Rows
    PROVE  Over(f, g) \in Rows
           /\ \A k \in Keys : Over(f, g)[k] = IF g[k] # None THEN g[k] ELSE f[k]
  BY DEF Over, Rows

LEMMA RowsEqual ==
    ASSUME NEW f \in Rows, NEW g \in Rows, \A k \in Keys : f[k] = g[k]
    PROVE  f = g
  BY DEF Rows

LEMMA OverLaws ==
    ASSUME NEW f \in Rows, NEW g \in Rows, NEW h \in Rows
    PROVE  /\ Over(f, Over(g, h)) = Over(Over(f, g), h)
           /\ Over(f, NoRows) = f /\ Over(NoRows, f) = f
           /\ NoRows \in Rows /\ \A k \in Keys : NoRows[k] = None
  <1>1. NoRows \in Rows /\ \A k \in Keys : NoRows[k] = None
    BY DEF NoRows, Rows
  <1>2. Over(g, h) \in Rows /\ Over(f, g) \in Rows
    BY OverTyped
  <1>3. Over(f, Over(g, h)) \in Rows /\ Over(Over(f, g), h) \in Rows
    BY <1>2, OverTyped
  <1>4. \A k \in Keys : Over(f, Over(g, h))[k] = Over(Over(f, g), h)[k]
    BY <1>2, OverTyped
  <1>5. Over(f, Over(g, h)) = Over(Over(f, g), h)
    BY <1>3, <1>4, RowsEqual
  <1>6. Over(f, NoRows) \in Rows /\ Over(NoRows, f) \in Rows
    BY <1>1, OverTyped
  <1>7. \A k \in Keys : Over(f, NoRows)[k] = f[k] /\ Over(NoRows, f)[k] = f[k]
    <2>1. \A k \in Keys :
             /\ Over(f, NoRows)[k] = IF NoRows[k] # None THEN NoRows[k] ELSE f[k]
             /\ Over(NoRows, f)[k] = IF f[k] # None THEN f[k] ELSE NoRows[k]
      BY <1>1, OverTyped
    <2> QED BY <1>1, <2>1
  <1>8. Over(f, NoRows) = f /\ Over(NoRows, f) = f
    BY <1>6, <1>7, RowsEqual
  <1> QED BY <1>1, <1>5, <1>8

LEMMA NewestOfConcat ==
    ASSUME NEW fs \in Seq(Rows), NEW gs \in Seq(Rows)
    PROVE  NewestOf(fs \o gs) = Over(NewestOf(fs), NewestOf(gs))
  <1> DEFINE hs == fs \o gs
  <1>1. /\ hs \in Seq(Rows) /\ Len(hs) = Len(fs) + Len(gs)
        /\ \A i \in 1 .. Len(fs) + Len(gs) :
              hs[i] = IF i <= Len(fs) THEN fs[i] ELSE gs[i - Len(fs)]
    BY ConcatProperties
  <1>2. Len(fs) \in Nat /\ Len(gs) \in Nat
    OBVIOUS
  <1> HIDE DEF hs
  <1>3. \A i \in 1 .. Len(fs) : i \in 1 .. Len(hs) /\ hs[i] = fs[i]
    BY <1>1, <1>2
  <1>4. \A i \in 1 .. Len(gs) : Len(fs) + i \in 1 .. Len(hs) /\ hs[Len(fs) + i] = gs[i]
    <2> TAKE i \in 1 .. Len(gs)
    <2>1. Len(fs) + i \in 1 .. Len(fs) + Len(gs) /\ ~ Len(fs) + i <= Len(fs)
          /\ (Len(fs) + i) - Len(fs) = i
      BY <1>2
    <2> QED BY <1>1, <2>1
  <1>5. \A i \in 1 .. Len(hs) : i \in 1 .. Len(fs) \/ \E j \in 1 .. Len(gs) : i = Len(fs) + j
    <2> TAKE i \in 1 .. Len(hs)
    <2>1. CASE i <= Len(fs)
      BY <1>1, <1>2, <2>1
    <2>2. CASE ~ i <= Len(fs)
      <3>1. i - Len(fs) \in 1 .. Len(gs) /\ i = Len(fs) + (i - Len(fs))
        BY <1>1, <1>2, <2>2
      <3> QED BY <3>1
    <2> QED BY <2>1, <2>2
  <1>6. ASSUME NEW k \in Keys
        PROVE  Newest(hs, k, Over(NewestOf(fs), NewestOf(gs))[k])
    <2>1. Newest(fs, k, NewestOf(fs)[k]) /\ Newest(gs, k, NewestOf(gs)[k])
      BY NewestHolds
    <2>2. Over(NewestOf(fs), NewestOf(gs))[k]
             = IF NewestOf(gs)[k] # None THEN NewestOf(gs)[k] ELSE NewestOf(fs)[k]
      BY NewestTyped, OverTyped
    <2>3. CASE NewestOf(gs)[k] # None
      <3>1. PICK i \in 1 .. Len(gs) :
               /\ gs[i][k] = NewestOf(gs)[k]
               /\ \A j \in 1 .. Len(gs) : j > i => gs[j][k] = None
        BY <2>1, <2>3 DEF Newest
      <3>2. \A j \in 1 .. Len(hs) : j > Len(fs) + i => hs[j][k] = None
        <4> SUFFICES ASSUME NEW j \in 1 .. Len(hs), j > Len(fs) + i
                     PROVE  hs[j][k] = None
          OBVIOUS
        <4>0. j \notin 1 .. Len(fs)
          BY <1>2
        <4>1. PICK m \in 1 .. Len(gs) : j = Len(fs) + m
          BY <1>5, <4>0
        <4>2. m > i
          BY <1>2, <4>1
        <4> QED BY <1>4, <3>1, <4>1, <4>2
      <3> QED BY <1>4, <2>2, <2>3, <3>1, <3>2 DEF Newest
    <2>4. CASE NewestOf(gs)[k] = None
      <3>1. \A j \in 1 .. Len(gs) : gs[j][k] = None
        BY <2>1, <2>4 DEF Newest
      <3>2. CASE NewestOf(fs)[k] = None
        <4>1. \A j \in 1 .. Len(fs) : fs[j][k] = None
          BY <2>1, <3>2 DEF Newest
        <4>2. \A j \in 1 .. Len(hs) : hs[j][k] = None
          <5> SUFFICES ASSUME NEW j \in 1 .. Len(hs)
                       PROVE  hs[j][k] = None
            OBVIOUS
          <5>1. CASE j \in 1 .. Len(fs)
            BY <1>3, <4>1, <5>1
          <5>2. ASSUME NEW m \in 1 .. Len(gs), j = Len(fs) + m
                PROVE  hs[j][k] = None
            BY <1>4, <3>1, <5>2
          <5> QED BY <1>5, <5>1, <5>2
        <4> QED BY <2>2, <2>4, <3>2, <4>2 DEF Newest
      <3>3. CASE NewestOf(fs)[k] # None
        <4>1. PICK i \in 1 .. Len(fs) :
                 /\ fs[i][k] = NewestOf(fs)[k]
                 /\ \A j \in 1 .. Len(fs) : j > i => fs[j][k] = None
          BY <2>1, <3>3 DEF Newest
        <4>2. \A j \in 1 .. Len(hs) : j > i => hs[j][k] = None
          <5> SUFFICES ASSUME NEW j \in 1 .. Len(hs), j > i
                       PROVE  hs[j][k] = None
            OBVIOUS
          <5>1. CASE j \in 1 .. Len(fs)
            BY <1>3, <4>1, <5>1
          <5>2. ASSUME NEW m \in 1 .. Len(gs), j = Len(fs) + m
                PROVE  hs[j][k] = None
            BY <1>4, <3>1, <5>2
          <5> QED BY <1>5, <5>1, <5>2
        <4> QED BY <1>3, <2>2, <2>4, <3>3, <4>1, <4>2 DEF Newest
      <3> QED BY <3>2, <3>3
    <2> QED BY <2>3, <2>4
  <1>7. \A k \in Keys : NewestOf(hs)[k] = Over(NewestOf(fs), NewestOf(gs))[k]
    BY <1>1, <1>6, NewestHolds, NewestIsOne
  <1>8. NewestOf(hs) \in Rows /\ Over(NewestOf(fs), NewestOf(gs)) \in Rows
    BY <1>1, NewestTyped, OverTyped
  <1>9. NewestOf(hs) = Over(NewestOf(fs), NewestOf(gs))
    BY <1>7, <1>8, RowsEqual
  <1> QED BY <1>9 DEF hs

LEMMA NewestOfFew ==
    ASSUME NEW f \in Rows, NEW g \in Rows
    PROVE  /\ NewestOf(<<>>) = NoRows
           /\ NewestOf(<<f>>) = f
           /\ NewestOf(<<f, g>>) = Over(f, g)
  <1>1. NewestOf(<<>>) = NoRows
    BY DEF NewestOf, NoRows
  <1>2. ASSUME NEW e \in Rows
        PROVE  NewestOf(<<e>>) = e
    <2>1. <<e>> \in Seq(Rows) /\ Len(<<e>>) = 1 /\ <<e>>[1] = e
      OBVIOUS
    <2>2. \A k \in Keys : Newest(<<e>>, k, e[k])
      BY <2>1 DEF Newest
    <2>3. \A k \in Keys : NewestOf(<<e>>)[k] = e[k]
      BY <2>1, <2>2, NewestHolds, NewestIsOne
    <2> QED BY <2>1, <2>3, NewestTyped, RowsEqual
  <1>3. <<f, g>> = <<f>> \o <<g>> /\ <<f>> \in Seq(Rows) /\ <<g>> \in Seq(Rows)
    <2>1. <<f>> \in Seq(Rows) /\ <<g>> \in Seq(Rows)
      OBVIOUS
    <2>2. Append(<<f>>, g) = <<f>> \o <<g>>
      BY <2>1, AppendIsConcat
    <2>3. Append(<<f>>, g) = <<f, g>>
      <3> DEFINE a == Append(<<f>>, g)
                 b == <<f, g>>
      <3>1. Len(<<f>>) = 1 /\ <<f>>[1] = f
        OBVIOUS
      <3>2. a \in Seq(Rows) /\ Len(a) = 2 /\ a[1] = f /\ a[2] = g
        BY <2>1, <3>1, AppendProperties
      <3>3. b \in Seq(Rows) /\ Len(b) = 2 /\ b[1] = f /\ b[2] = g
        OBVIOUS
      <3> HIDE DEF a, b
      <3>4. \A i \in 1 .. 2 : i = 1 \/ i = 2
        OBVIOUS
      <3>5. a = b
        BY <3>2, <3>3, <3>4, SeqEqual
      <3> QED BY <3>5 DEF a, b
    <2> QED BY <2>1, <2>2, <2>3
  <1> QED BY <1>1, <1>2, <1>3, NewestOfConcat

-----------------------------------------------------------------------------
(* What entries hold.                                                       *)

LEMMA RowsOfTyped ==
    ASSUME NEW ents \in Seq(Entries)
    PROVE  /\ RowsOf(ents) \in Seq(Rows) /\ Len(RowsOf(ents)) = Len(ents)
           /\ \A i \in 1 .. Len(ents) : RowsOf(ents)[i] = ents[i].rows /\ ents[i].rows \in Rows
  <1>1. \A e \in Entries : e.rows \in Rows
    BY DEF Entries
  <1>2. \A i \in 1 .. Len(ents) : ents[i].rows \in Rows
    BY <1>1
  <1> QED BY <1>2 DEF RowsOf

LEMMA HeadsAre ==
    ASSUME NEW ents \in Seq(Entries)
    PROVE  Heads(ents) = Present(NewestOf(RowsOf(ents)))
  <1> SUFFICES ASSUME NEW k \in Keys
               PROVE  k \in Heads(ents) <=> NewestOf(RowsOf(ents))[k] # None
    BY DEF Heads, Present
  <1>1. Newest(RowsOf(ents), k, NewestOf(RowsOf(ents))[k])
    BY RowsOfTyped, NewestHolds
  <1>2. k \in Heads(ents) <=> \E i \in 1 .. Len(ents) : ents[i].rows[k] # None
    BY DEF Heads, Present
  <1> QED BY <1>1, <1>2, RowsOfTyped DEF Newest

LEMMA CutRows ==
    ASSUME NEW ents \in Seq(Entries), NEW K, NEW k \in Keys
    PROVE  NewestOf(RowsOf(Cut(ents, K)))[k]
              = IF k \in K THEN NewestOf(RowsOf(ents))[k] ELSE None
  <1> DEFINE fs == RowsOf(ents)
             gs == RowsOf(Cut(ents, K))
  <1>1. fs \in Seq(Rows) /\ gs \in Seq(Rows) /\ Len(gs) = Len(fs)
    BY RowsOfTyped, CutKeeps
  <1>2. \A i \in 1 .. Len(fs) : gs[i][k] = IF k \in K THEN fs[i][k] ELSE None
    BY RowsOfTyped, CutKeeps, OnlyTyped
  <1>3. Newest(fs, k, NewestOf(fs)[k])
    BY <1>1, NewestHolds
  <1> HIDE DEF fs, gs
  <1>4. Newest(gs, k, IF k \in K THEN NewestOf(fs)[k] ELSE None)
    BY <1>1, <1>2, <1>3 DEF Newest
  <1>5. NewestOf(gs)[k] = IF k \in K THEN NewestOf(fs)[k] ELSE None
    BY <1>1, <1>4, NewestHolds, NewestIsOne
  <1> QED BY <1>5 DEF fs, gs

LEMMA RowsOfConcat ==
    ASSUME NEW s \in Seq(Entries), NEW t \in Seq(Entries)
    PROVE  RowsOf(s \o t) = RowsOf(s) \o RowsOf(t)
  <1> DEFINE a == RowsOf(s \o t)
             b == RowsOf(s) \o RowsOf(t)
  <1>1. /\ s \o t \in Seq(Entries) /\ Len(s \o t) = Len(s) + Len(t)
        /\ \A i \in 1 .. Len(s) + Len(t) :
              (s \o t)[i] = IF i <= Len(s) THEN s[i] ELSE t[i - Len(s)]
    BY ConcatProperties
  <1>2. a \in Seq(Rows) /\ Len(a) = Len(s) + Len(t)
        /\ \A i \in 1 .. Len(s) + Len(t) : a[i] = (s \o t)[i].rows
    BY <1>1, RowsOfTyped
  <1>3. /\ RowsOf(s) \in Seq(Rows) /\ Len(RowsOf(s)) = Len(s)
        /\ RowsOf(t) \in Seq(Rows) /\ Len(RowsOf(t)) = Len(t)
    BY RowsOfTyped
  <1>4. /\ b \in Seq(Rows) /\ Len(b) = Len(s) + Len(t)
        /\ \A i \in 1 .. Len(s) + Len(t) :
              b[i] = IF i <= Len(s) THEN RowsOf(s)[i] ELSE RowsOf(t)[i - Len(s)]
    <2>1. PICK f \in Seq(Rows) : f = RowsOf(s) /\ Len(f) = Len(s)
      BY <1>3
    <2>2. PICK g \in Seq(Rows) : g = RowsOf(t) /\ Len(g) = Len(t)
      BY <1>3
    <2>3. /\ f \o g \in Seq(Rows) /\ Len(f \o g) = Len(s) + Len(t)
          /\ \A i \in 1 .. Len(s) + Len(t) :
                (f \o g)[i] = IF i <= Len(s) THEN f[i] ELSE g[i - Len(s)]
      <3>1. /\ f \o g \in Seq(Rows) /\ Len(f \o g) = Len(f) + Len(g)
            /\ \A i \in 1 .. Len(f) + Len(g) :
                  (f \o g)[i] = IF i <= Len(f) THEN f[i] ELSE g[i - Len(f)]
        BY ConcatProperties
      <3> QED BY <2>1, <2>2, <3>1, Zenon
    <2> QED BY <2>1, <2>2, <2>3
  <1> HIDE DEF a, b
  <1>5. ASSUME NEW i \in 1 .. Len(s) + Len(t)
        PROVE  a[i] = b[i]
    <2>1. Len(s) \in Nat /\ Len(t) \in Nat
      OBVIOUS
    <2>2. CASE i <= Len(s)
      <3>1. i \in 1 .. Len(s)
        BY <2>1, <2>2
      <3> QED BY <1>1, <1>2, <1>4, <2>2, <3>1, RowsOfTyped
    <2>3. CASE ~ i <= Len(s)
      <3>1. i - Len(s) \in 1 .. Len(t)
        BY <2>1, <2>3
      <3>2. PICK j \in 1 .. Len(t) : j = i - Len(s)
        BY <3>1
      <3>3. RowsOf(t)[j] = t[j].rows
        BY RowsOfTyped
      <3>4. a[i] = t[j].rows /\ b[i] = RowsOf(t)[j]
        BY <1>1, <1>2, <1>4, <2>3, <3>2
      <3> QED BY <3>3, <3>4
    <2> QED BY <2>2, <2>3
  <1>6. a = b
    BY <1>2, <1>4, <1>5, SeqEqual
  <1> QED BY <1>6 DEF a, b

-----------------------------------------------------------------------------
(* The map the handle holds.                                                *)

WholeIsOver == Whole \in Rows /\ Whole = Over(NewestOf(RunRows), Over(past, data))

LEMMA WholeIs == TypeOK => WholeIsOver
  <1> SUFFICES ASSUME TypeOK PROVE WholeIsOver
    OBVIOUS
  <1>1. RunRows \in Seq(Rows) /\ past \in Rows /\ data \in Rows
    BY RunRowsTyped DEF TypeOK
  <1>2. <<past, data>> \in Seq(Rows)
    BY <1>1
  <1>3. NewestOf(RunRows \o <<past, data>>) = Over(NewestOf(RunRows), NewestOf(<<past, data>>))
    BY <1>1, <1>2, NewestOfConcat
  <1>4. NewestOf(<<past, data>>) = Over(past, data)
    BY <1>1, NewestOfFew
  <1>5. Whole = Over(NewestOf(RunRows), Over(past, data))
    BY <1>3, <1>4 DEF Whole
  <1>6. Whole \in Rows
    BY <1>1, <1>5, NewestTyped, OverTyped
  <1> QED BY <1>5, <1>6 DEF WholeIsOver

(* The sources of a read hold the map, however it is layered.               *)
LEMMA SourcesHoldWhole ==
    ASSUME TypeOK, gen' \in Nat
    PROVE  NewestOf(RowsOf(Sources)) = Whole
  <1>1. /\ RunEntries \in Seq(Entries) /\ MemEntry(past) \in Seq(Entries)
        /\ MemEntry(data) \in Seq(Entries) /\ past \in Rows /\ data \in Rows
    BY RunEntriesTyped, MemEntryTyped DEF TypeOK
  <1>2. RowsOf(RunEntries) = RunRows
    <2>1. \A i \in 1 .. Len(runs) : RunEntries[i].rows = rows[runs[i]]
      BY DEF RunEntries, Entry
    <2>2. RowsOf(RunEntries) \in Seq(Rows) /\ Len(RowsOf(RunEntries)) = Len(runs)
          /\ \A i \in 1 .. Len(runs) : RowsOf(RunEntries)[i] = RunEntries[i].rows
      BY RunEntriesTyped, RowsOfTyped
    <2> QED BY <2>1, <2>2, RunRowsTyped, SeqEqual
  <1>3. ASSUME NEW f \in Rows
        PROVE  NewestOf(RowsOf(MemEntry(f))) = f
    <2>1. CASE Present(f) = {}
      <3>1. MemEntry(f) = <<>>
        BY <2>1 DEF MemEntry
      <3>2. RowsOf(<<>>) = <<>>
        BY DEF RowsOf
      <3>3. f = NoRows
        <4>1. \A k \in Keys : f[k] = NoRows[k]
          BY <2>1 DEF Present, NoRows
        <4> QED BY <4>1, OverLaws, RowsEqual
      <3> QED BY <3>1, <3>2, <3>3, NewestOfFew
    <2>2. CASE Present(f) # {}
      <3>1. MemEntry(f) = <<Entry(0, f)>>
        BY <2>2 DEF MemEntry
      <3>2. RowsOf(MemEntry(f)) = <<f>>
        <4>1. Len(MemEntry(f)) = 1 /\ MemEntry(f)[1].rows = f
          BY <3>1 DEF Entry
        <4>2. RowsOf(MemEntry(f)) \in Seq(Rows) /\ Len(RowsOf(MemEntry(f))) = 1
              /\ RowsOf(MemEntry(f))[1] = f
          BY <4>1, MemEntryTyped, RowsOfTyped
        <4>3. <<f>> \in Seq(Rows) /\ Len(<<f>>) = 1 /\ <<f>>[1] = f
          OBVIOUS
        <4> QED BY <4>2, <4>3, SeqEqual
      <3> QED BY <3>2, NewestOfFew
    <2> QED BY <2>1, <2>2
  <1>4. RowsOf(Sources) = RunRows \o RowsOf(MemEntry(past)) \o RowsOf(MemEntry(data))
    <2>1. RunEntries \o MemEntry(past) \in Seq(Entries)
      BY <1>1, ConcatProperties
    <2>2. RowsOf((RunEntries \o MemEntry(past)) \o MemEntry(data))
            = RowsOf(RunEntries \o MemEntry(past)) \o RowsOf(MemEntry(data))
      BY <1>1, <2>1, RowsOfConcat
    <2>3. RowsOf(RunEntries \o MemEntry(past)) = RowsOf(RunEntries) \o RowsOf(MemEntry(past))
      BY <1>1, RowsOfConcat
    <2> QED BY <1>2, <2>2, <2>3 DEF Sources
  <1>5. NewestOf(RowsOf(Sources)) = Over(Over(NewestOf(RunRows), past), data)
    <2>1. /\ RunRows \in Seq(Rows) /\ RowsOf(MemEntry(past)) \in Seq(Rows)
          /\ RowsOf(MemEntry(data)) \in Seq(Rows)
      BY <1>1, RunRowsTyped, RowsOfTyped
    <2>2. RunRows \o RowsOf(MemEntry(past)) \in Seq(Rows)
      BY <2>1, ConcatProperties
    <2>3. NewestOf(RunRows \o RowsOf(MemEntry(past))) = Over(NewestOf(RunRows), past)
      BY <1>1, <1>3, <2>1, NewestOfConcat
    <2> QED BY <1>1, <1>3, <1>4, <2>1, <2>2, <2>3, NewestOfConcat
  <1> QED BY <1>1, <1>5, WholeIs, RunRowsTyped, NewestTyped, OverLaws DEF WholeIsOver

-----------------------------------------------------------------------------
(* What the refinement needs of the state besides Inv: no row holds a value *)
(* its key was never given, a new mapping is none of the runs', what a scan *)
(* has left is of the map, and so is what an armed, current cursor has.     *)

Given ==
    \A k \in Keys :
        /\ past[k] \in wrote[k] \cup {None} /\ data[k] \in wrote[k] \cup {None}
        /\ \A m \in 1 .. MaxMaps : rows[m][k] \in wrote[k] \cup {None}

Below == \A i \in 1 .. Len(runs) : runs[i] <= made

OfWhole(ents) ==
    \A k \in Keys : NewestOf(RowsOf(ents))[k] \in {None, Whole[k]}

CutOfWhole(c) ==
    \A k \in Keys :
        NewestOf(RowsOf(c.ents))[k] = IF PastBound(c, k) THEN Whole[k] ELSE None

ScansHold == \A s \in 1 .. Len(scans) : OfWhole(scans[s].ents)

CursorHolds ==
    cur.on => cur.key \in Keys /\ (cur.epoch = epoch => CutOfWhole(cur))

MapInv == Inv /\ Given /\ Below /\ ScansHold /\ CursorHolds

LEMMA Halves ==
    ASSUME NEW S, NEW s \in Seq(S), NEW m \in 0 .. Len(s)
    PROVE  s = SubSeq(s, 1, m) \o SubSeq(s, m + 1, Len(s))
  <1>1. PICK n \in Nat : n = Len(s)
    OBVIOUS
  <1>2. 1 \in 1 .. n + 1 /\ m \in 1 - 1 .. n /\ n \in m .. n
    BY <1>1
  <1>3. SubSeq(s, 1, m) \o SubSeq(s, m + 1, n) = SubSeq(s, 1, n)
    BY <1>1, <1>2, ConcatAdjacentSubSeq
  <1>4. SubSeq(s, 1, n) = s
    BY <1>1, SubSeqFull
  <1> QED BY <1>1, <1>3, <1>4, Zenon

(* A seal and its merges leave the map as it was.                           *)
LEMMA SealedWhole ==
    ASSUME TypeOK, Below, NEW f \in Rows, NEW g \in Rows,
           NEW j \in 1 .. Len(runs) + 1, Sealed(<<f, g>>, j)
    PROVE  /\ Whole' = Over(NewestOf(RunRows), Over(f, g))
           /\ Len(runs') = j /\ runs'[j] = made + 1 /\ made' = made + 1
           /\ \A i \in 1 .. j - 1 : i \in 1 .. Len(runs) /\ runs'[i] = runs[i]
  <1> DEFINE A == SubSeq(RunRows, 1, j - 1)
             B == SubSeq(RunRows, j, Len(runs))
             N == NewestOf(B \o <<f, g>>)
             a == SubSeq(runs, 1, j - 1)
  <1>1. runs \in Seq(1 .. MaxMaps) /\ rows \in [1 .. MaxMaps -> Rows]
        /\ made \in 0 .. MaxMaps /\ MaxMaps \in Nat /\ Len(runs) \in Nat
    BY PupAssumption DEF TypeOK
  <1>2. /\ made + 1 \in 1 .. MaxMaps
        /\ runs' = Append(a, made + 1) /\ rows' = [rows EXCEPT ![made + 1] = N]
        /\ made' = made + 1 /\ past' = NoRows /\ data' = NoRows
    BY <1>1 DEF Sealed
  <1>3. RunRows \in Seq(Rows) /\ Len(RunRows) = Len(runs)
        /\ \A i \in 1 .. Len(runs) : RunRows[i] = rows[runs[i]]
    BY RunRowsTyped
  <1>4. /\ a \in Seq(1 .. MaxMaps) /\ Len(a) = j - 1
        /\ \A i \in 1 .. j - 1 : i \in 1 .. Len(runs) /\ a[i] = runs[i]
    <2>1. \A i \in 1 .. j - 1 : i \in 1 .. Len(runs)
      BY <1>1
    <2>2. \A i \in 1 .. j - 1 : runs[i] \in 1 .. MaxMaps
      BY <1>1, <2>1, ElementOfSeq
    <2> QED BY <1>1, <2>1, <2>2, SubSeqProperties
  <1>5. /\ A \in Seq(Rows) /\ Len(A) = j - 1
        /\ \A i \in 1 .. j - 1 : A[i] = RunRows[i]
    <2>1. \A i \in 1 .. j - 1 : RunRows[i] \in Rows
      BY <1>3, <1>4, ElementOfSeq
    <2> QED BY <1>1, <2>1, SubSeqProperties
  <1>6. B \in Seq(Rows)
    <2>1. \A i \in j .. Len(runs) : RunRows[i] \in Rows
      BY <1>1, <1>3, ElementOfSeq
    <2> QED BY <1>1, <2>1, SubSeqProperties
  <1>7. <<f, g>> \in Seq(Rows)
    OBVIOUS
  <1>8. N \in Rows /\ N = Over(NewestOf(B), Over(f, g))
    <2> HIDE DEF B
    <2>1. B \o <<f, g>> \in Seq(Rows)
      BY <1>6, <1>7, ConcatProperties
    <2>2. NewestOf(B \o <<f, g>>) = Over(NewestOf(B), NewestOf(<<f, g>>))
      BY <1>6, <1>7, NewestOfConcat
    <2>3. NewestOf(<<f, g>>) = Over(f, g)
      BY NewestOfFew
    <2>4. NewestOf(B \o <<f, g>>) \in Rows
      BY <2>1, NewestTyped
    <2> QED BY <2>2, <2>3, <2>4
  <1>9. RunRows = A \o B
    <2>1. PICK m \in 0 .. Len(RunRows) : m = j - 1 /\ m + 1 = j
      BY <1>1, <1>3
    <2>2. RunRows = SubSeq(RunRows, 1, m) \o SubSeq(RunRows, m + 1, Len(RunRows))
      BY <1>3, Halves
    <2> QED BY <1>3, <2>1, <2>2, Zenon
  <1> HIDE DEF A, B, N, a
  <1>10. /\ runs' \in Seq(1 .. MaxMaps) /\ Len(runs') = j /\ runs'[j] = made + 1
         /\ \A i \in 1 .. j - 1 : runs'[i] = runs[i]
    <2>1. PICK m \in Nat : j = m + 1 /\ Len(a) = m
      BY <1>1, <1>4
    <2>2. /\ Append(a, made + 1) \in Seq(1 .. MaxMaps)
          /\ Len(Append(a, made + 1)) = m + 1 /\ Append(a, made + 1)[m + 1] = made + 1
          /\ \A i \in 1 .. m : Append(a, made + 1)[i] = a[i]
      BY <1>2, <1>4, <2>1, AppendProperties
    <2>3. 1 .. j - 1 = 1 .. m
      BY <2>1
    <2> QED BY <1>2, <1>4, <2>1, <2>2, <2>3
  <1>11. \A i \in 1 .. j : rows'[runs'[i]] = Append(A, N)[i]
    <2> TAKE i \in 1 .. j
    <2>1. CASE i \in 1 .. j - 1
      <3>1. runs[i] \in 1 .. MaxMaps /\ runs[i] # made + 1
        BY <1>1, <1>4, <2>1, ElementOfSeq DEF Below
      <3>2. rows'[runs'[i]] = rows[runs[i]]
        BY <1>1, <1>2, <1>10, <2>1, <3>1
      <3>3. Append(A, N)[i] = A[i]
        BY <1>5, <1>8, <2>1, AppendProperties
      <3> QED BY <1>3, <1>4, <1>5, <2>1, <3>2, <3>3
    <2>2. CASE i = j
      <3>1. Append(A, N)[j] = N
        <4>1. Append(A, N)[Len(A) + 1] = N
          BY <1>5, <1>8, AppendProperties
        <4>2. Len(A) + 1 = j
          BY <1>1, <1>5
        <4> QED BY <4>1, <4>2
      <3> QED BY <1>1, <1>2, <1>10, <2>2, <3>1
    <2>3. i \in 1 .. j - 1 \/ i = j
      BY <1>1
    <2> QED BY <2>1, <2>2, <2>3
  <1>12. RunRows' = Append(A, N)
    <2>1. RunRows' = [i \in 1 .. j |-> rows'[runs'[i]]]
      BY <1>10 DEF RunRows
    <2>2. Append(A, N) \in Seq(Rows) /\ Len(Append(A, N)) = j
      <3>1. Append(A, N) \in Seq(Rows) /\ Len(Append(A, N)) = Len(A) + 1
        BY <1>5, <1>8, AppendProperties
      <3>2. Len(A) + 1 = j
        BY <1>1, <1>5
      <3> QED BY <3>1, <3>2
    <2>3. RunRows' = [i \in 1 .. j |-> Append(A, N)[i]]
      BY <1>11, <2>1
    <2>4. ASSUME NEW h \in Seq(Rows)
          PROVE  h = [i \in 1 .. Len(h) |-> h[i]]
      OBVIOUS
    <2> QED BY <2>2, <2>3, <2>4, Zenon
  <1>13. /\ Append(A, N) \in Seq(Rows)
         /\ NewestOf(Append(A, N)) = Over(NewestOf(RunRows), Over(f, g))
    <2>1. Append(A, N) = A \o <<N>> /\ Append(A, N) \in Seq(Rows) /\ <<N>> \in Seq(Rows)
      BY <1>5, <1>8, AppendIsConcat, AppendProperties
    <2>2. NewestOf(A \o <<N>>) = Over(NewestOf(A), Over(NewestOf(B), Over(f, g)))
      <3>1. NewestOf(A \o <<N>>) = Over(NewestOf(A), NewestOf(<<N>>))
        BY <1>5, <2>1, NewestOfConcat
      <3>2. NewestOf(<<N>>) = N
        BY <1>8, NewestOfFew
      <3> QED BY <1>8, <3>1, <3>2
    <2>3. NewestOf(RunRows) = Over(NewestOf(A), NewestOf(B))
      BY <1>5, <1>6, <1>9, NewestOfConcat
    <2>4. NewestOf(A) \in Rows /\ NewestOf(B) \in Rows /\ Over(f, g) \in Rows
      BY <1>5, <1>6, NewestTyped, OverTyped
    <2> QED BY <2>1, <2>2, <2>3, <2>4, OverLaws
  <1>14. Whole' = NewestOf(Append(A, N) \o <<NoRows, NoRows>>)
    BY <1>2, <1>12 DEF Whole
  <1>15. NoRows \in Rows /\ <<NoRows, NoRows>> \in Seq(Rows)
    BY OverLaws
  <1>16. NewestOf(<<NoRows, NoRows>>) = NoRows
    BY <1>15, NewestOfFew, OverLaws
  <1>17. Whole' = Over(NewestOf(RunRows), Over(f, g))
    <2>1. Over(NewestOf(RunRows), Over(f, g)) \in Rows
      BY <1>3, NewestTyped, OverTyped
    <2>2. NewestOf(Append(A, N) \o <<NoRows, NoRows>>)
             = Over(NewestOf(Append(A, N)), NewestOf(<<NoRows, NoRows>>))
      BY <1>13, <1>15, NewestOfConcat
    <2> QED BY <1>13, <1>14, <1>16, <2>1, <2>2, OverLaws
  <1> QED BY <1>2, <1>4, <1>10, <1>17

-----------------------------------------------------------------------------
(* Values come from put.                                                    *)

LEMMA NewestAmong ==
    ASSUME NEW fs \in Seq(Rows), NEW k \in Keys, NEW V,
           \A i \in 1 .. Len(fs) : fs[i][k] \in V
    PROVE  NewestOf(fs)[k] \in V \cup {None}
  BY NewestHolds DEF Newest

WholeGiven == \A k \in Keys : Whole[k] \in wrote[k] \cup {None}

LEMMA WholeIsGiven == TypeOK /\ Given => WholeGiven
  <1> SUFFICES ASSUME TypeOK, Given, NEW k \in Keys
               PROVE  Whole[k] \in wrote[k] \cup {None}
    BY DEF WholeGiven
  <1> DEFINE V == wrote[k] \cup {None}
  <1>1. /\ RunRows \in Seq(Rows) /\ Len(RunRows) = Len(runs)
        /\ \A i \in 1 .. Len(runs) : RunRows[i] = rows[runs[i]]
    BY RunRowsTyped
  <1>2. \A i \in 1 .. Len(RunRows) : RunRows[i][k] \in V
    <2>1. runs \in Seq(1 .. MaxMaps)
      BY DEF TypeOK
    <2>2. \A i \in 1 .. Len(runs) : runs[i] \in 1 .. MaxMaps
      BY <2>1, ElementOfSeq
    <2>3. \A m \in 1 .. MaxMaps : rows[m][k] \in V
      BY DEF Given
    <2>4. \A i \in 1 .. Len(runs) : RunRows[i][k] \in V
      BY <1>1, <2>2, <2>3
    <2> QED BY <1>1, <2>4, Zenon
  <1> HIDE DEF V
  <1>3. NewestOf(RunRows)[k] \in V \cup {None}
    BY <1>1, <1>2, NewestAmong
  <1>4. past[k] \in V /\ data[k] \in V
    BY DEF Given, V
  <1>5. Whole = Over(NewestOf(RunRows), Over(past, data)) /\ past \in Rows /\ data \in Rows
    BY WholeIs DEF WholeIsOver, TypeOK
  <1>6. NewestOf(RunRows) \in Rows /\ Over(past, data) \in Rows
    BY <1>1, <1>5, NewestTyped, OverTyped
  <1>7. Whole[k] \in {NewestOf(RunRows)[k], past[k], data[k]}
    BY <1>5, <1>6, OverTyped
  <1> QED BY <1>3, <1>4, <1>7 DEF V

(* A seal writes a run of values that were put.                             *)
LEMMA SealedGiven ==
    ASSUME TypeOK, NEW f \in Rows, NEW g \in Rows,
           NEW j \in 1 .. Len(runs) + 1, Sealed(<<f, g>>, j),
           NEW k \in Keys, NEW V, None \in V, f[k] \in V, g[k] \in V,
           \A m \in 1 .. MaxMaps : rows[m][k] \in V
    PROVE  /\ past'[k] \in V /\ data'[k] \in V
           /\ \A m \in 1 .. MaxMaps : rows'[m][k] \in V
  <1> DEFINE B == SubSeq(RunRows, j, Len(runs))
             N == NewestOf(B \o <<f, g>>)
  <1>1. runs \in Seq(1 .. MaxMaps) /\ rows \in [1 .. MaxMaps -> Rows] /\ Len(runs) \in Nat
    BY DEF TypeOK
  <1>2. /\ rows' = [rows EXCEPT ![made + 1] = N] /\ past' = NoRows /\ data' = NoRows
    BY DEF Sealed
  <1>3. /\ RunRows \in Seq(Rows) /\ Len(RunRows) = Len(runs)
        /\ \A i \in 1 .. Len(runs) : RunRows[i] = rows[runs[i]]
    BY RunRowsTyped
  <1>4. \A i \in 1 .. Len(runs) : RunRows[i] \in {h \in Rows : h[k] \in V}
    BY <1>1, <1>3, ElementOfSeq
  <1> DEFINE Ok == {h \in Rows : h[k] \in V}
  <1>5. B \in Seq(Ok)
    <2>1. \A i \in j .. Len(runs) : RunRows[i] \in Ok
      BY <1>1, <1>4
    <2> HIDE DEF Ok
    <2> QED BY <1>1, <2>1, SubSeqProperties
  <1>6. <<f, g>> \in Seq(Ok)
    OBVIOUS
  <1>7. B \o <<f, g>> \in Seq(Ok)
    <2> HIDE DEF Ok, B
    <2> QED BY <1>5, <1>6, ConcatProperties
  <1>8. N[k] \in V
    <2> HIDE DEF B
    <2>1. PICK h \in Seq(Ok) : h = B \o <<f, g>>
      BY <1>7
    <2>2. h \in Seq(Rows) /\ \A i \in 1 .. Len(h) : h[i][k] \in V
      <3>1. \A i \in 1 .. Len(h) : h[i] \in Ok
        BY ElementOfSeq
      <3>2. Seq(Ok) \subseteq Seq(Rows)
        BY SeqMonotonic
      <3> QED BY <3>1, <3>2
    <2>3. NewestOf(h)[k] \in V \cup {None}
      BY <2>2, NewestAmong
    <2> QED BY <2>1, <2>3
  <1> HIDE DEF N
  <1>9. NoRows[k] = None
    BY DEF NoRows
  <1> QED BY <1>1, <1>2, <1>8, <1>9

LEMMA SealedBelow ==
    ASSUME TypeOK, Below, NEW f \in Rows, NEW g \in Rows,
           NEW j \in 1 .. Len(runs) + 1, Sealed(<<f, g>>, j)
    PROVE  Below'
  <1>1. /\ Len(runs') = j /\ runs'[j] = made + 1 /\ made' = made + 1
        /\ \A i \in 1 .. j - 1 : i \in 1 .. Len(runs) /\ runs'[i] = runs[i]
    BY SealedWhole
  <1>2. runs \in Seq(1 .. MaxMaps) /\ made \in Nat /\ Len(runs) \in Nat
    BY DEF TypeOK
  <1>3. ASSUME NEW i \in 1 .. j
        PROVE  runs'[i] <= made + 1
    <2>1. CASE i = j
      BY <1>1, <1>2, <2>1
    <2>2. CASE i # j
      <3>1. i \in 1 .. j - 1
        BY <1>2, <2>2
      <3>2. runs[i] \in Nat /\ runs[i] <= made
        <4>1. i \in 1 .. Len(runs)
          BY <1>1, <3>1
        <4>2. \A m \in 1 .. MaxMaps : m \in Nat
          OBVIOUS
        <4>3. runs[i] \in 1 .. MaxMaps
          BY <1>2, <4>1, ElementOfSeq
        <4> QED BY <4>1, <4>2, <4>3 DEF Below
      <3> QED BY <1>1, <1>2, <3>1, <3>2
    <2> QED BY <2>1, <2>2
  <1> QED BY <1>1, <1>3 DEF Below

-----------------------------------------------------------------------------
(* A write, in the handle and in the map.                                   *)

LEMMA WriteUnscanned ==
    ASSUME MapInv, Write
    PROVE  /\ scans = <<>> /\ scans' = <<>> /\ Left = <<>> /\ Left' = Left
           /\ ScansHold' /\ CursorHolds'
           /\ cur' = cur => Cursor' = Cursor
           /\ cur' = Spent(cur) => Cursor' = Abstract!NoCursor
  <1>1. TypeOK /\ Moved /\ scans' = scans /\ (busy => ~ live)
        /\ (cur' = cur \/ cur' = Spent(cur))
    BY WriteEffect DEF MapInv, Inv, Typed
  <1>2. ~ InScan
    BY <1>1, Zenon DEF MapInv, Inv, Held
  <1>3. scans = <<>> /\ scans' = <<>> /\ Len(scans) = 0 /\ Len(scans') = 0
    BY <1>1, <1>2, EmptySeq DEF InScan
  <1>4. Left = <<>> /\ Left' = <<>>
    BY <1>3 DEF Left
  <1>5. ScansHold'
    BY <1>3 DEF ScansHold
  <1>6. epoch' = epoch + 1 /\ epoch \in Nat /\ cur.epoch \in Nat /\ cur.epoch <= epoch
        /\ cur \in Cursors
    BY <1>1, MovedClears DEF MapInv, Inv, TypeOK, Current, Cursors
  <1>7. ~ Spent(cur).on
    BY <1>1, <1>6, CursorTyped
  <1>8. CursorHolds'
    BY <1>1, <1>6, <1>7 DEF MapInv, CursorHolds
  <1>9. cur' = cur => Cursor' = Cursor
    BY DEF Cursor
  <1>10. cur' = Spent(cur) => Cursor' = Abstract!NoCursor
    BY <1>7 DEF Cursor, Abstract!NoCursor
  <1> QED BY <1>3, <1>4, <1>5, <1>8, <1>9, <1>10

LEMMA WholeStays ==
    ASSUME UNCHANGED <<runs, rows, past, data>>
    PROVE  Whole' = Whole
  BY DEF Whole, RunRows

LEMMA PutStep ==
    ASSUME MapInv, NEW k \in Keys, NEW v \in Vals, Put(k, v)
    PROVE  Given' /\ Below' /\ Abstract!Put(k, v)
  <1> DEFINE more == [data EXCEPT ![k] = v]
             R == NewestOf(RunRows)
  <1>1. TypeOK /\ Given /\ Below /\ v # None
    BY PupAssumption DEF MapInv, Inv, Typed
  <1>2. past \in Rows /\ data \in Rows /\ more \in Rows /\ NoRows \in Rows
        /\ R \in Rows /\ RunRows \in Seq(Rows) /\ wrote \in [Keys -> SUBSET Vals]
    BY <1>1, RunRowsTyped, NewestTyped, OverLaws DEF TypeOK, Rows
  <1>3. wrote' = [wrote EXCEPT ![k] = @ \cup {v}] /\ out' = Nothing
        /\ scans' = scans /\ cur' = cur
    BY DEF Put
  <1>4. /\ more[k] = v /\ \A i \in Keys : i # k => more[i] = data[i]
        /\ v \in wrote'[k] /\ \A i \in Keys : wrote[i] \subseteq wrote'[i]
    BY <1>2, <1>3 DEF Rows
  <1>5. ASSUME NEW i \in Keys
        PROVE  LET V == wrote'[i] \cup {None} IN
               /\ None \in V /\ past[i] \in V /\ more[i] \in V
               /\ \A m \in 1 .. MaxMaps : rows[m][i] \in V
    BY <1>1, <1>4 DEF Given
  <1> HIDE DEF more, R
  <1>6. /\ Whole' = Over(R, Over(past, more))
        /\ Given' /\ Below'
    <2>1. CASE /\ data' = more
               /\ UNCHANGED <<past, runs, rows, made, gen>>
      <3>1. RunRows' = RunRows
        BY <2>1 DEF RunRows
      <3>2. <<past, more>> \in Seq(Rows)
        BY <1>2
      <3>3. Whole' = NewestOf(RunRows \o <<past, more>>)
        BY <2>1, <3>1 DEF Whole
      <3>4. Whole' = Over(R, Over(past, more))
        <4>1. NewestOf(RunRows \o <<past, more>>) = Over(R, NewestOf(<<past, more>>))
          BY <1>2, <3>2, NewestOfConcat DEF R
        <4>2. NewestOf(<<past, more>>) = Over(past, more)
          BY <1>2, NewestOfFew
        <4> QED BY <3>3, <4>1, <4>2
      <3>5. Given' /\ Below'
        BY <1>1, <1>5, <2>1 DEF Given, Below
      <3> QED BY <3>4, <3>5
    <2>2. CASE /\ past' = NewestOf(<<past, more>>) /\ data' = NoRows
               /\ UNCHANGED <<runs, rows, made>>
      <3>1. RunRows' = RunRows
        BY <2>2 DEF RunRows
      <3>2. past' = Over(past, more) /\ past' \in Rows
        <4>1. NewestOf(<<past, more>>) = Over(past, more)
          BY <1>2, NewestOfFew
        <4>2. Over(past, more) \in Rows
          BY <1>2, OverTyped
        <4> QED BY <2>2, <4>1, <4>2
      <3>3. PICK p \in Rows : p = past' /\ p = Over(past, more)
        BY <3>2
      <3>4. Whole' = NewestOf(RunRows \o <<p, NoRows>>)
        BY <2>2, <3>1, <3>3 DEF Whole
      <3>5. <<p, NoRows>> \in Seq(Rows)
        BY <1>2
      <3>6. NewestOf(RunRows \o <<p, NoRows>>) = Over(R, NewestOf(<<p, NoRows>>))
        BY <1>2, <3>5, NewestOfConcat DEF R
      <3>7. NewestOf(<<p, NoRows>>) = p
        BY <1>2, NewestOfFew, OverLaws
      <3>8. \A i \in Keys : past'[i] \in {past[i], more[i]} /\ data'[i] = None
        <4>1. \A i \in Keys : Over(past, more)[i] \in {past[i], more[i]}
          BY <1>2, OverTyped
        <4>2. \A i \in Keys : NoRows[i] = None
          BY DEF NoRows
        <4> QED BY <2>2, <3>2, <4>1, <4>2
      <3>9. Given'
        BY <1>5, <2>2, <3>8 DEF Given
      <3>10. Below'
        BY <1>1, <2>2 DEF Below
      <3> QED BY <3>3, <3>4, <3>6, <3>7, <3>9, <3>10
    <2>3. ASSUME NEW j \in 1 .. Len(runs) + 1, Sealed(<<past, more>>, j)
          PROVE  <1>6!1 /\ Given' /\ Below'
      <3>1. <1>6!1
        BY <1>1, <1>2, <2>3, SealedWhole DEF R
      <3>2. Given'
        <4> SUFFICES ASSUME NEW i \in Keys
                     PROVE  /\ past'[i] \in wrote'[i] \cup {None}
                            /\ data'[i] \in wrote'[i] \cup {None}
                            /\ \A m \in 1 .. MaxMaps : rows'[m][i] \in wrote'[i] \cup {None}
          BY DEF Given
        <4>1. PICK V : V = wrote'[i] \cup {None}
          OBVIOUS
        <4>2. None \in V /\ past[i] \in V /\ more[i] \in V
              /\ \A m \in 1 .. MaxMaps : rows[m][i] \in V
          BY <1>5, <4>1
        <4>3. past'[i] \in V /\ data'[i] \in V /\ \A m \in 1 .. MaxMaps : rows'[m][i] \in V
          BY <1>1, <1>2, <2>3, <4>2, SealedGiven
        <4> QED BY <4>1, <4>3
      <3>3. Below'
        BY <1>1, <1>2, <2>3, SealedBelow
      <3> QED BY <3>1, <3>2, <3>3
    <2> QED BY <2>1, <2>2, <2>3 DEF Put, more
  <1>7. Whole' = [Whole EXCEPT ![k] = v]
    <2>1. Whole \in Rows /\ Whole = Over(R, Over(past, data))
      BY <1>1, WholeIs DEF WholeIsOver, R
    <2>2. Over(past, more) \in Rows /\ Over(past, data) \in Rows
      BY <1>2, OverTyped
    <2>3. Over(R, Over(past, more)) \in Rows
      BY <1>2, <2>2, OverTyped
    <2>4. Over(R, Over(past, more))[k] = v
      BY <1>1, <1>2, <1>4, <2>2, OverTyped
    <2>5. \A i \in Keys : i # k => Over(R, Over(past, more))[i] = Whole[i]
      BY <1>2, <1>4, <2>1, <2>2, OverTyped
    <2>6. [Whole EXCEPT ![k] = v] \in Rows
      BY <2>1 DEF Rows
    <2>7. \A i \in Keys : Over(R, Over(past, more))[i] = [Whole EXCEPT ![k] = v][i]
      BY <2>1, <2>4, <2>5 DEF Rows
    <2> QED BY <1>6, <2>3, <2>6, <2>7, RowsEqual
  <1>8. Left = <<>> /\ Left' = Left /\ Cursor' = Cursor
    BY <1>3, WriteUnscanned DEF Write
  <1>9. Abstract!Put(k, v)
    BY <1>3, <1>7, <1>8 DEF Abstract!Put, Abstract!Nothing, Nothing
  <1> QED BY <1>6, <1>9

LEMMA CommitStep ==
    ASSUME MapInv, Commit
    PROVE  Given' /\ Below' /\ Abstract!Other
  <1>1. TypeOK /\ Given /\ Below
    BY DEF MapInv, Inv, Typed
  <1>2. past \in Rows /\ data \in Rows
    BY <1>1 DEF TypeOK
  <1>3. wrote' = wrote /\ out' = Nothing /\ scans' = scans /\ cur' = cur
    BY DEF Commit
  <1>4. Whole' = Whole /\ Given' /\ Below'
    <2>1. ASSUME UNCHANGED <<runs, rows, made, past, data>>
          PROVE  Whole' = Whole /\ Given' /\ Below'
      BY <1>1, <1>3, <2>1, WholeStays DEF Given, Below
    <2>2. ASSUME NEW j \in 1 .. Len(runs) + 1, Sealed(<<past, data>>, j)
          PROVE  Whole' = Whole /\ Given' /\ Below'
      <3>1. Whole' = Whole
        <4>1. Whole' = Over(NewestOf(RunRows), Over(past, data))
          BY <1>1, <1>2, <2>2, SealedWhole
        <4> QED BY <1>1, <4>1, WholeIs DEF WholeIsOver
      <3>2. Given'
        <4> SUFFICES ASSUME NEW i \in Keys
                     PROVE  /\ past'[i] \in wrote'[i] \cup {None}
                            /\ data'[i] \in wrote'[i] \cup {None}
                            /\ \A m \in 1 .. MaxMaps : rows'[m][i] \in wrote'[i] \cup {None}
          BY DEF Given
        <4>1. PICK V : V = wrote'[i] \cup {None}
          OBVIOUS
        <4>2. None \in V /\ past[i] \in V /\ data[i] \in V
              /\ \A m \in 1 .. MaxMaps : rows[m][i] \in V
          BY <1>1, <1>3, <4>1 DEF Given
        <4>3. past'[i] \in V /\ data'[i] \in V /\ \A m \in 1 .. MaxMaps : rows'[m][i] \in V
          BY <1>1, <1>2, <2>2, <4>2, SealedGiven
        <4> QED BY <4>1, <4>3
      <3>3. Below'
        BY <1>1, <1>2, <2>2, SealedBelow
      <3> QED BY <3>1, <3>2, <3>3
    <2> QED BY <2>1, <2>2 DEF Commit
  <1>5. Left' = Left /\ Cursor' = Cursor
    BY <1>3, WriteUnscanned DEF Write
  <1> QED BY <1>3, <1>4, <1>5 DEF Abstract!Other, Abstract!Nothing, Nothing

LEMMA WriteFailsStep ==
    ASSUME MapInv, WriteFails
    PROVE  Given' /\ Below' /\ Abstract!Fail
  <1>1. /\ UNCHANGED <<runs, rows, made, past, data, wrote>>
        /\ cur' = cur /\ out' = Error
    BY DEF WriteFails, store, Fails
  <1>2. Whole' = Whole
    BY <1>1, WholeStays
  <1>3. Given' /\ Below'
    BY <1>1 DEF MapInv, Given, Below
  <1>4. Left' = Left /\ Cursor' = Cursor
    BY <1>1, WriteUnscanned DEF Write
  <1> QED BY <1>1, <1>2, <1>3, <1>4 DEF Abstract!Fail, Abstract!Error, Error

(* A step after which the map is some of what it was ever given.            *)
LEMMA LoseStep ==
    ASSUME MapInv, Write, cur' = Spent(cur), wrote' = wrote, out' = Nothing,
           TypeOK', Given'
    PROVE  Abstract!Lose
  <1>1. WholeIsOver'
    BY WholeIs, PTL
  <1>2. WholeGiven'
    BY WholeIsGiven, PTL
  <1>3. Whole' \in Rows
    BY <1>1 DEF WholeIsOver
  <1>4. \A k \in Keys : Whole'[k] \in wrote[k] \cup {None}
    BY <1>2 DEF WholeGiven
  <1> QED BY <1>3, <1>4, WriteUnscanned
          DEF Abstract!Lose, Abstract!Nothing, Nothing, Rows

LEMMA DropStep ==
    ASSUME MapInv, Drop, TypeOK'
    PROVE  Given' /\ Below' /\ (Abstract!Lose \/ Abstract!Fail)
  <1>1. TypeOK /\ Given /\ Below /\ Write
    BY DEF MapInv, Inv, Typed, Write
  <1>2. UNCHANGED <<rows, made, past, data, wrote>> /\ cur' = Spent(cur)
    BY DEF Drop
  <1>3. Given'
    BY <1>1, <1>2 DEF Given
  <1>4. runs \in Seq(1 .. MaxMaps) /\ Len(runs) \in Nat
    BY <1>1 DEF TypeOK
  <1>5. CASE runs' = <<>> /\ out' = Nothing
    <2>1. Below'
      BY <1>5 DEF Below
    <2> QED BY <1>1, <1>2, <1>3, <1>5, <2>1, LoseStep
  <1>6. ASSUME NEW i \in 1 .. Len(runs),
               runs' = SubSeq(runs, 1, i - 1) \o SubSeq(runs, i + 1, Len(runs)),
               out' = Nothing
        PROVE  Below' /\ Abstract!Lose
    <2>1. /\ Len(runs') = Len(runs) - 1
          /\ \A j \in 1 .. Len(runs') : runs'[j] = IF j < i THEN runs[j] ELSE runs[j + 1]
      <3> DEFINE t == SubSeq(runs, 1, i - 1) \o SubSeq(runs, i + 1, Len(runs))
      <3>1. Len(t) = Len(runs) - 1 /\ \A j \in 1 .. Len(t) : t[j] = IF j < i THEN runs[j] ELSE runs[j + 1]
        BY <1>4, Without
      <3>2. runs' = t
        BY <1>6
      <3> HIDE DEF t
      <3> QED BY <3>1, <3>2
    <2>2. ASSUME NEW j \in 1 .. Len(runs')
          PROVE  runs'[j] <= made'
      <3>1. j \in 1 .. Len(runs) /\ j + 1 \in 1 .. Len(runs)
        BY <1>4, <2>1
      <3> QED BY <1>1, <1>2, <2>1, <3>1 DEF Below
    <2> QED BY <1>1, <1>2, <1>3, <1>6, <2>2, LoseStep DEF Below
  <1>7. CASE runs' = runs /\ out' = Error
    <2>1. Whole' = Whole
      BY <1>2, <1>7, WholeStays
    <2>2. Below'
      BY <1>1, <1>2, <1>7 DEF Below
    <2>3. Left' = Left /\ Cursor' = Abstract!NoCursor
      BY <1>1, <1>2, WriteUnscanned
    <2> QED BY <1>2, <1>3, <1>7, <2>1, <2>2, <2>3 DEF Abstract!Fail, Abstract!Error, Error
  <1> QED BY <1>3, <1>5, <1>6, <1>7 DEF Drop, Fails

LEMMA CloseStep ==
    ASSUME MapInv, Close, TypeOK'
    PROVE  Given' /\ Below' /\ Abstract!Lose
  <1>1. /\ UNCHANGED <<runs, rows, made, past, data, wrote>>
        /\ cur' = Spent(cur) /\ out' = Nothing
    BY DEF Close, store
  <1>2. Given' /\ Below'
    BY <1>1 DEF MapInv, Given, Below
  <1> QED BY <1>1, <1>2, LoseStep DEF Write

LEMMA OpenStep ==
    ASSUME MapInv, Open, TypeOK'
    PROVE  Given' /\ Below' /\ Abstract!Lose
  <1>1. TypeOK /\ Given
    BY DEF MapInv, Inv, Typed
  <1>2. runs \in Seq(1 .. MaxMaps) /\ Len(runs) \in Nat /\ made \in Nat
    BY <1>1 DEF TypeOK
  <1>3. /\ cur' = Spent(cur) /\ out' = Nothing /\ wrote' = wrote
        /\ runs' = [i \in 1 .. Len(runs) |-> made + i] /\ made' = made + Len(runs)
        /\ rows' = [m \in 1 .. MaxMaps |->
                       IF m > made /\ m <= made + Len(runs) THEN rows[runs[m - made]]
                       ELSE rows[m]]
        /\ past' \in {past, NoRows} /\ data' \in {data, NoRows}
    BY DEF Open
  <1>4. Below'
    <2>1. Len(runs') = Len(runs)
      BY <1>2, <1>3
    <2>2. \A i \in 1 .. Len(runs) : runs'[i] = made + i /\ made + i <= made'
      BY <1>2, <1>3
    <2> QED BY <2>1, <2>2 DEF Below
  <1>5. ASSUME NEW k \in Keys
        PROVE  /\ past'[k] \in wrote'[k] \cup {None} /\ data'[k] \in wrote'[k] \cup {None}
               /\ \A m \in 1 .. MaxMaps : rows'[m][k] \in wrote'[k] \cup {None}
    <2>1. NoRows[k] = None
      BY DEF NoRows
    <2>2. past'[k] \in wrote'[k] \cup {None} /\ data'[k] \in wrote'[k] \cup {None}
      BY <1>1, <1>3, <2>1 DEF Given
    <2>3. ASSUME NEW m \in 1 .. MaxMaps
          PROVE  rows'[m][k] \in wrote'[k] \cup {None}
      <3>1. CASE m > made /\ m <= made + Len(runs)
        <4>1. m - made \in 1 .. Len(runs)
          BY <1>2, <3>1
        <4>2. runs[m - made] \in 1 .. MaxMaps
          BY <1>2, <4>1, ElementOfSeq
        <4>3. rows'[m] = rows[runs[m - made]]
          BY <1>3, <3>1
        <4> QED BY <1>1, <1>3, <4>2, <4>3 DEF Given
      <3>2. CASE ~ (m > made /\ m <= made + Len(runs))
        <4>1. rows'[m] = rows[m]
          BY <1>3, <3>2
        <4> QED BY <1>1, <1>3, <4>1 DEF Given
      <3> QED BY <3>1, <3>2
    <2> QED BY <2>2, <2>3
  <1> QED BY <1>3, <1>4, <1>5, LoseStep DEF Given, Write

-----------------------------------------------------------------------------
(* A read, in the handle and in the map.                                    *)

LEMMA ReadKeeps ==
    ASSUME Read
    PROVE  UNCHANGED <<runs, rows, made, past, data, wrote, epoch>>
  <1> DEFINE Kept == UNCHANGED <<runs, rows, made, past, data, wrote, epoch>>
  <1>1. UNCHANGED <<moves, store>> => Kept
    BY DEF moves, store
  <1>2. ASSUME NEW i
        PROVE  Run(i) \/ Detach(i) => Kept
    BY DEF Run, Detach, store
  <1>3. UNCHANGED vars => Kept
    BY DEF vars
  <1> HIDE DEF Kept
  <1>4. Kept
    BY <1>1, <1>2, <1>3, Zenon
       DEF Read, Refused, Get, Seek, RangeStart, RangeRow, RangeEnd, Pull
  <1> QED BY <1>4 DEF Kept

LEMMA ReadOfMap ==
    ASSUME MapInv, Read
    PROVE  /\ Whole' = Whole /\ Given' /\ Below' /\ wrote' = wrote
           /\ scans' = scans => Left' = Left /\ ScansHold'
           /\ cur' = cur => Cursor' = Cursor /\ CursorHolds'
  <1>1. UNCHANGED <<runs, rows, made, past, data, wrote, epoch>>
    BY ReadKeeps
  <1>2. Whole' = Whole
    BY <1>1, WholeStays
  <1>3. Given' /\ Below'
    BY <1>1 DEF MapInv, Given, Below
  <1>4. scans' = scans => Left' = Left /\ ScansHold'
    BY <1>2 DEF Left, MapInv, ScansHold, OfWhole
  <1>5. ASSUME cur' = cur PROVE Cursor' = Cursor
    BY <1>5 DEF Cursor
  <1>6. ASSUME cur' = cur PROVE CursorHolds'
    BY <1>1, <1>2, <1>6 DEF MapInv, CursorHolds, CutOfWhole
  <1> QED BY <1>1, <1>2, <1>3, <1>4, <1>5, <1>6

(* What is cut from the sources is that part of the map.                    *)
LEMMA CutOfSources ==
    ASSUME TypeOK, SortMem, NEW K
    PROVE  /\ Cut(Sources, K) \in Seq(Entries)
           /\ \A k \in Keys : NewestOf(RowsOf(Cut(Sources, K)))[k]
                                = IF k \in K THEN Whole[k] ELSE None
           /\ Heads(Cut(Sources, K)) = {k \in Present(Whole) : k \in K}
  <1>1. gen' \in Nat
    BY SortTyped
  <1>2. Sources \in Seq(Entries) /\ NewestOf(RowsOf(Sources)) = Whole
    BY <1>1, SourcesTyped, SourcesHoldWhole
  <1>3. Cut(Sources, K) \in Seq(Entries)
    BY <1>2, CutKeeps
  <1>4. \A k \in Keys : NewestOf(RowsOf(Cut(Sources, K)))[k] = IF k \in K THEN Whole[k] ELSE None
    BY <1>2, CutRows
  <1>5. Heads(Cut(Sources, K)) = Present(NewestOf(RowsOf(Cut(Sources, K))))
    BY <1>3, HeadsAre
  <1> QED BY <1>3, <1>4, <1>5 DEF Present

(* A step over the top key takes that key, and no other, out.               *)
LEMMA Stepped ==
    ASSUME NEW ents \in Seq(Entries), Heads(ents) # {}
    PROVE  /\ StepTops(ents) \in Seq(Entries)
           /\ \A k \in Keys : NewestOf(RowsOf(StepTops(ents)))[k]
                 = IF k = Top(ents) THEN None ELSE NewestOf(RowsOf(ents))[k]
           /\ Heads(StepTops(ents)) = Heads(ents) \ {Top(ents)}
           /\ Top(ents) = Abstract!Least(Heads(ents))
           /\ NewestOf(RowsOf(ents))[Top(ents)] # None
  <1>1. StepTops(ents) \in Seq(Entries)
    BY CutKeeps DEF StepTops
  <1>2. \A k \in Keys : NewestOf(RowsOf(StepTops(ents)))[k]
                 = IF k = Top(ents) THEN None ELSE NewestOf(RowsOf(ents))[k]
    BY CutRows DEF StepTops
  <1>3. /\ Heads(StepTops(ents)) = Present(NewestOf(RowsOf(StepTops(ents))))
        /\ Heads(ents) = Present(NewestOf(RowsOf(ents)))
    BY <1>1, HeadsAre
  <1>4. Heads(StepTops(ents)) = Heads(ents) \ {Top(ents)}
    BY <1>2, <1>3 DEF Present
  <1>5. Top(ents) \in Heads(ents)
    BY HeadsAreKeys
  <1> QED BY <1>1, <1>2, <1>3, <1>4, <1>5 DEF Top, Least, Abstract!Least, Present

LEMMA RefusedStep ==
    ASSUME MapInv, Refused
    PROVE  ScansHold' /\ CursorHolds' /\ Abstract!Fail
  <1>1. scans' = scans /\ cur' = cur /\ out' = Error /\ Read
    BY DEF Refused, Fails, Read
  <1> QED BY <1>1, ReadOfMap DEF Abstract!Fail, Abstract!Error, Error

LEMMA GetStep ==
    ASSUME MapInv, NEW k \in Keys, Get(k)
    PROVE  ScansHold' /\ CursorHolds' /\ (Abstract!Get(k) \/ Abstract!Fail)
  <1>1. scans' = scans /\ cur' = cur /\ SortMem
    BY DEF Get
  <1>2. Read
    BY Zenon DEF Read
  <1>3. /\ Whole' = Whole /\ wrote' = wrote /\ Left' = Left /\ Cursor' = Cursor
        /\ ScansHold' /\ CursorHolds'
    BY <1>1, <1>2, ReadOfMap
  <1>4. NewestOf(RowsOf(Sources)) = Whole
    BY <1>1, SortTyped, SourcesHoldWhole DEF MapInv, Inv, Typed
  <1>5. out' = Error \/ out' = IF Whole[k] = None THEN Nothing ELSE <<k, Whole[k]>>
    BY <1>4, Zenon DEF Get
  <1> QED BY <1>3, <1>5
          DEF Abstract!Get, Abstract!Fail, Abstract!Error, Abstract!Nothing,
              Abstract!Row, Error, Nothing

LEMMA RunStep ==
    ASSUME MapInv, NEW i \in 1 .. Cap, Run(i)
    PROVE  ScansHold' /\ CursorHolds' /\ Abstract!Other
  <1>1. scans' = scans /\ cur' = cur /\ out' = Nothing /\ Read
    BY DEF Run, Read
  <1> QED BY <1>1, ReadOfMap DEF Abstract!Other, Abstract!Nothing, Nothing

LEMMA StutterStep ==
    ASSUME MapInv, UNCHANGED vars \/ \E m \in 1 .. MaxMaps : Detach(m)
    PROVE  ScansHold' /\ CursorHolds' /\ UNCHANGED Abstract!vars
  <1>1. scans' = scans /\ cur' = cur /\ out' = out
    BY DEF Detach, vars
  <1>2. Read
    BY Zenon DEF Read
  <1> QED BY <1>1, <1>2, ReadOfMap DEF Abstract!vars

-----------------------------------------------------------------------------
(* Scans.                                                                   *)

LeftKnown ==
    /\ Left \in Seq(SUBSET Keys) /\ Len(Left) = Len(scans)
    /\ \A i \in 1 .. Len(scans) : Left[i] = Heads(scans[i].ents)

ScansTyped == scans \in Seq(Frames)

LEMMA LeftIs == ScansTyped => LeftKnown
  <1> SUFFICES ASSUME scans \in Seq(Frames) PROVE LeftKnown
    BY DEF ScansTyped
  <1>1. \A i \in 1 .. Len(scans) : Heads(scans[i].ents) \in SUBSET Keys
    BY HeadsAreKeys
  <1>2. PICK n \in Nat : n = Len(scans)
    OBVIOUS
  <1>3. Left = [i \in 1 .. n |-> Heads(scans[i].ents)]
    BY <1>2 DEF Left
  <1>4. Left \in Seq(SUBSET Keys) /\ Len(Left) = n
        /\ \A i \in 1 .. n : Left[i] = Heads(scans[i].ents)
    BY <1>1, <1>2, <1>3
  <1> QED BY <1>2, <1>4, Zenon DEF LeftKnown

LEMMA ScanStep ==
    ASSUME MapInv, NEW lo \in Keys, NEW k \in Keys, RangeStart(lo, k + 1)
    PROVE  ScansHold' /\ CursorHolds' /\ (Abstract!Scan(lo, k + 1) \/ Abstract!Fail)
  <1> DEFINE hi == k + 1
             K == {i \in Keys : lo <= i /\ i < hi}
             S == {i \in Present(Whole) : lo <= i /\ i < hi}
  <1>1. TypeOK /\ scans \in Seq(Frames) /\ SortMem /\ cur' = cur
    BY DEF RangeStart, MapInv, Inv, Typed, TypeOK
  <1>2. Read
    BY Zenon DEF Read
  <1>3. /\ Whole' = Whole /\ wrote' = wrote /\ Cursor' = Cursor /\ CursorHolds'
        /\ scans' = scans => Left' = Left /\ ScansHold'
    BY <1>1, <1>2, ReadOfMap
  <1>4. CASE TooMany
    <2>1. scans' = scans /\ out' = Error
      BY <1>4 DEF RangeStart, Fails
    <2> QED BY <1>3, <2>1 DEF Abstract!Fail, Abstract!Error, Error
  <1>5. CASE ~ TooMany
    <2>1. /\ scans' \in Seq(Frames) /\ Len(scans') = Len(scans) + 1
          /\ \A s \in 1 .. Len(scans) : scans'[s] = scans[s]
          /\ scans'[Len(scans) + 1].ents = Cut(Sources, K)
      BY <1>1, <1>5, ScanStarted
    <2>2. out' = Nothing
      BY <1>5 DEF RangeStart
    <2>3. /\ \A i \in Keys : NewestOf(RowsOf(Cut(Sources, K)))[i] \in {None, Whole[i]}
          /\ Heads(Cut(Sources, K)) = {i \in Present(Whole) : i \in K}
      <3> HIDE DEF K
      <3> QED BY <1>1, CutOfSources
    <2>4. Heads(Cut(Sources, K)) = S
      BY <2>3 DEF Present
    <2>5. PICK n \in Nat : n = Len(scans)
      BY <1>1
    <2> HIDE DEF K, S, hi
    <2>6. ScansHold'
      <3> SUFFICES ASSUME NEW s \in 1 .. n + 1, NEW i \in Keys
                   PROVE  NewestOf(RowsOf(scans'[s].ents))[i] \in {None, Whole[i]}
        BY <1>3, <2>1, <2>5 DEF ScansHold, OfWhole
      <3>1. CASE s = n + 1
        BY <2>1, <2>3, <2>5, <3>1
      <3>2. CASE s # n + 1
        <4>1. s \in 1 .. n
          BY <3>2
        <4> QED BY <2>1, <2>5, <4>1 DEF MapInv, ScansHold, OfWhole
      <3> QED BY <3>1, <3>2
    <2>7. /\ Left \in Seq(SUBSET Keys) /\ Len(Left) = n
          /\ \A i \in 1 .. n : Left[i] = Heads(scans[i].ents)
      BY <1>1, <2>5, LeftIs DEF ScansTyped, LeftKnown
    <2>8. /\ Left' \in Seq(SUBSET Keys) /\ Len(Left') = n + 1
          /\ \A i \in 1 .. n + 1 : Left'[i] = Heads(scans'[i].ents)
      <3>0. ScansTyped'
        BY <2>1 DEF ScansTyped
      <3>1. LeftKnown'
        BY <3>0, LeftIs, PTL
      <3> QED BY <2>1, <2>5, <3>1 DEF LeftKnown
    <2>9. S \in SUBSET Keys
      BY DEF S, Present
    <2>10. Left' = Append(Left, S)
      <3>1. PICK t \in Seq(SUBSET Keys) : t = Left /\ Len(t) = n
        BY <2>7
      <3>2. /\ Append(t, S) \in Seq(SUBSET Keys) /\ Len(Append(t, S)) = n + 1
            /\ Append(t, S)[n + 1] = S
            /\ \A i \in 1 .. n : Append(t, S)[i] = t[i]
        BY <2>9, <3>1, AppendProperties
      <3>3. PICK u \in Seq(SUBSET Keys) : u = Append(t, S)
        BY <3>2
      <3>4. ASSUME NEW i \in 1 .. n + 1
            PROVE  Left'[i] = u[i]
        <4>1. CASE i = n + 1
          BY <2>1, <2>4, <2>5, <2>8, <3>2, <3>3, <4>1
        <4>2. CASE i # n + 1
          <5>1. i \in 1 .. n
            BY <4>2
          <5> QED BY <2>1, <2>5, <2>7, <2>8, <3>1, <3>2, <3>3, <5>1
        <4> QED BY <4>1, <4>2
      <3>5. Left' = u
        BY <2>8, <3>2, <3>3, <3>4, SeqEqual
      <3> QED BY <3>1, <3>3, <3>5
    <2>11. S = {i \in Abstract!Present(Whole) : lo <= i /\ i < hi}
      BY DEF S, Present, Abstract!Present
    <2>12. Abstract!Scan(lo, hi)
      BY <1>3, <2>2, <2>10, <2>11 DEF Abstract!Scan, Abstract!Nothing, Nothing
    <2> QED BY <1>3, <2>6, <2>12 DEF hi
  <1> QED BY <1>4, <1>5

LEMMA EmitStep ==
    ASSUME MapInv, RangeRow
    PROVE  ScansHold' /\ CursorHolds' /\ Abstract!Emit
  <1>1. TypeOK /\ scans \in Seq(Frames) /\ cur' = cur
    BY DEF RangeRow, MapInv, Inv, Typed, TypeOK
  <1>2. Read
    BY Zenon DEF Read
  <1>3. Whole' = Whole /\ wrote' = wrote /\ Cursor' = Cursor /\ CursorHolds'
    BY <1>1, <1>2, ReadOfMap
  <1>4. PICK n \in 1 .. Len(scans) :
           /\ n = Len(scans) /\ scans[n].ents \in Seq(Entries)
           /\ Heads(scans[n].ents) # {}
           /\ scans' \in Seq(Frames) /\ Len(scans') = Len(scans)
           /\ scans'[n].ents = StepTops(scans[n].ents)
           /\ \A s \in 1 .. Len(scans) : s # n => scans'[s] = scans[s]
           /\ out' = TopRow(scans[n].ents)
    BY <1>1, RowTaken
  <1>5. PICK e \in Seq(Entries) : e = scans[n].ents
    BY <1>4
  <1>6. OfWhole(e)
    BY <1>5 DEF MapInv, ScansHold
  <1>7. /\ \A k \in Keys : NewestOf(RowsOf(StepTops(e)))[k] \in {None, NewestOf(RowsOf(e))[k]}
        /\ Heads(StepTops(e)) = Heads(e) \ {Top(e)} /\ Top(e) = Abstract!Least(Heads(e))
        /\ NewestOf(RowsOf(e))[Top(e)] # None /\ Top(e) \in Keys
    BY <1>4, <1>5, Stepped, HeadsAreKeys
  <1>8. ScansHold'
    <2> SUFFICES ASSUME NEW s \in 1 .. n, NEW k \in Keys
                 PROVE  NewestOf(RowsOf(scans'[s].ents))[k] \in {None, Whole[k]}
      BY <1>3, <1>4 DEF ScansHold, OfWhole
    <2>1. CASE s = n
      BY <1>4, <1>5, <1>6, <1>7, <2>1 DEF OfWhole
    <2>2. CASE s # n
      BY <1>4, <2>2 DEF MapInv, ScansHold, OfWhole
    <2> QED BY <2>1, <2>2
  <1>9. out' = Abstract!Row(Whole, Abstract!Least(Heads(e)))
    <2>1. NewestOf(RowsOf(e))[Top(e)] = Whole[Top(e)]
      BY <1>6, <1>7 DEF OfWhole
    <2> QED BY <1>4, <1>5, <1>7, <2>1 DEF TopRow, Abstract!Row
  <1>10. /\ Left \in Seq(SUBSET Keys) /\ Len(Left) = n
         /\ \A i \in 1 .. n : Left[i] = Heads(scans[i].ents)
    BY <1>1, <1>4, LeftIs DEF ScansTyped, LeftKnown
  <1>11. /\ Left' \in Seq(SUBSET Keys) /\ Len(Left') = n
         /\ \A i \in 1 .. n : Left'[i] = Heads(scans'[i].ents)
    <2>0. ScansTyped'
      BY <1>4 DEF ScansTyped
    <2>1. LeftKnown'
      BY <2>0, LeftIs, PTL
    <2> QED BY <1>4, <2>1 DEF LeftKnown
  <1>12. Left # <<>> /\ Left[n] = Heads(e)
    <2>1. Len(Left) # 0
      BY <1>4, <1>10
    <2> QED BY <1>4, <1>5, <1>10, <2>1, EmptySeq
  <1>13. Left' = [Left EXCEPT ![n] = Heads(e) \ {Abstract!Least(Heads(e))}]
    <2> DEFINE H == Heads(e) \ {Abstract!Least(Heads(e))}
    <2>1. H \in SUBSET Keys
      BY HeadsAreKeys
    <2>2. Left'[n] = H
      BY <1>4, <1>5, <1>7, <1>11
    <2> HIDE DEF H
    <2>3. PICK t \in Seq(SUBSET Keys) : t = Left /\ Len(t) = n
      BY <1>10
    <2>4. n \in 1 .. n
      BY <1>4
    <2>5. PICK u : u = [t EXCEPT ![n] = H]
      OBVIOUS
    <2>6. /\ u \in Seq(SUBSET Keys) /\ Len(u) = n /\ u[n] = H
          /\ \A i \in 1 .. n : i # n => u[i] = t[i]
      BY <2>1, <2>3, <2>4, <2>5, ExceptSeq
    <2>7. \A i \in 1 .. n : Left'[i] = u[i]
      BY <1>4, <1>10, <1>11, <2>2, <2>3, <2>6
    <2>8. Left' = u
      BY <1>11, <2>6, <2>7, SeqEqual
    <2> QED BY <2>3, <2>5, <2>8 DEF H
  <1>14. Heads(e) # {}
    BY <1>4, <1>5
  <1> QED BY <1>3, <1>8, <1>9, <1>10, <1>12, <1>13, <1>14 DEF Abstract!Emit

LEMMA EndStep ==
    ASSUME MapInv, RangeEnd
    PROVE  ScansHold' /\ CursorHolds' /\ Abstract!EndScan
  <1>1. TypeOK /\ scans \in Seq(Frames) /\ cur' = cur /\ out' = Nothing
    BY DEF RangeEnd, MapInv, Inv, Typed, TypeOK
  <1>2. Read
    BY Zenon DEF Read
  <1>3. Whole' = Whole /\ wrote' = wrote /\ Cursor' = Cursor /\ CursorHolds'
    BY <1>1, <1>2, ReadOfMap
  <1>4. /\ scans' \in Seq(Frames) /\ Len(scans) = Len(scans') + 1
        /\ \A s \in 1 .. Len(scans') : scans'[s] = scans[s]
    BY <1>1, ScanEnded
  <1>5. PICK n \in Nat : n = Len(scans') /\ n + 1 = Len(scans)
    BY <1>4
  <1>6. \A i \in 1 .. n : i \in 1 .. n + 1
    OBVIOUS
  <1>7. ScansHold'
    BY <1>3, <1>4, <1>5, <1>6 DEF MapInv, ScansHold, OfWhole
  <1>8. /\ Left \in Seq(SUBSET Keys) /\ Len(Left) = n + 1
        /\ \A i \in 1 .. n + 1 : Left[i] = Heads(scans[i].ents)
    BY <1>1, <1>5, LeftIs DEF ScansTyped, LeftKnown
  <1>9. /\ Left' \in Seq(SUBSET Keys) /\ Len(Left') = n
        /\ \A i \in 1 .. n : Left'[i] = Heads(scans'[i].ents)
    <2>0. ScansTyped'
      BY <1>4 DEF ScansTyped
    <2>1. LeftKnown'
      BY <2>0, LeftIs, PTL
    <2> QED BY <1>5, <2>1 DEF LeftKnown
  <1>10. Left # <<>>
    <2>1. Len(Left) # 0
      BY <1>8
    <2> QED BY <1>8, <2>1, EmptySeq
  <1>11. Left' = SubSeq(Left, 1, n)
    <2>1. PICK t \in Seq(SUBSET Keys) : t = Left /\ Len(t) = n + 1
      BY <1>8
    <2>2. PICK u : u = SubSeq(t, 1, n)
      OBVIOUS
    <2>3. u \in Seq(SUBSET Keys) /\ Len(u) = n /\ \A i \in 1 .. n : u[i] = t[i]
      BY <2>1, <2>2
    <2>4. \A i \in 1 .. n : Left'[i] = u[i]
      BY <1>4, <1>5, <1>6, <1>8, <1>9, <2>1, <2>3
    <2>5. Left' = u
      BY <1>9, <2>3, <2>4, SeqEqual
    <2> QED BY <2>1, <2>2, <2>5
  <1>12. Len(Left) - 1 = n
    BY <1>8
  <1> QED BY <1>1, <1>3, <1>7, <1>10, <1>11, <1>12
          DEF Abstract!EndScan, Abstract!Nothing, Nothing

-----------------------------------------------------------------------------
(* The cursor.                                                              *)

LEMMA CursorCut ==
    ASSUME TypeOK, SortMem, NEW c \in Cursors
    PROVE  /\ CutCursor(c) \in Cursors /\ CutCursor(c).on = c.on
           /\ CutCursor(c).key = c.key /\ CutCursor(c).pulled = c.pulled
           /\ CutCursor(c).epoch = epoch
           /\ CutOfWhole(CutCursor(c))
  <1> DEFINE K == {k \in Keys : PastBound(c, k)}
  <1>1. /\ CutCursor(c) \in Cursors /\ CutCursor(c).on = c.on
        /\ CutCursor(c).key = c.key /\ CutCursor(c).pulled = c.pulled
        /\ CutCursor(c).epoch = epoch /\ CutCursor(c).ents = Cut(Sources, K)
    BY SortTyped, CutCursorTyped
  <1>2. \A k \in Keys : NewestOf(RowsOf(Cut(Sources, K)))[k]
                       = IF PastBound(c, k) THEN Whole[k] ELSE None
    <2>1. \A k \in Keys : k \in K <=> PastBound(c, k)
      OBVIOUS
    <2> HIDE DEF K
    <2>2. \A k \in Keys : NewestOf(RowsOf(Cut(Sources, K)))[k] = IF k \in K THEN Whole[k] ELSE None
      BY CutOfSources
    <2> QED BY <2>1, <2>2
  <1> HIDE DEF K
  <1>3. \A k \in Keys : PastBound(CutCursor(c), k) = PastBound(c, k)
    BY <1>1 DEF PastBound
  <1> QED BY <1>1, <1>2, <1>3 DEF CutOfWhole

(* A pull takes the least row past the bound, of the map as it is now.      *)
LEMMA PullFromMap ==
    ASSUME NEW c \in Cursors, c.on, c.key \in Keys, CutOfWhole(c), TypeOK,
           Cursor = [on |-> TRUE, key |-> c.key, pulled |-> c.pulled],
           Whole' = Whole, wrote' = wrote, Left' = Left, PullFrom(c)
    PROVE  CursorHolds' /\ Abstract!Pull
  <1> DEFINE left == {k \in Abstract!Present(Whole) :
                         Cursor.on /\ Abstract!PastBound(Cursor, k)}
  <1>1. PICK e \in Seq(Entries) : e = c.ents
    BY DEF Cursors
  <1>2. /\ \A k \in Keys : NewestOf(RowsOf(e))[k] = IF PastBound(c, k) THEN Whole[k] ELSE None
        /\ Heads(e) = Present(NewestOf(RowsOf(e)))
    BY <1>1, HeadsAre DEF CutOfWhole
  <1>3. Heads(e) = left
    <2>1. \A k : Abstract!PastBound(Cursor, k) = PastBound(c, k)
      BY DEF Abstract!PastBound, PastBound
    <2> QED BY <1>2, <2>1 DEF Present, Abstract!Present
  <1> HIDE DEF left
  <1>4. CASE Heads(e) = {}
    <2>1. cur' = Spent(c) /\ out' = Nothing /\ ~ cur'.on
      BY <1>1, <1>4, CursorTyped DEF PullFrom
    <2>2. Cursor' = Abstract!NoCursor /\ CursorHolds'
      BY <2>1 DEF Cursor, Abstract!NoCursor, CursorHolds
    <2> QED BY <1>3, <1>4, <2>1, <2>2 DEF Abstract!Pull, Abstract!Nothing, Nothing, left
  <1>5. CASE Heads(e) # {}
    <2> DEFINE t == Top(e)
               s == StepTops(e)
    <2>1. /\ s \in Seq(Entries)
          /\ \A k \in Keys : NewestOf(RowsOf(s))[k] = IF k = t THEN None ELSE NewestOf(RowsOf(e))[k]
          /\ t = Abstract!Least(Heads(e)) /\ NewestOf(RowsOf(e))[t] # None
          /\ t \in Keys /\ \A k \in Heads(e) : t <= k
      BY <1>5, Stepped, HeadsAreKeys
    <2>2. /\ cur' = [c EXCEPT !.ents = s, !.key = t, !.pulled = TRUE]
          /\ out' = TopRow(e)
      BY <1>1, <1>5 DEF PullFrom
    <2> HIDE DEF s
    <2>3. out' = Abstract!Row(Whole, t)
      <3>1. NewestOf(RowsOf(e))[t] = Whole[t]
        BY <1>2, <2>1
      <3> QED BY <2>2, <3>1 DEF TopRow, Abstract!Row
    <2> HIDE DEF t
    <2>4. cur'.ents = s /\ cur'.key = t /\ cur'.pulled = TRUE /\ cur'.on = TRUE
      BY <2>2 DEF Cursors
    <2>5. Cursor' = [on |-> TRUE, key |-> t, pulled |-> TRUE]
      BY <2>4 DEF Cursor
    <2>6. \A k \in Keys : NewestOf(RowsOf(s))[k] = IF k > t THEN Whole[k] ELSE None
      <3> TAKE k \in Keys
      <3>1. k \in Nat /\ t \in Nat /\ c.key \in Nat
        BY <2>1, PupAssumption
      <3>2. PastBound(c, t)
        BY <1>2, <2>1
      <3>3. k > t => PastBound(c, k)
        BY <3>1, <3>2 DEF PastBound
      <3>4. k < t => NewestOf(RowsOf(e))[k] = None
        <4>1. k < t => k \notin Heads(e)
          BY <2>1, <3>1
        <4>2. k \in Heads(e) <=> NewestOf(RowsOf(e))[k] # None
          BY <1>2 DEF Present
        <4> QED BY <4>1, <4>2
      <3>5. CASE k > t
        <4>1. k # t
          BY <3>1, <3>5
        <4> QED BY <1>2, <2>1, <3>3, <3>5, <4>1
      <3>6. CASE ~ k > t
        <4>1. k = t \/ k < t
          BY <3>1, <3>6
        <4> QED BY <2>1, <3>4, <3>6, <4>1
      <3> QED BY <3>5, <3>6
    <2>7. CursorHolds'
      <3>1. \A k \in Keys : PastBound(cur', k) <=> k > t
        BY <2>4 DEF PastBound
      <3> QED BY <2>1, <2>4, <2>6, <3>1 DEF CursorHolds, CutOfWhole
    <2>8. out' = Abstract!Row(Whole, Abstract!Least(left)) /\ left # {}
          /\ Cursor' = [on |-> TRUE, key |-> Abstract!Least(left), pulled |-> TRUE]
      BY <1>3, <1>5, <2>1, <2>3, <2>5
    <2> QED BY <2>7, <2>8 DEF Abstract!Pull, left
  <1> QED BY <1>4, <1>5

LEMMA SeekStep ==
    ASSUME MapInv, NEW k \in Keys, Seek(k)
    PROVE  ScansHold' /\ CursorHolds' /\ (Abstract!Seek(k) \/ Abstract!Fail)
  <1> DEFINE c == [cur EXCEPT !.on = TRUE, !.key = k, !.pulled = FALSE]
  <1>1. TypeOK /\ SortMem /\ scans' = scans
    BY DEF Seek, MapInv, Inv, Typed
  <1>2. Read
    BY Zenon DEF Read
  <1>3. Whole' = Whole /\ wrote' = wrote /\ Left' = Left /\ ScansHold'
    BY <1>1, <1>2, ReadOfMap
  <1>4. cur \in Cursors /\ k \in Nat
    BY <1>1, PupAssumption DEF TypeOK
  <1>5. c \in Cursors /\ c.on = TRUE /\ c.key = k /\ c.pulled = FALSE
    BY <1>4 DEF Cursors
  <1>6. \/ cur' = Spent(c) /\ out' = Error
        \/ cur' = CutCursor(c) /\ out' = Nothing
    BY DEF Seek, Fails
  <1> HIDE DEF c
  <1>7. CASE cur' = Spent(c) /\ out' = Error
    <2>1. ~ cur'.on
      BY <1>1, <1>5, <1>7, CursorTyped
    <2> QED BY <1>3, <1>7, <2>1
            DEF CursorHolds, Cursor, Abstract!Fail, Abstract!NoCursor, Abstract!Error, Error
  <1>8. CASE cur' = CutCursor(c) /\ out' = Nothing
    <2>1. /\ cur'.on = TRUE /\ cur'.key = k /\ cur'.pulled = FALSE
          /\ CutOfWhole(CutCursor(c))
      BY <1>1, <1>5, <1>8, CursorCut
    <2>2. CursorHolds'
      BY <1>3, <1>8, <2>1 DEF CursorHolds, CutOfWhole
    <2> QED BY <1>3, <1>8, <2>1, <2>2 DEF Cursor, Abstract!Seek, Abstract!Nothing, Nothing
  <1> QED BY <1>6, <1>7, <1>8

LEMMA PullStep ==
    ASSUME MapInv, Pull
    PROVE  ScansHold' /\ CursorHolds' /\ (Abstract!Pull \/ Abstract!Fail)
  <1>1. TypeOK /\ scans' = scans /\ cur \in Cursors
    BY DEF Pull, MapInv, Inv, Typed, TypeOK
  <1>2. Read
    BY Zenon DEF Read
  <1>3. /\ Whole' = Whole /\ wrote' = wrote /\ Left' = Left /\ ScansHold'
        /\ cur' = cur => Cursor' = Cursor /\ CursorHolds'
    BY <1>1, <1>2, ReadOfMap
  <1>4. cur.on => /\ cur.key \in Keys
                  /\ Cursor = [on |-> TRUE, key |-> cur.key, pulled |-> cur.pulled]
    BY DEF MapInv, CursorHolds, Cursor
  <1>5. CASE ~ cur.on /\ out' = Nothing /\ UNCHANGED cur
    <2>1. Cursor = Abstract!NoCursor /\ ~ Cursor.on
      BY <1>5 DEF Cursor, Abstract!NoCursor
    <2> QED BY <1>3, <1>5, <2>1 DEF Abstract!Pull, Abstract!Nothing, Nothing
  <1>6. CASE cur.on /\ cur.epoch = epoch /\ PullFrom(cur)
    <2>1. CutOfWhole(cur)
      BY <1>6 DEF MapInv, CursorHolds
    <2> QED BY <1>1, <1>3, <1>4, <1>6, <2>1, PullFromMap
  <1>7. CASE cur.on /\ cur' = Spent(cur) /\ out' = Error
    <2>1. ~ cur'.on
      BY <1>1, <1>7, CursorTyped
    <2> QED BY <1>3, <1>7, <2>1
            DEF CursorHolds, Cursor, Abstract!Fail, Abstract!NoCursor, Abstract!Error, Error
  <1>8. CASE cur.on /\ SortMem /\ PullFrom(CutCursor(cur))
    <2>1. PICK c \in Cursors :
             /\ c = CutCursor(cur) /\ c.on = cur.on /\ c.key = cur.key
             /\ c.pulled = cur.pulled /\ CutOfWhole(c)
      BY <1>1, <1>8, CursorCut
    <2> QED BY <1>1, <1>3, <1>4, <1>8, <2>1, PullFromMap
  <1> QED BY <1>5, <1>6, <1>7, <1>8 DEF Pull, Fails

-----------------------------------------------------------------------------
(* The refinement.                                                          *)

LEMMA MapInit == Init => MapInv /\ Abstract!Init
  <1> SUFFICES ASSUME Init PROVE MapInv /\ Abstract!Init
    OBVIOUS
  <1>1. Inv /\ TypeOK
    BY InvInit DEF Inv, Typed
  <1>2. /\ runs = <<>> /\ past = NoRows /\ data = NoRows /\ scans = <<>>
        /\ rows = [m \in 1 .. MaxMaps |-> NoRows] /\ ~ cur.on
        /\ out = Nothing /\ wrote = [k \in Keys |-> {}]
    BY DEF Init, NoCur
  <1>3. NoRows \in Rows /\ \A k \in Keys : NoRows[k] = None
    BY DEF NoRows, Rows
  <1>4. Given
    <2>1. \A k \in Keys : past[k] = None /\ data[k] = None
      BY <1>2, <1>3
    <2>2. \A k \in Keys : \A m \in 1 .. MaxMaps : rows[m][k] = None
      BY <1>2, <1>3
    <2> QED BY <2>1, <2>2 DEF Given
  <1>5. Len(runs) = 0 /\ Len(scans) = 0
    BY <1>2
  <1>6. Below /\ ScansHold /\ CursorHolds
    BY <1>2, <1>5 DEF Below, ScansHold, CursorHolds
  <1>7. Whole = NoRows
    <2>1. RunRows = <<>>
      BY <1>5 DEF RunRows
    <2>2. Whole = Over(NewestOf(<<>>), Over(NoRows, NoRows))
      BY <1>1, <1>2, <2>1, WholeIs DEF WholeIsOver
    <2> QED BY <1>3, <2>2, NewestOfFew, OverLaws
  <1>8. Left = <<>> /\ Cursor = Abstract!NoCursor
    BY <1>2, <1>5 DEF Left, Cursor, Abstract!NoCursor
  <1> QED BY <1>1, <1>2, <1>4, <1>6, <1>7, <1>8
          DEF MapInv, Abstract!Init, Abstract!Nothing, Nothing, NoRows

LEMMA WriteStep ==
    ASSUME MapInv, Write, TypeOK'
    PROVE  Given' /\ Below' /\ Abstract!Next
  <1>1. ASSUME NEW k \in Keys, NEW v \in Vals, Put(k, v)
        PROVE  Given' /\ Below' /\ Abstract!Put(k, v)
    BY <1>1, PutStep
  <1>2. Commit => Given' /\ Below' /\ Abstract!Other
    BY CommitStep
  <1>3. WriteFails => Given' /\ Below' /\ Abstract!Fail
    BY WriteFailsStep
  <1>4. Drop => Given' /\ Below' /\ (Abstract!Lose \/ Abstract!Fail)
    BY DropStep
  <1>5. Close => Given' /\ Below' /\ Abstract!Lose
    BY CloseStep
  <1>6. Open => Given' /\ Below' /\ Abstract!Lose
    BY OpenStep
  <1> QED BY <1>1, <1>2, <1>3, <1>4, <1>5, <1>6, Zenon DEF Write, Abstract!Next

LEMMA ReadStep ==
    ASSUME MapInv, Read
    PROVE  ScansHold' /\ CursorHolds' /\ [Abstract!Next]_(Abstract!vars)
  <1> DEFINE Holds == ScansHold' /\ CursorHolds'
  <1>1. Refused => Holds /\ Abstract!Fail
    BY RefusedStep
  <1>2. ASSUME NEW k \in Keys
        PROVE  /\ Get(k) => Holds /\ (Abstract!Get(k) \/ Abstract!Fail)
               /\ Seek(k) => Holds /\ (Abstract!Seek(k) \/ Abstract!Fail)
    BY GetStep, SeekStep
  <1>3. ASSUME NEW lo \in Keys, NEW k \in Keys
        PROVE  RangeStart(lo, k + 1) => Holds /\ (Abstract!Scan(lo, k + 1) \/ Abstract!Fail)
    BY ScanStep
  <1>4. /\ RangeRow => Holds /\ Abstract!Emit
        /\ RangeEnd => Holds /\ Abstract!EndScan
        /\ Pull => Holds /\ (Abstract!Pull \/ Abstract!Fail)
    BY EmitStep, EndStep, PullStep
  <1>5. ASSUME NEW i \in 1 .. Cap
        PROVE  Run(i) => Holds /\ Abstract!Other
    BY RunStep
  <1>6. UNCHANGED vars \/ (\E m \in 1 .. MaxMaps : Detach(m))
           => Holds /\ UNCHANGED Abstract!vars
    BY StutterStep
  <1> HIDE DEF Holds
  <1>7. Holds /\ (Abstract!Next \/ UNCHANGED Abstract!vars)
    BY <1>1, <1>2, <1>3, <1>4, <1>5, <1>6, Zenon DEF Read, Abstract!Next
  <1> QED BY <1>7 DEF Holds

LEMMA MapNext == MapInv /\ [Next]_vars => MapInv' /\ [Abstract!Next]_(Abstract!vars)
  <1> SUFFICES ASSUME MapInv, [Next]_vars
               PROVE  MapInv' /\ [Abstract!Next]_(Abstract!vars)
    OBVIOUS
  <1>1. Inv'
    BY InvNext DEF MapInv
  <1>2. TypeOK'
    BY <1>1 DEF Inv, Typed
  <1>3. CASE Write
    <2>1. Given' /\ Below' /\ Abstract!Next
      BY <1>2, <1>3, WriteStep
    <2>2. ScansHold' /\ CursorHolds'
      BY <1>3, WriteUnscanned
    <2> QED BY <1>1, <2>1, <2>2 DEF MapInv
  <1>4. CASE Read
    <2>1. Given' /\ Below'
      BY <1>4, ReadOfMap
    <2>2. ScansHold' /\ CursorHolds' /\ [Abstract!Next]_(Abstract!vars)
      BY <1>4, ReadStep
    <2> QED BY <1>1, <2>1, <2>2 DEF MapInv
  <1> QED BY <1>3, <1>4, StepKinds

(* The handle implements one ordered map: each of its steps is one of the   *)
(* map's, or changes nothing the map shows, for any keys, values, stack and *)
(* depth of scans (pup.c:1-4, cont.c:588-638).                              *)
THEOREM HandleIsOneMap == Spec => OneMap
  <1>1. Spec => []MapInv
    BY MapInit, MapNext, PTL DEF Spec
  <1> QED BY <1>1, MapInit, MapNext, PTL DEF Spec, OneMap, Abstract!Spec

=============================================================================
