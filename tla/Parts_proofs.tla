---------------------------- MODULE Parts_proofs ----------------------------
(***************************************************************************)
(* Proofs about the parts that MCParts instantiates: Drains, Maps, PupPage, *)
(* for every value of their constants.                                      *)
(***************************************************************************)
EXTENDS MCParts, FiniteSetTheorems, SequenceTheorems, TLAPS

(* A set of numbers that is not empty has a least one.  The library has     *)
(* that finite sets are well-founded under inclusion.                       *)
LEMMA HasLeast ==
    ASSUME NEW K \in SUBSET Nat, K # {}
    PROVE  \E k \in K : \A j \in K : k <= j
  <1>1. PICK m \in K : TRUE
    OBVIOUS
  <1>2. IsFiniteSet(0 .. m)
    BY FS_Interval
  <1> DEFINE T == {0 .. k : k \in {j \in K : j <= m}}
  <1>3. \A t \in T : t \in SUBSET (0 .. m)
    OBVIOUS
  <1>4. T # {} /\ T \subseteq FiniteSubsetsOf(0 .. m)
    BY <1>2, <1>3, FS_Subset DEF FiniteSubsetsOf
  <1>5. IsWellFoundedOn(StrictSubsetOrdering(0 .. m), FiniteSubsetsOf(0 .. m))
    BY FS_StrictSubsetOrderingWellFounded
  <1>6. \E x \in T : \A y \in T : ~ (<<y, x>> \in StrictSubsetOrdering(0 .. m))
    BY <1>4, <1>5, WFMin
  <1>7. PICK k \in K : k <= m /\ \A y \in T : ~ (<<y, 0 .. k>> \in StrictSubsetOrdering(0 .. m))
    BY <1>6
  <1>8. \A j \in K : k <= j
    <2> SUFFICES ASSUME NEW j \in K, j < k PROVE FALSE
      OBVIOUS
    <2>1. 0 .. j \in T /\ 0 .. k \in T
      BY <1>7
    <2>2. 0 .. j \subseteq 0 .. k /\ k \in 0 .. k /\ k \notin 0 .. j
      OBVIOUS
    <2>3. <<0 .. j, 0 .. k>> \in StrictSubsetOrdering(0 .. m)
      BY <1>3, <2>1, <2>2 DEF StrictSubsetOrdering
    <2> QED BY <1>7, <2>1, <2>3
  <1> QED BY <1>8

-----------------------------------------------------------------------------
(* Drains: what the kernel, pol and the running handler say of an object    *)
(* agrees, for as long as the script has not closed it in that handler.     *)

DSocks == [obj : D!Objs \cup {"none"}, inc : Nat, queue : Nat, over : BOOLEAN]
DLoops == [obj : D!Objs \cup {"none"}, num : Fds \cup {0}, rows : Nat, inc : Nat,
           pc : {"idle", "top", "rows", "listener", "lost", "in", "zero"},
           over : BOOLEAN, shut : BOOLEAN]

DTyped ==
    /\ own \in [D!Objs -> Fds \cup {0}]
    /\ opens \in Nat /\ inc \in [D!Objs -> Nat]
    /\ sock \in [Fds -> DSocks]
    /\ track \in SUBSET Fds /\ spoilt \in SUBSET D!Objs
    /\ table \in [Fds -> D!Objs \cup {"none"}]
    /\ loop \in DLoops

(* A number that an object has is the kernel's for it, as it was last       *)
(* opened; what pol's table says of a number is so.                         *)
DOwned ==
    /\ \A o \in D!Objs : own[o] # 0 => sock[own[o]].obj = o /\ sock[own[o]].inc = inc[o]
    /\ \A n \in Fds : table[n] # "none" => own[table[n]] = n

\* A handler runs.
DRuns == loop.pc \in {"top", "rows", "listener", "lost"}

(* The handler that runs has its object's number, until the script closes   *)
(* the object; a batch that it goes through came to the object.  Who gets   *)
(* the number of a 0 or a throw before POL drops it is spoilt.              *)
DLoop ==
    IF loop.pc = "idle" THEN loop = D!NoLoop
    ELSE IF D!Jobs
    THEN /\ loop.obj = "none" /\ loop.num \in Fds
         /\ loop.pc = "zero" => \A o \in D!Objs : own[o] = loop.num => o \in spoilt
    ELSE /\ loop.obj \in D!Objs /\ loop.num \in Fds
         /\ ~loop.shut => own[loop.obj] = loop.num
         /\ loop.pc \in {"rows", "lost"} => loop.obj \in Watchers
         /\ loop.pc \in {"rows", "listener"} /\ loop.obj \in Watchers /\ ~loop.shut
               => loop.inc = inc[loop.obj]

DWatched ==
    \A o \in D!Objs \ spoilt : own[o] # 0 => own[o] \in track /\ table[own[o]] = o

DTold == D!OwnEvents /\ D!LostIsReal

DInv == DTyped /\ DOwned /\ DLoop /\ DWatched /\ DTold

LEMMA DRecords ==
    /\ D!NoSock \in DSocks /\ D!NoSock.obj = "none" /\ D!NoSock.inc = 0
    /\ D!NoSock.queue = 0 /\ D!NoSock.over = FALSE
    /\ D!NoLoop \in DLoops /\ D!NoLoop.pc = "idle" /\ D!NoLoop.obj = "none"
    /\ D!NoLoop.shut = FALSE
  BY DEF D!NoSock, D!NoLoop, D!None, DSocks, DLoops

LEMMA DOpened ==
    ASSUME NEW r \in DSocks, NEW o \in D!Objs, NEW k \in Nat
    PROVE  LET q == [r EXCEPT !.obj = o, !.inc = k]
           IN  q \in DSocks /\ q.obj = o /\ q.inc = k
  BY DEF DSocks

LEMMA DInit == D!Init => DInv
  BY DrainsHold, DRecords DEF D!Init, DInv, DTyped, DOwned, DLoop, DWatched, DTold, D!OwnEvents,
     D!LostIsReal, D!Listening, D!None

LEMMA DOpen == ASSUME DInv, NEW o \in D!Objs, D!Open(o) PROVE DInv'
  <1> DEFINE n == D!Lowest(D!FreeFds)
  <1>1. n \in Fds /\ sock[n] = D!NoSock
    <2>1. D!FreeFds \in SUBSET Nat /\ D!FreeFds # {}
      BY DrainsHold DEF D!Open, D!FreeFds, D!DrainsAssumption
    <2>2. n \in D!FreeFds
      BY <2>1, HasLeast DEF D!Lowest
    <2> QED BY <2>2 DEF D!FreeFds
  <1>2. /\ own' = [own EXCEPT ![o] = n] /\ inc' = [inc EXCEPT ![o] = opens'] /\ opens' = opens + 1
        /\ sock' = [sock EXCEPT ![n] = [D!NoSock EXCEPT !.obj = o, !.inc = opens']]
        /\ table' = [table EXCEPT ![n] = o]
        /\ \/ /\ track' = track \cup {n}
              /\ spoilt' = IF D!At("zero") /\ n = loop.num THEN spoilt \cup {o} ELSE spoilt \ {o}
           \/ spoilt' = spoilt \cup {o} /\ track' = track
        /\ own[o] = 0 /\ UNCHANGED <<loop, event>>
    BY DEF D!Open
  <1> HIDE DEF n
  <1>3. 0 \notin Fds /\ o # "none" /\ \A p \in D!Objs : own[p] # n
    BY <1>1, DRecords, DrainsHold DEF DInv, DTyped, DOwned, DSocks, D!DrainsAssumption, D!None
  <1>4. PICK q \in DSocks : sock' = [sock EXCEPT ![n] = q] /\ q.obj = o /\ q.inc = opens'
    <2>1. opens' \in Nat
      BY <1>2 DEF DInv, DTyped
    <2> DEFINE q == [D!NoSock EXCEPT !.obj = o, !.inc = opens']
    <2>2. q \in DSocks /\ q.obj = o /\ q.inc = opens'
      BY <2>1, DRecords, DOpened
    <2>3. sock' = [sock EXCEPT ![n] = q]
      BY <1>2
    <2> HIDE DEF q
    <2> QED BY <2>2, <2>3
  <1>5. DTyped'
    <2>1. opens' \in Nat /\ n \in Fds \cup {0} /\ o \in D!Objs \cup {"none"}
      BY <1>1, <1>2 DEF DInv, DTyped
    <2>2. own' \in [D!Objs -> Fds \cup {0}] /\ inc' \in [D!Objs -> Nat]
      BY <1>2, <2>1 DEF DInv, DTyped
    <2>3. sock' \in [Fds -> DSocks]
      BY <1>4 DEF DInv, DTyped
    <2>4. track' \in SUBSET Fds /\ spoilt' \in SUBSET D!Objs
      BY <1>1, <1>2 DEF DInv, DTyped
    <2>5. table' \in [Fds -> D!Objs \cup {"none"}]
      BY <1>2, <2>1 DEF DInv, DTyped
    <2> QED BY <1>2, <2>1, <2>2, <2>3, <2>4, <2>5 DEF DInv, DTyped
  <1>6. DOwned'
    <2>1. ASSUME NEW p \in D!Objs, own'[p] # 0
          PROVE  sock'[own'[p]].obj = p /\ sock'[own'[p]].inc = inc'[p]
      BY <1>1, <1>2, <1>3, <1>4, <2>1 DEF DInv, DTyped, DOwned
    <2>2. ASSUME NEW m \in Fds, table'[m] # "none" PROVE own'[table'[m]] = m
      BY <1>1, <1>2, <1>3, <2>2 DEF DInv, DTyped, DOwned
    <2> QED BY <2>1, <2>2 DEF DOwned
  <1>7. DLoop'
    <2>1. CASE loop.pc = "idle"
      BY <1>2, <2>1 DEF DInv, DLoop
    <2>2. CASE D!Jobs
      <3>1. ASSUME loop.pc = "zero", NEW p \in D!Objs, own'[p] = loop.num PROVE p \in spoilt'
        <4>1. CASE p = o
          BY <1>2, <2>2, <3>1, <4>1 DEF DInv, DTyped, D!At
        <4>2. CASE p # o
          BY <1>2, <2>2, <3>1, <4>2 DEF DInv, DTyped, DLoop, D!Jobs
        <4> QED BY <4>1, <4>2
      <3> QED BY <1>2, <2>2, <3>1 DEF DInv, DLoop, D!Jobs
    <2>3. CASE loop.pc # "idle" /\ ~D!Jobs
      <3>1. loop.obj \in D!Objs /\ loop.num \in Fds /\ (~loop.shut => own[loop.obj] = loop.num)
        BY <2>3 DEF DInv, DLoop, D!Jobs
      <3>2. ~loop.shut => loop.obj # o
        BY <1>2, <1>3, <3>1
      <3> QED BY <1>2, <2>3, <3>1, <3>2 DEF DInv, DTyped, DLoop, D!Jobs
    <2> QED BY <2>1, <2>2, <2>3
  <1>8. DWatched'
    BY <1>1, <1>2, <1>3 DEF DInv, DTyped, DWatched
  <1>9. DTold'
    BY <1>2 DEF DInv, DTold, D!OwnEvents, D!LostIsReal, D!Listening
  <1> QED BY <1>5, <1>6, <1>7, <1>8, <1>9 DEF DInv

LEMMA DClose == ASSUME DInv, NEW o \in D!Objs, D!Close(o) PROVE DInv'
  <1> DEFINE n == own[o]
  <1>1. /\ n # 0 /\ n \in Fds /\ sock[n].obj = o /\ o # "none" /\ 0 \notin Fds
        /\ \A p \in D!Objs : own[p] = n => p = o
    BY DrainsHold DEF D!Close, DInv, DTyped, DOwned, D!DrainsAssumption, D!None
  <1>2. /\ table' = [table EXCEPT ![n] = "none"] /\ track' = track \ {n}
        /\ sock' = [sock EXCEPT ![n] = D!NoSock] /\ own' = [own EXCEPT ![o] = 0]
        /\ loop' = IF loop.obj = o THEN [loop EXCEPT !.shut = TRUE] ELSE loop
        /\ UNCHANGED <<opens, inc, event, spoilt>>
    BY DEF D!Close, D!Unwatch, D!None
  <1> HIDE DEF n
  <1>3. DTyped'
    <2>1. loop' \in DLoops
      BY <1>2 DEF DInv, DTyped, DLoops
    <2>2. sock' \in [Fds -> DSocks]
      BY <1>2, DRecords DEF DInv, DTyped
    <2>3. own' \in [D!Objs -> Fds \cup {0}] /\ table' \in [Fds -> D!Objs \cup {"none"}]
      BY <1>2 DEF DInv, DTyped
    <2> QED BY <1>2, <2>1, <2>2, <2>3 DEF DInv, DTyped
  <1>4. DOwned'
    <2>1. ASSUME NEW p \in D!Objs, own'[p] # 0
          PROVE  sock'[own'[p]].obj = p /\ sock'[own'[p]].inc = inc'[p]
      BY <1>1, <1>2, <2>1 DEF DInv, DTyped, DOwned
    <2>2. ASSUME NEW m \in Fds, table'[m] # "none" PROVE own'[table'[m]] = m
      <3>1. m # n /\ table'[m] = table[m] /\ table[m] \in D!Objs /\ own[table[m]] = m
        BY <1>1, <1>2, <2>2 DEF DInv, DTyped, DOwned
      <3>2. own \in [D!Objs -> Fds \cup {0}]
        BY DEF DInv, DTyped
      <3> QED BY <1>1, <1>2, <3>1, <3>2 DEF n
    <2> QED BY <2>1, <2>2 DEF DOwned
  <1>5. loop'.pc = loop.pc /\ loop'.obj = loop.obj /\ loop'.num = loop.num /\ loop'.inc = loop.inc
    BY <1>2 DEF DInv, DTyped, DLoops
  <1>6. DLoop'
    <2>1. CASE loop.obj = o
      BY <1>1, <1>2, <1>5, <2>1, DRecords DEF DInv, DTyped, DLoops, DLoop, D!Jobs
    <2>2. CASE loop.obj # o /\ D!Jobs
      <3>1. loop.num # 0
        BY <1>1, <2>2 DEF DInv, DLoop, D!Jobs
      <3>2. ASSUME NEW p \in D!Objs, own'[p] = loop.num PROVE own[p] = loop.num
        BY <1>2, <3>1, <3>2 DEF DInv, DTyped
      <3> QED BY <1>2, <2>2, <3>2 DEF DInv, DLoop, D!Jobs
    <2>3. CASE loop.obj # o /\ ~D!Jobs
      BY <1>2, <2>3 DEF DInv, DTyped, DLoop, D!Jobs
    <2> QED BY <2>1, <2>2, <2>3
  <1>7. DWatched'
    BY <1>1, <1>2 DEF DInv, DTyped, DWatched
  <1>8. DTold'
    BY <1>2, <1>5 DEF DInv, DTold, D!OwnEvents, D!LostIsReal, D!Listening
  <1> QED BY <1>3, <1>4, <1>6, <1>7, <1>8 DEF DInv

(* What the kernel queues changes no number's owner.                        *)
LEMMA DSame ==
    ASSUME DInv, sock' \in [Fds -> DSocks],
           \A n \in Fds : sock'[n].obj = sock[n].obj /\ sock'[n].inc = sock[n].inc,
           UNCHANGED <<own, opens, inc, table, spoilt>>,
           track' \in SUBSET Fds, loop' \in DLoops,
           DLoop', DWatched', DTold'
    PROVE  DInv'
  <1>1. DTyped'
    BY DEF DInv, DTyped
  <1>2. DOwned'
    BY DEF DInv, DTyped, DOwned
  <1> QED BY <1>1, <1>2 DEF DInv

LEMMA DQueued ==
    ASSUME DInv, NEW n \in Fds, D!Arrives(n) \/ D!Overflows(n)
    PROVE  DInv'
  <1>1. /\ sock' \in [Fds -> DSocks]
        /\ \A m \in Fds : sock'[m].obj = sock[m].obj /\ sock'[m].inc = sock[m].inc
    <2>1. \/ sock' = [sock EXCEPT ![n].queue = @ + 1]
          \/ sock' = [sock EXCEPT ![n].over = TRUE]
      BY DEF D!Arrives, D!Overflows
    <2>2. sock \in [Fds -> DSocks]
      BY DEF DInv, DTyped
    <2>3. sock[n] \in DSocks /\ sock[n].queue + 1 \in Nat
      BY <2>2 DEF DSocks
    <2>4. PICK r \in DSocks : sock' = [sock EXCEPT ![n] = r] /\ r.obj = sock[n].obj /\ r.inc = sock[n].inc
      <3>1. CASE sock' = [sock EXCEPT ![n].queue = @ + 1]
        <4> DEFINE r == [sock[n] EXCEPT !.queue = @ + 1]
        <4>1. r \in DSocks /\ r.obj = sock[n].obj /\ r.inc = sock[n].inc
          BY <2>3 DEF DSocks
        <4> QED BY <3>1, <4>1
      <3>2. CASE sock' = [sock EXCEPT ![n].over = TRUE]
        <4> DEFINE r == [sock[n] EXCEPT !.over = TRUE]
        <4>1. r \in DSocks /\ r.obj = sock[n].obj /\ r.inc = sock[n].inc
          BY <2>3 DEF DSocks
        <4> QED BY <3>2, <4>1
      <3> QED BY <2>1, <3>1, <3>2
    <2> QED BY <2>2, <2>4
  <1>2. UNCHANGED <<own, opens, inc, track, table, loop, event, spoilt>>
    BY DEF D!Arrives, D!Overflows
  <1>3. DLoop' /\ DWatched' /\ DTold'
    BY <1>2 DEF DInv, DLoop, D!Jobs, DWatched, DTold, D!OwnEvents, D!LostIsReal, D!Listening
  <1> QED BY <1>1, <1>2, <1>3, DSame DEF DInv, DTyped

LEMMA DDeliver == ASSUME DInv, NEW n \in Fds, D!Deliver(n) PROVE DInv'
  <1>1. UNCHANGED <<own, opens, inc, sock, table, event, spoilt>> /\ loop = D!NoLoop
    BY DEF D!Deliver, D!Idle
  <1>2. CASE table[n] = "none"
    <2>1. track' = track \ {n} /\ loop' = loop
      BY <1>2 DEF D!Deliver, D!None
    <2>2. DWatched'
      BY <1>1, <1>2, <2>1, DrainsHold DEF DInv, DTyped, DWatched, D!DrainsAssumption, D!None
    <2>3. DLoop' /\ DTold'
      BY <1>1, <2>1 DEF DInv, DLoop, D!Jobs, DTold, D!OwnEvents, D!LostIsReal, D!Listening
    <2> QED BY <1>1, <2>1, <2>2, <2>3, DSame DEF DInv, DTyped
  <1>3. CASE table[n] # "none"
    <2>1. loop' = [D!NoLoop EXCEPT !.obj = table[n], !.num = n, !.pc = "top"] /\ track' = track
      BY <1>3 DEF D!Deliver, D!None
    <2>2. table[n] \in D!Objs /\ own[table[n]] = n
      BY <1>3 DEF DInv, DTyped, DOwned
    <2>3. loop' \in DLoops /\ loop'.obj = table[n] /\ loop'.num = n /\ loop'.pc = "top"
      BY <2>1, <2>2, DRecords DEF DLoops
    <2>4. DLoop'
      BY <1>1, <2>2, <2>3 DEF DLoop, D!Jobs
    <2>5. DWatched' /\ DTold'
      BY <1>1, <2>1, <2>3 DEF DInv, DWatched, DTold, D!OwnEvents, D!LostIsReal, D!Listening
    <2> QED BY <1>1, <2>1, <2>3, <2>4, <2>5, DSame DEF DInv, DTyped
  <1> QED BY <1>2, <1>3

-----------------------------------------------------------------------------
(* How a handler ends.                                                      *)

LEMMA DEnded ==
    ASSUME DInv, DRuns, UNCHANGED <<own, opens, inc, sock, track>>,
           NEW m \in {"in", "zero"}, D!Returns(m),
           \/ m = "in" /\ UNCHANGED <<table, spoilt>>
           \/ /\ table' = [table EXCEPT ![loop.num] = D!None] /\ own[loop.obj] = 0
              /\ spoilt' = spoilt \cup (D!Holder \ {loop.obj})
           \/ table' = table /\ spoilt' = spoilt \cup D!Holder
    PROVE  DInv'
  <1>1. loop.num \in Fds /\ 0 \notin Fds
    BY DrainsHold DEF DInv, DLoop, DRuns, D!Jobs, D!DrainsAssumption
  <1>2. /\ loop' \in DLoops /\ loop'.pc = m /\ loop'.obj = "none" /\ loop'.num = loop.num
    BY <1>1, DRecords DEF D!Returns, DLoops
  <1>3. DTyped'
    BY <1>1, <1>2 DEF DInv, DTyped, D!Holder, D!None
  <1>4. DOwned'
    BY <1>1 DEF DInv, DTyped, DOwned, D!None
  <1>5. spoilt \subseteq spoilt' /\ (m = "zero" => D!Holder \subseteq spoilt')
    BY <1>1 DEF D!Holder
  <1>6. DLoop' /\ DTold'
    <2>1. \A o \in D!Objs : m = "zero" /\ own'[o] = loop'.num => o \in spoilt'
      BY <1>2, <1>5 DEF D!Holder
    <2> QED BY <1>1, <1>2, <2>1
            DEF DLoop, D!Jobs, DTold, D!OwnEvents, D!LostIsReal, D!Listening
  <1>7. DWatched'
    <2> SUFFICES ASSUME NEW o \in D!Objs \ spoilt', own[o] # 0
                 PROVE  own[o] \in track' /\ table'[own[o]] = o
      BY DEF DWatched
    <2>1. o \notin spoilt /\ (table' = table \/ own[o] # loop.num)
      BY <1>1, <1>5 DEF D!Holder
    <2>2. own[o] \in track /\ table[own[o]] = o
      BY <2>1 DEF DInv, DWatched
    <2> QED BY <2>1, <2>2 DEF DInv, DTyped
  <1> QED BY <1>3, <1>4, <1>6, <1>7 DEF DInv

LEMMA DReturnIn ==
    ASSUME DInv, D!ReturnIn, DRuns, UNCHANGED <<own, opens, inc, sock>>
    PROVE  DInv'
  BY DEnded DEF D!ReturnIn

LEMMA DReturnZero ==
    ASSUME DInv, D!ReturnZero, DRuns, own[loop.obj] = 0,
           UNCHANGED <<own, opens, inc, sock>>
    PROVE  DInv'
  BY DEnded DEF D!ReturnZero

LEMMA DThrows ==
    ASSUME DInv, D!Throws, DRuns, UNCHANGED <<own, opens, inc, sock>>
    PROVE  DInv'
  BY DEnded DEF D!Throws

LEMMA DTakeMask == ASSUME DInv, D!TakeMask PROVE DInv'
  <1>1. /\ D!Jobs /\ loop' = D!NoLoop /\ loop' \in DLoops /\ loop.num \in Fds
        /\ UNCHANGED <<own, opens, inc, sock, table, event, spoilt>>
    BY DRecords DEF D!TakeMask, D!Jobs, DInv, DLoop
  <1>2. track' \in SUBSET Fds
    BY <1>1 DEF D!TakeMask, DInv, DTyped
  <1>3. DLoop' /\ DTold'
    BY <1>1, DRecords DEF DLoop, DTold, D!OwnEvents, D!LostIsReal, D!Listening
  <1>4. DWatched'
    <2> SUFFICES ASSUME NEW o \in D!Objs \ spoilt, own[o] # 0
                 PROVE  own[o] \in track' /\ table[own[o]] = o
      BY <1>1 DEF DWatched
    <2>1. own[o] \in track /\ table[own[o]] = o
      BY DEF DInv, DWatched
    <2>2. D!At("zero") => own[o] # loop.num
      BY <1>1 DEF D!At, DInv, DLoop
    <2> QED BY <2>1, <2>2 DEF D!TakeMask
  <1> QED BY <1>1, <1>2, <1>3, <1>4, DSame DEF DInv, DTyped

-----------------------------------------------------------------------------
(* The steps of a running handler.                                          *)

LEMMA DGoes ==
    ASSUME DInv, DRuns, sock' \in [Fds -> DSocks],
           \A n \in Fds : sock'[n].obj = sock[n].obj /\ sock'[n].inc = sock[n].inc,
           UNCHANGED <<own, opens, inc, track, table, spoilt>>,
           loop' \in DLoops, DRuns',
           loop'.obj = loop.obj, loop'.num = loop.num, loop'.shut = loop.shut,
           loop'.pc \in {"rows", "lost"} => loop.obj \in Watchers,
           loop'.pc \in {"rows", "listener"} /\ loop.obj \in Watchers /\ ~loop.shut
               => loop'.inc = inc[loop.obj],
           DTold'
    PROVE  DInv'
  <1>1. DLoop'
    BY DEF DInv, DLoop, DRuns, D!Jobs
  <1>2. DWatched'
    BY DEF DInv, DWatched
  <1> QED BY <1>1, <1>2, DSame DEF DInv, DTyped

(* What may be told: what came to the object, or anything once it was shut. *)
LEMMA DTells ==
    ASSUME NEW f, NEW i, NEW real \in BOOLEAN, D!Tells(f, i, real), UNCHANGED <<own, inc>>,
           real \/ loop.shut,
           \/ loop.obj = f /\ inc[loop.obj] = i /\ own[loop.obj] # 0
           \/ loop.shut /\ (loop.obj \in Dgrams => own[loop.obj] # 0)
    PROVE  DTold'
  <1>1. /\ event'.to = loop.obj /\ event'.from = f /\ event'.inc = inc[loop.obj] /\ event'.was = i
        /\ event'.open = (own[loop.obj] # 0) /\ event'.shut = loop.shut /\ event'.real = real
    BY DEF D!Tells
  <1>2. event'.real \/ event'.shut
    BY <1>1
  <1>3. \/ event'.to = event'.from /\ event'.inc = event'.was /\ event'.open
        \/ event'.shut /\ (event'.to \in Dgrams => event'.open)
    BY <1>1
  <1> QED BY <1>2, <1>3 DEF DTold, D!OwnEvents, D!LostIsReal

(* Until the object is shut, the kernel's number is the object's.           *)
LEMMA DOwn ==
    ASSUME DInv, DRuns
    PROVE  /\ loop.obj \in D!Objs /\ loop.num \in Fds /\ loop.num # 0
           /\ sock[loop.num] \in DSocks
           /\ ~loop.shut => /\ own[loop.obj] = loop.num /\ own[loop.obj] # 0
                            /\ sock[loop.num].obj = loop.obj /\ sock[loop.num].inc = inc[loop.obj]
  <1>1. loop.obj \in D!Objs /\ loop.num \in Fds /\ (~loop.shut => own[loop.obj] = loop.num)
    BY DEF DInv, DLoop, DRuns, D!Jobs
  <1>2. loop.num # 0
    BY <1>1, DrainsHold DEF D!DrainsAssumption
  <1>3. sock[loop.num] \in DSocks
    BY <1>1 DEF DInv, DTyped
  <1> QED BY <1>1, <1>2, <1>3 DEF DInv, DOwned

LEMMA DTakes ==
    ASSUME DInv, D!At("top"), D!Takes, sock[loop.num].queue > 0, loop.obj \notin Watchers,
           loop.obj \in Dgrams => own[loop.obj] # 0, UNCHANGED <<own, opens, inc>>
    PROVE  DInv'
  <1>1. /\ sock' = [sock EXCEPT ![loop.num].queue = @ - 1]
        /\ D!Tells(sock[loop.num].obj, sock[loop.num].inc, TRUE)
        /\ loop' = [loop EXCEPT !.pc = "listener"] /\ UNCHANGED <<track, table, spoilt>>
    BY DEF D!Takes, D!Tells
  <1>2. /\ sock' \in [Fds -> DSocks]
        /\ \A n \in Fds : sock'[n].obj = sock[n].obj /\ sock'[n].inc = sock[n].inc
    <2> DEFINE r == [sock[loop.num] EXCEPT !.queue = @ - 1]
    <2>1. sock \in [Fds -> DSocks] /\ sock[loop.num] \in DSocks /\ loop.num \in Fds
      BY DOwn DEF DInv, DTyped, D!At, DRuns
    <2>2. r \in DSocks /\ r.obj = sock[loop.num].obj /\ r.inc = sock[loop.num].inc
      BY <2>1 DEF DSocks
    <2>3. sock' = [sock EXCEPT ![loop.num] = r]
      BY <1>1
    <2> HIDE DEF r
    <2> QED BY <2>1, <2>2, <2>3
  <1>3. /\ loop' \in DLoops /\ loop'.pc = "listener"
        /\ loop'.obj = loop.obj /\ loop'.num = loop.num /\ loop'.shut = loop.shut
    BY <1>1 DEF DInv, DTyped, DLoops
  <1>4. DTold'
    <2>1. ~loop.shut => /\ loop.obj = sock[loop.num].obj /\ inc[loop.obj] = sock[loop.num].inc
                        /\ own[loop.obj] # 0
      BY DOwn DEF D!At, DRuns
    <2> QED BY <1>1, <2>1, DTells
  <1> QED BY <1>1, <1>2, <1>3, <1>4, DGoes DEF D!At, DRuns

LEMMA DAccept == ASSUME DInv, D!AcceptOne PROVE DInv'
  <1>1. D!At("top") /\ DRuns /\ loop.obj \in Servers /\ UNCHANGED <<own, opens, inc>>
    BY DEF D!AcceptOne, D!At, DRuns
  <1>2. CASE D!Its(Servers) /\ sock[loop.num].queue > 0
    <2>1. D!Takes
      BY <1>2 DEF D!AcceptOne
    <2>2. loop.obj \notin Watchers /\ loop.obj \notin Dgrams
      BY <1>1, DrainsHold DEF D!DrainsAssumption
    <2> QED BY <1>1, <1>2, <2>1, <2>2, DTakes
  <1>3. CASE ~(D!Its(Servers) /\ sock[loop.num].queue > 0)
    BY <1>1, <1>3, DReturnIn DEF D!AcceptOne
  <1> QED BY <1>2, <1>3

LEMMA DRecv == ASSUME DInv, D!RecvOne PROVE DInv'
  <1>1. D!At("top") /\ DRuns /\ loop.obj \in Dgrams /\ UNCHANGED <<own, opens, inc>>
    BY DEF D!RecvOne, D!At, DRuns
  <1>2. CASE D!Gone /\ D!ReturnZero /\ UNCHANGED sock
    BY <1>1, <1>2, DReturnZero DEF D!Gone
  <1>3. CASE ~D!Gone /\ D!Its(Dgrams) /\ sock[loop.num].queue > 0 /\ D!Takes
    <2>1. loop.obj \notin Watchers /\ own[loop.obj] # 0
      BY <1>1, <1>3, DrainsHold DEF D!DrainsAssumption, D!Gone
    <2> QED BY <1>1, <1>3, <2>1, DTakes
  <1>4. CASE ~D!Gone /\ D!Drained /\ UNCHANGED sock
    BY <1>1, <1>4, DReturnIn DEF D!Drained
  <1>5. CASE ~D!Gone /\ D!Throws /\ UNCHANGED sock
    BY <1>1, <1>5, DThrows
  <1> QED BY <1>2, <1>3, <1>4, <1>5 DEF D!RecvOne

LEMMA DDrain == ASSUME DInv, D!DrainAll PROVE DInv'
  <1>1. /\ D!At("top") /\ DRuns /\ loop.obj \in Watchers /\ UNCHANGED <<own, opens, inc>>
        /\ loop.obj \notin Dgrams /\ loop \in DLoops
    BY DrainsHold DEF D!DrainAll, D!At, DRuns, D!DrainsAssumption, DInv, DTyped
  <1>2. sock \in [Fds -> DSocks] /\ loop.num \in Fds /\ sock[loop.num] \in DSocks
    BY <1>1, DOwn DEF DInv, DTyped
  <1>3. ASSUME NEW q \in Nat, NEW b \in BOOLEAN,
               \/ sock' = [sock EXCEPT ![loop.num].queue = q]
               \/ sock' = [sock EXCEPT ![loop.num].queue = q, ![loop.num].over = b]
        PROVE  /\ sock' \in [Fds -> DSocks]
               /\ \A n \in Fds : sock'[n].obj = sock[n].obj /\ sock'[n].inc = sock[n].inc
    <2>1. PICK r \in DSocks : /\ sock' = [sock EXCEPT ![loop.num] = r]
                              /\ r.obj = sock[loop.num].obj /\ r.inc = sock[loop.num].inc
      <3> DEFINE s == [sock[loop.num] EXCEPT !.queue = q]
                 t == [sock[loop.num] EXCEPT !.queue = q, !.over = b]
      <3>1. /\ s \in DSocks /\ s.obj = sock[loop.num].obj /\ s.inc = sock[loop.num].inc
            /\ t \in DSocks /\ t.obj = sock[loop.num].obj /\ t.inc = sock[loop.num].inc
        BY <1>2 DEF DSocks
      <3>2. sock' = [sock EXCEPT ![loop.num] = s] \/ sock' = [sock EXCEPT ![loop.num] = t]
        BY <1>2, <1>3
      <3> HIDE DEF s, t
      <3> QED BY <3>1, <3>2
    <2> QED BY <1>2, <2>1
  <1>4. ASSUME NEW real \in BOOLEAN, D!Lost(real), loop' = [loop EXCEPT !.pc = "lost"],
               real \/ loop.shut, sock' \in [Fds -> DSocks],
               \A n \in Fds : sock'[n].obj = sock[n].obj /\ sock'[n].inc = sock[n].inc
        PROVE  DInv'
    <2>1. DTold'
      BY <1>1, <1>4, DOwn, DTells DEF D!Lost, DRuns
    <2>2. /\ loop' \in DLoops /\ loop'.pc = "lost"
          /\ loop'.obj = loop.obj /\ loop'.num = loop.num /\ loop'.shut = loop.shut
      BY <1>1, <1>4 DEF DLoops
    <2> QED BY <1>1, <1>4, <2>1, <2>2, DGoes DEF D!Lost, D!Tells, DRuns
  <1>5. CASE D!DrainErrs /\ D!Lost(FALSE) /\ loop' = [loop EXCEPT !.pc = "lost"] /\ UNCHANGED sock
    <2>1. loop.shut
      BY <1>1, <1>5, DOwn DEF D!DrainErrs, D!Its
    <2> QED BY <1>2, <1>4, <1>5, <2>1
  <1>6. CASE /\ \E n \in 0 .. sock[loop.num].queue - 1 : sock' = [sock EXCEPT ![loop.num].queue = n]
             /\ D!Lost(TRUE) /\ loop' = [loop EXCEPT !.pc = "lost"]
    <2>1. PICK q \in Nat : q = sock[loop.num].queue
      BY <1>2 DEF DSocks
    <2>2. PICK n \in 0 .. q - 1 : sock' = [sock EXCEPT ![loop.num].queue = n]
      BY <1>6, <2>1
    <2>3. n \in Nat
      BY <2>2
    <2> QED BY <1>3, <1>4, <1>6, <2>2, <2>3
  <1>7. CASE /\ loop' = [loop EXCEPT !.pc = "rows", !.rows = sock[loop.num].queue,
                                     !.inc = sock[loop.num].inc, !.over = sock[loop.num].over]
             /\ sock' = [sock EXCEPT ![loop.num].queue = 0, ![loop.num].over = FALSE]
             /\ UNCHANGED <<track, table, event, spoilt>>
    <2>1. /\ loop' \in DLoops /\ loop'.pc = "rows" /\ loop'.inc = sock[loop.num].inc
          /\ loop'.obj = loop.obj /\ loop'.num = loop.num /\ loop'.shut = loop.shut
      <3>1. PICK q \in Nat, i \in Nat, b \in BOOLEAN :
               q = sock[loop.num].queue /\ i = sock[loop.num].inc /\ b = sock[loop.num].over
        BY <1>2 DEF DSocks
      <3>2. loop' = [loop EXCEPT !.pc = "rows", !.rows = q, !.inc = i, !.over = b]
        BY <1>7, <3>1
      <3> QED BY <1>1, <3>1, <3>2 DEF DLoops
    <2>2. DTold'
      BY <2>1 DEF DTold, D!OwnEvents, D!LostIsReal, D!Listening
    <2>3. ~loop.shut => loop'.inc = inc[loop.obj]
      BY <1>1, <2>1, DOwn
    <2> QED BY <1>1, <1>3, <1>7, <2>1, <2>2, <2>3, DGoes DEF DRuns
  <1>8. CASE D!ReturnIn /\ UNCHANGED sock
    BY <1>1, <1>8, DReturnIn
  <1> QED BY <1>5, <1>6, <1>7, <1>8 DEF D!DrainAll

LEMMA DRow == ASSUME DInv, D!Row PROVE DInv'
  <1>1. /\ loop.pc = "rows" /\ UNCHANGED <<own, opens, inc, sock>>
        /\ loop.obj \in Watchers /\ loop.obj \notin Dgrams /\ loop \in DLoops
        /\ sock \in [Fds -> DSocks]
        /\ ~loop.shut => loop.inc = inc[loop.obj]
    BY DrainsHold DEF D!Row, D!At, D!DrainsAssumption, DInv, DLoop, D!Jobs, DTyped
  <1>2. CASE /\ loop.rows > 0 /\ own[loop.obj] # 0 /\ D!Tells(loop.obj, loop.inc, TRUE)
             /\ loop' = [loop EXCEPT !.rows = @ - 1, !.pc = "listener"]
    <2>1. /\ loop' \in DLoops /\ loop'.pc = "listener" /\ loop'.inc = loop.inc
          /\ loop'.obj = loop.obj /\ loop'.num = loop.num /\ loop'.shut = loop.shut
      <3>1. PICK r \in Nat : loop' = [loop EXCEPT !.rows = r, !.pc = "listener"]
        <4>1. loop.rows - 1 \in Nat
          BY <1>1, <1>2 DEF DLoops
        <4> QED BY <1>2, <4>1
      <3> QED BY <1>1, <3>1 DEF DLoops
    <2>2. DTold'
      BY <1>1, <1>2, DTells
    <2> QED BY <1>1, <1>2, <2>1, <2>2, DGoes DEF D!Tells, DRuns
  <1>3. CASE /\ loop.rows > 0 /\ loop' = [loop EXCEPT !.rows = @ - 1]
             /\ UNCHANGED <<event, track, table, spoilt>>
    <2>1. /\ loop' \in DLoops /\ loop'.pc = "rows" /\ loop'.inc = loop.inc
          /\ loop'.obj = loop.obj /\ loop'.num = loop.num /\ loop'.shut = loop.shut
      BY <1>1, <1>3 DEF DLoops
    <2>2. DTold'
      BY <2>1 DEF DTold, D!OwnEvents, D!LostIsReal, D!Listening
    <2> QED BY <1>1, <1>3, <2>1, <2>2, DGoes DEF DRuns
  <1>4. CASE D!Lost(TRUE) /\ loop' = [loop EXCEPT !.over = FALSE, !.pc = "listener"]
    <2>1. /\ loop' \in DLoops /\ loop'.pc = "listener" /\ loop'.inc = loop.inc
          /\ loop'.obj = loop.obj /\ loop'.num = loop.num /\ loop'.shut = loop.shut
      BY <1>1, <1>4 DEF DLoops
    <2>2. DTold'
      BY <1>1, <1>4, DOwn, DTells DEF D!Lost, DRuns
    <2> QED BY <1>1, <1>4, <2>1, <2>2, DGoes DEF D!Lost, D!Tells, DRuns
  <1> QED BY <1>2, <1>3, <1>4 DEF D!Row

LEMMA DRowsEnd == ASSUME DInv, D!RowsEnd PROVE DInv'
  <1>1. /\ loop.pc = "rows" /\ loop' = [loop EXCEPT !.pc = "top"] /\ loop \in DLoops
        /\ UNCHANGED <<own, opens, inc, sock, track, table, event, spoilt>> /\ sock \in [Fds -> DSocks]
    BY DEF D!RowsEnd, D!At, DInv, DTyped
  <1>2. /\ loop' \in DLoops /\ loop'.pc = "top"
        /\ loop'.obj = loop.obj /\ loop'.num = loop.num /\ loop'.shut = loop.shut
    BY <1>1 DEF DLoops
  <1>3. DTold'
    BY <1>2 DEF DTold, D!OwnEvents, D!LostIsReal, D!Listening
  <1> QED BY <1>1, <1>2, <1>3, DGoes DEF DRuns

LEMMA DReturns == ASSUME DInv, D!ListenerReturns PROVE DInv'
  <1>1. /\ loop.pc \in {"listener", "lost"} /\ UNCHANGED <<own, opens, inc, sock>>
        /\ loop \in DLoops /\ sock \in [Fds -> DSocks]
    BY DEF D!ListenerReturns, D!Listening, DInv, DTyped
  <1>2. CASE D!ReturnIn
    BY <1>1, <1>2, DReturnIn DEF DRuns
  <1>3. CASE loop.pc = "listener" /\ ~D!ReturnIn
    <2>1. /\ UNCHANGED <<track, table, event, spoilt>>
          /\ loop' = [loop EXCEPT !.pc = IF loop.obj \in Watchers THEN "rows" ELSE "top"]
      BY <1>3 DEF D!ListenerReturns, D!At
    <2>2. /\ loop' \in DLoops /\ loop'.inc = loop.inc
          /\ loop'.pc = IF loop.obj \in Watchers THEN "rows" ELSE "top"
          /\ loop'.obj = loop.obj /\ loop'.num = loop.num /\ loop'.shut = loop.shut
      BY <1>1, <2>1 DEF DLoops
    <2>3. DTold'
      BY <2>2 DEF DTold, D!OwnEvents, D!LostIsReal, D!Listening
    <2>4. loop.obj \in Watchers /\ ~loop.shut => loop.inc = inc[loop.obj]
      BY <1>3 DEF DInv, DLoop, D!Jobs
    <2> QED BY <1>1, <2>1, <2>2, <2>3, <2>4, DGoes DEF DRuns
  <1> QED BY <1>1, <1>2, <1>3 DEF D!ListenerReturns, D!At

LEMMA DStep == ASSUME DInv, [D!Next]_D!vars PROVE DInv'
  <1>1. CASE \E o \in D!Objs : D!Open(o) \/ D!Close(o)
    BY <1>1, DOpen, DClose
  <1>2. CASE \E n \in Fds : D!Arrives(n) \/ D!Overflows(n) \/ D!Deliver(n)
    BY <1>2, DQueued, DDeliver
  <1>3. CASE D!AcceptOne \/ D!RecvOne \/ D!DrainAll
    BY <1>3, DAccept, DRecv, DDrain
  <1>4. CASE D!Row \/ D!RowsEnd \/ D!ListenerReturns
    BY <1>4, DRow, DRowsEnd, DReturns
  <1>5. CASE D!ListenerThrows
    BY <1>5, DThrows DEF D!ListenerThrows, D!Listening, DRuns
  <1>6. CASE UNCHANGED D!vars
    BY <1>6 DEF D!vars, DInv, DTyped, DOwned, DLoop, D!Jobs, DWatched, DTold, D!OwnEvents,
                D!LostIsReal, D!Listening
  <1>7. CASE D!TakeMask
    BY <1>7, DTakeMask
  <1> QED BY <1>1, <1>2, <1>3, <1>4, <1>5, <1>6, <1>7 DEF D!Next

(* What Drains' safety rests on: the kernel, pol, the running handler and   *)
(* the object itself agree on who has which number (net.c, fsw.c, pol.c).   *)
THEOREM DrainsInv == D!Spec => []DInv
  <1> QED BY DInit, DStep, PTL DEF D!Spec

(* Whatever the script closes and opens while a handler takes all there is, *)
(* what an object tells came to it since it was opened (net.c, fsw.c).      *)
THEOREM EventsAreOwn == D!Spec => []OwnEvents
  <1>1. DInv => OwnEvents
    BY DEF DInv, DTold, OwnEvents
  <1> QED BY <1>1, DrainsInv, PTL

(* Between handlers pol watches whatever is open, but for what a handler's  *)
(* own 0, a throw or a failing watch cost (net.c, pol.c).                   *)
THEOREM OpenStaysWatched == D!Spec => []StaysWatched
  <1>1. DInv => StaysWatched
    BY DEF DInv, DWatched, StaysWatched, D!StaysWatched
  <1> QED BY <1>1, DrainsInv, PTL

(* The watcher calls events lost only when they were, until fsw.stop.       *)
THEOREM LossIsReal == D!Spec => []LostIsReal
  <1>1. DInv => LostIsReal
    BY DEF DInv, DTold, LostIsReal
  <1> QED BY <1>1, DrainsInv, PTL

-----------------------------------------------------------------------------
(* Maps: the owners are the wrappers whose end gives their map back, those  *)
(* whose record still describes it.  No two owners have one base, so what   *)
(* one of them frees is never another's.                                    *)

MRecs == [kind : {"none", "slot", "once", "ram"}, base : Addrs \cup {"unmapped"},
          fd : Fds \cup {0}, gen : Nat, held : BOOLEAN, view : BOOLEAN]

MOwners == {w \in M!Alive : wrap[w].kind = "slot" => M!OwnsSlot(w)}

MTyped ==
    /\ wrap \in [Wraps -> MRecs] /\ IsFiniteSet(M!Alive)
    /\ \A w \in M!Alive : wrap[w].base \in Addrs /\ (wrap[w].kind = "slot" => wrap[w].fd \in Fds)
    /\ slot \in [Fds -> Addrs \cup {"unmapped"}] /\ gen \in [Fds -> Nat]
    /\ mapped \in SUBSET Addrs /\ plain \in SUBSET Fds
    /\ mark \in [map : Nat, fd : Nat]

(* A record that was made for a slot is of the slot's generation or before. *)
MGens == \A w \in M!Slotted : wrap[w].gen <= gen[wrap[w].fd]

MOne == \A v, w \in MOwners : wrap[v].base = wrap[w].base => v = w

MViews == \A w \in Wraps : M!Viewed(w) => w \in MOwners

(* The maps and the booked slots are the owners'.                           *)
MBooks ==
    /\ \A a \in Addrs : a \in mapped <=> \E w \in MOwners : wrap[w].base = a
    /\ \A f \in Fds : slot[f] # "unmapped" <=>
                        \E w \in MOwners : wrap[w].kind = "slot" /\ wrap[w].fd = f

MInv == MTyped /\ MGens /\ MOne /\ MViews /\ MBooks /\ M!SweepsInTime

(* Maps has its own name for the library's operator.                        *)
LEMMA MCardinality == \A S : M!Cardinality(S) = Cardinality(S)
  BY DEF M!Cardinality, Cardinality

LEMMA MInit == M!Init => MInv
  <1> SUFFICES ASSUME M!Init PROVE MInv
    OBVIOUS
  <1>1. M!NoWrap \in MRecs /\ M!NoWrap.kind = "none"
    BY DEF M!NoWrap, MRecs, M!Unmapped
  <1>2. M!Alive = {} /\ M!Slotted = {} /\ MOwners = {} /\ M!Tangled = {}
    BY <1>1 DEF M!Init, M!Alive, M!Slotted, M!Tangled, MOwners
  <1>3. MTyped
    BY <1>1, <1>2, FS_EmptySet, MapsHold DEF M!Init, MTyped, M!Unmapped, M!MapsAssumption
  <1>4. MGens /\ MOne /\ MViews /\ MBooks
    <2>1. \A w \in Wraps : ~M!Viewed(w)
      BY DEF M!Init, M!Viewed, M!NoWrap
    <2> QED BY <1>2, <2>1 DEF M!Init, MGens, MOne, MViews, MBooks, M!Unmapped
  <1>5. M!SweepsInTime
    <2>1. Cardinality(M!Alive) = 0 /\ Cardinality(M!Slotted) = 0
      BY <1>2, FS_EmptySet
    <2>2. PinMaps \in Nat /\ PinFds \in Nat
      BY MapsHold DEF M!MapsAssumption
    <2> QED BY <2>1, <2>2, MCardinality DEF M!Init, M!SweepsInTime
  <1> QED BY <1>3, <1>4, <1>5 DEF MInv

LEMMA MShown == MInv => M!ViewsMapped /\ M!NoneOrphaned
  <1> SUFFICES ASSUME MInv PROVE M!ViewsMapped /\ M!NoneOrphaned
    OBVIOUS
  <1>1. M!ViewsMapped
    <2>1. ASSUME NEW w \in M!Alive, M!Viewed(w)
          PROVE  /\ w \in MOwners /\ wrap[w].base \in mapped
                 /\ wrap[w].kind = "slot" => M!OwnsSlot(w)
      <3>1. w \in MOwners
        BY <2>1 DEF MInv, MViews, M!Alive
      <3> QED BY <3>1 DEF MInv, MTyped, MBooks, MOwners
    <2> QED BY <2>1 DEF M!ViewsMapped, MInv, MOne
  <1>2. mapped = M!Unmaps(M!Alive)
    BY DEF M!Unmaps, MInv, MTyped, MBooks, MOwners
  <1>3. M!Booked = M!Closes(M!Alive)
    BY DEF M!Booked, M!Closes, M!Slotted, M!Unmapped, MInv, MTyped, MBooks, MOwners
  <1> QED BY <1>1, <1>2, <1>3 DEF M!NoneOrphaned

-----------------------------------------------------------------------------
(* What the free_funcs of a set of wrappers leave.                          *)

LEMMA MLess ==
    ASSUME MInv, NEW G \in SUBSET M!Alive
    PROVE  LET less == M!SlotLess(M!Closes(G)) IN
           /\ less \in [Fds -> Addrs \cup {"unmapped"}]
           /\ \A f \in Fds : less[f] \in {slot[f], "unmapped"}
           /\ \A w \in M!Slotted \ G :
                 less[wrap[w].fd] = wrap[w].base /\ gen[wrap[w].fd] = wrap[w].gen
                    <=> w \in MOwners
           /\ \A a \in Addrs :
                 a \in mapped \ M!Unmaps(G) <=> \E w \in MOwners \ G : wrap[w].base = a
           /\ \A f \in Fds :
                 less[f] # "unmapped" <=>
                    \E w \in MOwners \ G : wrap[w].kind = "slot" /\ wrap[w].fd = f
  <1> DEFINE less == M!SlotLess(M!Closes(G))
  <1>1. "unmapped" \notin Addrs
    BY MapsHold DEF M!MapsAssumption
  <1>2. /\ less \in [Fds -> Addrs \cup {"unmapped"}]
        /\ \A f \in Fds : less[f] = IF f \in M!Closes(G) THEN "unmapped" ELSE slot[f]
    BY DEF M!SlotLess, M!Unmapped, MInv, MTyped
  <1>3. \A f \in Fds : f \in M!Closes(G) <=>
                          \E x \in G : x \in MOwners /\ wrap[x].kind = "slot" /\ wrap[x].fd = f
    BY DEF M!Closes, M!Slotted, MOwners
  <1>4. \A x \in MOwners : wrap[x].kind = "slot" => slot[wrap[x].fd] = wrap[x].base
    BY DEF MOwners, M!OwnsSlot
  <1>5. \A x, w \in MOwners : wrap[x].kind = "slot" /\ wrap[w].kind = "slot"
                              /\ wrap[x].fd = wrap[w].fd => x = w
    BY <1>4 DEF MInv, MOne
  <1> HIDE DEF less
  <1>6. ASSUME NEW w \in M!Slotted \ G
        PROVE  less[wrap[w].fd] = wrap[w].base /\ gen[wrap[w].fd] = wrap[w].gen <=> w \in MOwners
    <2>1. w \in M!Alive /\ wrap[w].kind = "slot" /\ wrap[w].fd \in Fds /\ wrap[w].base \in Addrs
      BY DEF M!Slotted, MInv, MTyped
    <2>2. CASE w \in MOwners
      BY <1>2, <1>3, <1>5, <2>1, <2>2 DEF MOwners, M!OwnsSlot
    <2>3. CASE w \notin MOwners
      BY <1>1, <1>2, <2>1, <2>3 DEF MOwners, M!OwnsSlot
    <2> QED BY <2>2, <2>3
  <1>7. \A a \in Addrs : a \in mapped \ M!Unmaps(G) <=> \E w \in MOwners \ G : wrap[w].base = a
    <2>1. \A a \in Addrs : a \in M!Unmaps(G) <=> \E x \in G : x \in MOwners /\ wrap[x].base = a
      BY DEF M!Unmaps, MOwners
    <2> QED BY <2>1 DEF MInv, MOne, MBooks
  <1>8. \A f \in Fds : less[f] # "unmapped" <=>
            \E w \in MOwners \ G : wrap[w].kind = "slot" /\ wrap[w].fd = f
    BY <1>2, <1>3, <1>5 DEF MInv, MBooks
  <1> QED BY <1>2, <1>6, <1>7, <1>8 DEF less

(* The pins after that.                                                     *)
LEMMA MPinLess ==
    ASSUME MInv, NEW G \in SUBSET M!Alive
    PROVE  /\ IsFiniteSet(M!Alive \ G) /\ IsFiniteSet(M!Slotted \ G)
           /\ Cardinality(M!Alive \ G) \in Nat /\ Cardinality(M!Slotted \ G) \in Nat
           /\ M!PinLess(G) = [map |-> Cardinality(M!Alive \ G), fd |-> Cardinality(M!Slotted \ G)]
           /\ Cardinality(M!Alive \ G) <= pin.map /\ Cardinality(M!Slotted \ G) <= pin.fd
           /\ pin.map \in Nat /\ pin.fd \in Nat
  <1>1. IsFiniteSet(M!Alive) /\ IsFiniteSet(M!Slotted)
    BY FS_Subset DEF MInv, MTyped, M!Slotted
  <1>2. /\ Cardinality(M!Alive) \in Nat /\ Cardinality(M!Slotted) \in Nat
        /\ IsFiniteSet(M!Alive \cap G) /\ IsFiniteSet(M!Slotted \cap G)
        /\ Cardinality(M!Alive \cap G) \in Nat /\ Cardinality(M!Slotted \cap G) \in Nat
    BY <1>1, FS_CardinalityType, FS_Intersection
  <1>3. /\ IsFiniteSet(M!Alive \ G)
        /\ Cardinality(M!Alive \ G) = Cardinality(M!Alive) - Cardinality(M!Alive \cap G)
    BY <1>1, FS_Difference
  <1>4. /\ IsFiniteSet(M!Slotted \ G)
        /\ Cardinality(M!Slotted \ G) = Cardinality(M!Slotted) - Cardinality(M!Slotted \cap G)
    BY <1>1, FS_Difference
  <1>5. Cardinality(M!Alive \ G) \in Nat /\ Cardinality(M!Slotted \ G) \in Nat
    BY <1>3, <1>4, FS_CardinalityType
  <1>6. pin.map = Cardinality(M!Alive) /\ pin.fd = Cardinality(M!Slotted)
    BY MCardinality DEF MInv, M!SweepsInTime
  <1>7. G = M!Alive \cap G /\ G \cap M!Slotted = M!Slotted \cap G
    OBVIOUS
  <1>8. /\ M!Floor(pin.map, Cardinality(G)) = Cardinality(M!Alive \ G)
        /\ M!Floor(pin.fd, Cardinality(G \cap M!Slotted)) = Cardinality(M!Slotted \ G)
    <2>1. Cardinality(G) = Cardinality(M!Alive \cap G)
      BY <1>7
    <2>2. Cardinality(G \cap M!Slotted) = Cardinality(M!Slotted \cap G)
      BY <1>7
    <2>3. \A n, k \in Nat : n - k \in Nat => M!Floor(n, k) = n - k
      BY DEF M!Floor
    <2>4. M!Floor(pin.map, Cardinality(G)) = Cardinality(M!Alive \ G)
      BY <1>2, <1>3, <1>5, <1>6, <2>1, <2>3
    <2>5. M!Floor(pin.fd, Cardinality(G \cap M!Slotted)) = Cardinality(M!Slotted \ G)
      BY <1>2, <1>4, <1>5, <1>6, <2>2, <2>3
    <2> QED BY <2>4, <2>5
  <1>9. /\ M!Cardinality(G) = Cardinality(G)
        /\ M!Cardinality(G \cap M!Slotted) = Cardinality(G \cap M!Slotted)
    BY MCardinality
  <1>10. M!PinLess(G) = [map |-> Cardinality(M!Alive \ G), fd |-> Cardinality(M!Slotted \ G)]
    BY <1>8, <1>9, Zenon DEF M!PinLess
  <1>11. Cardinality(M!Alive \ G) <= pin.map /\ Cardinality(M!Slotted \ G) <= pin.fd
    BY <1>2, <1>3, <1>4, <1>6
  <1>12. pin.map \in Nat /\ pin.fd \in Nat
    BY <1>2, <1>6
  <1> QED BY <1>3, <1>4, <1>5, <1>10, <1>11, <1>12

(* After the sweep of a new map there is room for it under the marks; the   *)
(* sweep took all dead wrappers, or the descriptors are below their mark.   *)
LEMMA MMarks ==
    ASSUME MInv
    PROVE  /\ M!Swept \in SUBSET M!Alive /\ M!Marks \in [map : Nat, fd : Nat]
           /\ Cardinality(M!Alive \ M!Swept) < M!Marks.map
           /\ Cardinality(M!Slotted \ M!Swept) < M!Marks.fd
           /\ \/ M!Swept = M!Tangled
              \/ M!Swept = {} /\ pin.fd < mark.fd /\ M!Marks = mark
  <1>1. PinMaps \in Nat \ {0} /\ PinFds \in Nat \ {0} /\ mark \in [map : Nat, fd : Nat]
    BY MapsHold DEF M!MapsAssumption, MInv, MTyped
  <1>2. CASE M!BelowMarks
    <2>1. M!Swept = {} /\ M!Marks = mark /\ pin.map < mark.map /\ pin.fd < mark.fd
      BY <1>2 DEF M!Swept, M!Marks, M!BelowMarks
    <2>2. Cardinality(M!Alive \ M!Swept) <= pin.map /\ Cardinality(M!Slotted \ M!Swept) <= pin.fd
      BY <2>1, MPinLess
    <2>3. /\ Cardinality(M!Alive \ M!Swept) \in Nat /\ Cardinality(M!Slotted \ M!Swept) \in Nat
          /\ pin.map \in Nat /\ pin.fd \in Nat
      BY <2>1, MPinLess
    <2> QED BY <1>1, <2>1, <2>2, <2>3
  <1>3. CASE ~M!BelowMarks
    <2>1. /\ M!Swept = M!Tangled
          /\ M!Marks = [map |-> M!PinLess(M!Tangled).map + PinMaps,
                        fd |-> M!PinLess(M!Tangled).fd + PinFds]
      BY <1>3 DEF M!Swept, M!Marks
    <2>2. M!Tangled \in SUBSET M!Alive
      BY DEF M!Tangled
    <2>3. /\ Cardinality(M!Alive \ M!Tangled) \in Nat /\ Cardinality(M!Slotted \ M!Tangled) \in Nat
          /\ M!PinLess(M!Tangled) = [map |-> Cardinality(M!Alive \ M!Tangled),
                                     fd |-> Cardinality(M!Slotted \ M!Tangled)]
      BY <2>2, MPinLess
    <2>4. /\ M!Marks.map = Cardinality(M!Alive \ M!Tangled) + PinMaps
          /\ M!Marks.fd = Cardinality(M!Slotted \ M!Tangled) + PinFds
          /\ M!Marks \in [map : Nat, fd : Nat]
      BY <1>1, <2>1, <2>3
    <2> QED BY <1>1, <2>1, <2>2, <2>3, <2>4
  <1> QED BY <1>2, <1>3

(* A step after which the pins are right, and not past the marks.           *)
LEMMA MPinned ==
    ASSUME NEW m \in Nat, NEW n \in Nat,
           Cardinality(M!Alive)' = m, Cardinality(M!Slotted)' = n,
           pin' = [map |-> m, fd |-> n], m <= mark'.map, n <= mark'.fd,
           refused' => \/ M!Tangled' \cap M!Slotted' = {}
                       \/ mark'.fd > Cardinality(Fds \ plain')
    PROVE  M!SweepsInTime'
  <1>1. /\ M!Cardinality(M!Alive)' = m /\ M!Cardinality(M!Slotted)' = n
        /\ M!Cardinality(Fds \ plain)' = Cardinality(Fds \ plain')
    BY MCardinality
  <1> QED BY <1>1 DEF M!SweepsInTime

LEMMA MFreed ==
    ASSUME MInv, NEW G \in SUBSET M!Alive, M!Freed(G),
           gen' \in [Fds -> Nat],
           \A f \in Fds : gen'[f] >= gen[f] /\ (gen'[f] # gen[f] => slot'[f] = "unmapped"),
           plain' \in SUBSET Fds, mark' \in [map : Nat, fd : Nat],
           Cardinality(M!Alive \ G) <= mark'.map, Cardinality(M!Slotted \ G) <= mark'.fd,
           refused' => \/ M!Tangled' \cap M!Slotted' = {}
                       \/ mark'.fd > Cardinality(Fds \ plain')
    PROVE  MInv' /\ M!Tangled' = M!Tangled \ G
  <1> DEFINE less == M!SlotLess(M!Closes(G))
  <1>1. /\ wrap' = [w \in Wraps |-> IF w \in G THEN M!NoWrap ELSE wrap[w]]
        /\ slot' = less /\ mapped' = mapped \ M!Unmaps(G) /\ pin' = M!PinLess(G)
    BY DEF M!Freed, M!WrapLess
  <1>2. "unmapped" \notin Addrs /\ M!NoWrap \in MRecs /\ M!NoWrap.kind = "none"
    BY MapsHold DEF M!MapsAssumption, M!NoWrap, MRecs, M!Unmapped
  <1>3. /\ less \in [Fds -> Addrs \cup {"unmapped"}]
        /\ \A w \in M!Slotted \ G :
              less[wrap[w].fd] = wrap[w].base /\ gen[wrap[w].fd] = wrap[w].gen <=> w \in MOwners
        /\ \A a \in Addrs : a \in mapped \ M!Unmaps(G) <=> \E w \in MOwners \ G : wrap[w].base = a
        /\ \A f \in Fds : less[f] # "unmapped" <=>
              \E w \in MOwners \ G : wrap[w].kind = "slot" /\ wrap[w].fd = f
    BY MLess
  <1> HIDE DEF less
  <1>4. wrap \in [Wraps -> MRecs] /\ wrap' \in [Wraps -> MRecs]
    BY <1>1, <1>2 DEF MInv, MTyped
  <1>5. /\ M!Alive' = M!Alive \ G /\ M!Slotted' = M!Slotted \ G /\ M!Tangled' = M!Tangled \ G
        /\ \A w \in M!Alive \ G : wrap'[w] = wrap[w]
    BY <1>1, <1>2, <1>4 DEF M!Alive, M!Slotted, M!Tangled
  <1>6. MOwners' = MOwners \ G
    <2>1. ASSUME NEW w \in M!Slotted \ G PROVE M!OwnsSlot(w)' <=> w \in MOwners
      <3>1. wrap'[w] = wrap[w] /\ wrap[w].fd \in Fds /\ wrap[w].base \in Addrs
        BY <1>5 DEF M!Slotted, MInv, MTyped
      <3>2. CASE gen'[wrap[w].fd] = gen[wrap[w].fd]
        BY <1>1, <1>3, <3>1, <3>2 DEF M!OwnsSlot
      <3>3. CASE gen'[wrap[w].fd] # gen[wrap[w].fd]
        <4>1. less[wrap[w].fd] # wrap[w].base
          BY <1>1, <1>2, <3>1, <3>3
        <4> QED BY <1>1, <1>3, <3>1, <4>1 DEF M!OwnsSlot
      <3> QED BY <3>2, <3>3
    <2>2. ASSUME NEW w \in M!Alive \ G, wrap[w].kind # "slot" PROVE w \in MOwners
      BY <2>2 DEF MOwners
    <2> QED BY <1>5, <2>1, <2>2 DEF MOwners, M!Slotted
  <1>7. MTyped'
    <2>1. IsFiniteSet(M!Alive')
      BY <1>5, MPinLess
    <2>2. \A w \in M!Alive' : wrap'[w].base \in Addrs /\ (wrap'[w].kind = "slot" => wrap'[w].fd \in Fds)
      BY <1>5 DEF MInv, MTyped
    <2>3. mapped' \in SUBSET Addrs
      BY <1>1 DEF MInv, MTyped
    <2> QED BY <1>1, <1>3, <1>4, <2>1, <2>2, <2>3 DEF MTyped
  <1>8. MGens'
    <2> SUFFICES ASSUME NEW w \in M!Slotted \ G PROVE wrap'[w].gen <= gen'[wrap'[w].fd]
      BY <1>5 DEF MGens
    <2>1. /\ wrap'[w] = wrap[w] /\ wrap[w].fd \in Fds /\ wrap[w].gen <= gen[wrap[w].fd]
          /\ wrap[w].gen \in Nat /\ gen \in [Fds -> Nat]
      BY <1>4, <1>5 DEF M!Slotted, M!Alive, MInv, MTyped, MGens, MRecs
    <2> QED BY <2>1
  <1>9. MOne' /\ MViews'
    <2>1. MOne'
      BY <1>5, <1>6 DEF MOne, MInv, MOwners
    <2>2. ASSUME NEW w \in Wraps, M!Viewed(w)' PROVE w \in MOwners \ G
      <3>1. ~M!NoWrap.held
        BY DEF M!NoWrap
      <3>2. w \notin G /\ M!Viewed(w)
        BY <1>1, <2>2, <3>1 DEF M!Viewed
      <3> QED BY <3>2 DEF MViews, MInv
    <2> QED BY <1>6, <2>1, <2>2 DEF MViews
  <1>10. MBooks'
    <2>1. \A w \in MOwners \ G : wrap'[w] = wrap[w]
      BY <1>5 DEF MOwners
    <2>2. ASSUME NEW a \in Addrs PROVE a \in mapped' <=> \E w \in MOwners' : wrap'[w].base = a
      <3>1. a \in mapped' <=> \E w \in MOwners \ G : wrap[w].base = a
        BY <1>1, <1>3
      <3> QED BY ONLY <1>6, <2>1, <3>1
    <2>3. ASSUME NEW f \in Fds
          PROVE  slot'[f] # "unmapped" <=> \E w \in MOwners' : wrap'[w].kind = "slot" /\ wrap'[w].fd = f
      <3>1. slot'[f] # "unmapped" <=> \E w \in MOwners \ G : wrap[w].kind = "slot" /\ wrap[w].fd = f
        BY <1>1, <1>3
      <3> QED BY ONLY <1>6, <2>1, <3>1
    <2> QED BY <2>2, <2>3 DEF MBooks
  <1>11. M!SweepsInTime'
    <2>1. PICK m \in Nat, n \in Nat : m = Cardinality(M!Alive \ G) /\ n = Cardinality(M!Slotted \ G)
      BY MPinLess
    <2>2. pin' = [map |-> m, fd |-> n]
      BY <1>1, <2>1, MPinLess
    <2>3. Cardinality(M!Alive)' = m /\ Cardinality(M!Slotted)' = n
      BY <1>5, <2>1
    <2> QED BY <2>1, <2>2, <2>3, MPinned
  <1> QED BY <1>5, <1>7, <1>8, <1>9, <1>10, <1>11 DEF MInv

(* The wrapper of a new map, over what the sweep left.                      *)
LEMMA MHanded ==
    ASSUME MInv, NEW w \in Wraps, NEW kind \in {"slot", "once", "ram"}, NEW a \in Addrs,
           NEW f \in Fds \cup {0}, NEW g \in Nat, M!Hand(w, kind, a, f, g),
           IF kind = "slot"
           THEN /\ f \in Fds /\ M!SlotLess(M!Closes(M!Swept))[f] = "unmapped"
                /\ gen' = [gen EXCEPT ![f] = @ + 1] /\ g = gen[f] + 1
                /\ slot' = [M!SlotLess(M!Closes(M!Swept)) EXCEPT ![f] = a]
           ELSE gen' = gen /\ slot' = M!SlotLess(M!Closes(M!Swept)),
           plain' = plain, refused' = FALSE
    PROVE  MInv'
  <1> DEFINE G == M!Swept
             less == M!SlotLess(M!Closes(G))
             new == [kind |-> kind, base |-> a, fd |-> f, gen |-> g, held |-> TRUE, view |-> TRUE]
  <1>1. /\ wrap' = [M!WrapLess(G) EXCEPT ![w] = new]
        /\ mapped' = (mapped \ M!Unmaps(G)) \cup {a} /\ mark' = M!Marks
        /\ pin' = [map |-> M!PinLess(G).map + 1,
                   fd |-> M!PinLess(G).fd + IF kind = "slot" THEN 1 ELSE 0]
        /\ w \notin M!Alive \ G /\ a \notin mapped \ M!Unmaps(G)
    BY DEF M!Hand
  <1>2. "unmapped" \notin Addrs /\ M!NoWrap \in MRecs /\ M!NoWrap.kind = "none"
    BY MapsHold DEF M!MapsAssumption, M!NoWrap, MRecs, M!Unmapped
  <1>3. /\ G \in SUBSET M!Alive /\ M!Marks \in [map : Nat, fd : Nat]
        /\ Cardinality(M!Alive \ G) < M!Marks.map /\ Cardinality(M!Slotted \ G) < M!Marks.fd
    BY MMarks
  <1>4. /\ less \in [Fds -> Addrs \cup {"unmapped"}]
        /\ \A x \in M!Slotted \ G :
              less[wrap[x].fd] = wrap[x].base /\ gen[wrap[x].fd] = wrap[x].gen <=> x \in MOwners
        /\ \A b \in Addrs : b \in mapped \ M!Unmaps(G) <=> \E x \in MOwners \ G : wrap[x].base = b
        /\ \A e \in Fds : less[e] # "unmapped" <=>
              \E x \in MOwners \ G : wrap[x].kind = "slot" /\ wrap[x].fd = e
    BY <1>3, MLess
  <1>5. /\ new \in MRecs /\ new.kind = kind /\ new.base = a /\ new.fd = f /\ new.gen = g
    BY DEF MRecs
  <1>6. IF kind = "slot"
        THEN /\ f \in Fds /\ less[f] = "unmapped" /\ gen' = [gen EXCEPT ![f] = @ + 1]
             /\ g = gen[f] + 1 /\ slot' = [less EXCEPT ![f] = a]
        ELSE gen' = gen /\ slot' = less
    OBVIOUS
  <1> HIDE DEF G, less, new
  <1>7. /\ wrap \in [Wraps -> MRecs] /\ wrap' \in [Wraps -> MRecs] /\ wrap'[w] = new
        /\ \A x \in Wraps : x # w => wrap'[x] = IF x \in G THEN M!NoWrap ELSE wrap[x]
    BY <1>1, <1>2, <1>5 DEF MInv, MTyped, M!WrapLess
  <1>8. /\ M!Alive' = (M!Alive \ G) \cup {w}
        /\ M!Slotted' = (M!Slotted \ G) \cup (IF kind = "slot" THEN {w} ELSE {})
        /\ \A x \in M!Alive \ G : x # w /\ wrap'[x] = wrap[x]
    BY <1>1, <1>2, <1>5, <1>7 DEF M!Alive, M!Slotted
  <1>9. gen \in [Fds -> Nat] /\ gen' \in [Fds -> Nat] /\ slot' \in [Fds -> Addrs \cup {"unmapped"}]
    BY <1>4, <1>6 DEF MInv, MTyped
  <1>10. MOwners' = (MOwners \ G) \cup {w}
    <2>1. ASSUME NEW x \in M!Slotted \ G PROVE M!OwnsSlot(x)' <=> x \in MOwners
      <3>1. /\ wrap'[x] = wrap[x] /\ wrap[x].fd \in Fds /\ wrap[x].base \in Addrs
            /\ wrap[x].gen <= gen[wrap[x].fd] /\ wrap[x].gen \in Nat
        BY <1>7, <1>8 DEF M!Slotted, M!Alive, MInv, MTyped, MGens, MRecs
      <3>2. CASE kind = "slot" /\ wrap[x].fd = f
        <4>1. gen'[f] = gen[f] + 1 /\ less[f] # wrap[x].base
          BY <1>2, <1>6, <1>9, <3>1, <3>2
        <4>2. gen'[wrap[x].fd] # wrap[x].gen
          BY <1>9, <3>1, <3>2, <4>1
        <4> QED BY <1>4, <3>1, <3>2, <4>1, <4>2 DEF M!OwnsSlot
      <3>3. CASE ~(kind = "slot" /\ wrap[x].fd = f)
        <4>1. slot'[wrap[x].fd] = less[wrap[x].fd] /\ gen'[wrap[x].fd] = gen[wrap[x].fd]
          BY <1>4, <1>6, <1>9, <3>1, <3>3
        <4> QED BY <1>4, <3>1, <4>1 DEF M!OwnsSlot
      <3> QED BY <3>2, <3>3
    <2>2. ASSUME NEW x \in M!Alive \ G, wrap[x].kind # "slot" PROVE x \in MOwners
      BY <2>2 DEF MOwners
    <2>3. kind = "slot" => M!OwnsSlot(w)'
      BY <1>4, <1>5, <1>6, <1>7, <1>9 DEF M!OwnsSlot
    <2> QED BY <1>5, <1>7, <1>8, <2>1, <2>2, <2>3 DEF MOwners, M!Slotted
  <1>11. MTyped'
    <2>1. IsFiniteSet(M!Alive')
      BY <1>3, <1>8, MPinLess, FS_AddElement
    <2>2. \A x \in M!Alive' : wrap'[x].base \in Addrs /\ (wrap'[x].kind = "slot" => wrap'[x].fd \in Fds)
      BY <1>5, <1>6, <1>7, <1>8 DEF MInv, MTyped
    <2>3. mapped' \in SUBSET Addrs /\ mark' \in [map : Nat, fd : Nat] /\ plain' \in SUBSET Fds
      BY <1>1, <1>3 DEF MInv, MTyped
    <2> QED BY <1>7, <1>9, <2>1, <2>2, <2>3 DEF MTyped
  <1>12. MGens'
    <2> SUFFICES ASSUME NEW x \in M!Slotted' PROVE wrap'[x].gen <= gen'[wrap'[x].fd]
      BY DEF MGens
    <2>1. CASE x = w
      <3>1. kind = "slot" /\ wrap'[x] = new
        BY <1>1, <1>7, <1>8, <2>1 DEF M!Slotted
      <3> QED BY <1>5, <1>6, <1>9, <3>1
    <2>2. CASE x # w
      <3>1. x \in M!Slotted \ G
        BY <1>8, <2>2
      <3>2. /\ wrap'[x] = wrap[x] /\ wrap[x].fd \in Fds /\ wrap[x].gen <= gen[wrap[x].fd]
            /\ wrap[x].gen \in Nat
        BY <1>7, <1>8, <3>1 DEF M!Slotted, M!Alive, MInv, MTyped, MGens, MRecs
      <3>3. gen'[wrap[x].fd] >= gen[wrap[x].fd] /\ gen'[wrap[x].fd] \in Nat /\ gen[wrap[x].fd] \in Nat
        BY <1>6, <1>9, <3>2
      <3> QED BY <3>2, <3>3
    <2> QED BY <2>1, <2>2
  <1>13. \A x \in MOwners \ G : wrap'[x] = wrap[x] /\ wrap[x].base \in Addrs /\ wrap[x].base # a
    BY <1>1, <1>4, <1>8 DEF MOwners, MInv, MTyped
  <1>14. MOne'
    BY <1>5, <1>7, <1>10, <1>13 DEF MOne, MInv
  <1>15. MViews'
    <2>1. ASSUME NEW x \in Wraps \ {w}, M!Viewed(x)' PROVE x \in MOwners \ G
      <3>1. ~M!NoWrap.held
        BY DEF M!NoWrap
      <3>2. x \notin G /\ M!Viewed(x)
        BY <1>7, <2>1, <3>1 DEF M!Viewed
      <3> QED BY <3>2 DEF MViews, MInv
    <2> QED BY <1>10, <2>1 DEF MViews
  <1>16. MBooks'
    <2>1. ASSUME NEW b \in Addrs PROVE b \in mapped' <=> \E x \in MOwners' : wrap'[x].base = b
      BY <1>1, <1>4, <1>5, <1>7, <1>10, <1>13
    <2>2. ASSUME NEW e \in Fds
          PROVE  slot'[e] # "unmapped" <=> \E x \in MOwners' : wrap'[x].kind = "slot" /\ wrap'[x].fd = e
      <3>1. CASE kind = "slot" /\ e = f
        BY <1>2, <1>4, <1>5, <1>6, <1>7, <1>10, <3>1
      <3>2. CASE ~(kind = "slot" /\ e = f)
        <4>1. slot'[e] = less[e]
          BY <1>4, <1>6, <3>2
        <4> QED BY <1>4, <1>5, <1>7, <1>10, <1>13, <3>2, <4>1
      <3> QED BY <3>1, <3>2
    <2> QED BY <2>1, <2>2 DEF MBooks
  <1>17. M!SweepsInTime'
    <2>1. PICK m \in Nat, n \in Nat : m = Cardinality(M!Alive \ G) /\ n = Cardinality(M!Slotted \ G)
      BY <1>3, MPinLess
    <2>2. IsFiniteSet(M!Alive \ G) /\ IsFiniteSet(M!Slotted \ G) /\ M!PinLess(G) = [map |-> m, fd |-> n]
      BY <1>3, <2>1, MPinLess
    <2>3. Cardinality(M!Alive') = m + 1
      BY <1>1, <1>8, <2>1, <2>2, FS_AddElement
    <2>4. Cardinality(M!Slotted') = n + IF kind = "slot" THEN 1 ELSE 0
      <3>1. w \notin M!Slotted \ G
        BY <1>1 DEF M!Slotted
      <3>2. CASE kind = "slot"
        BY <1>8, <2>1, <2>2, <3>1, <3>2, FS_AddElement
      <3>3. CASE kind # "slot"
        BY <1>8, <2>1, <3>3
      <3> QED BY <3>2, <3>3
    <2>5. PICK k \in Nat : k = n + IF kind = "slot" THEN 1 ELSE 0
      OBVIOUS
    <2>6. pin' = [map |-> m + 1, fd |-> k]
      BY <1>1, <2>2, <2>5
    <2>7. m + 1 <= mark'.map /\ k <= mark'.fd
      <3>1. mark'.map \in Nat /\ mark'.fd \in Nat /\ m < mark'.map /\ n < mark'.fd
        BY <1>1, <1>3, <2>1
      <3> QED BY <2>5, <3>1
    <2> QED BY <2>3, <2>4, <2>5, <2>6, <2>7, MPinned
  <1> QED BY <1>11, <1>12, <1>14, <1>15, <1>16, <1>17 DEF MInv

(* A step that frees nothing and gives nothing out.                         *)
LEMMA MKept ==
    ASSUME MInv, wrap' \in [Wraps -> MRecs],
           \A w \in Wraps :
              /\ wrap'[w].kind = wrap[w].kind /\ wrap'[w].base = wrap[w].base
              /\ wrap'[w].fd = wrap[w].fd /\ wrap'[w].gen = wrap[w].gen
              /\ M!Viewed(w)' => M!Viewed(w),
           UNCHANGED <<slot, gen, mapped, pin, mark>>, plain' \in SUBSET Fds, refused' = FALSE
    PROVE  MInv'
  <1>1. M!Alive' = M!Alive /\ M!Slotted' = M!Slotted
    BY DEF M!Alive, M!Slotted
  <1>2. MOwners' = MOwners
    BY <1>1 DEF MOwners, M!OwnsSlot, M!Alive
  <1>3. MTyped'
    BY <1>1 DEF MInv, MTyped, M!Alive
  <1>4. MGens'
    BY <1>1 DEF MInv, MGens, M!Slotted, M!Alive
  <1>5. MOne' /\ MBooks'
    BY <1>2 DEF MInv, MOne, MBooks, MOwners, M!Alive
  <1>6. MViews'
    BY <1>1, <1>2 DEF MInv, MViews, M!Alive
  <1>7. M!SweepsInTime'
    <2>1. M!Cardinality(M!Alive)' = M!Cardinality(M!Alive) /\ M!Cardinality(M!Slotted)' = M!Cardinality(M!Slotted)
      BY <1>1
    <2> QED BY <2>1 DEF MInv, M!SweepsInTime
  <1> QED BY <1>3, <1>4, <1>5, <1>6, <1>7 DEF MInv

-----------------------------------------------------------------------------
(* The operations.                                                          *)

(* The numbers that are left for a map, and the lowest of them.             *)
LEMMA MLeft ==
    ASSUME MInv, M!FreeFds \cup M!Closes(M!Swept) # {}
    PROVE  LET f == M!Lowest(M!FreeFds \cup M!Closes(M!Swept)) IN
           f \in Fds /\ M!SlotLess(M!Closes(M!Swept))[f] = "unmapped"
  <1> DEFINE left == M!FreeFds \cup M!Closes(M!Swept)
  <1>1. left \in SUBSET Fds
    BY MMarks DEF M!FreeFds, M!Closes, M!Slotted, MInv, MTyped
  <1>2. left \in SUBSET Nat
    BY <1>1, MapsHold DEF M!MapsAssumption
  <1>3. M!Lowest(left) \in left
    BY <1>2, HasLeast DEF M!Lowest
  <1>4. \A f \in left : M!SlotLess(M!Closes(M!Swept))[f] = "unmapped"
    BY <1>1 DEF M!SlotLess, M!FreeFds, M!Booked, M!Unmapped
  <1> QED BY <1>1, <1>3, <1>4

LEMMA MMmapSlot ==
    ASSUME MInv, NEW w \in Wraps, NEW a \in Addrs, M!MmapSlot(w, a), refused' = FALSE
    PROVE  MInv'
  <1> DEFINE f == M!Lowest(M!FreeFds \cup M!Closes(M!Swept))
  <1>1. M!FreeFds \cup M!Closes(M!Swept) # {}
    BY DEF M!MmapSlot
  <1>2. f \in Fds /\ M!SlotLess(M!Closes(M!Swept))[f] = "unmapped"
    BY <1>1, MLeft
  <1>3. /\ gen' = [gen EXCEPT ![f] = @ + 1]
        /\ slot' = [M!SlotLess(M!Closes(M!Swept)) EXCEPT ![f] = a]
        /\ M!Hand(w, "slot", a, f, gen[f] + 1) /\ plain' = plain
    BY DEF M!MmapSlot
  <1> HIDE DEF f
  <1>4. gen[f] + 1 \in Nat
    BY <1>2 DEF MInv, MTyped
  <1> QED BY <1>2, <1>3, <1>4, MHanded

LEMMA MMmapFree ==
    ASSUME MInv, NEW w \in Wraps, NEW a \in Addrs, NEW kind \in {"once", "ram"},
           M!MmapFree(w, a, kind), refused' = FALSE
    PROVE  MInv'
  <1>1. /\ slot' = M!SlotLess(M!Closes(M!Swept)) /\ M!Hand(w, kind, a, 0, 0)
        /\ gen' = gen /\ plain' = plain /\ kind # "slot"
    BY DEF M!MmapFree
  <1> QED BY <1>1, MHanded

(* Below the marks nothing was swept, so that with no number left there are *)
(* fewer numbers than the mark allows slots.                                *)
LEMMA MRefused ==
    ASSUME MInv, M!Swept = {}, pin.fd < mark.fd, M!FreeFds = {}
    PROVE  mark.fd > Cardinality(Fds \ plain)
  <1>1. PICK h \in [M!Slotted -> Fds] : \A w \in M!Slotted : h[w] = wrap[w].fd
    <2> DEFINE h == [w \in M!Slotted |-> wrap[w].fd]
    <2>1. h \in [M!Slotted -> Fds]
      BY DEF MInv, MTyped, M!Slotted
    <2> QED BY <2>1
  <1> DEFINE held == {h[w] : w \in M!Slotted}
             k == [w \in M!Slotted |-> h[w]]
  <1>2. Fds \ plain \in SUBSET held
    <2> SUFFICES ASSUME NEW f \in Fds \ plain PROVE \E w \in M!Slotted : h[w] = f
      OBVIOUS
    <2>1. slot[f] # "unmapped"
      BY DEF M!FreeFds, M!Booked, M!Unmapped
    <2> QED BY <1>1, <2>1 DEF MInv, MBooks, MOwners, M!Slotted
  <1>3. k \in Surjection(M!Slotted, held)
    BY DEF Surjection
  <1>4. IsFiniteSet(M!Slotted) /\ Cardinality(M!Slotted) = pin.fd /\ pin.fd \in Nat
    <2>1. IsFiniteSet(M!Slotted)
      BY FS_Subset DEF MInv, MTyped, M!Slotted
    <2>2. pin.fd = Cardinality(M!Slotted)
      BY MCardinality DEF MInv, M!SweepsInTime
    <2> QED BY <2>1, <2>2, FS_CardinalityType
  <1>5. IsFiniteSet(held) /\ Cardinality(held) <= Cardinality(M!Slotted)
    BY <1>3, <1>4, FS_Surjection
  <1>6. IsFiniteSet(Fds \ plain) /\ Cardinality(Fds \ plain) <= Cardinality(held)
    BY <1>2, <1>5, FS_Subset
  <1>7. Cardinality(Fds \ plain) \in Nat /\ Cardinality(held) \in Nat
    BY <1>5, <1>6, FS_CardinalityType
  <1> HIDE DEF held
  <1>8. mark.fd \in Nat
    BY DEF MInv, MTyped
  <1> QED BY <1>4, <1>5, <1>6, <1>7, <1>8

LEMMA MMmapFails == ASSUME MInv, M!MmapFails PROVE MInv'
  <1> DEFINE left == M!FreeFds \cup M!Closes(M!Swept)
             f == M!Lowest(left)
             less == M!SlotLess(M!Closes(M!Swept))
  <1>1. /\ M!Freed(M!Swept) /\ mark' = M!Marks /\ refused' = (left = {}) /\ plain' = plain
        /\ \/ gen' = gen
           \/ left # {} /\ gen' = [gen EXCEPT ![f] = @ + 1]
    BY DEF M!MmapFails
  <1>2. left # {} => f \in Fds /\ less[f] = "unmapped"
    BY MLeft
  <1>3. slot' = less /\ gen \in [Fds -> Nat]
    BY <1>1 DEF M!Freed, MInv, MTyped
  <1>4. /\ M!Swept \in SUBSET M!Alive /\ M!Marks \in [map : Nat, fd : Nat]
        /\ Cardinality(M!Alive \ M!Swept) <= M!Marks.map
        /\ Cardinality(M!Slotted \ M!Swept) <= M!Marks.fd
    <2>1. /\ M!Swept \in SUBSET M!Alive /\ M!Marks \in [map : Nat, fd : Nat]
          /\ Cardinality(M!Alive \ M!Swept) < M!Marks.map
          /\ Cardinality(M!Slotted \ M!Swept) < M!Marks.fd
      BY MMarks
    <2>2. Cardinality(M!Alive \ M!Swept) \in Nat /\ Cardinality(M!Slotted \ M!Swept) \in Nat
      BY <2>1, MPinLess
    <2>3. M!Marks.map \in Nat /\ M!Marks.fd \in Nat
      BY <2>1
    <2> QED BY <2>1, <2>2, <2>3
  <1>5. left = {} => M!FreeFds = {}
    OBVIOUS
  <1> HIDE DEF left, f, less
  <1>6. /\ gen' \in [Fds -> Nat]
        /\ \A e \in Fds : gen'[e] >= gen[e] /\ (gen'[e] # gen[e] => slot'[e] = "unmapped")
    BY <1>1, <1>2, <1>3
  <1>7. refused' => \/ M!Tangled' \cap M!Slotted' = {}
                    \/ mark'.fd > Cardinality(Fds \ plain')
    <2>1. CASE M!Swept = M!Tangled
      <3>1. \A w \in M!Tangled : wrap'[w] = M!NoWrap
        BY <1>1, <2>1 DEF M!Freed, M!WrapLess, M!Tangled, M!Alive
      <3>2. \A w \in Wraps : w \notin M!Tangled => wrap'[w] = wrap[w]
        BY <1>1, <2>1 DEF M!Freed, M!WrapLess
      <3>3. M!Tangled' = {}
        <4>1. M!NoWrap.kind = "none"
          BY DEF M!NoWrap
        <4> QED BY <3>1, <3>2, <4>1 DEF M!Tangled, M!Alive
      <3> QED BY <3>3
    <2>2. CASE M!Swept = {} /\ pin.fd < mark.fd /\ M!Marks = mark
      <3>1. ASSUME left = {} PROVE mark.fd > Cardinality(Fds \ plain)
        BY <1>5, <2>2, <3>1, MRefused
      <3> QED BY <1>1, <2>2, <3>1
    <2> QED BY <2>1, <2>2, MMarks
  <1>8. plain' \in SUBSET Fds
    BY <1>1 DEF MInv, MTyped
  <1> QED BY <1>1, <1>4, <1>6, <1>7, <1>8, MFreed

LEMMA MDrops ==
    ASSUME MInv, NEW G \in SUBSET M!Alive, M!Freed(G), UNCHANGED <<gen, plain, mark>>,
           refused' = FALSE
    PROVE  MInv'
  <1>1. gen \in [Fds -> Nat] /\ plain \in SUBSET Fds /\ mark \in [map : Nat, fd : Nat]
    BY DEF MInv, MTyped
  <1>2. Cardinality(M!Alive \ G) <= mark.map /\ Cardinality(M!Slotted \ G) <= mark.fd
    <2>1. PICK m \in Nat, n \in Nat : /\ m = Cardinality(M!Alive \ G) /\ n = Cardinality(M!Slotted \ G)
                                      /\ m <= pin.map /\ n <= pin.fd
                                      /\ pin.map \in Nat /\ pin.fd \in Nat
      BY MPinLess
    <2>2. pin.map <= mark.map /\ pin.fd <= mark.fd /\ mark.map \in Nat /\ mark.fd \in Nat
      BY <1>1 DEF MInv, M!SweepsInTime
    <2>3. m <= mark.map /\ n <= mark.fd
      BY <2>1, <2>2
    <2> QED BY <2>1, <2>3
  <1>3. \A f \in Fds : gen'[f] >= gen[f] /\ (gen'[f] # gen[f] => slot'[f] = "unmapped")
    BY <1>1
  <1> QED BY <1>1, <1>2, <1>3, MFreed

LEMMA MDrop == ASSUME MInv, NEW w \in Wraps, M!Drop(w), refused' = FALSE PROVE MInv'
  <1>1. w \in M!Alive /\ UNCHANGED <<gen, plain, mark>>
    BY DEF M!Drop
  <1>2. CASE M!Freed({w})
    BY <1>1, <1>2, MDrops
  <1>3. CASE wrap' = [wrap EXCEPT ![w].held = FALSE] /\ UNCHANGED <<slot, mapped, pin>>
    <2>1. wrap \in [Wraps -> MRecs] /\ plain \in SUBSET Fds
      BY DEF MInv, MTyped
    <2>2. wrap' \in [Wraps -> MRecs]
      BY <1>3, <2>1 DEF MRecs
    <2>3. \A x \in Wraps :
              /\ wrap'[x].kind = wrap[x].kind /\ wrap'[x].base = wrap[x].base
              /\ wrap'[x].fd = wrap[x].fd /\ wrap'[x].gen = wrap[x].gen
              /\ M!Viewed(x)' => M!Viewed(x)
      BY <1>3, <2>1 DEF MRecs, M!Viewed
    <2> QED BY <1>1, <1>3, <2>1, <2>2, <2>3, MKept
  <1> QED BY <1>2, <1>3 DEF M!Drop

(* abc.close finds by the base the slot of its own wrapper, or none.        *)
LEMMA MClose == ASSUME MInv, NEW w \in Wraps, M!Close(w), refused' = FALSE PROVE MInv'
  <1> DEFINE base == wrap[w].base
  <1>1. /\ M!Viewed(w) /\ wrap' = [wrap EXCEPT ![w].view = FALSE]
        /\ UNCHANGED <<gen, plain, pin, mark>>
    BY DEF M!Close
  <1>2. /\ wrap \in [Wraps -> MRecs] /\ plain \in SUBSET Fds
        /\ slot \in [Fds -> Addrs \cup {"unmapped"}] /\ "unmapped" \notin Addrs
    BY MapsHold DEF MInv, MTyped, M!MapsAssumption
  <1>3. wrap' \in [Wraps -> MRecs]
    BY <1>1, <1>2 DEF MRecs
  <1>4. \A x \in Wraps :
            /\ wrap'[x].kind = wrap[x].kind /\ wrap'[x].base = wrap[x].base
            /\ wrap'[x].fd = wrap[x].fd /\ wrap'[x].gen = wrap[x].gen
            /\ M!Viewed(x)' => x # w /\ M!Viewed(x)
    BY <1>1, <1>2 DEF MRecs, M!Viewed
  <1>5. CASE UNCHANGED <<slot, mapped>>
    BY <1>1, <1>2, <1>3, <1>4, <1>5, MKept
  <1>6. CASE /\ slot' = M!SlotLess(M!ByBase(base)) /\ M!ByBase(base) = {} /\ mapped' = mapped
    <2>1. slot' = slot
      BY <1>2, <1>6 DEF M!SlotLess
    <2> QED BY <1>5, <1>6, <2>1
  <1>7. CASE /\ slot' = M!SlotLess(M!ByBase(base)) /\ M!ByBase(base) # {}
             /\ mapped' = mapped \ {base} /\ w \in M!Alive
    <2>1. w \in MOwners /\ base \in Addrs
      BY <1>1, <1>7 DEF MInv, MViews, MTyped
    <2>2. /\ M!Alive' = M!Alive /\ M!Slotted' = M!Slotted /\ M!Alive \subseteq Wraps
      BY <1>4 DEF M!Alive, M!Slotted
    <2>3. \A x \in MOwners : wrap[x].kind = "slot" => slot[wrap[x].fd] = wrap[x].base /\ wrap[x].fd \in Fds
      BY DEF MOwners, M!OwnsSlot, MInv, MTyped
    <2>4. wrap[w].kind = "slot" /\ M!ByBase(base) = {wrap[w].fd} /\ wrap[w].fd \in Fds
      <3>1. ASSUME NEW f \in M!ByBase(base) PROVE wrap[w].kind = "slot" /\ f = wrap[w].fd
        <4>1. f \in Fds /\ slot[f] = base /\ slot[f] # "unmapped"
          BY <1>2, <2>1 DEF M!ByBase
        <4>2. PICK x \in MOwners : wrap[x].kind = "slot" /\ wrap[x].fd = f
          BY <4>1 DEF MInv, MBooks
        <4>3. x = w
          BY <2>1, <2>3, <4>1, <4>2 DEF MInv, MOne
        <4> QED BY <4>2, <4>3
      <3>2. wrap[w].kind = "slot"
        BY <1>7, <3>1
      <3> QED BY <1>7, <2>1, <2>3, <3>1, <3>2
    <2>5. slot' = [f \in Fds |-> IF f = wrap[w].fd THEN "unmapped" ELSE slot[f]]
      BY <1>7, <2>4 DEF M!SlotLess, M!Unmapped
    <2>6. \A x \in MOwners : x # w => /\ wrap[x].base # base
                                      /\ wrap[x].kind = "slot" => wrap[x].fd # wrap[w].fd
      BY <2>1, <2>3, <2>4 DEF MInv, MOne
    <2>7. MOwners' = MOwners \ {w}
      <3>1. ~M!OwnsSlot(w)'
        BY <1>2, <1>4, <2>1, <2>4, <2>5 DEF M!OwnsSlot
      <3>2. ASSUME NEW x \in M!Slotted, x # w PROVE M!OwnsSlot(x)' <=> M!OwnsSlot(x)
        <4>1. /\ wrap'[x].fd = wrap[x].fd /\ wrap'[x].base = wrap[x].base
              /\ wrap'[x].gen = wrap[x].gen /\ wrap[x].fd \in Fds /\ wrap[x].base \in Addrs
          BY <1>4 DEF M!Slotted, M!Alive, MInv, MTyped
        <4>2. CASE wrap[x].fd = wrap[w].fd
          <5>1. x \notin MOwners /\ ~M!OwnsSlot(x)
            BY <2>6, <3>2, <4>2 DEF MOwners, M!Slotted
          <5> QED BY <1>2, <2>5, <4>1, <4>2, <5>1 DEF M!OwnsSlot
        <4>3. CASE wrap[x].fd # wrap[w].fd
          BY <1>1, <2>5, <4>1, <4>3 DEF M!OwnsSlot
        <4> QED BY <4>2, <4>3
      <3> QED BY <1>4, <2>2, <2>4, <3>1, <3>2 DEF MOwners, M!Slotted
    <2>8. MTyped'
      <3>1. slot' \in [Fds -> Addrs \cup {"unmapped"}] /\ mapped' \in SUBSET Addrs
        BY <1>2, <1>7, <2>5 DEF MInv, MTyped
      <3>2. \A x \in M!Alive' : wrap'[x].base \in Addrs /\ (wrap'[x].kind = "slot" => wrap'[x].fd \in Fds)
        BY <1>4, <2>2 DEF MInv, MTyped
      <3> QED BY <1>1, <1>3, <2>2, <3>1, <3>2 DEF MInv, MTyped
    <2>9. MGens'
      BY <1>1, <1>4, <2>2 DEF MInv, MGens, M!Slotted, M!Alive
    <2>10. MOne'
      BY <1>4, <2>7 DEF MInv, MOne, MOwners, M!Alive
    <2>11. MViews'
      BY <1>4, <2>2, <2>7 DEF MInv, MViews, M!Alive
    <2>12. MBooks'
      <3>1. \A x \in MOwners : wrap'[x].base = wrap[x].base /\ wrap'[x].kind = wrap[x].kind
                               /\ wrap'[x].fd = wrap[x].fd
        BY <1>4 DEF MOwners, M!Alive
      <3>2. ASSUME NEW a \in Addrs PROVE a \in mapped' <=> \E x \in MOwners' : wrap'[x].base = a
        <4>1. a \in mapped' <=> a # base /\ \E x \in MOwners : wrap[x].base = a
          BY <1>7 DEF MInv, MBooks
        <4> QED BY ONLY <2>6, <2>7, <3>1, <4>1
      <3>3. ASSUME NEW f \in Fds
            PROVE  slot'[f] # "unmapped" <=> \E x \in MOwners' : wrap'[x].kind = "slot" /\ wrap'[x].fd = f
        <4>1. slot'[f] # "unmapped" <=>
                  f # wrap[w].fd /\ \E x \in MOwners : wrap[x].kind = "slot" /\ wrap[x].fd = f
          BY <2>5 DEF MInv, MBooks
        <4> QED BY ONLY <2>6, <2>7, <3>1, <4>1
      <3> QED BY <3>2, <3>3 DEF MBooks
    <2>13. M!SweepsInTime'
      <3>1. M!Cardinality(M!Alive)' = M!Cardinality(M!Alive) /\ M!Cardinality(M!Slotted)' = M!Cardinality(M!Slotted)
        BY <2>2
      <3> QED BY <1>1, <3>1 DEF MInv, M!SweepsInTime
    <2> QED BY <2>8, <2>9, <2>10, <2>11, <2>12, <2>13 DEF MInv
  <1>8. w \in M!Alive
    BY <1>1 DEF MInv, MViews, MOwners
  <1> QED BY <1>5, <1>6, <1>7, <1>8 DEF M!Close

LEMMA MStep == ASSUME MInv, [M!Next]_M!vars PROVE MInv'
  <1>1. CASE M!MmapFails
    BY <1>1, MMmapFails
  <1>2. CASE refused' = FALSE /\ \E w \in Wraps, a \in Addrs : M!MmapSlot(w, a)
    BY <1>2, MMmapSlot
  <1>3. CASE refused' = FALSE /\ \E w \in Wraps, a \in Addrs, kind \in {"once", "ram"} : M!MmapFree(w, a, kind)
    BY <1>3, MMmapFree
  <1>4. CASE refused' = FALSE /\ \E w \in Wraps : M!Drop(w) \/ M!Close(w)
    BY <1>4, MDrop, MClose
  <1>5. CASE refused' = FALSE /\ M!Collect
    <2>1. M!Freed(M!Tangled) /\ UNCHANGED <<gen, plain, mark>> /\ M!Tangled \in SUBSET M!Alive
      BY <1>5 DEF M!Collect, M!Tangled
    <2> QED BY <1>5, <2>1, MDrops
  <1>6. CASE refused' = FALSE /\ (M!Open \/ \E f \in Fds : M!CloseFd(f))
    <2>1. UNCHANGED <<wrap, slot, gen, mapped, pin, mark>>
      BY <1>6 DEF M!Open, M!CloseFd
    <2>2. plain' \in SUBSET Fds
      <3>1. CASE M!Open
        <4>1. M!FreeFds \in SUBSET Nat /\ M!FreeFds \in SUBSET Fds /\ M!FreeFds # {}
          BY <3>1, MapsHold DEF M!Open, M!FreeFds, M!MapsAssumption
        <4>2. M!Lowest(M!FreeFds) \in M!FreeFds
          BY <4>1, HasLeast DEF M!Lowest
        <4> QED BY <3>1, <4>1, <4>2 DEF M!Open, MInv, MTyped
      <3>2. CASE \E f \in Fds : M!CloseFd(f)
        BY <3>2 DEF M!CloseFd, MInv, MTyped
      <3> QED BY <1>6, <3>1, <3>2
    <2>3. wrap' \in [Wraps -> MRecs] /\ \A w \in Wraps : M!Viewed(w)' => M!Viewed(w)
      BY <2>1 DEF M!Viewed, MInv, MTyped
    <2> QED BY <1>6, <2>1, <2>2, <2>3, MKept
  <1>7. CASE UNCHANGED M!vars
    <2>1. UNCHANGED <<wrap, slot, gen, mapped, plain, pin, mark, refused>>
      BY <1>7 DEF M!vars
    <2>2. UNCHANGED <<M!Alive, M!Slotted, MOwners, M!Tangled>>
      BY <2>1 DEF M!Alive, M!Slotted, MOwners, M!Tangled, M!OwnsSlot
    <2>3. MTyped' /\ MGens' /\ MOne' /\ MViews' /\ MBooks'
      BY <2>1, <2>2 DEF MInv, MTyped, MGens, MOne, MViews, MBooks, M!Viewed
    <2>4. M!SweepsInTime'
      BY <2>1, <2>2 DEF MInv, M!SweepsInTime
    <2> QED BY <2>3, <2>4 DEF MInv
  <1> QED BY <1>1, <1>2, <1>3, <1>4, <1>5, <1>6, <1>7 DEF M!Next

(* What Maps' safety rests on: a wrapper that still describes its map is    *)
(* the only one that does, whatever stale wrappers are collected later      *)
(* (io.c, cont.c).                                                          *)
THEOREM MapsInv == M!Spec => []MInv
  <1> QED BY MInit, MStep, PTL DEF M!Spec

(* Memory that a view can reach is mapped and its wrapper's alone, whatever *)
(* addresses and descriptors are given out again (io.c, cont.c).            *)
THEOREM ViewsStayMapped == M!Spec => []ViewsMapped
  <1>1. MInv => ViewsMapped
    BY MShown DEF ViewsMapped
  <1> QED BY <1>1, MapsInv, PTL

(* Nothing is mapped and no descriptor booked without a wrapper whose end   *)
(* gives it back (io.c).                                                    *)
THEOREM NothingOrphaned == M!Spec => []NoneOrphaned
  <1>1. MInv => NoneOrphaned
    BY MShown DEF NoneOrphaned
  <1> QED BY <1>1, MapsInv, PTL

(* The pins are what is not yet freed and never past the marks, and a map   *)
(* is not refused while dead wrappers within the marks hold descriptors.    *)
THEOREM SweepsComeInTime == M!Spec => []SweepsInTime
  <1>1. MInv => SweepsInTime
    BY DEF MInv, SweepsInTime
  <1> QED BY <1>1, MapsInv, PTL

-----------------------------------------------------------------------------
(* PupPage: a run, its table and a needle, as numbers.                      *)

PTyped ==
    /\ lane \in {"kv64", "wh128"} /\ run \in P!Runs /\ toc \in {P!Toc(run), <<>>}
    /\ needle \in Keys

PInv == PTyped /\ GetExact /\ KeyedRangeExact

PNeedle == P!Needle(needle)

LEMMA PRows ==
    ASSUME PTyped
    PROVE  /\ run \in Seq(P!Rows) /\ Len(run) \in Nat
           /\ \A i \in 1 .. Len(run) : run[i].key \in Nat /\ run[i].val \in Nat
           /\ \A i, j \in 1 .. Len(run) : i < j => P!Before(run[i], run[j])
           /\ needle \in Nat /\ Per \in Nat \ {0}
  <1>1. run \in Seq(P!Rows) /\ \A i, j \in 1 .. Len(run) : i < j => P!Before(run[i], run[j])
    BY DEF PTyped, P!Runs
  <1>2. \A i \in 1 .. Len(run) : run[i] \in P!Rows
    BY <1>1
  <1>3. \A i \in 1 .. Len(run) : run[i].key \in Nat /\ run[i].val \in Nat
    BY <1>2, PagesHold DEF P!Rows, P!PupPageAssumption
  <1>4. needle \in Nat /\ Per \in Nat \ {0}
    BY PagesHold DEF PTyped, P!PupPageAssumption
  <1> QED BY <1>1, <1>3, <1>4

(* A row is before the needle if its key is; the needle is before a row if  *)
(* the row has a greater key, or, in wh128, a greater value.                *)
LEMMA PBefore ==
    ASSUME PTyped, NEW r, r.key \in Nat, r.val \in Nat
    PROVE  /\ P!Before(r, PNeedle) <=> r.key < needle
           /\ P!Before(PNeedle, r) <=>
                needle < r.key \/ (lane = "wh128" /\ needle = r.key /\ 0 < r.val)
           /\ PNeedle.key = needle
  <1>1. PNeedle.key = needle /\ PNeedle.val = 0 /\ needle \in Nat
    BY PRows DEF PNeedle, P!Needle
  <1> QED BY <1>1 DEF P!Before

(* FindGE is the first place that is not before the needle, or one too far. *)
LEMMA PFind ==
    ASSUME PTyped, NEW s, NEW f \in Nat, NEW l \in Nat,
           \A i \in f .. l : s[i].key \in Nat /\ s[i].val \in Nat
    PROVE  LET g == P!FindGE(s, f, l, PNeedle) IN
           \/ /\ g \in f .. l /\ s[g].key >= needle
              /\ \A j \in f .. l : j < g => s[j].key < needle
           \/ /\ g = l + 1
              /\ \A j \in f .. l : s[j].key < needle
  <1> DEFINE after == {i \in f .. l : ~P!Before(s[i], PNeedle)}
             g == P!FindGE(s, f, l, PNeedle)
  <1>1. \A i \in f .. l : i \in after <=> s[i].key >= needle
    <2>1. \A i \in f .. l : P!Before(s[i], PNeedle) <=> s[i].key < needle
      BY PBefore
    <2>2. needle \in Nat
      BY PRows
    <2> QED BY <2>1, <2>2
  <1>2. g = IF after = {} THEN l + 1 ELSE CHOOSE i \in after : \A j \in after : i <= j
    BY DEF P!FindGE
  <1>3. after \in SUBSET Nat
    OBVIOUS
  <1>4. CASE after = {}
    <2>1. \A j \in f .. l : s[j].key < needle
      BY <1>1, <1>4, PRows
    <2> QED BY <1>2, <1>4, <2>1
  <1>5. CASE after # {}
    <2>1. g \in after /\ \A j \in after : g <= j
      BY <1>2, <1>3, <1>5, HasLeast
    <2>2. g \in f .. l
      BY <2>1
    <2>3. \A j \in f .. l : j < g => s[j].key < needle
      BY <1>1, <2>1, <2>2, PRows
    <2> QED BY <1>1, <2>1, <2>2, <2>3
  <1> QED BY <1>4, <1>5

LEMMA PPages ==
    ASSUME NEW k \in Nat \ {0}, NEW n \in Nat
    PROVE  \E q \in Nat : q = (n + k - 1) \div k /\ q * k >= n /\ (q - 1) * k < n
  <1> DEFINE q == (n + k - 1) \div k
  <1>1. q \in Nat
    OBVIOUS
  <1>2. q * k >= n
    OBVIOUS
  <1>3. (q - 1) * k < n
    OBVIOUS
  <1> QED BY <1>1, <1>2, <1>3

(* The cells are the first rows of the pages; the pages cover the run.      *)
LEMMA PCells ==
    ASSUME PTyped, toc # <<>>
    PROVE  /\ Len(toc) \in Nat \ {0} /\ Len(toc) * Per >= Len(run)
           /\ \A p \in 1 .. Len(toc) :
                 (p - 1) * Per + 1 \in 1 .. Len(run) /\ toc[p] = run[(p - 1) * Per + 1]
  <1>1. PICK n \in Nat : n = Len(run)
    BY PRows
  <1>2. PICK q \in Nat : q = (n + Per - 1) \div Per /\ q * Per >= n /\ (q - 1) * Per < n
    BY PRows, PPages
  <1>3. toc = [p \in 1 .. q |-> run[(p - 1) * Per + 1]]
    BY <1>1, <1>2 DEF PTyped, P!Toc, P!Pages
  <1>4. Len(toc) = q
    BY <1>3
  <1>5. Per \in Nat \ {0}
    BY PRows
  <1>6. ASSUME NEW p \in 1 .. q PROVE (p - 1) * Per + 1 \in 1 .. n
    <2>1. (p - 1) * Per >= 0 /\ (p - 1) * Per <= (q - 1) * Per
      BY <1>5
    <2>2. (p - 1) * Per \in Nat /\ (q - 1) * Per \in Int
      BY <1>5
    <2> QED BY <1>2, <2>1, <2>2
  <1>7. q # 0
    <2>1. \A i \in 1 .. n : run[i] \in P!Rows
      BY <1>1, PRows
    <2>2. toc \in Seq(P!Rows)
      BY <1>3, <1>6, <2>1
    <2>3. Len(toc) # 0
      BY <2>2, EmptySeq
    <2> QED BY <1>4, <2>3
  <1> QED BY <1>1, <1>2, <1>3, <1>4, <1>6, <1>7

LEMMA PSorted ==
    ASSUME PTyped, toc # <<>>
    PROVE  /\ \A p \in 1 .. Len(toc) : toc[p].key \in Nat /\ toc[p].val \in Nat
           /\ \A p, q \in 1 .. Len(toc) : p < q => P!Before(toc[p], toc[q])
           /\ \A p \in 1 .. Len(toc), i \in 1 .. Len(run) :
                 /\ i < (p - 1) * Per + 1 => P!Before(run[i], toc[p])
                 /\ i > (p - 1) * Per + 1 => P!Before(toc[p], run[i])
  <1>1. PICK n \in Nat, m \in Nat : n = Len(run) /\ m = Len(toc)
    BY PRows, PCells
  <1>2. \A p \in 1 .. m : (p - 1) * Per + 1 \in 1 .. n /\ toc[p] = run[(p - 1) * Per + 1]
    BY <1>1, PCells
  <1>3. /\ \A i \in 1 .. n : run[i].key \in Nat /\ run[i].val \in Nat
        /\ \A i, j \in 1 .. n : i < j => P!Before(run[i], run[j])
    BY <1>1, PRows
  <1>4. ASSUME NEW p \in 1 .. m, NEW q \in 1 .. m, p < q
        PROVE  (p - 1) * Per + 1 < (q - 1) * Per + 1
    <2>1. Per \in Nat \ {0}
      BY PRows
    <2>2. (q - 1) * Per - (p - 1) * Per = (q - p) * Per /\ (q - p) * Per > 0
      BY <1>4, <2>1
    <2>3. (q - 1) * Per \in Int /\ (p - 1) * Per \in Int
      BY <2>1
    <2> QED BY <2>2, <2>3
  <1>5. \A p, q \in 1 .. m : p < q => P!Before(toc[p], toc[q])
    BY <1>2, <1>3, <1>4
  <1>6. \A p \in 1 .. m, i \in 1 .. n :
            /\ i < (p - 1) * Per + 1 => P!Before(run[i], toc[p])
            /\ i > (p - 1) * Per + 1 => P!Before(toc[p], run[i])
    BY <1>2, <1>3
  <1> QED BY <1>1, <1>2, <1>3, <1>5, <1>6

(* The cell of the needle: the next one's key is not less, and in kv64 is   *)
(* greater; the cell itself is not after any row of the needle's key.       *)
LEMMA PCell ==
    ASSUME PTyped, toc # <<>>
    PROVE  LET e == P!CellOf(PNeedle) IN
           /\ e \in 1 .. Len(toc)
           /\ e < Len(toc) => /\ toc[e + 1].key >= needle
                              /\ lane = "kv64" => toc[e + 1].key > needle
           /\ \/ e = 1
              \/ toc[e].key < needle
              \/ toc[e].key = needle /\ (lane = "wh128" => toc[e].val = 0)
  <1>1. PICK m \in Nat \ {0} : m = Len(toc)
    BY PCells
  <1>2. /\ \A p \in 1 .. m : toc[p].key \in Nat /\ toc[p].val \in Nat
        /\ \A p, q \in 1 .. m : p < q => P!Before(toc[p], toc[q])
    BY <1>1, PSorted
  <1>3. PICK c : c = P!FindGE(toc, 1, m, PNeedle)
    OBVIOUS
  <1>4. \/ /\ c \in 1 .. m /\ toc[c].key >= needle
           /\ \A j \in 1 .. m : j < c => toc[j].key < needle
        \/ c = m + 1 /\ \A j \in 1 .. m : toc[j].key < needle
    BY <1>2, <1>3, PFind
  <1>5. PICK e : e = P!CellOf(PNeedle)
    OBVIOUS
  <1>6. e = IF c <= m /\ ~P!Before(PNeedle, toc[c]) THEN c
            ELSE IF c > 1 THEN c - 1 ELSE 1
    BY <1>1, <1>3, <1>5 DEF P!CellOf
  <1>7. needle \in Nat /\ lane \in {"kv64", "wh128"}
    BY PRows DEF PTyped
  <1>8. \A p, q \in 1 .. m : p < q => /\ toc[p].key <= toc[q].key
                                      /\ lane = "kv64" => toc[p].key < toc[q].key
    BY <1>2, <1>7 DEF P!Before
  <1>9. CASE c <= m /\ ~P!Before(PNeedle, toc[c])
    <2>1. e = c /\ c \in 1 .. m /\ toc[c].key >= needle
      BY <1>4, <1>6, <1>9
    <2>2. toc[c].key = needle /\ (lane = "wh128" => toc[c].val = 0)
      BY <1>2, <1>7, <1>9, <2>1, PBefore
    <2>3. e < m => toc[e + 1].key >= needle /\ (lane = "kv64" => toc[e + 1].key > needle)
      <3>1. e < m => e + 1 \in 1 .. m /\ e < e + 1
        BY <2>1
      <3> QED BY <1>2, <1>7, <1>8, <2>1, <2>2, <3>1
    <2> QED BY <1>1, <1>5, <2>1, <2>2, <2>3
  <1>10. CASE c <= m /\ P!Before(PNeedle, toc[c])
    <2>1. c \in 1 .. m /\ toc[c].key >= needle /\ (lane = "kv64" => toc[c].key > needle)
      BY <1>2, <1>4, <1>7, <1>10, PBefore
    <2>2. CASE c > 1
      <3>1. e = c - 1 /\ e \in 1 .. m /\ e + 1 = c
        BY <1>6, <1>10, <2>1, <2>2
      <3>2. toc[e].key < needle
        BY <1>4, <2>1, <3>1
      <3> QED BY <1>1, <1>5, <2>1, <3>1, <3>2
    <2>3. CASE c = 1
      <3>1. e = 1
        BY <1>6, <1>10, <2>3
      <3>2. 1 < m => /\ toc[2].key >= needle
                     /\ lane = "kv64" => toc[2].key > needle
        BY <1>2, <1>7, <1>8, <2>1, <2>3
      <3> QED BY <1>1, <1>5, <3>1, <3>2
    <2> QED BY <2>1, <2>2, <2>3
  <1>11. CASE c = m + 1 /\ \A j \in 1 .. m : toc[j].key < needle
    <2>1. e = m
      BY <1>6, <1>11
    <2> QED BY <1>1, <1>5, <1>11, <2>1
  <1> QED BY <1>4, <1>9, <1>10, <1>11

(* A row of the needle's key is in the page, or a cell answers.             *)
LEMMA PEdges ==
    ASSUME PTyped
    PROVE  LET f == P!First(PNeedle)
               l == P!Last(PNeedle)
           IN  /\ f \in Nat \ {0} /\ l \in Nat /\ l <= Len(run)
               /\ \A i \in 1 .. Len(run) : i < f => run[i].key < needle
               /\ ~P!Answers(PNeedle) => \A i \in 1 .. Len(run) : i > l => run[i].key > needle
  <1>1. PICK n \in Nat : n = Len(run)
    BY PRows
  <1>2. /\ needle \in Nat /\ Per \in Nat \ {0} /\ lane \in {"kv64", "wh128"}
        /\ \A i \in 1 .. n : run[i].key \in Nat /\ run[i].val \in Nat
    BY <1>1, PRows DEF PTyped
  <1>3. CASE toc = <<>>
    BY <1>1, <1>3 DEF P!First, P!Last
  <1>4. CASE toc # <<>>
    <2>1. PICK m \in Nat \ {0} : m = Len(toc) /\ m * Per >= n
      BY <1>1, <1>4, PCells
    <2>2. PICK e \in 1 .. m :
            /\ e = P!CellOf(PNeedle)
            /\ e < m => toc[e + 1].key >= needle
            /\ \/ e = 1
               \/ toc[e].key < needle
               \/ toc[e].key = needle /\ (lane = "wh128" => toc[e].val = 0)
      BY <1>4, <2>1, PCell
    <2>3. /\ \A p \in 1 .. m : toc[p].key \in Nat /\ toc[p].val \in Nat
          /\ \A p \in 1 .. m, i \in 1 .. n :
                /\ i < (p - 1) * Per + 1 => P!Before(run[i], toc[p])
                /\ i > (p - 1) * Per + 1 => P!Before(toc[p], run[i])
                /\ i = (p - 1) * Per + 1 => toc[p] = run[i]
      BY <1>1, <1>4, <2>1, PSorted, PCells
    <2>4. PICK f \in Nat \ {0}, l \in Nat :
             /\ f = (e - 1) * Per + 1 /\ f = P!First(PNeedle)
             /\ l = (IF e * Per <= n THEN e * Per ELSE n) /\ l = P!Last(PNeedle)
      <3>1. P!First(PNeedle) = (e - 1) * Per + 1
        BY <1>4, <2>2 DEF P!First
      <3>2. P!Last(PNeedle) = IF e * Per <= n THEN e * Per ELSE n
        BY <1>1, <1>4, <2>2 DEF P!Last, P!Smaller
      <3>3. (e - 1) * Per + 1 \in Nat \ {0} /\ e * Per \in Nat
        BY <1>2
      <3> QED BY <3>1, <3>2, <3>3
    <2>5. l <= n
      BY <1>2, <2>4
    <2>6. ASSUME NEW i \in 1 .. n, i < f PROVE run[i].key < needle
      <3>1. P!Before(run[i], toc[e])
        BY <2>3, <2>4, <2>6
      <3>2. e # 1
        BY <2>4, <2>6, <1>2
      <3>3. /\ toc[e].key \in Nat /\ toc[e].val \in Nat
            /\ run[i].key \in Nat /\ run[i].val \in Nat
        BY <1>2, <2>3
      <3> QED BY <1>2, <2>2, <3>1, <3>2, <3>3 DEF P!Before
    <2>7. ASSUME ~P!Answers(PNeedle), NEW i \in 1 .. n, i > l PROVE run[i].key > needle
      <3>1. e * Per < i /\ i <= n
        BY <2>4, <2>7
      <3>2. e < m
        <4>1. SUFFICES ASSUME e = m PROVE FALSE
          OBVIOUS
        <4>2. e * Per = m * Per /\ m * Per \in Nat
          BY <1>2, <4>1
        <4> QED BY <2>1, <3>1, <4>2
      <3>3. PICK p \in 1 .. m : p = e + 1 /\ (p - 1) * Per + 1 <= i
        <4>1. e * Per \in Nat /\ (e + 1) - 1 = e
          BY <1>2
        <4>2. e + 1 \in 1 .. m
          BY <3>2
        <4> QED BY <3>1, <4>1, <4>2
      <3>4. PNeedle.key = needle
        BY <1>2, <2>3, PBefore
      <3>5. toc[p].key > needle
        <4>1. toc[p].key # needle
          BY <1>4, <2>1, <2>2, <2>7, <3>2, <3>3, <3>4 DEF P!Answers, P!CellEq
        <4>2. toc[p].key >= needle
          BY <2>2, <3>2, <3>3
        <4>3. toc[p].key \in Nat /\ needle \in Nat
          BY <1>2, <2>3
        <4> QED BY <4>1, <4>2, <4>3
      <3>6. toc[p] = run[i] \/ P!Before(toc[p], run[i])
        <4>1. (p - 1) * Per + 1 \in Nat
          BY <1>2
        <4> QED BY <2>3, <3>3, <4>1
      <3>7. toc[p].key \in Nat /\ run[i].key \in Nat
        BY <1>2, <2>3
      <3> QED BY <1>2, <3>5, <3>6, <3>7 DEF P!Before
    <2> QED BY <1>1, <2>4, <2>5, <2>6, <2>7
  <1> QED BY <1>3, <1>4

-----------------------------------------------------------------------------
LEMMA PInit == P!Init => PInv
  BY DEF P!Init, PInv, PTyped, GetExact, P!GetExact, KeyedRangeExact, P!KeyedRangeExact, P!RangeExact

(* What is computed from the lane, the run and the needle stays as they do.   *)
LEMMA PSame ==
    ASSUME UNCHANGED <<lane, run>>
    PROVE  /\ UNCHANGED <<P!Runs, P!Toc(run)>>
           /\ needle' = needle => UNCHANGED P!FindGE(run, 1, P!Len(run), PNeedle)
  <1>1. P!Runs' = P!Runs
    BY DEF P!Runs, P!Before
  <1>2. P!Toc(run)' = P!Toc(run)
    BY DEF P!Toc, P!Pages
  <1>3. ASSUME needle' = needle
        PROVE  P!FindGE(run, 1, P!Len(run), PNeedle)' = P!FindGE(run, 1, P!Len(run), PNeedle)
    <2> DEFINE after == {i \in 1 .. P!Len(run) : ~P!Before(run[i], PNeedle)}
               first == IF after = {} THEN P!Len(run) + 1
                        ELSE CHOOSE i \in after : \A j \in after : i <= j
    <2>1. after' = after
      BY <1>3 DEF P!Before, PNeedle, P!Needle
    <2>2. P!FindGE(run, 1, P!Len(run), PNeedle) = first
      BY DEF P!FindGE
    <2>3. P!FindGE(run, 1, P!Len(run), PNeedle)' = first'
      BY DEF P!FindGE
    <2>4. P!Len(run)' = P!Len(run)
      OBVIOUS
    <2> HIDE DEF after
    <2>5. first' = first
      BY <2>1, <2>4
    <2> HIDE DEF first
    <2> QED BY <2>2, <2>3, <2>5
  <1> QED BY <1>1, <1>2, <1>3

(* So do the parts of the invariant.                                        *)
LEMMA PKept ==
    ASSUME PInv, UNCHANGED <<lane, run, toc>>, needle' \in Keys
    PROVE  /\ PTyped'
           /\ UNCHANGED <<needle, got>> => GetExact'
           /\ UNCHANGED <<needle, from>> => KeyedRangeExact'
  <1>1. PTyped'
    BY PSame DEF PInv, PTyped
  <1>2. UNCHANGED <<needle, got>> => GetExact'
    BY DEF PInv, GetExact, P!GetExact, P!Found
  <1>3. ASSUME UNCHANGED <<needle, from>> PROVE KeyedRangeExact'
    <2>1. UNCHANGED P!FindGE(run, 1, P!Len(run), P!Needle(needle))
      BY <1>3, PSame DEF PNeedle
    <2> QED BY <1>3, <2>1 DEF PInv, KeyedRangeExact, P!KeyedRangeExact, P!RangeExact
  <1> QED BY <1>1, <1>2, <1>3

LEMMA PGet == ASSUME PInv, P!Get PROVE PInv'
  <1>0. PICK f, l, at :
          f = P!First(PNeedle) /\ l = P!Last(PNeedle) /\ at = P!FindGE(run, f, l, PNeedle)
    OBVIOUS
  <1>1. /\ UNCHANGED <<lane, run, toc, needle, from>>
        /\ got' = IF P!Answers(PNeedle) THEN P!Found(toc[P!Answer(PNeedle)])
                  ELSE IF at <= l /\ run[at].key = needle THEN P!Found(run[at])
                  ELSE P!Nothing
    BY <1>0 DEF P!Get, PNeedle
  <1>2. PTyped
    BY DEF PInv
  <1>3. PICK n \in Nat : n = Len(run)
    BY <1>2, PRows
  <1>4. /\ f \in Nat \ {0} /\ l \in Nat /\ l <= n
        /\ \A i \in 1 .. n : i < f => run[i].key < needle
        /\ ~P!Answers(PNeedle) => \A i \in 1 .. n : i > l => run[i].key > needle
    BY <1>0, <1>2, <1>3, PEdges
  <1>5. /\ needle \in Nat /\ \A i \in 1 .. n : run[i].key \in Nat /\ run[i].val \in Nat
        /\ \A i, j \in 1 .. n : i < j => P!Before(run[i], run[j])
    BY <1>2, <1>3, PRows
  <1>6. \/ /\ at \in f .. l /\ run[at].key >= needle
           /\ \A j \in f .. l : j < at => run[j].key < needle
        \/ /\ at = l + 1
           /\ \A j \in f .. l : run[j].key < needle
    <2>1. \A i \in f .. l : i \in 1 .. n
      BY <1>4
    <2>2. \A i \in f .. l : run[i].key \in Nat /\ run[i].val \in Nat
      BY <1>5, <2>1
    <2> QED BY <1>0, <1>2, <1>4, <2>2, PFind
  <1>7. \/ \E i \in 1 .. n : run[i].key = needle /\ got' = P!Found(run[i])
        \/ got' = P!Nothing /\ \A i \in 1 .. n : run[i].key # needle
    <2>1. CASE P!Answers(PNeedle)
      <3>1. toc # <<>> /\ P!CellOf(PNeedle) < Len(toc) /\ P!CellEq(PNeedle)
        BY <2>1 DEF P!Answers
      <3>2. PICK p \in 1 .. Len(toc) : p = P!Answer(PNeedle)
        BY <1>2, <3>1, PCell, PCells DEF P!Answer
      <3>3. toc[p].key = needle
        BY <3>1, <3>2 DEF P!CellEq, P!Answer, PNeedle, P!Needle
      <3>4. PICK i \in 1 .. n : toc[p] = run[i]
        BY <1>2, <1>3, <3>1, PCells
      <3> QED BY <1>1, <2>1, <3>2, <3>3, <3>4
    <2>2. CASE ~P!Answers(PNeedle) /\ at <= l /\ run[at].key = needle
      <3>1. at \in 1 .. n
        BY <1>4, <1>6, <2>2
      <3> QED BY <1>1, <2>2, <3>1
    <2>3. CASE ~P!Answers(PNeedle) /\ ~(at <= l /\ run[at].key = needle)
      <3>1. got' = P!Nothing
        BY <1>1, <2>3
      <3>2. ASSUME NEW i \in 1 .. n, run[i].key = needle PROVE FALSE
        <4>1. i \in f .. l
          BY <1>4, <1>5, <2>3, <3>2
        <4>2. at \in f .. l /\ run[at].key >= needle /\ at <= i
          BY <1>4, <1>5, <1>6, <3>2, <4>1
        <4>3. at \in 1 .. n /\ run[at].key > needle
          BY <1>4, <1>5, <2>3, <4>2
        <4>4. run[at] = run[i] \/ P!Before(run[at], run[i])
          BY <1>5, <4>2, <4>3
        <4> QED BY <1>5, <3>2, <4>3, <4>4 DEF P!Before
      <3> QED BY <3>1, <3>2
    <2> QED BY <2>1, <2>2, <2>3
  <1>8. P!GetExact'
    <2> DEFINE there == {P!Found(run[i]) : i \in {j \in 1 .. P!Len(run) : run[j].key = needle}}
    <2>1. there' = there
      BY <1>1 DEF P!Found
    <2>2. \A i \in 1 .. n : run[i].key = needle => P!Found(run[i]) \in there
      BY <1>3
    <2>3. (\A i \in 1 .. n : run[i].key # needle) => there = {}
      BY <1>3
    <2>4. P!GetExact' <=> got' = P!Unasked' \/ got' \in there' \/ (got' = P!Nothing' /\ there' = {})
      BY DEF P!GetExact
    <2>5. P!Nothing' = P!Nothing
      BY DEF P!Nothing
    <2> HIDE DEF there
    <2> QED BY <1>7, <2>1, <2>2, <2>3, <2>4, <2>5
  <1>9. PTyped' /\ KeyedRangeExact'
    <2>1. needle' \in Keys
      BY <1>1, <1>2 DEF PTyped
    <2> QED BY <1>1, <2>1, PKept
  <1> QED BY <1>8, <1>9 DEF PInv, GetExact

(* The rows that the table skips are all before the needle.                 *)
LEMMA PRange == ASSUME PInv, P!Range PROVE PInv'
  <1> DEFINE f == P!First(PNeedle)
  <1>1. /\ UNCHANGED <<lane, run, toc, needle, got>>
        /\ from' = IF P!Answers(PNeedle) THEN <<"toc", P!Answer(PNeedle)>>
                   ELSE <<"run", P!FindGE(run, f, P!Len(run), PNeedle)>>
    BY DEF P!Range, PNeedle
  <1>2. PTyped
    BY DEF PInv
  <1>3. PICK n \in Nat : n = Len(run)
    BY <1>2, PRows
  <1>4. f \in Nat \ {0} /\ \A i \in 1 .. n : i < f => run[i].key < needle
    BY <1>2, <1>3, PEdges
  <1>5. f <= n + 1
    <2>1. CASE toc = <<>>
      BY <2>1 DEF P!First
    <2>2. CASE toc # <<>>
      BY <1>2, <1>3, <2>2, PCell, PCells DEF P!First
    <2> QED BY <2>1, <2>2
  <1>6. needle \in Nat /\ \A i \in 1 .. n : run[i].key \in Nat /\ run[i].val \in Nat
    BY <1>2, <1>3, PRows
  <1>7. PICK g, h : g = P!FindGE(run, f, n, PNeedle) /\ h = P!FindGE(run, 1, n, PNeedle)
    OBVIOUS
  <1>8. \/ /\ g \in f .. n /\ run[g].key >= needle
           /\ \A j \in f .. n : j < g => run[j].key < needle
        \/ g = n + 1 /\ \A j \in f .. n : run[j].key < needle
    BY <1>2, <1>4, <1>6, <1>7, PFind
  <1>9. \/ /\ h \in 1 .. n /\ run[h].key >= needle
           /\ \A j \in 1 .. n : j < h => run[j].key < needle
        \/ h = n + 1 /\ \A j \in 1 .. n : run[j].key < needle
    BY <1>2, <1>6, <1>7, PFind
  <1> HIDE DEF f
  <1>10. g = h
    BY <1>4, <1>5, <1>6, <1>8, <1>9
  <1>11. lane = "kv64" => ~P!Answers(PNeedle)
    <2> SUFFICES ASSUME lane = "kv64", P!Answers(PNeedle) PROVE FALSE
      OBVIOUS
    <2>1. toc # <<>> /\ P!CellOf(PNeedle) < Len(toc) /\ toc[P!CellOf(PNeedle) + 1].key = needle
      BY DEF P!Answers, P!CellEq, PNeedle, P!Needle
    <2> QED BY <1>2, <1>6, <2>1, PCell
  <1>12. KeyedRangeExact'
    <2>1. P!FindGE(run, 1, P!Len(run), PNeedle)' = h
      BY <1>1, <1>3, <1>7, PSame
    <2>2. lane = "kv64" => from' = <<"run", h>>
      BY <1>1, <1>3, <1>7, <1>10, <1>11
    <2> QED BY <1>1, <2>1, <2>2
        DEF KeyedRangeExact, P!KeyedRangeExact, P!RangeExact, PNeedle
  <1>13. PTyped' /\ GetExact'
    <2>1. needle' \in Keys
      BY <1>1, <1>2 DEF PTyped
    <2> QED BY <1>1, <2>1, PKept
  <1> QED BY <1>12, <1>13 DEF PInv

LEMMA PStep == ASSUME PInv, [P!Next]_P!vars PROVE PInv'
  <1>1. CASE P!Again
    <2>1. needle' \in Keys /\ got' = P!Unasked /\ from' = <<>> /\ UNCHANGED <<lane, run, toc>>
      BY <1>1 DEF P!Again
    <2>2. PTyped'
      BY <2>1, PKept
    <2>3. GetExact'
      BY <2>1 DEF GetExact, P!GetExact, P!Unasked
    <2>4. KeyedRangeExact'
      BY <2>1 DEF KeyedRangeExact, P!KeyedRangeExact, P!RangeExact
    <2> QED BY <2>2, <2>3, <2>4 DEF PInv
  <1>2. CASE UNCHANGED P!vars
    <2>1. UNCHANGED <<lane, run, toc, needle, got, from>>
      BY <1>2 DEF P!vars
    <2>2. needle' \in Keys
      BY <2>1 DEF PInv, PTyped
    <2> QED BY <2>1, <2>2, PKept DEF PInv
  <1> QED BY <1>1, <1>2, PGet, PRange DEF P!Next

(* The run and its table stay what dog wrote, and the two answers exact.    *)
THEOREM PagesInv == P!Spec => []PInv
  <1> QED BY PInit, PStep, PTL DEF P!Spec

(* A get finds a row of its key whenever the run has one, in the one page   *)
(* it searches or in a cell, and finds no other row (pup.c).                *)
THEOREM GetIsExact == P!Spec => []GetExact
  <1>1. PInv => GetExact
    BY DEF PInv
  <1> QED BY <1>1, PagesInv, PTL

(* On a lane ordered by key only a range starts at its first row (pup.c).   *)
THEOREM KeyedRangeIsExact == P!Spec => []KeyedRangeExact
  <1>1. PInv => KeyedRangeExact
    BY DEF PInv
  <1> QED BY <1>1, PagesInv, PTL

-----------------------------------------------------------------------------
(* The sum of the parts, as TLC runs it.                                    *)

PartsInv ==
    /\ MInv /\ DInv
    /\ IF part = "pages" THEN PInv ELSE NoPages

LEMMA PartsStep == PartsInv /\ [PartsNext]_partsVars => PartsInv'
  <1> SUFFICES ASSUME PartsInv, [PartsNext]_partsVars PROVE PartsInv'
    OBVIOUS
  <1>1. [M!Next]_M!vars /\ [D!Next]_D!vars
    <2>1. UNCHANGED partsVars => UNCHANGED <<mapsVars, drainsVars>>
      BY DEF partsVars
    <2>2. PartsNext => (M!Next \/ UNCHANGED mapsVars) /\ (D!Next \/ UNCHANGED drainsVars)
      BY DEF PartsNext
    <2>3. UNCHANGED mapsVars => UNCHANGED M!vars
      BY DEF M!vars, mapsVars
    <2>4. UNCHANGED drainsVars => UNCHANGED D!vars
      BY DEF D!vars, drainsVars
    <2> QED BY <2>1, <2>2, <2>3, <2>4
  <1>2. part' = part
    BY DEF PartsNext, partsVars
  <1>3. /\ part = "pages" => [P!Next]_P!vars
        /\ part # "pages" => UNCHANGED pagesVars
    <2>1. UNCHANGED partsVars => UNCHANGED pagesVars
      BY DEF partsVars
    <2>2. /\ PartsNext /\ part = "pages" => P!Next
          /\ PartsNext /\ part # "pages" => UNCHANGED pagesVars
      BY DEF PartsNext
    <2>3. UNCHANGED pagesVars => UNCHANGED P!vars
      BY DEF P!vars, pagesVars
    <2> QED BY <2>1, <2>2, <2>3
  <1>4. MInv'
    BY <1>1, MStep DEF PartsInv
  <1>5. DInv'
    BY <1>1, DStep DEF PartsInv
  <1>6. CASE part = "pages"
    BY <1>2, <1>3, <1>4, <1>5, <1>6, PStep DEF PartsInv
  <1>7. CASE part # "pages"
    <2>1. NoPages /\ lane' = lane /\ run' = run /\ toc' = toc
          /\ needle' = needle /\ got' = got /\ from' = from
      BY <1>3, <1>7 DEF PartsInv, pagesVars
    <2>2. NoPages'
      BY <2>1, Zenon DEF NoPages, P!Unasked
    <2> QED BY <1>2, <1>4, <1>5, <1>7, <2>2 DEF PartsInv
  <1> QED BY <1>6, <1>7

(* What TLC checks of these three parts together holds for any instance.    *)
THEOREM PartsSafe ==
    PartsSpec => []( /\ ViewsMapped /\ NoneOrphaned /\ SweepsInTime
                     /\ OwnEvents /\ StaysWatched /\ LostIsReal
                     /\ GetExact /\ KeyedRangeExact )
  <1>1. PartsInit => PartsInv
    BY MInit, DInit, PInit DEF PartsInit, PartsInv
  <1>2. PartsInv => ViewsMapped /\ NoneOrphaned /\ SweepsInTime
    BY MShown DEF PartsInv, MInv, ViewsMapped, NoneOrphaned, SweepsInTime
  <1>3. PartsInv => OwnEvents /\ StaysWatched /\ LostIsReal
    BY DEF PartsInv, DInv, DTold, DWatched, OwnEvents, StaysWatched, D!StaysWatched, LostIsReal
  <1>4. PartsInv => GetExact /\ KeyedRangeExact
    <2>1. PInv => GetExact /\ KeyedRangeExact
      BY DEF PInv
    <2>2. got = P!Unasked => GetExact
      BY DEF GetExact, P!GetExact
    <2>3. lane = "" => KeyedRangeExact
      BY DEF KeyedRangeExact, P!KeyedRangeExact
    <2>4. NoPages => got = P!Unasked /\ lane = ""
      BY DEF NoPages
    <2> QED BY <2>1, <2>2, <2>3, <2>4 DEF PartsInv
  <1> QED BY <1>1, <1>2, <1>3, <1>4, PartsStep, PTL DEF PartsSpec
=============================================================================
