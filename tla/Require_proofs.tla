---------------------------- MODULE Require_proofs ----------------------------
(***************************************************************************)
(* Proofs about Require, for every number of processes, pids, packs and    *)
(* files.                                                                  *)
(***************************************************************************)
EXTENDS Require, TLAPS

Pcs == {"off", "probe", "mkdir", "untar", "write", "rename", "rmdir", "base", "thrown", "crashed"}
Proc == [pc : Pcs, pid : Pids \cup {0}, pack : DOMAIN Packs \cup {""}, next : Nat \ {0}]
Fills == {"untar", "write", "rename"}     \* it fills its .tmp-<pid>

Typed ==
    /\ proc \in [Procs -> Proc]
    /\ tmp \in [Pids -> Dirs \cup {NoDir}]
    /\ dir \in [DOMAIN Packs -> Dirs \cup {NoDir}]
    /\ \A p \in Procs : ~At(p, "off") => Pid(p) \in Pids /\ Pack(p) \in DOMAIN Packs

OwnPid == \A p, q \in Running : p # q => Pid(p) # Pid(q)

(* The files before the next one are there, and whole: but for one of the   *)
(* name of the file that is written now.                                    *)
Untars(p) ==
    /\ proc[p].pc \in {"probe", "mkdir"} => proc[p].next = 1
    /\ proc[p].pc \in Fills =>
          LET fs == tmp[Pid(p)] s == Packs[Pack(p)] IN
          /\ fs # NoDir
          /\ \A i \in 1 .. Len(s) : i < proc[p].next =>
                /\ s[i] \in DOMAIN fs
                /\ fs[s[i]] = Whole(Pack(p)) \/ (At(p, "write") /\ s[i] = File(p))
          /\ At(p, "write") => proc[p].next <= Len(s)
          /\ At(p, "rename") => proc[p].next > Len(s)

(* As long as nothing was left behind, a .tmp-<pid> is that of a process    *)
(* that works on it, and has no files but those of its pack.                *)
Clean(p) ==
    heir = {} /\ proc[p].pc \in Fills => DOMAIN tmp[Pid(p)] \subseteq FilesOf(Pack(p))

Owned ==
    heir = {} => \A n \in Pids : tmp[n] # NoDir =>
        \E p \in Running : Pid(p) = n /\ proc[p].pc \in Fills \cup {"rmdir"}

(* A process that gives up without an error has lost the race.              *)
Lost(p) == At(p, "rmdir") /\ p \notin hit => isDir(Pack(p))

RInv ==
    /\ Typed /\ OwnPid /\ Owned /\ Served /\ RaceWins
    /\ \A p \in Procs : Untars(p) /\ Clean(p) /\ Lost(p)

-----------------------------------------------------------------------------
LEMMA InitInv == RequireInit => RInv
  <1> SUFFICES ASSUME RequireInit PROVE RInv
    OBVIOUS
  <1>1. Typed
    <2>1. proc \in [Procs -> Proc] /\ \A p \in Procs : At(p, "off")
      <3>1. [pc |-> "off", pid |-> 0, pack |-> "", next |-> 1] \in Proc
        BY DEF Proc, Pcs
      <3> QED BY <3>1 DEF RequireInit, At
    <2>2. tmp \in [Pids -> Dirs \cup {NoDir}] /\ dir \in [DOMAIN Packs -> Dirs \cup {NoDir}]
      BY DEF RequireInit
    <2> QED BY <2>1, <2>2 DEF Typed
  <1>2. OwnPid /\ Owned
    BY DEF RequireInit, OwnPid, Owned, Running
  <1>3. Served /\ RaceWins
    BY DEF RequireInit, Served, RaceWins, isDir, At
  <1>4. \A p \in Procs : Untars(p) /\ Clean(p) /\ Lost(p)
    BY DEF RequireInit, Untars, Clean, Lost, Fills, At
  <1> QED BY <1>1, <1>2, <1>3, <1>4 DEF RInv

LEMMA PackFiles ==
    ASSUME RequireAssumption, NEW v \in DOMAIN Packs
    PROVE  /\ Packs[v] \in Seq(FilesOf(v)) /\ Len(Packs[v]) \in Nat
           /\ \A f : f \in FilesOf(v) <=> \E i \in 1 .. Len(Packs[v]) : f = Packs[v][i]
  <1>1. Packs[v] \in Seq(FilesOf(v)) /\ Len(Packs[v]) \in Nat /\ DOMAIN Packs[v] = 1 .. Len(Packs[v])
    BY DEF RequireAssumption
  <1> QED BY <1>1 DEF FilesOf, ToSet

(* The empty directory, and a directory with one more file or another       *)
(* content.                                                                 *)
LEMMA EmptyDir == ASSUME RequireAssumption PROVE <<>> \in Dirs /\ <<>> # NoDir /\ DOMAIN <<>> = {}
  <1>1. <<>> \in [{} -> Contents] /\ DOMAIN <<>> = {}
    OBVIOUS
  <1> QED BY <1>1 DEF Dirs, RequireAssumption

(* The directory gs is fs with the content c in the file f.                 *)
Has(gs, fs, f, c) ==
    /\ gs \in Dirs /\ gs # NoDir /\ DOMAIN gs = DOMAIN fs \cup {f} /\ gs[f] = c
    /\ \A g \in DOMAIN fs : g # f => gs[g] = fs[g]

LEMMA WithFile ==
    ASSUME RequireAssumption, NEW v \in DOMAIN Packs, NEW f \in FilesOf(v),
           NEW c, c = Whole(v) \/ c = Part(v), NEW fs \in Dirs
    PROVE  Has(With(fs, f, c), fs, f, c)
  <1>1. Made(fs) = fs
    BY DEF Made, RequireAssumption
  <1>2. PICK S \in SUBSET UNION {FilesOf(u) : u \in DOMAIN Packs} : fs \in [S -> Contents]
    BY DEF Dirs
  <1>3. c \in Contents
    BY DEF Contents
  <1>4. With(fs, f, c) = [g \in S \cup {f} |-> IF g = f THEN c ELSE fs[g]]
    BY <1>1, <1>2 DEF With
  <1>5. With(fs, f, c) \in [S \cup {f} -> Contents]
    BY <1>2, <1>3, <1>4
  <1>6. S \cup {f} \in SUBSET UNION {FilesOf(u) : u \in DOMAIN Packs}
    BY <1>2
  <1>7. With(fs, f, c) \in Dirs
    BY <1>5, <1>6 DEF Dirs
  <1> QED BY <1>2, <1>4, <1>7 DEF RequireAssumption, Has

LEMMA FileAdded ==
    ASSUME RequireAssumption, NEW v \in DOMAIN Packs, NEW f \in FilesOf(v), NEW fs \in Dirs
    PROVE  Has(With(fs, f, Part(v)), fs, f, Part(v)) /\ Has(With(fs, f, Whole(v)), fs, f, Whole(v))
  <1>1. Has(With(fs, f, Part(v)), fs, f, Part(v))
    BY WithFile
  <1>2. Has(With(fs, f, Whole(v)), fs, f, Whole(v))
    BY WithFile
  <1> QED BY <1>1, <1>2

-----------------------------------------------------------------------------
(* A step of a live process p touches no other process, no other .tmp-, and *)
(* no directory that is there: what it owes to the invariant is about p.    *)
Moves(p) ==
    /\ p \in Running
    /\ proc' \in [Procs -> Proc]
    /\ \A q \in Procs : q # p => proc'[q] = proc[q]
    /\ proc'[p].pid = proc[p].pid /\ proc'[p].pack = proc[p].pack /\ proc'[p].pc # "off"
    /\ tmp' \in [Pids -> Dirs \cup {NoDir}]
    /\ \A n \in Pids : n # Pid(p) => tmp'[n] = tmp[n]
    /\ dir' \in [DOMAIN Packs -> Dirs \cup {NoDir}]
    /\ \A v \in DOMAIN Packs : isDir(v) => dir'[v] = dir[v]
    /\ hit \subseteq hit' /\ heir \subseteq heir'

LEMMA OfProc ==
    ASSUME RInv, NEW p \in Running
    PROVE  p \in Procs /\ Pid(p) \in Pids /\ Pack(p) \in DOMAIN Packs
  BY DEF RInv, Typed, Running, At

LEMMA Frame ==
    ASSUME RInv, NEW p, Moves(p),
           Untars(p)', Clean(p)', Lost(p)', Served',
           proc'[p].pc = "thrown" => p \in hit',
           heir' = {} /\ tmp'[Pid(p)] # NoDir => proc'[p].pc \in Fills \cup {"rmdir"}
    PROVE  RInv'
  <1>1. p \in Procs /\ Pid(p) \in Pids /\ Pack(p) \in DOMAIN Packs
    BY OfProc DEF Moves
  <1>2. Typed'
    <2>1. ASSUME NEW q \in Procs, ~At(q, "off")'
          PROVE  Pid(q)' \in Pids /\ Pack(q)' \in DOMAIN Packs
      <3>1. CASE q = p
        BY <3>1, <1>1 DEF Moves, Pid, Pack
      <3>2. CASE q # p
        BY <3>2, <2>1 DEF Moves, RInv, Typed, At, Pid, Pack
      <3> QED BY <3>1, <3>2
    <2> QED BY <2>1 DEF Moves, Typed
  <1>3. ASSUME NEW q \in Running'
        PROVE  q \in Running /\ Pid(q)' = Pid(q)
    BY <1>3 DEF Moves, Running, Pid
  <1>4. OwnPid'
    BY <1>3 DEF RInv, OwnPid
  <1>5. ASSUME NEW q \in Procs, q # p
        PROVE  Untars(q)' /\ Clean(q)' /\ Lost(q)'
    <2>1. proc'[q] = proc[q]
      BY <1>5 DEF Moves
    <2>2. ASSUME proc[q].pc \in Fills
          PROVE  tmp'[Pid(q)] = tmp[Pid(q)]
      <3>1. q \in Running /\ p \in Running
        BY <2>2 DEF Running, Fills, Moves
      <3>2. Pid(q) # Pid(p) /\ Pid(q) \in Pids
        BY <3>1, <1>5, OfProc DEF RInv, OwnPid
      <3> QED BY <3>2 DEF Moves
    <2>3. Untars(q)'
      BY <2>1, <2>2 DEF RInv, Untars, At, Pid, Pack, File
    <2>4. Clean(q)'
      BY <2>1, <2>2 DEF RInv, Clean, Pid, Pack, Moves
    <2>5. Lost(q)'
      <3>1. At(q, "rmdir") => Pack(q) \in DOMAIN Packs
        BY DEF RInv, Typed, At
      <3> QED BY <3>1, <2>1 DEF RInv, Lost, At, Pack, Moves, isDir
    <2> QED BY <2>3, <2>4, <2>5
  <1>6. Owned'
    <2>1. ASSUME heir' = {}, NEW n \in Pids, tmp'[n] # NoDir
          PROVE  \E q \in Running' : Pid(q)' = n /\ proc'[q].pc \in Fills \cup {"rmdir"}
      <3>1. CASE n = Pid(p)
        BY <3>1, <2>1, <1>1 DEF Moves, Pid, Running, Fills
      <3>2. CASE n # Pid(p)
        <4>1. PICK q \in Running : Pid(q) = n /\ proc[q].pc \in Fills \cup {"rmdir"}
          BY <3>2, <2>1 DEF RInv, Owned, Moves
        <4>2. q \in Procs /\ proc'[q] = proc[q]
          BY <4>1, <3>2 DEF Moves, Running
        <4> QED BY <4>1, <4>2 DEF Running, Pid
      <3> QED BY <3>1, <3>2
    <2> QED BY <2>1 DEF Owned
  <1>7. RaceWins'
    BY DEF RInv, RaceWins, Moves, At
  <1> QED BY <1>2, <1>4, <1>5, <1>6, <1>7 DEF RInv

(* A step that makes no directory keeps Served.                             *)
LEMMA ServedStill ==
    ASSUME RInv, NEW p, Moves(p), dir' = dir, proc'[p].pc = "base" => isDir(Pack(p))
    PROVE  Served'
  <1>1. \A v \in DOMAIN Packs : isDir(v)' =>
          /\ \A f \in FilesOf(v) : f \in DOMAIN dir'[v] /\ dir'[v][f] = Whole(v)
          /\ heir' = {} => dir'[v] = Unpacked(v)
    BY DEF RInv, Served, Moves, isDir
  <1>2. ASSUME NEW q \in Procs, At(q, "base")'
        PROVE  isDir(Pack(q))'
    BY <1>2 DEF RInv, Served, Moves, At, isDir, Pack
  <1> QED BY <1>1, <1>2 DEF Served

(* A step of p's program counter alone.                                     *)
LEMMA GoesMoves ==
    ASSUME RInv, NEW p \in Running, NEW pc \in Pcs \ {"off"}, Goes(p, pc), UNCHANGED <<tmp, dir>>,
           hit \subseteq hit', heir \subseteq heir'
    PROVE  Moves(p) /\ proc'[p] = [proc[p] EXCEPT !.pc = pc]
  BY DEF RInv, Typed, Goes, Moves, Proc, Running

-----------------------------------------------------------------------------
LEMMA FirstProc ==
    ASSUME NEW n \in Pids, NEW v \in DOMAIN Packs
    PROVE  [pc |-> "probe", pid |-> n, pack |-> v, next |-> 1] \in Proc
  <1>1. n \in Pids \cup {0} /\ v \in DOMAIN Packs \cup {""}
    OBVIOUS
  <1>2. "probe" \in Pcs /\ 1 \in Nat \ {0}
    BY DEF Pcs
  <1> QED BY <1>1, <1>2 DEF Proc

LEMMA StartInv == ASSUME RInv, NEW p \in Procs, Start(p) PROVE RInv'
  <1>1. PICK n \in Pids \ {Pid(q) : q \in Running}, v \in DOMAIN Packs :
          proc' = [proc EXCEPT ![p] = [pc |-> "probe", pid |-> n, pack |-> v, next |-> 1]]
    BY DEF Start
  <1>2. /\ proc' \in [Procs -> Proc]
        /\ proc'[p] = [pc |-> "probe", pid |-> n, pack |-> v, next |-> 1]
        /\ \A q \in Procs : q # p => proc'[q] = proc[q]
        /\ UNCHANGED <<tmp, dir, hit, heir>> /\ proc[p].pc = "off"
    <2>1. [pc |-> "probe", pid |-> n, pack |-> v, next |-> 1] \in Proc
      BY FirstProc
    <2> QED BY <1>1, <2>1, <2>1 DEF RInv, Typed, Start, At
  <1>3. Typed'
    BY <1>2 DEF RInv, Typed, At, Pid, Pack
  <1>4. OwnPid'
    <2>1. ASSUME NEW q \in Running', q # p
          PROVE  q \in Running /\ Pid(q)' = Pid(q) /\ Pid(q)' # n
      BY <2>1, <1>1, <1>2 DEF Running, Pid
    <2> QED BY <2>1, <1>2 DEF RInv, OwnPid, Pid
  <1>5. Owned'
    <2>1. ASSUME heir' = {}, NEW m \in Pids, tmp'[m] # NoDir
          PROVE  \E q \in Running' : Pid(q)' = m /\ proc'[q].pc \in Fills \cup {"rmdir"}
      <3>1. PICK q \in Running : Pid(q) = m /\ proc[q].pc \in Fills \cup {"rmdir"}
        BY <2>1, <1>2 DEF RInv, Owned
      <3>2. q \in Procs /\ proc'[q] = proc[q]
        BY <3>1, <1>2 DEF Running
      <3> QED BY <3>1, <3>2 DEF Running, Pid
    <2> QED BY <2>1 DEF Owned
  <1>6. Served' /\ RaceWins'
    BY <1>2 DEF RInv, Served, RaceWins, isDir, At, Pack
  <1>7. ASSUME NEW q \in Procs
        PROVE  Untars(q)' /\ Clean(q)' /\ Lost(q)'
    <2>1. CASE q = p
      BY <2>1, <1>2 DEF Untars, Clean, Lost, Fills, At
    <2>2. CASE q # p
      <3>1. Untars(q)'
        BY <2>2, <1>2 DEF RInv, Untars, At, Pid, Pack, File
      <3>2. Clean(q)' /\ Lost(q)'
        BY <2>2, <1>2 DEF RInv, Clean, Lost, At, Pid, Pack, isDir
      <3> QED BY <3>1, <3>2
    <2> QED BY <2>1, <2>2
  <1> QED BY <1>3, <1>4, <1>5, <1>6, <1>7 DEF RInv

LEMMA ProbeInv == ASSUME RInv, NEW p \in Procs, Probe(p) PROVE RInv'
  <1>1. p \in Running /\ UNCHANGED <<tmp, dir, hit, heir>> /\ proc[p].pc = "probe"
    BY DEF Probe, At, Running
  <1>2. PICK pc \in {"base", "mkdir"} : Goes(p, pc) /\ (pc = "base" => isDir(Pack(p)))
    BY DEF Probe
  <1>3. Moves(p) /\ proc'[p].pc = pc /\ proc'[p].next = proc[p].next
    <2>1. pc \in Pcs \ {"off"}
      BY <1>2 DEF Pcs
    <2>2. Moves(p) /\ proc'[p] = [proc[p] EXCEPT !.pc = pc]
      BY <1>1, <1>2, <2>1, GoesMoves
    <2>3. proc \in [Procs -> Proc]
      BY DEF RInv, Typed
    <2> QED BY <1>1, <2>2, <2>3 DEF Proc
  <1>4. Served'
    BY <1>1, <1>2, <1>3, ServedStill
  <1>5. tmp'[Pid(p)] = tmp[Pid(p)] /\ \A q \in Running : q # p => Pid(q) # Pid(p)
    BY <1>1 DEF RInv, OwnPid
  <1>6. heir' = {} => tmp'[Pid(p)] = NoDir
    BY <1>1, <1>5, OfProc DEF RInv, Owned, Fills
  <1>7. Untars(p)' /\ Clean(p)' /\ Lost(p)'
    BY <1>1, <1>2, <1>3 DEF RInv, Untars, Clean, Lost, Fills, At
  <1> QED BY <1>2, <1>3, <1>4, <1>6, <1>7, Frame

LEMMA MakeTmpInv == ASSUME RInv, RequireAssumption, NEW p \in Procs, MakeTmp(p) PROVE RInv'
  <1> DEFINE n == Pid(p)
  <1>1. p \in Running /\ UNCHANGED <<dir, hit, heir>> /\ proc[p].pc = "mkdir"
    BY DEF MakeTmp, At, Running
  <1>2. n \in Pids /\ Pack(p) \in DOMAIN Packs
    BY <1>1, OfProc
  <1>3. tmp'[n] = Made(tmp[n]) /\ tmp'[n] \in Dirs /\ tmp'[n] # NoDir
    BY <1>2, EmptyDir DEF MakeTmp, Made, RInv, Typed
  <1>4. Moves(p) /\ proc'[p].pc = "untar" /\ proc'[p].next = 1
    <2>1. Moves(p) /\ proc'[p].pc = "untar" /\ proc'[p].next = proc[p].next
      BY <1>1, <1>2, <1>3 DEF MakeTmp, Goes, Moves, RInv, Typed, Proc, Pcs
    <2> QED BY <1>1, <2>1 DEF RInv, Untars
  <1>5. Served'
    BY <1>1, <1>4, ServedStill
  <1>6. heir = {} => tmp[n] = NoDir
    BY <1>1, <1>2 DEF RInv, Owned, OwnPid, Fills
  <1>7. Clean(p)'
    <2>1. Pid(p)' = n
      BY <1>4 DEF Moves, Pid
    <2>2. heir' = {} => DOMAIN tmp'[n] = {}
      BY <1>1, <1>3, <1>6, EmptyDir DEF Made
    <2> QED BY <2>1, <2>2 DEF Clean
  <1>8. Untars(p)'
    <2>1. Pack(p)' = Pack(p) /\ Pid(p)' = n /\ ~At(p, "write")' /\ ~At(p, "rename")'
      BY <1>4 DEF Moves, Pid, Pack, At
    <2>2. \A i \in 1 .. Len(Packs[Pack(p)]) : ~(i < 1)
      BY <1>1, OfProc, PackFiles
    <2> QED BY <1>3, <1>4, <2>1, <2>2 DEF Untars
  <1>9. Lost(p)'
    BY <1>4 DEF Lost, At
  <1> QED BY <1>4, <1>5, <1>7, <1>8, <1>9, Frame DEF Fills

(* A file is created empty, or there are no more.                           *)
LEMMA CreateInv == ASSUME RInv, RequireAssumption, NEW p \in Procs, Create(p) PROVE RInv'
  <1> DEFINE n == Pid(p)  v == Pack(p)
  <1>1. p \in Running /\ UNCHANGED <<dir, hit, heir>> /\ proc[p].pc = "untar"
    BY DEF Create, At, Running
  <1>2. n \in Pids /\ v \in DOMAIN Packs /\ proc[p].next \in Nat \ {0} /\ proc[p] \in Proc
    BY <1>1, OfProc DEF RInv, Typed, Proc
  <1>3. /\ tmp[n] # NoDir /\ tmp[n] \in Dirs
        /\ \A i \in 1 .. Len(Packs[v]) : i < proc[p].next =>
              Packs[v][i] \in DOMAIN tmp[n] /\ tmp[n][Packs[v][i]] = Whole(v)
        /\ heir = {} => DOMAIN tmp[n] \subseteq FilesOf(v)
    BY <1>1, <1>2 DEF RInv, Typed, Untars, Clean, Fills, At
  <1>4. CASE proc[p].next > Len(Packs[v])
    <2>1. Goes(p, "rename") /\ UNCHANGED tmp
      BY <1>4 DEF Create
    <2>2. Moves(p) /\ proc'[p].pc = "rename" /\ proc'[p].next = proc[p].next
      <3>1. "rename" \in Pcs \ {"off"}
        BY DEF Pcs
      <3>2. Moves(p) /\ proc'[p] = [proc[p] EXCEPT !.pc = "rename"]
        BY <1>1, <2>1, <3>1, GoesMoves
      <3> QED BY <1>2, <3>2 DEF Proc
    <2>3. Served'
      BY <1>1, <2>2, ServedStill
    <2>4. Pid(p)' = n /\ Pack(p)' = v
      BY <2>2 DEF Moves, Pid, Pack
    <2>5. Untars(p)'
      BY <1>3, <1>4, <2>1, <2>2, <2>4 DEF Untars, At
    <2>6. Clean(p)' /\ Lost(p)'
      BY <1>1, <1>3, <2>1, <2>2, <2>4 DEF Clean, Lost, At
    <2>7. proc'[p].pc \in Fills \cup {"rmdir"} /\ proc'[p].pc # "thrown"
      BY <2>2 DEF Fills
    <2>8. /\ proc'[p].pc = "thrown" => p \in hit'
          /\ heir' = {} /\ tmp'[Pid(p)] # NoDir => proc'[p].pc \in Fills \cup {"rmdir"}
      BY <2>7
    <2> HIDE DEF n, v
    <2> QED BY ONLY RInv, <2>2, <2>3, <2>5, <2>6, <2>8, Frame
  <1>5. CASE ~(proc[p].next > Len(Packs[v]))
    <2> DEFINE f == File(p)  fs == With(tmp[n], f, Part(v))
    <2>1. tmp' = [tmp EXCEPT ![n] = fs] /\ Goes(p, "write")
      BY <1>5 DEF Create
    <2>2. proc[p].next \in 1 .. Len(Packs[v]) /\ f \in FilesOf(v)
      <3>1. Len(Packs[v]) \in Nat
        BY <1>2, PackFiles
      <3>2. proc[p].next \in 1 .. Len(Packs[v])
        BY <1>2, <1>5, <3>1
      <3> QED BY <1>2, <3>2, PackFiles DEF File
    <2>3. /\ fs \in Dirs /\ fs # NoDir /\ DOMAIN fs = DOMAIN tmp[n] \cup {f}
          /\ \A g \in DOMAIN tmp[n] : g # f => fs[g] = tmp[n][g]
      <3>1. Has(With(tmp[n], f, Part(v)), tmp[n], f, Part(v))
        BY <1>2, <1>3, <2>2, FileAdded
      <3> QED BY <3>1 DEF Has
    <2> HIDE DEF f, fs
    <2>4. Moves(p) /\ proc'[p].pc = "write" /\ proc'[p].next = proc[p].next /\ tmp'[n] = fs
      BY <1>1, <1>2, <2>1, <2>3 DEF Goes, Moves, RInv, Typed, Proc, Pcs
    <2>5. Served'
      BY <1>1, <2>4, ServedStill
    <2>6. Pid(p)' = n /\ Pack(p)' = v /\ File(p)' = f
      BY <2>4 DEF Moves, Pid, Pack, File, f
    <2>7. Untars(p)'
      BY <1>3, <2>2, <2>3, <2>4, <2>6 DEF Untars, At
    <2>8. Clean(p)' /\ Lost(p)'
      BY <1>1, <1>3, <2>2, <2>3, <2>4, <2>6 DEF Clean, Lost, At
    <2> QED BY <2>4, <2>5, <2>7, <2>8, Frame DEF Fills
  <1> QED BY <1>4, <1>5

LEMMA WriteInv == ASSUME RInv, RequireAssumption, NEW p \in Procs, Write(p) PROVE RInv'
  <1> DEFINE n == Pid(p)  v == Pack(p)  k == proc[p].next
             f == File(p)  fs == With(tmp[n], f, Whole(v))
  <1>1. p \in Running /\ UNCHANGED <<dir, hit, heir>> /\ proc[p].pc = "write"
    BY DEF Write, At, Running
  <1>2. n \in Pids /\ v \in DOMAIN Packs /\ k \in Nat \ {0} /\ proc[p] \in Proc
    BY <1>1, OfProc DEF RInv, Typed, Proc
  <1>3. /\ tmp[n] # NoDir /\ tmp[n] \in Dirs /\ k <= Len(Packs[v])
        /\ \A i \in 1 .. Len(Packs[v]) : i < k =>
              /\ Packs[v][i] \in DOMAIN tmp[n]
              /\ tmp[n][Packs[v][i]] = Whole(v) \/ Packs[v][i] = f
        /\ heir = {} => DOMAIN tmp[n] \subseteq FilesOf(v)
    BY <1>1, <1>2 DEF RInv, Typed, Untars, Clean, Fills, At
  <1>4. k \in 1 .. Len(Packs[v]) /\ f \in FilesOf(v) /\ f = Packs[v][k]
    BY <1>2, <1>3, PackFiles DEF File
  <1>5. /\ fs \in Dirs /\ fs # NoDir /\ DOMAIN fs = DOMAIN tmp[n] \cup {f} /\ fs[f] = Whole(v)
        /\ \A g \in DOMAIN tmp[n] : g # f => fs[g] = tmp[n][g]
    <2>1. Has(With(tmp[n], f, Whole(v)), tmp[n], f, Whole(v))
      BY <1>2, <1>3, <1>4, FileAdded
    <2> QED BY <2>1 DEF Has
  <1>6. /\ tmp' = [tmp EXCEPT ![n] = fs]
        /\ proc' = [proc EXCEPT ![p].pc = "untar", ![p].next = k + 1]
    BY DEF Write
  <1> HIDE DEF f, fs
  <1>7. Moves(p) /\ proc'[p].pc = "untar" /\ proc'[p].next = k + 1 /\ tmp'[n] = fs
    <2>1. /\ proc' \in [Procs -> Proc]
          /\ \A q \in Procs : q # p => proc'[q] = proc[q]
          /\ proc'[p] = [proc[p] EXCEPT !.pc = "untar", !.next = k + 1]
      <3>1. proc \in [Procs -> Proc] /\ "untar" \in Pcs /\ k + 1 \in Nat \ {0}
        BY <1>2 DEF RInv, Typed, Pcs
      <3>2. [proc[p] EXCEPT !.pc = "untar", !.next = k + 1] \in Proc
        BY <1>2, <3>1 DEF Proc
      <3>3. proc' = [proc EXCEPT ![p] = [proc[p] EXCEPT !.pc = "untar", !.next = k + 1]]
        BY <1>6, <3>1
      <3> QED BY <3>1, <3>2, <3>3
    <2>2. /\ proc'[p].pid = proc[p].pid /\ proc'[p].pack = proc[p].pack
          /\ proc'[p].pc = "untar" /\ proc'[p].next = k + 1
      BY <1>2, <2>1 DEF Proc
    <2>3. /\ tmp' \in [Pids -> Dirs \cup {NoDir}] /\ tmp'[n] = fs
          /\ \A m \in Pids : m # n => tmp'[m] = tmp[m]
      BY <1>2, <1>5, <1>6 DEF RInv, Typed
    <2> QED BY <1>1, <2>1, <2>2, <2>3 DEF Moves, RInv, Typed
  <1>8. Served'
    BY <1>1, <1>7, ServedStill
  <1>9. Pid(p)' = n /\ Pack(p)' = v
    BY <1>7 DEF Moves, Pid, Pack
  <1>10. ASSUME NEW i \in 1 .. Len(Packs[v]), i < k + 1
         PROVE  Packs[v][i] \in DOMAIN fs /\ fs[Packs[v][i]] = Whole(v)
    <2>1. CASE i = k
      BY <2>1, <1>4, <1>5
    <2>2. CASE i # k
      <3>1. i < k
        BY <1>2, <1>3, <1>10, <2>2
      <3> QED BY <3>1, <1>3, <1>5
    <2> QED BY <2>1, <2>2
  <1>11. Untars(p)'
    BY <1>5, <1>7, <1>9, <1>10 DEF Untars, At
  <1>12. Clean(p)' /\ Lost(p)'
    BY <1>1, <1>3, <1>4, <1>5, <1>7, <1>9 DEF Clean, Lost, At
  <1> QED BY <1>7, <1>8, <1>11, <1>12, Frame DEF Fills

(* The directory appears with all its files or is there already.            *)
LEMMA RenameInv == ASSUME RInv, RequireAssumption, NEW p \in Procs, Rename(p) PROVE RInv'
  <1> DEFINE n == Pid(p)  v == Pack(p)
  <1>1. p \in Running /\ UNCHANGED <<hit, heir>> /\ proc[p].pc = "rename"
    BY DEF Rename, At, Running
  <1>2. n \in Pids /\ v \in DOMAIN Packs /\ proc[p] \in Proc
    BY <1>1, OfProc DEF RInv, Typed
  <1>3. CASE isDir(v)
    <2>1. Goes(p, "rmdir") /\ UNCHANGED <<tmp, dir>>
      BY <1>3 DEF Rename, Publish
    <2>2. Moves(p) /\ proc'[p].pc = "rmdir"
      <3>1. "rmdir" \in Pcs \ {"off"}
        BY DEF Pcs
      <3>2. Moves(p) /\ proc'[p] = [proc[p] EXCEPT !.pc = "rmdir"]
        BY <1>1, <2>1, <3>1, GoesMoves
      <3> QED BY <1>2, <3>2 DEF Proc
    <2>3. Served'
      BY <2>1, <2>2, ServedStill
    <2>4. Untars(p)' /\ Clean(p)' /\ Lost(p)'
      BY <1>3, <2>1, <2>2 DEF Moves, Untars, Clean, Lost, Fills, At, Pack, isDir
    <2> QED BY <2>2, <2>3, <2>4, Frame
  <1>4. CASE ~isDir(v)
    <2>1. /\ dir' = [dir EXCEPT ![v] = tmp[n]]
          /\ tmp' = [tmp EXCEPT ![n] = NoDir]
          /\ Goes(p, "base")
      BY <1>4 DEF Rename, Publish
    <2>2. /\ tmp[n] # NoDir /\ tmp[n] \in Dirs
          /\ \A i \in 1 .. Len(Packs[v]) :
                Packs[v][i] \in DOMAIN tmp[n] /\ tmp[n][Packs[v][i]] = Whole(v)
          /\ heir = {} => DOMAIN tmp[n] \subseteq FilesOf(v)
      <3>1. proc[p].next \in Nat /\ Len(Packs[v]) \in Nat
        BY <1>2, PackFiles DEF Proc
      <3> QED BY <1>1, <1>2, <3>1 DEF RInv, Typed, Untars, Clean, Fills, At
    <2>3. \A f \in FilesOf(v) : f \in DOMAIN tmp[n] /\ tmp[n][f] = Whole(v)
      BY <1>2, <2>2, PackFiles
    <2>4. heir = {} => tmp[n] = Unpacked(v)
      <3>1. PICK S \in SUBSET UNION {FilesOf(u) : u \in DOMAIN Packs} : tmp[n] \in [S -> Contents]
        BY <2>2 DEF Dirs
      <3>2. heir = {} => S = FilesOf(v)
        BY <2>2, <2>3, <3>1
      <3> QED BY <2>3, <3>1, <3>2 DEF Unpacked
    <2>5. /\ Moves(p) /\ proc'[p].pc = "base" /\ tmp'[n] = NoDir /\ dir'[v] = tmp[n]
          /\ \A u \in DOMAIN Packs : u # v => dir'[u] = dir[u]
      <3>1. /\ proc' \in [Procs -> Proc] /\ proc'[p].pc = "base"
            /\ proc'[p].pid = proc[p].pid /\ proc'[p].pack = proc[p].pack
            /\ \A q \in Procs : q # p => proc'[q] = proc[q]
        BY <1>2, <2>1 DEF Goes, RInv, Typed, Proc, Pcs
      <3>2. /\ tmp' \in [Pids -> Dirs \cup {NoDir}] /\ tmp'[n] = NoDir
            /\ \A m \in Pids : m # n => tmp'[m] = tmp[m]
        BY <1>2, <2>1 DEF RInv, Typed
      <3>3. /\ dir' \in [DOMAIN Packs -> Dirs \cup {NoDir}] /\ dir'[v] = tmp[n]
            /\ \A u \in DOMAIN Packs : u # v => dir'[u] = dir[u]
        BY <1>2, <2>1, <2>2 DEF RInv, Typed
      <3> QED BY <1>1, <1>4, <3>1, <3>2, <3>3 DEF Moves
    <2>6. Served'
      <3>1. ASSUME NEW u \in DOMAIN Packs, isDir(u)'
            PROVE  /\ \A f \in FilesOf(u) : f \in DOMAIN dir'[u] /\ dir'[u][f] = Whole(u)
                   /\ heir' = {} => dir'[u] = Unpacked(u)
        <4>1. CASE u = v
          BY <4>1, <1>1, <2>3, <2>4, <2>5
        <4>2. CASE u # v
          BY <4>2, <3>1, <1>1, <2>5 DEF RInv, Served, isDir
        <4> QED BY <4>1, <4>2
      <3>2. ASSUME NEW q \in Procs, At(q, "base")'
            PROVE  isDir(Pack(q))'
        <4>1. CASE q = p
          BY <4>1, <2>2, <2>5 DEF Moves, Pack, isDir
        <4>2. CASE q # p
          <5>1. proc'[q] = proc[q] /\ isDir(Pack(q)) /\ Pack(q) \in DOMAIN Packs
            BY <4>2, <3>2, <2>5 DEF Moves, RInv, Typed, Served, At
          <5> QED BY <5>1, <2>5 DEF Moves, Pack, isDir
        <4> QED BY <4>1, <4>2
      <3> QED BY <3>1, <3>2 DEF Served
    <2>7. Untars(p)' /\ Clean(p)' /\ Lost(p)'
      BY <2>5 DEF Untars, Clean, Lost, Fills, At
    <2> QED BY <2>5, <2>6, <2>7, Frame
  <1> QED BY <1>3, <1>4

LEMMA RmdirInv == ASSUME RInv, NEW p \in Procs, Rmdir(p) PROVE RInv'
  <1> DEFINE n == Pid(p)
  <1>1. p \in Running /\ UNCHANGED <<dir, hit, heir>> /\ proc[p].pc = "rmdir"
    BY DEF Rmdir, At, Running
  <1>2. n \in Pids /\ proc[p] \in Proc
    BY <1>1, OfProc DEF RInv, Typed
  <1>3. PICK pc \in {"base", "thrown"} :
          /\ Goes(p, pc)
          /\ pc = "base" => isDir(Pack(p))
          /\ pc = "thrown" => ~isDir(Pack(p))
    BY DEF Rmdir, Settles
  <1>4. Moves(p) /\ proc'[p].pc = pc /\ tmp'[n] = NoDir
    <2>1. pc \in Pcs /\ pc # "off"
      BY <1>3 DEF Pcs
    <2>2. /\ proc' \in [Procs -> Proc] /\ proc'[p].pc = pc
          /\ proc'[p].pid = proc[p].pid /\ proc'[p].pack = proc[p].pack
          /\ \A q \in Procs : q # p => proc'[q] = proc[q]
      BY <1>2, <1>3, <2>1 DEF Goes, RInv, Typed, Proc
    <2>3. /\ tmp' \in [Pids -> Dirs \cup {NoDir}] /\ tmp'[n] = NoDir
          /\ \A m \in Pids : m # n => tmp'[m] = tmp[m]
      BY <1>2 DEF Rmdir, RInv, Typed
    <2> QED BY <1>1, <2>1, <2>2, <2>3 DEF Moves, RInv, Typed
  <1>5. Served'
    BY <1>1, <1>3, <1>4, ServedStill
  <1>6. Untars(p)' /\ Clean(p)' /\ Lost(p)'
    BY <1>3, <1>4 DEF Untars, Clean, Lost, Fills, At
  <1>7. pc = "thrown" => p \in hit'
    BY <1>1, <1>3 DEF RInv, Lost, At
  <1> QED BY <1>4, <1>5, <1>6, <1>7, Frame

(* An I/O error: it is remembered, and nothing else is done in that step.   *)
LEMMA IoFailsInv == ASSUME RInv, NEW p \in Procs, IoFails(p) PROVE RInv'
  <1>1. /\ p \in Running /\ UNCHANGED <<tmp, dir>> /\ hit \subseteq hit' /\ p \in hit'
        /\ heir \subseteq heir'
    BY DEF IoFails, At, Running
  <1>2. PICK pc \in {"thrown", "rmdir"} :
          /\ Goes(p, pc)
          /\ pc = "thrown" => proc[p].pc \in {"mkdir", "rmdir"}
    BY DEF IoFails
  <1>3. Moves(p) /\ proc'[p].pc = pc
    <2>1. pc \in Pcs \ {"off"}
      BY <1>2 DEF Pcs
    <2>2. Moves(p) /\ proc'[p] = [proc[p] EXCEPT !.pc = pc]
      BY <1>1, <1>2, <2>1, GoesMoves
    <2> QED BY <2>2 DEF RInv, Typed, Proc
  <1>4. Served'
    BY <1>1, <1>2, <1>3, ServedStill
  <1>5. Untars(p)' /\ Clean(p)' /\ Lost(p)'
    BY <1>1, <1>2, <1>3 DEF Untars, Clean, Lost, Fills, At
  <1>6. heir' = {} /\ tmp'[Pid(p)] # NoDir => pc = "rmdir"
    <2>1. ASSUME heir' = {}, tmp[Pid(p)] # NoDir, proc[p].pc = "mkdir"
          PROVE  FALSE
      <3>1. heir = {} /\ Pid(p) \in Pids
        BY <1>1, <2>1, OfProc
      <3>2. PICK q \in Running : Pid(q) = Pid(p) /\ proc[q].pc \in Fills \cup {"rmdir"}
        BY <2>1, <3>1 DEF RInv, Owned
      <3>3. q = p
        BY <1>1, <3>2 DEF RInv, OwnPid
      <3> QED BY <2>1, <3>2, <3>3 DEF Fills
    <2>2. proc[p].pc = "rmdir" => heir' # {}
      BY DEF IoFails, At
    <2> QED BY <1>1, <1>2, <2>1, <2>2
  <1> QED BY <1>1, <1>2, <1>3, <1>4, <1>5, <1>6, Frame

(* A crash leaves a .tmp-<pid> to whoever gets the pid next.                *)
LEMMA CrashInv == ASSUME RInv, NEW p \in Procs, Crash(p) PROVE RInv'
  <1>1. p \in Running /\ UNCHANGED <<tmp, dir, hit>> /\ heir \subseteq heir' /\ Goes(p, "crashed")
    BY DEF Crash
  <1>2. Moves(p) /\ proc'[p].pc = "crashed"
    <2>1. "crashed" \in Pcs \ {"off"}
      BY DEF Pcs
    <2>2. Moves(p) /\ proc'[p] = [proc[p] EXCEPT !.pc = "crashed"]
      BY <1>1, <2>1, GoesMoves
    <2> QED BY <2>2, <1>1 DEF RInv, Typed, Proc, Running
  <1>3. Served'
    BY <1>1, <1>2, ServedStill
  <1>4. Untars(p)' /\ Clean(p)' /\ Lost(p)'
    BY <1>2 DEF Untars, Clean, Lost, Fills, At
  <1>5. heir' = {} => tmp'[Pid(p)] = NoDir
    BY <1>1 DEF Crash
  <1> QED BY <1>2, <1>3, <1>4, <1>5, Frame

-----------------------------------------------------------------------------
LEMMA NextInv == ASSUME RequireAssumption PROVE RInv /\ [RequireNext]_requireVars => RInv'
  <1> SUFFICES ASSUME RInv, [RequireNext]_requireVars PROVE RInv'
    OBVIOUS
  <1>1. ASSUME NEW p \in Procs, Start(p) PROVE RInv'
    BY <1>1, StartInv
  <1>2. ASSUME NEW p \in Procs, Probe(p) PROVE RInv'
    BY <1>2, ProbeInv
  <1>3. ASSUME NEW p \in Procs, MakeTmp(p) PROVE RInv'
    BY <1>3, MakeTmpInv
  <1>4. ASSUME NEW p \in Procs, Create(p) PROVE RInv'
    BY <1>4, CreateInv
  <1>5. ASSUME NEW p \in Procs, Write(p) PROVE RInv'
    BY <1>5, WriteInv
  <1>6. ASSUME NEW p \in Procs, Rename(p) PROVE RInv'
    BY <1>6, RenameInv
  <1>7. ASSUME NEW p \in Procs, Rmdir(p) PROVE RInv'
    BY <1>7, RmdirInv
  <1>8. ASSUME NEW p \in Procs, IoFails(p) PROVE RInv'
    BY <1>8, IoFailsInv
  <1>9. ASSUME NEW p \in Procs, Crash(p) PROVE RInv'
    BY <1>9, CrashInv
  <1>10. CASE UNCHANGED requireVars
    <2>1. UNCHANGED <<proc, tmp, dir, hit, heir>>
      BY <1>10 DEF requireVars
    <2>2. Typed' /\ OwnPid' /\ Owned'
      BY <2>1 DEF RInv, Typed, OwnPid, Owned, Running, At, Pid, Pack
    <2>3. Served' /\ RaceWins'
      BY <2>1 DEF RInv, Served, RaceWins, At, Pack, isDir
    <2>4. ASSUME NEW p \in Procs
          PROVE  Untars(p)' /\ Clean(p)' /\ Lost(p)'
      BY <2>1 DEF RInv, Untars, Clean, Lost, At, Pid, Pack, File, isDir
    <2> QED BY <2>2, <2>3, <2>4 DEF RInv
  <1> QED BY <1>1, <1>2, <1>3, <1>4, <1>5, <1>6, <1>7, <1>8, <1>9, <1>10 DEF RequireNext, Steps

(* The directory of a pack that is there has every file of the pack, whole, *)
(* whatever other processes do and wherever they crashed (require.c: "a     *)
(* lost race (the dir is already there) is a win").                         *)
THEOREM DirIsWhole == ASSUME RequireAssumption PROVE RequireSpec => []Served
  <1>1. RInv => Served
    BY DEF RInv
  <1> QED BY <1>1, InitInv, NextInv, PTL DEF RequireSpec

(* A process that throws had an I/O error of its own.                       *)
THEOREM LosersWin == ASSUME RequireAssumption PROVE RequireSpec => []RaceWins
  <1>1. RInv => RaceWins
    BY DEF RInv
  <1> QED BY <1>1, InitInv, NextInv, PTL DEF RequireSpec
=============================================================================
