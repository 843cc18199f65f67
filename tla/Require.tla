-------------------------------- MODULE Require --------------------------------
(***************************************************************************)
(* The scripts built into the binary (require.c, packExtract): the first   *)
(* bareword that a process requires unpacks them, once per user, into the  *)
(* directory named by the pack's hash.  Several processes, of this build   *)
(* or of another, may do so at once; each unpacks into `.tmp-<pid>` and    *)
(* renames that, and any of them may crash and leave its `.tmp-<pid>` to a *)
(* later process that happens to get its pid.                              *)
(*                                                                         *)
(* External: the file system.  FILEMakeDirP is content with a directory    *)
(* that exists, FILECreate empties a file that does, rename(2) of a        *)
(* directory is atomic and refuses a target with files in it, and two live *)
(* processes never have one pid.                                           *)
(***************************************************************************)
EXTENDS Naturals, Sequences, SequencesExt

CONSTANTS
    Procs,      \* processes, one run each
    Pids,       \* pids they may get
    Packs,      \* packHex -> the files of that pack in order
    NoDir       \* no directory

VARIABLES
    proc,       \* [pc, pid, pack, next]: next counts the files of the untar
    tmp,        \* pid -> .tmp-<pid>: file -> content, or NoDir
    dir,        \* pack -> <cache>/jsrcs/<packHex>, likewise
    hit,        \* processes that had an I/O error
    heir        \* pids whose .tmp- was left behind by a process that is gone

requireVars == <<proc, tmp, dir, hit, heir>>

Whole(v) == [pack |-> v, whole |-> TRUE]
Part(v) == [pack |-> v, whole |-> FALSE]
FilesOf(v) == ToSet(Packs[v])
Unpacked(v) == [f \in FilesOf(v) |-> Whole(v)]

Contents == {Whole(v) : v \in DOMAIN Packs} \cup {Part(v) : v \in DOMAIN Packs}
Dirs == UNION {[S -> Contents] : S \in SUBSET UNION {FilesOf(v) : v \in DOMAIN Packs}}

RequireAssumption ==
    /\ \A v \in DOMAIN Packs : Packs[v] \in Seq(FilesOf(v))
    /\ NoDir \notin Dirs

At(p, pc) == proc[p].pc = pc
Goes(p, pc) == proc' = [proc EXCEPT ![p].pc = pc]
Running == {p \in Procs : proc[p].pc \notin {"off", "base", "thrown", "crashed"}}
Pack(p) == proc[p].pack

Pid(p) == proc[p].pid
isDir(v) == dir[v] # NoDir

RequireInit ==
    /\ proc = [p \in Procs |-> [pc |-> "off", pid |-> 0, pack |-> "", next |-> 1]]
    /\ tmp = [n \in Pids |-> NoDir] /\ dir = [v \in DOMAIN Packs |-> NoDir]
    /\ hit = {} /\ heir = {}

-----------------------------------------------------------------------------
\* The process starts, with the pid of no other, and looks for its directory.
Start(p) ==
    /\ At(p, "off")
    /\ \E n \in Pids \ {Pid(q) : q \in Running}, v \in DOMAIN Packs :
          proc' = [proc EXCEPT ![p] = [pc |-> "probe", pid |-> n, pack |-> v, next |-> 1]]
    /\ UNCHANGED <<tmp, dir, hit, heir>>

Probe(p) ==
    /\ At(p, "probe")
    /\ Goes(p, IF isDir(Pack(p)) THEN "base" ELSE "mkdir")
    /\ UNCHANGED <<tmp, dir, hit, heir>>

\* io.mkdir: content with a directory that exists.
Made(fs) == IF fs = NoDir THEN <<>> ELSE fs

\* (mutant) a directory that exists is an error.
MakeTmpNew(p) ==
    /\ At(p, "mkdir")
    /\ tmp' = [tmp EXCEPT ![Pid(p)] = Made(@)]
    /\ Goes(p, IF tmp[Pid(p)] = NoDir THEN "untar" ELSE "thrown")
    /\ UNCHANGED <<dir, hit, heir>>

\* io.mkdir(tmp), before the try.
MakeTmp(p) ==
    /\ At(p, "mkdir")
    /\ tmp' = [tmp EXCEPT ![Pid(p)] = Made(@)]
    /\ Goes(p, "untar")
    /\ UNCHANGED <<dir, hit, heir>>

\* packUntar: the next file is created, in a directory, and then written.
With(fs, f, c) == [g \in DOMAIN Made(fs) \cup {f} |-> IF g = f THEN c ELSE fs[g]]
File(p) == Packs[Pack(p)][proc[p].next]

Create(p) ==
    /\ At(p, "untar")
    /\ IF proc[p].next > Len(Packs[Pack(p)])
       THEN Goes(p, "rename") /\ UNCHANGED tmp
       ELSE /\ tmp' = [tmp EXCEPT ![Pid(p)] = With(@, File(p), Part(Pack(p)))]
            /\ Goes(p, "write")
    /\ UNCHANGED <<dir, hit, heir>>

Write(p) ==
    /\ At(p, "write")
    /\ tmp' = [tmp EXCEPT ![Pid(p)] = With(@, File(p), Whole(Pack(p)))]
    /\ proc' = [proc EXCEPT ![p].pc = "untar", ![p].next = @ + 1]
    /\ UNCHANGED <<dir, hit, heir>>

\* (mutant) the directory appears first and its files follow.
PublishEarly(p) ==
    IF isDir(Pack(p)) THEN Goes(p, "rmdir") /\ UNCHANGED <<tmp, dir>>
    ELSE /\ dir' = [dir EXCEPT ![Pack(p)] = <<>>]
         /\ Goes(p, "rename") /\ UNCHANGED tmp

\* io.rename(tmp, dir): someone else's directory is an error, and a win.
Publish(p) ==
    IF isDir(Pack(p)) THEN Goes(p, "rmdir") /\ UNCHANGED <<tmp, dir>>
    ELSE /\ dir' = [dir EXCEPT ![Pack(p)] = tmp[Pid(p)]]
         /\ tmp' = [tmp EXCEPT ![Pid(p)] = NoDir]
         /\ Goes(p, "base")

Rename(p) ==
    /\ At(p, "rename") /\ Publish(p)
    /\ UNCHANGED <<hit, heir>>

\* The catch: if (!isDir(dir)) throw e.
Settles(p) == IF isDir(Pack(p)) THEN "base" ELSE "thrown"

Rmdir(p) ==
    /\ At(p, "rmdir")
    /\ tmp' = [tmp EXCEPT ![Pid(p)] = NoDir]
    /\ Goes(p, Settles(p))
    /\ UNCHANGED <<dir, hit, heir>>

\* Any of these calls may fail: the first and the last are outside of the try.
IoFails(p) ==
    /\ \/ proc[p].pc \in {"mkdir", "rmdir"} /\ Goes(p, "thrown")
       \/ proc[p].pc \in {"untar", "write", "rename"} /\ Goes(p, "rmdir")
    /\ hit' = hit \cup {p}
    /\ UNCHANGED <<tmp, dir>>
    /\ heir' = IF At(p, "rmdir") THEN heir \cup {Pid(p)} ELSE heir

Crash(p) ==
    /\ p \in Running
    /\ Goes(p, "crashed")
    /\ heir' = IF tmp[Pid(p)] # NoDir THEN heir \cup {Pid(p)} ELSE heir
    /\ UNCHANGED <<tmp, dir, hit>>

Steps(p) == Probe(p) \/ MakeTmp(p) \/ Create(p) \/ Write(p) \/ Rename(p) \/ Rmdir(p)

RequireNext == \E p \in Procs : Start(p) \/ Steps(p) \/ IoFails(p) \/ Crash(p)

RequireSpec == RequireInit /\ [][RequireNext]_requireVars

-----------------------------------------------------------------------------
(* Whenever the directory of a pack is there, every file of the pack is in  *)
(* it, whole: a process that probes may use it at once, whatever others are *)
(* doing and wherever they crashed (require.c: "a lost race (the dir is     *)
(* already there) is a win").  A file of another build is there only by way *)
(* of a .tmp-<pid> that a process which is gone left behind.                *)
Served ==
    /\ \A v \in DOMAIN Packs : isDir(v) =>
          /\ \A f \in FilesOf(v) : f \in DOMAIN dir[v] /\ dir[v][f] = Whole(v)
          /\ heir = {} => dir[v] = Unpacked(v)
    /\ \A p \in Procs : At(p, "base") => isDir(Pack(p))

(* A process that throws had an I/O error of its own: neither a lost race   *)
(* nor what a crash left behind makes it fail.                              *)
RaceWins == \A p \in Procs : At(p, "thrown") => p \in hit
=============================================================================
