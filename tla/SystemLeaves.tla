---------------------------- MODULE SystemLeaves ----------------------------
(***************************************************************************)
(* The leaves over files, processes, sockets, terminals and native handles *)
(* (io.c, net.c, fsw.c, tty.c, git.c, igno.c) and over the runs of an      *)
(* index (index.c), as scripts of module LeafSteps.  A system call is a    *)
(* condition that may fail; what it may block on is not here.              *)
(***************************************************************************)
EXTENDS ContainerLeaves

(* io.c.  An fd outside the ints becomes -1, which every call refuses.      *)

JABCInt == ToFloat64

\* A mode word: anything but a string leaves the default.
JABCWord == Maybe(IsText \o Or("on", CString("s")) \o Drop({"s"}))

JABCioOpen == Argc \o Path \o Maybe(JABCWord) \o Check
JABCioClose == Argc \o JABCInt
JABCioSync == Argc \o JABCInt \o Check
JABCioSize == Argc \o JABCInt \o Check
JABCioResize == Argc \o JABCInt \o ToFloat64 \o Check \o Check
JABCioLock == Argc \o JABCInt \o Check
JABCioUnlock == Argc \o JABCInt \o Check
JABCStatObj == Made
JABCioStat == Argc \o Path \o Check \o JABCStatObj
JABCioLStat == Argc \o Path \o Check \o JABCStatObj
JABCioReadLink == Argc \o Path \o Check
JABCioRealPath == Argc \o Path \o Check
JABCioSymLink == Argc \o Path \o Path \o Check
JABCioChmod == Argc \o Path \o ToFloat64 \o Check \o Check
JABCioSetMtime == Argc \o Path \o BigU64Of \o Check
JABCioRead == Argc \o JABCInt \o IdleOf("tab") \o Work({"tab"})
JABCioWrite == Argc \o JABCInt \o DataOf("tab") \o Work({"tab"})
JABCioMsync == Argc \o DataOf("tab") \o Work({"tab"})
JABCioTruncate == Argc \o Path \o ToFloat64 \o Check \o Check
  \o Hold("fd") \o Drop({"fd"}) \o Check
JABCioCwd == Check
JABCioChdir == Argc \o Path \o Check
JABCioGetenv == Argc \o IsText \o CString("name") \o Drop({"name"})
JABCioUnlink == Argc \o Path \o Check
JABCioRename == Argc \o Path \o Path \o Check
JABCioMkdir == Argc \o Path \o Check
JABCioRmdir == Argc \o Path \o Check

\* The length and the elements are read by JS; each element is copied at once.
JABCBuildArgv == Or("on", Check) \o Get("len") \o Drop({"len"}) \o Check
  \o Loop(Get("ev") \o Freeing({"ev"}, IsText \o CString("s")) \o Drop({"ev"})
          \o Freeing({"s"}, Check) \o Drop({"s"}))

\* A code of JABCBuildArgv throws, unless an exception is pending.
SpawnArgs == Catch(JABCBuildArgv, Pending \o Raise)

\* The child and both pipes are the caller's once they are in the answer.
JABCioSpawn == Argc \o Path \o SpawnArgs \o Check \o Hold("child") \o Made \o Drop({"child"})
JABCioSpawnFds == Argc \o Path \o SpawnArgs \o Maybe(JABCInt) \o Maybe(JABCInt) \o Check

\* The job queue is pumped: a job that throws ends it, and is reported.
JABCDrainJobs == Catch(Call, Clear)

\* A getter that throws counts as false, and what it threw stays pending.
JABCReaddirOptBool == Or("on", Get("v")) \o Drop({"v"})
JABCReaddirEmit == Or("on", Made)
JABCReaddirDirective == JABCWord

\* Any JS runs in the midst of a scan; a throw of it, a scan's error and a
\* "recur" that is too deep all leave by the caller, which frees `cb`.
JABCReaddirCall == Hold("name") \o Freeing({"name", "cb"}, Get("r")) \o Drop({"name"})
  \o JABCDrainJobs \o JABCReaddirDirective \o Drop({"r"}) \o Freeing({"cb"}, Check)

\* With a callback, its own argument or one of the options; and without.
ReaddirCalls == Maybe(JABCReaddirOptBool \o JABCReaddirOptBool) \o Hold("cb")
  \o Loop(JABCReaddirCall) \o Freeing({"cb"}, Check) \o Drop({"cb"})
ReaddirLists == Maybe(JABCReaddirOptBool \o JABCReaddirOptBool \o JABCReaddirOptBool)
  \o Made \o Hold("arr") \o Loop(JABCReaddirEmit) \o Freeing({"arr"}, Check) \o Drop({"arr"})
JABCioReaddir == Argc \o Path \o Check \o Either(ReaddirCalls, ReaddirLists)

JABCioReap == Argc \o JABCInt \o Check \o Made
JABCioFork == Check
JABCioExit == Maybe(JABCInt)
JABCioIsatty == Argc \o JABCInt
JABCioLog == Loop(Maybe(Either(IsText \o CString("b") \o Drop({"b"}),
                               DataOf("tab") \o Use({"tab"}))))

-----------------------------------------------------------------------------
(* net.c: the native half of net and dgram.                                 *)

JABCUri == Check \o IsText \o CString("s") \o Drop({"s"}) \o Check
JABCNetListen == Argc \o Or("throw", JABCUri) \o Check
JABCNetConnect == Argc \o Or("throw", JABCUri) \o Check
JABCNetAccept == Argc \o FdOf \o Or("value", Check)
JABCNetRecv == Argc \o FdOf \o IdleOf("tab") \o Use({"tab"}) \o Or("value", Check) \o Check
JABCNetSend == Argc \o FdOf \o DataOf("tab") \o Use({"tab"}) \o Or("value", Check) \o Check
JABCNetShutwr == Argc \o FdOf
JABCNetClose == Argc \o FdOf
JABCDgramBind == Argc \o Or("throw", JABCUri) \o Check
JABCDgramRecv == Argc \o FdOf \o IdleOf("tab") \o Use({"tab"}) \o Or("value", Check) \o Check

JABCDgramSend == Argc \o FdOf \o Or("throw", JABCUri) \o u64Of \o Check \o DataOf("tab")
  \o Check \o Hold("res") \o Use({"tab"}) \o Drop({"res"}) \o Or("value", Check) \o Check

-----------------------------------------------------------------------------
(* fsw.c and tty.c                                                          *)

JABCFswInit == Check
JABCFswDir == Argc \o FdOf \o Path \o Check

\* The cursors are handed back before the code is looked at.
JABCFswDrain == Argc \o FdOf \o Check \o BufOf("buf") \o Use({"buf"}) \o BufBack \o Check
JABCFswClose == Argc \o FdOf

JABCttyRaw == Argc \o FdOf \o Check \o Hold("p") \o Freeing({"p"}, Check) \o Drop({"p"})
JABCttyCook == Argc \o FdOf \o DataOf("savedb") \o Check \o Work({"savedb"})
JABCttySize == Maybe(FdOf) \o Check
JABCttyOpenPty == Check
JABCttySetSize == Argc \o FdOf \o ToFloat64 \o ToFloat64 \o Check

-----------------------------------------------------------------------------
(* git.c: the handle of a store is a pin, a typed array over its number.    *)

jgit_str == Check \o IsText \o CString("s") \o Freeing({"s"}, Check) \o Drop({"s"})
jgit_object == Check

\* NO pin, or a pin whose slot has another generation, is no store.
JABCGitOf == DataOf("pin") \o Use({"pin"}) \o Or("on", Check) \o Take("store")

JABCgitOpen == Argc \o Or("throw", jgit_str) \o Check \o Check \o Hold("store")
  \o Freeing({"store"}, Check) \o Hold("pin") \o Freeing({"store", "pin"}, BytesNoCopy)
  \o Drop({"store", "pin"})
jgit_read == Argc \o Catch(JABCGitOf, Clear \o Raise) \o Or("throw", jgit_str) \o Check
  \o Use({"store"}) \o Or("value", Check) \o Check \o jgit_object
JABCgitTreeDiff == Argc \o Catch(JABCGitOf, Clear \o Raise) \o Or("throw", jgit_str)
  \o Or("throw", jgit_str) \o Work({"store"}) \o Or("value", Check)

\* A pin that is not open closes nothing; any exception is taken for its own.
JABCgitClose == Argc \o Catch(JABCGitOf \o Pending \o Use({"store"}), Pending)

-----------------------------------------------------------------------------
(* igno.c: the handle of a list is the address of its box.                  *)

JABCignoHandle == ToFloat64 \o Check
JABCignoOpen == Argc \o CString("s") \o Freeing({"s"}, Check \o Check) \o Drop({"s"})
JABCignoMatch == Argc \o Or("throw", JABCignoHandle) \o Take("box") \o CString("s")
  \o Use({"box"}) \o Drop({"s"})
JABCignoClose == Argc \o Or("value", JABCignoHandle) \o Take("box")
  \o Or("value", Work({"box"}))

-----------------------------------------------------------------------------
(* index.c: wh128 and u64 runs; a bound is one or two BigInts.              *)

JABCLaneAligned == Guard
JABCLaneArr(a) == DataOf(a) \o JABCLaneAligned
JABCRunsLen == Get("length") \o Freeing({"length"}, u64Of) \o Drop({"length"})
JABCIdxWh128 == BigU64Of \o BigU64Of
JABCIdxU64 == BigU64Of
Bound == Either(JABCIdxWh128, JABCIdxU64)
JABCIdxRuns == RunsOf \o Freeing({"runs"}, JABCLaneAligned)
JABCIdxRunsSame == ViewSame("runs")
JABCIdxStop == Maybe(IsText \o Or("on", CString("stop")) \o Drop({"stop"}))

FindGe == Argc \o Bound \o JABCLaneArr("run") \o Use({"run"})

\* (mutant) QJAB-005: the runs are not re-asserted after the callback.
SeekRangeBlind == Argc \o JABCRunsLen \o Check \o Bound \o Bound \o Check \o JABCIdxRuns
  \o Use({"runs"}) \o Freeing({"runs"}, Check)
  \o Loop(Use({"runs"}) \o Freeing({"runs"}, Call) \o JABCIdxStop)
  \o RunsFree

\* One callback per row; any JS may run in it.
SeekRange == Argc \o JABCRunsLen \o Check \o Bound \o Bound \o Check \o JABCIdxRuns
  \o Use({"runs"}) \o Freeing({"runs"}, Check)
  \o Loop(Use({"runs"}) \o Freeing({"runs"}, Call) \o JABCIdxStop
          \o Freeing({"runs"}, JABCIdxRunsSame))
  \o RunsFree
Compact == Argc \o JABCRunsLen \o Check \o JABCIdxRuns
  \o Freeing({"runs"}, JABCLaneArr("out")) \o Use({"runs", "out"}) \o RunsFree \o Check

=============================================================================
