-------------------------- MODULE ContainerLeaves ---------------------------
(***************************************************************************)
(* The leaves under the containers of cont.c: heap.c, hash.c, hit.c, the   *)
(* row log of ulog.c, the pack of pack.c and the weave of cfold.c, as      *)
(* scripts of module LeafSteps.  A heap or hash leaf takes the reader of   *)
(* its lane's element.                                                     *)
(***************************************************************************)
EXTENDS TextLeaves

(* heap.c: a lane array, its size, and an element of one of five shapes.    *)

LaneArr == DataOf("arr")
NumOf == Scalar \o ToFloat64
HeapNum == NumOf
HeapU64 == BigU64Of
HeapPN == NumOf \o NumOf
HeapPB == BigU64Of \o BigU64Of
HeapBlob == DataOf("blob") \o Check \o Use({"blob"})

HeapPush(rdv) == Argc \o LaneArr \o Size("n", "arr") \o Room("n") \o rdv \o Work({"arr"})

\* (mutant) PTR-010: the watermark is not bounded.
HeapPopAny == Argc \o LaneArr \o Size("n", "arr") \o Or("value", Work({"arr"}))

HeapPop == Argc \o LaneArr \o Size("n", "arr") \o Or("throw", Fits("n"))
  \o Or("value", Work({"arr"}))

\* The entries are a view of their own, which must not overlap the array.
HeapFeed == Argc \o LaneArr \o Size("n", "arr") \o DataOf("entries") \o Check
  \o Or("throw", Fits("n")) \o Check \o Work({"arr", "entries"})

-----------------------------------------------------------------------------
(* hash.c: the table must have a power-of-two number of slots.              *)

HashLaneArr == DataOf("table") \o Guard
HashNumOf == Scalar \o ToFloat64
HashRdNum == HashNumOf
HashRdU64 == BigU64Of
HashRdPN == HashRdNum \o HashRdNum
HashRdPB == HashRdU64 \o HashRdU64
HashRdBlob == DataOf("blob") \o Check \o Use({"blob"})

HashPut(rdput) == Argc \o HashLaneArr \o rdput \o Work({"table"})
HashGet(rdkey) == Argc \o HashLaneArr \o rdkey \o Or("value", Work({"table"}))
HashDel(rdkey) == Argc \o HashLaneArr \o rdkey \o Use({"table"})

-----------------------------------------------------------------------------
(* hit.c *)

HitLaneArr(a) == DataOf(a)
RunsLen == Get("length") \o Freeing({"length"}, u64Of) \o Drop({"length"})
SortLeaf == Argc \o Size("n", "arr") \o HitLaneArr("arr") \o Clamp("n") \o Use({"arr"})

\* The destination form, and the one that makes its output.
HitInto == Freeing({"runs"}, DataOf("dst")) \o Use({"runs", "dst"}) \o RunsFree \o Check
HitFresh == Freeing({"runs"}, Check) \o Hold("mem")
  \o Maybe(Freeing({"runs", "mem"}, Work({"runs"}))) \o RunsFree
  \o Freeing({"mem"}, BytesNoCopy) \o Drop({"mem"})
  \o Hold("whole") \o Freeing({"whole"}, SubView) \o Drop({"whole"})

HitRun == Argc \o RunsLen \o Check \o RunsOf \o Either(HitInto, HitFresh)

-----------------------------------------------------------------------------
(* ulog.c *)

\* The text of a row of the base a, on the stack or in a block of its own.
UlogUriStr(a) == Either(Use({a}), Check \o Hold("pad") \o Use({a}) \o Drop({"pad"}))
UlogUriGate == Check
JABCulogFeed == Argc \o IdleOf("buf") \o BufFed("off", "buf") \o ArgU8("vs") \o ArgU8("us")
  \o Use({"vs"}) \o Maybe(BigU64Of) \o UlogUriGate \o Work({"buf", "us"})

\* (mutant) an offset that is refused is the end of the log.
JABCulogNextQuiet == Argc \o DataOf("buf") \o Or("value", OffOf("off", "buf"))
  \o OffOf("dl", "buf") \o Less("off", "dl") \o Check \o Slice("off", "dl")
  \o Or("value", Work({"buf"}))

JABCulogNext == Argc \o DataOf("buf") \o OffOf("off", "buf") \o OffOf("dl", "buf")
  \o Less("off", "dl") \o Check \o Slice("off", "dl") \o Or("value", Work({"buf"}))
JABCulogAt == DataOf("buf") \o BufAt("off", "buf") \o Work({"buf"})
JABCulogTime == Or("value", Argc \o JABCulogAt)
JABCulogVerb == Or("value", Argc \o JABCulogAt)
JABCulogUri == Or("value", Argc \o JABCulogAt) \o UlogUriStr("buf")

\* One turn of the scan, from any row: forward to dl, or to the row before.
JABCulogScan == Either(Less("off", "dl") \o Slice("off", "dl") \o Use({"buf"}),
                       Before("off") \o Slice("off", "dl") \o Use({"buf"}))
UlogSeekHead == Argc \o DataOf("buf") \o OffOf("off", "buf") \o OffOf("dl", "buf")
JABCulogSeekVerb == UlogSeekHead \o ArgU8("vs") \o Use({"vs"}) \o JABCulogScan
JABCulogSeekTime == UlogSeekHead \o BigU64Of \o JABCulogScan
JABCulogSeekURI == UlogSeekHead \o ArgU8("ps") \o JABCulogScan \o Use({"ps"})

\* The booked log: its box is the base "box".  A path that is too long is
\* refused without a throw.
JABCulogPath == ArgU8("path") \o Or("fail", Check) \o Use({"path"})
JABCulogOpen == Argc \o JABCulogPath \o Check \o Hold("box") \o Freeing({"box"}, Check) \o Drop({"box"})
JABCulogHandle == Or("throw", ToFloat64 \o Check) \o Take("box")
JABCulogAppend == Argc \o JABCulogHandle \o BigU64Of \o ArgU8("vs") \o ArgU8("us")
  \o Use({"vs"}) \o UlogUriGate \o Work({"box", "us"})
JABCulogCount == Argc \o JABCulogHandle \o Use({"box"})
JABCulogRowUri == Argc \o JABCulogHandle \o ToFloat64 \o Or("value", Work({"box"}))
  \o UlogUriStr("box")
JABCulogRowTime == Argc \o JABCulogHandle \o ToFloat64 \o Or("value", Work({"box"}))
JABCulogClose == Argc \o JABCulogHandle \o Use({"box"})

-----------------------------------------------------------------------------
(* pack.c: records.                                                         *)

JABCpackHeader == Argc \o IdleOf("c") \o BufFed("off", "c") \o u32Of \o Work({"c"})
JABCpackCount == Argc \o DataOf("c") \o Work({"c"})
JABCpackFeed == Argc \o IdleOf("log") \o BufFed("off", "log") \o u8Of \o DataOf("content")
  \o Maybe(DataOf("base")) \o Maybe(i64Of) \o Maybe(IdleOf("delta"))
  \o Work({"log", "content", "base", "delta"})
JABCpackAt == DataOf("c") \o BufAt("off", "c") \o Work({"c"})
JABCpackNext == Argc \o DataOf("c") \o OffOf("off", "c") \o OffOf("dl", "c")
  \o Less("off", "dl") \o Check \o Or("value", Work({"c"}))
JABCpackType == Or("value", Argc \o JABCpackAt)
JABCpackSize == Or("value", Argc \o JABCpackAt)
JABCpackBaseOff == Or("value", Argc \o JABCpackAt)
JABCpackRef == Or("value", Argc \o JABCpackAt \o Check) \o Use({"c"})
JABCpackInflate == Argc \o Or("throw", JABCpackAt) \o IdleOf("out") \o BufFed("oo", "out")
  \o Work({"c", "out"})
JABCpackResolve == Argc \o DataOf("c") \o OffOf("rec", "c") \o IdleOf("base") \o IdleOf("delta")
  \o Work({"c", "base", "delta"}) \o Use({"c", "base", "delta"})
JABCdeltApply == Argc \o DataOf("base") \o DataOf("delta") \o IdleOf("out") \o BufFed("oo", "out")
  \o Work({"base", "delta", "out"})
JABCdeltEncode == Argc \o DataOf("base") \o DataOf("target") \o IdleOf("out") \o BufFed("oo", "out")
  \o Use({"base", "target", "out"}) \o Or("value", Check) \o Check

\* The three guards before the first write of the scan.
JABCpackScan == Argc \o DataOf("c") \o OffOf("dl", "c") \o IdleOf("out") \o IdleOf("base")
  \o IdleOf("delta") \o Check \o Work({"c"}) \o Check \o Check
  \o Work({"c", "out", "base", "delta"})
JABCpackFeedEmit == Argc \o u8Of \o DataOf("content") \o u64Of \o IdleOf("out")
  \o BufFed("oo", "out") \o Check \o Check \o Work({"content", "out"})

\* The entry's name and hash are positions in, and a copy of, the caller's bytes.
JABCgitTreeNext == Argc \o DataOf("c") \o OffOf("off", "c") \o Or("value", Check)
  \o BufAt("off", "c") \o Use({"c"}) \o Or("value", Check) \o Check
  \o Hold("o") \o Use({"c"}) \o Drop({"o"})

\* The identity lines replace each other; every value not given to `o` is freed.
JABCgitParseCommit == Argc \o DataOf("c") \o Hold("o") \o Use({"c"}) \o Hold("lists")
  \o Loop(Use({"c"}) \o Hold("hv") \o Drop({"hv"})) \o Drop({"lists"}) \o Drop({"o"})

-----------------------------------------------------------------------------
(* pack.c: git.pack, which calls back into JS while it holds two bases.     *)

\* JABCOptNumOf: a getter that throws or a bad number is the default.
OptNum == Maybe(Catch(Get("v") \o Maybe(Freeing({"v"}, u64Of)) \o Drop({"v"}), Clear))

\* JABCPackWatch: one fire, then both regions must be the same memory.
PackWatch == Hold("st") \o Freeing({"st"}, Call) \o Drop({"st"})
  \o ViewSame("buf") \o ViewSame("ix")

\* JABCPackHold: the first throw is taken, to be thrown again at the end.
PackHold == Clear

PackRefs == {"iv", "bytes", "fn"}

\* Every option is read, and only then is the Buf unwrapped.
PackOpts == OptNum \o OptNum \o OptNum
  \o Maybe(Then(Get("fn"), Maybe(Drop({"fn"}))) \o Try(Get("iv")))
  \o Freeing(PackRefs, BufOfKeep("buf"))

\* JABCpackRepack.  A missing index is told from a refused one by whether an
\* exception is pending.
JABCpackRepack == Argc \o i64Of \o Check \o Check \o Path \o PackOpts
  \o Freeing(PackRefs,
       Either(Pending \o Raise, ViewVia("ix", "iv") \o Guard) \o Check
       \o Maybe(ViewVia("buf", "bytes") \o ViewVia("ix", "iv")))
  \o Catch(Use({"buf", "ix"}) \o Loop(PackWatch \o Use({"buf", "ix"})),
           PackHold \o BufBack \o Drop(PackRefs) \o Raise)
  \o BufBack \o Drop(PackRefs) \o Check

-----------------------------------------------------------------------------
(* cfold.c *)

\* Whatever v is, it is converted to text.
JABCcfoldHi64 == CString("b") \o Drop({"b"})
JABCcfoldAt == DataOf("blob") \o OffOf("len", "blob") \o Check \o Work({"blob"})
JABCcfoldRev == JABCcfoldHi64 \o Work({"blob"})

\* The ancestors; a bad length is none, a bad element is zero.
JABCcfoldIds == Maybe(Then(Get("lv") \o Freeing({"lv"}, u32Of),
  Drop({"lv"}) \o Maybe(Hold("ids")
    \o Loop(Try(Get("el")) \o Try(JABCcfoldHi64) \o Drop({"el"})))))

JABCcfoldCount == Argc \o Or("value", JABCcfoldAt) \o Use({"blob"})
JABCcfoldCommits == Argc \o Or("value", JABCcfoldAt) \o Check \o Hold("els")
  \o Loop(Freeing({"els"}, Work({"blob"}))) \o Drop({"els"})
JABCcfoldNext == Argc \o IdleOf("dest") \o Maybe(Try(JABCcfoldAt \o Take("wp"))) \o DataOf("nb")
  \o ArgU8("ext") \o JABCcfoldHi64 \o JABCcfoldIds
  \o Use({"dest", "wp", "nb", "ext"}) \o Drop({"ids"}) \o Check
JABCcfoldMerge == Argc \o IdleOf("dest") \o Or("throw", JABCcfoldAt) \o JABCcfoldHi64
  \o JABCcfoldIds \o Use({"dest", "blob"}) \o Drop({"ids"}) \o Check
JABCcfoldAlive == Argc \o Or("value", JABCcfoldAt) \o IdleOf("out") \o Work({"blob", "out"})
JABCcfoldProduce == Argc \o Or("value", JABCcfoldAt) \o Or("throw", JABCcfoldRev)
  \o IdleOf("out") \o Work({"blob", "out"})
JABCcfoldBlame == Argc \o Or("throw", JABCcfoldAt) \o u32Of \o Work({"blob"}) \o Work({"blob"})
JABCcfoldIterMem == Argc \o Or("value", JABCcfoldAt) \o Use({"blob"})
JABCcfoldStep == Argc \o Or("value", JABCcfoldAt) \o Or("throw", JABCcfoldRev)
  \o DataOf("cur") \o Check \o Work({"blob", "cur"}) \o Maybe(SubView \o Hold("text")
  \o Freeing({"text"}, Made) \o Drop({"text"}))
JABCcfoldEmitDiff == Argc \o Or("throw", JABCcfoldAt) \o ArgU8("name") \o ArgU8("nav")
  \o Or("throw", JABCcfoldRev) \o Or("throw", JABCcfoldRev)
  \o IdleOf("dest") \o BufFed("off", "dest") \o Work({"blob", "name", "nav", "dest"})
JABCcfoldEmitFull == Argc \o Or("throw", JABCcfoldAt) \o ArgU8("name") \o ArgU8("sch") \o ArgU8("nav")
  \o Or("throw", JABCcfoldRev) \o Or("throw", JABCcfoldRev)
  \o IdleOf("dest") \o BufFed("off", "dest") \o Work({"blob", "name", "sch", "nav", "dest"})

=============================================================================
