----------------------------- MODULE TextLeaves -----------------------------
(***************************************************************************)
(* The leaves over text and records: hunk.c, tok.c, codec.c, zip.c, uri.c, *)
(* utf8.c, http.c, dirc.c, as scripts of module LeafSteps.  A base is the  *)
(* pointer of one typed-array argument, by its C name; a callee of abc/ or *)
(* dog/ is a use of the bases it gets and a code that it may return.       *)
(***************************************************************************)
EXTENDS LeafSteps

(* hunk.c *)

\* A slice from a string, copied, or from a typed array, in place.
ArgU8(a) == Either(IsText \o CString("text") \o Drop({"text"}), DataOf(a))

JABChunkFeed == Argc \o IdleOf("buf") \o BufFed("off", "buf") \o ArgU8("uri")
  \o DataOf("text") \o DataOf("toks") \o Work({"buf", "uri", "text", "toks"})

JABChunkDogenize == Argc \o IdleOf("buf") \o BufFed("off", "buf") \o DataOf("source")
  \o ArgU8("ext") \o Maybe(ArgU8("uri")) \o Check
  \o Check \o Hold("tm") \o Freeing({"tm"}, Work({"source", "ext"}))
  \o Use({"buf", "uri", "source"}) \o Drop({"tm"}) \o Check

\* (mutant) the watermark is not compared with the offset.
JABChunkNextAny == Argc \o DataOf("buf") \o OffOf("off", "buf") \o OffOf("dl", "buf")
  \o Check \o Slice("off", "dl") \o Or("value", Work({"buf"}))

\* u8csSub refuses a range past the end; the drain is a use of [r, dl).
JABChunkNext == Argc \o DataOf("buf") \o OffOf("off", "buf") \o OffOf("dl", "buf")
  \o Less("off", "dl") \o Check \o Slice("off", "dl") \o Or("value", Work({"buf"}))

JABChunkAt == DataOf("buf") \o BufAt("off", "buf") \o Work({"buf"})
JABChunkField == Either(Made, SubView)
JABChunkUri == Argc \o Or("value", JABChunkAt) \o JABChunkField
JABChunkText == Argc \o Or("value", JABChunkAt) \o JABChunkField
JABChunkToks == Argc \o Or("value", JABChunkAt) \o Made \o Hold("ta")
  \o Freeing({"ta"}, ViewVia("ta", "ta")) \o Use({"buf", "ta"}) \o Drop({"ta"})
JABChunkVerb == Argc \o Or("value", JABChunkAt)
JABChunkTime == Argc \o Or("value", JABChunkAt)
JABChunkRender == Argc \o Or("throw", JABChunkAt) \o IdleOf("out") \o BufFed("oo", "out")
  \o u32Of \o Work({"buf", "out"})

-----------------------------------------------------------------------------
(* tok.c: every guard comes before the first write.                         *)

JABCArgU8(a) == Either(IsText \o CString("text") \o Drop({"text"}), DataOf(a))
JABCtokParseInto == Argc \o DataOf("source") \o Check \o JABCArgU8("ext")
  \o IdleOf("out") \o Check \o Check \o Work({"source", "ext", "out"})

-----------------------------------------------------------------------------
(* codec.c *)

JABChexEncode == Argc \o DataOf("bin") \o Check \o Hold("h") \o Use({"bin"}) \o Drop({"h"})
JABChexEncodeInto == Argc \o DataOf("bin") \o IdleOf("dst") \o Use({"bin", "dst"})
JABChexDecode == Argc \o IsText \o CString("hb") \o Freeing({"hb"}, Check \o Check)
  \o Hold("p") \o Drop({"hb"}) \o Drop({"p"})
JABCsha1 == Argc \o DataOf("bin") \o Use({"bin"})
JABCsha256 == Argc \o DataOf("bin") \o Use({"bin"})
JABCronEncode == Argc \o BigU64Of
JABCronDecode == Argc \o IsText \o CString("s") \o Drop({"s"})
JABCronOfMs == Argc \o ToFloat64 \o Check
JABCronDate == Argc \o BigU64Of \o Maybe(Check) \o Check

-----------------------------------------------------------------------------
(* zip.c: the offset is coerced before the views are unwrapped.             *)

\* (mutant) the offset is compared before the view is unwrapped.
JABCzipDeflateEarly == Argc \o Size("off", "out") \o BufFedAt("off") \o DataOf("src")
  \o IdleOf("out") \o Work({"src", "out"})

JABCzipDeflate == Argc \o Size("off", "out") \o DataOf("src") \o IdleOf("out")
  \o BufFedAt("off") \o Work({"src", "out"})

\* The sentinel byte is written before, and read again after, the inflater.
JABCzipInflate == Argc \o Size("off", "out") \o DataOf("src") \o IdleOf("out")
  \o BufFedAt("off") \o Maybe(Use({"out"})) \o Work({"src", "out"}) \o Work({"out"})

-----------------------------------------------------------------------------
(* uri.c *)

\* Anything but a string is an absent component.
ArgSlice == Maybe(IsText \o Or("on", CString("s")) \o Drop({"s"}))
JABCuriParse == Argc \o IsText \o CString("s") \o Drop({"s"}) \o Check
JABCuriMake == ArgSlice \o ArgSlice \o ArgSlice \o ArgSlice \o ArgSlice \o Check
JABCuriEsc == Argc \o ArgSlice \o Check
JABCuriUnesc == Argc \o ArgSlice \o Check

-----------------------------------------------------------------------------
(* utf8.c: the text is taken with the target's base in hand: a string only. *)

JABCutf8EncodeInto == Argc \o IdleOf("dst") \o IsText \o CString("s")
  \o Use({"dst"}) \o Drop({"s"}) \o Check
JABCutf8Decode == Argc \o DataOf("src") \o Work({"src"}) \o Use({"src"})

-----------------------------------------------------------------------------
(* http.c *)

\* One drain of the head; HTTPNONE answers null, the other codes throw.
JABChttpDrain == Argc \o DataOf("tab") \o Use({"tab"}) \o Or("value", Check) \o Check
  \o Use({"tab"})

\* The bytes of a slot's value, which is freed once converted; r holds it.
jhttp_bytes(r) == Either(Drop({r}), Freeing({r}, CString("s")) \o Drop({r})
                                    \o Freeing({"s"}, Check \o Check) \o Drop({"s"}))

\* JABCGetProp's exception is a value whose conversion fails.
jhttp_slot == Get("v") \o jhttp_bytes("v")

\* One pair: two elements, each converted; `head.headers` is held throughout.
jhttp_pair == Or("throw", Get("pair")
  \o Freeing({"pair"}, Get("name") \o jhttp_bytes("name")
                       \o Get("val") \o jhttp_bytes("val"))) \o Drop({"pair"}) \o Check

\* What the getters of `headers` and of its length throw is left pending.
jhttp_slots == Then(Get("hs"),
  Either(Drop({"hs"}), Try(Get("n") \o Freeing({"n"}, ToFloat64) \o Drop({"n"}))
                       \o Loop(Freeing({"hs"}, jhttp_pair)) \o Drop({"hs"})))

jhttp_feed == Or("throw", jhttp_slot \o jhttp_slot \o jhttp_slot \o jhttp_slot \o jhttp_slot)
  \o jhttp_slots \o Check
JABChttpFeed == Argc \o jhttp_feed

-----------------------------------------------------------------------------
(* dirc.c: the index file is mapped for as long as the leaf reads it.       *)

jdirc_str == Check \o IsText \o Or("throw", CString("s")) \o Freeing({"s"}, Check) \o Drop({"s"})

\* A row is built from the entry and given to the array.
jdirc_row == Hold("row") \o Use({"map"}) \o Drop({"row"})

JABCdircRead == Argc \o jdirc_str \o Check \o Or("value", Check) \o Hold("map")
  \o Take("map") \o Freeing({"map"}, Work({"map"})) \o Hold("rows")
  \o Loop(Freeing({"map", "rows"}, Work({"map"})) \o jdirc_row)
  \o Drop({"map"}) \o Drop({"rows"})

=============================================================================
