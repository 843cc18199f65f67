----------------------------- MODULE LeafSteps ------------------------------
(***************************************************************************)
(* What a native leaf (JABC_FN) is made of.  A leaf is a sequence of steps *)
(* in the order of its C statements; only what can go wrong between JS and *)
(* C is kept: gates that throw, conversions and getters that run JS, bases *)
(* taken out of typed arrays, references held, cursors into a base.  What  *)
(* a step does is in module Leaf; here are the steps and the helpers of    *)
(* arg.c that the leaves share.                                            *)
(*                                                                         *)
(* Every step that may fail says what a failure does:                      *)
(*   no   "fail"   hand JS_EXCEPTION back (JABC_FAIL)                      *)
(*        "throw"  throw a message and hand JS_EXCEPTION back (JABC_THROW) *)
(*        "value"  hand a value back                                       *)
(*        "on"     go on, `skip` steps further                             *)
(*   lose the references that the failing path frees                       *)
(***************************************************************************)
EXTENDS Naturals, Sequences

Step(op, no) == <<[op |-> op, of |-> "", at |-> "", refs |-> {}, by |-> {},
                   no |-> no, skip |-> 1, lose |-> {}]>>
Named(op, no, name) == <<[Step(op, no)[1] EXCEPT !.of = name]>>
Over(op, S) == <<[Step(op, "fail")[1] EXCEPT !.refs = S]>>
Jump(S) == <<[Step("jump", "fail")[1] EXCEPT !.by = S]>>

\* What a failure of any step of s does, and what it frees.
Or(no, s) == [i \in DOMAIN s |-> [s[i] EXCEPT !.no = no]]
Freeing(S, s) == [i \in DOMAIN s |-> [s[i] EXCEPT !.lose = @ \cup S]]

\* A failure of s goes on n steps after its end; s, then t if s worked; what t
\* does if it did not.
SkipOn(s, n) == [i \in DOMAIN s |-> [s[i] EXCEPT !.no = "on", !.skip = Len(s) - i + 1 + n]]
Try(s) == SkipOn(s, 0)
Then(s, t) == SkipOn(s, Len(t)) \o t
Catch(s, t) == SkipOn(s, 1) \o Jump({Len(t) + 1}) \o t

Maybe(s) == Jump({1, Len(s) + 1}) \o s
Either(s, t) == Jump({1, Len(s) + 2}) \o s \o Jump({Len(t) + 1}) \o t
Loop(s) == Jump({1, Len(s) + 2}) \o s \o <<[Step("back", "fail")[1] EXCEPT !.skip = Len(s) + 1]>>

Check == Step("check", "throw")           \* a condition of the leaf's own
Argc == Check                             \* JS-101: argc guards
Guard == Step("guard", "fail")            \* a condition whose failure throws
Made == Step("made", "fail")              \* an answer that may fail to be built
Get(r) == Named("js", "fail", r)          \* a property or element: a getter may run
Call == Named("js", "fail", "")           \* JS_Call
Use(S) == Over("use", S)                  \* the pointers of the bases S are followed
Work(S) == Use(S) \o Check                \* ... by a callee that may fail
Drop(S) == Over("drop", S)                \* JS_FreeValue, JS_FreeCString, free
Hold(r) == Named("hold", "fail", r)       \* JS_NewObject, malloc
Take(h) == Named("take", "fail", h)       \* a native object behind a number
Raise == Step("raise", "throw")           \* JS_Throw
Pending == Step("pending", "fail")        \* JS_HasException
Clear == Step("clear", "fail")            \* JS_FreeValue(JS_GetException)

(* Cursors: any number from JS, then what C does about it.                  *)
Between(op, no, c, d) == <<[Named(op, no, c)[1] EXCEPT !.at = d]>>
AnyAt(c, a) == Between("size", "fail", c, a)      \* c is a position in the base a
Fits(c) == Named("fits", "fail", c)             \* past the end throws
Room(c) == Named("room", "throw", c)            \* one more would be past the end
Clamp(c) == Named("clamp", "fail", c)           \* min(c, the end)
Less(c, d) == Between("less", "value", c, d)    \* -1 unless c < d
Before(c) == Named("before", "value", c)        \* a row that starts before c
Slice(c, d) == Between("slice", "fail", c, d)   \* the bytes [c, d)

-----------------------------------------------------------------------------
(* arg.c: the number gates.                                                 *)

ToFloat64 == Named("convert", "fail", "")

\* JABCScalar, in front of every gate.
Scalar == Step("scalar", "fail")

u64Of == Scalar \o ToFloat64 \o Guard
i64Of == Scalar \o ToFloat64 \o Guard
BigU64Of == Scalar \o ToFloat64
u32Of == u64Of \o Guard
FdOf == u64Of \o Guard
u8Of == u64Of \o Guard

\* A number for the cursor c into the base a, not yet compared with it.
Size(c, a) == u64Of \o AnyAt(c, a)

-----------------------------------------------------------------------------
(* arg.c: the buffers.                                                      *)

ViewVia(a, r) == Between("view", "fail", a, r)
ViewOf(a) == ViewVia(a, "argv")
ViewSame(a) == Named("same", "fail", a)
DataOf(a) == ViewOf(a) \o Guard
IdleOf(a) == ViewOf(a) \o Guard

OffOf(c, a) == Size(c, a) \o Fits(c)
BufAt(c, a) == OffOf(c, a)
BufFedAt(c) == Fits(c)
BufFed(c, a) == Size(c, a) \o BufFedAt(c)

RunsFree == Drop({"runs"})

\* (mutant) a failure on the way keeps what was collected.
RunsOfKept == Loop(Get("runs")) \o Loop(ViewVia("runs", "runs"))

\* Every element is collected, then every one is unwrapped.
RunsOf == Loop(Freeing({"runs"}, Get("runs")))
       \o Loop(Freeing({"runs"}, ViewVia("runs", "runs")))

\* A cursor of a Buf, and the gate that it goes through.
BufCursor(c, b) == Get(c) \o Freeing({c}, Size(c, b)) \o Drop({c})

\* JABCBufIn when the caller keeps `bytes`: the cursors first, then the view.
BufIn(b) == Guard \o BufCursor("data", b) \o BufCursor("idle", b)
         \o Get("bytes") \o Freeing({"bytes"}, ViewVia(b, "bytes") \o Guard
                                               \o Fits("idle") \o Fits("data"))

BufOfKeep(b) == BufIn(b)

\* JABCBufOf frees its `bytes` once unwrapped, which is the last reference to it
\* when a getter or a Proxy made it.
BufOf(b) == Guard \o BufCursor("data", b) \o BufCursor("idle", b)
         \o Get("bytes") \o Freeing({"bytes"}, ViewVia(b, "bytes") \o Guard)
         \o Drop({"bytes"}) \o Fits("idle") \o Fits("data")

\* Two properties are set, and what the setters throw is left pending.
BufBack == Or("on", Call \o Call)

-----------------------------------------------------------------------------
(* arg.c: text and answers.                                                 *)

IsText == Step("text", "fail")                  \* in a branch of JS_IsString
CString(r) == Named("convert", "fail", r)       \* JS_ToCStringLen

\* (mutant) a caller hands the exception back and throws none.
PathQuiet == Or("fail", Check) \o IsText \o Or("throw", CString("path"))
          \o Freeing({"path"}, Check) \o Drop({"path"})

\* JABCPath, whose caller throws for any code but OK.
Path == Check \o IsText \o Or("throw", CString("path"))
     \o Freeing({"path"}, Check) \o Drop({"path"})

SubView == Get("buffer") \o Freeing({"buffer"}, Made) \o Drop({"buffer"})
BytesNoCopy == Either(Made, Made \o Hold("bridge") \o Freeing({"bridge"}, Made) \o Drop({"bridge"}))

=============================================================================
