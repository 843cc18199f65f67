-------------------------------- MODULE Leaf --------------------------------
(***************************************************************************)
(* The machine that runs one native leaf after another: the scripts that   *)
(* module LeafTable lists against a JS that may do anything whenever a     *)
(* leaf lets it run (a getter, a valueOf, a callback): detach any buffer,  *)
(* recycle any native object.                                              *)
(*                                                                         *)
(* A base is an address taken out of a typed array or out of a native      *)
(* object.  It is fresh until JS runs and moves what it points at, or the  *)
(* leaf drops the last reference to it.                                    *)
(***************************************************************************)
EXTENDS LeafKnown, Naturals, Sequences

CONSTANT MaxLen   \* bound: bytes of a typed array, and one more for a cursor

ASSUME MaxLenAssumption == MaxLen \in Nat \ {0}

VARIABLES leaf,   \* <<file, name>> of the leaf that runs or ran last
          code,   \* its steps, while it runs
          pc,     \* its next step
          base,   \* name -> [len, fresh, via]: the pointers it has
          cur,    \* name -> [at, n]: a position n in the base `at`
          held,   \* names of the references and blocks that it owns
          exc,    \* the pending exception: none, its own, or an older one
          arg,    \* what is known of the argument in hand
          out     \* running, or how it ended

vars == <<leaf, code, pc, base, cur, held, exc, arg, out>>

Idle == <<"", "">>
Running == out = "running"
More == Running /\ pc <= Len(code)
Cmd == code[pc]

TypeOK ==
  /\ leaf = Idle \/ leaf[2] \in DOMAIN Installed[leaf[1]]
  /\ Running => code = Installed[leaf[1]][leaf[2]]
  /\ pc \in Nat \ {0}
  /\ \A b \in DOMAIN base : base[b].len \in 0..MaxLen /\ base[b].fresh \in BOOLEAN
  /\ \A c \in DOMAIN cur : cur[c].n \in 0..MaxLen + 1
  /\ exc \in {"none", "own", "old"}
  /\ arg \in {"any", "prim", "text"}
  /\ out \in {"running", "value", "exception"}
  /\ More => LET c == Cmd IN   \* a length is known before it is compared with
       c.op \in {"fits", "room", "clamp"} => cur[c.of].at \in DOMAIN base

Init ==
  /\ leaf = Idle /\ code = <<>> /\ pc = 1 /\ base = <<>> /\ cur = <<>> /\ held = {}
  /\ exc = "none" /\ arg = "any" /\ out = "value"

-----------------------------------------------------------------------------
Here(op) == More /\ Cmd.op = op

Goes == pc' = pc + 1 /\ UNCHANGED <<leaf, code, out>>

\* The bases B point at memory that is no longer theirs.
Stale(B) == [b \in DOMAIN base |-> [base[b] EXCEPT !.fresh = @ /\ b \notin B]]

\* The bases that live by a reference in S.
By(S) == {b \in DOMAIN base : base[b].via \in S}

\* The leaf is over.  The pointers were on its stack.
Ends(how) == out' = how /\ code' = <<>> /\ pc' = 1 /\ base' = <<>> /\ cur' = <<>> /\ arg' = "any"

\* The step at hand fails; `thrown`: it has thrown, in JS that moved B.
FailsAfter(thrown, B) ==
  /\ held' = held \ Cmd.lose
  /\ exc' = IF thrown \/ Cmd.no = "throw" THEN "own" ELSE exc
  /\ UNCHANGED leaf
  /\ \/ /\ Cmd.no = "on"
        /\ pc' = pc + Cmd.skip /\ base' = Stale(B \cup By(Cmd.lose)) /\ arg' = "any"
        /\ UNCHANGED <<code, cur, out>>
     \/ Cmd.no = "value" /\ Ends("value")
     \/ Cmd.no \in {"fail", "throw"} /\ Ends("exception")

Fails(thrown) == FailsAfter(thrown, {})

\* A leaf is called.  An exception it returned was caught; one that it left
\* behind a value is pending still.
Begin(f, n) ==
  /\ ~Running
  /\ leaf' = <<f, n>> /\ code' = Installed[f][n] /\ out' = "running" /\ held' = {}
  /\ exc' = IF out = "value" /\ exc # "none" THEN "old" ELSE "none"
  /\ UNCHANGED <<pc, base, cur, arg>>

Answers == Running /\ pc > Len(code) /\ Ends("value") /\ UNCHANGED <<leaf, held, exc>>

-----------------------------------------------------------------------------
(* Conditions.                                                              *)

MayFail(thrown) == Fails(thrown) \/ (Goes /\ UNCHANGED <<base, cur, held, exc, arg>>)
Tests == Here("check") /\ MayFail(FALSE)
Throws == (Here("guard") \/ Here("made")) /\ MayFail(TRUE)
Raises == Here("raise") /\ Fails(TRUE)
Pends == Here("pending") /\ IF exc # "none" THEN Fails(FALSE)
                            ELSE Goes /\ UNCHANGED <<base, cur, held, exc, arg>>
Clears == Here("clear") /\ Goes /\ exc' = "none" /\ UNCHANGED <<base, cur, held, arg>>

(* Arguments and JS.                                                        *)

Scalars == Here("scalar") /\ \/ Fails(TRUE)
                             \/ Goes /\ arg' = "prim" /\ UNCHANGED <<base, cur, held, exc>>
Texts == Here("text") /\ Goes /\ arg' = "text" /\ UNCHANGED <<base, cur, held, exc>>

Holds(r) == held' = Kept(held, r)

\* JS runs, moves B and may throw.
Runs ==
  \E B \in SUBSET DOMAIN base :
    \/ /\ Goes /\ base' = Stale(B) /\ Holds(Cmd.of) /\ arg' = "any"
       /\ UNCHANGED <<cur, exc>>
    \/ FailsAfter(TRUE, B)

\* Only an object has code to run; only a string is sure to convert.
Converts ==
  /\ Here("convert")
  /\ \/ arg = "any" /\ Runs
     \/ arg = "prim" /\ Fails(TRUE)
     \/ arg \in {"prim", "text"} /\ Goes /\ Holds(Cmd.of) /\ arg' = "any"
        /\ UNCHANGED <<base, cur, exc>>

Calls == Here("js") /\ Runs

(* References and bases.                                                    *)

Keeps == Here("hold") /\ Goes /\ Holds(Cmd.of) /\ UNCHANGED <<base, cur, exc, arg>>
Drops == Here("drop") /\ Goes /\ held' = held \ Cmd.refs /\ base' = Stale(By(Cmd.refs))
         /\ UNCHANGED <<cur, exc, arg>>
Takes == Here("take") /\ Goes
         /\ base' = Bind(base, Cmd.of, [len |-> 0, fresh |-> TRUE, via |-> "handle"])
         /\ UNCHANGED <<cur, held, exc, arg>>

\* A second view under one name is one more run of a set of runs.
Views ==
  /\ Here("view")
  /\ \/ Fails(TRUE)
     \/ /\ Cmd.at \in held \cup {"argv"}
        /\ Goes
        /\ \E n \in 0..MaxLen :
             base' = IF Cmd.of \in DOMAIN base THEN base
                     ELSE Bind(base, Cmd.of, [len |-> n, fresh |-> TRUE, via |-> Cmd.at])
        /\ UNCHANGED <<cur, held, exc, arg>>

Same ==
  /\ Here("same")
  /\ IF Cmd.of \in DOMAIN base /\ ~base[Cmd.of].fresh THEN Fails(TRUE)
     ELSE Goes /\ UNCHANGED <<base, cur, held, exc, arg>>

Uses == (Here("use") \/ Here("slice")) /\ Goes /\ UNCHANGED <<base, cur, held, exc, arg>>

(* Cursors.                                                                 *)

End(c) == base[cur[c].at].len
SetCur(c, n) == Goes /\ cur' = [cur EXCEPT ![c].n = n] /\ UNCHANGED <<base, held, exc, arg>>
Stays == Goes /\ UNCHANGED <<base, cur, held, exc, arg>>

Sizes == Here("size") /\ Goes /\ UNCHANGED <<base, held, exc, arg>>
         /\ \E n \in 0..MaxLen + 1 : cur' = Bind(cur, Cmd.of, [at |-> Cmd.at, n |-> n])
FitsIn == Here("fits") /\ IF cur[Cmd.of].n > End(Cmd.of) THEN Fails(TRUE) ELSE Stays
HasRoom == Here("room") /\ IF cur[Cmd.of].n >= End(Cmd.of) THEN Fails(FALSE) ELSE Stays
Clamps == Here("clamp") /\ SetCur(Cmd.of, IF cur[Cmd.of].n > End(Cmd.of) THEN End(Cmd.of)
                                                                        ELSE cur[Cmd.of].n)
IsLess == Here("less") /\ IF cur[Cmd.of].n < cur[Cmd.at].n THEN Stays ELSE Fails(FALSE)
GoesBack == Here("before") /\ \/ Fails(FALSE)
                              \/ \E n \in 0..MaxLen : n < cur[Cmd.of].n /\ SetCur(Cmd.of, n)

(* Branches.                                                                *)

Jumps == Here("jump") /\ \E d \in Cmd.by : pc' = pc + d /\ UNCHANGED <<leaf, code, base, cur, held, exc, arg, out>>
Loops == Here("back") /\ pc' = pc - Cmd.skip /\ UNCHANGED <<leaf, code, base, cur, held, exc, arg, out>>

Next ==
  \/ \E f \in DOMAIN Installed : \E n \in DOMAIN Installed[f] : Begin(f, n)
  \/ Answers \/ Tests \/ Throws \/ Raises \/ Pends \/ Clears
  \/ Scalars \/ Texts \/ Converts \/ Calls
  \/ Keeps \/ Drops \/ Takes \/ Views \/ Same \/ Uses
  \/ Sizes \/ FitsIn \/ HasRoom \/ Clamps \/ IsLess \/ GoesBack
  \/ Jumps \/ Loops

Spec == Init /\ [][Next]_vars

-----------------------------------------------------------------------------
(* What arg.c promises of every leaf.                                       *)

\* arg.c:12-17: a leaf follows no pointer into memory that JS, or the leaf's
\* own clean-up, has taken away since the pointer was taken; whatever a property of
\* an argument answers, and fresh arrays each time (arg.c:295-297).
BaseFresh ==
  Here("use") /\ leaf \notin Reentrant \cup Unkept =>
    \A b \in Cmd.refs \cap DOMAIN base : base[b].fresh

\* The same of all leaves that keep what their bases live by (a violation run:
\* arg.c:14 says NO LEAF).
NoReentry ==
  Here("use") /\ leaf \notin Unkept => \A b \in Cmd.refs \cap DOMAIN base : base[b].fresh

\* PTR-010: when a callee gets a base, no position that came from JS is past
\* the end of it, whatever the order of the gates; and no slice starts past its
\* end (arg.c:3-7).
PositionsInside ==
  /\ Here("use") =>
       \A c \in DOMAIN cur : cur[c].at \in Cmd.refs \cap DOMAIN base => cur[c].n <= End(c)
  /\ Here("slice") /\ leaf \notin Backward => cur[Cmd.of].n <= cur[Cmd.at].n

\* Every reference and block is given back on every path out, but for the
\* child of a spawn whose answer cannot be built (io.c:935).
RefsDropped == ~Running /\ leaf # <<"io", "spawn">> => held = {}

\* A leaf that fails has thrown, so that what JS catches is about this call;
\* and one that answers leaves no exception of its own behind (arg.c:32-42).
OutcomeTold ==
  /\ out = "exception" /\ leaf \notin Misreaders => exc = "own"
  /\ out = "value" /\ leaf \notin Swallowers => exc # "own"
=============================================================================
