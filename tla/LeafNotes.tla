----------------------------- MODULE LeafNotes ------------------------------
(***************************************************************************)
(* What can be said of a leaf before each of its steps, whatever the sizes *)
(* of its arrays: a note is what is known there on one of the ways to it.  *)
(* A leaf agrees with its notes if no step leaves them and each step is    *)
(* safe in all of them.  Leaf_proofs shows that this is enough; TLC finds  *)
(* that every leaf of LeafTable agrees.                                    *)
(***************************************************************************)
EXTENDS LeafKnown, Naturals, Sequences

Rounds == 30   \* bound: of the search for the notes of a leaf; too few find none

Command == [op : STRING, of : STRING, at : STRING, refs : SUBSET STRING, by : SUBSET Nat,
            no : {"fail", "throw", "value", "on"}, skip : Nat, lose : SUBSET STRING]

(***************************************************************************)
(*   pc, out, held, exc, arg   as in Leaf                                  *)
(*   via      base -> what it lives by                                     *)
(*   fresh    bases that are surely fresh                                  *)
(*   at       cursor -> its base                                           *)
(*   within   cursors surely not past the end of their base                *)
(*   le       <<c, d>>: surely c <= d                                      *)
(***************************************************************************)
NoteFields == {"pc", "out", "held", "exc", "arg", "via", "fresh", "at", "within", "le"}

Entry(e) == [pc |-> 1, out |-> "running", held |-> {}, exc |-> e, arg |-> "any",
             via |-> <<>>, fresh |-> {}, at |-> <<>>, within |-> {}, le |-> {}]
Entries == {Entry("none"), Entry("old")}

\* The bases of B that do not live by a reference in S.
Outlive(n, B, S) == {b \in B : n.via[b] \notin S}

Passed(n) == [n EXCEPT !.pc = @ + 1]
Ended(n, how) == [n EXCEPT !.out = how]

\* The command c fails, with the bases B still fresh.
Failed(n, c, thrown, B) ==
    LET left == n.held \ c.lose
        e == IF thrown \/ c.no = "throw" THEN "own" ELSE n.exc
    IN  IF c.no = "on"
        THEN [n EXCEPT !.pc = @ + c.skip, !.held = left, !.exc = e, !.arg = "any",
                       !.fresh = Outlive(n, B, c.lose)]
        ELSE [n EXCEPT !.held = left, !.exc = e,
                       !.out = IF c.no = "value" THEN "value" ELSE "exception"]

\* It works: r is held from now on, the bases B are fresh.
Ran(n, r, B) == [n EXCEPT !.pc = @ + 1, !.held = Kept(@, r), !.arg = "any", !.fresh = B]

\* A base, or a cursor, by the name k.
Based(n, k, r) == [n EXCEPT !.pc = @ + 1, !.via = Bind(@, k, r), !.fresh = @ \cup {k},
                            !.within = {c \in @ : n.at[c] # k}]
Sized(n, k, b) == [n EXCEPT !.pc = @ + 1, !.at = Bind(@, k, b), !.within = @ \ {k},
                            !.le = {p \in @ : k \notin {p[1], p[2]}}]
Inside(n, k) == [n EXCEPT !.pc = @ + 1, !.within = @ \cup {k}]

\* Its number has got smaller.
Lowered(n, k) == [n EXCEPT !.le = {p \in @ : p[2] # k}]

\* What n may become by the command c.
Results(n, c) ==
    CASE c.op = "check" -> {Passed(n), Failed(n, c, FALSE, n.fresh)}
      [] c.op \in {"guard", "made"} -> {Passed(n), Failed(n, c, TRUE, n.fresh)}
      [] c.op = "raise" -> {Failed(n, c, TRUE, n.fresh)}
      [] c.op = "pending" -> {IF n.exc # "none" THEN Failed(n, c, FALSE, n.fresh) ELSE Passed(n)}
      [] c.op = "clear" -> {[Passed(n) EXCEPT !.exc = "none"]}
      [] c.op = "scalar" -> {[Passed(n) EXCEPT !.arg = "prim"], Failed(n, c, TRUE, n.fresh)}
      [] c.op = "text" -> {[Passed(n) EXCEPT !.arg = "text"]}
      [] c.op = "js" -> {Ran(n, c.of, {}), Failed(n, c, TRUE, {})}
      [] c.op = "convert" ->
           IF n.arg = "any" THEN {Ran(n, c.of, {}), Failed(n, c, TRUE, {})}
           ELSE IF n.arg = "prim" THEN {Ran(n, c.of, n.fresh), Failed(n, c, TRUE, n.fresh)}
           ELSE {Ran(n, c.of, n.fresh)}
      [] c.op = "hold" -> {[Passed(n) EXCEPT !.held = Kept(@, c.of)]}
      [] c.op = "drop" -> {[Passed(n) EXCEPT !.held = @ \ c.refs,
                                             !.fresh = Outlive(n, @, c.refs)]}
      [] c.op = "take" -> {Based(n, c.of, "handle")}
      [] c.op = "view" ->
           {Failed(n, c, TRUE, n.fresh),
            IF c.of \in DOMAIN n.via THEN Passed(n) ELSE Based(n, c.of, c.at)}
      [] c.op = "same" ->
           {Failed(n, c, TRUE, n.fresh),
            [Passed(n) EXCEPT !.fresh = @ \cup ({c.of} \cap DOMAIN n.via)]}
      [] c.op \in {"use", "slice"} -> {Passed(n)}
      [] c.op = "size" -> {Sized(n, c.of, c.at)}
      [] c.op = "fits" -> {Inside(n, c.of), Failed(n, c, TRUE, n.fresh)}
      [] c.op = "room" -> {Inside(n, c.of), Failed(n, c, FALSE, n.fresh)}
      [] c.op = "clamp" -> {Lowered(Inside(n, c.of), c.of)}
      [] c.op = "less" -> {[Passed(n) EXCEPT !.le = @ \cup {<<c.of, c.at>>}],
                           Failed(n, c, FALSE, n.fresh)}
      [] c.op = "before" -> {Lowered(Passed(n), c.of), Failed(n, c, FALSE, n.fresh)}
      [] c.op = "jump" -> {[n EXCEPT !.pc = @ + d] : d \in c.by}
      [] c.op = "back" -> {[n EXCEPT !.pc = @ - c.skip]}
      [] OTHER -> {}

After(n, s) ==
    IF n.out # "running" THEN {}
    ELSE IF n.pc > Len(s) THEN {Ended(n, "value")}
    ELSE Results(n, s[n.pc])

-----------------------------------------------------------------------------
(* The notes of a script: the search from its start, a round at a time.     *)

Turn(s, w) ==
    LET met == w.done \cup w.todo
    IN  [done |-> met, todo |-> UNION {After(n, s) : n \in w.todo} \ met]

\* Several at once, since TLC's stack bounds the depth of the recursion.
Turns(s, w) == Turn(s, Turn(s, Turn(s, Turn(s, Turn(s, w)))))

Notes(s) ==
    LET Search[k \in Nat] ==
          IF k = 0 THEN [done |-> {}, todo |-> Entries]
          ELSE LET w == Search[k - 1] IN IF w.todo = {} THEN w ELSE Turns(s, w)
    IN  Search[Rounds].done

-----------------------------------------------------------------------------
(* What makes a leaf safe.                                                  *)

\* The command c may run when n is known.
Sound(leaf, n, c) ==
    /\ c.op = "use" =>
         /\ leaf \in Reentrant \cup Unkept \/ c.refs \cap DOMAIN n.via \subseteq n.fresh
         /\ \A k \in DOMAIN n.at : n.at[k] \in c.refs \cap DOMAIN n.via => k \in n.within
    /\ c.op = "slice" => leaf \in Backward \/ <<c.of, c.at>> \in n.le
    /\ c.op \in {"fits", "room", "clamp"} => c.of \in DOMAIN n.at /\ n.at[c.of] \in DOMAIN n.via
    /\ c.op \in {"less", "slice"} => {c.of, c.at} \subseteq DOMAIN n.at
    /\ c.op = "before" => c.of \in DOMAIN n.at

\* The leaf may end so.
Told(leaf, n) ==
    /\ n.out = "exception" /\ leaf \notin Misreaders => n.exc = "own"
    /\ n.out = "value" /\ leaf \notin Swallowers => n.exc # "own"
    /\ leaf # <<"io", "spawn">> => n.held = {}

Agrees(leaf, s, N) ==
    /\ s \in Seq(Command)
    /\ Entries \subseteq N
    /\ \A n \in N :
         /\ DOMAIN n = NoteFields /\ n.pc \in Nat \ {0}
         /\ n.out \in {"running", "value", "exception"}
         /\ IF n.out # "running" THEN Told(leaf, n)
            ELSE /\ After(n, s) \subseteq N
                 /\ n.pc <= Len(s) => Sound(leaf, n, s[n.pc])

AllAgree ==
    \A f \in DOMAIN Installed : \A name \in DOMAIN Installed[f] :
        LET s == Installed[f][name] IN Agrees(<<f, name>>, s, Notes(s))

(* Of LeafTable TLC finds it true, when it starts on MCParts.                *)
ASSUME LeavesAgree == AllAgree
=============================================================================
