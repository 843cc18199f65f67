---------------------------- MODULE Leaf_proofs -----------------------------
(***************************************************************************)
(* What arg.c promises of every leaf, for arrays of every length and for   *)
(* every table of leaves that agree with their notes.  The invariant: some *)
(* note of the leaf tells the truth about the state.  A step of Leaf leads *)
(* from a true note to a true note among its Results, and these are notes  *)
(* of the leaf again, since the leaf agrees with them.                     *)
(***************************************************************************)
EXTENDS Leaf, LeafNotes, TLAPS

-----------------------------------------------------------------------------
(* When a note is true.                                                     *)

BasesKnown(n) ==
    /\ DOMAIN base = DOMAIN n.via
    /\ \A b \in DOMAIN base : base[b].via = n.via[b]
    /\ \A b \in n.fresh : b \in DOMAIN base /\ base[b].fresh = TRUE

CursorsKnown(n) ==
    /\ DOMAIN cur = DOMAIN n.at
    /\ \A c \in DOMAIN cur : cur[c].at = n.at[c]
    /\ \A c \in n.within : /\ c \in DOMAIN cur /\ cur[c].at \in DOMAIN base
                           /\ cur[c].n <= base[cur[c].at].len
    /\ \A p \in n.le : p[1] \in DOMAIN cur /\ p[2] \in DOMAIN cur /\ cur[p[1]].n <= cur[p[2]].n

Known(n) ==
    /\ out = n.out /\ held = n.held /\ exc = n.exc
    /\ Running => pc = n.pc /\ arg = n.arg /\ BasesKnown(n) /\ CursorsKnown(n)

(* What a base lives by: a reference, or an opened handle.                  *)
Keepers == STRING \cup {"handle"}

(* The types of what the notes say nothing of.                              *)
BaseTyped == \A b \in DOMAIN base : base[b] \in [len : 0..MaxLen, fresh : BOOLEAN, via : Keepers]
CurTyped == \A c \in DOMAIN cur : cur[c] \in [at : STRING, n : 0..MaxLen+1]
Typed ==
    /\ BaseTyped /\ CurTyped
    /\ exc \in {"none", "own", "old"} /\ arg \in {"any", "prim", "text"}
    /\ out \in {"running", "value", "exception"}

(* Between two leaves there is nothing on the stack.                        *)
Bare == base = <<>> /\ cur = <<>> /\ pc = 1 /\ arg = "any" /\ code = <<>>

(* The leaf is about to run Cmd, and n is true.                             *)
Ready(n) ==
    /\ Typed /\ Known(n) /\ More /\ Cmd \in Command
    /\ DOMAIN n = NoteFields /\ n.pc \in Nat \ {0} /\ Sound(leaf, n, Cmd)

(* After the step m is true, of the same leaf.                              *)
Becomes(m) ==
    /\ Typed' /\ (Running \/ Bare)' /\ Known(m)'
    /\ leaf' = leaf /\ (Running' => code' = code)

-----------------------------------------------------------------------------
(* The fields of the notes that LeafNotes makes of a note.                  *)

LEMMA PassedFields ==
    ASSUME NEW n, DOMAIN n = NoteFields
    PROVE  /\ Passed(n).pc = n.pc + 1
           /\ \A x \in NoteFields \ {"pc"} : Passed(n)[x] = n[x]
           /\ DOMAIN Passed(n) = NoteFields
  BY DEF Passed, NoteFields

LEMMA FailedOnFields ==
    ASSUME NEW n, NEW c, NEW thrown \in BOOLEAN, NEW B, DOMAIN n = NoteFields, c.no = "on"
    PROVE  LET m == Failed(n, c, thrown, B) IN
           /\ m.pc = n.pc + c.skip /\ m.held = n.held \ c.lose /\ m.arg = "any"
           /\ m.exc = IF thrown THEN "own" ELSE n.exc
           /\ m.fresh = Outlive(n, B, c.lose)
           /\ \A x \in NoteFields \ {"pc", "held", "exc", "arg", "fresh"} : m[x] = n[x]
  BY DEF Failed, NoteFields

LEMMA FailedOutFields ==
    ASSUME NEW n, NEW c, NEW thrown \in BOOLEAN, NEW B, DOMAIN n = NoteFields, c.no # "on"
    PROVE  LET m == Failed(n, c, thrown, B) IN
           /\ m.held = n.held \ c.lose
           /\ m.exc = IF thrown \/ c.no = "throw" THEN "own" ELSE n.exc
           /\ m.out = IF c.no = "value" THEN "value" ELSE "exception"
  BY DEF Failed, NoteFields

LEMMA BasedFields ==
    ASSUME NEW n, NEW k, NEW r, DOMAIN n = NoteFields
    PROVE  LET m == Based(n, k, r) IN
           /\ m.pc = n.pc + 1 /\ m.via = Bind(n.via, k, r)
           /\ m.fresh = n.fresh \cup {k} /\ m.within = {c \in n.within : n.at[c] # k}
           /\ \A x \in NoteFields \ {"pc", "via", "fresh", "within"} : m[x] = n[x]
  BY DEF Based, NoteFields

LEMMA SizedFields ==
    ASSUME NEW n, NEW k, NEW b, DOMAIN n = NoteFields
    PROVE  LET m == Sized(n, k, b) IN
           /\ m.pc = n.pc + 1 /\ m.at = Bind(n.at, k, b) /\ m.within = n.within \ {k}
           /\ m.le = {p \in n.le : k \notin {p[1], p[2]}}
           /\ \A x \in NoteFields \ {"pc", "at", "within", "le"} : m[x] = n[x]
  BY DEF Sized, NoteFields

LEMMA InsideFields ==
    ASSUME NEW n, NEW k, DOMAIN n = NoteFields
    PROVE  LET m == Inside(n, k) IN
           /\ m.pc = n.pc + 1 /\ m.within = n.within \cup {k}
           /\ \A x \in NoteFields \ {"pc", "within"} : m[x] = n[x]
           /\ DOMAIN m = NoteFields
  BY DEF Inside, NoteFields

LEMMA LoweredFields ==
    ASSUME NEW n, NEW k, DOMAIN n = NoteFields
    PROVE  LET m == Lowered(n, k) IN
           /\ m.le = {p \in n.le : p[2] # k}
           /\ \A x \in NoteFields \ {"le"} : m[x] = n[x]
  BY DEF Lowered, NoteFields

(* Conditions and arguments: the notes that a step of this kind may lead to.*)
LEMMA GateResults ==
    ASSUME NEW n, NEW c
    PROVE  /\ c.op = "check" => {Passed(n), Failed(n, c, FALSE, n.fresh)} \subseteq Results(n, c)
           /\ c.op \in {"guard", "made"} => {Passed(n), Failed(n, c, TRUE, n.fresh)} \subseteq Results(n, c)
           /\ c.op = "raise" => Failed(n, c, TRUE, n.fresh) \in Results(n, c)
           /\ c.op = "pending" /\ n.exc # "none" => Failed(n, c, FALSE, n.fresh) \in Results(n, c)
           /\ c.op = "pending" /\ n.exc = "none" => Passed(n) \in Results(n, c)
           /\ c.op = "clear" => [Passed(n) EXCEPT !.exc = "none"] \in Results(n, c)
           /\ c.op = "scalar" =>
                {[Passed(n) EXCEPT !.arg = "prim"], Failed(n, c, TRUE, n.fresh)} \subseteq Results(n, c)
           /\ c.op = "text" => [Passed(n) EXCEPT !.arg = "text"] \in Results(n, c)
  BY DEF Results

(* Steps that may let JS run.                                               *)
LEMMA RunResults ==
    ASSUME NEW n, NEW c
    PROVE  /\ c.op = "js" \/ (c.op = "convert" /\ n.arg = "any") =>
                Ran(n, c.of, {}) \in Results(n, c) /\ Failed(n, c, TRUE, {}) \in Results(n, c)
           /\ c.op = "convert" /\ n.arg # "any" => Ran(n, c.of, n.fresh) \in Results(n, c)
           /\ c.op = "convert" /\ n.arg = "prim" => Failed(n, c, TRUE, n.fresh) \in Results(n, c)
  BY DEF Results

(* References and bases.                                                    *)
LEMMA BaseResults ==
    ASSUME NEW n, NEW c
    PROVE  /\ c.op = "hold" =>
                [Passed(n) EXCEPT !.held = Kept(@, c.of)] \in Results(n, c)
           /\ c.op = "drop" =>
                [Passed(n) EXCEPT !.held = @ \ c.refs, !.fresh = Outlive(n, @, c.refs)] \in Results(n, c)
           /\ c.op = "take" => Based(n, c.of, "handle") \in Results(n, c)
           /\ c.op \in {"view", "same"} => Failed(n, c, TRUE, n.fresh) \in Results(n, c)
           /\ c.op = "view" /\ c.of \in DOMAIN n.via => Passed(n) \in Results(n, c)
           /\ c.op = "view" /\ c.of \notin DOMAIN n.via => Based(n, c.of, c.at) \in Results(n, c)
           /\ c.op = "same" =>
                [Passed(n) EXCEPT !.fresh = @ \cup ({c.of} \cap DOMAIN n.via)] \in Results(n, c)
           /\ c.op \in {"use", "slice"} => Passed(n) \in Results(n, c)
  BY DEF Results

(* Cursors and branches.                                                    *)
LEMMA CursorResults ==
    ASSUME NEW n, NEW c
    PROVE  /\ c.op = "size" => Sized(n, c.of, c.at) \in Results(n, c)
           /\ c.op = "fits" => {Inside(n, c.of), Failed(n, c, TRUE, n.fresh)} \subseteq Results(n, c)
           /\ c.op = "room" => {Inside(n, c.of), Failed(n, c, FALSE, n.fresh)} \subseteq Results(n, c)
           /\ c.op = "clamp" => Lowered(Inside(n, c.of), c.of) \in Results(n, c)
           /\ c.op = "less" =>
                {[Passed(n) EXCEPT !.le = @ \cup {<<c.of, c.at>>}], Failed(n, c, FALSE, n.fresh)}
                \subseteq Results(n, c)
           /\ c.op = "before" =>
                {Lowered(Passed(n), c.of), Failed(n, c, FALSE, n.fresh)} \subseteq Results(n, c)
           /\ c.op = "jump" => \A d \in c.by : [n EXCEPT !.pc = @ + d] \in Results(n, c)
           /\ c.op = "back" => [n EXCEPT !.pc = @ - c.skip] \in Results(n, c)
  BY DEF Results

-----------------------------------------------------------------------------
(* Bases go stale, but for those of F, which still are fresh after it.      *)
LEMMA GoneStale ==
    ASSUME NEW n, NEW B, NEW F \in SUBSET n.fresh, F \cap B = {},
           Typed, BasesKnown(n), CursorsKnown(n), base' = Stale(B), cur' = cur
    PROVE  /\ BaseTyped' /\ CurTyped' /\ CursorsKnown(n)'
           /\ DOMAIN base' = DOMAIN n.via
           /\ \A b \in DOMAIN base' : base'[b].via = n.via[b]
           /\ \A b \in F : b \in DOMAIN base' /\ base'[b].fresh = TRUE
<1>1. DOMAIN base' = DOMAIN base
  BY DEF Stale
<1>2. ASSUME NEW b \in DOMAIN base
      PROVE  /\ base'[b] \in [len : 0..MaxLen, fresh : BOOLEAN, via : Keepers]
             /\ base'[b].len = base[b].len /\ base'[b].via = base[b].via
             /\ b \notin B /\ base[b].fresh = TRUE => base'[b].fresh = TRUE
  <2>1. base[b] \in [len : 0..MaxLen, fresh : BOOLEAN, via : Keepers]
    BY DEF Typed, BaseTyped
  <2>2. base'[b] = [base[b] EXCEPT !.fresh = @ /\ b \notin B]
    BY DEF Stale
  <2>3. QED
    BY <2>1, <2>2
<1>3. BaseTyped' /\ CurTyped'
  BY <1>1, <1>2 DEF Typed, BaseTyped, CurTyped
<1>4. CursorsKnown(n)'
  BY <1>1, <1>2 DEF CursorsKnown
<1>5. QED
  BY <1>1, <1>2, <1>3, <1>4 DEF BasesKnown

(* The leaf fails and goes on, as on the way to its clean-up.               *)
LEMMA FailsOn ==
    ASSUME NEW n, Ready(n), NEW thrown \in BOOLEAN, NEW B \in SUBSET DOMAIN base,
           NEW F \in SUBSET n.fresh, F \cap B = {}, FailsAfter(thrown, B), Cmd.no = "on",
           NEW m, m = Failed(n, Cmd, thrown, F)
    PROVE  Becomes(m)
<1>0. /\ Typed /\ Known(n) /\ More /\ DOMAIN n = NoteFields
      /\ Running /\ out = n.out /\ held = n.held /\ exc = n.exc
      /\ pc = n.pc /\ arg = n.arg /\ BasesKnown(n) /\ CursorsKnown(n)
  BY DEF Ready, Known, More
<1>1. /\ m.pc = n.pc + Cmd.skip /\ m.held = n.held \ Cmd.lose /\ m.arg = "any"
      /\ m.exc = IF thrown THEN "own" ELSE n.exc
      /\ m.fresh = Outlive(n, F, Cmd.lose)
      /\ m.out = n.out /\ m.via = n.via /\ m.at = n.at /\ m.within = n.within /\ m.le = n.le
  BY <1>0, FailedOnFields DEF NoteFields
<1>2. /\ held' = held \ Cmd.lose /\ exc' = IF thrown THEN "own" ELSE exc
      /\ pc' = pc + Cmd.skip /\ base' = Stale(B \cup By(Cmd.lose)) /\ arg' = "any"
      /\ leaf' = leaf /\ code' = code /\ cur' = cur /\ out' = out
  BY DEF FailsAfter
<1>3. Outlive(n, F, Cmd.lose) \in SUBSET n.fresh
  BY DEF Outlive
<1>4. Outlive(n, F, Cmd.lose) \cap (B \cup By(Cmd.lose)) = {}
  BY <1>0 DEF Outlive, By, BasesKnown
<1>5. /\ BaseTyped' /\ CurTyped' /\ CursorsKnown(n)'
      /\ DOMAIN base' = DOMAIN n.via
      /\ \A b \in DOMAIN base' : base'[b].via = n.via[b]
      /\ \A b \in Outlive(n, F, Cmd.lose) : b \in DOMAIN base' /\ base'[b].fresh = TRUE
  BY <1>0, <1>2, <1>3, <1>4, GoneStale
<1>6. Typed'
  BY <1>0, <1>2, <1>5 DEF Typed
<1>7. BasesKnown(m)'
  BY <1>1, <1>5 DEF BasesKnown
<1>8. CursorsKnown(m)'
  BY <1>1, <1>5 DEF CursorsKnown
<1>9. Known(m)'
  BY <1>0, <1>1, <1>2, <1>7, <1>8 DEF Known
<1> QED
  BY <1>0, <1>2, <1>6, <1>9 DEF Becomes, Running

(* The leaf fails and is over.                                              *)
LEMMA FailsOut ==
    ASSUME NEW n, Ready(n), NEW thrown \in BOOLEAN, NEW B, NEW F,
           FailsAfter(thrown, B), Cmd.no # "on",
           NEW m, m = Failed(n, Cmd, thrown, F)
    PROVE  Becomes(m)
<1>0. /\ Typed /\ DOMAIN n = NoteFields /\ held = n.held /\ exc = n.exc
  BY DEF Ready, Known
<1>1. /\ m.held = n.held \ Cmd.lose
      /\ m.exc = IF thrown \/ Cmd.no = "throw" THEN "own" ELSE n.exc
      /\ m.out = IF Cmd.no = "value" THEN "value" ELSE "exception"
  BY <1>0, FailedOutFields
<1>2. /\ held' = held \ Cmd.lose /\ leaf' = leaf
      /\ exc' = IF thrown \/ Cmd.no = "throw" THEN "own" ELSE exc
  BY DEF FailsAfter
<1>3. /\ out' = (IF Cmd.no = "value" THEN "value" ELSE "exception")
      /\ code' = <<>> /\ pc' = 1 /\ base' = <<>> /\ cur' = <<>> /\ arg' = "any"
  BY DEF FailsAfter, Ends
<1>4. out' # "running" /\ Bare' /\ Typed'
  BY <1>0, <1>2, <1>3 DEF Bare, Typed, BaseTyped, CurTyped
<1>5. Known(m)'
  BY <1>0, <1>1, <1>2, <1>3, <1>4 DEF Known, Running
<1> QED
  BY <1>2, <1>4, <1>5 DEF Becomes, Running

(* So a failure leads to a true note, whatever JS moved before it.          *)
LEMMA FailsKnown ==
    ASSUME NEW n, Ready(n), NEW thrown \in BOOLEAN, NEW B \in SUBSET DOMAIN base,
           NEW F \in SUBSET n.fresh, F \cap B = {}, FailsAfter(thrown, B),
           NEW m, m = Failed(n, Cmd, thrown, F)
    PROVE  Becomes(m)
  BY FailsOn, FailsOut

(* And so does one without JS.                                              *)
LEMMA FailsPlain ==
    ASSUME NEW n, Ready(n), NEW thrown \in BOOLEAN, Fails(thrown),
           NEW m, m = Failed(n, Cmd, thrown, n.fresh)
    PROVE  Becomes(m)
<1>1. {} \in SUBSET DOMAIN base /\ n.fresh \in SUBSET n.fresh /\ n.fresh \cap {} = {}
  OBVIOUS
<1>2. FailsAfter(thrown, {})
  BY DEF Fails
<1> QED
  BY <1>1, <1>2, FailsKnown

(* The leaf runs on: it is enough to know its bases and cursors.            *)
LEMMA MovesKnown ==
    ASSUME NEW n, Ready(n), NEW m, m.out = n.out, pc' = m.pc, UNCHANGED <<leaf, code, out>>,
           held' = m.held, exc' = m.exc, arg' = m.arg,
           Typed', BasesKnown(m)', CursorsKnown(m)'
    PROVE  Becomes(m)
<1>1. out = n.out /\ Running
  BY DEF Ready, Known, More
<1>2. Running' /\ out' = m.out
  BY <1>1 DEF Running
<1>3. Known(m)'
  BY <1>2 DEF Known
<1> QED
  BY <1>2, <1>3 DEF Becomes

(* It passes, its bases and cursors are as they were.                       *)
LEMMA StaysKnown ==
    ASSUME NEW n, Ready(n), NEW m, m.out = n.out, m.pc = n.pc + 1,
           Goes, base' = base, cur' = cur, held' = m.held,
           exc' = m.exc, m.exc \in {"none", "own", "old"},
           arg' = m.arg, m.arg \in {"any", "prim", "text"},
           BasesKnown(m), CursorsKnown(m)
    PROVE  Becomes(m)
<1>1. Typed /\ pc = n.pc
  BY DEF Ready, Known, More
<1>2. pc' = m.pc /\ UNCHANGED <<leaf, code, out>>
  BY <1>1 DEF Goes
<1>3. Typed'
  BY <1>1, <1>2 DEF Typed, BaseTyped, CurTyped
<1>4. BasesKnown(m)' /\ CursorsKnown(m)'
  BY DEF BasesKnown, CursorsKnown
<1> QED
  BY <1>2, <1>3, <1>4, MovesKnown

(* What a note says of them is all in five of its fields.                   *)
LEMMA SameKnown ==
    ASSUME NEW n, NEW m, m.via = n.via, m.at = n.at, m.fresh = n.fresh, m.within = n.within, m.le = n.le,
           Ready(n)
    PROVE  BasesKnown(m) /\ CursorsKnown(m)
<1>1. BasesKnown(n) /\ CursorsKnown(n)
  BY DEF Ready, Known, More
<1>2. BasesKnown(m)
  BY <1>1 DEF BasesKnown
<1>3. CursorsKnown(m)
  BY <1>1 DEF CursorsKnown
<1> QED
  BY <1>2, <1>3

(* What the steps need most of a note that is ready.                        *)
LEMMA ReadyNote ==
    ASSUME NEW n, Ready(n)
    PROVE  /\ DOMAIN n = NoteFields /\ n.pc \in Nat \ {0} /\ n.out = "running"
           /\ out = n.out /\ held = n.held /\ exc = n.exc /\ pc = n.pc /\ arg = n.arg
           /\ exc \in {"none", "own", "old"} /\ arg \in {"any", "prim", "text"}
           /\ Typed /\ BasesKnown(n) /\ CursorsKnown(n) /\ Cmd \in Command /\ Sound(leaf, n, Cmd)
  BY DEF Ready, Known, More, Running, Typed

-----------------------------------------------------------------------------
(* One lemma per action: it leads to a true note among the Results.         *)

Leads(n) == \E m \in Results(n, Cmd) : Becomes(m)

(* The two ways that most steps go: to fail, or to pass.                    *)
LEMMA FailsStep ==
    ASSUME NEW n, Ready(n), NEW thrown \in BOOLEAN, Fails(thrown),
           Failed(n, Cmd, thrown, n.fresh) \in Results(n, Cmd)
    PROVE  Leads(n)
<1>1. PICK m \in Results(n, Cmd) : m = Failed(n, Cmd, thrown, n.fresh)
  OBVIOUS
<1> QED
  BY <1>1, FailsPlain DEF Leads

LEMMA PassesStep ==
    ASSUME NEW n, Ready(n), Goes, UNCHANGED <<base, cur, held, exc, arg>>,
           Passed(n) \in Results(n, Cmd)
    PROVE  Leads(n)
<1>0. PICK m \in Results(n, Cmd) : m = Passed(n)
  OBVIOUS
<1>1. /\ m.pc = n.pc + 1 /\ m.out = n.out /\ m.held = n.held /\ m.exc = n.exc /\ m.arg = n.arg
      /\ m.via = n.via /\ m.at = n.at /\ m.fresh = n.fresh /\ m.within = n.within /\ m.le = n.le
  BY <1>0, ReadyNote, PassedFields DEF NoteFields
<1>2. BasesKnown(m) /\ CursorsKnown(m)
  BY <1>1, SameKnown
<1>3. Becomes(m)
  BY <1>1, <1>2, ReadyNote, StaysKnown
<1> QED
  BY <1>0, <1>3 DEF Leads


(* Conditions (arg.c:32-42).                                                *)
LEMMA TestsStep ==
    ASSUME NEW n, Ready(n), Tests
    PROVE  Leads(n)
  BY PassesStep, FailsStep, GateResults DEF Tests, Here, MayFail

LEMMA ThrowsStep ==
    ASSUME NEW n, Ready(n), Throws
    PROVE  Leads(n)
  BY PassesStep, FailsStep, GateResults DEF Throws, Here, MayFail

LEMMA RaisesStep ==
    ASSUME NEW n, Ready(n), Raises
    PROVE  Leads(n)
  BY FailsStep, GateResults DEF Raises, Here

LEMMA PendsStep ==
    ASSUME NEW n, Ready(n), Pends
    PROVE  Leads(n)
<1>1. exc = n.exc
  BY ReadyNote
<1>2. CASE exc # "none"
  BY <1>1, <1>2, FailsStep, GateResults DEF Pends, Here
<1>3. CASE exc = "none"
  BY <1>1, <1>3, PassesStep, GateResults DEF Pends, Here
<1> QED
  BY <1>2, <1>3

LEMMA UsesStep ==
    ASSUME NEW n, Ready(n), Uses
    PROVE  Leads(n)
  BY PassesStep, BaseResults DEF Uses, Here

(* Arguments.                                                               *)
LEMMA ClearsStep ==
    ASSUME NEW n, Ready(n), Clears
    PROVE  Leads(n)
<1>0. PICK m \in Results(n, Cmd) : m = [Passed(n) EXCEPT !.exc = "none"]
  BY GateResults DEF Clears, Here
<1>1. /\ m.pc = n.pc + 1 /\ m.out = n.out /\ m.held = n.held /\ m.exc = "none" /\ m.arg = n.arg
      /\ m.via = n.via /\ m.at = n.at /\ m.fresh = n.fresh /\ m.within = n.within /\ m.le = n.le
  BY <1>0, ReadyNote, PassedFields DEF NoteFields
<1>2. BasesKnown(m) /\ CursorsKnown(m)
  BY <1>1, SameKnown
<1>3. Becomes(m)
  BY <1>1, <1>2, ReadyNote, StaysKnown DEF Clears
<1> QED
  BY <1>0, <1>3 DEF Leads

LEMMA TextsStep ==
    ASSUME NEW n, Ready(n), Texts
    PROVE  Leads(n)
<1>0. PICK m \in Results(n, Cmd) : m = [Passed(n) EXCEPT !.arg = "text"]
  BY GateResults DEF Texts, Here
<1>1. /\ m.pc = n.pc + 1 /\ m.out = n.out /\ m.held = n.held /\ m.exc = n.exc /\ m.arg = "text"
      /\ m.via = n.via /\ m.at = n.at /\ m.fresh = n.fresh /\ m.within = n.within /\ m.le = n.le
  BY <1>0, ReadyNote, PassedFields DEF NoteFields
<1>2. BasesKnown(m) /\ CursorsKnown(m)
  BY <1>1, SameKnown
<1>3. Becomes(m)
  BY <1>1, <1>2, ReadyNote, StaysKnown DEF Texts
<1> QED
  BY <1>0, <1>3 DEF Leads

LEMMA ScalarsStep ==
    ASSUME NEW n, Ready(n), Scalars
    PROVE  Leads(n)
<1>1. CASE Fails(TRUE)
  BY <1>1, FailsStep, GateResults DEF Scalars, Here
<1>2. CASE Goes /\ arg' = "prim" /\ UNCHANGED <<base, cur, held, exc>>
  <2>0. PICK m \in Results(n, Cmd) : m = [Passed(n) EXCEPT !.arg = "prim"]
    BY GateResults DEF Scalars, Here
  <2>1. /\ m.pc = n.pc + 1 /\ m.out = n.out /\ m.held = n.held /\ m.exc = n.exc /\ m.arg = "prim"
        /\ m.via = n.via /\ m.at = n.at /\ m.fresh = n.fresh /\ m.within = n.within /\ m.le = n.le
    BY <2>0, ReadyNote, PassedFields DEF NoteFields
  <2>2. BasesKnown(m) /\ CursorsKnown(m)
    BY <2>1, SameKnown
  <2>3. Becomes(m)
    BY <1>2, <2>1, <2>2, ReadyNote, StaysKnown
  <2> QED
    BY <2>0, <2>3 DEF Leads
<1> QED
  BY <1>1, <1>2 DEF Scalars

LEMMA KeepsStep ==
    ASSUME NEW n, Ready(n), Keeps
    PROVE  Leads(n)
<1>0. PICK m \in Results(n, Cmd) : m = [Passed(n) EXCEPT !.held = Kept(@, Cmd.of)]
  BY BaseResults DEF Keeps, Here
<1>1. /\ m.pc = n.pc + 1 /\ m.out = n.out /\ m.exc = n.exc /\ m.arg = n.arg
      /\ m.held = Kept(n.held, Cmd.of)
      /\ m.via = n.via /\ m.at = n.at /\ m.fresh = n.fresh /\ m.within = n.within /\ m.le = n.le
  BY <1>0, ReadyNote, PassedFields DEF NoteFields
<1>2. BasesKnown(m) /\ CursorsKnown(m)
  BY <1>1, SameKnown
<1>3. Becomes(m)
  BY <1>1, <1>2, ReadyNote, StaysKnown DEF Keeps, Holds
<1> QED
  BY <1>0, <1>3 DEF Leads

(* Steps that may let JS run: no base is known to be fresh after it.        *)
LEMMA RanFields ==
    ASSUME NEW n, NEW r, NEW F, DOMAIN n = NoteFields
    PROVE  LET m == Ran(n, r, F) IN
           /\ m.pc = n.pc + 1 /\ m.out = n.out /\ m.exc = n.exc /\ m.arg = "any" /\ m.fresh = F
           /\ m.held = Kept(n.held, r)
           /\ m.via = n.via /\ m.at = n.at /\ m.within = n.within /\ m.le = n.le
  BY DEF Ran, NoteFields

(* A step that ran, the bases of F being out of its reach.                  *)
LEMMA RanKnown ==
    ASSUME NEW n, Ready(n), NEW B, NEW F \in SUBSET n.fresh, F \cap B = {},
           Goes, base' = Stale(B), Holds(Cmd.of), arg' = "any", UNCHANGED <<cur, exc>>,
           NEW m, m = Ran(n, Cmd.of, F)
    PROVE  Becomes(m)
<1>1. /\ m.pc = n.pc + 1 /\ m.out = n.out /\ m.exc = n.exc /\ m.arg = "any" /\ m.fresh = F
      /\ m.held = Kept(n.held, Cmd.of)
      /\ m.via = n.via /\ m.at = n.at /\ m.within = n.within /\ m.le = n.le
  <2>1. DOMAIN n = NoteFields
    BY ReadyNote
  <2> QED
    BY <2>1, RanFields
<1>2. held' = m.held
  BY <1>1, ReadyNote DEF Holds
<1>3. /\ BaseTyped' /\ CurTyped' /\ CursorsKnown(n)'
      /\ DOMAIN base' = DOMAIN n.via
      /\ \A b \in DOMAIN base' : base'[b].via = n.via[b]
      /\ \A b \in F : b \in DOMAIN base' /\ base'[b].fresh = TRUE
  BY ReadyNote, GoneStale
<1>4. Typed'
  BY <1>3, ReadyNote DEF Typed, Goes
<1>5. BasesKnown(m)'
  BY <1>1, <1>3 DEF BasesKnown
<1>6. CursorsKnown(m)'
  BY <1>1, <1>3 DEF CursorsKnown
<1> QED
  BY <1>1, <1>2, <1>4, <1>5, <1>6, ReadyNote, MovesKnown DEF Goes

LEMMA RunsStep ==
    ASSUME NEW n, Ready(n), Runs,
           Ran(n, Cmd.of, {}) \in Results(n, Cmd), Failed(n, Cmd, TRUE, {}) \in Results(n, Cmd)
    PROVE  Leads(n)
<1>1. PICK B \in SUBSET DOMAIN base :
        \/ /\ Goes /\ base' = Stale(B) /\ Holds(Cmd.of) /\ arg' = "any"
           /\ UNCHANGED <<cur, exc>>
        \/ FailsAfter(TRUE, B)
  BY DEF Runs
<1>2. {} \in SUBSET n.fresh /\ {} \cap B = {}
  OBVIOUS
<1>3. CASE Goes /\ base' = Stale(B) /\ Holds(Cmd.of) /\ arg' = "any" /\ UNCHANGED <<cur, exc>>
  <2>1. PICK m \in Results(n, Cmd) : m = Ran(n, Cmd.of, {})
    OBVIOUS
  <2>2. Becomes(m)
    BY <1>2, <1>3, <2>1, RanKnown
  <2> QED
    BY <2>2 DEF Leads
<1>4. CASE FailsAfter(TRUE, B)
  <2>1. PICK m \in Results(n, Cmd) : m = Failed(n, Cmd, TRUE, {})
    OBVIOUS
  <2>2. Becomes(m)
    BY <1>2, <1>4, <2>1, FailsKnown
  <2> QED
    BY <2>2 DEF Leads
<1> QED
  BY <1>1, <1>3, <1>4

LEMMA CallsStep ==
    ASSUME NEW n, Ready(n), Calls
    PROVE  Leads(n)
  BY RunsStep, RunResults DEF Calls, Here

LEMMA ConvertsStep ==
    ASSUME NEW n, Ready(n), Converts
    PROVE  Leads(n)
<1>1. arg = n.arg /\ Cmd.op = "convert"
  BY ReadyNote DEF Converts, Here
<1>2. CASE arg = "any" /\ Runs
  BY <1>1, <1>2, RunsStep, RunResults
<1>3. CASE arg = "prim" /\ Fails(TRUE)
  BY <1>1, <1>3, FailsStep, RunResults
<1>4. CASE /\ arg \in {"prim", "text"} /\ Goes /\ Holds(Cmd.of) /\ arg' = "any"
           /\ UNCHANGED <<base, cur, exc>>
  <2>1. PICK m \in Results(n, Cmd) : m = Ran(n, Cmd.of, n.fresh)
    BY <1>1, <1>4, RunResults
  <2>2. /\ m.pc = n.pc + 1 /\ m.out = n.out /\ m.exc = n.exc /\ m.arg = "any" /\ m.fresh = n.fresh
        /\ m.held = Kept(n.held, Cmd.of)
        /\ m.via = n.via /\ m.at = n.at /\ m.within = n.within /\ m.le = n.le
    <3>1. DOMAIN n = NoteFields
      BY ReadyNote
    <3> QED
      BY <2>1, <3>1, RanFields
  <2>3. held' = m.held
    BY <1>4, <2>2, ReadyNote DEF Holds
  <2>4. BasesKnown(m) /\ CursorsKnown(m)
    BY <2>2, SameKnown
  <2>5. Becomes(m)
    BY <1>4, <2>2, <2>3, <2>4, ReadyNote, StaysKnown
  <2> QED
    BY <2>5 DEF Leads
<1> QED
  BY <1>2, <1>3, <1>4 DEF Converts

(* The last reference to a base is dropped: it is not known to be fresh.    *)
LEMMA DropsStep ==
    ASSUME NEW n, Ready(n), Drops
    PROVE  Leads(n)
<1>0. PICK m \in Results(n, Cmd) :
        m = [Passed(n) EXCEPT !.held = @ \ Cmd.refs, !.fresh = Outlive(n, @, Cmd.refs)]
  BY BaseResults DEF Drops, Here
<1>1. PICK r, F : r = Cmd.refs /\ F = Outlive(n, n.fresh, Cmd.refs)
  OBVIOUS
<1>2. PICK k : k = Passed(n)
  OBVIOUS
<1>3. /\ DOMAIN k = NoteFields /\ k.pc = n.pc + 1 /\ \A x \in NoteFields \ {"pc"} : k[x] = n[x]
  BY <1>2, ReadyNote, PassedFields
<1>4. k.held = n.held /\ k.fresh = n.fresh
  BY <1>3 DEF NoteFields
<1>5. m = [k EXCEPT !.held = n.held \ r, !.fresh = F]
  BY <1>0, <1>1, <1>2, <1>4
<1>6. /\ m.pc = n.pc + 1 /\ m.out = n.out /\ m.exc = n.exc /\ m.arg = n.arg
      /\ m.held = n.held \ r /\ m.fresh = F
      /\ m.via = n.via /\ m.at = n.at /\ m.within = n.within /\ m.le = n.le
  BY <1>3, <1>5 DEF NoteFields
<1>7. F \in SUBSET n.fresh /\ F \cap By(Cmd.refs) = {}
  BY <1>1, ReadyNote DEF Outlive, By, BasesKnown
<1>8. /\ Goes /\ base' = Stale(By(Cmd.refs)) /\ held' = m.held /\ UNCHANGED <<cur, exc, arg>>
  BY <1>1, <1>6, ReadyNote DEF Drops
<1>9. /\ BaseTyped' /\ CurTyped' /\ CursorsKnown(n)'
      /\ DOMAIN base' = DOMAIN n.via
      /\ \A b \in DOMAIN base' : base'[b].via = n.via[b]
      /\ \A b \in F : b \in DOMAIN base' /\ base'[b].fresh = TRUE
  BY <1>7, <1>8, ReadyNote, GoneStale
<1>10. Typed'
  BY <1>8, <1>9, ReadyNote DEF Typed, Goes
<1>11. BasesKnown(m)'
  BY <1>6, <1>9 DEF BasesKnown
<1>12. CursorsKnown(m)'
  BY <1>6, <1>9 DEF CursorsKnown
<1>13. Becomes(m)
  BY <1>6, <1>8, <1>10, <1>11, <1>12, ReadyNote, MovesKnown DEF Goes
<1> QED
  BY <1>13 DEF Leads

(* A new base, of whatever length, is fresh.  Nothing is known to be inside.*)
LEMMA BasedKnown ==
    ASSUME NEW n, NEW k, NEW v \in [len : 0..MaxLen, fresh : BOOLEAN, via : Keepers],
           NEW m, Ready(n), v.fresh = TRUE, m = Based(n, k, v.via),
           Goes, base' = Bind(base, k, v), UNCHANGED <<cur, held, exc, arg>>
    PROVE  Becomes(m)
<1>1. /\ m.pc = n.pc + 1 /\ m.out = n.out /\ m.held = n.held /\ m.exc = n.exc /\ m.arg = n.arg
      /\ m.via = Bind(n.via, k, v.via) /\ m.fresh = n.fresh \cup {k}
      /\ m.within = {c \in n.within : n.at[c] # k} /\ m.at = n.at /\ m.le = n.le
  BY ReadyNote, BasedFields DEF NoteFields
<1>2. /\ BasesKnown(n) /\ CursorsKnown(n) /\ Typed
      /\ n.out = "running" /\ held = n.held /\ exc = n.exc /\ pc = n.pc /\ arg = n.arg
  BY ReadyNote
<1>3. /\ DOMAIN base' = {k} \cup DOMAIN base /\ base'[k] = v
      /\ \A b \in DOMAIN base : b # k => base'[b] = base[b]
  BY DEF Bind
<1>4. /\ DOMAIN m.via = {k} \cup DOMAIN n.via /\ m.via[k] = v.via
      /\ \A b \in DOMAIN n.via : b # k => m.via[b] = n.via[b]
  BY <1>1 DEF Bind
<1>5. BaseTyped'
  BY <1>2, <1>3 DEF Typed, BaseTyped
<1>6. Typed'
  BY <1>2, <1>5 DEF Typed, CurTyped, Goes
<1>7. BasesKnown(m)'
  <2>1. DOMAIN base' = DOMAIN m.via
    BY <1>2, <1>3, <1>4 DEF BasesKnown
  <2>2. \A b \in DOMAIN base' : base'[b].via = m.via[b]
    BY <1>2, <1>3, <1>4 DEF BasesKnown
  <2>3. \A b \in m.fresh : b \in DOMAIN base' /\ base'[b].fresh = TRUE
    BY <1>1, <1>2, <1>3 DEF BasesKnown
  <2> QED
    BY <2>1, <2>2, <2>3 DEF BasesKnown
<1>8. CursorsKnown(m)'
  BY <1>1, <1>2, <1>3 DEF CursorsKnown
<1> QED
  BY <1>1, <1>2, <1>6, <1>7, <1>8, MovesKnown DEF Goes

LEMMA TakesStep ==
    ASSUME NEW n, Ready(n), Takes
    PROVE  Leads(n)
<1>0. PICK h \in Keepers : h = "handle"
  BY DEF Keepers
<1>1. PICK v : v = [len |-> 0, fresh |-> TRUE, via |-> h]
  OBVIOUS
<1>2. v \in [len : 0..MaxLen, fresh : BOOLEAN, via : Keepers] /\ v.fresh = TRUE /\ v.via = h
  <2>1. 0 \in 0..MaxLen
    BY MaxLenAssumption
  <2> QED
    BY <1>1, <2>1
<1>3. PICK m \in Results(n, Cmd) : m = Based(n, Cmd.of, v.via)
  BY <1>0, <1>2, BaseResults DEF Takes, Here
<1>4. Goes /\ base' = Bind(base, Cmd.of, v) /\ UNCHANGED <<cur, held, exc, arg>>
  BY <1>0, <1>1 DEF Takes
<1>5. Becomes(m)
  BY <1>2, <1>3, <1>4, BasedKnown
<1> QED
  BY <1>5 DEF Leads

LEMMA ViewsStep ==
    ASSUME NEW n, Ready(n), Views
    PROVE  Leads(n)
<1>1. Cmd.op = "view" /\ Cmd.at \in Keepers /\ DOMAIN base = DOMAIN n.via
  BY ReadyNote DEF Views, Here, Command, BasesKnown, Keepers
<1>2. CASE Fails(TRUE)
  BY <1>1, <1>2, FailsStep, BaseResults
<1>3. CASE /\ Cmd.of \in DOMAIN base /\ Goes /\ UNCHANGED <<base, cur, held, exc, arg>>
  BY <1>1, <1>3, PassesStep, BaseResults
<1>4. ASSUME NEW k \in 0..MaxLen, Cmd.of \notin DOMAIN base, Goes, UNCHANGED <<cur, held, exc, arg>>,
             base' = Bind(base, Cmd.of, [len |-> k, fresh |-> TRUE, via |-> Cmd.at])
      PROVE  Leads(n)
  <2>1. PICK v : v = [len |-> k, fresh |-> TRUE, via |-> Cmd.at]
    OBVIOUS
  <2>2. v \in [len : 0..MaxLen, fresh : BOOLEAN, via : Keepers] /\ v.fresh = TRUE /\ v.via = Cmd.at
    BY <1>1, <2>1
  <2>3. PICK m \in Results(n, Cmd) : m = Based(n, Cmd.of, v.via)
    BY <1>1, <1>4, <2>2, BaseResults
  <2>4. base' = Bind(base, Cmd.of, v)
    BY <1>4, <2>1
  <2>5. Becomes(m)
    BY <1>4, <2>2, <2>3, <2>4, BasedKnown
  <2> QED
    BY <2>5 DEF Leads
<1> QED
  BY <1>2, <1>3, <1>4 DEF Views

LEMMA SameStep ==
    ASSUME NEW n, Ready(n), Same
    PROVE  Leads(n)
<1>1. Cmd.op = "same" /\ DOMAIN base = DOMAIN n.via
  BY ReadyNote DEF Same, Here, BasesKnown
<1>2. CASE Cmd.of \in DOMAIN base /\ ~base[Cmd.of].fresh
  BY <1>1, <1>2, FailsStep, BaseResults DEF Same
<1>3. CASE ~(Cmd.of \in DOMAIN base /\ ~base[Cmd.of].fresh)
  <2>1. PICK S : S = {Cmd.of} \cap DOMAIN n.via
    OBVIOUS
  <2>2. PICK k : k = Passed(n)
    OBVIOUS
  <2>3. PICK m \in Results(n, Cmd) : m = [k EXCEPT !.fresh = @ \cup S]
    BY <1>1, <2>1, <2>2, BaseResults
  <2>4. /\ DOMAIN k = NoteFields /\ k.pc = n.pc + 1 /\ \A x \in NoteFields \ {"pc"} : k[x] = n[x]
    BY <2>2, ReadyNote, PassedFields
  <2>5. /\ m.pc = n.pc + 1 /\ m.out = n.out /\ m.held = n.held /\ m.exc = n.exc /\ m.arg = n.arg
        /\ m.via = n.via /\ m.at = n.at /\ m.fresh = n.fresh \cup S
        /\ m.within = n.within /\ m.le = n.le
    BY <2>3, <2>4 DEF NoteFields
  <2>6. \A b \in S : b \in DOMAIN base /\ base[b].fresh = TRUE
    BY <1>1, <1>3, <2>1, ReadyNote DEF Typed, BaseTyped
  <2>7. BasesKnown(m)
    <3>1. BasesKnown(n)
      BY ReadyNote
    <3>2. \A b \in m.fresh : b \in n.fresh \/ b \in S
      BY <2>5
    <3>3. \A b \in m.fresh : b \in DOMAIN base /\ base[b].fresh = TRUE
      BY <2>6, <3>1, <3>2 DEF BasesKnown
    <3> QED
      BY <2>5, <3>1, <3>3 DEF BasesKnown
  <2>8. CursorsKnown(m)
    BY <2>5, ReadyNote DEF CursorsKnown
  <2>9. Becomes(m)
    BY <1>3, <2>5, <2>7, <2>8, ReadyNote, StaysKnown DEF Same
  <2> QED
    BY <2>9 DEF Leads
<1> QED
  BY <1>2, <1>3

(* A new cursor, anywhere up to one past the longest array.                 *)
LEMMA SizesStep ==
    ASSUME NEW n, Ready(n), Sizes
    PROVE  Leads(n)
<1>1. PICK a \in STRING : a = Cmd.at
  BY ReadyNote DEF Command
<1>2. PICK x \in 0..MaxLen + 1 : cur' = Bind(cur, Cmd.of, [at |-> a, n |-> x])
  BY <1>1 DEF Sizes
<1>3. PICK k, v : k = Cmd.of /\ v = [at |-> a, n |-> x]
  OBVIOUS
<1>4. v \in [at : STRING, n : 0..MaxLen + 1] /\ v.at = a
  BY <1>3
<1>5. PICK m \in Results(n, Cmd) : m = Sized(n, k, a)
  BY <1>1, <1>3, CursorResults DEF Sizes, Here
<1>6. /\ m.pc = n.pc + 1 /\ m.out = n.out /\ m.held = n.held /\ m.exc = n.exc /\ m.arg = n.arg
      /\ m.via = n.via /\ m.fresh = n.fresh /\ m.at = Bind(n.at, k, a)
      /\ m.within = n.within \ {k} /\ m.le = {p \in n.le : k \notin {p[1], p[2]}}
  BY <1>5, ReadyNote, SizedFields DEF NoteFields
<1>7. /\ BasesKnown(n) /\ CursorsKnown(n) /\ Typed
      /\ n.out = "running" /\ held = n.held /\ exc = n.exc /\ pc = n.pc /\ arg = n.arg
  BY ReadyNote
<1>8. Goes /\ UNCHANGED <<base, held, exc, arg>>
  BY DEF Sizes
<1>9. /\ DOMAIN cur' = {k} \cup DOMAIN cur /\ cur'[k] = v
      /\ \A c \in DOMAIN cur : c # k => cur'[c] = cur[c]
  BY <1>2, <1>3 DEF Bind
<1>10. /\ DOMAIN m.at = {k} \cup DOMAIN n.at /\ m.at[k] = a
       /\ \A c \in DOMAIN n.at : c # k => m.at[c] = n.at[c]
  BY <1>6 DEF Bind
<1>11. CurTyped'
  BY <1>4, <1>7, <1>9 DEF Typed, CurTyped
<1>12. Typed'
  BY <1>7, <1>8, <1>11 DEF Typed, BaseTyped, Goes
<1>13. BasesKnown(m)'
  BY <1>6, <1>7, <1>8 DEF BasesKnown
<1>14. CursorsKnown(m)'
  <2>1. DOMAIN cur' = DOMAIN m.at
    BY <1>7, <1>9, <1>10 DEF CursorsKnown
  <2>2. \A c \in DOMAIN cur' : cur'[c].at = m.at[c]
    BY <1>4, <1>7, <1>9, <1>10 DEF CursorsKnown
  <2>3. \A c \in m.within : /\ c \in DOMAIN cur' /\ cur'[c].at \in DOMAIN base'
                             /\ cur'[c].n <= base'[cur'[c].at].len
    BY <1>6, <1>7, <1>8, <1>9 DEF CursorsKnown
  <2>4. \A p \in m.le : p[1] \in DOMAIN cur' /\ p[2] \in DOMAIN cur' /\ cur'[p[1]].n <= cur'[p[2]].n
    BY <1>6, <1>7, <1>9 DEF CursorsKnown
  <2> QED
    BY <2>1, <2>2, <2>3, <2>4 DEF CursorsKnown
<1>15. Becomes(m)
  BY <1>6, <1>7, <1>8, <1>12, <1>13, <1>14, MovesKnown DEF Goes
<1> QED
  BY <1>15 DEF Leads

(* A cursor that was compared with the end of its base.                     *)
LEMMA InsideKnown ==
    ASSUME NEW n, NEW k, NEW m, Ready(n), m = Inside(n, k), Goes, UNCHANGED <<base, cur, held, exc, arg>>,
           k \in DOMAIN cur, cur[k].at \in DOMAIN base, cur[k].n <= End(k)
    PROVE  Becomes(m)
<1>1. /\ m.pc = n.pc + 1 /\ m.out = n.out /\ m.held = n.held /\ m.exc = n.exc /\ m.arg = n.arg
      /\ m.via = n.via /\ m.fresh = n.fresh /\ m.at = n.at
      /\ m.within = n.within \cup {k} /\ m.le = n.le
  BY ReadyNote, InsideFields DEF NoteFields
<1>2. BasesKnown(n) /\ CursorsKnown(n)
  BY ReadyNote
<1>3. BasesKnown(m)
  BY <1>1, <1>2 DEF BasesKnown
<1>4. \A c \in m.within : /\ c \in DOMAIN cur /\ cur[c].at \in DOMAIN base
                           /\ cur[c].n <= base[cur[c].at].len
  BY <1>1, <1>2 DEF CursorsKnown, End
<1>5. CursorsKnown(m)
  BY <1>1, <1>2, <1>4 DEF CursorsKnown
<1> QED
  BY <1>1, <1>3, <1>5, ReadyNote, StaysKnown

(* What a sound leaf knows before a comparison, and before a use.           *)
LEMMA SoundCursors ==
    ASSUME NEW n, NEW f, NEW c, Sound(f, n, c)
    PROVE  /\ c.op \in {"fits", "room", "clamp"} =>
                 c.of \in DOMAIN n.at /\ n.at[c.of] \in DOMAIN n.via
           /\ c.op \in {"less", "slice"} => {c.of, c.at} \subseteq DOMAIN n.at
           /\ c.op = "before" => c.of \in DOMAIN n.at
  BY DEF Sound

LEMMA SoundUse ==
    ASSUME NEW n, NEW f, NEW c, Sound(f, n, c)
    PROVE  /\ c.op = "use" /\ f \notin Reentrant \cup Unkept => c.refs \cap DOMAIN n.via \subseteq n.fresh
           /\ c.op = "use" =>
                \A k \in DOMAIN n.at : n.at[k] \in c.refs \cap DOMAIN n.via => k \in n.within
           /\ c.op = "slice" /\ f \notin Backward => <<c.of, c.at>> \in n.le
  BY DEF Sound

(* The two sides of a comparison with the end are there, and are numbers.   *)
LEMMA Measured ==
    ASSUME NEW n, Ready(n), Cmd.op \in {"fits", "room", "clamp"}
    PROVE  /\ Cmd.of \in DOMAIN cur /\ cur[Cmd.of].at \in DOMAIN base
           /\ cur[Cmd.of].n \in Nat /\ End(Cmd.of) \in 0..MaxLen
<1>1. Cmd.of \in DOMAIN n.at /\ n.at[Cmd.of] \in DOMAIN n.via
  <2>1. Sound(leaf, n, Cmd)
    BY ReadyNote
  <2> QED
    BY <2>1, SoundCursors
<1>2. Cmd.of \in DOMAIN cur /\ cur[Cmd.of].at \in DOMAIN base
  <2>1. BasesKnown(n) /\ CursorsKnown(n)
    BY ReadyNote
  <2>2. Cmd.of \in DOMAIN cur
    BY <1>1, <2>1 DEF CursorsKnown
  <2>3. cur[Cmd.of].at = n.at[Cmd.of]
    BY <2>1, <2>2 DEF CursorsKnown
  <2>4. n.at[Cmd.of] \in DOMAIN base
    BY <1>1, <2>1 DEF BasesKnown
  <2> QED
    BY <2>2, <2>3, <2>4
<1>3. cur[Cmd.of] \in [at : STRING, n : 0..MaxLen+1]
  BY <1>2, ReadyNote DEF Typed, CurTyped
<1>4. base[cur[Cmd.of].at] \in [len : 0..MaxLen, fresh : BOOLEAN, via : Keepers]
  BY <1>2, ReadyNote DEF Typed, BaseTyped
<1> QED
  BY <1>2, <1>3, <1>4 DEF End

LEMMA FitsInStep ==
    ASSUME NEW n, Ready(n), FitsIn
    PROVE  Leads(n)
<1>1. Cmd.op = "fits"
  BY DEF FitsIn, Here
<1>2. CASE cur[Cmd.of].n > End(Cmd.of)
  BY <1>1, <1>2, FailsStep, CursorResults DEF FitsIn
<1>3. CASE ~(cur[Cmd.of].n > End(Cmd.of))
  <2>1. PICK m \in Results(n, Cmd) : m = Inside(n, Cmd.of)
    BY <1>1, CursorResults
  <2>2. Goes /\ UNCHANGED <<base, cur, held, exc, arg>>
    BY <1>3 DEF FitsIn, Stays
  <2>3. cur[Cmd.of].n <= End(Cmd.of)
    BY <1>1, <1>3, Measured
  <2>4. Becomes(m)
    BY <1>1, <2>1, <2>2, <2>3, Measured, InsideKnown
  <2> QED
    BY <2>4 DEF Leads
<1> QED
  BY <1>2, <1>3

LEMMA HasRoomStep ==
    ASSUME NEW n, Ready(n), HasRoom
    PROVE  Leads(n)
<1>1. Cmd.op = "room"
  BY DEF HasRoom, Here
<1>2. CASE cur[Cmd.of].n >= End(Cmd.of)
  BY <1>1, <1>2, FailsStep, CursorResults DEF HasRoom
<1>3. CASE ~(cur[Cmd.of].n >= End(Cmd.of))
  <2>1. PICK m \in Results(n, Cmd) : m = Inside(n, Cmd.of)
    BY <1>1, CursorResults
  <2>2. Goes /\ UNCHANGED <<base, cur, held, exc, arg>>
    BY <1>3 DEF HasRoom, Stays
  <2>3. cur[Cmd.of].n <= End(Cmd.of)
    BY <1>1, <1>3, Measured
  <2>4. Becomes(m)
    BY <1>1, <2>1, <2>2, <2>3, Measured, InsideKnown
  <2> QED
    BY <2>4 DEF Leads
<1> QED
  BY <1>2, <1>3

(* A cursor is set to no more than it was.                                  *)
LEMMA LessKnown ==
    ASSUME NEW n, NEW k, NEW x \in 0..MaxLen, NEW m, Ready(n), k \in DOMAIN cur, x <= cur[k].n, 
           SetCur(k, x), m.pc = n.pc + 1, m.out = n.out, m.held = n.held, m.exc = n.exc, m.arg = n.arg,
           m.via = n.via, m.fresh = n.fresh, m.at = n.at, m.le = {p \in n.le : p[2] # k},
           \A c \in m.within : \/ c \in n.within
                               \/ c = k /\ cur[k].at \in DOMAIN base /\ x <= End(k)
    PROVE  Becomes(m)
<1>1. /\ BasesKnown(n) /\ CursorsKnown(n) /\ Typed
      /\ n.out = "running" /\ held = n.held /\ exc = n.exc /\ pc = n.pc /\ arg = n.arg
  BY ReadyNote
<1>2. Goes /\ UNCHANGED <<base, held, exc, arg>> /\ cur' = [cur EXCEPT ![k].n = x]
  BY DEF SetCur
<1>3. cur[k] \in [at : STRING, n : 0..MaxLen + 1]
  BY <1>1 DEF Typed, CurTyped
<1>4. PICK v : v = [cur[k] EXCEPT !.n = x]
  OBVIOUS
<1>5. v \in [at : STRING, n : 0..MaxLen + 1] /\ v.at = cur[k].at /\ v.n = x
  <2>1. x \in 0..MaxLen + 1
    BY MaxLenAssumption
  <2> QED
    BY <1>3, <1>4, <2>1
<1>6. /\ DOMAIN cur' = DOMAIN cur /\ cur'[k] = v
      /\ \A c \in DOMAIN cur : c # k => cur'[c] = cur[c]
  BY <1>2, <1>4
<1>7. CurTyped'
  BY <1>1, <1>5, <1>6 DEF Typed, CurTyped
<1>8. Typed'
  BY <1>1, <1>2, <1>7 DEF Typed, BaseTyped, Goes
<1>9. BasesKnown(m)'
  BY <1>1, <1>2 DEF BasesKnown
<1>10. \A c \in DOMAIN cur : cur'[c].at = cur[c].at /\ cur[c].n \in Nat
  BY <1>1, <1>5, <1>6 DEF Typed, CurTyped
<1>11. CursorsKnown(m)'
  <2>1. DOMAIN cur' = DOMAIN m.at
    BY <1>1, <1>6 DEF CursorsKnown
  <2>2. \A c \in DOMAIN cur' : cur'[c].at = m.at[c]
    BY <1>1, <1>6, <1>10 DEF CursorsKnown
  <2>3. ASSUME NEW c \in m.within
        PROVE  /\ c \in DOMAIN cur' /\ cur'[c].at \in DOMAIN base'
               /\ cur'[c].n <= base'[cur'[c].at].len
    <3>1. CASE c = k /\ cur[k].at \in DOMAIN base /\ x <= End(k)
      BY <1>2, <1>5, <1>6, <3>1 DEF End
    <3>2. CASE c \in n.within /\ c # k
      BY <1>1, <1>2, <1>6, <3>2 DEF CursorsKnown
    <3>3. CASE c \in n.within /\ c = k
      <4>1. cur[k].at \in DOMAIN base /\ cur[k].n <= base[cur[k].at].len
        BY <1>1, <3>3 DEF CursorsKnown
      <4>2. base[cur[k].at].len \in Nat
        BY <1>1, <4>1 DEF Typed, BaseTyped
      <4>3. x <= base[cur[k].at].len
        BY <1>3, <4>1, <4>2
      <4> QED
        BY <1>2, <1>5, <1>6, <3>3, <4>1, <4>3
    <3> QED
      BY <3>1, <3>2, <3>3
  <2>4. ASSUME NEW p \in m.le
        PROVE  p[1] \in DOMAIN cur' /\ p[2] \in DOMAIN cur' /\ cur'[p[1]].n <= cur'[p[2]].n
    <3>1. /\ p[1] \in DOMAIN cur /\ p[2] \in DOMAIN cur /\ cur[p[1]].n <= cur[p[2]].n /\ p[2] # k
      BY <1>1 DEF CursorsKnown
    <3>2. cur'[p[2]] = cur[p[2]]
      BY <1>6, <3>1
    <3>3. CASE p[1] # k
      BY <1>6, <3>1, <3>2, <3>3
    <3>4. CASE p[1] = k
      <4>1. cur'[p[1]].n = x /\ x <= cur[p[1]].n /\ cur[p[1]].n \in Nat /\ cur[p[2]].n \in Nat
        BY <1>5, <1>6, <1>10, <3>1, <3>4
      <4> QED
        BY <1>6, <3>1, <3>2, <4>1
    <3> QED
      BY <3>3, <3>4
  <2> QED
    BY <2>1, <2>2, <2>3, <2>4 DEF CursorsKnown
<1> QED
  BY <1>1, <1>2, <1>8, <1>9, <1>11, MovesKnown DEF Goes

LEMMA ClampsStep ==
    ASSUME NEW n, Ready(n), Clamps
    PROVE  Leads(n)
<1>1. Cmd.op = "clamp"
  BY DEF Clamps, Here
<1>2. PICK k : k = Cmd.of
  OBVIOUS
<1>3. PICK m \in Results(n, Cmd) : m = Lowered(Inside(n, k), k)
  BY <1>1, <1>2, CursorResults
<1>4. /\ k \in DOMAIN cur /\ cur[k].at \in DOMAIN base
      /\ cur[k].n \in Nat /\ End(k) \in 0..MaxLen
  BY <1>1, <1>2, Measured
<1>5. PICK x : x = IF cur[k].n > End(k) THEN End(k) ELSE cur[k].n
  OBVIOUS
<1>6. x \in 0..MaxLen /\ x <= cur[k].n /\ x <= End(k)
  BY <1>4, <1>5, MaxLenAssumption
<1>7. SetCur(k, x)
  BY <1>2, <1>5 DEF Clamps
<1>8. /\ m.pc = n.pc + 1 /\ m.out = n.out /\ m.held = n.held /\ m.exc = n.exc /\ m.arg = n.arg
      /\ m.via = n.via /\ m.fresh = n.fresh /\ m.at = n.at
      /\ m.within = n.within \cup {k} /\ m.le = {p \in n.le : p[2] # k}
  BY <1>3, ReadyNote, InsideFields, LoweredFields DEF NoteFields
<1>9. \A c \in m.within : \/ c \in n.within
                          \/ c = k /\ cur[k].at \in DOMAIN base /\ x <= End(k)
  BY <1>4, <1>6, <1>8
<1>10. Becomes(m)
  BY <1>4, <1>6, <1>7, <1>8, <1>9, LessKnown
<1> QED
  BY <1>10 DEF Leads

LEMMA IsLessStep ==
    ASSUME NEW n, Ready(n), IsLess
    PROVE  Leads(n)
<1>1. Cmd.op = "less"
  BY DEF IsLess, Here
<1>2. PICK a, b : a = Cmd.of /\ b = Cmd.at
  OBVIOUS
<1>3. a \in DOMAIN cur /\ b \in DOMAIN cur
  <2>1. Sound(leaf, n, Cmd) /\ CursorsKnown(n)
    BY ReadyNote
  <2>2. {Cmd.of, Cmd.at} \subseteq DOMAIN n.at
    BY <1>1, <2>1, SoundCursors
  <2> QED
    BY <1>2, <2>1, <2>2 DEF CursorsKnown
<1>4. cur[a].n \in Nat /\ cur[b].n \in Nat
  BY <1>3, ReadyNote DEF Typed, CurTyped
<1>5. CASE ~(cur[a].n < cur[b].n)
  BY <1>1, <1>2, <1>5, FailsStep, CursorResults DEF IsLess
<1>6. CASE cur[a].n < cur[b].n
  <2>1. PICK q : q = <<a, b>>
    OBVIOUS
  <2>2. PICK k : k = Passed(n)
    OBVIOUS
  <2>3. PICK m \in Results(n, Cmd) : m = [k EXCEPT !.le = @ \cup {q}]
    BY <1>1, <1>2, <2>1, <2>2, CursorResults
  <2>4. /\ DOMAIN k = NoteFields /\ k.pc = n.pc + 1 /\ \A x \in NoteFields \ {"pc"} : k[x] = n[x]
    BY <2>2, ReadyNote, PassedFields
  <2>5. /\ m.pc = n.pc + 1 /\ m.out = n.out /\ m.held = n.held /\ m.exc = n.exc /\ m.arg = n.arg
        /\ m.via = n.via /\ m.fresh = n.fresh /\ m.at = n.at
        /\ m.within = n.within /\ m.le = n.le \cup {q}
    BY <2>3, <2>4 DEF NoteFields
  <2>6. BasesKnown(n) /\ CursorsKnown(n)
    BY ReadyNote
  <2>7. BasesKnown(m)
    BY <2>5, <2>6 DEF BasesKnown
  <2>8. q[1] \in DOMAIN cur /\ q[2] \in DOMAIN cur /\ cur[q[1]].n <= cur[q[2]].n
    BY <1>3, <1>4, <1>6, <2>1
  <2>9. \A p \in m.le : p \in n.le \/ p = q
    BY <2>5
  <2>10. \A p \in m.le : p[1] \in DOMAIN cur /\ p[2] \in DOMAIN cur /\ cur[p[1]].n <= cur[p[2]].n
    BY <2>6, <2>8, <2>9 DEF CursorsKnown
  <2>11. CursorsKnown(m)
    BY <2>5, <2>6, <2>10 DEF CursorsKnown
  <2>12. Goes /\ UNCHANGED <<base, cur, held, exc, arg>>
    BY <1>2, <1>6 DEF IsLess, Stays
  <2>13. Becomes(m)
    BY <2>5, <2>7, <2>11, <2>12, ReadyNote, StaysKnown
  <2> QED
    BY <2>13 DEF Leads
<1> QED
  BY <1>5, <1>6

LEMMA GoesBackStep ==
    ASSUME NEW n, Ready(n), GoesBack
    PROVE  Leads(n)
<1>1. Cmd.op = "before"
  BY DEF GoesBack, Here
<1>2. CASE Fails(FALSE)
  BY <1>1, <1>2, FailsStep, CursorResults
<1>3. ASSUME NEW x \in 0..MaxLen, x < cur[Cmd.of].n, SetCur(Cmd.of, x)
      PROVE  Leads(n)
  <2>1. PICK k : k = Cmd.of
    OBVIOUS
  <2>2. k \in DOMAIN cur
    <3>1. Sound(leaf, n, Cmd) /\ CursorsKnown(n)
      BY ReadyNote
    <3>2. Cmd.of \in DOMAIN n.at
      BY <1>1, <3>1, SoundCursors
    <3> QED
      BY <2>1, <3>1, <3>2 DEF CursorsKnown
  <2>3. cur[k].n \in Nat
    BY <2>2, ReadyNote DEF Typed, CurTyped
  <2>4. PICK m \in Results(n, Cmd) : m = Lowered(Passed(n), k)
    BY <1>1, <2>1, CursorResults
  <2>5. /\ m.pc = n.pc + 1 /\ m.out = n.out /\ m.held = n.held /\ m.exc = n.exc /\ m.arg = n.arg
        /\ m.via = n.via /\ m.fresh = n.fresh /\ m.at = n.at
        /\ m.within = n.within /\ m.le = {p \in n.le : p[2] # k}
    BY <2>4, ReadyNote, PassedFields, LoweredFields DEF NoteFields
  <2>6. x <= cur[k].n /\ SetCur(k, x)
    BY <1>3, <2>1, <2>3
  <2>7. Becomes(m)
    BY <2>2, <2>5, <2>6, LessKnown
  <2> QED
    BY <2>7 DEF Leads
<1> QED
  BY <1>2, <1>3 DEF GoesBack

(* A branch: only the next step is another.                                 *)
LEMMA TurnsKnown ==
    ASSUME NEW n, NEW q, NEW m, Ready(n), m = [n EXCEPT !.pc = q], pc' = q,
           UNCHANGED <<leaf, code, base, cur, held, exc, arg, out>>
    PROVE  Becomes(m)
<1>1. /\ m.pc = q /\ m.out = n.out /\ m.held = n.held /\ m.exc = n.exc /\ m.arg = n.arg
      /\ m.via = n.via /\ m.at = n.at /\ m.fresh = n.fresh /\ m.within = n.within /\ m.le = n.le
  BY ReadyNote DEF NoteFields
<1>2. BasesKnown(m) /\ CursorsKnown(m)
  BY <1>1, SameKnown
<1>3. BasesKnown(m)' /\ CursorsKnown(m)'
  BY <1>2 DEF BasesKnown, CursorsKnown
<1>4. Typed'
  BY ReadyNote DEF Typed, BaseTyped, CurTyped
<1> QED
  BY <1>1, <1>3, <1>4, ReadyNote, MovesKnown

LEMMA JumpsStep ==
    ASSUME NEW n, Ready(n), Jumps
    PROVE  Leads(n)
<1>1. PICK d \in Cmd.by : pc' = pc + d /\ UNCHANGED <<leaf, code, base, cur, held, exc, arg, out>>
  BY DEF Jumps
<1>2. PICK q : q = n.pc + d
  OBVIOUS
<1>3. PICK m \in Results(n, Cmd) : m = [n EXCEPT !.pc = q]
  BY <1>2, CursorResults DEF Jumps, Here
<1>4. Becomes(m)
  BY <1>1, <1>2, <1>3, ReadyNote, TurnsKnown
<1> QED
  BY <1>4 DEF Leads

LEMMA LoopsStep ==
    ASSUME NEW n, Ready(n), Loops
    PROVE  Leads(n)
<1>1. pc' = pc - Cmd.skip /\ UNCHANGED <<leaf, code, base, cur, held, exc, arg, out>>
  BY DEF Loops
<1>2. PICK q : q = n.pc - Cmd.skip
  OBVIOUS
<1>3. PICK m \in Results(n, Cmd) : m = [n EXCEPT !.pc = q]
  BY <1>2, CursorResults DEF Loops, Here
<1>4. Becomes(m)
  BY <1>1, <1>2, <1>3, ReadyNote, TurnsKnown
<1> QED
  BY <1>4 DEF Leads

-----------------------------------------------------------------------------
(* The inductive invariant: no leaf has run yet, or one of the notes of the *)
(* one that runs or ran last is true.                                       *)
IInv ==
    /\ Typed
    /\ Running \/ Bare
    /\ \/ leaf = Idle /\ held = {} /\ exc = "none" /\ out = "value"
       \/ \E f \in DOMAIN Installed : \E name \in DOMAIN Installed[f] :
            /\ leaf = <<f, name>>
            /\ Running => code = Installed[f][name]
            /\ \E n \in Notes(Installed[f][name]) : Known(n)

(* The leaf `name` of f runs, and one of its notes is true.                 *)
Followed(f, name) ==
    /\ leaf = <<f, name>>
    /\ code = Installed[f][name]
    /\ \E n \in Notes(Installed[f][name]) : Known(n)

(* Nothing runs at first.                                                   *)
LEMMA InitIInv == Init => IInv
  BY DEF Init, IInv, Typed, BaseTyped, CurTyped, Bare

(* The leaves agree with their notes, which TLC evaluates for LeafTable.    *)
LEMMA AgreesAt ==
    ASSUME NEW f \in DOMAIN Installed, NEW name \in DOMAIN Installed[f]
    PROVE  Agrees(<<f, name>>, Installed[f][name], Notes(Installed[f][name]))
  BY LeavesAgree DEF AllAgree

LEMMA AgreesSays ==
    ASSUME NEW l, NEW s, NEW N, Agrees(l, s, N)
    PROVE  /\ s \in Seq(Command) /\ Entries \subseteq N
           /\ \A n \in N :
                /\ DOMAIN n = NoteFields /\ n.pc \in Nat \ {0}
                /\ n.out # "running" => Told(l, n)
                /\ n.out = "running" =>
                     /\ After(n, s) \subseteq N
                     /\ n.pc <= Len(s) => Sound(l, n, s[n.pc])
  BY DEF Agrees

(* A true note of the leaf that runs is ready, and its Results are notes.   *)
LEMMA IsReady ==
    ASSUME NEW f \in DOMAIN Installed, NEW name \in DOMAIN Installed[f],
           NEW n \in Notes(Installed[f][name]),
           Typed, leaf = <<f, name>>, code = Installed[f][name], Known(n), More
    PROVE  Ready(n) /\ Results(n, Cmd) \subseteq Notes(Installed[f][name])
<1>1. PICK s, N : s = Installed[f][name] /\ N = Notes(s)
  OBVIOUS
<1>2. Agrees(leaf, s, N)
  BY <1>1, AgreesAt
<1>3. /\ s \in Seq(Command) /\ n \in N /\ DOMAIN n = NoteFields /\ n.pc \in Nat \ {0}
      /\ n.out = "running" => /\ After(n, s) \subseteq N
                              /\ n.pc <= Len(s) => Sound(leaf, n, s[n.pc])
  BY <1>1, <1>2, AgreesSays
<1>4. n.out = "running" /\ pc = n.pc /\ code = s /\ pc <= Len(code)
  BY <1>1 DEF Known, More, Running
<1>5. n.pc \in 1..Len(s) /\ Cmd = s[n.pc]
  BY <1>3, <1>4 DEF Cmd
<1>6. Cmd \in Command
  BY <1>3, <1>5
<1>7. Sound(leaf, n, Cmd)
  BY <1>3, <1>4, <1>5
<1>8. After(n, s) = Results(n, s[n.pc])
  BY <1>3, <1>4, <1>5 DEF After
<1> QED
  BY <1>1, <1>3, <1>4, <1>5, <1>6, <1>7, <1>8 DEF Ready

(* Every step of a leaf but its first and its answer.                       *)
Step ==
  \/ Tests \/ Throws \/ Raises \/ Pends \/ Clears
  \/ Scalars \/ Texts \/ Converts \/ Calls
  \/ Keeps \/ Drops \/ Takes \/ Views \/ Same \/ Uses
  \/ Sizes \/ FitsIn \/ HasRoom \/ Clamps \/ IsLess \/ GoesBack
  \/ Jumps \/ Loops

LEMMA StepLeads ==
    ASSUME NEW n, Ready(n), Step
    PROVE  Leads(n)
  BY TestsStep, ThrowsStep, RaisesStep, PendsStep, ClearsStep, ScalarsStep, TextsStep,
     ConvertsStep, CallsStep, KeepsStep, DropsStep, TakesStep, ViewsStep, SameStep, UsesStep,
     SizesStep, FitsInStep, HasRoomStep, ClampsStep, IsLessStep, GoesBackStep, JumpsStep, LoopsStep
  DEF Step

(* A step takes a leaf that has one left.                                   *)
LEMMA StepMore == Step => More
  BY DEF Step, Tests, Throws, Raises, Pends, Clears, Scalars, Texts, Converts, Calls, Keeps, Drops,
         Takes, Views, Same, Uses, Sizes, FitsIn, HasRoom, Clamps, IsLess, GoesBack, Jumps, Loops, Here

(* The leaf that runs is followed by a true note of its own.                *)
LEMMA RunsFollowed ==
    ASSUME IInv, Running
    PROVE  \E f \in DOMAIN Installed : \E name \in DOMAIN Installed[f] : Followed(f, name)
  BY DEF IInv, Running, Followed

LEMMA ReadyAlways ==
    ASSUME IInv, More
    PROVE  \E n : Ready(n)
<1>1. PICK f \in DOMAIN Installed : \E name \in DOMAIN Installed[f] : Followed(f, name)
  BY RunsFollowed DEF More
<1>2. PICK name \in DOMAIN Installed[f] : Followed(f, name)
  BY <1>1
<1>3. PICK n \in Notes(Installed[f][name]) : Known(n)
  BY <1>2 DEF Followed
<1> QED
  BY <1>2, <1>3, IsReady DEF Followed, IInv

(* A leaf begins with one of its Entries, and ends with an answer that its  *)
(* notes have; every other step leads from note to note.                    *)
LEMMA NextIInv == IInv /\ [Next]_vars => IInv'
<1> SUFFICES ASSUME IInv, [Next]_vars
             PROVE  IInv'
  OBVIOUS
<1>1. ASSUME NEW f \in DOMAIN Installed, NEW name \in DOMAIN Installed[f], Begin(f, name)
      PROVE  IInv'
  <2>1. base = <<>> /\ cur = <<>> /\ pc = 1 /\ arg = "any"
    BY <1>1 DEF IInv, Begin, Bare
  <2>2. /\ leaf' = <<f, name>> /\ code' = Installed[f][name] /\ out' = "running" /\ held' = {}
        /\ exc' \in {"none", "old"} /\ base' = <<>> /\ cur' = <<>> /\ pc' = 1 /\ arg' = "any"
    BY <1>1, <2>1 DEF Begin
  <2>3. PICK n : n = Entry(exc')
    OBVIOUS
  <2>4. n \in Notes(Installed[f][name])
    BY <2>2, <2>3, AgreesAt, AgreesSays DEF Entries
  <2>5. /\ n.pc = 1 /\ n.out = "running" /\ n.held = {} /\ n.exc = exc' /\ n.arg = "any"
        /\ n.via = <<>> /\ n.fresh = {} /\ n.at = <<>> /\ n.within = {} /\ n.le = {}
    BY <2>3 DEF Entry
  <2>6. Typed'
    BY <2>2 DEF Typed, BaseTyped, CurTyped
  <2>7. Known(n)'
    BY <2>2, <2>5 DEF Known, BasesKnown, CursorsKnown
  <2> QED
    BY <2>2, <2>4, <2>6, <2>7 DEF IInv, Running
<1>2. ASSUME Answers
      PROVE  IInv'
  <2>1. Running /\ pc > Len(code) /\ Ends("value") /\ UNCHANGED <<leaf, held, exc>>
    BY <1>2 DEF Answers
  <2>2. PICK f \in DOMAIN Installed : \E name \in DOMAIN Installed[f] : Followed(f, name)
    BY <2>1, RunsFollowed
  <2>3. PICK name \in DOMAIN Installed[f] : Followed(f, name)
    BY <2>2
  <2>4. PICK n \in Notes(Installed[f][name]) : Known(n)
    BY <2>3 DEF Followed
  <2>5. leaf = <<f, name>> /\ code = Installed[f][name]
    BY <2>3 DEF Followed
  <2>6. PICK s, N : s = Installed[f][name] /\ N = Notes(s)
    OBVIOUS
  <2>7. /\ s \in Seq(Command) /\ n \in N /\ DOMAIN n = NoteFields
        /\ n.out = "running" => After(n, s) \subseteq N
    <3>1. Agrees(<<f, name>>, s, N)
      BY <2>6, AgreesAt
    <3> QED
      BY <2>6, <3>1, AgreesSays
  <2>8. n.out = "running" /\ held = n.held /\ exc = n.exc /\ n.pc > Len(s)
    BY <2>1, <2>4, <2>5, <2>6 DEF Known, Running
  <2>9. PICK m : m = Ended(n, "value")
    OBVIOUS
  <2>10. m \in N
    BY <2>7, <2>8, <2>9 DEF After
  <2>11. m.out = "value" /\ m.held = n.held /\ m.exc = n.exc
    BY <2>7, <2>9 DEF Ended, NoteFields
  <2>12. out' = "value" /\ Bare' /\ Typed' /\ held' = held /\ exc' = exc /\ leaf' = leaf
    BY <2>1 DEF Ends, Bare, IInv, Typed, BaseTyped, CurTyped
  <2>13. Known(m)'
    BY <2>8, <2>11, <2>12 DEF Known, Running
  <2> QED
    BY <2>5, <2>6, <2>10, <2>12, <2>13 DEF IInv, Running
<1>3. ASSUME Step
      PROVE  IInv'
  <2>1. More
    BY <1>3, StepMore
  <2>2. PICK f \in DOMAIN Installed : \E name \in DOMAIN Installed[f] : Followed(f, name)
    BY <2>1, RunsFollowed DEF More
  <2>3. PICK name \in DOMAIN Installed[f] : Followed(f, name)
    BY <2>2
  <2>4. PICK n \in Notes(Installed[f][name]) : Known(n)
    BY <2>3 DEF Followed
  <2>5. leaf = <<f, name>> /\ code = Installed[f][name]
    BY <2>3 DEF Followed
  <2>6. Ready(n) /\ Results(n, Cmd) \subseteq Notes(Installed[f][name])
    BY <2>1, <2>5, <2>4, IsReady DEF IInv
  <2>7. PICK m \in Results(n, Cmd) : Becomes(m)
    BY <1>3, <2>6, StepLeads DEF Leads
  <2>8. m \in Notes(Installed[f][name])
    BY <2>6
  <2>9. Typed' /\ (Running \/ Bare)' /\ Known(m)' /\ leaf' = leaf /\ (Running' => code' = code)
    BY <2>7 DEF Becomes
  <2> QED
    BY <2>5, <2>8, <2>9 DEF IInv
<1>4. CASE UNCHANGED vars
  BY <1>4 DEF vars, IInv, Typed, BaseTyped, CurTyped, Running, Bare, Known, BasesKnown, CursorsKnown
<1> QED
  BY <1>1, <1>2, <1>3, <1>4 DEF Next, Step

LEMMA AlwaysIInv == Spec => []IInv
  BY InitIInv, NextIInv, PTL DEF Spec

-----------------------------------------------------------------------------
(* The invariant has what the properties say.                               *)
LEMMA InvBase == IInv => BaseFresh
<1> SUFFICES ASSUME IInv, Here("use"), leaf \notin Reentrant \cup Unkept, NEW b \in Cmd.refs \cap DOMAIN base
             PROVE  base[b].fresh
  BY DEF BaseFresh
<1>1. More /\ Cmd.op = "use"
  BY DEF Here
<1>2. PICK n : Ready(n)
  BY <1>1, ReadyAlways
<1>3. Sound(leaf, n, Cmd) /\ BasesKnown(n)
  BY <1>2, ReadyNote
<1>4. Cmd.refs \cap DOMAIN n.via \subseteq n.fresh
  BY <1>1, <1>3, SoundUse
<1>5. b \in n.fresh
  BY <1>3, <1>4 DEF BasesKnown
<1> QED
  BY <1>3, <1>5 DEF BasesKnown

LEMMA InvPositions == IInv => PositionsInside
<1> SUFFICES ASSUME IInv
             PROVE  PositionsInside
  OBVIOUS
<1>1. ASSUME Here("use"), NEW c \in DOMAIN cur, cur[c].at \in Cmd.refs \cap DOMAIN base
      PROVE  cur[c].n <= End(c)
  <2>1. More /\ Cmd.op = "use"
    BY <1>1 DEF Here
  <2>2. PICK n : Ready(n)
    BY <2>1, ReadyAlways
  <2>3. Sound(leaf, n, Cmd) /\ BasesKnown(n) /\ CursorsKnown(n)
    BY <2>2, ReadyNote
  <2>4. c \in DOMAIN n.at /\ n.at[c] \in Cmd.refs \cap DOMAIN n.via
    BY <1>1, <2>3 DEF BasesKnown, CursorsKnown
  <2>5. c \in n.within
    BY <2>1, <2>3, <2>4, SoundUse
  <2> QED
    BY <2>3, <2>5 DEF CursorsKnown, End
<1>2. ASSUME Here("slice"), leaf \notin Backward
      PROVE  cur[Cmd.of].n <= cur[Cmd.at].n
  <2>1. More /\ Cmd.op = "slice"
    BY <1>2 DEF Here
  <2>2. PICK n : Ready(n)
    BY <2>1, ReadyAlways
  <2>3. Sound(leaf, n, Cmd) /\ CursorsKnown(n)
    BY <2>2, ReadyNote
  <2>4. PICK p : p = <<Cmd.of, Cmd.at>>
    OBVIOUS
  <2>5. p \in n.le
    BY <1>2, <2>1, <2>3, <2>4, SoundUse
  <2>6. cur[p[1]].n <= cur[p[2]].n
    BY <2>3, <2>5 DEF CursorsKnown
  <2> QED
    BY <2>4, <2>6
<1> QED
  BY <1>1, <1>2 DEF PositionsInside

LEMMA InvOutcome == IInv => RefsDropped /\ OutcomeTold
<1> SUFFICES ASSUME IInv
             PROVE  RefsDropped /\ OutcomeTold
  OBVIOUS
<1>1. CASE leaf = Idle /\ held = {} /\ exc = "none" /\ out = "value"
  BY <1>1 DEF RefsDropped, OutcomeTold
<1>2. ASSUME NEW f \in DOMAIN Installed, NEW name \in DOMAIN Installed[f], leaf = <<f, name>>,
             NEW n \in Notes(Installed[f][name]), Known(n)
      PROVE  RefsDropped /\ OutcomeTold
  <2>1. Agrees(leaf, Installed[f][name], Notes(Installed[f][name]))
    BY <1>2, AgreesAt
  <2>2. n.out # "running" => Told(leaf, n)
    BY <2>1, AgreesSays
  <2>3. out = n.out /\ held = n.held /\ exc = n.exc
    BY <1>2 DEF Known
  <2> QED
    BY <2>2, <2>3 DEF Told, RefsDropped, OutcomeTold, Running
<1> QED
  BY <1>1, <1>2 DEF IInv

LEMMA InvType == IInv => TypeOK
<1> SUFFICES ASSUME IInv
             PROVE  TypeOK
  OBVIOUS
<1>1. /\ exc \in {"none", "own", "old"} /\ arg \in {"any", "prim", "text"}
      /\ out \in {"running", "value", "exception"}
  BY DEF IInv, Typed
<1>2. \A b \in DOMAIN base : base[b].len \in 0..MaxLen /\ base[b].fresh \in BOOLEAN
  BY DEF IInv, Typed, BaseTyped
<1>3. \A c \in DOMAIN cur : cur[c].n \in 0..MaxLen + 1
  BY DEF IInv, Typed, CurTyped
<1>4. leaf = Idle \/ leaf[2] \in DOMAIN Installed[leaf[1]]
  BY DEF IInv
<1>5. Running => code = Installed[leaf[1]][leaf[2]]
  BY RunsFollowed DEF Followed
<1>6. pc \in Nat \ {0}
  <2>1. CASE Running
    <3>1. PICK f \in DOMAIN Installed : \E name \in DOMAIN Installed[f] : Followed(f, name)
      BY <2>1, RunsFollowed
    <3>2. PICK name \in DOMAIN Installed[f] : Followed(f, name)
      BY <3>1
    <3>3. PICK n \in Notes(Installed[f][name]) : Known(n)
      BY <3>2 DEF Followed
    <3>4. n.pc \in Nat \ {0}
      BY AgreesAt, AgreesSays
    <3> QED
      BY <2>1, <3>3, <3>4 DEF Known
  <2>2. CASE Bare
    BY <2>2 DEF Bare
  <2> QED
    BY <2>1, <2>2 DEF IInv
<1>7. ASSUME More, Cmd.op \in {"fits", "room", "clamp"}
      PROVE  cur[Cmd.of].at \in DOMAIN base
  BY <1>7, ReadyAlways, Measured
<1> QED
  BY <1>1, <1>2, <1>3, <1>4, <1>5, <1>6, <1>7 DEF TypeOK

(* The types of the machine of leaves.                                      *)
THEOREM LeafTyped == Spec => []TypeOK
  BY AlwaysIInv, InvType, PTL

(* No leaf follows a pointer into memory that JS, or its own clean-up, has  *)
(* taken away, for arrays of every length (arg.c:12-17).                    *)
THEOREM BaseStaysFresh == Spec => []BaseFresh
  BY AlwaysIInv, InvBase, PTL

(* No position that came from JS is past the end of the array of the call,  *)
(* whatever its length (arg.c:3-7).                                         *)
THEOREM PositionsStayInside == Spec => []PositionsInside
  BY AlwaysIInv, InvPositions, PTL

(* A leaf gives back every reference and block on every path out (io.c:935  *)
(* says of the one that does not).                                          *)
THEOREM RefsAreDropped == Spec => []RefsDropped
  BY AlwaysIInv, InvOutcome, PTL

(* A leaf that fails has thrown, one that answers has not (arg.c:32-42).    *)
THEOREM OutcomeIsTold == Spec => []OutcomeTold
  BY AlwaysIInv, InvOutcome, PTL
=============================================================================
