-------------------------------- MODULE Handles --------------------------------
(***************************************************************************)
(* What JS holds of a thing that C keeps open is a number: the slot of an  *)
(* index (pup.c), the slot and the generation in a pin of a git store      *)
(* (git.c), the address of a box of ignore rules (igno.c).  Slots and      *)
(* boxes are given out again; a handle may be kept, used and closed after  *)
(* that, and the pin of a git store that nobody closed is collected late.  *)
(*                                                                         *)
(* External: the engine, which frees a pin some time after the last        *)
(* reference to it, and whether DOGPupOpenAll, ODBOpen, IGNOSetOpen and    *)
(* calloc succeed.                                                         *)
(***************************************************************************)
EXTENDS Naturals, Sequences

CONSTANTS
    Nums,       \* slots and boxes: PUP_MAX_OPEN, GIT_MAX_OPEN, the heap
    Hands,      \* handles that scripts hold at a time
    Things      \* bound: what may be opened in one run, 1 .. n

VARIABLES
    slots,      \* kind -> num -> [thing, gen]: what is open there
    gitGen,     \* JABC_GIT_GEN
    parked,     \* JABC_IGNO_FREE
    hand,       \* handle -> [kind, num, gen, thing, state]
    opened,     \* things opened so far
    reached,    \* the last call: whose handle, and what it worked on
    stale       \* kinds of which a handle was used after its own close

vars == <<slots, gitGen, parked, hand, opened, reached, stale>>

Kinds == {"pup", "git", "igno"}
Nothing == 0
Closed == [thing |-> Nothing, gen |-> 0]
NoHand == [kind |-> "none", num |-> 0, gen |-> 0, thing |-> Nothing, state |-> "none"]
NoCall == [kind |-> "none", own |-> Nothing, at |-> Nothing]

Init ==
    /\ slots = [k \in Kinds |-> [n \in Nums |-> Closed]]
    /\ gitGen = 0 /\ parked = <<>> /\ opened = 0 /\ stale = {}
    /\ hand = [h \in Hands |-> NoHand]
    /\ reached = NoCall

Live(k, n) == slots[k][n].thing # Nothing
Free(k) == {n \in Nums : ~Live(k, n)}
Held(h) == hand[h].state \in {"open", "closed"}
Parked == {parked[i] : i \in 1 .. Len(parked)}
Lowest(S) == {n \in S : \A m \in S : n <= m}

-----------------------------------------------------------------------------
\* (mutant) the slot is looked at, not its incarnation.
ReachesLive(h) == Live(hand[h].kind, hand[h].num)

\* JABCPupSlot asks for a live slot, JABCGitOf for its generation as well, and
\* JABCignoHandle for a number: the box of a closed one is empty.
Reaches(h) ==
    /\ Live(hand[h].kind, hand[h].num)
    /\ hand[h].kind = "git" => slots["git"][hand[h].num].gen = hand[h].gen

Emptied(h) == IF Reaches(h) THEN [slots EXCEPT ![hand[h].kind][hand[h].num] = Closed] ELSE slots

\* (mutant) a box that is closed already is parked again.
ShutAgain(h) ==
    /\ slots' = Emptied(h)
    /\ parked' = IF hand[h].kind = "igno" THEN <<hand[h].num>> \o parked ELSE parked

\* What the handle has open, if anything, is closed; a box is parked.
Shut(h) ==
    /\ slots' = Emptied(h)
    /\ parked' = IF hand[h].kind = "igno" /\ Reaches(h) THEN <<hand[h].num>> \o parked ELSE parked

\* (mutant) the pin is not what keeps the slot.
FreesNever(h) == FALSE

\* JABCGitPinFree: the slot is still the one of this pin.
Frees(h) == hand[h].state = "dropped" /\ Reaches(h)

-----------------------------------------------------------------------------
\* pup.c takes the first slot that is not live, git.c likewise, igno.c the box
\* parked last or a new one.  With none left the leaf throws.
Places(k) ==
    IF k # "igno" THEN Lowest(Free(k))
    ELSE IF parked # <<>> THEN {Head(parked)} ELSE Free(k) \ Parked

Open(h, k) ==
    /\ hand[h] = NoHand /\ opened < Things
    /\ opened' = opened + 1
    /\ gitGen' = IF k = "git" THEN gitGen + 1 ELSE gitGen
    /\ \E n \in Places(k) :
          /\ slots' = [slots EXCEPT ![k][n] = [thing |-> opened', gen |-> gitGen']]
          /\ hand' = [hand EXCEPT ![h] = [kind |-> k, num |-> n, gen |-> gitGen',
                                          thing |-> opened', state |-> "open"]]
    /\ parked' = IF k = "igno" /\ parked # <<>> THEN Tail(parked) ELSE parked
    /\ UNCHANGED <<reached, stale>>

\* Nothing to open: no handle, and a new box is parked; or no memory for the
\* pin of a git store that was open already.
OpenFails ==
    /\ \/ /\ parked = <<>> /\ \E n \in Lowest(Free("igno")) : parked' = <<n>>
          /\ UNCHANGED <<gitGen, opened>>
       \/ /\ Free("git") # {} /\ opened < Things
          /\ gitGen' = gitGen + 1 /\ opened' = opened + 1
          /\ UNCHANGED parked
    /\ UNCHANGED <<slots, hand, reached, stale>>

Calls(h) ==
    /\ reached' = [kind |-> hand[h].kind, own |-> hand[h].thing,
                   at |-> IF Reaches(h) THEN slots[hand[h].kind][hand[h].num].thing ELSE Nothing]
    /\ stale' = IF hand[h].state = "closed" THEN stale \cup {hand[h].kind} ELSE stale

\* put, get, range of an index; getHex, getSafe, getTreeDiff; _igno_match.
Use(h) ==
    /\ Held(h) /\ Calls(h)
    /\ UNCHANGED <<slots, gitGen, parked, hand, opened>>

\* idx.close keeps _h; _git_close and _igno_close leave the number to JS.
Close(h) ==
    /\ Held(h) /\ Calls(h) /\ Shut(h)
    /\ hand' = [hand EXCEPT ![h].state = "closed"]
    /\ UNCHANGED <<gitGen, opened>>

\* The script forgets a handle.  A number is gone; a pin will be collected.
Drop(h) ==
    /\ Held(h)
    /\ hand' = [hand EXCEPT ![h] = IF @.kind = "git" THEN [@ EXCEPT !.state = "dropped"]
                                                     ELSE NoHand]
    /\ UNCHANGED <<slots, gitGen, parked, opened, reached, stale>>

PinFree(h) ==
    /\ hand[h].state = "dropped"
    /\ slots' = IF Frees(h) THEN Emptied(h) ELSE slots
    /\ reached' = [kind |-> "git", own |-> hand[h].thing,
                   at |-> IF Frees(h) THEN slots["git"][hand[h].num].thing ELSE Nothing]
    /\ hand' = [hand EXCEPT ![h] = NoHand]
    /\ UNCHANGED <<gitGen, parked, opened, stale>>

Next ==
    \/ OpenFails
    \/ \E h \in Hands : \/ \E k \in Kinds : Open(h, k)
                        \/ Use(h) \/ Close(h) \/ Drop(h) \/ PinFree(h)

Spec == Init /\ [][Next]_vars

-----------------------------------------------------------------------------
(* A call works on what its own handle opened or on nothing, and so does    *)
(* the collector: always for git (git.c: "The generation guard keeps a      *)
(* stale husk off a slot that has been reopened"), and for the others as    *)
(* long as no script uses or closes a handle it has closed.                 *)
OwnCalls ==
    \/ reached.at \in {reached.own, Nothing}
    \/ reached.kind \in stale \ {"git"}

(* What is given out is neither lost nor given out twice: a git store that  *)
(* is live is in a pin that is held or that the collector still has; a box  *)
(* of ignore rules is parked once, and never while it is open (igno.c:      *)
(* "that is what makes a double-close safe").                               *)
SlotsHeld ==
    /\ \A n \in Nums : Live("git", n) =>
          \E h \in Hands : hand[h].kind = "git" /\ hand[h].num = n /\ Reaches(h)
    /\ \A i, j \in 1 .. Len(parked) : parked[i] = parked[j] => i = j
    /\ \A n \in Parked : ~Live("igno", n)
=============================================================================
