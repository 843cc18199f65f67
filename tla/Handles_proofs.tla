---------------------------- MODULE Handles_proofs ----------------------------
(***************************************************************************)
(* Proofs about Handles, for every number of slots, of handles and of      *)
(* openings.                                                               *)
(***************************************************************************)
EXTENDS Handles, SequenceTheorems, TLAPS

Handle == [kind : Kinds \cup {"none"}, num : Nums \cup {0}, gen : Nat, thing : Nat,
           state : {"none", "open", "closed", "dropped"}]

(* The types.  Only a pin of git is ever left to the collector.             *)
Typed ==
    /\ slots \in [Kinds -> [Nums -> [thing : Nat, gen : Nat]]]
    /\ hand \in [Hands -> Handle]
    /\ gitGen \in Nat /\ opened \in Nat /\ parked \in Seq(Nums)
    /\ \A h \in Hands :
          /\ hand[h].state # "none" => hand[h].kind \in Kinds /\ hand[h].num \in Nums
          /\ hand[h].state = "none" => hand[h] = NoHand
          /\ hand[h].state = "dropped" => hand[h].kind = "git"

(* What was opened is numbered by the counters, and no two handles are of   *)
(* one thing.                                                               *)
Numbered ==
    /\ \A k \in Kinds, n \in Nums : slots[k][n].thing <= opened
    /\ \A n \in Nums : slots["git"][n].gen <= gitGen
    /\ \A h \in Hands : hand[h].thing <= opened /\ hand[h].gen <= gitGen

Distinct ==
    /\ \A h \in Hands : hand[h].state # "none" => hand[h].thing # Nothing
    /\ \A g, h \in Hands : g # h /\ hand[g].thing = hand[h].thing => hand[g].thing = Nothing

(* A generation names the store: whatever slot has it has the pin's store.  *)
SameGen ==
    \A h \in Hands, n \in Nums :
        hand[h].kind = "git" /\ Live("git", n) /\ slots["git"][n].gen = hand[h].gen
            => slots["git"][n].thing = hand[h].thing

(* The slot of an index or a box is its handle's, unless a handle of the    *)
(* kind was used after its own close.                                       *)
OwnSlot ==
    \A h \in Hands :
        hand[h].state = "open" /\ hand[h].kind \notin stale \cup {"git"}
            => slots[hand[h].kind][hand[h].num].thing = hand[h].thing

HInv == Typed /\ Numbered /\ Distinct /\ SameGen /\ OwnSlot /\ SlotsHeld /\ OwnCalls

-----------------------------------------------------------------------------
LEMMA InitInv == Init => HInv
  BY DEF Init, HInv, Typed, Numbered, Distinct, SameGen, OwnSlot, SlotsHeld, OwnCalls,
         Handle, Kinds, Closed, NoHand, NoCall, Nothing, Live, Parked

(* Where Open may put a thing: a slot that is not live; a box that is       *)
(* neither open nor, afterwards, parked.                                    *)
LEMMA PlacesFree ==
    ASSUME HInv, NEW k \in Kinds, NEW n \in Places(k)
    PROVE  n \in Nums /\ ~Live(k, n)
  <1>1. CASE k # "igno"
    BY <1>1 DEF Places, Lowest, Free
  <1>2. CASE k = "igno" /\ parked = <<>>
    BY <1>2 DEF Places, Free
  <1>3. CASE k = "igno" /\ parked # <<>>
    <2>1. n = parked[1] /\ 1 \in 1 .. Len(parked)
      BY <1>3 DEF Places, HInv, Typed
    <2> QED BY <2>1, <1>3 DEF HInv, Typed, SlotsHeld, Parked
  <1> QED BY <1>1, <1>2, <1>3

(* A sequence of boxes that has each once, without its head and with one    *)
(* more in front.                                                           *)
Once(s) == s \in Seq(Nums) /\ \A i, j \in 1 .. Len(s) : s[i] = s[j] => i = j

LEMMA TailOnce ==
    ASSUME NEW s, Once(s), s # <<>>
    PROVE  /\ Once(Tail(s)) /\ Head(s) \in Nums
           /\ \A i \in 1 .. Len(Tail(s)) : Tail(s)[i] # Head(s)
           /\ \A i \in 1 .. Len(Tail(s)) : \E j \in 1 .. Len(s) : Tail(s)[i] = s[j]
  <1>1. /\ s \in Seq(Nums) /\ Len(s) \in Nat \ {0} /\ Tail(s) \in Seq(Nums)
        /\ Len(Tail(s)) = Len(s) - 1 /\ Head(s) = s[1] /\ s[1] \in Nums
        /\ \A i \in 1 .. Len(Tail(s)) : Tail(s)[i] = s[i + 1] /\ i + 1 \in 1 .. Len(s)
    BY DEF Once
  <1> QED BY <1>1 DEF Once

LEMMA ConsOnce ==
    ASSUME NEW s, Once(s), NEW x \in Nums, \A i \in 1 .. Len(s) : s[i] # x
    PROVE  /\ Once(<<x>> \o s)
           /\ \A i \in 1 .. Len(<<x>> \o s) :
                 (<<x>> \o s)[i] = x \/ \E j \in 1 .. Len(s) : (<<x>> \o s)[i] = s[j]
  <1> DEFINE t == <<x>> \o s
  <1>1. /\ s \in Seq(Nums) /\ t \in Seq(Nums) /\ Len(s) \in Nat /\ Len(t) = Len(s) + 1
        /\ t[1] = x
        /\ \A i \in 1 .. Len(t) : i # 1 => t[i] = s[i - 1] /\ i - 1 \in 1 .. Len(s)
    BY DEF Once
  <1> HIDE DEF t
  <1>2. ASSUME NEW i \in 1 .. Len(t), NEW j \in 1 .. Len(t), t[i] = t[j]
        PROVE  i = j
    <2>1. CASE i = 1 \/ j = 1
      BY <1>1, <1>2, <2>1
    <2>2. CASE i # 1 /\ j # 1
      <3>1. s[i - 1] = s[j - 1] /\ i - 1 \in 1 .. Len(s) /\ j - 1 \in 1 .. Len(s)
        BY <1>1, <1>2, <2>2
      <3>2. i - 1 = j - 1
        BY <3>1 DEF Once
      <3> QED BY <3>2
    <2> QED BY <2>1, <2>2
  <1>3. \A i \in 1 .. Len(t) : t[i] = x \/ \E j \in 1 .. Len(s) : t[i] = s[j]
    BY <1>1
  <1> QED BY <1>1, <1>2, <1>3 DEF t, Once

LEMMA ParkedOnce ==
    ASSUME HInv
    PROVE  Once(parked) /\ \A i \in 1 .. Len(parked) : ~Live("igno", parked[i])
  BY DEF HInv, Typed, SlotsHeld, Once, Parked

-----------------------------------------------------------------------------
(* An opening: the numbers it takes are new.                                *)
LEMMA OpenInv ==
    ASSUME HInv, NEW h \in Hands, NEW k \in Kinds, Open(h, k)
    PROVE  HInv'
  <1> USE DEF Nothing
  <1>1. PICK n \in Places(k) :
          /\ slots' = [slots EXCEPT ![k][n] = [thing |-> opened', gen |-> gitGen']]
          /\ hand' = [hand EXCEPT ![h] = [kind |-> k, num |-> n, gen |-> gitGen',
                                          thing |-> opened', state |-> "open"]]
    BY DEF Open
  <1>2. n \in Nums /\ ~Live(k, n)
    BY PlacesFree
  <1>3. /\ opened' = opened + 1 /\ gitGen' \in Nat /\ gitGen <= gitGen'
        /\ k = "git" => gitGen' = gitGen + 1
        /\ opened \in Nat /\ gitGen \in Nat
        /\ hand[h] = NoHand /\ stale' = stale /\ reached' = reached
    BY DEF Open, HInv, Typed
  <1>4. /\ slots \in [Kinds -> [Nums -> [thing : Nat, gen : Nat]]]
        /\ slots' \in [Kinds -> [Nums -> [thing : Nat, gen : Nat]]]
        /\ slots'[k][n] = [thing |-> opened + 1, gen |-> gitGen']
        /\ \A l \in Kinds, m \in Nums : l # k \/ m # n => slots'[l][m] = slots[l][m]
    BY <1>1, <1>2, <1>3 DEF HInv, Typed
  <1>5. /\ hand \in [Hands -> Handle] /\ hand' \in [Hands -> Handle]
        /\ hand'[h] = [kind |-> k, num |-> n, gen |-> gitGen', thing |-> opened + 1,
                       state |-> "open"]
        /\ \A g \in Hands : g # h => hand'[g] = hand[g]
    BY <1>1, <1>2, <1>3 DEF HInv, Typed, Handle
  <1>6. /\ Once(parked') /\ \A i \in 1 .. Len(parked') : ~Live("igno", parked'[i])
        /\ k = "igno" => \A i \in 1 .. Len(parked') : parked'[i] # n
    <2>1. CASE k = "igno" /\ parked # <<>>
      <3>1. parked' = Tail(parked) /\ n = Head(parked)
        BY <1>1, <2>1 DEF Open, Places
      <3>2. Once(Tail(parked))
        BY <2>1, ParkedOnce, TailOnce
      <3>3. Once(parked')
        BY <3>1, <3>2 DEF Once
      <3> QED BY <2>1, <3>1, <3>3, ParkedOnce, TailOnce
    <2>2. CASE k = "igno" /\ parked = <<>>
      <3>1. parked' = parked
        BY <2>2 DEF Open
      <3> QED BY <2>2, <3>1, ParkedOnce DEF Once
    <2>3. CASE k # "igno"
      <3>1. parked' = parked
        BY <2>3 DEF Open
      <3> QED BY <2>3, <3>1, ParkedOnce DEF Once
    <2> QED BY <2>1, <2>2, <2>3
  <1> HIDE DEF Nothing
  <1>7. Typed'
    <2>1. ASSUME NEW g \in Hands
          PROVE  /\ hand'[g].state # "none" => hand'[g].kind \in Kinds /\ hand'[g].num \in Nums
                 /\ hand'[g].state = "none" => hand'[g] = NoHand
                 /\ hand'[g].state = "dropped" => hand'[g].kind = "git"
      <3>1. CASE g = h
        BY <3>1, <1>2, <1>5
      <3>2. CASE g # h
        BY <3>2, <1>5 DEF HInv, Typed
      <3> QED BY <3>1, <3>2
    <2> QED BY <2>1, <1>3, <1>4, <1>5, <1>6 DEF Typed, Once
  <1>8. Numbered'
    <2>1. ASSUME NEW l \in Kinds, NEW m \in Nums
          PROVE  slots'[l][m].thing <= opened'
      BY <1>2, <1>3, <1>4 DEF HInv, Numbered
    <2>2. ASSUME NEW m \in Nums
          PROVE  slots'["git"][m].gen <= gitGen'
      BY <1>2, <1>3, <1>4 DEF HInv, Numbered, Kinds
    <2>3. ASSUME NEW g \in Hands
          PROVE  hand'[g].thing <= opened' /\ hand'[g].gen <= gitGen'
      <3>1. CASE g = h
        BY <3>1, <1>3, <1>5
      <3>2. CASE g # h
        BY <3>2, <1>3, <1>5 DEF HInv, Numbered, Handle
      <3> QED BY <3>1, <3>2
    <2> QED BY <2>1, <2>2, <2>3 DEF Numbered
  <1>9. Distinct'
    <2>1. ASSUME NEW g \in Hands
          PROVE  /\ g # h => hand[g].thing <= opened /\ hand[g].thing \in Nat
                 /\ hand'[g].state # "none" => hand'[g].thing # Nothing
      BY <1>3, <1>5 DEF HInv, Numbered, Distinct, Handle, Nothing
    <2>2. ASSUME NEW f \in Hands, NEW g \in Hands, f # g, hand'[f].thing = hand'[g].thing
          PROVE  hand'[f].thing = Nothing
      BY <2>1, <2>2, <1>3, <1>5 DEF HInv, Distinct
    <2> QED BY <2>1, <2>2 DEF Distinct
  <1>10. SameGen'
    <2>1. ASSUME NEW g \in Hands, NEW m \in Nums,
                 hand'[g].kind = "git", Live("git", m)', slots'["git"][m].gen = hand'[g].gen
          PROVE  slots'["git"][m].thing = hand'[g].thing
      <3>1. /\ slots["git"][m].gen <= gitGen /\ slots["git"][m].gen \in Nat
            /\ hand[g].gen <= gitGen /\ hand[g].gen \in Nat
        BY <1>4, <1>5 DEF HInv, Numbered, Handle, Kinds
      <3>2. CASE k = "git" /\ g = h /\ m = n
        BY <3>2, <1>4, <1>5
      <3>3. CASE k = "git" /\ g = h /\ m # n
        BY <3>3, <2>1, <3>1, <1>3, <1>4, <1>5
      <3>4. CASE k = "git" /\ g # h /\ m = n
        BY <3>4, <2>1, <3>1, <1>3, <1>4, <1>5
      <3>5. CASE g # h /\ (k # "git" \/ m # n)
        <4>1. hand'[g] = hand[g] /\ slots'["git"][m] = slots["git"][m]
          BY <3>5, <1>4, <1>5 DEF Kinds
        <4> QED BY <4>1, <2>1 DEF HInv, SameGen, Live
      <3>6. CASE k # "git" /\ g = h
        BY <3>6, <2>1, <1>5
      <3> QED BY <3>2, <3>3, <3>4, <3>5, <3>6
    <2> QED BY <2>1 DEF SameGen
  <1>11. OwnSlot'
    <2>1. ASSUME NEW g \in Hands, hand'[g].state = "open",
                 hand'[g].kind \notin stale' \cup {"git"}
          PROVE  slots'[hand'[g].kind][hand'[g].num].thing = hand'[g].thing
      <3>1. CASE g = h
        BY <3>1, <1>4, <1>5
      <3>2. CASE g # h
        <4>1. /\ hand'[g] = hand[g] /\ hand[g].kind \in Kinds /\ hand[g].num \in Nums
              /\ slots[hand[g].kind][hand[g].num].thing = hand[g].thing
              /\ hand[g].thing # Nothing
          BY <3>2, <2>1, <1>3, <1>5 DEF HInv, Typed, OwnSlot, Distinct
        <4>2. hand[g].kind # k \/ hand[g].num # n
          BY <4>1, <1>2 DEF Live
        <4> QED BY <4>1, <4>2, <1>4
      <3> QED BY <3>1, <3>2
    <2> QED BY <2>1 DEF OwnSlot
  <1>12. SlotsHeld'
    <2>1. ASSUME NEW m \in Nums, Live("git", m)'
          PROVE  \E g \in Hands : hand'[g].kind = "git" /\ hand'[g].num = m /\ Reaches(g)'
      <3>1. CASE k = "git" /\ m = n
        <4>1. hand'[h].kind = "git" /\ hand'[h].num = m /\ Reaches(h)'
          BY <2>1, <3>1, <1>4, <1>5 DEF Reaches, Live
        <4> QED BY <4>1
      <3>2. CASE ~(k = "git" /\ m = n)
        <4>1. Live("git", m)
          BY <2>1, <3>2, <1>4 DEF Live, Kinds
        <4>2. PICK g \in Hands : hand[g].kind = "git" /\ hand[g].num = m /\ Reaches(g)
          BY <4>1 DEF HInv, SlotsHeld
        <4>3. g # h
          BY <4>2, <1>3 DEF NoHand
        <4>4. hand'[g].kind = "git" /\ hand'[g].num = m /\ Reaches(g)'
          BY <4>2, <4>3, <3>2, <1>4, <1>5 DEF Reaches, Live, Kinds
        <4> QED BY <4>4
      <3> QED BY <3>1, <3>2
    <2>2. ASSUME NEW i \in 1 .. Len(parked')
          PROVE  slots'["igno"][parked'[i]].thing = Nothing
      <3>1. parked'[i] \in Nums
        BY <1>6 DEF Once
      <3> QED BY <3>1, <1>4, <1>6 DEF Live, Kinds
    <2>3. \A m \in Parked' : ~Live("igno", m)'
      BY <2>2 DEF Parked, Live
    <2> QED BY <2>1, <2>3, <1>6 DEF SlotsHeld, Once
  <1>13. OwnCalls'
    BY <1>3 DEF HInv, OwnCalls
  <1> QED BY <1>7, <1>8, <1>9, <1>10, <1>11, <1>12, <1>13 DEF HInv

(* A new box that nothing is put in is parked, and a generation that        *)
(* nothing has is spent.                                                    *)
LEMMA OpenFailsInv == ASSUME HInv, OpenFails PROVE HInv'
  <1>1. /\ UNCHANGED <<slots, hand, reached, stale>>
        /\ opened' \in Nat /\ opened <= opened' /\ gitGen' \in Nat /\ gitGen <= gitGen'
    BY DEF OpenFails, HInv, Typed
  <1>2. \/ UNCHANGED parked
        \/ \E n \in Nums : parked' = <<n>> /\ ~Live("igno", n)
    BY DEF OpenFails, Lowest, Free
  <1>3. Once(parked') /\ \A i \in 1 .. Len(parked') : ~Live("igno", parked'[i])
    <2>1. CASE UNCHANGED parked
      BY <2>1, ParkedOnce DEF Once
    <2>2. ASSUME NEW n \in Nums, parked' = <<n>>, ~Live("igno", n)
          PROVE  Once(parked') /\ \A i \in 1 .. Len(parked') : ~Live("igno", parked'[i])
      BY <2>2 DEF Once
    <2> QED BY <2>1, <2>2, <1>2
  <1>4. Typed' /\ Numbered'
    <2>1. Typed'
      BY <1>1, <1>3 DEF HInv, Typed, Once
    <2>2. Numbered'
      <3>1. /\ \A k \in Kinds, n \in Nums : slots[k][n].thing \in Nat
            /\ \A n \in Nums : slots["git"][n].gen \in Nat
            /\ \A h \in Hands : hand[h].thing \in Nat /\ hand[h].gen \in Nat
            /\ opened \in Nat /\ gitGen \in Nat
        BY DEF HInv, Typed, Handle, Kinds
      <3> QED BY <1>1, <3>1 DEF HInv, Numbered
    <2> QED BY <2>1, <2>2
  <1>5. Distinct' /\ SameGen' /\ OwnSlot' /\ OwnCalls'
    BY <1>1 DEF HInv, Distinct, SameGen, OwnSlot, OwnCalls, Live
  <1>6. SlotsHeld'
    BY <1>1, <1>3 DEF HInv, SlotsHeld, Reaches, Live, Parked, Once
  <1> QED BY <1>4, <1>5, <1>6 DEF HInv

-----------------------------------------------------------------------------
(* What a call reaches is what the handle opened, or else its number was    *)
(* given out again to a handle that a script uses after its close.          *)
LEMMA CallsOwn ==
    ASSUME HInv, NEW h \in Hands, Held(h), Calls(h)
    PROVE  OwnCalls' /\ stale \subseteq stale'
  <1>1. hand[h].kind \in Kinds /\ hand[h].num \in Nums
    BY DEF HInv, Typed, Held
  <1>2. reached' = [kind |-> hand[h].kind, own |-> hand[h].thing,
                    at |-> IF Reaches(h) THEN slots[hand[h].kind][hand[h].num].thing
                                         ELSE Nothing]
    BY DEF Calls
  <1>3. CASE hand[h].kind = "git"
    BY <1>1, <1>2, <1>3 DEF HInv, SameGen, OwnCalls, Reaches, Calls
  <1>4. CASE hand[h].kind # "git" /\ hand[h].state = "closed"
    BY <1>1, <1>2, <1>4 DEF OwnCalls, Calls
  <1>5. CASE hand[h].kind # "git" /\ hand[h].state = "open"
    BY <1>1, <1>2, <1>5 DEF HInv, OwnSlot, OwnCalls, Calls
  <1> QED BY <1>3, <1>4, <1>5 DEF Held, Calls

LEMMA UseInv == ASSUME HInv, NEW h \in Hands, Use(h) PROVE HInv'
  <1>1. OwnCalls' /\ stale \subseteq stale'
    BY CallsOwn DEF Use
  <1>2. UNCHANGED <<slots, gitGen, parked, hand, opened>>
    BY DEF Use
  <1>3. Typed' /\ Numbered' /\ Distinct'
    BY <1>2 DEF HInv, Typed, Numbered, Distinct
  <1>4. SameGen' /\ SlotsHeld'
    BY <1>2 DEF HInv, SameGen, SlotsHeld, Live, Reaches, Parked
  <1>5. OwnSlot'
    BY <1>1, <1>2 DEF HInv, OwnSlot
  <1> QED BY <1>1, <1>3, <1>4, <1>5 DEF HInv

-----------------------------------------------------------------------------
(* What closing or collecting the pin of h does: its own slot is emptied,   *)
(* or none; no other handle that is entitled to its slot loses it.          *)
LEMMA EmptiedSlots ==
    ASSUME HInv, NEW h \in Hands, Held(h) \/ hand[h].state = "dropped"
    PROVE  LET s == Emptied(h) IN
           /\ s \in [Kinds -> [Nums -> [thing : Nat, gen : Nat]]]
           /\ \A k \in Kinds, n \in Nums :
                 \/ s[k][n] = slots[k][n]
                 \/ s[k][n] = Closed /\ Reaches(h) /\ k = hand[h].kind /\ n = hand[h].num
           /\ Reaches(h) => s[hand[h].kind][hand[h].num] = Closed
  <1>1. hand[h].kind \in Kinds /\ hand[h].num \in Nums
    BY DEF HInv, Typed, Held
  <1>2. slots \in [Kinds -> [Nums -> [thing : Nat, gen : Nat]]]
    BY DEF HInv, Typed
  <1>3. Closed \in [thing : Nat, gen : Nat]
    BY DEF Closed, Nothing
  <1>4. CASE Reaches(h)
    BY <1>1, <1>2, <1>3, <1>4 DEF Emptied
  <1>5. CASE ~Reaches(h)
    BY <1>2, <1>5 DEF Emptied
  <1> QED BY <1>4, <1>5

LEMMA ClosedLeaves ==
    ASSUME HInv, NEW h \in Hands, Held(h) \/ hand[h].state = "dropped",
           slots' = Emptied(h), UNCHANGED <<gitGen, opened>>
    PROVE  /\ slots' \in [Kinds -> [Nums -> [thing : Nat, gen : Nat]]]
           /\ \A k \in Kinds, n \in Nums : slots'[k][n].thing <= opened'
           /\ \A n \in Nums : slots'["git"][n].gen <= gitGen'
           /\ \A k \in Kinds, n \in Nums : Live(k, n)' => slots'[k][n] = slots[k][n] /\ Live(k, n)
           /\ \A n \in Nums : Live("git", n)' =>
                 \E g \in Hands \ {h} : hand[g].kind = "git" /\ hand[g].num = n /\ Reaches(g)
  <1>1. /\ slots' \in [Kinds -> [Nums -> [thing : Nat, gen : Nat]]]
        /\ \A k \in Kinds, n \in Nums :
              \/ slots'[k][n] = slots[k][n]
              \/ slots'[k][n] = Closed /\ Reaches(h) /\ k = hand[h].kind /\ n = hand[h].num
        /\ Reaches(h) => slots'[hand[h].kind][hand[h].num] = Closed
    BY EmptiedSlots
  <1>2. opened \in Nat /\ gitGen \in Nat /\ opened' = opened /\ gitGen' = gitGen
    BY DEF HInv, Typed
  <1>3. \A k \in Kinds, n \in Nums : slots'[k][n].thing <= opened'
    BY <1>1, <1>2 DEF HInv, Numbered, Closed, Nothing
  <1>4. \A n \in Nums : slots'["git"][n].gen <= gitGen'
    BY <1>1, <1>2 DEF HInv, Numbered, Closed, Kinds
  <1>5. ASSUME NEW k \in Kinds, NEW n \in Nums, Live(k, n)'
        PROVE  slots'[k][n] = slots[k][n] /\ Live(k, n)
    BY <1>1, <1>5 DEF Live, Closed
  <1>6. ASSUME NEW n \in Nums, Live("git", n)'
        PROVE  \E g \in Hands \ {h} : hand[g].kind = "git" /\ hand[g].num = n /\ Reaches(g)
    <2>1. PICK g \in Hands : hand[g].kind = "git" /\ hand[g].num = n /\ Reaches(g)
      BY <1>5, <1>6 DEF HInv, SlotsHeld, Kinds
    <2>2. g # h
      BY <2>1, <1>1, <1>6 DEF Live, Closed
    <2> QED BY <2>1, <2>2
  <1> QED BY <1>1, <1>3, <1>4, <1>5, <1>6

(* The boxes that are parked after a close.                                 *)
LEMMA ShutParks ==
    ASSUME HInv, NEW h \in Hands, Held(h), Shut(h)
    PROVE  Once(parked') /\ \A i \in 1 .. Len(parked') : slots'["igno"][parked'[i]].thing = Nothing
  <1>1. hand[h].kind \in Kinds /\ hand[h].num \in Nums
    BY DEF HInv, Typed, Held
  <1>2. /\ \A k \in Kinds, n \in Nums :
              \/ slots'[k][n] = slots[k][n]
              \/ slots'[k][n] = Closed /\ Reaches(h) /\ k = hand[h].kind /\ n = hand[h].num
        /\ Reaches(h) => slots'[hand[h].kind][hand[h].num] = Closed
    BY EmptiedSlots DEF Shut
  <1>3. ASSUME NEW i \in 1 .. Len(parked)
        PROVE  /\ parked[i] \in Nums /\ ~Live("igno", parked[i])
               /\ slots'["igno"][parked[i]].thing = Nothing
    <2>1. parked[i] \in Nums /\ ~Live("igno", parked[i])
      BY ParkedOnce DEF Once
    <2> QED BY <2>1, <1>2 DEF Live, Closed, Kinds
  <1>4. CASE hand[h].kind = "igno" /\ Reaches(h)
    <2>1. parked' = <<hand[h].num>> \o parked
      BY <1>4 DEF Shut
    <2>2. \A i \in 1 .. Len(parked) : parked[i] # hand[h].num
      BY <1>3, <1>4 DEF Reaches
    <2>3. Once(parked')
      <3>1. Once(<<hand[h].num>> \o parked)
        BY <1>1, <2>2, ParkedOnce, ConsOnce
      <3> QED BY <2>1, <3>1 DEF Once
    <2>4. ASSUME NEW i \in 1 .. Len(parked')
          PROVE  slots'["igno"][parked'[i]].thing = Nothing
      <3>1. parked'[i] = hand[h].num \/ \E j \in 1 .. Len(parked) : parked'[i] = parked[j]
        BY <2>1, <2>2, <1>1, ParkedOnce, ConsOnce
      <3> QED BY <3>1, <1>2, <1>3, <1>4 DEF Closed
    <2> QED BY <2>3, <2>4 DEF Live
  <1>5. CASE ~(hand[h].kind = "igno" /\ Reaches(h))
    <2>1. parked' = parked
      BY <1>5 DEF Shut
    <2> QED BY <2>1, <1>3, ParkedOnce DEF Once, Live
  <1> QED BY <1>4, <1>5

LEMMA CloseInv == ASSUME HInv, NEW h \in Hands, Close(h) PROVE HInv'
  <1>1. OwnCalls' /\ stale \subseteq stale'
    BY CallsOwn DEF Close
  <1>2. /\ Held(h) /\ slots' = Emptied(h) /\ UNCHANGED <<gitGen, opened>>
        /\ hand' = [hand EXCEPT ![h].state = "closed"]
    BY DEF Close, Shut
  <1>3. /\ slots' \in [Kinds -> [Nums -> [thing : Nat, gen : Nat]]]
        /\ \A k \in Kinds, n \in Nums : slots'[k][n].thing <= opened'
        /\ \A n \in Nums : slots'["git"][n].gen <= gitGen'
        /\ \A k \in Kinds, n \in Nums : Live(k, n)' => slots'[k][n] = slots[k][n] /\ Live(k, n)
        /\ \A n \in Nums : Live("git", n)' =>
              \E g \in Hands \ {h} : hand[g].kind = "git" /\ hand[g].num = n /\ Reaches(g)
    BY <1>2, ClosedLeaves
  <1>4. /\ hand \in [Hands -> Handle] /\ hand' \in [Hands -> Handle]
        /\ hand[h].kind \in Kinds /\ hand[h].num \in Nums /\ hand'[h].state = "closed"
        /\ \A g \in Hands : /\ hand'[g].kind = hand[g].kind /\ hand'[g].num = hand[g].num
                            /\ hand'[g].gen = hand[g].gen /\ hand'[g].thing = hand[g].thing
        /\ \A g \in Hands : g # h => hand'[g] = hand[g]
    BY <1>2 DEF HInv, Typed, Handle, Held
  <1>5. Once(parked') /\ \A i \in 1 .. Len(parked') : slots'["igno"][parked'[i]].thing = Nothing
    BY ShutParks DEF Close
  <1>6. Typed'
    BY <1>2, <1>3, <1>4, <1>5 DEF HInv, Typed, Once
  <1>7. Numbered'
    BY <1>2, <1>3, <1>4 DEF HInv, Numbered
  <1>8. Distinct'
    BY <1>2, <1>4 DEF HInv, Distinct, Held
  <1>9. SameGen'
    BY <1>3, <1>4 DEF HInv, SameGen, Live, Kinds
  <1>10. OwnSlot'
    <2>1. ASSUME NEW g \in Hands, hand'[g].state = "open",
                 hand'[g].kind \notin stale' \cup {"git"}
          PROVE  slots'[hand'[g].kind][hand'[g].num].thing = hand'[g].thing
      <3>1. /\ g # h /\ hand'[g] = hand[g] /\ hand[g].kind \in Kinds /\ hand[g].num \in Nums
            /\ slots[hand[g].kind][hand[g].num].thing = hand[g].thing
            /\ hand[g].thing # Nothing /\ hand[g].thing # hand[h].thing
        BY <2>1, <1>1, <1>4 DEF HInv, Typed, OwnSlot, Distinct
      <3>2. slots'[hand[g].kind][hand[g].num] = slots[hand[g].kind][hand[g].num]
            \/ (Reaches(h) /\ hand[g].kind = hand[h].kind /\ hand[g].num = hand[h].num)
        BY <3>1, <1>2, EmptiedSlots
      <3>3. ~(Reaches(h) /\ hand[g].kind = hand[h].kind /\ hand[g].num = hand[h].num)
        <4>1. CASE hand[h].state = "open"
          BY <4>1, <3>1, <2>1, <1>1 DEF HInv, OwnSlot
        <4>2. CASE hand[h].state = "closed"
          BY <4>2, <3>1, <2>1 DEF Close, Calls
        <4> QED BY <4>1, <4>2, <1>2 DEF Held
      <3> QED BY <3>1, <3>2, <3>3
    <2> QED BY <2>1 DEF OwnSlot
  <1>11. SlotsHeld'
    <2>1. ASSUME NEW n \in Nums, Live("git", n)'
          PROVE  \E g \in Hands : hand'[g].kind = "git" /\ hand'[g].num = n /\ Reaches(g)'
      <3>1. PICK g \in Hands \ {h} : hand[g].kind = "git" /\ hand[g].num = n /\ Reaches(g)
        BY <1>3, <2>1
      <3>2. hand'[g] = hand[g] /\ slots'["git"][n] = slots["git"][n]
        BY <3>1, <1>3, <1>4, <2>1 DEF Kinds
      <3>3. Reaches(g)'
        BY <3>1, <3>2 DEF Reaches, Live
      <3> QED BY <3>1, <3>2, <3>3
    <2>2. ASSUME NEW i \in 1 .. Len(parked')
          PROVE  slots'["igno"][parked'[i]].thing = Nothing
      BY <1>5 DEF Live
    <2>3. \A m \in Parked' : ~Live("igno", m)'
      BY <2>2 DEF Parked, Live
    <2> QED BY <2>1, <2>3, <1>5 DEF SlotsHeld, Once
  <1> QED BY <1>1, <1>6, <1>7, <1>8, <1>9, <1>10, <1>11 DEF HInv

-----------------------------------------------------------------------------
LEMMA DropInv == ASSUME HInv, NEW h \in Hands, Drop(h) PROVE HInv'
  <1>1. /\ Held(h) /\ UNCHANGED <<slots, gitGen, parked, opened, reached, stale>>
        /\ hand[h].kind \in Kinds /\ hand[h].num \in Nums
        /\ hand \in [Hands -> Handle]
    BY DEF Drop, HInv, Typed, Held
  <1>2. CASE hand[h].kind = "git"
    <2>1. /\ hand' = [hand EXCEPT ![h].state = "dropped"] /\ hand' \in [Hands -> Handle]
          /\ \A g \in Hands : /\ hand'[g].kind = hand[g].kind /\ hand'[g].num = hand[g].num
                              /\ hand'[g].gen = hand[g].gen /\ hand'[g].thing = hand[g].thing
          /\ \A g \in Hands : g # h => hand'[g] = hand[g]
          /\ hand'[h].state = "dropped"
      BY <1>1, <1>2 DEF Drop, Handle
    <2>2. Typed' /\ Numbered' /\ Distinct'
      BY <1>1, <1>2, <2>1 DEF HInv, Typed, Numbered, Distinct, Held
    <2>3. SameGen' /\ OwnSlot' /\ OwnCalls'
      BY <1>1, <1>2, <2>1 DEF HInv, SameGen, OwnSlot, OwnCalls, Live
    <2>4. SlotsHeld'
      BY <1>1, <2>1 DEF HInv, SlotsHeld, Reaches, Live, Parked
    <2> QED BY <2>2, <2>3, <2>4 DEF HInv
  <1>3. CASE hand[h].kind # "git"
    <2>1. /\ hand' = [hand EXCEPT ![h] = NoHand] /\ hand'[h] = NoHand
          /\ hand' \in [Hands -> Handle]
          /\ \A g \in Hands : g # h => hand'[g] = hand[g]
      BY <1>1, <1>3 DEF Drop, Handle, NoHand, Nothing
    <2>2. Typed' /\ Numbered' /\ Distinct'
      BY <1>1, <2>1 DEF HInv, Typed, Numbered, Distinct, NoHand, Nothing
    <2>3. SameGen' /\ OwnSlot' /\ OwnCalls'
      BY <1>1, <2>1 DEF HInv, SameGen, OwnSlot, OwnCalls, Live, NoHand
    <2>4. SlotsHeld'
      BY <1>1, <1>3, <2>1 DEF HInv, SlotsHeld, Reaches, Live, Parked
    <2> QED BY <2>2, <2>3, <2>4 DEF HInv
  <1> QED BY <1>2, <1>3

(* The collector closes the store of a pin that was left to it, and no      *)
(* other: a slot that was opened again has a generation of its own.         *)
LEMMA PinFreeInv == ASSUME HInv, NEW h \in Hands, PinFree(h) PROVE HInv'
  <1>1. /\ hand[h].state = "dropped" /\ hand[h].kind = "git" /\ hand[h].num \in Nums
        /\ hand \in [Hands -> Handle] /\ hand' = [hand EXCEPT ![h] = NoHand]
        /\ slots' = Emptied(h) /\ UNCHANGED <<gitGen, parked, opened, stale>>
    BY DEF PinFree, Frees, Emptied, HInv, Typed
  <1>2. /\ slots' \in [Kinds -> [Nums -> [thing : Nat, gen : Nat]]]
        /\ \A k \in Kinds, n \in Nums : slots'[k][n].thing <= opened'
        /\ \A n \in Nums : slots'["git"][n].gen <= gitGen'
        /\ \A k \in Kinds, n \in Nums : Live(k, n)' => slots'[k][n] = slots[k][n] /\ Live(k, n)
        /\ \A n \in Nums : Live("git", n)' =>
              \E g \in Hands \ {h} : hand[g].kind = "git" /\ hand[g].num = n /\ Reaches(g)
    BY <1>1, ClosedLeaves
  <1>3. \A k \in Kinds, n \in Nums : k # "git" => slots'[k][n] = slots[k][n]
    BY <1>1, EmptiedSlots
  <1>4. /\ hand' \in [Hands -> Handle] /\ hand'[h] = NoHand
        /\ \A g \in Hands : g # h => hand'[g] = hand[g]
    BY <1>1 DEF Handle, NoHand, Nothing
  <1>5. Typed' /\ Distinct'
    BY <1>1, <1>2, <1>4 DEF HInv, Typed, Distinct, NoHand, Nothing
  <1>6. Numbered'
    BY <1>1, <1>2, <1>4 DEF HInv, Typed, Numbered, NoHand, Nothing
  <1>7. SameGen'
    BY <1>2, <1>4 DEF HInv, SameGen, Live, NoHand, Kinds
  <1>8. OwnSlot'
    <2>1. ASSUME NEW g \in Hands, hand'[g].state = "open",
                 hand'[g].kind \notin stale' \cup {"git"}
          PROVE  slots'[hand'[g].kind][hand'[g].num].thing = hand'[g].thing
      <3>1. /\ hand'[g] = hand[g] /\ hand[g].kind \in Kinds /\ hand[g].num \in Nums
            /\ slots[hand[g].kind][hand[g].num].thing = hand[g].thing
        BY <2>1, <1>1, <1>4 DEF HInv, Typed, OwnSlot, NoHand
      <3> QED BY <3>1, <2>1, <1>3
    <2> QED BY <2>1 DEF OwnSlot
  <1>9. OwnCalls'
    BY <1>1 DEF PinFree, Frees, Reaches, HInv, SameGen, OwnCalls
  <1>10. SlotsHeld'
    <2>1. ASSUME NEW n \in Nums, Live("git", n)'
          PROVE  \E g \in Hands : hand'[g].kind = "git" /\ hand'[g].num = n /\ Reaches(g)'
      <3>1. PICK g \in Hands \ {h} : hand[g].kind = "git" /\ hand[g].num = n /\ Reaches(g)
        BY <1>2, <2>1
      <3>2. hand'[g] = hand[g] /\ slots'["git"][n] = slots["git"][n]
        BY <3>1, <1>2, <1>4, <2>1 DEF Kinds
      <3>3. Reaches(g)'
        BY <3>1, <3>2 DEF Reaches, Live
      <3> QED BY <3>1, <3>2, <3>3
    <2>2. ASSUME NEW i \in 1 .. Len(parked)
          PROVE  slots'["igno"][parked[i]].thing = Nothing
      BY <1>3, ParkedOnce DEF Once, Live, Kinds
    <2>3. \A m \in Parked' : ~Live("igno", m)'
      BY <2>2, <1>1 DEF Parked, Live
    <2> QED BY <2>1, <2>3, <1>1 DEF HInv, SlotsHeld
  <1> QED BY <1>5, <1>6, <1>7, <1>8, <1>9, <1>10 DEF HInv

-----------------------------------------------------------------------------
LEMMA NextInv == HInv /\ [Next]_vars => HInv'
  <1> SUFFICES ASSUME HInv, [Next]_vars PROVE HInv'
    OBVIOUS
  <1>1. CASE OpenFails
    BY <1>1, OpenFailsInv
  <1>2. ASSUME NEW h \in Hands, NEW k \in Kinds, Open(h, k) PROVE HInv'
    BY <1>2, OpenInv
  <1>3. ASSUME NEW h \in Hands, Use(h) PROVE HInv'
    BY <1>3, UseInv
  <1>4. ASSUME NEW h \in Hands, Close(h) PROVE HInv'
    BY <1>4, CloseInv
  <1>5. ASSUME NEW h \in Hands, Drop(h) PROVE HInv'
    BY <1>5, DropInv
  <1>6. ASSUME NEW h \in Hands, PinFree(h) PROVE HInv'
    BY <1>6, PinFreeInv
  <1>7. CASE UNCHANGED vars
    <2>1. UNCHANGED <<slots, gitGen, parked, hand, opened, reached, stale>>
      BY <1>7 DEF vars
    <2>2. Typed' /\ Numbered' /\ Distinct'
      BY <2>1 DEF HInv, Typed, Numbered, Distinct
    <2>3. SameGen' /\ OwnSlot' /\ OwnCalls' /\ SlotsHeld'
      BY <2>1 DEF HInv, SameGen, OwnSlot, OwnCalls, SlotsHeld, Live, Reaches, Parked
    <2> QED BY <2>2, <2>3 DEF HInv
  <1> QED BY <1>1, <1>2, <1>3, <1>4, <1>5, <1>6, <1>7 DEF Next

(* A call, and the collector, work on what their handle opened or on        *)
(* nothing (git.c: "The generation guard keeps a stale husk off a slot that *)
(* has been reopened").                                                     *)
THEOREM CallsAreOwn == Spec => []OwnCalls
  <1>1. HInv => OwnCalls
    BY DEF HInv
  <1> QED BY <1>1, InitInv, NextInv, PTL DEF Spec

(* Git stores and ignore boxes are neither lost nor given out twice         *)
(* (igno.c: "that is what makes a double-close safe").                      *)
THEOREM SlotsStayHeld == Spec => []SlotsHeld
  <1>1. HInv => SlotsHeld
    BY DEF HInv
  <1> QED BY <1>1, InitInv, NextInv, PTL DEF Spec
=============================================================================
