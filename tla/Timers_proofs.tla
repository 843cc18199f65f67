---------------------------- MODULE Timers_proofs ----------------------------
(***************************************************************************)
(* Proofs about Timers, for every number of timers, every delay and every  *)
(* length of a behaviour.                                                  *)
(***************************************************************************)
EXTENDS Timers, TLAPS

-----------------------------------------------------------------------------
(* Rounding.                                                                *)

(* Euclidean division by the quanta of a millisecond.                       *)
LEMMA DivMS ==
    ASSUME NEW q \in Int
    PROVE  /\ q \div MS \in Int
           /\ MS * (q \div MS) <= q
           /\ q < MS * (q \div MS) + MS
  BY TimersAssumption

LEMMA TimesMono ==
    ASSUME NEW m \in Nat \ {0}, NEW a \in Int, NEW b \in Int
    PROVE  /\ a <= b => m * a <= m * b
           /\ m * a < m * b => a < b
  OBVIOUS

(* twArm asks for at least 1 ms, and for no more than the delay and 1 ms:   *)
(* `ms < 1 ? 1 : ms | 0`.                                                   *)
LEMMA ArmBound ==
    ASSUME NEW d \in Nat
    PROVE  /\ ArmMs(d) \in Nat
           /\ ArmMs(d) * MS \in Nat
           /\ ArmMs(d) * MS <= d + MS
  <1>1. CASE d < MS
    BY <1>1, TimersAssumption DEF ArmMs
  <1>2. CASE ~(d < MS)
    <2> DEFINE k == d \div MS
    <2>1. k \in Int /\ MS * k <= d /\ d < MS * k + MS
      BY DivMS
    <2>2. k \in Nat
      <3>1. 0 < MS * (k + 1)
        BY <2>1, TimersAssumption
      <3>2. 0 < k + 1
        BY <3>1, <2>1, TimesMono, TimersAssumption
      <3> QED BY <3>2, <2>1
    <2>3. k * MS = MS * k /\ k * MS \in Nat
      BY <2>2, TimersAssumption
    <2>4. ArmMs(d) = k
      BY <1>2 DEF ArmMs
    <2> QED BY <2>1, <2>2, <2>3, <2>4, TimersAssumption
  <1> QED BY <1>1, <1>2

(* The period twTick returns is at least 1 ms, leads to no later than 1 ms  *)
(* after the deadline (or after now), and stays below an hour for a         *)
(* deadline less than an hour away.                                         *)
LEMMA PeriodBound ==
    ASSUME NEW at \in Nat, now \in Nat
    PROVE  /\ Period(at) \in Nat
           /\ Period(at) * MS \in Nat
           /\ now + Period(at) * MS <= Most(at, now) + MS
           /\ at <= now + (Hour - 1) * MS => Period(at) < Hour
  <1> DEFINE c == CeilMs(at - now)
  <1>1. c \in Int /\ MS * c <= at - now + MS - 1
    BY DivMS, TimersAssumption DEF CeilMs
  <1>2. Period(at) = Most(1, c) /\ Period(at) \in Nat
    BY <1>1 DEF Period, Most
  <1>3. Period(at) * MS = MS * Period(at) /\ Period(at) * MS \in Nat
    BY <1>2, TimersAssumption
  <1>4. now + Period(at) * MS <= Most(at, now) + MS
    <2>1. CASE c >= 1
      BY <2>1, <1>1, <1>2, <1>3, TimersAssumption DEF Most
    <2>2. CASE ~(c >= 1)
      BY <2>2, <1>1, <1>2, <1>3, TimersAssumption DEF Most
    <2> QED BY <2>1, <2>2
  <1>5. ASSUME at <= now + (Hour - 1) * MS
        PROVE  Period(at) < Hour
    <2>1. (Hour - 1) * MS = MS * Hour - MS /\ MS * Hour \in Int
      BY TimersAssumption
    <2>2. MS * c < MS * Hour
      BY <1>1, <1>5, <2>1, TimersAssumption
    <2>3. c < Hour
      BY <2>2, <1>1, TimesMono, TimersAssumption
    <2> QED BY <2>3, <1>1, <1>2, TimersAssumption DEF Most
  <1> QED BY <1>2, <1>3, <1>4, <1>5

(* What the wheel arms or asks for is a deadline no later than the entry's  *)
(* own and a millisecond.                                                   *)
LEMMA ArmTime ==
    ASSUME NEW d \in Nat, now \in Nat
    PROVE  now + ArmMs(d) * MS \in Nat /\ now + ArmMs(d) * MS <= now + d + MS
  <1> DEFINE k == ArmMs(d) * MS
  <1>1. k \in Nat /\ k <= d + MS
    BY ArmBound
  <1>2. now + k \in Nat /\ now + k <= now + d + MS
    BY <1>1, TimersAssumption
  <1> QED BY <1>2

-----------------------------------------------------------------------------
(* Types.                                                                   *)

LEMMA ArmType ==
    ASSUME TypeOK, NEW d \in Nat, twArm(d)
    PROVE  /\ twOn' \in BOOLEAN
           /\ timer' \in {"none", "wheel", "user"}
           /\ armed' \in Nat \cup {Off}
           /\ asked' \in Nat \cup {Off}
  <1> DEFINE at == now + ArmMs(d) * MS
  <1>1. at \in Nat
    BY ArmTime DEF TypeOK
  <1> HIDE DEF at
  <1>2. CASE twOn /\ PolSooner(at) /\ UNCHANGED <<twOn, timer>>
    BY <1>1, <1>2 DEF TypeOK, PolSooner, Sooner, Least, Off
  <1>3. CASE twOn' = TRUE /\ timer' = "wheel" /\ PolTimerSooner(at)
    BY <1>1, <1>3 DEF TypeOK, PolTimerSooner, Sooner, Least, Off
  <1>4. \/ twOn /\ PolSooner(at) /\ UNCHANGED <<twOn, timer>>
        \/ twOn' = TRUE /\ timer' = "wheel" /\ PolTimerSooner(at)
    BY DEF twArm, at
  <1> QED BY <1>2, <1>3, <1>4

LEMMA AddType ==
    ASSUME TypeOK, NEW d \in Nat, NEW p \in Nat, AddTimer(d, p)
    PROVE  TypeOK'
  <1>1. twArm(d) /\ twId \in Ids
    BY DEF AddTimer, TypeOK, Ids
  <1>2. /\ twOn' \in BOOLEAN
        /\ timer' \in {"none", "wheel", "user"}
        /\ armed' \in Nat \cup {Off}
        /\ asked' \in Nat \cup {Off}
    BY <1>1, ArmType
  <1>3. ent' \in [Ids -> [due : Nat, period : Nat]]
    BY <1>1 DEF AddTimer, TypeOK
  <1>4. twId' \in 1 .. MaxId + 1
    BY TimersAssumption DEF AddTimer, TypeOK
  <1> QED BY <1>1, <1>2, <1>3, <1>4 DEF AddTimer, TypeOK, tick, hist

(* Every variable keeps its type: no period, deadline or id leaves its range. *)
THEOREM TypeCorrect == Spec => []TypeOK
  <1>1. Init => TypeOK
    <2> SUFFICES ASSUME Init PROVE TypeOK
      OBVIOUS
    <2>1. ent \in [Ids -> [due : Nat, period : Nat]]
      BY DEF Init
    <2>2. shots \in [Ids -> 0 .. 2]
      BY DEF Init
    <2>3. twId \in 1 .. MaxId + 1
      BY TimersAssumption DEF Init
    <2> QED BY <2>1, <2>2, <2>3 DEF Init, TypeOK, Off
  <1>2. TypeOK /\ [Next]_vars => TypeOK'
    <2> SUFFICES ASSUME TypeOK, [Next]_vars PROVE TypeOK'
      OBVIOUS
    <2> USE TimersAssumption
    <2>1. ASSUME NEW d \in Delays, setTimeout(d) PROVE TypeOK'
      BY <2>1, AddType DEF setTimeout
    <2>2. ASSUME NEW d \in Delays, setInterval(d) PROVE TypeOK'
      <3>1. Most(d, MS) \in Nat
        BY DEF Most
      <3> QED BY <2>2, <3>1, AddType DEF setInterval
    <2>3. ASSUME NEW i \in Ids, clearTimeout(i) PROVE TypeOK'
      BY <2>3 DEF clearTimeout, TypeOK, polt, tick
    <2>4. CASE PolRun
      BY <2>4 DEF PolRun, TypeOK, wheel, polt, tick, hist
    <2>5. CASE PolReturn
      BY <2>5 DEF PolReturn, TypeOK, wheel, polt, tick, hist
    <2>6. CASE PolStop
      BY <2>6 DEF PolStop, TypeOK, wheel, polt, tick, hist
    <2>7. CASE Advance
      BY <2>7 DEF Advance, TypeOK, wheel, polt, tick
    <2>8. CASE TickBegin
      BY <2>8 DEF TickBegin, TypeOK, wheel, polt, hist
    <2>9. CASE Fire
      <3>1. PICK i \in due : /\ due' = due \ {i} /\ cur' = i
                             /\ Rewheel(i)
                             /\ shots' = [shots EXCEPT ![i] = Least(2, @ + 1)]
        BY <2>9 DEF Fire
      <3>2. i \in Ids
        BY DEF TypeOK
      <3>3. TW' \subseteq Ids /\ ent' \in [Ids -> [due : Nat, period : Nat]]
        BY <3>1, <3>2 DEF Rewheel, TypeOK
      <3>4. shots' \in [Ids -> 0 .. 2]
        BY <3>1, <3>2 DEF TypeOK, Least
      <3>5. due' \subseteq Ids /\ cur' \in Ids \cup {0}
        BY <3>1, <3>2 DEF TypeOK
      <3>6. /\ pc' = "cb"
            /\ UNCHANGED <<now, twId, twOn, polt, ret, stop, cleared, late, taken>>
        BY <2>9 DEF Fire
      <3> QED BY <3>3, <3>4, <3>5, <3>6 DEF TypeOK, polt
    <2>10. CASE CallbackReturns
      BY <2>10 DEF CallbackReturns, TypeOK, wheel, polt, hist
    <2>11. CASE TickEmpty
      <3>1. TickEnds(Hour + 1) /\ twOn' = FALSE
        BY <2>11 DEF TickEmpty
      <3>2. Hour + 1 \in Nat
        BY TimersAssumption
      <3>3. timer' \in {"none", "wheel", "user"} /\ ret' \in Nat
        BY <3>1, <3>2 DEF TickEnds, TypeOK
      <3> QED BY <3>1, <3>3 DEF TickEnds, TypeOK
    <2>12. CASE TickRearm
      <3>1. PICK i \in TW : TickEnds(Period(ent[i].due))
        BY <2>12 DEF TickRearm
      <3>2. ent[i].due \in Nat
        BY DEF TypeOK
      <3>3. Period(ent[i].due) \in Nat
        BY <3>2, PeriodBound DEF TypeOK
      <3> QED BY <2>12, <3>1, <3>3 DEF TickRearm, TickEnds, TypeOK
    <2>13. CASE TickReturn
      <3>1. ret * MS \in Nat
        BY DEF TypeOK
      <3> DEFINE r == ret * MS
      <3>2. PICK base \in {armed, now} :
              LET next == IF ret >= Hour THEN Off ELSE base + r
              IN  armed' = IF PolMerges THEN Sooner(next, asked) ELSE next
        BY <2>13 DEF TickReturn
      <3>3. r \in Nat
        BY <3>1
      <3> HIDE DEF r
      <3>4. armed' \in Nat \cup {Off}
        BY <3>2, <3>3 DEF TypeOK, Sooner, Least, Off
      <3> QED BY <2>13, <3>4 DEF TickReturn, TypeOK, wheel, hist, Off
    <2>14. CASE Throw
      BY <2>14 DEF Throw, TypeOK, wheel, Off
    <2>15. CASE PolInit
      BY <2>15 DEF PolInit, TypeOK, wheel, tick, Off
    <2>16. CASE UserTimer
      BY <2>16 DEF UserTimer, TypeOK, wheel, tick
    <2>17. CASE OtherTick
      <3>1. PICK ms \in {Hour + 1} \cup {1, Hour} :
              /\ timer' = IF ms >= Hour THEN "none" ELSE timer
              /\ armed' = IF ms >= Hour THEN Off ELSE now + ms * MS
        BY <2>17 DEF OtherTick
      <3>2. armed' \in Nat \cup {Off}
        BY <3>1 DEF TypeOK, Off
      <3> QED BY <2>17, <3>1, <3>2 DEF OtherTick, TypeOK, wheel, tick, hist
    <2>18. CASE UNCHANGED vars
      BY <2>18 DEF vars, TypeOK
    <2> QED
      BY <2>1, <2>2, <2>3, <2>4, <2>5, <2>6, <2>7, <2>8, <2>9, <2>10, <2>11,
         <2>12, <2>13, <2>14, <2>15, <2>16, <2>17, <2>18
      DEF Next, Script, Loop
  <1> QED BY <1>1, <1>2, PTL DEF Spec

-----------------------------------------------------------------------------
(* One shot per setTimeout, and none early.                                 *)

(* An id that may still fire as a one-shot, because the Map or the running  *)
(* tick holds it, has not fired; what the tick holds was due when it was    *)
(* collected and stays due, for time only grows.                            *)
Held == TW \cup due
ShotInv ==
    /\ \A i \in Held : i < twId
    /\ \A i \in Ids : i >= twId => shots[i] = 0
    /\ \A i \in Ids : ent[i].period = 0 => shots[i] <= 1
    /\ \A i \in Held : ent[i].period = 0 => shots[i] = 0
    /\ \A i \in due : ent[i].due <= now

LEMMA AddShot ==
    ASSUME TypeOK, ShotInv, NEW d \in Nat, NEW p \in Nat, AddTimer(d, p)
    PROVE  ShotInv'
  <1>1. /\ twId \in Ids /\ twId' = twId + 1
        /\ TW' = TW \cup {twId} /\ due' = due
        /\ shots' = shots /\ now' = now
    BY DEF AddTimer, TypeOK, Ids, tick, hist
  <1>2. \A i \in Ids : i # twId => ent'[i] = ent[i]
    BY DEF AddTimer, TypeOK
  <1>3. shots[twId] = 0 /\ twId \notin Held
    BY <1>1 DEF ShotInv, TypeOK, Ids
  <1>4. Held' = Held \cup {twId} /\ Held \subseteq Ids
    BY <1>1 DEF Held, TypeOK
  <1>5. (\A i \in Held : i < twId)'
    BY <1>1, <1>4 DEF ShotInv, Ids, TypeOK
  <1>6. (\A i \in Ids : i >= twId => shots[i] = 0)'
    BY <1>1 DEF ShotInv, Ids, TypeOK
  <1>7. (\A i \in Ids : ent[i].period = 0 => shots[i] <= 1)'
    BY <1>1, <1>2, <1>3 DEF ShotInv
  <1>8. (\A i \in Held : ent[i].period = 0 => shots[i] = 0)'
    BY <1>1, <1>2, <1>3, <1>4 DEF ShotInv
  <1>9. (\A i \in due : ent[i].due <= now)'
    BY <1>1, <1>2, <1>3, <1>4 DEF ShotInv, Held
  <1> QED BY <1>5, <1>6, <1>7, <1>8, <1>9 DEF ShotInv

LEMMA FireShot ==
    ASSUME TypeOK, ShotInv, Fire
    PROVE  ShotInv'
  <1>1. PICK i \in due : /\ due' = due \ {i}
                         /\ Rewheel(i)
                         /\ shots' = [shots EXCEPT ![i] = Least(2, @ + 1)]
    BY DEF Fire
  <1>2. i \in Ids /\ i \in Held /\ twId' = twId /\ now' = now
    BY DEF TypeOK, Held, Fire
  <1>3. \A j \in Ids : j # i => ent'[j] = ent[j] /\ shots'[j] = shots[j]
    BY <1>1, <1>2 DEF Rewheel, TypeOK
  <1>4. ent'[i].period = ent[i].period
    BY <1>1, <1>2 DEF Rewheel, TypeOK
  <1>5. TW' \subseteq TW /\ Held' \subseteq Held /\ Held \subseteq Ids
    BY <1>1, <1>2 DEF Rewheel, Held, TypeOK
  <1>6. ent[i].period = 0 => i \notin Held' /\ shots'[i] = 1
    <2> SUFFICES ASSUME ent[i].period = 0 PROVE i \notin Held' /\ shots'[i] = 1
      OBVIOUS
    <2>1. TW' = TW \ {i}
      BY <1>1 DEF Rewheel
    <2>2. shots[i] = 0
      BY <1>2 DEF ShotInv
    <2>3. shots'[i] = 1
      BY <1>1, <1>2, <2>2 DEF TypeOK, Least
    <2> QED BY <1>1, <2>1, <2>3 DEF Held
  <1>7. (\A j \in Held : j < twId)'
    BY <1>2, <1>5 DEF ShotInv
  <1>8. (\A j \in Ids : j >= twId => shots[j] = 0)'
    <2> SUFFICES ASSUME NEW j \in Ids, j >= twId PROVE shots'[j] = 0
      BY <1>2
    <2>1. j # i
      BY <1>2 DEF ShotInv, TypeOK, Ids
    <2> QED BY <1>3, <2>1 DEF ShotInv
  <1>9. (\A j \in Ids : ent[j].period = 0 => shots[j] <= 1)'
    BY <1>3, <1>4, <1>6 DEF ShotInv
  <1>10. (\A j \in Held : ent[j].period = 0 => shots[j] = 0)'
    BY <1>3, <1>4, <1>5, <1>6 DEF ShotInv
  <1>11. (\A j \in due : ent[j].due <= now)'
    BY <1>1, <1>2, <1>3, <1>5 DEF ShotInv, TypeOK
  <1> QED BY <1>7, <1>8, <1>9, <1>10, <1>11 DEF ShotInv

LEMMA ShotStep ==
    ASSUME TypeOK, ShotInv, [Next]_vars
    PROVE  ShotInv'
  <1>1. ASSUME NEW d \in Delays, setTimeout(d) PROVE ShotInv'
    BY <1>1, AddShot, TimersAssumption DEF setTimeout
  <1>2. ASSUME NEW d \in Delays, setInterval(d) PROVE ShotInv'
    <2>1. Most(d, MS) \in Nat
      BY TimersAssumption DEF Most
    <2> QED BY <1>2, <2>1, AddShot DEF setInterval
  <1>3. ASSUME NEW i \in Ids, clearTimeout(i) PROVE ShotInv'
    BY <1>3 DEF clearTimeout, ShotInv, Held, tick
  <1>4. CASE Fire
    BY <1>4, FireShot
  <1>5. CASE TickBegin
    BY <1>5 DEF TickBegin, ShotInv, Held, wheel, hist
  <1>6. CASE Advance
    BY <1>6 DEF Advance, ShotInv, Held, wheel, tick, TypeOK
  <1>7. CASE Throw
    BY <1>7 DEF Throw, ShotInv, Held, wheel
  <1>8. ASSUME UNCHANGED <<now, TW, ent, twId, due, shots>> PROVE ShotInv'
    BY <1>8 DEF ShotInv, Held
  <1>9. CASE PolRun \/ PolReturn \/ PolStop \/ CallbackReturns \/ TickReturn
    BY <1>8, <1>9 DEF PolRun, PolReturn, PolStop, CallbackReturns, TickReturn,
                      wheel, tick, hist
  <1>10. CASE TickEmpty \/ TickRearm
    BY <1>8, <1>10 DEF TickEmpty, TickRearm, TickEnds
  <1>11. CASE PolInit \/ UserTimer \/ OtherTick
    BY <1>8, <1>11 DEF PolInit, UserTimer, OtherTick, wheel, tick, hist
  <1>12. CASE UNCHANGED vars
    BY <1>8, <1>12 DEF vars
  <1> QED
    BY <1>1, <1>2, <1>3, <1>4, <1>5, <1>6, <1>7, <1>9, <1>10, <1>11, <1>12
    DEF Next, Script, Loop

LEMMA ShotAlways == Spec => [](TypeOK /\ ShotInv)
  <1>1. Init => ShotInv
    BY TimersAssumption DEF Init, ShotInv, Held, Ids
  <1> QED BY <1>1, ShotStep, TypeCorrect, PTL DEF Spec

(* A setTimeout callback runs at most once, through throws in callbacks,    *)
(* pol.init and a script's own pol.timer (net.c:409-416).                   *)
THEOREM FiresOnce == Spec => []FireOnce
  <1>1. ShotInv => FireOnce
    BY DEF ShotInv, FireOnce
  <1> QED BY <1>1, ShotAlways, PTL

(* What was cleared had an id already, so no later timer is cleared. *)
ClearInv == ClearSticks /\ \A i \in cleared : i < twId

LEMMA ClearStep ==
    ASSUME TypeOK, ShotInv, ClearInv, [Next]_vars
    PROVE  ClearInv'
  <1> USE DEF ClearInv, ClearSticks
  <1>1. ASSUME NEW d \in Nat, NEW p \in Nat, AddTimer(d, p) PROVE ClearInv'
    BY <1>1 DEF AddTimer, TypeOK, Ids, hist
  <1>2. ASSUME NEW d \in Delays, setTimeout(d) \/ setInterval(d) PROVE ClearInv'
    <2>1. d \in Nat /\ Most(d, MS) \in Nat
      BY TimersAssumption DEF Most
    <2> QED BY <1>1, <1>2, <2>1 DEF setTimeout, setInterval
  <1>3. ASSUME NEW i \in Ids, clearTimeout(i) PROVE ClearInv'
    BY <1>3 DEF clearTimeout, TypeOK
  <1>4. CASE Fire
    <2>1. TW' \subseteq TW /\ twId' = twId /\ cleared' = cleared
      BY <1>4 DEF Fire, Rewheel
    <2> QED BY <2>1
  <1>5. ASSUME UNCHANGED <<TW, twId, cleared>> PROVE ClearInv'
    BY <1>5
  <1>6. CASE PolRun \/ PolReturn \/ PolStop \/ CallbackReturns \/ TickReturn
    BY <1>5, <1>6 DEF PolRun, PolReturn, PolStop, CallbackReturns, TickReturn,
                      wheel, hist
  <1>7. CASE TickBegin \/ TickEmpty \/ TickRearm \/ Advance
    BY <1>5, <1>7 DEF TickBegin, TickEmpty, TickRearm, TickEnds, Advance,
                      wheel, hist
  <1>8. CASE Throw \/ PolInit \/ UserTimer \/ OtherTick
    BY <1>5, <1>8 DEF Throw, PolInit, UserTimer, OtherTick, wheel, hist
  <1>9. CASE UNCHANGED vars
    BY <1>5, <1>9 DEF vars
  <1> QED
    BY <1>2, <1>3, <1>4, <1>6, <1>7, <1>8, <1>9 DEF Next, Script, Loop

(* No tick puts back an interval that was cleared (net.c:413-414).          *)
THEOREM ClearsStick == Spec => []ClearSticks
  <1>1. Init => ClearInv
    BY DEF Init, ClearInv, ClearSticks
  <1>2. ClearInv => ClearSticks
    BY DEF ClearInv
  <1> QED BY <1>1, <1>2, ClearStep, ShotAlways, PTL DEF Spec

(* No callback runs before its time, whatever woke the wheel (net.c:412).   *)
THEOREM NotEarly == Spec => NeverEarly
  <1>1. ASSUME TypeOK, ShotInv, [Next]_vars
        PROVE  [cur' # 0 /\ cur = 0 => ent[cur'].due <= now]_vars
    <2> SUFFICES ASSUME cur' # 0, cur = 0 PROVE ent[cur'].due <= now
      OBVIOUS
    <2>1. cur' # cur
      OBVIOUS
    <2>2. ASSUME Fire PROVE ent[cur'].due <= now
      <3>1. PICK i \in due : cur' = i
        BY <2>2 DEF Fire
      <3> QED BY <1>1, <3>1 DEF ShotInv
    <2>3. ASSUME UNCHANGED cur \/ cur' = 0 PROVE FALSE
      BY <2>1, <2>3
    <2>4. CASE \E d \in Delays : setTimeout(d) \/ setInterval(d)
      BY <2>3, <2>4 DEF setTimeout, setInterval, AddTimer, tick
    <2>5. CASE \E i \in Ids : clearTimeout(i)
      BY <2>3, <2>5 DEF clearTimeout, tick
    <2>6. CASE PolRun \/ PolStop \/ Throw \/ PolInit \/ UserTimer
      BY <2>3, <2>6 DEF PolRun, PolStop, Throw, PolInit, UserTimer, tick
    <2>7. CASE TickBegin \/ CallbackReturns \/ TickReturn \/ OtherTick \/ PolReturn
      BY <2>3, <2>7 DEF TickBegin, CallbackReturns, TickReturn, OtherTick,
                        PolReturn, tick
    <2>8. CASE TickEmpty \/ TickRearm
      BY <2>3, <2>8 DEF TickEmpty, TickRearm, TickEnds
    <2>9. CASE Advance
      BY <2>3, <2>9 DEF Advance, tick
    <2>10. CASE UNCHANGED vars
      BY <2>3, <2>10 DEF vars
    <2> QED
      BY <1>1, <2>2, <2>4, <2>5, <2>6, <2>7, <2>8, <2>9, <2>10
      DEF Next, Script, Loop
  <1> QED BY <1>1, ShotAlways, PTL DEF Spec, NeverEarly

-----------------------------------------------------------------------------
(* The wheel is always armed, when delays are shorter than an hour and POL  *)
(* keeps the earlier of two deadlines.  (Timers_hour.cfg shows what a       *)
(* longer delay does.)                                                      *)

MaxDelay == (Hour - 1) * MS
ShortDelays == \A d \in Delays : Most(d, MS) <= MaxDelay

(* No entry is due, or recurs, an hour or more from now: so a period the    *)
(* wheel returns for an entry never switches the pol timer off.             *)
SoonInv ==
    \A i \in Ids : ent[i].due <= now + MaxDelay /\ ent[i].period <= MaxDelay

(* A deadline that is early enough for entry i. *)
Reach(at, i) == at # Off /\ at <= Most(ent[i].due, now) + MS + late

(* Outside a tick: what the wheel believes is so. *)
Waiting ==
    pc \in {"js", "loop"} =>
        IF twOn THEN /\ timer = "wheel" /\ armed # Off
                     /\ \A i \in TW : Reach(armed, i)
        ELSE timer # "wheel" /\ TW = {}

(* In a tick: it was due, whatever callbacks ask for. *)
Ticking ==
    pc \in {"tick", "cb"} => twOn /\ timer = "wheel" /\ armed # Off /\ armed <= now

(* While promise jobs run between the tick's answer and POL's use of it: an *)
(* entry is covered by the answer, or a job added it and asked for it.      *)
Answered ==
    /\ ret < Hour /\ twOn /\ timer = "wheel" /\ armed # Off /\ armed <= now
    /\ \A i \in TW : \/ now + ret * MS <= Most(ent[i].due, now) + MS + late
                     \/ Reach(asked, i)
SwitchedOff ==
    /\ ret >= Hour
    /\ IF twOn THEN timer = "wheel" /\ asked # Off /\ \A i \in TW : Reach(asked, i)
       ELSE timer # "wheel" /\ TW = {}
Jobs == pc = "jobs" => Answered \/ SwitchedOff

ArmedInv == SoonInv /\ (~taken => Waiting /\ Ticking /\ Jobs)

LEMMA MaxDelayNat == MaxDelay \in Nat
  <1>1. Hour - 1 \in Nat
    BY TimersAssumption
  <1> QED BY <1>1, TimersAssumption DEF MaxDelay

LEMMA MostBounds ==
    ASSUME NEW a \in Nat, NEW b \in Nat
    PROVE  /\ Most(a, b) \in Nat /\ a <= Most(a, b) /\ b <= Most(a, b)
           /\ \A c \in Nat : b <= c => Most(a, b) <= Most(a, c)
  BY DEF Most

LEMMA SoonerBounds ==
    ASSUME NEW a \in Nat \cup {Off}, NEW b \in Nat
    PROVE  /\ Sooner(a, b) \in Nat /\ Sooner(a, b) <= b
           /\ a # Off => Sooner(a, b) <= a
           /\ Sooner(b, a) \in Nat /\ Sooner(b, a) <= b
           /\ a # Off => Sooner(b, a) <= a
  BY DEF Sooner, Least, Off

LEMMA AddArmed ==
    ASSUME TypeOK, ArmedInv, NEW d \in Nat, NEW p \in Nat, AddTimer(d, p),
           d <= MaxDelay, p <= MaxDelay
    PROVE  ArmedInv'
  <1> DEFINE at == now + ArmMs(d) * MS
  <1>1. at \in Nat /\ at <= now + d + MS
    BY ArmTime DEF TypeOK
  <1>2. /\ twId \in Ids /\ now' = now /\ late' = late /\ pc' = pc
        /\ ret' = ret /\ taken' = taken /\ pc \in {"js", "cb", "jobs"}
        /\ TW' = TW \cup {twId} /\ twArm(d) /\ TW \subseteq Ids
        /\ ret \in Nat /\ armed \in Nat \cup {Off} /\ asked \in Nat \cup {Off}
        /\ now \in Nat /\ late \in Nat
    BY DEF AddTimer, TypeOK, Ids, tick, hist, ScriptRuns
  <1>3. /\ ent'[twId] = [due |-> now + d, period |-> p]
        /\ \A i \in Ids : i # twId => ent'[i] = ent[i]
    BY <1>2 DEF AddTimer, TypeOK
  <1>4. SoonInv'
    BY <1>2, <1>3, MaxDelayNat DEF SoonInv, ArmedInv
  \* A deadline that reaches an entry still reaches it, and `at` the new one.
  <1>5. ASSUME NEW i \in TW, NEW x \in Nat \cup {Off}, Reach(x, i),
               NEW y \in Nat, y <= x, y <= at
        PROVE  i \in TW' /\ y <= Most(ent'[i].due, now) + MS + late
    <2>1. CASE i = twId
      <3>1. ent'[i].due = now + d /\ now + d \in Nat
        BY <2>1, <1>2, <1>3
      <3>2. now + d <= Most(ent'[i].due, now) /\ Most(ent'[i].due, now) \in Nat
        BY <3>1, <1>2, MostBounds
      <3> QED BY <3>2, <1>1, <1>2, <1>5, TimersAssumption
    <2>2. CASE i # twId
      <3>1. Most(ent'[i].due, now) = Most(ent[i].due, now) /\ ent[i].due \in Nat
        BY <2>2, <1>2, <1>3 DEF TypeOK
      <3>2. Most(ent[i].due, now) \in Nat
        BY <3>1, <1>2, MostBounds
      <3> QED BY <3>1, <3>2, <1>2, <1>5, TimersAssumption DEF Reach
    <2> QED BY <2>1, <2>2
  <1>6. ASSUME NEW y \in Nat, y <= at
        PROVE  y <= Most(ent'[twId].due, now) + MS + late
    <2>1. ent'[twId].due = now + d /\ now + d \in Nat
      BY <1>2, <1>3
    <2>2. now + d <= Most(ent'[twId].due, now) /\ Most(ent'[twId].due, now) \in Nat
      BY <2>1, <1>2, MostBounds
    <2> QED BY <2>2, <1>1, <1>2, <1>6, TimersAssumption
  <1> HIDE DEF at
  <1>7. \/ twOn /\ PolSooner(at) /\ twOn' = twOn /\ timer' = timer
        \/ ~twOn /\ twOn' = TRUE /\ timer' = "wheel" /\ PolTimerSooner(at)
    BY DEF twArm, at, AddTimer
  <1>8. ASSUME ~taken, pc = "js" PROVE Waiting'
    <2>1. CASE twOn
      <3>1. /\ twOn' /\ timer' = "wheel" /\ armed # Off /\ armed' = Least(armed, at)
            /\ \A i \in TW : Reach(armed, i)
        BY <1>7, <1>8, <2>1 DEF PolSooner, InCall, ArmedInv, Waiting
      <3>2. armed' \in Nat /\ armed' <= armed /\ armed' <= at
        BY <3>1, <1>1, <1>2 DEF Least
      <3>3. \A i \in TW' : armed' <= Most(ent'[i].due, now) + MS + late
        BY <3>1, <3>2, <1>2, <1>5, <1>6
      <3> QED BY <3>1, <3>2, <3>3, <1>2 DEF Waiting, Reach, Off
    <2>2. CASE ~twOn
      <3>1. /\ twOn' /\ timer' = "wheel" /\ armed' \in {now, at} /\ TW = {}
        BY <1>7, <1>8, <2>2 DEF PolTimerSooner, InCall, ArmedInv, Waiting
      <3>2. armed' \in Nat /\ armed' <= at
        BY <3>1, <1>1, <1>2, ArmBound, TimersAssumption DEF at
      <3>3. \A i \in TW' : armed' <= Most(ent'[i].due, now) + MS + late
        BY <3>1, <3>2, <1>2, <1>6
      <3> QED BY <3>1, <3>2, <3>3, <1>2 DEF Waiting, Reach, Off
    <2> QED BY <2>1, <2>2
  <1>9. ASSUME ~taken, pc = "cb" PROVE Ticking'
    <2>1. twOn /\ timer = "wheel" /\ armed # Off /\ armed <= now
      BY <1>9 DEF ArmedInv, Ticking
    <2> QED BY <2>1, <1>2, <1>7, <1>9 DEF Ticking, PolSooner, InCall
  <1>10. ASSUME ~taken, pc = "jobs" PROVE Jobs'
    <2>1. armed' = armed /\ asked' = Sooner(asked, at)
      BY <1>7, <1>10 DEF PolSooner, PolTimerSooner, InCall
    <2>2. asked' \in Nat /\ asked' <= at /\ (asked # Off => asked' <= asked)
      BY <2>1, <1>1, <1>2, SoonerBounds
    <2>3. ASSUME NEW i \in TW', i = twId PROVE Reach(asked, i)'
      BY <2>2, <2>3, <1>2, <1>6 DEF Reach, Off
    <2>4. ASSUME NEW i \in TW, Reach(asked, i) PROVE Reach(asked, i)'
      BY <2>2, <2>4, <1>2, <1>5 DEF Reach, Off
    <2>5. CASE Answered
      <3>1. ASSUME NEW i \in TW', i # twId
            PROVE  \/ now' + ret' * MS <= Most(ent'[i].due, now') + MS + late'
                   \/ Reach(asked, i)'
        <4>1. i \in TW /\ ent'[i] = ent[i]
          BY <3>1, <1>2, <1>3
        <4> QED BY <4>1, <2>4, <2>5, <1>2 DEF Answered
      <3> QED BY <3>1, <2>1, <2>3, <2>5, <1>2, <1>7 DEF Answered, Jobs
    <2>6. CASE SwitchedOff
      <3>1. /\ ret >= Hour /\ twOn' /\ timer' = "wheel"
            /\ \A i \in TW : Reach(asked, i)
        BY <2>6, <1>7 DEF SwitchedOff
      <3>2. \A i \in TW' : Reach(asked, i)'
        BY <3>1, <2>3, <2>4, <1>2
      <3> QED BY <3>1, <3>2, <2>2, <1>2 DEF SwitchedOff, Jobs, Off
    <2> QED BY <2>5, <2>6, <1>10 DEF ArmedInv, Jobs
  <1> QED
    BY <1>2, <1>4, <1>8, <1>9, <1>10 DEF ArmedInv, Waiting, Ticking, Jobs

LEMMA AdvanceArmed ==
    ASSUME TypeOK, ArmedInv, Advance
    PROVE  ArmedInv'
  <1>1. /\ now \in Nat /\ late \in Nat /\ now' = now + 1 /\ ret * MS \in Nat
        /\ late' = IF pc = "jobs" THEN late + 1 ELSE late
        /\ UNCHANGED <<pc, TW, ent, twOn, timer, armed, asked, ret, taken>>
    BY TimersAssumption DEF Advance, TypeOK, wheel, polt, tick
  <1>2. \A i \in Ids : ent[i].due \in Nat
    BY DEF TypeOK
  <1>3. SoonInv'
    BY <1>1, <1>2, MaxDelayNat DEF ArmedInv, SoonInv
  <1>4. ASSUME NEW i \in Ids
        PROVE  Most(ent[i].due, now) + late <= Most(ent[i].due, now') + late'
    BY <1>1, <1>2 DEF Most
  <1>5. ASSUME NEW i \in Ids, NEW x \in Nat \cup {Off}, Reach(x, i)
        PROVE  x <= Most(ent[i].due, now') + MS + late'
    <2>1. Most(ent[i].due, now) \in Nat /\ Most(ent[i].due, now') \in Nat
      BY <1>1, <1>2 DEF Most
    <2> QED BY <1>1, <1>4, <1>5, <2>1, TimersAssumption DEF Reach, Off
  <1>6. armed \in Nat \cup {Off} /\ asked \in Nat \cup {Off} /\ TW \subseteq Ids
    BY DEF TypeOK
  <1>7. ASSUME NEW i \in TW, Reach(armed, i) PROVE Reach(armed, i)'
    BY <1>1, <1>5, <1>6, <1>7 DEF Reach
  <1>8. ASSUME NEW i \in TW, Reach(asked, i) PROVE Reach(asked, i)'
    BY <1>1, <1>5, <1>6, <1>8 DEF Reach
  <1>9. ASSUME NEW i \in TW, pc = "jobs",
               now + ret * MS <= Most(ent[i].due, now) + MS + late
        PROVE  now' + ret * MS <= Most(ent[i].due, now') + MS + late'
    BY <1>1, <1>2, <1>6, <1>9, TimersAssumption DEF Most
  <1>10. Waiting => Waiting'
    BY <1>1, <1>7 DEF Waiting
  <1>11. Ticking => Ticking'
    BY <1>1, <1>6 DEF Ticking, Off
  <1>12. ASSUME pc = "jobs", Answered PROVE Answered'
    <2>1. ASSUME NEW i \in TW
          PROVE  \/ now' + ret' * MS <= Most(ent'[i].due, now') + MS + late'
                 \/ Reach(asked, i)'
      BY <1>1, <1>8, <1>9, <1>12, <2>1 DEF Answered
    <2>2. armed' # Off /\ armed' <= now'
      BY <1>1, <1>6, <1>12 DEF Answered, Off
    <2> QED BY <1>1, <1>12, <2>1, <2>2 DEF Answered
  <1>13. SwitchedOff => SwitchedOff'
    BY <1>1, <1>8 DEF SwitchedOff
  <1> QED BY <1>1, <1>3, <1>10, <1>11, <1>12, <1>13 DEF ArmedInv, Jobs

(* The period is computed from the earliest entry, so it covers them all.   *)
LEMMA RearmArmed ==
    ASSUME TypeOK, ArmedInv, TickRearm
    PROVE  ArmedInv'
  <1>1. PICK i \in TW : /\ \A j \in TW : ent[i].due <= ent[j].due
                        /\ TickEnds(Period(ent[i].due))
    BY DEF TickRearm
  <1> DEFINE r == Period(ent[i].due)
  <1>2. now \in Nat /\ TW \subseteq Ids /\ \A j \in Ids : ent[j].due \in Nat
    BY DEF TypeOK
  <1>3. /\ r \in Nat /\ r * MS \in Nat
        /\ now + r * MS <= Most(ent[i].due, now) + MS
        /\ ent[i].due <= now + (Hour - 1) * MS => r < Hour
    BY <1>1, <1>2, PeriodBound
  <1>4. r < Hour
    BY <1>1, <1>2, <1>3 DEF ArmedInv, SoonInv, MaxDelay
  <1>5. ASSUME NEW j \in TW
        PROVE  now + r * MS <= Most(ent[j].due, now) + MS + 0
    BY <1>1, <1>2, <1>3, TimersAssumption DEF Most
  <1>6. /\ pc = "tick" /\ pc' = "jobs" /\ ret' = r /\ late' = 0 /\ twOn' = twOn
        /\ timer' = IF r >= Hour THEN "none" ELSE timer
        /\ UNCHANGED <<now, TW, ent, armed, asked, taken>>
    BY <1>1 DEF TickEnds, TickRearm
  <1> HIDE DEF r
  <1>7. timer' = timer
    BY <1>3, <1>4, <1>6, TimersAssumption
  <1>8. SoonInv'
    BY <1>6 DEF ArmedInv, SoonInv
  <1>9. ASSUME ~taken PROVE Answered'
    <2>1. twOn /\ timer = "wheel" /\ armed # Off /\ armed <= now
      BY <1>6, <1>9 DEF ArmedInv, Ticking
    <2> QED BY <1>4, <1>5, <1>6, <1>7, <2>1 DEF Answered
  <1> QED BY <1>6, <1>8, <1>9 DEF ArmedInv, Waiting, Ticking, Jobs

(* What POL makes of the answer reaches every entry, if it keeps the        *)
(* earlier of the answer and what was asked for meanwhile.                  *)
LEMMA ReturnArmed ==
    ASSUME TypeOK, ArmedInv, TickReturn, PolMerges
    PROVE  ArmedInv'
  <1> DEFINE r == ret * MS
  <1>1. PICK base \in {armed, now} :
          armed' = Sooner(IF ret >= Hour THEN Off ELSE base + r, asked)
    BY DEF TickReturn
  <1>2. /\ r \in Nat /\ ret \in Nat /\ now \in Nat /\ late \in Nat
        /\ armed \in Nat \cup {Off} /\ asked \in Nat \cup {Off} /\ TW \subseteq Ids
        /\ \A i \in Ids : ent[i].due \in Nat
    BY TimersAssumption DEF TypeOK
  <1>3. /\ pc = "jobs" /\ pc' = "loop"
        /\ UNCHANGED <<now, TW, ent, twOn, timer, late, taken>>
    BY DEF TickReturn, wheel, hist
  <1> HIDE DEF r
  <1>4. SoonInv'
    BY <1>3 DEF ArmedInv, SoonInv
  <1>5. ASSUME ~taken, Answered PROVE Waiting'
    <2>1. base + r \in Nat /\ base + r <= now + r
      BY <1>2, <1>5 DEF Answered, Off
    <2>2. armed' = Sooner(base + r, asked)
      BY <1>1, <1>2, <1>5, TimersAssumption DEF Answered
    <2>3. armed' \in Nat /\ armed' <= base + r /\ (asked # Off => armed' <= asked)
      BY <1>2, <2>1, <2>2, SoonerBounds
    <2>4. ASSUME NEW i \in TW PROVE armed' <= Most(ent[i].due, now) + MS + late
      <3>1. Most(ent[i].due, now) \in Nat
        BY <1>2, MostBounds
      <3>2. \/ now + r <= Most(ent[i].due, now) + MS + late
            \/ Reach(asked, i)
        BY <1>5 DEF Answered, r
      <3> QED BY <1>2, <2>1, <2>3, <3>1, <3>2, TimersAssumption DEF Reach, Off
    <2> QED BY <1>3, <1>5, <2>3, <2>4 DEF Answered, Waiting, Reach, Off
  <1>6. ASSUME ~taken, SwitchedOff PROVE Waiting'
    <2>1. armed' = asked
      BY <1>1, <1>6 DEF SwitchedOff, Sooner
    <2> QED BY <1>3, <1>6, <2>1 DEF SwitchedOff, Waiting, Reach
  <1> QED BY <1>3, <1>4, <1>5, <1>6 DEF ArmedInv, Ticking, Jobs

LEMMA ArmedStep ==
    ASSUME ShortDelays, PolMerges, TypeOK, ArmedInv, [Next]_vars
    PROVE  ArmedInv'
  <1>1. ASSUME NEW d \in Delays, setTimeout(d) PROVE ArmedInv'
    <2>1. d \in Nat /\ d <= MaxDelay /\ 0 <= MaxDelay
      BY TimersAssumption, MaxDelayNat DEF ShortDelays, Most
    <2> QED BY <1>1, <2>1, AddArmed DEF setTimeout
  <1>2. ASSUME NEW d \in Delays, setInterval(d) PROVE ArmedInv'
    <2>1. Most(d, MS) \in Nat /\ Most(d, MS) <= MaxDelay
      BY TimersAssumption DEF ShortDelays, Most
    <2> QED BY <1>2, <2>1, AddArmed DEF setInterval
  <1>3. ASSUME NEW i \in Ids, clearTimeout(i) PROVE ArmedInv'
    <2>1. /\ TW' \subseteq TW
          /\ UNCHANGED <<now, pc, ent, twOn, timer, armed, asked, ret, late, taken>>
      BY <1>3 DEF clearTimeout, polt, tick
    <2> QED BY <2>1 DEF ArmedInv, SoonInv, Waiting, Ticking, Jobs, Answered,
                        SwitchedOff, Reach
  <1>4. CASE Fire
    <2>1. PICK i \in due : Rewheel(i)
      BY <1>4 DEF Fire
    <2>2. /\ pc = "tick" /\ pc' = "cb"
          /\ UNCHANGED <<now, twOn, timer, armed, taken>>
      BY <1>4 DEF Fire, polt
    <2>3. \A j \in Ids : \/ ent'[j] = ent[j]
                         \/ /\ ent'[j].due = now + ent[j].period
                            /\ ent'[j].period = ent[j].period
      BY <2>1 DEF Rewheel, TypeOK
    <2>4. SoonInv'
      <3>1. \A j \in Ids : ent[j].period \in Nat
        BY DEF TypeOK
      <3> QED BY <2>2, <2>3, <3>1, MaxDelayNat DEF ArmedInv, SoonInv, TypeOK
    <2> QED BY <2>2, <2>4 DEF ArmedInv, Waiting, Ticking, Jobs
  <1>5. CASE TickBegin
    <2>1. /\ pc = "loop" /\ pc' = "tick" /\ timer = "wheel"
          /\ armed # Off /\ armed <= now
          /\ UNCHANGED <<now, ent, twOn, timer, armed, taken>>
      BY <1>5 DEF TickBegin, TimerDue, wheel, polt, hist
    <2> QED BY <2>1 DEF ArmedInv, SoonInv, Waiting, Ticking, Jobs
  <1>6. CASE CallbackReturns
    <2>1. /\ pc = "cb" /\ pc' = "tick"
          /\ UNCHANGED <<now, ent, twOn, timer, armed, taken>>
      BY <1>6 DEF CallbackReturns, wheel, polt, hist
    <2> QED BY <2>1 DEF ArmedInv, SoonInv, Waiting, Ticking, Jobs
  <1>7. CASE TickEmpty
    <2>1. /\ pc' = "jobs" /\ ret' = Hour + 1 /\ twOn' = FALSE /\ TW' = {}
          /\ timer' = (IF Hour + 1 >= Hour THEN "none" ELSE timer)
          /\ UNCHANGED <<now, ent, taken>>
      BY <1>7 DEF TickEmpty, TickEnds
    <2>2. Hour + 1 >= Hour
      BY TimersAssumption
    <2> QED BY <2>1, <2>2 DEF ArmedInv, SoonInv, Waiting, Ticking, Jobs, SwitchedOff
  <1>8. CASE TickRearm
    BY <1>8, RearmArmed
  <1>9. CASE TickReturn
    BY <1>9, ReturnArmed
  <1>10. CASE Advance
    BY <1>10, AdvanceArmed
  <1>11. CASE PolRun \/ PolReturn
    <2>1. /\ pc \in {"js", "loop"} /\ pc' \in {"js", "loop"}
          /\ UNCHANGED <<now, TW, ent, twOn, timer, armed, late, taken>>
      BY <1>11 DEF PolRun, PolReturn, wheel, polt, hist
    <2> QED BY <2>1 DEF ArmedInv, SoonInv, Waiting, Ticking, Jobs, Reach
  <1>12. CASE Throw \/ PolInit \/ UserTimer
    BY <1>12 DEF Throw, PolInit, UserTimer, wheel, ArmedInv, SoonInv
  <1>13. CASE OtherTick
    <2>1. /\ pc = "loop" /\ pc' = "loop" /\ timer # "wheel" /\ timer' # "wheel"
          /\ UNCHANGED <<now, TW, ent, twOn, taken>>
      BY <1>13 DEF OtherTick, TimerDue, wheel, hist
    <2> QED BY <2>1 DEF ArmedInv, SoonInv, Waiting, Ticking, Jobs
  <1>14. ASSUME UNCHANGED <<now, pc, wheel, polt, ret, late, taken>>
         PROVE  ArmedInv'
    BY <1>14 DEF wheel, polt, ArmedInv, SoonInv, Waiting, Ticking, Jobs,
                 Answered, SwitchedOff, Reach
  <1>15. CASE PolStop \/ UNCHANGED vars
    BY <1>14, <1>15 DEF PolStop, vars, wheel, polt, tick, hist
  <1> QED
    BY <1>1, <1>2, <1>3, <1>4, <1>5, <1>6, <1>7, <1>8, <1>9, <1>10, <1>11,
       <1>12, <1>13, <1>15
    DEF Next, Script, Loop

LEMMA ArmedAlways ==
    ASSUME ShortDelays, PolMerges
    PROVE  Spec => [](TypeOK /\ ArmedInv)
  <1>1. Init => ArmedInv
    BY MaxDelayNat DEF Init, ArmedInv, SoonInv, Waiting, Ticking, Jobs, Ids
  <1>2. TypeOK /\ ArmedInv /\ [Next]_vars => ArmedInv'
    BY ArmedStep
  <1> QED BY <1>1, <1>2, TypeCorrect, PTL DEF Spec

(* While nothing takes the pol timer from it, the wheel's next deadline is  *)
(* never lost between twOn, `timer` and POL: in every state in which script *)
(* code runs or the loop waits, each entry of the Map is covered.           *)
THEOREM AlwaysArmed ==
    ASSUME ShortDelays, PolMerges
    PROVE  Spec => []WheelArmed
  <1>1. TypeOK /\ ArmedInv => WheelArmed
    BY DEF TypeOK, ArmedInv, Waiting, WheelArmed, Covered, Reach
  <1> QED BY <1>1, ArmedAlways, PTL

(* pol.run(pol.NEVER) returns by itself only when the wheel is empty.       *)
THEOREM DrainsBeforeReturn ==
    ASSUME ShortDelays, PolMerges
    PROVE  Spec => LoopDrained
  <1>1. ASSUME TypeOK, ArmedInv, [Next]_vars
        PROVE  [pc = "loop" /\ pc' = "js" /\ ~stop /\ ~taken => TW = {}]_vars
    <2> SUFFICES ASSUME pc = "loop", pc' = "js", ~stop, ~taken PROVE TW = {}
      OBVIOUS
    <2>1. PolReturn
      BY <1>1 DEF Next, Script, Loop, vars, setTimeout, setInterval, AddTimer,
         clearTimeout, ScriptRuns, PolRun, PolStop, Throw, PolInit, UserTimer,
         TickBegin, Fire, CallbackReturns, TickEmpty, TickRearm, TickEnds,
         TickReturn, OtherTick, Advance
    <2>2. armed = Off
      BY <2>1 DEF PolReturn
    <2> QED BY <1>1, <2>2 DEF ArmedInv, Waiting
  <1> QED BY <1>1, ArmedAlways, PTL DEF Spec, LoopDrained

=============================================================================
