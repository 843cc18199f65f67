------------------------------- MODULE Timers -------------------------------
(***************************************************************************)
(* The timer wheel of net.c (setTimeout, setInterval, clearTimeout) over   *)
(* the single timer of pol.c.                                              *)
(*                                                                         *)
(* Three layers each remember whether a timer is set, and they must agree: *)
(* the wheel's own flag twOn, the JS variable `timer` that pol._timer      *)
(* calls through, and the entry abc/POL tracks for the C trampoline.       *)
(* Time is counted in quanta, MS of them to a millisecond, so that         *)
(* the rounding of twTick and of twArm is visible.                         *)
(*                                                                         *)
(* External: abc/POL.  Its contract is read off pol.c: the value the timer *)
(* trampoline returns is the next period in ms, an hour or more removes    *)
(* the timer (pol.c:78-80), and POLAddTime only ever wakes it earlier      *)
(* (pol.c:133).  PolMerges says what becomes of a POLTrackTime or          *)
(* POLAddTime made while the trampoline itself is on the stack: TRUE, the  *)
(* earlier of the two deadlines survives; FALSE, the return value decides. *)
(***************************************************************************)
EXTENDS Integers

CONSTANTS
    MS,         \* quanta per millisecond
    Hour,       \* milliseconds at which pol drops the timer (3600000 in pol.c)
    Delays,     \* the delays, in quanta, scripts pass to set{Timeout,Interval}
    MaxId,      \* bound: timers a behaviour creates
    Horizon,    \* bound: script code takes time only up to here
    Takers,     \* what else may take the pol timer: "throw", "init", "timer"
    PolMerges   \* see above

ASSUME TimersAssumption ==
    /\ MS \in Nat \ {0}
    /\ Hour \in Nat \ {0, 1}
    /\ Delays \subseteq Nat
    /\ MaxId \in Nat
    /\ Horizon \in Nat
    /\ Takers \subseteq {"throw", "init", "timer"}
    /\ PolMerges \in BOOLEAN

VARIABLES
    now,      \* the clock, in quanta
    pc,       \* which code runs: js, loop, tick, cb, jobs
    TW,       \* ids in the wheel's Map
    ent,      \* id -> the entry object {dueNs, periodNs}
    twId,     \* the next id
    twOn,     \* the wheel believes pol calls it
    timer,    \* pol.c's JS `timer`: "none", "wheel" or "user"
    armed,    \* deadline of the C timer, Off when POL tracks none
    asked,    \* deadline asked for while the trampoline is on the stack
    due,      \* ids collected by the running twTick and not yet called
    cur,      \* the id whose callback runs, 0 if none
    ret,      \* what the tick returned, in ms, while its jobs are drained
    stop,     \* POLStop was called
    cleared,  \* history: ids clearTimeout was called with
    shots,    \* history: times each id fired, counted to 2
    late,     \* history: how long the jobs of the last tick took
    taken     \* history: something other than the wheel took the pol timer

vars == <<now, pc, TW, ent, twId, twOn, timer, armed, asked, due, cur, ret,
          stop, cleared, shots, late, taken>>
wheel == <<TW, ent, twId, twOn>>
polt == <<timer, armed, asked>>
tick == <<due, cur, ret>>
hist == <<cleared, shots, late, taken>>

Ids == 1 .. MaxId
Off == -1
MaxTime == 2 * Horizon + MS      \* the loop may wait up to here

Least(a, b) == IF a <= b THEN a ELSE b
Most(a, b) == IF a >= b THEN a ELSE b
CeilMs(q) == (q + MS - 1) \div MS

\* A deadline joined with another, either of which may be Off.
Sooner(a, b) == IF a = Off THEN b ELSE IF b = Off THEN a ELSE Least(a, b)

InCall == pc \in {"tick", "cb", "jobs"}   \* the C trampoline is on the stack
ScriptRuns == pc \in {"js", "cb", "jobs"} \* application code may act

Init ==
    /\ now = 0 /\ pc = "js"
    /\ TW = {} /\ ent = [i \in Ids |-> [due |-> 0, period |-> 0]]
    /\ twId = 1 /\ twOn = FALSE
    /\ timer = "none" /\ armed = Off /\ asked = Off
    /\ due = {} /\ cur = 0 /\ ret = 0 /\ stop = FALSE
    /\ cleared = {} /\ shots = [i \in Ids |-> 0] /\ late = 0 /\ taken = FALSE

-----------------------------------------------------------------------------
(* twArm: `ms < 1 ? 1 : ms | 0` milliseconds, through pol.timer when the    *)
(* wheel is not on yet, then pol.sooner.                                    *)
ArmMs(d) == IF d < MS THEN 1 ELSE d \div MS

\* pol.sooner(ms): nothing when POL tracks no timer.
PolSooner(at) ==
    IF InCall THEN /\ asked' = Sooner(asked, at)
                   /\ UNCHANGED armed
    ELSE /\ armed' = IF armed = Off THEN Off ELSE Least(armed, at)
         /\ UNCHANGED asked

\* pol.timer(fn) then pol.sooner(ms).  When POLTrackTime first wakes a timer
\* is POL's business: at once or later.
PolTimerSooner(at) ==
    IF InCall THEN /\ asked' = Sooner(asked, at)
                   /\ UNCHANGED armed
    ELSE /\ \E first \in {now, at} : armed' = first
         /\ UNCHANGED asked

\* (mutant) pol.sooner only when the wheel is switched on.
twArmOnce(d) ==
    IF twOn THEN UNCHANGED <<twOn, polt>>
    ELSE /\ twOn' = TRUE
         /\ timer' = "wheel"
         /\ PolTimerSooner(now + ArmMs(d) * MS)

twArm(d) ==
    LET at == now + ArmMs(d) * MS
    IN  IF twOn THEN /\ PolSooner(at)
                     /\ UNCHANGED <<twOn, timer>>
        ELSE /\ twOn' = TRUE
             /\ timer' = "wheel"
             /\ PolTimerSooner(at)

\* setTimeout and setInterval once the delay is clamped.
AddTimer(d, period) ==
    /\ ScriptRuns
    /\ twId <= MaxId
    /\ ent' = [ent EXCEPT ![twId] = [due |-> now + d, period |-> period]]
    /\ TW' = TW \cup {twId}
    /\ twId' = twId + 1
    /\ twArm(d)
    /\ UNCHANGED <<now, pc, tick, stop, hist>>

setTimeout(d) == AddTimer(d, 0)

setInterval(d) == AddTimer(Most(d, MS), Most(d, MS))

clearTimeout(i) ==
    /\ ScriptRuns
    /\ i < twId /\ i \notin cleared
    /\ TW' = TW \ {i}
    /\ cleared' = cleared \cup {i}
    /\ UNCHANGED <<now, pc, ent, twId, twOn, polt, tick, stop, shots, late, taken>>

-----------------------------------------------------------------------------
(* The loop.                                                                *)

\* pol.run(pol.NEVER)
PolRun ==
    /\ pc = "js"
    /\ pc' = "loop"
    /\ stop' = FALSE
    /\ UNCHANGED <<now, wheel, polt, tick, hist>>

\* POLLoop returns when stopped or when nothing is left to wait for.
PolReturn ==
    /\ pc = "loop"
    /\ stop \/ armed = Off
    /\ pc' = "js"
    /\ UNCHANGED <<now, wheel, polt, tick, stop, hist>>

PolStop ==
    /\ pc \in {"cb", "jobs"}
    /\ stop' = TRUE
    /\ UNCHANGED <<now, pc, wheel, polt, tick, hist>>

\* Time passes while poll(2) waits, and while script code runs.
Advance ==
    /\ now < IF pc = "loop" THEN MaxTime ELSE Horizon
    /\ now' = now + 1
    /\ late' = IF pc = "jobs" THEN late + 1 ELSE late
    /\ UNCHANGED <<pc, wheel, polt, tick, stop, cleared, shots, taken>>

TimerDue == pc = "loop" /\ ~stop /\ armed # Off /\ armed <= now

\* (mutant) whatever is due within the millisecond.
TickBeginEarly ==
    /\ TimerDue /\ timer = "wheel"
    /\ due' = {i \in TW : ent[i].due < now + MS}
    /\ pc' = "tick"
    /\ UNCHANGED <<now, wheel, polt, cur, ret, stop, hist>>

\* JABCPolTimer -> pol._timer -> twTick, up to its collecting loop.
TickBegin ==
    /\ TimerDue /\ timer = "wheel"
    /\ due' = {i \in TW : ent[i].due <= now}
    /\ pc' = "tick"
    /\ UNCHANGED <<now, wheel, polt, cur, ret, stop, hist>>

\* (mutant) `periodNs >= 0`: a one-shot stays in the Map.
RewheelAll(i) ==
    /\ ent' = [ent EXCEPT ![i].due = now + ent[i].period]
    /\ UNCHANGED TW

\* (mutant) an interval is set anew, `TW.set(id, ...)`.
RewheelAnew(i) ==
    /\ ent' = [ent EXCEPT ![i].due = now + ent[i].period]
    /\ TW' = IF ent[i].period > 0 THEN TW \cup {i} ELSE TW \ {i}

\* An interval is due again one period from now, a one-shot leaves the Map.
Rewheel(i) ==
    IF ent[i].period > 0
    THEN /\ ent' = [ent EXCEPT ![i].due = now + ent[i].period]
         /\ UNCHANGED TW
    ELSE /\ TW' = TW \ {i}
         /\ UNCHANGED ent

\* One round of twTick's second loop, up to the call of t.fn.  A Map keeps
\* insertion order, which is the order of the ids.
Fire ==
    /\ pc = "tick"
    /\ \E i \in due :
        /\ \A j \in due : i <= j
        /\ due' = due \ {i}
        /\ cur' = i
        /\ Rewheel(i)
        /\ shots' = [shots EXCEPT ![i] = Least(2, @ + 1)]
    /\ pc' = "cb"
    /\ UNCHANGED <<now, twId, twOn, polt, ret, stop, cleared, late, taken>>

CallbackReturns ==
    /\ pc = "cb"
    /\ pc' = "tick"
    /\ cur' = 0
    /\ UNCHANGED <<now, wheel, polt, due, ret, stop, hist>>

\* The end of twTick, and of pol._timer around it, which forgets its handler
\* for an hour or more.  The job queue is drained next, before C sees the value.
TickEnds(ms) ==
    /\ pc = "tick" /\ due = {}
    /\ ret' = ms
    /\ timer' = IF ms >= Hour THEN "none" ELSE timer
    /\ pc' = "jobs"
    /\ late' = 0
    /\ UNCHANGED <<now, TW, ent, twId, armed, asked, due, cur, stop, cleared,
                   shots, taken>>

\* (mutant) the wheel does not notice that it is switched off.
TickEmptyOn ==
    /\ TW = {}
    /\ TickEnds(Hour + 1)
    /\ UNCHANGED twOn

TickEmpty ==
    /\ TW = {}
    /\ TickEnds(Hour + 1)
    /\ twOn' = FALSE

\* (mutant) no `ms < 1 ? 1 : ms`.
PeriodTo(at) == CeilMs(at - now)

\* The period that leads to a deadline, in whole milliseconds and never 0.
Period(at) == Most(1, CeilMs(at - now))

TickRearm ==
    /\ \E i \in TW :
        /\ \A j \in TW : ent[i].due <= ent[j].due
        /\ TickEnds(Period(ent[i].due))
    /\ UNCHANGED twOn

\* The trampoline returns to POL, which reschedules from the deadline it
\* served or from the present.
TickReturn ==
    /\ pc = "jobs"
    /\ \E base \in {armed, now} :
        LET next == IF ret >= Hour THEN Off ELSE base + ret * MS
        IN  armed' = IF PolMerges THEN Sooner(next, asked) ELSE next
    /\ asked' = Off
    /\ ret' = 0
    /\ pc' = "loop"
    /\ UNCHANGED <<now, wheel, timer, due, cur, stop, hist>>

-----------------------------------------------------------------------------
(* What takes the pol timer from the wheel.                                 *)

\* A callback throws: twTick and pol._timer unwind, the trampoline answers -1,
\* POL removes the timer, and pol.run re-throws to the script.
Throw ==
    /\ "throw" \in Takers
    /\ pc = "cb"
    /\ pc' = "js"
    /\ due' = {} /\ cur' = 0
    /\ armed' = Off /\ asked' = Off
    /\ taken' = TRUE
    /\ UNCHANGED <<now, wheel, timer, ret, stop, cleared, shots, late>>

\* pol.init() outside the loop: timer = null, then POLFree and POLInit.
PolInit ==
    /\ "init" \in Takers
    /\ pc = "js"
    /\ timer' = "none" /\ armed' = Off
    /\ taken' = TRUE
    /\ UNCHANGED <<now, pc, wheel, asked, tick, stop, cleared, shots, late>>

\* pol.timer(fn), pol.every or pol.after with a handler of the script's own.
UserTimer ==
    /\ "timer" \in Takers
    /\ pc = "js"
    /\ timer' = "user"
    /\ \E first \in {now, now + MS} : armed' = first
    /\ taken' = TRUE
    /\ UNCHANGED <<now, pc, wheel, asked, tick, stop, cleared, shots, late>>

\* pol._timer when it does not lead to the wheel: no handler answers 3600001,
\* the script's own answers any period.
OtherTick ==
    /\ TimerDue /\ timer # "wheel"
    /\ \E ms \in IF timer = "none" THEN {Hour + 1} ELSE {1, Hour} :
        /\ timer' = IF ms >= Hour THEN "none" ELSE timer
        /\ armed' = IF ms >= Hour THEN Off ELSE now + ms * MS
    /\ UNCHANGED <<now, pc, wheel, asked, tick, stop, hist>>

-----------------------------------------------------------------------------
Script ==
    \/ \E d \in Delays : setTimeout(d) \/ setInterval(d)
    \/ \E i \in Ids : clearTimeout(i)
    \/ PolRun \/ PolStop
    \/ Throw \/ PolInit \/ UserTimer

Loop ==
    \/ TickBegin \/ Fire \/ CallbackReturns \/ TickEmpty \/ TickRearm
    \/ TickReturn \/ OtherTick \/ PolReturn

Next == Script \/ Loop \/ Advance

Spec == Init /\ [][Next]_vars

(* POLLoop keeps running, callbacks return, and time passes.                *)
FairSpec ==
    /\ Spec
    /\ WF_vars(Loop)
    /\ WF_vars(Advance)

-----------------------------------------------------------------------------
TypeOK ==
    /\ now \in Nat
    /\ pc \in {"js", "loop", "tick", "cb", "jobs"}
    /\ TW \subseteq Ids
    /\ ent \in [Ids -> [due : Nat, period : Nat]]
    /\ twId \in 1 .. MaxId + 1
    /\ twOn \in BOOLEAN
    /\ timer \in {"none", "wheel", "user"}
    /\ armed \in Nat \cup {Off}
    /\ asked \in Nat \cup {Off}
    /\ due \subseteq Ids
    /\ cur \in Ids \cup {0}
    /\ ret \in Nat
    /\ stop \in BOOLEAN
    /\ cleared \subseteq Ids
    /\ shots \in [Ids -> 0 .. 2]
    /\ late \in Nat
    /\ taken \in BOOLEAN

(* Whenever the loop is about to wait, every timer of the wheel is covered  *)
(* by the C timer: POL will call the wheel no more than a millisecond after *)
(* the timer is due, or after now if that has passed, plus the time the     *)
(* promise jobs of the last tick took, for the period is computed before    *)
(* they run.  net.c keeps no timer per setTimeout, so a deadline lost here  *)
(* is a callback never run.                                                 *)
Covered(i) ==
    /\ timer = "wheel"
    /\ armed # Off
    /\ armed <= Most(ent[i].due, now) + MS + late
WheelArmed == pc \in {"js", "loop"} /\ ~taken => \A i \in TW : Covered(i)

(* twTick fires an entry only once its own due time has come, although the  *)
(* wheel may be woken early by pol.sooner or by an entry since cleared.     *)
NeverEarly == [][cur' # 0 /\ cur = 0 => ent[cur'].due <= now]_vars

(* A setTimeout callback runs at most once, whatever else the callbacks of  *)
(* its tick do: throw, clear, or set timers.                                *)
FireOnce == \A i \in Ids : ent[i].period = 0 => shots[i] <= 1

(* clearTimeout is for good: a tick that had collected the timer already    *)
(* may call it once more (net.c:412), but does not put an interval back.    *)
ClearSticks == TW \cap cleared = {}

(* pol.run(pol.NEVER), when it was not stopped, returns only when no timer  *)
(* remains (main.c:369: "drive the event loop until no fds/timers remain"). *)
LoopDrained ==
    [][pc = "loop" /\ pc' = "js" /\ ~stop /\ ~taken => TW = {}]_vars

(* A timer that has come due while the loop runs is called, unless it is    *)
(* cleared, the script stops the loop, or a callback throws.                *)
Overdue(i) == i \in TW /\ ent[i].due <= now /\ ent[i].due <= Horizon
DueFires ==
    \A i \in Ids :
        (pc = "loop" /\ ~taken /\ Overdue(i)) ~> (~Overdue(i) \/ stop \/ taken)
=============================================================================
