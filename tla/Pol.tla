--------------------------------- MODULE Pol ---------------------------------
(***************************************************************************)
(* The event loop of pol.c: abc/POL in C, the routers and the handler      *)
(* table in JavaScript, and the calls back and forth between them.         *)
(*                                                                         *)
(* JavaScript and C share one stack.  A frame is a POLLoop, with the part  *)
(* of its last poll(2) result it has not delivered yet, a handler it       *)
(* called, or the jobs that JABCPolCall drains after the handler, before   *)
(* POL takes what the handler returned.  Whatever code is on top of the    *)
(* stack runs; the script itself runs when the stack is empty.  The single *)
(* timer is one more source next to the fds: pol.c treats it the same way, *)
(* except that pol.default does not stand in for its handler.              *)
(*                                                                         *)
(* External: abc/POL.  POLLoop polls, delivers what was ready and is still *)
(* tracked, then looks at its stop flag; so a handler may run after an     *)
(* earlier one of the same round threw, which is why pol.c keeps the       *)
(* first exception and drops the later ones (pol.c:36-37).  Whether a      *)
(* source untracked by its own handler is tracked again by the value the   *)
(* handler returns is left open.                                           *)
(***************************************************************************)
EXTENDS Naturals, Sequences

CONSTANTS
    Fds,        \* file descriptors scripts watch
    Handlers,   \* the functions scripts pass as handlers
    NoHandler,  \* no entry in the Map, null in `timer` and pol.default
    Nesting,    \* whether handlers call pol.run themselves
    MaxDepth    \* bound: frames on the stack

ASSUME PolAssumption ==
    /\ NoHandler \notin Handlers
    /\ "timer" \notin Fds
    /\ "none" \notin Fds
    /\ Nesting \in BOOLEAN
    /\ MaxDepth \in Nat

VARIABLES
    stack,    \* the frames, innermost last
    track,    \* what abc/POL tracks
    table,    \* JS: the fd table, and `timer`
    default,  \* JS: pol.default
    running,  \* JABC_POL_RUNNING
    threw,    \* JABC_POL_THREW
    exc,      \* JABC_POL_EXC: the source whose handler threw
    stop,     \* POL's stop flag
    thrown,   \* history: the sources that threw since pol.run, in order
    gone,     \* history: how each source lost the handler it was claimed with
    last      \* history: what the last step was

vars == <<stack, track, table, default, running, threw, exc, stop, thrown,
          gone, last>>
stash == <<threw, exc, stop, thrown>>

Sources == Fds \cup {"timer"}

Loop(ready) == [kind |-> "loop", ready |-> ready, src |-> "none", fn |-> NoHandler]
Call(s, h) == [kind |-> "call", ready |-> {}, src |-> s, fn |-> h]

\* The router returned: a mask or a period, and s stays, or what drops it.
Answers == {"stay", "drop"}
Jobs(s, m) == [kind |-> m, ready |-> {}, src |-> s, fn |-> NoHandler]

Frames ==
    [kind : {"loop"}, ready : SUBSET Sources, src : {"none"}, fn : {NoHandler}]
    \cup [kind : {"call"}, ready : {{}}, src : Sources, fn : Handlers]
    \cup [kind : Answers, ready : {{}}, src : Sources, fn : {NoHandler}]

Top == stack[Len(stack)]
Pop == SubSeq(stack, 1, Len(stack) - 1)

InLoop == \E i \in 1 .. Len(stack) : stack[i].kind = "loop"
LoopRuns == stack # <<>> /\ Top.kind = "loop"
HandlerRuns == stack # <<>> /\ Top.kind = "call"
JobsRun == stack # <<>> /\ Top.kind \in Answers
ScriptRuns == stack = <<>> \/ HandlerRuns \/ JobsRun

Init ==
    /\ stack = <<>>
    /\ track = {}
    /\ table = [s \in Sources |-> NoHandler]
    /\ default = NoHandler
    /\ running = FALSE
    /\ threw = FALSE /\ exc = "none" /\ stop = FALSE /\ thrown = <<>>
    /\ gone = [s \in Sources |-> "released"]
    /\ last = "init"

-----------------------------------------------------------------------------
\* What the leaves _watch, _every and _unwatch, _untimer do in C.
Track(s) == track' = track \cup {s}
Ignore(s) == track' = track \ {s}

\* (mutant) the table keeps its entry.
ForgetInC(s) ==
    /\ Ignore(s)
    /\ gone' = [gone EXCEPT ![s] = "released"]
    /\ UNCHANGED table

\* The router's side lets a source go.
Release(s) ==
    /\ table' = [table EXCEPT ![s] = NoHandler]
    /\ gone' = [gone EXCEPT ![s] = "released"]

\* A source is let go on both sides.
Forget(s) == Ignore(s) /\ Release(s)

(* What a script, a handler or a job calls.                                 *)

\* pol.watch(fd, events, fn), fn may be left out; pol.timer(fn).
Watch(s, h) ==
    /\ ScriptRuns
    /\ s = "timer" => h # NoHandler
    /\ table' = IF h = NoHandler THEN table ELSE [table EXCEPT ![s] = h]
    /\ Track(s)
    /\ gone' = IF h = NoHandler THEN gone ELSE [gone EXCEPT ![s] = "held"]
    /\ last' = "watch"
    /\ UNCHANGED <<stack, default, running, stash>>

\* pol.unwatch(fd), pol.untimer()
Unwatch(s) ==
    /\ ScriptRuns
    /\ Forget(s)
    /\ last' = "unwatch"
    /\ UNCHANGED <<stack, default, running, stash>>

SetDefault(h) ==
    /\ ScriptRuns
    /\ default' = h
    /\ last' = "default"
    /\ UNCHANGED <<stack, track, table, running, stash, gone>>

Stop ==
    /\ ScriptRuns /\ InLoop
    /\ stop' = TRUE
    /\ last' = "stop"
    /\ UNCHANGED <<stack, track, table, default, running, threw, exc, thrown,
                   gone>>

\* (mutant) JABCPolInit without its check.
NotRefused == FALSE

InitRefused == running

\* POLFree and POLInit.
Refresh ==
    /\ last' = "freed"
    /\ track' = {}

\* pol.init(): the bundle clears its side, then JABCPolInit refuses while the
\* flag is up, or frees and rebuilds what POL tracks.
PolInit ==
    /\ ScriptRuns
    /\ table' = [s \in Sources |-> NoHandler]
    /\ default' = NoHandler
    /\ gone' = [s \in Sources |-> "released"]
    /\ IF InitRefused THEN /\ last' = "refused"
                           /\ UNCHANGED track
       ELSE Refresh
    /\ UNCHANGED <<stack, running, stash>>

-----------------------------------------------------------------------------
(* pol.run                                                                  *)

\* JABCPolRun up to POLLoop.
Run ==
    /\ ScriptRuns
    /\ stack # <<>> => Nesting /\ Len(stack) < MaxDepth
    /\ stack' = Append(stack, Loop({}))
    /\ running' = TRUE
    /\ stop' = FALSE
    /\ last' = "run"
    /\ UNCHANGED <<track, table, default, threw, exc, thrown, gone>>

\* poll(2) answers.
Poll ==
    /\ LoopRuns /\ Top.ready = {} /\ ~stop
    /\ \E ready \in (SUBSET track) \ {{}} :
        stack' = [stack EXCEPT ![Len(stack)].ready = ready]
    /\ last' = "poll"
    /\ UNCHANGED <<track, table, default, running, stash, gone>>

\* The handler pol._fd and pol._timer find.
Routed(s) ==
    IF table[s] = NoHandler /\ s \in Fds THEN default ELSE table[s]

\* (mutant) the router takes whatever it finds.
AnyClaims(s) == TRUE

Claimed(s) == Routed(s) # NoHandler

\* The trampolines and the routers, up to the call of the handler; for a source
\* nobody claims the routers return what drops it.
Deliver(s) ==
    /\ LoopRuns /\ s \in Top.ready
    /\ LET rest == [stack EXCEPT ![Len(stack)].ready = @ \ {s}]
       IN  \/ /\ s \notin track
              /\ stack' = rest
              /\ last' = "skip"
              /\ UNCHANGED <<table, gone>>
           \/ /\ s \in track /\ Len(stack) < MaxDepth
              /\ IF Claimed(s) THEN /\ stack' = Append(rest, Call(s, Routed(s)))
                                   /\ last' = "call"
                                   /\ UNCHANGED <<table, gone>>
                 ELSE /\ stack' = Append(rest, Jobs(s, "drop"))
                      /\ last' = "unclaimed"
                      /\ Release(s)
    /\ UNCHANGED <<track, default, running, stash>>

\* The handler is over, and the jobs are drained.
Returns(m) == HandlerRuns /\ stack' = [stack EXCEPT ![Len(stack)] = Jobs(Top.src, m)]

\* The handler returns a mask (a period below an hour).
Keep ==
    /\ Returns("stay")
    /\ last' = "keep"
    /\ UNCHANGED <<track, table, default, running, stash, gone>>

\* The handler returns 0 (an hour or more): the router lets go.
Drop ==
    /\ Returns("drop")
    /\ Release(Top.src)
    /\ last' = "drop"
    /\ UNCHANGED <<track, default, running, stash>>

\* The handler returns a negative number, which the trampolines turn into 0,
\* 3600000 for the timer: the router keeps its entry.
Negative ==
    /\ Returns("drop")
    /\ last' = "negative"
    /\ UNCHANGED <<track, table, default, running, stash, gone>>

\* (mutant) the last exception wins.
StashLast(s) ==
    /\ threw' = TRUE
    /\ exc' = s
    /\ stop' = TRUE
    /\ thrown' = Append(thrown, s)

\* (mutant) the loop is not told to stop.
StashOnly(s) ==
    /\ threw' = TRUE
    /\ exc' = IF threw THEN exc ELSE s
    /\ thrown' = Append(thrown, s)
    /\ UNCHANGED stop

\* JABCPolStash keeps the first exception and stops the loop.
Stash(s) ==
    /\ threw' = TRUE
    /\ exc' = IF threw THEN exc ELSE s
    /\ stop' = TRUE
    /\ thrown' = Append(thrown, s)

\* The handler throws: JABCPolCall stashes the first exception and stops the
\* loop, the trampoline drops the source, the router never gets to its entry.
Throw ==
    /\ Returns("drop")
    /\ Stash(Top.src)
    /\ last' = "throw"
    /\ UNCHANGED <<track, table, default, running, gone>>

\* The jobs are over and POL takes what the trampoline returns, whatever the
\* jobs have done about the source.
TakeAnswer ==
    /\ JobsRun
    /\ stack' = Pop
    /\ \/ /\ Top.kind = "stay"
          /\ track' \in {track, track \cup {Top.src}}
          /\ UNCHANGED gone
       \/ /\ Top.kind = "drop"
          /\ Ignore(Top.src)
          /\ gone' = [gone EXCEPT ![Top.src] = IF @ = "held" THEN "dropped" ELSE @]
    /\ last' = "take"
    /\ UNCHANGED <<table, default, running, stash>>

\* POLLoop is done: stopped, nothing left to track, or out of time; then the
\* rest of JABCPolRun.
RunEnd ==
    /\ LoopRuns /\ Top.ready = {}
    /\ stack' = Pop
    /\ running' = FALSE
    /\ threw' = FALSE
    /\ exc' = "none"
    /\ thrown' = <<>>
    /\ last' = IF threw THEN "rethrow" ELSE "return"
    /\ UNCHANGED <<track, table, default, stop, gone>>

-----------------------------------------------------------------------------
LoopStep == Poll \/ (\E s \in Sources : Deliver(s)) \/ TakeAnswer \/ RunEnd
HandlerReturn == Keep \/ Drop \/ Negative \/ Throw

Next ==
    \/ \E s \in Sources, h \in Handlers \cup {NoHandler} : Watch(s, h)
    \/ \E s \in Sources : Unwatch(s)
    \/ \E h \in Handlers \cup {NoHandler} : SetDefault(h)
    \/ Stop \/ PolInit \/ Run
    \/ LoopStep
    \/ HandlerReturn

Spec == Init /\ [][Next]_vars

(* The loop runs when it is on top of the stack, handlers return and jobs   *)
(* run out.                                                                 *)
FairSpec == Spec /\ WF_vars(LoopStep) /\ WF_vars(HandlerReturn)

-----------------------------------------------------------------------------
TypeOK ==
    /\ stack \in Seq(Frames)
    /\ track \subseteq Sources
    /\ table \in [Sources -> Handlers \cup {NoHandler}]
    /\ default \in Handlers \cup {NoHandler}
    /\ running \in BOOLEAN
    /\ threw \in BOOLEAN
    /\ exc \in Sources \cup {"none"}
    /\ stop \in BOOLEAN
    /\ thrown \in Seq(Sources)
    /\ gone \in [Sources -> {"held", "released", "dropped"}]
    /\ last \in {"init", "watch", "unwatch", "default", "stop", "refused",
                 "freed", "run", "poll", "skip", "unclaimed", "call", "keep",
                 "drop", "negative", "throw", "take", "rethrow", "return"}

(* The flag is up whenever a POLLoop is on the stack (pol.c:24).            *)
RunningFlag == InLoop => running

(* pol.init never frees POL's heap under a loop (pol.c:24-25), whatever the *)
(* handlers of that loop did before.                                        *)
FreeOutsideLoop == [][last' = "freed" => ~InLoop]_vars

(* The stash of JABCPolStash holds an exception exactly while handlers of   *)
(* the running loop have thrown, and it is the first of them: pol.run       *)
(* neither swallows a throw nor re-throws one of an earlier run.            *)
FirstThrowKept ==
    /\ threw = (thrown # <<>>)
    /\ threw => exc = thrown[1]
    /\ threw => InLoop /\ stop

(* A handler that released its source by returning 0, was unwatched, or was *)
(* cleared by pol.init is not called again for it: the call goes to         *)
(* pol.default or is not made, whatever the jobs watch before POL forgets   *)
(* it too.                                                                  *)
Called(s, h) ==
    /\ last' = "call"
    /\ Len(stack') > Len(stack)
    /\ stack'[Len(stack')] = Call(s, h)
ReleasedSilent ==
    [][\A s \in Sources, h \in Handlers :
        Called(s, h) /\ gone[s] = "released" => h = default]_vars

(* An exception thrown in a handler comes out of pol.run: the rest of the   *)
(* round is delivered and the loop ends, whatever stays ready on its fds.   *)
ThrowSurfaces == threw ~> last = "rethrow"
=============================================================================
