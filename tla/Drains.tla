-------------------------------- MODULE Drains --------------------------------
(***************************************************************************)
(* The handlers that take all there is before they return to pol: a TCP    *)
(* server accepting, a UDP socket receiving (net.c), and the one watcher   *)
(* of directories (fsw.c).  Each calls the script for every thing it took, *)
(* and the script may close or open any of them; the handler goes on with  *)
(* the fd number that pol called it with.  The script does so once more    *)
(* between the handler's return and POL's use of what it returned, when    *)
(* pol drains the promise jobs.                                            *)
(*                                                                         *)
(* External: the kernel gives out the lowest free number, and does on a    *)
(* number what its present owner does; POL drops a number for a mask of 0  *)
(* and may track again one that its own handler had untracked.             *)
(***************************************************************************)
EXTENDS Naturals

CONSTANTS
    Servers, Dgrams, Watchers,  \* the objects of each kind
    Fds,        \* fd numbers
    MaxQueue,   \* bound: what waits on a number
    MaxOpens    \* bound: how often anything is opened in all

Objs == Servers \cup Dgrams \cup Watchers
None == "none"
NoSock == [obj |-> None, inc |-> 0, queue |-> 0, over |-> FALSE]
NoLoop == [obj |-> None, num |-> 0, pc |-> "idle", rows |-> 0, inc |-> 0,
           over |-> FALSE, shut |-> FALSE]
NoEvent == [to |-> None, from |-> None, inc |-> 0, was |-> 0, open |-> TRUE,
            shut |-> FALSE, real |-> TRUE]

\* Checked where this module is instantiated.
DrainsAssumption ==
    /\ Fds \subseteq Nat \ {0} /\ None \notin Objs
    /\ Servers \cap Dgrams = {} /\ (Servers \cup Dgrams) \cap Watchers = {}
    /\ MaxQueue \in Nat /\ MaxOpens \in Nat

VARIABLES
    own,        \* this.fd of each object, wfd of the watcher; 0 is closed
    opens,      \* how often anything was opened
    inc,        \* which of these was the last of each object
    sock,       \* number -> what the kernel has there
    track,      \* numbers POL tracks
    table,      \* number -> the object whose handler pol has
    loop,       \* the handler that runs
    event,      \* what the script is being told
    spoilt      \* objects whose number a handler or a failure took from pol

vars == <<own, opens, inc, sock, track, table, loop, event, spoilt>>

Idle == loop = NoLoop
At(pc) == loop.pc = pc
Listening == loop.pc \in {"listener", "lost"}
Jobs == loop.pc \in {"in", "zero"}      \* pol.IN or 0 was returned, jobs run
ScriptRuns == Idle \/ Listening \/ Jobs
FreeFds == {n \in Fds : sock[n] = NoSock}
Lowest(S) == CHOOSE n \in S : \A m \in S : n <= m
Its(S) == sock[loop.num].obj \in S     \* what the number is now

Init ==
    /\ own = [o \in Objs |-> 0] /\ opens = 0 /\ inc = [o \in Objs |-> 0]
    /\ sock = [n \in Fds |-> NoSock]
    /\ track = {} /\ table = [n \in Fds |-> None]
    /\ loop = NoLoop /\ event = NoEvent /\ spoilt = {}

-----------------------------------------------------------------------------
\* listen, bind, watch: pol.watch sets its table before _watch may throw.
Open(o) ==
    /\ ScriptRuns /\ own[o] = 0 /\ FreeFds # {} /\ opens < MaxOpens
    /\ opens' = opens + 1
    /\ LET n == Lowest(FreeFds)
       IN  /\ own' = [own EXCEPT ![o] = n] /\ inc' = [inc EXCEPT ![o] = opens']
           /\ sock' = [sock EXCEPT ![n] = [NoSock EXCEPT !.obj = o, !.inc = opens']]
           /\ table' = [table EXCEPT ![n] = o]
           /\ \/ track' = track \cup {n}
                /\ spoilt' = IF At("zero") /\ n = loop.num THEN spoilt \cup {o}
                             ELSE spoilt \ {o}
              \/ spoilt' = spoilt \cup {o} /\ UNCHANGED track
    /\ UNCHANGED <<loop, event>>

Unwatch(n) == table' = [table EXCEPT ![n] = None] /\ track' = track \ {n}

\* close of both classes, fsw.stop, which also lets go of the Buf and the maps.
Close(o) ==
    /\ ScriptRuns /\ own[o] # 0
    /\ Unwatch(own[o])
    /\ sock' = [sock EXCEPT ![own[o]] = NoSock]
    /\ own' = [own EXCEPT ![o] = 0]
    /\ loop' = IF loop.obj = o THEN [loop EXCEPT !.shut = TRUE] ELSE loop
    /\ UNCHANGED <<opens, inc, event, spoilt>>

\* A connection, a datagram, a change in a directory; a kernel queue overflow.
Arrives(n) ==
    /\ sock[n] # NoSock /\ sock[n].queue < MaxQueue
    /\ sock' = [sock EXCEPT ![n].queue = @ + 1]
    /\ UNCHANGED <<own, opens, inc, track, table, loop, event, spoilt>>
Overflows(n) ==
    /\ sock[n].obj \in Watchers /\ ~sock[n].over
    /\ sock' = [sock EXCEPT ![n].over = TRUE]
    /\ UNCHANGED <<own, opens, inc, track, table, loop, event, spoilt>>

\* pol._fd; a number nobody claims is dropped.
Deliver(n) ==
    /\ Idle /\ n \in track
    /\ sock[n] = NoSock \/ sock[n].queue > 0 \/ sock[n].over
    /\ IF table[n] = None
       THEN track' = track \ {n} /\ UNCHANGED loop
       ELSE loop' = [NoLoop EXCEPT !.obj = table[n], !.num = n, !.pc = "top"] /\ UNCHANGED track
    /\ UNCHANGED <<own, opens, inc, sock, table, event, spoilt>>

-----------------------------------------------------------------------------
Holder == {o \in Objs : own[o] = loop.num}
Returns(m) == loop' = [NoLoop EXCEPT !.num = loop.num, !.pc = m] /\ event' = NoEvent

\* return pol.IN and return 0, for which pol._fd clears its table.
ReturnIn == Returns("in") /\ UNCHANGED <<track, table, spoilt>>
ReturnZero ==
    /\ Returns("zero") /\ table' = [table EXCEPT ![loop.num] = None]
    /\ spoilt' = spoilt \cup (Holder \ {loop.obj})
    /\ UNCHANGED track

\* A throw goes to pol.run, and POL drops the number; the table keeps it.
Throws ==
    /\ Returns("zero") /\ spoilt' = spoilt \cup Holder
    /\ UNCHANGED <<track, table>>

\* The jobs have run and POL takes what was returned.
TakeMask ==
    /\ Jobs /\ loop' = NoLoop
    /\ \/ At("in") /\ track' \in {track, track \cup {loop.num}}
       \/ At("zero") /\ track' = track \ {loop.num}
    /\ UNCHANGED <<own, opens, inc, sock, table, event, spoilt>>

\* The script is told of what came to the object f as the i-th that was opened.
Tells(f, i, real) ==
    /\ event' = [to |-> loop.obj, from |-> f, inc |-> inc[loop.obj], was |-> i,
                 open |-> own[loop.obj] # 0, shut |-> loop.shut, real |-> real]
    /\ UNCHANGED <<track, table, spoilt>>

Takes ==
    /\ sock' = [sock EXCEPT ![loop.num].queue = @ - 1]
    /\ Tells(sock[loop.num].obj, sock[loop.num].inc, TRUE)
    /\ loop' = [loop EXCEPT !.pc = "listener"]

\* net._accept answers -1 for whatever goes wrong.
AcceptOne ==
    /\ At("top") /\ loop.obj \in Servers
    /\ IF Its(Servers) /\ sock[loop.num].queue > 0 THEN Takes ELSE ReturnIn /\ UNCHANGED sock
    /\ UNCHANGED <<own, opens, inc>>

\* (mutant) the loop does not look whether it was closed.
NeverGone == FALSE

Gone == own[loop.obj] = 0

\* (mutant) drained is done.
DrainedOff == ReturnZero

\* return this.fd < 0 ? 0 : pol.IN
Drained == IF Gone THEN ReturnZero ELSE ReturnIn

RecvOne ==
    /\ At("top") /\ loop.obj \in Dgrams
    /\ \/ Gone /\ ReturnZero /\ UNCHANGED sock
       \/ ~Gone /\ Its(Dgrams) /\ sock[loop.num].queue > 0 /\ Takes
       \/ ~Gone /\ Its(Dgrams) /\ sock[loop.num].queue = 0 /\ Drained /\ UNCHANGED sock
       \/ ~Gone /\ ~Its(Dgrams) /\ Throws /\ UNCHANGED sock
    /\ UNCHANGED <<own, opens, inc>>

\* lost(): onoverflow's callback, or a rescan of each directory.
Lost(real) == Tells(loop.obj, inc[loop.obj], real)

\* (mutant) a number that has nothing to read is an error like any other.
DrainErrsDry == own[loop.obj] = 0 \/ ~Its(Watchers) \/ sock[loop.num].queue = 0

\* What fsw.drain(fd, buf.reset()) throws for: no Buf, no watcher, no room.
DrainErrs == own[loop.obj] = 0 \/ ~Its(Watchers)

DrainAll ==
    /\ At("top") /\ loop.obj \in Watchers
    /\ \/ /\ DrainErrs
          /\ Lost(FALSE) /\ loop' = [loop EXCEPT !.pc = "lost"] /\ UNCHANGED sock
       \/ /\ ~DrainErrs /\ sock[loop.num].queue > 0    \* a full Buf
          /\ \E n \in 0 .. sock[loop.num].queue - 1 :
                sock' = [sock EXCEPT ![loop.num].queue = n]
          /\ Lost(TRUE) /\ loop' = [loop EXCEPT !.pc = "lost"]
       \/ /\ ~DrainErrs /\ (sock[loop.num].queue > 0 \/ sock[loop.num].over)
          /\ loop' = [loop EXCEPT !.pc = "rows", !.rows = sock[loop.num].queue,
                                  !.inc = sock[loop.num].inc, !.over = sock[loop.num].over]
          /\ sock' = [sock EXCEPT ![loop.num].queue = 0, ![loop.num].over = FALSE]
          /\ UNCHANGED <<track, table, event, spoilt>>
       \/ ~DrainErrs /\ sock[loop.num].queue = 0 /\ ~sock[loop.num].over /\ ReturnIn /\ UNCHANGED sock
    /\ UNCHANGED <<own, opens, inc>>

\* A record of the batch: its handler is found by its wd, if it has one.
Row ==
    /\ At("rows") /\ (loop.rows > 0 \/ loop.over)
    /\ \/ /\ loop.rows > 0 /\ own[loop.obj] # 0
          /\ Tells(loop.obj, loop.inc, TRUE)
          /\ loop' = [loop EXCEPT !.rows = @ - 1, !.pc = "listener"]
       \/ /\ loop.rows > 0                              \* no such wd (any more)
          /\ loop' = [loop EXCEPT !.rows = @ - 1]
          /\ UNCHANGED <<event, track, table, spoilt>>
       \/ /\ loop.over /\ Lost(TRUE)
          /\ loop' = [loop EXCEPT !.over = FALSE, !.pc = "listener"]
    /\ UNCHANGED <<own, opens, inc, sock>>

RowsEnd ==
    /\ At("rows") /\ loop.rows = 0 /\ ~loop.over
    /\ loop' = [loop EXCEPT !.pc = "top"]
    /\ UNCHANGED <<own, opens, inc, sock, track, table, event, spoilt>>

ListenerReturns ==
    /\ Listening
    /\ IF At("lost") THEN ReturnIn
       ELSE /\ loop' = [loop EXCEPT !.pc = IF @ = "listener" /\ loop.obj \in Watchers
                                           THEN "rows" ELSE "top"]
            /\ UNCHANGED <<track, table, event, spoilt>>
    /\ UNCHANGED <<own, opens, inc, sock>>

ListenerThrows == Listening /\ Throws /\ UNCHANGED <<own, opens, inc, sock>>

Next ==
    \/ \E o \in Objs : Open(o) \/ Close(o)
    \/ \E n \in Fds : Arrives(n) \/ Overflows(n) \/ Deliver(n)
    \/ AcceptOne \/ RecvOne \/ DrainAll \/ Row \/ RowsEnd
    \/ ListenerReturns \/ ListenerThrows \/ TakeMask

Spec == Init /\ [][Next]_vars

-----------------------------------------------------------------------------
(* What an object tells came to it since it was opened, and it is open: it  *)
(* is otherwise only for a server or the watcher that the script has closed *)
(* in this very handler, and for a UDP socket that it closed and bound      *)
(* again there (net.c: "closed by a prior 'message' handler").              *)
OwnEvents ==
    Listening =>
        \/ event.to = event.from /\ event.inc = event.was /\ event.open
        \/ event.shut /\ (event.to \in Dgrams => event.open)

(* Between handlers pol watches what is open, for its owner: but for those  *)
(* whose number a closed UDP socket's handler gave up by its 0, in a job    *)
(* that follows it too, or that a throw or a failing watch cost.            *)
StaysWatched ==
    Idle => \A o \in Objs \ spoilt : own[o] # 0 => own[o] \in track /\ table[own[o]] = o

(* "Events were LOST" is said only when they were, unless fsw.stop was      *)
(* called in this very handler.                                             *)
LostIsReal == Listening => event.real \/ event.shut
=============================================================================
