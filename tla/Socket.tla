------------------------------- MODULE Socket -------------------------------
(***************************************************************************)
(* class Socket of net.c over pol.c's fd routing, the kernel's sockets and *)
(* fd numbers, and a peer.                                                 *)
(*                                                                         *)
(* _poll calls back into the application at every emit, and the            *)
(* application may then write, end, destroy or open sockets before _poll   *)
(* goes on.  So a run of _poll is a frame with a program counter, a call   *)
(* of a listener is a frame of its own above it, and the peer may act      *)
(* between any two steps.  Once _poll has returned its mask, pol drains    *)
(* the promise jobs before POL takes the mask: the application runs once   *)
(* more, with the frame at "jobs".  A socket object and its connection     *)
(* share a number; fds are reused, lowest first, as the kernel hands them  *)
(* out.                                                                    *)
(*                                                                         *)
(* Data is counted in chunks: what write() accepted, what the write buffer *)
(* holds, what the kernel took.                                            *)
(***************************************************************************)
EXTENDS Naturals, Sequences

CONSTANTS
    MaxFd,      \* bound: fd numbers, 1 .. MaxFd
    MaxSock,    \* bound: sockets a behaviour opens
    Chunks,     \* bound: socket -> chunks written on it
    MaxPeer,    \* bound: chunks its peer sends
    MaxDepth,   \* bound: frames on the stack
    Allow       \* what the application does besides: see Habits

Habits == {"endInDrain",      \* writes and ends from a 'drain' listener
           "reopen",          \* opens a socket while the event of a closed one is handled
           "lateWrite",       \* writes or ends in a job when the mask is without OUT
           "destroyOutside",  \* destroy() from outside the socket's own _poll
           "throws"}          \* throws from a listener

ASSUME SocketAssumption ==
    /\ MaxFd \in Nat /\ MaxSock \in Nat /\ MaxPeer \in Nat /\ MaxDepth \in Nat
    /\ Chunks \in [1 .. MaxSock -> Nat]
    /\ Allow \subseteq Habits

VARIABLES
    opened,  \* sockets opened so far
    S,       \* the Socket objects
    K,       \* the connections, as the kernel has them
    conn,    \* fd -> its connection, 0 when the fd is closed
    track,   \* fds abc/POL tracks
    mask,    \* fd -> the events it is polled for
    table,   \* fd -> the socket whose closure pol's table holds, 0 for none
    ret,     \* the mask a _poll returned and POL has not taken, {} for 0
    stack    \* the frames, innermost last

vars == <<opened, S, K, conn, track, mask, table, ret, stack>>
pols == <<track, mask, table, ret>>

Fds == 1 .. MaxFd
Socks == 1 .. MaxSock
Opened == 1 .. opened

NewSocket(f) == [fd |-> f, wb |-> 0, accepted |-> 0, readEnded |-> FALSE,
                 ending |-> FALSE, wrShut |-> FALSE, closed |-> FALSE]
NewConn == [sent |-> 0, room |-> TRUE, fin |-> FALSE,
            rx |-> 0, got |-> 0, peerFin |-> FALSE, rst |-> FALSE]

Handler(s, f, rev) == [pc |-> "poll", s |-> s, fd |-> f, rev |-> rev, ev |-> "none"]
Listener(s, ev) == [pc |-> "app", s |-> s, fd |-> S[s].fd, rev |-> {}, ev |-> ev]

Top == stack[Len(stack)]
Pop == SubSeq(stack, 1, Len(stack) - 1)
At(label) == stack # <<>> /\ Top.pc = label

\* The script or a timer, a listener, or a promise job.
AppRuns == stack = <<>> \/ At("app") \/ At("jobs")

\* The frame on top goes on at `label`; emit(ev) calls the listeners first.
Goto(label) == [stack EXCEPT ![Len(stack)].pc = label]
Emit(s, ev, label) == Append(Goto(label), Listener(s, ev))

Init ==
    /\ opened = 0
    /\ S = [s \in Socks |-> NewSocket(0)]
    /\ K = [s \in Socks |-> NewConn]
    /\ conn = [f \in Fds |-> 0]
    /\ track = {}
    /\ mask = [f \in Fds |-> {}]
    /\ table = [f \in Fds |-> 0]
    /\ ret = {}
    /\ stack = <<>>

-----------------------------------------------------------------------------
(* pol and the kernel, as Socket uses them.                                 *)

\* (mutant) the wake-up is not asked for.
NoMore(f) == UNCHANGED mask

\* pol.more: ORs into the mask, throws when the fd is not tracked; either way
\* the callers below leave nothing else undone.
More(f) == mask' = IF f \in track THEN [mask EXCEPT ![f] = @ \cup {"OUT"}]
                                  ELSE mask

\* The system calls, on whatever connection the number leads to.
Close(f) == conn' = [conn EXCEPT ![f] = 0]
ShutWr(c) == K' = IF c = 0 THEN K ELSE [K EXCEPT ![c].fin = TRUE]
SendThrows(c) == c = 0 \/ K[c].rst \/ K[c].fin
Recv(c) == IF c = 0 \/ K[c].rst THEN "throws"
           ELSE IF K[c].rx > 0 THEN "data"
           ELSE IF K[c].peerFin THEN "eof" ELSE "again"

Events(c) ==
    IF c = 0 THEN {"NVAL"}
    ELSE UNION {
        IF K[c].rst THEN {"ERR", "HUP", "IN", "OUT"} ELSE {},
        IF K[c].rx > 0 \/ K[c].peerFin THEN {"IN"} ELSE {},
        IF K[c].room THEN {"OUT"} ELSE {},
        IF K[c].fin /\ K[c].peerFin THEN {"HUP"} ELSE {}}
Revents(f) == Events(conn[f]) \cap (mask[f] \cup {"ERR", "HUP", "NVAL"})

-----------------------------------------------------------------------------
(* What the application calls: from listeners, from promise jobs, and from  *)
(* timers or the script, when no _poll is on the stack.                     *)

\* The event of a closed socket is being handled: its fd is free, POL still
\* has it and will drop it or set its mask.
Closing == \E i \in 1 .. Len(stack) : stack[i].pc # "app" /\ S[stack[i].s].closed

\* net.connect, or an accepted connection: a Socket on the lowest free fd,
\* registered with pol.
Open ==
    /\ AppRuns /\ opened < MaxSock
    /\ Closing => "reopen" \in Allow
    /\ \E f \in Fds :
        /\ conn[f] = 0 /\ \A g \in Fds : g < f => conn[g] # 0
        /\ opened' = opened + 1
        /\ S' = [S EXCEPT ![opened + 1] = NewSocket(f)]
        /\ conn' = [conn EXCEPT ![f] = opened + 1]
        /\ table' = [table EXCEPT ![f] = opened + 1]
        /\ track' = track \cup {f}
        /\ mask' = [mask EXCEPT ![f] = {"IN"}]
    /\ UNCHANGED <<K, ret, stack>>

\* _poll of s has returned a mask without OUT, which POL is about to set.
Late(s) ==
    /\ ~S[s].closed
    /\ \E i \in 1 .. Len(stack) :
        stack[i].pc = "jobs" /\ stack[i].s = s /\ "OUT" \notin ret

\* socket.write(chunk)
Write(s) ==
    /\ AppRuns
    /\ Late(s) => "lateWrite" \in Allow
    /\ ~S[s].closed /\ ~S[s].ending
    /\ S[s].accepted < Chunks[s]
    /\ S' = [S EXCEPT ![s].wb = @ + 1, ![s].accepted = @ + 1]
    /\ More(S[s].fd)
    /\ UNCHANGED <<opened, K, conn, track, table, ret, stack>>

\* `_flush` of s is waiting for its 'drain' listeners.
Draining(s) == \E i \in 1 .. Len(stack) : stack[i].pc = "drained" /\ stack[i].s = s

\* socket.end()
End(s) ==
    /\ AppRuns /\ ~S[s].ending
    /\ Late(s) => "lateWrite" \in Allow
    /\ Draining(s) /\ S[s].wb > 0 => "endInDrain" \in Allow
    /\ S' = [S EXCEPT ![s].ending = TRUE]
    /\ IF S[s].closed THEN UNCHANGED mask ELSE More(S[s].fd)
    /\ UNCHANGED <<opened, K, conn, track, table, ret, stack>>

\* socket.end(chunk): write, then end; a throw of write's pol.more leaves
\* before _ending is set.
EndWith(s) ==
    /\ AppRuns
    /\ Late(s) => "lateWrite" \in Allow
    /\ Draining(s) => "endInDrain" \in Allow
    /\ ~S[s].closed /\ ~S[s].ending
    /\ S[s].accepted < Chunks[s]
    /\ S' = [S EXCEPT ![s].wb = @ + 1, ![s].accepted = @ + 1,
                      ![s].ending = (S[s].fd \in track)]
    /\ More(S[s].fd)
    /\ UNCHANGED <<opened, K, conn, track, table, ret, stack>>

\* _doClose, when not closed yet, up to its emit("close").
CloseFd(s) ==
    /\ S' = [S EXCEPT ![s].closed = TRUE]
    /\ Close(S[s].fd)

\* socket.destroy().  pol keeps polling the closed fd.
Destroy(s) ==
    /\ AppRuns /\ ~S[s].closed
    /\ Len(stack) < MaxDepth
    /\ (\E i \in 1 .. Len(stack) : stack[i].s = s /\ stack[i].pc \notin {"app", "jobs"})
        \/ "destroyOutside" \in Allow
    /\ S' = [S EXCEPT ![s].closed = TRUE, ![s].ending = TRUE]
    /\ Close(S[s].fd)
    /\ stack' = Append(stack, Listener(s, "close"))
    /\ UNCHANGED <<opened, K, pols>>

ListenerReturns ==
    /\ At("app")
    /\ stack' = Pop
    /\ UNCHANGED <<opened, S, K, conn, pols>>

\* A listener's exception unwinds everything up to the script, to the job
\* that called it, or to pol's trampoline, whose mask is then 0; pol's table
\* keeps its entry.  It reaches no catch of net.js on the way: those are
\* around the system calls.
ListenerThrows ==
    /\ At("app") /\ "throws" \in Allow
    /\ IF stack[1].pc = "app" THEN stack' = <<>>
       ELSE stack' = <<[stack[1] EXCEPT !.pc = "jobs"]>>
    /\ ret' = IF stack[1].pc = "jobs" THEN ret ELSE {}
    /\ UNCHANGED <<opened, S, K, conn, track, mask, table>>

-----------------------------------------------------------------------------
(* _poll                                                                    *)

\* pol delivers an event: pol._fd finds the closure of a socket, or none and
\* drops the fd.
Deliver(f) ==
    /\ stack = <<>>
    /\ f \in track /\ Revents(f) # {}
    /\ IF table[f] = 0
       THEN /\ track' = track \ {f}
            /\ UNCHANGED <<mask, table, ret, stack>>
       ELSE /\ stack' = <<Handler(table[f], f, Revents(f))>>
            /\ UNCHANGED pols
    /\ UNCHANGED <<opened, S, K, conn>>

\* `revents & (ERR | NVAL)`: _fatal, up to its emit.
PollError ==
    /\ At("poll") /\ Top.rev \cap {"ERR", "NVAL"} # {}
    /\ stack' = Emit(Top.s, "error", "fatal")
    /\ UNCHANGED <<opened, S, K, conn, pols>>

\* No OUT to serve.
PollIn ==
    /\ At("poll") /\ Top.rev \cap {"ERR", "NVAL", "OUT"} = {}
    /\ stack' = Goto("in")
    /\ UNCHANGED <<opened, S, K, conn, pols>>

\* (mutant) the buffer is reset after a partial send.
RestNone(s, n) == 0

\* (mutant) skip() goes one past what went out.
RestLess(s, n) == S[s].wb - n - 1

\* What the buffer holds once n chunks went out.
Rest(s, n) == S[s].wb - n

\* _flush: send until done or would-block; a throw is _fatal; the buffer
\* running empty is 'drain'.
Flush ==
    /\ At("poll") /\ Top.rev \cap {"ERR", "NVAL"} = {} /\ "OUT" \in Top.rev
    /\ LET s == Top.s
           c == conn[S[s].fd]
       IN  IF S[s].wb > 0 /\ SendThrows(c)
           THEN /\ stack' = Emit(s, "error", "fatal")
                /\ UNCHANGED <<S, K>>
           ELSE \E n \in (IF S[s].wb = 0 THEN 0 ELSE 1) .. S[s].wb :
                    /\ S' = [S EXCEPT ![s].wb = Rest(s, n)]
                    /\ K' = IF n = 0 THEN K
                            ELSE [K EXCEPT ![c].sent = @ + n,
                                           ![c].room = (n = S[s].wb)]
                    /\ stack' = IF Rest(s, n) = 0 THEN Emit(s, "drain", "drained")
                                ELSE Goto("in")
    /\ UNCHANGED <<opened, conn, pols>>

\* (mutant) `if (this._ending) return 0`
AfterDrainEnding(s) == IF S[s].ending THEN "return" ELSE "in"

\* (mutant) no `if (this._closed) return 0`
AfterDrainOn(s) == "in"

AfterDrain(s) == IF S[s].closed THEN "return" ELSE "in"

\* (mutant) every drained socket is shut down.
FinAlways(s) == ~S[s].wrShut

FinDue(s) == S[s].ending /\ ~S[s].wrShut

\* After emit("drain"): the FIN that end() asked for; then `if closed return 0`.
Drained ==
    /\ At("drained")
    /\ LET s == Top.s
           c == conn[S[s].fd]
       IN  /\ IF FinDue(s)
              THEN /\ S' = [S EXCEPT ![s].wrShut = TRUE]
                   /\ ShutWr(c)
              ELSE UNCHANGED <<S, K>>
           /\ stack' = Goto(AfterDrain(s))
    /\ UNCHANGED <<opened, conn, pols>>

\* _readEnd up to its emit, once.
ReadEnd(s) ==
    IF S[s].readEnded THEN /\ stack' = Goto("mask")
                           /\ UNCHANGED S
    ELSE /\ S' = [S EXCEPT ![s].readEnded = TRUE]
         /\ stack' = Emit(s, "end", "ended")

\* One recv: an error, data, EOF, or nothing.
Receive ==
    /\ At("in") /\ "IN" \in Top.rev
    /\ LET s == Top.s
           c == conn[S[s].fd]
       IN  \/ /\ Recv(c) = "throws"
              /\ stack' = Emit(s, "error", "fatal")
              /\ UNCHANGED <<S, K>>
           \/ /\ Recv(c) = "data"
              /\ K' = [K EXCEPT ![c].rx = 0]
              /\ stack' = Emit(s, "data", "mask")
              /\ UNCHANGED S
           \/ /\ Recv(c) = "eof"
              /\ ReadEnd(s)
              /\ UNCHANGED K
           \/ /\ Recv(c) = "again"
              /\ stack' = Goto("mask")
              /\ UNCHANGED <<S, K>>
    /\ UNCHANGED <<opened, conn, pols>>

\* `HUP && !IN`
Hangup ==
    /\ At("in") /\ "IN" \notin Top.rev
    /\ IF "HUP" \in Top.rev THEN ReadEnd(Top.s)
       ELSE /\ stack' = Goto("mask")
            /\ UNCHANGED S
    /\ UNCHANGED <<opened, K, conn, pols>>

\* (mutant) half-open is allowed: no this.end().
EndedOpen ==
    /\ At("ended")
    /\ stack' = Goto("mask")
    /\ UNCHANGED <<opened, S, K, conn, pols>>

\* The rest of _readEnd: this.end().
Ended ==
    /\ At("ended")
    /\ S' = [S EXCEPT ![Top.s].ending = TRUE]
    /\ IF S[Top.s].closed THEN UNCHANGED mask ELSE More(S[Top.s].fd)
    /\ stack' = Goto("mask")
    /\ UNCHANGED <<opened, K, conn, track, table, ret>>

\* (mutant) _doClose without `if (this._closed) return`
FatalAgain ==
    /\ At("fatal")
    /\ CloseFd(Top.s)
    /\ stack' = Emit(Top.s, "close", "return")
    /\ UNCHANGED <<opened, K, pols>>

\* The rest of _fatal: _doClose.
Fatal ==
    /\ At("fatal")
    /\ IF S[Top.s].closed THEN /\ stack' = Goto("return")
                               /\ UNCHANGED <<S, conn>>
       ELSE /\ CloseFd(Top.s)
            /\ stack' = Emit(Top.s, "close", "return")
    /\ UNCHANGED <<opened, K, pols>>

\* (mutant) the FIN is not waited for.
WantsData(s) == S[s].wb > 0

WantsOut(s) == S[s].wb > 0 \/ FinDue(s)

\* _mask: both sides done closes, otherwise the next interest is returned.
Mask ==
    /\ At("mask")
    /\ LET s == Top.s
           m == (IF S[s].readEnded THEN {} ELSE {"IN"})
                    \cup (IF WantsOut(s) THEN {"OUT"} ELSE {})
       IN  IF S[s].closed
           THEN /\ stack' = Goto("return")
                /\ UNCHANGED <<S, conn, ret>>
           ELSE IF S[s].readEnded /\ S[s].wrShut
           THEN /\ CloseFd(s)
                /\ stack' = Emit(s, "close", "return")
                /\ UNCHANGED ret
           ELSE /\ ret' = IF m = {} THEN {"IN"} ELSE m
                /\ stack' = Goto("jobs")
                /\ UNCHANGED <<S, conn>>
    /\ UNCHANGED <<opened, K, track, mask, table>>

\* _poll returns 0: pol._fd deletes the table's entry for the fd.
ReturnZero ==
    /\ At("return")
    /\ table' = [table EXCEPT ![Top.fd] = 0]
    /\ ret' = {}
    /\ stack' = Goto("jobs")
    /\ UNCHANGED <<opened, S, K, conn, track, mask>>

\* The jobs have run, POL takes the mask: it drops the fd for 0.
TakeMask ==
    /\ At("jobs")
    /\ IF ret = {} THEN /\ track' = track \ {Top.fd}
                        /\ UNCHANGED mask
       ELSE /\ mask' = [mask EXCEPT ![Top.fd] = ret]
            /\ UNCHANGED track
    /\ ret' = {}
    /\ stack' = Pop
    /\ UNCHANGED <<opened, S, K, conn, table>>

-----------------------------------------------------------------------------
(* The peer and the network.                                                *)
Alive(s) == (\E f \in Fds : conn[f] = s) /\ ~K[s].rst

PeerSends(s) ==
    /\ Alive(s) /\ ~K[s].peerFin /\ K[s].got < MaxPeer
    /\ K' = [K EXCEPT ![s].rx = @ + 1, ![s].got = @ + 1]
    /\ UNCHANGED <<opened, S, conn, pols, stack>>

PeerFin(s) ==
    /\ Alive(s) /\ ~K[s].peerFin
    /\ K' = [K EXCEPT ![s].peerFin = TRUE]
    /\ UNCHANGED <<opened, S, conn, pols, stack>>

PeerReset(s) ==
    /\ Alive(s)
    /\ K' = [K EXCEPT ![s].rst = TRUE]
    /\ UNCHANGED <<opened, S, conn, pols, stack>>

PeerReads(s) ==
    /\ Alive(s) /\ ~K[s].room
    /\ K' = [K EXCEPT ![s].room = TRUE]
    /\ UNCHANGED <<opened, S, conn, pols, stack>>

-----------------------------------------------------------------------------
App ==
    \/ Open
    \/ \E s \in Opened : Write(s) \/ End(s) \/ EndWith(s) \/ Destroy(s)
PollSteps ==
    \/ PollError \/ PollIn \/ Flush \/ Drained \/ Receive \/ Hangup \/ Ended
    \/ Fatal \/ Mask \/ ReturnZero \/ TakeMask
    \/ ListenerReturns \/ ListenerThrows
Peer == \E s \in Socks : PeerSends(s) \/ PeerFin(s) \/ PeerReset(s) \/ PeerReads(s)

Next == App \/ (\E f \in Fds : Deliver(f)) \/ PollSteps \/ Peer

Spec == Init /\ [][Next]_vars

(* The loop runs and polls every fd, listeners return, the peer keeps       *)
(* reading what it is sent.                                                 *)
FairSpec ==
    /\ Spec
    /\ WF_vars(PollSteps)
    /\ \A f \in Fds : SF_vars(Deliver(f))
    /\ \A s \in Socks : WF_vars(PeerReads(s))

-----------------------------------------------------------------------------
Labels == {"poll", "drained", "in", "ended", "mask", "fatal", "return", "jobs", "app"}

Frames == [pc : Labels, s : Socks, fd : Fds,
           rev : SUBSET {"IN", "OUT", "ERR", "HUP", "NVAL"},
           ev : {"none", "data", "drain", "end", "error", "close"}]
Sockets == [fd : Fds \cup {0}, wb : Nat, accepted : Nat, readEnded : BOOLEAN,
            ending : BOOLEAN, wrShut : BOOLEAN, closed : BOOLEAN]
Conns == [sent : Nat, room : BOOLEAN, fin : BOOLEAN, rx : Nat, got : Nat,
          peerFin : BOOLEAN, rst : BOOLEAN]

TypeOK ==
    /\ opened \in 0 .. MaxSock
    /\ S \in [Socks -> Sockets]
    /\ K \in [Socks -> Conns]
    /\ conn \in [Fds -> 0 .. MaxSock]
    /\ track \subseteq Fds
    /\ mask \in [Fds -> SUBSET {"IN", "OUT"}]
    /\ table \in [Fds -> 0 .. MaxSock]
    /\ ret \subseteq {"IN", "OUT"}
    /\ stack \in Seq(Frames)

Emitted(ev, s) ==
    /\ Len(stack') > Len(stack)
    /\ stack'[Len(stack')].ev = ev /\ stack'[Len(stack')].s = s

(* A socket that is not closed has its fd to itself: no socket ever closes, *)
(* reads or writes a connection through a number the kernel gave to another *)
(* one, however close and reopen interleave with the listeners.             *)
OwnFd == \A s \in Opened : ~S[s].closed => conn[S[s].fd] = s

(* Every chunk write() accepted is either still buffered or was handed to   *)
(* the kernel once: would-block, partial sends and EPIPE lose or repeat     *)
(* nothing while the socket lives.                                          *)
NothingLost == \A s \in Opened : S[s].accepted = S[s].wb + K[s].sent

(* Between events, a live socket is watched by pol and the table's closure  *)
(* is its own (net.c:5: "Sockets register their fd with pol.watch;          *)
(* readiness drives 'data'/'drain'/'connection'").                          *)
LiveWatched ==
    stack = <<>> => \A s \in Opened :
        ~S[s].closed => S[s].fd \in track /\ table[S[s].fd] = s

(* Between events, a socket with bytes or a FIN to send is polled for OUT:  *)
(* the wake-up that write() and end() ask of pol.more (net.c:323: "ask the  *)
(* loop to drain it") survives the mask that a running _poll hands back.    *)
PendingPolled ==
    stack = <<>> => \A s \in Opened :
        ~S[s].closed /\ (S[s].wb > 0 \/ (S[s].ending /\ ~S[s].wrShut))
            => "OUT" \in mask[S[s].fd]

(* end() finishes writing before shutdown (net.c:262): a connection whose   *)
(* FIN is out has taken everything that was written on it.                  *)
FinAfterData == \A s \in Opened : K[s].fin => K[s].sent = S[s].accepted

(* net._shutwr "is what socket.end() maps to" (net.c:133): no connection is *)
(* half-closed unless its own socket was ended.                             *)
FinIsOwn == \A s \in Opened : K[s].fin => S[s].ending

(* A socket that said 'close' says no more: neither data nor 'drain', 'end' *)
(* or 'error'.                                                              *)
QuietAfterClose ==
    [][\A s \in Socks, ev \in {"data", "drain", "end", "error"} :
        Emitted(ev, s) => ~S[s].closed]_vars

(* Once the peer's FIN was read, the socket finishes its own side "so the   *)
(* fd eventually closes" (net.c:283), without the application's help.       *)
ClosesAfterEof == \A s \in Socks : S[s].readEnded ~> S[s].closed

(* What was written is sent in the end, unless the socket dies.             *)
WritesFlush == \A s \in Socks : S[s].wb > 0 ~> (S[s].wb = 0 \/ S[s].closed)
=============================================================================
