---------------------------- MODULE Socket_proofs ----------------------------
(***************************************************************************)
(* Proofs about Socket, for any number of sockets, fds, chunks and frames. *)
(* A theorem that needs the application to keep to some rule names the     *)
(* habits it excludes; the others are for every Allow.                     *)
(***************************************************************************)
EXTENDS Socket, SequenceTheorems, TLAPS

Depth == Len(stack)

-----------------------------------------------------------------------------
(* The stack.                                                               *)

LEMMA Prefix ==
    ASSUME NEW F, NEW s \in Seq(F), NEW n \in Nat, n <= Len(s)
    PROVE  /\ SubSeq(s, 1, n) \in Seq(F) /\ Len(SubSeq(s, 1, n)) = n
           /\ \A i \in 1 .. n : SubSeq(s, 1, n)[i] = s[i]
  OBVIOUS

LEMMA TopFrame ==
    ASSUME stack \in Seq(Frames), stack # <<>>
    PROVE  /\ Depth \in Nat /\ 1 \in 1 .. Depth /\ Depth \in 1 .. Depth
           /\ Top \in Frames /\ Top = stack[Depth]
  <1>1. Len(stack) \in Nat /\ Len(stack) # 0
    BY EmptySeq
  <1>2. PICK k \in 1 .. Len(stack) : k = Len(stack)
    BY <1>1
  <1>3. Top = stack[k] /\ stack[k] \in Frames
    BY <1>2 DEF Top
  <1> QED BY <1>1, <1>2, <1>3 DEF Depth, Top

LEMMA PopFrame ==
    ASSUME stack \in Seq(Frames), stack # <<>>
    PROVE  /\ Pop \in Seq(Frames) /\ Depth = Len(Pop) + 1
           /\ \A i \in 1 .. Len(Pop) : Pop[i] = stack[i]
  <1>1. PICK n \in Nat : Len(stack) = n + 1
    <2>1. Len(stack) \in Nat /\ Len(stack) # 0
      BY EmptySeq
    <2>2. Len(stack) - 1 \in Nat /\ Len(stack) = (Len(stack) - 1) + 1
      BY <2>1
    <2> QED BY <2>2
  <1>2. Pop = SubSeq(stack, 1, n)
    BY <1>1 DEF Pop
  <1> QED BY <1>1, <1>2, Prefix DEF Depth

LEMMA GotoFrame ==
    ASSUME stack \in Seq(Frames), stack # <<>>, NEW l \in Labels
    PROVE  /\ Goto(l) \in Seq(Frames) /\ Len(Goto(l)) = Depth
           /\ Goto(l)[Depth] = [Top EXCEPT !.pc = l]
           /\ \A i \in 1 .. Depth : i # Depth => Goto(l)[i] = stack[i]
  <1>1. PICK k \in 1 .. Len(stack) : k = Len(stack)
    BY TopFrame DEF Depth
  <1>2. [Top EXCEPT !.pc = l] \in Frames
    BY TopFrame DEF Frames
  <1>3. PICK fr \in Frames : fr = [Top EXCEPT !.pc = l]
    BY <1>2
  <1>4. Goto(l) = [stack EXCEPT ![k] = fr]
    BY <1>1, <1>3 DEF Top, Goto
  <1>5. LET new == [stack EXCEPT ![k] = fr] IN
        /\ new \in Seq(Frames) /\ Len(new) = Len(stack) /\ new[k] = fr
        /\ \A i \in 1 .. Len(stack) : i # k => new[i] = stack[i]
    BY ExceptSeq
  <1> QED BY <1>1, <1>3, <1>4, <1>5 DEF Depth

LEMMA Pushed ==
    ASSUME NEW F, NEW q \in Seq(F), NEW e \in F, NEW n \in Nat, Len(q) = n
    PROVE  /\ Append(q, e) \in Seq(F) /\ Append(q, e) # <<>>
           /\ Len(Append(q, e)) = n + 1 /\ Append(q, e)[n + 1] = e
           /\ \A i \in 1 .. n : Append(q, e)[i] = q[i]
  BY AppendProperties

-----------------------------------------------------------------------------
(* Whose fd a number is.                                                    *)

(* Open sockets have a number to themselves; the kernel's connections and   *)
(* pol's table lead to the socket that was given the number.                *)
Owned ==
    /\ \A s \in Opened : S[s].fd \in Fds
    /\ \A s \in Opened : ~S[s].closed => conn[S[s].fd] = s
    /\ \A f \in Fds : conn[f] # 0 =>
          conn[f] \in Opened /\ ~S[conn[f]].closed /\ S[conn[f]].fd = f
    /\ \A f \in Fds : table[f] # 0 =>
          /\ table[f] \in Opened /\ S[table[f]].fd = f
          /\ conn[f] # 0 => conn[f] = table[f]

(* A _poll is at the bottom of the stack, listeners above it; it serves the *)
(* socket it found, on that socket's number.                                *)
Framed ==
    \A i \in 1 .. Depth :
        /\ stack[i].s \in Opened /\ S[stack[i].s].fd = stack[i].fd
        /\ stack[i].pc # "app" => i = 1

(* Where the _poll is tells what became of its socket.                      *)
Served ==
    Depth >= 1 =>
        /\ stack[1].pc = "poll" =>
              Depth = 1 /\ (S[stack[1].s].closed => "NVAL" \in stack[1].rev)
        /\ stack[1].pc = "in" => Depth = 1 /\ ~S[stack[1].s].closed
        /\ stack[1].pc = "return" => S[stack[1].s].closed

Inv == TypeOK /\ Owned /\ Framed /\ Served

LEMMA OpenedSocks == ASSUME TypeOK PROVE Opened \subseteq Socks /\ opened \in Nat
  BY SocketAssumption DEF TypeOK, Opened, Socks

LEMMA ZeroSock == 0 \in 0 .. MaxSock
  BY SocketAssumption

LEMMA Fields ==
    ASSUME TypeOK, NEW s \in Socks
    PROVE  /\ [S EXCEPT ![s].closed = TRUE] \in [Socks -> Sockets]
           /\ [S EXCEPT ![s].ending = TRUE] \in [Socks -> Sockets]
           /\ [S EXCEPT ![s].wrShut = TRUE] \in [Socks -> Sockets]
           /\ [S EXCEPT ![s].readEnded = TRUE] \in [Socks -> Sockets]
           /\ [conn EXCEPT ![S[s].fd] = 0] \in [Fds -> 0 .. MaxSock]
  <1>1. S \in [Socks -> Sockets] /\ conn \in [Fds -> 0 .. MaxSock]
    BY DEF TypeOK
  <1>2. [S EXCEPT ![s].closed = TRUE] \in [Socks -> Sockets]
    BY <1>1 DEF Sockets
  <1>3. [S EXCEPT ![s].ending = TRUE] \in [Socks -> Sockets]
    BY <1>1 DEF Sockets
  <1>4. [S EXCEPT ![s].wrShut = TRUE] \in [Socks -> Sockets]
    BY <1>1 DEF Sockets
  <1>5. [S EXCEPT ![s].readEnded = TRUE] \in [Socks -> Sockets]
    BY <1>1 DEF Sockets
  <1>6. [conn EXCEPT ![S[s].fd] = 0] \in [Fds -> 0 .. MaxSock]
    BY <1>1, ZeroSock
  <1> QED BY <1>2, <1>3, <1>4, <1>5, <1>6

LEMMA InvTyped == ASSUME Inv PROVE S \in [Socks -> Sockets] /\ K \in [Socks -> Conns]
  BY DEF Inv, TypeOK

LEMMA InvInit == Init => Inv
  <1> SUFFICES ASSUME Init PROVE Inv
    OBVIOUS
  <1>1. TypeOK
    BY SocketAssumption, EmptySeq
       DEF Init, TypeOK, Opened, NewSocket, NewConn, Sockets, Conns, Socks, Fds
  <1>2. Owned
    BY SocketAssumption DEF Init, Owned, Opened
  <1>3. Depth = 0
    BY EmptySeq DEF Init, Depth
  <1> QED BY <1>1, <1>2, <1>3 DEF Inv, Framed, Served

(* The steps that leave sockets their fds.                                  *)
SameFds ==
    /\ opened' = opened
    /\ \A s \in Opened : S'[s].fd = S[s].fd

Soft == SameFds /\ \A s \in Opened : S'[s].closed = S[s].closed

LEMMA OwnedSoft ==
    ASSUME Inv, Soft, UNCHANGED <<conn, table>>
    PROVE  Owned'
  <1>1. Opened' = Opened
    BY DEF Soft, SameFds, Opened
  <1> QED BY <1>1, OpenedSocks DEF Inv, Owned, Soft, SameFds

LEMMA OwnedClose ==
    ASSUME Inv, SameFds, NEW s \in Opened, ~S[s].closed, Close(S[s].fd), UNCHANGED table,
           S'[s].closed, \A t \in Opened : t # s => S'[t].closed = S[t].closed
    PROVE  Owned'
  <1>1. Opened' = Opened
    BY DEF SameFds, Opened
  <1>2. \A f \in Fds : conn'[f] = IF f = S[s].fd THEN 0 ELSE conn[f]
    BY DEF Inv, TypeOK, Close
  <1>3. \A t \in Opened : ~S'[t].closed => conn'[S'[t].fd] = t
    BY <1>1, <1>2 DEF Inv, Owned, SameFds
  <1>4. \A f \in Fds : conn'[f] # 0 =>
          conn'[f] \in Opened /\ ~S'[conn'[f]].closed /\ S'[conn'[f]].fd = f
    BY <1>1, <1>2 DEF Inv, Owned, SameFds
  <1>5. \A f \in Fds : table'[f] # 0 =>
          /\ table'[f] \in Opened /\ S'[table'[f]].fd = f
          /\ conn'[f] # 0 => conn'[f] = table'[f]
    BY <1>1, <1>2 DEF Inv, Owned, SameFds
  <1> QED BY <1>1, <1>3, <1>4, <1>5 DEF Inv, Owned, SameFds

(* The frame on top, when it is a _poll's.                                  *)
LEMMA PollTop ==
    ASSUME Inv, NEW l, l # "app", At(l)
    PROVE  /\ Depth = 1 /\ Top = stack[1] /\ stack # <<>> /\ Top \in Frames
           /\ Top.s \in Opened /\ S[Top.s].fd = Top.fd /\ Top.fd \in Fds
  <1>1. Depth \in 1 .. Depth /\ Top \in Frames /\ Top = stack[Depth] /\ Top.pc # "app"
    BY TopFrame DEF At, Inv, TypeOK
  <1>2. Depth = 1
    BY <1>1, Zenon DEF Inv, Framed
  <1> QED BY <1>1, <1>2 DEF At, Inv, Framed, Frames

(* What _poll's steps do to the stack.                                      *)
Went(l) == \* the frame at the bottom goes on at l
    /\ stack'[1] = [stack[1] EXCEPT !.pc = l]
    /\ Depth' = 1 \/ (Depth' = 2 /\ stack'[2].pc = "app"
                      /\ stack'[2].s = stack[1].s /\ stack'[2].fd = stack[1].fd)

LEMMA WentFramed ==
    ASSUME Inv, SameFds, Depth = 1, stack[1] \in Frames, stack[1].pc # "app",
           NEW l \in Labels \ {"poll", "app"}, Went(l),
           l = "in" => Depth' = 1 /\ ~S'[stack[1].s].closed,
           l = "return" => S'[stack[1].s].closed
    PROVE  Framed' /\ Served'
  <1>1. stack[1].s \in Opened /\ S[stack[1].s].fd = stack[1].fd
    BY DEF Inv, Framed
  <1>2. Opened' = Opened
    BY DEF SameFds, Opened
  <1>3. stack'[1].pc = l /\ stack'[1].s = stack[1].s /\ stack'[1].fd = stack[1].fd
    BY DEF Went, Frames
  <1>4. Served'
    BY <1>3 DEF Served
  <1>5. \A i \in 1 .. Depth' : i = 1 \/ (i = 2 /\ Depth' = 2)
    BY DEF Went
  <1>6. Framed'
    BY <1>1, <1>2, <1>3, <1>5 DEF Framed, SameFds, Went
  <1> QED BY <1>4, <1>6

LEMMA GoneTo ==
    ASSUME Inv, NEW k, k # "app", At(k), NEW l \in Labels, stack' = Goto(l)
    PROVE  stack' \in Seq(Frames) /\ Went(l) /\ Depth' = 1
  <1>1. Depth = 1 /\ Top = stack[1] /\ stack # <<>>
    BY PollTop
  <1>2. Goto(l) \in Seq(Frames) /\ Len(Goto(l)) = Depth /\ Goto(l)[Depth] = [Top EXCEPT !.pc = l]
    BY <1>1, GotoFrame DEF Inv, TypeOK
  <1>3. Depth' = 1 /\ stack'[1] = [stack[1] EXCEPT !.pc = l]
    BY <1>1, <1>2, Zenon DEF Depth
  <1> QED BY <1>2, <1>3 DEF Went

LEMMA Emitting ==
    ASSUME Inv, NEW k, k # "app", At(k), NEW l \in Labels,
           NEW ev \in {"data", "drain", "end", "error", "close"}, stack' = Emit(Top.s, ev, l)
    PROVE  stack' \in Seq(Frames) /\ Went(l)
  <1>1. /\ Depth = 1 /\ Top = stack[1] /\ stack # <<>> /\ Top \in Frames
        /\ Top.s \in Opened /\ S[Top.s].fd = Top.fd /\ Top.fd \in Fds
    BY PollTop
  <1>2. Goto(l) \in Seq(Frames) /\ Len(Goto(l)) = Depth /\ Goto(l)[Depth] = [Top EXCEPT !.pc = l]
    BY <1>1, GotoFrame DEF Inv, TypeOK
  <1>3. /\ Listener(Top.s, ev) \in Frames /\ Listener(Top.s, ev).pc = "app"
        /\ Listener(Top.s, ev).s = Top.s /\ Listener(Top.s, ev).fd = Top.fd
    BY <1>1 DEF Listener, Frames, Labels
  <1>4. /\ stack' \in Seq(Frames) /\ Depth' = 1 + 1 /\ stack'[1 + 1] = Listener(Top.s, ev)
        /\ \A i \in 1 .. 1 : stack'[i] = Goto(l)[i]
    BY <1>1, <1>2, <1>3, Pushed DEF Emit, Depth
  <1>5. stack'[1] = [stack[1] EXCEPT !.pc = l]
    BY <1>1, <1>2, <1>4
  <1> QED BY <1>1, <1>3, <1>4, <1>5 DEF Went

(* Steps of the application and of the peer that leave the stack alone.     *)
LEMMA StackStays ==
    ASSUME Inv, TypeOK', Soft, UNCHANGED <<conn, table, stack>>
    PROVE  Inv'
  <1>1. Opened' = Opened /\ Depth' = Depth
    BY DEF Soft, SameFds, Opened, Depth
  <1>2. Framed' /\ Served'
    BY <1>1 DEF Inv, Framed, Served, Soft, SameFds
  <1> QED BY <1>2, OwnedSoft DEF Inv

LEMMA PollGoes ==
    ASSUME Inv, TypeOK', Soft, UNCHANGED <<conn, table>>, NEW k, k # "app", At(k),
           NEW l \in Labels \ {"poll", "app"}, Went(l),
           l = "in" => Depth' = 1 /\ ~S[Top.s].closed,
           l = "return" => S[Top.s].closed
    PROVE  Inv'
  <1>1. /\ Depth = 1 /\ Top = stack[1] /\ stack[1] \in Frames /\ stack[1].pc # "app"
        /\ Top.s \in Opened
    BY PollTop DEF At
  <1>2. Framed' /\ Served'
    BY <1>1, WentFramed DEF Soft
  <1> QED BY <1>2, OwnedSoft DEF Inv

LEMMA PollCloses ==
    ASSUME Inv, TypeOK', NEW k, k # "app", At(k), CloseFd(Top.s), ~S[Top.s].closed,
           UNCHANGED <<opened, table>>, Went("return")
    PROVE  Inv'
  <1>1. /\ Depth = 1 /\ Top = stack[1] /\ stack[1] \in Frames /\ stack[1].pc # "app"
        /\ Top.s \in Opened
    BY PollTop DEF At
  <1>2. SameFds /\ S'[Top.s].closed /\ \A t \in Opened : t # Top.s => S'[t].closed = S[t].closed
    BY <1>1, OpenedSocks DEF SameFds, CloseFd, Inv, TypeOK, Sockets
  <1>3. Framed' /\ Served'
    BY <1>1, <1>2, WentFramed DEF Labels
  <1>4. Owned'
    BY <1>1, <1>2, OwnedClose DEF CloseFd
  <1> QED BY <1>3, <1>4 DEF Inv

LEMMA OneLess ==
    \A m, n : n \in Nat /\ m = n + 1 =>
        /\ \A i \in 1 .. n : i \in 1 .. m
        /\ n = 0 \/ (n >= 1 /\ m >= 1 /\ m # 1)
  OBVIOUS

LEMMA PopKeeps ==
    ASSUME Inv, Soft, stack # <<>>, stack' = Pop
    PROVE  stack' \in Seq(Frames) /\ Framed' /\ Served'
  <1>1. /\ stack' \in Seq(Frames) /\ Depth = Depth' + 1
        /\ \A i \in 1 .. Depth' : stack'[i] = stack[i]
    BY PopFrame DEF Inv, TypeOK, Depth
  <1>2. Depth' \in Nat
    BY <1>1 DEF Depth
  <1>3. /\ \A i \in 1 .. Depth' : i \in 1 .. Depth /\ stack'[i] = stack[i]
        /\ Depth' = 0 \/ (Depth' >= 1 /\ Depth >= 1 /\ Depth # 1)
    BY <1>1, <1>2, OneLess, Zenon
  <1>4. Opened' = Opened
    BY DEF Soft, SameFds, Opened
  <1>5. Framed'
    BY <1>3, <1>4 DEF Inv, Framed, Soft, SameFds
  <1>6. ASSUME Depth' = 0 PROVE Served'
    BY <1>6 DEF Served
  <1>7. ASSUME Depth' >= 1 /\ Depth >= 1 /\ Depth # 1 PROVE Served'
    <2>1. stack'[1] = stack[1] /\ 1 \in 1 .. Depth
      <3>1. 1 \in 1 .. Depth'
        BY <1>2, <1>7
      <3> QED BY <1>3, <3>1, Zenon
    <2>2. stack[1].s \in Opened
      BY <2>1 DEF Inv, Framed
    <2>3. stack[1].pc # "poll" /\ stack[1].pc # "in"
      BY <1>7, Zenon DEF Inv, Served
    <2>4. stack[1].pc = "return" => S[stack[1].s].closed
      BY <1>7, Zenon DEF Inv, Served
    <2> QED BY <2>1, <2>2, <2>3, <2>4 DEF Served, Soft
  <1> QED BY <1>1, <1>3, <1>5, <1>6, <1>7, Zenon

LEMMA Accepting ==
    ASSUME NEW r \in Sockets, NEW a \in Nat, NEW b \in Nat, NEW e \in BOOLEAN
    PROVE  /\ [r EXCEPT !.wb = a, !.accepted = b] \in Sockets
           /\ [r EXCEPT !.wb = a, !.accepted = b, !.ending = e] \in Sockets
  BY DEF Sockets

LEMMA InvWrite ==
    ASSUME Inv, NEW s \in Opened, Write(s) \/ End(s) \/ EndWith(s)
    PROVE  Inv'
  <1>1. s \in Socks
    BY OpenedSocks DEF Inv
  <1>2. UNCHANGED <<opened, K, conn, track, table, ret, stack>>
    BY DEF Write, End, EndWith
  <1>3. PICK new \in Sockets :
          S' = [S EXCEPT ![s] = new] /\ new.fd = S[s].fd /\ new.closed = S[s].closed
    <2>1. S[s] \in Sockets
      BY <1>1 DEF Inv, TypeOK
    <2>5. S[s].wb + 1 \in Nat /\ S[s].accepted + 1 \in Nat
      BY <2>1 DEF Sockets
    <2>2. CASE Write(s)
      <3>1. [S[s] EXCEPT !.wb = @ + 1, !.accepted = @ + 1] \in Sockets
        BY <2>1, <2>5, Accepting
      <3> QED BY <2>1, <2>2, <3>1 DEF Write, Sockets
    <2>3. CASE End(s)
      <3>1. [S[s] EXCEPT !.ending = TRUE] \in Sockets
        BY <2>1 DEF Sockets
      <3> QED BY <2>1, <2>3, <3>1 DEF End, Sockets
    <2>4. CASE EndWith(s)
      <3> DEFINE told(e) == [S[s] EXCEPT !.wb = S[s].wb + 1, !.accepted = S[s].accepted + 1,
                                         !.ending = e]
      <3>1. told(TRUE) \in Sockets /\ told(FALSE) \in Sockets
        BY <2>1, <2>5, Accepting
      <3>2. S' = [S EXCEPT ![s] = told(TRUE)] \/ S' = [S EXCEPT ![s] = told(FALSE)]
        <4>1. CASE S[s].fd \in track
          <5>1. (S[s].fd \in track) = TRUE
            BY <4>1
          <5> QED BY <2>4, <5>1 DEF EndWith
        <4>2. CASE S[s].fd \notin track
          <5>1. (S[s].fd \in track) = FALSE
            BY <4>2
          <5> QED BY <2>4, <5>1 DEF EndWith
        <4> QED BY <4>1, <4>2
      <3>3. \A e \in BOOLEAN : told(e).fd = S[s].fd /\ told(e).closed = S[s].closed
        BY <2>1 DEF Sockets
      <3> HIDE DEF told
      <3> QED BY <3>1, <3>2, <3>3
    <2> QED BY <2>2, <2>3, <2>4
  <1>4. mask' \in [Fds -> SUBSET {"IN", "OUT"}]
    BY DEF Inv, TypeOK, Write, End, EndWith, More
  <1>5. TypeOK'
    BY <1>1, <1>2, <1>3, <1>4 DEF Inv, TypeOK
  <1>6. Soft
    BY <1>1, <1>2, <1>3, OpenedSocks DEF Inv, TypeOK, Soft, SameFds
  <1> QED BY <1>2, <1>5, <1>6, StackStays

LEMMA InvOpen == ASSUME Inv, Open PROVE Inv'
  <1>1. PICK f \in Fds :
        /\ conn[f] = 0 /\ opened' = opened + 1
        /\ S' = [S EXCEPT ![opened + 1] = NewSocket(f)]
        /\ conn' = [conn EXCEPT ![f] = opened + 1]
        /\ table' = [table EXCEPT ![f] = opened + 1]
        /\ track' = track \cup {f}
        /\ mask' = [mask EXCEPT ![f] = {"IN"}]
    BY DEF Open
  <1>2. opened \in Nat /\ opened < MaxSock /\ MaxSock \in Nat
    BY SocketAssumption DEF Inv, TypeOK, Open
  <1>3. opened + 1 \in Socks /\ opened + 1 \in 0 .. MaxSock
    BY <1>2 DEF Socks
  <1>4. TypeOK'
    <2>1. NewSocket(f) \in Sockets
      BY DEF NewSocket, Sockets
    <2> QED BY <1>1, <1>3, <2>1 DEF Inv, TypeOK, Open
  <1>5. PICK n : n = opened + 1
    OBVIOUS
  <1>6. Opened' = Opened \cup {n} /\ n \notin Opened /\ n # 0
    BY <1>1, <1>2, <1>5 DEF Opened
  <1>7. /\ S'[n] = NewSocket(f) /\ \A s \in Opened : S'[s] = S[s]
    BY <1>1, <1>3, <1>5, <1>6, OpenedSocks DEF Inv, TypeOK
  <1>8. \A g \in Fds : /\ conn'[g] = IF g = f THEN n ELSE conn[g]
                       /\ table'[g] = IF g = f THEN n ELSE table[g]
    BY <1>1, <1>5 DEF Inv, TypeOK
  <1>9. Owned'
    <2>1. \A s \in Opened' : S'[s].fd \in Fds
      BY <1>6, <1>7 DEF Inv, Owned, NewSocket
    <2>2. \A s \in Opened' : ~S'[s].closed => conn'[S'[s].fd] = s
      BY <1>1, <1>6, <1>7, <1>8 DEF Inv, Owned, NewSocket, Opened
    <2>3. \A g \in Fds : conn'[g] # 0 =>
            conn'[g] \in Opened' /\ ~S'[conn'[g]].closed /\ S'[conn'[g]].fd = g
      BY <1>6, <1>7, <1>8 DEF Inv, Owned, NewSocket
    <2>4. \A g \in Fds : table'[g] # 0 =>
            /\ table'[g] \in Opened' /\ S'[table'[g]].fd = g
            /\ conn'[g] # 0 => conn'[g] = table'[g]
      BY <1>6, <1>7, <1>8 DEF Inv, Owned, NewSocket
    <2> QED BY <2>1, <2>2, <2>3, <2>4 DEF Owned
  <1>10. stack' = stack /\ Depth' = Depth
    BY DEF Open, Depth
  <1>11. Framed'
    BY <1>6, <1>7, <1>10 DEF Inv, Framed
  <1>12. Depth >= 1 => stack[1].s \in Opened
    BY TopFrame, EmptySeq DEF Inv, TypeOK, Framed, Depth
  <1>13. Served'
    BY <1>7, <1>10, <1>12 DEF Inv, Served
  <1> QED BY <1>4, <1>9, <1>11, <1>13 DEF Inv

LEMMA InvDestroy == ASSUME Inv, NEW s \in Opened, Destroy(s) PROVE Inv'
  <1>1. s \in Socks /\ S[s] \in Sockets
    BY OpenedSocks DEF Inv, TypeOK
  <1>2. PICK new \in Sockets : S' = [S EXCEPT ![s] = new] /\ new.fd = S[s].fd /\ new.closed
    <2>1. [S[s] EXCEPT !.closed = TRUE, !.ending = TRUE] \in Sockets
      BY <1>1 DEF Sockets
    <2> QED BY <1>1, <2>1 DEF Destroy, Sockets
  <1>3. /\ UNCHANGED <<opened, K, track, mask, table, ret>>
        /\ Close(S[s].fd) /\ ~S[s].closed
        /\ stack' = Append(stack, Listener(s, "close"))
    BY DEF Destroy, pols
  <1>4. SameFds /\ S'[s].closed /\ \A t \in Opened : t # s => S'[t].closed = S[t].closed
    BY <1>1, <1>2, <1>3, OpenedSocks DEF Inv, TypeOK, SameFds
  <1>5. Owned'
    BY <1>3, <1>4, OwnedClose
  <1>6. /\ Listener(s, "close") \in Frames /\ Listener(s, "close").pc = "app"
        /\ Listener(s, "close").s = s /\ Listener(s, "close").fd = S[s].fd
    BY <1>1 DEF Listener, Frames, Labels, Inv, Owned
  <1>7. stack \in Seq(Frames) /\ Depth \in Nat
    BY DEF Inv, TypeOK, Depth
  <1>8. /\ stack' \in Seq(Frames) /\ Depth' = Depth + 1
        /\ stack'[Depth + 1] = Listener(s, "close")
        /\ \A i \in 1 .. Depth : stack'[i] = stack[i]
    BY <1>3, <1>6, <1>7, Pushed DEF Depth
  <1>9. TypeOK'
    <2>1. conn' \in [Fds -> 0 .. MaxSock] /\ S' \in [Socks -> Sockets]
      BY <1>1, <1>2, <1>3, Fields DEF Inv, TypeOK, Close
    <2>2. UNCHANGED <<opened, K, track, mask, table, ret>> /\ stack' \in Seq(Frames)
      BY <1>3, <1>8
    <2> QED BY <2>1, <2>2 DEF Inv, TypeOK
  <1>10. Opened' = Opened /\ \A i \in 1 .. Depth' : i \in 1 .. Depth \/ i = Depth + 1
    BY <1>3, <1>7, <1>8 DEF Opened
  <1>11. Framed'
    BY <1>4, <1>6, <1>8, <1>10 DEF Inv, Framed, SameFds
  <1>12. Served'
    <2>1. CASE Depth = 0
      BY <1>6, <1>8, <2>1 DEF Served
    <2>2. CASE Depth # 0
      <3>1. 1 \in 1 .. Depth
        BY <1>7, <2>2
      <3>2. stack'[1] = stack[1] /\ stack[1].s \in Opened /\ Depth >= 1
        BY <1>7, <1>8, <2>2, <3>1 DEF Inv, Framed
      <3>3. stack[1].pc # "poll" /\ stack[1].pc # "in"
        <4>1. Depth = 1 => stack[1].pc \in {"app", "jobs"}
          BY <1>7, <2>2, TopFrame DEF Destroy, AppRuns, At, Depth
        <4> QED BY <3>2, <4>1, Zenon DEF Inv, Served
      <3>4. stack[1].pc = "return" => S[stack[1].s].closed
        BY <3>2, Zenon DEF Inv, Served
      <3> QED BY <1>4, <3>2, <3>3, <3>4 DEF Served
    <2> QED BY <2>1, <2>2
  <1> QED BY <1>5, <1>9, <1>11, <1>12 DEF Inv

\* Where a listener's exception leaves the stack.
LEMMA ThrowsTo ==
    ASSUME Inv, ListenerThrows
    PROVE  /\ stack # <<>> /\ stack[1] \in Frames
           /\ \/ stack[1].pc = "app" /\ stack' = <<>> /\ Depth' = 0
              \/ /\ stack[1].pc # "app" /\ Depth' = 1
                 /\ stack'[1] = [stack[1] EXCEPT !.pc = "jobs"]
           /\ stack' \in Seq(Frames)
  <1>1. stack # <<>> /\ stack[1] \in Frames
    BY TopFrame DEF ListenerThrows, At, Inv, TypeOK
  <1>2. CASE stack[1].pc = "app"
    <2>1. stack' = <<>>
      BY <1>2 DEF ListenerThrows
    <2> QED BY <1>1, <1>2, <2>1, EmptySeq DEF Depth
  <1>3. CASE stack[1].pc # "app"
    <2>1. PICK fr \in Frames : fr = [stack[1] EXCEPT !.pc = "jobs"]
      BY <1>1 DEF Frames, Labels
    <2>2. stack' = <<fr>>
      BY <1>3, <2>1 DEF ListenerThrows
    <2> QED BY <1>1, <1>3, <2>1, <2>2 DEF Depth
  <1> QED BY <1>2, <1>3

LEMMA InvListener == ASSUME Inv, ListenerReturns \/ ListenerThrows PROVE Inv'
  <1>1. stack # <<>>
    BY DEF ListenerReturns, ListenerThrows, At
  <1>2. UNCHANGED <<opened, S, K, conn, track, mask, table>> /\ ret' \subseteq {"IN", "OUT"}
    BY DEF ListenerReturns, ListenerThrows, pols, Inv, TypeOK
  <1>3. Soft
    BY <1>2 DEF Soft, SameFds
  <1>4. stack' \in Seq(Frames) /\ Framed' /\ Served'
    <2>1. CASE ListenerReturns
      BY <1>1, <1>3, <2>1, PopKeeps DEF ListenerReturns
    <2>2. CASE ListenerThrows
      <3>1. CASE Depth' = 0
        BY <2>2, <3>1, ThrowsTo DEF Framed, Served
      <3>2. CASE Depth' = 1 /\ stack'[1] = [stack[1] EXCEPT !.pc = "jobs"]
        <4>1. stack[1] \in Frames /\ 1 \in 1 .. Depth
          BY <1>1, <2>2, ThrowsTo, TopFrame DEF Inv, TypeOK
        <4>2. /\ stack'[1].pc = "jobs" /\ stack'[1].s = stack[1].s
              /\ stack'[1].fd = stack[1].fd
          BY <3>2, <4>1 DEF Frames
        <4>3. stack[1].s \in Opened /\ S[stack[1].s].fd = stack[1].fd
          BY <4>1 DEF Inv, Framed
        <4>4. Opened' = Opened /\ stack' \in Seq(Frames)
          BY <1>2, <2>2, ThrowsTo DEF Opened
        <4>5. Framed'
          <5>1. \A i \in 1 .. Depth' : i = 1
            BY <3>2
          <5>2. S' = S /\ S'[stack'[1].s].fd = stack'[1].fd /\ stack'[1].s \in Opened'
            BY <1>2, <4>2, <4>3, <4>4, Zenon
          <5> QED BY <5>1, <5>2, Zenon DEF Framed
        <4>6. Served'
          BY <3>2, <4>2 DEF Served
        <4> QED BY <4>4, <4>5, <4>6
      <3> QED BY <2>2, <3>1, <3>2, ThrowsTo
    <2> QED BY <2>1, <2>2
  <1>5. TypeOK'
    BY <1>2, <1>4 DEF Inv, TypeOK
  <1>6. Owned'
    BY <1>2, <1>3, OwnedSoft
  <1> QED BY <1>4, <1>5, <1>6 DEF Inv

LEMMA InvDeliver == ASSUME Inv, NEW f \in Fds, Deliver(f) PROVE Inv'
  <1>1. UNCHANGED <<opened, S, K, conn>>
    BY DEF Deliver
  <1>2. Soft
    BY <1>1 DEF Soft, SameFds
  <1>3. CASE table[f] = 0
    <2>1. UNCHANGED <<table, ret, stack, mask>> /\ track' \subseteq Fds
      BY <1>3 DEF Deliver, Inv, TypeOK
    <2>2. TypeOK'
      BY <1>1, <2>1 DEF Inv, TypeOK
    <2> QED BY <1>1, <1>2, <2>1, <2>2, StackStays
  <1>4. CASE table[f] # 0
    <2> DEFINE fr == Handler(table[f], f, Revents(f))
    <2>1. stack' = <<fr>> /\ UNCHANGED pols
      BY <1>4 DEF Deliver
    <2>2. table[f] \in Opened /\ S[table[f]].fd = f /\ (conn[f] # 0 => conn[f] = table[f])
      BY <1>4 DEF Inv, Owned
    <2>3. fr \in Frames
      <3>1. Revents(f) \in SUBSET {"IN", "OUT", "ERR", "HUP", "NVAL"}
        BY DEF Revents, Inv, TypeOK
      <3> QED BY <2>2, <3>1, OpenedSocks DEF Handler, Frames, Labels, Inv
    <2>4. stack' \in Seq(Frames) /\ Depth' = 1 /\ stack'[1] = fr
      BY <2>1, <2>3 DEF Depth
    <2>5. TypeOK'
      BY <1>1, <2>1, <2>4 DEF Inv, TypeOK, pols
    <2>6. S[table[f]].closed => "NVAL" \in Revents(f)
      <3>1. S[table[f]].closed => conn[f] = 0
        BY <2>2 DEF Inv, Owned
      <3> QED BY <3>1 DEF Revents, Events
    <2>7. fr.s = table[f] /\ fr.fd = f /\ fr.pc = "poll" /\ fr.rev = Revents(f)
      BY DEF Handler
    <2> HIDE DEF fr
    <2>8. Framed' /\ Served'
      BY <1>1, <2>2, <2>4, <2>6, <2>7 DEF Framed, Served, Opened
    <2> QED BY <1>1, <1>2, <2>1, <2>5, <2>8, OwnedSoft DEF Inv, pols
  <1> QED BY <1>3, <1>4

(* The steps of _poll.                                                      *)
LEMMA InvPollError == ASSUME Inv, PollError PROVE Inv'
  <1>1. At("poll") /\ stack' = Emit(Top.s, "error", "fatal") /\ UNCHANGED <<opened, S, K, conn, pols>>
    BY DEF PollError
  <1>2. stack' \in Seq(Frames) /\ Went("fatal")
    BY <1>1, Emitting DEF Labels
  <1>3. TypeOK' /\ Soft
    BY <1>1, <1>2 DEF Inv, TypeOK, pols, Soft, SameFds
  <1> QED BY <1>1, <1>2, <1>3, PollGoes DEF Labels, pols

LEMMA InvPollIn == ASSUME Inv, PollIn PROVE Inv'
  <1>1. At("poll") /\ stack' = Goto("in") /\ UNCHANGED <<opened, S, K, conn, pols>>
    BY DEF PollIn
  <1>2. stack' \in Seq(Frames) /\ Went("in") /\ Depth' = 1
    BY <1>1, GoneTo DEF Labels
  <1>3. TypeOK' /\ Soft
    BY <1>1, <1>2 DEF Inv, TypeOK, pols, Soft, SameFds
  <1>4. ~S[Top.s].closed
    <2>1. "NVAL" \notin Top.rev /\ Top = stack[1] /\ Depth = 1 /\ Top.pc = "poll"
      BY <1>1, PollTop DEF PollIn, At
    <2> QED BY <2>1 DEF Inv, Served
  <1> QED BY <1>1, <1>2, <1>3, <1>4, PollGoes DEF Labels, pols

LEMMA InvHangup == ASSUME Inv, Hangup PROVE Inv'
  <1>1. At("in") /\ UNCHANGED <<opened, K, conn, pols>> /\ Top.s \in Opened
    BY PollTop DEF Hangup
  <1>2. CASE stack' = Goto("mask") /\ UNCHANGED S
    <2>1. stack' \in Seq(Frames) /\ Went("mask")
      BY <1>1, <1>2, GoneTo DEF Labels
    <2>2. TypeOK' /\ Soft
      BY <1>1, <1>2, <2>1 DEF Inv, TypeOK, pols, Soft, SameFds
    <2> QED BY <1>1, <2>1, <2>2, PollGoes DEF Labels, pols
  <1>3. CASE ReadEnd(Top.s) /\ ~S[Top.s].readEnded
    <2>1. stack' = Emit(Top.s, "end", "ended") /\ S' = [S EXCEPT ![Top.s].readEnded = TRUE]
      BY <1>3 DEF ReadEnd
    <2>2. stack' \in Seq(Frames) /\ Went("ended")
      BY <1>1, <2>1, Emitting DEF Labels
    <2>3. TypeOK'
      <3>1. S' \in [Socks -> Sockets]
        BY <1>1, <2>1, OpenedSocks, Fields DEF Inv
      <3> QED BY <1>1, <2>2, <3>1 DEF Inv, TypeOK, pols
    <2>4. Soft
      BY <1>1, <2>1, OpenedSocks DEF Inv, TypeOK, Soft, SameFds, Sockets
    <2> QED BY <1>1, <2>2, <2>3, <2>4, PollGoes DEF Labels, pols
  <1> QED BY <1>2, <1>3 DEF Hangup, ReadEnd

LEMMA InvEnded == ASSUME Inv, Ended PROVE Inv'
  <1>1. /\ At("ended") /\ UNCHANGED <<opened, K, conn, track, table, ret>> /\ Top.s \in Opened
        /\ S' = [S EXCEPT ![Top.s].ending = TRUE] /\ stack' = Goto("mask")
    BY PollTop DEF Ended
  <1>2. stack' \in Seq(Frames) /\ Went("mask")
    BY <1>1, GoneTo DEF Labels
  <1>3. mask' \in [Fds -> SUBSET {"IN", "OUT"}]
    BY DEF Inv, TypeOK, Ended, More
  <1>4. TypeOK' /\ Soft
    <2>1. S' \in [Socks -> Sockets]
      BY <1>1, OpenedSocks, Fields DEF Inv
    <2>2. TypeOK'
      BY <1>1, <1>2, <1>3, <2>1 DEF Inv, TypeOK
    <2>3. Soft
      BY <1>1, OpenedSocks DEF Inv, TypeOK, Soft, SameFds, Sockets
    <2> QED BY <2>2, <2>3
  <1> QED BY <1>1, <1>2, <1>4, PollGoes DEF Labels

LEMMA InvFatal == ASSUME Inv, Fatal PROVE Inv'
  <1>1. At("fatal") /\ UNCHANGED <<opened, K, pols>> /\ Top.s \in Opened
    BY PollTop DEF Fatal
  <1>2. CASE S[Top.s].closed
    <2>1. stack' = Goto("return") /\ UNCHANGED <<S, conn>>
      BY <1>2 DEF Fatal
    <2>2. stack' \in Seq(Frames) /\ Went("return")
      BY <1>1, <2>1, GoneTo DEF Labels
    <2>3. TypeOK' /\ Soft
      BY <1>1, <2>1, <2>2 DEF Inv, TypeOK, pols, Soft, SameFds
    <2> QED BY <1>1, <1>2, <2>1, <2>2, <2>3, PollGoes DEF Labels, pols
  <1>3. CASE ~S[Top.s].closed
    <2>1. CloseFd(Top.s) /\ stack' = Emit(Top.s, "close", "return")
      BY <1>3 DEF Fatal
    <2>2. stack' \in Seq(Frames) /\ Went("return")
      BY <1>1, <2>1, Emitting DEF Labels
    <2>3. TypeOK'
      <3>1. S' \in [Socks -> Sockets] /\ conn' \in [Fds -> 0 .. MaxSock]
        BY <1>1, <2>1, OpenedSocks, Fields DEF Inv, CloseFd, Close
      <3> QED BY <1>1, <2>2, <3>1 DEF Inv, TypeOK, pols
    <2> QED BY <1>1, <1>3, <2>1, <2>2, <2>3, PollCloses DEF pols
  <1> QED BY <1>2, <1>3

LEMMA InvMask == ASSUME Inv, Mask PROVE Inv'
  <1>1. At("mask") /\ UNCHANGED <<opened, K, track, mask, table>> /\ Top.s \in Opened
    BY PollTop DEF Mask
  <1>2. CASE S[Top.s].closed
    <2>1. stack' = Goto("return") /\ UNCHANGED <<S, conn, ret>>
      BY <1>2 DEF Mask
    <2>2. stack' \in Seq(Frames) /\ Went("return")
      BY <1>1, <2>1, GoneTo DEF Labels
    <2>3. TypeOK' /\ Soft
      BY <1>1, <2>1, <2>2 DEF Inv, TypeOK, Soft, SameFds
    <2> QED BY <1>1, <1>2, <2>1, <2>2, <2>3, PollGoes DEF Labels
  <1>3. CASE ~S[Top.s].closed /\ S[Top.s].readEnded /\ S[Top.s].wrShut
    <2>1. CloseFd(Top.s) /\ stack' = Emit(Top.s, "close", "return") /\ UNCHANGED ret
      BY <1>3 DEF Mask
    <2>2. stack' \in Seq(Frames) /\ Went("return")
      BY <1>1, <2>1, Emitting DEF Labels
    <2>3. TypeOK'
      <3>1. S' \in [Socks -> Sockets] /\ conn' \in [Fds -> 0 .. MaxSock]
        BY <1>1, <2>1, OpenedSocks, Fields DEF Inv, CloseFd, Close
      <3> QED BY <1>1, <2>1, <2>2, <3>1 DEF Inv, TypeOK, pols
    <2> QED BY <1>1, <1>3, <2>1, <2>2, <2>3, PollCloses
  <1>4. CASE ~S[Top.s].closed /\ ~(S[Top.s].readEnded /\ S[Top.s].wrShut)
    <2>1. UNCHANGED <<S, conn>> /\ stack' = Goto("jobs")
      BY <1>4 DEF Mask
    <2>2. ret' \subseteq {"IN", "OUT"}
      BY <1>4 DEF Mask
    <2>3. stack' \in Seq(Frames) /\ Went("jobs")
      BY <1>1, <2>1, GoneTo DEF Labels
    <2>4. TypeOK' /\ Soft
      BY <1>1, <2>1, <2>2, <2>3 DEF Inv, TypeOK, Soft, SameFds
    <2> QED BY <1>1, <2>1, <2>3, <2>4, PollGoes DEF Labels
  <1> QED BY <1>2, <1>3, <1>4

\* The table may lose an entry.
LEMMA OwnedLess ==
    ASSUME Inv, UNCHANGED <<opened, S, conn>>,
           \A f \in Fds : table'[f] # 0 => table'[f] = table[f]
    PROVE  Owned'
  BY DEF Inv, Owned, Opened

LEMMA InvReturnZero == ASSUME Inv, ReturnZero PROVE Inv'
  <1>1. /\ At("return") /\ stack' = Goto("jobs")
        /\ UNCHANGED <<opened, S, K, conn, track, mask>>
        /\ table' = [table EXCEPT ![Top.fd] = 0] /\ ret' = {}
    BY DEF ReturnZero
  <1>2. Soft
    BY <1>1 DEF Soft, SameFds
  <1>3. stack' \in Seq(Frames) /\ Went("jobs")
    BY <1>1, GoneTo DEF Labels
  <1>4. Framed' /\ Served'
    <2>1. Depth = 1 /\ stack[1] \in Frames /\ stack[1].pc # "app"
      BY <1>1, PollTop DEF At
    <2> QED BY <1>2, <1>3, <2>1, WentFramed DEF Soft, Labels
  <1>5. TypeOK'
    <2>1. table' \in [Fds -> 0 .. MaxSock]
      BY <1>1, ZeroSock DEF Inv, TypeOK
    <2> QED BY <1>1, <1>3, <2>1 DEF Inv, TypeOK
  <1>6. Owned'
    <2>1. \A f \in Fds : table'[f] # 0 => table'[f] = table[f]
      BY <1>1 DEF Inv, TypeOK
    <2> QED BY <1>1, <2>1, OwnedLess
  <1> QED BY <1>4, <1>5, <1>6 DEF Inv

LEMMA InvTakeMask == ASSUME Inv, TakeMask PROVE Inv'
  <1>1. /\ stack' = Pop /\ stack # <<>> /\ UNCHANGED <<opened, S, K, conn, table>>
        /\ track' \subseteq Fds /\ ret' = {}
    BY DEF TakeMask, At, Inv, TypeOK
  <1>2. Soft
    BY <1>1 DEF Soft, SameFds
  <1>3. stack' \in Seq(Frames) /\ Framed' /\ Served'
    BY <1>1, <1>2, PopKeeps
  <1>4. mask' \in [Fds -> SUBSET {"IN", "OUT"}]
    BY DEF TakeMask, Inv, TypeOK
  <1>5. TypeOK'
    BY <1>1, <1>3, <1>4 DEF Inv, TypeOK
  <1> QED BY <1>1, <1>2, <1>3, <1>5, OwnedSoft DEF Inv

(* A _poll that reads or writes does so on its own connection.              *)
LEMMA Serving ==
    ASSUME Inv, (At("poll") /\ "NVAL" \notin Top.rev) \/ At("in")
    PROVE  /\ Top.s \in Opened /\ Top.s \in Socks /\ Top.s # 0
           /\ ~S[Top.s].closed /\ conn[S[Top.s].fd] = Top.s
  <1>1. /\ Top.s \in Opened /\ Top = stack[1] /\ Depth = 1
        /\ Top.pc = "poll" \/ Top.pc = "in"
    BY PollTop DEF At
  <1>2. ~S[Top.s].closed
    BY <1>1 DEF Inv, Served, At
  <1> QED BY <1>1, <1>2, OpenedSocks DEF Inv, Owned, Opened

(* What a flush sends.                                                      *)
Sent(n) ==
    /\ S' = [S EXCEPT ![Top.s].wb = S[Top.s].wb - n]
    /\ n = 0 => K' = K
    /\ n # 0 => K' = [K EXCEPT ![Top.s].sent = @ + n, ![Top.s].room = (n = S[Top.s].wb)]
    /\ \/ n = S[Top.s].wb /\ stack' = Emit(Top.s, "drain", "drained")
       \/ n # S[Top.s].wb /\ stack' = Goto("in")

LEMMA FlushSends ==
    ASSUME Inv, Flush
    PROVE  /\ At("poll") /\ "NVAL" \notin Top.rev /\ UNCHANGED <<opened, conn, pols>>
           /\ \/ stack' = Emit(Top.s, "error", "fatal") /\ UNCHANGED <<S, K>>
              \/ \E n \in 0 .. S[Top.s].wb : Sent(n)
  <1>1. At("poll") /\ "NVAL" \notin Top.rev /\ UNCHANGED <<opened, conn, pols>>
    BY DEF Flush
  <1>2. Top.s \in Socks /\ conn[S[Top.s].fd] = Top.s /\ S[Top.s].wb \in Nat
    BY <1>1, Serving DEF Inv, TypeOK, Sockets
  <1>3. ASSUME NEW n \in 0 .. S[Top.s].wb,
               S' = [S EXCEPT ![Top.s].wb = Rest(Top.s, n)],
               K' = IF n = 0 THEN K
                    ELSE [K EXCEPT ![Top.s].sent = @ + n, ![Top.s].room = (n = S[Top.s].wb)],
               stack' = IF Rest(Top.s, n) = 0 THEN Emit(Top.s, "drain", "drained")
                        ELSE Goto("in")
        PROVE  Sent(n)
    <2>1. Rest(Top.s, n) = 0 <=> n = S[Top.s].wb
      BY <1>2 DEF Rest
    <2> QED BY <1>3, <2>1 DEF Sent, Rest
  <1>4. CASE S[Top.s].wb > 0 /\ SendThrows(conn[S[Top.s].fd])
    BY <1>1, <1>4 DEF Flush
  <1>5. CASE ~(S[Top.s].wb > 0 /\ SendThrows(conn[S[Top.s].fd]))
    <2>1. PICK n \in (IF S[Top.s].wb = 0 THEN 0 ELSE 1) .. S[Top.s].wb :
            /\ S' = [S EXCEPT ![Top.s].wb = Rest(Top.s, n)]
            /\ K' = IF n = 0 THEN K
                    ELSE [K EXCEPT ![Top.s].sent = @ + n, ![Top.s].room = (n = S[Top.s].wb)]
            /\ stack' = IF Rest(Top.s, n) = 0 THEN Emit(Top.s, "drain", "drained")
                        ELSE Goto("in")
      BY <1>2, <1>5 DEF Flush
    <2>2. n \in 0 .. S[Top.s].wb
      BY <1>2, <2>1
    <2>3. Sent(n)
      BY <1>3, <2>1, <2>2
    <2> QED BY <1>1, <2>2, <2>3
  <1> QED BY <1>4, <1>5

LEMMA BufferField ==
    ASSUME TypeOK, NEW s \in Socks, NEW w \in Nat
    PROVE  [S EXCEPT ![s].wb = w] \in [Socks -> Sockets]
  BY DEF TypeOK, Sockets

LEMMA ConnFields ==
    ASSUME TypeOK, NEW c \in Socks
    PROVE  /\ \A n \in Nat, b \in BOOLEAN :
                [K EXCEPT ![c].sent = n, ![c].room = b] \in [Socks -> Conns]
           /\ [K EXCEPT ![c].fin = TRUE] \in [Socks -> Conns]
           /\ [K EXCEPT ![c].rx = 0] \in [Socks -> Conns]
  <1>1. K \in [Socks -> Conns]
    BY DEF TypeOK
  <1>2. ASSUME NEW n \in Nat, NEW b \in BOOLEAN
        PROVE  [K EXCEPT ![c].sent = n, ![c].room = b] \in [Socks -> Conns]
    BY <1>1 DEF Conns
  <1>3. [K EXCEPT ![c].fin = TRUE] \in [Socks -> Conns]
    BY <1>1 DEF Conns
  <1>4. [K EXCEPT ![c].rx = 0] \in [Socks -> Conns]
    BY <1>1 DEF Conns
  <1> QED BY <1>2, <1>3, <1>4

LEMMA InvFlush == ASSUME Inv, Flush PROVE Inv'
  <1>1. /\ At("poll") /\ "NVAL" \notin Top.rev /\ UNCHANGED <<opened, conn, pols>>
        /\ Top.s \in Socks /\ Top.s \in Opened /\ ~S[Top.s].closed
    BY FlushSends, Serving
  <1>2. CASE stack' = Emit(Top.s, "error", "fatal") /\ UNCHANGED <<S, K>>
    <2>1. stack' \in Seq(Frames) /\ Went("fatal")
      BY <1>1, <1>2, Emitting DEF Labels
    <2>2. TypeOK' /\ Soft
      BY <1>1, <1>2, <2>1 DEF Inv, TypeOK, pols, Soft, SameFds
    <2> QED BY <1>1, <2>1, <2>2, PollGoes DEF Labels, pols
  <1>3. ASSUME NEW n \in 0 .. S[Top.s].wb, Sent(n)
        PROVE  Inv'
    <2>1. S[Top.s].wb \in Nat /\ K[Top.s].sent \in Nat
      BY <1>1 DEF Inv, TypeOK, Sockets, Conns
    <2>2. S' \in [Socks -> Sockets] /\ Soft
      <3>1. S[Top.s].wb - n \in Nat
        BY <2>1
      <3>2. PICK w \in Nat : S' = [S EXCEPT ![Top.s].wb = w]
        BY <1>3, <3>1 DEF Sent
      <3>3. S' \in [Socks -> Sockets]
        BY <1>1, <3>2, BufferField DEF Inv
      <3> QED BY <1>1, <3>2, <3>3, OpenedSocks DEF Inv, TypeOK, Soft, SameFds
    <2>3. K' \in [Socks -> Conns]
      <3>1. K[Top.s].sent + n \in Nat /\ (n = S[Top.s].wb) \in BOOLEAN
        BY <2>1
      <3>2. CASE n = 0
        BY <1>3, <3>2 DEF Sent, Inv, TypeOK
      <3>3. CASE n # 0
        <4>1. PICK b \in BOOLEAN : b = (n = S[Top.s].wb)
          BY <3>1
        <4>2. PICK m \in Nat : m = K[Top.s].sent + n
          BY <3>1
        <4>3. K' = [K EXCEPT ![Top.s].sent = m, ![Top.s].room = b]
          BY <1>3, <3>3, <4>1, <4>2, Zenon DEF Sent
        <4> QED BY <1>1, <4>3, ConnFields DEF Inv
      <3> QED BY <3>2, <3>3
    <2>4. CASE stack' = Emit(Top.s, "drain", "drained")
      <3>1. stack' \in Seq(Frames) /\ Went("drained")
        BY <1>1, <2>4, Emitting DEF Labels
      <3>2. TypeOK'
        BY <1>1, <2>2, <2>3, <3>1 DEF Inv, TypeOK, pols
      <3> QED BY <1>1, <2>2, <3>1, <3>2, PollGoes DEF Labels, pols
    <2>5. CASE stack' = Goto("in")
      <3>1. stack' \in Seq(Frames) /\ Went("in") /\ Depth' = 1
        BY <1>1, <2>5, GoneTo DEF Labels
      <3>2. TypeOK'
        BY <1>1, <2>2, <2>3, <3>1 DEF Inv, TypeOK, pols
      <3> QED BY <1>1, <2>2, <3>1, <3>2, PollGoes DEF Labels, pols
    <2> QED BY <1>3, <2>4, <2>5 DEF Sent
  <1> QED BY <1>2, <1>3, FlushSends

(* The FIN, when the buffer ran empty.                                      *)
LEMMA InvDrained == ASSUME Inv, Drained PROVE Inv'
  <1>1. At("drained") /\ UNCHANGED <<opened, conn, pols>> /\ stack' = Goto(AfterDrain(Top.s))
    BY DEF Drained
  <1>2. Top.s \in Opened /\ Top.s \in Socks /\ conn[S[Top.s].fd] \in 0 .. MaxSock
    BY <1>1, PollTop, OpenedSocks DEF Inv, TypeOK
  <1>3. K' \in [Socks -> Conns]
    <2>1. K' = K \/ \E c \in Socks : K' = [K EXCEPT ![c].fin = TRUE]
      BY <1>2 DEF Drained, ShutWr, Socks
    <2>2. CASE K' = K
      BY <2>2, InvTyped
    <2>3. CASE \E c \in Socks : K' = [K EXCEPT ![c].fin = TRUE]
      <3>1. PICK c \in Socks : K' = [K EXCEPT ![c].fin = TRUE]
        BY <2>3
      <3>2. TypeOK
        BY DEF Inv
      <3> QED BY <3>1, <3>2, ConnFields
    <2> QED BY <2>1, <2>2, <2>3
  <1>4. S' \in [Socks -> Sockets] /\ Soft
    <2>1. S' = S \/ S' = [S EXCEPT ![Top.s].wrShut = TRUE]
      BY DEF Drained
    <2>2. S' \in [Socks -> Sockets]
      BY <1>2, <2>1, Fields DEF Inv, TypeOK
    <2>3. CASE S' = S
      BY <1>1, <2>2, <2>3 DEF Soft, SameFds
    <2>4. CASE S' = [S EXCEPT ![Top.s].wrShut = TRUE]
      BY <1>1, <1>2, <2>2, <2>4, OpenedSocks DEF Inv, TypeOK, Soft, SameFds, Sockets
    <2> QED BY <2>1, <2>3, <2>4
  <1>5. CASE S[Top.s].closed
    <2>1. stack' \in Seq(Frames) /\ Went("return") /\ Depth' = 1
      BY <1>1, <1>5, GoneTo DEF Labels, AfterDrain
    <2>2. TypeOK'
      BY <1>1, <1>3, <1>4, <2>1 DEF Inv, TypeOK, pols
    <2> QED BY <1>1, <1>4, <1>5, <2>1, <2>2, PollGoes DEF Labels, pols
  <1>6. CASE ~S[Top.s].closed
    <2>1. stack' \in Seq(Frames) /\ Went("in") /\ Depth' = 1
      BY <1>1, <1>6, GoneTo DEF Labels, AfterDrain
    <2>2. TypeOK'
      BY <1>1, <1>3, <1>4, <2>1 DEF Inv, TypeOK, pols
    <2> QED BY <1>1, <1>4, <1>6, <2>1, <2>2, PollGoes DEF Labels, pols
  <1> QED BY <1>5, <1>6

LEMMA InvReceive == ASSUME Inv, Receive PROVE Inv'
  <1>1. /\ At("in") /\ UNCHANGED <<opened, conn, pols>>
        /\ Top.s \in Opened /\ Top.s \in Socks /\ ~S[Top.s].closed /\ conn[S[Top.s].fd] = Top.s
    BY Serving DEF Receive
  <1>2. K' \in [Socks -> Conns]
    <2>1. K' = K \/ K' = [K EXCEPT ![Top.s].rx = 0]
      BY <1>1 DEF Receive
    <2>2. TypeOK /\ [K EXCEPT ![Top.s].rx = 0] \in [Socks -> Conns] /\ K \in [Socks -> Conns]
      BY <1>1, ConnFields DEF Inv, TypeOK
    <2> QED BY <2>1, <2>2
  <1>3. S' \in [Socks -> Sockets] /\ Soft
    <2>1. S' = S \/ S' = [S EXCEPT ![Top.s].readEnded = TRUE]
      BY DEF Receive, ReadEnd
    <2>2. S' \in [Socks -> Sockets]
      <3>1. TypeOK
        BY DEF Inv
      <3> QED BY <1>1, <2>1, <3>1, Fields, InvTyped
    <2>3. CASE S' = S
      BY <1>1, <2>2, <2>3 DEF Soft, SameFds
    <2>4. CASE S' = [S EXCEPT ![Top.s].readEnded = TRUE]
      BY <1>1, <2>2, <2>4, OpenedSocks DEF Inv, TypeOK, Soft, SameFds, Sockets
    <2> QED BY <2>1, <2>3, <2>4
  <1>4. CASE stack' = Goto("mask")
    <2>1. stack' \in Seq(Frames) /\ Went("mask")
      BY <1>1, <1>4, GoneTo DEF Labels
    <2>2. TypeOK'
      BY <1>1, <1>2, <1>3, <2>1 DEF Inv, TypeOK, pols
    <2> QED BY <1>1, <1>3, <2>1, <2>2, PollGoes DEF Labels, pols
  <1>5. ASSUME NEW ev \in {"error", "data", "end"}, NEW l \in {"fatal", "mask", "ended"},
               stack' = Emit(Top.s, ev, l)
        PROVE  Inv'
    <2>1. stack' \in Seq(Frames) /\ Went(l)
      BY <1>1, <1>5, Emitting DEF Labels
    <2>2. TypeOK'
      BY <1>1, <1>2, <1>3, <2>1 DEF Inv, TypeOK, pols
    <2>3. l \in Labels \ {"poll", "app"} /\ l # "in" /\ l # "return"
      BY DEF Labels
    <2> QED BY <1>1, <1>3, <2>1, <2>2, <2>3, PollGoes DEF pols
  <1> QED BY <1>4, <1>5 DEF Receive, ReadEnd

LEMMA InvPeer ==
    ASSUME Inv, NEW s \in Socks, PeerSends(s) \/ PeerFin(s) \/ PeerReset(s) \/ PeerReads(s)
    PROVE  Inv'
  <1>1. UNCHANGED <<opened, S, conn, track, mask, table, ret, stack>>
    BY DEF PeerSends, PeerFin, PeerReset, PeerReads, pols
  <1>2. K' \in [Socks -> Conns]
    <2>1. K[s] \in Conns /\ K[s].rx + 1 \in Nat /\ K[s].got + 1 \in Nat
      BY DEF Inv, TypeOK, Conns
    <2>2. PICK new \in Conns : K' = [K EXCEPT ![s] = new]
      <3>1. CASE PeerSends(s)
        <4>1. \A a, b \in Nat : [K[s] EXCEPT !.rx = a, !.got = b] \in Conns
          BY <2>1 DEF Conns
        <4>2. [K[s] EXCEPT !.rx = @ + 1, !.got = @ + 1] \in Conns
          BY <2>1, <4>1
        <4> QED BY <3>1, <4>2 DEF PeerSends
      <3>2. CASE PeerFin(s)
        <4>1. [K[s] EXCEPT !.peerFin = TRUE] \in Conns
          BY <2>1 DEF Conns
        <4> QED BY <3>2, <4>1 DEF PeerFin
      <3>3. CASE PeerReset(s)
        <4>1. [K[s] EXCEPT !.rst = TRUE] \in Conns
          BY <2>1 DEF Conns
        <4> QED BY <3>3, <4>1 DEF PeerReset
      <3>4. CASE PeerReads(s)
        <4>1. [K[s] EXCEPT !.room = TRUE] \in Conns
          BY <2>1 DEF Conns
        <4> QED BY <3>4, <4>1 DEF PeerReads
      <3> QED BY <3>1, <3>2, <3>3, <3>4
    <2> QED BY <2>2 DEF Inv, TypeOK
  <1>3. TypeOK' /\ Soft
    BY <1>1, <1>2 DEF Inv, TypeOK, Soft, SameFds
  <1> QED BY <1>1, <1>3, StackStays

LEMMA InvNext == ASSUME Inv, [Next]_vars PROVE Inv'
  <1>1. CASE UNCHANGED vars
    <2>1. TypeOK' /\ Soft
      BY <1>1 DEF vars, pols, Inv, TypeOK, Soft, SameFds
    <2> QED BY <1>1, <2>1, StackStays DEF vars, pols
  <1> QED BY <1>1, InvOpen, InvWrite, InvDestroy, InvListener, InvDeliver, InvPollError, InvPollIn,
             InvFlush, InvDrained, InvReceive, InvHangup, InvEnded, InvFatal, InvMask,
             InvReturnZero, InvTakeMask, InvPeer
          DEF Next, App, PollSteps, Peer

LEMMA InvAlways == Spec => []Inv
  BY InvInit, InvNext, PTL DEF Spec

(* However close and reopen interleave with the listeners, a socket that is *)
(* not closed has its fd to itself: none closes, reads or writes the        *)
(* connection of another through a reused number.                           *)
THEOREM SocketsOwnTheirFd == Spec => []OwnFd
  <1>1. Inv => OwnFd
    BY DEF Inv, Owned, OwnFd
  <1> QED BY <1>1, InvAlways, PTL

-----------------------------------------------------------------------------
(* Chunks.                                                                  *)

(* What was accepted is buffered or sent; a connection that nobody opened   *)
(* has nothing.                                                             *)
Account(s) ==
    /\ s \in Opened => S[s].accepted = S[s].wb + K[s].sent
    /\ s \notin Opened => K[s].sent = 0 /\ ~K[s].fin

Accounts == \A s \in Socks : Account(s)

(* Steps that move no chunk, and half-close open connections only.          *)
Idle ==
    /\ opened' = opened
    /\ \A s \in Socks :
        /\ S'[s].accepted = S[s].accepted /\ S'[s].wb = S[s].wb /\ K'[s].sent = K[s].sent
        /\ s \notin Opened => K'[s].fin = K[s].fin

LEMMA IdleAccounts == ASSUME Accounts, Idle PROVE Accounts'
  BY DEF Idle, Accounts, Account, Opened

LEMMA IdleData ==
    ASSUME TypeOK, opened' = opened, NEW s \in Socks,
           \/ S' = S
           \/ S' = [S EXCEPT ![s].ending = TRUE]
           \/ S' = [S EXCEPT ![s].closed = TRUE]
           \/ S' = [S EXCEPT ![s].closed = TRUE, ![s].ending = TRUE]
           \/ S' = [S EXCEPT ![s].wrShut = TRUE]
           \/ S' = [S EXCEPT ![s].readEnded = TRUE],
           NEW c \in Socks,
           \/ K' = K
           \/ K' = [K EXCEPT ![c].rx = 0]
           \/ K' = [K EXCEPT ![c].rx = @ + 1, ![c].got = @ + 1]
           \/ K' = [K EXCEPT ![c].peerFin = TRUE]
           \/ K' = [K EXCEPT ![c].rst = TRUE]
           \/ K' = [K EXCEPT ![c].room = TRUE]
           \/ c \in Opened /\ K' = [K EXCEPT ![c].fin = TRUE]
    PROVE  Idle
  <1>1. ASSUME NEW t \in Socks
        PROVE  S'[t].accepted = S[t].accepted /\ S'[t].wb = S[t].wb
    <2>0. S[t] \in Sockets
      BY DEF TypeOK
    <2>1. CASE S' = S
      BY <2>1
    <2>2. CASE S' = [S EXCEPT ![s].ending = TRUE]
      BY <2>0, <2>2 DEF TypeOK, Sockets
    <2>3. CASE S' = [S EXCEPT ![s].closed = TRUE]
      BY <2>0, <2>3 DEF TypeOK, Sockets
    <2>4. CASE S' = [S EXCEPT ![s].closed = TRUE, ![s].ending = TRUE]
      BY <2>0, <2>4 DEF TypeOK, Sockets
    <2>5. CASE S' = [S EXCEPT ![s].wrShut = TRUE]
      BY <2>0, <2>5 DEF TypeOK, Sockets
    <2>6. CASE S' = [S EXCEPT ![s].readEnded = TRUE]
      BY <2>0, <2>6 DEF TypeOK, Sockets
    <2> QED BY <2>1, <2>2, <2>3, <2>4, <2>5, <2>6
  <1>2. ASSUME NEW t \in Socks
        PROVE  K'[t].sent = K[t].sent /\ (t \notin Opened => K'[t].fin = K[t].fin)
    <2>0. K[t] \in Conns
      BY DEF TypeOK
    <2>1. CASE K' = K
      BY <2>1
    <2>2. CASE K' = [K EXCEPT ![c].rx = 0]
      BY <2>0, <2>2 DEF TypeOK, Conns
    <2>3. CASE K' = [K EXCEPT ![c].rx = @ + 1, ![c].got = @ + 1]
      BY <2>0, <2>3 DEF TypeOK, Conns
    <2>4. CASE K' = [K EXCEPT ![c].peerFin = TRUE]
      BY <2>0, <2>4 DEF TypeOK, Conns
    <2>5. CASE K' = [K EXCEPT ![c].rst = TRUE]
      BY <2>0, <2>5 DEF TypeOK, Conns
    <2>6. CASE K' = [K EXCEPT ![c].room = TRUE]
      BY <2>0, <2>6 DEF TypeOK, Conns
    <2>7. CASE c \in Opened /\ K' = [K EXCEPT ![c].fin = TRUE]
      BY <2>0, <2>7 DEF TypeOK, Conns
    <2> QED BY <2>1, <2>2, <2>3, <2>4, <2>5, <2>6, <2>7
  <1> QED BY <1>1, <1>2 DEF Idle

LEMMA IdleSteps ==
    ASSUME Inv, Next, ~Open, ~Flush, \A s \in Opened : ~Write(s) /\ ~EndWith(s)
    PROVE  Idle
  <1> USE OpenedSocks DEF Inv
  <1>1. ASSUME NEW s \in Opened, End(s) \/ Destroy(s)
        PROVE  Idle
    BY <1>1, IdleData DEF End, Destroy
  <1>2. ASSUME NEW f \in Fds, Deliver(f)
        PROVE  Idle
    BY <1>2 DEF Deliver, Idle
  <1>3. CASE PollError \/ PollIn \/ ReturnZero \/ TakeMask \/ ListenerReturns
            \/ ListenerThrows
    BY <1>3 DEF PollError, PollIn, ReturnZero, TakeMask, ListenerReturns, ListenerThrows, Idle
  <1>4. CASE Drained
    <2>1. Top.s \in Socks /\ conn[S[Top.s].fd] \in Opened \cup {0} /\ opened' = opened
      BY <1>4, PollTop DEF Drained, Owned
    <2>2. \/ S' = S /\ K' = K
          \/ S' = [S EXCEPT ![Top.s].wrShut = TRUE] /\ ShutWr(conn[S[Top.s].fd])
      BY <1>4 DEF Drained
    <2>3. CASE K' = K
      BY <2>1, <2>2, <2>3, IdleData
    <2>4. CASE K' # K
      BY <2>1, <2>2, <2>4, IdleData DEF ShutWr
    <2> QED BY <2>3, <2>4
  <1>5. CASE Receive
    <2>1. Top.s \in Socks /\ conn[S[Top.s].fd] = Top.s /\ opened' = opened
      BY <1>5, Serving DEF Receive
    <2>2. (S' = S \/ S' = [S EXCEPT ![Top.s].readEnded = TRUE]) /\ (K' = K \/ K' = [K EXCEPT ![Top.s].rx = 0])
      BY <1>5, <2>1 DEF Receive, ReadEnd
    <2> QED BY <2>1, <2>2, IdleData
  <1>6. CASE Hangup \/ Ended \/ Fatal \/ Mask
    <2>1. Top.s \in Socks
      BY <1>6, PollTop DEF Hangup, Ended, Fatal, Mask
    <2> QED BY <1>6, <2>1, IdleData DEF Hangup, Ended, Fatal, Mask, ReadEnd, CloseFd
  <1>7. ASSUME NEW s \in Socks, PeerSends(s) \/ PeerFin(s) \/ PeerReset(s) \/ PeerReads(s)
        PROVE  Idle
    BY <1>7, IdleData DEF PeerSends, PeerFin, PeerReset, PeerReads
  <1> QED BY <1>1, <1>2, <1>3, <1>4, <1>5, <1>6, <1>7 DEF Next, App, PollSteps, Peer

LEMMA AccountsNext == ASSUME Inv, Accounts, [Next]_vars PROVE Accounts'
  <1>1. CASE UNCHANGED vars
    BY <1>1 DEF vars, Accounts, Account, Opened
  <1>2. CASE Open
    <2>1. PICK f \in Fds : opened' = opened + 1 /\ S' = [S EXCEPT ![opened + 1] = NewSocket(f)]
      BY <1>2 DEF Open
    <2>2. K' = K /\ opened \in Nat
      BY <1>2 DEF Open, Inv, TypeOK
    <2>3. PICK n : n = opened + 1
      OBVIOUS
    <2>4. Opened' = Opened \cup {n} /\ n \notin Opened
      BY <2>1, <2>2, <2>3 DEF Opened
    <2>5. \A s \in Socks : S'[s] = IF s = n THEN NewSocket(f) ELSE S[s]
      BY <2>1, <2>3 DEF Inv, TypeOK
    <2> QED BY <2>2, <2>4, <2>5 DEF Accounts, Account, NewSocket
  <1>3. ASSUME NEW s \in Opened, Write(s) \/ EndWith(s)
        PROVE  Accounts'
    <2>1. s \in Socks /\ S[s].wb \in Nat /\ S[s].accepted \in Nat /\ K[s].sent \in Nat
      BY OpenedSocks DEF Inv, TypeOK, Sockets, Conns
    <2>2. K' = K /\ opened' = opened
      BY <1>3 DEF Write, EndWith
    <2>3. \A t \in Socks : /\ S'[t].wb = IF t = s THEN S[t].wb + 1 ELSE S[t].wb
                           /\ S'[t].accepted = IF t = s THEN S[t].accepted + 1 ELSE S[t].accepted
      BY <1>3, <2>1 DEF Write, EndWith, Inv, TypeOK, Sockets
    <2>4. S[s].accepted = S[s].wb + K[s].sent
      BY <2>1 DEF Accounts, Account
    <2>5. S[s].accepted + 1 = (S[s].wb + 1) + K[s].sent
      BY <2>1, <2>4
    <2> QED BY <2>1, <2>2, <2>3, <2>5 DEF Accounts, Account, Opened
  <1>4. CASE Flush
    <2>1. opened' = opened /\ Top.s \in Socks /\ Top.s \in Opened
      BY <1>4, FlushSends, Serving
    <2>2. CASE UNCHANGED <<S, K>>
      BY <2>1, <2>2 DEF Accounts, Account, Opened
    <2>3. ASSUME NEW n \in 0 .. S[Top.s].wb, Sent(n)
          PROVE  Accounts'
      <3>1. S[Top.s].wb \in Nat /\ S[Top.s].accepted \in Nat /\ K[Top.s].sent \in Nat
        BY <2>1 DEF Inv, TypeOK, Sockets, Conns
      <3>2. \A t \in Socks : /\ S'[t].wb = IF t = Top.s THEN S[t].wb - n ELSE S[t].wb
                             /\ S'[t].accepted = S[t].accepted
        BY <2>1, <2>3 DEF Sent, Inv, TypeOK, Sockets
      <3>3. \A t \in Socks : K'[t].sent = IF t = Top.s THEN K[t].sent + n ELSE K[t].sent
        <4>1. CASE n = 0
          BY <2>3, <3>1, <4>1 DEF Sent
        <4>2. CASE n # 0
          BY <2>1, <2>3, <4>2 DEF Sent, Inv, TypeOK, Conns
        <4> QED BY <4>1, <4>2
      <3>4. \A t \in Socks : t \notin Opened => K'[t].fin = K[t].fin
        <4>1. CASE n = 0
          BY <2>3, <4>1 DEF Sent
        <4>2. CASE n # 0
          BY <2>1, <2>3, <4>2 DEF Sent, Inv, TypeOK
        <4> QED BY <4>1, <4>2
      <3> QED BY <2>1, <3>1, <3>2, <3>3, <3>4 DEF Accounts, Account, Opened
    <2> QED BY <1>4, <2>2, <2>3, FlushSends
  <1>5. CASE Idle
    BY <1>5, IdleAccounts
  <1> QED BY <1>1, <1>2, <1>3, <1>4, <1>5, IdleSteps

LEMMA AccountsAlways == Spec => []Accounts
  <1>1. Init => Accounts
    BY DEF Init, Accounts, Account, Opened, NewConn, NewSocket, Socks
  <1>2. Inv /\ Accounts /\ [Next]_vars => Accounts'
    BY AccountsNext
  <1> QED BY <1>1, <1>2, InvAlways, PTL DEF Spec

(* Every chunk that write() accepted is buffered or was handed to the       *)
(* socket's own connection once, whatever the application and the peer do.  *)
THEOREM ChunksAreKept == Spec => []NothingLost
  <1>1. Inv /\ Accounts => NothingLost
    BY OpenedSocks DEF Inv, Accounts, Account, NothingLost
  <1> QED BY <1>1, InvAlways, AccountsAlways, PTL

-----------------------------------------------------------------------------
(* The frame at the bottom.                                                 *)

\* A _poll is running, for the socket s.
Polling(s) == Depth >= 1 /\ stack[1].pc # "app" /\ stack[1].s = s

LEMMA WentBottom ==
    ASSUME Inv, NEW k, k # "app", At(k), NEW l \in Labels \ {"app"}, Went(l)
    PROVE  /\ Depth' >= 1 /\ stack'[1].s = stack[1].s /\ stack'[1].fd = stack[1].fd
           /\ stack'[1].pc = l
  <1>1. stack[1] \in Frames
    BY PollTop
  <1> QED BY <1>1 DEF Went, Frames

LEMMA PopBottom ==
    ASSUME Inv, stack # <<>>, stack' = Pop, Depth' >= 1
    PROVE  stack'[1] = stack[1]
  <1>1. /\ stack' \in Seq(Frames) /\ Depth = Depth' + 1
        /\ \A i \in 1 .. Depth' : stack'[i] = stack[i]
    BY PopFrame DEF Inv, TypeOK, Depth
  <1>2. Depth' \in Nat
    BY <1>1 DEF Depth
  <1>3. 1 \in 1 .. Depth'
    BY <1>2
  <1> QED BY <1>1, <1>3

LEMMA PushBottom ==
    ASSUME Inv, stack # <<>>, NEW e \in Frames, stack' = Append(stack, e)
    PROVE  Depth' >= 1 /\ stack'[1] = stack[1]
  <1>1. stack \in Seq(Frames) /\ Depth \in Nat /\ 1 \in 1 .. Depth
    BY TopFrame DEF Inv, TypeOK
  <1>2. Depth' = Depth + 1 /\ \A i \in 1 .. Depth : stack'[i] = stack[i]
    BY <1>1, Pushed DEF Depth
  <1> QED BY <1>1, <1>2

LEMMA ListenerFrame ==
    ASSUME Inv, NEW s \in Opened, NEW ev \in {"data", "drain", "end", "error", "close"}
    PROVE  Listener(s, ev) \in Frames
  BY OpenedSocks DEF Inv, Owned, Listener, Frames, Labels

(* What a step of _poll is: where it goes on, whom it tells.                *)
PollStep ==
    PollError \/ PollIn \/ Flush \/ Drained \/ Receive \/ Hangup \/ Ended \/ Fatal
    \/ Mask \/ ReturnZero

LEMMA PollStepGoes ==
    ASSUME Inv, PollStep
    PROVE  \E k, l \in Labels \ {"app"} :
              /\ At(k) /\ l # "poll"
              /\ \/ stack' = Goto(l)
                 \/ \E ev \in {"data", "drain", "end", "error", "close"} :
                      /\ stack' = Emit(Top.s, ev, l)
                      /\ ev # "close" => k \in {"poll", "in"}
              /\ l = "drained" => Sent(S[Top.s].wb)
              /\ l = "jobs" => Mask \/ ReturnZero
  <1> USE DEF Labels
  <1>1. CASE PollError
    BY <1>1 DEF PollError
  <1>2. CASE PollIn
    BY <1>2 DEF PollIn
  <1>3. CASE Flush
    <2>1. At("poll")
      BY <1>3 DEF Flush
    <2>2. CASE stack' = Emit(Top.s, "error", "fatal")
      BY <2>1, <2>2
    <2>3. ASSUME NEW n \in 0 .. S[Top.s].wb, Sent(n), stack' = Emit(Top.s, "drain", "drained"),
                 n = S[Top.s].wb
          PROVE  Sent(S[Top.s].wb)
      BY <2>3
    <2>4. CASE stack' = Goto("in")
      BY <2>1, <2>4
    <2>5. CASE stack' = Emit(Top.s, "drain", "drained") /\ Sent(S[Top.s].wb)
      BY <2>1, <2>5
    <2> QED BY <1>3, <2>2, <2>3, <2>4, <2>5, FlushSends DEF Sent
  <1>4. CASE Drained
    BY <1>4 DEF Drained, AfterDrain
  <1>5. CASE Receive
    BY <1>5 DEF Receive, ReadEnd
  <1>6. CASE Hangup
    BY <1>6 DEF Hangup, ReadEnd
  <1>7. CASE Ended
    BY <1>7 DEF Ended
  <1>8. CASE Fatal
    BY <1>8 DEF Fatal
  <1>9. CASE Mask
    BY <1>9 DEF Mask
  <1>10. CASE ReturnZero
    BY <1>10 DEF ReturnZero
  <1> QED BY <1>1, <1>2, <1>3, <1>4, <1>5, <1>6, <1>7, <1>8, <1>9, <1>10 DEF PollStep

LEMMA PollStepStays ==
    ASSUME Inv, PollStep
    PROVE  /\ Depth = 1 /\ stack # <<>> /\ Depth' >= 1
           /\ stack[1].pc # "app" /\ stack'[1].pc # "app" /\ stack'[1].pc # "poll"
           /\ stack'[1].s = stack[1].s /\ stack'[1].fd = stack[1].fd
  <1>1. PICK k, l \in Labels \ {"app"} :
          /\ At(k) /\ l # "poll"
          /\ \/ stack' = Goto(l)
             \/ \E ev \in {"data", "drain", "end", "error", "close"} : stack' = Emit(Top.s, ev, l)
    BY PollStepGoes
  <1>2. Went(l)
    BY <1>1, GoneTo, Emitting
  <1>3. Depth = 1 /\ stack # <<>> /\ stack[1].pc # "app"
    BY <1>1, PollTop DEF At
  <1> QED BY <1>1, <1>2, <1>3, WentBottom

LEMMA BottomSame ==
    ASSUME Inv, Next, stack # <<>>, Depth' >= 1, ~PollStep, ~ListenerThrows
    PROVE  stack'[1] = stack[1]
  <1>1. CASE stack' = stack
    BY <1>1
  <1>2. CASE stack' = Pop
    BY <1>2, PopBottom
  <1>3. ASSUME NEW s \in Opened, Destroy(s)
        PROVE  stack'[1] = stack[1]
    BY <1>3, ListenerFrame, PushBottom DEF Destroy
  <1>4. CASE stack' # stack /\ stack' # Pop /\ \A s \in Opened : ~Destroy(s)
    BY <1>4 DEF Next, App, Open, Write, End, EndWith, Deliver, PollSteps, PollStep, TakeMask,
       ListenerReturns, Peer, PeerSends, PeerFin, PeerReset, PeerReads
  <1> QED BY <1>1, <1>2, <1>3, <1>4

LEMMA Bottom ==
    ASSUME Inv, Next, stack # <<>>, Depth' >= 1
    PROVE  /\ stack'[1].s = stack[1].s /\ stack'[1].fd = stack[1].fd
           /\ stack'[1].pc = "app" <=> stack[1].pc = "app"
  <1>1. CASE ListenerThrows
    BY <1>1, ThrowsTo DEF Frames
  <1>2. CASE ~ListenerThrows
    BY <1>2, BottomSame, PollStepStays
  <1> QED BY <1>1, <1>2

(* The first frame is a _poll that an event starts, or a listener.          *)
LEMMA FirstFrame ==
    ASSUME Inv, Next, stack = <<>>, Depth' >= 1
    PROVE  \/ \E s \in Opened : Destroy(s) /\ stack'[1].pc = "app"
           \/ \E f \in Fds : /\ f \in track /\ table[f] # 0 /\ UNCHANGED <<S, conn>>
                             /\ stack'[1] = Handler(table[f], f, Revents(f))
  <1>1. stack' # stack
    <2>1. Depth = 0
      BY EmptySeq DEF Depth
    <2> QED BY <2>1 DEF Depth
  <1>2. ASSUME NEW s \in Opened, Destroy(s)
        PROVE  stack'[1].pc = "app"
    <2>1. stack' = <<Listener(s, "close")>>
      BY <1>2 DEF Destroy
    <2> QED BY <2>1 DEF Listener
  <1>3. ASSUME NEW f \in Fds, Deliver(f)
        PROVE  /\ f \in track /\ table[f] # 0 /\ UNCHANGED <<S, conn>>
               /\ stack'[1] = Handler(table[f], f, Revents(f))
    BY <1>1, <1>3 DEF Deliver
  <1>4. (\E s \in Opened : Destroy(s)) \/ (\E f \in Fds : Deliver(f))
    BY <1>1 DEF Next, App, Open, Write, End, EndWith, PollSteps, PollError, PollIn, Flush,
       Drained, Receive, Hangup, Ended, Fatal, Mask, ReturnZero, TakeMask, ListenerReturns,
       ListenerThrows, At, Peer, PeerSends, PeerFin, PeerReset, PeerReads
  <1> QED BY <1>2, <1>3, <1>4

-----------------------------------------------------------------------------
(* Sockets are destroyed in their own _poll.                                *)

(* Only the socket whose _poll runs can be closed and still have events     *)
(* coming; the _poll begins with a socket that is open.                     *)
Quiet ==
    /\ Depth >= 1 => stack[1].pc # "app"
    /\ \A f \in track : table[f] # 0 /\ S[table[f]].closed => Polling(table[f])
    /\ Depth >= 1 /\ stack[1].pc = "poll" => ~S[stack[1].s].closed
    /\ Depth >= 1 /\ stack[1].pc = "jobs" /\ S[stack[1].s].closed => ret = {}

\* Who closes a socket: nobody opens it again.
LEMMA ClosedSame ==
    ASSUME Inv, Next, NEW s \in Opened, ~Fatal, ~Mask, \A t \in Opened : ~Destroy(t)
    PROVE  S'[s].closed = S[s].closed
  <1>1. s \in Socks /\ S[s] \in Sockets
    BY OpenedSocks DEF Inv, TypeOK
  <1>2. ASSUME NEW t \in Opened, Write(t) \/ End(t) \/ EndWith(t)
        PROVE  S'[s].closed = S[s].closed
    <2>1. CASE Write(t)
      BY <1>1, <2>1, InvTyped DEF Write, Sockets
    <2>2. CASE End(t)
      BY <1>1, <2>2, InvTyped DEF End, Sockets
    <2>3. CASE EndWith(t)
      BY <1>1, <2>3, InvTyped DEF EndWith, Sockets
    <2> QED BY <1>2, <2>1, <2>2, <2>3
  <1>3. CASE Open
    <2>1. PICK n : n = opened + 1 /\ n \notin Opened
      BY DEF Opened, Inv, TypeOK
    <2>2. PICK f \in Fds : S' = [S EXCEPT ![n] = NewSocket(f)]
      BY <1>3, <2>1 DEF Open
    <2> QED BY <1>1, <2>1, <2>2, InvTyped
  <1>4. CASE Receive \/ Hangup
    <2>1. S' = S \/ S' = [S EXCEPT ![Top.s].readEnded = TRUE]
      BY <1>4 DEF Receive, Hangup, ReadEnd
    <2> QED BY <1>1, <2>1, InvTyped DEF Sockets
  <1>5. CASE Drained
    <2>1. S' = S \/ S' = [S EXCEPT ![Top.s].wrShut = TRUE]
      BY <1>5 DEF Drained
    <2> QED BY <1>1, <2>1, InvTyped DEF Sockets
  <1>6. CASE Ended
    BY <1>1, <1>6, InvTyped DEF Ended, Sockets
  <1>7. CASE Flush
    <2>1. S' = S \/ \E w : S' = [S EXCEPT ![Top.s].wb = w]
      BY <1>7, FlushSends DEF Sent
    <2>2. ASSUME NEW w, S' = [S EXCEPT ![Top.s].wb = w]
          PROVE  S'[s].closed = S[s].closed
      BY <1>1, <2>2, InvTyped DEF Sockets
    <2> QED BY <2>1, <2>2
  <1>8. CASE S' = S
    BY <1>8
  <1> QED BY <1>2, <1>3, <1>4, <1>5, <1>6, <1>7, <1>8
          DEF Next, App, Deliver, PollSteps, PollError, PollIn, ReturnZero, TakeMask,
              ListenerReturns, ListenerThrows, Peer, PeerSends, PeerFin, PeerReset, PeerReads

LEMMA StaysClosed ==
    ASSUME Inv, Next, NEW s \in Opened, S[s].closed
    PROVE  S'[s].closed
  <1>1. s \in Socks /\ S[s] \in Sockets
    BY OpenedSocks DEF Inv, TypeOK
  <1>2. CASE Fatal \/ Mask
    <2>1. S' = S \/ S' = [S EXCEPT ![Top.s].closed = TRUE]
      BY <1>2 DEF Fatal, Mask, CloseFd
    <2> QED BY <1>1, <2>1, InvTyped DEF Sockets
  <1>3. ASSUME NEW t \in Opened, Destroy(t)
        PROVE  S'[s].closed
    BY <1>1, <1>3, InvTyped DEF Destroy, Sockets
  <1> QED BY <1>2, <1>3, ClosedSame

\* Who closes a socket, and whose events pol forgets.
LEMMA Closers ==
    ASSUME Inv, Quiet, Next, "destroyOutside" \notin Allow,
           NEW s \in Opened, S'[s].closed, ~S[s].closed
    PROVE  /\ Polling(s) /\ stack # <<>> /\ Depth' >= 1 /\ UNCHANGED <<track, table>>
           /\ stack[1].pc # "jobs"
  <1> USE OpenedSocks
  <1>1. CASE Fatal \/ Mask
    <2>1. Polling(Top.s) /\ Top.s \in Socks /\ stack # <<>> /\ stack[1].pc # "jobs"
      BY <1>1, PollTop DEF Fatal, Mask, Polling, At, Inv
    <2>2. PollStep
      BY <1>1 DEF PollStep
    <2>3. CloseFd(Top.s) /\ UNCHANGED <<track, table>>
      BY <1>1 DEF Fatal, Mask, pols
    <2>4. s = Top.s
      BY <2>1, <2>3 DEF CloseFd, Inv, TypeOK
    <2> QED BY <2>1, <2>2, <2>3, <2>4, PollStepStays
  <1>2. ASSUME NEW t \in Opened, Destroy(t)
        PROVE  /\ Polling(s) /\ stack # <<>> /\ Depth' >= 1 /\ UNCHANGED <<track, table>>
               /\ stack[1].pc # "jobs"
    <2>1. s = t
      BY <1>2 DEF Destroy, Inv, TypeOK
    <2>2. PICK i \in 1 .. Depth : stack[i].s = t /\ stack[i].pc \notin {"app", "jobs"}
      BY <1>2 DEF Destroy, Depth
    <2>3. i = 1
      BY <2>2 DEF Inv, Framed
    <2>4. Depth >= 1 /\ stack # <<>>
      BY <2>2, EmptySeq DEF Inv, TypeOK, Depth
    <2>5. Depth' >= 1
      BY <1>2, <2>4, ListenerFrame, PushBottom DEF Destroy
    <2> QED BY <1>2, <2>1, <2>2, <2>3, <2>4, <2>5 DEF Polling, Destroy, pols
  <1> QED BY <1>1, <1>2, ClosedSame

\* The end of an event, or of a listener called from outside.
LEMMA PollEnds ==
    ASSUME Inv, Next, stack # <<>>, Depth' = 0
    PROVE  /\ UNCHANGED S
           /\ \/ stack[1].pc = "app" /\ UNCHANGED <<track, mask, table>>
              \/ TakeMask /\ Top = stack[1]
  <1>1. ~PollStep
    BY PollStepStays
  <1>2. ASSUME NEW s \in Opened, Destroy(s) PROVE FALSE
    <2>1. stack' = Append(stack, Listener(s, "close"))
      BY <1>2 DEF Destroy
    <2> QED BY <2>1, ListenerFrame, PushBottom
  <1>3. stack' # stack
    BY TopFrame DEF Inv, TypeOK, Depth
  <1>4. ~\E f \in Fds : Deliver(f)
    BY DEF Deliver
  <1>5. CASE ListenerReturns
    <2>1. stack' = Pop /\ UNCHANGED <<S, track, mask, table>>
      BY <1>5 DEF ListenerReturns, pols
    <2>2. Depth = Len(Pop) + 1 /\ Len(Pop) = Depth'
      BY <2>1, PopFrame DEF Inv, TypeOK, Depth
    <2>3. Depth = 0 + 1
      BY <2>2, Zenon
    <2>4. Top = stack[1]
      BY <2>3, TopFrame DEF Inv, TypeOK
    <2> QED BY <1>5, <2>1, <2>4 DEF ListenerReturns, At
  <1>6. CASE TakeMask
    BY <1>6, PollTop DEF TakeMask
  <1>7. CASE ListenerThrows
    BY <1>7, ThrowsTo DEF ListenerThrows
  <1> QED BY <1>1, <1>2, <1>3, <1>4, <1>5, <1>6, <1>7
          DEF Next, App, Open, Write, End, EndWith, PollSteps, PollStep, Peer, PeerSends,
              PeerFin, PeerReset, PeerReads

\* Who changes what POL is going to be told.
LEMMA RetSteps ==
    ASSUME Inv, Next, ~Mask, ~ReturnZero, ~TakeMask, ~ListenerThrows
    PROVE  ret' = ret
  BY DEF Next, App, Open, Write, End, EndWith, Destroy, Deliver, PollSteps, PollError, PollIn,
     Flush, Drained, Receive, Hangup, Ended, Fatal, ListenerReturns, Peer, PeerSends, PeerFin,
     PeerReset, PeerReads, pols

\* How the jobs of an event begin: the mask of an open socket, or 0.
LEMMA JobsBegin ==
    ASSUME Inv, Next, Depth' >= 1, stack'[1].pc = "jobs"
    PROVE  \/ /\ Mask /\ stack # <<>> /\ Top = stack[1]
              /\ ~S[Top.s].closed /\ UNCHANGED S /\ ret' # {}
              /\ WantsOut(Top.s) => "OUT" \in ret'
           \/ ReturnZero /\ stack # <<>> /\ UNCHANGED S /\ ret' = {} /\ S[stack[1].s].closed
           \/ ListenerThrows /\ stack # <<>> /\ UNCHANGED S
              /\ (ret' = {} \/ (stack[1].pc = "jobs" /\ ret' = ret))
           \/ stack # <<>> /\ stack'[1] = stack[1] /\ ret' = ret
  <1>1. stack # <<>>
    <2>1. \A f \in Fds : Handler(table[f], f, Revents(f)).pc = "poll"
      BY DEF Handler
    <2> QED BY <2>1, FirstFrame, Zenon
  <1>2. CASE Mask
    <2>1. At("mask") /\ Top = stack[1] /\ Depth = 1
      BY <1>2, PollTop DEF Mask
    <2>2. CASE S[Top.s].closed \/ (S[Top.s].readEnded /\ S[Top.s].wrShut)
      <3>1. stack' = Goto("return") \/ stack' = Emit(Top.s, "close", "return")
        BY <1>2, <2>2 DEF Mask
      <3>2. Went("return")
        BY <2>1, <3>1, GoneTo, Emitting DEF Labels
      <3> QED BY <2>1, <3>2, WentBottom DEF Labels
    <2>3. CASE ~(S[Top.s].closed \/ (S[Top.s].readEnded /\ S[Top.s].wrShut))
      BY <1>1, <1>2, <2>1, <2>3 DEF Mask
    <2> QED BY <2>2, <2>3
  <1>3. CASE ReturnZero
    <2>1. Top = stack[1] /\ Depth = 1 /\ stack[1].pc = "return"
      BY <1>3, PollTop DEF ReturnZero, At
    <2> QED BY <1>1, <1>3, <2>1 DEF ReturnZero, Inv, Served
  <1>4. CASE ListenerThrows
    BY <1>1, <1>4 DEF ListenerThrows
  <1>5. CASE TakeMask
    <2>1. Depth = 1 /\ stack' = Pop
      BY <1>5, PollTop DEF TakeMask
    <2>2. Depth = Len(Pop) + 1 /\ Pop \in Seq(Frames)
      BY <1>1, PopFrame DEF Inv, TypeOK
    <2>3. Depth' = 0
      BY <2>1, <2>2 DEF Depth
    <2> QED BY <2>3
  <1>6. CASE ~Mask /\ ~ReturnZero /\ ~TakeMask /\ ~ListenerThrows
    <2>1. ret' = ret
      BY <1>6, RetSteps
    <2>2. CASE ~PollStep
      BY <1>1, <1>6, <2>1, <2>2, BottomSame
    <2>3. CASE PollStep
      <3>1. PICK k, l \in Labels \ {"app"} :
              /\ At(k) /\ l # "jobs"
              /\ \/ stack' = Goto(l)
                 \/ \E ev \in {"data", "drain", "end", "error", "close"} : stack' = Emit(Top.s, ev, l)
        BY <1>6, <2>3, PollStepGoes
      <3>2. Went(l)
        BY <3>1, GoneTo, Emitting
      <3> QED BY <3>1, <3>2, WentBottom
    <2> QED BY <2>2, <2>3
  <1> QED BY <1>2, <1>3, <1>4, <1>5, <1>6

LEMMA QuietBottom ==
    ASSUME Inv, Quiet, "destroyOutside" \notin Allow, Next, Depth' >= 1
    PROVE  /\ stack'[1].pc # "app"
           /\ stack'[1].pc = "poll" => ~S'[stack'[1].s].closed
           /\ stack'[1].pc = "jobs" /\ S'[stack'[1].s].closed => ret' = {}
  <1>1. CASE stack # <<>>
    <2>1. Depth >= 1 /\ stack'[1].s = stack[1].s /\ stack[1].pc # "app" /\ stack'[1].pc # "app"
      BY <1>1, Bottom, TopFrame DEF Inv, TypeOK, Quiet
    <2>2. stack[1].s \in Opened
      BY <1>1, TopFrame DEF Inv, TypeOK, Framed
    <2>3. ASSUME stack'[1].pc = "poll", S'[stack'[1].s].closed
          PROVE  FALSE
      <3>1. ~PollStep
        BY <2>3, PollStepStays
      <3>0. ~ListenerThrows
        BY <2>1, <2>3, ThrowsTo DEF Frames
      <3>2. stack'[1] = stack[1] /\ stack[1].pc = "poll"
        BY <1>1, <2>3, <3>0, <3>1, BottomSame
      <3>3. Depth = 1 /\ Top = stack[1]
        BY <1>1, <2>1, <3>2, TopFrame DEF Inv, TypeOK, Served
      <3>4. UNCHANGED S
        BY <1>1, <3>1, <3>2, <3>3
           DEF Next, App, Open, Write, End, EndWith, Destroy, AppRuns, At, Deliver, PollSteps,
               PollStep, TakeMask, ListenerReturns, ListenerThrows, Peer, PeerSends, PeerFin,
               PeerReset, PeerReads
      <3> QED BY <2>1, <2>3, <3>2, <3>4 DEF Quiet
    <2>4. ASSUME stack'[1].pc = "jobs", S'[stack'[1].s].closed
          PROVE  ret' = {}
      <3>1. stack[1].s \in Opened /\ stack'[1].s = stack[1].s /\ Depth >= 1
        BY <2>1, <2>2
      <3>2. CASE Mask /\ Top = stack[1] /\ ~S[Top.s].closed /\ UNCHANGED S
        BY <2>4, <3>1, <3>2
      <3>3. CASE ListenerThrows /\ UNCHANGED S /\ stack[1].pc = "jobs" /\ ret' = ret
        BY <2>4, <3>1, <3>3 DEF Quiet
      <3>4. CASE stack'[1] = stack[1] /\ ret' = ret
        <4>1. CASE S[stack[1].s].closed
          BY <2>4, <3>1, <3>4, <4>1 DEF Quiet
        <4>2. CASE ~S[stack[1].s].closed
          BY <2>4, <3>1, <3>4, <4>2, Closers
        <4> QED BY <4>1, <4>2
      <3> QED BY <2>4, <3>2, <3>3, <3>4, JobsBegin
    <2> QED BY <2>1, <2>3, <2>4
  <1>2. CASE stack = <<>>
    <2>1. ~\E s \in Opened : Destroy(s)
      <3>1. Depth = 0
        BY <1>2, EmptySeq DEF Depth
      <3>2. ASSUME NEW s \in Opened, Destroy(s) PROVE FALSE
        <4>1. PICK i \in 1 .. Depth : stack[i].s = s
          BY <3>2 DEF Destroy, Depth
        <4> QED BY <3>1, <4>1
      <3> QED BY <3>2
    <2>2. PICK f \in Fds : /\ f \in track /\ table[f] # 0 /\ UNCHANGED S
                           /\ stack'[1] = Handler(table[f], f, Revents(f))
      BY <1>2, <2>1, FirstFrame
    <2>3. stack'[1].s = table[f] /\ stack'[1].pc # "app" /\ stack'[1].pc # "jobs"
      BY <2>2 DEF Handler
    <2>4. ~S[table[f]].closed
      <3>1. ~Polling(table[f])
        BY <1>2, EmptySeq DEF Polling, Depth
      <3> QED BY <2>2, <3>1 DEF Quiet
    <2> QED BY <2>2, <2>3, <2>4
  <1> QED BY <1>1, <1>2

LEMMA QuietNext ==
    ASSUME Inv, Quiet, "destroyOutside" \notin Allow, [Next]_vars
    PROVE  Quiet'
  <1>1. CASE UNCHANGED vars
    BY <1>1 DEF vars, pols, Quiet, Polling, Depth
  <1>2. CASE Next
    <2>1. /\ Depth' >= 1 => stack'[1].pc # "app"
          /\ Depth' >= 1 /\ stack'[1].pc = "poll" => ~S'[stack'[1].s].closed
          /\ Depth' >= 1 /\ stack'[1].pc = "jobs" /\ S'[stack'[1].s].closed => ret' = {}
      BY <1>2, QuietBottom
    <2>2. ASSUME NEW f \in Fds, f \in track', table'[f] # 0, S'[table'[f]].closed
          PROVE  Polling(table[f])'
      <3>1. CASE Open
        <4>1. PICK n : n = opened + 1 /\ n \notin Opened /\ n \in Socks
          <5>1. opened + 1 \in Socks
            BY <3>1, SocketAssumption DEF Inv, TypeOK, Open, Socks
          <5> QED BY <5>1 DEF Opened, Inv, TypeOK
        <4>2. PICK g \in Fds : /\ S' = [S EXCEPT ![n] = NewSocket(g)]
                               /\ table' = [table EXCEPT ![g] = n]
                               /\ track' = track \cup {g}
          BY <3>1, <4>1 DEF Open
        <4>3. f # g
          BY <2>2, <4>1, <4>2 DEF Inv, TypeOK, NewSocket
        <4>4. f \in track /\ table'[f] = table[f] /\ S[table[f]].closed
          BY <2>2, <4>1, <4>2, <4>3 DEF Inv, TypeOK, Owned
        <4>5. Polling(table[f])
          BY <2>2, <4>4 DEF Quiet
        <4> QED BY <3>1, <4>4, <4>5 DEF Open, Polling, Depth
      <3>2. CASE ~Open
        <4>1. f \in track /\ table'[f] = table[f] /\ table[f] \in Opened
          <5>1. track' \subseteq track
            BY <1>2, <3>2 DEF Next, App, Write, End, EndWith, Destroy, Deliver, PollSteps, PollError,
               PollIn, Flush, Drained, Receive, Hangup, Ended, Fatal, Mask, ReturnZero, TakeMask,
               ListenerReturns, ListenerThrows, Peer, PeerSends, PeerFin, PeerReset, PeerReads, pols
          <5>2. table' = table \/ ReturnZero
            BY <1>2, <3>2 DEF Next, App, Write, End, EndWith, Destroy, Deliver, PollSteps, PollError,
               PollIn, Flush, Drained, Receive, Hangup, Ended, Fatal, Mask, TakeMask,
               ListenerReturns, ListenerThrows, Peer, PeerSends, PeerFin, PeerReset, PeerReads, pols
          <5>3. ReturnZero => table' = [table EXCEPT ![Top.fd] = 0]
            BY DEF ReturnZero
          <5> QED BY <2>2, <5>1, <5>2, <5>3 DEF Inv, TypeOK, Owned
        <4>2. S[table[f]].closed => Polling(table[f])
          BY <2>2, <4>1 DEF Quiet
        <4>3. Polling(table[f]) /\ stack # <<>>
          <5>1. CASE S[table[f]].closed
            BY <4>2, <5>1, EmptySeq DEF Polling, Depth
          <5>2. CASE ~S[table[f]].closed
            BY <1>2, <2>2, <4>1, <5>2, Closers
          <5> QED BY <5>1, <5>2
        <4>4. CASE Depth' >= 1
          BY <1>2, <4>1, <4>3, <4>4, Bottom DEF Polling
        <4>5. CASE Depth' = 0
          <5>1. S[table[f]].closed /\ S[table[f]].fd = f
            BY <1>2, <2>2, <4>1, <4>3, <4>5, PollEnds DEF Inv, Owned
          <5>2. stack[1].s = table[f] /\ stack[1].fd = f /\ stack[1].pc # "app"
            BY <4>3, <5>1, TopFrame DEF Polling, Inv, TypeOK, Framed
          <5>3. TakeMask /\ Top = stack[1] /\ stack[1].pc = "jobs" /\ Depth >= 1
            BY <1>2, <4>3, <4>5, <5>2, PollEnds, TopFrame DEF TakeMask, At, Inv, TypeOK
          <5>4. ret = {}
            BY <5>1, <5>2, <5>3 DEF Quiet
          <5> QED BY <2>2, <5>2, <5>3, <5>4 DEF TakeMask
        <4>6. Depth' \in Nat
          <5>1. stack' \in Seq(Frames)
            BY <1>2, InvNext DEF Inv, TypeOK
          <5> QED BY <5>1 DEF Depth
        <4> QED BY <4>4, <4>5, <4>6
      <3> QED BY <3>1, <3>2
    <2>3. track' \subseteq Fds
      BY <1>2, InvNext DEF Inv, TypeOK
    <2> QED BY <2>1, <2>2, <2>3 DEF Quiet
  <1> QED BY <1>1, <1>2

LEMMA QuietAlways == ASSUME "destroyOutside" \notin Allow PROVE Spec => []Quiet
  <1>1. Init => Quiet
    <2> SUFFICES ASSUME Init PROVE Quiet
      OBVIOUS
    <2>1. Depth = 0 /\ track = {}
      BY EmptySeq DEF Init, Depth
    <2> QED BY <2>1 DEF Quiet
  <1>2. Inv /\ Quiet /\ [Next]_vars => Quiet'
    BY QuietNext
  <1> QED BY <1>1, <1>2, InvAlways, PTL DEF Spec

(* A socket that said 'close' says no more, when sockets are destroyed from *)
(* their own listeners only: from outside, POL's POLLNVAL for the closed fd *)
(* comes out as an 'error'.                                                 *)
THEOREM ClosedSocketsAreQuiet ==
    ASSUME "destroyOutside" \notin Allow PROVE Spec => QuietAfterClose
  <1>1. ASSUME Inv, Quiet, [Next]_vars
        PROVE  [\A s \in Socks, ev \in {"data", "drain", "end", "error"} :
                  Emitted(ev, s) => ~S[s].closed]_vars
    <2> SUFFICES ASSUME Next, NEW s \in Socks, NEW ev \in {"data", "drain", "end", "error"},
                        Emitted(ev, s)
                 PROVE  ~S[s].closed
      BY <1>1
    <2>1. CASE PollStep
      <3>1. PICK k, l \in Labels \ {"app"} :
              /\ At(k) /\ l # "poll"
              /\ \/ stack' = Goto(l)
                 \/ \E e \in {"data", "drain", "end", "error", "close"} :
                      /\ stack' = Emit(Top.s, e, l)
                      /\ e # "close" => k \in {"poll", "in"}
        BY <1>1, <2>1, PollStepGoes
      <3>2. Depth = 1 /\ Top = stack[1] /\ Top.s \in Opened /\ stack # <<>> /\ Top.pc = k
        BY <1>1, <3>1, PollTop DEF At
      <3>3. Goto(l) \in Seq(Frames) /\ Len(Goto(l)) = Depth
        BY <1>1, <3>1, <3>2, GotoFrame DEF Inv, TypeOK
      <3>4. stack' # Goto(l)
        BY <3>3 DEF Emitted, Depth
      <3>5. PICK e \in {"data", "drain", "end", "error", "close"} :
              /\ stack' = Emit(Top.s, e, l)
              /\ e # "close" => k \in {"poll", "in"}
        BY <3>1, <3>4
      <3>6. stack'[Len(stack')] = Listener(Top.s, e)
        BY <1>1, <3>2, <3>3, <3>5, ListenerFrame, AppendProperties DEF Emit
      <3>7. s = Top.s /\ e = ev
        BY <3>6 DEF Emitted, Listener
      <3>8. k \in {"poll", "in"}
        BY <3>5, <3>7
      <3> QED BY <1>1, <3>2, <3>7, <3>8 DEF Inv, Served, Quiet
    <2>2. CASE ~PollStep
      <3>1. ASSUME NEW t \in Opened, Destroy(t)
            PROVE  FALSE
        <4>1. stack' = Append(stack, Listener(t, "close")) /\ Listener(t, "close") \in Frames
          BY <1>1, <3>1, ListenerFrame DEF Destroy
        <4>2. stack'[Len(stack')] = Listener(t, "close")
          BY <1>1, <4>1, AppendProperties DEF Inv, TypeOK
        <4> QED BY <4>2 DEF Emitted, Listener
      <3>2. ASSUME NEW f \in Fds, Deliver(f), stack' # stack
            PROVE  FALSE
        <4>1. stack' = <<Handler(table[f], f, Revents(f))>>
          BY <3>2 DEF Deliver
        <4> QED BY <4>1 DEF Emitted, Handler
      <3>3. ASSUME stack' = stack
            PROVE  FALSE
        <4>1. Len(stack) \in Nat
          BY <1>1 DEF Inv, TypeOK
        <4> QED BY <3>3, <4>1 DEF Emitted
      <3>4. ASSUME stack' = Pop, stack # <<>>
            PROVE  FALSE
        <4>1. Pop \in Seq(Frames) /\ Depth = Len(Pop) + 1
          BY <1>1, <3>4, PopFrame DEF Inv, TypeOK
        <4>2. PICK n \in Nat : n = Len(Pop) /\ Depth = n + 1
          BY <4>1
        <4> QED BY <3>4, <4>2 DEF Emitted, Depth
      <3>5. ASSUME ListenerThrows
            PROVE  FALSE
        <4>1. Depth \in Nat /\ 1 \in 1 .. Depth /\ (Depth' = 0 \/ Depth' = 1)
          BY <1>1, <3>5, ThrowsTo, TopFrame DEF Inv, TypeOK
        <4> QED BY <4>1 DEF Emitted, Depth
      <3> QED BY <2>2, <3>1, <3>2, <3>3, <3>4, <3>5
              DEF Next, App, Open, Write, End, EndWith, PollSteps, PollStep, TakeMask, At,
                  ListenerReturns, Peer, PeerSends, PeerFin, PeerReset, PeerReads
    <2> QED BY <2>1, <2>2
  <1> QED BY <1>1, InvAlways, QuietAlways, PTL DEF Spec, QuietAfterClose

(* A number leads to another connection only when a socket is opened.      *)
LEMMA ConnShrinks ==
    ASSUME Inv, Next, ~Open, NEW f \in Fds
    PROVE  conn'[f] = conn[f] \/ conn'[f] = 0
  <1>1. conn' = conn \/ \E g : conn' = [conn EXCEPT ![g] = 0]
    BY DEF Next, App, Write, End, EndWith, Destroy, Deliver, PollSteps, PollError,
       PollIn, Flush, Drained, Receive, Hangup, Ended, Fatal, Mask, CloseFd, Close, ReturnZero, TakeMask,
       ListenerReturns, ListenerThrows, Peer, PeerSends, PeerFin, PeerReset, PeerReads
  <1> QED BY <1>1 DEF Inv, TypeOK

-----------------------------------------------------------------------------
(* No socket is opened while the _poll of a closed one runs.                *)

(* Its number is free until that _poll is over.                             *)
NumberFree ==
    Depth >= 1 /\ stack[1].pc # "app" /\ S[stack[1].s].closed => conn[stack[1].fd] = 0

LEMMA NumberFreeNext ==
    ASSUME Inv, NumberFree, "reopen" \notin Allow, [Next]_vars
    PROVE  NumberFree'
  <1>1. CASE UNCHANGED vars
    BY <1>1 DEF vars, NumberFree, Depth
  <1>2. ASSUME Next, Depth' >= 1, stack'[1].pc # "app", S'[stack'[1].s].closed
        PROVE  conn'[stack'[1].fd] = 0
    <2>1. CASE stack # <<>>
      <3>1. Depth >= 1 /\ 1 \in 1 .. Depth /\ 1 \in 1 .. Len(stack)
        BY <2>1, TopFrame DEF Inv, TypeOK, Depth
      <3>2. /\ stack'[1].s = stack[1].s /\ stack'[1].fd = stack[1].fd /\ stack[1].pc # "app"
            /\ stack[1].s \in Opened /\ S[stack[1].s].fd = stack[1].fd
        BY <1>2, <2>1, <3>1, Bottom DEF Inv, Framed
      <3>3. stack[1].s \in Socks /\ stack[1].fd \in Fds
        BY <3>2, OpenedSocks DEF Inv, Owned
      <3>4. CASE S[stack[1].s].closed
        <4>1. ~Open
          BY <3>1, <3>2, <3>4 DEF Open, Closing
        <4>2. conn[stack[1].fd] = 0
          BY <3>1, <3>2, <3>4 DEF NumberFree
        <4> QED BY <1>2, <3>2, <3>3, <4>1, <4>2, ConnShrinks
      <3>5. CASE ~S[stack[1].s].closed
        <4>1. Inv'
          BY <1>2, InvNext
        <4>2. \A f \in Fds : conn'[f] # 0 => ~S'[conn'[f]].closed /\ S'[conn'[f]].fd = f
          BY <4>1 DEF Inv, Owned
        <4>3. ~Open
          <5>1. ASSUME Open PROVE FALSE
            <6>1. PICK n : n = opened + 1 /\ n \notin Opened
              BY DEF Opened, Inv, TypeOK
            <6>2. PICK g \in Fds : S' = [S EXCEPT ![n] = NewSocket(g)]
              BY <5>1, <6>1 DEF Open
            <6> QED BY <1>2, <3>2, <3>3, <3>5, <6>1, <6>2 DEF Inv, TypeOK
          <5> QED BY <5>1
        <4>5. conn[stack[1].fd] = stack[1].s
          BY <3>2, <3>5 DEF Inv, Owned
        <4>6. conn'[stack[1].fd] = conn[stack[1].fd] \/ conn'[stack[1].fd] = 0
          BY <1>2, <3>3, <4>3, ConnShrinks
        <4> QED BY <1>2, <3>2, <3>3, <4>2, <4>5, <4>6
      <3> QED BY <3>4, <3>5
    <2>2. CASE stack = <<>>
      <3>1. PICK f \in Fds : /\ table[f] # 0 /\ UNCHANGED <<S, conn>>
                             /\ stack'[1] = Handler(table[f], f, Revents(f))
        BY <1>2, <2>2, FirstFrame
      <3>2. stack'[1].s = table[f] /\ stack'[1].fd = f
        BY <3>1 DEF Handler
      <3> QED BY <1>2, <3>1, <3>2 DEF Inv, Owned
    <2> QED BY <2>1, <2>2
  <1> QED BY <1>1, <1>2 DEF NumberFree

LEMMA NumberFreeAlways == ASSUME "reopen" \notin Allow PROVE Spec => []NumberFree
  <1>1. Init => NumberFree
    <2> SUFFICES ASSUME Init PROVE NumberFree
      OBVIOUS
    <2>1. Depth = 0
      BY EmptySeq DEF Init, Depth
    <2> QED BY <2>1 DEF NumberFree
  <1>2. Inv /\ NumberFree /\ [Next]_vars => NumberFree'
    BY NumberFreeNext
  <1> QED BY <1>1, <1>2, InvAlways, PTL DEF Spec

-----------------------------------------------------------------------------
(* Who moves a socket's data and its FIN.                                   *)

\* s.write(), s.end(), s.destroy(), or a step of its own _poll.
Moves(s) ==
    \/ Write(s) \/ End(s) \/ EndWith(s) \/ Destroy(s)
    \/ Top.s = s /\ (Flush \/ Drained \/ Ended)

LEMMA SameOpened ==
    ASSUME Inv, Next, ~Open
    PROVE  opened' = opened /\ Opened' = Opened
  BY DEF Next, App, Write, End, EndWith, Destroy, Deliver, PollSteps, PollError,
     PollIn, Flush, Drained, Receive, Hangup, Ended, Fatal, Mask, ReturnZero, TakeMask,
     ListenerReturns, ListenerThrows, Peer, PeerSends, PeerFin, PeerReset, PeerReads, Opened

LEMMA OpenStep ==
    ASSUME Inv, Open
    PROVE  \E n \in Socks, g \in Fds :
              /\ n \notin Opened /\ Opened' = Opened \cup {n} /\ conn[g] = 0
              /\ S' = [S EXCEPT ![n] = NewSocket(g)]
              /\ \A s \in Opened : S'[s] = S[s]
              /\ S'[n] = NewSocket(g)
              /\ table' = [table EXCEPT ![g] = n]
              /\ track' = track \cup {g}
              /\ mask' = [mask EXCEPT ![g] = {"IN"}]
              /\ UNCHANGED <<K, ret, stack>>
  <1>1. PICK n : n = opened + 1 /\ n \notin Opened /\ n \in Socks /\ Opened' = Opened \cup {n}
    <2>1. opened + 1 \in Socks /\ opened \in Nat
      BY SocketAssumption DEF Inv, TypeOK, Open, Socks
    <2> QED BY <2>1 DEF Opened, Open
  <1>2. PICK g \in Fds :
          /\ conn[g] = 0 /\ S' = [S EXCEPT ![n] = NewSocket(g)]
          /\ table' = [table EXCEPT ![g] = n]
          /\ track' = track \cup {g}
          /\ mask' = [mask EXCEPT ![g] = {"IN"}]
          /\ UNCHANGED <<K, ret, stack>>
    BY <1>1 DEF Open
  <1>3. (\A s \in Opened : S'[s] = S[s]) /\ S'[n] = NewSocket(g)
    BY <1>1, <1>2, OpenedSocks DEF Inv, TypeOK
  <1> QED BY <1>1, <1>2, <1>3

LEMMA Unmoved ==
    ASSUME Inv, Next, ~Open, NEW s \in Opened, ~Moves(s)
    PROVE  S'[s].wb = S[s].wb /\ S'[s].ending = S[s].ending /\ S'[s].wrShut = S[s].wrShut
  <1>1. s \in Socks /\ S[s] \in Sockets
    BY OpenedSocks DEF Inv, TypeOK
  <1>2. CASE S'[s] = S[s]
    BY <1>2
  <1>3. ASSUME NEW t \in Opened, t # s, Write(t) \/ End(t) \/ EndWith(t) \/ Destroy(t)
        PROVE  S'[s] = S[s]
    BY <1>1, <1>3 DEF Write, End, EndWith, Destroy, Inv, TypeOK
  <1>4. ASSUME Flush \/ Drained \/ Ended, Top.s # s
        PROVE  S'[s] = S[s]
    BY <1>1, <1>4, FlushSends DEF Sent, Drained, Ended, Inv, TypeOK
  <1>5. ASSUME Receive \/ Hangup \/ Fatal \/ Mask
        PROVE  S'[s].wb = S[s].wb /\ S'[s].ending = S[s].ending /\ S'[s].wrShut = S[s].wrShut
    <2>1. \/ S' = S \/ S' = [S EXCEPT ![Top.s].readEnded = TRUE]
          \/ S' = [S EXCEPT ![Top.s].closed = TRUE]
      BY <1>5 DEF Receive, Hangup, ReadEnd, Fatal, Mask, CloseFd
    <2>2. CASE S' = [S EXCEPT ![Top.s].readEnded = TRUE]
      BY <1>1, <2>2 DEF Inv, TypeOK, Sockets
    <2>3. CASE S' = [S EXCEPT ![Top.s].closed = TRUE]
      BY <1>1, <2>3 DEF Inv, TypeOK, Sockets
    <2> QED BY <2>1, <2>2, <2>3
  <1> QED BY <1>2, <1>3, <1>4, <1>5
          DEF Moves, Next, App, Deliver, PollSteps, PollError, PollIn, ReturnZero, TakeMask,
              ListenerReturns, ListenerThrows, Peer, PeerSends, PeerFin, PeerReset, PeerReads

LEMMA FinStep ==
    ASSUME Inv, Next, NEW c \in Socks, K'[c].fin # K[c].fin
    PROVE  Drained /\ FinDue(Top.s) /\ c = conn[S[Top.s].fd]
  <1>1. K[c] \in Conns
    BY DEF Inv, TypeOK
  <1>2. CASE Drained
    BY <1>2 DEF Drained, ShutWr, Inv, TypeOK
  <1>3. ~Flush
    <2>1. ASSUME NEW n \in 0 .. S[Top.s].wb, Sent(n), Flush
          PROVE  K'[c].fin = K[c].fin
      <3>1. CASE n = 0
        BY <2>1, <3>1 DEF Sent
      <3>2. CASE n # 0
        <4>1. PICK m, b : K' = [K EXCEPT ![Top.s].sent = m, ![Top.s].room = b]
          BY <2>1, <3>2, Zenon DEF Sent
        <4> QED BY <1>1, <4>1 DEF Inv, TypeOK, Conns
      <3> QED BY <3>1, <3>2
    <2> QED BY <2>1, FlushSends
  <1>4. ~Receive
    <2>1. ASSUME NEW d, K' = [K EXCEPT ![d].rx = 0]
          PROVE  FALSE
      BY <1>1, <2>1 DEF Inv, TypeOK, Conns
    <2>2. Receive => K' = K \/ \E d : K' = [K EXCEPT ![d].rx = 0]
      BY DEF Receive
    <2> QED BY <2>1, <2>2
  <1>5. ASSUME NEW s \in Socks, PeerSends(s) \/ PeerFin(s) \/ PeerReset(s) \/ PeerReads(s)
        PROVE  FALSE
    <2>1. CASE PeerSends(s)
      BY <1>1, <2>1 DEF PeerSends, Inv, TypeOK, Conns
    <2>2. CASE PeerFin(s)
      BY <1>1, <2>2 DEF PeerFin, Inv, TypeOK, Conns
    <2>3. CASE PeerReset(s)
      BY <1>1, <2>3 DEF PeerReset, Inv, TypeOK, Conns
    <2>4. CASE PeerReads(s)
      BY <1>1, <2>4 DEF PeerReads, Inv, TypeOK, Conns
    <2> QED BY <1>5, <2>1, <2>2, <2>3, <2>4
  <1> QED BY <1>2, <1>3, <1>4, <1>5
          DEF Next, App, Open, Write, End, EndWith, Destroy, Deliver, PollSteps, PollError,
              PollIn, Hangup, Ended, Fatal, Mask, ReturnZero, TakeMask, ListenerReturns, ListenerThrows, Peer

(* What the moves of a socket do to its end().                              *)
LEMMA EndingStays ==
    ASSUME Inv, Next, ~Open, NEW s \in Opened, S[s].ending
    PROVE  S'[s].ending
  <1>1. s \in Socks /\ S[s] \in Sockets
    BY OpenedSocks DEF Inv, TypeOK
  <1>2. CASE ~Moves(s)
    BY <1>2, Unmoved
  <1>3. CASE Write(s) \/ EndWith(s)
    BY <1>3 DEF Write, EndWith
  <1>4. CASE End(s)
    BY <1>4 DEF End
  <1>5. CASE Destroy(s)
    BY <1>1, <1>5 DEF Destroy, Inv, TypeOK, Sockets
  <1>6. CASE Top.s = s /\ Flush
    <2>1. S' = S \/ \E w : S' = [S EXCEPT ![s].wb = w]
      BY <1>6, FlushSends DEF Sent
    <2> QED BY <1>1, <2>1 DEF Inv, TypeOK, Sockets
  <1>7. CASE Top.s = s /\ Drained
    <2>1. S' = S \/ S' = [S EXCEPT ![s].wrShut = TRUE]
      BY <1>7 DEF Drained
    <2> QED BY <1>1, <2>1 DEF Inv, TypeOK, Sockets
  <1>8. CASE Top.s = s /\ Ended
    BY <1>1, <1>8 DEF Ended, Inv, TypeOK, Sockets
  <1> QED BY <1>2, <1>3, <1>4, <1>5, <1>6, <1>7, <1>8 DEF Moves

(* A drained _poll shuts down its own connection, or none when it is closed.*)
LEMMA OwnFin ==
    ASSUME Inv, NumberFree, Drained, FinDue(Top.s), conn[S[Top.s].fd] # 0
    PROVE  conn[S[Top.s].fd] = Top.s /\ Top.s \in Opened /\ S[Top.s].ending /\ ~S[Top.s].closed
  <1>1. /\ Depth = 1 /\ Top = stack[1] /\ Top.s \in Opened /\ S[Top.s].fd = Top.fd
        /\ stack[1].pc # "app"
    BY PollTop DEF Drained, At
  <1>2. ~S[Top.s].closed
    BY <1>1 DEF NumberFree
  <1> QED BY <1>1, <1>2 DEF Inv, Owned, FinDue

LEMMA FinsNext ==
    ASSUME Inv, NumberFree, Accounts, FinIsOwn, [Next]_vars
    PROVE  FinIsOwn'
  <1>1. CASE UNCHANGED vars
    BY <1>1 DEF vars, FinIsOwn, Opened
  <1>2. CASE Open
    <2>1. PICK n \in Socks, g \in Fds :
            /\ n \notin Opened /\ Opened' = Opened \cup {n}
            /\ \A s \in Opened : S'[s] = S[s]
            /\ K' = K
      BY <1>2, OpenStep
    <2> QED BY <2>1 DEF Accounts, Account, FinIsOwn
  <1>3. ASSUME Next, ~Open, NEW s \in Opened, K'[s].fin
        PROVE  S'[s].ending
    <2>1. CASE K[s].fin
      BY <1>3, <2>1, EndingStays DEF FinIsOwn
    <2>2. CASE ~K[s].fin
      <3>1. Drained /\ FinDue(Top.s) /\ s = conn[S[Top.s].fd]
        BY <1>3, <2>2, FinStep, OpenedSocks DEF Inv
      <3>2. S[s].ending
        BY <3>1, OwnFin DEF Opened
      <3> QED BY <1>3, <3>2, EndingStays
    <2> QED BY <2>1, <2>2
  <1> QED BY <1>1, <1>2, <1>3, SameOpened DEF FinIsOwn

(* No connection is half-closed unless its own socket was ended: the FIN    *)
(* that a drained _poll sends never goes out on a reused number.            *)
THEOREM FinsAreOwn == ASSUME "reopen" \notin Allow PROVE Spec => []FinIsOwn
  <1>1. Init => FinIsOwn
    BY DEF Init, FinIsOwn, Opened
  <1>2. Inv /\ NumberFree /\ Accounts /\ FinIsOwn /\ [Next]_vars => FinIsOwn'
    BY FinsNext
  <1> QED BY <1>1, <1>2, InvAlways, NumberFreeAlways, AccountsAlways, PTL DEF Spec

-----------------------------------------------------------------------------
(* Nothing is written after the FIN.                                        *)

(* A FIN is sent, or about to be, with an empty buffer.                     *)
FinLast ==
    /\ \A s \in Opened : K[s].fin => S[s].ending /\ S[s].wb = 0
    /\ Depth >= 1 /\ stack[1].pc = "drained" /\ S[stack[1].s].ending /\ ~S[stack[1].s].closed
         => S[stack[1].s].wb = 0

LEMMA FinLastNext ==
    ASSUME Inv, NumberFree, Accounts, FinLast, "endInDrain" \notin Allow, [Next]_vars
    PROVE  FinLast'
  <1>1. CASE UNCHANGED vars
    BY <1>1 DEF vars, FinLast, Opened, Depth
  <1>2. CASE Open
    <2>1. PICK n \in Socks, g \in Fds :
            /\ n \notin Opened /\ Opened' = Opened \cup {n}
            /\ \A s \in Opened : S'[s] = S[s]
            /\ K' = K /\ stack' = stack
      BY <1>2, OpenStep
    <2>2. Depth >= 1 => stack[1].s \in Opened
      BY TopFrame, EmptySeq DEF Inv, TypeOK, Framed, Depth
    <2>3. \A s \in Opened' : K'[s].fin => S'[s].ending /\ S'[s].wb = 0
      BY <2>1 DEF Accounts, Account, FinLast
    <2> QED BY <2>1, <2>2, <2>3 DEF FinLast, Depth
  <1>3. ASSUME Next, ~Open
        PROVE  \A s \in Opened : K'[s].fin => S'[s].ending /\ S'[s].wb = 0
    <2> SUFFICES ASSUME NEW s \in Opened, K'[s].fin
                 PROVE  S'[s].ending /\ S'[s].wb = 0
      OBVIOUS
    <2>1. s \in Socks /\ S[s] \in Sockets /\ s # 0
      BY OpenedSocks DEF Inv, TypeOK, Opened
    <2>2. S[s].ending /\ S[s].wb = 0
      <3>1. CASE K[s].fin
        BY <3>1 DEF FinLast
      <3>2. CASE ~K[s].fin
        <4>1. Drained /\ FinDue(Top.s) /\ s = conn[S[Top.s].fd]
          BY <1>3, <2>1, <3>2, FinStep
        <4>2. Top.s = s /\ S[s].ending /\ ~S[s].closed
          BY <2>1, <4>1, OwnFin
        <4>3. At("drained")
          BY <4>1 DEF Drained
        <4>4. Depth = 1 /\ Top = stack[1]
          BY <4>3, PollTop
        <4>5. Depth >= 1 /\ stack[1].pc = "drained" /\ stack[1].s = s
          BY <4>2, <4>3, <4>4 DEF At
        <4> QED BY <4>2, <4>5 DEF FinLast
      <3> QED BY <3>1, <3>2
    <2>3. S'[s].ending
      BY <1>3, <2>2, EndingStays
    <2>4. S'[s].wb = 0
      <3>1. CASE ~Moves(s)
        BY <1>3, <2>2, <3>1, Unmoved
      <3>2. ~Write(s) /\ ~EndWith(s) /\ ~End(s)
        BY <2>2 DEF Write, EndWith, End
      <3>3. CASE Destroy(s)
        BY <2>1, <2>2, <3>3 DEF Destroy, Inv, TypeOK, Sockets
      <3>4. CASE Top.s = s /\ Flush
        <4>1. UNCHANGED S \/ \E n \in 0 .. S[s].wb : S' = [S EXCEPT ![s].wb = S[s].wb - n]
          BY <3>4, FlushSends DEF Sent
        <4>2. ASSUME NEW n \in 0 .. S[s].wb PROVE S[s].wb - n = 0
          <5>1. PICK w : w = S[s].wb /\ w = 0
            BY <2>2
          <5>2. n \in 0 .. w
            BY <5>1
          <5>3. n = 0
            BY <5>1, <5>2
          <5> QED BY <5>1, <5>3
        <4> QED BY <2>1, <2>2, <4>1, <4>2 DEF Inv, TypeOK, Sockets
      <3>5. CASE Top.s = s /\ Drained
        <4>1. S' = S \/ S' = [S EXCEPT ![s].wrShut = TRUE]
          BY <3>5 DEF Drained
        <4> QED BY <2>1, <2>2, <4>1 DEF Inv, TypeOK, Sockets
      <3>6. CASE Top.s = s /\ Ended
        BY <2>1, <2>2, <3>6 DEF Ended, Inv, TypeOK, Sockets
      <3> QED BY <3>1, <3>2, <3>3, <3>4, <3>5, <3>6 DEF Moves
    <2> QED BY <2>3, <2>4
  <1>4. ASSUME Next, ~Open, Depth' >= 1, stack'[1].pc = "drained", S'[stack'[1].s].ending,
               ~S'[stack'[1].s].closed
        PROVE  S'[stack'[1].s].wb = 0
    <2>1. stack # <<>>
      <3>1. \A f \in Fds : Handler(table[f], f, Revents(f)).pc = "poll"
        BY DEF Handler
      <3>2. stack'[1].pc # "poll" /\ stack'[1].pc # "app"
        BY <1>4
      <3> QED BY <1>4, <3>1, <3>2, FirstFrame, Zenon
    <2>2. /\ Depth >= 1 /\ stack[1].s \in Opened /\ stack'[1].s = stack[1].s
          /\ stack[1].s \in Socks /\ S[stack[1].s] \in Sockets
      BY <1>4, <2>1, TopFrame, Bottom, OpenedSocks DEF Inv, TypeOK, Framed
    <2>3. CASE PollStep
      <3>1. Top = stack[1]
        BY <2>1, <2>3, PollStepStays, TopFrame DEF Inv, TypeOK
      <3>2. PICK k, l \in Labels \ {"app"} :
              /\ At(k) /\ l # "poll"
              /\ \/ stack' = Goto(l)
                 \/ \E ev \in {"data", "drain", "end", "error", "close"} : stack' = Emit(Top.s, ev, l)
              /\ l = "drained" => Sent(S[Top.s].wb)
        BY <2>3, PollStepGoes
      <3>3. Went(l)
        BY <3>2, GoneTo, Emitting
      <3>4. Sent(S[Top.s].wb)
        BY <1>4, <3>2, <3>3, WentBottom
      <3>5. S[Top.s].wb - S[Top.s].wb = 0
        BY <2>2, <3>1 DEF Sockets
      <3> QED BY <2>2, <3>1, <3>4, <3>5 DEF Sent, Inv, TypeOK, Sockets
    <2>4. CASE ~PollStep
      <3>0. ~ListenerThrows
        BY <1>4, ThrowsTo DEF Frames
      <3>1. stack'[1] = stack[1]
        BY <1>4, <2>1, <2>4, <3>0, BottomSame
      <3>2. PICK s : s = stack[1].s
        OBVIOUS
      <3>3. ~Destroy(s)
        BY <1>4, <2>2, <3>2 DEF Destroy, Inv, TypeOK, Sockets
      <3>4. ~(Top.s = s /\ (Flush \/ Drained \/ Ended))
        BY <2>4 DEF PollStep
      <3>5. ~S[s].closed
        BY <1>4, <2>2, <3>2, StaysClosed
      <3>6. CASE S[s].ending
        <4>1. ~Moves(s)
          BY <3>3, <3>4, <3>6 DEF Moves, Write, End, EndWith
        <4> QED BY <1>4, <2>2, <3>1, <3>2, <3>5, <3>6, <4>1, Unmoved DEF FinLast
      <3>7. CASE ~S[s].ending
        <4>1. Draining(s)
          BY <1>4, <2>1, <3>1, <3>2, TopFrame DEF Draining, Inv, TypeOK, Depth
        <4>2. End(s)
          <5>1. Moves(s)
            BY <1>4, <2>2, <3>2, <3>7, Unmoved
          <5>2. ~Write(s)
            <6>1. Write(s) => S'[s].ending = S[s].ending
              BY <2>2, <3>2 DEF Write, Inv, TypeOK, Sockets
            <6> QED BY <1>4, <2>2, <3>2, <3>7, <6>1
          <5>3. ~EndWith(s)
            BY <4>1 DEF EndWith
          <5> QED BY <3>3, <3>4, <5>1, <5>2, <5>3 DEF Moves
        <4> QED BY <2>2, <3>2, <4>1, <4>2, "endInDrain" \notin Allow DEF End, Inv, TypeOK, Sockets
      <3> QED BY <3>6, <3>7
    <2> QED BY <2>3, <2>4
  <1> QED BY <1>1, <1>2, <1>3, <1>4, SameOpened DEF FinLast

(* end() finishes writing before the shutdown: a connection whose FIN is    *)
(* out has taken everything that was written on it.                         *)
THEOREM FinsComeLast ==
    ASSUME "reopen" \notin Allow, "endInDrain" \notin Allow
    PROVE  Spec => []FinAfterData
  <1>1. Init => FinLast
    <2> SUFFICES ASSUME Init PROVE FinLast
      OBVIOUS
    <2>1. Depth = 0 /\ Opened = {}
      BY EmptySeq DEF Init, Depth, Opened
    <2> QED BY <2>1 DEF FinLast
  <1>2. Inv /\ NumberFree /\ Accounts /\ FinLast /\ [Next]_vars => FinLast'
    BY FinLastNext
  <1>3. Inv /\ Accounts /\ FinLast => FinAfterData
    <2> SUFFICES ASSUME Inv, Accounts, FinLast, NEW s \in Opened, K[s].fin
                 PROVE  K[s].sent = S[s].accepted
      BY DEF FinAfterData
    <2>1. s \in Socks /\ S[s].accepted = S[s].wb + K[s].sent /\ S[s].wb = 0 /\ K[s].sent \in Nat
      BY OpenedSocks DEF Inv, TypeOK, Conns, Accounts, Account, FinLast
    <2> QED BY <2>1
  <1> QED BY <1>1, <1>2, <1>3, InvAlways, NumberFreeAlways, AccountsAlways, PTL DEF Spec

-----------------------------------------------------------------------------
(* Wake-ups.                                                                *)

(* A live socket is watched at every step, by its own closure.              *)
Watched == \A s \in Opened : ~S[s].closed => S[s].fd \in track /\ table[S[s].fd] = s

Pending(s) == S[s].wb > 0 \/ (S[s].ending /\ ~S[s].wrShut)

(* What it still has to send is polled for, at every step.                  *)
Polled == \A s \in Opened : ~S[s].closed /\ Pending(s) => "OUT" \in mask[S[s].fd]

(* The mask that POL is about to take has it too.                           *)
Promised ==
    Depth >= 1 /\ stack[1].pc = "jobs" /\ ~S[stack[1].s].closed /\ Pending(stack[1].s)
        => "OUT" \in ret

LEMMA LiveStays ==
    ASSUME Inv, Next, ~Open, NEW s \in Opened, ~S'[s].closed
    PROVE  /\ ~S[s].closed /\ S'[s].fd = S[s].fd
           /\ S[s].fd \in Fds /\ conn[S[s].fd] = s /\ s # 0
  <1>1. ~S[s].closed
    BY StaysClosed
  <1>2. S[s].fd \in Fds /\ conn[S[s].fd] = s /\ s # 0
    BY <1>1 DEF Inv, Owned, Opened
  <1>3. S'[s].fd \in Fds /\ conn'[S'[s].fd] = s
    BY SameOpened, InvNext DEF Inv, Owned
  <1>4. conn[S'[s].fd] = s
    BY <1>2, <1>3, ConnShrinks
  <1>5. S[s].fd = S'[s].fd
    BY <1>2, <1>3, <1>4 DEF Inv, Owned
  <1> QED BY <1>1, <1>2, <1>5

(* POL is told to drop a socket's fd only when the socket is closed.        *)
Dropped == Depth >= 1 /\ stack[1].pc = "jobs" /\ ret = {} => S[stack[1].s].closed

LEMMA DroppedNext ==
    ASSUME Inv, Dropped, "throws" \notin Allow, [Next]_vars
    PROVE  Dropped'
  <1>1. CASE UNCHANGED vars
    BY <1>1 DEF vars, pols, Dropped, Depth
  <1>2. ASSUME Next, Depth' >= 1, stack'[1].pc = "jobs", ret' = {}
        PROVE  S'[stack'[1].s].closed
    <2>1. ~ListenerThrows
      BY DEF ListenerThrows
    <2>2. stack # <<>>
      BY <1>2, JobsBegin
    <2>3. stack'[1].s = stack[1].s /\ stack[1].s \in Opened /\ Depth >= 1
      BY <1>2, <2>2, Bottom, TopFrame DEF Inv, TypeOK, Framed
    <2>4. CASE stack'[1] = stack[1] /\ ret' = ret
      BY <1>2, <2>3, <2>4, StaysClosed DEF Dropped
    <2> QED BY <1>2, <2>1, <2>3, <2>4, JobsBegin
  <1> QED BY <1>1, <1>2 DEF Dropped

LEMMA DroppedAlways == ASSUME "throws" \notin Allow PROVE Spec => []Dropped
  <1>1. Init => Dropped
    <2> SUFFICES ASSUME Init PROVE Dropped
      OBVIOUS
    <2>1. Depth = 0
      BY EmptySeq DEF Init, Depth
    <2> QED BY <2>1 DEF Dropped
  <1>2. Inv /\ Dropped /\ [Next]_vars => Dropped'
    BY DroppedNext
  <1> QED BY <1>1, <1>2, InvAlways, PTL DEF Spec

LEMMA WatchedNext ==
    ASSUME Inv, NumberFree, Dropped, Watched, "throws" \notin Allow, [Next]_vars
    PROVE  Watched'
  <1>1. CASE UNCHANGED vars
    BY <1>1 DEF vars, pols, Watched, Opened
  <1>2. CASE Open
    <2>1. PICK n \in Socks, g \in Fds :
            /\ n \notin Opened /\ Opened' = Opened \cup {n} /\ conn[g] = 0
            /\ \A s \in Opened : S'[s] = S[s]
            /\ S'[n] = NewSocket(g)
            /\ table' = [table EXCEPT ![g] = n]
            /\ track' = track \cup {g}
      BY <1>2, OpenStep
    <2>2. \A s \in Opened : ~S[s].closed => S[s].fd # g
      BY <2>1 DEF Inv, Owned, Opened
    <2>3. \A s \in Opened : ~S'[s].closed => S'[s].fd \in track' /\ table'[S'[s].fd] = s
      BY <2>1, <2>2 DEF Watched, Inv, Owned, TypeOK
    <2>4. S'[n].fd \in track' /\ table'[S'[n].fd] = n
      BY <2>1 DEF NewSocket, Inv, TypeOK
    <2> QED BY <2>1, <2>3, <2>4 DEF Watched
  <1>3. ASSUME Next, ~Open, NEW s \in Opened, ~S'[s].closed
        PROVE  S'[s].fd \in track' /\ table'[S'[s].fd] = s
    <2>1. ~S[s].closed /\ S[s].fd \in track /\ table[S[s].fd] = s
      BY <1>3, LiveStays DEF Watched
    <2>2. S[s].fd \in Fds /\ conn[S[s].fd] = s /\ s # 0
      BY <1>3, LiveStays
    <2>3. S'[s].fd = S[s].fd
      BY <1>3, LiveStays
    <2>4. CASE ReturnZero
      <3>1. Depth = 1 /\ Top = stack[1] /\ S[Top.s].closed
        BY <2>4, PollTop DEF ReturnZero, At, Inv, Served
      <3>2. conn[Top.fd] = 0
        BY <2>4, <3>1 DEF NumberFree, ReturnZero, At
      <3>3. Top.fd # S[s].fd
        BY <2>2, <3>2
      <3> QED BY <2>1, <2>2, <2>3, <2>4, <3>3 DEF ReturnZero, Inv, TypeOK
    <2>5. CASE TakeMask
      <3>1. Depth = 1 /\ Top = stack[1] /\ stack[1].pc = "jobs"
        BY <2>5, PollTop DEF TakeMask, At
      <3>2. ret = {} => conn[Top.fd] = 0
        BY <3>1 DEF NumberFree, Dropped
      <3>3. ret = {} => Top.fd # S[s].fd
        BY <2>2, <3>2
      <3> QED BY <2>1, <2>2, <2>3, <2>5, <3>3 DEF TakeMask
    <2>6. ASSUME NEW f \in Fds, Deliver(f)
          PROVE  S'[s].fd \in track' /\ table'[S'[s].fd] = s
      <3>1. table' = table /\ (track' = track \/ (track' = track \ {f} /\ table[f] = 0))
        BY <2>6 DEF Deliver, pols
      <3> QED BY <2>1, <2>2, <2>3, <3>1
    <2>7. CASE UNCHANGED <<track, table>>
      BY <2>1, <2>3, <2>7
    <2> QED BY <1>3, <2>4, <2>5, <2>6, <2>7, "throws" \notin Allow
            DEF Next, App, Write, End, EndWith, Destroy, PollSteps, PollError, PollIn, Flush,
                Drained, Receive, Hangup, Ended, Fatal, Mask, ListenerReturns, ListenerThrows,
                Peer, PeerSends, PeerFin, PeerReset, PeerReads, pols
  <1> QED BY <1>1, <1>2, <1>3, SameOpened DEF Watched

(* Moves that give a socket something to send ask for the wake-up.          *)
LEMMA Asked ==
    ASSUME Inv, Watched, Next, NEW s \in Opened, ~S[s].closed,
           Write(s) \/ End(s) \/ EndWith(s) \/ (Top.s = s /\ Ended)
    PROVE  "OUT" \in mask'[S[s].fd]
  <1>1. S[s].fd \in track /\ S[s].fd \in Fds
    BY DEF Watched, Inv, Owned
  <1>2. More(S[s].fd)
    BY DEF Write, End, EndWith, Ended
  <1> QED BY <1>1, <1>2 DEF More, Inv, TypeOK

\* The other steps leave no more to send than there was.
LEMMA NoMorePending ==
    ASSUME Inv, Next, ~Open, NEW s \in Opened, ~S'[s].closed, Pending(s)',
           ~(Write(s) \/ End(s) \/ EndWith(s) \/ (Top.s = s /\ Ended))
    PROVE  Pending(s)
  <1>1. s \in Socks /\ S[s] \in Sockets
    BY OpenedSocks DEF Inv, TypeOK
  <1>2. CASE ~Moves(s)
    BY <1>2, Unmoved DEF Pending
  <1>3. ~Destroy(s)
    BY <1>1 DEF Destroy, Inv, TypeOK, Sockets
  <1>4. CASE Flush /\ Top.s = s
    <2>1. CASE S' = S
      BY <2>1 DEF Pending
    <2>2. ASSUME NEW n \in 0 .. S[s].wb, S' = [S EXCEPT ![s].wb = S[s].wb - n]
          PROVE  Pending(s)
      <3>1. PICK w : w = S[s].wb - n /\ (w > 0 => S[s].wb > 0)
        BY <1>1 DEF Sockets
      <3>2. /\ S'[s].wb = w /\ S'[s].ending = S[s].ending /\ S'[s].wrShut = S[s].wrShut
        BY <1>1, <2>2, <3>1 DEF Inv, TypeOK, Sockets
      <3> QED BY <3>1, <3>2 DEF Pending
    <2> QED BY <1>4, <2>1, <2>2, FlushSends DEF Sent
  <1>5. CASE Drained /\ Top.s = s
    <2>1. CASE S' = S
      BY <2>1 DEF Pending
    <2>2. CASE S' = [S EXCEPT ![s].wrShut = TRUE]
      <3>1. S'[s].wb = S[s].wb /\ S'[s].wrShut
        BY <1>1, <2>2 DEF Inv, TypeOK, Sockets
      <3> QED BY <3>1 DEF Pending
    <2> QED BY <1>5, <2>1, <2>2 DEF Drained
  <1> QED BY <1>2, <1>3, <1>4, <1>5 DEF Moves

\* Only POL takes a wake-up back, and not the ones that are needed.
LEMMA MaskKeeps ==
    ASSUME Inv, NumberFree, Promised, Next, ~Open, NEW s \in Opened, ~S'[s].closed,
           "OUT" \in mask[S[s].fd], Pending(s)
    PROVE  "OUT" \in mask'[S[s].fd]
  <1>1. ~S[s].closed /\ S[s].fd \in Fds /\ conn[S[s].fd] = s /\ s # 0
    BY LiveStays
  <1>2. CASE TakeMask
    <2>1. /\ Depth = 1 /\ Top = stack[1] /\ stack[1].pc = "jobs"
          /\ Top.s \in Opened /\ S[Top.s].fd = Top.fd
      BY <1>2, PollTop DEF TakeMask, At
    <2>2. mask' = mask \/ mask' = [mask EXCEPT ![Top.fd] = ret]
      BY <1>2 DEF TakeMask
    <2>3. CASE Top.fd = S[s].fd
      <3>1. ~S[Top.s].closed
        BY <1>1, <2>1, <2>3 DEF NumberFree
      <3>2. Top.s = s
        BY <1>1, <2>1, <2>3, <3>1 DEF Inv, Owned
      <3>3. "OUT" \in ret
        BY <1>1, <2>1, <3>2 DEF Promised
      <3> QED BY <1>1, <2>2, <3>3 DEF Inv, TypeOK
    <2>4. CASE Top.fd # S[s].fd
      BY <1>1, <2>2, <2>4 DEF Inv, TypeOK
    <2> QED BY <2>3, <2>4
  <1>3. ASSUME NEW f, More(f)
        PROVE  "OUT" \in mask'[S[s].fd]
    BY <1>1, <1>3 DEF More, Inv, TypeOK
  <1>4. CASE UNCHANGED mask
    BY <1>4
  <1> QED BY <1>2, <1>3, <1>4
          DEF Next, App, Write, End, EndWith, Destroy, Deliver, PollSteps, PollError, PollIn, Flush,
              Drained, Receive, Hangup, Ended, Fatal, Mask, ReturnZero,
              ListenerReturns, ListenerThrows, Peer, PeerSends, PeerFin, PeerReset, PeerReads, pols

LEMMA PromisedNext ==
    ASSUME Inv, Promised, "throws" \notin Allow, "lateWrite" \notin Allow, [Next]_vars
    PROVE  Promised'
  <1>1. CASE UNCHANGED vars
    BY <1>1 DEF vars, pols, Promised, Pending, Depth
  <1>2. ASSUME Next, Depth' >= 1, stack'[1].pc = "jobs",
               NEW s, stack'[1].s = s, ~S'[s].closed, Pending(s)'
        PROVE  "OUT" \in ret'
    <2>1. ~ListenerThrows
      BY DEF ListenerThrows
    <2>2. stack # <<>>
      BY <1>2, JobsBegin
    <2>3. s \in Opened /\ stack[1].s = s
      BY <1>2, <2>2, Bottom, TopFrame DEF Inv, TypeOK, Framed
    <2>4. Depth >= 1 /\ 1 \in 1 .. Len(stack)
      BY <2>2, TopFrame DEF Inv, TypeOK, Depth
    <2>5. ~S'[s].closed /\ ~S[s].closed
      BY <1>2, <2>3, StaysClosed
    <2>6. CASE Mask /\ Top = stack[1] /\ UNCHANGED S /\ (WantsOut(Top.s) => "OUT" \in ret')
      BY <1>2, <2>3, <2>6 DEF Pending, WantsOut, FinDue
    <2>7. CASE ReturnZero /\ S[stack[1].s].closed
      BY <2>3, <2>5, <2>7
    <2>8. CASE stack'[1] = stack[1] /\ ret' = ret
      <3>1. CASE Pending(s)
        BY <1>2, <2>3, <2>4, <2>5, <2>8, <3>1 DEF Promised
      <3>2. CASE Open
        <4>1. S'[s] = S[s]
          BY <2>3, <3>2, OpenStep
        <4> QED BY <1>2, <2>3, <2>4, <2>5, <2>8, <4>1 DEF Promised, Pending
      <3>3. CASE ~Pending(s) /\ ~Open
        <4>1. Write(s) \/ End(s) \/ EndWith(s) \/ (Top.s = s /\ Ended)
          BY <1>2, <2>3, <2>5, <3>3, NoMorePending
        <4>2. ~Ended
          BY <1>2, <2>8, PollTop DEF Ended, At
        <4>3. ~Late(s)
          BY <4>1, <4>2 DEF Write, End, EndWith
        <4> QED BY <1>2, <2>3, <2>4, <2>5, <2>8, <4>3 DEF Late
      <3> QED BY <3>1, <3>2, <3>3
    <2> QED BY <1>2, <2>1, <2>6, <2>7, <2>8, JobsBegin
  <1> QED BY <1>1, <1>2 DEF Promised, Pending

LEMMA PolledNext ==
    ASSUME Inv, NumberFree, Promised, Watched, Polled, [Next]_vars
    PROVE  Polled'
  <1>1. CASE UNCHANGED vars
    BY <1>1 DEF vars, pols, Polled, Pending, Opened
  <1>2. CASE Open
    <2>1. PICK n \in Socks, g \in Fds :
            /\ n \notin Opened /\ Opened' = Opened \cup {n} /\ conn[g] = 0
            /\ \A s \in Opened : S'[s] = S[s]
            /\ S'[n] = NewSocket(g)
            /\ mask' = [mask EXCEPT ![g] = {"IN"}]
      BY <1>2, OpenStep
    <2>2. ~Pending(n)'
      BY <2>1 DEF Pending, NewSocket
    <2>3. \A s \in Opened : ~S[s].closed => S[s].fd # g /\ S[s].fd \in Fds
      BY <2>1 DEF Inv, Owned, Opened
    <2>4. \A s \in Opened : ~S'[s].closed /\ Pending(s)' => "OUT" \in mask'[S'[s].fd]
      BY <2>1, <2>3 DEF Polled, Pending, Inv, TypeOK
    <2> QED BY <2>1, <2>2, <2>4 DEF Polled
  <1>3. ASSUME Next, ~Open, NEW s \in Opened, ~S'[s].closed, Pending(s)'
        PROVE  "OUT" \in mask'[S'[s].fd]
    <2>1. ~S[s].closed /\ S'[s].fd = S[s].fd
      BY <1>3, LiveStays
    <2>2. CASE Write(s) \/ End(s) \/ EndWith(s) \/ (Top.s = s /\ Ended)
      BY <1>3, <2>1, <2>2, Asked
    <2>3. CASE ~(Write(s) \/ End(s) \/ EndWith(s) \/ (Top.s = s /\ Ended))
      <3>1. Pending(s)
        BY <1>3, <2>3, NoMorePending
      <3>2. "OUT" \in mask[S[s].fd]
        BY <2>1, <3>1 DEF Polled
      <3> QED BY <1>3, <2>1, <3>1, <3>2, MaskKeeps
    <2> QED BY <2>2, <2>3
  <1> QED BY <1>1, <1>2, <1>3, SameOpened DEF Polled

LEMMA WatchedAlways ==
    ASSUME "reopen" \notin Allow, "throws" \notin Allow
    PROVE  Spec => []Watched
  <1>1. Init => Watched
    BY DEF Init, Watched, Opened
  <1>2. Inv /\ NumberFree /\ Dropped /\ Watched /\ [Next]_vars => Watched'
    BY WatchedNext
  <1> QED BY <1>1, <1>2, InvAlways, NumberFreeAlways, DroppedAlways, PTL DEF Spec

(* Between events, a live socket is watched by pol through its own closure, *)
(* whatever its listeners and the promise jobs after them do, when nobody   *)
(* opens a socket before POL has dropped a closed one.                      *)
THEOREM LiveSocketsAreWatched ==
    ASSUME "reopen" \notin Allow, "throws" \notin Allow
    PROVE  Spec => []LiveWatched
  <1>1. Watched => LiveWatched
    BY DEF Watched, LiveWatched
  <1> QED BY <1>1, WatchedAlways, PTL

(* The wake-up that write() and end() ask for survives the mask a running   *)
(* _poll hands back: what is buffered is polled for, unless it was written  *)
(* by a promise job after a mask without OUT.                               *)
THEOREM PendingSocketsArePolled ==
    ASSUME "reopen" \notin Allow, "throws" \notin Allow, "lateWrite" \notin Allow
    PROVE  Spec => []PendingPolled
  <1>1. Init => Polled /\ Promised
    <2> SUFFICES ASSUME Init PROVE Polled /\ Promised
      OBVIOUS
    <2>1. Depth = 0 /\ Opened = {}
      BY EmptySeq DEF Init, Depth, Opened
    <2> QED BY <2>1 DEF Polled, Promised
  <1>2. Inv /\ Promised /\ [Next]_vars => Promised'
    BY PromisedNext
  <1>3. Inv /\ NumberFree /\ Promised /\ Watched /\ Polled /\ [Next]_vars => Polled'
    BY PolledNext
  <1>4. Polled => PendingPolled
    BY DEF Polled, Pending, PendingPolled
  <1> QED BY <1>1, <1>2, <1>3, <1>4, InvAlways, NumberFreeAlways, WatchedAlways, PTL DEF Spec
=============================================================================
