------------------------------ MODULE Pol_proofs ------------------------------
(***************************************************************************)
(* Proofs about Pol, for every set of fds, handlers and every depth of the *)
(* stack; two of the theorems are about loops that are not nested.         *)
(***************************************************************************)
EXTENDS Pol, SequenceTheorems, TLAPS

-----------------------------------------------------------------------------
(* The stack.                                                               *)

LEMMA FrameKinds ==
    /\ \A r \in SUBSET Sources : Loop(r) \in Frames /\ Loop(r).kind = "loop"
    /\ \A s \in Sources, h \in Handlers :
          Call(s, h) \in Frames /\ Call(s, h).kind = "call"
    /\ \A s \in Sources, m \in Answers : Jobs(s, m) \in Frames /\ Jobs(s, m).kind = m
    /\ \A fr \in Frames :
          /\ fr.kind = "loop" => fr.ready \in SUBSET Sources
          /\ fr.kind # "loop" => fr.src \in Sources
    /\ \A fr \in Frames, r \in SUBSET Sources : fr.kind = "loop" =>
          [fr EXCEPT !.ready = r] \in Frames /\ [fr EXCEPT !.ready = r].kind = "loop"
  BY DEF Frames, Loop, Call, Jobs, Answers

LEMMA Prefix ==
    ASSUME NEW F, NEW s \in Seq(F), NEW n \in Nat, n <= Len(s)
    PROVE  /\ SubSeq(s, 1, n) \in Seq(F) /\ Len(SubSeq(s, 1, n)) = n
           /\ \A i \in 1 .. n : SubSeq(s, 1, n)[i] = s[i]
  OBVIOUS

LEMMA PopStack ==
    ASSUME stack \in Seq(Frames), stack # <<>>
    PROVE  /\ Top \in Frames
           /\ Pop \in Seq(Frames) /\ Len(stack) = Len(Pop) + 1
           /\ \A i \in 1 .. Len(Pop) : Pop[i] = stack[i]
  <1>1. PICK n \in Nat : Len(stack) = n + 1
    <2>1. Len(stack) \in Nat /\ Len(stack) # 0
      BY EmptySeq
    <2>2. Len(stack) - 1 \in Nat /\ Len(stack) = (Len(stack) - 1) + 1
      BY <2>1
    <2> QED BY <2>2
  <1>2. Top \in Frames
    BY <1>1 DEF Top
  <1>3. Pop = SubSeq(stack, 1, n)
    BY <1>1 DEF Pop
  <1> QED BY <1>1, <1>2, <1>3, Prefix

(* A round of the loop on top: what it has left of its poll(2) result.      *)
LEMMA TopReady ==
    ASSUME stack \in Seq(Frames), LoopRuns, NEW r \in SUBSET Sources
    PROVE  LET new == [stack EXCEPT ![Len(stack)].ready = r] IN
           /\ new \in Seq(Frames) /\ Len(new) = Len(stack) /\ Len(stack) \in Nat \ {0}
           /\ new[Len(stack)].kind = "loop"
           /\ \A i \in 1 .. Len(stack) : i # Len(stack) => new[i] = stack[i]
  <1>1. Len(stack) \in Nat \ {0} /\ Top \in Frames /\ Top.kind = "loop"
    BY PopStack, EmptySeq DEF LoopRuns
  <1>2. [Top EXCEPT !.ready = r] \in Frames /\ [Top EXCEPT !.ready = r].kind = "loop"
    BY <1>1, FrameKinds
  <1>3. PICK fr \in Frames : fr = [Top EXCEPT !.ready = r] /\ fr.kind = "loop"
    BY <1>2
  <1>4. PICK k \in 1 .. Len(stack) : k = Len(stack)
    BY <1>1
  <1>5. [stack EXCEPT ![Len(stack)].ready = r] = [stack EXCEPT ![k] = fr]
    BY <1>3, <1>4 DEF Top
  <1>6. LET new == [stack EXCEPT ![k] = fr] IN
        /\ new \in Seq(Frames) /\ Len(new) = Len(stack) /\ new[k] = fr
        /\ \A i \in 1 .. Len(stack) : i # k => new[i] = stack[i]
    BY ExceptSeq
  <1> QED BY <1>1, <1>3, <1>4, <1>5, <1>6

(* A handler is over: its jobs are on top.                                  *)
LEMMA TopReturns ==
    ASSUME stack \in Seq(Frames), NEW m \in Answers, Returns(m)
    PROVE  /\ Top.src \in Sources /\ Jobs(Top.src, m) \in Frames
           /\ Len(stack) \in Nat \ {0} /\ stack' \in Seq(Frames) /\ Len(stack') = Len(stack)
           /\ stack'[Len(stack)].kind = m
           /\ \A i \in 1 .. Len(stack) : i # Len(stack) => stack'[i] = stack[i]
  <1>1. Len(stack) \in Nat \ {0} /\ Top \in Frames /\ Top.kind = "call"
    BY PopStack, EmptySeq DEF Returns, HandlerRuns
  <1>2. Top.src \in Sources
    BY <1>1, FrameKinds DEF Answers
  <1>3. PICK fr \in Frames : fr = Jobs(Top.src, m) /\ fr.kind = m
    BY <1>2, FrameKinds
  <1>4. PICK k \in 1 .. Len(stack) : k = Len(stack)
    BY <1>1
  <1>5. stack' = [stack EXCEPT ![k] = fr]
    BY <1>3, <1>4 DEF Returns
  <1>6. LET new == [stack EXCEPT ![k] = fr] IN
        /\ new \in Seq(Frames) /\ Len(new) = Len(stack) /\ new[k] = fr
        /\ \A i \in 1 .. Len(stack) : i # k => new[i] = stack[i]
    BY ExceptSeq
  <1> QED BY <1>1, <1>2, <1>3, <1>4, <1>5, <1>6

(* The jobs are over.                                                       *)
LEMMA TopTaken ==
    ASSUME stack \in Seq(Frames), TakeAnswer
    PROVE  Top.src \in Sources /\ stack # <<>> /\ stack' = Pop
  <1>1. stack # <<>> /\ Top \in Frames /\ Top.kind \in Answers
    BY PopStack DEF TakeAnswer, JobsRun
  <1> QED BY <1>1, FrameKinds DEF TakeAnswer, Answers

-----------------------------------------------------------------------------
(* Types.                                                                   *)

LEMMA TypeInit == Init => TypeOK
  BY EmptySeq DEF Init, TypeOK, Sources

LEMMA TypeNext == TypeOK /\ [Next]_vars => TypeOK'
  <1> SUFFICES ASSUME TypeOK, [Next]_vars PROVE TypeOK'
    OBVIOUS
  <1> USE DEF TypeOK
  <1>1. ASSUME NEW s \in Sources, NEW h \in Handlers \cup {NoHandler}, Watch(s, h)
        PROVE  TypeOK'
    BY <1>1 DEF Watch, Track, stash
  <1>2. ASSUME NEW s \in Sources, Unwatch(s)
        PROVE  TypeOK'
    BY <1>2 DEF Unwatch, Forget, Ignore, Release, stash
  <1>3. ASSUME NEW h \in Handlers \cup {NoHandler}, SetDefault(h)
        PROVE  TypeOK'
    BY <1>3 DEF SetDefault, stash
  <1>4. CASE Stop
    BY <1>4 DEF Stop
  <1>5. CASE PolInit
    BY <1>5 DEF PolInit, Refresh, stash
  <1>6. CASE Run
    <2>1. Append(stack, Loop({})) \in Seq(Frames)
      BY FrameKinds, AppendProperties
    <2> QED BY <1>6, <2>1 DEF Run
  <1>7. CASE Poll
    <2>1. stack' \in Seq(Frames)
      BY <1>7, TopReady DEF Poll
    <2> QED BY <1>7, <2>1 DEF Poll, stash
  <1>8. ASSUME NEW s \in Sources, Deliver(s)
        PROVE  TypeOK'
    <2> DEFINE rest == [stack EXCEPT ![Len(stack)].ready = @ \ {s}]
    <2>1. rest \in Seq(Frames)
      <3>1. Top \in Frames /\ Top.kind = "loop"
        BY <1>8, PopStack DEF Deliver, LoopRuns
      <3>2. Top.ready \ {s} \in SUBSET Sources
        BY <3>1, FrameKinds
      <3> QED BY <1>8, <3>2, TopReady DEF Deliver, Top
    <2>2. CASE s \notin track
      BY <1>8, <2>1, <2>2 DEF Deliver, stash
    <2>3. CASE s \in track /\ ~Claimed(s)
      <3>1. Append(rest, Jobs(s, "drop")) \in Seq(Frames)
        BY <2>1, FrameKinds, AppendProperties DEF Answers
      <3> QED BY <1>8, <2>3, <3>1 DEF Deliver, Release, stash
    <2>4. CASE s \in track /\ Claimed(s)
      <3>1. Routed(s) \in Handlers
        BY <2>4 DEF Claimed, Routed
      <3>2. Append(rest, Call(s, Routed(s))) \in Seq(Frames)
        BY <2>1, <3>1, FrameKinds, AppendProperties
      <3> QED BY <1>8, <2>4, <3>2 DEF Deliver, stash
    <2> QED BY <2>2, <2>3, <2>4
  <1>9. CASE RunEnd
    <2>1. Pop \in Seq(Frames)
      BY <1>9, PopStack DEF RunEnd, LoopRuns
    <2> QED BY <1>9, <2>1, EmptySeq DEF RunEnd
  <1>10. CASE HandlerReturn
    <2>1. stack' \in Seq(Frames) /\ Top.src \in Sources
      BY <1>10, TopReturns DEF HandlerReturn, Keep, Drop, Negative, Throw, Answers
    <2>2. CASE Keep
      BY <2>1, <2>2 DEF Keep, stash
    <2>3. CASE Drop
      BY <2>1, <2>3 DEF Drop, Release, stash
    <2>4. CASE Negative
      BY <2>1, <2>4 DEF Negative, stash
    <2>5. CASE Throw
      <3>1. Append(thrown, Top.src) \in Seq(Sources)
        BY <2>1, AppendProperties
      <3> QED BY <2>1, <2>5, <3>1 DEF Throw, Stash
    <2> QED BY <1>10, <2>2, <2>3, <2>4, <2>5 DEF HandlerReturn
  <1>11. CASE UNCHANGED vars
    BY <1>11 DEF vars
  <1>12. CASE TakeAnswer
    <2>1. stack' \in Seq(Frames) /\ Top.src \in Sources
      BY <1>12, TopTaken, PopStack
    <2> QED BY <1>12, <2>1 DEF TakeAnswer, Ignore, stash
  <1> QED BY <1>1, <1>2, <1>3, <1>4, <1>5, <1>6, <1>7, <1>8, <1>9, <1>10, <1>11, <1>12
          DEF Next, LoopStep

(* Every variable keeps to its type.                                        *)
THEOREM TypeCorrect == Spec => []TypeOK
  BY TypeInit, TypeNext, PTL DEF Spec

-----------------------------------------------------------------------------
(* One loop at a time.                                                      *)

Depth == Len(stack)

(* The stack is empty, a loop, or a loop and the handler it called or the   *)
(* jobs after it.                                                           *)
Shape ==
    /\ Depth <= 2
    /\ Depth >= 1 => stack[1].kind = "loop"
    /\ Depth >= 2 => stack[2].kind \in {"call"} \cup Answers

(* The flag is up exactly while a loop is on the stack, and a loop's        *)
(* exception goes with it.                                                  *)
OneLoop == TypeOK /\ Shape /\ (running <=> stack # <<>>) /\ FirstThrowKept

LEMMA StackEmpty ==
    ASSUME TypeOK
    PROVE  stack \in Seq(Frames) /\ Depth \in Nat /\ (stack = <<>> <=> Depth = 0)
  BY EmptySeq DEF TypeOK, Depth

LEMMA LoopInStack == ASSUME TypeOK, Shape PROVE InLoop <=> stack # <<>>
  <1>1. InLoop <=> \E i \in 1 .. Depth : stack[i].kind = "loop"
    BY DEF InLoop, Depth
  <1> QED BY <1>1, StackEmpty DEF Shape

LEMMA OneLoopInit == Init => OneLoop
  <1> SUFFICES ASSUME Init PROVE OneLoop
    OBVIOUS
  <1>1. TypeOK
    BY TypeInit
  <1>2. Shape
    BY <1>1, StackEmpty DEF Init, Shape
  <1>3. (running <=> stack # <<>>) /\ FirstThrowKept
    BY Zenon DEF Init, FirstThrowKept
  <1> QED BY <1>1, <1>2, <1>3 DEF OneLoop

(* The frame on top tells how high the stack is.                            *)
LEMMA Heights ==
    ASSUME OneLoop
    PROVE  /\ LoopRuns => Depth = 1
           /\ HandlerRuns \/ JobsRun => Depth = 2
  <1>1. stack \in Seq(Frames) /\ Depth \in Nat /\ (stack = <<>> <=> Depth = 0)
    BY StackEmpty DEF OneLoop
  <1>2. Shape
    BY DEF OneLoop
  <1>3. Top = stack[Depth]
    BY DEF Top, Depth
  <1> QED BY <1>1, <1>2, <1>3 DEF Shape, LoopRuns, HandlerRuns, JobsRun, Answers

(* What the steps do to it.                                                 *)
LEMMA Popped ==
    ASSUME OneLoop, TypeOK', stack # <<>>, stack' = Pop
    PROVE  Depth = Depth' + 1 /\ \A i \in 1 .. Depth' : stack'[i] = stack[i]
  <1>1. stack \in Seq(Frames)
    BY StackEmpty DEF OneLoop
  <1> QED BY <1>1, PopStack, Zenon DEF Depth

LEMMA LoopStays ==
    ASSUME OneLoop, LoopRuns, NEW r \in SUBSET Sources
    PROVE  LET new == [stack EXCEPT ![Len(stack)].ready = r] IN
           new \in Seq(Frames) /\ Len(new) = Depth /\ new[1].kind = "loop"
  <1>1. stack \in Seq(Frames) /\ Depth = 1
    BY StackEmpty, Heights DEF OneLoop
  <1>2. LET new == [stack EXCEPT ![Len(stack)].ready = r] IN
        new \in Seq(Frames) /\ Len(new) = Depth /\ new[Depth].kind = "loop"
    BY <1>1, TopReady DEF Depth
  <1> QED BY <1>1, <1>2

LEMMA OneMore ==
    ASSUME NEW F, NEW s \in Seq(F), NEW e \in F, NEW n \in Nat, Len(s) = n
    PROVE  Len(Append(s, e)) = n + 1 /\ Append(s, e)[n + 1] = e
           /\ \A i \in 1 .. n : Append(s, e)[i] = s[i]
  BY AppendProperties

(* Steps inside a run of the loop that leave its stash alone.               *)
LEMMA OneLoopStays ==
    ASSUME OneLoop, TypeOK', Shape', stack' = <<>> <=> stack = <<>>, UNCHANGED <<running, stash>>
    PROVE  OneLoop'
  <1>1. InLoop <=> stack # <<>>
    BY LoopInStack DEF OneLoop
  <1>2. Depth' \in Nat /\ (stack' = <<>> <=> Depth' = 0)
    BY EmptySeq DEF TypeOK, Depth
  <1>3. InLoop' <=> \E i \in 1 .. Depth' : stack'[i].kind = "loop"
    BY DEF InLoop, Depth
  <1>4. InLoop' <=> stack' # <<>>
    BY <1>2, <1>3 DEF Shape
  <1> QED BY <1>1, <1>4, Zenon DEF OneLoop, FirstThrowKept, stash

LEMMA FirstOf ==
    ASSUME NEW F, NEW s \in Seq(F), NEW e \in F
    PROVE  /\ Append(s, e) # <<>>
           /\ Append(s, e)[1] = IF s = <<>> THEN e ELSE s[1]
  BY EmptySeq, AppendProperties

LEMMA OneLess == \A m, n : n \in Nat /\ m = n + 1 => (m = 1 => n = 0) /\ (m = 2 => n = 1)
  OBVIOUS

LEMMA OneLoopNext ==
    ASSUME Nesting = FALSE, OneLoop, [Next]_vars
    PROVE  OneLoop'
  <1>1. TypeOK' /\ TypeOK
    BY TypeNext DEF OneLoop
  <1>2. stack \in Seq(Frames) /\ Depth \in Nat /\ (stack = <<>> <=> Depth = 0)
    BY <1>1, StackEmpty
  <1>3. stack' \in Seq(Frames) /\ Depth' \in Nat /\ (stack' = <<>> <=> Depth' = 0)
    BY <1>1, EmptySeq DEF TypeOK, Depth
  <1>4. CASE UNCHANGED <<stack, running, stash>>
    <2>1. Shape'
      BY <1>4 DEF OneLoop, Shape, Depth
    <2> QED BY <1>1, <1>4, <2>1, OneLoopStays
  <1>5. CASE Stop
    <2>1. Shape' /\ InLoop'
      BY <1>5 DEF Stop, OneLoop, Shape, InLoop, Depth
    <2> QED BY <1>1, <1>5, <2>1, Zenon DEF Stop, OneLoop, FirstThrowKept
  <1>6. CASE Run
    <2>1. stack = <<>>
      BY <1>6, Zenon DEF Run
    <2>2. Depth' = 1 /\ stack'[1].kind = "loop"
      <3>1. Depth = 0 /\ Len(stack) = Depth
        BY <1>2, <2>1 DEF Depth
      <3>2. stack' = Append(stack, Loop({})) /\ Loop({}) \in Frames /\ Loop({}).kind = "loop"
        BY <1>6, FrameKinds DEF Run
      <3>3. Len(stack') = 0 + 1 /\ stack'[0 + 1] = Loop({})
        BY <1>2, <3>1, <3>2, OneMore
      <3> QED BY <3>2, <3>3 DEF Depth
    <2>3. ~threw /\ thrown = <<>>
      <3>1. ~InLoop
        BY <1>1, <2>1, LoopInStack DEF OneLoop
      <3> QED BY <3>1, Zenon DEF OneLoop, FirstThrowKept
    <2>4. Shape' /\ stack' # <<>>
      BY <1>3, <2>2 DEF Shape
    <2> QED BY <1>1, <1>6, <2>3, <2>4, Zenon DEF Run, OneLoop, FirstThrowKept
  <1>7. CASE Poll
    <2>1. PICK r \in SUBSET Sources : stack' = [stack EXCEPT ![Len(stack)].ready = r]
      BY <1>1, <1>7 DEF Poll, TypeOK
    <2>2. LoopRuns /\ Depth = 1
      BY <1>7, Heights DEF Poll
    <2>3. Depth' = Depth /\ stack'[1].kind = "loop"
      BY <2>1, <2>2, LoopStays, Zenon DEF Depth
    <2>4. Shape' /\ (stack' = <<>> <=> stack = <<>>)
      BY <1>2, <1>3, <2>2, <2>3 DEF Shape
    <2> QED BY <1>1, <1>7, <2>4, OneLoopStays DEF Poll
  <1>8. ASSUME NEW s \in Sources, Deliver(s)
        PROVE  OneLoop'
    <2> DEFINE rest == [stack EXCEPT ![Len(stack)].ready = @ \ {s}]
    <2>1. LoopRuns /\ Depth = 1
      BY <1>8, Heights DEF Deliver
    <2>2. Top \in Frames /\ Top.kind = "loop" /\ stack # <<>>
      BY <1>2, <2>1, PopStack DEF LoopRuns
    <2>3. Top.ready \ {s} \in SUBSET Sources /\ rest = [stack EXCEPT ![Len(stack)].ready = Top.ready \ {s}]
      BY <2>2, FrameKinds DEF Top
    <2>4. rest \in Seq(Frames) /\ Len(rest) = Depth /\ rest[1].kind = "loop"
      BY <2>1, <2>3, LoopStays
    <2> HIDE DEF rest
    <2>5. CASE stack' = rest
      <3>1. Depth' = Depth
        BY <2>4, <2>5, Zenon DEF Depth
      <3>2. Shape' /\ (stack' = <<>> <=> stack = <<>>)
        BY <1>2, <1>3, <2>1, <2>4, <2>5, <3>1 DEF Shape
      <3> QED BY <1>1, <1>8, <3>2, OneLoopStays DEF Deliver
    <2>6. ASSUME NEW fr \in Frames, fr.kind \in {"call"} \cup Answers, stack' = Append(rest, fr)
          PROVE  OneLoop'
      <3>2. fr \in Frames /\ fr.kind \in {"call"} \cup Answers
        BY <2>6
      <3>3. Depth' = Depth + 1 /\ stack'[Depth + 1] = fr
            /\ \A i \in 1 .. Depth : stack'[i] = rest[i]
        BY <1>2, <2>4, <2>6, <3>2, OneMore DEF Depth
      <3>4. Shape' /\ (stack' = <<>> <=> stack = <<>>)
        BY <1>2, <1>3, <2>1, <2>4, <3>2, <3>3 DEF Shape
      <3> QED BY <1>1, <1>8, <3>4, OneLoopStays DEF Deliver
    <2>7. CASE stack' = Append(rest, Call(s, Routed(s))) /\ Claimed(s)
      <3>1. Routed(s) \in Handlers
        BY <1>1, <2>7 DEF Claimed, Routed, TypeOK
      <3> QED BY <2>6, <2>7, <3>1, FrameKinds
    <2>8. CASE stack' = Append(rest, Jobs(s, "drop"))
      BY <2>6, <2>8, FrameKinds DEF Answers
    <2> QED BY <1>8, <2>5, <2>7, <2>8 DEF Deliver, rest
  <1>9. CASE RunEnd
    <2>1. LoopRuns /\ Depth = 1 /\ stack # <<>>
      BY <1>9, Heights DEF RunEnd, LoopRuns
    <2>2. Depth = Depth' + 1
      BY <1>1, <1>9, <2>1, Popped DEF RunEnd
    <2>3. Depth' = 0
      <3>1. Depth' \in Nat /\ Depth = 1
        BY <1>3, <2>1, Zenon
      <3> QED BY <2>2, <3>1, OneLess, Zenon
    <2>4. stack' = <<>>
      BY <1>3, <2>3
    <2>5. Shape'
      BY <2>3 DEF Shape
    <2> QED BY <1>1, <1>9, <2>4, <2>5, Zenon DEF RunEnd, OneLoop, FirstThrowKept
  <1>10. CASE HandlerReturn
    <2>1. PICK m \in Answers : Returns(m)
      BY <1>10 DEF HandlerReturn, Keep, Drop, Negative, Throw, Answers
    <2>2. Depth = 2 /\ UNCHANGED running
      BY <1>10, <2>1, Heights DEF HandlerReturn, Keep, Drop, Negative, Throw, Returns
    <2>3. Top.src \in Sources /\ Depth' = 2 /\ stack'[2].kind = m /\ stack'[1] = stack[1]
      BY <1>2, <2>1, <2>2, TopReturns DEF Depth
    <2>4. Shape' /\ (stack' = <<>> <=> stack = <<>>) /\ stack'[1].kind = "loop"
      BY <1>2, <1>3, <2>2, <2>3 DEF OneLoop, Shape
    <2>5. CASE UNCHANGED stash
      BY <1>1, <2>2, <2>4, <2>5, OneLoopStays
    <2>6. CASE Throw
      <3>1. thrown \in Seq(Sources)
        BY <1>1 DEF TypeOK
      <3>2. thrown' # <<>> /\ thrown'[1] = IF thrown = <<>> THEN Top.src ELSE thrown[1]
        BY <2>3, <2>6, <3>1, FirstOf DEF Throw, Stash
      <3>3. exc' = IF threw THEN exc ELSE Top.src
        BY <2>6 DEF Throw, Stash
      <3>4. exc' = thrown'[1]
        BY <3>2, <3>3, Zenon DEF OneLoop, FirstThrowKept
      <3>5. InLoop'
        <4>1. InLoop' <=> \E i \in 1 .. Depth' : stack'[i].kind = "loop"
          BY DEF InLoop, Depth
        <4> QED BY <2>3, <2>4, <4>1
      <3>6. FirstThrowKept'
        BY <2>6, <3>2, <3>4, <3>5 DEF Throw, Stash, FirstThrowKept
      <3> QED BY <1>1, <2>2, <2>4, <3>6, Zenon DEF OneLoop
    <2> QED BY <1>10, <2>5, <2>6 DEF HandlerReturn, Keep, Drop, Negative
  <1>11. ASSUME NEW s \in Sources, NEW h \in Handlers \cup {NoHandler}, Watch(s, h)
         PROVE  OneLoop'
    BY <1>4, <1>11 DEF Watch
  <1>12. ASSUME NEW s \in Sources, Unwatch(s)
         PROVE  OneLoop'
    BY <1>4, <1>12 DEF Unwatch
  <1>13. ASSUME NEW h \in Handlers \cup {NoHandler}, SetDefault(h)
         PROVE  OneLoop'
    BY <1>4, <1>13 DEF SetDefault
  <1>14. CASE PolInit
    BY <1>4, <1>14 DEF PolInit
  <1>15. CASE UNCHANGED vars
    BY <1>4, <1>15 DEF vars, stash
  <1>16. CASE TakeAnswer
    <2>1. Depth = 2 /\ stack # <<>> /\ stack' = Pop
      BY <1>2, <1>16, Heights, TopTaken DEF TakeAnswer
    <2>2. Depth = Depth' + 1 /\ \A i \in 1 .. Depth' : stack'[i] = stack[i]
      BY <1>1, <2>1, Popped
    <2>3. Depth' = 1 /\ stack'[1].kind = "loop"
      <3>1. Depth' = 1
        <4>1. Depth' \in Nat /\ Depth = 2
          BY <1>3, <2>1, Zenon
        <4> QED BY <2>2, <4>1, OneLess, Zenon
      <3>2. stack[1].kind = "loop"
        BY <2>1 DEF OneLoop, Shape
      <3> QED BY <2>2, <3>1, <3>2
    <2>4. Shape' /\ (stack' = <<>> <=> stack = <<>>)
      BY <1>3, <2>1, <2>3 DEF Shape
    <2> QED BY <1>1, <1>16, <2>4, OneLoopStays DEF TakeAnswer
  <1> QED BY <1>5, <1>6, <1>7, <1>8, <1>9, <1>10, <1>11, <1>12, <1>13, <1>14, <1>15, <1>16
          DEF Next, LoopStep

(* The exception that pol.run re-throws is the first one thrown under it    *)
(* (pol.c:36-47): no handler's exception is lost, and none stays behind     *)
(* for the next run.                                                        *)
THEOREM FirstThrowIsKept == ASSUME Nesting = FALSE PROVE Spec => []FirstThrowKept
  <1>1. OneLoop => FirstThrowKept
    BY DEF OneLoop
  <1>2. OneLoop /\ [Next]_vars => OneLoop'
    BY OneLoopNext
  <1> QED BY <1>1, <1>2, OneLoopInit, PTL DEF Spec

(* pol.init frees what POL has only while no loop runs (pol.c:204-208).     *)
THEOREM FreesOutsideLoop == ASSUME Nesting = FALSE PROVE Spec => FreeOutsideLoop
  <1>1. ASSUME OneLoop, [Next]_vars
        PROVE  [last' = "freed" => ~InLoop]_vars
    <2>1. CASE PolInit
      <3>1. InLoop => running
        <4>1. InLoop <=> stack # <<>>
          BY <1>1, LoopInStack DEF OneLoop
        <4> QED BY <1>1, <4>1, Zenon DEF OneLoop
      <3> QED BY <2>1, <3>1 DEF PolInit, InitRefused
    <2>2. CASE ~PolInit /\ Next
      <3>1. last' # "freed"
        BY <2>2 DEF Next, Watch, Unwatch, SetDefault, Stop, Run, LoopStep, Poll, Deliver, RunEnd,
                    HandlerReturn, Keep, Drop, Negative, Throw, TakeAnswer
      <3> QED BY <3>1
    <2> QED BY <1>1, <2>1, <2>2
  <1>2. OneLoop /\ [Next]_vars => OneLoop'
    BY OneLoopNext
  <1> QED BY <1>1, <1>2, OneLoopInit, PTL DEF Spec, FreeOutsideLoop

-----------------------------------------------------------------------------
(* Handlers that were released, with loops nested or not.                   *)

(* A source that was let go on both sides has no entry.                     *)
Silent == \A s \in Sources : gone[s] = "released" => table[s] = NoHandler

LEMMA SilentNext == ASSUME TypeOK, Silent, [Next]_vars PROVE Silent'
  <1> USE DEF TypeOK, Silent
  <1>1. ASSUME NEW s \in Sources, NEW h \in Handlers \cup {NoHandler}, Watch(s, h)
        PROVE  Silent'
    BY <1>1 DEF Watch
  <1>2. ASSUME NEW s \in Sources, Release(s)
        PROVE  Silent'
    BY <1>2 DEF Release
  <1>3. CASE TakeAnswer
    <2>1. Top.src \in Sources
      BY <1>3, TopTaken
    <2> QED BY <1>3, <2>1 DEF TakeAnswer
  <1>4. CASE PolInit
    BY <1>4 DEF PolInit
  <1>5. CASE UNCHANGED <<table, gone>>
    BY <1>5
  <1>6. ASSUME NEW s \in Sources, Deliver(s)
        PROVE  Silent'
    BY <1>2, <1>5, <1>6 DEF Deliver
  <1>7. CASE HandlerReturn
    <2>1. Top.src \in Sources
      BY <1>7, TopReturns DEF HandlerReturn, Keep, Drop, Negative, Throw, Answers
    <2> QED BY <1>2, <1>5, <1>7, <2>1 DEF HandlerReturn, Keep, Drop, Negative, Throw
  <1>8. CASE Run \/ Poll \/ RunEnd \/ Stop
    BY <1>5, <1>8 DEF Run, Poll, RunEnd, Stop
  <1>9. ASSUME NEW s \in Sources, Unwatch(s)
        PROVE  Silent'
    BY <1>2, <1>9 DEF Unwatch, Forget
  <1>10. ASSUME NEW h \in Handlers \cup {NoHandler}, SetDefault(h)
         PROVE  Silent'
    BY <1>5, <1>10 DEF SetDefault
  <1>11. CASE UNCHANGED vars
    BY <1>5, <1>11 DEF vars
  <1> QED BY <1>1, <1>3, <1>4, <1>6, <1>7, <1>8, <1>9, <1>10, <1>11 DEF Next, LoopStep

(* A handler that let its source go, was unwatched or was cleared by        *)
(* pol.init is not called for it (pol.c:72-100): the call goes to           *)
(* pol.default, however deep the loops are nested.                          *)
THEOREM ReleasedStaySilent == Spec => ReleasedSilent
  <1>1. Init => Silent
    BY DEF Init, Silent
  <1>2. TypeOK /\ Silent /\ [Next]_vars => Silent'
    BY SilentNext
  <1>3. ASSUME TypeOK, Silent, [Next]_vars
        PROVE  [\A s \in Sources, h \in Handlers :
                  Called(s, h) /\ gone[s] = "released" => h = default]_vars
    <2> SUFFICES ASSUME Next, NEW s \in Sources, NEW h \in Handlers,
                        Called(s, h), gone[s] = "released"
                 PROVE  h = default
      BY <1>3
    <2>1. PICK t \in Sources : Deliver(t)
      BY DEF Next, Called, Watch, Unwatch, SetDefault, Stop, PolInit, Refresh, Run, LoopStep,
             Poll, RunEnd, HandlerReturn, Keep, Drop, Negative, Throw, TakeAnswer
    <2> DEFINE rest == [stack EXCEPT ![Len(stack)].ready = @ \ {t}]
    <2>2. Claimed(t) /\ stack' = Append(rest, Call(t, Routed(t))) /\ LoopRuns /\ t \in Top.ready
      BY <2>1 DEF Deliver, Called
    <2>3. stack \in Seq(Frames)
      BY <1>3 DEF TypeOK
    <2>4. rest \in Seq(Frames)
      <3>1. Top \in Frames /\ Top.kind = "loop"
        BY <2>2, <2>3, PopStack DEF LoopRuns
      <3>2. Top.ready \ {t} \in SUBSET Sources
        BY <3>1, FrameKinds
      <3> QED BY <2>2, <2>3, <3>2, TopReady DEF Top
    <2> HIDE DEF rest
    <2>5. Routed(t) \in Handlers
      BY <1>3, <2>2 DEF Claimed, Routed, TypeOK
    <2>6. stack'[Len(stack')] = Call(t, Routed(t))
      <3>1. Call(t, Routed(t)) \in Frames
        BY <2>5, FrameKinds
      <3> QED BY <2>2, <2>4, <3>1, AppendProperties
    <2>7. s = t /\ h = Routed(t)
      BY <2>6 DEF Called, Call
    <2>8. table[s] = NoHandler
      BY <1>3 DEF Silent
    <2> QED BY <2>2, <2>7, <2>8 DEF Claimed, Routed
  <1> QED BY <1>1, <1>2, <1>3, TypeCorrect, PTL DEF Spec, ReleasedSilent
=============================================================================
