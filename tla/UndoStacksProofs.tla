--------------------------- MODULE UndoStacksProofs ---------------------------
(***************************************************************************)
(* What the operations on an undo stack keep, for any limit and any set of  *)
(* commands: lemmas for the modules that use several stacks.               *)
(***************************************************************************)
EXTENDS UndoStacks, SequenceTheorems, TLAPS

(* The stacks of commands of S that stay within the limit.                  *)
StackOf(S) ==
  {s \in [commands : Seq(S), current : Nat] :
     s.current <= Len(s.commands) /\ Len(s.commands) <= Limit}

LEMMA PartsOfStack ==
  ASSUME NEW S, NEW s \in StackOf(S)
  PROVE  /\ s.commands \in Seq(S) /\ s.current \in Nat /\ Len(s.commands) \in Nat
         /\ s.current <= Len(s.commands) /\ Len(s.commands) <= Limit
         /\ \A i \in 1 .. Len(s.commands) : s.commands[i] \in S
         /\ s = [commands |-> s.commands, current |-> s.current]
BY DEF StackOf

LEMMA EmptyIsStack == ASSUME NEW S PROVE EmptyStack \in StackOf(S)
BY LimitAssumption DEF EmptyStack, StackOf

(* A stack whose cursor is moved inside its commands.                       *)
LEMMA CursorKeepsStack ==
  ASSUME NEW S, NEW s \in StackOf(S), NEW k \in 0 .. Len(s.commands)
  PROVE  [s EXCEPT !.current = k] \in StackOf(S)
<1>1. /\ s \in [commands : Seq(S), current : Nat]
      /\ Len(s.commands) \in Nat /\ Len(s.commands) <= Limit
  BY DEF StackOf
<1>2. k \in Nat /\ k <= Len(s.commands)
  BY <1>1
<1> QED BY <1>1, <1>2 DEF StackOf

LEMMA PushKeepsStack ==
  ASSUME NEW S, NEW s \in StackOf(S), NEW c \in S
  PROVE  Pushed(s, c) \in StackOf(S)
<1> DEFINE kept == SubSeq(s.commands, 1, s.current)
<1>1. /\ kept \in Seq(S) /\ Len(kept) = s.current
      /\ s.current \in Nat /\ s.current <= Limit /\ Limit \in Nat \ {0}
  BY PartsOfStack, LimitAssumption
<1>2. CASE s.current = Limit
  <2> DEFINE q == Append(Tail(kept), c)
  <2>1. Pushed(s, c) = [s EXCEPT !.commands = q]
    BY <1>2 DEF Pushed
  <2>2. q \in Seq(S) /\ Len(q) = s.current
    <3> HIDE DEF kept
    <3> QED BY <1>1, <1>2
  <2>3. s \in [commands : Seq(S), current : Nat]
    BY DEF StackOf
  <2> HIDE DEF q
  <2> QED BY <2>1, <2>2, <2>3, <1>1 DEF StackOf
<1>3. CASE s.current # Limit
  <2>1. Pushed(s, c) = [commands |-> Append(kept, c), current |-> s.current + 1]
    BY <1>3 DEF Pushed
  <2> HIDE DEF kept
  <2>2. /\ Append(kept, c) \in Seq(S)
        /\ Len(Append(kept, c)) = s.current + 1
    BY <1>1
  <2> QED BY <2>1, <2>2, <1>1, <1>3 DEF StackOf
<1> QED BY <1>2, <1>3

(* A push puts its command under the cursor, which moves by one unless the  *)
(* stack is full.                                                          *)
LEMMA PushIsBelow ==
  ASSUME NEW S, NEW s \in StackOf(S), NEW c \in S
  PROVE  /\ Pushed(s, c).current = IF s.current = Limit THEN s.current ELSE s.current + 1
         /\ Below(Pushed(s, c)) = c
<1> DEFINE kept == SubSeq(s.commands, 1, s.current)
<1>1. /\ kept \in Seq(S) /\ Len(kept) = s.current
      /\ s.current \in Nat /\ Limit \in Nat \ {0}
  BY PartsOfStack, LimitAssumption
<1>2. CASE s.current = Limit
  <2>1. Pushed(s, c).commands = Append(Tail(kept), c) /\ Pushed(s, c).current = s.current
    BY SMTT(30), <1>2, PartsOfStack DEF Pushed
  <2> HIDE DEF kept
  <2>2. Append(Tail(kept), c)[s.current] = c
    BY <1>1, <1>2
  <2> QED BY <2>1, <2>2, <1>2 DEF Below
<1>3. CASE s.current # Limit
  <2>1. /\ Pushed(s, c).commands = Append(kept, c)
        /\ Pushed(s, c).current = s.current + 1
    BY <1>3 DEF Pushed
  <2> HIDE DEF kept
  <2>2. Append(kept, c)[s.current + 1] = c
    BY <1>1
  <2> QED BY <2>1, <2>2, <1>3 DEF Below
<1> QED BY <1>2, <1>3

LEMMA UndoKeepsStack ==
  ASSUME NEW S, NEW s \in StackOf(S), CanUndo(s)
  PROVE  Undone(s) \in StackOf(S) /\ Below(s) \in S
<1>1. s.current - 1 \in 0 .. Len(s.commands) /\ s.current \in 1 .. Len(s.commands)
  BY PartsOfStack DEF CanUndo
<1> QED BY <1>1, PartsOfStack, CursorKeepsStack DEF Undone, Below

LEMMA RedoKeepsStack ==
  ASSUME NEW S, NEW s \in StackOf(S), CanRedo(s)
  PROVE  Redone(s) \in StackOf(S) /\ Above(s) \in S
<1>1. s.current + 1 \in 1 .. Len(s.commands) /\ s.current + 1 \in 0 .. Len(s.commands)
  BY PartsOfStack DEF CanRedo
<1> QED BY <1>1, PartsOfStack, CursorKeepsStack DEF Redone, Above

(* Where a jump ends, and that it changes the cursor only.                  *)
LEMMA JumpKeepsStack ==
  ASSUME NEW S, NEW s \in StackOf(S), NEW v \in Nat
  PROVE  /\ Moved(s, v) \in StackOf(S)
         /\ Moved(s, v).commands = s.commands
<1>1. /\ Len(s.commands) \in Nat /\ s.current \in Nat /\ s.current <= Len(s.commands)
      /\ s = [commands |-> s.commands, current |-> s.current]
  BY PartsOfStack
<1>2. CASE v > s.current
  <2> DEFINE forward == IF v + 1 < Len(s.commands) THEN v + 1 ELSE Len(s.commands)
  <2>1. Moved(s, v) = [s EXCEPT !.current = forward]
    BY <1>1, <1>2 DEF Moved
  <2>2. forward \in 0 .. Len(s.commands)
    BY <1>1
  <2> HIDE DEF forward
  <2> QED BY <1>1, <2>1, <2>2, CursorKeepsStack
<1>3. CASE v < s.current
  <2>1. Moved(s, v) = [s EXCEPT !.current = v]
    BY <1>1, <1>3 DEF Moved
  <2>2. v \in 0 .. Len(s.commands)
    BY <1>1, <1>3
  <2> QED BY <1>1, <2>1, <2>2, CursorKeepsStack
<1>4. CASE v = s.current
  BY <1>1, <1>4 DEF Moved
<1> QED BY <1>1, <1>2, <1>3, <1>4
-----------------------------------------------------------------------------
(* The steps of the history a stack promises (UndoHistory), in terms of the *)
(* commands done and taken back of the stack before and after.              *)
HistoryStep(S, s, t) ==
  \/ \E n \in 1 .. Len(Done(s)) :
       /\ Done(t) = SubSeq(Done(s), 1, Len(Done(s)) - n)
       /\ Taken(t) = SubSeq(Done(s), Len(Done(s)) - n + 1, Len(Done(s))) \o Taken(s)
  \/ \E n \in 1 .. Len(Taken(s)) :
       /\ Done(t) = Done(s) \o SubSeq(Taken(s), 1, n)
       /\ Taken(t) = SubSeq(Taken(s), n + 1, Len(Taken(s)))
  \/ Done(t) = <<>> /\ Taken(t) = <<>>
  \/ \E c \in S :
       /\ Done(t) = IF Len(Done(s)) = Limit THEN Append(Tail(Done(s)), c) ELSE Append(Done(s), c)
       /\ Taken(t) = <<>>

LEMMA PartsOfHistory ==
  ASSUME NEW S, NEW s \in StackOf(S)
  PROVE  /\ Done(s) \in Seq(S) /\ Len(Done(s)) = s.current
         /\ Taken(s) \in Seq(S) /\ Len(Taken(s)) = Len(s.commands) - s.current
<1> DEFINE q == s.commands
           a == s.current
           m == Len(s.commands)
<1>1. q \in Seq(S) /\ a \in Nat /\ m \in Nat /\ a <= m /\ \A i \in 1 .. m : q[i] \in S
  BY PartsOfStack
<1>2. SubSeq(q, 1, a) \in Seq(S) /\ Len(SubSeq(q, 1, a)) = a
  <2> HIDE DEF q, a, m
  <2>1. 1 \in Int /\ a \in Int /\ \A i \in 1 .. a : q[i] \in S
    BY <1>1
  <2>2. /\ SubSeq(q, 1, a) \in Seq(S)
        /\ Len(SubSeq(q, 1, a)) = IF 1 <= a THEN a - 1 + 1 ELSE 0
    BY <2>1, SubSeqProperties
  <2> QED BY <1>1, <2>2
<1>3. SubSeq(q, a + 1, m) \in Seq(S) /\ Len(SubSeq(q, a + 1, m)) = m - a
  <2> HIDE DEF q, a, m
  <2>1. a + 1 \in Int /\ m \in Int /\ \A i \in a + 1 .. m : q[i] \in S
    BY <1>1
  <2>2. /\ SubSeq(q, a + 1, m) \in Seq(S)
        /\ Len(SubSeq(q, a + 1, m)) = IF a + 1 <= m THEN m - (a + 1) + 1 ELSE 0
    BY <2>1, SubSeqProperties
  <2> QED BY <1>1, <2>2
<1> QED BY <1>2, <1>3 DEF Done, Taken

(* A part of a part is a part, empty ones included.                         *)
LEMMA PartOfPart ==
  ASSUME NEW S, NEW q \in Seq(S), NEW i \in 1 .. Len(q) + 1, NEW j \in i - 1 .. Len(q),
         NEW k \in 1 .. j - i + 2, NEW l \in k - 1 .. j - i + 1
  PROVE  SubSeq(SubSeq(q, i, j), k, l) = SubSeq(q, i + k - 1, i + l - 1)
<1>n. Len(q) \in Nat
  BY LenProperties
<1>1. CASE l < k
  <2>1. k \in Int /\ l \in Int /\ i + k - 1 \in Int /\ i + l - 1 \in Int /\ i + l - 1 < i + k - 1
    BY <1>n, <1>1
  <2>2. SubSeq(SubSeq(q, i, j), k, l) = <<>>
    BY <1>1, <2>1, SubSeqEmpty
  <2>3. SubSeq(q, i + k - 1, i + l - 1) = <<>>
    BY <2>1, SubSeqEmpty
  <2> QED BY <2>2, <2>3
<1>2. CASE k <= l
  <2>1. i \in 1 .. Len(q) /\ j \in 1 .. Len(q) /\ k \in 1 .. j - i + 1 /\ l \in 1 .. j - i + 1
    BY <1>n, <1>2
  <2> QED BY <2>1, SubSeqOfSubSeq
<1> QED BY <1>n, <1>1, <1>2

LEMMA CursorIsStep ==
  ASSUME NEW S, NEW s \in StackOf(S), NEW b \in 0 .. Len(s.commands),
         NEW t, t = [s EXCEPT !.current = b], t # s
  PROVE  HistoryStep(S, s, t)
<1> DEFINE q == s.commands
           a == s.current
           m == Len(s.commands)
           p == Done(s)
           f == Taken(s)
<1>1. /\ q \in Seq(S) /\ a \in Nat /\ m \in Nat /\ a <= m
      /\ p = SubSeq(q, 1, a) /\ f = SubSeq(q, a + 1, m)
      /\ Len(p) = a /\ Len(f) = m - a /\ b \in Nat /\ b <= m
  BY PartsOfStack, PartsOfHistory DEF Done, Taken
<1>2. /\ Done(t) = SubSeq(q, 1, b) /\ Taken(t) = SubSeq(q, b + 1, m)
      /\ a # b
  <2>1. s = [commands |-> q, current |-> a]
    BY PartsOfStack
  <2>2. t = [commands |-> q, current |-> b]
    BY <2>1
  <2>3. a # b
    BY <2>1, <2>2
  <2>4. t.commands = q /\ t.current = b
    BY <2>2
  <2> QED BY <2>3, <2>4 DEF Done, Taken
<1> HIDE DEF q, a, m, p, f
<1>q. Len(q) = m
  BY DEF q, m
<1>n. a \in Nat /\ m \in Nat /\ b \in Nat /\ a <= m /\ b <= m
  BY <1>1
<1>3. CASE b < a
  <2>1. a - b \in 1 .. Len(p) /\ Len(p) - (a - b) = b
    <3>1. a - b \in 1 .. a /\ a - (a - b) = b
      BY ONLY <1>n, <1>3
    <3> QED BY <1>1, <3>1
  <2>2. /\ 1 \in 1 .. Len(q) + 1 /\ a \in 1 - 1 .. Len(q)
        /\ 1 \in 1 .. a - 1 + 2 /\ b \in 1 - 1 .. a - 1 + 1
        /\ b + 1 \in 1 .. a - 1 + 2 /\ a \in (b + 1) - 1 .. a - 1 + 1
        /\ 1 + 1 - 1 = 1 /\ 1 + b - 1 = b /\ 1 + (b + 1) - 1 = b + 1 /\ 1 + a - 1 = a
    BY ONLY <1>n, <1>q, <1>3
  <2>3. SubSeq(SubSeq(q, 1, a), 1, b) = SubSeq(q, 1, b)
    BY ONLY <1>1, <2>2, PartOfPart
  <2>4. SubSeq(SubSeq(q, 1, a), b + 1, a) = SubSeq(q, b + 1, a)
    BY ONLY <1>1, <2>2, PartOfPart
  <2>5. SubSeq(q, b + 1, a) \o SubSeq(q, a + 1, m) = SubSeq(q, b + 1, m)
    <3>1. b + 1 \in 1 .. Len(q) + 1 /\ a \in (b + 1) - 1 .. Len(q) /\ m \in a .. Len(q)
      BY <1>1, <1>q, <1>3
    <3> QED BY <1>1, <3>1, ConcatAdjacentSubSeq
  <2>6. Done(t) = SubSeq(p, 1, Len(p) - (a - b))
    BY <1>1, <1>2, <2>1, <2>3
  <2>7. Taken(t) = SubSeq(p, Len(p) - (a - b) + 1, Len(p)) \o f
    BY <1>1, <1>2, <2>1, <2>4, <2>5
  <2> QED BY <2>1, <2>6, <2>7 DEF HistoryStep, p, f
<1>4. CASE a < b
  <2>1. b - a \in 1 .. Len(f) /\ Len(f) = m - a
    BY <1>1, <1>4
  <2>2. /\ a + 1 \in 1 .. Len(q) + 1 /\ m \in (a + 1) - 1 .. Len(q)
        /\ 1 \in 1 .. m - (a + 1) + 2 /\ b - a \in 1 - 1 .. m - (a + 1) + 1
        /\ (b - a) + 1 \in 1 .. m - (a + 1) + 2
        /\ m - a \in ((b - a) + 1) - 1 .. m - (a + 1) + 1
        /\ (a + 1) + 1 - 1 = a + 1 /\ (a + 1) + (b - a) - 1 = b
        /\ (a + 1) + ((b - a) + 1) - 1 = b + 1 /\ (a + 1) + (m - a) - 1 = m
    BY ONLY <1>n, <1>q, <1>4
  <2>3. SubSeq(SubSeq(q, a + 1, m), 1, b - a) = SubSeq(q, a + 1, b)
    BY ONLY <1>1, <2>2, PartOfPart
  <2>4. SubSeq(SubSeq(q, a + 1, m), (b - a) + 1, m - a) = SubSeq(q, b + 1, m)
    BY ONLY <1>1, <2>2, PartOfPart
  <2>5. SubSeq(q, 1, a) \o SubSeq(q, a + 1, b) = SubSeq(q, 1, b)
    <3>1. 1 \in 1 .. Len(q) + 1 /\ a \in 1 - 1 .. Len(q) /\ b \in a .. Len(q)
      BY <1>1, <1>q, <1>4
    <3> QED BY <1>1, <3>1, ConcatAdjacentSubSeq
  <2>6. Done(t) = p \o SubSeq(f, 1, b - a)
    BY <1>1, <1>2, <2>3, <2>5
  <2>7. Taken(t) = SubSeq(f, (b - a) + 1, Len(f))
    BY <1>1, <1>2, <2>1, <2>4
  <2> QED BY <2>1, <2>6, <2>7 DEF HistoryStep, p, f
<1> QED BY <1>2, <1>n, <1>3, <1>4

(* What is done and taken back after a push.                                *)
LEMMA PushIsDone ==
  ASSUME NEW S, NEW s \in StackOf(S), NEW c \in S
  PROVE  /\ Done(Pushed(s, c)) = IF Len(Done(s)) = Limit THEN Append(Tail(Done(s)), c)
                                                         ELSE Append(Done(s), c)
         /\ Taken(Pushed(s, c)) = <<>>
<1> DEFINE t == Pushed(s, c)
           p == Done(s)
           q == IF Len(p) = Limit THEN Append(Tail(p), c) ELSE Append(p, c)
<1>1. /\ p \in Seq(S) /\ Len(p) = s.current /\ s.current \in Nat
      /\ Limit \in Nat \ {0} /\ p = SubSeq(s.commands, 1, s.current)
  BY PartsOfHistory, PartsOfStack, LimitAssumption DEF Done
<1>2. t.commands = q /\ t.current = Len(q) /\ q \in Seq(S) /\ Len(q) \in Nat
  <2>1. CASE s.current = Limit
    <3>1. t = [s EXCEPT !.commands = Append(Tail(p), c)]
      BY <1>1, <2>1 DEF Pushed
    <3>2. s \in [commands : Seq(S), current : Nat]
      BY DEF StackOf
    <3> HIDE DEF p, t
    <3>3. t.commands = Append(Tail(p), c) /\ t.current = s.current
      BY <3>1, <3>2
    <3>4. p # <<>> /\ Tail(p) \in Seq(S) /\ Len(Tail(p)) = Len(p) - 1
      BY <1>1, <2>1, EmptySeq, HeadTailProperties
    <3>5. Append(Tail(p), c) \in Seq(S) /\ Len(Append(Tail(p), c)) = (Len(p) - 1) + 1
      BY <3>4, AppendProperties
    <3>6. Len(p) = Limit /\ q = Append(Tail(p), c)
      BY <1>1, <2>1
    <3> HIDE DEF q
    <3>7. Len(q) = s.current
      BY <1>1, <3>5, <3>6
    <3> QED BY <1>1, <3>3, <3>5, <3>6, <3>7
  <2>2. CASE s.current # Limit
    <3>1. t = [commands |-> Append(p, c), current |-> s.current + 1]
      BY <1>1, <2>2 DEF Pushed
    <3> HIDE DEF p, t
    <3>2. Append(p, c) \in Seq(S) /\ Len(Append(p, c)) = Len(p) + 1
      BY <1>1, AppendProperties
    <3> QED BY <1>1, <2>2, <3>1, <3>2
  <2> QED BY <2>1, <2>2
<1> HIDE DEF t, q
<1>3. Done(t) = q
  BY <1>2, SubSeqFull DEF Done
<1>4. Taken(t) = <<>>
  <2>1. Len(q) + 1 \in Int /\ Len(q) \in Int /\ Len(q) < Len(q) + 1
    BY <1>2
  <2> QED BY <1>2, <2>1, SubSeqEmpty DEF Taken
<1> QED BY <1>3, <1>4 DEF t, q

LEMMA PushIsStep ==
  ASSUME NEW S, NEW s \in StackOf(S), NEW c \in S
  PROVE  HistoryStep(S, s, Pushed(s, c))
BY PushIsDone DEF HistoryStep

LEMMA EmptyIsStep ==
  ASSUME NEW S, NEW s
  PROVE  Done(EmptyStack) = <<>> /\ Taken(EmptyStack) = <<>> /\ HistoryStep(S, s, EmptyStack)
<1>1. SubSeq(<<>>, 1, 0) = <<>> /\ SubSeq(<<>>, 0 + 1, Len(<<>>)) = <<>>
  <2>1. 1 \in Int /\ 0 \in Int /\ 0 < 1 /\ 0 + 1 = 1 /\ Len(<<>>) = 0
    OBVIOUS
  <2> QED BY <2>1, SubSeqEmpty
<1>2. Done(EmptyStack) = <<>> /\ Taken(EmptyStack) = <<>>
  BY <1>1 DEF Done, Taken, EmptyStack
<1> QED BY <1>2 DEF HistoryStep

(* A stack that is left as it is, whose cursor is moved inside its          *)
(* commands, that is emptied, or that is given a command of S.              *)
Evolves(S, s, t) ==
  \/ t = s
  \/ \E k \in 0 .. Len(s.commands) : t = [s EXCEPT !.current = k]
  \/ t = EmptyStack
  \/ \E c \in S : t = Pushed(s, c)

LEMMA JumpEvolves ==
  ASSUME NEW S, NEW s \in StackOf(S), NEW v \in Nat
  PROVE  Evolves(S, s, Moved(s, v))
<1> DEFINE t == Moved(s, v)
           k == t.current
<1>1. t \in StackOf(S) /\ t.commands = s.commands
  BY JumpKeepsStack
<1> HIDE DEF t
<1>2. k \in 0 .. Len(s.commands) /\ t = [commands |-> s.commands, current |-> k]
  BY <1>1, PartsOfStack
<1>3. s = [commands |-> s.commands, current |-> s.current]
  BY PartsOfStack
<1> HIDE DEF k
<1>4. t = [s EXCEPT !.current = k]
  BY <1>2, <1>3
<1> QED BY <1>2, <1>4 DEF Evolves, t

LEMMA UndoEvolves ==
  ASSUME NEW S, NEW s \in StackOf(S), CanUndo(s)
  PROVE  Evolves(S, s, Undone(s))
<1>1. s.current - 1 \in 0 .. Len(s.commands)
  BY PartsOfStack DEF CanUndo
<1> QED BY <1>1 DEF Evolves, Undone

LEMMA RedoEvolves ==
  ASSUME NEW S, NEW s \in StackOf(S), CanRedo(s)
  PROVE  Evolves(S, s, Redone(s))
<1>1. s.current + 1 \in 0 .. Len(s.commands)
  BY PartsOfStack DEF CanRedo
<1> QED BY <1>1 DEF Evolves, Redone

LEMMA EvolvesIsStep ==
  ASSUME NEW S, NEW s \in StackOf(S), NEW t, Evolves(S, s, t)
  PROVE  t = s \/ HistoryStep(S, s, t)
BY CursorIsStep, PushIsStep, EmptyIsStep DEF Evolves

(* Two stacks with the same commands done, whatever was taken back on them:  *)
(* a push makes them the same, and an undo or a redo on one of them is an   *)
(* undo or a push on the other.                                            *)
LEMMA DoneAlike ==
  ASSUME NEW S, NEW s \in StackOf(S), NEW t \in StackOf(S), Done(t) = Done(s)
  PROVE  /\ t.current = s.current
         /\ \A i \in 1 .. s.current : Done(s)[i] = s.commands[i] /\ t.commands[i] = s.commands[i]
<1>1. t.current = s.current
  BY PartsOfHistory
<1>2. ASSUME NEW u \in StackOf(S) PROVE \A i \in 1 .. u.current : Done(u)[i] = u.commands[i]
  <2> DEFINE q == u.commands
             a == u.current
  <2>1. q \in Seq(S) /\ a \in Nat /\ Len(q) \in Nat /\ a <= Len(q)
        /\ \A i \in 1 .. Len(q) : q[i] \in S
    BY PartsOfStack
  <2> HIDE DEF q, a
  <2>2. 1 \in Int /\ a \in Int /\ \A i \in 1 .. a : q[i] \in S
    BY <2>1
  <2>3. \A i \in 1 .. a - 1 + 1 : SubSeq(q, 1, a)[i] = q[1 + i - 1]
    BY <2>2, SubSeqProperties
  <2>4. \A i \in 1 .. a : SubSeq(q, 1, a)[i] = q[i]
    BY <2>1, <2>3
  <2> QED BY <2>4 DEF Done, q, a
<1> QED BY <1>1, <1>2

LEMMA PushAlike ==
  ASSUME NEW S, NEW s \in StackOf(S), NEW t \in StackOf(S), Done(t) = Done(s), NEW c
  PROVE  Pushed(t, c) = Pushed(s, c)
<1>1. t.current = s.current
  BY DoneAlike
<1>2. SubSeq(t.commands, 1, t.current) = SubSeq(s.commands, 1, s.current)
  BY DEF Done
<1>3. /\ s = [commands |-> s.commands, current |-> s.current]
      /\ t = [commands |-> t.commands, current |-> t.current]
  BY PartsOfStack
<1>4. \A q : [t EXCEPT !.commands = q] = [s EXCEPT !.commands = q]
  BY <1>1, <1>3
<1> QED BY <1>1, <1>2, <1>4 DEF Pushed

LEMMA UndoIsDone ==
  ASSUME NEW S, NEW s \in StackOf(S), CanUndo(s)
  PROVE  Done(Undone(s)) = SubSeq(Done(s), 1, s.current - 1)
<1> DEFINE q == s.commands
           a == s.current
<1>1. q \in Seq(S) /\ a \in Nat /\ Len(q) \in Nat /\ a <= Len(q) /\ a >= 1
  BY PartsOfStack DEF CanUndo
<1>2. Undone(s).commands = q /\ Undone(s).current = a - 1
  BY PartsOfStack DEF Undone
<1> HIDE DEF q, a
<1>3. /\ 1 \in 1 .. Len(q) + 1 /\ a \in 1 - 1 .. Len(q)
      /\ 1 \in 1 .. a - 1 + 2 /\ a - 1 \in 1 - 1 .. a - 1 + 1
      /\ 1 + 1 - 1 = 1 /\ 1 + (a - 1) - 1 = a - 1
  BY <1>1
<1>4. SubSeq(SubSeq(q, 1, a), 1, a - 1) = SubSeq(q, 1, a - 1)
  BY ONLY <1>1, <1>3, PartOfPart
<1> QED BY <1>2, <1>4 DEF Done, q, a

LEMMA UndoAlike ==
  ASSUME NEW S, NEW s \in StackOf(S), NEW t \in StackOf(S), Done(t) = Done(s), CanUndo(s)
  PROVE  CanUndo(t) /\ Below(t) = Below(s) /\ Done(Undone(t)) = Done(Undone(s))
<1>1. s.current \in 1 .. s.current /\ t.current = s.current
  BY DoneAlike, PartsOfStack DEF CanUndo
<1>2. CanUndo(t)
  BY <1>1 DEF CanUndo
<1>3. Below(t) = Below(s)
  BY <1>1, DoneAlike DEF Below
<1> QED BY <1>1, <1>2, <1>3, UndoIsDone

LEMMA RedoAlike ==
  ASSUME NEW S, NEW s \in StackOf(S), NEW t \in StackOf(S), Done(t) = Done(s), CanRedo(s)
  PROVE  Done(Pushed(t, Above(s))) = Done(Redone(s))
<1> DEFINE q == s.commands
           a == s.current
<1>1. /\ q \in Seq(S) /\ a \in Nat /\ Len(q) \in Nat /\ a < Len(q) /\ Len(q) <= Limit
      /\ Above(s) = q[a + 1] /\ Above(s) \in S
  BY PartsOfStack, RedoKeepsStack DEF CanRedo, Above
<1>2. Redone(s).commands = q /\ Redone(s).current = a + 1
  BY PartsOfStack DEF Redone
<1>3. Done(s) = SubSeq(q, 1, a) /\ Len(Done(s)) = a
  BY PartsOfHistory DEF Done
<1> HIDE DEF q, a
<1>4. 1 \in 1 .. Len(q) /\ a + 1 \in 1 .. Len(q) /\ (a + 1) - 1 = a /\ a # Limit
  BY <1>1, LimitAssumption
<1>5. SubSeq(q, 1, a + 1) = SubSeq(q, 1, a) \o <<q[a + 1]>>
  BY ONLY <1>1, <1>4, SubSeqRecursiveSecond
<1>6. SubSeq(q, 1, a) \in Seq(S) /\ q[a + 1] \in S
  BY <1>1, <1>3, PartsOfHistory
<1>7. SubSeq(q, 1, a) \o <<q[a + 1]>> = Append(SubSeq(q, 1, a), q[a + 1])
  BY <1>6, AppendIsConcat
<1>8. Done(Pushed(t, Above(s))) = Append(Done(t), Above(s))
  BY <1>1, <1>3, <1>4, PushIsDone
<1> QED BY <1>1, <1>2, <1>3, <1>5, <1>7, <1>8 DEF Done
=============================================================================
