------------------------ MODULE UndoRefinementProofs -------------------------
(***************************************************************************)
(* The undo library implements UndoHistory: the slots below the cursor,    *)
(* read as a sequence, are the past, and those above it the future, for    *)
(* every limit and every set of commands.  Ownership is needed to know that *)
(* every one of these slots holds a command.                               *)
(***************************************************************************)
EXTENDS UndoStackProofs, Sequences, SequenceTheorems

Past == [i \in 1 .. currentIndex |-> commands[i - 1]]
Future == [i \in 1 .. numCommands - currentIndex |-> commands[currentIndex + i - 1]]

(* What the two views of the slots are, one element at a time.              *)
ViewsMatch ==
  /\ Past \in Seq(Commands) /\ Len(Past) = currentIndex
  /\ Future \in Seq(Commands) /\ Len(Future) = numCommands - currentIndex
  /\ numCommands \in Nat /\ currentIndex \in 0 .. numCommands
  /\ \A i \in 1 .. currentIndex : Past[i] = commands[i - 1]
  /\ \A i \in 1 .. numCommands - currentIndex : Future[i] = commands[currentIndex + i - 1]

LEMMA Views == Shape => ViewsMatch
<1> SUFFICES ASSUME Shape PROVE ViewsMatch
  OBVIOUS
<1>1. /\ numCommands \in Nat /\ currentIndex \in 0 .. numCommands
      /\ currentIndex \in Nat /\ numCommands - currentIndex \in Nat
  BY DEF Shape, TypeOK
<1>2. ASSUME NEW i \in 1 .. currentIndex PROVE commands[i - 1] \in Commands
  BY <1>1, SlotHolds DEF Shape, TypeOK
<1>3. ASSUME NEW i \in 1 .. numCommands - currentIndex
      PROVE  commands[currentIndex + i - 1] \in Commands
  BY <1>1, SlotHolds DEF Shape, TypeOK
<1>4. Past \in [1 .. currentIndex -> Commands]
  BY <1>2 DEF Past
<1>5. Future \in [1 .. numCommands - currentIndex -> Commands]
  BY <1>3 DEF Future
<1>6. Past \in Seq(Commands) /\ Len(Past) = currentIndex
  BY <1>1, <1>4
<1>7. Future \in Seq(Commands) /\ Len(Future) = numCommands - currentIndex
  BY <1>1, <1>5
<1>8. /\ \A i \in 1 .. currentIndex : Past[i] = commands[i - 1]
      /\ \A i \in 1 .. numCommands - currentIndex : Future[i] = commands[currentIndex + i - 1]
  BY DEF Past, Future
<1> QED BY <1>1, <1>6, <1>7, <1>8 DEF ViewsMatch

-----------------------------------------------------------------------------
(* A sequence whose elements are those of p and then c is Append(p, c); one  *)
(* whose elements are those of p without the first and then c is            *)
(* Append(Tail(p), c).                                                     *)
Appended(p, q, c) ==
  /\ p \in Seq(Commands) /\ q \in Seq(Commands) /\ c \in Commands
  /\ Len(q) = Len(p) + 1
  /\ \A i \in 1 .. Len(p) : q[i] = p[i]
  /\ q[Len(p) + 1] = c

Slid(p, q, c) ==
  /\ p \in Seq(Commands) /\ q \in Seq(Commands) /\ c \in Commands
  /\ p # <<>> /\ Len(q) = Len(p)
  /\ \A i \in 1 .. Len(p) - 1 : q[i] = p[i + 1]
  /\ q[Len(p)] = c

LEMMA AppendByElements ==
  ASSUME NEW p, NEW q, NEW c, Appended(p, q, c)
  PROVE  q = Append(p, c)
<1>1. /\ p \in Seq(Commands) /\ q \in Seq(Commands) /\ c \in Commands
      /\ Len(q) = Len(p) + 1 /\ Len(p) \in Nat
  BY DEF Appended
<1>2. /\ Append(p, c) \in Seq(Commands) /\ Len(Append(p, c)) = Len(p) + 1
      /\ \A i \in 1 .. Len(p) : Append(p, c)[i] = p[i]
      /\ Append(p, c)[Len(p) + 1] = c
  BY <1>1, AppendProperties
<1>3. ASSUME NEW i \in 1 .. Len(q) PROVE q[i] = Append(p, c)[i]
  <2>1. i \in 1 .. Len(p) \/ i = Len(p) + 1
    BY <1>1
  <2> QED BY <1>2, <2>1 DEF Appended
<1> QED BY <1>1, <1>2, <1>3, SeqEqual

LEMMA SlideByElements ==
  ASSUME NEW p, NEW q, NEW c, Slid(p, q, c)
  PROVE  q = Append(Tail(p), c)
<1>1. /\ p \in Seq(Commands) /\ p # <<>> /\ q \in Seq(Commands) /\ c \in Commands
      /\ Len(q) = Len(p)
  BY DEF Slid
<1>2. /\ Tail(p) \in Seq(Commands) /\ Len(Tail(p)) = Len(p) - 1
      /\ \A i \in 1 .. Len(p) - 1 : Tail(p)[i] = p[i + 1]
  BY <1>1, HeadTailProperties
<1>3. Len(p) \in Nat /\ Len(p) - 1 + 1 = Len(p)
  BY <1>1, LenProperties
<1>4. Appended(Tail(p), q, c)
  BY <1>1, <1>2, <1>3 DEF Appended, Slid
<1> QED BY <1>4, AppendByElements

-----------------------------------------------------------------------------
(* The steps of UndoHistory, in terms of the two views.                     *)
LEMMA HistorySteps ==
  /\ \A n \in 1 .. Len(Past) :
       /\ Past' = SubSeq(Past, 1, Len(Past) - n)
       /\ Future' = SubSeq(Past, Len(Past) - n + 1, Len(Past)) \o Future
       /\ softLimit' = softLimit
       => History!Next
  /\ \A n \in 1 .. Len(Future) :
       /\ Past' = Past \o SubSeq(Future, 1, n)
       /\ Future' = SubSeq(Future, n + 1, Len(Future))
       /\ softLimit' = softLimit
       => History!Next
  /\ Past' = <<>> /\ Future' = <<>> /\ softLimit' \in Nat => History!Next
  /\ softLimit' \in Nat /\ Len(Past) + Len(Future) <= softLimit'
       /\ UNCHANGED <<Past, Future>> => History!Next
  /\ softLimit > 0 => \A c \in Commands :
       /\ Past' = IF Len(Past) = softLimit THEN Append(Tail(Past), c) ELSE Append(Past, c)
       /\ Future' = <<>>
       /\ softLimit' = softLimit
       => History!Next
<1>1. \A n : /\ Past' = SubSeq(Past, 1, Len(Past) - n)
             /\ Future' = SubSeq(Past, Len(Past) - n + 1, Len(Past)) \o Future
             /\ softLimit' = softLimit
             => History!Back(n)
  BY DEF History!Back, Past, Future
<1>2. \A n : /\ Past' = Past \o SubSeq(Future, 1, n)
             /\ Future' = SubSeq(Future, n + 1, Len(Future))
             /\ softLimit' = softLimit
             => History!Forward(n)
  BY DEF History!Forward, Past, Future
<1>3. Past' = <<>> /\ Future' = <<>> /\ softLimit' \in Nat => History!Forget
  BY DEF History!Forget, Past, Future
<1>4. softLimit' \in Nat /\ Len(Past) + Len(Future) <= softLimit'
       /\ UNCHANGED <<Past, Future>> => History!ChangeLimit
  BY DEF History!ChangeLimit, Past, Future
<1>5. \A c : /\ softLimit > 0
             /\ Past' = IF Len(Past) = softLimit THEN Append(Tail(Past), c) ELSE Append(Past, c)
             /\ Future' = <<>>
             /\ softLimit' = softLimit
             => History!Do(c)
  BY DEF History!Do, Past, Future
<1>6. /\ \A n \in 1 .. Len(Past) : History!Back(n) => History!Next
      /\ \A n \in 1 .. Len(Future) : History!Forward(n) => History!Next
      /\ History!Forget => History!Next
      /\ History!ChangeLimit => History!Next
      /\ \A c \in Commands : History!Do(c) => History!Next
  BY DEF History!Next, Past, Future
<1> QED BY <1>1, <1>2, <1>3, <1>4, <1>5, <1>6

(* Moving the cursor down is Back, moving it up is Forward.  The views of    *)
(* the m slots cs with the cursor at a are p and f, those with it at b are  *)
(* q and g.                                                                *)
IsView(p, f, cs, a, m) ==
  /\ m \in Nat /\ a \in 0 .. m
  /\ p \in Seq(Commands) /\ f \in Seq(Commands)
  /\ Len(p) = a /\ Len(f) = m - a
  /\ \A i \in 1 .. a : p[i] = cs[i - 1]
  /\ \A i \in 1 .. m - a : f[i] = cs[a + i - 1]

IsBack(p, f, q, g) ==
  \E n \in 1 .. Len(p) : /\ q = SubSeq(p, 1, Len(p) - n)
                        /\ g = SubSeq(p, Len(p) - n + 1, Len(p)) \o f

IsForward(p, f, q, g) ==
  \E n \in 1 .. Len(f) : /\ q = p \o SubSeq(f, 1, n)
                        /\ g = SubSeq(f, n + 1, Len(f))

LEMMA BackByCursor ==
  ASSUME NEW p, NEW f, NEW q, NEW g, NEW cs, NEW m, NEW a, NEW b, b < a,
         IsView(p, f, cs, a, m), IsView(q, g, cs, b, m)
  PROVE  IsBack(p, f, q, g)
<1>s. m \in Nat /\ a \in 0 .. m /\ b \in 0 .. m
  BY DEF IsView
<1>d. a - b \in 1 .. a /\ a - (a - b) = b
  BY ONLY <1>s, b < a
<1>n. PICK n \in 1 .. a : a - n = b
  BY ONLY <1>d
<1>v. IsView(q, g, cs, a - n, m)
  BY <1>n
<1>q. /\ p \in Seq(Commands) /\ f \in Seq(Commands)
      /\ q \in Seq(Commands) /\ g \in Seq(Commands)
  BY DEF IsView
<1>0. /\ Len(p) = a /\ Len(q) = a - n /\ Len(f) = m - a /\ Len(g) = m - (a - n)
  BY <1>v DEF IsView
<1>1. /\ n \in 1 .. Len(p) /\ Len(q) = Len(p) - n /\ Len(g) = Len(f) + n
  BY ONLY <1>s, <1>n, <1>0
<1>2. ASSUME NEW i \in 1 .. Len(q) PROVE q[i] = p[i]
  <2>1. i \in 1 .. a - n /\ i \in 1 .. a
    BY ONLY <1>s, <1>n, <1>0, i \in 1 .. Len(q)
  <2> QED BY <1>v, <2>1 DEF IsView
<1>3. ASSUME NEW i \in 1 .. n PROVE g[i] = p[Len(p) - n + i]
  <2>1. i \in 1 .. m - (a - n) /\ a - n + i \in 1 .. a
    BY ONLY <1>s, <1>n, i \in 1 .. n
  <2>2. g[i] = cs[(a - n) + i - 1] /\ p[a - n + i] = cs[(a - n + i) - 1]
    BY <1>v, <2>1 DEF IsView
  <2> QED BY ONLY <1>0, <2>2
<1>4. ASSUME NEW i \in 1 .. Len(f) PROVE g[n + i] = f[i]
  <2>1. n + i \in 1 .. m - (a - n) /\ i \in 1 .. m - a
    BY ONLY <1>s, <1>n, <1>0, i \in 1 .. Len(f)
  <2>2. g[n + i] = cs[(a - n) + (n + i) - 1] /\ f[i] = cs[a + i - 1]
    BY <1>v, <2>1 DEF IsView
  <2>3. (a - n) + (n + i) - 1 = a + i - 1
    BY ONLY <1>s, <1>n, <2>1, i \in 1 .. Len(f)
  <2> QED BY ONLY <2>2, <2>3
<1>l. Len(p) \in Nat /\ Len(f) \in Nat /\ n \in Nat
  BY ONLY <1>0, <1>s, <1>n
<1>5. q = SubSeq(p, 1, Len(p) - n)
  <2> DEFINE s == SubSeq(p, 1, Len(p) - n)
  <2>1. \A i \in 1 .. Len(p) - n : p[i] \in Commands
    BY <1>q, <1>n, <1>l, <1>1, ElementOfSeq
  <2>2. /\ s \in Seq(Commands) /\ Len(s) = Len(p) - n
        /\ \A i \in 1 .. Len(p) - n : s[i] = p[i]
    BY <1>q, <1>n, <1>l, <1>1, <2>1, SubSeqProperties
  <2> HIDE DEF s
  <2>3. q = s
    BY <1>q, <1>n, <1>1, <1>2, <2>2, SeqEqual
  <2> QED BY <2>3 DEF s
<1>6. g = SubSeq(p, Len(p) - n + 1, Len(p)) \o f
  <2> DEFINE s == SubSeq(p, Len(p) - n + 1, Len(p))
  <2>1. \A i \in Len(p) - n + 1 .. Len(p) : p[i] \in Commands
    BY <1>q, <1>n, <1>l, <1>1, ElementOfSeq
  <2>2. /\ s \in Seq(Commands) /\ Len(s) = n
        /\ \A i \in 1 .. n : s[i] = p[Len(p) - n + i]
    BY SMTT(30), <1>q, <1>n, <1>l, <1>1, <2>1, SubSeqProperties
  <2> HIDE DEF s
  <2>3. /\ s \o f \in Seq(Commands) /\ Len(s \o f) = n + Len(f)
        /\ \A i \in 1 .. n + Len(f) : (s \o f)[i] = IF i <= n THEN s[i] ELSE f[i - n]
    BY ZenonT(30), <1>q, <1>n, <2>2, ConcatProperties
  <2>4. ASSUME NEW i \in 1 .. Len(g) PROVE g[i] = (s \o f)[i]
    <3>1. CASE i <= n
      <4>1. i \in 1 .. n /\ i \in 1 .. n + Len(f)
        BY ONLY <1>l, <3>1, i \in 1 .. Len(g)
      <4> QED BY ONLY <1>3, <2>2, <2>3, <3>1, <4>1
    <3>2. CASE ~(i <= n)
      <4>1. i - n \in 1 .. Len(f) /\ n + (i - n) = i /\ i \in 1 .. n + Len(f)
        BY ONLY <1>l, <1>1, <3>2, i \in 1 .. Len(g)
      <4>2. g[n + (i - n)] = f[i - n]
        BY ONLY <1>4, <4>1
      <4> QED BY ONLY <2>3, <3>2, <4>1, <4>2
    <3> QED BY <3>1, <3>2
  <2>5. Len(g) = Len(s \o f)
    BY <1>l, <1>1, <2>3
  <2>6. g = s \o f
    BY <1>q, <1>n, <2>3, <2>4, <2>5, SeqEqual
  <2> QED BY <2>6 DEF s
<1> QED BY <1>1, <1>5, <1>6 DEF IsBack

LEMMA ForwardByCursor ==
  ASSUME NEW p, NEW f, NEW q, NEW g, NEW cs, NEW m, NEW a, NEW b, a < b,
         IsView(p, f, cs, a, m), IsView(q, g, cs, b, m)
  PROVE  IsForward(p, f, q, g)
<1>s. m \in Nat /\ a \in 0 .. m /\ b \in 0 .. m
  BY DEF IsView
<1>d. b - a \in 1 .. m - a /\ a + (b - a) = b
  BY ONLY <1>s, a < b
<1>n. PICK n \in 1 .. m - a : a + n = b
  BY ONLY <1>d
<1>v. IsView(q, g, cs, a + n, m)
  BY <1>n
<1>q. /\ p \in Seq(Commands) /\ f \in Seq(Commands)
      /\ q \in Seq(Commands) /\ g \in Seq(Commands)
  BY DEF IsView
<1>0. /\ Len(p) = a /\ Len(q) = a + n /\ Len(f) = m - a /\ Len(g) = m - (a + n)
  BY <1>v DEF IsView
<1>1. /\ n \in 1 .. Len(f) /\ Len(q) = Len(p) + n /\ Len(g) = Len(f) - n
  BY ONLY <1>s, <1>n, <1>0
<1>2. ASSUME NEW i \in 1 .. Len(p) PROVE q[i] = p[i]
  <2>1. i \in 1 .. a /\ i \in 1 .. a + n
    BY ONLY <1>s, <1>n, <1>0, i \in 1 .. Len(p)
  <2> QED BY <1>v, <2>1 DEF IsView
<1>3. ASSUME NEW i \in 1 .. n PROVE q[Len(p) + i] = f[i]
  <2>1. a + i \in 1 .. a + n /\ i \in 1 .. m - a
    BY ONLY <1>s, <1>n, i \in 1 .. n
  <2>2. q[a + i] = cs[(a + i) - 1] /\ f[i] = cs[a + i - 1]
    BY <1>v, <2>1 DEF IsView
  <2> QED BY ONLY <1>0, <2>2
<1>4. ASSUME NEW i \in 1 .. Len(g) PROVE g[i] = f[n + i]
  <2>1. i \in 1 .. m - (a + n) /\ n + i \in 1 .. m - a
    BY ONLY <1>s, <1>n, <1>0, i \in 1 .. Len(g)
  <2>2. g[i] = cs[(a + n) + i - 1] /\ f[n + i] = cs[a + (n + i) - 1]
    BY <1>v, <2>1 DEF IsView
  <2>3. (a + n) + i - 1 = a + (n + i) - 1
    BY ONLY <1>s, <1>n, <2>1, i \in 1 .. Len(g)
  <2> QED BY ONLY <2>2, <2>3
<1>l. Len(p) \in Nat /\ Len(f) \in Nat /\ n \in Nat
  BY ONLY <1>0, <1>s, <1>n
<1>5. q = p \o SubSeq(f, 1, n)
  <2> DEFINE s == SubSeq(f, 1, n)
  <2>1. \A i \in 1 .. n : f[i] \in Commands
    BY <1>q, <1>n, <1>l, <1>1, ElementOfSeq
  <2>2. s \in Seq(Commands) /\ Len(s) = n /\ \A i \in 1 .. n : s[i] = f[i]
    BY <1>q, <1>n, <1>l, <1>1, <2>1, SubSeqProperties
  <2> HIDE DEF s
  <2>3. /\ p \o s \in Seq(Commands) /\ Len(p \o s) = Len(p) + n
        /\ \A i \in 1 .. Len(p) + n : (p \o s)[i] = IF i <= Len(p) THEN p[i] ELSE s[i - Len(p)]
    BY <1>q, <1>n, <2>2, ConcatProperties
  <2>4. ASSUME NEW i \in 1 .. Len(q) PROVE q[i] = (p \o s)[i]
    <3>1. CASE i <= Len(p)
      BY <1>l, <1>1, <1>2, <2>3, <3>1
    <3>2. CASE ~(i <= Len(p))
      <4>1. /\ i - Len(p) \in 1 .. n /\ Len(p) + (i - Len(p)) = i
            /\ i \in 1 .. Len(p) + n
        BY ONLY <1>l, <1>1, <3>2, i \in 1 .. Len(q)
      <4>2. q[Len(p) + (i - Len(p))] = f[i - Len(p)]
        BY ONLY <1>3, <4>1
      <4> QED BY ONLY <2>2, <2>3, <3>2, <4>1, <4>2
    <3> QED BY <3>1, <3>2
  <2>5. q = p \o s
    BY <1>q, <1>n, <1>l, <1>1, <2>3, <2>4, SeqEqual
  <2> QED BY <2>5 DEF s
<1>6. g = SubSeq(f, n + 1, Len(f))
  <2> DEFINE s == SubSeq(f, n + 1, Len(f))
  <2>1. \A i \in n + 1 .. Len(f) : f[i] \in Commands
    BY <1>q, <1>n, <1>l, <1>1, ElementOfSeq
  <2>2. /\ s \in Seq(Commands) /\ Len(s) = Len(f) - n
        /\ \A i \in 1 .. Len(f) - n : s[i] = f[n + i]
    BY <1>q, <1>n, <1>l, <1>1, <2>1, SubSeqProperties
  <2> HIDE DEF s
  <2>3. g = s
    BY <1>q, <1>n, <1>1, <1>4, <2>2, SeqEqual
  <2> QED BY <2>3 DEF s
<1> QED BY <1>1, <1>5, <1>6 DEF IsForward

LEMMA CursorMoves ==
  ASSUME ViewsMatch, ViewsMatch', currentIndex # currentIndex',
         numCommands' = numCommands, commands' = commands, softLimit' = softLimit
  PROVE  History!Next
<1>1. /\ IsView(Past, Future, commands, currentIndex, numCommands)
      /\ IsView(Past', Future', commands, currentIndex', numCommands)
  BY DEF ViewsMatch, IsView
<1>2. currentIndex' < currentIndex \/ currentIndex < currentIndex'
  <2>1. numCommands \in Nat /\ currentIndex \in 0 .. numCommands /\ currentIndex' \in 0 .. numCommands
    BY DEF ViewsMatch
  <2> QED BY ONLY <2>1, currentIndex # currentIndex'
<1>3. IsBack(Past, Future, Past', Future') \/ IsForward(Past, Future, Past', Future')
  BY <1>1, <1>2, BackByCursor, ForwardByCursor
<1> QED BY <1>3, HistorySteps DEF IsBack, IsForward

(* A stack that holds no command shows an empty history.                   *)
LEMMA EmptyViews ==
  ViewsMatch /\ numCommands = 0 => Past = <<>> /\ Future = <<>>
<1> SUFFICES ASSUME ViewsMatch, numCommands = 0 PROVE Past = <<>> /\ Future = <<>>
  OBVIOUS
<1>1. /\ Past \in Seq(Commands) /\ Len(Past) = currentIndex
      /\ Future \in Seq(Commands) /\ Len(Future) = 0 - currentIndex
      /\ currentIndex \in 0 .. 0
  BY DEF ViewsMatch
<1>2. currentIndex = 0
  BY ONLY <1>1
<1> QED BY <1>1, <1>2, EmptySeq

(* A push is Do, whichever of its three ways it takes.                      *)
LEMMA PushIsDo ==
  ASSUME Shape, Shape', NEW c \in Commands, NEW d \in Documents, PushCommand(c, d)
  PROVE  History!Next
<1>v. ViewsMatch /\ ViewsMatch'
  BY Views, PTL
<1>t. /\ numCommands \in Nat /\ currentIndex \in 0 .. numCommands
      /\ currentIndex \in Nat /\ softLimit \in Nat /\ numCommands <= softLimit
      /\ softLimit >= 1 /\ softLimit <= HardLimit
  BY HardLimitAssumption DEF Shape, TypeOK, PushCommand
<1>l. softLimit' = softLimit
  BY DEF PushCommand
<1>p. Len(Past) = currentIndex /\ Past \in Seq(Commands) /\ Past' \in Seq(Commands)
  BY <1>v DEF ViewsMatch
<1>e. \A i \in 1 .. currentIndex : Past[i] = commands[i - 1] /\ i - 1 \in Slots
  <2>1. \A i \in 1 .. currentIndex : i - 1 \in Slots
    BY <1>t, HardLimitAssumption DEF Slots
  <2> QED BY <1>v, <2>1 DEF ViewsMatch
<1>1. ASSUME PushOverTail(c) \/ PushOnTop(c)
      PROVE  /\ currentIndex' = currentIndex + 1 /\ numCommands' = currentIndex + 1
             /\ currentIndex \in Slots /\ currentIndex # softLimit
             /\ commands'[currentIndex] = c
             /\ \A i \in Slots : i < currentIndex => commands'[i] = commands[i]
  BY <1>1, <1>t, HardLimitAssumption DEF PushOverTail, PushOnTop, Slots, Shape, TypeOK
<1>2. ASSUME PushOverOldest(c)
      PROVE  /\ currentIndex' = currentIndex /\ numCommands' = currentIndex
             /\ currentIndex = softLimit
             /\ currentIndex - 1 \in Slots /\ commands'[currentIndex - 1] = c
             /\ \A i \in Slots : i < currentIndex - 1 => commands'[i] = commands[i + 1]
  BY <1>2, <1>t, HardLimitAssumption DEF PushOverOldest, Slots, Shape, TypeOK
<1>3. Future' = <<>>
  <2>1. numCommands' = currentIndex'
    BY <1>1, <1>2 DEF PushCommand
  <2>2. Future' \in Seq(Commands) /\ Len(Future') = numCommands' - currentIndex'
    BY <1>v DEF ViewsMatch
  <2>3. numCommands' - currentIndex' = 0
    <3>1. numCommands' \in Nat
      BY <1>v DEF ViewsMatch
    <3>2. \A x \in Nat : x - x = 0
      OBVIOUS
    <3> QED BY ONLY <2>1, <3>1, <3>2, Zenon
  <2> QED BY <2>2, <2>3, EmptySeq
<1>4. CASE PushOverTail(c) \/ PushOnTop(c)
  <2>1. Len(Past') = currentIndex + 1
    BY <1>v, <1>1, <1>4 DEF ViewsMatch
  <2>2. Past'[currentIndex + 1] = c
    BY SMTT(30), <1>v, <1>t, <1>1, <1>4 DEF ViewsMatch
  <2>3. ASSUME NEW i \in 1 .. currentIndex PROVE Past'[i] = Past[i]
    <3>1. i - 1 \in Slots /\ i - 1 < currentIndex /\ i \in 1 .. currentIndex + 1
      BY <1>e, <1>t
    <3>2. Past'[i] = commands'[i - 1]
      BY <1>v, <1>1, <1>4, <3>1 DEF ViewsMatch
    <3> QED BY <1>e, <1>1, <1>4, <3>1, <3>2
  <2>4. Appended(Past, Past', c)
    BY <1>p, <2>1, <2>2, <2>3 DEF Appended
  <2>5. Past' = Append(Past, c)
    BY <2>4, AppendByElements
  <2>6. Len(Past) # softLimit
    BY <1>p, <1>1, <1>4
  <2> QED BY <1>t, <1>l, <1>3, <2>5, <2>6, HistorySteps
<1>5. CASE PushOverOldest(c)
  <2>1. Len(Past') = currentIndex
    BY <1>v, <1>2, <1>5 DEF ViewsMatch
  <2>2. Past'[currentIndex] = c
    <3>1. currentIndex \in 1 .. currentIndex
      BY ONLY <1>t, <1>2, <1>5
    <3> QED BY <1>v, <1>2, <1>5, <3>1 DEF ViewsMatch
  <2>3. ASSUME NEW i \in 1 .. currentIndex - 1 PROVE Past'[i] = Past[i + 1]
    <3>1. /\ i - 1 \in Slots /\ i - 1 < currentIndex - 1 /\ i \in 1 .. currentIndex
          /\ i + 1 \in 1 .. currentIndex /\ (i + 1) - 1 = (i - 1) + 1
      BY <1>e, <1>t
    <3>2. Past'[i] = commands'[i - 1]
      BY <1>v, <1>2, <1>5, <3>1 DEF ViewsMatch
    <3>3. commands'[i - 1] = commands[(i - 1) + 1]
      BY <1>2, <1>5, <3>1
    <3> QED BY <1>e, <3>1, <3>2, <3>3
  <2>4. Past # <<>>
    BY <1>p, <1>t, <1>2, <1>5
  <2>5. Slid(Past, Past', c)
    BY <1>p, <2>1, <2>2, <2>3, <2>4 DEF Slid
  <2>6. Past' = Append(Tail(Past), c)
    BY <2>5, SlideByElements
  <2>7. Len(Past) = softLimit
    BY <1>p, <1>2, <1>5
  <2> QED BY <1>t, <1>l, <1>3, <2>6, <2>7, HistorySteps
<1> QED BY <1>4, <1>5 DEF PushCommand

(* Clear, destroy and create leave an empty history.                       *)
LEMMA EmptyIsForget ==
  ASSUME ViewsMatch', numCommands' = 0, softLimit' \in Nat
  PROVE  History!Next
<1>1. (ViewsMatch /\ numCommands = 0 => Past = <<>> /\ Future = <<>>)'
  BY EmptyViews, PTL
<1> QED BY <1>1, HistorySteps

(* Undo, redo and jumps move the cursor over slots that stay as they are.   *)
LEMMA CursorSteps ==
  ASSUME Shape, ViewsMatch, ViewsMatch',
         Undo \/ Redo \/ \E value \in 0 .. HardLimit : SetOffset(value)
  PROVE  History!Next
<1>t. numCommands \in Nat /\ currentIndex \in 0 .. numCommands
  BY DEF Shape, TypeOK
<1>1. numCommands' = numCommands /\ commands' = commands /\ softLimit' = softLimit
  BY DEF Undo, Redo, SetOffset
<1>2. currentIndex # currentIndex'
  <2>1. CASE Undo
    BY <1>t, <2>1 DEF Undo
  <2>2. CASE Redo
    BY <1>t, <2>2 DEF Redo
  <2>3. ASSUME NEW value \in 0 .. HardLimit, SetOffset(value) PROVE currentIndex # currentIndex'
    BY <1>t, <2>3, HardLimitAssumption DEF SetOffset
  <2> QED BY <2>1, <2>2, <2>3
<1> QED BY <1>1, <1>2, CursorMoves

(* A new limit moves nothing, and the kept commands fit in it.              *)
LEMMA LimitIsChangeLimit ==
  ASSUME Shape, ViewsMatch, NEW value \in 1 .. HardLimit, SetSoftLimit(value)
  PROVE  History!Next
<1>t. /\ numCommands \in Nat /\ currentIndex \in 0 .. numCommands /\ numCommands <= softLimit
      /\ softLimit <= HardLimit /\ softLimit \in Nat
  BY HardLimitAssumption DEF Shape, TypeOK
<1>1. /\ numCommands' = numCommands /\ currentIndex' = currentIndex
      /\ softLimit' = value - 1 /\ numCommands <= value - 1 /\ value > 0
  BY DEF SetSoftLimit
<1>2. ASSUME NEW i \in Slots, i < numCommands PROVE commands'[i] = commands[i]
  BY <1>t, <1>2, HardLimitAssumption DEF SetSoftLimit, Slots
<1>3. Past' = Past
  <2>1. \A i \in 1 .. currentIndex : i - 1 \in Slots /\ i - 1 < numCommands
    BY <1>t, HardLimitAssumption DEF Slots
  <2>2. \A i \in 1 .. currentIndex : commands'[i - 1] = commands[i - 1]
    BY <2>1, <1>2
  <2> QED BY <1>1, <2>2 DEF Past
<1>4. Future' = Future
  <2>1. \A i \in 1 .. numCommands - currentIndex :
          currentIndex + i - 1 \in Slots /\ currentIndex + i - 1 < numCommands
    BY <1>t, HardLimitAssumption DEF Slots
  <2>2. \A i \in 1 .. numCommands - currentIndex :
          commands'[currentIndex + i - 1] = commands[currentIndex + i - 1]
    BY <2>1, <1>2
  <2> QED BY <1>1, <2>2 DEF Future
<1>5. softLimit' \in Nat
  BY ONLY <1>1, value \in 1 .. HardLimit, HardLimitAssumption
<1>6. Len(Past) + Len(Future) <= softLimit'
  <2>1. Len(Past) = currentIndex /\ Len(Future) = numCommands - currentIndex
    BY DEF ViewsMatch
  <2>2. currentIndex + (numCommands - currentIndex) = numCommands
    BY ONLY <1>t
  <2> QED BY <1>1, <2>1, <2>2
<1> QED BY <1>3, <1>4, <1>5, <1>6, HistorySteps

LEMMA StepRefines == Shape /\ Shape' /\ [Next]_vars => [History!Next]_(History!vars)
<1> SUFFICES ASSUME Shape, Shape', [Next]_vars PROVE [History!Next]_(History!vars)
  OBVIOUS
<1>v. ViewsMatch /\ ViewsMatch'
  BY Views, PTL
<1>n. softLimit \in Nat /\ softLimit' \in Nat
  BY HardLimitAssumption DEF Shape, TypeOK
<1>1. ASSUME NEW limit \in 1 .. HardLimit, Create(limit) PROVE History!Next
  BY <1>1, <1>v, <1>n, EmptyIsForget DEF Create
<1>2. ASSUME NEW c \in Commands, NEW d \in Documents, PushCommand(c, d) PROVE History!Next
  BY <1>2, PushIsDo
<1>3. CASE Undo
  BY <1>3, <1>v, CursorSteps
<1>4. CASE Redo
  BY <1>4, <1>v, CursorSteps
<1>5. ASSUME NEW value \in 0 .. HardLimit, SetOffset(value) PROVE History!Next
  BY <1>5, <1>v, CursorSteps
<1>6. CASE Clear
  BY <1>6, <1>v, <1>n, EmptyIsForget DEF Clear
<1>7. ASSUME NEW value \in 1 .. HardLimit, SetSoftLimit(value) PROVE History!Next
  BY <1>7, <1>v, LimitIsChangeLimit
<1>8. CASE Destroy
  BY <1>8, <1>v, <1>n, EmptyIsForget DEF Destroy
<1>9. CASE UNCHANGED vars
  BY <1>9 DEF vars, stackVars, History!vars
<1> QED BY <1>1, <1>2, <1>3, <1>4, <1>5, <1>6, <1>7, <1>8, <1>9 DEF Next

LEMMA InitRefines == Init => History!Init
<1> SUFFICES ASSUME Init PROVE History!Init
  OBVIOUS
<1>1. ViewsMatch
  BY Views, InitShape
<1>2. Past = <<>> /\ Future = <<>>
  BY <1>1, EmptyViews DEF Init
<1> QED BY <1>2, HardLimitAssumption DEF Init, History!Init, Past, Future

(* undo.c keeps the history docs/menu.rst promises: the last softLimit       *)
(* commands can be undone in reverse order and redone in order, through     *)
(* every truncation, eviction, jump, clear and change of the limit.         *)
THEOREM ImplementsHistoryHolds == Spec => ImplementsHistory
<1>1. Spec => []Shape
  BY TypeCorrectness, OwnershipHolds, PTL DEF Shape
<1> QED BY <1>1, InitRefines, StepRefines, PTL DEF Spec, ImplementsHistory, History!Spec
=============================================================================
