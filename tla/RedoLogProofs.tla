---------------------------- MODULE RedoLogProofs ----------------------------
(***************************************************************************)
(* What the redo log and the recovery keep for any commands, limits,        *)
(* operations, logs and crashes, and what the recovery from a first crash   *)
(* brings back.                                                            *)
(*                                                                         *)
(* A recovery pushes what the log says was redone; that this never pushes a *)
(* command that is already done is a property of the log: there is a        *)
(* history of every owner that the records spell out, and the replayed      *)
(* stacks follow it, however many records they miss.                       *)
(*                                                                         *)
(* Up to the first crash the log also tells where the project is: replayed  *)
(* from the start, its records give a project with the same document and    *)
(* the same commands done; replayed from the last save point, on whatever   *)
(* was saved there, they give what is done to camera and light.            *)
(***************************************************************************)
EXTENDS RedoLog, UndoStacksProofs, WellFoundedInduction

CommandsOf(o) == {c \in Commands : OwnerOf(c) = o}

(* A stack whose commands differ, of which those that are done, and no      *)
(* others, are in the document.                                            *)
SoundStack(s, o, doc) ==
  /\ s \in StackOf(CommandsOf(o))
  /\ \A i, j \in 1 .. Len(s.commands) : s.commands[i] = s.commands[j] => i = j
  /\ \A i \in 1 .. Len(s.commands) : i <= s.current <=> s.commands[i] \in doc

ProjectType ==
  [loaded : BOOLEAN, doc : SUBSET Commands, resolves : BOOLEAN, stack : [Owners -> StackOf(Commands)]]

Sound(p) ==
  /\ p \in ProjectType
  /\ \A o \in Owners : SoundStack(p.stack[o], o, p.doc)

-----------------------------------------------------------------------------
(* Stacks.                                                                 *)

LEMMA PushedParts ==
  ASSUME NEW S, NEW s \in StackOf(S), NEW c \in S
  PROVE  LET k == IF s.current = Limit THEN 1 ELSE 0
             t == Pushed(s, c)
         IN /\ t.current = s.current + 1 - k
            /\ Len(t.commands) = t.current
            /\ \A i \in 1 .. t.current - 1 : t.commands[i] = s.commands[i + k]
            /\ t.commands[t.current] = c
            /\ t.current \in Nat /\ t.current >= 1
<1> DEFINE kept == SubSeq(s.commands, 1, s.current)
<1>1. /\ s.current \in Nat /\ s.commands \in Seq(S) /\ s.current <= Len(s.commands)
      /\ Limit \in Nat \ {0} /\ Len(s.commands) \in Nat
  BY PartsOfStack, LimitAssumption
<1>2. /\ kept \in Seq(S) /\ Len(kept) = s.current
      /\ \A i \in 1 .. s.current : kept[i] = s.commands[i]
  <2>1. \A i \in 1 .. s.current : s.commands[i] \in S
    BY <1>1, ElementOfSeq
  <2> QED BY <1>1, <2>1, SubSeqProperties, 1 \in Int
<1>3. CASE s.current = Limit
  <2>1. Pushed(s, c).commands = Append(Tail(kept), c) /\ Pushed(s, c).current = s.current
    BY SMTT(30), <1>3, PartsOfStack DEF Pushed
  <2> HIDE DEF kept
  <2>2. /\ Tail(kept) \in Seq(S) /\ Len(Tail(kept)) = s.current - 1
        /\ \A i \in 1 .. s.current - 1 : Tail(kept)[i] = s.commands[i + 1]
    <3>1. kept # <<>>
      BY <1>1, <1>2, <1>3
    <3>2. /\ Tail(kept) \in Seq(S) /\ Len(Tail(kept)) = s.current - 1
          /\ \A i \in 1 .. s.current - 1 : Tail(kept)[i] = kept[i + 1]
      BY <1>2, <3>1, HeadTailProperties
    <3> QED BY <1>1, <1>2, <3>2
  <2>3. /\ Len(Append(Tail(kept), c)) = s.current
        /\ \A i \in 1 .. s.current - 1 : Append(Tail(kept), c)[i] = s.commands[i + 1]
        /\ Append(Tail(kept), c)[s.current] = c
    BY <1>1, <1>3, <2>2, AppendProperties
  <2> DEFINE t == Pushed(s, c)
  <2>4. /\ t.current = s.current + 1 - 1 /\ Len(t.commands) = t.current
        /\ t.commands[t.current] = c /\ t.current \in Nat /\ t.current >= 1
    BY <1>1, <1>3, <2>1, <2>3
  <2>5. \A i \in 1 .. t.current - 1 : t.commands[i] = s.commands[i + 1]
    BY <2>1, <2>3
  <2> HIDE DEF t
  <2> QED BY <1>3, <2>4, <2>5 DEF t
<1>4. CASE s.current # Limit
  <2>1. Pushed(s, c).commands = Append(kept, c) /\ Pushed(s, c).current = s.current + 1
    BY <1>4 DEF Pushed
  <2> HIDE DEF kept
  <2>2. /\ Len(Append(kept, c)) = s.current + 1
        /\ \A i \in 1 .. s.current : Append(kept, c)[i] = s.commands[i]
        /\ Append(kept, c)[s.current + 1] = c
    BY <1>1, <1>2, AppendProperties
  <2> QED BY <1>1, <1>4, <2>1, <2>2
<1> QED BY <1>3, <1>4

LEMMA OwnersDiffer ==
  ASSUME NEW o \in Owners, NEW q \in Owners, NEW c \in CommandsOf(o), c \in CommandsOf(q)
  PROVE  o = q
BY DEF CommandsOf

LEMMA EmptyIsSound ==
  ASSUME NEW o, NEW doc PROVE SoundStack(EmptyStack, o, doc)
BY EmptyIsStack DEF SoundStack, EmptyStack

(* The command of another owner comes into the document or leaves it.       *)
LEMMA OtherIsSound ==
  ASSUME NEW o \in Owners, NEW q \in Owners, o # q, NEW s, NEW doc, SoundStack(s, o, doc),
         NEW c \in CommandsOf(q)
  PROVE  SoundStack(s, o, doc \cup {c}) /\ SoundStack(s, o, doc \ {c})
<1>1. \A i \in 1 .. Len(s.commands) : s.commands[i] # c
  BY OwnersDiffer, PartsOfStack DEF SoundStack
<1> QED BY <1>1 DEF SoundStack

LEMMA PushIsSound ==
  ASSUME NEW o, NEW s, NEW doc, SoundStack(s, o, doc), NEW c \in CommandsOf(o),
         \A i \in 1 .. s.current : s.commands[i] # c
  PROVE  SoundStack(Pushed(s, c), o, doc \cup {c})
<1> DEFINE k == IF s.current = Limit THEN 1 ELSE 0
           t == Pushed(s, c)
<1>1. /\ s.current \in Nat /\ s.current <= Len(s.commands) /\ Len(s.commands) \in Nat
      /\ Limit \in Nat \ {0}
  BY PartsOfStack, LimitAssumption DEF SoundStack
<1>2. /\ t.current = s.current + 1 - k
      /\ Len(t.commands) = t.current
      /\ \A i \in 1 .. t.current - 1 : t.commands[i] = s.commands[i + k]
      /\ t.commands[t.current] = c
      /\ t.current \in Nat /\ t.current >= 1
  BY PushedParts DEF SoundStack
<1>3. t \in StackOf(CommandsOf(o))
  BY PushKeepsStack DEF SoundStack
<1>4. k \in {0, 1}
  OBVIOUS
<1> HIDE DEF k, t
<1>5. \A i \in 1 .. t.current - 1 : i + k \in 1 .. s.current
  BY <1>1, <1>2, <1>4
<1>6. \A i, j \in 1 .. Len(t.commands) : t.commands[i] = t.commands[j] => i = j
  <2> SUFFICES ASSUME NEW i \in 1 .. t.current, NEW j \in 1 .. t.current,
                      t.commands[i] = t.commands[j], i # j
               PROVE  FALSE
    BY <1>2
  <2>1. CASE i # t.current /\ j # t.current
    <3>1. i + k \in 1 .. Len(s.commands) /\ j + k \in 1 .. Len(s.commands)
      BY <1>1, <1>2, <1>5, <2>1
    <3>2. s.commands[i + k] = s.commands[j + k]
      BY <1>2, <2>1
    <3>3. i + k = j + k
      BY <3>1, <3>2 DEF SoundStack
    <3> QED BY <3>3, <1>4
  <2>2. CASE i = t.current
    BY <1>2, <1>5, <2>2
  <2>3. CASE j = t.current
    BY <1>2, <1>5, <2>3
  <2> QED BY <2>1, <2>2, <2>3
<1>7. \A i \in 1 .. Len(t.commands) : i <= t.current /\ t.commands[i] \in doc \cup {c}
  <2> TAKE i \in 1 .. Len(t.commands)
  <2>1. CASE i = t.current
    BY <1>2, <2>1
  <2>2. CASE i # t.current
    <3>1. i + k \in 1 .. s.current /\ t.commands[i] = s.commands[i + k]
      BY <1>2, <1>5, <2>2
    <3>2. i + k \in 1 .. Len(s.commands) /\ i + k <= s.current
      BY <3>1, <1>1
    <3>3. s.commands[i + k] \in doc
      BY <3>2 DEF SoundStack
    <3> QED BY <1>2, <3>1, <3>3
  <2> QED BY <2>1, <2>2
<1> QED BY <1>3, <1>6, <1>7 DEF SoundStack, t

LEMMA UndoIsSound ==
  ASSUME NEW o, NEW s, NEW doc, SoundStack(s, o, doc), CanUndo(s)
  PROVE  SoundStack(Undone(s), o, doc \ {Below(s)}) /\ Below(s) \in CommandsOf(o)
<1>1. /\ s.current \in Nat /\ s.current <= Len(s.commands) /\ Len(s.commands) \in Nat
      /\ s.current >= 1
  BY PartsOfStack DEF SoundStack, CanUndo
<1>2. Undone(s) \in StackOf(CommandsOf(o)) /\ Below(s) \in CommandsOf(o)
  BY UndoKeepsStack DEF SoundStack
<1>3. Undone(s).commands = s.commands /\ Undone(s).current = s.current - 1
  BY PartsOfStack DEF SoundStack, Undone
<1>4. \A i \in 1 .. Len(s.commands) : s.commands[i] = Below(s) => i = s.current
  BY <1>1 DEF SoundStack, Below
<1>5. ASSUME NEW i \in 1 .. Len(s.commands)
      PROVE  i <= s.current - 1 <=> s.commands[i] \in doc \ {Below(s)}
  <2>1. i <= s.current <=> s.commands[i] \in doc
    BY DEF SoundStack
  <2>2. i = s.current => s.commands[i] = Below(s)
    BY DEF Below
  <2> QED BY <1>1, <1>4, <2>1, <2>2
<1> QED BY <1>2, <1>3, <1>5 DEF SoundStack

LEMMA RedoIsSound ==
  ASSUME NEW o, NEW s, NEW doc, SoundStack(s, o, doc), CanRedo(s)
  PROVE  /\ SoundStack(Redone(s), o, doc \cup {Above(s)})
         /\ Above(s) \in CommandsOf(o) /\ Above(s) \notin doc
<1>1. /\ s.current \in Nat /\ s.current < Len(s.commands) /\ Len(s.commands) \in Nat
  BY PartsOfStack DEF SoundStack, CanRedo
<1>2. Redone(s) \in StackOf(CommandsOf(o)) /\ Above(s) \in CommandsOf(o)
  BY RedoKeepsStack DEF SoundStack
<1>3. Redone(s).commands = s.commands /\ Redone(s).current = s.current + 1
  BY PartsOfStack DEF SoundStack, Redone
<1>4. \A i \in 1 .. Len(s.commands) : s.commands[i] = Above(s) => i = s.current + 1
  BY <1>1 DEF SoundStack, Above
<1>5. ASSUME NEW i \in 1 .. Len(s.commands)
      PROVE  i <= s.current + 1 <=> s.commands[i] \in doc \cup {Above(s)}
  <2>1. i <= s.current <=> s.commands[i] \in doc
    BY DEF SoundStack
  <2>2. i = s.current + 1 => s.commands[i] = Above(s)
    BY DEF Above
  <2> QED BY <1>1, <1>4, <2>1, <2>2
<1>6. Above(s) \notin doc
  BY <1>1 DEF SoundStack, Above
<1> QED BY <1>2, <1>3, <1>5, <1>6 DEF SoundStack

-----------------------------------------------------------------------------
(* Projects.                                                               *)

LEMMA SoundParts ==
  ASSUME NEW p, Sound(p)
  PROVE  /\ p = [loaded |-> p.loaded, doc |-> p.doc, resolves |-> p.resolves, stack |-> p.stack]
         /\ p.loaded \in BOOLEAN /\ p.resolves \in BOOLEAN /\ p.doc \subseteq Commands
         /\ p.stack \in [Owners -> StackOf(Commands)]
         /\ \A o \in Owners : SoundStack(p.stack[o], o, p.doc)
BY DEF Sound, ProjectType

LEMMA StackOfOwner ==
  ASSUME NEW o, NEW s \in StackOf(CommandsOf(o)) PROVE s \in StackOf(Commands)
BY DEF StackOf, CommandsOf

LEMMA NewIsSound == Sound(NewProject)
<1>1. EmptyStack \in StackOf(Commands)
  BY EmptyIsStack
<1>2. NewProject \in ProjectType
  BY <1>1 DEF NewProject, ProjectType
<1>3. \A o \in Owners : NewProject.stack[o] = EmptyStack
  BY DEF NewProject
<1>4. \A o \in Owners : SoundStack(NewProject.stack[o], o, NewProject.doc)
  BY <1>3, EmptyIsSound
<1> QED BY <1>2, <1>4 DEF Sound

(* A stack of a project is replaced and a command of its owner comes into   *)
(* the document or leaves it.                                              *)
WithStack(p, o, s, doc) ==
  [loaded |-> p.loaded, doc |-> doc, resolves |-> p.resolves, stack |-> [p.stack EXCEPT ![o] = s]]

LEMMA StackExcept ==
  ASSUME NEW p, Sound(p), NEW o \in Owners, NEW s, NEW doc
  PROVE  With(p, o, s, doc) = WithStack(p, o, s, doc)
<1> DEFINE q == [p EXCEPT !.stack[o] = s]
<1>1. [p EXCEPT !.stack[o] = s, !.doc = doc] = [q EXCEPT !.doc = doc]
  OBVIOUS
<1>2. q = [loaded |-> p.loaded, doc |-> p.doc, resolves |-> p.resolves,
           stack |-> [p.stack EXCEPT ![o] = s]]
  BY DEF Sound, ProjectType
<1> HIDE DEF q
<1>3. [q EXCEPT !.doc = doc]
        = [loaded |-> p.loaded, doc |-> doc, resolves |-> p.resolves,
           stack |-> [p.stack EXCEPT ![o] = s]]
  BY <1>2
<1> QED BY <1>1, <1>3 DEF With, WithStack

LEMMA StackReplaced ==
  ASSUME NEW p, Sound(p), NEW o \in Owners, NEW c \in CommandsOf(o),
         NEW doc \in {p.doc \cup {c}, p.doc \ {c}},
         NEW s, SoundStack(s, o, doc)
  PROVE  Sound(WithStack(p, o, s, doc))
<1> DEFINE q == WithStack(p, o, s, doc)
<1>2. s \in StackOf(Commands)
  BY StackOfOwner DEF SoundStack
<1>3. doc \subseteq Commands
  BY SoundParts DEF CommandsOf
<1>4. q \in ProjectType
  BY <1>2, <1>3, SoundParts DEF ProjectType, WithStack
<1>5. ASSUME NEW r \in Owners PROVE SoundStack(q.stack[r], r, q.doc)
  <2>1. CASE r = o
    BY <2>1, SoundParts DEF WithStack
  <2>2. CASE r # o
    <3>1. q.stack[r] = p.stack[r] /\ q.doc = doc
      BY <2>2, SoundParts DEF WithStack
    <3>2. SoundStack(p.stack[r], r, p.doc)
      BY SoundParts
    <3>3. SoundStack(p.stack[r], r, p.doc \cup {c}) /\ SoundStack(p.stack[r], r, p.doc \ {c})
      BY <2>2, <3>2, OtherIsSound
    <3>4. CASE doc = p.doc \cup {c}
      BY <3>1, <3>3, <3>4
    <3>5. CASE doc = p.doc \ {c}
      BY <3>1, <3>3, <3>5
    <3> QED BY <3>4, <3>5
  <2> QED BY <2>1, <2>2
<1> QED BY <1>4, <1>5 DEF Sound

LEMMA PushKeepsSound ==
  ASSUME NEW p, Sound(p), NEW o \in Owners, NEW c \in CommandsOf(o),
         \A i \in 1 .. p.stack[o].current : p.stack[o].commands[i] # c
  PROVE  Sound(Pushed1(p, o, c))
<1> DEFINE s == Pushed(p.stack[o], c)
           doc == p.doc \cup {c}
<1>1. SoundStack(s, o, doc)
  BY SoundParts, PushIsSound
<1>2. Pushed1(p, o, c) = With(p, o, s, doc)
  BY DEF Pushed1
<1>3. doc \in {p.doc \cup {c}, p.doc \ {c}}
  OBVIOUS
<1> HIDE DEF s, doc
<1>4. Sound(WithStack(p, o, s, doc))
  BY <1>1, <1>3, StackReplaced
<1>5. With(p, o, s, doc) = WithStack(p, o, s, doc)
  BY StackExcept
<1> QED BY <1>2, <1>4, <1>5, Zenon

LEMMA UndoKeepsSound ==
  ASSUME NEW p, Sound(p), NEW o \in Owners, CanUndo(p.stack[o])
  PROVE  Sound(Undone1(p, o))
<1> DEFINE s == Undone(p.stack[o])
           c == Below(p.stack[o])
           doc == p.doc \ {c}
<1>1. SoundStack(s, o, doc) /\ c \in CommandsOf(o)
  BY SoundParts, UndoIsSound
<1>2. Undone1(p, o) = With(p, o, s, doc)
  BY DEF Undone1
<1>3. doc \in {p.doc \cup {c}, p.doc \ {c}}
  OBVIOUS
<1> HIDE DEF s, doc, c
<1>4. Sound(WithStack(p, o, s, doc))
  BY <1>1, <1>3, StackReplaced
<1>5. With(p, o, s, doc) = WithStack(p, o, s, doc)
  BY StackExcept
<1> QED BY <1>2, <1>4, <1>5, Zenon

LEMMA RedoKeepsSound ==
  ASSUME NEW p, Sound(p), NEW o \in Owners, CanRedo(p.stack[o])
  PROVE  /\ Sound(Redone1(p, o))
         /\ Above(p.stack[o]) \in CommandsOf(o) /\ Above(p.stack[o]) \notin p.doc
<1> DEFINE s == Redone(p.stack[o])
           c == Above(p.stack[o])
           doc == p.doc \cup {c}
<1>1. SoundStack(s, o, doc) /\ c \in CommandsOf(o) /\ c \notin p.doc
  BY SoundParts, RedoIsSound
<1>2. Redone1(p, o) = With(p, o, s, doc)
  BY DEF Redone1
<1>3. doc \in {p.doc \cup {c}, p.doc \ {c}}
  OBVIOUS
<1> HIDE DEF s, doc, c
<1>4. Sound(WithStack(p, o, s, doc))
  BY <1>1, <1>3, StackReplaced
<1>5. With(p, o, s, doc) = WithStack(p, o, s, doc)
  BY StackExcept
<1>6. Sound(Redone1(p, o))
  BY <1>2, <1>4, <1>5, Zenon
<1> QED BY <1>1, <1>6 DEF c

-----------------------------------------------------------------------------
(* Histories: what the records of a log did, without a limit.               *)

(* A sequence of different commands of an owner.                            *)
HistoryOf(o) ==
  {h \in Seq(CommandsOf(o)) : \A m, n \in 1 .. Len(h) : h[m] = h[n] => m = n}

(* What is done on a stack comes in the history, in its order.              *)
Follows(s, h) ==
  /\ \A j \in 1 .. s.current : \E m \in 1 .. Len(h) : h[m] = s.commands[j]
  /\ \A j, k \in 1 .. s.current : \A m, n \in 1 .. Len(h) :
       j < k /\ h[m] = s.commands[j] /\ h[n] = s.commands[k] => m < n

Popped(h) == SubSeq(h, 1, Len(h) - 1)

LEMMA PoppedParts ==
  ASSUME NEW o, NEW h \in HistoryOf(o), h # <<>>
  PROVE  /\ Popped(h) \in HistoryOf(o) /\ Len(Popped(h)) = Len(h) - 1
         /\ \A i \in 1 .. Len(h) - 1 : Popped(h)[i] = h[i]
         /\ Len(h) \in Nat /\ Len(h) >= 1
<1>1. h \in Seq(CommandsOf(o)) /\ Len(h) \in Nat /\ Len(h) >= 1
  BY EmptySeq DEF HistoryOf
<1>2. \A i \in 1 .. Len(h) - 1 : h[i] \in CommandsOf(o)
  BY <1>1, ElementOfSeq
<1>3. /\ Popped(h) \in Seq(CommandsOf(o)) /\ Len(Popped(h)) = Len(h) - 1
      /\ \A i \in 1 .. Len(h) - 1 : Popped(h)[i] = h[i]
  <2> DEFINE l == Len(h) - 1
  <2>1. l \in Nat /\ 1 \in Int /\ l \in Int
    BY <1>1
  <2>2. \A i \in 1 .. l : h[i] \in CommandsOf(o)
    BY <1>2
  <2> HIDE DEF l
  <2>3. /\ SubSeq(h, 1, l) \in Seq(CommandsOf(o))
        /\ Len(SubSeq(h, 1, l)) = IF 1 <= l THEN l - 1 + 1 ELSE 0
        /\ \A i \in 1 .. l - 1 + 1 : SubSeq(h, 1, l)[i] = h[1 + i - 1]
    BY <2>1, <2>2, SubSeqProperties
  <2>4. Len(SubSeq(h, 1, l)) = l /\ \A i \in 1 .. l : SubSeq(h, 1, l)[i] = h[i]
    BY <2>1, <2>3
  <2> QED BY <2>3, <2>4 DEF Popped, l
<1>4. \A m, n \in 1 .. Len(Popped(h)) : Popped(h)[m] = Popped(h)[n] => m = n
  <2> TAKE m, n \in 1 .. Len(Popped(h))
  <2>1. m \in 1 .. Len(h) /\ n \in 1 .. Len(h) /\ Popped(h)[m] = h[m] /\ Popped(h)[n] = h[n]
    BY <1>1, <1>3
  <2> QED BY <2>1 DEF HistoryOf
<1> QED BY <1>1, <1>3, <1>4 DEF HistoryOf

LEMMA AppendedParts ==
  ASSUME NEW o, NEW h \in HistoryOf(o), NEW c \in CommandsOf(o),
         \A m \in 1 .. Len(h) : h[m] # c
  PROVE  /\ Append(h, c) \in HistoryOf(o) /\ Len(Append(h, c)) = Len(h) + 1
         /\ \A i \in 1 .. Len(h) : Append(h, c)[i] = h[i]
         /\ Append(h, c)[Len(h) + 1] = c
         /\ Len(h) \in Nat
<1>1. h \in Seq(CommandsOf(o)) /\ Len(h) \in Nat
  BY DEF HistoryOf
<1>2. /\ Append(h, c) \in Seq(CommandsOf(o)) /\ Len(Append(h, c)) = Len(h) + 1
      /\ \A i \in 1 .. Len(h) : Append(h, c)[i] = h[i]
      /\ Append(h, c)[Len(h) + 1] = c
  BY <1>1, AppendProperties
<1>3. \A m, n \in 1 .. Len(Append(h, c)) : Append(h, c)[m] = Append(h, c)[n] => m = n
  BY <1>1, <1>2 DEF HistoryOf
<1> QED BY <1>1, <1>2, <1>3 DEF HistoryOf

LEMMA FollowsFromEmpty ==
  ASSUME NEW s, s.current = 0, NEW h PROVE Follows(s, h)
BY DEF Follows

(* The history grows by a command that is, or is not, pushed as well.       *)
LEMMA FollowsGrowing ==
  ASSUME NEW o, NEW s \in StackOf(CommandsOf(o)), NEW h \in HistoryOf(o), Follows(s, h),
         NEW c \in CommandsOf(o), \A m \in 1 .. Len(h) : h[m] # c
  PROVE  Follows(s, Append(h, c)) /\ Follows(Pushed(s, c), Append(h, c))
<1> DEFINE g == Append(h, c)
           t == Pushed(s, c)
           k == IF s.current = Limit THEN 1 ELSE 0
<1>1. /\ Len(g) = Len(h) + 1 /\ g[Len(h) + 1] = c /\ Len(h) \in Nat
      /\ \A i \in 1 .. Len(h) : g[i] = h[i]
  BY AppendedParts
<1>2. /\ t.current = s.current + 1 - k
      /\ \A i \in 1 .. t.current - 1 : t.commands[i] = s.commands[i + k]
      /\ t.commands[t.current] = c
      /\ t.current \in Nat /\ t.current >= 1
  BY PushedParts
<1>3. s.current \in Nat /\ k \in {0, 1}
  BY PartsOfStack
<1> HIDE DEF g, t, k
<1>4. Follows(s, g)
  <2>1. \A j \in 1 .. s.current : \E m \in 1 .. Len(h) : h[m] = s.commands[j]
    BY DEF Follows
  <2>2. \A j \in 1 .. s.current : \E m \in 1 .. Len(g) : g[m] = s.commands[j]
    BY <1>1, <2>1
  <2>3. \A j \in 1 .. s.current : s.commands[j] # c
    BY <2>1
  <2>4. \A j \in 1 .. s.current : \A m \in 1 .. Len(g) :
          g[m] = s.commands[j] => m \in 1 .. Len(h) /\ h[m] = s.commands[j]
    BY <1>1, <2>3
  <2> QED BY <2>2, <2>4 DEF Follows
<1>5. Follows(t, g)
  <2>1. \A j \in 1 .. t.current - 1 : j + k \in 1 .. s.current
    BY <1>2, <1>3
  <2>2. \A j \in 1 .. t.current : \E m \in 1 .. Len(g) : g[m] = t.commands[j]
    <3> TAKE j \in 1 .. t.current
    <3>1. CASE j = t.current
      BY <1>1, <1>2, <3>1
    <3>2. CASE j # t.current
      <4>1. j + k \in 1 .. s.current /\ t.commands[j] = s.commands[j + k]
        BY <1>2, <2>1, <3>2
      <4> QED BY <1>4, <4>1 DEF Follows
    <3> QED BY <3>1, <3>2
  <2>3. ASSUME NEW j \in 1 .. t.current, NEW i \in 1 .. t.current,
               NEW m \in 1 .. Len(g), NEW n \in 1 .. Len(g),
               j < i, g[m] = t.commands[j], g[n] = t.commands[i]
        PROVE  m < n
    <3>1. j + k \in 1 .. s.current /\ t.commands[j] = s.commands[j + k]
      BY <1>2, <2>1, <2>3
    <3>2. CASE i = t.current
      <4>1. m \in 1 .. Len(h)
        <5>1. PICK l \in 1 .. Len(h) : h[l] = s.commands[j + k]
          BY <3>1 DEF Follows
        <5>2. g[m] # c
          BY <2>3, <3>1, <5>1
        <5> QED BY <1>1, <5>2
      <4>2. n = Len(h) + 1
        BY <1>1, <1>2, <2>3, <3>2
      <4> QED BY <1>1, <4>1, <4>2
    <3>3. CASE i # t.current
      <4>1. i + k \in 1 .. s.current /\ t.commands[i] = s.commands[i + k] /\ j + k < i + k
        BY SMTT(30), <1>2, <1>3, <2>1, <2>3, <3>3
      <4> QED BY <1>4, <2>3, <3>1, <4>1 DEF Follows
    <3> QED BY <3>2, <3>3
  <2> QED BY <2>2, <2>3 DEF Follows
<1> QED BY <1>4, <1>5 DEF g, t

(* A command is undone on the stack, if there is one, and in the history    *)
(* or only on the stack.                                                   *)
LEMMA FollowsUndo ==
  ASSUME NEW o, NEW s \in StackOf(CommandsOf(o)), NEW h \in HistoryOf(o), h # <<>>, Follows(s, h)
  PROVE  /\ CanUndo(s) => Follows(Undone(s), h) /\ Follows(Undone(s), Popped(h))
         /\ ~CanUndo(s) => Follows(s, Popped(h))
<1>1. s.current \in Nat
  BY PartsOfStack
<1>2. CASE ~CanUndo(s)
  BY <1>1, <1>2, FollowsFromEmpty DEF CanUndo
<1>3. CASE CanUndo(s)
  <2> DEFINE t == Undone(s)
  <2>1. t.commands = s.commands /\ t.current = s.current - 1 /\ s.current >= 1
    BY <1>1, <1>3, PartsOfStack DEF Undone, CanUndo
  <2> HIDE DEF t
  <2>2. Follows(t, h)
    <3>1. \A j \in 1 .. t.current : j \in 1 .. s.current
      BY <1>1, <2>1
    <3> QED BY <2>1, <3>1 DEF Follows
  <2>3. /\ Len(Popped(h)) = Len(h) - 1 /\ Len(h) \in Nat
        /\ \A i \in 1 .. Len(h) - 1 : Popped(h)[i] = h[i]
    BY PoppedParts
  <2>4. PICK n \in 1 .. Len(h) : h[n] = s.commands[s.current]
    BY <1>1, <2>1 DEF Follows
  <2>5. ASSUME NEW j \in 1 .. t.current
        PROVE  \E m \in 1 .. Len(Popped(h)) : Popped(h)[m] = t.commands[j]
    <3>1. PICK m \in 1 .. Len(h) : h[m] = t.commands[j]
      BY <2>2 DEF Follows
    <3>2. j \in 1 .. s.current /\ s.current \in 1 .. s.current /\ j < s.current
      BY <1>1, <2>1
    <3>3. m < n
      BY <2>1, <2>4, <3>1, <3>2 DEF Follows
    <3>4. m \in 1 .. Len(Popped(h))
      BY <2>3, <3>3
    <3> QED BY <2>3, <3>1, <3>4
  <2>6. \A m \in 1 .. Len(Popped(h)) : m \in 1 .. Len(h) /\ Popped(h)[m] = h[m]
    BY <2>3
  <2>7. Follows(t, Popped(h))
    BY <2>2, <2>5, <2>6 DEF Follows
  <2> QED BY <1>3, <2>2, <2>7 DEF t
<1> QED BY <1>2, <1>3

-----------------------------------------------------------------------------
(* Logs.                                                                   *)

Types == {"load", "redo", "undo", "save", "none"}

Entry == {r \in [type : Types, of : Commands \cup Owners \cup {"none"}, seq : Nat] :
            /\ r.type = "redo" => r.of \in Commands
            /\ r.type = "undo" => r.of \in Owners}

Histories == {h \in [Owners -> Seq(Commands)] : \A o \in Owners : h[o] \in HistoryOf(o)}

(* What a record makes of a history.  An undo of model editing is recorded  *)
(* as one of the active model, whose history it leaves alone.               *)
StepOf(r, h, g) ==
  \/ /\ r.type = "redo"
     /\ \A m \in 1 .. Len(h[OwnerOf(r.of)]) : h[OwnerOf(r.of)][m] # r.of
     /\ g = [h EXCEPT ![OwnerOf(r.of)] = Append(h[OwnerOf(r.of)], r.of)]
  \/ r.type # "redo" /\ g = h
  \/ r.type = "undo" /\ h[r.of] # <<>> /\ g = [h EXCEPT ![r.of] = Popped(h[r.of])]

Ran(rs, f) ==
  /\ f \in [0 .. Len(rs) -> Histories]
  /\ \A i \in 1 .. Len(rs) : StepOf(rs[i], f[i - 1], f[i])

LEMMA OwnerFacts ==
  /\ Owners = {"model", "project"}
  /\ \A c \in Commands : OwnerOf(c) \in Owners /\ c \in CommandsOf(OwnerOf(c))
BY DEF Owners, OwnerOf, CommandsOf

LEMMA HistoryReplaced ==
  ASSUME NEW h \in Histories, NEW o \in Owners, NEW k \in HistoryOf(o)
  PROVE  [h EXCEPT ![o] = k] \in Histories
<1>1. CommandsOf(o) \subseteq Commands
  BY DEF CommandsOf
<1>2. k \in Seq(Commands)
  BY <1>1, SeqMonotonic DEF HistoryOf
<1> QED BY <1>2 DEF Histories

LEMMA StepIsHistory ==
  ASSUME NEW r \in Entry, NEW h \in Histories, NEW g, StepOf(r, h, g)
  PROVE  g \in Histories
<1>1. CASE /\ r.type = "redo"
           /\ \A m \in 1 .. Len(h[OwnerOf(r.of)]) : h[OwnerOf(r.of)][m] # r.of
           /\ g = [h EXCEPT ![OwnerOf(r.of)] = Append(h[OwnerOf(r.of)], r.of)]
  <2> DEFINE o == OwnerOf(r.of)
  <2>1. o \in Owners /\ r.of \in CommandsOf(o)
    BY <1>1, OwnerFacts DEF Entry
  <2>2. h[o] \in HistoryOf(o)
    BY <2>1 DEF Histories
  <2> HIDE DEF o
  <2>3. Append(h[o], r.of) \in HistoryOf(o)
    BY <1>1, <2>1, <2>2, AppendedParts DEF o
  <2>4. [h EXCEPT ![o] = Append(h[o], r.of)] \in Histories
    BY <2>1, <2>3, HistoryReplaced
  <2> QED BY <1>1, <2>4 DEF o
<1>2. CASE g = h
  BY <1>2
<1>3. CASE r.type = "undo" /\ h[r.of] # <<>> /\ g = [h EXCEPT ![r.of] = Popped(h[r.of])]
  <2>1. r.of \in Owners
    BY <1>3 DEF Entry
  <2>2. Popped(h[r.of]) \in HistoryOf(r.of)
    BY <1>3, <2>1, PoppedParts DEF Histories
  <2> QED BY <1>3, <2>1, <2>2, HistoryReplaced
<1> QED BY <1>1, <1>2, <1>3 DEF StepOf

(* A project that is being recovered, and the history its records spelled.  *)
Rep(p, h) ==
  /\ Sound(p)
  /\ ~p.resolves => p.stack["model"].current = 0
  /\ \A o \in Owners : Follows(p.stack[o], h[o])

SavedFile == file \in [loaded : BOOLEAN, doc : SUBSET Commands]

LEMMA NewFollows == ASSUME NEW h PROVE Rep(NewProject, h)
<1>1. \A o \in Owners : NewProject.stack[o] = EmptyStack /\ EmptyStack.current = 0
  BY DEF NewProject, EmptyStack
<1> QED BY <1>1, NewIsSound, FollowsFromEmpty, OwnerFacts DEF Rep

LEMMA OpenedIsSound ==
  ASSUME SavedFile PROVE Sound(Opened(file)) /\ \A h : Rep(Opened(file), h)
<1>1. \A o \in Owners : Opened(file).stack[o] = EmptyStack /\ EmptyStack.current = 0
  BY DEF Opened, EmptyStack
<1>2. Opened(file) \in ProjectType
  BY EmptyIsStack DEF SavedFile, Opened, ProjectType
<1>3. \A o \in Owners : SoundStack(Opened(file).stack[o], o, Opened(file).doc)
  BY <1>1, EmptyIsSound
<1>4. Sound(Opened(file))
  BY <1>2, <1>3 DEF Sound
<1> QED BY <1>1, <1>4, FollowsFromEmpty, OwnerFacts DEF Rep

LEMMA LoadFollows ==
  ASSUME NEW p, NEW h, Rep(p, h) PROVE Rep(ModelLoaded(p), h)
<1> DEFINE q == ModelLoaded(p)
<1>1. Sound(p)
  BY DEF Rep
<1>2. /\ q.stack["model"] = EmptyStack /\ EmptyStack.current = 0
      /\ q.stack["project"] = p.stack["project"] /\ q.resolves /\ q.doc = p.doc
  BY <1>1, SoundParts, OwnerFacts DEF ModelLoaded, EmptyStack
<1>3. q \in ProjectType
  BY <1>1, SoundParts, EmptyIsStack DEF ModelLoaded, ProjectType
<1> HIDE DEF q
<1>4. Sound(q)
  BY <1>1, <1>2, <1>3, SoundParts, EmptyIsSound, OwnerFacts DEF Sound
<1> QED BY <1>2, <1>4, FollowsFromEmpty, OwnerFacts DEF Rep, q

LEMMA WithParts ==
  ASSUME NEW p, Sound(p), NEW o \in Owners, NEW s, NEW doc
  PROVE  /\ With(p, o, s, doc).stack[o] = s
         /\ \A q \in Owners \ {o} : With(p, o, s, doc).stack[q] = p.stack[q]
         /\ With(p, o, s, doc).resolves = p.resolves
         /\ With(p, o, s, doc).loaded = p.loaded
         /\ With(p, o, s, doc).doc = doc
BY StackExcept, SoundParts DEF WithStack

LEMMA PerformedFollows ==
  ASSUME NEW p, NEW h \in Histories, Rep(p, h), NEW c \in Commands,
         \A m \in 1 .. Len(h[OwnerOf(c)]) : h[OwnerOf(c)][m] # c
  PROVE  Rep(Performed(p, c), [h EXCEPT ![OwnerOf(c)] = Append(h[OwnerOf(c)], c)])
<1> DEFINE o == OwnerOf(c)
           g == [h EXCEPT ![o] = Append(h[o], c)]
<1>1. o \in Owners /\ c \in CommandsOf(o)
  BY OwnerFacts
<1>2. /\ Sound(p) /\ p.stack[o] \in StackOf(CommandsOf(o)) /\ h[o] \in HistoryOf(o)
      /\ Follows(p.stack[o], h[o])
  BY <1>1, SoundParts DEF Rep, SoundStack, Histories
<1>3. /\ Follows(p.stack[o], Append(h[o], c))
      /\ Follows(Pushed(p.stack[o], c), Append(h[o], c))
  BY <1>1, <1>2, FollowsGrowing
<1>4. g[o] = Append(h[o], c) /\ \A q \in Owners \ {o} : g[q] = h[q]
  BY <1>1 DEF Histories
<1>5. CASE ~Resolved(p, c)
  <2>1. Performed(p, c) = p
    BY <1>5 DEF Performed
  <2> HIDE DEF g, o
  <2>2. Rep(p, g)
    BY <1>1, <1>2, <1>3, <1>4 DEF Rep
  <2> QED BY <2>1, <2>2 DEF g, o
<1>6. CASE Resolved(p, c)
  <2>1. Performed(p, c) = Pushed1(p, o, c)
    BY <1>6 DEF Performed
  <2>2. \A i \in 1 .. p.stack[o].current : p.stack[o].commands[i] # c
    BY <1>2 DEF Follows
  <2>3. Sound(Pushed1(p, o, c))
    BY <1>1, <1>2, <2>2, PushKeepsSound
  <2>4. o = "project" \/ p.resolves
    BY <1>6 DEF Resolved
  <2>5. /\ Pushed1(p, o, c).stack[o] = Pushed(p.stack[o], c)
        /\ \A q \in Owners \ {o} : Pushed1(p, o, c).stack[q] = p.stack[q]
        /\ Pushed1(p, o, c).resolves = p.resolves
    BY <1>1, <1>2, WithParts DEF Pushed1
  <2> HIDE DEF g, o
  <2>6. Rep(Pushed1(p, o, c), g)
    BY ZenonT(30), <1>1, <1>2, <1>3, <1>4, <2>3, <2>4, <2>5, OwnerFacts DEF Rep
  <2> QED BY <2>1, <2>6 DEF g, o
<1> QED BY <1>5, <1>6

LEMMA UndoneFollows ==
  ASSUME NEW p, NEW h \in Histories, Rep(p, h), NEW r \in Entry, r.type = "undo",
         NEW g, StepOf(r, h, g)
  PROVE  Rep(UndoneOn(p, IF r.of = "model" /\ p.resolves THEN "model" ELSE "project"), g)
<1> DEFINE q == IF r.of = "model" /\ p.resolves THEN "model" ELSE "project"
           t == UndoneOn(p, q)
<1>1. q \in Owners /\ r.of \in Owners /\ (r.of # q => r.of = "model" /\ ~p.resolves)
  BY OwnerFacts DEF Entry
<1>2. /\ Sound(p)
      /\ \A a \in Owners : p.stack[a] \in StackOf(CommandsOf(a)) /\ h[a] \in HistoryOf(a)
                           /\ Follows(p.stack[a], h[a])
  BY SoundParts DEF Rep, SoundStack, Histories
<1>3. \A a \in Owners : \/ g[a] = h[a]
                        \/ a = r.of /\ h[a] # <<>> /\ g[a] = Popped(h[a])
  <2>1. g = h \/ (h[r.of] # <<>> /\ g = [h EXCEPT ![r.of] = Popped(h[r.of])])
    BY DEF StepOf
  <2> QED BY <1>1, <2>1 DEF Histories
<1>4. ~p.resolves => q = "project" /\ p.stack["model"].current = 0
  BY DEF Rep
<1> HIDE DEF q
<1>5. ASSUME ~CanUndo(p.stack[q]) PROVE Rep(t, g)
  <2>1. t = p
    BY <1>5 DEF UndoneOn
  <2>2. ASSUME NEW a \in Owners PROVE Follows(p.stack[a], g[a])
    <3>1. CASE g[a] = h[a]
      BY <1>2, <3>1
    <3>2. CASE a = r.of /\ h[a] # <<>> /\ g[a] = Popped(h[a]) /\ a = q
      BY <1>2, <1>5, <3>2, FollowsUndo
    <3>3. CASE a = r.of /\ a # q
      BY <1>1, <1>4, <3>3, FollowsFromEmpty
    <3> QED BY <1>3, <3>1, <3>2, <3>3
  <2> HIDE DEF t
  <2> QED BY <1>2, <1>4, <2>1, <2>2 DEF Rep
<1>6. ASSUME CanUndo(p.stack[q]) PROVE Rep(t, g)
  <2>1. t = Undone1(p, q)
    BY <1>6 DEF UndoneOn
  <2>2. /\ t.stack[q] = Undone(p.stack[q])
        /\ \A a \in Owners \ {q} : t.stack[a] = p.stack[a]
        /\ t.resolves = p.resolves
    BY <1>1, <1>2, <2>1, WithParts DEF Undone1
  <2>3. Sound(t)
    BY <1>1, <1>2, <1>6, <2>1, UndoKeepsSound
  <2>4. h[q] # <<>>
    <3>1. p.stack[q].current \in Nat /\ p.stack[q].current >= 1
      BY <1>1, <1>2, <1>6, PartsOfStack DEF CanUndo
    <3>2. \E m \in 1 .. Len(h[q]) : TRUE
      BY <1>1, <1>2, <3>1 DEF Follows
    <3> QED BY <3>2
  <2> HIDE DEF t
  <2>5. ASSUME NEW a \in Owners PROVE Follows(t.stack[a], g[a])
    <3>1. CASE a = q
      BY <1>2, <1>3, <1>6, <2>2, <2>4, <3>1, FollowsUndo
    <3>2. CASE a # q /\ g[a] = h[a]
      BY <1>2, <2>2, <3>2
    <3>3. CASE a # q /\ a = r.of
      <4>1. t.stack[a].current = 0
        BY <1>1, <1>4, <2>2, <3>3
      <4> QED BY <4>1, FollowsFromEmpty
    <3> QED BY <1>3, <3>1, <3>2, <3>3
  <2>6. ~t.resolves => t.stack["model"].current = 0
    BY <1>4, <2>2, OwnerFacts
  <2> QED BY <2>3, <2>5, <2>6 DEF Rep
<1>7. Rep(t, g)
  BY <1>5, <1>6
<1> QED BY <1>7 DEF q, t

LEMMA ReplayFollows ==
  ASSUME NEW p, NEW h \in Histories, Rep(p, h), NEW r \in Entry, r.type # "none",
         NEW g, StepOf(r, h, g), r.type = "save" => SavedFile
  PROVE  Rep(Replay(p, r), g)
<1>1. r.type \in {"load", "redo", "undo", "save"}
  BY DEF Entry, Types
<1>2. CASE r.type = "load"
  <2>1. g = h /\ Replay(p, r) = ModelLoaded(p)
    BY <1>2 DEF StepOf, Replay
  <2> QED BY <2>1, LoadFollows
<1>3. CASE r.type = "save"
  <2>1. Replay(p, r) = Opened(file)
    BY <1>3 DEF Replay
  <2> QED BY <1>3, <2>1, OpenedIsSound
<1>4. CASE r.type = "undo"
  <2>1. Replay(p, r) = UndoneOn(p, IF r.of = "model" /\ p.resolves THEN "model" ELSE "project")
    BY <1>4 DEF Replay
  <2> QED BY <1>4, <2>1, UndoneFollows
<1>5. CASE r.type = "redo"
  <2>1. Replay(p, r) = Performed(p, r.of) /\ r.of \in Commands
    BY <1>5 DEF Replay, Entry
  <2>2. /\ \A m \in 1 .. Len(h[OwnerOf(r.of)]) : h[OwnerOf(r.of)][m] # r.of
        /\ g = [h EXCEPT ![OwnerOf(r.of)] = Append(h[OwnerOf(r.of)], r.of)]
    BY <1>5 DEF StepOf
  <2> QED BY <2>1, <2>2, PerformedFollows
<1> QED BY <1>1, <1>2, <1>3, <1>4, <1>5

-----------------------------------------------------------------------------
(* Reading a log.                                                          *)

Log == Seq(Entry \cup {Magic})

(* A log that is read to its end, and one that a second magic has closed.   *)
Plain(rs) == <<Magic>> \o rs

Closed(log) == \E i \in 2 .. Len(log) : log[i] = Magic

LEMMA Least ==
  ASSUME NEW T, T \subseteq Nat, T # {}
  PROVE  \E n \in T : \A m \in T : n <= m
<1>1. IsWellFoundedOn(OpToRel(<, Nat), Nat)
  BY NatLessThanWellFounded
<1>2. PICK n \in T : \A m \in T : ~(<<m, n>> \in OpToRel(<, Nat))
  BY <1>1, WFMin
<1>3. ASSUME NEW m \in T PROVE n <= m
  <2>1. ~(<<m, n>> \in OpToRel(<, Nat))
    BY <1>2, <1>3
  <2>2. m \in Nat /\ n \in Nat
    BY <1>2, <1>3
  <2>3. ~(m < n)
    BY <2>1, <2>2 DEF OpToRel
  <2> QED BY <2>2, <2>3
<1> QED BY <1>2, <1>3

LEMMA EntryOrMagic ==
  ASSUME NEW r \in Entry \cup {Magic}
  PROVE  /\ (r.type = "magic") <=> (r = Magic)
         /\ r # Magic => r \in Entry
BY DEF Entry, Types, Magic

IsReadable(log, n) ==
  /\ \A i \in 2 .. n : log[i].type # "magic"
  /\ n < Len(log) => log[n + 1].type = "magic"

LEMMA ReadableParts ==
  ASSUME NEW log \in Log, log # <<>>
  PROVE  /\ Readable(log) \in 1 .. Len(log) /\ IsReadable(log, Readable(log))
         /\ \A n \in 1 .. Len(log) : IsReadable(log, n) => n = Readable(log)
<1>1. Len(log) \in Nat /\ Len(log) >= 1
  BY EmptySeq DEF Log
<1> DEFINE T == {n \in 1 .. Len(log) : n < Len(log) => log[n + 1].type = "magic"}
<1>2. PICK n \in T : \A m \in T : n <= m
  <2>1. T \subseteq Nat /\ Len(log) \in T
    BY <1>1
  <2> QED BY <2>1, Least
<1>3. IsReadable(log, n)
  <2> SUFFICES ASSUME NEW i \in 2 .. n PROVE log[i].type # "magic"
    BY <1>2 DEF IsReadable
  <2> DEFINE m == i - 1
  <2>1. m \in 1 .. Len(log) /\ m < n /\ m < Len(log) /\ m + 1 = i
    BY <1>1
  <2>2. m \notin T
    <3>1. m \in T => n <= m
      BY <1>2
    <3>2. ~(n <= m)
      BY <1>1, <2>1
    <3> QED BY <3>1, <3>2
  <2> HIDE DEF m
  <2> QED BY <2>1, <2>2
<1>4. ASSUME NEW m \in 1 .. Len(log), NEW k \in 1 .. Len(log), IsReadable(log, m), IsReadable(log, k)
      PROVE  m = k
  <2>1. ~(m < k)
    BY <1>1, <1>4 DEF IsReadable
  <2>2. ~(k < m)
    BY <1>1, <1>4 DEF IsReadable
  <2> QED BY <2>1, <2>2
<1>5. Readable(log) = CHOOSE m \in 1 .. Len(log) : IsReadable(log, m)
  BY DEF Readable, IsReadable
<1>6. Readable(log) \in 1 .. Len(log) /\ IsReadable(log, Readable(log))
  BY <1>2, <1>3, <1>5
<1> QED BY <1>4, <1>6

-----------------------------------------------------------------------------
(* The project that is in use, and the history its own records spell.       *)

(* The history ends with what is done on the stack.                         *)
Ends(s, h) ==
  /\ s.current <= Len(h)
  /\ \A j \in 1 .. s.current : h[Len(h) - s.current + j] = s.commands[j]

Fits(h, p) ==
  \A o \in Owners : /\ \A m \in 1 .. Len(h[o]) : h[o][m] \in p.doc
                    /\ Ends(p.stack[o], h[o])

LEMMA EndsPushed ==
  ASSUME NEW o, NEW s \in StackOf(CommandsOf(o)), NEW h \in HistoryOf(o), Ends(s, h),
         NEW c \in CommandsOf(o), \A m \in 1 .. Len(h) : h[m] # c
  PROVE  Ends(Pushed(s, c), Append(h, c))
<1> DEFINE g == Append(h, c)
           t == Pushed(s, c)
           k == IF s.current = Limit THEN 1 ELSE 0
<1>1. /\ Len(g) = Len(h) + 1 /\ g[Len(h) + 1] = c /\ Len(h) \in Nat
      /\ \A i \in 1 .. Len(h) : g[i] = h[i]
  BY AppendedParts
<1>2. /\ t.current = s.current + 1 - k
      /\ \A i \in 1 .. t.current - 1 : t.commands[i] = s.commands[i + k]
      /\ t.commands[t.current] = c
      /\ t.current \in Nat /\ t.current >= 1
  BY PushedParts
<1>3. s.current \in Nat /\ k \in {0, 1} /\ s.current <= Len(h)
  BY PartsOfStack DEF Ends
<1> HIDE DEF g, t, k
<1>4. ASSUME NEW j \in 1 .. t.current PROVE g[Len(g) - t.current + j] = t.commands[j]
  <2>1. CASE j = t.current
    <3>1. Len(g) - t.current + j = Len(h) + 1
      BY <1>1, <1>2, <2>1
    <3> QED BY <1>1, <1>2, <2>1, <3>1
  <2>2. CASE j # t.current
    <3>1. j + k \in 1 .. s.current /\ t.commands[j] = s.commands[j + k]
      BY <1>2, <1>3, <2>2
    <3>2. /\ Len(g) - t.current + j = Len(h) - s.current + (j + k)
          /\ Len(h) - s.current + (j + k) \in 1 .. Len(h)
      <4> DEFINE l == Len(h)
                 d == s.current
      <4>1. Len(g) = l + 1 /\ t.current = d + 1 - k /\ l \in Nat /\ d \in Nat /\ d <= l
            /\ j + k \in 1 .. d
        BY <1>1, <1>2, <1>3, <3>1
      <4>2. j \in Nat /\ k \in {0, 1}
        BY <1>2, <1>3
      <4> HIDE DEF l, d
      <4>3. (l + 1) - (d + 1 - k) + j = l - d + (j + k) /\ l - d + (j + k) \in 1 .. l
        BY <4>1, <4>2
      <4> QED BY <4>1, <4>3 DEF l, d
    <3>3. h[Len(h) - s.current + (j + k)] = s.commands[j + k]
      BY <3>1 DEF Ends
    <3> QED BY <1>1, <3>1, <3>2, <3>3
  <2> QED BY <2>1, <2>2
<1>5. t.current <= Len(g)
  BY <1>1, <1>2, <1>3
<1>6. Ends(t, g)
  BY <1>4, <1>5 DEF Ends
<1> QED BY <1>6 DEF t, g

LEMMA EndsUndone ==
  ASSUME NEW o, NEW s \in StackOf(CommandsOf(o)), NEW h \in HistoryOf(o), Ends(s, h), CanUndo(s)
  PROVE  /\ h # <<>> /\ h[Len(h)] = Below(s)
         /\ Ends(Undone(s), Popped(h))
<1>1. s.current \in Nat /\ s.current >= 1 /\ s.current <= Len(h)
  BY PartsOfStack DEF CanUndo, Ends
<1>2. h # <<>>
  BY <1>1
<1>3. /\ Len(Popped(h)) = Len(h) - 1 /\ Len(h) \in Nat
      /\ \A i \in 1 .. Len(h) - 1 : Popped(h)[i] = h[i]
  BY <1>2, PoppedParts
<1>4. Undone(s).commands = s.commands /\ Undone(s).current = s.current - 1
  BY PartsOfStack DEF Undone
<1>5. h[Len(h)] = Below(s)
  <2>1. Len(h) - s.current + s.current = Len(h) /\ s.current \in 1 .. s.current
    BY <1>1, <1>3
  <2> QED BY <2>1 DEF Ends, Below
<1>6. ASSUME NEW j \in 1 .. s.current - 1
      PROVE  Popped(h)[Len(Popped(h)) - Undone(s).current + j] = s.commands[j]
  <2>1. /\ Len(Popped(h)) - Undone(s).current + j = Len(h) - s.current + j
        /\ Len(h) - s.current + j \in 1 .. Len(h) - 1 /\ j \in 1 .. s.current
    <3> DEFINE l == Len(h)
               d == s.current
    <3>1. Len(Popped(h)) = l - 1 /\ Undone(s).current = d - 1 /\ l \in Nat /\ d \in Nat
          /\ d <= l /\ j \in 1 .. d - 1
      BY <1>1, <1>3, <1>4
    <3> HIDE DEF l, d
    <3>2. (l - 1) - (d - 1) + j = l - d + j /\ l - d + j \in 1 .. l - 1 /\ j \in 1 .. d
      BY <3>1
    <3> QED BY <3>1, <3>2 DEF l, d
  <2>2. h[Len(h) - s.current + j] = s.commands[j]
    BY <2>1 DEF Ends
  <2> QED BY <1>3, <2>1, <2>2
<1>7. Ends(Undone(s), Popped(h))
  BY <1>1, <1>3, <1>4, <1>6 DEF Ends
<1> QED BY <1>2, <1>5, <1>7

LEMMA EndsRedone ==
  ASSUME NEW o, NEW s \in StackOf(CommandsOf(o)), NEW h \in HistoryOf(o), Ends(s, h), CanRedo(s),
         Above(s) \in CommandsOf(o), \A m \in 1 .. Len(h) : h[m] # Above(s)
  PROVE  Ends(Redone(s), Append(h, Above(s)))
<1> DEFINE c == Above(s)
           g == Append(h, c)
<1>1. /\ Len(g) = Len(h) + 1 /\ g[Len(h) + 1] = c /\ Len(h) \in Nat
      /\ \A i \in 1 .. Len(h) : g[i] = h[i]
  BY AppendedParts
<1>2. Redone(s).commands = s.commands /\ Redone(s).current = s.current + 1
  BY PartsOfStack DEF Redone
<1>3. s.current \in Nat /\ s.current <= Len(h)
  BY PartsOfStack DEF Ends
<1>4. c = s.commands[s.current + 1]
  BY DEF Above
<1> HIDE DEF g, c
<1>5. ASSUME NEW j \in 1 .. s.current + 1
      PROVE  g[Len(g) - (s.current + 1) + j] = s.commands[j]
  <2>1. CASE j = s.current + 1
    <3>1. Len(g) - (s.current + 1) + j = Len(h) + 1
      BY <1>1, <1>3, <2>1
    <3> QED BY <1>1, <1>4, <2>1, <3>1
  <2>2. CASE j # s.current + 1
    <3>1. /\ Len(g) - (s.current + 1) + j = Len(h) - s.current + j
          /\ Len(h) - s.current + j \in 1 .. Len(h) /\ j \in 1 .. s.current
      <4>1. Len(h) \in Nat /\ s.current \in Nat /\ s.current <= Len(h) /\ Len(g) = Len(h) + 1
        BY <1>1, <1>3
      <4>2. j \in 1 .. s.current
        BY <4>1, <2>2
      <4>3. \A n, k \in Nat : \A i \in 1 .. k : k <= n =>
              (n + 1) - (k + 1) + i = n - k + i /\ n - k + i \in 1 .. n
        OBVIOUS
      <4> QED BY <4>1, <4>2, <4>3
    <3>2. h[Len(h) - s.current + j] = s.commands[j]
      BY <3>1 DEF Ends
    <3> QED BY <1>1, <3>1, <3>2
  <2> QED BY <2>1, <2>2
<1>6. Ends(Redone(s), g)
  BY <1>1, <1>2, <1>3, <1>5 DEF Ends
<1> QED BY <1>6 DEF g, c

LEMMA SomeHistoryFits ==
  ASSUME NEW p, Sound(p) PROVE \E h \in Histories : Fits(h, p)
<1> DEFINE h == [o \in Owners |-> SubSeq(p.stack[o].commands, 1, p.stack[o].current)]
<1>1. ASSUME NEW o \in Owners
      PROVE  /\ h[o] \in HistoryOf(o) /\ Len(h[o]) = p.stack[o].current /\ h[o] \in Seq(Commands)
             /\ \A i \in 1 .. Len(h[o]) : h[o][i] = p.stack[o].commands[i] /\ h[o][i] \in p.doc
  <2> DEFINE s == p.stack[o]
             k == SubSeq(s.commands, 1, s.current)
  <2>1. SoundStack(s, o, p.doc)
    BY SoundParts
  <2> HIDE DEF s
  <2>2. /\ s.current \in Nat /\ s.commands \in Seq(CommandsOf(o)) /\ s.current <= Len(s.commands)
        /\ Len(s.commands) \in Nat
    BY <2>1, PartsOfStack DEF SoundStack
  <2>3. \A i \in 1 .. s.current : s.commands[i] \in CommandsOf(o)
    BY <2>2, ElementOfSeq
  <2>4. /\ k \in Seq(CommandsOf(o)) /\ Len(k) = s.current
        /\ \A i \in 1 .. s.current : k[i] = s.commands[i]
    BY <2>2, <2>3, SubSeqProperties, 1 \in Int
  <2> HIDE DEF k
  <2>5. \A i \in 1 .. Len(k) : k[i] \in p.doc /\ i \in 1 .. Len(s.commands)
    BY <2>1, <2>2, <2>4 DEF SoundStack
  <2>6. k \in HistoryOf(o)
    BY <2>1, <2>4, <2>5 DEF HistoryOf, SoundStack
  <2>7. k \in Seq(Commands)
    BY <2>4, SeqMonotonic DEF CommandsOf
  <2> QED BY <2>4, <2>5, <2>6, <2>7 DEF k, s
<1> HIDE DEF h
<1>2. h \in Histories
  <2>1. h \in [Owners -> Seq(Commands)]
    BY <1>1 DEF h
  <2> QED BY <1>1, <2>1 DEF Histories
<1>3. ASSUME NEW o \in Owners PROVE Ends(p.stack[o], h[o])
  <2>1. p.stack[o].current \in Nat
    BY SoundParts, PartsOfStack
  <2> DEFINE s == p.stack[o]
             g == h[o]
  <2>2. Len(g) = s.current /\ \A i \in 1 .. Len(g) : g[i] = s.commands[i]
    BY <1>1
  <2>3. s.current \in Nat
    BY <2>1
  <2> HIDE DEF s, g
  <2>4. \A j \in 1 .. s.current : Len(g) - s.current + j = j
    BY <2>2, <2>3
  <2>5. Ends(s, g)
    BY <2>2, <2>3, <2>4 DEF Ends
  <2> QED BY <2>5 DEF s, g
<1> QED BY <1>1, <1>2, <1>3 DEF Fits

(* What is done to the project agrees with the record that is written.      *)
Told(r, p, q) ==
  \A h \in Histories : Fits(h, p) => \E g \in Histories : StepOf(r, h, g) /\ Fits(g, q)

LEMMA SameIsTold ==
  ASSUME NEW r, r.type # "redo", NEW p, NEW q, q.doc = p.doc, q.stack = p.stack
  PROVE  Told(r, p, q)
BY DEF Told, StepOf, Fits

LEMMA FitsOther ==
  ASSUME NEW p, NEW h \in Histories, Fits(h, p), NEW o \in Owners, NEW c \in CommandsOf(o),
         NEW g \in Histories, \A a \in Owners \ {o} : g[a] = h[a],
         NEW q, \A a \in Owners \ {o} : q.stack[a] = p.stack[a],
         \A x \in p.doc : x # c => x \in q.doc,
         Ends(q.stack[o], g[o]), \A m \in 1 .. Len(g[o]) : g[o][m] \in q.doc
  PROVE  Fits(g, q)
<1>1. ASSUME NEW a \in Owners \ {o}, NEW m \in 1 .. Len(g[a]) PROVE g[a][m] \in q.doc
  <2>1. h[a][m] \in p.doc /\ g[a][m] = h[a][m] /\ h[a] \in Seq(CommandsOf(a)) /\ m \in 1 .. Len(h[a])
    BY <1>1 DEF Fits, Histories, HistoryOf
  <2>2. h[a][m] \in CommandsOf(a)
    BY <2>1, ElementOfSeq
  <2>3. h[a][m] # c
    BY <1>1, <2>2 DEF CommandsOf
  <2> QED BY <2>1, <2>3
<1>2. \A a \in Owners \ {o} : Ends(q.stack[a], g[a])
  BY DEF Fits
<1> QED BY <1>1, <1>2 DEF Fits

LEMMA PushIsTold ==
  ASSUME NEW p, Sound(p), NEW o \in Owners, NEW c \in CommandsOf(o), c \notin p.doc,
         NEW r, r.type = "redo", r.of = c
  PROVE  Told(r, p, Pushed1(p, o, c))
<1> DEFINE q == Pushed1(p, o, c)
<1>1. /\ q.stack[o] = Pushed(p.stack[o], c) /\ q.doc = p.doc \cup {c}
      /\ \A a \in Owners \ {o} : q.stack[a] = p.stack[a]
  BY WithParts DEF Pushed1
<1> HIDE DEF q
<1>2. SUFFICES ASSUME NEW h \in Histories, Fits(h, p)
               PROVE  \E g \in Histories : StepOf(r, h, g) /\ Fits(g, q)
  BY DEF Told, q
<1> DEFINE g == [h EXCEPT ![o] = Append(h[o], c)]
<1>3. h[o] \in HistoryOf(o) /\ p.stack[o] \in StackOf(CommandsOf(o)) /\ OwnerOf(c) = o
  BY SoundParts DEF Histories, SoundStack, CommandsOf
<1>4. \A m \in 1 .. Len(h[o]) : h[o][m] \in p.doc /\ h[o][m] # c
  BY <1>2 DEF Fits
<1>5. /\ Append(h[o], c) \in HistoryOf(o) /\ Len(Append(h[o], c)) = Len(h[o]) + 1
      /\ \A i \in 1 .. Len(h[o]) : Append(h[o], c)[i] = h[o][i]
      /\ Append(h[o], c)[Len(h[o]) + 1] = c /\ Len(h[o]) \in Nat
  BY <1>3, <1>4, AppendedParts
<1>6. g \in Histories
  BY <1>5, HistoryReplaced
<1>7. g[o] = Append(h[o], c) /\ \A a \in Owners \ {o} : g[a] = h[a]
  BY DEF Histories
<1>8. StepOf(r, h, g)
  BY <1>3, <1>4 DEF StepOf
<1>9. Ends(q.stack[o], g[o])
  BY <1>1, <1>2, <1>3, <1>4, <1>7, EndsPushed DEF Fits
<1>10. \A m \in 1 .. Len(g[o]) : g[o][m] \in q.doc
  BY <1>1, <1>4, <1>5, <1>7
<1>11. \A x \in p.doc : x # c => x \in q.doc
  BY <1>1
<1> HIDE DEF g
<1>12. /\ \A a \in Owners \ {o} : q.stack[a] = p.stack[a]
       /\ \A a \in Owners \ {o} : g[a] = h[a]
  BY <1>1, <1>7
<1>13. Fits(g, q)
  BY <1>2, <1>6, <1>9, <1>10, <1>11, <1>12, FitsOther
<1> QED BY <1>6, <1>8, <1>13

LEMMA UndoIsTold ==
  ASSUME NEW p, Sound(p), NEW o \in Owners, CanUndo(p.stack[o]),
         NEW r, r.type = "undo", r.of = o
  PROVE  Told(r, p, Undone1(p, o))
<1> DEFINE q == Undone1(p, o)
           c == Below(p.stack[o])
<1>1. /\ q.stack[o] = Undone(p.stack[o]) /\ q.doc = p.doc \ {c}
      /\ \A a \in Owners \ {o} : q.stack[a] = p.stack[a]
  BY WithParts DEF Undone1
<1>2. c \in CommandsOf(o) /\ p.stack[o] \in StackOf(CommandsOf(o))
  <2>1. SoundStack(p.stack[o], o, p.doc)
    BY SoundParts
  <2>2. c \in CommandsOf(o)
    BY <2>1, UndoIsSound
  <2> QED BY <2>1, <2>2 DEF SoundStack
<1> HIDE DEF q
<1>3. SUFFICES ASSUME NEW h \in Histories, Fits(h, p)
               PROVE  \E g \in Histories : StepOf(r, h, g) /\ Fits(g, q)
  BY DEF Told, q
<1> DEFINE g == [h EXCEPT ![o] = Popped(h[o])]
<1>4. h[o] \in HistoryOf(o)
  BY DEF Histories
<1>5. /\ h[o] # <<>> /\ h[o][Len(h[o])] = c /\ Ends(Undone(p.stack[o]), Popped(h[o]))
  BY <1>2, <1>3, <1>4, EndsUndone DEF Fits
<1>6. /\ Popped(h[o]) \in HistoryOf(o) /\ Len(Popped(h[o])) = Len(h[o]) - 1
      /\ \A i \in 1 .. Len(h[o]) - 1 : Popped(h[o])[i] = h[o][i]
      /\ Len(h[o]) \in Nat /\ Len(h[o]) >= 1
  BY <1>4, <1>5, PoppedParts
<1>7. g \in Histories
  BY <1>6, HistoryReplaced
<1>8. g[o] = Popped(h[o]) /\ \A a \in Owners \ {o} : g[a] = h[a]
  BY DEF Histories
<1>9. StepOf(r, h, g)
  BY <1>5 DEF StepOf
<1> HIDE DEF g, c
<1>10. ASSUME NEW m \in 1 .. Len(g[o]) PROVE g[o][m] \in q.doc
  <2>1. m \in 1 .. Len(h[o]) /\ Len(h[o]) \in 1 .. Len(h[o]) /\ m # Len(h[o]) /\ g[o][m] = h[o][m]
    BY <1>6, <1>8
  <2>2. h[o][m] \in p.doc
    BY <1>3, <2>1 DEF Fits
  <2>3. h[o][m] # c
    BY <1>4, <1>5, <2>1 DEF HistoryOf
  <2> QED BY <1>1, <2>1, <2>2, <2>3
<1>11. \A x \in p.doc : x # c => x \in q.doc
  BY <1>1
<1>12. Ends(q.stack[o], g[o])
  BY <1>1, <1>5, <1>8
<1>13. Fits(g, q)
  BY <1>1, <1>2, <1>3, <1>7, <1>8, <1>10, <1>11, <1>12, FitsOther
<1> QED BY <1>7, <1>9, <1>13

LEMMA RedoIsTold ==
  ASSUME NEW p, Sound(p), NEW o \in Owners, CanRedo(p.stack[o]),
         NEW r, r.type = "redo", r.of = Above(p.stack[o])
  PROVE  Told(r, p, Redone1(p, o))
<1> DEFINE q == Redone1(p, o)
           c == Above(p.stack[o])
<1>1. /\ q.stack[o] = Redone(p.stack[o]) /\ q.doc = p.doc \cup {c}
      /\ \A a \in Owners \ {o} : q.stack[a] = p.stack[a]
  BY WithParts DEF Redone1
<1>2. /\ c \in CommandsOf(o) /\ c \notin p.doc /\ p.stack[o] \in StackOf(CommandsOf(o))
      /\ OwnerOf(c) = o
  <2>1. SoundStack(p.stack[o], o, p.doc)
    BY SoundParts
  <2>2. c \in CommandsOf(o) /\ c \notin p.doc
    BY <2>1, RedoIsSound
  <2> QED BY <2>1, <2>2 DEF SoundStack, CommandsOf
<1> HIDE DEF q
<1>3. SUFFICES ASSUME NEW h \in Histories, Fits(h, p)
               PROVE  \E g \in Histories : StepOf(r, h, g) /\ Fits(g, q)
  BY DEF Told, q
<1> DEFINE g == [h EXCEPT ![o] = Append(h[o], c)]
<1>4. h[o] \in HistoryOf(o)
  BY DEF Histories
<1>5. \A m \in 1 .. Len(h[o]) : h[o][m] \in p.doc /\ h[o][m] # c
  BY <1>2, <1>3 DEF Fits
<1>6. /\ Append(h[o], c) \in HistoryOf(o) /\ Len(Append(h[o], c)) = Len(h[o]) + 1
      /\ \A i \in 1 .. Len(h[o]) : Append(h[o], c)[i] = h[o][i]
      /\ Append(h[o], c)[Len(h[o]) + 1] = c /\ Len(h[o]) \in Nat
  BY <1>2, <1>4, <1>5, AppendedParts
<1>7. g \in Histories
  BY <1>6, HistoryReplaced
<1>8. g[o] = Append(h[o], c) /\ \A a \in Owners \ {o} : g[a] = h[a]
  BY DEF Histories
<1>9. StepOf(r, h, g)
  BY <1>2, <1>5 DEF StepOf
<1>10. Ends(q.stack[o], g[o])
  BY <1>1, <1>2, <1>3, <1>4, <1>5, <1>8, EndsRedone DEF Fits
<1>11. \A m \in 1 .. Len(g[o]) : g[o][m] \in q.doc
  BY <1>1, <1>5, <1>6, <1>8
<1>12. \A x \in p.doc : x # c => x \in q.doc
  BY <1>1
<1> HIDE DEF g, c
<1>13. /\ \A a \in Owners \ {o} : q.stack[a] = p.stack[a]
       /\ \A a \in Owners \ {o} : g[a] = h[a]
       /\ c \in CommandsOf(o)
  BY <1>1, <1>2, <1>8
<1>14. Fits(g, q)
  BY <1>3, <1>7, <1>10, <1>11, <1>12, <1>13, FitsOther
<1> QED BY <1>7, <1>9, <1>14

-----------------------------------------------------------------------------
(* What is read of a log.                                                  *)

LEMMA MagicIsLogged == Magic \in Entry \cup {Magic} /\ Entry \subseteq Entry \cup {Magic}
OBVIOUS

LEMMA PlainParts ==
  ASSUME NEW rs \in Seq(Entry)
  PROVE  /\ Plain(rs) \in Log /\ Plain(rs) # <<>> /\ Len(rs) \in Nat
         /\ Len(Plain(rs)) = Len(rs) + 1 /\ Plain(rs)[1] = Magic
         /\ \A i \in 1 .. Len(rs) : Plain(rs)[i + 1] = rs[i]
<1> DEFINE S == Entry \cup {Magic}
<1>1. Magic \in S /\ Entry \subseteq S
  OBVIOUS
<1> HIDE DEF S
<1>2. <<Magic>> \in Seq(S) /\ Len(<<Magic>>) = 1 /\ <<Magic>>[1] = Magic
  BY <1>1
<1>3. rs \in Seq(S) /\ Len(rs) \in Nat
  BY <1>1, SeqMonotonic
<1> DEFINE m == <<Magic>>
<1> HIDE DEF m
<1>4. /\ m \o rs \in Seq(S) /\ Len(m \o rs) = Len(m) + Len(rs)
      /\ \A i \in 1 .. Len(m) + Len(rs) : (m \o rs)[i] = IF i <= Len(m) THEN m[i] ELSE rs[i - Len(m)]
  BY <1>2, <1>3, ConcatProperties DEF m
<1>5. Len(m) = 1 /\ m[1] = Magic /\ Plain(rs) = m \o rs
  BY <1>2 DEF m, Plain
<1>6. Plain(rs) \in Log /\ Len(Plain(rs)) = Len(rs) + 1
  BY <1>3, <1>4, <1>5 DEF Log, S
<1>7. Plain(rs)[1] = Magic
  BY <1>3, <1>4, <1>5
<1>8. ASSUME NEW i \in 1 .. Len(rs) PROVE Plain(rs)[i + 1] = rs[i]
  <2>1. i + 1 \in 1 .. 1 + Len(rs) /\ ~(i + 1 <= 1) /\ (i + 1) - 1 = i
    BY <1>3
  <2> QED BY <1>4, <1>5, <2>1
<1>9. Plain(rs) # <<>>
  BY <1>3, <1>6
<1> QED BY <1>3, <1>6, <1>7, <1>8, <1>9

LEMMA RecordsParts ==
  ASSUME NEW log \in Log, log # <<>>, log[1] = Magic
  PROVE  /\ RecordsOf(log) \in Seq(Entry) /\ Len(RecordsOf(log)) = Readable(log) - 1
         /\ \A i \in 1 .. Readable(log) - 1 : RecordsOf(log)[i] = log[i + 1]
<1> DEFINE n == Readable(log)
<1>1. n \in 1 .. Len(log) /\ IsReadable(log, n) /\ Len(log) \in Nat
  BY ReadableParts DEF Log
<1>2. RecordsOf(log) = SubSeq(log, 2, n)
  <2>1. log[1].type = "magic"
    <3>1. Magic.type = "magic"
      BY DEF Magic
    <3> QED BY <3>1
  <2> QED BY <2>1 DEF RecordsOf
<1> HIDE DEF n
<1>3. \A i \in 2 .. n : log[i] \in Entry
  <2> TAKE i \in 2 .. n
  <2>1. i \in 1 .. Len(log)
    BY <1>1
  <2>2. log[i] \in Entry \cup {Magic}
    BY <2>1, ElementOfSeq DEF Log
  <2>3. log[i].type # "magic"
    BY <1>1 DEF IsReadable
  <2> QED BY <2>2, <2>3, EntryOrMagic
<1>4. /\ SubSeq(log, 2, n) \in Seq(Entry)
      /\ Len(SubSeq(log, 2, n)) = IF 2 <= n THEN n - 2 + 1 ELSE 0
      /\ \A i \in 1 .. n - 2 + 1 : SubSeq(log, 2, n)[i] = log[2 + i - 1]
  <2>1. n \in Int /\ 2 \in Int
    BY <1>1
  <2> QED BY <1>3, <2>1, SubSeqProperties
<1>5. Len(SubSeq(log, 2, n)) = n - 1
  BY <1>1, <1>4
<1>6. ASSUME NEW i \in 1 .. n - 1 PROVE SubSeq(log, 2, n)[i] = log[i + 1]
  <2>1. i \in 1 .. n - 2 + 1 /\ 2 + i - 1 = i + 1
    BY <1>1
  <2> QED BY <1>4, <2>1
<1> QED BY <1>2, <1>4, <1>5, <1>6 DEF n

LEMMA RecordsOfPlain ==
  ASSUME NEW rs \in Seq(Entry) PROVE RecordsOf(Plain(rs)) = rs
<1> DEFINE log == Plain(rs)
<1>1. /\ log \in Log /\ log # <<>> /\ Len(rs) \in Nat /\ Len(log) = Len(rs) + 1 /\ log[1] = Magic
      /\ \A i \in 1 .. Len(rs) : log[i + 1] = rs[i]
  BY PlainParts
<1> HIDE DEF log
<1>2. IsReadable(log, Len(log))
  <2>1. ASSUME NEW i \in 2 .. Len(log) PROVE log[i].type # "magic"
    <3> DEFINE k == i - 1
    <3>1. k \in 1 .. Len(rs) /\ k + 1 = i
      BY <1>1
    <3> HIDE DEF k
    <3>2. log[i] = rs[k] /\ rs[k] \in Entry
      BY <1>1, <3>1, ElementOfSeq
    <3> QED BY <3>2 DEF Entry, Types
  <2> QED BY <1>1, <2>1 DEF IsReadable
<1>3. Readable(log) = Len(log)
  <2>1. Len(log) \in 1 .. Len(log)
    BY <1>1
  <2> QED BY <1>1, <1>2, <2>1, ReadableParts
<1>4. /\ RecordsOf(log) \in Seq(Entry) /\ Len(RecordsOf(log)) = Len(rs)
      /\ \A i \in 1 .. Len(rs) : RecordsOf(log)[i] = rs[i]
  <2>1. /\ RecordsOf(log) \in Seq(Entry) /\ Len(RecordsOf(log)) = Readable(log) - 1
        /\ \A i \in 1 .. Readable(log) - 1 : RecordsOf(log)[i] = log[i + 1]
    BY <1>1, RecordsParts
  <2>2. Readable(log) - 1 = Len(rs)
    BY <1>1, <1>3
  <2> QED BY <1>1, <2>1, <2>2
<1>5. RecordsOf(log) = rs
  BY <1>4, SeqEqual
<1> QED BY <1>5 DEF log

(* What is written after a second magic is never read.                      *)
LEMMA ClosedStays ==
  ASSUME NEW log \in Log, log # <<>>, log[1] = Magic, NEW more \in Log,
         Closed(log) \/ (more # <<>> /\ more[1] = Magic)
  PROVE  RecordsOf(log \o more) = RecordsOf(log) /\ Closed(log \o more)
<1> DEFINE both == log \o more
           n == Readable(log)
<1>1. /\ Len(log) \in Nat /\ Len(more) \in Nat /\ (more # <<>> => Len(more) >= 1)
      /\ Len(log) >= 1
  BY EmptySeq DEF Log
<1>2. /\ both \in Log /\ Len(both) = Len(log) + Len(more)
      /\ \A i \in 1 .. Len(log) : both[i] = log[i]
      /\ more # <<>> => both[Len(log) + 1] = more[1]
  <2>1. /\ both \in Log /\ Len(both) = Len(log) + Len(more)
        /\ \A i \in 1 .. Len(log) + Len(more) : both[i] = IF i <= Len(log) THEN log[i] ELSE more[i - Len(log)]
    BY ConcatProperties DEF Log
  <2> HIDE DEF both
  <2>2. \A i \in 1 .. Len(log) : both[i] = log[i]
    BY <1>1, <2>1
  <2>3. ASSUME more # <<>> PROVE both[Len(log) + 1] = more[1]
    <3>1. /\ Len(log) + 1 \in 1 .. Len(log) + Len(more) /\ ~(Len(log) + 1 <= Len(log))
          /\ (Len(log) + 1) - Len(log) = 1
      BY <1>1, <2>3
    <3> QED BY <2>1, <3>1
  <2> QED BY <2>1, <2>2, <2>3
<1>3. n \in 1 .. Len(log) /\ IsReadable(log, n)
  BY ReadableParts
<1> HIDE DEF both, n
<1>4. both # <<>> /\ both[1] = Magic
  BY <1>1, <1>2
<1>5. Closed(both)
  <2>1. CASE Closed(log)
    <3>1. PICK i \in 2 .. Len(log) : log[i] = Magic
      BY <2>1 DEF Closed
    <3>2. i \in 2 .. Len(both) /\ i \in 1 .. Len(log)
      BY <1>1, <1>2
    <3> QED BY <1>2, <3>1, <3>2 DEF Closed
  <2>2. CASE more # <<>> /\ more[1] = Magic
    <3>1. Len(log) + 1 \in 2 .. Len(both)
      BY <1>1, <1>2, <2>2
    <3> QED BY <1>2, <2>2, <3>1 DEF Closed
  <2> QED BY <2>1, <2>2
<1>6. IsReadable(both, n)
  <2>1. \A i \in 2 .. n : both[i].type # "magic"
    <3> TAKE i \in 2 .. n
    <3>1. i \in 1 .. Len(log)
      BY <1>1, <1>3
    <3> QED BY <1>2, <1>3, <3>1 DEF IsReadable
  <2>2. both[n + 1].type = "magic"
    <3>1. CASE n < Len(log)
      <4>1. n + 1 \in 1 .. Len(log)
        BY <1>1, <1>3, <3>1
      <4> QED BY <1>2, <1>3, <3>1, <4>1 DEF IsReadable
    <3>2. CASE n = Len(log)
      <4>1. ~Closed(log)
        <5>1. \A i \in 2 .. Len(log) : log[i].type # "magic"
          BY <1>3, <3>2 DEF IsReadable
        <5> QED BY <5>1 DEF Closed, Magic
      <4> QED BY <1>2, <3>2, <4>1 DEF Magic
    <3> QED BY <1>1, <1>3, <3>1, <3>2
  <2> QED BY <2>1, <2>2 DEF IsReadable
<1>7. n = Readable(both)
  <2>1. n \in 1 .. Len(both)
    BY <1>1, <1>2, <1>3
  <2> QED BY <1>2, <1>4, <1>6, <2>1, ReadableParts
<1>8. /\ RecordsOf(log) \in Seq(Entry) /\ Len(RecordsOf(log)) = n - 1
      /\ \A i \in 1 .. n - 1 : RecordsOf(log)[i] = log[i + 1]
  BY RecordsParts DEF n
<1>9. /\ RecordsOf(both) \in Seq(Entry) /\ Len(RecordsOf(both)) = n - 1
      /\ \A i \in 1 .. n - 1 : RecordsOf(both)[i] = both[i + 1]
  BY <1>2, <1>4, <1>7, RecordsParts
<1>10. \A i \in 1 .. n - 1 : RecordsOf(both)[i] = RecordsOf(log)[i]
  <2> TAKE i \in 1 .. n - 1
  <2>1. i + 1 \in 1 .. Len(log)
    BY <1>1, <1>3
  <2> QED BY <1>2, <1>8, <1>9, <2>1
<1>11. RecordsOf(both) = RecordsOf(log)
  BY <1>8, <1>9, <1>10, SeqEqual
<1> QED BY <1>5, <1>11 DEF both

-----------------------------------------------------------------------------
(* What is written to a log.                                               *)

Consecutive(rs) == \A i \in 1 .. Len(rs) : rs[i].seq = i - 1

Numbered(rs) ==
  /\ \A i, j \in 1 .. Len(rs) : i < j => rs[i].seq < rs[j].seq
  /\ Consecutive(rs) \/ \A i \in 2 .. Len(rs) : rs[i].type # "save"

WellLogged(rs) == Numbered(rs) /\ \E f : Ran(rs, f)

LogOK(log) ==
  /\ log \in Log
  /\ log # <<>> => log[1] = Magic
  /\ WellLogged(RecordsOf(log))

(* The project wrote all of the log, or none of what is read of it.         *)
Own(log, n, p) ==
  \E rs \in Seq(Entry) : \E f :
    /\ log = IF rs = <<>> THEN <<>> ELSE Plain(rs)
    /\ n = Len(rs) /\ Consecutive(rs)
    /\ Ran(rs, f) /\ Fits(f[n], p)

Foreign(log, n) == log # <<>> /\ (n = 0 \/ Closed(log))

LEMMA NothingIsWellLogged == WellLogged(<<>>)
<1> DEFINE h == [o \in Owners |-> <<>>]
           f == [i \in 0 .. 0 |-> h]
<1>1. h \in Histories
  <2>1. \A o \in Owners : <<>> \in HistoryOf(o)
    <3> TAKE o \in Owners
    <3>1. <<>> \in Seq(CommandsOf(o)) /\ Len(<<>>) = 0
      OBVIOUS
    <3> QED BY <3>1 DEF HistoryOf
  <2>2. h \in [Owners -> Seq(Commands)] /\ \A o \in Owners : h[o] = <<>>
    OBVIOUS
  <2> HIDE DEF h
  <2> QED BY <2>1, <2>2 DEF Histories
<1> HIDE DEF h
<1>2. Ran(<<>>, f)
  <2>1. Len(<<>>) = 0 /\ f \in [0 .. 0 -> Histories]
    BY <1>1
  <2> HIDE DEF f
  <2> QED BY <2>1 DEF Ran
<1>3. Numbered(<<>>)
  BY DEF Numbered, Consecutive
<1> QED BY <1>2, <1>3 DEF WellLogged

LEMMA OneMore ==
  ASSUME NEW rs \in Seq(Entry), NEW r \in Entry
  PROVE  /\ Append(rs, r) \in Seq(Entry) /\ Len(Append(rs, r)) = Len(rs) + 1 /\ Len(rs) \in Nat
         /\ \A i \in 1 .. Len(rs) : Append(rs, r)[i] = rs[i]
         /\ Append(rs, r)[Len(rs) + 1] = r
BY AppendProperties

LEMMA RanLonger ==
  ASSUME NEW rs \in Seq(Entry), NEW f, Ran(rs, f), NEW r \in Entry, NEW g,
         StepOf(r, f[Len(rs)], g)
  PROVE  \E k : Ran(Append(rs, r), k) /\ k[Len(rs) + 1] = g
<1> DEFINE n == Len(rs)
           k == [i \in 0 .. n + 1 |-> IF i = n + 1 THEN g ELSE f[i]]
           more == Append(rs, r)
<1>1. /\ Len(more) = n + 1 /\ n \in Nat
      /\ \A i \in 1 .. n : more[i] = rs[i]
      /\ more[n + 1] = r
  BY OneMore
<1>2. f \in [0 .. n -> Histories] /\ \A i \in 1 .. n : StepOf(rs[i], f[i - 1], f[i])
  BY DEF Ran
<1>3. g \in Histories
  BY <1>1, <1>2, StepIsHistory
<1> HIDE DEF n, more
<1>4. /\ k \in [0 .. n + 1 -> Histories] /\ k[n + 1] = g
      /\ \A i \in 0 .. n : k[i] = f[i]
  BY <1>1, <1>2, <1>3
<1> HIDE DEF k
<1>5. ASSUME NEW i \in 1 .. n + 1 PROVE StepOf(more[i], k[i - 1], k[i])
  <2>1. CASE i = n + 1
    <3>1. i - 1 = n /\ n \in 0 .. n
      BY <1>1, <2>1
    <3>2. k[i - 1] = f[n] /\ k[i] = g /\ more[i] = r
      BY <1>1, <1>4, <2>1, <3>1
    <3> QED BY <3>2 DEF n
  <2>2. CASE i # n + 1
    <3>1. i \in 1 .. n /\ i \in 0 .. n /\ i - 1 \in 0 .. n
      BY <1>1, <2>2
    <3>2. k[i - 1] = f[i - 1] /\ k[i] = f[i] /\ more[i] = rs[i]
      BY <1>1, <1>4, <3>1
    <3> QED BY <1>2, <3>1, <3>2
  <2> QED BY <2>1, <2>2
<1>6. Ran(more, k)
  BY <1>1, <1>4, <1>5 DEF Ran
<1> QED BY <1>4, <1>6 DEF n, more

LEMMA PlainSaved ==
  ASSUME NEW rs \in Seq(Entry), NEW r \in Entry, r.seq # 0
  PROVE  Saved(Plain(rs), r) = Plain(Append(rs, r))
<1>1. Saved(Plain(rs), r) = (<<Magic>> \o rs) \o <<>> \o <<r>>
  BY DEF Saved, Plain
<1> DEFINE S == Entry \cup {Magic}
<1>2. <<Magic>> \in Seq(S) /\ <<r>> \in Seq(S) /\ rs \in Seq(S)
  BY SeqMonotonic
<1> HIDE DEF S
<1>3. Saved(Plain(rs), r) = <<Magic>> \o (rs \o <<r>>)
  BY <1>1, <1>2
<1>4. rs \o <<r>> = Append(rs, r)
  BY <1>2
<1> QED BY <1>3, <1>4 DEF Plain

LEMMA OwnWrites ==
  ASSUME NEW log, NEW n \in Nat, NEW p, Own(log, n, p), NEW r \in Entry, r.seq = n,
         NEW q, Told(r, p, q)
  PROVE  LogOK(Saved(log, r)) /\ Own(Saved(log, r), n + 1, q)
<1>1. PICK rs \in Seq(Entry) : \E f :
        /\ log = IF rs = <<>> THEN <<>> ELSE Plain(rs)
        /\ n = Len(rs) /\ Consecutive(rs)
        /\ Ran(rs, f) /\ Fits(f[n], p)
  BY DEF Own
<1>2. PICK f : Ran(rs, f) /\ Fits(f[n], p)
  BY <1>1
<1> DEFINE more == Append(rs, r)
<1>3. /\ more \in Seq(Entry) /\ Len(more) = n + 1
      /\ \A i \in 1 .. n : more[i] = rs[i]
      /\ more[n + 1] = r
  BY <1>1, OneMore
<1>4. f[n] \in Histories
  BY <1>1, <1>2 DEF Ran
<1>5. PICK g \in Histories : StepOf(r, f[n], g) /\ Fits(g, q)
  BY <1>2, <1>4 DEF Told
<1>6. PICK k : Ran(more, k) /\ k[n + 1] = g
  BY <1>1, <1>2, <1>5, RanLonger
<1>7. Saved(log, r) = Plain(more)
  <2>1. CASE rs = <<>>
    <3>1. r.seq = 0 /\ log = <<>>
      BY <1>1, <2>1
    <3>2. Saved(log, r) = <<>> \o <<Magic>> \o <<r>>
      BY <3>1 DEF Saved
    <3>3. more = <<r>>
      BY <2>1
    <3> QED BY <3>2, <3>3 DEF Plain
  <2>2. CASE rs # <<>>
    <3>1. r.seq # 0 /\ log = Plain(rs)
      BY <1>1, <2>2, EmptySeq
    <3> QED BY <3>1, PlainSaved
  <2> QED BY <2>1, <2>2
<1> HIDE DEF more
<1>8. Consecutive(more)
  <2>1. ASSUME NEW i \in 1 .. n + 1 PROVE more[i].seq = i - 1
    <3>1. CASE i = n + 1
      BY <1>3, <3>1
    <3>2. CASE i # n + 1
      <4>1. i \in 1 .. n /\ more[i] = rs[i]
        BY <1>3, <3>2
      <4> QED BY <1>1, <4>1 DEF Consecutive
    <3> QED BY <3>1, <3>2
  <2> QED BY <1>3, <2>1 DEF Consecutive
<1>9. WellLogged(more)
  <2>1. \A i, j \in 1 .. Len(more) : i < j => more[i].seq < more[j].seq
    BY <1>3, <1>8 DEF Consecutive
  <2> QED BY <1>6, <1>8, <2>1 DEF WellLogged, Numbered
<1>10. /\ Plain(more) \in Log /\ Plain(more) # <<>> /\ Plain(more)[1] = Magic
       /\ RecordsOf(Plain(more)) = more
  BY <1>3, PlainParts, RecordsOfPlain
<1>11. LogOK(Plain(more))
  BY <1>9, <1>10 DEF LogOK
<1>12. more # <<>>
  BY <1>3
<1>13. Own(Plain(more), n + 1, q)
  BY <1>3, <1>5, <1>6, <1>8, <1>12 DEF Own
<1> QED BY <1>7, <1>11, <1>13

LEMMA ForeignWrites ==
  ASSUME NEW log, LogOK(log), NEW n \in Nat, Foreign(log, n), NEW r \in Entry, r.seq = n
  PROVE  /\ LogOK(Saved(log, r)) /\ Foreign(Saved(log, r), n + 1)
         /\ Closed(Saved(log, r))
<1> DEFINE more == (IF r.seq = 0 THEN <<Magic>> ELSE <<>>) \o <<r>>
<1>1. more \in Log /\ more # <<>> /\ (r.seq = 0 => more[1] = Magic)
  <2> DEFINE S == Entry \cup {Magic}
             h == IF r.seq = 0 THEN <<Magic>> ELSE <<>>
             t == <<r>>
  <2>1. /\ h \in Seq(S) /\ t \in Seq(S) /\ Len(t) = 1
        /\ Len(h) = IF r.seq = 0 THEN 1 ELSE 0
        /\ r.seq = 0 => h[1] = Magic
    <3>1. Magic \in S /\ r \in S
      OBVIOUS
    <3> HIDE DEF S
    <3> QED BY <3>1
  <2> HIDE DEF S, h, t
  <2>2. /\ h \o t \in Seq(S) /\ Len(h \o t) = Len(h) + Len(t)
        /\ \A i \in 1 .. Len(h) + Len(t) : (h \o t)[i] = IF i <= Len(h) THEN h[i] ELSE t[i - Len(h)]
    BY <2>1, ConcatProperties
  <2>3. h \o t # <<>> /\ (r.seq = 0 => (h \o t)[1] = Magic)
    BY <2>1, <2>2
  <2> QED BY <2>2, <2>3 DEF h, t, S, Log
<1>2. Saved(log, r) = log \o more
  <2> DEFINE S == Entry \cup {Magic}
             h == IF r.seq = 0 THEN <<Magic>> ELSE <<>>
             t == <<r>>
  <2>1. log \in Seq(S) /\ h \in Seq(S) /\ t \in Seq(S)
    <3>1. log \in Seq(S) /\ Magic \in S /\ r \in S
      BY DEF LogOK, Log
    <3> HIDE DEF S
    <3> QED BY <3>1
  <2>2. Saved(log, r) = (log \o h) \o t /\ more = h \o t
    BY DEF Saved
  <2> HIDE DEF S, h, t, more
  <2>3. (log \o h) \o t = log \o (h \o t)
    BY <2>1
  <2> QED BY <2>2, <2>3
<1>3. log # <<>> /\ log[1] = Magic /\ log \in Log
  BY DEF LogOK, Foreign
<1>4. Closed(log) \/ more[1] = Magic
  BY <1>1 DEF Foreign
<1> HIDE DEF more
<1>5. RecordsOf(log \o more) = RecordsOf(log) /\ Closed(log \o more)
  BY <1>1, <1>3, <1>4, ClosedStays
<1>6. log \o more \in Log /\ log \o more # <<>> /\ (log \o more)[1] = Magic
  <2>1. /\ log \o more \in Log /\ Len(log \o more) = Len(log) + Len(more)
        /\ \A i \in 1 .. Len(log) + Len(more) : (log \o more)[i] = IF i <= Len(log) THEN log[i] ELSE more[i - Len(log)]
    BY <1>1, <1>3, ConcatProperties DEF Log
  <2>2. Len(log) \in Nat /\ Len(more) \in Nat /\ Len(log) >= 1
    BY <1>1, <1>3, EmptySeq DEF Log
  <2>3. (log \o more)[1] = log[1]
    BY <2>1, <2>2
  <2>4. Len(log \o more) >= 1
    BY <2>1, <2>2
  <2> QED BY <1>3, <2>1, <2>3, <2>4
<1>7. LogOK(log \o more)
  BY <1>5, <1>6 DEF LogOK
<1>8. Foreign(log \o more, n + 1)
  BY <1>5, <1>6 DEF Foreign
<1> QED BY <1>2, <1>5, <1>7, <1>8

(* Save points are not made up.                                            *)
HasSave(log) == \E i \in 1 .. Len(log) : log[i].type = "save"

LEMMA SavesOfConcat ==
  ASSUME NEW a \in Log, NEW b \in Log, HasSave(a \o b) PROVE HasSave(a) \/ HasSave(b)
<1>1. /\ Len(a \o b) = Len(a) + Len(b) /\ Len(a) \in Nat /\ Len(b) \in Nat
      /\ \A i \in 1 .. Len(a) + Len(b) : (a \o b)[i] = IF i <= Len(a) THEN a[i] ELSE b[i - Len(a)]
  BY ConcatProperties DEF Log
<1>2. PICK i \in 1 .. Len(a) + Len(b) : (a \o b)[i].type = "save"
  BY <1>1 DEF HasSave
<1>3. CASE i <= Len(a)
  <2>1. i \in 1 .. Len(a) /\ a[i].type = "save"
    BY <1>1, <1>2, <1>3
  <2> QED BY <2>1 DEF HasSave
<1>4. CASE ~(i <= Len(a))
  <2>1. i - Len(a) \in 1 .. Len(b) /\ b[i - Len(a)].type = "save"
    BY <1>1, <1>2, <1>4
  <2> QED BY <2>1 DEF HasSave
<1> QED BY <1>3, <1>4

LEMMA SavesOfSaved ==
  ASSUME NEW log \in Log, NEW r \in Entry, HasSave(Saved(log, r))
  PROVE  HasSave(log) \/ r.type = "save"
<1> DEFINE h == IF r.seq = 0 THEN <<Magic>> ELSE <<>>
           t == <<r>>
<1>1. h \in Log /\ t \in Log
  <2> DEFINE S == Entry \cup {Magic}
  <2>1. Magic \in S /\ r \in S
    OBVIOUS
  <2> HIDE DEF S
  <2>2. h \in Seq(S) /\ t \in Seq(S)
    BY <2>1
  <2> QED BY <2>2 DEF S, Log
<1>2. ~HasSave(h)
  <2>1. Magic.type # "save"
    BY DEF Magic
  <2> QED BY <2>1 DEF HasSave
<1>3. HasSave(t) => r.type = "save"
  BY DEF HasSave
<1>4. Saved(log, r) = (log \o h) \o t
  BY DEF Saved
<1> HIDE DEF h, t
<1>5. log \o h \in Log
  BY <1>1, ConcatProperties DEF Log
<1>6. HasSave(log \o h) \/ HasSave(t)
  BY <1>1, <1>4, <1>5, SavesOfConcat
<1>7. HasSave(log \o h) => HasSave(log) \/ HasSave(h)
  BY <1>1, SavesOfConcat
<1> QED BY <1>2, <1>3, <1>6, <1>7

-----------------------------------------------------------------------------
(* What a recovery replays.                                                *)

LEMMA Greatest ==
  ASSUME NEW n \in Nat, NEW T, T \subseteq 1 .. n, T # {}
  PROVE  Max(T) \in T /\ \A m \in T : m <= Max(T)
<1> DEFINE U == {n - m : m \in T}
<1>1. U \subseteq Nat /\ U # {}
  <2>1. \A m \in T : m \in 1 .. n
    OBVIOUS
  <2>2. \A m \in 1 .. n : n - m \in Nat
    OBVIOUS
  <2>3. \A m \in T : n - m \in Nat
    BY <2>1, <2>2
  <2>4. PICK m : m \in T
    OBVIOUS
  <2>5. n - m \in U
    BY <2>4
  <2> QED BY <2>3, <2>5
<1>2. PICK k \in U : \A m \in U : k <= m
  BY <1>1, Least
<1>3. PICK x \in T : k = n - x
  BY <1>2
<1>4. \A m \in T : x >= m
  <2> TAKE m \in T
  <2>1. n - m \in U
    OBVIOUS
  <2>2. n - x <= n - m
    BY <1>2, <1>3, <2>1
  <2> QED BY <2>2
<1>5. Max(T) \in T /\ \A m \in T : Max(T) >= m
  BY <1>4 DEF Max
<1>6. \A m \in T : m \in Nat
  OBVIOUS
<1> HIDE DEF U
<1>7. \A m \in T : m <= Max(T)
  BY <1>5, <1>6
<1> QED BY <1>5, <1>7

LEMMA OffsetParts ==
  ASSUME Records \in Seq(Entry), Numbered(Records)
  PROVE  /\ Offset \in Nat
         /\ \A i \in 1 .. Len(Records) : IsReplayed(i) <=> Records[i].type # "none" /\ i > Offset
         /\ \A i \in 1 .. Len(Records) : i > Offset + 1 => Records[i].type # "save"
<1> DEFINE n == Len(Records)
<1>1. n \in Nat /\ SavePoints \subseteq 1 .. n
      /\ \A i \in 1 .. n : Records[i] \in Entry /\ Records[i].seq \in Nat
  BY ElementOfSeq DEF SavePoints, Entry
<1>2. /\ \A i, j \in 1 .. n : i < j => Records[i].seq < Records[j].seq
      /\ Consecutive(Records) \/ \A i \in 2 .. n : Records[i].type # "save"
  BY DEF Numbered
<1>3. ASSUME NEW i \in 1 .. n
      PROVE  IsReplayed(i) <=> Records[i].type # "none" /\ Offset <= Records[i].seq
  <2>1. i = 1 \/ Records[i - 1].seq < Records[i].seq
    <3>1. CASE i # 1
      <4>1. i - 1 \in 1 .. n /\ i - 1 < i
        BY <1>1, <3>1
      <4> QED BY <1>2, <4>1
    <3> QED BY <3>1
  <2> QED BY <2>1 DEF IsReplayed
<1>4. CASE SavePoints = {}
  <2>1. Offset = 0
    BY <1>4 DEF Offset
  <2>2. \A i \in 1 .. n : Records[i].type # "save"
    BY <1>4 DEF SavePoints
  <2> QED BY <1>1, <1>3, <2>1, <2>2
<1>5. CASE SavePoints # {}
  <2>1. Max(SavePoints) \in SavePoints /\ \A m \in SavePoints : m <= Max(SavePoints)
    BY <1>1, <1>5, Greatest
  <2>2. Offset = Max(SavePoints) - 1 /\ Max(SavePoints) \in 1 .. n
    BY <1>1, <1>5, <2>1 DEF Offset
  <2>3. \A i \in 1 .. n : i > Offset + 1 => Records[i].type # "save"
    <3> TAKE i \in 1 .. n
    <3>1. i \in SavePoints => i <= Max(SavePoints)
      BY <2>1
    <3> QED BY <1>1, <2>2, <3>1 DEF SavePoints
  <2>4. \A i \in 1 .. n : i > Offset <=> Offset <= Records[i].seq
    <3>1. CASE Consecutive(Records)
      <4>1. \A i \in 1 .. n : Records[i].seq = i - 1
        BY <3>1 DEF Consecutive
      <4> QED BY <1>1, <2>2, <4>1
    <3>2. CASE \A i \in 2 .. n : Records[i].type # "save"
      <4>1. Max(SavePoints) = 1
        <5>1. Max(SavePoints) \in 1 .. n /\ Records[Max(SavePoints)].type = "save"
          BY <2>1, <2>2 DEF SavePoints
        <5>2. Max(SavePoints) \notin 2 .. n
          BY <3>2, <5>1
        <5> QED BY <1>1, <5>1, <5>2
      <4>2. Offset = 0
        BY <2>2, <4>1
      <4> QED BY <1>1, <4>2
    <3> QED BY <1>2, <3>1, <3>2
  <2> QED BY <1>1, <1>3, <2>2, <2>3, <2>4
<1> QED BY <1>4, <1>5

Start == [project |-> NewProject, copy |-> <<Magic>>]

ReplayedNext(before, i) ==
  IF IsReplayed(i)
  THEN [project |-> Replay(before.project, Records[i]), copy |-> Saved(before.copy, Records[i])]
  ELSE before

ReplaysTo(g, m) ==
  /\ g = [i \in 0 .. m |-> g[i]]
  /\ g[0] = Start
  /\ \A i \in 1 .. m : g[i] = ReplayedNext(g[i - 1], i)

LEMMA SomeReplay == ASSUME NEW n \in Nat PROVE \E g : ReplaysTo(g, n)
<1> DEFINE T == {m \in Nat : ~ \E g : ReplaysTo(g, m)}
<1>1. SUFFICES ASSUME n \in T PROVE FALSE
  OBVIOUS
<1>2. PICK m \in T : \A k \in T : m <= k
  <2>1. T \subseteq Nat /\ T # {}
    BY <1>1
  <2> HIDE DEF T
  <2> QED BY <2>1, Least
<1>3. CASE m = 0
  <2> DEFINE g == [i \in 0 .. 0 |-> Start]
  <2>1. g = [i \in 0 .. 0 |-> g[i]] /\ g[0] = Start
    OBVIOUS
  <2> HIDE DEF g
  <2>2. ReplaysTo(g, 0)
    BY <2>1 DEF ReplaysTo
  <2> QED BY <1>3, <2>2
<1>4. CASE m # 0
  <2> DEFINE k == m - 1
  <2>1. k \in Nat /\ ~(m <= k) /\ m = k + 1
    BY <1>4
  <2>2. PICK f : ReplaysTo(f, k)
    <3>1. k \notin T
      BY <1>2, <2>1
    <3> QED BY <2>1, <3>1
  <2> HIDE DEF k
  <2> DEFINE g == [i \in 0 .. k + 1 |-> IF i = k + 1 THEN ReplayedNext(f[k], k + 1) ELSE f[i]]
  <2>3. /\ g = [i \in 0 .. k + 1 |-> g[i]]
        /\ g[k + 1] = ReplayedNext(f[k], k + 1)
        /\ \A i \in 0 .. k : g[i] = f[i]
    BY <2>1
  <2> HIDE DEF g
  <2>4. g[0] = Start
    <3>1. 0 \in 0 .. k
      BY <2>1
    <3>2. f[0] = Start
      BY <2>2 DEF ReplaysTo
    <3> QED BY <2>3, <3>1, <3>2
  <2>5. ASSUME NEW i \in 1 .. k + 1 PROVE g[i] = ReplayedNext(g[i - 1], i)
    <3>1. CASE i = k + 1
      <4>1. i - 1 = k /\ k \in 0 .. k
        BY <2>1, <3>1
      <4>2. g[i - 1] = f[k]
        BY <2>3, <4>1
      <4> QED BY <2>3, <3>1, <4>2
    <3>2. CASE i # k + 1
      <4>1. i \in 1 .. k /\ i \in 0 .. k /\ i - 1 \in 0 .. k
        BY <2>1, <3>2
      <4>2. f[i] = ReplayedNext(f[i - 1], i)
        BY <2>2, <4>1 DEF ReplaysTo
      <4>3. g[i] = f[i] /\ g[i - 1] = f[i - 1]
        BY <2>3, <4>1
      <4> QED BY <4>2, <4>3
    <3> QED BY <3>1, <3>2
  <2>6. ReplaysTo(g, m)
    BY <2>1, <2>3, <2>4, <2>5 DEF ReplaysTo
  <2> QED BY <1>2, <2>6
<1> QED BY <1>3, <1>4

LEMMA ReplayedSteps ==
  ASSUME Len(Records) \in Nat
  PROVE  /\ Replayed[0] = Start
         /\ \A i \in 1 .. Len(Records) : Replayed[i] = ReplayedNext(Replayed[i - 1], i)
<1> DEFINE n == Len(Records)
           Body(g) == [i \in 0 .. n |->
                         IF i = 0 THEN [project |-> NewProject, copy |-> <<Magic>>]
                         ELSE IF IsReplayed(i)
                              THEN [project |-> Replay(g[i - 1].project, Records[i]),
                                    copy |-> Saved(g[i - 1].copy, Records[i])]
                              ELSE g[i - 1]]
<1>1. PICK g : ReplaysTo(g, n)
  BY SomeReplay
<1>2. g = Body(g)
  <2>1. /\ g = [i \in 0 .. n |-> g[i]]
        /\ g[0] = Start
        /\ \A i \in 1 .. n : g[i] = ReplayedNext(g[i - 1], i)
    BY <1>1 DEF ReplaysTo
  <2>2. \A i \in 0 .. n : g[i] = IF i = 0 THEN [project |-> NewProject, copy |-> <<Magic>>]
                         ELSE IF IsReplayed(i)
                              THEN [project |-> Replay(g[i - 1].project, Records[i]),
                                    copy |-> Saved(g[i - 1].copy, Records[i])]
                              ELSE g[i - 1]
    <3> TAKE i \in 0 .. n
    <3>1. CASE i = 0
      BY <2>1, <3>1 DEF Start
    <3>2. CASE i # 0
      <4>1. i \in 1 .. n
        BY <3>2
      <4> QED BY <2>1, <3>2, <4>1 DEF ReplayedNext
    <3> QED BY <3>1, <3>2
  <2> QED BY <2>1, <2>2
<1>3. Replayed = Body(Replayed)
  BY <1>2 DEF Replayed
<1>4. \A i \in 0 .. n : Replayed[i] = IF i = 0 THEN [project |-> NewProject, copy |-> <<Magic>>]
                         ELSE IF IsReplayed(i)
                              THEN [project |-> Replay(Replayed[i - 1].project, Records[i]),
                                    copy |-> Saved(Replayed[i - 1].copy, Records[i])]
                              ELSE Replayed[i - 1]
  BY <1>3
<1>5. 0 \in 0 .. n
  OBVIOUS
<1>6. Replayed[0] = Start
  BY <1>4, <1>5 DEF Start
<1>7. ASSUME NEW i \in 1 .. n PROVE Replayed[i] = ReplayedNext(Replayed[i - 1], i)
  <2>1. i \in 0 .. n /\ i # 0
    OBVIOUS
  <2> QED BY <1>4, <2>1 DEF ReplayedNext
<1> QED BY <1>6, <1>7

(* The records rs that a recovery has copied after i records of the log:    *)
(* numbered upwards up to record i, with no save point after the first.     *)
Rising(rs, i) ==
  /\ \A j, k \in 1 .. Len(rs) : j < k => rs[j].seq < rs[k].seq
  /\ \A j \in 2 .. Len(rs) : rs[j].type # "save"
  /\ rs # <<>> => /\ i > Offset /\ i >= 1
                  /\ \A j \in 1 .. Len(rs) : rs[j].seq <= Records[i].seq

Spells(rs, h) == \E g : Ran(rs, g) /\ g[Len(rs)] = h

CopyOK(log, i, h) ==
  \/ LogOK(log) /\ log # <<>> /\ Closed(log)
  \/ \E rs \in Seq(Entry) : log = Plain(rs) /\ Rising(rs, i) /\ Spells(rs, h)

LEMMA NewCopy ==
  ASSUME NEW i, NEW h \in Histories PROVE CopyOK(<<Magic>>, i, h)
<1> DEFINE g == [j \in 0 .. 0 |-> h]
<1>1. <<>> \in Seq(Entry) /\ Len(<<>>) = 0 /\ Plain(<<>>) = <<Magic>>
  <2>1. <<Magic>> \in Seq({Magic})
    OBVIOUS
  <2> QED BY <2>1, ConcatEmptySeq DEF Plain
<1>2. Rising(<<>>, i)
  BY <1>1 DEF Rising
<1>3. g \in [0 .. 0 -> Histories] /\ g[0] = h
  OBVIOUS
<1> HIDE DEF g
<1>4. Ran(<<>>, g) /\ g[Len(<<>>)] = h
  BY <1>1, <1>3 DEF Ran
<1>5. Spells(<<>>, h)
  BY <1>4 DEF Spells
<1> QED BY <1>1, <1>2, <1>5 DEF CopyOK

LEMMA CopyIsLog ==
  ASSUME NEW log, NEW i, NEW h, CopyOK(log, i, h)
  PROVE  LogOK(log) /\ log # <<>>
<1>1. CASE LogOK(log) /\ log # <<>> /\ Closed(log)
  BY <1>1
<1>2. ASSUME NEW rs \in Seq(Entry), log = Plain(rs), Rising(rs, i), Spells(rs, h)
      PROVE  LogOK(log) /\ log # <<>>
  <2>1. WellLogged(rs)
    BY <1>2 DEF Rising, Spells, WellLogged, Numbered
  <2>2. log \in Log /\ log # <<>> /\ log[1] = Magic /\ RecordsOf(log) = rs
    BY <1>2, PlainParts, RecordsOfPlain
  <2> QED BY <2>1, <2>2 DEF LogOK
<1> QED BY <1>1, <1>2 DEF CopyOK

LEMMA CopyGrows ==
  ASSUME Records \in Seq(Entry), Numbered(Records),
         NEW i \in 1 .. Len(Records), i > Offset,
         NEW log, NEW h \in Histories, CopyOK(log, i - 1, h),
         NEW g, StepOf(Records[i], h, g)
  PROVE  CopyOK(Saved(log, Records[i]), i, g)
<1> DEFINE r == Records[i]
<1>1. r \in Entry /\ r.seq \in Nat /\ Len(Records) \in Nat
  BY ElementOfSeq DEF Entry
<1>2. /\ Offset \in Nat
      /\ i > Offset + 1 => r.type # "save"
  BY OffsetParts
<1>3. i > 1 => Records[i - 1].seq < r.seq /\ Records[i - 1].seq \in Nat
  <2>1. i > 1 => i - 1 \in 1 .. Len(Records) /\ i - 1 < i
    BY <1>1
  <2>2. i > 1 => Records[i - 1] \in Entry
    BY <2>1, ElementOfSeq
  <2> QED BY <2>1, <2>2 DEF Numbered, Entry
<1>4. StepOf(r, h, g)
  OBVIOUS
<1> HIDE DEF r
<1>5. CASE Closed(log) \/ r.seq = 0
  <2>1. LogOK(log) /\ log # <<>>
    BY CopyIsLog
  <2>2. Foreign(log, r.seq)
    BY <1>5, <2>1 DEF Foreign
  <2>3. LogOK(Saved(log, r)) /\ Closed(Saved(log, r)) /\ Foreign(Saved(log, r), r.seq + 1)
    BY <1>1, <2>1, <2>2, ForeignWrites
  <2> QED BY <2>3 DEF CopyOK, Foreign, r
<1>6. CASE ~Closed(log) /\ r.seq # 0
  <2>1. PICK rs \in Seq(Entry) : log = Plain(rs) /\ Rising(rs, i - 1) /\ Spells(rs, h)
    BY <1>6 DEF CopyOK
  <2> DEFINE more == Append(rs, r)
  <2>2. /\ more \in Seq(Entry) /\ Len(more) = Len(rs) + 1 /\ Len(rs) \in Nat
        /\ \A j \in 1 .. Len(rs) : more[j] = rs[j]
        /\ more[Len(rs) + 1] = r
    BY <1>1, OneMore
  <2>3. Saved(log, r) = Plain(more)
    BY <1>1, <1>6, <2>1, PlainSaved
  <2>4. Spells(more, g)
    <3>1. PICK f : Ran(rs, f) /\ f[Len(rs)] = h
      BY <2>1 DEF Spells
    <3>2. StepOf(r, f[Len(rs)], g)
      BY <1>4, <3>1
    <3>3. PICK k : Ran(more, k) /\ k[Len(rs) + 1] = g
      BY ONLY <1>1, <3>1, <3>2, RanLonger, rs \in Seq(Entry) DEF more
    <3> QED BY <2>2, <3>3 DEF Spells
  <2> HIDE DEF more
  <2>5. \A j \in 1 .. Len(rs) : /\ rs[j].seq < r.seq /\ i > Offset + 1
                                /\ rs[j].seq \in Nat
    <3> TAKE j \in 1 .. Len(rs)
    <3>1. rs # <<>>
      BY <2>2, EmptySeq
    <3>2. i - 1 > Offset /\ i - 1 >= 1 /\ rs[j].seq <= Records[i - 1].seq
      BY <2>1, <3>1 DEF Rising
    <3>3. rs[j] \in Entry
      BY ElementOfSeq
    <3>4. rs[j].seq \in Nat
      BY <3>3 DEF Entry
    <3> QED BY <1>1, <1>2, <1>3, <3>2, <3>4
  <2>6. ASSUME NEW j \in 1 .. Len(more), NEW k \in 1 .. Len(more), j < k
        PROVE  more[j].seq < more[k].seq
    <3>1. j \in 1 .. Len(rs) /\ more[j] = rs[j]
      BY <2>2, <2>6
    <3>2. CASE k \in 1 .. Len(rs)
      BY <2>1, <2>2, <2>6, <3>1, <3>2 DEF Rising
    <3>3. CASE k = Len(rs) + 1
      BY <2>2, <2>5, <3>1, <3>3
    <3> QED BY <2>2, <3>2, <3>3
  <2>7. ASSUME NEW j \in 2 .. Len(more) PROVE more[j].type # "save"
    <3>1. CASE j \in 2 .. Len(rs)
      <4>1. j \in 1 .. Len(rs)
        BY <2>2, <3>1
      <4> QED BY <2>1, <2>2, <3>1, <4>1 DEF Rising
    <3>2. CASE j = Len(rs) + 1
      <4>1. 1 \in 1 .. Len(rs)
        BY <2>2, <3>2
      <4> QED BY <1>2, <2>2, <2>5, <3>2, <4>1
    <3> QED BY <2>2, <3>1, <3>2
  <2>8. \A j \in 1 .. Len(more) : more[j].seq <= r.seq
    <3> TAKE j \in 1 .. Len(more)
    <3>1. CASE j \in 1 .. Len(rs)
      BY <1>1, <2>2, <2>5, <3>1
    <3>2. CASE j = Len(rs) + 1
      BY <1>1, <2>2, <3>2
    <3> QED BY <2>2, <3>1, <3>2
  <2>9. Rising(more, i)
    BY <2>6, <2>7, <2>8 DEF Rising, r
  <2>10. CopyOK(Saved(log, r), i, g)
    BY <2>2, <2>3, <2>4, <2>9 DEF CopyOK
  <2> QED BY <2>10 DEF r
<1> QED BY <1>5, <1>6

LEMMA CopyStays ==
  ASSUME Records \in Seq(Entry), Numbered(Records),
         NEW i \in 1 .. Len(Records), NEW log, NEW h, CopyOK(log, i - 1, h)
  PROVE  CopyOK(log, i, h)
<1>1. CASE LogOK(log) /\ log # <<>> /\ Closed(log)
  BY <1>1 DEF CopyOK
<1>2. ASSUME NEW rs \in Seq(Entry), log = Plain(rs), Rising(rs, i - 1), Spells(rs, h)
      PROVE  CopyOK(log, i, h)
  <2>1. CASE rs = <<>>
    BY <1>2, <2>1 DEF Rising, CopyOK
  <2>2. CASE rs # <<>>
    <3>1. i - 1 > Offset /\ i - 1 >= 1 /\ \A j \in 1 .. Len(rs) : rs[j].seq <= Records[i - 1].seq
      BY <1>2, <2>2 DEF Rising
    <3>2. Len(Records) \in Nat /\ Offset \in Nat
      BY OffsetParts
    <3>3. i - 1 \in 1 .. Len(Records) /\ i - 1 < i
      BY <3>1, <3>2
    <3>4. Records[i - 1].seq < Records[i].seq
      BY <3>3 DEF Numbered
    <3>5. Records[i - 1] \in Entry /\ Records[i] \in Entry
      BY <3>3, ElementOfSeq
    <3>6. Records[i - 1].seq \in Nat /\ Records[i].seq \in Nat
      BY <3>5 DEF Entry
    <3>7. \A j \in 1 .. Len(rs) : rs[j].seq <= Records[i].seq
      <4> TAKE j \in 1 .. Len(rs)
      <4>1. rs[j] \in Entry
        BY ElementOfSeq
      <4>2. rs[j].seq \in Nat
        BY <4>1 DEF Entry
      <4> QED BY <3>1, <3>4, <3>6, <4>2
    <3>8. i > Offset /\ i >= 1
      BY <3>1, <3>2
    <3>9. Rising(rs, i)
      BY <1>2, <3>7, <3>8 DEF Rising
    <3> QED BY <1>2, <3>9 DEF CopyOK
  <2> QED BY <2>1, <2>2
<1> QED BY <1>1, <1>2 DEF CopyOK

ReplayedOK(i, h) ==
  /\ i <= Offset => Replayed[i] = Start
  /\ Rep(Replayed[i].project, h)
  /\ CopyOK(Replayed[i].copy, i, h)
  /\ HasSave(Replayed[i].copy) => HasSave(Records)

LEMMA ReplayStep ==
  ASSUME Records \in Seq(Entry), Numbered(Records), HasSave(Records) => SavedFile,
         NEW i \in 1 .. Len(Records), NEW h \in Histories, ReplayedOK(i - 1, h),
         NEW g \in Histories, StepOf(Records[i], h, g)
  PROVE  ReplayedOK(i, g)
<1> DEFINE r == Records[i]
           before == Replayed[i - 1]
<1>1. r \in Entry /\ Len(Records) \in Nat /\ Offset \in Nat
  BY ElementOfSeq, OffsetParts
<1>2. Replayed[i] = ReplayedNext(before, i)
  BY <1>1, ReplayedSteps
<1>3. IsReplayed(i) <=> r.type # "none" /\ i > Offset
  BY OffsetParts
<1>4. CASE IsReplayed(i)
  <2>1. Replayed[i] = [project |-> Replay(before.project, r), copy |-> Saved(before.copy, r)]
    BY <1>2, <1>4 DEF ReplayedNext
  <2>2. r.type = "save" => HasSave(Records)
    BY DEF HasSave
  <2>3. Rep(before.project, h) /\ CopyOK(before.copy, i - 1, h)
    BY DEF ReplayedOK
  <2>4. Rep(Replay(before.project, r), g)
    BY <1>1, <1>3, <1>4, <2>2, <2>3, ReplayFollows
  <2>5. CopyOK(Saved(before.copy, r), i, g)
    BY <1>3, <1>4, <2>3, CopyGrows
  <2>6. HasSave(Saved(before.copy, r)) => HasSave(Records)
    <3>1. before.copy \in Log
      BY <2>3, CopyIsLog DEF LogOK
    <3> QED BY <1>1, <2>2, <3>1, SavesOfSaved DEF ReplayedOK
  <2>7. ~(i <= Offset)
    BY <1>1, <1>3, <1>4
  <2> HIDE DEF before, r
  <2> QED BY <2>1, <2>4, <2>5, <2>6, <2>7 DEF ReplayedOK
<1>5. CASE ~IsReplayed(i)
  <2>1. Replayed[i] = before
    BY <1>2, <1>5 DEF ReplayedNext
  <2>2. CASE i <= Offset
    <3>1. before = Start
      BY <1>1, <2>2 DEF ReplayedOK
    <3>2. Start.project = NewProject /\ Start.copy = <<Magic>>
      BY DEF Start
    <3>3. Rep(NewProject, g) /\ CopyOK(<<Magic>>, i, g)
      BY NewFollows, NewCopy
    <3>4. HasSave(Start.copy) => HasSave(Records)
      BY <3>1 DEF ReplayedOK
    <3> QED BY <2>1, <3>1, <3>2, <3>3, <3>4 DEF ReplayedOK
  <2>3. CASE ~(i <= Offset)
    <3>1. r.type = "none"
      BY <1>1, <1>3, <1>5, <2>3
    <3>2. g = h
      BY <3>1 DEF StepOf
    <3>3. CopyOK(before.copy, i, h)
      BY CopyStays DEF ReplayedOK
    <3> QED BY <2>1, <2>3, <3>2, <3>3 DEF ReplayedOK
  <2> QED BY <2>2, <2>3
<1> QED BY <1>4, <1>5

LEMMA ReplayIsSound ==
  ASSUME Records \in Seq(Entry), WellLogged(Records), HasSave(Records) => SavedFile
  PROVE  LET last == Replayed[Len(Records)]
         IN  /\ Sound(last.project)
             /\ LogOK(last.copy) /\ last.copy # <<>>
             /\ HasSave(last.copy) => HasSave(Records)
<1> DEFINE n == Len(Records)
<1>1. PICK f : Ran(Records, f)
  BY DEF WellLogged
<1>2. /\ f \in [0 .. n -> Histories] /\ n \in Nat
      /\ \A i \in 1 .. n : StepOf(Records[i], f[i - 1], f[i])
  BY <1>1 DEF Ran
<1>3. Numbered(Records)
  BY DEF WellLogged
<1>4. ReplayedOK(0, f[0])
  <2>1. Replayed[0] = Start /\ Start.project = NewProject /\ Start.copy = <<Magic>>
    BY <1>2, ReplayedSteps DEF Start
  <2>2. f[0] \in Histories
    BY <1>2
  <2>3. Rep(NewProject, f[0]) /\ CopyOK(<<Magic>>, 0, f[0])
    BY <2>2, NewFollows, NewCopy
  <2>4. ~HasSave(<<Magic>>)
    BY DEF HasSave, Magic
  <2> QED BY <2>1, <2>3, <2>4 DEF ReplayedOK
<1> DEFINE T == {i \in 0 .. n : ~ReplayedOK(i, f[i])}
<1>5. T = {}
  <2> SUFFICES ASSUME T # {} PROVE FALSE
    OBVIOUS
  <2>1. PICK m \in T : \A k \in T : m <= k
    <3>1. T \subseteq Nat
      BY <1>2
    <3> HIDE DEF T
    <3> QED BY <3>1, Least
  <2>2. m # 0
    BY <1>4, <2>1
  <2> DEFINE k == m - 1
  <2>3. k \in 0 .. n /\ ~(m <= k) /\ m \in 1 .. n
    BY <1>2, <2>2
  <2>4. k \notin T
    BY <2>1, <2>3
  <2>5. ReplayedOK(m - 1, f[m - 1])
    BY <2>3, <2>4
  <2>6. f[m - 1] \in Histories /\ f[m] \in Histories /\ StepOf(Records[m], f[m - 1], f[m])
    BY <1>2, <2>3
  <2>7. ReplayedOK(m, f[m])
    BY <1>3, <2>3, <2>5, <2>6, ReplayStep
  <2> QED BY <2>1, <2>7
<1>6. ReplayedOK(n, f[n])
  <2>1. n \in 0 .. n
    BY <1>2
  <2> QED BY <1>5, <2>1
<1> QED BY <1>6, CopyIsLog DEF ReplayedOK, Rep

-----------------------------------------------------------------------------
(* The invariant.  The documents and the stacks of the two projects are     *)
(* sound; the log tells what was done, be it the one of this project or one *)
(* that was left by a project before it.                                   *)
Projects ==
  /\ Sound(project) /\ Sound(lost)
  /\ active \in Owners /\ (active = "model" => project.loaded)

Simple ==
  /\ phase \in {"running", "crashed"}
  /\ editing \in BOOLEAN /\ journaling \in BOOLEAN
  /\ sequence \in 0 .. MaxRecords /\ crashes \in 0 .. MaxCrashes
  /\ file = NoFile \/ SavedFile

Logged ==
  /\ LogOK(journal)
  /\ HasSave(journal) => SavedFile
  /\ phase = "running" /\ journaling => Own(journal, sequence, project) \/ Foreign(journal, sequence)
  /\ phase = "crashed" => sequence = 0

Inv == Simple /\ Projects /\ Logged

LEMMA RecordIsEntry ==
  ASSUME sequence \in Nat, NEW t \in Types, NEW of \in Commands \cup Owners \cup {"none"},
         t = "redo" => of \in Commands, t = "undo" => of \in Owners
  PROVE  /\ Record(t, of) \in Entry /\ Record(t, of).type = t /\ Record(t, of).of = of
         /\ Record(t, of).seq = sequence
BY DEF Record, Entry

LEMMA FreshLog ==
  ASSUME NEW p, Sound(p) PROVE LogOK(<<>>) /\ ~HasSave(<<>>) /\ Own(<<>>, 0, p)
<1>1. PICK h \in Histories : Fits(h, p)
  BY SomeHistoryFits
<1> DEFINE f == [i \in 0 .. 0 |-> h]
<1>2. f \in [0 .. 0 -> Histories] /\ f[0] = h
  OBVIOUS
<1> HIDE DEF f
<1>3. <<>> \in Seq(Entry) /\ <<>> \in Log /\ Len(<<>>) = 0
  BY DEF Log
<1>4. Ran(<<>>, f) /\ Consecutive(<<>>)
  BY <1>2, <1>3 DEF Ran, Consecutive
<1>5. Own(<<>>, 0, p)
  BY <1>1, <1>2, <1>3, <1>4 DEF Own
<1>6. RecordsOf(<<>>) = <<>>
  BY DEF RecordsOf
<1> QED BY <1>3, <1>5, <1>6, NothingIsWellLogged DEF LogOK, HasSave

LEMMA JournalRecords ==
  ASSUME LogOK(journal)
  PROVE  /\ Records \in Seq(Entry) /\ WellLogged(Records)
         /\ HasSave(Records) => HasSave(journal)
<1>1. CASE journal = <<>>
  <2>1. Records = <<>>
    BY <1>1 DEF Records, RecordsOf
  <2>2. ~HasSave(<<>>) /\ <<>> \in Seq(Entry)
    BY DEF HasSave
  <2> QED BY <2>1, <2>2 DEF LogOK, Records
<1>2. CASE journal # <<>>
  <2>1. /\ Records \in Seq(Entry) /\ Len(Records) = Readable(journal) - 1
        /\ \A i \in 1 .. Readable(journal) - 1 : Records[i] = journal[i + 1]
    BY <1>2, RecordsParts DEF LogOK, Records
  <2>2. Readable(journal) \in 1 .. Len(journal) /\ Len(journal) \in Nat
    BY <1>2, ReadableParts DEF LogOK, Log
  <2>3. ASSUME HasSave(Records) PROVE HasSave(journal)
    <3>1. PICK i \in 1 .. Readable(journal) - 1 : Records[i].type = "save"
      BY <2>1, <2>3 DEF HasSave
    <3>2. i + 1 \in 1 .. Len(journal)
      BY <2>2
    <3> QED BY <2>1, <3>1, <3>2 DEF HasSave
  <2> QED BY <2>1, <2>3 DEF LogOK, Records
<1> QED BY <1>1, <1>2

(* A step of the project in use, and the record that is written of it.      *)
LEMMA WriteKeeps ==
  ASSUME Simple, Logged, phase = "running",
         NEW r \in Entry, r.seq = sequence, writeRedoMessage(r), Told(r, project, project')
  PROVE  /\ LogOK(journal') /\ sequence' \in 0 .. MaxRecords
         /\ HasSave(journal') => HasSave(journal) \/ r.type = "save"
         /\ journaling => Own(journal', sequence', project') \/ Foreign(journal', sequence')
<1>1. sequence \in Nat /\ MaxRecords \in Nat /\ sequence <= MaxRecords
  BY BoundsAssumption DEF Simple
<1>2. CASE journaling
  <2>1. journal' = Saved(journal, r) /\ sequence' = sequence + 1 /\ sequence < MaxRecords
    BY <1>2 DEF writeRedoMessage
  <2>2. LogOK(journal) /\ (Own(journal, sequence, project) \/ Foreign(journal, sequence))
    BY <1>2 DEF Logged
  <2>3. HasSave(Saved(journal, r)) => HasSave(journal) \/ r.type = "save"
    BY <2>2, SavesOfSaved DEF LogOK
  <2>4. /\ LogOK(Saved(journal, r))
        /\ Own(Saved(journal, r), sequence + 1, project') \/ Foreign(Saved(journal, r), sequence + 1)
    <3>1. CASE Own(journal, sequence, project)
      BY <1>1, <3>1, OwnWrites
    <3>2. CASE Foreign(journal, sequence)
      BY <1>1, <2>2, <3>2, ForeignWrites
    <3> QED BY <2>2, <3>1, <3>2
  <2>5. sequence + 1 \in 0 .. MaxRecords
    BY <1>1, <2>1
  <2> QED BY <2>1, <2>3, <2>4, <2>5
<1>3. CASE ~journaling
  BY <1>3 DEF writeRedoMessage, Logged, Simple
<1> QED BY <1>2, <1>3

LEMMA StepInUse ==
  ASSUME Inv, phase = "running", UNCHANGED <<phase, journaling, file, lost, crashes>>,
         editing' \in BOOLEAN, Sound(project'), active' \in Owners,
         active' = "model" => project'.loaded,
         NEW r \in Entry, r.seq = sequence, r.type # "save",
         writeRedoMessage(r), Told(r, project, project')
  PROVE  Inv'
<1>1. /\ LogOK(journal') /\ sequence' \in 0 .. MaxRecords
      /\ HasSave(journal') => HasSave(journal)
      /\ journaling => Own(journal', sequence', project') \/ Foreign(journal', sequence')
  BY WriteKeeps DEF Inv
<1>2. Simple'
  BY <1>1 DEF Inv, Simple, SavedFile
<1>3. Projects'
  BY DEF Inv, Projects
<1>4. Logged'
  BY <1>1 DEF Inv, Logged, SavedFile
<1> QED BY <1>2, <1>3, <1>4 DEF Inv

LEMMA QuietStep ==
  ASSUME Inv, phase = "running",
         UNCHANGED <<phase, project, journaling, sequence, journal, file, lost, crashes>>,
         editing' \in BOOLEAN, active' \in Owners, active' = "model" => project'.loaded
  PROVE  Inv'
BY DEF Inv, Simple, Projects, Logged, SavedFile

LEMMA InvParts ==
  ASSUME Inv
  PROVE  /\ Sound(project) /\ Sound(lost) /\ sequence \in Nat
         /\ active \in Owners /\ (active = "model" => project.loaded)
         /\ editing \in BOOLEAN
         /\ \A o \in Owners : o \in Commands \cup Owners \cup {"none"}
BY BoundsAssumption DEF Inv, Simple, Projects

LEMMA LoadModelKeeps == ASSUME Inv, LoadModel PROVE Inv'
<1>1. /\ phase = "running" /\ project' = [project EXCEPT !.loaded = TRUE] /\ active' = "model"
      /\ writeRedoMessage(Record("load", "none"))
      /\ UNCHANGED <<phase, editing, edits, journaling, file, lost, crashes>>
  BY DEF LoadModel
<1>2. /\ project' \in ProjectType /\ project'.loaded
      /\ project'.doc = project.doc /\ project'.stack = project.stack
  BY <1>1, InvParts DEF Sound, ProjectType
<1>3. Sound(project')
  BY <1>2, InvParts DEF Sound
<1> DEFINE r == Record("load", "none")
<1>4. r \in Entry /\ r.type = "load" /\ r.seq = sequence
  BY InvParts, RecordIsEntry DEF Types
<1> HIDE DEF r
<1>5. Told(r, project, project')
  BY <1>2, <1>4, SameIsTold
<1>6. "model" \in Owners
  BY DEF Owners
<1> QED BY <1>1, <1>2, <1>3, <1>4, <1>5, <1>6, InvParts, StepInUse DEF r

LEMMA SetActiveModelKeeps == ASSUME Inv, NEW o \in Owners, SetActiveModel(o) PROVE Inv'
BY InvParts, QuietStep DEF SetActiveModel

LEMMA SetModelEditingKeeps ==
  ASSUME Inv, NEW value \in BOOLEAN, SetModelEditingEnabled(value) PROVE Inv'
BY InvParts, QuietStep DEF SetModelEditingEnabled

LEMMA PushUndoKeeps == ASSUME Inv, NEW c \in Commands, PushUndo(c) PROVE Inv'
<1>1. /\ phase = "running" /\ c \in Fresh /\ OwnerOf(c) = active
      /\ project' = Pushed1(project, active, c) /\ writeRedoMessage(RedoRecord(c))
      /\ UNCHANGED <<phase, active, editing, edits, journaling, file, lost, crashes>>
  BY DEF PushUndo
<1>2. c \in CommandsOf(active) /\ c \notin project.doc
      /\ \A o \in Owners : c \notin ToSet(project.stack[o].commands)
  BY <1>1 DEF Fresh, CommandsOf
<1>3. \A i \in 1 .. project.stack[active].current : project.stack[active].commands[i] # c
  <2> DEFINE s == project.stack[active]
  <2>1. s.current \in Nat /\ s.commands \in Seq(Commands) /\ s.current <= Len(s.commands)
        /\ Len(s.commands) \in Nat
    BY InvParts, SoundParts, PartsOfStack
  <2>2. c \notin ToSet(s.commands)
    BY <1>2, InvParts
  <2> HIDE DEF s
  <2>3. \A i \in 1 .. Len(s.commands) : s.commands[i] # c
    BY <2>1, <2>2 DEF ToSet
  <2>4. \A i \in 1 .. s.current : s.commands[i] # c
    BY <2>1, <2>3
  <2> QED BY <2>4 DEF s
<1>4. Sound(project')
  BY <1>1, <1>2, <1>3, InvParts, PushKeepsSound
<1>5. project'.loaded = project.loaded
  BY <1>1, InvParts, WithParts DEF Pushed1
<1> DEFINE r == RedoRecord(c)
<1>6. r \in Entry /\ r.type = "redo" /\ r.of = c /\ r.seq = sequence
  BY InvParts, RecordIsEntry DEF Types, RedoRecord
<1> HIDE DEF r
<1>7. Told(r, project, project')
  BY <1>1, <1>2, <1>6, InvParts, PushIsTold
<1> QED BY <1>1, <1>4, <1>5, <1>6, <1>7, InvParts, StepInUse DEF r

LEMMA UndoKeeps == ASSUME Inv, HandleUndoAction PROVE Inv'
<1>1. /\ phase = "running" /\ CanUndo(project.stack[active])
      /\ project' = Undone1(project, active) /\ writeRedoMessage(UndoRecord)
      /\ UNCHANGED <<phase, active, editing, edits, journaling, file, lost, crashes>>
  BY DEF HandleUndoAction
<1>2. Sound(project')
  BY <1>1, InvParts, UndoKeepsSound
<1>3. project'.loaded = project.loaded
  BY <1>1, InvParts, WithParts DEF Undone1
<1> DEFINE r == UndoRecord
<1>4. r \in Entry /\ r.type = "undo" /\ r.of = active /\ r.seq = sequence
  BY InvParts, RecordIsEntry DEF Types, UndoRecord
<1> HIDE DEF r
<1>5. Told(r, project, project')
  BY <1>1, <1>4, InvParts, UndoIsTold
<1> QED BY <1>1, <1>2, <1>3, <1>4, <1>5, InvParts, StepInUse DEF r

LEMMA RedoKeeps == ASSUME Inv, HandleRedoAction PROVE Inv'
<1> DEFINE c == Above(project.stack[active])
<1>1. /\ phase = "running" /\ CanRedo(project.stack[active])
      /\ project' = Redone1(project, active) /\ writeRedoMessage(RedoRecord(c))
      /\ UNCHANGED <<phase, active, editing, edits, journaling, file, lost, crashes>>
  BY DEF HandleRedoAction
<1>2. Sound(project') /\ c \in CommandsOf(active)
  BY <1>1, InvParts, RedoKeepsSound
<1>3. project'.loaded = project.loaded
  BY <1>1, InvParts, WithParts DEF Redone1
<1> DEFINE r == RedoRecord(c)
<1>4. r \in Entry /\ r.type = "redo" /\ r.of = c /\ r.seq = sequence
  <2>1. c \in Commands
    BY <1>2 DEF CommandsOf
  <2> HIDE DEF c
  <2> QED BY <2>1, InvParts, RecordIsEntry DEF Types, RedoRecord
<1> HIDE DEF r
<1>5. Told(r, project, project')
  BY <1>1, <1>4, InvParts, RedoIsTold
<1> QED BY <1>1, <1>2, <1>3, <1>4, <1>5, InvParts, StepInUse DEF r

LEMMA EditingKeeps ==
  ASSUME Inv, phase = "running", NEW r, r \in {UndoRecord, Record("none", "none")},
         writeRedoMessage(r),
         UNCHANGED <<phase, project, active, editing, journaling, file, lost, crashes>>
  PROVE  Inv'
<1>1. /\ UndoRecord \in Entry /\ UndoRecord.type = "undo" /\ UndoRecord.seq = sequence
      /\ Record("none", "none") \in Entry /\ Record("none", "none").type = "none"
      /\ Record("none", "none").seq = sequence
  BY InvParts, RecordIsEntry DEF Types, UndoRecord
<1>2. r \in Entry /\ r.type \in {"undo", "none"} /\ r.seq = sequence
  BY <1>1
<1>3. Told(r, project, project')
  BY <1>2, SameIsTold
<1> QED BY <1>2, <1>3, InvParts, StepInUse

LEMMA WrittenIsSaved == ASSUME Inv PROVE Written \in [loaded : BOOLEAN, doc : SUBSET Commands]
BY InvParts, SoundParts DEF Written

LEMMA SaveProjectKeeps == ASSUME Inv, SaveProject PROVE Inv'
<1> DEFINE r == Record("save", "none")
<1>1. /\ phase = "running" /\ file' = Written /\ writeRedoMessage(r)
      /\ UNCHANGED <<phase, project, active, editing, edits, journaling, lost, crashes>>
  BY DEF SaveProject
<1>2. r \in Entry /\ r.type = "save" /\ r.seq = sequence
  BY InvParts, RecordIsEntry DEF Types
<1> HIDE DEF r
<1>3. Told(r, project, project')
  BY <1>1, <1>2, SameIsTold
<1>4. SavedFile'
  BY <1>1, WrittenIsSaved DEF SavedFile
<1>5. /\ LogOK(journal') /\ sequence' \in 0 .. MaxRecords
      /\ journaling => Own(journal', sequence', project') \/ Foreign(journal', sequence')
  BY <1>1, <1>2, <1>3, WriteKeeps DEF Inv
<1>6. Simple' /\ Projects'
  BY <1>1, <1>4, <1>5 DEF Inv, Simple, Projects
<1>7. Logged'
  BY <1>1, <1>4, <1>5 DEF Inv, Logged
<1> QED BY <1>6, <1>7 DEF Inv

LEMMA OpenProjectKeeps == ASSUME Inv, OpenProject PROVE Inv'
<1>1. /\ phase = "running" /\ file # NoFile /\ project' = Opened(file)
      /\ active' = (IF file.loaded THEN "model" ELSE "project")
      /\ journaling' = FALSE /\ sequence' = 0
      /\ UNCHANGED <<phase, editing, edits, journal, file, lost, crashes>>
  BY DEF OpenProject
<1>2. SavedFile
  BY <1>1 DEF Inv, Simple
<1>3. Sound(project') /\ project'.loaded = file.loaded
  BY <1>1, <1>2, OpenedIsSound DEF Opened
<1>4. Projects'
  BY <1>1, <1>3 DEF Inv, Projects, Owners
<1>5. Simple'
  <2>1. sequence' \in 0 .. MaxRecords
    BY <1>1, BoundsAssumption
  <2>2. journaling' \in BOOLEAN /\ SavedFile'
    BY <1>1, <1>2 DEF SavedFile
  <2>3. phase' = phase /\ editing' = editing /\ crashes' = crashes
    BY <1>1
  <2> QED BY <2>1, <2>2, <2>3 DEF Inv, Simple
<1>6. Logged'
  BY <1>1 DEF Inv, Logged, SavedFile
<1> QED BY <1>4, <1>5, <1>6 DEF Inv

LEMMA CrashKeeps ==
  ASSUME Inv, NEW saved, CrashWith(saved),
         saved = file \/ saved \in [loaded : BOOLEAN, doc : SUBSET Commands]
  PROVE  Inv'
<1>1. /\ crashes < MaxCrashes /\ phase' = "crashed" /\ crashes' = crashes + 1
      /\ lost' = project /\ file' = saved /\ project' = NewProject /\ active' = "project"
      /\ editing' = FALSE /\ journaling' = TRUE /\ sequence' = 0 /\ journal' = journal
  BY DEF CrashWith
<1>2. Projects'
  BY <1>1, NewIsSound DEF Inv, Projects, Owners
<1>3. Simple'
  <2>1. sequence' \in 0 .. MaxRecords /\ crashes' \in 0 .. MaxCrashes
    BY <1>1, BoundsAssumption DEF Inv, Simple
  <2>2. journaling' \in BOOLEAN /\ editing' \in BOOLEAN
    BY <1>1
  <2>3. file' = NoFile \/ SavedFile'
    BY <1>1 DEF Inv, Simple, SavedFile
  <2> QED BY <1>1, <2>1, <2>2, <2>3 DEF Simple
<1>4. SavedFile => SavedFile'
  BY <1>1 DEF SavedFile
<1>5. Logged'
  BY <1>1, <1>4 DEF Inv, Logged
<1> QED BY <1>2, <1>3, <1>5 DEF Inv

LEMMA CrashWhileRecoveringKeeps == ASSUME Inv, CrashWhileRecovering PROVE Inv'
<1>1. /\ crashes < MaxCrashes /\ crashes' = crashes + 1 /\ journal' = <<>> /\ phase = "crashed"
      /\ UNCHANGED <<phase, project, active, editing, edits, journaling, sequence, file, lost>>
  BY DEF CrashWhileRecovering
<1>2. LogOK(<<>>) /\ ~HasSave(<<>>)
  BY NewIsSound, FreshLog
<1>3. Simple' /\ Projects'
  BY <1>1, BoundsAssumption DEF Inv, Simple, Projects, SavedFile
<1>4. Logged'
  BY <1>1, <1>2 DEF Inv, Logged
<1> QED BY <1>3, <1>4 DEF Inv

LEMMA RecoverKeeps == ASSUME Inv, Recover PROVE Inv'
<1> DEFINE last == Replayed[Len(Records)]
<1>1. /\ phase = "crashed" /\ phase' = "running" /\ project' = last.project
      /\ active' = (IF project'.loaded THEN "model" ELSE "project")
      /\ journaling' = (SavePoints = {})
      /\ journal' = (IF Copies /\ Records # <<>> THEN last.copy ELSE <<>>)
      /\ lost' = NewProject
      /\ UNCHANGED <<editing, edits, sequence, file, crashes>>
  BY DEF Recover
<1>2. /\ Records \in Seq(Entry) /\ WellLogged(Records)
      /\ HasSave(Records) => HasSave(journal)
      /\ HasSave(journal) => SavedFile
  BY JournalRecords DEF Inv, Logged
<1>3. /\ Sound(last.project) /\ LogOK(last.copy) /\ last.copy # <<>>
      /\ HasSave(last.copy) => HasSave(Records)
  BY <1>2, ReplayIsSound
<1> HIDE DEF last
<1>4. Projects'
  BY <1>1, <1>3, NewIsSound DEF Projects, Owners
<1>5. Simple'
  BY <1>1 DEF Inv, Simple, SavedFile
<1>6. sequence' = 0
  BY <1>1 DEF Inv, Logged
<1>7. /\ LogOK(journal') /\ (HasSave(journal') => SavedFile)
      /\ Own(journal', 0, project') \/ Foreign(journal', 0)
  <2>1. CASE journal' = <<>>
    <3>1. LogOK(<<>>) /\ ~HasSave(<<>>) /\ Own(<<>>, 0, project')
      BY <1>1, <1>3, FreshLog
    <3> QED BY <2>1, <3>1
  <2>2. CASE journal' = last.copy
    BY <1>2, <1>3, <2>2 DEF Foreign
  <2> QED BY <1>1, <2>1, <2>2
<1>8. SavedFile => SavedFile'
  BY <1>1 DEF SavedFile
<1>9. Logged'
  BY <1>1, <1>6, <1>7, <1>8 DEF Logged
<1> QED BY <1>4, <1>5, <1>9 DEF Inv

LEMMA InvInit == ASSUME Init PROVE Inv
<1>1. Sound(NewProject) /\ LogOK(<<>>) /\ ~HasSave(<<>>) /\ Own(<<>>, 0, NewProject)
  BY NewIsSound, FreshLog
<1>2. Simple
  <2>1. 0 \in 0 .. MaxRecords /\ 0 \in 0 .. MaxCrashes
    BY BoundsAssumption
  <2> QED BY <2>1 DEF Init, Simple
<1>3. Projects
  BY <1>1 DEF Init, Projects, Owners
<1>4. Logged
  BY <1>1 DEF Init, Logged
<1> QED BY <1>2, <1>3, <1>4 DEF Inv

LEMMA InvNext == ASSUME Inv, [Next]_vars PROVE Inv'
<1>1. CASE LoadModel
  BY <1>1, LoadModelKeeps
<1>2. CASE \E o \in Owners : SetActiveModel(o)
  BY <1>2, SetActiveModelKeeps
<1>3. CASE \E c \in Commands : PushUndo(c)
  BY <1>3, PushUndoKeeps
<1>4. CASE HandleUndoAction
  BY <1>4, UndoKeeps
<1>5. CASE HandleRedoAction
  BY <1>5, RedoKeeps
<1>6. CASE \E value \in BOOLEAN : SetModelEditingEnabled(value)
  BY <1>6, SetModelEditingKeeps
<1>7. CASE PushEditing
  BY <1>7, EditingKeeps DEF PushEditing
<1>8. CASE UndoEditing
  BY <1>8, EditingKeeps DEF UndoEditing
<1>9. CASE RedoEditing
  BY <1>9, EditingKeeps DEF RedoEditing
<1>10. CASE SaveProject
  BY <1>10, SaveProjectKeeps
<1>11. CASE OpenProject
  BY <1>11, OpenProjectKeeps
<1>12. CASE Crash
  BY <1>12, CrashKeeps DEF Crash
<1>13. CASE CrashWhileSaving
  BY <1>13, CrashKeeps, WrittenIsSaved DEF CrashWhileSaving
<1>14. CASE CrashWhileRecovering
  BY <1>14, CrashWhileRecoveringKeeps
<1>15. CASE Recover
  BY <1>15, RecoverKeeps
<1>16. CASE UNCHANGED vars
  BY <1>16 DEF vars, Inv, Simple, Projects, Logged, SavedFile
<1> QED BY <1>1, <1>2, <1>3, <1>4, <1>5, <1>6, <1>7, <1>8, <1>9, <1>10, <1>11, <1>12, <1>13,
           <1>14, <1>15, <1>16 DEF Next

LEMMA SoundIsProject == ASSUME NEW p, Sound(p) PROVE IsProject(p)
<1>1. /\ p.loaded \in BOOLEAN /\ p.resolves \in BOOLEAN /\ p.doc \subseteq Commands
      /\ \A o \in Owners : p.stack[o] \in StackOf(CommandsOf(o))
  BY SoundParts DEF SoundStack
<1>2. ASSUME NEW o \in Owners
      PROVE  /\ ToSet(p.stack[o].commands) \subseteq {c \in Commands : OwnerOf(c) = o}
             /\ Len(p.stack[o].commands) <= Limit
             /\ p.stack[o].current \in 0 .. Len(p.stack[o].commands)
  <2> DEFINE s == p.stack[o]
  <2>1. s \in StackOf(CommandsOf(o))
    BY <1>1
  <2> HIDE DEF s
  <2>2. /\ s.commands \in Seq(CommandsOf(o)) /\ s.current \in Nat /\ Len(s.commands) \in Nat
        /\ s.current <= Len(s.commands) /\ Len(s.commands) <= Limit
    BY <2>1, PartsOfStack
  <2>3. ToSet(s.commands) \subseteq CommandsOf(o)
    BY <2>2, ElementOfSeq DEF ToSet
  <2>4. s.current \in 0 .. Len(s.commands)
    BY <2>2
  <2> QED BY <2>2, <2>3, <2>4 DEF s, CommandsOf
<1> QED BY <1>1, <1>2 DEF IsProject

LEMMA SoundStackIsSplit ==
  ASSUME NEW o, NEW s, NEW doc, SoundStack(s, o, doc)
  PROVE  ToSet(Done(s)) \subseteq doc /\ ToSet(Taken(s)) \cap doc = {}
<1> DEFINE n == Len(s.commands)
           c == s.current
<1>1. /\ c \in Nat /\ n \in Nat /\ c <= n
      /\ \A i \in 1 .. n : s.commands[i] \in CommandsOf(o)
  BY PartsOfStack DEF SoundStack
<1>2. \A i \in 1 .. n : i <= c <=> s.commands[i] \in doc
  BY DEF SoundStack
<1>3. Done(s) = SubSeq(s.commands, 1, c) /\ Taken(s) = SubSeq(s.commands, c + 1, n)
  BY DEF Done, Taken
<1> HIDE DEF n, c
<1>4. ToSet(Done(s)) \subseteq doc
  <2>1. \A i \in 1 .. c : s.commands[i] \in CommandsOf(o)
    BY <1>1
  <2>2. /\ Len(Done(s)) = IF 1 <= c THEN c - 1 + 1 ELSE 0
        /\ \A i \in 1 .. c - 1 + 1 : Done(s)[i] = s.commands[1 + i - 1]
        /\ Done(s) \in Seq(CommandsOf(o))
    BY <1>1, <1>3, <2>1, SubSeqProperties, 1 \in Int
  <2>3. ASSUME NEW i \in 1 .. Len(Done(s)) PROVE Done(s)[i] \in doc
    <3>1. i \in 1 .. c - 1 + 1 /\ i \in 1 .. n /\ i <= c /\ 1 + i - 1 = i
      BY <1>1, <2>2
    <3>2. Done(s)[i] = s.commands[i]
      BY <2>2, <3>1
    <3> QED BY <1>2, <3>1, <3>2
  <2> QED BY <2>2, <2>3 DEF ToSet
<1>5. ToSet(Taken(s)) \cap doc = {}
  <2>1. \A i \in c + 1 .. n : s.commands[i] \in CommandsOf(o)
    BY <1>1
  <2>2. c + 1 \in Int /\ n \in Int
    BY <1>1
  <2>3. /\ Len(Taken(s)) = IF c + 1 <= n THEN n - (c + 1) + 1 ELSE 0
        /\ \A i \in 1 .. n - (c + 1) + 1 : Taken(s)[i] = s.commands[(c + 1) + i - 1]
        /\ Taken(s) \in Seq(CommandsOf(o))
    BY <1>3, <2>1, <2>2, SubSeqProperties
  <2>4. ASSUME NEW i \in 1 .. Len(Taken(s)) PROVE Taken(s)[i] \notin doc
    <3>1. /\ i \in 1 .. n - (c + 1) + 1 /\ (c + 1) + i - 1 = c + i
          /\ c + i \in 1 .. n /\ ~(c + i <= c)
      BY <1>1, <2>3
    <3>2. Taken(s)[i] = s.commands[c + i]
      BY <2>3, <3>1
    <3> QED BY <1>2, <3>1, <3>2
  <2> QED BY <2>3, <2>4 DEF ToSet
<1> QED BY <1>4, <1>5

(* The variables keep their types and the cursors stay inside their stacks, *)
(* whatever is logged, saved, opened, lost and recovered.                   *)
THEOREM TypeCorrectness == Spec => []TypeOK
<1>1. Init => Inv
  BY InvInit
<1>2. Inv /\ [Next]_vars => Inv'
  BY InvNext
<1>3. Inv => TypeOK
  BY SoundIsProject DEF Inv, Simple, Projects, TypeOK, SavedFile
<1> QED BY <1>1, <1>2, <1>3, PTL DEF Spec

(* In use and after every recovery, from any log that was left by whatever  *)
(* was done before: what a stack counts as done is in the document and what *)
(* it counts as undone is not.                                             *)
THEOREM StacksMatchDocument == Spec => []StackMatchesDocument
<1>1. Init => Inv
  BY InvInit
<1>2. Inv /\ [Next]_vars => Inv'
  BY InvNext
<1>3. Inv => StackMatchesDocument
  <2> SUFFICES ASSUME Inv, NEW o \in Owners
               PROVE  /\ ToSet(Done(project.stack[o])) \subseteq project.doc
                      /\ ToSet(Taken(project.stack[o])) \cap project.doc = {}
    BY DEF StackMatchesDocument
  <2> DEFINE s == project.stack[o]
  <2>1. SoundStack(s, o, project.doc)
    BY SoundParts DEF Inv, Projects
  <2> HIDE DEF s
  <2>2. ToSet(Done(s)) \subseteq project.doc /\ ToSet(Taken(s)) \cap project.doc = {}
    BY <2>1, SoundStackIsSplit
  <2> QED BY <2>2 DEF s
<1> QED BY <1>1, <1>2, <1>3, PTL DEF Spec

-----------------------------------------------------------------------------
(* What a recovery brings back.                                            *)

(* What the replay makes of a record that is no save point.                 *)
Replays(p, r, q) ==
  \/ r.type = "load" /\ q = ModelLoaded(p)
  \/ r.type = "redo" /\ q = Performed(p, r.of)
  \/ r.type = "undo" /\ q = UndoneOn(p, IF r.of = "model" /\ p.resolves THEN "model" ELSE "project")

(* The records of rs after the first k make p into q.                       *)
Rebuilds(rs, k, p, q) ==
  \E g : /\ g[k] = p /\ g[Len(rs)] = q
         /\ \A i \in k + 1 .. Len(rs) : Replays(g[i - 1], rs[i], g[i])

LEMMA RebuildsNothing ==
  ASSUME NEW rs \in Seq(Entry), NEW p PROVE Rebuilds(rs, Len(rs), p, p)
<1> DEFINE n == Len(rs)
           g == [i \in {n} |-> p]
<1>1. n \in Nat /\ g[n] = p
  BY LenProperties
<1> HIDE DEF g
<1>2. \A i \in n + 1 .. n : Replays(g[i - 1], rs[i], g[i])
  BY <1>1
<1> QED BY <1>1, <1>2 DEF Rebuilds

LEMMA RebuildsMore ==
  ASSUME NEW rs \in Seq(Entry), NEW k \in 0 .. Len(rs), NEW p, NEW q, Rebuilds(rs, k, p, q),
         NEW r \in Entry, NEW t, Replays(q, r, t)
  PROVE  Rebuilds(Append(rs, r), k, p, t)
<1> DEFINE n == Len(rs)
           more == Append(rs, r)
<1>1. PICK f : /\ f[k] = p /\ f[n] = q
               /\ \A i \in k + 1 .. n : Replays(f[i - 1], rs[i], f[i])
  BY DEF Rebuilds
<1> DEFINE g == [i \in 0 .. n + 1 |-> IF i = n + 1 THEN t ELSE f[i]]
<1>2. /\ Len(more) = n + 1 /\ n \in Nat
      /\ \A i \in 1 .. n : more[i] = rs[i]
      /\ more[n + 1] = r
  BY OneMore
<1> HIDE DEF more
<1>3. k \in 0 .. n
  OBVIOUS
<1> HIDE DEF n
<1>4. g[n + 1] = t /\ \A i \in 0 .. n : g[i] = f[i]
  BY <1>2
<1> HIDE DEF g
<1>5. ASSUME NEW i \in k + 1 .. n + 1 PROVE Replays(g[i - 1], more[i], g[i])
  <2>1. CASE i = n + 1
    <3>1. i - 1 = n /\ n \in 0 .. n
      BY <1>2, <2>1
    <3>2. g[i - 1] = q /\ g[i] = t /\ more[i] = r
      BY <1>1, <1>2, <1>4, <2>1, <3>1
    <3> QED BY <3>2
  <2>2. CASE i # n + 1
    <3>1. i \in k + 1 .. n /\ i \in 1 .. n /\ i \in 0 .. n /\ i - 1 \in 0 .. n
      BY <1>2, <1>3, <2>2
    <3>2. g[i - 1] = f[i - 1] /\ g[i] = f[i] /\ more[i] = rs[i]
      BY <1>2, <1>4, <3>1
    <3> QED BY <1>1, <3>1, <3>2
  <2> QED BY <2>1, <2>2
<1>6. g[k] = p /\ g[Len(more)] = t
  BY <1>1, <1>2, <1>3, <1>4
<1>7. \A i \in k + 1 .. Len(more) : Replays(g[i - 1], more[i], g[i])
  BY <1>2, <1>5
<1> QED BY <1>6, <1>7 DEF Rebuilds, more

(* From where all records are replayed, a recovery rebuilds what they say.  *)
LEMMA RecoveryRebuilds ==
  ASSUME Records \in Seq(Entry), Numbered(Records), NEW k \in 0 .. Len(Records), k >= Offset,
         NEW q, Rebuilds(Records, k, Replayed[k].project, q)
  PROVE  Replayed[Len(Records)].project = q
<1> DEFINE n == Len(Records)
<1>1. PICK g : /\ g[k] = Replayed[k].project /\ g[n] = q
               /\ \A i \in k + 1 .. n : Replays(g[i - 1], Records[i], g[i])
  BY DEF Rebuilds
<1>2. n \in Nat /\ Offset \in Nat /\ k \in Nat /\ k <= n
  BY OffsetParts, LenProperties
<1>3. \A i \in 1 .. n : Replayed[i] = ReplayedNext(Replayed[i - 1], i)
  BY <1>2, ReplayedSteps
<1>4. ASSUME NEW i \in k + 1 .. n, Replayed[i - 1].project = g[i - 1]
      PROVE  Replayed[i].project = g[i]
  <2>1. i \in 1 .. n /\ i > Offset
    BY <1>2
  <2>2. Replays(g[i - 1], Records[i], g[i])
    BY <1>1
  <2>3. g[i] = Replay(g[i - 1], Records[i]) /\ Records[i].type # "none"
    BY <2>2 DEF Replays, Replay
  <2>4. IsReplayed(i)
    BY <2>1, <2>3, OffsetParts
  <2>5. Replayed[i] = [project |-> Replay(Replayed[i - 1].project, Records[i]),
                       copy |-> Saved(Replayed[i - 1].copy, Records[i])]
    BY <1>3, <2>1, <2>4 DEF ReplayedNext
  <2> QED BY <1>4, <2>3, <2>5
<1> HIDE DEF n
<1> DEFINE T == {i \in k .. n : Replayed[i].project # g[i]}
<1>5. T = {}
  <2> SUFFICES ASSUME T # {} PROVE FALSE
    OBVIOUS
  <2>1. PICK m \in T : \A j \in T : m <= j
    <3>1. T \subseteq Nat
      BY <1>2
    <3> HIDE DEF T
    <3> QED BY <3>1, Least
  <2>2. m # k
    BY <1>1, <2>1
  <2> DEFINE j == m - 1
  <2>3. j \in k .. n /\ ~(m <= j) /\ m \in k + 1 .. n
    BY <1>2, <2>2
  <2>4. j \notin T
    BY <2>1, <2>3
  <2>5. Replayed[m - 1].project = g[m - 1]
    BY <2>3, <2>4
  <2>6. Replayed[m].project = g[m]
    BY <1>4, <2>3, <2>5
  <2> QED BY <2>1, <2>6
<1>6. n \in k .. n
  BY <1>2
<1> QED BY <1>1, <1>5, <1>6 DEF n

-----------------------------------------------------------------------------
(* The project that is rebuilt from a log without save points: its document *)
(* is that of the project in use, and so is what is done on its stacks.     *)
(* What was taken back may be missing, since a redo is replayed as a push.  *)
Alike(p, q) ==
  /\ Sound(q)
  /\ q.loaded = p.loaded /\ q.resolves = p.loaded /\ q.doc = p.doc
  /\ ~p.loaded => Done(p.stack["model"]) = <<>>
  /\ \A o \in Owners : Done(q.stack[o]) = Done(p.stack[o])

Recalls(r, p, t) ==
  \A q : Alike(p, q) => \E u : Replays(q, r, u) /\ Alike(t, u)

LEMMA NewIsAlike == Alike(NewProject, NewProject)
<1>1. NewProject.stack["model"] = EmptyStack /\ NewProject.loaded = FALSE
      /\ NewProject.resolves = FALSE
  BY OwnerFacts DEF NewProject
<1> QED BY <1>1, NewIsSound, EmptyIsStep DEF Alike

LEMMA StacksOfSound ==
  ASSUME NEW p, Sound(p), NEW o \in Owners
  PROVE  p.stack[o] \in StackOf(CommandsOf(o))
BY SoundParts DEF SoundStack

LEMMA LoadIsRecalled ==
  ASSUME NEW p, Sound(p), ~p.loaded, NEW r, r.type = "load"
  PROVE  Recalls(r, p, [p EXCEPT !.loaded = TRUE])
<1> DEFINE t == [p EXCEPT !.loaded = TRUE]
<1>1. t.loaded = TRUE /\ t.doc = p.doc /\ t.stack = p.stack
  BY SoundParts
<1> HIDE DEF t
<1> SUFFICES ASSUME NEW q, Alike(p, q) PROVE \E u : Replays(q, r, u) /\ Alike(t, u)
  BY DEF Recalls, t
<1> DEFINE u == ModelLoaded(q)
<1>2. Sound(q) /\ q.doc = p.doc /\ \A o \in Owners : Done(q.stack[o]) = Done(p.stack[o])
  BY DEF Alike
<1>3. Done(p.stack["model"]) = <<>>
  BY DEF Alike
<1>4. /\ u.stack["model"] = EmptyStack /\ u.stack["project"] = q.stack["project"]
      /\ u.resolves = TRUE /\ u.loaded = TRUE /\ u.doc = q.doc
  BY <1>2, SoundParts, OwnerFacts DEF ModelLoaded
<1>5. Sound(u)
  <2>1. u \in ProjectType
    BY <1>2, SoundParts, EmptyIsStack DEF ModelLoaded, ProjectType
  <2> HIDE DEF u
  <2> QED BY <1>2, <1>4, <2>1, SoundParts, EmptyIsSound, OwnerFacts DEF Sound
<1>6. Replays(q, r, u)
  BY DEF Replays
<1> HIDE DEF u
<1>7. \A o \in Owners : Done(u.stack[o]) = Done(t.stack[o])
  BY <1>1, <1>2, <1>3, <1>4, EmptyIsStep, OwnerFacts
<1>8. Alike(t, u)
  BY <1>1, <1>2, <1>4, <1>5, <1>7 DEF Alike
<1> QED BY <1>6, <1>8

(* A stack of both projects is replaced, and their documents change alike.   *)
LEMMA AlikeWith ==
  ASSUME NEW p, Sound(p), NEW q, Alike(p, q), NEW o \in Owners, o = "model" => p.loaded,
         NEW s, NEW v, Done(v) = Done(s), NEW doc, Sound(With(q, o, v, doc))
  PROVE  Alike(With(p, o, s, doc), With(q, o, v, doc))
<1> DEFINE t == With(p, o, s, doc)
           u == With(q, o, v, doc)
<1>1. Sound(q) /\ Sound(u)
  BY DEF Alike
<1>2. /\ t.stack[o] = s /\ t.loaded = p.loaded /\ t.doc = doc
      /\ \A a \in Owners \ {o} : t.stack[a] = p.stack[a]
      /\ u.stack[o] = v /\ u.loaded = q.loaded /\ u.resolves = q.resolves /\ u.doc = doc
      /\ \A a \in Owners \ {o} : u.stack[a] = q.stack[a]
  BY <1>1, WithParts
<1> HIDE DEF t, u
<1>3. \A a \in Owners : Done(u.stack[a]) = Done(t.stack[a])
  <2> TAKE a \in Owners
  <2>1. CASE a = o
    BY <1>2, <2>1
  <2>2. CASE a # o
    BY <1>2, <2>2 DEF Alike
  <2> QED BY <2>1, <2>2
<1>4. ~t.loaded => Done(t.stack["model"]) = <<>>
  BY <1>2, OwnerFacts DEF Alike
<1>5. Alike(t, u)
  BY <1>1, <1>2, <1>3, <1>4 DEF Alike
<1> QED BY <1>5 DEF t, u

LEMMA RedoneIsRecalled ==
  ASSUME NEW p, Sound(p), NEW o \in Owners, o = "model" => p.loaded, NEW c \in CommandsOf(o),
         \A i \in 1 .. p.stack[o].current : p.stack[o].commands[i] # c,
         NEW r, r.type = "redo", r.of = c,
         NEW s, \A q : Alike(p, q) => Done(Pushed(q.stack[o], c)) = Done(s)
  PROVE  Recalls(r, p, With(p, o, s, p.doc \cup {c}))
<1> DEFINE doc == p.doc \cup {c}
<1> SUFFICES ASSUME NEW q, Alike(p, q)
             PROVE  \E u : Replays(q, r, u) /\ Alike(With(p, o, s, doc), u)
  BY DEF Recalls
<1> DEFINE v == Pushed(q.stack[o], c)
<1>1. /\ Sound(q) /\ q.resolves = p.loaded /\ q.doc = p.doc
      /\ Done(q.stack[o]) = Done(p.stack[o])
      /\ OwnerOf(c) = o /\ o \in {"model", "project"}
  BY OwnerFacts DEF Alike, CommandsOf
<1>2. p.stack[o] \in StackOf(CommandsOf(o)) /\ q.stack[o] \in StackOf(CommandsOf(o))
  BY <1>1, StacksOfSound
<1>3. \A i \in 1 .. q.stack[o].current : q.stack[o].commands[i] # c
  BY <1>1, <1>2, DoneAlike
<1>4. Performed(q, c) = With(q, o, v, doc)
  <2>1. Resolved(q, c)
    BY <1>1 DEF Resolved
  <2> QED BY <1>1, <2>1 DEF Performed, Pushed1
<1>5. Sound(With(q, o, v, doc))
  BY <1>1, <1>3, PushKeepsSound DEF Pushed1
<1>6. Done(v) = Done(s)
  OBVIOUS
<1> HIDE DEF doc, v
<1>7. Alike(With(p, o, s, doc), With(q, o, v, doc))
  BY <1>5, <1>6, AlikeWith
<1>8. Replays(q, r, With(q, o, v, doc))
  BY <1>4 DEF Replays
<1> QED BY <1>7, <1>8

LEMMA PushIsRecalled ==
  ASSUME NEW p, Sound(p), NEW o \in Owners, o = "model" => p.loaded, NEW c \in CommandsOf(o),
         \A i \in 1 .. p.stack[o].current : p.stack[o].commands[i] # c,
         NEW r, r.type = "redo", r.of = c
  PROVE  Recalls(r, p, Pushed1(p, o, c))
<1>1. ASSUME NEW q, Alike(p, q)
      PROVE  Done(Pushed(q.stack[o], c)) = Done(Pushed(p.stack[o], c))
  <2>1. /\ p.stack[o] \in StackOf(CommandsOf(o)) /\ q.stack[o] \in StackOf(CommandsOf(o))
        /\ Done(q.stack[o]) = Done(p.stack[o])
    BY <1>1, StacksOfSound DEF Alike
  <2> QED BY <2>1, PushAlike
<1> QED BY <1>1, RedoneIsRecalled DEF Pushed1

LEMMA RedoIsRecalled ==
  ASSUME NEW p, Sound(p), NEW o \in Owners, o = "model" => p.loaded, CanRedo(p.stack[o]),
         NEW r, r.type = "redo", r.of = Above(p.stack[o])
  PROVE  Recalls(r, p, Redone1(p, o))
<1> DEFINE c == Above(p.stack[o])
<1>1. c \in CommandsOf(o) /\ c \notin p.doc
  BY RedoKeepsSound
<1>2. \A i \in 1 .. p.stack[o].current : p.stack[o].commands[i] # c
  <2>1. SoundStack(p.stack[o], o, p.doc)
    BY SoundParts
  <2>2. \A i \in 1 .. p.stack[o].current : /\ i \in 1 .. Len(p.stack[o].commands)
                                           /\ i <= p.stack[o].current
    BY <2>1, PartsOfStack DEF SoundStack
  <2> HIDE DEF c
  <2> QED BY <1>1, <2>1, <2>2 DEF SoundStack
<1>3. ASSUME NEW q, Alike(p, q)
      PROVE  Done(Pushed(q.stack[o], c)) = Done(Redone(p.stack[o]))
  <2>1. /\ p.stack[o] \in StackOf(CommandsOf(o)) /\ q.stack[o] \in StackOf(CommandsOf(o))
        /\ Done(q.stack[o]) = Done(p.stack[o])
    BY <1>3, StacksOfSound DEF Alike
  <2> QED BY <2>1, RedoAlike
<1>4. Redone1(p, o) = With(p, o, Redone(p.stack[o]), p.doc \cup {c}) /\ r.of = c
  BY DEF Redone1
<1> HIDE DEF c
<1> QED BY <1>1, <1>2, <1>3, <1>4, RedoneIsRecalled

LEMMA UndoIsRecalled ==
  ASSUME NEW p, Sound(p), NEW o \in Owners, o = "model" => p.loaded, CanUndo(p.stack[o]),
         NEW r, r.type = "undo", r.of = o
  PROVE  Recalls(r, p, Undone1(p, o))
<1> DEFINE s == Undone(p.stack[o])
           c == Below(p.stack[o])
           doc == p.doc \ {c}
<1> SUFFICES ASSUME NEW q, Alike(p, q)
             PROVE  \E u : Replays(q, r, u) /\ Alike(With(p, o, s, doc), u)
  BY DEF Recalls, Undone1
<1> DEFINE v == Undone(q.stack[o])
<1>1. /\ Sound(q) /\ q.resolves = p.loaded /\ q.doc = p.doc
      /\ Done(q.stack[o]) = Done(p.stack[o])
      /\ o \in {"model", "project"}
  BY OwnerFacts DEF Alike
<1>2. p.stack[o] \in StackOf(CommandsOf(o)) /\ q.stack[o] \in StackOf(CommandsOf(o))
  BY <1>1, StacksOfSound
<1>3. CanUndo(q.stack[o]) /\ Below(q.stack[o]) = c /\ Done(v) = Done(s)
  BY <1>1, <1>2, UndoAlike
<1>4. o = IF r.of = "model" /\ q.resolves THEN "model" ELSE "project"
  BY <1>1
<1>5. UndoneOn(q, o) = With(q, o, v, doc)
  BY <1>1, <1>3 DEF UndoneOn, Undone1
<1>6. Sound(With(q, o, v, doc))
  BY <1>1, <1>3, UndoKeepsSound DEF Undone1
<1> HIDE DEF s, c, doc, v
<1>7. Alike(With(p, o, s, doc), With(q, o, v, doc))
  BY <1>3, <1>6, AlikeWith
<1>8. Replays(q, r, With(q, o, v, doc))
  BY <1>4, <1>5 DEF Replays
<1> QED BY <1>7, <1>8

-----------------------------------------------------------------------------
(* The log of a project that was never recovered: all of it is read, and     *)
(* its records are numbered from 0.                                        *)
Mine(log, n) ==
  \E rs \in Seq(Entry) : /\ log = IF rs = <<>> THEN <<>> ELSE Plain(rs)
                         /\ n = Len(rs) /\ Consecutive(rs)

(* A log of which more than the commands in use is told.                    *)
Spoils(r) == r.type \in {"save", "none"}
Spoiled(log) == \E i \in 1 .. Len(log) : Spoils(log[i])

LEMMA MineParts ==
  ASSUME NEW log, NEW n, Mine(log, n)
  PROVE  /\ RecordsOf(log) \in Seq(Entry) /\ n = Len(RecordsOf(log)) /\ n \in Nat
         /\ Consecutive(RecordsOf(log)) /\ Numbered(RecordsOf(log))
         /\ log = IF RecordsOf(log) = <<>> THEN <<>> ELSE Plain(RecordsOf(log))
<1>1. PICK rs \in Seq(Entry) : /\ log = IF rs = <<>> THEN <<>> ELSE Plain(rs)
                               /\ n = Len(rs) /\ Consecutive(rs)
  BY DEF Mine
<1>2. RecordsOf(log) = rs
  <2>1. CASE rs = <<>>
    BY <1>1, <2>1 DEF RecordsOf
  <2>2. CASE rs # <<>>
    BY <1>1, <2>2, RecordsOfPlain
  <2> QED BY <2>1, <2>2
<1>3. Len(rs) \in Nat
  BY LenProperties
<1>4. \A i, j \in 1 .. Len(rs) : i < j => rs[i].seq < rs[j].seq
  BY <1>1, <1>3 DEF Consecutive
<1>5. Numbered(rs)
  BY <1>1, <1>4 DEF Numbered
<1> QED BY <1>1, <1>2, <1>3, <1>5

LEMMA MineWrites ==
  ASSUME NEW log, NEW n, Mine(log, n), NEW r \in Entry, r.seq = n
  PROVE  /\ Mine(Saved(log, r), n + 1)
         /\ RecordsOf(Saved(log, r)) = Append(RecordsOf(log), r)
<1> DEFINE rs == RecordsOf(log)
           more == Append(rs, r)
<1>1. /\ rs \in Seq(Entry) /\ n = Len(rs) /\ n \in Nat /\ Consecutive(rs)
      /\ log = IF rs = <<>> THEN <<>> ELSE Plain(rs)
  BY MineParts
<1> HIDE DEF rs
<1>2. /\ more \in Seq(Entry) /\ Len(more) = n + 1
      /\ \A i \in 1 .. n : more[i] = rs[i]
      /\ more[n + 1] = r
  BY <1>1, OneMore
<1>3. Saved(log, r) = Plain(more)
  <2>1. CASE rs = <<>>
    <3>1. r.seq = 0 /\ log = <<>>
      BY <1>1, <2>1
    <3>2. Saved(log, r) = <<>> \o <<Magic>> \o <<r>>
      BY <3>1 DEF Saved
    <3>3. more = <<r>>
      BY <2>1
    <3> QED BY <3>2, <3>3 DEF Plain
  <2>2. CASE rs # <<>>
    <3>1. r.seq # 0 /\ log = Plain(rs)
      BY <1>1, <2>2, EmptySeq
    <3> QED BY <1>1, <3>1, PlainSaved
  <2> QED BY <2>1, <2>2
<1> HIDE DEF more
<1>4. Consecutive(more)
  <2>1. ASSUME NEW i \in 1 .. n + 1 PROVE more[i].seq = i - 1
    <3>1. CASE i = n + 1
      BY <1>1, <1>2, <3>1
    <3>2. CASE i # n + 1
      <4>1. i \in 1 .. n /\ more[i] = rs[i]
        BY <1>1, <1>2, <3>2
      <4> QED BY <1>1, <4>1 DEF Consecutive
    <3> QED BY <3>1, <3>2
  <2> QED BY <1>2, <2>1 DEF Consecutive
<1>5. more # <<>>
  BY <1>1, <1>2
<1>6. Mine(Plain(more), n + 1)
  BY <1>2, <1>4, <1>5 DEF Mine
<1>7. RecordsOf(Plain(more)) = more
  BY <1>2, RecordsOfPlain
<1> QED BY <1>3, <1>6, <1>7 DEF more, rs

LEMMA SavedParts ==
  ASSUME NEW log \in Log, NEW r \in Entry
  PROVE  /\ Len(log) \in Nat /\ Len(Saved(log, r)) \in Nat /\ Len(log) < Len(Saved(log, r))
         /\ \A i \in 1 .. Len(log) : Saved(log, r)[i] = log[i]
         /\ Saved(log, r)[Len(Saved(log, r))] = r
<1> DEFINE S == Entry \cup {Magic}
           h == IF r.seq = 0 THEN <<Magic>> ELSE <<>>
           t == <<r>>
           a == log \o h
<1>1. h \in Seq(S) /\ t \in Seq(S) /\ Len(t) = 1 /\ t[1] = r /\ Len(h) \in Nat
  <2>1. Magic \in S /\ r \in S
    OBVIOUS
  <2> HIDE DEF S
  <2> QED BY <2>1
<1>2. log \in Seq(S) /\ Len(log) \in Nat
  BY LenProperties DEF Log
<1>3. Saved(log, r) = a \o t
  BY DEF Saved
<1> HIDE DEF S, h, t
<1>4. /\ a \in Seq(S) /\ Len(a) = Len(log) + Len(h)
      /\ \A i \in 1 .. Len(log) + Len(h) : a[i] = IF i <= Len(log) THEN log[i] ELSE h[i - Len(log)]
  BY <1>1, <1>2, ConcatProperties
<1> HIDE DEF a
<1>5. /\ Len(a \o t) = Len(a) + Len(t)
      /\ \A i \in 1 .. Len(a) + Len(t) : (a \o t)[i] = IF i <= Len(a) THEN a[i] ELSE t[i - Len(a)]
  <2>1. a \in Seq(S) /\ t \in Seq(S)
    BY <1>1, <1>4
  <2> QED BY ONLY <2>1, ConcatProperties
<1>6. Len(a) \in Nat /\ Len(a) >= Len(log) /\ Len(a \o t) = Len(a) + 1
  BY <1>1, <1>2, <1>4, <1>5
<1>7. ASSUME NEW i \in 1 .. Len(log) PROVE (a \o t)[i] = log[i]
  <2>1. i \in 1 .. Len(a) + Len(t) /\ i <= Len(a) /\ i \in 1 .. Len(log) + Len(h) /\ i <= Len(log)
    BY <1>1, <1>2, <1>4, <1>6
  <2> QED BY <1>4, <1>5, <2>1
<1>8. (a \o t)[Len(a) + 1] = r
  <2>1. /\ Len(a) + 1 \in 1 .. Len(a) + Len(t) /\ ~(Len(a) + 1 <= Len(a))
        /\ (Len(a) + 1) - Len(a) = 1
    BY <1>1, <1>6
  <2> QED BY <1>1, <1>5, <2>1
<1>9. Len(a \o t) \in Nat /\ Len(log) < Len(a \o t)
  BY <1>2, <1>6
<1> QED BY <1>2, <1>3, <1>6, <1>7, <1>8, <1>9

LEMMA SpoiledStays ==
  ASSUME NEW log \in Log, NEW r \in Entry, Spoiled(log) \/ Spoils(r)
  PROVE  Spoiled(Saved(log, r))
<1> DEFINE n == Len(Saved(log, r))
<1>1. /\ Len(log) \in Nat /\ n \in Nat /\ Len(log) < n
      /\ \A i \in 1 .. Len(log) : Saved(log, r)[i] = log[i]
      /\ Saved(log, r)[n] = r
  BY SavedParts
<1>2. CASE Spoils(r)
  <2>1. n \in 1 .. n
    BY <1>1
  <2> QED BY <1>1, <1>2, <2>1 DEF Spoiled
<1>3. CASE Spoiled(log)
  <2>1. PICK i \in 1 .. Len(log) : Spoils(log[i])
    BY <1>3 DEF Spoiled
  <2>2. i \in 1 .. n
    BY <1>1
  <2> QED BY <1>1, <2>1, <2>2 DEF Spoiled
<1> QED BY <1>2, <1>3

LEMMA UnsavedIsUnspoiled ==
  ASSUME journal \in Log PROVE Unsaved <=> ~Spoiled(journal)
<1>1. DOMAIN journal = 1 .. Len(journal)
  BY LenProperties DEF Log
<1> QED BY <1>1 DEF Unsaved, Spoiled, Spoils

LEMMA UnspoiledHasNoSave ==
  ASSUME ~Spoiled(journal) PROVE ~HasSave(journal)
BY DEF Spoiled, Spoils, HasSave

-----------------------------------------------------------------------------
(* Until the first crash is recovered from, unless a recovery is itself      *)
(* interrupted: the log rebuilds the project in use, or the one that was    *)
(* lost, as long as neither a save point nor model editing is in it.        *)
OneCrash == MaxCrashes <= 1 /\ "interrupt" \notin Operations

Remembered ==
  /\ crashes = 0 => phase = "running" /\ (journaling => Mine(journal, sequence))
  /\ crashes = 0 /\ (~journaling \/ file # NoFile \/ edits # EmptyStack) => Spoiled(journal)
  /\ crashes = 0 /\ ~Spoiled(journal) =>
       \E q : Rebuilds(Records, 0, NewProject, q) /\ Alike(project, q)
  /\ phase = "crashed" /\ ~Spoiled(journal) =>
       \E q : Rebuilds(Records, 0, NewProject, q) /\ Alike(lost, q)

LEMMA StepIsRemembered ==
  ASSUME Inv, Remembered, phase = "running", UNCHANGED <<phase, journaling, lost, crashes>>,
         NEW r \in Entry, r.seq = sequence, writeRedoMessage(r),
         file' = file \/ Spoils(r),
         edits' # EmptyStack => edits # EmptyStack \/ Spoils(r),
         Spoils(r) \/ edits # EmptyStack \/ Recalls(r, project, project')
  PROVE  Remembered'
<1>1. journal \in Log
  BY DEF Inv, Logged, LogOK
<1>2. CASE crashes # 0
  BY <1>2 DEF Remembered
<1>3. CASE crashes = 0 /\ ~journaling
  <2>1. Spoiled(journal) /\ journal' = journal
    BY <1>3 DEF Remembered, writeRedoMessage
  <2> QED BY <1>3, <2>1 DEF Remembered
<1>4. CASE crashes = 0 /\ journaling
  <2>1. journal' = Saved(journal, r) /\ sequence' = sequence + 1 /\ Mine(journal, sequence)
    BY <1>4 DEF Remembered, writeRedoMessage
  <2>2. Mine(journal', sequence') /\ RecordsOf(journal') = Append(RecordsOf(journal), r)
    BY <2>1, MineWrites
  <2>3. Spoiled(journal) \/ Spoils(r) => Spoiled(journal')
    BY <1>1, <2>1, SpoiledStays
  <2>4. ~journaling' \/ file' # NoFile \/ edits' # EmptyStack => Spoiled(journal')
    BY <1>4, <2>3 DEF Remembered
  <2>5. ASSUME ~Spoiled(journal')
        PROVE  \E q : Rebuilds(RecordsOf(journal'), 0, NewProject, q) /\ Alike(project', q)
    <3>1. ~Spoiled(journal) /\ ~Spoils(r)
      BY <2>3, <2>5
    <3>2. Recalls(r, project, project')
      BY <1>4, <3>1 DEF Remembered
    <3>3. PICK q : Rebuilds(RecordsOf(journal), 0, NewProject, q) /\ Alike(project, q)
      BY <1>4, <3>1 DEF Remembered, Records
    <3>4. PICK t : Replays(q, r, t) /\ Alike(project', t)
      BY <3>2, <3>3 DEF Recalls
    <3>5. /\ RecordsOf(journal) \in Seq(Entry) /\ Len(RecordsOf(journal)) \in Nat
      BY <2>1, MineParts
    <3>6. 0 \in 0 .. Len(RecordsOf(journal))
      BY <3>5
    <3>7. Rebuilds(Append(RecordsOf(journal), r), 0, NewProject, t)
      BY <3>3, <3>4, <3>5, <3>6, RebuildsMore
    <3> QED BY <2>2, <3>4, <3>7
  <2>6. phase' # "crashed" /\ phase' = "running"
    OBVIOUS
  <2> QED BY <2>2, <2>4, <2>5, <2>6 DEF Remembered, Records
<1> QED BY <1>2, <1>3, <1>4

LEMMA QuietIsRemembered ==
  ASSUME Remembered, phase = "running",
         UNCHANGED <<phase, project, journaling, sequence, journal, file, lost, crashes>>,
         edits' = EmptyStack \/ edits' = edits
  PROVE  Remembered'
<1>1. Records' = Records
  BY DEF Records
<1> QED BY <1>1 DEF Remembered

LEMMA OwnerIsLoaded ==
  ASSUME Inv PROVE active \in Owners /\ (active = "model" => project.loaded) /\ Sound(project)
BY DEF Inv, Projects

LEMMA LoadIsRemembered == ASSUME Inv, Remembered, LoadModel PROVE Remembered'
<1> DEFINE r == Record("load", "none")
<1>1. /\ phase = "running" /\ ~project.loaded /\ project' = [project EXCEPT !.loaded = TRUE]
      /\ writeRedoMessage(r)
      /\ UNCHANGED <<phase, edits, journaling, file, lost, crashes>>
  BY DEF LoadModel
<1>2. r \in Entry /\ r.type = "load" /\ r.seq = sequence
  BY InvParts, RecordIsEntry DEF Types
<1> HIDE DEF r
<1>3. Recalls(r, project, project')
  BY <1>1, <1>2, OwnerIsLoaded, LoadIsRecalled
<1> QED BY <1>1, <1>2, <1>3, StepIsRemembered

LEMMA PushIsRemembered == ASSUME Inv, Remembered, NEW c \in Commands, PushUndo(c) PROVE Remembered'
<1> DEFINE r == RedoRecord(c)
<1>1. /\ phase = "running" /\ c \in Fresh /\ OwnerOf(c) = active
      /\ project' = Pushed1(project, active, c) /\ writeRedoMessage(r)
      /\ UNCHANGED <<phase, edits, journaling, file, lost, crashes>>
  BY DEF PushUndo
<1>2. r \in Entry /\ r.type = "redo" /\ r.of = c /\ r.seq = sequence
  BY InvParts, RecordIsEntry DEF Types, RedoRecord
<1> HIDE DEF r
<1>3. c \in CommandsOf(active) /\ \A o \in Owners : c \notin ToSet(project.stack[o].commands)
  BY <1>1 DEF Fresh, CommandsOf
<1>4. \A i \in 1 .. project.stack[active].current : project.stack[active].commands[i] # c
  <2> DEFINE s == project.stack[active]
  <2>1. s.current \in Nat /\ s.commands \in Seq(Commands) /\ s.current <= Len(s.commands)
        /\ Len(s.commands) \in Nat
    BY InvParts, SoundParts, PartsOfStack
  <2>2. c \notin ToSet(s.commands)
    BY <1>3, InvParts
  <2> HIDE DEF s
  <2>3. \A i \in 1 .. Len(s.commands) : s.commands[i] # c
    BY <2>1, <2>2 DEF ToSet
  <2>4. \A i \in 1 .. s.current : s.commands[i] # c
    BY <2>1, <2>3
  <2> QED BY <2>4 DEF s
<1>5. Recalls(r, project, project')
  BY <1>1, <1>2, <1>3, <1>4, OwnerIsLoaded, PushIsRecalled
<1> QED BY <1>1, <1>2, <1>5, StepIsRemembered

LEMMA UndoIsRemembered == ASSUME Inv, Remembered, HandleUndoAction PROVE Remembered'
<1> DEFINE r == UndoRecord
<1>1. /\ phase = "running" /\ CanUndo(project.stack[active])
      /\ project' = Undone1(project, active) /\ writeRedoMessage(r)
      /\ UNCHANGED <<phase, edits, journaling, file, lost, crashes>>
  BY DEF HandleUndoAction
<1>2. r \in Entry /\ r.type = "undo" /\ r.of = active /\ r.seq = sequence
  BY InvParts, RecordIsEntry DEF Types, UndoRecord
<1> HIDE DEF r
<1>3. Recalls(r, project, project')
  BY <1>1, <1>2, OwnerIsLoaded, UndoIsRecalled
<1> QED BY <1>1, <1>2, <1>3, StepIsRemembered

LEMMA RedoIsRemembered == ASSUME Inv, Remembered, HandleRedoAction PROVE Remembered'
<1> DEFINE c == Above(project.stack[active])
           r == RedoRecord(c)
<1>1. /\ phase = "running" /\ CanRedo(project.stack[active])
      /\ project' = Redone1(project, active) /\ writeRedoMessage(r)
      /\ UNCHANGED <<phase, edits, journaling, file, lost, crashes>>
  BY DEF HandleRedoAction
<1>2. c \in CommandsOf(active)
  BY <1>1, InvParts, RedoKeepsSound
<1>3. r \in Entry /\ r.type = "redo" /\ r.of = c /\ r.seq = sequence
  <2>1. c \in Commands
    BY <1>2 DEF CommandsOf
  <2> HIDE DEF c
  <2> QED BY <2>1, InvParts, RecordIsEntry DEF Types, RedoRecord
<1> HIDE DEF r
<1>4. Recalls(r, project, project')
  BY <1>1, <1>3, OwnerIsLoaded, RedoIsRecalled
<1> QED BY <1>1, <1>3, <1>4, StepIsRemembered

LEMMA SpoilingRecord ==
  ASSUME Inv, NEW t \in {"save", "none"}
  PROVE  Record(t, "none") \in Entry /\ Record(t, "none").seq = sequence /\ Spoils(Record(t, "none"))
BY InvParts, RecordIsEntry DEF Types, Spoils

LEMMA EditingIsRemembered ==
  ASSUME Inv, Remembered, PushEditing \/ UndoEditing \/ RedoEditing PROVE Remembered'
<1>1. /\ phase = "running" /\ UNCHANGED <<phase, project, journaling, file, lost, crashes>>
  BY DEF PushEditing, UndoEditing, RedoEditing
<1>2. CASE PushEditing \/ RedoEditing
  <2>1. writeRedoMessage(Record("none", "none"))
    BY <1>2 DEF PushEditing, RedoEditing
  <2> QED BY <1>1, <2>1, SpoilingRecord, StepIsRemembered
<1>3. CASE UndoEditing
  <2> DEFINE r == UndoRecord
  <2>1. writeRedoMessage(r) /\ CanUndo(edits)
    BY <1>3 DEF UndoEditing
  <2>2. r \in Entry /\ r.seq = sequence
    BY InvParts, RecordIsEntry DEF Types, UndoRecord
  <2>3. edits # EmptyStack
    BY <2>1 DEF CanUndo, EmptyStack
  <2> HIDE DEF r
  <2> QED BY <1>1, <2>1, <2>2, <2>3, StepIsRemembered
<1> QED BY <1>2, <1>3

LEMMA CrashIsRemembered ==
  ASSUME Inv, Remembered, OneCrash, NEW saved, CrashWith(saved) PROVE Remembered'
<1>1. /\ phase = "running" /\ crashes < MaxCrashes /\ phase' = "crashed" /\ crashes' = crashes + 1
      /\ lost' = project /\ journal' = journal
  BY DEF CrashWith
<1>2. crashes = 0 /\ crashes' # 0
  BY <1>1, BoundsAssumption DEF OneCrash, Inv, Simple
<1>3. Records' = Records
  BY <1>1 DEF Records
<1> QED BY <1>1, <1>2, <1>3 DEF Remembered

LEMMA SaveIsRemembered == ASSUME Inv, Remembered, SaveProject PROVE Remembered'
<1> DEFINE r == Record("save", "none")
<1>1. /\ phase = "running" /\ writeRedoMessage(r)
      /\ UNCHANGED <<phase, project, active, editing, edits, journaling, lost, crashes>>
  BY DEF SaveProject
<1>2. r \in Entry /\ r.seq = sequence /\ Spoils(r)
  BY SpoilingRecord
<1> HIDE DEF r
<1> QED BY <1>1, <1>2, StepIsRemembered

LEMMA OpenIsRemembered == ASSUME Inv, Remembered, OpenProject PROVE Remembered'
<1>1. /\ phase = "running" /\ phase' = phase /\ file # NoFile /\ journaling' = FALSE
      /\ journal' = journal /\ crashes' = crashes
  BY DEF OpenProject
<1>2. crashes = 0 => Spoiled(journal)
  BY <1>1 DEF Remembered
<1> QED BY <1>1, <1>2 DEF Remembered

LEMMA RememberedInit == ASSUME Init PROVE Remembered
<1>1. Records = <<>> /\ <<>> \in Seq(Entry) /\ Len(<<>>) = 0
  BY DEF Init, Records, RecordsOf
<1>2. Rebuilds(<<>>, 0, NewProject, NewProject)
  <2>1. Rebuilds(<<>>, Len(<<>>), NewProject, NewProject)
    BY <1>1, RebuildsNothing
  <2> QED BY <1>1, <2>1
<1>3. Mine(<<>>, 0)
  <2>1. Consecutive(<<>>)
    BY DEF Consecutive
  <2>2. <<>> = IF <<>> = <<>> THEN <<>> ELSE Plain(<<>>)
    OBVIOUS
  <2> QED BY <1>1, <2>1, <2>2, Zenon DEF Mine
<1> QED BY <1>1, <1>2, <1>3, NewIsAlike DEF Init, Remembered

LEMMA RememberedNext == ASSUME Inv, Remembered, OneCrash, [Next]_vars PROVE Remembered'
<1>1. CASE LoadModel
  BY <1>1, LoadIsRemembered
<1>2. CASE \E o \in Owners : SetActiveModel(o)
  BY <1>2, QuietIsRemembered DEF SetActiveModel
<1>3. CASE \E c \in Commands : PushUndo(c)
  BY <1>3, PushIsRemembered
<1>4. CASE HandleUndoAction
  BY <1>4, UndoIsRemembered
<1>5. CASE HandleRedoAction
  BY <1>5, RedoIsRemembered
<1>6. CASE \E value \in BOOLEAN : SetModelEditingEnabled(value)
  BY <1>6, QuietIsRemembered DEF SetModelEditingEnabled
<1>7. CASE PushEditing \/ UndoEditing \/ RedoEditing
  BY <1>7, EditingIsRemembered
<1>8. CASE SaveProject
  BY <1>8, SaveIsRemembered
<1>9. CASE OpenProject
  BY <1>9, OpenIsRemembered
<1>10. CASE Crash
  BY <1>10, CrashIsRemembered DEF Crash
<1>11. CASE CrashWhileSaving
  BY <1>11, CrashIsRemembered DEF CrashWhileSaving
<1>12. CASE CrashWhileRecovering
  BY <1>12 DEF CrashWhileRecovering, OneCrash
<1>13. CASE Recover
  <2>1. phase = "crashed" /\ phase' = "running" /\ crashes' = crashes
    BY <1>13 DEF Recover
  <2>2. crashes # 0
    BY <2>1 DEF Remembered
  <2> QED BY <2>1, <2>2 DEF Remembered
<1>14. CASE UNCHANGED vars
  BY <1>14 DEF vars, Remembered, Records
<1> QED BY <1>1, <1>2, <1>3, <1>4, <1>5, <1>6, <1>7, <1>8, <1>9, <1>10, <1>11, <1>12, <1>13, <1>14
           DEF Next

(* What the log rebuilds is what a recovery brings back.                    *)
LEMMA RecoveredIsAlike ==
  ASSUME Inv, Remembered, Recover, Unsaved PROVE Alike(lost, project')
<1>1. Records \in Seq(Entry) /\ Numbered(Records) /\ Len(Records) \in Nat
  BY JournalRecords, LenProperties DEF Inv, Logged, WellLogged
<1>2. ~Spoiled(journal)
  BY UnsavedIsUnspoiled DEF Inv, Logged, LogOK
<1>3. Offset = 0
  <2>1. ~HasSave(Records)
    BY <1>2, UnspoiledHasNoSave, JournalRecords DEF Inv, Logged
  <2> QED BY <2>1 DEF HasSave, SavePoints, Offset
<1>4. PICK q : Rebuilds(Records, 0, NewProject, q) /\ Alike(lost, q)
  BY <1>2 DEF Remembered, Recover
<1>5. Replayed[0].project = NewProject
  BY <1>1, ReplayedSteps DEF Start
<1>6. Replayed[Len(Records)].project = q
  <2>1. 0 \in 0 .. Len(Records) /\ 0 >= Offset
    BY <1>1, <1>3
  <2> QED BY <1>1, <1>4, <1>5, <2>1, RecoveryRebuilds
<1> QED BY <1>4, <1>6 DEF Recover

LEMMA RecoverIsRecover ==
  ASSUME Inv, Remembered, [Next]_vars, Recover, Unsaved
  PROVE  /\ project'.loaded = lost.loaded /\ project'.doc = lost.doc
         /\ \A o \in Owners : Done(project'.stack[o]) = Done(lost.stack[o])
BY RecoveredIsAlike DEF Alike

(* Before any project was saved or any model edited, a recovery brings back *)
(* the document that was there when the application crashed, however many   *)
(* commands were done, taken back and done again (docs/application.rst:     *)
(* 1164-1165).                                                             *)
THEOREM DocumentIsRecovered == ASSUME OneCrash PROVE Spec => RecoversDocument
<1>1. Init => Inv /\ Remembered
  BY InvInit, RememberedInit
<1>2. Inv /\ Remembered /\ [Next]_vars => Inv' /\ Remembered'
  BY InvNext, RememberedNext
<1>3. Inv /\ Remembered /\ [Next]_vars
        => [Recover /\ Unsaved => project'.loaded = lost.loaded /\ project'.doc = lost.doc]_vars
  BY RecoverIsRecover
<1> QED BY <1>1, <1>2, <1>3, PTL DEF Spec, RecoversDocument

(* ... and what could be undone then can be undone again, in the order it   *)
(* was done, on the stack of the model and on that of the project.          *)
THEOREM HistoryIsRecovered == ASSUME OneCrash PROVE Spec => RecoversHistory
<1>1. Init => Inv /\ Remembered
  BY InvInit, RememberedInit
<1>2. Inv /\ Remembered /\ [Next]_vars => Inv' /\ Remembered'
  BY InvNext, RememberedNext
<1>3. Inv /\ Remembered /\ [Next]_vars
        => [Recover /\ Unsaved =>
              \A o \in Owners : Done(project'.stack[o]) = Done(lost.stack[o])]_vars
  BY RecoverIsRecover
<1> QED BY <1>1, <1>2, <1>3, PTL DEF Spec, RecoversHistory

-----------------------------------------------------------------------------
(* What is done in a project without models, whatever was saved.            *)

(* What is done on t was done last on s.                                    *)
Trails(t, s) ==
  /\ t.current <= s.current
  /\ \A j \in 1 .. t.current : t.commands[j] = s.commands[s.current - t.current + j]

LEMMA EmptyTrails ==
  ASSUME NEW S, NEW s \in StackOf(S) PROVE Trails(EmptyStack, s)
BY PartsOfStack DEF Trails, EmptyStack

LEMMA TrailsInside ==
  ASSUME NEW S, NEW s \in StackOf(S), NEW t \in StackOf(S), Trails(t, s),
         NEW c, \A i \in 1 .. s.current : s.commands[i] # c
  PROVE  \A j \in 1 .. t.current : t.commands[j] # c
<1>1. s.current \in Nat /\ t.current \in Nat /\ t.current <= s.current
  BY PartsOfStack DEF Trails
<1> SUFFICES ASSUME NEW j \in 1 .. t.current PROVE t.commands[j] # c
  OBVIOUS
<1>2. s.current - t.current + j \in 1 .. s.current
  BY <1>1
<1> QED BY <1>2 DEF Trails

LEMMA PushTrails ==
  ASSUME NEW S, NEW s \in StackOf(S), NEW t \in StackOf(S), Trails(t, s), NEW c \in S
  PROVE  Trails(Pushed(t, c), Pushed(s, c))
<1> DEFINE n == s.current
           m == t.current
           a == IF n = Limit THEN 1 ELSE 0
           b == IF m = Limit THEN 1 ELSE 0
           u == Pushed(s, c)
           v == Pushed(t, c)
<1>1. /\ n \in Nat /\ m \in Nat /\ m <= n /\ n <= Limit /\ m <= Limit /\ Limit \in Nat
      /\ \A j \in 1 .. m : t.commands[j] = s.commands[n - m + j]
  BY PartsOfStack, LimitAssumption DEF Trails
<1>2. /\ u.current = n + 1 - a /\ u.commands[u.current] = c
      /\ \A i \in 1 .. u.current - 1 : u.commands[i] = s.commands[i + a]
  BY PushedParts
<1>3. /\ v.current = m + 1 - b /\ v.commands[v.current] = c
      /\ \A i \in 1 .. v.current - 1 : v.commands[i] = t.commands[i + b]
  BY PushedParts
<1>4. a \in {0, 1} /\ b \in {0, 1} /\ (b = 1 => a = 1 /\ n = m) /\ (a = 1 /\ b = 0 => m < n)
  BY <1>1
<1> HIDE DEF n, m, a, b, u, v
<1>5. v.current <= u.current /\ u.current \in Nat /\ v.current \in Nat
  BY <1>1, <1>2, <1>3, <1>4
<1>6. ASSUME NEW j \in 1 .. v.current PROVE v.commands[j] = u.commands[u.current - v.current + j]
  <2>1. CASE j = v.current
    <3>1. u.current - v.current + j = u.current
      BY <1>5, <2>1
    <3> QED BY <1>2, <1>3, <2>1, <3>1
  <2>2. CASE j # v.current
    <3>1. j \in 1 .. v.current - 1 /\ j + b \in 1 .. m
      BY <1>1, <1>3, <1>4, <1>5, <2>2
    <3>2. v.commands[j] = s.commands[n - m + (j + b)]
      BY <1>1, <1>3, <3>1
    <3>3. /\ u.current - v.current + j \in 1 .. u.current - 1
          /\ (u.current - v.current + j) + a = n - m + (j + b)
      BY <1>1, <1>2, <1>3, <1>4, <1>5, <3>1
    <3> QED BY <1>2, <3>2, <3>3
  <2> QED BY <2>1, <2>2
<1>7. Trails(v, u)
  BY <1>5, <1>6 DEF Trails
<1> QED BY <1>7 DEF u, v

LEMMA UndoTrails ==
  ASSUME NEW S, NEW s \in StackOf(S), NEW t \in StackOf(S), Trails(t, s), CanUndo(s)
  PROVE  /\ CanUndo(t) => Below(t) = Below(s) /\ Trails(Undone(t), Undone(s))
         /\ ~CanUndo(t) => Trails(t, Undone(s))
<1> DEFINE n == s.current
           m == t.current
<1>1. /\ n \in Nat /\ m \in Nat /\ m <= n /\ n >= 1
      /\ \A j \in 1 .. m : t.commands[j] = s.commands[n - m + j]
  BY PartsOfStack DEF Trails, CanUndo
<1>2. Undone(s).commands = s.commands /\ Undone(s).current = n - 1
  BY PartsOfStack DEF Undone
<1>3. Undone(t).commands = t.commands /\ Undone(t).current = m - 1
  BY PartsOfStack DEF Undone
<1>4. CASE CanUndo(t)
  <2>1. m >= 1
    BY <1>1, <1>4 DEF CanUndo
  <2>2. Below(t) = t.commands[m] /\ Below(s) = s.commands[n]
    BY DEF Below
  <2> HIDE DEF n, m
  <2>3. t.commands[m] = s.commands[n]
    <3>1. m \in 1 .. m /\ n - m + m = n
      BY <1>1, <2>1
    <3> QED BY <1>1, <3>1
  <2>4. /\ m - 1 <= n - 1
        /\ \A j \in 1 .. m - 1 : /\ t.commands[j] = s.commands[n - m + j]
                                 /\ (n - 1) - (m - 1) + j = n - m + j
    BY <1>1, <2>1
  <2>5. Trails(Undone(t), Undone(s))
    BY <1>2, <1>3, <2>4 DEF Trails
  <2> QED BY <1>4, <2>2, <2>3, <2>5
<1>5. CASE ~CanUndo(t)
  <2>1. t.current = 0
    BY <1>1, <1>5 DEF CanUndo
  <2> QED BY <1>1, <1>2, <1>5, <2>1 DEF Trails
<1> QED BY <1>4, <1>5

LEMMA RedoTrails ==
  ASSUME NEW S, NEW s \in StackOf(S), NEW t \in StackOf(S), Trails(t, s), CanRedo(s)
  PROVE  Trails(Pushed(t, Above(s)), Redone(s))
<1> DEFINE n == s.current
           m == t.current
           c == Above(s)
           v == Pushed(t, c)
<1>1. /\ n \in Nat /\ m \in Nat /\ m <= n /\ n < Limit
      /\ \A j \in 1 .. m : t.commands[j] = s.commands[n - m + j]
  BY PartsOfStack, LimitAssumption DEF Trails, CanRedo
<1>2. /\ Redone(s).commands = s.commands /\ Redone(s).current = n + 1
      /\ s.commands[n + 1] = c /\ c \in S
  <2>1. c \in S
    BY RedoKeepsStack
  <2>2. Redone(s).commands = s.commands /\ Redone(s).current = n + 1
    BY PartsOfStack DEF Redone
  <2> QED BY <2>1, <2>2 DEF Above
<1>3. /\ v.current = m + 1 /\ v.commands[v.current] = c
      /\ \A i \in 1 .. v.current - 1 : v.commands[i] = t.commands[i]
  <2>1. m # Limit /\ m + 1 - 0 = m + 1 /\ \A i \in 1 .. m : i + 0 = i
    BY <1>1, LimitAssumption
  <2>2. /\ v.current = m + 1 - 0 /\ v.commands[v.current] = c
        /\ \A i \in 1 .. v.current - 1 : v.commands[i] = t.commands[i + 0]
    BY <1>2, <2>1, PushedParts
  <2>3. \A i \in 1 .. v.current - 1 : i + 0 = i
    BY <1>1, <2>1, <2>2
  <2> QED BY <2>1, <2>2, <2>3
<1> HIDE DEF n, m, c, v
<1>4. ASSUME NEW j \in 1 .. m + 1 PROVE v.commands[j] = s.commands[(n + 1) - (m + 1) + j]
  <2>1. (n + 1) - (m + 1) + j = n - m + j
    BY <1>1
  <2>2. CASE j = m + 1
    <3>1. n - m + j = n + 1
      BY <1>1, <2>2
    <3> QED BY <1>2, <1>3, <2>1, <2>2, <3>1
  <2>3. CASE j # m + 1
    <3>1. j \in 1 .. m /\ j \in 1 .. v.current - 1
      BY <1>1, <1>3, <2>3
    <3> QED BY <1>1, <1>3, <2>1, <3>1
  <2> QED BY <2>2, <2>3
<1>5. v.current <= Redone(s).current
  BY <1>1, <1>2, <1>3
<1>6. Trails(v, Redone(s))
  BY <1>2, <1>3, <1>4, <1>5 DEF Trails
<1> QED BY <1>6 DEF v, c

(* q stands in for p, which has no models: what is in the document of p is   *)
(* in that of q or in D, and what is done on q was done last on p.          *)
Covers(p, q, D) ==
  /\ Sound(q) /\ ~q.loaded /\ ~q.resolves
  /\ p.doc \subseteq q.doc \cup D
  /\ Trails(q.stack["project"], p.stack["project"])

Repeats(r, p, t) ==
  \A q, D : Covers(p, q, D) => \E u : Replays(q, r, u) /\ Covers(t, u, D)

(* A project without models, as it is opened.                               *)
Film(doc) == Opened([loaded |-> FALSE, doc |-> doc])

LEMMA FilmParts ==
  ASSUME NEW doc \in SUBSET Commands
  PROVE  /\ Sound(Film(doc)) /\ Film(doc).doc = doc /\ ~Film(doc).loaded /\ ~Film(doc).resolves
         /\ Film(doc).stack["project"] = EmptyStack
<1>1. \A o \in Owners : Film(doc).stack[o] = EmptyStack
  BY DEF Film, Opened
<1>2. Film(doc) \in ProjectType
  BY EmptyIsStack DEF Film, Opened, ProjectType
<1>3. \A o \in Owners : SoundStack(Film(doc).stack[o], o, Film(doc).doc)
  BY <1>1, EmptyIsSound
<1>4. Sound(Film(doc))
  BY <1>2, <1>3 DEF Sound
<1> QED BY <1>1, <1>4, OwnerFacts DEF Film, Opened

LEMMA NewIsFilm == NewProject = Film({})
BY DEF NewProject, Film, Opened

LEMMA FilmCovers ==
  ASSUME NEW p, Sound(p), NEW doc \in SUBSET Commands PROVE Covers(p, Film(doc), p.doc \ doc)
<1>1. p.stack["project"] \in StackOf(CommandsOf("project"))
  BY StacksOfSound, OwnerFacts
<1>2. Trails(EmptyStack, p.stack["project"])
  BY <1>1, EmptyTrails
<1> QED BY <1>2, FilmParts DEF Covers

(* The stack of the project is replaced on both.                            *)
LEMMA CoversWith ==
  ASSUME NEW p, Sound(p), NEW q, NEW D, Covers(p, q, D),
         NEW s, NEW v, Trails(v, s), NEW a, NEW b, a \subseteq b \cup D,
         Sound(With(q, "project", v, b))
  PROVE  Covers(With(p, "project", s, a), With(q, "project", v, b), D)
<1> DEFINE t == With(p, "project", s, a)
           u == With(q, "project", v, b)
<1>1. Sound(q) /\ Sound(u) /\ "project" \in Owners
  BY OwnerFacts DEF Covers
<1>2. /\ t.stack["project"] = s /\ t.doc = a
      /\ u.stack["project"] = v /\ u.doc = b /\ u.loaded = q.loaded /\ u.resolves = q.resolves
  BY <1>1, WithParts
<1> HIDE DEF t, u
<1>3. Covers(t, u, D)
  BY <1>1, <1>2 DEF Covers
<1> QED BY <1>3 DEF t, u

LEMMA StacksThatTrail ==
  ASSUME NEW p, Sound(p), NEW q, NEW D, Covers(p, q, D)
  PROVE  /\ p.stack["project"] \in StackOf(CommandsOf("project"))
         /\ q.stack["project"] \in StackOf(CommandsOf("project"))
         /\ Trails(q.stack["project"], p.stack["project"])
         /\ Sound(q) /\ ~q.resolves
         /\ "project" \in Owners
BY StacksOfSound, OwnerFacts DEF Covers

LEMMA RedoneIsRepeated ==
  ASSUME NEW p, Sound(p), NEW c \in CommandsOf("project"),
         \A i \in 1 .. p.stack["project"].current : p.stack["project"].commands[i] # c,
         NEW r, r.type = "redo", r.of = c,
         NEW s, \A q, D : Covers(p, q, D) => Trails(Pushed(q.stack["project"], c), s)
  PROVE  Repeats(r, p, With(p, "project", s, p.doc \cup {c}))
<1> DEFINE a == p.doc \cup {c}
<1> SUFFICES ASSUME NEW q, NEW D, Covers(p, q, D)
             PROVE  \E u : Replays(q, r, u) /\ Covers(With(p, "project", s, a), u, D)
  BY DEF Repeats
<1> DEFINE v == Pushed(q.stack["project"], c)
           b == q.doc \cup {c}
<1>1. /\ p.stack["project"] \in StackOf(CommandsOf("project"))
      /\ q.stack["project"] \in StackOf(CommandsOf("project"))
      /\ Trails(q.stack["project"], p.stack["project"])
      /\ Sound(q) /\ "project" \in Owners
  BY StacksThatTrail
<1>2. OwnerOf(c) = "project" /\ p.doc \subseteq q.doc \cup D
  BY DEF CommandsOf, Covers
<1>3. \A i \in 1 .. q.stack["project"].current : q.stack["project"].commands[i] # c
  BY <1>1, TrailsInside
<1>4. Performed(q, c) = With(q, "project", v, b)
  BY <1>2 DEF Performed, Resolved, Pushed1
<1>5. Sound(With(q, "project", v, b))
  BY <1>1, <1>3, PushKeepsSound DEF Pushed1
<1>6. Trails(v, s) /\ a \subseteq b \cup D
  BY <1>2
<1> HIDE DEF a, b, v
<1>7. Covers(With(p, "project", s, a), With(q, "project", v, b), D)
  BY <1>5, <1>6, CoversWith
<1>8. Replays(q, r, With(q, "project", v, b))
  BY <1>4 DEF Replays
<1> QED BY <1>7, <1>8

LEMMA PushIsRepeated ==
  ASSUME NEW p, Sound(p), NEW c \in CommandsOf("project"),
         \A i \in 1 .. p.stack["project"].current : p.stack["project"].commands[i] # c,
         NEW r, r.type = "redo", r.of = c
  PROVE  Repeats(r, p, Pushed1(p, "project", c))
<1>1. ASSUME NEW q, NEW D, Covers(p, q, D)
      PROVE  Trails(Pushed(q.stack["project"], c), Pushed(p.stack["project"], c))
  BY <1>1, StacksThatTrail, PushTrails
<1> QED BY <1>1, RedoneIsRepeated DEF Pushed1

LEMMA RedoIsRepeated ==
  ASSUME NEW p, Sound(p), CanRedo(p.stack["project"]),
         NEW r, r.type = "redo", r.of = Above(p.stack["project"])
  PROVE  Repeats(r, p, Redone1(p, "project"))
<1> DEFINE c == Above(p.stack["project"])
<1>1. c \in CommandsOf("project") /\ c \notin p.doc
  BY RedoKeepsSound, OwnerFacts
<1>2. \A i \in 1 .. p.stack["project"].current : p.stack["project"].commands[i] # c
  <2>1. SoundStack(p.stack["project"], "project", p.doc)
    BY SoundParts, OwnerFacts
  <2>2. \A i \in 1 .. p.stack["project"].current :
          i \in 1 .. Len(p.stack["project"].commands) /\ i <= p.stack["project"].current
    BY <2>1, PartsOfStack DEF SoundStack
  <2> HIDE DEF c
  <2> QED BY <1>1, <2>1, <2>2 DEF SoundStack
<1>3. ASSUME NEW q, NEW D, Covers(p, q, D)
      PROVE  Trails(Pushed(q.stack["project"], c), Redone(p.stack["project"]))
  BY <1>3, StacksThatTrail, RedoTrails
<1>4. /\ Redone1(p, "project") = With(p, "project", Redone(p.stack["project"]), p.doc \cup {c})
      /\ r.of = c
  BY DEF Redone1
<1> HIDE DEF c
<1> QED BY <1>1, <1>2, <1>3, <1>4, RedoneIsRepeated

LEMMA UndoIsRepeated ==
  ASSUME NEW p, Sound(p), CanUndo(p.stack["project"]),
         NEW r, r.type = "undo", r.of = "project"
  PROVE  Repeats(r, p, Undone1(p, "project"))
<1> DEFINE s == Undone(p.stack["project"])
           c == Below(p.stack["project"])
           a == p.doc \ {c}
<1> SUFFICES ASSUME NEW q, NEW D, Covers(p, q, D)
             PROVE  \E u : Replays(q, r, u) /\ Covers(With(p, "project", s, a), u, D)
  BY DEF Repeats, Undone1
<1>1. /\ p.stack["project"] \in StackOf(CommandsOf("project"))
      /\ q.stack["project"] \in StackOf(CommandsOf("project"))
      /\ Trails(q.stack["project"], p.stack["project"])
      /\ Sound(q) /\ ~q.resolves /\ "project" \in Owners /\ p.doc \subseteq q.doc \cup D
  BY StacksThatTrail DEF Covers
<1>2. Replays(q, r, UndoneOn(q, "project"))
  BY DEF Replays
<1>3. CASE CanUndo(q.stack["project"])
  <2> DEFINE v == Undone(q.stack["project"])
             b == q.doc \ {c}
  <2>1. Below(q.stack["project"]) = c /\ Trails(v, s)
    BY <1>1, <1>3, UndoTrails
  <2>2. UndoneOn(q, "project") = With(q, "project", v, b)
    BY <1>3, <2>1 DEF UndoneOn, Undone1
  <2>3. Sound(With(q, "project", v, b))
    BY <1>1, <1>3, <2>1, UndoKeepsSound DEF Undone1
  <2>4. a \subseteq b \cup D
    BY <1>1
  <2> HIDE DEF a, b, c, s, v
  <2>5. Covers(With(p, "project", s, a), With(q, "project", v, b), D)
    BY <2>1, <2>3, <2>4, CoversWith
  <2> QED BY <1>2, <2>2, <2>5
<1>4. CASE ~CanUndo(q.stack["project"])
  <2>1. Trails(q.stack["project"], s)
    BY <1>1, <1>4, UndoTrails
  <2>2. UndoneOn(q, "project") = q
    BY <1>4 DEF UndoneOn
  <2>3. a \subseteq q.doc \cup D
    BY <1>1
  <2> HIDE DEF a, c, s
  <2>4. With(p, "project", s, a).stack["project"] = s /\ With(p, "project", s, a).doc = a
    BY <1>1, WithParts
  <2>5. Covers(With(p, "project", s, a), q, D)
    BY <2>1, <2>3, <2>4 DEF Covers
  <2> QED BY <1>2, <2>2, <2>5
<1> QED BY <1>3, <1>4

-----------------------------------------------------------------------------
(* Until the first crash is recovered from, of a project without models:    *)
(* the records after the last save point, replayed on any saved project,    *)
(* give all of its document but what was saved and is missing there.        *)
SavedAt(rs, k) == k > 0 => rs[k].type = "save"

Remakes(rs, saved, p) ==
  \E k \in 0 .. Len(rs), D \in SUBSET Commands :
    /\ SavedAt(rs, k)
    /\ IF k = 0 THEN D = {} ELSE saved = [loaded |-> FALSE, doc |-> D]
    /\ \A E \in SUBSET Commands :
         \E q : Rebuilds(rs, k, Film(E), q) /\ Covers(p, q, D \ E)

Holds(rs, saved, doc) ==
  \E k \in 0 .. Len(rs), E \in SUBSET Commands :
    /\ SavedAt(rs, k)
    /\ IF k = 0 THEN E = {} ELSE saved = [loaded |-> FALSE, doc |-> E]
    /\ \E q : Rebuilds(rs, k, Film(E), q) /\ doc \subseteq q.doc

Filmed ==
  /\ crashes = 0 /\ ~project.loaded =>
       journaling /\ ~editing /\ Remakes(Records, file, project)
  /\ phase = "crashed" /\ ~lost.loaded => Holds(Records, file, lost.doc)

(* A record of the project in use that is no save point.                    *)
LEMMA StepIsFilmed ==
  ASSUME Inv, Remembered, Filmed, phase = "running",
         UNCHANGED <<phase, editing, journaling, file, crashes>>,
         NEW r \in Entry, r.seq = sequence, writeRedoMessage(r),
         ~project'.loaded => ~project.loaded /\ Repeats(r, project, project')
  PROVE  Filmed'
<1> SUFFICES ASSUME crashes = 0, ~project'.loaded
             PROVE  journaling /\ ~editing /\ Remakes(Records', file, project')
  BY DEF Filmed
<1>1. ~project.loaded /\ Repeats(r, project, project') /\ journaling /\ ~editing
  BY DEF Filmed
<1>2. PICK k \in 0 .. Len(Records), D \in SUBSET Commands :
        /\ SavedAt(Records, k)
        /\ IF k = 0 THEN D = {} ELSE file = [loaded |-> FALSE, doc |-> D]
        /\ \A E \in SUBSET Commands :
             \E q : Rebuilds(Records, k, Film(E), q) /\ Covers(project, q, D \ E)
  BY <1>1 DEF Filmed, Remakes
<1>3. journal' = Saved(journal, r) /\ Mine(journal, sequence)
  BY <1>1 DEF Remembered, writeRedoMessage
<1>4. Records' = Append(Records, r) /\ Records \in Seq(Entry)
  BY <1>3, MineWrites, MineParts DEF Records
<1>5. /\ Len(Records') = Len(Records) + 1 /\ Len(Records) \in Nat
      /\ \A i \in 1 .. Len(Records) : Records'[i] = Records[i]
  BY <1>4, OneMore
<1>6. k \in 0 .. Len(Records') /\ SavedAt(Records', k)
  BY <1>2, <1>5 DEF SavedAt
<1>7. ASSUME NEW E \in SUBSET Commands
      PROVE  \E q : Rebuilds(Records', k, Film(E), q) /\ Covers(project', q, D \ E)
  <2>1. PICK q : Rebuilds(Records, k, Film(E), q) /\ Covers(project, q, D \ E)
    BY <1>2
  <2>2. PICK u : Replays(q, r, u) /\ Covers(project', u, D \ E)
    BY <1>1, <2>1 DEF Repeats
  <2>3. Rebuilds(Append(Records, r), k, Film(E), u)
    BY <1>4, <2>1, <2>2, RebuildsMore
  <2> QED BY <1>4, <2>2, <2>3
<1> QED BY <1>1, <1>2, <1>6, <1>7 DEF Remakes

LEMMA QuietIsFilmed ==
  ASSUME Filmed, phase = "running",
         UNCHANGED <<phase, project, journaling, journal, file, crashes>>,
         editing' = editing \/ project.loaded
  PROVE  Filmed'
<1>1. Records' = Records
  BY DEF Records
<1>2. ~project.loaded => editing' = editing
  OBVIOUS
<1> QED BY <1>1, <1>2 DEF Filmed

LEMMA ActiveOfFilm ==
  ASSUME Inv, ~project.loaded PROVE active = "project"
BY InvParts DEF Owners

LEMMA LoadIsFilmed == ASSUME Inv, Remembered, Filmed, LoadModel PROVE Filmed'
<1>1. phase' = "running" /\ project'.loaded
  BY InvParts, SoundParts DEF LoadModel
<1> QED BY <1>1 DEF Filmed

LEMMA PushIsFilmed ==
  ASSUME Inv, Remembered, Filmed, NEW c \in Commands, PushUndo(c) PROVE Filmed'
<1> DEFINE r == RedoRecord(c)
           s == project.stack["project"]
<1>1. /\ phase = "running" /\ c \in Fresh /\ OwnerOf(c) = active
      /\ project' = Pushed1(project, active, c) /\ writeRedoMessage(r)
      /\ UNCHANGED <<phase, editing, journaling, file, crashes>>
  BY DEF PushUndo
<1>2. r \in Entry /\ r.type = "redo" /\ r.of = c /\ r.seq = sequence
  BY InvParts, RecordIsEntry DEF Types, RedoRecord
<1> HIDE DEF r
<1>3. project'.loaded = project.loaded
  BY <1>1, InvParts, WithParts DEF Pushed1
<1>4. ASSUME ~project.loaded PROVE Repeats(r, project, project')
  <2>1. active = "project"
    BY <1>4, ActiveOfFilm
  <2>2. c \in CommandsOf("project") /\ c \notin ToSet(s.commands)
    BY <1>1, <2>1, OwnerFacts DEF Fresh, CommandsOf
  <2>3. /\ s.current \in Nat /\ s.commands \in Seq(Commands) /\ s.current <= Len(s.commands)
        /\ Len(s.commands) \in Nat
    BY InvParts, SoundParts, PartsOfStack, OwnerFacts
  <2> HIDE DEF s
  <2>4. \A i \in 1 .. s.current : s.commands[i] # c
    BY <2>2, <2>3 DEF ToSet
  <2> QED BY <1>1, <1>2, <2>1, <2>2, <2>4, InvParts, PushIsRepeated DEF s
<1> QED BY <1>1, <1>2, <1>3, <1>4, StepIsFilmed

LEMMA UndoIsFilmed == ASSUME Inv, Remembered, Filmed, HandleUndoAction PROVE Filmed'
<1> DEFINE r == UndoRecord
<1>1. /\ phase = "running" /\ CanUndo(project.stack[active])
      /\ project' = Undone1(project, active) /\ writeRedoMessage(r)
      /\ UNCHANGED <<phase, editing, journaling, file, crashes>>
  BY DEF HandleUndoAction
<1>2. r \in Entry /\ r.type = "undo" /\ r.of = active /\ r.seq = sequence
  BY InvParts, RecordIsEntry DEF Types, UndoRecord
<1> HIDE DEF r
<1>3. project'.loaded = project.loaded
  BY <1>1, InvParts, WithParts DEF Undone1
<1>4. ASSUME ~project.loaded PROVE Repeats(r, project, project')
  BY <1>1, <1>2, <1>4, ActiveOfFilm, InvParts, UndoIsRepeated
<1> QED BY <1>1, <1>2, <1>3, <1>4, StepIsFilmed

LEMMA RedoIsFilmed == ASSUME Inv, Remembered, Filmed, HandleRedoAction PROVE Filmed'
<1> DEFINE c == Above(project.stack[active])
           r == RedoRecord(c)
<1>1. /\ phase = "running" /\ CanRedo(project.stack[active])
      /\ project' = Redone1(project, active) /\ writeRedoMessage(r)
      /\ UNCHANGED <<phase, editing, journaling, file, crashes>>
  BY DEF HandleRedoAction
<1>2. r \in Entry /\ r.type = "redo" /\ r.of = c /\ r.seq = sequence
  <2>1. c \in Commands
    BY <1>1, InvParts, RedoKeepsSound DEF CommandsOf
  <2> HIDE DEF c
  <2> QED BY <2>1, InvParts, RecordIsEntry DEF Types, RedoRecord
<1>3. project'.loaded = project.loaded
  BY <1>1, InvParts, WithParts DEF Redone1
<1> HIDE DEF r
<1>4. ASSUME ~project.loaded PROVE Repeats(r, project, project')
  BY <1>1, <1>2, <1>4, ActiveOfFilm, InvParts, RedoIsRepeated
<1> QED BY <1>1, <1>2, <1>3, <1>4, StepIsFilmed

LEMMA EditingIsFilmed ==
  ASSUME Inv, Remembered, Filmed, PushEditing \/ UndoEditing \/ RedoEditing PROVE Filmed'
<1>1. /\ phase = "running" /\ editing /\ UNCHANGED <<phase, project, crashes>>
  BY DEF PushEditing, UndoEditing, RedoEditing
<1> QED BY <1>1 DEF Filmed

LEMMA SetModelEditingIsFilmed ==
  ASSUME Inv, Filmed, NEW value \in BOOLEAN, SetModelEditingEnabled(value) PROVE Filmed'
<1>1. project.loaded
  BY InvParts DEF SetModelEditingEnabled
<1> QED BY <1>1, QuietIsFilmed DEF SetModelEditingEnabled

(* From the save point on there is nothing to replay.                       *)
LEMMA SaveIsFilmed == ASSUME Inv, Remembered, Filmed, SaveProject PROVE Filmed'
<1> DEFINE r == Record("save", "none")
<1>1. /\ phase = "running" /\ writeRedoMessage(r) /\ file' = Written
      /\ UNCHANGED <<phase, project, editing, journaling, crashes>>
  BY DEF SaveProject
<1>2. r \in Entry /\ r.seq = sequence /\ r.type = "save"
  BY InvParts, RecordIsEntry DEF Types
<1> HIDE DEF r
<1> SUFFICES ASSUME crashes = 0, ~project.loaded
             PROVE  journaling /\ ~editing /\ Remakes(Records', file', project)
  BY <1>1 DEF Filmed
<1>3. journaling /\ ~editing
  BY DEF Filmed
<1>4. journal' = Saved(journal, r) /\ Mine(journal, sequence)
  BY <1>1, <1>3 DEF Remembered, writeRedoMessage
<1>5. Records' = Append(Records, r) /\ Records \in Seq(Entry)
  BY <1>2, <1>4, MineWrites, MineParts DEF Records
<1> DEFINE k == Len(Records')
           D == project.doc
<1>6. /\ Records' \in Seq(Entry) /\ k \in Nat /\ k > 0 /\ Records'[k] = r
  BY <1>2, <1>5, OneMore
<1>7. SavedAt(Records', k)
  BY <1>2, <1>6 DEF SavedAt
<1>8. file' = [loaded |-> FALSE, doc |-> D] /\ D \in SUBSET Commands /\ Sound(project)
  BY <1>1, InvParts, SoundParts DEF Written
<1>9. ASSUME NEW E \in SUBSET Commands
      PROVE  Rebuilds(Records', k, Film(E), Film(E)) /\ Covers(project, Film(E), D \ E)
  BY <1>6, <1>8, RebuildsNothing, FilmCovers
<1> HIDE DEF D
<1>10. k \in 0 .. k /\ k # 0
  BY <1>6
<1> QED BY <1>3, <1>7, <1>8, <1>9, <1>10 DEF Remakes

(* The file is the one of the last save point, or the one of a save whose   *)
(* save point is missing.                                                  *)
LEMMA CrashIsFilmed ==
  ASSUME Inv, Filmed, OneCrash, NEW saved, saved \in {file, Written}, CrashWith(saved)
  PROVE  Filmed'
<1>1. /\ phase = "running" /\ crashes < MaxCrashes /\ phase' = "crashed" /\ crashes' = crashes + 1
      /\ lost' = project /\ journal' = journal /\ file' = saved
  BY DEF CrashWith
<1>2. crashes = 0 /\ crashes' # 0
  BY <1>1, BoundsAssumption DEF OneCrash, Inv, Simple
<1>3. Records' = Records
  BY <1>1 DEF Records
<1> SUFFICES ASSUME ~project.loaded PROVE Holds(Records, saved, project.doc)
  BY <1>1, <1>2, <1>3 DEF Filmed
<1>4. PICK k \in 0 .. Len(Records), D \in SUBSET Commands :
        /\ SavedAt(Records, k)
        /\ IF k = 0 THEN D = {} ELSE file = [loaded |-> FALSE, doc |-> D]
        /\ \A E \in SUBSET Commands :
             \E q : Rebuilds(Records, k, Film(E), q) /\ Covers(project, q, D \ E)
  BY <1>2 DEF Filmed, Remakes
<1>5. Written = [loaded |-> FALSE, doc |-> project.doc] /\ project.doc \in SUBSET Commands
  BY InvParts, SoundParts DEF Written
<1> DEFINE E == IF k = 0 \/ saved = file THEN D ELSE project.doc
<1>6. E \in SUBSET Commands /\ (IF k = 0 THEN E = {} ELSE saved = [loaded |-> FALSE, doc |-> E])
  BY <1>4, <1>5
<1>7. PICK q : Rebuilds(Records, k, Film(E), q) /\ Covers(project, q, D \ E)
  BY <1>4, <1>6
<1>8. project.doc \subseteq q.doc
  BY <1>7 DEF Covers
<1> HIDE DEF E
<1> QED BY <1>4, <1>6, <1>7, <1>8 DEF Holds

LEMMA FilmedInit == ASSUME Init PROVE Filmed
<1>1. Records = <<>> /\ <<>> \in Seq(Entry) /\ Len(<<>>) = 0
  BY DEF Init, Records, RecordsOf
<1>2. ASSUME NEW E \in SUBSET Commands
      PROVE  Rebuilds(<<>>, 0, Film(E), Film(E)) /\ Covers(NewProject, Film(E), {} \ E)
  <2>1. Rebuilds(<<>>, Len(<<>>), Film(E), Film(E))
    BY <1>1, RebuildsNothing
  <2>2. Covers(NewProject, Film(E), NewProject.doc \ E) /\ NewProject.doc = {}
    BY NewIsSound, FilmCovers DEF NewProject
  <2> QED BY <1>1, <2>1, <2>2
<1>3. 0 \in 0 .. Len(Records) /\ {} \in SUBSET Commands /\ SavedAt(Records, 0)
  BY <1>1 DEF SavedAt
<1>4. /\ phase = "running" /\ project = NewProject /\ journaling /\ ~editing
  BY DEF Init
<1>5. Remakes(Records, file, NewProject)
  BY <1>1, <1>2, <1>3 DEF Remakes
<1> QED BY <1>4, <1>5 DEF Filmed

LEMMA FilmedNext ==
  ASSUME Inv, Remembered, Filmed, OneCrash, "open" \notin Operations, [Next]_vars PROVE Filmed'
<1>1. CASE LoadModel
  BY <1>1, LoadIsFilmed
<1>2. CASE \E o \in Owners : SetActiveModel(o)
  BY <1>2, QuietIsFilmed DEF SetActiveModel
<1>3. CASE \E c \in Commands : PushUndo(c)
  BY <1>3, PushIsFilmed
<1>4. CASE HandleUndoAction
  BY <1>4, UndoIsFilmed
<1>5. CASE HandleRedoAction
  BY <1>5, RedoIsFilmed
<1>6. CASE \E value \in BOOLEAN : SetModelEditingEnabled(value)
  BY <1>6, SetModelEditingIsFilmed
<1>7. CASE PushEditing \/ UndoEditing \/ RedoEditing
  BY <1>7, EditingIsFilmed
<1>8. CASE SaveProject
  BY <1>8, SaveIsFilmed
<1>9. CASE OpenProject
  BY <1>9 DEF OpenProject
<1>10. CASE Crash
  BY <1>10, CrashIsFilmed DEF Crash
<1>11. CASE CrashWhileSaving
  BY <1>11, CrashIsFilmed DEF CrashWhileSaving
<1>12. CASE CrashWhileRecovering
  BY <1>12 DEF CrashWhileRecovering, OneCrash
<1>13. CASE Recover
  <2>1. phase = "crashed" /\ phase' = "running" /\ crashes' = crashes
    BY <1>13 DEF Recover
  <2>2. crashes # 0
    BY <2>1 DEF Remembered
  <2> QED BY <2>1, <2>2 DEF Filmed
<1>14. CASE UNCHANGED vars
  BY <1>14 DEF vars, Filmed, Records
<1> QED BY <1>1, <1>2, <1>3, <1>4, <1>5, <1>6, <1>7, <1>8, <1>9, <1>10, <1>11, <1>12, <1>13, <1>14
           DEF Next

LEMMA RecoveredIsFilmed ==
  ASSUME Inv, Filmed, Recover, ~lost.loaded PROVE lost.doc \subseteq project'.doc
<1>1. Records \in Seq(Entry) /\ Numbered(Records) /\ Len(Records) \in Nat
  BY JournalRecords, LenProperties DEF Inv, Logged, WellLogged
<1>2. PICK k \in 0 .. Len(Records), E \in SUBSET Commands :
        /\ SavedAt(Records, k)
        /\ IF k = 0 THEN E = {} ELSE file = [loaded |-> FALSE, doc |-> E]
        /\ \E q : Rebuilds(Records, k, Film(E), q) /\ lost.doc \subseteq q.doc
  BY DEF Filmed, Recover, Holds
<1>3. PICK q : Rebuilds(Records, k, Film(E), q) /\ lost.doc \subseteq q.doc
  BY <1>2
<1>4. \A i \in k + 1 .. Len(Records) : Records[i].type # "save"
  BY <1>3 DEF Rebuilds, Replays
<1>5. k \in Nat /\ k <= Len(Records) /\ SavePoints \subseteq 1 .. k
  BY <1>1, <1>4 DEF SavePoints
<1>6. Offset <= k /\ (k > 0 => Offset < k) /\ Offset \in Nat
  <2>1. CASE SavePoints = {}
    BY <1>5, <2>1 DEF Offset
  <2>2. CASE SavePoints # {}
    <3>1. Max(SavePoints) \in 1 .. k
      BY <1>5, <2>2, Greatest
    <3> QED BY <1>5, <2>2, <3>1 DEF Offset
  <2> QED BY <2>1, <2>2
<1>7. Replayed[k].project = Film(E)
  <2>1. CASE k = 0
    <3>1. E = {}
      BY <1>2, <2>1
    <3>2. Replayed[0].project = NewProject
      BY <1>1, ReplayedSteps DEF Start
    <3> QED BY <2>1, <3>1, <3>2, NewIsFilm
  <2>2. CASE k # 0
    <3>1. k \in 1 .. Len(Records) /\ k > 0 /\ Records[k].type = "save"
      BY <1>2, <1>5, <2>2 DEF SavedAt
    <3>2. IsReplayed(k)
      BY <1>1, <1>6, <3>1, OffsetParts
    <3>3. Replayed[k] = ReplayedNext(Replayed[k - 1], k)
      BY <1>1, <3>1, ReplayedSteps
    <3>4. Replayed[k].project = Opened(file)
      BY <3>1, <3>2, <3>3 DEF ReplayedNext, Replay
    <3> QED BY <1>2, <2>2, <3>4 DEF Film
  <2> QED BY <2>1, <2>2
<1>8. Replayed[Len(Records)].project = q
  BY <1>1, <1>3, <1>6, <1>7, RecoveryRebuilds
<1> QED BY <1>3, <1>8 DEF Recover

(* A project without models loses nothing that was done to camera and light, *)
(* however often it was saved, whether the crash came between two commands  *)
(* or between the commit of a saved file and its save point.  Another       *)
(* project must not have been opened: it has no log.                        *)
THEOREM CameraIsRecovered ==
  ASSUME OneCrash, "open" \notin Operations PROVE Spec => RecoversCamera
<1>1. Init => Inv /\ Remembered /\ Filmed
  BY InvInit, RememberedInit, FilmedInit
<1>2. Inv /\ Remembered /\ Filmed /\ [Next]_vars => Inv' /\ Remembered' /\ Filmed'
  BY InvNext, RememberedNext, FilmedNext
<1>3. Inv /\ Remembered /\ Filmed /\ [Next]_vars
        => [Recover /\ ~lost.loaded => lost.doc \subseteq project'.doc]_vars
  BY RecoveredIsFilmed
<1> QED BY <1>1, <1>2, <1>3, PTL DEF Spec, RecoversCamera
=============================================================================
