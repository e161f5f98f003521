------------------------ MODULE KeyframeCommandsProofs ------------------------
(***************************************************************************)
(* What the keyframe commands keep for any bones, values and timeline, for  *)
(* stacks of any limit and any number of commands.                          *)
(*                                                                         *)
(* That a bone keeps its first keyframe is not inductive by itself: an undo *)
(* puts back what a command holds.  So every motion a command holds has the *)
(* first keyframes, every keyframe it holds at frame 0 is one it changes    *)
(* and does not remove, and every shift is of a later frame.                *)
(***************************************************************************)
EXTENDS KeyframeCommands, SequenceTheorems, WellFoundedInduction, TLAPS

Complete(m) == 0 \notin Columns => \A b \in Bones : m[b][0] # NULL
SoundMotion == {m \in Motion : Complete(m)}
SoundKey == {k \in CommandKey : 0 \notin Columns /\ k.frame = 0 => k.updated}
SoundCommand ==
  {c \in Commands : /\ c.keys \subseteq SoundKey
                    /\ c.kind = "insertFrame" => c.frame # 0
                    /\ c.kind = "removeFrame" => c.frame \in Columns
                    /\ c.before \in SoundMotion /\ c.after \in SoundMotion}
SoundStack ==
  {s \in [commands : Seq(SoundCommand), current : Nat] :
     s.current <= Len(s.commands) /\ Len(s.commands) <= Limit}
SoundProject == [motion : SoundMotion, stack : [Owners -> SoundStack]]

Inv ==
  /\ project \in SoundProject
  /\ recovered \in SoundProject
  /\ moved \in BOOLEAN /\ undefined \in BOOLEAN /\ pushes \in 0 .. MaxPushes

(* The frames are numbers and the first is among them.                     *)
LEMMA FrameFacts ==
  /\ 0 \in Frames /\ LastFrame \in Nat /\ LastFrame \in Frames
  /\ \A f \in Frames : f \in Nat /\ f <= LastFrame
  /\ \A f \in Nat : f <= LastFrame => f \in Frames
BY FrameAssumption DEF Frames

(* A set of numbers has a least one, and one within a bound a largest.     *)
LEMMA Least == ASSUME NEW T \in SUBSET Nat, T # {} PROVE \E x \in T : \A y \in T : x <= y
<1>1. IsWellFoundedOn(OpToRel(<, Nat), Nat)
  BY NatLessThanWellFounded
<1>2. PICK x \in T : \A y \in T : ~ (<<y, x>> \in OpToRel(<, Nat))
  BY <1>1, WFMin
<1>3. \A y \in T : ~(y < x)
  BY <1>2 DEF OpToRel
<1> QED BY <1>3

LEMMA Largest ==
  ASSUME NEW n \in Int, NEW S \in SUBSET (0 .. n), S # {}
  PROVE  Max(S) \in S
<1> DEFINE T == {n - x : x \in S}
<1>1. \E x \in T : \A y \in T : x <= y
  <2>1. \A x \in S : n - x \in Nat
    OBVIOUS
  <2>2. T \subseteq Nat /\ T # {}
    BY <2>1
  <2> HIDE DEF T
  <2> QED BY <2>2, Least
<1>2. PICK m \in S : \A y \in T : n - m <= y
  BY <1>1
<1>3. \A y \in S : n - m <= n - y
  BY <1>2
<1>4. \A y \in S : m >= y
  BY <1>3
<1> QED BY <1>4 DEF Max

-----------------------------------------------------------------------------
(* The operations on motions keep them complete.                           *)

(* A motion is known by its keyframes.                                     *)
LEMMA MotionByKeyframes ==
  ASSUME NEW e, e = [b \in Bones |-> [f \in Frames |-> e[b][f]]],
         \A b \in Bones, f \in Frames : e[b][f] \in Slot,
         Complete(e)
  PROVE  e \in SoundMotion
BY DEF SoundMotion, Motion

LEMMA SlotsOfMotion ==
  ASSUME NEW m \in SoundMotion
  PROVE  /\ \A b \in Bones, f \in Frames : m[b][f] \in Slot
         /\ \A b \in Bones, f \in Frames : Found(m, b, f) => m[b][f] \in Keyframe
         /\ \A b \in Bones : 0 \notin Columns => Found(m, b, 0)
BY DEF SoundMotion, Motion, Slot, Found, Complete

LEMMA KeyOf ==
  ASSUME NEW keys \in SUBSET SoundKey, NEW b, NEW f, Has(keys, b, f)
  PROVE  /\ Of(keys, b, f) \in keys
         /\ Of(keys, b, f).bone = b /\ Of(keys, b, f).frame = f
         /\ Of(keys, b, f).first \in Keyframe /\ Of(keys, b, f).second \in Keyframe
         /\ f = 0 /\ 0 \notin Columns => Of(keys, b, f).updated
BY DEF Has, Of, SoundKey, CommandKey

LEMMA AddKeepsSound ==
  ASSUME NEW m \in SoundMotion, NEW keys \in SUBSET SoundKey
  PROVE  addKeyframe(m, keys) \in SoundMotion
<1> DEFINE e == addKeyframe(m, keys)
<1>1. \A b \in Bones, f \in Frames : e[b][f] \in Slot
  BY SlotsOfMotion, KeyOf DEF addKeyframe, Slot
<1>2. \A b \in Bones : 0 \notin Columns => e[b][0] # NULL
  BY SlotsOfMotion, KeyOf, FrameFacts, NullAssumption DEF addKeyframe, Found
<1> QED BY <1>1, <1>2, MotionByKeyframes DEF addKeyframe, Complete

LEMMA RemoveKeepsSound ==
  ASSUME NEW m \in SoundMotion, NEW keys \in SUBSET SoundKey, NEW e \in removeKeyframe(m, keys)
  PROVE  e \in SoundMotion
<1>1. PICK R \in Reached(m, keys) :
        e = [b \in Bones |-> [f \in Frames |->
              IF Has(R, b, f) /\ Found(m, b, f)
              THEN IF Of(R, b, f).updated THEN Of(R, b, f).second ELSE NULL
              ELSE m[b][f]]]
  BY ZenonT(30) DEF removeKeyframe
<1>2. R \in SUBSET SoundKey
  BY DEF Reached
<1>3. \A b \in Bones, f \in Frames : e[b][f] \in Slot
  BY <1>1, <1>2, SlotsOfMotion, KeyOf DEF Slot
<1>4. \A b \in Bones : 0 \notin Columns => e[b][0] # NULL
  BY <1>1, <1>2, SlotsOfMotion, KeyOf, FrameFacts, NullAssumption DEF Found
<1> QED BY <1>1, <1>3, <1>4, MotionByKeyframes DEF Complete

LEMMA OverrideKeepsSound ==
  ASSUME NEW m \in SoundMotion, NEW keys \in SUBSET SoundKey, NEW undoing \in BOOLEAN
  PROVE  Overridden(m, keys, undoing) \in SoundMotion
<1> DEFINE e == Overridden(m, keys, undoing)
<1>1. ASSUME NEW k \in Keyframe, NEW c \in Curves PROVE [k EXCEPT !.curve = c] \in Keyframe
  BY DEF Keyframe
<1>2. ASSUME NEW b \in Bones, NEW f \in Frames
      PROVE  e[b][f] \in Slot /\ (Found(m, b, f) => e[b][f] \in Keyframe)
  <2> DEFINE k == CHOOSE k \in Targets(keys, b, f) : TRUE
  <2>1. e[b][f] = IF Targets(keys, b, f) # {} /\ Found(m, b, f)
                  THEN [m[b][f] EXCEPT !.curve = IF undoing THEN k.last ELSE k.current]
                  ELSE m[b][f]
    BY DEF Overridden
  <2>2. CASE Targets(keys, b, f) # {} /\ Found(m, b, f)
    <3>1. k \in CommandKey
      BY <2>2 DEF Targets, SoundKey
    <3>2. k.last \in Curves /\ k.current \in Curves
      BY <3>1 DEF CommandKey
    <3> HIDE DEF k
    <3>3. m[b][f] \in Keyframe
      BY <2>2, SlotsOfMotion
    <3>4. e[b][f] \in Keyframe
      BY <2>1, <2>2, <3>2, <3>3, <1>1
    <3> QED BY <3>4 DEF Slot
  <2>3. CASE ~(Targets(keys, b, f) # {} /\ Found(m, b, f))
    BY <2>1, <2>3, SlotsOfMotion
  <2> QED BY <2>2, <2>3
<1>3. \A b \in Bones : 0 \notin Columns => e[b][0] # NULL
  BY <1>2, SlotsOfMotion, FrameFacts, NullAssumption
<1>4. e = [b \in Bones |-> [f \in Frames |-> e[b][f]]]
  BY DEF Overridden
<1>5. e \in SoundMotion
  <2> HIDE DEF e
  <2> QED BY <1>2, <1>3, <1>4, MotionByKeyframes DEF Complete
<1> QED BY <1>5

LEMMA ColumnIsKept ==
  /\ Nothing \in [Bones -> Slot]
  /\ \A m \in SoundMotion, f \in Frames : Column(m, f) \in [Bones -> Slot]
BY SlotsOfMotion DEF Nothing, Column, Slot

LEMMA BackwardKeepsSound ==
  ASSUME NEW m \in SoundMotion, NEW at \in Frames, NEW kept \in [Bones -> Slot]
  PROVE  Backward(m, at, kept) \in SoundMotion
<1>1. CASE at = 0
  BY <1>1 DEF Backward
<1>2. CASE at # 0
  <2> DEFINE e == Backward(m, at, kept)
  <2>1. e = [b \in Bones |-> [f \in Frames |->
               CASE f < at -> m[b][f] [] f = at -> kept[b] [] f > at -> m[b][f - 1]]]
    BY <1>2 DEF Backward
  <2>2. at \in Nat /\ \A f \in Frames : f \in Nat /\ (f > at => f - 1 \in Frames)
    BY FrameFacts
  <2>3. \A b \in Bones, f \in Frames :
          \/ f < at /\ e[b][f] = m[b][f]
          \/ f = at /\ e[b][f] = kept[b]
          \/ f > at /\ e[b][f] = m[b][f - 1]
    <3> SUFFICES ASSUME NEW b \in Bones, NEW f \in Frames
                 PROVE  \/ f < at /\ e[b][f] = m[b][f]
                        \/ f = at /\ e[b][f] = kept[b]
                        \/ f > at /\ e[b][f] = m[b][f - 1]
      OBVIOUS
    <3>1. e[b][f] = CASE f < at -> m[b][f] [] f = at -> kept[b] [] f > at -> m[b][f - 1]
      BY <1>2 DEF Backward
    <3> HIDE DEF e
    <3> QED BY <2>2, <3>1
  <2>4. e = [b \in Bones |-> [f \in Frames |-> e[b][f]]]
    BY <2>1
  <2> HIDE DEF e
  <2>5. \A b \in Bones, f \in Frames : e[b][f] \in Slot
    <3> SUFFICES ASSUME NEW b \in Bones, NEW f \in Frames PROVE e[b][f] \in Slot
      OBVIOUS
    <3>1. CASE f < at /\ e[b][f] = m[b][f]
      BY <3>1, SlotsOfMotion
    <3>2. CASE f = at /\ e[b][f] = kept[b]
      BY <3>2
    <3>3. CASE f > at /\ e[b][f] = m[b][f - 1]
      <4>1. f - 1 \in Frames
        BY <2>2, <3>3
      <4> QED BY <3>3, <4>1, SlotsOfMotion
    <3> QED BY <2>3, <3>1, <3>2, <3>3
  <2>6. \A b \in Bones : 0 \notin Columns => e[b][0] # NULL
    BY <1>2, <2>2, <2>3, SlotsOfMotion, FrameFacts DEF Found
  <2>7. e \in SoundMotion
    BY <2>4, <2>5, <2>6, MotionByKeyframes DEF Complete
  <2> QED BY <2>7 DEF e
<1> QED BY <1>1, <1>2

LEMMA ForwardKeepsSound ==
  ASSUME NEW m \in SoundMotion, NEW at \in Frames, at = 0 => 0 \in Columns
  PROVE  Forward(m, at) \in SoundMotion
<1> DEFINE e == Forward(m, at)
<1>1. at \in Nat /\ \A f \in Frames : f \in Nat /\ (f < LastFrame => f + 1 \in Frames)
  BY FrameFacts
<1>2. \A b \in Bones, f \in Frames :
        \/ f < at /\ e[b][f] = m[b][f]
        \/ f >= at /\ f < LastFrame /\ e[b][f] = m[b][f + 1]
        \/ f >= at /\ f >= LastFrame /\ e[b][f] = NULL
  <2> SUFFICES ASSUME NEW b \in Bones, NEW f \in Frames
               PROVE  \/ f < at /\ e[b][f] = m[b][f]
                      \/ f >= at /\ f < LastFrame /\ e[b][f] = m[b][f + 1]
                      \/ f >= at /\ f >= LastFrame /\ e[b][f] = NULL
    OBVIOUS
  <2>1. e[b][f] = CASE f < at -> m[b][f]
                    [] f >= at /\ f < LastFrame -> m[b][f + 1]
                    [] OTHER -> NULL
    BY DEF Forward
  <2> HIDE DEF e
  <2> QED BY <1>1, <2>1, FrameFacts
<1>3. e = [b \in Bones |-> [f \in Frames |-> e[b][f]]]
  BY DEF Forward
<1>4. e \in SoundMotion
  <2> HIDE DEF e
  <2>1. \A b \in Bones, f \in Frames : e[b][f] \in Slot
    BY <1>1, <1>2, SlotsOfMotion DEF Slot
  <2>2. \A b \in Bones : 0 \notin Columns => e[b][0] # NULL
    BY <1>1, <1>2, SlotsOfMotion, FrameFacts DEF Found
  <2> QED BY <1>3, <2>1, <2>2, MotionByKeyframes DEF Complete
<1> QED BY <1>4

LEMMA CorrectKeepsSound ==
  ASSUME NEW m \in SoundMotion, NEW K \in Selections(m), NEW v \in Values
  PROVE  Corrected(m, K, v) \in SoundMotion
<1> DEFINE e == Corrected(m, K, v)
<1>1. ASSUME NEW k \in Keyframe PROVE [k EXCEPT !.value = v] \in Keyframe
  BY DEF Keyframe
<1>2. \A b \in Bones, f \in Frames :
        IF <<b, f>> \in K THEN e[b][f] \in Keyframe ELSE e[b][f] = m[b][f]
  <2> SUFFICES ASSUME NEW b \in Bones, NEW f \in Frames
               PROVE  IF <<b, f>> \in K THEN e[b][f] \in Keyframe ELSE e[b][f] = m[b][f]
    OBVIOUS
  <2>1. <<b, f>> \in K => m[b][f] \in Keyframe
    BY SlotsOfMotion DEF Selections, Keys
  <2>2. e[b][f] = IF <<b, f>> \in K THEN [m[b][f] EXCEPT !.value = v] ELSE m[b][f]
    BY DEF Corrected
  <2> HIDE DEF e
  <2> QED BY <2>1, <2>2, <1>1
<1>3. e = [b \in Bones |-> [f \in Frames |-> e[b][f]]]
  BY DEF Corrected
<1>4. e \in SoundMotion
  <2> HIDE DEF e
  <2>1. \A b \in Bones, f \in Frames : e[b][f] \in Slot
    BY <1>2, SlotsOfMotion DEF Slot
  <2>2. \A b \in Bones : 0 \notin Columns => e[b][0] # NULL
    BY <1>2, SlotsOfMotion, FrameFacts, NullAssumption DEF Found
  <2> QED BY <1>3, <2>1, <2>2, MotionByKeyframes DEF Complete
<1> QED BY <1>4

(* A first keyframe is never moved, and what replaces one was selected.     *)
LEMMA MoveKeepsSound ==
  ASSUME NEW m \in SoundMotion, NEW K \in Selections(m), NEW delta \in Int
  PROVE  MovedBy(m, K, delta) \in SoundMotion
<1> DEFINE h == Shifted(m, K, delta)
           e == MovedBy(m, K, delta)
<1>1. \A b \in Bones, f \in Frames :
        \/ f - delta \in Movers(K, b, delta) /\ h[b][f] = m[b][f - delta]
        \/ f \in Movers(K, b, delta) /\ h[b][f] = NULL
        \/ h[b][f] = m[b][f]
  <2> SUFFICES ASSUME NEW b \in Bones, NEW f \in Frames
               PROVE  \/ f - delta \in Movers(K, b, delta) /\ h[b][f] = m[b][f - delta]
                      \/ f \in Movers(K, b, delta) /\ h[b][f] = NULL
                      \/ h[b][f] = m[b][f]
    OBVIOUS
  <2>1. h[b][f] = CASE f - delta \in Movers(K, b, delta) -> m[b][f - delta]
                    [] f - delta \notin Movers(K, b, delta) /\ f \in Movers(K, b, delta) -> NULL
                    [] OTHER -> m[b][f]
    BY DEF Shifted
  <2> HIDE DEF h
  <2> QED BY <2>1
<1>2. \A b \in Bones : \A f \in Movers(K, b, delta) : f \in Frames /\ f # 0 /\ m[b][f] \in Keyframe
  <2>1. K \subseteq Keys(m)
    BY DEF Selections
  <2>2. ASSUME NEW b \in Bones, NEW f \in Movers(K, b, delta)
        PROVE  f \in Frames /\ f # 0 /\ <<b, f>> \in K
    BY FrameFacts DEF Movers
  <2>3. \A k \in K : Found(m, k[1], k[2])
    BY <2>1 DEF Keys
  <2>4. ASSUME NEW b \in Bones, NEW f \in Movers(K, b, delta)
        PROVE  Found(m, b, f)
    BY <2>2, <2>3
  <2> QED BY <2>2, <2>4, SlotsOfMotion
<1>3. \A b \in Bones, f \in Frames :
        /\ h[b][f] \in Slot
        /\ 0 \notin Columns => h[b][0] # NULL
  <2> HIDE DEF h
  <2> QED BY <1>1, <1>2, SlotsOfMotion, FrameFacts, NullAssumption DEF Slot, Found
<1>4. \A b \in Bones, f \in Frames : e[b][f] = h[b][f] \/ (e[b][f] = m[b][0] /\ ~Found(h, b, f))
  BY DEF MovedBy
<1>5. e = [b \in Bones |-> [f \in Frames |-> e[b][f]]]
  BY DEF MovedBy
<1>6. e \in SoundMotion
  <2> HIDE DEF e, h
  <2>1. \A b \in Bones, f \in Frames : e[b][f] \in Slot
    BY <1>3, <1>4, SlotsOfMotion, FrameFacts
  <2>2. \A b \in Bones : 0 \notin Columns => e[b][0] # NULL
    BY <1>3, <1>4, SlotsOfMotion, FrameFacts DEF Found
  <2> QED BY <1>5, <2>1, <2>2, MotionByKeyframes DEF Complete
<1> QED BY <1>6

-----------------------------------------------------------------------------
(* The keyframes a command is made with, and those a recovery reads.        *)

LEMMA PreviousIsFrame ==
  ASSUME NEW m, NEW b \in Bones, NEW f \in Frames, Before(m, b, f) # {}
  PROVE  /\ Max(Before(m, b, f)) \in Frames
         /\ Found(m, b, Max(Before(m, b, f)))
<1>1. f - 1 \in Int /\ Before(m, b, f) \subseteq 0 .. (f - 1)
  BY FrameFacts DEF Before
<1>2. Max(Before(m, b, f)) \in Before(m, b, f)
  BY <1>1, Largest
<1> QED BY <1>2, FrameFacts DEF Before

LEMMA AdjustedCurves ==
  ASSUME NEW m \in SoundMotion, NEW b \in Bones, NEW f \in Frames, NEW p \in Frames, Found(m, b, p)
  PROVE  /\ m[b][p].curve \in Curves
         /\ Adjusted(m, b, f, p).previous \in Curves
         /\ Adjusted(m, b, f, p).new \in Curves
<1>1. m[b][p].curve \in Curves
  BY SlotsOfMotion DEF Keyframe
<1>2. "automatic" \in Curves /\ "split" \in Curves /\ "linear" \in Curves
  BY DEF Curves
<1> DEFINE c == m[b][p].curve
<1>3. \/ Adjusted(m, b, f, p) = [previous |-> c, new |-> "linear"]
      \/ Adjusted(m, b, f, p) = [previous |-> "automatic", new |-> "linear"]
      \/ Adjusted(m, b, f, p) = [previous |-> "split", new |-> "split"]
  BY SwitchAssumption DEF Adjusted
<1> HIDE DEF c
<1> QED BY <1>1, <1>2, <1>3 DEF c

LEMMA AddedIsSound ==
  ASSUME NEW m \in SoundMotion, NEW b \in Bones, NEW f \in Frames, NEW v \in Values
  PROVE  toAddedKeyframe(m, b, f, v) \in SoundKey
<1> DEFINE key == [bone |-> b, frame |-> f, updated |-> f = 0,
                   first |-> [value |-> v, curve |-> "linear"], second |-> Default,
                   target |-> NULL, current |-> "linear", last |-> "linear"]
           p == Max(Before(m, b, f))
           a == Adjusted(m, b, f, p)
           k == toAddedKeyframe(m, b, f, v)
<1>1. key \in SoundKey
  BY ValueAssumption DEF SoundKey, CommandKey, Keyframe, Default, Curves
<1>2. CASE Found(m, b, f)
  <2>1. k = [key EXCEPT !.updated = TRUE, !.second = m[b][f]]
    BY <1>2 DEF toAddedKeyframe
  <2>2. m[b][f] \in Keyframe
    BY <1>2, SlotsOfMotion
  <2> HIDE DEF key, k
  <2>3. k \in SoundKey
    BY <2>1, <2>2, <1>1 DEF SoundKey, CommandKey
  <2> QED BY <2>3 DEF k
<1>3. CASE ~Found(m, b, f) /\ Before(m, b, f) # {}
  <2>1. k = [key EXCEPT !.first.curve = a.new, !.target = p, !.current = a.previous,
                        !.last = m[b][p].curve]
    BY <1>3 DEF toAddedKeyframe
  <2>2. p \in Frames /\ Found(m, b, p)
    BY <1>3, PreviousIsFrame
  <2>3. m[b][p].curve \in Curves /\ a.previous \in Curves /\ a.new \in Curves
    BY <2>2, AdjustedCurves
  <2>4. k = [key EXCEPT !.first = [value |-> v, curve |-> a.new], !.target = p,
                        !.current = a.previous, !.last = m[b][p].curve]
    BY ZenonT(30), <2>1
  <2>5. [value |-> v, curve |-> a.new] \in Keyframe
    BY <2>3 DEF Keyframe
  <2> HIDE DEF key, k, a, p
  <2>6. k \in SoundKey
    BY <2>2, <2>3, <2>4, <2>5, <1>1 DEF SoundKey, CommandKey
  <2> QED BY <2>6 DEF k
<1>4. CASE ~Found(m, b, f) /\ Before(m, b, f) = {}
  <2>1. k = key
    BY <1>4 DEF toAddedKeyframe
  <2> HIDE DEF key, k
  <2>2. k \in SoundKey
    BY <2>1, <1>1
  <2> QED BY <2>2 DEF k
<1> QED BY <1>2, <1>3, <1>4

LEMMA RemovedIsSound ==
  ASSUME NEW m \in SoundMotion, NEW b \in Bones, NEW f \in Frames, Found(m, b, f)
  PROVE  toRemovedKeyframe(m, b, f) \in SoundKey
<1>1. m[b][f] \in Keyframe
  BY SlotsOfMotion
<1> QED BY <1>1, ValueAssumption
        DEF toRemovedKeyframe, SoundKey, CommandKey, Keyframe, Default, Curves

LEMMA ReadIsSound ==
  ASSUME NEW m \in SoundMotion, NEW k \in SoundKey, NEW removing \in BOOLEAN
  PROVE  readKeyframe(m, k, removing) \in SoundKey
<1> DEFINE u == ~(removing /\ k.frame > 0) /\ Found(m, k.bone, k.frame)
<1>1. k \in CommandKey /\ k.bone \in Bones
  BY DEF SoundKey, CommandKey
<1>2. 0 \notin Columns /\ k.frame = 0 => u
  BY <1>1, SlotsOfMotion
<1>3. u \in BOOLEAN
  BY DEF Found
<1>4. readKeyframe(m, k, removing) = [k EXCEPT !.updated = u, !.target = NULL]
  BY DEF readKeyframe
<1> HIDE DEF u
<1> QED BY <1>1, <1>2, <1>3, <1>4 DEF SoundKey, CommandKey

-----------------------------------------------------------------------------
(* What commands make of a motion, and a motion of commands.                *)

LEMMA CommandParts ==
  ASSUME NEW c \in SoundCommand
  PROVE  /\ c \in Commands /\ c.keys \in SUBSET SoundKey
         /\ c.kind \in {"add", "remove", "insertFrame", "removeFrame", "snapshot"}
         /\ c.frame \in Frames /\ c.kept \in [Bones -> Slot]
         /\ c.before \in SoundMotion /\ c.after \in SoundMotion
         /\ c.kind = "insertFrame" => c.frame # 0
         /\ c.kind = "removeFrame" => c.frame \in Columns
BY DEF SoundCommand, Commands

LEMMA RedosAreSound ==
  ASSUME NEW c \in SoundCommand, NEW m \in SoundMotion, NEW e \in Redos(c, m)
  PROVE  e \in SoundMotion
<1>1. CASE c.kind = "add"
  <2>1. addKeyframe(m, c.keys) \in SoundMotion
    BY CommandParts, AddKeepsSound
  <2>2. Overridden(addKeyframe(m, c.keys), c.keys, FALSE) \in SoundMotion
    BY <2>1, CommandParts, OverrideKeepsSound
  <2> QED BY <1>1, <2>2 DEF Redos
<1>2. CASE c.kind = "remove"
  BY <1>2, CommandParts, RemoveKeepsSound DEF Redos
<1>3. CASE c.kind = "insertFrame"
  BY <1>3, CommandParts, BackwardKeepsSound DEF Redos
<1>4. CASE c.kind = "removeFrame"
  BY <1>4, CommandParts, ForwardKeepsSound DEF Redos
<1>5. CASE c.kind = "snapshot"
  BY <1>5, CommandParts DEF Redos
<1> QED BY <1>1, <1>2, <1>3, <1>4, <1>5, CommandParts

LEMMA UndosAreSound ==
  ASSUME NEW c \in SoundCommand, NEW m \in SoundMotion, NEW e \in Undos(c, m)
  PROVE  e \in SoundMotion
<1>1. CASE c.kind = "add"
  <2>1. PICK d \in removeKeyframe(m, c.keys) : e = Overridden(d, c.keys, TRUE)
    BY <1>1 DEF Undos
  <2>2. d \in SoundMotion
    BY CommandParts, RemoveKeepsSound
  <2> QED BY <2>1, <2>2, CommandParts, OverrideKeepsSound
<1>2. CASE c.kind = "remove"
  BY <1>2, CommandParts, AddKeepsSound DEF Undos
<1>3. CASE c.kind = "insertFrame"
  BY <1>3, CommandParts, ForwardKeepsSound DEF Undos
<1>4. CASE c.kind = "removeFrame"
  BY <1>4, CommandParts, BackwardKeepsSound DEF Undos
<1>5. CASE c.kind = "snapshot"
  BY <1>5, CommandParts DEF Undos
<1> QED BY <1>1, <1>2, <1>3, <1>4, <1>5, CommandParts

LEMMA AfterIsSound ==
  ASSUME NEW c \in SoundCommand, NEW m \in SoundMotion, NEW e \in SoundMotion
  PROVE  AfterRedo(c, m, e) \in SoundCommand /\ AfterUndo(c, m, e) \in SoundCommand
<1>1. Column(m, c.frame) \in [Bones -> Slot] /\ Nothing \in [Bones -> Slot]
  BY CommandParts, ColumnIsKept
<1>2. m \in Motion /\ e \in Motion
  BY DEF SoundMotion
<1>3. ASSUME NEW kept \in [Bones -> Slot], NEW from \in SoundMotion, NEW to \in SoundMotion
      PROVE  [c EXCEPT !.kept = kept, !.alive = TRUE, !.before = from, !.after = to] \in SoundCommand
  <2>1. from \in Motion /\ to \in Motion
    BY DEF SoundMotion
  <2> QED BY <2>1 DEF SoundCommand, Commands
<1>4. AfterRedo(c, m, e) \in SoundCommand
  BY <1>1, <1>3 DEF AfterRedo
<1>5. AfterUndo(c, m, e) \in SoundCommand
  BY <1>1, <1>3 DEF AfterUndo
<1> QED BY <1>4, <1>5

LEMMA ReadCommandIsSound ==
  ASSUME NEW c \in SoundCommand, NEW m \in SoundMotion
  PROVE  Read(c, m) \in SoundCommand
<1> DEFINE keys == {readKeyframe(m, k, c.kind = "remove") : k \in c.keys}
<1>1. \A k \in c.keys : readKeyframe(m, k, c.kind = "remove") \in SoundKey
  BY CommandParts, ReadIsSound
<1>2. keys \in SUBSET SoundKey /\ keys \in SUBSET CommandKey
  BY <1>1 DEF SoundKey
<1>3. Read(c, m) = [c EXCEPT !.keys = keys, !.kept = Nothing, !.alive = TRUE]
  BY DEF Read
<1> HIDE DEF keys
<1> QED BY <1>2, <1>3, ColumnIsKept DEF SoundCommand, Commands

-----------------------------------------------------------------------------
(* The stacks keep sound commands.                                         *)

LEMMA StackParts ==
  ASSUME NEW s \in SoundStack
  PROVE  /\ s.commands \in Seq(SoundCommand) /\ s.current \in Nat /\ Len(s.commands) \in Nat
         /\ s.current <= Len(s.commands) /\ Len(s.commands) <= Limit
         /\ \A i \in 1 .. Len(s.commands) : s.commands[i] \in SoundCommand
BY DEF SoundStack

LEMMA PushedIsSound ==
  ASSUME NEW s \in SoundStack, NEW c \in SoundCommand
  PROVE  Pushed(s, c) \in SoundStack
<1> DEFINE kept == SubSeq(s.commands, 1, s.current)
<1>1. /\ kept \in Seq(SoundCommand) /\ Len(kept) = s.current
      /\ s.current \in Nat /\ s.current <= Limit /\ Limit \in Nat \ {0}
  BY StackParts, LimitAssumption
<1>2. CASE s.current = Limit
  <2> DEFINE q == Append(Tail(kept), c)
  <2>1. Pushed(s, c) = [s EXCEPT !.commands = q]
    BY <1>2 DEF Pushed
  <2>2. q \in Seq(SoundCommand) /\ Len(q) = s.current
    <3> HIDE DEF kept
    <3> QED BY <1>1, <1>2
  <2>3. s \in [commands : Seq(SoundCommand), current : Nat]
    BY DEF SoundStack
  <2> HIDE DEF q
  <2> QED BY <2>1, <2>2, <2>3, <1>1 DEF SoundStack
<1>3. CASE s.current # Limit
  <2>1. Pushed(s, c) = [commands |-> Append(kept, c), current |-> s.current + 1]
    BY <1>3 DEF Pushed
  <2> HIDE DEF kept
  <2>2. /\ Append(kept, c) \in Seq(SoundCommand)
        /\ Len(Append(kept, c)) = s.current + 1
    BY <1>1
  <2> QED BY <2>1, <2>2, <1>1, <1>3 DEF SoundStack
<1> QED BY <1>2, <1>3

LEMMA ReplacedIsSound ==
  ASSUME NEW s \in SoundStack, NEW i \in 1 .. Len(s.commands), NEW c \in SoundCommand,
         NEW n \in Nat, n <= Len(s.commands)
  PROVE  [s EXCEPT !.commands[i] = c, !.current = n] \in SoundStack
<1> DEFINE q == [s.commands EXCEPT ![i] = c]
<1>1. q \in Seq(SoundCommand) /\ Len(q) = Len(s.commands)
  BY StackParts
<1>2. [s EXCEPT !.commands[i] = c, !.current = n] = [s EXCEPT !.commands = q, !.current = n]
  OBVIOUS
<1>3. [s EXCEPT !.commands = q, !.current = n] \in SoundStack
  <2>1. s \in [commands : Seq(SoundCommand), current : Nat]
    BY DEF SoundStack
  <2> HIDE DEF q
  <2>2. [s EXCEPT !.commands = q] \in [commands : Seq(SoundCommand), current : Nat]
    BY <1>1, <2>1
  <2> QED BY <1>1, <2>1, <2>2, StackParts DEF SoundStack
<1> QED BY <1>2, <1>3, Zenon

LEMMA DestroyedIsSound ==
  ASSUME NEW s \in SoundStack
  PROVE  Destroyed(s) \in SoundStack
<1> DEFINE q == [i \in DOMAIN s.commands |->
                   [s.commands[i] EXCEPT !.alive = (s.commands[i].kept = Nothing)]]
           n == Len(s.commands)
<1>1. n \in Nat /\ DOMAIN s.commands = 1 .. n
  BY StackParts
<1>2. ASSUME NEW c \in SoundCommand, NEW alive \in BOOLEAN
      PROVE  [c EXCEPT !.alive = alive] \in SoundCommand
  BY DEF SoundCommand, Commands
<1>3. \A i \in 1 .. n : [s.commands[i] EXCEPT !.alive = (s.commands[i].kept = Nothing)] \in SoundCommand
  BY <1>2, StackParts
<1>4. q \in [1 .. n -> SoundCommand]
  BY <1>1, <1>3
<1>5. q \in Seq(SoundCommand) /\ Len(q) = n
  <2> HIDE DEF q, n
  <2> QED BY <1>1, <1>4
<1>6. Destroyed(s) = [s EXCEPT !.commands = q]
  BY DEF Destroyed
<1>7. [s EXCEPT !.commands = q] \in SoundStack
  <2> HIDE DEF q
  <2> QED BY <1>5, StackParts DEF SoundStack
<1> QED BY <1>6, <1>7

LEMMA SettledIsSound ==
  ASSUME NEW t \in [Owners -> SoundStack], NEW c
  PROVE  Settled(t, c) \in [Owners -> SoundStack]
BY DestroyedIsSound DEF Settled

LEMMA PerformedIsSound ==
  ASSUME NEW p \in SoundProject, NEW o \in Owners, NEW c \in SoundCommand, NEW m \in SoundMotion
  PROVE  Performed(p, o, c, m) \in SoundProject
<1>1. p.motion \in SoundMotion /\ p.stack \in [Owners -> SoundStack] /\ p.stack[o] \in SoundStack
  BY DEF SoundProject
<1>2. Pushed(p.stack[o], AfterRedo(c, p.motion, m)) \in SoundStack
  BY <1>1, AfterIsSound, PushedIsSound
<1>3. [p.stack EXCEPT ![o] = Pushed(@, AfterRedo(c, p.motion, m))] \in [Owners -> SoundStack]
  BY <1>1, <1>2
<1>4. Settled([p.stack EXCEPT ![o] = Pushed(@, AfterRedo(c, p.motion, m))], c) \in [Owners -> SoundStack]
  BY <1>3, SettledIsSound
<1> QED BY <1>4 DEF Performed, SoundProject

LEMMA UndonePerformedIsSound ==
  ASSUME NEW p \in SoundProject, NEW o \in Owners, CanUndo(p.stack[o]), NEW m \in SoundMotion
  PROVE  /\ Below(p.stack[o]) \in SoundCommand
         /\ UndonePerformed(p, o, m) \in SoundProject
<1> DEFINE s == p.stack[o]
           c == AfterUndo(Below(s), p.motion, m)
           u == Undone([s EXCEPT !.commands[s.current] = c])
<1>1. p.motion \in SoundMotion /\ p.stack \in [Owners -> SoundStack] /\ s \in SoundStack
  BY DEF SoundProject
<1>2. s.current \in 1 .. Len(s.commands) /\ s.current - 1 \in Nat /\ s.current - 1 <= Len(s.commands)
  <2>1. s.current > 0
    BY DEF CanUndo
  <2> HIDE DEF s
  <2> QED BY <1>1, <2>1, StackParts
<1>3. Below(s) \in SoundCommand
  BY <1>1, <1>2, StackParts DEF Below
<1>4. c \in SoundCommand
  BY <1>1, <1>3, AfterIsSound
<1>5. u = [s EXCEPT !.commands[s.current] = c, !.current = s.current - 1]
  <2> HIDE DEF c, s
  <2> QED BY <1>1 DEF Undone, SoundStack
<1>6. u \in SoundStack
  <2> HIDE DEF c, s, u
  <2> QED BY <1>1, <1>2, <1>4, <1>5, ReplacedIsSound
<1>7. [p.stack EXCEPT ![o] = u] \in [Owners -> SoundStack]
  <2> HIDE DEF u
  <2> QED BY <1>1, <1>6
<1>8. Settled([p.stack EXCEPT ![o] = u], c) \in [Owners -> SoundStack]
  <2> HIDE DEF u, c
  <2> QED BY <1>7, SettledIsSound
<1>9. UndonePerformed(p, o, m) = [motion |-> m, stack |-> Settled([p.stack EXCEPT ![o] = u], c)]
  BY DEF UndonePerformed
<1>10. UndonePerformed(p, o, m) \in SoundProject
  <2> HIDE DEF u, c
  <2> QED BY <1>8, <1>9 DEF SoundProject
<1> QED BY <1>3, <1>10

LEMMA RedonePerformedIsSound ==
  ASSUME NEW p \in SoundProject, NEW o \in Owners, CanRedo(p.stack[o]), NEW m \in SoundMotion
  PROVE  /\ Above(p.stack[o]) \in SoundCommand
         /\ RedonePerformed(p, o, m) \in SoundProject
<1> DEFINE s == p.stack[o]
           c == AfterRedo(Above(s), p.motion, m)
           u == Redone([s EXCEPT !.commands[s.current + 1] = c])
<1>1. p.motion \in SoundMotion /\ p.stack \in [Owners -> SoundStack] /\ s \in SoundStack
  BY DEF SoundProject
<1>2. s.current + 1 \in 1 .. Len(s.commands) /\ s.current + 1 \in Nat
  <2>1. s.current < Len(s.commands)
    BY DEF CanRedo
  <2> HIDE DEF s
  <2> QED BY <1>1, <2>1, StackParts
<1>3. Above(s) \in SoundCommand
  BY <1>1, <1>2, StackParts DEF Above
<1>4. c \in SoundCommand
  BY <1>1, <1>3, AfterIsSound
<1>5. u = [s EXCEPT !.commands[s.current + 1] = c, !.current = s.current + 1]
  <2> HIDE DEF c, s
  <2> QED BY <1>1 DEF Redone, SoundStack
<1>6. u \in SoundStack
  <2>1. s.current + 1 <= Len(s.commands)
    BY <1>2
  <2> HIDE DEF c, s, u
  <2> QED BY <1>1, <1>2, <1>4, <1>5, <2>1, ReplacedIsSound
<1>7. [p.stack EXCEPT ![o] = u] \in [Owners -> SoundStack]
  <2> HIDE DEF u
  <2> QED BY <1>1, <1>6
<1>8. Settled([p.stack EXCEPT ![o] = u], c) \in [Owners -> SoundStack]
  <2> HIDE DEF u, c
  <2> QED BY <1>7, SettledIsSound
<1>9. RedonePerformed(p, o, m) = [motion |-> m, stack |-> Settled([p.stack EXCEPT ![o] = u], c)]
  BY DEF RedonePerformed
<1>10. RedonePerformed(p, o, m) \in SoundProject
  <2> HIDE DEF u, c
  <2> QED BY <1>8, <1>9 DEF SoundProject
<1> QED BY <1>3, <1>10

-----------------------------------------------------------------------------
(* Every step keeps the invariant.                                         *)

LEMMA NewIsSound == NewMotion \in SoundMotion /\ NewProject \in SoundProject
<1>1. NewMotion \in SoundMotion
  <2>1. Default \in Keyframe
    BY ValueAssumption DEF Default, Keyframe, Curves
  <2>2. \A b \in Bones, f \in Frames : NewMotion[b][f] \in Slot
    BY <2>1 DEF NewMotion, Slot
  <2>3. \A b \in Bones : NewMotion[b][0] # NULL
    BY <2>1, FrameFacts, NullAssumption DEF NewMotion
  <2> QED BY <2>2, <2>3, MotionByKeyframes DEF NewMotion, Complete
<1>2. EmptyStack \in SoundStack
  BY LimitAssumption DEF EmptyStack, SoundStack
<1> QED BY <1>1, <1>2 DEF NewProject, SoundProject

LEMMA ReplayedPushKeepsSound ==
  ASSUME recovered \in SoundProject, NEW c \in SoundCommand, ReplayedPush(c)
  PROVE  recovered' \in SoundProject
<1>1. recovered.motion \in SoundMotion
  BY DEF SoundProject
<1>2. Read(c, recovered.motion) \in SoundCommand
  BY <1>1, ReadCommandIsSound
<1>3. PICK m \in Redos(Read(c, recovered.motion), recovered.motion) :
        recovered' = Performed(recovered, "model", Read(c, recovered.motion), m)
  BY DEF ReplayedPush
<1>4. m \in SoundMotion
  BY <1>1, <1>2, RedosAreSound
<1> QED BY <1>2, <1>3, <1>4, PerformedIsSound DEF Owners

LEMMA ReplayedUndoKeepsSound ==
  ASSUME recovered \in SoundProject, ReplayedUndo
  PROVE  recovered' \in SoundProject
<1>1. recovered.motion \in SoundMotion /\ "model" \in Owners
  BY DEF SoundProject, Owners
<1>2. CASE CanUndo(recovered.stack["model"])
  <2>1. PICK m \in Undos(Below(recovered.stack["model"]), recovered.motion) :
          recovered' = UndonePerformed(recovered, "model", m)
    BY <1>2 DEF ReplayedUndo
  <2>2. Below(recovered.stack["model"]) \in SoundCommand
    BY <1>1, <1>2, UndonePerformedIsSound
  <2>3. m \in SoundMotion
    BY <1>1, <2>2, UndosAreSound
  <2> QED BY <1>1, <1>2, <2>1, <2>3, UndonePerformedIsSound
<1>3. CASE ~CanUndo(recovered.stack["model"])
  BY <1>3 DEF ReplayedUndo
<1> QED BY <1>2, <1>3

LEMMA PushKeepsInv ==
  ASSUME Inv, CanPush, MaxPushes \in Nat, NEW c \in SoundCommand, PushModel(c)
  PROVE  Inv'
<1>1. project.motion \in SoundMotion /\ "model" \in Owners
  BY DEF Inv, SoundProject, Owners
<1>2. PICK m \in Redos(c, project.motion) :
        project' = Performed(project, "model", [c EXCEPT !.after = m], m)
  BY DEF PushModel
<1>3. m \in SoundMotion
  BY <1>1, RedosAreSound
<1>4. [c EXCEPT !.after = m] \in SoundCommand
  <2>1. m \in Motion
    BY <1>3 DEF SoundMotion
  <2> QED BY <1>3, <2>1 DEF SoundCommand, Commands
<1>5. project' \in SoundProject
  BY <1>1, <1>2, <1>3, <1>4, PerformedIsSound DEF Inv
<1>6. recovered' \in SoundProject
  BY ReplayedPushKeepsSound DEF Inv, PushModel
<1>7. pushes' \in 0 .. MaxPushes /\ moved' \in BOOLEAN /\ undefined' \in BOOLEAN
  BY DEF PushModel, CanPush, Inv
<1> QED BY <1>5, <1>6, <1>7 DEF Inv

LEMMA NewCommandIsSound ==
  ASSUME NEW m \in SoundMotion, NEW e \in SoundMotion,
         NEW kind \in {"add", "remove", "insertFrame", "removeFrame", "snapshot"},
         NEW keys \in SUBSET SoundKey, NEW f \in Frames,
         kind = "insertFrame" => f # 0, kind = "removeFrame" => f \in Columns
  PROVE  Command(kind, keys, f, m, e) \in SoundCommand
<1>1. m \in Motion /\ e \in Motion /\ keys \in SUBSET CommandKey
  BY DEF SoundMotion, SoundKey
<1> QED BY <1>1, ColumnIsKept DEF Command, SoundCommand, Commands

LEMMA NextKeepsInv == ASSUME MaxPushes \in Nat, Inv, [Next]_vars PROVE Inv'
<1>m. project.motion \in SoundMotion /\ project \in SoundProject
  BY DEF Inv, SoundProject
<1>1. CASE AddKeyframes
  <2>1. PICK B \in SUBSET Bones \ {{}}, f \in Frames, v \in Values :
          PushModel(Command("add", {toAddedKeyframe(project.motion, b, f, v) : b \in B},
                            f, project.motion, project.motion))
    BY <1>1 DEF AddKeyframes
  <2>2. {toAddedKeyframe(project.motion, b, f, v) : b \in B} \in SUBSET SoundKey
    BY <1>m, AddedIsSound
  <2>3. Command("add", {toAddedKeyframe(project.motion, b, f, v) : b \in B},
                f, project.motion, project.motion) \in SoundCommand
    BY <1>m, <2>2, NewCommandIsSound
  <2> QED BY <1>1, <2>1, <2>3, PushKeepsInv DEF AddKeyframes
<1>2. CASE RemoveKeyframes
  <2>1. PICK K \in Selections(project.motion) :
          PushModel(Command("remove", {toRemovedKeyframe(project.motion, k[1], k[2]) : k \in K},
                            0, project.motion, project.motion))
    BY <1>2 DEF RemoveKeyframes
  <2>2. \A k \in K : k[1] \in Bones /\ k[2] \in Frames /\ Found(project.motion, k[1], k[2])
    BY DEF Selections, Keys
  <2>3. {toRemovedKeyframe(project.motion, k[1], k[2]) : k \in K} \in SUBSET SoundKey
    BY <1>m, <2>2, RemovedIsSound
  <2>4. Command("remove", {toRemovedKeyframe(project.motion, k[1], k[2]) : k \in K},
                0, project.motion, project.motion) \in SoundCommand
    BY <1>m, <2>3, NewCommandIsSound, FrameFacts
  <2> QED BY <1>2, <2>1, <2>4, PushKeepsInv DEF RemoveKeyframes
<1>3. CASE InsertEmptyTimelineFrame
  <2>1. PICK f \in Frames \ {0} :
          PushModel(Command("insertFrame", {}, f, project.motion, project.motion))
    BY <1>3 DEF InsertEmptyTimelineFrame
  <2>2. Command("insertFrame", {}, f, project.motion, project.motion) \in SoundCommand
    BY <1>m, NewCommandIsSound
  <2> QED BY <1>3, <2>1, <2>2, PushKeepsInv DEF InsertEmptyTimelineFrame
<1>4. CASE RemoveTimelineFrame
  <2>1. PICK f \in Columns :
          PushModel(Command("removeFrame", {}, f, project.motion, project.motion))
    BY <1>4 DEF RemoveTimelineFrame
  <2>2. f \in Frames
    BY FrameAssumption DEF Frames
  <2>3. Command("removeFrame", {}, f, project.motion, project.motion) \in SoundCommand
    BY <1>m, <2>2, NewCommandIsSound
  <2> QED BY <1>4, <2>1, <2>3, PushKeepsInv DEF RemoveTimelineFrame
<1>5. CASE CorrectAllSelectedBoneKeyframes
  <2>1. PICK K \in Selections(project.motion), v \in Values :
          PushModel(Command("snapshot", {}, 0, project.motion, Corrected(project.motion, K, v)))
    BY <1>5 DEF CorrectAllSelectedBoneKeyframes
  <2>2. Corrected(project.motion, K, v) \in SoundMotion
    BY <1>m, CorrectKeepsSound
  <2>3. Command("snapshot", {}, 0, project.motion, Corrected(project.motion, K, v)) \in SoundCommand
    BY <1>m, <2>2, NewCommandIsSound, FrameFacts
  <2> QED BY <1>5, <2>1, <2>3, PushKeepsInv DEF CorrectAllSelectedBoneKeyframes
<1>6. CASE MoveAllSelectedKeyframes
  <2>1. PICK K \in Selections(project.motion), delta \in -LastFrame .. LastFrame :
          LET motion == MovedBy(project.motion, K, delta)
          IN \/ project' = Performed(project, "project",
                              Command("snapshot", {}, 0, project.motion, motion), motion)
             \/ project' = [project EXCEPT !.motion = motion]
    BY <1>6 DEF MoveAllSelectedKeyframes
  <2> DEFINE motion == MovedBy(project.motion, K, delta)
  <2>2. motion \in SoundMotion
    BY <1>m, FrameFacts, MoveKeepsSound
  <2>3. Command("snapshot", {}, 0, project.motion, motion) \in SoundCommand
    <3> HIDE DEF motion
    <3> QED BY <1>m, <2>2, NewCommandIsSound, FrameFacts
  <2>4. Performed(project, "project", Command("snapshot", {}, 0, project.motion, motion), motion)
          \in SoundProject
    <3> HIDE DEF motion
    <3> QED BY <1>m, <2>2, <2>3, PerformedIsSound DEF Owners
  <2>5. [project EXCEPT !.motion = motion] \in SoundProject
    <3> HIDE DEF motion
    <3> QED BY <1>m, <2>2 DEF SoundProject
  <2>6. project' \in SoundProject
    BY <2>1, <2>4, <2>5
  <2>7. /\ recovered' \in SoundProject /\ moved' \in BOOLEAN /\ undefined' \in BOOLEAN
        /\ pushes' \in 0 .. MaxPushes
    BY <1>6 DEF MoveAllSelectedKeyframes, Inv, CanPush
  <2> QED BY <2>6, <2>7 DEF Inv
<1>7. ASSUME NEW o \in Owners, Undo(o) PROVE Inv'
  <2>1. CanUndo(project.stack[o])
    BY <1>7 DEF Undo
  <2>2. PICK m \in Undos(Below(project.stack[o]), project.motion) :
          project' = UndonePerformed(project, o, m)
    BY <1>7 DEF Undo
  <2>3. Below(project.stack[o]) \in SoundCommand
    BY <1>m, <2>1, UndonePerformedIsSound
  <2>4. m \in SoundMotion
    BY <1>m, <2>3, UndosAreSound
  <2>5. project' \in SoundProject
    BY <1>m, <2>1, <2>2, <2>4, UndonePerformedIsSound
  <2>6. recovered' \in SoundProject
    BY <1>7, ReplayedUndoKeepsSound DEF Undo, Inv
  <2> QED BY <1>7, <2>5, <2>6 DEF Undo, Inv
<1>8. ASSUME NEW o \in Owners, Redo(o) PROVE Inv'
  <2>1. CanRedo(project.stack[o])
    BY <1>8 DEF Redo
  <2>2. PICK m \in Redos(Above(project.stack[o]), project.motion) :
          project' = RedonePerformed(project, o, m)
    BY <1>8 DEF Redo
  <2>3. Above(project.stack[o]) \in SoundCommand
    BY <1>m, <2>1, RedonePerformedIsSound
  <2>4. m \in SoundMotion
    BY <1>m, <2>3, RedosAreSound
  <2>5. project' \in SoundProject
    BY <1>m, <2>1, <2>2, <2>4, RedonePerformedIsSound
  <2>6. recovered' \in SoundProject
    BY <1>8, <2>3, ReplayedPushKeepsSound DEF Redo, Inv
  <2> QED BY <1>8, <2>5, <2>6 DEF Redo, Inv
<1>9. ASSUME NEW o \in Owners, UseDestroyedMotion(o) PROVE Inv'
  BY <1>9 DEF UseDestroyedMotion, Inv
<1>10. CASE UNCHANGED vars
  BY <1>10 DEF vars, Inv
<1> QED BY <1>1, <1>2, <1>3, <1>4, <1>5, <1>6, <1>7, <1>8, <1>9, <1>10 DEF Next

LEMMA InvHolds == ASSUME MaxPushes \in Nat PROVE Spec => []Inv
<1>1. Init => Inv
  <2> SUFFICES ASSUME Init PROVE Inv
    OBVIOUS
  <2>1. project \in SoundProject /\ recovered \in SoundProject
    BY NewIsSound DEF Init
  <2>2. 0 \in 0 .. MaxPushes
    OBVIOUS
  <2> QED BY <2>1, <2>2 DEF Init, Inv
<1>2. Inv /\ [Next]_vars => Inv'
  BY NextKeepsInv
<1> QED BY <1>1, <1>2, PTL DEF Spec

(* The motion in use and the recovered one hold keyframes of their bones    *)
(* and nothing else, and both their stacks stay within the limit with       *)
(* well-formed commands: for any bones, timeline and limit.                 *)
THEOREM TypeCorrectness == ASSUME MaxPushes \in Nat PROVE Spec => []TypeOK
<1>1. ASSUME NEW p \in SoundProject PROVE ProjectIsTyped(p)
  <2>1. p.motion \in Motion
    BY DEF SoundProject, SoundMotion
  <2>2. ASSUME NEW o \in Owners
        PROVE  /\ p.stack[o].commands \in Seq(Commands)
               /\ p.stack[o].current \in 0 .. Len(p.stack[o].commands)
               /\ Len(p.stack[o].commands) <= Limit
    <3>1. p.stack[o] \in SoundStack
      BY DEF SoundProject
    <3>2. SoundCommand \subseteq Commands
      BY DEF SoundCommand
    <3>3. p.stack[o].commands \in Seq(Commands)
      BY <3>1, <3>2, StackParts, SeqMonotonic
    <3> QED BY <3>1, <3>3, StackParts
  <2> QED BY <2>1, <2>2 DEF ProjectIsTyped
<1>2. Inv => TypeOK
  BY <1>1 DEF Inv, TypeOK
<1> QED BY <1>2, InvHolds, PTL

(* No bone loses its first keyframe, whatever the commands and their undo   *)
(* do, as long as the column of frame 0 itself is not removed.              *)
THEOREM FirstKeyframeIsKept ==
  ASSUME MaxPushes \in Nat, 0 \notin Columns
  PROVE  Spec => []FirstKeyframeStays
<1>1. Inv => FirstKeyframeStays
  BY SlotsOfMotion DEF Inv, SoundProject, FirstKeyframeStays
<1> QED BY <1>1, InvHolds, PTL
-----------------------------------------------------------------------------
(* Undo is the inverse.  A command is taken back by its undo from where it  *)
(* left the motion, and done again by its redo from where it began; a shift *)
(* has the column it needs for one of the two only, the one that is next.   *)

TakenBack(c) == \A m \in Undos(c, c.after) : m = c.before
DoneAgain(c) == \A m \in Redos(c, c.before) : m = c.after

\* Of a command below and of one above the position of its stack.
SoundDone(c) == TakenBack(c) /\ (~Shifts(c) => DoneAgain(c))
SoundTaken(c) == DoneAgain(c) /\ (~Shifts(c) => TakenBack(c))

Inverts(s) ==
  \A i \in 1 .. Len(s.commands) :
    IF i <= s.current THEN SoundDone(s.commands[i]) ELSE SoundTaken(s.commands[i])

InverseInv == Inv /\ \A o \in Owners : Inverts(project.stack[o])

LEMMA EqualMotions ==
  ASSUME NEW m \in Motion, NEW n \in Motion,
         \A b \in Bones, f \in Frames : m[b][f] = n[b][f]
  PROVE  m = n
<1>1. \A b \in Bones : m[b] \in [Frames -> Slot] /\ n[b] \in [Frames -> Slot]
  BY DEF Motion
<1>2. \A b \in Bones : m[b] = n[b]
  BY <1>1
<1> QED BY <1>2 DEF Motion

(* The keyframes of a command are at different places.                      *)
Apart(keys) == \A k, l \in keys : k.bone = l.bone /\ k.frame = l.frame => k = l

LEMMA OfIsTheKey ==
  ASSUME NEW keys, Apart(keys), NEW k \in keys
  PROVE  Has(keys, k.bone, k.frame) /\ Of(keys, k.bone, k.frame) = k
BY DEF Apart, Has, Of

(* What the keyframes of an addition know of the motion they are added to:  *)
(* whether one is there and which, and the curve of the keyframe before.    *)
AddedTo(keys, m) ==
  /\ keys \in SUBSET SoundKey /\ Apart(keys)
  /\ \A k \in keys :
       /\ k.updated = Found(m, k.bone, k.frame)
       /\ k.updated => k.second = m[k.bone][k.frame]
       /\ k.target # NULL =>
            /\ k.target \in Frames /\ Found(m, k.bone, k.target)
            /\ k.last = m[k.bone][k.target].curve
            /\ ~Has(keys, k.bone, k.target)
            /\ \A l \in keys : l.bone = k.bone => l = k

(* What those of a removal know.                                           *)
RemovedFrom(keys, m) ==
  /\ keys \in SUBSET SoundKey /\ Apart(keys)
  /\ \A k \in keys :
       /\ k.updated = (k.frame = 0)
       /\ Found(m, k.bone, k.frame) /\ k.first = m[k.bone][k.frame]

(* Where every keyframe is found a removal reaches all of them.             *)
LEMMA RemoveAll ==
  ASSUME NEW m, NEW keys, \A k \in keys : k.updated \/ Found(m, k.bone, k.frame),
         NEW e \in removeKeyframe(m, keys)
  PROVE  e = [b \in Bones |-> [f \in Frames |->
               IF Has(keys, b, f) /\ Found(m, b, f)
               THEN IF Of(keys, b, f).updated THEN Of(keys, b, f).second ELSE NULL
               ELSE m[b][f]]]
<1>1. {k \in keys : k.updated \/ Found(m, k.bone, k.frame)} = keys
  OBVIOUS
<1>2. Reached(m, keys) = {keys}
  BY <1>1 DEF Reached
<1> QED BY <1>2 DEF removeKeyframe

LEMMA AddPoints ==
  ASSUME NEW m \in SoundMotion, NEW keys, AddedTo(keys, m), NEW b \in Bones, NEW f \in Frames
  PROVE  addKeyframe(m, keys)[b][f] = IF Has(keys, b, f) THEN Of(keys, b, f).first ELSE m[b][f]
<1>1. Has(keys, b, f) => Of(keys, b, f).updated = Found(m, b, f)
  BY KeyOf DEF AddedTo
<1> QED BY <1>1 DEF addKeyframe

\* The command's keyframe whose curve adjusts the one at a place, and what
\* an addition makes of a motion.
Adjuster(keys, b, f) == CHOOSE k \in Targets(keys, b, f) : TRUE
Added(m, keys) == Overridden(addKeyframe(m, keys), keys, FALSE)
Restored(m, keys) == Overridden(m, keys, TRUE)

(* The keyframe before an added one is found and not of the command itself. *)
LEMMA TargetParts ==
  ASSUME NEW m \in SoundMotion, NEW keys, AddedTo(keys, m), NEW b \in Bones, NEW f \in Frames,
         Targets(keys, b, f) # {}
  PROVE  /\ ~Has(keys, b, f) /\ Found(m, b, f)
         /\ Adjuster(keys, b, f).last = m[b][f].curve /\ Adjuster(keys, b, f).current \in Curves
<1> DEFINE k == Adjuster(keys, b, f)
<1>1. k \in keys /\ k.bone = b /\ k.target = f
  BY DEF Targets, Adjuster
<1> HIDE DEF k
<1>2. k.target # NULL
  BY <1>1, NullAssumption
<1>3. k.current \in Curves
  BY <1>1 DEF AddedTo, SoundKey, CommandKey
<1>4. ~Has(keys, b, f) /\ Found(m, b, f) /\ k.last = m[b][f].curve
  BY <1>1, <1>2 DEF AddedTo
<1> QED BY <1>3, <1>4 DEF k

LEMMA OverriddenPoints ==
  ASSUME NEW m, NEW keys, NEW b \in Bones, NEW f \in Frames
  PROVE  Overridden(m, keys, FALSE)[b][f]
           = IF Targets(keys, b, f) # {} /\ Found(m, b, f)
             THEN [m[b][f] EXCEPT !.curve = Adjuster(keys, b, f).current] ELSE m[b][f]
BY DEF Overridden, Adjuster

LEMMA RestoredPoints ==
  ASSUME NEW m, NEW keys, NEW b \in Bones, NEW f \in Frames
  PROVE  Restored(m, keys)[b][f]
           = IF Targets(keys, b, f) # {} /\ Found(m, b, f)
             THEN [m[b][f] EXCEPT !.curve = Adjuster(keys, b, f).last] ELSE m[b][f]
BY DEF Restored, Overridden, Adjuster

LEMMA DonePoints ==
  ASSUME NEW m \in SoundMotion, NEW keys, AddedTo(keys, m), NEW b \in Bones, NEW f \in Frames
  PROVE  Added(m, keys)[b][f]
           = IF Has(keys, b, f) THEN Of(keys, b, f).first
             ELSE IF Targets(keys, b, f) # {}
                  THEN [m[b][f] EXCEPT !.curve = Adjuster(keys, b, f).current]
                  ELSE m[b][f]
<1> DEFINE a == addKeyframe(m, keys)
           e == Added(m, keys)
<1>1. e[b][f] = IF Targets(keys, b, f) # {} /\ Found(a, b, f)
                THEN [a[b][f] EXCEPT !.curve = Adjuster(keys, b, f).current] ELSE a[b][f]
  BY OverriddenPoints DEF Added
<1>2. a[b][f] = IF Has(keys, b, f) THEN Of(keys, b, f).first ELSE m[b][f]
  BY AddPoints
<1>3. Targets(keys, b, f) # {} => ~Has(keys, b, f) /\ Found(m, b, f)
  BY TargetParts
<1> HIDE DEF a, e
<1>4. e[b][f] = IF Has(keys, b, f) THEN Of(keys, b, f).first
                ELSE IF Targets(keys, b, f) # {}
                     THEN [m[b][f] EXCEPT !.curve = Adjuster(keys, b, f).current]
                     ELSE m[b][f]
  BY <1>1, <1>2, <1>3 DEF Found
<1> QED BY <1>4 DEF e

(* Undoing an addition where the motion is as it left it.                   *)
LEMMA AddIsTakenBack ==
  ASSUME NEW m \in SoundMotion, NEW keys, AddedTo(keys, m),
         NEW r \in removeKeyframe(Added(m, keys), keys)
  PROVE  Overridden(r, keys, TRUE) = m
<1> DEFINE e == Added(m, keys)
           u == Restored(r, keys)
<1>k. keys \in SUBSET SoundKey
  BY DEF AddedTo
<1>e. e \in SoundMotion
  BY <1>k, AddKeepsSound, OverrideKeepsSound DEF Added
<1>r. r \in SoundMotion
  BY <1>k, <1>e, RemoveKeepsSound
<1>u. u \in SoundMotion
  BY <1>k, <1>r, OverrideKeepsSound DEF Restored
<1>1. ASSUME NEW k \in keys PROVE Found(e, k.bone, k.frame)
  <2>1. k.bone \in Bones /\ k.frame \in Frames
    BY DEF AddedTo, SoundKey, CommandKey
  <2>2. Has(keys, k.bone, k.frame) /\ Of(keys, k.bone, k.frame).first \in Keyframe
    BY <1>k, KeyOf DEF Has
  <2>3. e[k.bone][k.frame] = Of(keys, k.bone, k.frame).first
    BY <2>1, <2>2, DonePoints
  <2> HIDE DEF e
  <2> QED BY <2>2, <2>3, NullAssumption DEF Found
<1>2. r = [b \in Bones |-> [f \in Frames |->
             IF Has(keys, b, f) /\ Found(e, b, f)
             THEN IF Of(keys, b, f).updated THEN Of(keys, b, f).second ELSE NULL
             ELSE e[b][f]]]
  BY <1>1, RemoveAll
<1>3. ASSUME NEW b \in Bones, NEW f \in Frames PROVE u[b][f] = m[b][f]
  <2> DEFINE k == Adjuster(keys, b, f)
  <2>1. u[b][f] = IF Targets(keys, b, f) # {} /\ Found(r, b, f)
                  THEN [r[b][f] EXCEPT !.curve = k.last] ELSE r[b][f]
    BY RestoredPoints
  <2>2. r[b][f] = IF Has(keys, b, f) /\ Found(e, b, f)
                  THEN IF Of(keys, b, f).updated THEN Of(keys, b, f).second ELSE NULL
                  ELSE e[b][f]
    BY <1>2
  <2>3. e[b][f] = IF Has(keys, b, f) THEN Of(keys, b, f).first
                  ELSE IF Targets(keys, b, f) # {} THEN [m[b][f] EXCEPT !.curve = k.current]
                  ELSE m[b][f]
    BY DonePoints
  <2>4. Targets(keys, b, f) # {} =>
          /\ ~Has(keys, b, f) /\ Found(m, b, f) /\ k.last = m[b][f].curve /\ k.current \in Curves
    BY TargetParts
  <2>5. Has(keys, b, f) =>
          /\ Found(e, b, f)
          /\ IF Of(keys, b, f).updated THEN Of(keys, b, f).second = m[b][f] ELSE m[b][f] = NULL
    <3>1. SUFFICES ASSUME Has(keys, b, f)
                   PROVE  /\ Found(e, b, f)
                          /\ IF Of(keys, b, f).updated THEN Of(keys, b, f).second = m[b][f]
                                                       ELSE m[b][f] = NULL
      OBVIOUS
    <3>2. Of(keys, b, f) \in keys /\ Of(keys, b, f).bone = b /\ Of(keys, b, f).frame = f
      BY <1>k, <3>1, KeyOf
    <3>3. Found(e, b, f)
      BY <1>1, <3>2
    <3> QED BY <3>2, <3>3 DEF AddedTo, Found
  <2> HIDE DEF e, u, k
  <2>6. CASE Has(keys, b, f)
    <3>1. Targets(keys, b, f) = {}
      BY <2>4, <2>6
    <3> QED BY <2>1, <2>2, <2>5, <2>6, <3>1
  <2>7. CASE ~Has(keys, b, f) /\ Targets(keys, b, f) = {}
    BY <2>1, <2>2, <2>3, <2>7
  <2>8. CASE Targets(keys, b, f) # {}
    <3>1. r[b][f] = [m[b][f] EXCEPT !.curve = k.current]
      BY <2>2, <2>3, <2>4, <2>8
    <3>2. m[b][f] \in Keyframe
      BY <2>4, <2>8, SlotsOfMotion
    <3>3. r[b][f] \in Keyframe
      BY <2>4, <2>8, <3>1, <3>2 DEF Keyframe
    <3>4. Found(r, b, f)
      BY <3>3, NullAssumption DEF Found
    <3>5. u[b][f] = [r[b][f] EXCEPT !.curve = m[b][f].curve]
      BY <2>1, <2>4, <2>8, <3>4
    <3>6. [[m[b][f] EXCEPT !.curve = k.current] EXCEPT !.curve = m[b][f].curve] = m[b][f]
      BY <3>2 DEF Keyframe
    <3> QED BY <3>1, <3>5, <3>6
  <2> QED BY <2>6, <2>7, <2>8
<1> HIDE DEF u
<1>4. u = m
  BY <1>3, <1>u, EqualMotions DEF SoundMotion
<1> QED BY <1>4 DEF u, Restored

(* Undoing a removal where the motion is as it left it.                     *)
LEMMA RemoveIsTakenBack ==
  ASSUME NEW m \in SoundMotion, NEW keys, RemovedFrom(keys, m), NEW r \in removeKeyframe(m, keys)
  PROVE  addKeyframe(r, keys) = m
<1> DEFINE u == addKeyframe(r, keys)
<1>k. keys \in SUBSET SoundKey
  BY DEF RemovedFrom
<1>r. r \in SoundMotion /\ u \in SoundMotion
  BY <1>k, RemoveKeepsSound, AddKeepsSound
<1>1. r = [b \in Bones |-> [f \in Frames |->
             IF Has(keys, b, f) /\ Found(m, b, f)
             THEN IF Of(keys, b, f).updated THEN Of(keys, b, f).second ELSE NULL
             ELSE m[b][f]]]
  BY RemoveAll DEF RemovedFrom
<1>2. ASSUME NEW b \in Bones, NEW f \in Frames PROVE u[b][f] = m[b][f]
  <2>1. u[b][f] = IF Has(keys, b, f) /\ Of(keys, b, f).updated = Found(r, b, f)
                  THEN Of(keys, b, f).first ELSE r[b][f]
    BY DEF addKeyframe
  <2>2. r[b][f] = IF Has(keys, b, f) /\ Found(m, b, f)
                  THEN IF Of(keys, b, f).updated THEN Of(keys, b, f).second ELSE NULL
                  ELSE m[b][f]
    BY <1>1
  <2> HIDE DEF u
  <2>3. CASE Has(keys, b, f)
    <3>1. /\ Of(keys, b, f) \in keys /\ Of(keys, b, f).bone = b /\ Of(keys, b, f).frame = f
          /\ Of(keys, b, f).second \in Keyframe
      BY <1>k, <2>3, KeyOf
    <3>2. Found(m, b, f) /\ Of(keys, b, f).first = m[b][f] /\ Of(keys, b, f).updated \in BOOLEAN
      BY <3>1 DEF RemovedFrom
    <3>3. Of(keys, b, f).updated = Found(r, b, f)
      BY <2>2, <2>3, <3>1, <3>2, NullAssumption DEF Found
    <3> QED BY <2>1, <2>3, <3>2, <3>3
  <2>4. CASE ~Has(keys, b, f)
    BY <2>1, <2>2, <2>4
  <2> QED BY <2>3, <2>4
<1> HIDE DEF u
<1>3. u = m
  BY <1>2, <1>r, EqualMotions DEF SoundMotion
<1> QED BY <1>3 DEF u

(* A shift and the one the other way, the column kept in between.           *)
LEMMA ForwardPoints ==
  ASSUME NEW m, NEW at \in Frames, NEW b \in Bones, NEW f \in Frames
  PROVE  /\ f < at => Forward(m, at)[b][f] = m[b][f]
         /\ f >= at /\ f < LastFrame => Forward(m, at)[b][f] = m[b][f + 1]
         /\ f >= at /\ f = LastFrame => Forward(m, at)[b][f] = NULL
<1>1. Forward(m, at)[b][f] = CASE f < at -> m[b][f]
                    [] f >= at /\ f < LastFrame -> m[b][f + 1]
                    [] OTHER -> NULL
  BY DEF Forward
<1>2. f \in Nat /\ at \in Nat /\ LastFrame \in Nat
  BY FrameFacts
<1> DEFINE e == Forward(m, at)[b][f]
<1> HIDE DEF e
<1>3. /\ f < at => e = m[b][f]
      /\ f >= at /\ f < LastFrame => e = m[b][f + 1]
      /\ f >= at /\ f = LastFrame => e = NULL
  BY <1>1, <1>2 DEF e
<1> QED BY <1>3 DEF e

LEMMA BackwardPoints ==
  ASSUME NEW m, NEW at \in Frames \ {0}, NEW kept, NEW b \in Bones, NEW f \in Frames
  PROVE  /\ f < at => Backward(m, at, kept)[b][f] = m[b][f]
         /\ f = at => Backward(m, at, kept)[b][f] = kept[b]
         /\ f > at => Backward(m, at, kept)[b][f] = m[b][f - 1]
<1>1. Backward(m, at, kept)[b][f] =
        CASE f < at -> m[b][f] [] f = at -> kept[b] [] f > at -> m[b][f - 1]
  BY DEF Backward
<1>2. f \in Nat /\ at \in Nat
  BY FrameFacts
<1> DEFINE e == Backward(m, at, kept)[b][f]
<1> HIDE DEF e
<1>3. /\ f < at => e = m[b][f]
      /\ f = at => e = kept[b]
      /\ f > at => e = m[b][f - 1]
  BY <1>1, <1>2 DEF e
<1> QED BY <1>3 DEF e

LEMMA ForwardTakesBack ==
  ASSUME NEW m \in SoundMotion, NEW at \in Frames \ {0}, at = 0 => 0 \in Columns,
         NEW kept \in [Bones -> Slot], HasRoom(m)
  PROVE  Forward(Backward(m, at, kept), at) = m
<1> DEFINE e == Backward(m, at, kept)
           u == Forward(e, at)
<1>1. e \in SoundMotion
  BY BackwardKeepsSound
<1>2. u \in SoundMotion
  BY <1>1, ForwardKeepsSound
<1>3. ASSUME NEW b \in Bones, NEW f \in Frames PROVE u[b][f] = m[b][f]
  <2>1. f \in Nat /\ at \in Nat /\ LastFrame \in Nat /\ f <= LastFrame
    BY FrameFacts
  <2>2. CASE f < at
    BY <2>2, ForwardPoints, BackwardPoints
  <2>3. CASE f >= at /\ f < LastFrame
    <3>1. f + 1 \in Frames /\ f + 1 > at /\ (f + 1) - 1 = f
      BY <2>1, <2>3, FrameFacts
    <3>2. u[b][f] = e[b][f + 1]
      BY <2>3, ForwardPoints
    <3>3. e[b][f + 1] = m[b][(f + 1) - 1]
      BY <3>1, BackwardPoints
    <3> QED BY <3>1, <3>2, <3>3
  <2>4. CASE f >= at /\ f = LastFrame
    <3>1. u[b][f] = NULL
      BY <2>4, ForwardPoints
    <3>2. m[b][f] = NULL
      BY <2>4 DEF HasRoom, Found
    <3> QED BY <3>1, <3>2
  <2> QED BY <2>1, <2>2, <2>3, <2>4
<1> HIDE DEF u
<1>4. u = m
  BY <1>2, <1>3, EqualMotions DEF SoundMotion
<1> QED BY <1>4 DEF u

LEMMA BackwardTakesBack ==
  ASSUME NEW m \in SoundMotion, NEW at \in Frames \ {0}
  PROVE  Backward(Forward(m, at), at, Column(m, at)) = m
<1> DEFINE e == Forward(m, at)
           u == Backward(e, at, Column(m, at))
<1>1. e \in SoundMotion
  BY ForwardKeepsSound
<1>2. u \in SoundMotion
  BY <1>1, ColumnIsKept, BackwardKeepsSound
<1>3. ASSUME NEW b \in Bones, NEW f \in Frames PROVE u[b][f] = m[b][f]
  <2>1. f \in Nat /\ at \in Nat /\ LastFrame \in Nat /\ f <= LastFrame
    BY FrameFacts
  <2>2. CASE f < at
    BY <2>2, ForwardPoints, BackwardPoints
  <2>3. CASE f = at
    <3>1. u[b][f] = Column(m, at)[b]
      BY <2>3, BackwardPoints
    <3> QED BY <2>3, <3>1 DEF Column
  <2>4. CASE f > at
    <3>1. f - 1 \in Frames /\ f - 1 >= at /\ f - 1 < LastFrame /\ (f - 1) + 1 = f
      BY <2>1, <2>4, FrameFacts
    <3>2. u[b][f] = e[b][f - 1]
      BY <2>4, BackwardPoints
    <3>3. e[b][f - 1] = m[b][(f - 1) + 1]
      BY <3>1, ForwardPoints
    <3> QED BY <3>1, <3>2, <3>3
  <2> QED BY <2>1, <2>2, <2>3, <2>4
<1> HIDE DEF u
<1>4. u = m
  BY <1>2, <1>3, EqualMotions DEF SoundMotion
<1> QED BY <1>4 DEF u

-----------------------------------------------------------------------------
(* The commands the user issues, and those that were undone or redone.      *)

LEMMA AddedKeysKnow ==
  ASSUME 0 \notin Columns, NEW m \in SoundMotion, NEW B \in SUBSET Bones,
         NEW f \in Frames, NEW v \in Values
  PROVE  AddedTo({toAddedKeyframe(m, b, f, v) : b \in B}, m)
<1> DEFINE keys == {toAddedKeyframe(m, b, f, v) : b \in B}
<1>1. \A b \in B : toAddedKeyframe(m, b, f, v) \in SoundKey
  BY AddedIsSound
<1>3. ASSUME NEW b \in B
      PROVE  LET k == toAddedKeyframe(m, b, f, v)
             IN /\ k.bone = b /\ k.frame = f
                /\ k.updated = Found(m, b, f)
                /\ k.updated => k.second = m[b][f]
                /\ k.target # NULL =>
                     /\ k.target \in Frames /\ k.target # f /\ Found(m, b, k.target)
                     /\ k.last = m[b][k.target].curve
  <2> DEFINE k == toAddedKeyframe(m, b, f, v)
             p == Max(Before(m, b, f))
             a == Adjusted(m, b, f, p)
             key == [bone |-> b, frame |-> f, updated |-> f = 0,
                     first |-> [value |-> v, curve |-> "linear"], second |-> Default,
                     target |-> NULL, current |-> "linear", last |-> "linear"]
  <2>1. CASE Found(m, b, f)
    <3>1. k = [key EXCEPT !.updated = TRUE, !.second = m[b][f]]
      BY <2>1 DEF toAddedKeyframe
    <3>2. /\ k.bone = b /\ k.frame = f
          /\ k.updated = TRUE /\ k.second = m[b][f] /\ k.target = NULL
      BY <3>1
    <3> HIDE DEF k
    <3>3. k.updated = Found(m, b, f)
      BY <2>1, <3>2, Zenon
    <3> QED BY <3>2, <3>3 DEF k
  <2>2. CASE ~Found(m, b, f) /\ Before(m, b, f) # {}
    <3>1. k = [key EXCEPT !.first.curve = a.new, !.target = p, !.current = a.previous,
                          !.last = m[b][p].curve]
      BY <2>2 DEF toAddedKeyframe
    <3>2. p \in Frames /\ Found(m, b, p)
      BY <2>2, PreviousIsFrame
    <3>3. p # f
      BY <2>2, <3>2
    <3>4. f # 0
      BY <2>2, SlotsOfMotion
    <3> HIDE DEF a, p
    <3>5. /\ k.bone = b /\ k.frame = f
          /\ k.updated = (f = 0) /\ k.target = p /\ k.last = m[b][p].curve
      BY <3>1
    <3> HIDE DEF k, key
    <3>6. k.updated = FALSE
      BY <3>4, <3>5
    <3>7. Found(m, b, f) = FALSE
      BY <2>2, SMT DEF Found
    <3> QED BY <3>2, <3>3, <3>5, <3>6, <3>7 DEF k
  <2>3. CASE ~Found(m, b, f) /\ Before(m, b, f) = {}
    <3>1. k = key
      BY <2>3 DEF toAddedKeyframe
    <3>2. k.bone = b /\ k.frame = f /\ k.updated = (f = 0) /\ k.target = NULL
      BY <3>1
    <3>3. f # 0
      BY <2>3, SlotsOfMotion
    <3> HIDE DEF k, key
    <3>4. k.updated = FALSE
      BY <3>2, <3>3
    <3>5. Found(m, b, f) = FALSE
      BY <2>3, SMT DEF Found
    <3>6. k.updated = Found(m, b, f)
      BY <3>4, <3>5
    <3> QED BY <3>2, <3>4, <3>6 DEF k
  <2> QED BY <2>1, <2>2, <2>3
<1>2. \A b \in B : toAddedKeyframe(m, b, f, v).bone = b /\ toAddedKeyframe(m, b, f, v).frame = f
  BY <1>3
<1>4. Apart(keys)
  BY <1>2 DEF Apart
<1>5. \A b, g : Has(keys, b, g) => g = f
  BY <1>2 DEF Has
<1>6. ASSUME NEW k \in keys
      PROVE  /\ k.updated = Found(m, k.bone, k.frame)
             /\ k.updated => k.second = m[k.bone][k.frame]
             /\ k.target # NULL =>
                  /\ k.target \in Frames /\ Found(m, k.bone, k.target)
                  /\ k.last = m[k.bone][k.target].curve
                  /\ ~Has(keys, k.bone, k.target)
                  /\ \A l \in keys : l.bone = k.bone => l = k
  <2>1. PICK b \in B : k = toAddedKeyframe(m, b, f, v)
    BY <1>6
  <2>2. k.bone = b /\ k.frame = f
    BY <1>2, <2>1
  <2>3. \A l \in keys : l.bone = k.bone => l = k
    BY <1>2, <1>6, <1>4 DEF Apart
  <2>4. /\ k.updated = Found(m, b, f)
        /\ k.updated => k.second = m[b][f]
        /\ k.target # NULL =>
             /\ k.target \in Frames /\ k.target # f /\ Found(m, b, k.target)
             /\ k.last = m[b][k.target].curve
    BY <1>3, <2>1
  <2> HIDE DEF keys
  <2> QED BY <1>5, <2>2, <2>3, <2>4
<1>7. keys \in SUBSET SoundKey
  BY <1>1
<1> QED BY <1>4, <1>6, <1>7 DEF AddedTo

LEMMA RemovedKeysKnow ==
  ASSUME NEW m \in SoundMotion, NEW K \in Selections(m)
  PROVE  RemovedFrom({toRemovedKeyframe(m, k[1], k[2]) : k \in K}, m)
<1> DEFINE keys == {toRemovedKeyframe(m, k[1], k[2]) : k \in K}
<1>1. \A k \in K : k \in Bones \X Frames /\ Found(m, k[1], k[2])
  BY DEF Selections, Keys
<1>2. \A k \in K : toRemovedKeyframe(m, k[1], k[2]) \in SoundKey
  BY <1>1, RemovedIsSound
<1>3. \A k \in K : LET r == toRemovedKeyframe(m, k[1], k[2])
                   IN /\ r.bone = k[1] /\ r.frame = k[2] /\ r.updated = (k[2] = 0)
                      /\ r.first = m[k[1]][k[2]]
  BY DEF toRemovedKeyframe
<1>4. Apart(keys)
  <2> SUFFICES ASSUME NEW k \in K, NEW l \in K, k[1] = l[1], k[2] = l[2]
               PROVE  toRemovedKeyframe(m, k[1], k[2]) = toRemovedKeyframe(m, l[1], l[2])
    BY <1>3 DEF Apart
  <2> QED OBVIOUS
<1>5. \A k \in keys : /\ k.updated = (k.frame = 0)
                      /\ Found(m, k.bone, k.frame) /\ k.first = m[k.bone][k.frame]
  BY <1>1, <1>3
<1> QED BY <1>2, <1>4, <1>5 DEF RemovedFrom

(* A command when it is issued: what it is made from, and what it makes.    *)
Issued(c, m) ==
  /\ c \in SoundCommand /\ c.before = m /\ c.kept = Nothing
  /\ c.kind = "add" => AddedTo(c.keys, m)
  /\ c.kind = "remove" => RemovedFrom(c.keys, m)
  /\ c.kind = "insertFrame" => HasRoom(m)

LEMMA IssuedIsDone ==
  ASSUME 0 \notin Columns, NEW m \in SoundMotion, NEW c, Issued(c, m), NEW e \in Redos(c, m)
  PROVE  SoundDone(AfterRedo([c EXCEPT !.after = e], m, e))
<1>t. /\ c \in SoundCommand /\ c.before = m /\ c.kept = Nothing
      /\ c.kind \in {"add", "remove", "insertFrame", "removeFrame", "snapshot"}
      /\ c.keys \in SUBSET SoundKey /\ c.frame \in Frames /\ c \in Commands
      /\ c.kind = "insertFrame" => c.frame # 0
      /\ c.kind = "removeFrame" => c.frame # 0
  BY CommandParts DEF Issued
<1> DEFINE d == AfterRedo([c EXCEPT !.after = e], m, e)
<1>1. /\ d.kind = c.kind /\ d.keys = c.keys /\ d.frame = c.frame
      /\ d.before = m /\ d.after = e
      /\ d.kept = IF c.kind = "removeFrame" THEN Column(m, c.frame) ELSE Nothing
  BY <1>t DEF AfterRedo, Shifts, Commands
<1> HIDE DEF d
<1>2. CASE c.kind = "add"
  <2>1. AddedTo(c.keys, m) /\ e = Added(m, c.keys)
    BY <1>2 DEF Issued, Redos, Added
  <2>2. TakenBack(d)
    <3> SUFFICES ASSUME NEW u \in Undos(d, e) PROVE u = m
      BY <1>1 DEF TakenBack
    <3>1. PICK r \in removeKeyframe(e, c.keys) : u = Overridden(r, c.keys, TRUE)
      BY <1>1, <1>2 DEF Undos
    <3> QED BY <2>1, <3>1, AddIsTakenBack
  <2>3. DoneAgain(d)
    BY <1>1, <1>2, <2>1 DEF DoneAgain, Redos, Added
  <2> QED BY <2>2, <2>3 DEF SoundDone, d
<1>3. CASE c.kind = "remove"
  <2>1. RemovedFrom(c.keys, m) /\ e \in removeKeyframe(m, c.keys)
    BY <1>3 DEF Issued, Redos
  <2>2. TakenBack(d)
    BY <1>1, <1>3, <2>1, RemoveIsTakenBack DEF TakenBack, Undos
  <2>3. \A r \in removeKeyframe(m, c.keys) : r = e
    BY <2>1, RemoveAll DEF RemovedFrom
  <2>4. DoneAgain(d)
    BY <1>1, <1>3, <2>3 DEF DoneAgain, Redos
  <2> QED BY <2>2, <2>4 DEF SoundDone, d
<1>4. CASE c.kind = "insertFrame"
  <2>1. e = Backward(m, c.frame, c.kept) /\ HasRoom(m)
    BY <1>4 DEF Issued, Redos
  <2>2. Forward(e, c.frame) = m
    BY <1>t, <1>4, <2>1, ColumnIsKept, ForwardTakesBack
  <2>3. TakenBack(d)
    BY <1>1, <1>4, <2>2 DEF TakenBack, Undos
  <2> QED BY <1>1, <1>4, <2>3 DEF SoundDone, Shifts, d
<1>5. CASE c.kind = "removeFrame"
  <2>1. e = Forward(m, c.frame)
    BY <1>5 DEF Redos
  <2>2. Backward(e, c.frame, Column(m, c.frame)) = m
    BY <1>t, <1>5, <2>1, BackwardTakesBack
  <2>3. TakenBack(d)
    BY <1>1, <1>5, <2>2 DEF TakenBack, Undos
  <2> QED BY <1>1, <1>5, <2>3 DEF SoundDone, Shifts, d
<1>6. CASE c.kind = "snapshot"
  BY <1>1, <1>6 DEF SoundDone, TakenBack, DoneAgain, Undos, Redos, d
<1> QED BY <1>t, <1>2, <1>3, <1>4, <1>5, <1>6

(* A shift that was undone keeps what its redo needs, whatever the motion   *)
(* was when it was undone; and the other way round.                        *)
LEMMA UndoneIsTaken ==
  ASSUME 0 \notin Columns, NEW m \in SoundMotion, NEW c \in SoundCommand, SoundDone(c),
         NEW e \in Undos(c, m), c.kind = "removeFrame" => HasRoom(m)
  PROVE  SoundTaken(AfterUndo(c, m, e))
<1>t. /\ c.kind \in {"add", "remove", "insertFrame", "removeFrame", "snapshot"}
      /\ c.frame \in Frames /\ c \in Commands /\ c.kept \in [Bones -> Slot]
      /\ c.kind = "insertFrame" => c.frame # 0
      /\ c.kind = "removeFrame" => c.frame # 0
  BY CommandParts
<1>1. CASE ~Shifts(c)
  BY <1>1 DEF AfterUndo, SoundDone, SoundTaken
<1>2. CASE Shifts(c)
  <2> DEFINE d == AfterUndo(c, m, e)
  <2>1. /\ d.kind = c.kind /\ d.frame = c.frame /\ d.before = e /\ d.after = m
        /\ d.kept = IF c.kind = "insertFrame" THEN Column(m, c.frame) ELSE Nothing
    BY <1>t, <1>2 DEF AfterUndo, Commands
  <2> HIDE DEF d
  <2>2. CASE c.kind = "insertFrame"
    <3>1. e = Forward(m, c.frame)
      BY <2>2 DEF Undos
    <3>2. Backward(e, c.frame, Column(m, c.frame)) = m
      BY <1>t, <2>2, <3>1, BackwardTakesBack
    <3>3. DoneAgain(d)
      BY <2>1, <2>2, <3>2 DEF DoneAgain, Redos
    <3> QED BY <2>1, <2>2, <3>3 DEF SoundTaken, Shifts, d
  <2>3. CASE c.kind = "removeFrame"
    <3>1. e = Backward(m, c.frame, c.kept)
      BY <2>3 DEF Undos
    <3>2. Forward(e, c.frame) = m
      BY <1>t, <2>3, <3>1, ForwardTakesBack
    <3>3. DoneAgain(d)
      BY <2>1, <2>3, <3>2 DEF DoneAgain, Redos
    <3> QED BY <2>1, <2>3, <3>3 DEF SoundTaken, Shifts, d
  <2> QED BY <1>2, <2>2, <2>3 DEF Shifts
<1> QED BY <1>1, <1>2

LEMMA RedoneIsDone ==
  ASSUME 0 \notin Columns, NEW m \in SoundMotion, NEW c \in SoundCommand, SoundTaken(c),
         NEW e \in Redos(c, m), c.kind = "insertFrame" => HasRoom(m)
  PROVE  SoundDone(AfterRedo(c, m, e))
<1>t. /\ c.kind \in {"add", "remove", "insertFrame", "removeFrame", "snapshot"}
      /\ c.frame \in Frames /\ c \in Commands /\ c.kept \in [Bones -> Slot]
      /\ c.kind = "insertFrame" => c.frame # 0
      /\ c.kind = "removeFrame" => c.frame # 0
  BY CommandParts
<1>1. CASE ~Shifts(c)
  BY <1>1 DEF AfterRedo, SoundDone, SoundTaken
<1>2. CASE Shifts(c)
  <2> DEFINE d == AfterRedo(c, m, e)
  <2>1. /\ d.kind = c.kind /\ d.frame = c.frame /\ d.before = m /\ d.after = e
        /\ d.kept = IF c.kind = "removeFrame" THEN Column(m, c.frame) ELSE Nothing
    BY <1>t, <1>2 DEF AfterRedo, Commands
  <2> HIDE DEF d
  <2>2. CASE c.kind = "insertFrame"
    <3>1. e = Backward(m, c.frame, c.kept)
      BY <2>2 DEF Redos
    <3>2. Forward(e, c.frame) = m
      BY <1>t, <2>2, <3>1, ForwardTakesBack
    <3>3. TakenBack(d)
      BY <2>1, <2>2, <3>2 DEF TakenBack, Undos
    <3> QED BY <2>1, <2>2, <3>3 DEF SoundDone, Shifts, d
  <2>3. CASE c.kind = "removeFrame"
    <3>1. e = Forward(m, c.frame)
      BY <2>3 DEF Redos
    <3>2. Backward(e, c.frame, Column(m, c.frame)) = m
      BY <1>t, <2>3, <3>1, BackwardTakesBack
    <3>3. TakenBack(d)
      BY <2>1, <2>3, <3>2 DEF TakenBack, Undos
    <3> QED BY <2>1, <2>3, <3>3 DEF SoundDone, Shifts, d
  <2> QED BY <1>2, <2>2, <2>3 DEF Shifts
<1> QED BY <1>1, <1>2

-----------------------------------------------------------------------------
(* The stacks: at which places the commands of a stack are after a step.    *)

LEMMA PushedPlaces ==
  ASSUME NEW s \in SoundStack, NEW c \in SoundCommand
  PROVE  LET t == Pushed(s, c)
             k == IF s.current = Limit THEN 1 ELSE 0
         IN /\ t.current = Len(t.commands) /\ t.current = s.current + 1 - k
            /\ t.current \in Nat \ {0} /\ t.commands[t.current] = c
            /\ \A i \in 1 .. (t.current - 1) :
                 i + k \in 1 .. s.current /\ t.commands[i] = s.commands[i + k]
<1> DEFINE kept == SubSeq(s.commands, 1, s.current)
           t == Pushed(s, c)
<1>1. /\ kept \in Seq(SoundCommand) /\ Len(kept) = s.current
      /\ s.current \in Nat /\ s.current <= Limit /\ Limit \in Nat \ {0}
      /\ \A i \in 1 .. s.current : kept[i] = s.commands[i]
  BY StackParts, LimitAssumption
<1>2. CASE s.current = Limit
  <2> DEFINE q == Append(Tail(kept), c)
  <2>1. t = [s EXCEPT !.commands = q]
    BY <1>2 DEF Pushed
  <2>2. /\ Len(q) = s.current /\ q[s.current] = c
        /\ \A i \in 1 .. (s.current - 1) : q[i] = kept[i + 1]
    <3> HIDE DEF kept
    <3>1. Tail(kept) \in Seq(SoundCommand) /\ Len(Tail(kept)) = s.current - 1
      BY <1>1, <1>2
    <3>2. \A i \in 1 .. (s.current - 1) : Tail(kept)[i] = kept[i + 1]
      BY <1>1, <1>2
    <3> QED BY <1>1, <3>1, <3>2
  <2>3. t.commands = q /\ t.current = s.current
    BY <2>1 DEF SoundStack
  <2> HIDE DEF q, kept, t
  <2>4. \A i \in 1 .. (s.current - 1) : i + 1 \in 1 .. s.current /\ q[i] = s.commands[i + 1]
    BY <1>1, <2>2
  <2> QED BY <1>1, <1>2, <2>2, <2>3, <2>4 DEF t
<1>3. CASE s.current # Limit
  <2> DEFINE q == Append(kept, c)
  <2>1. t.commands = q /\ t.current = s.current + 1
    BY <1>3 DEF Pushed
  <2> HIDE DEF kept
  <2>2. /\ Len(q) = s.current + 1 /\ q[s.current + 1] = c
        /\ \A i \in 1 .. s.current : q[i] = kept[i]
    BY <1>1
  <2> HIDE DEF q, t
  <2>3. \A i \in 1 .. s.current : i + 0 \in 1 .. s.current /\ q[i] = s.commands[i + 0]
    BY <1>1, <2>2
  <2>4. /\ t.current = Len(t.commands) /\ t.current = s.current + 1 - 0
        /\ t.current \in Nat \ {0} /\ t.commands[t.current] = c /\ t.current - 1 = s.current
    BY <1>1, <2>1, <2>2
  <2> QED BY <1>3, <2>1, <2>3, <2>4 DEF t
<1> QED BY <1>2, <1>3

\* The command at a place is another, and the rest of the stack is the same.
Replaced(t, s, i, c) ==
  /\ Len(t.commands) = Len(s.commands) /\ t.commands[i] = c
  /\ \A j \in 1 .. Len(s.commands) : j # i => t.commands[j] = s.commands[j]

LEMMA ReplacedPlaces ==
  ASSUME NEW s \in SoundStack, NEW i \in 1 .. Len(s.commands), NEW c, NEW n
  PROVE  LET t == [s EXCEPT !.commands[i] = c, !.current = n]
         IN t.current = n /\ Replaced(t, s, i, c)
<1> DEFINE t == [s EXCEPT !.commands[i] = c, !.current = n]
           q == [s.commands EXCEPT ![i] = c]
<1>1. t.current = n /\ t.commands = q
  BY DEF SoundStack
<1>2. s.commands \in Seq(SoundCommand)
  BY StackParts
<1>3. /\ Len(q) = Len(s.commands) /\ q[i] = c
      /\ \A j \in 1 .. Len(s.commands) : j # i => q[j] = s.commands[j]
  BY <1>2
<1> QED BY <1>1, <1>3 DEF Replaced

LEMMA UndonePlaces ==
  ASSUME NEW s \in SoundStack, CanUndo(s), NEW c,
         NEW t, t = Undone([s EXCEPT !.commands[s.current] = c])
  PROVE  /\ s.current \in 1 .. Len(s.commands) /\ Below(s) = s.commands[s.current]
         /\ t.current = s.current - 1 /\ Replaced(t, s, s.current, c)
<1>1. s.current \in 1 .. Len(s.commands)
  BY StackParts DEF CanUndo
<1>2. Undone([s EXCEPT !.commands[s.current] = c])
        = [s EXCEPT !.commands[s.current] = c, !.current = s.current - 1]
  BY DEF Undone, SoundStack
<1> DEFINE u == [s EXCEPT !.commands[s.current] = c, !.current = s.current - 1]
<1>3. u.current = s.current - 1 /\ Replaced(u, s, s.current, c)
  BY <1>1, ReplacedPlaces
<1> HIDE DEF u
<1> QED BY <1>1, <1>2, <1>3 DEF Below, u

LEMMA RedonePlaces ==
  ASSUME NEW s \in SoundStack, CanRedo(s), NEW c,
         NEW t, t = Redone([s EXCEPT !.commands[s.current + 1] = c])
  PROVE  /\ s.current + 1 \in 1 .. Len(s.commands) /\ Above(s) = s.commands[s.current + 1]
         /\ t.current = s.current + 1 /\ Replaced(t, s, s.current + 1, c)
<1>1. s.current + 1 \in 1 .. Len(s.commands)
  BY StackParts DEF CanRedo
<1>2. Redone([s EXCEPT !.commands[s.current + 1] = c])
        = [s EXCEPT !.commands[s.current + 1] = c, !.current = s.current + 1]
  BY DEF Redone, SoundStack
<1> DEFINE u == [s EXCEPT !.commands[s.current + 1] = c, !.current = s.current + 1]
<1>3. u.current = s.current + 1 /\ Replaced(u, s, s.current + 1, c)
  BY <1>1, ReplacedPlaces
<1> HIDE DEF u
<1> QED BY <1>1, <1>2, <1>3 DEF Above, u

LEMMA UndoneIsSound ==
  ASSUME NEW s \in SoundStack, CanUndo(s), NEW c \in SoundCommand
  PROVE  Undone([s EXCEPT !.commands[s.current] = c]) \in SoundStack
<1>1. s.current \in 1 .. Len(s.commands) /\ s.current - 1 \in Nat /\ s.current - 1 <= Len(s.commands)
  BY StackParts DEF CanUndo
<1> DEFINE u == Undone([s EXCEPT !.commands[s.current] = c])
<1>2. u = [s EXCEPT !.commands[s.current] = c, !.current = s.current - 1]
  BY DEF Undone, SoundStack
<1> HIDE DEF u
<1>3. u \in SoundStack
  BY <1>1, <1>2, ReplacedIsSound
<1> QED BY <1>3 DEF u

LEMMA RedoneIsSound ==
  ASSUME NEW s \in SoundStack, CanRedo(s), NEW c \in SoundCommand
  PROVE  Redone([s EXCEPT !.commands[s.current + 1] = c]) \in SoundStack
<1>1. s.current + 1 \in 1 .. Len(s.commands) /\ s.current + 1 \in Nat /\ s.current + 1 <= Len(s.commands)
  BY StackParts DEF CanRedo
<1> DEFINE u == Redone([s EXCEPT !.commands[s.current + 1] = c])
<1>2. u = [s EXCEPT !.commands[s.current + 1] = c, !.current = s.current + 1]
  BY DEF Redone, SoundStack
<1> HIDE DEF u
<1>3. u \in SoundStack
  BY <1>1, <1>2, ReplacedIsSound
<1> QED BY <1>3 DEF u

(* Destroying the motion changes of the commands only whether what they     *)
(* keep is alive, which is not what undoing and redoing give.               *)
Alike(c, d) ==
  /\ c.kind = d.kind /\ c.keys = d.keys /\ c.frame = d.frame /\ c.kept = d.kept
  /\ c.before = d.before /\ c.after = d.after

LEMMA AlikeSound ==
  ASSUME NEW c, NEW d, Alike(c, d)
  PROVE  (SoundDone(c) => SoundDone(d)) /\ (SoundTaken(c) => SoundTaken(d))
<1>1. Shifts(c) = Shifts(d)
  BY DEF Alike, Shifts
<1>2. \A m : Undos(c, m) = Undos(d, m)
  BY DEF Alike, Undos
<1>3. \A m : Redos(c, m) = Redos(d, m)
  BY DEF Alike, Redos
<1>4. (TakenBack(c) => TakenBack(d)) /\ (DoneAgain(c) => DoneAgain(d))
  BY <1>2, <1>3 DEF TakenBack, DoneAgain, Alike
<1> QED BY <1>1, <1>4 DEF SoundDone, SoundTaken

LEMMA SettledPlaces ==
  ASSUME NEW t \in [Owners -> SoundStack], NEW c, NEW o \in Owners
  PROVE  /\ Settled(t, c)[o].current = t[o].current
         /\ Len(Settled(t, c)[o].commands) = Len(t[o].commands)
         /\ \A i \in 1 .. Len(t[o].commands) :
              Alike(t[o].commands[i], Settled(t, c)[o].commands[i])
<1>1. CASE c.kind # "snapshot"
  BY <1>1 DEF Settled, Alike
<1>2. CASE c.kind = "snapshot"
  <2> DEFINE s == t[o]
             q == [i \in DOMAIN s.commands |->
                     [s.commands[i] EXCEPT !.alive = (s.commands[i].kept = Nothing)]]
             n == Len(s.commands)
  <2>1. s \in SoundStack
    OBVIOUS
  <2>2. Settled(t, c)[o] = [s EXCEPT !.commands = q]
    BY <1>2 DEF Settled, Destroyed
  <2> HIDE DEF s
  <2>3. n \in Nat /\ DOMAIN s.commands = 1 .. n
    BY <2>1, StackParts
  <2>4. s \in [commands : Seq(SoundCommand), current : Nat]
    BY <2>1 DEF SoundStack
  <2>5. \A i \in 1 .. n : s.commands[i] \in Commands
    BY <2>1, StackParts DEF SoundCommand
  <2>6. \A i \in 1 .. n : Alike(s.commands[i], q[i])
    <3> SUFFICES ASSUME NEW i \in 1 .. n PROVE Alike(s.commands[i], q[i])
      OBVIOUS
    <3>1. q[i] = [s.commands[i] EXCEPT !.alive = (s.commands[i].kept = Nothing)]
      BY <2>3
    <3>2. s.commands[i] \in Commands
      BY <2>5
    <3> HIDE DEF q
    <3> QED BY <3>1, <3>2 DEF Alike, Commands
  <2>7. Len(q) = n
    <3>1. DOMAIN q = 1 .. n
      BY <2>3
    <3>2. q = [i \in 1 .. n |-> q[i]]
      BY <2>3
    <3> HIDE DEF q, n
    <3> QED BY <2>3, <3>1, <3>2
  <2> DEFINE r == [s EXCEPT !.commands = q]
  <2>8. r.current = s.current /\ r.commands = q
    BY <2>4
  <2> HIDE DEF q, r, n
  <2> QED BY <2>2, <2>6, <2>7, <2>8 DEF s, r, n
<1> QED BY <1>1, <1>2

LEMMA SettledInverts ==
  ASSUME NEW t \in [Owners -> SoundStack], NEW c, NEW o \in Owners, Inverts(t[o])
  PROVE  Inverts(Settled(t, c)[o])
<1> DEFINE u == Settled(t, c)[o]
<1>1. /\ u.current = t[o].current /\ Len(u.commands) = Len(t[o].commands)
      /\ \A i \in 1 .. Len(t[o].commands) : Alike(t[o].commands[i], u.commands[i])
  BY SettledPlaces
<1> HIDE DEF u
<1>2. ASSUME NEW i \in 1 .. Len(t[o].commands)
      PROVE  IF i <= u.current THEN SoundDone(u.commands[i]) ELSE SoundTaken(u.commands[i])
  <2>1. IF i <= u.current THEN SoundDone(t[o].commands[i]) ELSE SoundTaken(t[o].commands[i])
    BY <1>1 DEF Inverts
  <2> QED BY <1>1, <2>1, AlikeSound
<1>3. Inverts(u)
  BY <1>1, <1>2 DEF Inverts
<1> QED BY <1>3 DEF u

LEMMA PushedInverts ==
  ASSUME NEW s \in SoundStack, Inverts(s), NEW c \in SoundCommand, SoundDone(c)
  PROVE  Inverts(Pushed(s, c)) /\ Pushed(s, c).current >= s.current
<1> DEFINE t == Pushed(s, c)
           k == IF s.current = Limit THEN 1 ELSE 0
<1>1. /\ t.current = Len(t.commands) /\ t.current = s.current + 1 - k
      /\ t.current \in Nat \ {0} /\ t.commands[t.current] = c
      /\ \A i \in 1 .. (t.current - 1) :
           i + k \in 1 .. s.current /\ t.commands[i] = s.commands[i + k]
  BY PushedPlaces
<1>2. s.current \in Nat /\ Len(s.commands) \in Nat /\ s.current <= Len(s.commands)
  BY StackParts
<1>3. t.current >= s.current
  BY <1>1, <1>2
<1> HIDE DEF t, k
<1>4. ASSUME NEW i \in 1 .. Len(t.commands) PROVE SoundDone(t.commands[i])
  <2>1. CASE i = t.current
    BY <1>1, <2>1
  <2>2. CASE i # t.current
    <3>1. i \in 1 .. (t.current - 1)
      BY <1>1, <2>2
    <3>2. i + k \in 1 .. s.current /\ t.commands[i] = s.commands[i + k]
      BY <1>1, <3>1
    <3>3. i + k \in 1 .. Len(s.commands) /\ i + k <= s.current
      BY <1>2, <3>2
    <3> QED BY <3>2, <3>3 DEF Inverts
  <2> QED BY <2>1, <2>2
<1>5. \A i \in 1 .. Len(t.commands) : i <= t.current
  BY <1>1
<1>6. Inverts(t)
  BY <1>4, <1>5 DEF Inverts
<1> QED BY <1>3, <1>6 DEF t

LEMMA UndoneInverts ==
  ASSUME NEW s \in SoundStack, CanUndo(s), Inverts(s), NEW c, SoundTaken(c)
  PROVE  Inverts(Undone([s EXCEPT !.commands[s.current] = c]))
<1> DEFINE t == Undone([s EXCEPT !.commands[s.current] = c])
<1>t. t = Undone([s EXCEPT !.commands[s.current] = c])
  OBVIOUS
<1> HIDE DEF t
<1>1. /\ s.current \in 1 .. Len(s.commands)
      /\ t.current = s.current - 1 /\ Replaced(t, s, s.current, c)
  BY <1>t, UndonePlaces
<1>2. ASSUME NEW i \in 1 .. Len(s.commands)
      PROVE  IF i <= t.current THEN SoundDone(t.commands[i]) ELSE SoundTaken(t.commands[i])
  <2>1. CASE i = s.current
    BY <1>1, <2>1 DEF Replaced
  <2>2. CASE i # s.current
    <3>1. t.commands[i] = s.commands[i] /\ (i <= t.current <=> i <= s.current)
      BY <1>1, <2>2 DEF Replaced
    <3> QED BY <3>1 DEF Inverts
  <2> QED BY <2>1, <2>2
<1>3. Inverts(t)
  BY <1>1, <1>2 DEF Inverts, Replaced
<1> QED BY <1>3 DEF t

LEMMA RedoneInverts ==
  ASSUME NEW s \in SoundStack, CanRedo(s), Inverts(s), NEW c, SoundDone(c)
  PROVE  Inverts(Redone([s EXCEPT !.commands[s.current + 1] = c]))
<1> DEFINE t == Redone([s EXCEPT !.commands[s.current + 1] = c])
<1>t. t = Redone([s EXCEPT !.commands[s.current + 1] = c])
  OBVIOUS
<1> HIDE DEF t
<1>s. s.current \in Nat
  BY StackParts
<1>1. /\ s.current + 1 \in 1 .. Len(s.commands)
      /\ t.current = s.current + 1 /\ Replaced(t, s, s.current + 1, c)
  BY <1>t, RedonePlaces
<1>2. ASSUME NEW i \in 1 .. Len(s.commands)
      PROVE  IF i <= t.current THEN SoundDone(t.commands[i]) ELSE SoundTaken(t.commands[i])
  <2>1. CASE i = s.current + 1
    BY <1>1, <2>1 DEF Replaced
  <2>2. CASE i # s.current + 1
    <3>1. t.commands[i] = s.commands[i] /\ (i <= t.current <=> i <= s.current)
      BY <1>s, <1>1, <2>2 DEF Replaced
    <3> QED BY <3>1 DEF Inverts
  <2> QED BY <2>1, <2>2
<1>3. Inverts(t)
  BY <1>1, <1>2 DEF Inverts, Replaced
<1> QED BY <1>3 DEF t

-----------------------------------------------------------------------------
(* The steps of a project: which stacks move, and that they keep inverting. *)

AllInvert(p) == \A o \in Owners : Inverts(p.stack[o])

LEMMA PerformedInverts ==
  ASSUME NEW p \in SoundProject, AllInvert(p), NEW w \in Owners, NEW c \in SoundCommand,
         NEW m \in SoundMotion, SoundDone(AfterRedo(c, p.motion, m))
  PROVE  /\ AllInvert(Performed(p, w, c, m)) /\ Performed(p, w, c, m).motion = m
         /\ \A o \in Owners : Performed(p, w, c, m).stack[o].current >= p.stack[o].current
<1> DEFINE d == AfterRedo(c, p.motion, m)
           t == [p.stack EXCEPT ![w] = Pushed(@, d)]
           q == Performed(p, w, c, m)
<1>1. p.motion \in SoundMotion /\ p.stack \in [Owners -> SoundStack]
  BY DEF SoundProject
<1>2. d \in SoundCommand
  BY <1>1, AfterIsSound
<1>3. Pushed(p.stack[w], d) \in SoundStack
  BY <1>1, <1>2, PushedIsSound
<1>4. t \in [Owners -> SoundStack]
  BY <1>1, <1>3
<1>5. q.motion = m /\ q.stack = Settled(t, c)
  BY DEF Performed
<1>6. ASSUME NEW o \in Owners PROVE Inverts(t[o]) /\ t[o].current >= p.stack[o].current
  <2>1. Inverts(p.stack[o]) /\ p.stack[o].current \in Nat
    BY <1>1, StackParts DEF AllInvert
  <2>2. CASE o = w
    <3>1. t[o] = Pushed(p.stack[o], d)
      BY <1>1, <2>2
    <3> HIDE DEF d, t
    <3> QED BY <1>1, <1>2, <2>1, <3>1, PushedInverts DEF d
  <2>3. CASE o # w
    <3>1. t[o] = p.stack[o]
      BY <1>1, <2>3
    <3> HIDE DEF t
    <3> QED BY <2>1, <3>1
  <2> QED BY <2>2, <2>3
<1> HIDE DEF q, t, d
<1>7. ASSUME NEW o \in Owners
      PROVE  Inverts(q.stack[o]) /\ q.stack[o].current >= p.stack[o].current
  BY <1>4, <1>5, <1>6, SettledInverts, SettledPlaces
<1> QED BY <1>5, <1>7 DEF AllInvert, q

LEMMA UndonePerformedInverts ==
  ASSUME NEW p \in SoundProject, AllInvert(p), NEW w \in Owners, CanUndo(p.stack[w]),
         NEW m \in SoundMotion, SoundTaken(AfterUndo(Below(p.stack[w]), p.motion, m))
  PROVE  /\ AllInvert(UndonePerformed(p, w, m)) /\ UndonePerformed(p, w, m).motion = m
         /\ UndonePerformed(p, w, m).stack[w].current = p.stack[w].current - 1
         /\ \A o \in Owners \ {w} :
              UndonePerformed(p, w, m).stack[o].current = p.stack[o].current
<1> DEFINE s == p.stack[w]
           c == AfterUndo(Below(s), p.motion, m)
           u == Undone([s EXCEPT !.commands[s.current] = c])
           t == [p.stack EXCEPT ![w] = u]
           q == UndonePerformed(p, w, m)
<1>1. p.motion \in SoundMotion /\ p.stack \in [Owners -> SoundStack] /\ s \in SoundStack
  BY DEF SoundProject
<1>2. Below(s) \in SoundCommand
  BY UndonePerformedIsSound
<1>3. c \in SoundCommand
  BY <1>1, <1>2, AfterIsSound
<1>4. q.motion = m /\ q.stack = Settled(t, c)
  BY DEF UndonePerformed
<1> HIDE DEF q, c
<1>5. /\ Inverts(u) /\ u.current = s.current - 1
  BY <1>1, UndoneInverts, UndonePlaces DEF AllInvert, c
<1>6. u \in SoundStack
  BY <1>1, <1>3, UndoneIsSound
<1> HIDE DEF u
<1>7. t \in [Owners -> SoundStack]
  BY <1>1, <1>6
<1>8. t[w] = u /\ \A o \in Owners \ {w} : t[o] = p.stack[o]
  BY <1>1
<1> HIDE DEF t, s
<1>9. \A o \in Owners : Inverts(t[o])
  BY <1>5, <1>8 DEF AllInvert
<1>10. ASSUME NEW o \in Owners
       PROVE  Inverts(q.stack[o]) /\ q.stack[o].current = t[o].current
  BY <1>4, <1>7, <1>9, SettledInverts, SettledPlaces
<1> QED BY <1>4, <1>5, <1>8, <1>10 DEF AllInvert, q, s

LEMMA RedonePerformedInverts ==
  ASSUME NEW p \in SoundProject, AllInvert(p), NEW w \in Owners, CanRedo(p.stack[w]),
         NEW m \in SoundMotion, SoundDone(AfterRedo(Above(p.stack[w]), p.motion, m))
  PROVE  /\ AllInvert(RedonePerformed(p, w, m)) /\ RedonePerformed(p, w, m).motion = m
         /\ RedonePerformed(p, w, m).stack[w].current = p.stack[w].current + 1
         /\ \A o \in Owners \ {w} :
              RedonePerformed(p, w, m).stack[o].current = p.stack[o].current
<1> DEFINE s == p.stack[w]
           c == AfterRedo(Above(s), p.motion, m)
           u == Redone([s EXCEPT !.commands[s.current + 1] = c])
           t == [p.stack EXCEPT ![w] = u]
           q == RedonePerformed(p, w, m)
<1>1. p.motion \in SoundMotion /\ p.stack \in [Owners -> SoundStack] /\ s \in SoundStack
  BY DEF SoundProject
<1>2. Above(s) \in SoundCommand
  BY RedonePerformedIsSound
<1>3. c \in SoundCommand
  BY <1>1, <1>2, AfterIsSound
<1>4. q.motion = m /\ q.stack = Settled(t, c)
  BY DEF RedonePerformed
<1> HIDE DEF q, c
<1>5. /\ Inverts(u) /\ u.current = s.current + 1
  BY <1>1, RedoneInverts, RedonePlaces DEF AllInvert, c
<1>6. u \in SoundStack
  BY <1>1, <1>3, RedoneIsSound
<1> HIDE DEF u
<1>7. t \in [Owners -> SoundStack]
  BY <1>1, <1>6
<1>8. t[w] = u /\ \A o \in Owners \ {w} : t[o] = p.stack[o]
  BY <1>1
<1> HIDE DEF t, s
<1>9. \A o \in Owners : Inverts(t[o])
  BY <1>5, <1>8 DEF AllInvert
<1>10. ASSUME NEW o \in Owners
       PROVE  Inverts(q.stack[o]) /\ q.stack[o].current = t[o].current
  BY <1>4, <1>7, <1>9, SettledInverts, SettledPlaces
<1> QED BY <1>4, <1>5, <1>8, <1>10 DEF AllInvert, q, s

-----------------------------------------------------------------------------
(* Every step keeps the commands inverting, and takes back what it undoes.  *)

LEMMA PushInverts ==
  ASSUME 0 \notin Columns, InverseInv, NEW c, Issued(c, project.motion), PushModel(c)
  PROVE  /\ AllInvert(project') /\ pushes' = pushes + 1
         /\ \A o \in Owners : project'.stack[o].current >= project.stack[o].current
<1> DEFINE m == project.motion
<1>1. project \in SoundProject /\ m \in SoundMotion /\ AllInvert(project) /\ "model" \in Owners
  BY DEF InverseInv, Inv, SoundProject, AllInvert, Owners
<1>2. PICK e \in Redos(c, m) :
        project' = Performed(project, "model", [c EXCEPT !.after = e], e)
  BY DEF PushModel
<1>3. c \in SoundCommand
  BY DEF Issued
<1> HIDE DEF m
<1>4. e \in SoundMotion /\ SoundDone(AfterRedo([c EXCEPT !.after = e], m, e))
  BY <1>1, <1>3, RedosAreSound, IssuedIsDone DEF m
<1> DEFINE d == [c EXCEPT !.after = e]
<1>5. d \in SoundCommand
  <2>1. e \in Motion
    BY <1>4 DEF SoundMotion
  <2> QED BY <1>3, <1>4, <2>1 DEF SoundCommand, Commands
<1>6. project' = Performed(project, "model", d, e) /\ SoundDone(AfterRedo(d, project.motion, e))
  BY <1>2, <1>4 DEF m
<1>7. pushes' = pushes + 1
  BY DEF PushModel
<1> HIDE DEF d
<1> QED BY <1>1, <1>4, <1>5, <1>6, <1>7, PerformedInverts

LEMMA NewCommandIsIssued ==
  ASSUME NEW m \in SoundMotion, NEW e,
         NEW kind \in {"add", "remove", "insertFrame", "removeFrame", "snapshot"},
         NEW keys, NEW f, Command(kind, keys, f, m, e) \in SoundCommand,
         kind = "add" => AddedTo(keys, m), kind = "remove" => RemovedFrom(keys, m),
         kind = "insertFrame" => HasRoom(m)
  PROVE  Issued(Command(kind, keys, f, m, e), m)
BY DEF Issued, Command

(* A user's command of the model is one that was just issued.               *)
LEMMA PushedIsIssued ==
  ASSUME 0 \notin Columns, Inv,
         \/ AddKeyframes \/ RemoveKeyframes \/ InsertEmptyTimelineFrame \/ RemoveTimelineFrame
         \/ CorrectAllSelectedBoneKeyframes
  PROVE  \E c : Issued(c, project.motion) /\ PushModel(c)
<1> DEFINE m == project.motion
<1>m. m \in SoundMotion
  BY DEF Inv, SoundProject
<1> HIDE DEF m
<1>1. CASE AddKeyframes
  <2>1. PICK B \in SUBSET Bones \ {{}}, f \in Frames, v \in Values :
          PushModel(Command("add", {toAddedKeyframe(m, b, f, v) : b \in B}, f, m, m))
    BY <1>1 DEF AddKeyframes, m
  <2> DEFINE keys == {toAddedKeyframe(m, b, f, v) : b \in B}
  <2>2. AddedTo(keys, m)
    BY <1>m, AddedKeysKnow
  <2>3. keys \in SUBSET SoundKey
    BY <2>2 DEF AddedTo
  <2> HIDE DEF keys
  <2>4. Command("add", keys, f, m, m) \in SoundCommand
    BY <1>m, <2>3, NewCommandIsSound
  <2>5. Issued(Command("add", keys, f, m, m), m)
    BY <1>m, <2>2, <2>4, NewCommandIsIssued
  <2> QED BY <2>1, <2>5 DEF keys, m
<1>2. CASE RemoveKeyframes
  <2>1. PICK K \in Selections(m) :
          PushModel(Command("remove", {toRemovedKeyframe(m, k[1], k[2]) : k \in K}, 0, m, m))
    BY <1>2 DEF RemoveKeyframes, m
  <2> DEFINE keys == {toRemovedKeyframe(m, k[1], k[2]) : k \in K}
  <2>2. RemovedFrom(keys, m)
    BY <1>m, RemovedKeysKnow
  <2>3. keys \in SUBSET SoundKey
    BY <2>2 DEF RemovedFrom
  <2> HIDE DEF keys
  <2>4. Command("remove", keys, 0, m, m) \in SoundCommand
    BY <1>m, <2>3, NewCommandIsSound, FrameFacts
  <2>5. Issued(Command("remove", keys, 0, m, m), m)
    BY <1>m, <2>2, <2>4, NewCommandIsIssued
  <2> QED BY <2>1, <2>5 DEF keys, m
<1>3. CASE InsertEmptyTimelineFrame
  <2>1. HasRoom(m) /\ \E f \in Frames \ {0} : PushModel(Command("insertFrame", {}, f, m, m))
    BY <1>3 DEF InsertEmptyTimelineFrame, m
  <2>2. PICK f \in Frames \ {0} : PushModel(Command("insertFrame", {}, f, m, m))
    BY <2>1
  <2>3. Command("insertFrame", {}, f, m, m) \in SoundCommand
    BY <1>m, NewCommandIsSound
  <2>4. Issued(Command("insertFrame", {}, f, m, m), m)
    BY <1>m, <2>1, <2>3, NewCommandIsIssued
  <2> QED BY <2>2, <2>4 DEF m
<1>4. CASE RemoveTimelineFrame
  <2>1. PICK f \in Columns : PushModel(Command("removeFrame", {}, f, m, m))
    BY <1>4 DEF RemoveTimelineFrame, m
  <2>2. f \in Frames
    BY FrameAssumption DEF Frames
  <2>3. Command("removeFrame", {}, f, m, m) \in SoundCommand
    BY <1>m, <2>2, NewCommandIsSound
  <2>4. Issued(Command("removeFrame", {}, f, m, m), m)
    BY <1>m, <2>3, NewCommandIsIssued
  <2> QED BY <2>1, <2>4 DEF m
<1>5. CASE CorrectAllSelectedBoneKeyframes
  <2>1. PICK K \in Selections(m), v \in Values :
          PushModel(Command("snapshot", {}, 0, m, Corrected(m, K, v)))
    BY <1>5 DEF CorrectAllSelectedBoneKeyframes, m
  <2>2. Corrected(m, K, v) \in SoundMotion
    BY <1>m, CorrectKeepsSound
  <2>3. Command("snapshot", {}, 0, m, Corrected(m, K, v)) \in SoundCommand
    BY <1>m, <2>2, NewCommandIsSound, FrameFacts
  <2>4. Issued(Command("snapshot", {}, 0, m, Corrected(m, K, v)), m)
    BY <1>m, <2>3, NewCommandIsIssued
  <2> QED BY <2>1, <2>4 DEF m
<1> QED BY <1>1, <1>2, <1>3, <1>4, <1>5

LEMMA MoveInverts ==
  ASSUME InverseInv, MoveAllSelectedKeyframes
  PROVE  /\ AllInvert(project') /\ pushes' = pushes + 1
         /\ \A o \in Owners : project'.stack[o].current >= project.stack[o].current
<1> DEFINE m == project.motion
<1>m. /\ m \in SoundMotion /\ project \in SoundProject /\ AllInvert(project) /\ "project" \in Owners
      /\ pushes' = pushes + 1
  BY DEF InverseInv, Inv, SoundProject, AllInvert, Owners, MoveAllSelectedKeyframes
<1>1. PICK K \in Selections(m), delta \in -LastFrame .. LastFrame :
        LET motion == MovedBy(m, K, delta)
        IN \/ project' = Performed(project, "project", Command("snapshot", {}, 0, m, motion), motion)
           \/ project' = [project EXCEPT !.motion = motion]
  BY DEF MoveAllSelectedKeyframes
<1> DEFINE motion == MovedBy(m, K, delta)
           c == Command("snapshot", {}, 0, m, motion)
<1>2. motion \in SoundMotion
  BY <1>m, FrameFacts, MoveKeepsSound
<1>3. project' = Performed(project, "project", c, motion) \/ project' = [project EXCEPT !.motion = motion]
  BY <1>1
<1> HIDE DEF m, motion
<1>4. c \in SoundCommand
  BY <1>m, <1>2, NewCommandIsSound, FrameFacts
<1>5. SoundDone(AfterRedo(c, m, motion))
  BY DEF Command, AfterRedo, Shifts, SoundDone, TakenBack, DoneAgain, Undos, Redos
<1> HIDE DEF c
<1>6. CASE project' = Performed(project, "project", c, motion)
  BY <1>m, <1>2, <1>4, <1>5, <1>6, PerformedInverts DEF m
<1>7. CASE project' = [project EXCEPT !.motion = motion]
  <2>1. project'.stack = project.stack
    BY <1>7
  <2>2. \A o \in Owners : project.stack[o].current \in Nat
    BY <1>m, StackParts DEF SoundProject
  <2> QED BY <1>m, <2>1, <2>2 DEF AllInvert
<1> QED BY <1>3, <1>6, <1>7

LEMMA UndoInverts ==
  ASSUME 0 \notin Columns, InverseInv, NEW w \in Owners, Undo(w)
  PROVE  AllInvert(project') /\ \A o \in Owners : TakesBack(o)
<1> DEFINE m == project.motion
           s == project.stack[w]
           c == Below(s)
<1>1. /\ project \in SoundProject /\ m \in SoundMotion /\ s \in SoundStack /\ AllInvert(project)
      /\ \A o \in Owners : project.stack[o].current \in Nat
  BY StackParts DEF InverseInv, Inv, SoundProject, AllInvert
<1>2. CanUndo(s) /\ (c.kind = "removeFrame" => c.frame = 0 \/ HasRoom(m))
  BY DEF Undo
<1>3. PICK e \in Undos(c, m) : project' = UndonePerformed(project, w, e)
  BY DEF Undo
<1>4. c \in SoundCommand
  BY <1>1, <1>2, UndonePerformedIsSound
<1>5. SoundDone(c)
  <2>1. s.current \in 1 .. Len(s.commands) /\ s.current <= s.current
    BY <1>1, <1>2, StackParts DEF CanUndo
  <2>2. Inverts(s)
    BY <1>1 DEF AllInvert
  <2> HIDE DEF s
  <2> QED BY <2>1, <2>2 DEF Inverts, Below
<1> HIDE DEF m, c
<1>6. e \in SoundMotion
  BY <1>1, <1>4, UndosAreSound
<1>7. c.kind = "removeFrame" => HasRoom(m)
  BY <1>2, <1>4, CommandParts
<1>8. SoundTaken(AfterUndo(c, m, e))
  BY <1>1, <1>4, <1>5, <1>7, UndoneIsTaken
<1>9. /\ AllInvert(project') /\ project'.motion = e
      /\ project'.stack[w].current = project.stack[w].current - 1
      /\ \A o \in Owners \ {w} : project'.stack[o].current = project.stack[o].current
  BY <1>1, <1>2, <1>3, <1>6, <1>8, UndonePerformedInverts DEF m, c
<1>10. m = c.after => e = c.before
  BY <1>3, <1>5 DEF SoundDone, TakenBack
<1>11. ASSUME NEW o \in Owners PROVE TakesBack(o)
  <2>1. CASE o = w
    <3>1. project'.stack[o].current < project.stack[o].current
      BY <1>1, <1>9, <2>1
    <3>2. ~(project'.stack[o].current > project.stack[o].current)
      BY <1>1, <1>9, <2>1
    <3> QED BY <1>9, <1>10, <2>1, <3>1, <3>2 DEF TakesBack, m, c
  <2>2. CASE o # w
    BY <1>1, <1>9, <2>2 DEF TakesBack
  <2> QED BY <2>1, <2>2
<1> QED BY <1>9, <1>11

LEMMA RedoInverts ==
  ASSUME 0 \notin Columns, InverseInv, NEW w \in Owners, Redo(w)
  PROVE  AllInvert(project') /\ \A o \in Owners : TakesBack(o)
<1> DEFINE m == project.motion
           s == project.stack[w]
           c == Above(s)
<1>1. /\ project \in SoundProject /\ m \in SoundMotion /\ s \in SoundStack /\ AllInvert(project)
      /\ \A o \in Owners : project.stack[o].current \in Nat
  BY StackParts DEF InverseInv, Inv, SoundProject, AllInvert
<1>2. CanRedo(s) /\ (c.kind = "insertFrame" => HasRoom(m))
  BY DEF Redo
<1>3. PICK e \in Redos(c, m) : project' = RedonePerformed(project, w, e)
  BY DEF Redo
<1>4. c \in SoundCommand
  BY <1>1, <1>2, RedonePerformedIsSound
<1>5. SoundTaken(c)
  <2>1. s.current + 1 \in 1 .. Len(s.commands) /\ ~(s.current + 1 <= s.current)
    BY <1>1, <1>2, StackParts DEF CanRedo
  <2>2. Inverts(s)
    BY <1>1 DEF AllInvert
  <2> HIDE DEF s
  <2> QED BY <2>1, <2>2 DEF Inverts, Above
<1> HIDE DEF m, c
<1>6. e \in SoundMotion
  BY <1>1, <1>4, RedosAreSound
<1>7. SoundDone(AfterRedo(c, m, e))
  BY <1>1, <1>2, <1>4, <1>5, RedoneIsDone
<1>8. /\ AllInvert(project') /\ project'.motion = e
      /\ project'.stack[w].current = project.stack[w].current + 1
      /\ \A o \in Owners \ {w} : project'.stack[o].current = project.stack[o].current
  BY <1>1, <1>2, <1>3, <1>6, <1>7, RedonePerformedInverts DEF m, c
<1>9. m = c.before => e = c.after
  BY <1>3, <1>5 DEF SoundTaken, DoneAgain
<1>10. ASSUME NEW o \in Owners PROVE TakesBack(o)
  <2>1. CASE o = w
    <3>1. ~(project'.stack[o].current < project.stack[o].current)
      BY <1>1, <1>8, <2>1
    <3> QED BY <1>8, <1>9, <2>1, <3>1 DEF TakesBack, m, c
  <2>2. CASE o # w
    BY <1>1, <1>8, <2>2 DEF TakesBack
  <2> QED BY <2>1, <2>2
<1> QED BY <1>8, <1>10

LEMMA NextInverts ==
  ASSUME MaxPushes \in Nat, 0 \notin Columns, InverseInv, [Next]_vars
  PROVE  InverseInv' /\ [\A o \in Owners : TakesBack(o)]_vars
<1>i. Inv' /\ Inv
  BY NextKeepsInv DEF InverseInv
<1>n. pushes \in Nat /\ \A o \in Owners : project.stack[o].current \in Nat
  BY <1>i, StackParts DEF Inv, SoundProject
<1>a. AllInvert(project)
  BY DEF InverseInv, AllInvert
<1>1. ASSUME \A o \in Owners : project'.stack[o].current >= project.stack[o].current,
             pushes' = pushes + 1
      PROVE  \A o \in Owners : TakesBack(o)
  <2>1. pushes' # pushes
    BY <1>1, <1>n
  <2>2. \A o \in Owners : project'.stack[o].current \in Nat
    BY <1>i, StackParts DEF Inv, SoundProject
  <2>3. \A o \in Owners : ~(project'.stack[o].current < project.stack[o].current)
    BY <1>1, <1>n, <2>2
  <2> QED BY <2>1, <2>3 DEF TakesBack
<1>2. ASSUME \/ AddKeyframes \/ RemoveKeyframes \/ InsertEmptyTimelineFrame
             \/ RemoveTimelineFrame \/ CorrectAllSelectedBoneKeyframes
      PROVE  AllInvert(project') /\ \A o \in Owners : TakesBack(o)
  <2>1. PICK c : Issued(c, project.motion) /\ PushModel(c)
    BY <1>i, <1>2, PushedIsIssued
  <2> QED BY <2>1, <1>1, PushInverts
<1>3. ASSUME MoveAllSelectedKeyframes
      PROVE  AllInvert(project') /\ \A o \in Owners : TakesBack(o)
  BY <1>1, <1>3, MoveInverts
<1>4. ASSUME NEW o \in Owners, UseDestroyedMotion(o) \/ UNCHANGED vars
      PROVE  AllInvert(project') /\ \A w \in Owners : TakesBack(w)
  <2>1. project' = project
    BY <1>4 DEF UseDestroyedMotion, vars
  <2> QED BY <1>a, <1>n, <2>1 DEF TakesBack
<1>5. AllInvert(project') /\ \A o \in Owners : TakesBack(o)
  <2>1. "model" \in Owners
    BY DEF Owners
  <2> QED BY <1>2, <1>3, <1>4, <2>1, UndoInverts, RedoInverts DEF Next
<1> QED BY <1>i, <1>5 DEF InverseInv, AllInvert

(* Undo takes a command back and redo does it again, whatever the commands, *)
(* their order and the limit of the stacks, as long as the column of frame  *)
(* 0 itself is not removed: the inductive invariant is that every command   *)
(* below the position of its stack is taken back by its undo and every one  *)
(* above it done again by its redo.                                        *)
THEOREM UndoIsAlwaysTheInverse ==
  ASSUME MaxPushes \in Nat, 0 \notin Columns
  PROVE  Spec => UndoIsTheInverse
<1>1. Init => InverseInv
  <2> SUFFICES ASSUME Init PROVE InverseInv
    OBVIOUS
  <2>1. Inv
    <3>1. project \in SoundProject /\ recovered \in SoundProject
      BY NewIsSound DEF Init
    <3>2. 0 \in 0 .. MaxPushes
      OBVIOUS
    <3> QED BY <3>1, <3>2 DEF Init, Inv
  <2>2. \A o \in Owners : Len(project.stack[o].commands) = 0
    BY DEF Init, NewProject, EmptyStack
  <2> QED BY <2>1, <2>2 DEF InverseInv, Inverts
<1>2. InverseInv /\ [Next]_vars => InverseInv'
  BY NextInverts
<1>3. InverseInv /\ [Next]_vars => [\A owner \in Owners : TakesBack(owner)]_vars
  BY NextInverts
<1> QED BY <1>1, <1>2, <1>3, PTL DEF Spec, UndoIsTheInverse

-----------------------------------------------------------------------------
(* The recovery.  Motions agree when they have the same keyframes with the  *)
(* same values; a command replayed on a motion that agrees with the one it  *)
(* was performed on makes motions that agree.                              *)
Agree(m, n) ==
  \A b \in Bones, f \in Frames :
    /\ Found(m, b, f) = Found(n, b, f)
    /\ Found(m, b, f) => m[b][f].value = n[b][f].value

\* What is replayed for a command: its undo, and its redo as a new command.
Mirrors(c, d) ==
  \A y \in SoundMotion : Agree(c.after, y) => \A u \in Undos(d, y) : Agree(c.before, u)
Repeats(c) ==
  \A x \in SoundMotion : Agree(c.before, x) =>
    \A n \in Redos(Read(c, x), x) :
      Agree(c.after, n) /\ Mirrors(c, AfterRedo(Read(c, x), x, n))

LEMMA AgreeAtPoints ==
  ASSUME NEW m, NEW n,
         \A b \in Bones, f \in Frames :
           \/ m[b][f] = n[b][f]
           \/ m[b][f] # NULL /\ n[b][f] # NULL /\ m[b][f].value = n[b][f].value
  PROVE  Agree(m, n)
BY DEF Agree, Found

LEMMA PointsOfAgree ==
  ASSUME NEW m, NEW n, Agree(m, n), NEW b \in Bones, NEW f \in Frames
  PROVE  \/ m[b][f] = NULL /\ n[b][f] = NULL
         \/ m[b][f] # NULL /\ n[b][f] # NULL /\ m[b][f].value = n[b][f].value
BY DEF Agree, Found

(* What is read of the keyframes of a command: all but the keyframe before, *)
(* and whether it is there already anew.                                   *)
Reads(q, k) ==
  /\ q.bone = k.bone /\ q.frame = k.frame /\ q.target = NULL
  /\ q.first = k.first /\ q.second = k.second

LEMMA ReadPoints ==
  ASSUME NEW keys, Apart(keys), NEW r,
         \A k \in keys : \E q \in r : Reads(q, k),
         \A q \in r : \E k \in keys : Reads(q, k),
         NEW b \in Bones, NEW f \in Frames
  PROVE  /\ (Has(r, b, f) <=> Has(keys, b, f)) /\ Targets(r, b, f) = {}
         /\ Has(keys, b, f) => Of(r, b, f) \in r /\ Reads(Of(r, b, f), Of(keys, b, f))
<1>1. Has(r, b, f) <=> Has(keys, b, f)
  BY DEF Has, Reads
<1>2. Targets(r, b, f) = {}
  BY NullAssumption DEF Targets, Reads
<1>3. ASSUME Has(keys, b, f)
      PROVE  Of(r, b, f) \in r /\ Reads(Of(r, b, f), Of(keys, b, f))
  <2>1. Of(r, b, f) \in r /\ Of(r, b, f).bone = b /\ Of(r, b, f).frame = f
    BY <1>1, <1>3 DEF Has, Of
  <2>2. PICK k \in keys : Reads(Of(r, b, f), k)
    BY <2>1
  <2>3. k.bone = b /\ k.frame = f
    BY <2>1, <2>2 DEF Reads
  <2>4. Of(keys, b, f) = k
    BY <2>3, OfIsTheKey
  <2> QED BY <2>1, <2>2, <2>4
<1> QED BY <1>1, <1>2, <1>3

ReadAdded(x, keys) == {readKeyframe(x, k, FALSE) : k \in keys}
ReadRemoved(x, keys) == {readKeyframe(x, k, TRUE) : k \in keys}

LEMMA ReadAddedPoints ==
  ASSUME NEW x \in SoundMotion, NEW keys \in SUBSET SoundKey, Apart(keys),
         NEW b \in Bones, NEW f \in Frames
  PROVE  LET r == ReadAdded(x, keys)
         IN /\ (Has(r, b, f) <=> Has(keys, b, f)) /\ Targets(r, b, f) = {}
            /\ Has(keys, b, f) =>
                 /\ Of(r, b, f) \in r /\ Reads(Of(r, b, f), Of(keys, b, f))
                 /\ Of(r, b, f).updated \in BOOLEAN
                 /\ Of(r, b, f).updated <=> Found(x, b, f)
<1> DEFINE r == ReadAdded(x, keys)
           sight(q, k) == Reads(q, k) /\ q.updated \in BOOLEAN
                            /\ (q.updated <=> Found(x, k.bone, k.frame))
           read(k) == [k EXCEPT !.updated = ~(FALSE /\ k.frame > 0) /\ Found(x, k.bone, k.frame),
                             !.target = NULL]
<1>1. r = {read(k) : k \in keys}
  BY DEF ReadAdded, readKeyframe
<1>2. ASSUME NEW k \in keys PROVE sight(read(k), k)
  <2> DEFINE u == ~(FALSE /\ k.frame > 0) /\ Found(x, k.bone, k.frame)
  <2>1. k \in CommandKey /\ u \in BOOLEAN
    BY DEF SoundKey, Found
  <2> HIDE DEF u
  <2>2. LET q == [k EXCEPT !.updated = u, !.target = NULL]
        IN Reads(q, k) /\ q.updated = u
    BY <2>1 DEF CommandKey, Reads
  <2> QED BY <2>1, <2>2 DEF u
<1> HIDE DEF read, r
<1>3. (\A k \in keys : \E q \in r : sight(q, k)) /\ (\A q \in r : \E k \in keys : sight(q, k))
  BY <1>1, <1>2
<1>4. /\ (Has(r, b, f) <=> Has(keys, b, f)) /\ Targets(r, b, f) = {}
      /\ Has(keys, b, f) => Of(r, b, f) \in r /\ Reads(Of(r, b, f), Of(keys, b, f))
  <2>1. (\A k \in keys : \E q \in r : Reads(q, k)) /\ (\A q \in r : \E k \in keys : Reads(q, k))
    BY <1>3
  <2> HIDE DEF sight
  <2> QED BY <2>1, ReadPoints
<1>5. ASSUME Has(keys, b, f)
      PROVE  Of(r, b, f).updated \in BOOLEAN /\ (Of(r, b, f).updated <=> Found(x, b, f))
  <2>1. Of(keys, b, f).bone = b /\ Of(keys, b, f).frame = f
    BY <1>5, KeyOf
  <2>2. PICK k \in keys : sight(Of(r, b, f), k)
    BY <1>3, <1>4, <1>5
  <2>3. k.bone = b /\ k.frame = f
    BY <1>4, <1>5, <2>1, <2>2 DEF Reads
  <2> QED BY <2>2, <2>3, FrameFacts
<1> QED BY <1>4, <1>5 DEF r

LEMMA ReadRemovedPoints ==
  ASSUME NEW x \in SoundMotion, NEW keys \in SUBSET SoundKey, Apart(keys),
         NEW b \in Bones, NEW f \in Frames
  PROVE  LET r == ReadRemoved(x, keys)
         IN /\ (Has(r, b, f) <=> Has(keys, b, f)) /\ Targets(r, b, f) = {}
            /\ Has(keys, b, f) =>
                 /\ Of(r, b, f) \in r /\ Reads(Of(r, b, f), Of(keys, b, f))
                 /\ Of(r, b, f).updated \in BOOLEAN
                 /\ Of(r, b, f).updated <=> f = 0 /\ Found(x, b, f)
<1> DEFINE r == ReadRemoved(x, keys)
           sight(q, k) == Reads(q, k) /\ q.updated \in BOOLEAN
                            /\ (q.updated <=> ~(k.frame > 0) /\ Found(x, k.bone, k.frame))
           read(k) == [k EXCEPT !.updated = ~(k.frame > 0) /\ Found(x, k.bone, k.frame), !.target = NULL]
<1>1. r = {read(k) : k \in keys}
  BY DEF ReadRemoved, readKeyframe
<1>2. ASSUME NEW k \in keys PROVE sight(read(k), k)
  <2> DEFINE u == ~(k.frame > 0) /\ Found(x, k.bone, k.frame)
  <2>1. k \in CommandKey /\ u \in BOOLEAN
    BY DEF SoundKey, Found
  <2> HIDE DEF u
  <2>2. LET q == [k EXCEPT !.updated = u, !.target = NULL]
        IN Reads(q, k) /\ q.updated = u
    BY <2>1 DEF CommandKey, Reads
  <2> QED BY <2>1, <2>2 DEF u
<1> HIDE DEF read, r
<1>3. (\A k \in keys : \E q \in r : sight(q, k)) /\ (\A q \in r : \E k \in keys : sight(q, k))
  BY <1>1, <1>2
<1>4. /\ (Has(r, b, f) <=> Has(keys, b, f)) /\ Targets(r, b, f) = {}
      /\ Has(keys, b, f) => Of(r, b, f) \in r /\ Reads(Of(r, b, f), Of(keys, b, f))
  <2>1. (\A k \in keys : \E q \in r : Reads(q, k)) /\ (\A q \in r : \E k \in keys : Reads(q, k))
    BY <1>3
  <2> HIDE DEF sight
  <2> QED BY <2>1, ReadPoints
<1>5. ASSUME Has(keys, b, f)
      PROVE  Of(r, b, f).updated \in BOOLEAN /\ (Of(r, b, f).updated <=> f = 0 /\ Found(x, b, f))
  <2>1. Of(keys, b, f).bone = b /\ Of(keys, b, f).frame = f
    BY <1>5, KeyOf
  <2>2. PICK k \in keys : sight(Of(r, b, f), k)
    BY <1>3, <1>4, <1>5
  <2>3. k.bone = b /\ k.frame = f
    BY <1>4, <1>5, <2>1, <2>2 DEF Reads
  <2> QED BY <2>2, <2>3, FrameFacts
<1> QED BY <1>4, <1>5 DEF r

(* What is read are keyframes where the command has one.                    *)
LEMMA ReadPlaces ==
  ASSUME NEW x \in SoundMotion, NEW keys \in SUBSET SoundKey, Apart(keys)
  PROVE  /\ ReadAdded(x, keys) \in SUBSET SoundKey /\ ReadRemoved(x, keys) \in SUBSET SoundKey
         /\ \A q \in ReadAdded(x, keys) \cup ReadRemoved(x, keys) :
              q.bone \in Bones /\ q.frame \in Frames /\ Has(keys, q.bone, q.frame)
<1>1. /\ ReadAdded(x, keys) \in SUBSET SoundKey /\ ReadRemoved(x, keys) \in SUBSET SoundKey
  BY ReadIsSound DEF ReadAdded, ReadRemoved
<1>2. ASSUME NEW q \in ReadAdded(x, keys) \cup ReadRemoved(x, keys)
      PROVE  q.bone \in Bones /\ q.frame \in Frames /\ Has(keys, q.bone, q.frame)
  <2>1. q.bone \in Bones /\ q.frame \in Frames
    BY <1>1, <1>2 DEF SoundKey, CommandKey
  <2>2. CASE q \in ReadAdded(x, keys)
    <3>1. Has(ReadAdded(x, keys), q.bone, q.frame)
      BY <2>2 DEF Has
    <3> QED BY <2>1, <3>1, ReadAddedPoints
  <2>3. CASE q \in ReadRemoved(x, keys)
    <3>1. Has(ReadRemoved(x, keys), q.bone, q.frame)
      BY <2>3 DEF Has
    <3> QED BY <2>1, <3>1, ReadRemovedPoints
  <2> QED BY <1>2, <2>1, <2>2, <2>3
<1> QED BY <1>1, <1>2

(* An addition on a motion that agrees, and its undo.                       *)
LEMMA AddReplays ==
  ASSUME NEW m \in SoundMotion, NEW x \in SoundMotion, Agree(m, x),
         NEW keys, AddedTo(keys, m), NEW r, r = ReadAdded(x, keys),
         NEW e, e = Added(m, keys)
  PROVE  /\ Agree(e, Added(x, r))
         /\ \A y \in SoundMotion : Agree(e, y) =>
              \A u \in removeKeyframe(y, r) : Agree(m, Restored(u, r))
<1>k. keys \in SUBSET SoundKey /\ Apart(keys)
  BY DEF AddedTo
\* The keyframes of the command, in the motion and as they are read.
<1>1. ASSUME NEW b \in Bones, NEW f \in Frames
      PROVE  /\ (Has(r, b, f) <=> Has(keys, b, f)) /\ Targets(r, b, f) = {}
             /\ Has(keys, b, f) =>
                  /\ Of(r, b, f) \in r /\ Of(r, b, f).bone = b /\ Of(r, b, f).frame = f
                  /\ Of(r, b, f).first = Of(keys, b, f).first
                  /\ Of(r, b, f).first \in Keyframe
                  /\ Of(r, b, f).updated = Found(x, b, f)
                  /\ Of(r, b, f).updated <=> Found(m, b, f)
                  /\ Found(m, b, f) => Of(r, b, f).second = m[b][f]
  <2>1. /\ (Has(r, b, f) <=> Has(keys, b, f)) /\ Targets(r, b, f) = {}
        /\ Has(keys, b, f) =>
              /\ Of(r, b, f) \in r /\ Reads(Of(r, b, f), Of(keys, b, f))
              /\ Of(r, b, f).updated \in BOOLEAN
              /\ Of(r, b, f).updated <=> Found(x, b, f)
    BY <1>k, ReadAddedPoints
  <2>2. /\ Found(x, b, f) <=> Found(m, b, f)
        /\ Found(x, b, f) \in BOOLEAN
    BY DEF Agree, Found
  <2>3. ASSUME Has(keys, b, f)
        PROVE  /\ Of(keys, b, f).first \in Keyframe
               /\ Of(keys, b, f).bone = b /\ Of(keys, b, f).frame = f
               /\ Found(m, b, f) => Of(keys, b, f).second = m[b][f]
    <3>1. /\ Of(keys, b, f) \in keys /\ Of(keys, b, f).bone = b /\ Of(keys, b, f).frame = f
          /\ Of(keys, b, f).first \in Keyframe
      BY <1>k, <2>3, KeyOf
    <3> QED BY <3>1 DEF AddedTo
  <2> QED BY <2>1, <2>2, <2>3 DEF Reads
<1>2. ASSUME NEW b \in Bones, NEW f \in Frames
      PROVE  \/ Has(keys, b, f) /\ e[b][f] = Of(r, b, f).first
             \/ ~Has(keys, b, f) /\ e[b][f] = m[b][f]
             \/ /\ ~Has(keys, b, f) /\ e[b][f] # NULL /\ m[b][f] # NULL
                /\ e[b][f].value = m[b][f].value
  <2> DEFINE k == Adjuster(keys, b, f)
  <2>1. e[b][f] = IF Has(keys, b, f) THEN Of(keys, b, f).first
                  ELSE IF Targets(keys, b, f) # {} THEN [m[b][f] EXCEPT !.curve = k.current]
                  ELSE m[b][f]
    BY DonePoints
  <2>2. Targets(keys, b, f) # {} => ~Has(keys, b, f) /\ Found(m, b, f) /\ k.current \in Curves
    BY TargetParts
  <2> HIDE DEF k
  <2>3. CASE Targets(keys, b, f) # {}
    <3>1. m[b][f] \in Keyframe /\ m[b][f] # NULL
      BY <2>2, <2>3, SlotsOfMotion DEF Found
    <3>2. [m[b][f] EXCEPT !.curve = k.current] \in Keyframe
      BY <2>2, <2>3, <3>1 DEF Keyframe
    <3>3. [m[b][f] EXCEPT !.curve = k.current].value = m[b][f].value
      BY <3>1 DEF Keyframe
    <3> QED BY <2>1, <2>2, <2>3, <3>1, <3>2, <3>3, NullAssumption
  <2>4. CASE Targets(keys, b, f) = {}
    BY <1>1, <2>1, <2>4
  <2> QED BY <2>3, <2>4
<1>3. Agree(e, Added(x, r))
  <2> DEFINE a == addKeyframe(x, r)
             g == Added(x, r)
  <2>1. ASSUME NEW b \in Bones, NEW f \in Frames
        PROVE  g[b][f] = IF Has(keys, b, f) THEN Of(r, b, f).first ELSE x[b][f]
    <3>1. a[b][f] = IF Has(r, b, f) /\ Of(r, b, f).updated = Found(x, b, f)
                    THEN Of(r, b, f).first ELSE x[b][f]
      BY DEF addKeyframe
    <3>2. g[b][f] = a[b][f]
      <4>1. Targets(r, b, f) = {}
        BY <1>1
      <4> QED BY <4>1 DEF Added, Overridden
    <3> HIDE DEF g, a
    <3> QED BY <1>1, <3>1, <3>2
  <2> HIDE DEF g
  <2>2. ASSUME NEW b \in Bones, NEW f \in Frames
        PROVE  \/ e[b][f] = g[b][f]
               \/ e[b][f] # NULL /\ g[b][f] # NULL /\ e[b][f].value = g[b][f].value
    BY <1>2, <2>1, PointsOfAgree
  <2>3. Agree(e, g)
    BY <2>2, AgreeAtPoints
  <2> QED BY <2>3 DEF g
<1>4. ASSUME NEW y \in SoundMotion, Agree(e, y), NEW u \in removeKeyframe(y, r)
      PROVE  Agree(m, Restored(u, r))
  <2>1. ASSUME NEW b \in Bones, NEW f \in Frames, Has(keys, b, f) PROVE Found(y, b, f)
    <3>1. e[b][f] # NULL
      BY <1>1, <1>2, <2>1, NullAssumption
    <3> QED BY <1>4, <3>1, PointsOfAgree DEF Found
  <2>2. ASSUME NEW q \in r PROVE Found(y, q.bone, q.frame)
    BY <1>k, <2>1, <2>2, ReadPlaces
  <2>3. u = [b \in Bones |-> [f \in Frames |->
               IF Has(r, b, f) /\ Found(y, b, f)
               THEN IF Of(r, b, f).updated THEN Of(r, b, f).second ELSE NULL
               ELSE y[b][f]]]
    BY <1>4, <2>2, RemoveAll
  <2> DEFINE o == Restored(u, r)
  <2>4. ASSUME NEW b \in Bones, NEW f \in Frames
        PROVE  o[b][f] = IF Has(keys, b, f)
                         THEN IF Of(r, b, f).updated THEN Of(r, b, f).second ELSE NULL
                         ELSE y[b][f]
    <3>1. o[b][f] = u[b][f]
      <4>1. Targets(r, b, f) = {}
        BY <1>1
      <4> QED BY <4>1 DEF Restored, Overridden
    <3>2. u[b][f] = IF Has(r, b, f) /\ Found(y, b, f)
                    THEN IF Of(r, b, f).updated THEN Of(r, b, f).second ELSE NULL
                    ELSE y[b][f]
      BY <2>3
    <3> HIDE DEF o
    <3> QED BY <1>1, <2>1, <3>1, <3>2
  <2> HIDE DEF o
  <2>5. ASSUME NEW b \in Bones, NEW f \in Frames
        PROVE  \/ m[b][f] = o[b][f]
               \/ m[b][f] # NULL /\ o[b][f] # NULL /\ m[b][f].value = o[b][f].value
    <3>1. CASE Has(keys, b, f)
      BY <1>1, <2>4, <3>1 DEF Found
    <3>2. CASE ~Has(keys, b, f)
      BY <1>2, <1>4, <2>4, <3>2, PointsOfAgree
    <3> QED BY <3>1, <3>2
  <2>6. Agree(m, o)
    BY <2>5, AgreeAtPoints
  <2> QED BY <2>6 DEF o
<1> QED BY <1>3, <1>4

(* The same for a removal.                                                  *)
LEMMA RemoveReplays ==
  ASSUME NEW m \in SoundMotion, NEW x \in SoundMotion, Agree(m, x),
         NEW keys, RemovedFrom(keys, m), NEW r, r = ReadRemoved(x, keys),
         NEW e \in removeKeyframe(m, keys)
  PROVE  /\ \A n \in removeKeyframe(x, r) : Agree(e, n)
         /\ \A y \in SoundMotion : Agree(e, y) => Agree(m, addKeyframe(y, r))
<1>k. keys \in SUBSET SoundKey /\ Apart(keys)
  BY DEF RemovedFrom
<1>1. ASSUME NEW b \in Bones, NEW f \in Frames
      PROVE  /\ (Has(r, b, f) <=> Has(keys, b, f))
             /\ Has(keys, b, f) =>
                  /\ Of(r, b, f).first = m[b][f] /\ m[b][f] # NULL /\ x[b][f] # NULL
                  /\ Of(r, b, f).second = Of(keys, b, f).second
                  /\ Of(r, b, f).second # NULL
                  /\ Of(r, b, f).updated \in BOOLEAN
                  /\ Of(r, b, f).updated <=> f = 0
                  /\ Of(keys, b, f).updated <=> f = 0
  <2>1. /\ (Has(r, b, f) <=> Has(keys, b, f))
        /\ Has(keys, b, f) =>
              /\ Of(r, b, f) \in r /\ Reads(Of(r, b, f), Of(keys, b, f))
              /\ Of(r, b, f).updated \in BOOLEAN
              /\ Of(r, b, f).updated <=> f = 0 /\ Found(x, b, f)
    BY <1>k, ReadRemovedPoints
  <2>2. ASSUME Has(keys, b, f)
        PROVE  /\ Of(keys, b, f).second # NULL /\ (Of(keys, b, f).updated <=> f = 0)
               /\ Found(m, b, f) /\ Of(keys, b, f).first = m[b][f]
    <3>1. /\ Of(keys, b, f) \in keys /\ Of(keys, b, f).bone = b /\ Of(keys, b, f).frame = f
          /\ Of(keys, b, f).second \in Keyframe
      BY <1>k, <2>2, KeyOf
    <3> QED BY <3>1, NullAssumption DEF RemovedFrom
  <2>3. Found(m, b, f) => Found(x, b, f)
    BY DEF Agree
  <2> QED BY <2>1, <2>2, <2>3 DEF Reads, Found
<1>2. ASSUME NEW b \in Bones, NEW f \in Frames
      PROVE  e[b][f] = IF Has(keys, b, f)
                       THEN IF f = 0 THEN Of(keys, b, f).second ELSE NULL
                       ELSE m[b][f]
  <2>1. \A k \in keys : k.updated \/ Found(m, k.bone, k.frame)
    BY DEF RemovedFrom
  <2>2. e = [b1 \in Bones |-> [f1 \in Frames |->
               IF Has(keys, b1, f1) /\ Found(m, b1, f1)
               THEN IF Of(keys, b1, f1).updated THEN Of(keys, b1, f1).second ELSE NULL
               ELSE m[b1][f1]]]
    BY <2>1, RemoveAll
  <2>3. e[b][f] = IF Has(keys, b, f) /\ Found(m, b, f)
                  THEN IF Of(keys, b, f).updated THEN Of(keys, b, f).second ELSE NULL
                  ELSE m[b][f]
    BY <2>2
  <2> QED BY <1>1, <2>3 DEF Found
<1>3. ASSUME NEW n \in removeKeyframe(x, r) PROVE Agree(e, n)
  <2>1. ASSUME NEW q \in r PROVE Found(x, q.bone, q.frame)
    <3>1. q.bone \in Bones /\ q.frame \in Frames /\ Has(keys, q.bone, q.frame)
      BY <1>k, <2>1, ReadPlaces
    <3> QED BY <1>1, <3>1 DEF Found
  <2>2. n = [b \in Bones |-> [f \in Frames |->
               IF Has(r, b, f) /\ Found(x, b, f)
               THEN IF Of(r, b, f).updated THEN Of(r, b, f).second ELSE NULL
               ELSE x[b][f]]]
    BY <1>3, <2>1, RemoveAll
  <2>3. ASSUME NEW b \in Bones, NEW f \in Frames
        PROVE  n[b][f] = IF Has(keys, b, f)
                         THEN IF f = 0 THEN Of(keys, b, f).second ELSE NULL
                         ELSE x[b][f]
    <3>1. n[b][f] = IF Has(r, b, f) /\ Found(x, b, f)
                    THEN IF Of(r, b, f).updated THEN Of(r, b, f).second ELSE NULL
                    ELSE x[b][f]
      BY <2>2
    <3> QED BY <1>1, <3>1 DEF Found
  <2>4. ASSUME NEW b \in Bones, NEW f \in Frames
        PROVE  \/ e[b][f] = n[b][f]
               \/ e[b][f] # NULL /\ n[b][f] # NULL /\ e[b][f].value = n[b][f].value
    BY <1>2, <2>3, PointsOfAgree
  <2> QED BY <2>4, AgreeAtPoints
<1>4. ASSUME NEW y \in SoundMotion, Agree(e, y) PROVE Agree(m, addKeyframe(y, r))
  <2> DEFINE o == addKeyframe(y, r)
  <2>1. ASSUME NEW b \in Bones, NEW f \in Frames
        PROVE  o[b][f] = IF Has(r, b, f) /\ Of(r, b, f).updated = Found(y, b, f)
                         THEN Of(r, b, f).first ELSE y[b][f]
    BY DEF addKeyframe
  <2> HIDE DEF o
  <2>2. ASSUME NEW b \in Bones, NEW f \in Frames, Has(keys, b, f)
        PROVE  o[b][f] = m[b][f]
    <3>1. Found(y, b, f) <=> e[b][f] # NULL
      BY <1>4 DEF Agree, Found
    <3>2. e[b][f] # NULL <=> f = 0
      BY <1>1, <1>2, <2>2
    <3>3. Found(y, b, f) \in BOOLEAN
      BY DEF Found
    <3>4. Of(r, b, f).updated = Found(y, b, f)
      BY <1>1, <2>2, <3>1, <3>2, <3>3
    <3> QED BY <1>1, <2>1, <2>2, <3>4
  <2>3. ASSUME NEW b \in Bones, NEW f \in Frames
        PROVE  \/ m[b][f] = o[b][f]
               \/ m[b][f] # NULL /\ o[b][f] # NULL /\ m[b][f].value = o[b][f].value
    <3>1. CASE ~Has(keys, b, f)
      <4>1. o[b][f] = y[b][f] /\ e[b][f] = m[b][f]
        BY <1>1, <1>2, <2>1, <3>1
      <4> QED BY <1>4, <4>1, PointsOfAgree
    <3> QED BY <2>2, <3>1
  <2>4. Agree(m, o)
    BY <2>3, AgreeAtPoints
  <2> QED BY <2>4 DEF o
<1> QED BY <1>3, <1>4

(* Shifts of motions that agree agree, with columns that do.                *)
Same(v, w) == \/ v = w
              \/ v # NULL /\ w # NULL /\ v.value = w.value

LEMMA AgreeIsSame ==
  ASSUME NEW m, NEW n
  PROVE  Agree(m, n) <=> \A b \in Bones, f \in Frames : Same(m[b][f], n[b][f])
<1>1. ASSUME \A b \in Bones, f \in Frames : Same(m[b][f], n[b][f]) PROVE Agree(m, n)
  BY <1>1, AgreeAtPoints DEF Same
<1>2. ASSUME Agree(m, n), NEW b \in Bones, NEW f \in Frames PROVE Same(m[b][f], n[b][f])
  BY <1>2, PointsOfAgree DEF Same
<1> QED BY <1>1, <1>2

LEMMA ForwardAgrees ==
  ASSUME NEW m, NEW n, Agree(m, n), NEW at \in Frames
  PROVE  Agree(Forward(m, at), Forward(n, at))
<1>1. ASSUME NEW b \in Bones, NEW f \in Frames
      PROVE  Same(Forward(m, at)[b][f], Forward(n, at)[b][f])
  <2>1. f \in Nat /\ at \in Nat /\ LastFrame \in Nat /\ f <= LastFrame
    BY FrameFacts
  <2>2. CASE f < at
    BY <2>2, ForwardPoints, AgreeIsSame
  <2>3. CASE f >= at /\ f < LastFrame
    <3>1. f + 1 \in Frames
      BY <2>1, <2>3, FrameFacts
    <3>2. Same(m[b][f + 1], n[b][f + 1])
      BY <3>1, AgreeIsSame
    <3> QED BY <2>3, <3>2, ForwardPoints
  <2>4. CASE f >= at /\ f = LastFrame
    BY <2>4, ForwardPoints DEF Same
  <2> QED BY <2>1, <2>2, <2>3, <2>4
<1> QED BY <1>1, AgreeIsSame

LEMMA BackwardAtPlace ==
  ASSUME NEW m, NEW at \in Frames \ {0}, NEW kept, NEW b \in Bones
  PROVE  Backward(m, at, kept)[b][at] = kept[b]
<1>1. at \in Frames
  OBVIOUS
<1> QED BY <1>1, BackwardPoints

LEMMA BackwardAgrees ==
  ASSUME NEW m, NEW n, Agree(m, n), NEW at \in Frames \ {0}, NEW old, NEW new,
         \A b \in Bones : Same(old[b], new[b])
  PROVE  Agree(Backward(m, at, old), Backward(n, at, new))
<1>1. ASSUME NEW b \in Bones, NEW f \in Frames
      PROVE  Same(Backward(m, at, old)[b][f], Backward(n, at, new)[b][f])
  <2>1. f \in Nat /\ at \in Nat
    BY FrameFacts
  <2>2. CASE f < at
    BY <2>2, BackwardPoints, AgreeIsSame
  <2>3. CASE f = at
    <3>1. Backward(m, at, old)[b][at] = old[b] /\ Backward(n, at, new)[b][at] = new[b]
      BY BackwardAtPlace
    <3> QED BY <2>3, <3>1
  <2>4. CASE f > at
    <3>1. f - 1 \in Frames
      BY <2>1, <2>4, FrameFacts
    <3>2. Same(m[b][f - 1], n[b][f - 1])
      BY <3>1, AgreeIsSame
    <3> QED BY <2>4, <3>2, BackwardPoints
  <2> QED BY <2>1, <2>2, <2>3, <2>4
<1> QED BY <1>1, AgreeIsSame

-----------------------------------------------------------------------------
(* Every command that is issued is repeated by its record, and taken back   *)
(* by the undo of what its record made.                                     *)
LEMMA Replays ==
  ASSUME 0 \notin Columns, NEW m \in SoundMotion, NEW c, Issued(c, m), NEW e \in Redos(c, m),
         NEW d \in SoundCommand, d.kind = c.kind, d.keys = c.keys, d.frame = c.frame,
         d.before = m, c.kind = "snapshot" => d.after = e,
         NEW x \in SoundMotion, Agree(m, x), NEW n \in Redos(Read(d, x), x)
  PROVE  /\ Agree(e, n)
         /\ \A y \in SoundMotion : Agree(e, y) =>
              \A u \in Undos(AfterRedo(Read(d, x), x, n), y) : Agree(m, u)
<1>t. /\ c \in SoundCommand /\ c.before = m /\ c.kept = Nothing
      /\ c.kind \in {"add", "remove", "insertFrame", "removeFrame", "snapshot"}
      /\ c.keys \in SUBSET SoundKey /\ c.frame \in Frames /\ c \in Commands /\ d \in Commands
      /\ c.kind = "insertFrame" => c.frame # 0
      /\ c.kind = "removeFrame" => c.frame # 0
  BY CommandParts DEF Issued
<1> DEFINE q == Read(d, x)
           a == AfterRedo(q, x, n)
<1>q. /\ q \in Commands /\ q.kind = c.kind /\ q.frame = c.frame /\ q.kept = Nothing
      /\ q.before = m /\ (c.kind = "snapshot" => q.after = e)
      /\ c.kind = "add" => q.keys = ReadAdded(x, c.keys)
      /\ c.kind = "remove" => q.keys = ReadRemoved(x, c.keys)
  <2>1. q \in Commands
    BY ReadCommandIsSound DEF SoundCommand
  <2> DEFINE keys == {readKeyframe(x, k, d.kind = "remove") : k \in d.keys}
  <2>2. q = [d EXCEPT !.keys = keys, !.kept = Nothing, !.alive = TRUE]
    BY DEF Read
  <2>3. c.kind = "add" => keys = ReadAdded(x, c.keys)
    BY DEF ReadAdded
  <2>4. c.kind = "remove" => keys = ReadRemoved(x, c.keys)
    BY DEF ReadRemoved
  <2> HIDE DEF keys, q
  <2> QED BY <1>t, <2>1, <2>2, <2>3, <2>4 DEF Commands
<1> HIDE DEF q
<1>a. /\ a.kind = c.kind /\ a.frame = c.frame /\ a.keys = q.keys
      /\ c.kind = "snapshot" => a.before = m
      /\ a.kept = IF c.kind = "removeFrame" THEN Column(x, c.frame) ELSE Nothing
  BY <1>q DEF AfterRedo, Shifts, Commands
<1> HIDE DEF a
<1>n. n \in Redos(q, x)
  BY DEF q
<1>1. CASE c.kind = "add"
  <2>1. AddedTo(c.keys, m) /\ e = Added(m, c.keys)
    BY <1>1 DEF Issued, Redos, Added
  <2>2. n = Added(x, q.keys)
    BY <1>1, <1>q, <1>n DEF Redos, Added
  <2>3. /\ Agree(e, Added(x, q.keys))
        /\ \A y \in SoundMotion : Agree(e, y) =>
             \A u \in removeKeyframe(y, q.keys) : Agree(m, Restored(u, q.keys))
    BY <1>1, <1>q, <2>1, AddReplays
  <2>4. \A y : Undos(a, y) = {Restored(u, q.keys) : u \in removeKeyframe(y, q.keys)}
    BY <1>1, <1>a DEF Undos, Restored
  <2> QED BY <2>2, <2>3, <2>4 DEF a, q
<1>2. CASE c.kind = "remove"
  <2>1. RemovedFrom(c.keys, m) /\ e \in removeKeyframe(m, c.keys)
    BY <1>2 DEF Issued, Redos
  <2>2. n \in removeKeyframe(x, q.keys)
    BY <1>2, <1>q, <1>n DEF Redos
  <2>3. /\ Agree(e, n)
        /\ \A y \in SoundMotion : Agree(e, y) => Agree(m, addKeyframe(y, q.keys))
    BY <1>2, <1>q, <2>1, <2>2, RemoveReplays
  <2>4. \A y : Undos(a, y) = {addKeyframe(y, q.keys)}
    BY <1>2, <1>a DEF Undos
  <2> QED BY <2>3, <2>4 DEF a, q
<1>3. CASE c.kind = "insertFrame"
  <2>1. e = Backward(m, c.frame, Nothing) /\ HasRoom(m)
    BY <1>3, <1>t DEF Issued, Redos
  <2>2. n = Backward(x, c.frame, Nothing)
    BY <1>3, <1>q, <1>n DEF Redos
  <2>3. Agree(e, n)
    BY <1>3, <1>t, <2>1, <2>2, BackwardAgrees DEF Same
  <2>4. \A y : Undos(a, y) = {Forward(y, c.frame)}
    BY <1>3, <1>a DEF Undos
  <2>5. Forward(e, c.frame) = m
    BY <1>t, <1>3, <2>1, ColumnIsKept, ForwardTakesBack
  <2>6. ASSUME NEW y \in SoundMotion, Agree(e, y) PROVE Agree(m, Forward(y, c.frame))
    BY <1>t, <2>5, <2>6, ForwardAgrees
  <2> QED BY <2>3, <2>4, <2>6 DEF a, q
<1>4. CASE c.kind = "removeFrame"
  <2>1. e = Forward(m, c.frame)
    BY <1>4 DEF Redos
  <2>2. n = Forward(x, c.frame)
    BY <1>4, <1>q, <1>n DEF Redos
  <2>3. Agree(e, n)
    BY <1>t, <2>1, <2>2, ForwardAgrees
  <2>4. \A y : Undos(a, y) = {Backward(y, c.frame, Column(x, c.frame))}
    BY <1>4, <1>a DEF Undos
  <2>5. Backward(e, c.frame, Column(m, c.frame)) = m
    BY <1>t, <1>4, <2>1, BackwardTakesBack
  <2>6. \A b \in Bones : Same(Column(m, c.frame)[b], Column(x, c.frame)[b])
    BY <1>t, AgreeIsSame DEF Column
  <2>7. ASSUME NEW y \in SoundMotion, Agree(e, y)
        PROVE  Agree(m, Backward(y, c.frame, Column(x, c.frame)))
    BY <1>t, <1>4, <2>5, <2>6, <2>7, BackwardAgrees
  <2> QED BY <2>3, <2>4, <2>7 DEF a, q
<1>5. CASE c.kind = "snapshot"
  <2>1. n = e
    BY <1>5, <1>q, <1>n DEF Redos
  <2>2. \A y : Undos(a, y) = {m}
    BY <1>5, <1>a DEF Undos
  <2>3. Agree(e, e) /\ Agree(m, m)
    BY DEF Agree
  <2> QED BY <2>1, <2>2, <2>3 DEF a, q
<1> QED BY <1>t, <1>1, <1>2, <1>3, <1>4, <1>5

LEMMA IssuedRepeats ==
  ASSUME 0 \notin Columns, NEW m \in SoundMotion, NEW c, Issued(c, m), NEW e \in Redos(c, m)
  PROVE  LET d == AfterRedo([c EXCEPT !.after = e], m, e)
         IN /\ Repeats(d) /\ d.before = m /\ d.after = e
            /\ \A x \in SoundMotion : Agree(m, x) =>
                 \A n \in Redos(Read(c, x), x) :
                   Agree(e, n) /\ Mirrors(d, AfterRedo(Read(c, x), x, n))
<1>t. /\ c \in SoundCommand /\ c \in Commands /\ c.before = m /\ e \in SoundMotion
  BY RedosAreSound, CommandParts DEF Issued
<1> DEFINE b == [c EXCEPT !.after = e]
           d == AfterRedo(b, m, e)
<1>1. b \in SoundCommand
  <2>1. e \in Motion
    BY <1>t DEF SoundMotion
  <2> QED BY <1>t, <2>1 DEF SoundCommand, Commands
<1>2. d \in SoundCommand
  <2> HIDE DEF b
  <2> QED BY <1>t, <1>1, AfterIsSound
<1>3. d.kind = c.kind /\ d.keys = c.keys /\ d.frame = c.frame /\ d.before = m /\ d.after = e
  BY <1>t DEF AfterRedo, Shifts, Commands
<1> HIDE DEF d, b
<1>4. c.kind = "snapshot" => c.after = e
  BY DEF Redos
<1>5. ASSUME NEW x \in SoundMotion, Agree(m, x), NEW n \in Redos(Read(c, x), x)
      PROVE  Agree(e, n) /\ Mirrors(d, AfterRedo(Read(c, x), x, n))
  <2>1. /\ Agree(e, n)
        /\ \A y \in SoundMotion : Agree(e, y) =>
             \A u \in Undos(AfterRedo(Read(c, x), x, n), y) : Agree(m, u)
    BY <1>t, <1>4, <1>5, Replays
  <2> QED BY <1>3, <2>1 DEF Mirrors
<1>6. ASSUME NEW x \in SoundMotion, Agree(m, x), NEW n \in Redos(Read(d, x), x)
      PROVE  Agree(e, n) /\ Mirrors(d, AfterRedo(Read(d, x), x, n))
  <2>1. /\ Agree(e, n)
        /\ \A y \in SoundMotion : Agree(e, y) =>
             \A u \in Undos(AfterRedo(Read(d, x), x, n), y) : Agree(m, u)
    BY <1>2, <1>3, <1>6, Replays
  <2> QED BY <1>3, <2>1 DEF Mirrors
<1>7. Repeats(d)
  BY <1>3, <1>6 DEF Repeats
<1> QED BY <1>3, <1>5, <1>7 DEF d, b

-----------------------------------------------------------------------------
(* Until the user moves keyframes the project is edited on the stack of the *)
(* model alone, so that its commands follow one another.  The recovered     *)
(* stack has as many commands done, each undoing what the one in use does.  *)
Chained(s, m) ==
  /\ s.current > 0 => s.commands[s.current].after = m
  /\ s.current < Len(s.commands) => s.commands[s.current + 1].before = m
  /\ \A i \in 1 .. (Len(s.commands) - 1) : s.commands[i].after = s.commands[i + 1].before

Followed(s, m, t) ==
  /\ t.current = s.current /\ Chained(s, m)
  /\ \A i \in 1 .. s.current : Mirrors(s.commands[i], t.commands[i])
  /\ \A i \in 1 .. Len(s.commands) : Repeats(s.commands[i])

FollowedInv ==
  /\ InverseInv
  /\ ~moved =>
       /\ Len(project.stack["project"].commands) = 0
       /\ Agree(project.motion, recovered.motion)
       /\ Followed(project.stack["model"], project.motion, recovered.stack["model"])

\* What a command edits: what a redo or undo of a shift leaves as it is where
\* the motion is the one the command was performed on.
SameEdit(c, d) ==
  /\ c.kind = d.kind /\ c.keys = d.keys /\ c.frame = d.frame
  /\ c.before = d.before /\ c.after = d.after

LEMMA SameEditRepeats ==
  ASSUME NEW c \in SoundCommand, NEW d \in SoundCommand, SameEdit(c, d)
  PROVE  /\ Repeats(c) => Repeats(d)
         /\ \A a : Mirrors(c, a) => Mirrors(d, a)
<1>1. \A a : Mirrors(c, a) => Mirrors(d, a)
  BY DEF Mirrors, SameEdit
<1>2. \A x : Read(c, x) = Read(d, x)
  <2> SUFFICES ASSUME NEW x PROVE Read(c, x) = Read(d, x)
    OBVIOUS
  <2> DEFINE keys == {readKeyframe(x, k, c.kind = "remove") : k \in c.keys}
  <2>1. Read(c, x) = [c EXCEPT !.keys = keys, !.kept = Nothing, !.alive = TRUE]
    BY DEF Read
  <2>2. Read(d, x) = [d EXCEPT !.keys = keys, !.kept = Nothing, !.alive = TRUE]
    BY DEF Read, SameEdit
  <2>3. c \in Commands /\ d \in Commands
    BY CommandParts
  <2> HIDE DEF keys
  <2>4. Read(c, x) = [kind |-> c.kind, keys |-> keys, frame |-> c.frame, kept |-> Nothing,
                      alive |-> TRUE, before |-> c.before, after |-> c.after]
    BY <2>1, <2>3 DEF Commands
  <2>5. Read(d, x) = [kind |-> d.kind, keys |-> keys, frame |-> d.frame, kept |-> Nothing,
                      alive |-> TRUE, before |-> d.before, after |-> d.after]
    BY <2>2, <2>3 DEF Commands
  <2> QED BY <2>4, <2>5 DEF SameEdit
<1>3. ASSUME Repeats(c) PROVE Repeats(d)
  <2> SUFFICES ASSUME NEW x \in SoundMotion, Agree(d.before, x), NEW n \in Redos(Read(d, x), x)
               PROVE  Agree(d.after, n) /\ Mirrors(d, AfterRedo(Read(d, x), x, n))
    BY DEF Repeats
  <2>1. Agree(c.after, n) /\ Mirrors(c, AfterRedo(Read(c, x), x, n))
    BY <1>2, <1>3 DEF Repeats, SameEdit
  <2> QED BY <1>1, <1>2, <2>1 DEF SameEdit
<1> QED BY <1>1, <1>3

LEMMA AlikeMirrors ==
  ASSUME NEW c, NEW a, NEW b, Alike(a, b), Mirrors(c, a)
  PROVE  Mirrors(c, b)
<1>1. \A y : Undos(a, y) = Undos(b, y)
  BY DEF Alike, Undos
<1> QED BY <1>1 DEF Mirrors

LEMMA SettledFollowed ==
  ASSUME NEW s \in SoundStack, NEW s2 \in SoundStack, NEW t \in SoundStack, NEW t2 \in SoundStack,
         s2.current = s.current, Len(s2.commands) = Len(s.commands),
         \A i \in 1 .. Len(s.commands) : Alike(s.commands[i], s2.commands[i]),
         t2.current = t.current,
         \A i \in 1 .. Len(t.commands) : Alike(t.commands[i], t2.commands[i]),
         NEW m, Followed(s, m, t)
  PROVE  Followed(s2, m, t2)
<1>1. /\ s.current \in Nat /\ Len(s.commands) \in Nat /\ s.current <= Len(s.commands)
      /\ t.current \in Nat /\ Len(t.commands) \in Nat /\ t.current <= Len(t.commands)
  BY StackParts
<1>2. t2.current = s2.current
  BY DEF Followed
<1>3. \A i \in 1 .. Len(s.commands) : /\ s.commands[i].before = s2.commands[i].before
                                      /\ s.commands[i].after = s2.commands[i].after
  BY DEF Alike
<1>4. Chained(s2, m)
  <2>1. Chained(s, m)
    BY DEF Followed
  <2>2. s2.current > 0 => s2.commands[s2.current].after = m
    BY <1>1, <1>3, <2>1 DEF Chained
  <2>3. s2.current < Len(s2.commands) => s2.commands[s2.current + 1].before = m
    BY <1>1, <1>3, <2>1 DEF Chained
  <2>4. ASSUME NEW i \in 1 .. (Len(s.commands) - 1)
        PROVE  s2.commands[i].after = s2.commands[i + 1].before
    <3>1. i \in 1 .. Len(s.commands) /\ i + 1 \in 1 .. Len(s.commands)
      BY <1>1
    <3> QED BY <1>3, <2>1, <3>1 DEF Chained
  <2> QED BY <2>2, <2>3, <2>4 DEF Chained
<1>5. ASSUME NEW i \in 1 .. Len(s.commands)
      PROVE  /\ SameEdit(s.commands[i], s2.commands[i])
             /\ s.commands[i] \in SoundCommand /\ s2.commands[i] \in SoundCommand
  BY StackParts DEF Alike, SameEdit
<1>6. ASSUME NEW i \in 1 .. s2.current PROVE Mirrors(s2.commands[i], t2.commands[i])
  <2>1. i \in 1 .. Len(s.commands) /\ i \in 1 .. Len(t.commands) /\ i \in 1 .. s.current
    BY <1>1, <1>2
  <2>2. Mirrors(s.commands[i], t.commands[i])
    BY <2>1 DEF Followed
  <2>3. Mirrors(s2.commands[i], t.commands[i])
    BY <1>5, <2>1, <2>2, SameEditRepeats
  <2> QED BY <2>1, <2>3, AlikeMirrors
<1>7. ASSUME NEW i \in 1 .. Len(s2.commands) PROVE Repeats(s2.commands[i])
  <2>1. Repeats(s.commands[i])
    BY DEF Followed
  <2> QED BY <1>5, <2>1, SameEditRepeats
<1> QED BY <1>2, <1>4, <1>6, <1>7 DEF Followed

LEMMA PushedFollowed ==
  ASSUME NEW s \in SoundStack, NEW t \in SoundStack, NEW m, Followed(s, m, t),
         NEW c \in SoundCommand, NEW d \in SoundCommand,
         c.before = m, Repeats(c), Mirrors(c, d),
         NEW s2, s2 = Pushed(s, c), NEW t2, t2 = Pushed(t, d)
  PROVE  Followed(s2, c.after, t2)
<1> DEFINE k == IF s.current = Limit THEN 1 ELSE 0
           n == s.current + 1 - k
<1>c. t.current = s.current /\ Chained(s, m)
  BY DEF Followed
<1>n. /\ s.current \in Nat /\ Len(s.commands) \in Nat /\ s.current <= Len(s.commands)
      /\ Limit \in Nat \ {0} /\ k \in {0, 1} /\ (k = 1 => s.current = Limit)
  BY StackParts, LimitAssumption
<1>1. /\ s2.current = Len(s2.commands) /\ s2.current = n /\ s2.commands[n] = c
      /\ \A i \in 1 .. (n - 1) : i + k \in 1 .. s.current /\ s2.commands[i] = s.commands[i + k]
  BY PushedPlaces
<1>2. /\ t2.current = n /\ t2.commands[n] = d
      /\ \A i \in 1 .. (n - 1) : t2.commands[i] = t.commands[i + k]
  BY <1>c, PushedPlaces
<1> HIDE DEF k
<1>3. n \in Nat \ {0}
  BY <1>n
<1>p. \A i \in 1 .. (n - 1) : i + k \in 1 .. s.current /\ i + k \in 1 .. Len(s.commands)
  BY <1>1, <1>n
<1>4. Chained(s2, c.after)
  <2>1. ASSUME NEW i \in 1 .. (n - 1) PROVE s2.commands[i].after = s2.commands[i + 1].before
    <3>1. i + k \in 1 .. s.current /\ s2.commands[i] = s.commands[i + k]
      BY <1>1
    <3>2. CASE i = n - 1
      <4>1. i + 1 = n /\ i + k = s.current /\ s.current > 0
        BY <1>n, <3>1, <3>2
      <4>2. s2.commands[i + 1].before = m
        BY <1>1, <4>1
      <4> QED BY <1>c, <3>1, <4>1, <4>2 DEF Chained
    <3>3. CASE i # n - 1
      <4>1. i + 1 \in 1 .. (n - 1) /\ (i + 1) + k = (i + k) + 1
        BY <1>n, <1>3, <3>3
      <4>2. s2.commands[i + 1] = s.commands[(i + k) + 1]
        BY <1>1, <4>1
      <4>3. i + k \in 1 .. (Len(s.commands) - 1)
        BY <1>n, <1>p, <3>1, <4>1
      <4>4. s.commands[i + k].after = s.commands[(i + k) + 1].before
        BY <1>c, <4>3 DEF Chained
      <4> QED BY <3>1, <4>2, <4>4
    <3> QED BY <3>2, <3>3
  <2> HIDE DEF n
  <2>2. s2.commands[s2.current].after = c.after /\ ~(s2.current < Len(s2.commands))
    BY <1>1, <1>3
  <2> QED BY <1>1, <2>1, <2>2 DEF Chained
<1> HIDE DEF n
<1>5. ASSUME NEW i \in 1 .. n PROVE Mirrors(s2.commands[i], t2.commands[i]) /\ Repeats(s2.commands[i])
  <2>1. CASE i = n
    BY <1>1, <1>2, <2>1
  <2>2. CASE i # n
    <3>1. i \in 1 .. (n - 1)
      BY <1>3, <2>2
    <3>2. /\ s2.commands[i] = s.commands[i + k] /\ t2.commands[i] = t.commands[i + k]
          /\ i + k \in 1 .. s.current /\ i + k \in 1 .. Len(s.commands)
      BY <1>1, <1>2, <1>p, <3>1
    <3> QED BY <3>2 DEF Followed
  <2> QED BY <2>1, <2>2
<1> QED BY <1>1, <1>2, <1>4, <1>5 DEF Followed

LEMMA UndoneFollowed ==
  ASSUME NEW s \in SoundStack, NEW t \in SoundStack, NEW m, Followed(s, m, t), CanUndo(s),
         NEW c \in SoundCommand, SameEdit(Below(s), c), NEW d,
         NEW s2, s2 = Undone([s EXCEPT !.commands[s.current] = c]),
         NEW t2, t2 = Undone([t EXCEPT !.commands[t.current] = d])
  PROVE  Followed(s2, c.before, t2)
<1> DEFINE n == s.current
<1>c. t.current = n /\ Chained(s, m)
  BY DEF Followed
<1>n. n \in Nat \ {0} /\ Len(s.commands) \in Nat /\ n <= Len(s.commands)
  BY StackParts DEF CanUndo
<1>1. s2.current = n - 1 /\ Replaced(s2, s, n, c) /\ Below(s) = s.commands[n]
  BY UndonePlaces
<1>2. t2.current = n - 1 /\ Replaced(t2, t, n, d)
  <2>1. CanUndo(t)
    BY <1>c, <1>n DEF CanUndo
  <2>2. t2.current = t.current - 1 /\ Replaced(t2, t, t.current, d)
    BY <2>1, UndonePlaces
  <2> QED BY <1>c, <2>2
<1> HIDE DEF n
<1>3. Len(t.commands) \in Nat /\ n <= Len(t.commands)
  BY <1>c, StackParts
<1>4. /\ Len(s2.commands) = Len(s.commands) /\ s2.commands[n] = c
      /\ \A j \in 1 .. Len(s.commands) : j # n => s2.commands[j] = s.commands[j]
      /\ \A j \in 1 .. Len(t.commands) : j # n => t2.commands[j] = t.commands[j]
  BY <1>1, <1>2 DEF Replaced
<1>5. /\ c.before = s.commands[n].before /\ c.after = s.commands[n].after
      /\ SameEdit(s.commands[n], c) /\ s.commands[n] \in SoundCommand
  BY <1>1, <1>n, StackParts DEF SameEdit
<1>6. \A j \in 1 .. Len(s.commands) : /\ s2.commands[j].before = s.commands[j].before
                                      /\ s2.commands[j].after = s.commands[j].after
  BY <1>4, <1>5
<1>7. Chained(s2, c.before)
  <2>1. \A i \in 1 .. (Len(s.commands) - 1) : s.commands[i].after = s.commands[i + 1].before
    BY <1>c DEF Chained
  <2>2. ASSUME NEW i \in 1 .. (Len(s.commands) - 1)
        PROVE  s2.commands[i].after = s2.commands[i + 1].before
    <3>1. i \in 1 .. Len(s.commands) /\ i + 1 \in 1 .. Len(s.commands)
      BY <1>n
    <3> QED BY <1>6, <2>1, <3>1
  <2>3. ASSUME n - 1 > 0 PROVE s2.commands[n - 1].after = c.before
    <3>1. n - 1 \in 1 .. (Len(s.commands) - 1) /\ n - 1 \in 1 .. Len(s.commands) /\ (n - 1) + 1 = n
      BY <1>n, <2>3
    <3> QED BY <1>5, <1>6, <2>1, <3>1
  <2>4. (n - 1) + 1 = n
    BY <1>n
  <2> QED BY <1>1, <1>4, <2>2, <2>3, <2>4 DEF Chained
<1>8. ASSUME NEW i \in 1 .. (n - 1) PROVE Mirrors(s2.commands[i], t2.commands[i])
  <2>1. i # n /\ i \in 1 .. n /\ i \in 1 .. Len(s.commands) /\ i \in 1 .. Len(t.commands)
    BY <1>n, <1>3
  <2>2. Mirrors(s.commands[i], t.commands[i])
    BY <2>1 DEF Followed, n
  <2> QED BY <1>4, <2>1, <2>2
<1>9. ASSUME NEW i \in 1 .. Len(s.commands) PROVE Repeats(s2.commands[i])
  <2>1. Repeats(s.commands[i])
    BY DEF Followed
  <2>2. CASE i = n
    BY <1>4, <1>5, <2>1, <2>2, SameEditRepeats
  <2>3. CASE i # n
    BY <1>4, <2>1, <2>3
  <2> QED BY <2>2, <2>3
<1> QED BY <1>1, <1>2, <1>4, <1>7, <1>8, <1>9 DEF Followed

LEMMA RedoneFollowed ==
  ASSUME NEW s \in SoundStack, NEW t \in SoundStack, NEW m, Followed(s, m, t), CanRedo(s),
         NEW c \in SoundCommand, SameEdit(Above(s), c),
         NEW d \in SoundCommand, Mirrors(c, d),
         NEW s2, s2 = Redone([s EXCEPT !.commands[s.current + 1] = c]),
         NEW t2, t2 = Pushed(t, d)
  PROVE  Followed(s2, c.after, t2)
<1> DEFINE n == s.current
<1>c. t.current = n /\ Chained(s, m)
  BY DEF Followed
<1>n. n \in Nat /\ Len(s.commands) \in Nat /\ n < Len(s.commands) /\ Len(s.commands) <= Limit
  BY StackParts DEF CanRedo
<1>1. s2.current = n + 1 /\ Replaced(s2, s, n + 1, c) /\ Above(s) = s.commands[n + 1]
  BY RedonePlaces
<1>2. /\ t2.current = n + 1 /\ t2.commands[n + 1] = d
      /\ \A i \in 1 .. n : t2.commands[i] = t.commands[i]
  <2> DEFINE k == IF t.current = Limit THEN 1 ELSE 0
  <2>1. k = 0
    BY <1>c, <1>n, LimitAssumption
  <2>2. /\ t2.current = t.current + 1 - k /\ t2.commands[t2.current] = d
        /\ \A i \in 1 .. (t2.current - 1) : t2.commands[i] = t.commands[i + k]
    BY PushedPlaces
  <2> HIDE DEF k, n
  <2>3. t2.current = n + 1
    BY <1>c, <1>n, <2>1, <2>2
  <2>4. ASSUME NEW i \in 1 .. n PROVE t2.commands[i] = t.commands[i]
    <3>1. i \in 1 .. (t2.current - 1) /\ i + k = i
      BY <1>n, <2>1, <2>3
    <3> QED BY <2>2, <3>1
  <2> QED BY <2>2, <2>3, <2>4
<1> HIDE DEF n
<1>4. /\ Len(s2.commands) = Len(s.commands) /\ s2.commands[n + 1] = c
      /\ \A j \in 1 .. Len(s.commands) : j # n + 1 => s2.commands[j] = s.commands[j]
  BY <1>1 DEF Replaced
<1>5. /\ n + 1 \in 1 .. Len(s.commands)
      /\ c.before = s.commands[n + 1].before /\ c.after = s.commands[n + 1].after
      /\ SameEdit(s.commands[n + 1], c) /\ s.commands[n + 1] \in SoundCommand
  BY <1>1, <1>n, StackParts DEF SameEdit
<1>6. \A j \in 1 .. Len(s.commands) : /\ s2.commands[j].before = s.commands[j].before
                                      /\ s2.commands[j].after = s.commands[j].after
  BY <1>4, <1>5
<1>7. Chained(s2, c.after)
  <2>1. \A i \in 1 .. (Len(s.commands) - 1) : s.commands[i].after = s.commands[i + 1].before
    BY <1>c DEF Chained
  <2>2. ASSUME NEW i \in 1 .. (Len(s.commands) - 1)
        PROVE  s2.commands[i].after = s2.commands[i + 1].before
    <3>1. i \in 1 .. Len(s.commands) /\ i + 1 \in 1 .. Len(s.commands)
      BY <1>n
    <3> QED BY <1>6, <2>1, <3>1
  <2>3. ASSUME n + 1 < Len(s.commands) PROVE s2.commands[(n + 1) + 1].before = c.after
    <3>1. n + 1 \in 1 .. (Len(s.commands) - 1)
      BY <1>n, <2>3
    <3> QED BY <1>4, <2>2, <3>1
  <2>4. s2.commands[n + 1].after = c.after
    BY <1>4
  <2> QED BY <1>1, <1>4, <2>2, <2>3, <2>4 DEF Chained
<1>8. ASSUME NEW i \in 1 .. (n + 1) PROVE Mirrors(s2.commands[i], t2.commands[i])
  <2>1. CASE i = n + 1
    BY <1>2, <1>4, <2>1
  <2>2. CASE i # n + 1
    <3>1. i \in 1 .. n /\ i \in 1 .. Len(s.commands)
      BY <1>n, <2>2
    <3>2. Mirrors(s.commands[i], t.commands[i])
      BY <3>1 DEF Followed, n
    <3> QED BY <1>2, <1>4, <2>2, <3>1, <3>2
  <2> QED BY <2>1, <2>2
<1>9. ASSUME NEW i \in 1 .. Len(s.commands) PROVE Repeats(s2.commands[i])
  <2>1. Repeats(s.commands[i])
    BY DEF Followed
  <2>2. CASE i = n + 1
    BY <1>4, <1>5, <2>1, <2>2, SameEditRepeats
  <2>3. CASE i # n + 1
    BY <1>4, <2>1, <2>3
  <2> QED BY <2>2, <2>3
<1> QED BY <1>1, <1>2, <1>4, <1>7, <1>8, <1>9 DEF Followed

(* The stacks around a command of the model, before keyframes destroyed     *)
(* with their motion are told apart.                                       *)
Shape(q, p, m, s) ==
  \E v \in [Owners -> SoundStack] : \E c :
    /\ q.motion = m /\ q.stack = Settled(v, c)
    /\ v["model"] = s /\ v["project"] = p.stack["project"]

LEMMA ShapeOfStack ==
  ASSUME NEW p \in SoundProject, NEW s \in SoundStack, NEW m, NEW c,
         NEW q, q = [motion |-> m, stack |-> Settled([p.stack EXCEPT !["model"] = s], c)]
  PROVE  Shape(q, p, m, s)
<1> DEFINE v == [p.stack EXCEPT !["model"] = s]
<1>1. p.stack \in [Owners -> SoundStack] /\ "model" \in Owners /\ "project" \in Owners
  BY DEF SoundProject, Owners
<1>2. v \in [Owners -> SoundStack] /\ v["model"] = s /\ v["project"] = p.stack["project"]
  BY <1>1
<1>3. q.motion = m /\ q.stack = Settled(v, c)
  OBVIOUS
<1> HIDE DEF v
<1> QED BY <1>2, <1>3 DEF Shape

LEMMA PerformedShape ==
  ASSUME NEW p \in SoundProject, NEW c \in SoundCommand, NEW m \in SoundMotion
  PROVE  LET d == AfterRedo(c, p.motion, m)
         IN d \in SoundCommand
            /\ Shape(Performed(p, "model", c, m), p, m, Pushed(p.stack["model"], d))
<1> DEFINE d == AfterRedo(c, p.motion, m)
           s == Pushed(p.stack["model"], d)
<1>1. p.motion \in SoundMotion /\ p.stack["model"] \in SoundStack
  BY DEF SoundProject, Owners
<1>2. d \in SoundCommand
  BY <1>1, AfterIsSound
<1> HIDE DEF d
<1>3. s \in SoundStack
  BY <1>1, <1>2, PushedIsSound
<1>4. Performed(p, "model", c, m)
        = [motion |-> m, stack |-> Settled([p.stack EXCEPT !["model"] = s], c)]
  BY DEF Performed, d
<1> HIDE DEF s
<1>5. Shape(Performed(p, "model", c, m), p, m, s)
  BY <1>3, <1>4, ShapeOfStack
<1> QED BY <1>2, <1>5 DEF s, d

LEMMA UndonePerformedShape ==
  ASSUME NEW p \in SoundProject, CanUndo(p.stack["model"]), NEW m \in SoundMotion
  PROVE  LET s == p.stack["model"]
             c == AfterUndo(Below(s), p.motion, m)
         IN c \in SoundCommand
            /\ Shape(UndonePerformed(p, "model", m), p, m,
                     Undone([s EXCEPT !.commands[s.current] = c]))
<1> DEFINE s == p.stack["model"]
           c == AfterUndo(Below(s), p.motion, m)
           u == Undone([s EXCEPT !.commands[s.current] = c])
<1>1. p.motion \in SoundMotion /\ s \in SoundStack /\ "model" \in Owners
  BY DEF SoundProject, Owners
<1>2. c \in SoundCommand
  BY <1>1, UndonePerformedIsSound, AfterIsSound
<1>3. u \in SoundStack
  <2> HIDE DEF c, s
  <2> QED BY <1>1, <1>2, UndoneIsSound DEF s
<1>4. UndonePerformed(p, "model", m)
        = [motion |-> m, stack |-> Settled([p.stack EXCEPT !["model"] = u], c)]
  BY DEF UndonePerformed
<1> HIDE DEF u, c
<1>5. Shape(UndonePerformed(p, "model", m), p, m, u)
  BY <1>3, <1>4, ShapeOfStack
<1> QED BY <1>2, <1>5 DEF u, c

LEMMA RedonePerformedShape ==
  ASSUME NEW p \in SoundProject, CanRedo(p.stack["model"]), NEW m \in SoundMotion
  PROVE  LET s == p.stack["model"]
             c == AfterRedo(Above(s), p.motion, m)
         IN c \in SoundCommand
            /\ Shape(RedonePerformed(p, "model", m), p, m,
                     Redone([s EXCEPT !.commands[s.current + 1] = c]))
<1> DEFINE s == p.stack["model"]
           c == AfterRedo(Above(s), p.motion, m)
           u == Redone([s EXCEPT !.commands[s.current + 1] = c])
<1>1. p.motion \in SoundMotion /\ s \in SoundStack /\ "model" \in Owners
  BY DEF SoundProject, Owners
<1>2. c \in SoundCommand
  BY <1>1, RedonePerformedIsSound, AfterIsSound
<1>3. u \in SoundStack
  <2> HIDE DEF c, s
  <2> QED BY <1>1, <1>2, RedoneIsSound DEF s
<1>4. RedonePerformed(p, "model", m)
        = [motion |-> m, stack |-> Settled([p.stack EXCEPT !["model"] = u], c)]
  BY DEF RedonePerformed
<1> HIDE DEF u, c
<1>5. Shape(RedonePerformed(p, "model", m), p, m, u)
  BY <1>3, <1>4, ShapeOfStack
<1> QED BY <1>2, <1>5 DEF u, c

(* The project in use and the recovered one, before the first move.         *)
Along(p, q) ==
  /\ Len(p.stack["project"].commands) = 0
  /\ Agree(p.motion, q.motion)
  /\ Followed(p.stack["model"], p.motion, q.stack["model"])

LEMMA ShapesAlong ==
  ASSUME NEW p \in SoundProject, NEW q \in SoundProject, Along(p, q),
         NEW m, NEW n, Agree(m, n), NEW s, NEW t, Followed(s, m, t),
         NEW p2, Shape(p2, p, m, s), NEW q2, Shape(q2, q, n, t)
  PROVE  Along(p2, q2)
<1>v. PICK v \in [Owners -> SoundStack] : \E c :
        /\ p2.motion = m /\ p2.stack = Settled(v, c)
        /\ v["model"] = s /\ v["project"] = p.stack["project"]
  BY DEF Shape
<1>1. PICK c :
        /\ p2.motion = m /\ p2.stack = Settled(v, c)
        /\ v["model"] = s /\ v["project"] = p.stack["project"]
  BY <1>v
<1>w. PICK w \in [Owners -> SoundStack] : \E d :
        /\ q2.motion = n /\ q2.stack = Settled(w, d)
        /\ w["model"] = t /\ w["project"] = q.stack["project"]
  BY DEF Shape
<1>2. PICK d :
        /\ q2.motion = n /\ q2.stack = Settled(w, d)
        /\ w["model"] = t /\ w["project"] = q.stack["project"]
  BY <1>w
<1>3. "model" \in Owners /\ "project" \in Owners
  BY DEF Owners
<1>4. Len(p2.stack["project"].commands) = 0
  <2>1. Len(Settled(v, c)["project"].commands) = Len(v["project"].commands)
    BY <1>3, SettledPlaces
  <2> QED BY <1>1, <2>1 DEF Along
<1>5. /\ Settled(v, c)["model"] \in SoundStack /\ v["model"] \in SoundStack
      /\ Settled(w, d)["model"] \in SoundStack /\ w["model"] \in SoundStack
  BY <1>3, SettledIsSound
<1>6. Followed(Settled(v, c)["model"], m, Settled(w, d)["model"])
  <2> DEFINE a == v["model"]
             b == w["model"]
             a2 == Settled(v, c)["model"]
             b2 == Settled(w, d)["model"]
  <2>1. /\ a2.current = a.current /\ Len(a2.commands) = Len(a.commands)
        /\ \A i \in 1 .. Len(a.commands) : Alike(a.commands[i], a2.commands[i])
    BY <1>3, SettledPlaces
  <2>2. /\ b2.current = b.current
        /\ \A i \in 1 .. Len(b.commands) : Alike(b.commands[i], b2.commands[i])
    BY <1>3, SettledPlaces
  <2>3. Followed(a, m, b)
    BY <1>1, <1>2
  <2>4. a \in SoundStack /\ a2 \in SoundStack /\ b \in SoundStack /\ b2 \in SoundStack
    BY <1>5
  <2> HIDE DEF a, b, a2, b2
  <2>5. Followed(a2, m, b2)
    BY <2>1, <2>2, <2>3, <2>4, SettledFollowed
  <2> QED BY <2>5 DEF a2, b2
<1> QED BY <1>1, <1>2, <1>4, <1>6 DEF Along

(* A command the user issues, and its record read and performed.            *)
LEMMA PushIsFollowed ==
  ASSUME 0 \notin Columns, project \in SoundProject, recovered \in SoundProject,
         Along(project, recovered), ~moved,
         NEW c, Issued(c, project.motion), PushModel(c)
  PROVE  Along(project', recovered')
<1> DEFINE m == project.motion
           x == recovered.motion
<1>1. /\ m \in SoundMotion /\ x \in SoundMotion /\ Agree(m, x)
      /\ project.stack["model"] \in SoundStack /\ recovered.stack["model"] \in SoundStack
      /\ Followed(project.stack["model"], m, recovered.stack["model"])
  BY DEF SoundProject, Owners, Along
<1>2. PICK e \in Redos(c, m) :
        project' = Performed(project, "model", [c EXCEPT !.after = e], e)
  BY DEF PushModel
<1>3. PICK n \in Redos(Read(c, x), x) :
        recovered' = Performed(recovered, "model", Read(c, x), n)
  BY DEF PushModel, ReplayedPush
<1> HIDE DEF m, x
<1>4. c \in SoundCommand /\ e \in SoundMotion
  BY <1>1, <1>2, RedosAreSound DEF Issued
<1>5. Read(c, x) \in SoundCommand /\ n \in SoundMotion
  BY <1>1, <1>3, <1>4, ReadCommandIsSound, RedosAreSound
<1> DEFINE b == [c EXCEPT !.after = e]
           d == AfterRedo(b, m, e)
           a == AfterRedo(Read(c, x), x, n)
<1>6. b \in SoundCommand
  <2>1. e \in Motion
    BY <1>4 DEF SoundMotion
  <2> QED BY <1>4, <2>1 DEF SoundCommand, Commands
<1>7. Repeats(d) /\ d.before = m /\ d.after = e /\ Agree(e, n) /\ Mirrors(d, a)
  BY <1>1, <1>2, <1>3, IssuedRepeats DEF m
<1>8. project' = Performed(project, "model", b, e)
  BY <1>2
<1> HIDE DEF b
<1>9. d \in SoundCommand /\ Shape(project', project, e, Pushed(project.stack["model"], d))
  BY <1>4, <1>6, <1>8, PerformedShape DEF m
<1>10. a \in SoundCommand /\ Shape(recovered', recovered, n, Pushed(recovered.stack["model"], a))
  BY <1>3, <1>5, PerformedShape DEF x
<1> HIDE DEF a, d
<1>11. Followed(Pushed(project.stack["model"], d), e, Pushed(recovered.stack["model"], a))
  BY <1>1, <1>7, <1>9, <1>10, PushedFollowed
<1> QED BY <1>7, <1>9, <1>10, <1>11, ShapesAlong

LEMMA UndoIsFollowed ==
  ASSUME 0 \notin Columns, project \in SoundProject, recovered \in SoundProject,
         AllInvert(project), Along(project, recovered), ~moved, Undo("model")
  PROVE  Along(project', recovered')
<1> DEFINE m == project.motion
           x == recovered.motion
           s == project.stack["model"]
           t == recovered.stack["model"]
           c == Below(s)
<1>1. /\ m \in SoundMotion /\ x \in SoundMotion /\ Agree(m, x)
      /\ s \in SoundStack /\ t \in SoundStack /\ Followed(s, m, t) /\ Inverts(s)
      /\ "model" \in Owners
  BY DEF SoundProject, Owners, Along, AllInvert
<1>2. CanUndo(s)
  BY DEF Undo
<1>3. PICK e \in Undos(c, m) : project' = UndonePerformed(project, "model", e)
  BY DEF Undo
<1>4. s.current \in 1 .. Len(s.commands) /\ s.current \in 1 .. s.current
  <2> HIDE DEF s
  <2> QED BY <1>1, <1>2, StackParts DEF CanUndo
<1>5. CanUndo(t) /\ t.current = s.current
  BY <1>1, <1>2 DEF Followed, CanUndo
<1>6. PICK n \in Undos(Below(t), x) : recovered' = UndonePerformed(recovered, "model", n)
  BY <1>5 DEF Undo, ReplayedUndo
<1>7. c \in SoundCommand /\ Below(t) \in SoundCommand
  BY <1>1, <1>2, <1>5, UndonePerformedIsSound
<1>8. c = s.commands[s.current] /\ Below(t) = t.commands[s.current]
  BY <1>5 DEF Below
<1> HIDE DEF s, t, m, x
<1>9. SoundDone(c) /\ c.after = m /\ Mirrors(c, Below(t))
  BY <1>1, <1>4, <1>8 DEF Inverts, Followed, Chained
<1> HIDE DEF c
<1>10. e \in SoundMotion /\ n \in SoundMotion
  BY <1>1, <1>3, <1>6, <1>7, UndosAreSound
<1>11. e = c.before
  BY <1>3, <1>9 DEF SoundDone, TakenBack
<1>12. Agree(e, n)
  BY <1>1, <1>6, <1>9, <1>11 DEF Mirrors
<1> DEFINE d == AfterUndo(c, m, e)
           a == AfterUndo(Below(t), x, n)
<1>13. SameEdit(c, d) /\ d.before = e
  <2>1. c \in Commands
    BY <1>7, CommandParts
  <2> QED BY <1>9, <1>11, <2>1 DEF AfterUndo, SameEdit, Commands
<1>14. d \in SoundCommand /\ Shape(project', project, e, Undone([s EXCEPT !.commands[s.current] = d]))
  BY <1>2, <1>3, <1>10, UndonePerformedShape DEF s, m, c
<1>15. a \in SoundCommand /\ Shape(recovered', recovered, n, Undone([t EXCEPT !.commands[t.current] = a]))
  BY <1>5, <1>6, <1>10, UndonePerformedShape DEF t, x
<1> HIDE DEF d, a
<1>16. Followed(Undone([s EXCEPT !.commands[s.current] = d]), e,
                Undone([t EXCEPT !.commands[t.current] = a]))
  BY <1>1, <1>2, <1>13, <1>14, UndoneFollowed DEF c
<1> QED BY <1>12, <1>14, <1>15, <1>16, ShapesAlong

LEMMA RedoIsFollowed ==
  ASSUME 0 \notin Columns, project \in SoundProject, recovered \in SoundProject,
         AllInvert(project), Along(project, recovered), ~moved, Redo("model")
  PROVE  Along(project', recovered')
<1> DEFINE m == project.motion
           x == recovered.motion
           s == project.stack["model"]
           t == recovered.stack["model"]
           c == Above(s)
<1>1. /\ m \in SoundMotion /\ x \in SoundMotion /\ Agree(m, x)
      /\ s \in SoundStack /\ t \in SoundStack /\ Followed(s, m, t) /\ Inverts(s)
      /\ "model" \in Owners
  BY DEF SoundProject, Owners, Along, AllInvert
<1>2. CanRedo(s)
  BY DEF Redo
<1>3. PICK e \in Redos(c, m) : project' = RedonePerformed(project, "model", e)
  BY DEF Redo
<1>4. PICK n \in Redos(Read(c, x), x) :
        recovered' = Performed(recovered, "model", Read(c, x), n)
  BY DEF Redo, ReplayedPush
<1>5. s.current + 1 \in 1 .. Len(s.commands) /\ ~(s.current + 1 <= s.current)
  <2> HIDE DEF s
  <2> QED BY <1>1, <1>2, StackParts DEF CanRedo
<1>6. c \in SoundCommand /\ c = s.commands[s.current + 1]
  BY <1>1, <1>2, RedonePerformedIsSound DEF Above
<1> HIDE DEF s, t, m, x
<1>7. SoundTaken(c) /\ c.before = m /\ Repeats(c)
  <2>1. c.before = m
    BY <1>1, <1>2, <1>6 DEF Followed, Chained, CanRedo
  <2>2. SoundTaken(c) /\ Repeats(c)
    BY <1>1, <1>5, <1>6 DEF Inverts, Followed
  <2> QED BY <2>1, <2>2
<1> HIDE DEF c
<1>8. e \in SoundMotion /\ Read(c, x) \in SoundCommand /\ n \in SoundMotion
  BY <1>1, <1>3, <1>4, <1>6, RedosAreSound, ReadCommandIsSound
<1>9. e = c.after
  BY <1>3, <1>7 DEF SoundTaken, DoneAgain
<1> DEFINE d == AfterRedo(c, m, e)
           a == AfterRedo(Read(c, x), x, n)
<1>10. Agree(e, n) /\ Mirrors(c, a)
  BY <1>1, <1>4, <1>7, <1>9 DEF Repeats
<1>11. SameEdit(c, d) /\ d.after = e
  <2>1. c \in Commands
    BY <1>6, CommandParts
  <2> QED BY <1>7, <1>9, <2>1 DEF AfterRedo, SameEdit, Commands
<1>12. d \in SoundCommand /\ Shape(project', project, e, Redone([s EXCEPT !.commands[s.current + 1] = d]))
  BY <1>2, <1>3, <1>8, RedonePerformedShape DEF s, m, c
<1>13. a \in SoundCommand /\ Shape(recovered', recovered, n, Pushed(t, a))
  BY <1>4, <1>8, PerformedShape DEF t, x
<1> HIDE DEF d, a
<1>14. Mirrors(d, a)
  BY <1>6, <1>10, <1>11, <1>12, SameEditRepeats
<1>15. Followed(Redone([s EXCEPT !.commands[s.current + 1] = d]), e, Pushed(t, a))
  BY <1>1, <1>2, <1>11, <1>12, <1>13, <1>14, RedoneFollowed DEF c
<1> QED BY <1>10, <1>12, <1>13, <1>15, ShapesAlong

LEMMA NextFollows ==
  ASSUME MaxPushes \in Nat, 0 \notin Columns, FollowedInv, [Next]_vars
  PROVE  FollowedInv'
<1>1. InverseInv' /\ InverseInv
  BY NextInverts DEF FollowedInv
<1>2. /\ Inv /\ AllInvert(project)
      /\ project \in SoundProject /\ recovered \in SoundProject
  BY <1>1 DEF InverseInv, AllInvert, Inv
<1>3. ~moved => Along(project, recovered)
  BY DEF FollowedInv, Along
<1>4. moved' \/ Along(project', recovered')
  <2>1. CASE \/ AddKeyframes \/ RemoveKeyframes \/ InsertEmptyTimelineFrame
             \/ RemoveTimelineFrame \/ CorrectAllSelectedBoneKeyframes
    <3>1. PICK c : Issued(c, project.motion) /\ PushModel(c)
      BY <1>2, <2>1, PushedIsIssued
    <3>2. moved' = moved
      BY <3>1 DEF PushModel
    <3> QED BY <1>2, <1>3, <3>1, <3>2, PushIsFollowed
  <2>2. CASE MoveAllSelectedKeyframes
    BY <2>2 DEF MoveAllSelectedKeyframes
  <2>3. CASE Undo("model")
    <3>1. moved' = moved
      BY <2>3 DEF Undo
    <3> QED BY <1>2, <1>3, <2>3, <3>1, UndoIsFollowed
  <2>4. CASE Redo("model")
    <3>1. moved' = moved
      BY <2>4 DEF Redo
    <3> QED BY <1>2, <1>3, <2>4, <3>1, RedoIsFollowed
  <2>5. CASE Undo("project") \/ Redo("project")
    <3> DEFINE s == project.stack["project"]
    <3>1. s \in SoundStack
      BY <1>2 DEF SoundProject, Owners
    <3>2. moved' = moved /\ (CanUndo(s) \/ CanRedo(s))
      BY <2>5 DEF Undo, Redo
    <3> HIDE DEF s
    <3>3. Len(s.commands) # 0
      BY <3>1, <3>2, StackParts DEF CanUndo, CanRedo
    <3> QED BY <1>3, <3>2, <3>3 DEF Along, s
  <2>6. ASSUME NEW o \in Owners, UseDestroyedMotion(o) \/ UNCHANGED vars
        PROVE  moved' \/ Along(project', recovered')
    <3>1. project' = project /\ recovered' = recovered /\ moved' = moved
      BY <2>6 DEF UseDestroyedMotion, vars
    <3> QED BY <1>3, <3>1
  <2>7. \A o \in Owners : o = "model" \/ o = "project"
    BY DEF Owners
  <2>8. "model" \in Owners
    BY DEF Owners
  <2> QED BY <2>1, <2>2, <2>3, <2>4, <2>5, <2>6, <2>7, <2>8 DEF Next
<1> QED BY <1>1, <1>4 DEF FollowedInv, Along

(* The recovered project has the keyframes of the one in use, with their    *)
(* values, until keyframes are moved: whatever the commands, what is undone *)
(* and redone of them and the limit of the stacks, as long as the column of *)
(* frame 0 is not removed.  The inductive invariant is that the commands on *)
(* the stack of the model follow one another, that what is replayed for     *)
(* each makes and takes back the same keyframes, and that as many are done. *)
THEOREM RecoveryAgrees ==
  ASSUME MaxPushes \in Nat, 0 \notin Columns
  PROVE  Spec => []ReplayAgrees
<1>1. Init => FollowedInv
  <2> SUFFICES ASSUME Init PROVE FollowedInv
    OBVIOUS
  <2> DEFINE s == project.stack["model"]
  <2>1. Inv
    <3>1. project \in SoundProject /\ recovered \in SoundProject
      BY NewIsSound DEF Init
    <3>2. 0 \in 0 .. MaxPushes
      OBVIOUS
    <3> QED BY <3>1, <3>2 DEF Init, Inv
  <2>2. \A o \in Owners : Len(project.stack[o].commands) = 0
    BY DEF Init, NewProject, EmptyStack
  <2>3. InverseInv
    BY <2>1, <2>2 DEF InverseInv, Inverts
  <2>4. recovered = project /\ s.current = 0 /\ Len(s.commands) = 0
        /\ Len(project.stack["project"].commands) = 0
    BY <2>2 DEF Init, NewProject, EmptyStack, Owners
  <2>5. Followed(s, project.motion, recovered.stack["model"])
    <3>1. recovered.stack["model"] = s
      BY <2>4
    <3> HIDE DEF s
    <3> QED BY <2>4, <3>1 DEF Followed, Chained
  <2>6. Agree(project.motion, recovered.motion)
    BY <2>4 DEF Agree
  <2> QED BY <2>3, <2>4, <2>5, <2>6 DEF FollowedInv
<1>2. FollowedInv /\ [Next]_vars => FollowedInv'
  BY NextFollows
<1>3. FollowedInv => ReplayAgrees
  BY DEF FollowedInv, ReplayAgrees, Agree
<1> QED BY <1>1, <1>2, <1>3, PTL DEF Spec
=============================================================================
