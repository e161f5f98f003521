--------------------------- MODULE KeyframeCommands ---------------------------
(***************************************************************************)
(* The commands that edit the motion of a model (emapp/src/command,         *)
(* emapp/src/CommandRegistrator.cc), and the recovery that replays them     *)
(* from the messages they write.                                           *)
(*                                                                         *)
(* A motion maps the bones and frames to keyframes; a keyframe is the       *)
(* value it holds and the shape of its interpolation curve.  The project    *)
(* recovered from the log is kept beside the project in use: a command is   *)
(* recorded before it is performed, and performed there as it is read.     *)
(* The selection of keyframes, the dirty flags of bones and the keyframes   *)
(* of morphs and of the model itself are left out, and so are transforms,   *)
(* which change no motion.                                                 *)
(***************************************************************************)
EXTENDS UndoStacks, FiniteSetsExt

CONSTANTS
  Bones,
  Values,         (* what a keyframe holds beside its curve *)
  DefaultValue,   (* the one of a keyframe without translation and rotation *)
  NULL,
  LastFrame,      (* bound of the timeline *)
  Columns,        (* the frames whose column the user removes *)
  Adjusts,        (* isBezierCurveAdjustmentEnabled() *)
  MaxSelected,    (* bound of the keyframes a command is about *)
  MaxPushes       (* bound of the commands the user issues *)

ASSUME FrameAssumption == LastFrame \in Nat \ {0} /\ Columns \subseteq 0 .. LastFrame
ASSUME ValueAssumption == DefaultValue \in Values
ASSUME SwitchAssumption == Adjusts \in BOOLEAN

VARIABLES
  project,     (* the project in use: its motion and its undo stacks *)
  recovered,   (* the project a recovery makes of the records so far *)
  moved,       (* whether the user moved keyframes, a command of another stack *)
  undefined,   (* whether keyframes of a destroyed motion were used *)
  pushes

vars == <<project, recovered, moved, undefined, pushes>>

Frames == 0 .. LastFrame
Owners == {"model", "project"}
Curves == {"linear", "automatic", "split"}
Keyframe == [value : Values, curve : Curves]
Slot == Keyframe \cup {NULL}
ASSUME NullAssumption == NULL \notin Keyframe /\ NULL \notin Frames
Motion == [Bones -> [Frames -> Slot]]

Default == [value |-> DefaultValue, curve |-> "linear"]
Found(motion, bone, frame) == motion[bone][frame] # NULL
Keys(motion) == {k \in Bones \X Frames : Found(motion, k[1], k[2])}
Selections(motion) == {K \in SUBSET Keys(motion) : K # {} /\ Cardinality(K) <= MaxSelected}

(* initialize: a motion starts with a keyframe of every bone at frame 0.    *)
NewMotion == [b \in Bones |-> [f \in Frames |-> IF f = 0 THEN Default ELSE NULL]]
NewProject == [motion |-> NewMotion, stack |-> [o \in Owners |-> EmptyStack]]

Init ==
  /\ project = NewProject
  /\ recovered = NewProject
  /\ moved = FALSE
  /\ undefined = FALSE
  /\ pushes = 0

-----------------------------------------------------------------------------
(* The keyframes of a command: where each is, whether it was there already  *)
(* (m_updated), m_state, and the keyframe before it whose curve it adjusts. *)

(* nanoemMotionSearchClosestBoneKeyframes; the keyframe it finds after one  *)
(* that is the last is an earlier one, which the callers tell by its frame. *)
Before(motion, bone, frame) == {f \in 0 .. frame - 1 : Found(motion, bone, f)}
After(motion, bone, frame) == {f \in frame + 1 .. LastFrame : Found(motion, bone, f)}

(* The curves of the keyframe before and of the new one once it is there.   *)
Adjusted(motion, bone, frame, previous) ==
  LET curve == motion[bone][previous].curve
  IN CASE ~Adjusts -> [previous |-> curve, new |-> "linear"]
       [] Adjusts /\ curve = "linear" -> [previous |-> "automatic", new |-> "linear"]
       [] Adjusts /\ curve # "linear" /\ After(motion, bone, frame) # {} ->
            [previous |-> "split", new |-> "split"]
       [] OTHER -> [previous |-> curve, new |-> "linear"]

(* AddBoneKeyframeCommand::toKeyframe.                                      *)
toAddedKeyframe(motion, bone, frame, value) ==
  LET key == [bone |-> bone, frame |-> frame, updated |-> frame = 0,
              first |-> [value |-> value, curve |-> "linear"], second |-> Default,
              target |-> NULL, current |-> "linear", last |-> "linear"]
      previous == Max(Before(motion, bone, frame))
      curves == Adjusted(motion, bone, frame, previous)
  IN CASE Found(motion, bone, frame) ->
            [key EXCEPT !.updated = TRUE, !.second = motion[bone][frame]]
       [] ~Found(motion, bone, frame) /\ Before(motion, bone, frame) # {} ->
            [key EXCEPT !.first.curve = curves.new,
                        !.target = previous,
                        !.current = curves.previous,
                        !.last = motion[bone][previous].curve]
       [] OTHER -> key

(* Mutant of toRemovedKeyframe: the keyframe at frame 0 is like any other.  *)
toRemovedKeyframeAnywhere(motion, bone, frame) ==
  [bone |-> bone, frame |-> frame, updated |-> FALSE,
   first |-> motion[bone][frame], second |-> Default,
   target |-> NULL, current |-> "linear", last |-> "linear"]

(* RemoveBoneKeyframeCommand::toKeyframeList: a keyframe at frame 0 is not  *)
(* removed, it is given the default state.                                 *)
toRemovedKeyframe(motion, bone, frame) ==
  [bone |-> bone, frame |-> frame, updated |-> frame = 0,
   first |-> motion[bone][frame], second |-> Default,
   target |-> NULL, current |-> "linear", last |-> "linear"]

(* Mutant of readKeyframe: what removes is read like what adds.             *)
readKeyframeAsAdded(motion, key, removing) ==
  [key EXCEPT !.updated = Found(motion, key.bone, key.frame), !.target = NULL]

(* readMessage and setFrameIndex: what a record holds of a keyframe, which  *)
(* leaves out the keyframe before it.                                      *)
readKeyframe(motion, key, removing) ==
  [key EXCEPT !.updated = ~(removing /\ key.frame > 0) /\ Found(motion, key.bone, key.frame),
              !.target = NULL]

-----------------------------------------------------------------------------
(* What the commands do to a motion.                                       *)

Has(keys, bone, frame) == \E k \in keys : k.bone = bone /\ k.frame = frame
Of(keys, bone, frame) == CHOOSE k \in keys : k.bone = bone /\ k.frame = frame

(* addKeyframe: a keyframe that is not as the command expects it is left.   *)
addKeyframe(motion, keys) ==
  [b \in Bones |-> [f \in Frames |->
     IF Has(keys, b, f) /\ Of(keys, b, f).updated = Found(motion, b, f)
     THEN Of(keys, b, f).first ELSE motion[b][f]]]

(* removeKeyframe stops at the first keyframe it should remove and does not *)
(* find; the order of the keyframes is that of a hash table.               *)
Reached(motion, keys) ==
  LET there == {k \in keys : k.updated \/ Found(motion, k.bone, k.frame)}
  IN IF there = keys THEN {keys} ELSE SUBSET there

removeKeyframe(motion, keys) ==
  {[b \in Bones |-> [f \in Frames |->
      IF Has(R, b, f) /\ Found(motion, b, f)
      THEN IF Of(R, b, f).updated THEN Of(R, b, f).second ELSE NULL
      ELSE motion[b][f]]] : R \in Reached(motion, keys)}

(* The loop after both in AddBoneKeyframeCommand: the curves of the         *)
(* keyframes before, adjusted or as they were.                              *)
Targets(keys, bone, frame) == {k \in keys : k.bone = bone /\ k.target = frame}
Overridden(motion, keys, undoing) ==
  [b \in Bones |-> [f \in Frames |->
     LET k == CHOOSE k \in Targets(keys, b, f) : TRUE
     IN IF Targets(keys, b, f) # {} /\ Found(motion, b, f)
        THEN [motion[b][f] EXCEPT !.curve = IF undoing THEN k.last ELSE k.current]
        ELSE motion[b][f]]]

Nothing == [b \in Bones |-> NULL]
Column(motion, frame) == [b \in Bones |-> motion[b][frame]]

(* Mutant of Backward: the keyframes of the column stay with the command.   *)
BackwardWithoutColumn(motion, frame, kept) ==
  IF frame = 0 THEN motion
  ELSE [b \in Bones |-> [f \in Frames |->
          CASE f < frame -> motion[b][f]
            [] f = frame -> NULL
            [] f > frame -> motion[b][f - 1]]]

(* shiftAllKeyframesBackward makes room at a frame for the column kept, and *)
(* shiftAllKeyframesForward takes the column out.                          *)
Backward(motion, frame, kept) ==
  IF frame = 0 THEN motion
  ELSE [b \in Bones |-> [f \in Frames |->
          CASE f < frame -> motion[b][f]
            [] f = frame -> kept[b]
            [] f > frame -> motion[b][f - 1]]]

Forward(motion, frame) ==
  [b \in Bones |-> [f \in Frames |->
     CASE f < frame -> motion[b][f]
       [] f >= frame /\ f < LastFrame -> motion[b][f + 1]
       [] OTHER -> NULL]]

(* The frames beyond the bound of the timeline stay empty.                  *)
HasRoom(motion) == \A b \in Bones : ~Found(motion, b, LastFrame)

(* correctAllSelectedBoneKeyframes, whose factors give any other value.     *)
Corrected(motion, K, value) ==
  [b \in Bones |-> [f \in Frames |->
     IF <<b, f>> \in K THEN [motion[b][f] EXCEPT !.value = value] ELSE motion[b][f]]]

(* internalMoveAllSelectedModelKeyframes: the selected keyframes replace    *)
(* what is at their new frames; one at frame 0 stays, and a later frame     *)
(* gets a copy of it unless there is a keyframe.                            *)
Movers(K, bone, delta) == {f \in Frames : <<bone, f>> \in K /\ f > 0 /\ f + delta >= 0}
Shifted(motion, K, delta) ==
  [b \in Bones |-> [f \in Frames |->
     CASE f - delta \in Movers(K, b, delta) -> motion[b][f - delta]
       [] f - delta \notin Movers(K, b, delta) /\ f \in Movers(K, b, delta) -> NULL
       [] OTHER -> motion[b][f]]]
Copies(K, delta) == {b \in Bones : <<b, 0>> \in K /\ delta > 0}
Blocked(motion, K, delta) ==
  \E b \in Copies(K, delta) : Found(Shifted(motion, K, delta), b, delta)
MovedBy(motion, K, delta) ==
  LET shifted == Shifted(motion, K, delta)
  IN [b \in Bones |-> [f \in Frames |->
        IF b \in Copies(K, delta) /\ f = delta /\ ~Found(shifted, b, f)
        THEN motion[b][0] ELSE shifted[b][f]]]

-----------------------------------------------------------------------------
(* The commands on the undo stacks.  before and after are the motion around *)
(* the command; a MotionSnapshotCommand holds them (m_snapshot).  kept is   *)
(* the column a shift took out (m_boneKeyframes), alive while the motion    *)
(* its keyframes belong to exists.                                         *)
Command(kind, keys, frame, before, after) ==
  [kind |-> kind, keys |-> keys, frame |-> frame, kept |-> Nothing, alive |-> TRUE,
   before |-> before, after |-> after]

Redos(c, motion) ==
  CASE c.kind = "add" ->
         {Overridden(addKeyframe(motion, c.keys), c.keys, FALSE)}
    [] c.kind = "remove" -> removeKeyframe(motion, c.keys)
    [] c.kind = "insertFrame" -> {Backward(motion, c.frame, c.kept)}
    [] c.kind = "removeFrame" -> {Forward(motion, c.frame)}
    [] c.kind = "snapshot" -> {c.after}

(* Mutant of Undos: the curve of the keyframe before keeps its adjustment.  *)
UndosAdjusted(c, motion) ==
  CASE c.kind = "add" -> removeKeyframe(motion, c.keys)
    [] c.kind = "remove" -> {addKeyframe(motion, c.keys)}
    [] c.kind = "insertFrame" -> {Forward(motion, c.frame)}
    [] c.kind = "removeFrame" -> {Backward(motion, c.frame, c.kept)}
    [] c.kind = "snapshot" -> {c.before}

Undos(c, motion) ==
  CASE c.kind = "add" ->
         {Overridden(m, c.keys, TRUE) : m \in removeKeyframe(motion, c.keys)}
    [] c.kind = "remove" -> {addKeyframe(motion, c.keys)}
    [] c.kind = "insertFrame" -> {Forward(motion, c.frame)}
    [] c.kind = "removeFrame" -> {Backward(motion, c.frame, c.kept)}
    [] c.kind = "snapshot" -> {c.before}

Shifts(c) == c.kind \in {"insertFrame", "removeFrame"}

(* A shift forward fills the list of its command, one backward empties it.  *)
(* What a shift does is what its next undo or redo has to take back.        *)
AfterRedo(c, from, to) ==
  IF Shifts(c)
  THEN [c EXCEPT !.kept = IF c.kind = "removeFrame" THEN Column(from, c.frame) ELSE Nothing,
                 !.alive = TRUE, !.before = from, !.after = to]
  ELSE c

AfterUndo(c, from, to) ==
  IF Shifts(c)
  THEN [c EXCEPT !.kept = IF c.kind = "insertFrame" THEN Column(from, c.frame) ELSE Nothing,
                 !.alive = TRUE, !.before = to, !.after = from]
  ELSE c

(* MotionSnapshotCommand::execute destroys the nanoem_motion_t, and with it *)
(* what the keyframes kept by other commands refer to.                      *)
Destroyed(s) ==
  [s EXCEPT !.commands =
     [i \in DOMAIN @ |-> [@[i] EXCEPT !.alive = (s.commands[i].kept = Nothing)]]]
Settled(stack, c) ==
  IF c.kind = "snapshot" THEN [o \in Owners |-> Destroyed(stack[o])] ELSE stack

(* A shift backward asks the keyframes it adds again for their name.        *)
UsesKept(c, backward) == c.kind = backward /\ ~c.alive

(* undoStackPushCommand, undoStackUndo and undoStackRedo with a command.    *)
Performed(p, owner, c, motion) ==
  [motion |-> motion,
   stack |-> Settled([p.stack EXCEPT ![owner] = Pushed(@, AfterRedo(c, p.motion, motion))], c)]

UndonePerformed(p, owner, motion) ==
  LET s == p.stack[owner]
      c == AfterUndo(Below(s), p.motion, motion)
  IN [motion |-> motion,
      stack |-> Settled([p.stack EXCEPT ![owner] =
                  Undone([s EXCEPT !.commands[s.current] = c])], c)]

RedonePerformed(p, owner, motion) ==
  LET s == p.stack[owner]
      c == AfterRedo(Above(s), p.motion, motion)
  IN [motion |-> motion,
      stack |-> Settled([p.stack EXCEPT ![owner] =
                  Redone([s EXCEPT !.commands[s.current + 1] = c])], c)]

-----------------------------------------------------------------------------
(* The recovery.  A redo record is replayed as a new command on the stack   *)
(* of the model, an undo record on the stack of the active model.  The      *)
(* record of a move is replayed on another stack than the one it was made   *)
(* on (README.md): the recovered project is followed up to the first move.  *)

Read(c, motion) ==
  LET removing == c.kind = "remove"
  IN [c EXCEPT !.keys = {readKeyframe(motion, k, removing) : k \in c.keys}, !.kept = Nothing,
               !.alive = TRUE]

ReplayedPush(c) ==
  \E motion \in Redos(Read(c, recovered.motion), recovered.motion) :
    recovered' = Performed(recovered, "model", Read(c, recovered.motion), motion)

ReplayedUndo ==
  IF CanUndo(recovered.stack["model"])
  THEN \E motion \in Undos(Below(recovered.stack["model"]), recovered.motion) :
         recovered' = UndonePerformed(recovered, "model", motion)
  ELSE UNCHANGED recovered

-----------------------------------------------------------------------------
(* The user's commands (CommandRegistrator), none while playing.            *)

CanPush == ~undefined /\ pushes < MaxPushes

(* A command of the model is pushed, which performs it, and recorded.       *)
PushModel(c) ==
  /\ \E motion \in Redos(c, project.motion) :
       project' = Performed(project, "model", [c EXCEPT !.after = motion], motion)
  /\ IF moved THEN UNCHANGED recovered ELSE ReplayedPush(c)
  /\ pushes' = pushes + 1
  /\ UNCHANGED <<moved, undefined>>

(* The bones that are selected get a keyframe of their pose at the frame.   *)
AddKeyframes ==
  /\ CanPush
  /\ \E B \in SUBSET Bones \ {{}}, frame \in Frames, value \in Values :
       PushModel(Command("add",
                         {toAddedKeyframe(project.motion, b, frame, value) : b \in B},
                         frame, project.motion, project.motion))

RemoveKeyframes ==
  /\ CanPush
  /\ \E K \in Selections(project.motion) :
       PushModel(Command("remove",
                         {toRemovedKeyframe(project.motion, k[1], k[2]) : k \in K},
                         0, project.motion, project.motion))

InsertEmptyTimelineFrame ==
  /\ CanPush
  /\ HasRoom(project.motion)
  /\ \E frame \in Frames \ {0} :
       PushModel(Command("insertFrame", {}, frame, project.motion, project.motion))

RemoveTimelineFrame ==
  /\ CanPush
  /\ \E frame \in Columns :
       PushModel(Command("removeFrame", {}, frame, project.motion, project.motion))

(* The motion is corrected first; the command, of two snapshots, puts the   *)
(* second of them in place when it is pushed.                              *)
CorrectAllSelectedBoneKeyframes ==
  /\ CanPush
  /\ \E K \in Selections(project.motion), value \in Values :
       PushModel(Command("snapshot", {}, 0, project.motion,
                         Corrected(project.motion, K, value)))

(* registerMoveAllSelectedKeyframesCommand.  The status of the last         *)
(* keyframe decides: when it is a copy that found a keyframe in its way     *)
(* nothing is pushed, although the motion has changed.                      *)
MoveAllSelectedKeyframes ==
  /\ CanPush
  /\ \E K \in Selections(project.motion), delta \in -LastFrame .. LastFrame :
       LET motion == MovedBy(project.motion, K, delta)
       IN /\ delta # 0
          /\ \A k \in K : k[2] + delta <= LastFrame
          /\ \/ project' = Performed(project, "project",
                              Command("snapshot", {}, 0, project.motion, motion), motion)
             \/ /\ Blocked(project.motion, K, delta)
                /\ project' = [project EXCEPT !.motion = motion]
  /\ pushes' = pushes + 1
  /\ moved' = TRUE
  /\ UNCHANGED <<recovered, undefined>>

(* handleUndoAction and handleRedoAction, with the model active or not.     *)
Undo(owner) ==
  /\ ~undefined
  /\ CanUndo(project.stack[owner])
  /\ LET c == Below(project.stack[owner])
     IN /\ ~UsesKept(c, "removeFrame")
        /\ c.kind = "removeFrame" => c.frame = 0 \/ HasRoom(project.motion)
        /\ \E motion \in Undos(c, project.motion) :
             project' = UndonePerformed(project, owner, motion)
  /\ IF moved THEN UNCHANGED recovered ELSE ReplayedUndo
  /\ UNCHANGED <<moved, undefined, pushes>>

Redo(owner) ==
  /\ ~undefined
  /\ CanRedo(project.stack[owner])
  /\ LET c == Above(project.stack[owner])
     IN /\ ~UsesKept(c, "insertFrame")
        /\ c.kind = "insertFrame" => HasRoom(project.motion)
        /\ \E motion \in Redos(c, project.motion) :
             project' = RedonePerformed(project, owner, motion)
        /\ IF moved THEN UNCHANGED recovered ELSE ReplayedPush(c)
  /\ UNCHANGED <<moved, undefined, pushes>>

(* The keyframes a command kept belong to a motion that was destroyed since *)
(* (README.md): nothing is known of the program once they were used.        *)
UseDestroyedMotion(owner) ==
  /\ ~undefined
  /\ LET s == project.stack[owner]
     IN \/ CanUndo(s) /\ UsesKept(Below(s), "removeFrame")
        \/ CanRedo(s) /\ UsesKept(Above(s), "insertFrame")
  /\ undefined' = TRUE
  /\ UNCHANGED <<project, recovered, moved, pushes>>

Next ==
  \/ AddKeyframes
  \/ RemoveKeyframes
  \/ InsertEmptyTimelineFrame
  \/ RemoveTimelineFrame
  \/ CorrectAllSelectedBoneKeyframes
  \/ MoveAllSelectedKeyframes
  \/ \E owner \in Owners : Undo(owner) \/ Redo(owner) \/ UseDestroyedMotion(owner)

Spec == Init /\ [][Next]_vars

-----------------------------------------------------------------------------
CommandKey ==
  [bone : Bones, frame : Frames, updated : BOOLEAN, first : Keyframe, second : Keyframe,
   target : Frames \cup {NULL}, current : Curves, last : Curves]

Commands ==
  [kind : {"add", "remove", "insertFrame", "removeFrame", "snapshot"},
   keys : SUBSET CommandKey, frame : Frames, kept : [Bones -> Slot], alive : BOOLEAN,
   before : Motion, after : Motion]

ProjectIsTyped(p) ==
  /\ p.motion \in Motion
  /\ \A o \in Owners :
       /\ p.stack[o].commands \in Seq(Commands)
       /\ p.stack[o].current \in 0 .. Len(p.stack[o].commands)
       /\ Len(p.stack[o].commands) <= Limit

(* The motions hold keyframes and nothing else, the stacks stay within      *)
(* their limit, and every command on them has its keyframes and snapshots.  *)
TypeOK ==
  /\ ProjectIsTyped(project) /\ ProjectIsTyped(recovered)
  /\ moved \in BOOLEAN /\ undefined \in BOOLEAN /\ pushes \in 0 .. MaxPushes

(* The inverse: undoing a command where the motion is as the command left   *)
(* it gives the motion that was there before, curves of other keyframes and *)
(* removed columns included, and redoing it there gives what it made: also  *)
(* when commands of the other stack were performed in between.             *)
TakesBack(owner) ==
  LET s == project.stack[owner]
      t == project'.stack[owner]
  IN /\ (t.current < s.current /\ project.motion = Below(s).after)
          => project'.motion = Below(s).before
     /\ (t.current > s.current /\ pushes' = pushes /\ project.motion = Above(s).before)
          => project'.motion = Above(s).after
UndoIsTheInverse == [][\A owner \in Owners : TakesBack(owner)]_vars

(* Every bone keeps a keyframe at frame 0 whatever is removed, shifted,     *)
(* moved, undone and redone in which order: the interpolation of a bone     *)
(* starts from it, and nothing may remove it (docs/application.rst).        *)
FirstKeyframeStays == \A b \in Bones : Found(project.motion, b, 0)

(* What a recovery makes of the records has the keyframes of the motion     *)
(* that was lost, with their values: though records leave out the curve     *)
(* before, tell additions from changes only when read, and turn redos into  *)
(* new commands.                                                           *)
ReplayAgrees ==
  ~moved => \A b \in Bones, f \in Frames :
              /\ Found(project.motion, b, f) = Found(recovered.motion, b, f)
              /\ Found(project.motion, b, f)
                   => project.motion[b][f].value = recovered.motion[b][f].value
=============================================================================
